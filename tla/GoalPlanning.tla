---------------------------- MODULE GoalPlanning ----------------------------
(***************************************************************************)
(* From an operator's create-Goal command to one Ready Task: three         *)
(* commands (create the Goal, record the DIRECT plan, materialize it)      *)
(* whose identities are derived from the operator's command, retried by    *)
(* any caller after a lost response or a crash, against cancellation and   *)
(* the activation of new configurations.                                   *)
(*                                                                         *)
(* A Goal stands for the command that creates it, its planning operation   *)
(* and its Task.  A GoalSpec never changes once stored, so the Goal        *)
(* revision, its digest and the proposal digest always agree and are left  *)
(* out.  No code adds an edge to a graph: a new Task is Ready.             *)
(***************************************************************************)
EXTENDS Naturals

CONSTANTS
    Goals,           \* operator create commands
    Callers,         \* concurrent deliveries of those commands
    NoGoal,
    Unresolvable,    \* activation sequences whose registry lacks the evaluator
    MaxConfig,       \* bound on the activation sequence
    MaxFaults        \* bound on lost calls

ASSUME PlanningAssumption ==
    /\ NoGoal \notin Goals
    /\ MaxConfig \in Nat \ {0}
    /\ Unresolvable \subseteq 1 .. MaxConfig
    /\ MaxFaults \in Nat

VARIABLES
    config,   \* active_configuration.activation_sequence
    goal,     \* goals.phase; "none" before the row exists
    graph,    \* task_graphs.revision
    op,       \* planning_operations: state and frozen preconditions
    task,     \* tasks: phase, pinned configuration and evaluator registry
    ledger,   \* derived command identities that committed
    call,     \* each caller's progress and what it has read
    faults

vars == <<config, goal, graph, op, task, ledger, call, faults>>
rows == <<goal, graph, op, task, ledger>>

Idle == [step |-> "idle", goal |-> NoGoal, graph |-> 0, config |-> 0, registry |-> 0]

Init ==
    /\ config = 1
    /\ goal = [g \in Goals |-> "none"]
    /\ graph = [g \in Goals |-> 0]
    /\ op = [g \in Goals |-> [state |-> "none", graph |-> 0, config |-> 0]]
    /\ task = [g \in Goals |-> [phase |-> "none", config |-> 0, registry |-> 0]]
    /\ ledger = {}
    /\ call = [c \in Callers |-> Idle]
    /\ faults = 0

----------------------------------------------------------------------------
At(c, step) == call[c].step = step
Goto(c, step) == call' = [call EXCEPT ![c].step = step]
Return(c) == call' = [call EXCEPT ![c] = Idle]
Of(c) == call[c].goal

\* execute_command under an identity derived by CommandIdentity::step.
New(c, step) == <<Of(c), step>> \notin ledger
Record(c, step) == ledger' = ledger \cup {<<Of(c), step>>}

Begin(c, g) ==
    /\ At(c, "idle")
    /\ call' = [call EXCEPT ![c] = [Idle EXCEPT !.step = "create", !.goal = g]]
    /\ UNCHANGED <<config, rows, faults>>

\* Store::create_goal: the Goal in Planning, and its empty graph.
CreateGoal(c) ==
    /\ At(c, "create")
    /\ New(c, "create")
    /\ goal' = [goal EXCEPT ![Of(c)] = "Planning"]
    /\ Record(c, "create")
    /\ Goto(c, "plan")
    /\ UNCHANGED <<config, graph, op, task, faults>>

CreateReplayed(c) ==
    /\ At(c, "create")
    /\ ~New(c, "create")
    /\ Goto(c, "plan")
    /\ UNCHANGED <<config, rows, faults>>

\* PlanningController::context, for plan.
ReadForPlan(c) ==
    /\ At(c, "plan")
    /\ call' = [call EXCEPT ![c].graph = graph[Of(c)], ![c].config = config,
                            ![c].step = "record"]
    /\ UNCHANGED <<config, rows, faults>>

\* Store::record_direct_planning: evidence only.
RecordPlan(c) ==
    /\ At(c, "record")
    /\ New(c, "plan")
    /\ op' = [op EXCEPT ![Of(c)] = [state |-> "Planned", graph |-> call[c].graph,
                                    config |-> call[c].config]]
    /\ Record(c, "plan")
    /\ Goto(c, "readPointer")
    /\ UNCHANGED <<config, goal, graph, task, faults>>

PlanReplayed_Refused(c) ==
    /\ At(c, "record")
    /\ ~New(c, "plan")
    /\ Return(c)
    /\ UNCHANGED <<config, rows, faults>>

\* The first decision stands, with the preconditions it froze.
PlanReplayed(c) ==
    /\ At(c, "record")
    /\ ~New(c, "plan")
    /\ Goto(c, "readPointer")
    /\ UNCHANGED <<config, rows, faults>>

\* context, for validate: the pointer and the evaluator registry are two reads.
ReadPointer(c) ==
    /\ At(c, "readPointer")
    /\ call' = [call EXCEPT ![c].config = config, ![c].step = "readRegistry"]
    /\ UNCHANGED <<config, rows, faults>>

\* validate refuses a proposal whose evaluator the registry does not resolve.
ReadRegistry(c) ==
    /\ At(c, "readRegistry")
    /\ call' = IF config \in Unresolvable
               THEN [call EXCEPT ![c] = Idle]
               ELSE [call EXCEPT ![c].registry = config, ![c].step = "materialize"]
    /\ UNCHANGED <<config, rows, faults>>

----------------------------------------------------------------------------
(* Materialization re-reads what the decision froze.                       *)

Current_ConfigIgnored(g) ==
    /\ op[g].state = "Planned"
    /\ graph[g] = op[g].graph

Current(g) ==
    /\ op[g].state = "Planned"
    /\ graph[g] = op[g].graph
    /\ config = op[g].config

\* Only a Goal still in Planning becomes Active.
GoalAfter(g) == IF goal[g] = "Planning" THEN "Active" ELSE goal[g]

OpAfter_Unspent(g) == op[g]
OpAfter(g) == [op[g] EXCEPT !.state = "Materialized"]

\* prerequisites_satisfied: no edge leads to the Task.
InitialPhase(g) == "Ready"

Materialize(c) ==
    /\ At(c, "materialize")
    /\ New(c, "materialize")
    /\ Current(Of(c))
    /\ task' = [task EXCEPT ![Of(c)] = [phase |-> InitialPhase(Of(c)), config |-> call[c].config,
                                        registry |-> call[c].registry]]
    /\ graph' = [graph EXCEPT ![Of(c)] = @ + 1]
    /\ goal' = [goal EXCEPT ![Of(c)] = GoalAfter(Of(c))]
    /\ op' = [op EXCEPT ![Of(c)] = OpAfter(Of(c))]
    /\ Record(c, "materialize")
    /\ Return(c)
    /\ UNCHANGED <<config, faults>>

\* A replay answers; a stale decision is refused.
MaterializeReturns(c) ==
    /\ At(c, "materialize")
    /\ New(c, "materialize") => ~Current(Of(c))
    /\ Return(c)
    /\ UNCHANGED <<config, rows, faults>>

CallLost(c) ==
    /\ ~At(c, "idle")
    /\ faults < MaxFaults
    /\ faults' = faults + 1
    /\ Return(c)
    /\ UNCHANGED <<config, rows>>

----------------------------------------------------------------------------
\* fence_tasks: every nonterminal Task not yet heading for Cancelled.
Fenced_None(g) == task[g]
Fenced(g) ==
    IF task[g].phase = "none" THEN task[g] ELSE [task[g] EXCEPT !.phase = "Finalizing"]

\* Store::cancel_goal, in every phase the Goal may have here; cancelling again
\* leaves the Goal and fences its Tasks.
CancelGoal(g) ==
    /\ goal[g] # "none"
    /\ goal' = [goal EXCEPT ![g] = "Finalizing"]
    /\ task' = [task EXCEPT ![g] = Fenced(g)]
    /\ UNCHANGED <<config, graph, op, ledger, call, faults>>

\* Every activation takes a new sequence.
ActivateConfiguration ==
    /\ config < MaxConfig
    /\ config' = config + 1
    /\ UNCHANGED <<rows, call, faults>>

Serve(c) ==
    \/ CreateGoal(c) \/ CreateReplayed(c)
    \/ ReadForPlan(c) \/ RecordPlan(c) \/ PlanReplayed(c)
    \/ ReadPointer(c) \/ ReadRegistry(c)
    \/ Materialize(c) \/ MaterializeReturns(c)

Next ==
    \/ \E c \in Callers : Serve(c) \/ CallLost(c)
    \/ \E c \in Callers, g \in Goals : Begin(c, g)
    \/ \E g \in Goals : CancelGoal(g)
    \/ ActivateConfiguration

Spec == Init /\ [][Next]_vars

\* A server finishes the call it began, and a client without an answer sends
\* its command again.
FairSpec ==
    /\ Spec
    /\ \A c \in Callers : WF_vars(Serve(c))
    /\ \A g \in Goals : SF_vars(\E c \in Callers : Begin(c, g))

----------------------------------------------------------------------------
TypeOK ==
    /\ config \in 1 .. MaxConfig
    /\ goal \in [Goals -> {"none", "Planning", "Active", "Finalizing"}]
    /\ graph \in [Goals -> 0 .. 1]
    /\ op \in [Goals -> [state : {"none", "Planned", "Materialized"}, graph : {0},
                         config : 0 .. MaxConfig]]
    /\ task \in [Goals -> [phase : {"none", "Ready", "Finalizing"},
                           config : 0 .. MaxConfig, registry : 0 .. MaxConfig]]
    /\ ledger \subseteq Goals \X {"create", "plan", "materialize"}
    /\ call \in [Callers -> [step : {"idle", "create", "plan", "record", "readPointer",
                                     "readRegistry", "materialize"},
                             goal : Goals \cup {NoGoal}, graph : 0 .. 1,
                             config : 0 .. MaxConfig, registry : 0 .. MaxConfig]]
    /\ faults \in 0 .. MaxFaults

\* A decision is spent exactly once, with the one patch it made: the Task, the
\* graph revision and the operation's state agree, whichever caller patched.
SpentOnce ==
    \A g \in Goals :
        /\ (op[g].state = "Materialized") <=> (task[g].phase # "none")
        /\ (op[g].state = "Materialized") <=> (graph[g] = 1)

\* The Task's acceptance is pinned to one configuration: the sequence it names,
\* the registry its evaluators were resolved in and the one the decision froze
\* are the same, although a caller reads them at three different times.
OneConfiguration ==
    \A g \in Goals :
        task[g].phase # "none" =>
            task[g].config = op[g].config /\ task[g].registry = op[g].config

\* A Goal is Active only with a coherent graph.
ActiveHasTask == \A g \in Goals : goal[g] = "Active" => task[g].phase = "Ready"

\* Cancellation is never undone, in particular by a materialization that was
\* already under way.
CancellationStands ==
    [][\A g \in Goals : goal[g] = "Finalizing" => goal'[g] = "Finalizing"]_vars

\* Cancellation leaves no schedulable Task of the Goal behind in its own
\* transaction.
CancellationFences ==
    [][\A g \in Goals :
         goal[g] # "Finalizing" /\ goal'[g] = "Finalizing" => task'[g].phase # "Ready"]_vars

\* The decision of a Goal that an activation overtook: materialize refuses it
\* for ever, and a retried request replays it and never plans again.
Stranded(g) == op[g].state = "Planned" /\ op[g].config # config

\* A created Goal is completed by the same request: sooner or later it leaves
\* Planning, for Active with its Task unless it is cancelled.  The exceptions
\* are a stranded decision and a configuration without the evaluator.
RequestCompletes ==
    \A g \in Goals :
        goal[g] = "Planning" ~>
            goal[g] # "Planning" \/ Stranded(g) \/ config \in Unresolvable

=============================================================================
