------------------------------ MODULE Dispatch ------------------------------
(***************************************************************************)
(* SchedulingController::schedule_once and the T3 Run-intent transaction:  *)
(* eligibility, order, the walk with durable backoff, and the commit, each *)
(* reading at its own time while the operator pauses and resumes dispatch, *)
(* cancels Goals and activates configurations, and Runs end.               *)
(*                                                                         *)
(* Planning gives a Goal exactly one Task, so a Goal stands for its Task   *)
(* too.  Goal ids are numbers: their order is the tie-break of the code.   *)
(***************************************************************************)
EXTENDS Integers, FiniteSets, SequencesExt

CONSTANTS
    Goals,        \* Goal ids
    Schedulers,   \* threads running scheduling cycles
    Daemon,       \* the one among them that is the daemon's loop
    Unroutable,   \* Goals whose Task no backend makes an offer for, by "racing"
    NoGoal,
    MaxPauses,    \* bound on changes of the dispatch mode
    MaxConfig,    \* bound on the activation sequence
    MaxBackoffs   \* bound on the scheduling revision of a Task, by "racing"

ASSUME DispatchAssumption ==
    /\ Goals \subseteq Nat
    /\ Daemon \in Schedulers
    /\ Unroutable \in [BOOLEAN -> SUBSET Goals]
    /\ NoGoal \notin Goals
    /\ MaxPauses \in Nat /\ MaxConfig \in Nat \ {0}
    /\ MaxBackoffs \in [BOOLEAN -> Nat \ {0}]

VARIABLES
    sched,     \* scheduler_state: mode, revision, next service sequence
    served,    \* goal_scheduling_state.last_served_sequence, 0 when absent
    goal,      \* whether the Goal's phase lets Runs start
    task,      \* tasks.phase
    ready,     \* whether the Task's Workspace is Ready and Present
    waiting,   \* whether next_attempt_at lies in the future
    attempt,   \* task_scheduling_state.revision
    run,       \* phase of the Goal's Run, and the configurations it froze
    slot,      \* holder of the global execution slot
    config,    \* durable and published activation sequence, and the barrier
    cycle,     \* each scheduler's step and what it has read
    pauses,
    racing     \* whether cycles run besides the daemon's loop

vars == <<sched, served, goal, task, ready, waiting, attempt, run, slot, config,
          cycle, pauses, racing>>

lifecycle == <<goal, task, ready>>
backoff == <<waiting, attempt>>

Idle == [step |-> "idle", config |-> 0, revision |-> 0, queue |-> <<>>,
         attempts |-> [g \in Goals |-> 0], routed |-> 0, guidance |-> 0]

NoRun == [phase |-> "none", bound |-> 0, routed |-> 0, guidance |-> 0]

Init ==
    /\ sched = [mode |-> "RUNNING", revision |-> 1, next |-> 1]
    /\ served = [g \in Goals |-> 0]
    /\ goal = [g \in Goals |-> "open"]
    /\ task = [g \in Goals |-> "Ready"]
    /\ ready = [g \in Goals |-> FALSE]
    /\ waiting = [g \in Goals |-> FALSE]
    /\ attempt = [g \in Goals |-> 1]
    /\ run = [g \in Goals |-> NoRun]
    /\ slot = NoGoal
    /\ config = [active |-> 1, published |-> 1, locked |-> FALSE]
    /\ cycle = [s \in Schedulers |-> Idle]
    /\ pauses = 0
    /\ racing \in BOOLEAN

At(s, step) == cycle[s].step = step
Stop(s) == cycle' = [cycle EXCEPT ![s] = Idle]

----------------------------------------------------------------------------
(* Eligibility and order.                                                  *)

\* The candidates of scheduling_snapshot.
Eligible(g) ==
    /\ task[g] = "Ready"
    /\ goal[g] = "open"
    /\ ready[g]
    /\ ~waiting[g]
    /\ run[g].phase # "Active"

\* Least recently served Goal first, a Goal never served before all others.
Before(g, h) == served[g] < served[h] \/ (served[g] = served[h] /\ g < h)

ServiceOrder(candidates) == SetToSortSeq(candidates, Before)

----------------------------------------------------------------------------
(* One cycle.                                                              *)

\* The configuration is captured first; a held barrier blocks the read.
Capture(s) ==
    /\ At(s, "idle")
    /\ racing \/ s = Daemon
    /\ ~config.locked
    /\ cycle' = [cycle EXCEPT ![s].config = config.published, ![s].step = "snapshot"]
    /\ UNCHANGED <<sched, served, lifecycle, backoff, run, slot, config, pauses>>

\* One read transaction; a paused dispatcher suppresses the cycle.
Snapshot(s) ==
    /\ At(s, "snapshot")
    /\ cycle' = IF sched.mode = "PAUSED"
                THEN [cycle EXCEPT ![s] = Idle]
                ELSE [cycle EXCEPT ![s].revision = sched.revision,
                        ![s].queue = ServiceOrder({g \in Goals : Eligible(g)}),
                        ![s].attempts = attempt, ![s].step = "slot"]
    /\ UNCHANGED <<sched, served, lifecycle, backoff, run, slot, config, pauses>>

\* A held slot, or nothing to serve, ends the cycle.
CheckSlot(s) ==
    /\ At(s, "slot")
    /\ cycle' = IF slot # NoGoal \/ cycle[s].queue = <<>>
                THEN [cycle EXCEPT ![s] = Idle]
                ELSE [cycle EXCEPT ![s].step = "route"]
    /\ UNCHANGED <<sched, served, lifecycle, backoff, run, slot, config, pauses>>

Selected(s) == Head(cycle[s].queue)

\* The cycle moves on to the next Task of its order, or ends.
AfterDefer(s) ==
    IF Len(cycle[s].queue) > 1
    THEN [cycle EXCEPT ![s].queue = Tail(@), ![s].step = "route"]
    ELSE [cycle EXCEPT ![s] = Idle]

\* route_ready_task captures the published revision and reads the Task.
RouteBegin(s) ==
    /\ At(s, "route")
    /\ ~config.locked
    /\ task[Selected(s)] = "Ready"
    /\ cycle' = [cycle EXCEPT ![s].routed = config.published, ![s].step = "offers"]
    /\ UNCHANGED <<sched, served, lifecycle, backoff, run, slot, config, pauses>>

\* The Task moved on: nothing is recorded.
RouteMoved(s) ==
    /\ At(s, "route")
    /\ ~config.locked
    /\ task[Selected(s)] # "Ready"
    /\ cycle' = AfterDefer(s)
    /\ UNCHANGED <<sched, served, lifecycle, backoff, run, slot, config, pauses>>

\* No compatible offer, or another revision was published meanwhile.
Failed(s) == Selected(s) \in Unroutable[racing] \/ config.published # cycle[s].routed

\* An offer is selected while the captured revision is still published.
RouteEnd(s) ==
    /\ At(s, "offers")
    /\ ~config.locked
    /\ ~Failed(s)
    /\ cycle' = [cycle EXCEPT ![s].step = "prepare"]
    /\ UNCHANGED <<sched, served, lifecycle, backoff, run, slot, config, pauses>>

\* record_scheduling_backoff, by the revision the snapshot saw.
Defer(s) ==
    /\ At(s, "offers")
    /\ ~config.locked
    /\ Failed(s)
    /\ attempt[Selected(s)] = cycle[s].attempts[Selected(s)]
    /\ attempt' = [attempt EXCEPT ![Selected(s)] = @ + 1]
    /\ waiting' = [waiting EXCEPT ![Selected(s)] = TRUE]
    /\ cycle' = AfterDefer(s)
    /\ UNCHANGED <<sched, served, lifecycle, run, slot, config, pauses>>

\* A lost compare-and-set is an error of the cycle.
DeferConflicts(s) ==
    /\ At(s, "offers")
    /\ ~config.locked
    /\ Failed(s)
    /\ attempt[Selected(s)] # cycle[s].attempts[Selected(s)]
    /\ Stop(s)
    /\ UNCHANGED <<sched, served, lifecycle, backoff, run, slot, config, pauses>>

\* The guidance is read once more from the published revision.
Prepare(s) ==
    /\ At(s, "prepare")
    /\ ~config.locked
    /\ cycle' = [cycle EXCEPT ![s].guidance = config.published, ![s].step = "commit"]
    /\ UNCHANGED <<sched, served, lifecycle, backoff, run, slot, config, pauses>>

----------------------------------------------------------------------------
(* T3.                                                                     *)

\* Dispatch is running, at the revision the decision was made on.
Permitted(s) == sched.mode = "RUNNING" /\ sched.revision = cycle[s].revision

Configured_Any(s) == TRUE
\* The captured revision is still active, and the guidance is that revision's.
Configured(s) == config.active = cycle[s].config /\ cycle[s].guidance = cycle[s].config

Schedulable_Trusting(s) ==
    /\ ready[Selected(s)]
    /\ attempt[Selected(s)] = cycle[s].attempts[Selected(s)]

\* Task, Goal, Workspace and scheduling row as the decision saw them.
Schedulable(s) ==
    /\ task[Selected(s)] = "Ready"
    /\ goal[Selected(s)] = "open"
    /\ ready[Selected(s)]
    /\ attempt[Selected(s)] = cycle[s].attempts[Selected(s)]

SlotAfter_Free(g) == NoGoal
SlotAfter(g) == g

NextAfter == sched.next + 1

Admitted(s) == Permitted(s) /\ Configured(s) /\ Schedulable(s) /\ slot = NoGoal

CommitRunIntent(s) ==
    /\ At(s, "commit")
    /\ Admitted(s)
    /\ LET g == Selected(s) IN
       /\ run' = [run EXCEPT ![g] = [phase |-> "Active", bound |-> cycle[s].config,
                                     routed |-> cycle[s].routed,
                                     guidance |-> cycle[s].guidance]]
       /\ slot' = SlotAfter(g)
       /\ task' = [task EXCEPT ![g] = "Active"]
       /\ served' = [served EXCEPT ![g] = sched.next]
       /\ waiting' = [waiting EXCEPT ![g] = FALSE]
       /\ attempt' = [attempt EXCEPT ![g] = @ + 1]
    /\ sched' = [sched EXCEPT !.next = NextAfter, !.revision = @ + 1]
    /\ Stop(s)
    /\ UNCHANGED <<goal, ready, config, pauses>>

\* Contention or refusal: nothing is written.
CommitRefused(s) ==
    /\ At(s, "commit")
    /\ ~Admitted(s)
    /\ Stop(s)
    /\ UNCHANGED <<sched, served, lifecycle, backoff, run, slot, config, pauses>>

----------------------------------------------------------------------------
(* What else moves the state a decision rests on.                          *)

\* set_dispatch_mode, by the current revision; any other is refused.
SetDispatchMode ==
    /\ pauses < MaxPauses
    /\ pauses' = pauses + 1
    /\ \E mode \in {"RUNNING", "PAUSED"} :
          sched' = [sched EXCEPT !.mode = mode, !.revision = @ + 1]
    /\ UNCHANGED <<served, lifecycle, backoff, run, slot, config, cycle>>

\* The last change of the dispatch mode the operator makes.
Resume ==
    /\ pauses = MaxPauses
    /\ sched.mode = "PAUSED"
    /\ sched' = [sched EXCEPT !.mode = "RUNNING", !.revision = @ + 1]
    /\ UNCHANGED <<served, lifecycle, backoff, run, slot, config, cycle, pauses>>

CancelGoal(g) ==
    /\ goal[g] = "open"
    /\ goal' = [goal EXCEPT ![g] = "fenced"]
    /\ task' = [task EXCEPT ![g] = "Finalizing"]
    /\ UNCHANGED <<sched, served, ready, backoff, run, slot, config, cycle, pauses>>

WorkspaceReady(g) ==
    /\ ~ready[g]
    /\ ready' = [ready EXCEPT ![g] = TRUE]
    /\ UNCHANGED <<sched, served, goal, task, backoff, run, slot, config, cycle, pauses>>

BackoffElapses(g) ==
    /\ waiting[g]
    /\ attempt[g] < MaxBackoffs[racing]
    /\ waiting' = [waiting EXCEPT ![g] = FALSE]
    /\ UNCHANGED <<sched, served, lifecycle, attempt, run, slot, config, cycle, pauses>>

\* conclude_run frees the slot.
RunEnds(g) ==
    /\ run[g].phase = "Active"
    /\ run' = [run EXCEPT ![g].phase = "Ended"]
    /\ slot' = IF slot = g THEN NoGoal ELSE slot
    /\ UNCHANGED <<sched, served, lifecycle, backoff, config, cycle, pauses>>

\* ConfigurationAuthority::activate: commit, then swap, under the barrier.
ActivateConfiguration ==
    /\ ~config.locked
    /\ config.active < MaxConfig
    /\ config' = [config EXCEPT !.active = @ + 1, !.locked = TRUE]
    /\ UNCHANGED <<sched, served, lifecycle, backoff, run, slot, cycle, pauses>>

PublishConfiguration_Unswapped ==
    /\ config.locked
    /\ config' = [config EXCEPT !.locked = FALSE]
    /\ UNCHANGED <<sched, served, lifecycle, backoff, run, slot, cycle, pauses>>

PublishConfiguration ==
    /\ config.locked
    /\ config' = [config EXCEPT !.published = config.active, !.locked = FALSE]
    /\ UNCHANGED <<sched, served, lifecycle, backoff, run, slot, cycle, pauses>>

CycleStep(s) ==
    \/ Capture(s) \/ Snapshot(s) \/ CheckSlot(s)
    \/ RouteBegin(s) \/ RouteMoved(s) \/ RouteEnd(s) \/ Defer(s) \/ DeferConflicts(s)
    \/ Prepare(s) \/ CommitRunIntent(s) \/ CommitRefused(s)

Next ==
    /\ \/ \E s \in Schedulers : CycleStep(s)
       \/ \E g \in Goals :
            CancelGoal(g) \/ WorkspaceReady(g) \/ BackoffElapses(g) \/ RunEnds(g)
       \/ SetDispatchMode \/ Resume
       \/ ActivateConfiguration \/ PublishConfiguration
    /\ UNCHANGED racing

Spec == Init /\ [][Next]_vars

\* Time passes, Workspaces are prepared, Runs end, the barrier is released, and
\* an operator who paused resumes.
Progress ==
    \/ \E g \in Goals : WorkspaceReady(g) \/ BackoffElapses(g) \/ RunEnds(g)
    \/ PublishConfiguration
    \/ Resume

\* The daemon's scheduler loop ticks for ever, and what a Task waits for happens;
\* each part of Progress is finite here, so none can starve another.
FairSpec ==
    /\ Spec
    /\ WF_vars(CycleStep(Daemon) /\ UNCHANGED racing)
    /\ WF_vars(Progress /\ UNCHANGED racing)

----------------------------------------------------------------------------
\* At most one nonterminal Run exists, and it holds the slot, however two
\* decisions race.
OneNonterminalRun ==
    \A g \in Goals : run[g].phase = "Active" => slot = g

\* A Run is bound to one configuration: the revision it names, the one its
\* route was computed in and the one its guidance comes from, read at three
\* different times, are the same.
OneRevision ==
    \A g \in Goals :
        run[g].phase # "none" =>
            run[g].routed = run[g].bound /\ run[g].guidance = run[g].bound

\* Every service is charged its own sequence, in the order of commitment.
ChargedInOrder ==
    /\ \A g \in Goals : served[g] < sched.next
    /\ \A g, h \in Goals : g # h /\ served[g] = served[h] => served[g] = 0
    /\ \A g \in Goals : (served[g] # 0) <=> (run[g].phase # "none")

\* A pause fences every decision made before it: no Run starts until the
\* operator resumes.
PauseFences ==
    [][sched.mode = "PAUSED" => \A g \in Goals : run[g].phase = "none" => run'[g].phase = "none"]_vars

\* A cancelled Goal starts nothing, even when it was selected and routed before.
CancelFences ==
    [][\A g \in Goals :
         goal[g] = "fenced" /\ run[g].phase = "none" => run'[g].phase = "none"]_vars

\* A Task that can be routed is served by the daemon's loop in the end, unless
\* it is cancelled: an older Task nobody can run does not block the queue.
EventuallyServed ==
    \A g \in Goals :
        task[g] = "Ready" /\ ~racing /\ g \notin Unroutable[racing] ~>
            task[g] # "Ready"

=============================================================================
