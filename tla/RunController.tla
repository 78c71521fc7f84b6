---------------------------- MODULE RunController ----------------------------
(***************************************************************************)
(* The Run Controller thread of pantheond driving one Run: what            *)
(* reconcile_run reads, decides and commits between two looks at the       *)
(* database, with the external execution backend, the worker it runs, the  *)
(* operator, crashes of the process and failing passes around it.          *)
(*                                                                         *)
(* The durable rows and their transactions are RunAuthority's.  Everything *)
(* declared here is lost in a crash (pc, view, bearers) or lives outside   *)
(* Pantheon (execution, delivered).  One transaction or one external call  *)
(* is one step; reads whose answer only this thread can change are done in *)
(* the step that uses them.                                                *)
(***************************************************************************)
EXTENDS RunAuthority, FiniteSets

CONSTANTS
    MaxAttemptsPerRun,  \* MinRecoveryPolicy::max_attempts_per_run
    LaunchReplies,      \* what ensure_execution may answer
    MaxFaults,          \* bound on crashes and failed passes
    MaxPolls            \* bound on answers that leave the Attempt nonterminal

ASSUME ControllerAssumption ==
    /\ MaxAttemptsPerRun \in Nat \ {0}
    /\ LaunchReplies \subseteq Observations
    /\ MaxFaults \in Nat /\ MaxPolls \in Nat

VARIABLES
    pc,         \* where the pass over the Run stands
    view,       \* what the pass has read: Run revision, Attempt, its status
                \* and credential revisions
    answer,     \* the launcher's last answer
    bearers,    \* RunController::bearers: credential revision held, 0 if none
    execution,  \* external execution by LaunchKey, that is by ordinal
    delivered,  \* credential revision in the launch package of each ordinal
    faults, polls

controller == <<pc, view, answer, bearers>>
backend == <<execution, delivered>>
budget == <<faults, polls>>
controllerVars == <<vars, controller, backend, budget>>

NoView == [revision |-> 0, n |-> NoAttempt, status |-> 0, credential |-> 0]

ControllerInit ==
    /\ Init
    /\ pc = "idle" /\ view = NoView /\ answer = "UNKNOWN"
    /\ bearers = [n \in Ordinals |-> 0]
    /\ execution = [n \in Ordinals |-> "none"]
    /\ delivered = [n \in Ordinals |-> 0]
    /\ faults = 0 /\ polls = 0

----------------------------------------------------------------------------
(* One pass: read the view, then one decisive step.                        *)

\* The nonterminal lineage load_current_lineage finds, NoAttempt if none.
CurrentLineage ==
    IF run.current # NoAttempt /\ Nonterminal(run.current)
    THEN run.current ELSE NoAttempt

ViewOf(n) ==
    [revision |-> run.revision, n |-> n,
     status |-> IF n = NoAttempt THEN 0 ELSE attempt[n].revision,
     credential |-> IF n = NoAttempt THEN 0 ELSE session[n].credential]

\* ensure_current_bearer: is the bearer in memory the session's current one?
BearerKnown(n) == bearers[n] = session[n].credential

\* The pass returns: what it read goes out of scope.
Return == pc' = "idle" /\ view' = NoView /\ answer' = "UNKNOWN"

\* The dispatch of reconcile_run.  A Run that is not Active is left alone.
ReadView ==
    /\ pc = "idle" /\ run.phase = "Active"
    /\ view' = ViewOf(CurrentLineage)
    /\ pc' = LET n == CurrentLineage IN
             CASE n = NoAttempt -> "gates"
               [] n # NoAttempt /\ attempt[n].contact # "NOT_CONTACTED"
                    -> "inspect"
               [] n # NoAttempt /\ attempt[n].contact = "NOT_CONTACTED"
                    -> IF BearerKnown(n) THEN "refresh" ELSE "rekey"
    /\ UNCHANGED <<vars, answer, bearers, backend, budget>>

\* The Workspace, Sandbox and policy gates of establish_attempt.  What they
\* check and provision is outside this module: they open, or one refuses.
GatesOpen ==
    /\ pc = "gates" /\ pc' = "attach"
    /\ UNCHANGED <<vars, view, answer, bearers, backend, budget>>

\* A gate, or the context preparation, refuses for good.
GateRefuses ==
    /\ pc \in {"gates", "attach"} /\ pc' = "conclude"
    /\ UNCHANGED <<vars, view, answer, bearers, backend, budget>>

\* ContextReady, then the ordinal of the Attempt to create.
PrepareContext ==
    /\ pc = "attach" /\ pc' = "create"
    /\ \E p \in Plans : AttachContextPlan(p)
    /\ view' = [view EXCEPT !.n = Cardinality(History) + 1]
    /\ UNCHANGED <<answer, bearers, backend, budget>>

\* T4.  The ordinal is one past the history, so the command is never a
\* replay and the bearer drawn for it is the session's.
EstablishAttempt ==
    /\ pc = "create" /\ Return
    /\ view.n \in Ordinals
    /\ CreateAttempt(view.n, view.revision)
    /\ bearers' = [bearers EXCEPT ![view.n] = 1]
    /\ UNCHANGED <<backend, budget>>

\* T4a, when the bearer was lost.
RotateBearer ==
    /\ pc = "rekey" /\ pc' = "refresh"
    /\ RekeySession(view.n, view.credential)
    /\ bearers' = [bearers EXCEPT ![view.n] = view.credential + 1]
    /\ UNCHANGED <<view, answer, backend, budget>>

RefreshLineage_LaunchesAtOnce ==
    /\ pc = "refresh" /\ pc' = "ensure"
    /\ CurrentLineage # NoAttempt
    /\ view' = ViewOf(CurrentLineage)
    /\ UNCHANGED <<vars, answer, bearers, backend, budget>>

\* current_lineage: the revisions T4b will be bound to.
RefreshLineage ==
    /\ pc = "refresh" /\ pc' = "mark"
    /\ CurrentLineage # NoAttempt
    /\ view' = ViewOf(CurrentLineage)
    /\ UNCHANGED <<vars, answer, bearers, backend, budget>>

\* T4b, before the call.
CommitContact ==
    /\ pc = "mark" /\ pc' = "ensure"
    /\ MarkLaunchContact(view.n, view.status, view.credential)
    /\ UNCHANGED <<view, answer, bearers, backend, budget>>

\* ensure_execution leaves for the backend with the bearer in memory.
CallLauncher ==
    /\ pc = "ensure" /\ pc' = "await"
    /\ execution' = [execution EXCEPT ![view.n] = "inflight"]
    /\ delivered' = [delivered EXCEPT ![view.n] = bearers[view.n]]
    /\ UNCHANGED <<vars, view, answer, bearers, budget>>

----------------------------------------------------------------------------
(* The launcher's answers, and what the pass does with them.               *)

\* What the backend may answer about an execution: existence and absence are
\* facts, a call still under way is neither, and any failed call is UNKNOWN.
Truthful(n, o) ==
    \/ o \in {"STARTING", "RUNNING"} /\ execution[n] = "live"
    \/ o = "EXITED" /\ execution[n] = "exited"
    \/ o = "ABSENT" /\ execution[n] = "none"
    \/ o = "UNKNOWN"

LaunchAnswered(o) ==
    /\ pc = "await" /\ pc' = "record"
    /\ Truthful(view.n, o)
    /\ answer' = o
    /\ UNCHANGED <<vars, view, bearers, backend, budget>>

\* launch: only EXITED is definitive there, and no recovery decision follows.
RecordLaunch ==
    /\ pc = "record" /\ Return
    /\ \/ /\ answer = "EXITED"
          /\ TerminalizeAttempt(view.n, attempt[view.n].revision, answer)
       \/ /\ answer # "EXITED"
          /\ ObserveExecution(view.n, attempt[view.n].revision, answer)
    /\ UNCHANGED <<bearers, backend, budget>>

Definitive_UnknownToo(o) == o \in {"ABSENT", "EXITED", "UNKNOWN"}

Definitive_ExitOnly(o) == o = "EXITED"

\* reconcile_contacted: which inspection answers end the lineage.
Definitive(o) == o \in {"ABSENT", "EXITED"}

InspectionAnswered(o) ==
    /\ pc = "inspect" /\ pc' = "settle"
    /\ Truthful(view.n, o)
    /\ answer' = o
    /\ polls' = IF Definitive(o) THEN polls ELSE polls + 1
    /\ polls' <= MaxPolls
    /\ UNCHANGED <<vars, view, bearers, backend, faults>>

RecordLiveness ==
    /\ pc = "settle" /\ ~Definitive(answer) /\ Return
    /\ ObserveExecution(view.n, attempt[view.n].revision, answer)
    /\ UNCHANGED <<bearers, backend, budget>>

RecordEnd ==
    /\ pc = "settle" /\ Definitive(answer) /\ pc' = "decide"
    /\ TerminalizeAttempt(view.n, attempt[view.n].revision, answer)
    /\ UNCHANGED <<view, answer, bearers, backend, budget>>

\* decide_after_terminal with retries left: RetryArmed.
ArmRetry ==
    /\ pc = "decide" /\ Return
    /\ Cardinality(History) < MaxAttemptsPerRun
    /\ UNCHANGED <<vars, bearers, backend, budget>>

ExhaustRetries_OldRevision ==
    /\ pc = "decide" /\ pc' = "conclude"
    /\ Cardinality(History) >= MaxAttemptsPerRun
    /\ UNCHANGED <<vars, view, answer, bearers, backend, budget>>

\* decide_after_terminal without: the Run's revision is read afresh.
ExhaustRetries ==
    /\ pc = "decide" /\ pc' = "conclude"
    /\ Cardinality(History) >= MaxAttemptsPerRun
    /\ view' = [view EXCEPT !.revision = run.revision]
    /\ UNCHANGED <<vars, answer, bearers, backend, budget>>

Conclude_Unconditional ==
    /\ pc = "conclude" /\ Return
    /\ run' = [run EXCEPT !.phase = "Failed", !.target = "Failed", !.slot = FALSE]
    /\ UNCHANGED <<generation, goal, task, plan, attempt, session, requests>>
    /\ UNCHANGED <<bearers, backend, budget>>

\* conclude_run, from preparation or from decide_after_terminal.
Conclude ==
    /\ pc = "conclude" /\ Return
    /\ ConcludeRun("Failed", view.revision)
    /\ UNCHANGED <<bearers, backend, budget>>

----------------------------------------------------------------------------
(* What may go wrong, and the world outside.                               *)

\* The process dies and starts again: memory is gone, calls are not.
Crash ==
    /\ faults < MaxFaults /\ faults' = faults + 1
    /\ Return
    /\ bearers' = [n \in Ordinals |-> 0]
    /\ UNCHANGED <<vars, backend, polls>>

\* A read, a transaction or the entropy source fails with nothing written;
\* the pass reports the error and the next tick starts over.
PassFails ==
    /\ pc \notin {"idle", "await", "inspect"}
    /\ faults < MaxFaults /\ faults' = faults + 1
    /\ Return
    /\ UNCHANGED <<vars, bearers, backend, polls>>

\* The backend starts the worker, or the call never reaches it.
Deliver(n) ==
    /\ execution[n] = "inflight"
    /\ \E e \in {"live", "none"} : execution' = [execution EXCEPT ![n] = e]
    /\ UNCHANGED <<vars, controller, delivered, budget>>

WorkerExits(n) ==
    /\ execution[n] = "live"
    /\ execution' = [execution EXCEPT ![n] = "exited"]
    /\ UNCHANGED <<vars, controller, delivered, budget>>

\* The worker submits its Candidate over Agent Control with the credential it
\* was launched with.
WorkerSubmits(n) ==
    /\ execution[n] = "live"
    /\ \E r \in RequestIds, c \in Candidates :
        SubmitCandidate(n, delivered[n], r, c, task.revision)
    /\ UNCHANGED <<controller, backend, budget>>

OperatorCancels ==
    /\ CancelGoal
    /\ UNCHANGED <<controller, backend, budget>>

Step ==
    \/ ReadView \/ GatesOpen \/ PrepareContext \/ EstablishAttempt
    \/ RotateBearer \/ RefreshLineage \/ CommitContact \/ CallLauncher
    \/ \E o \in LaunchReplies : LaunchAnswered(o)
    \/ \E o \in Observations : InspectionAnswered(o)
    \/ RecordLaunch \/ RecordLiveness \/ RecordEnd
    \/ ArmRetry \/ ExhaustRetries \/ Conclude

ControllerNext ==
    \/ Step
    \/ GateRefuses
    \/ Crash \/ PassFails
    \/ \E n \in Ordinals : Deliver(n) \/ WorkerExits(n) \/ WorkerSubmits(n)
    \/ OperatorCancels

ControllerSpec == ControllerInit /\ [][ControllerNext]_controllerVars

\* run_controller_thread ticks forever, a launch call is delivered or lost,
\* and a worker does not run forever.
FairControllerSpec ==
    /\ ControllerSpec
    /\ WF_controllerVars(Step)
    /\ \A n \in Ordinals : WF_controllerVars(Deliver(n))
    /\ \A n \in Ordinals : WF_controllerVars(WorkerExits(n))

----------------------------------------------------------------------------
(* Properties.                                                             *)

\* The types of what the controller holds and of the world outside.
ControllerTypeOK ==
    /\ pc \in {"idle", "gates", "attach", "create", "rekey", "refresh", "mark",
              "ensure", "await", "record", "inspect", "settle", "decide",
              "conclude"}
    /\ view \in [revision: Nat, n: Nat, status: Nat, credential: Nat]
    /\ answer \in Observations
    /\ bearers \in [Ordinals -> Nat]
    /\ execution \in [Ordinals -> {"none", "inflight", "live", "exited"}]
    /\ delivered \in [Ordinals -> Nat]
    /\ faults \in Nat /\ polls \in Nat

\* The controller only ever does what the store allows: its durable effects
\* are steps of RunAuthority.
ImplementsRunAuthority == Spec

\* "UNKNOWN external execution never creates replacement execution": an
\* execution that runs, or may still start, belongs to the Run's current,
\* nonterminal Attempt, and the Run still holds the slot.
LiveExecutionIsCurrent ==
    \A n \in Ordinals :
        execution[n] \in {"inflight", "live"} =>
            Nonterminal(n) /\ run.current = n /\ run.slot

\* "Launch-contact intent is durable before the first external launch call",
\* and the worker got the credential revision frozen with it: T4a can never
\* lock a launched worker out.
LaunchedUnderMarker ==
    \A n \in Ordinals :
        execution[n] # "none" =>
            /\ attempt[n].contact = "CONTACT_MAY_HAVE_OCCURRED"
            /\ delivered[n] = session[n].credential

\* No pass works from a stale read: whatever the worker and the operator do
\* meanwhile, the revisions a transaction of the pass is conditioned on are
\* current when it runs, so none of them is refused.
TokensCurrent ==
    /\ pc = "create" =>
        /\ run.phase = "Active" /\ run.revision = view.revision
        /\ CurrentLineage = NoAttempt /\ History = 1 .. (view.n - 1)
    /\ pc = "rekey" =>
        /\ CurrentUnderActiveRun(view.n)
        /\ session[view.n].credential = view.credential
    /\ pc = "mark" =>
        /\ CurrentUnderActiveRun(view.n)
        /\ attempt[view.n].revision = view.status
        /\ session[view.n].credential = view.credential
        /\ bearers[view.n] = view.credential
    /\ pc = "conclude" => run.revision = view.revision

\* A Run whose Candidate was accepted is not concluded Failed: "Only
\* conclusions that carry no Candidate are reachable today".
CandidateRunNotFailed == run.candidate # NoCandidate => run.phase # "Failed"

\* A Run does not stay Active forever, whatever crashes, lost calls and
\* indefinite answers happen: it is concluded, a Candidate is submitted, or
\* launches answered EXITED, after which launch takes no recovery decision,
\* have carried it past the retry policy.
RunLeavesActive ==
    <>(run.phase # "Active" \/ Cardinality(History) > MaxAttemptsPerRun)

============================================================================
