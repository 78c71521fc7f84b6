---------------------------- MODULE RunAuthority ----------------------------
(***************************************************************************)
(* The durable life of one Run, from the commit of its Run intent (T3) on: *)
(* the rows of run_status, run_context_plans, attempts, attempt_status,    *)
(* agent_control_sessions, agent_requests, candidates, the Run's Task and  *)
(* its Goal, and every pantheon-store transaction that writes them.        *)
(*                                                                         *)
(* A transaction is one action.  Its parameters are what the caller read   *)
(* earlier and passes in (expected revisions, a credential), so a caller   *)
(* whose knowledge is stale finds the action disabled, which is the typed  *)
(* refusal with nothing written.  Any caller may call at any time: what    *)
(* holds here holds whatever the controllers do.                           *)
(*                                                                         *)
(* The Attempt of ordinal n of the Run is n itself.  The raw bearer and    *)
(* the verifier stored for it are the session's credential revision, since *)
(* every rekey draws a fresh bearer.  The Event each transaction appends   *)
(* is the subject of CommandLedger and is left out.                        *)
(***************************************************************************)
EXTENDS Naturals

CONSTANTS
    MaxAttempts,    \* bound on the Attempts of the Run
    MaxGeneration,  \* bound on disaster restores
    MaxRevision,    \* bound on the revision of any row
    Plans,          \* ContextPlans a builder may derive for the Run
    NoPlan,         \* no run_context_plans row
    RequestIds,     \* request ids a worker may use
    Candidates,     \* Candidates that pass the specification and provenance
                    \* checks of the submission
    NoCandidate     \* run_status.candidate_digest is NULL

ASSUME RunAssumption ==
    /\ MaxAttempts \in Nat \ {0}
    /\ MaxGeneration \in Nat \ {0}
    /\ MaxRevision \in Nat \ {0}
    /\ NoPlan \notin Plans
    /\ NoCandidate \notin Candidates

VARIABLES
    generation,  \* system_state.restore_generation
    goal,        \* goals.phase
    task,        \* the Task's phase and revision
    run,         \* run_status: phase, target, slot, revision, current, candidate
    plan,        \* the plan of the Run's run_context_plans row
    attempt,     \* attempt_status by ordinal
    session,     \* agent_control_sessions by ordinal
    requests     \* SUCCEEDED rows of agent_requests

vars == <<generation, goal, task, run, plan, attempt, session, requests>>

Ordinals == 1 .. MaxAttempts
NoAttempt == 0

Observations == {"ABSENT", "STARTING", "RUNNING", "UNKNOWN", "EXITED"}
OpenGoalPhases == {"Planning", "Active", "Evaluating"}
NonterminalRunPhases == {"Active", "Finalizing"}
Conclusions == {"Failed", "Cancelled"}
NoRow == "none"

\* attempts.id exists for ordinal n.
Created(n) == attempt[n].contact # NoRow
Nonterminal(n) == Created(n) /\ ~attempt[n].terminal
History == {n \in Ordinals : Created(n)}

\* T3 has just committed: the Run is Active and holds the slot, its Task is
\* Active and names it.
Init ==
    /\ generation = 1
    /\ goal = "Active"
    /\ task = [phase |-> "Active", revision |-> 1]
    /\ run = [phase |-> "Active", target |-> "none", slot |-> TRUE,
              revision |-> 1, current |-> NoAttempt, candidate |-> NoCandidate]
    /\ plan = NoPlan
    /\ attempt = [n \in Ordinals |->
                    [observed |-> "ABSENT", terminal |-> FALSE,
                     contact |-> NoRow, revision |-> 0]]
    /\ session = [n \in Ordinals |->
                    [state |-> NoRow, credential |-> 0, generation |-> 0]]
    /\ requests = {}

----------------------------------------------------------------------------
(* Preparation and Attempt creation.                                       *)

AttachContextPlan_Replaces(p) ==
    /\ plan' = p
    /\ UNCHANGED <<generation, goal, task, run, attempt, session, requests>>

\* T3a: attach the ContextPlan built from the Run's frozen snapshot.  The
\* plan already attached reconciles, another one is refused.  No phase is
\* checked.
AttachContextPlan(p) ==
    /\ plan \in {NoPlan, p}
    /\ plan' = p
    /\ UNCHANGED <<generation, goal, task, run, attempt, session, requests>>

\* T4/T8: the next ordinal, with its session, becomes the Run's current
\* Attempt.  Neither the Task nor the Goal is consulted.
CreateAttempt(n, expected) ==
    /\ run.phase = "Active"
    /\ run.revision = expected
    /\ plan # NoPlan
    /\ \A m \in Ordinals : ~Nonterminal(m)
    /\ History = 1 .. (n - 1)
    /\ attempt' = [attempt EXCEPT ![n] =
                    [observed |-> "ABSENT", terminal |-> FALSE,
                     contact |-> "NOT_CONTACTED", revision |-> 1]]
    /\ session' = [session EXCEPT ![n] =
                    [state |-> "ACTIVE", credential |-> 1,
                     generation |-> generation]]
    /\ run' = [run EXCEPT !.current = n, !.revision = run.revision + 1]
    /\ UNCHANGED <<generation, goal, task, plan, requests>>

----------------------------------------------------------------------------
(* Credential rotation and the launch-contact marker.                      *)

CurrentUnderActiveRun(n) == run.phase = "Active" /\ run.current = n

LiveSession(n) ==
    session[n].state = "ACTIVE" /\ session[n].generation = generation

\* T4a: rotate the verifier of a session whose bearer was lost before the
\* first contact.
RekeySession(n, credential) ==
    /\ Nonterminal(n)
    /\ attempt[n].contact = "NOT_CONTACTED"
    /\ LiveSession(n)
    /\ CurrentUnderActiveRun(n)
    /\ session[n].credential = credential
    /\ credential < MaxRevision
    /\ session' = [session EXCEPT ![n].credential = @ + 1]
    /\ UNCHANGED <<generation, goal, task, run, plan, attempt, requests>>

\* T4b: the marker is committed before the first external launch call, bound
\* to the credential revision about to be delivered.  A marker already set is
\* answered Ok with nothing written.
MarkLaunchContact(n, revision, credential) ==
    /\ Nonterminal(n)
    /\ attempt[n].contact = "NOT_CONTACTED"
    /\ CurrentUnderActiveRun(n)
    /\ LiveSession(n)
    /\ session[n].credential = credential
    /\ attempt[n].revision = revision
    /\ attempt' = [attempt EXCEPT ![n].contact = "CONTACT_MAY_HAVE_OCCURRED",
                                  ![n].revision = @ + 1]
    /\ UNCHANGED <<generation, goal, task, run, plan, session, requests>>

----------------------------------------------------------------------------
(* Observations and conclusions.                                           *)

\* ObservationUpdate::Observe, on any Attempt row at the expected revision.
ObserveExecution(n, revision, observation) ==
    /\ Created(n)
    /\ observation # "EXITED"
    /\ attempt[n].revision = revision
    /\ revision < MaxRevision
    /\ attempt' = [attempt EXCEPT ![n].observed = observation,
                                  ![n].revision = @ + 1]
    /\ UNCHANGED <<generation, goal, task, run, plan, session, requests>>

\* ObservationUpdate::Terminal: only a contacted Attempt can have ended, and
\* its session is revoked in the same transaction.
TerminalizeAttempt(n, revision, observation) ==
    /\ attempt[n].contact = "CONTACT_MAY_HAVE_OCCURRED"
    /\ attempt[n].revision = revision
    /\ revision < MaxRevision
    /\ attempt' = [attempt EXCEPT ![n].observed = observation,
                                  ![n].terminal = TRUE,
                                  ![n].revision = @ + 1]
    /\ session' = [session EXCEPT ![n].state = "REVOKED"]
    /\ UNCHANGED <<generation, goal, task, run, plan, requests>>

\* conclude_run: any Run row at the expected revision, whatever its phase.
\* The Task, the Attempts and their sessions are left alone.
ConcludeRun(target, expected) ==
    /\ run.revision = expected
    /\ expected < MaxRevision
    /\ run' = [run EXCEPT !.phase = target, !.target = target, !.slot = FALSE,
                          !.revision = run.revision + 1]
    /\ UNCHANGED <<generation, goal, task, plan, attempt, session, requests>>

----------------------------------------------------------------------------
(* Candidate submission (T6), by the worker of an Attempt.                 *)

Authenticated(n, credential) ==
    LiveSession(n) /\ session[n].credential = credential

\* The first submission (a repeated one is answered from agent_requests and
\* writes nothing): the Candidate, the Run's move to Finalizing, the
\* Task's move to Evaluating and the request row commit together.
SubmitCandidate(n, credential, request, candidate, expectedTask) ==
    /\ Authenticated(n, credential)
    /\ \A row \in requests : ~(row.attempt = n /\ row.request = request)
    /\ Nonterminal(n)
    /\ CurrentUnderActiveRun(n) /\ run.slot
    /\ task.phase = "Active"
    /\ goal \in OpenGoalPhases
    /\ task.revision = expectedTask
    /\ run.candidate = NoCandidate
    /\ requests' = requests \cup {[attempt |-> n, request |-> request,
                                   candidate |-> candidate]}
    /\ run' = [run EXCEPT !.phase = "Finalizing", !.target = "Completed",
                          !.candidate = candidate, !.revision = run.revision + 1]
    /\ task' = [phase |-> "Evaluating", revision |-> task.revision + 1]
    /\ UNCHANGED <<generation, goal, plan, attempt, session>>

----------------------------------------------------------------------------
(* The operator, and disaster restore.                                     *)

\* cancel_goal: the Goal and its nonterminal Task are aimed at Cancelled in
\* one transaction.  A second cancel finds the target set and writes nothing.
CancelGoal ==
    /\ goal \in OpenGoalPhases
    /\ goal' = "Finalizing"
    /\ task' = [phase |-> "Finalizing", revision |-> task.revision + 1]
    /\ UNCHANGED <<generation, run, plan, attempt, session, requests>>

\* A backup of this very state is restored under a fresh RestoreGeneration.
RotateGeneration ==
    /\ generation < MaxGeneration
    /\ generation' = generation + 1
    /\ UNCHANGED <<goal, task, run, plan, attempt, session, requests>>

Next ==
    \/ \E p \in Plans : AttachContextPlan(p)
    \/ \E n \in Ordinals :
        \/ CreateAttempt(n, run.revision)
        \/ RekeySession(n, session[n].credential)
        \/ MarkLaunchContact(n, attempt[n].revision, session[n].credential)
        \/ \E o \in Observations :
            \/ ObserveExecution(n, attempt[n].revision, o)
            \/ TerminalizeAttempt(n, attempt[n].revision, o)
        \/ \E r \in RequestIds, c \in Candidates :
            SubmitCandidate(n, session[n].credential, r, c, task.revision)
    \/ \E t \in Conclusions : ConcludeRun(t, run.revision)
    \/ CancelGoal
    \/ RotateGeneration

Spec == Init /\ [][Next]_vars

----------------------------------------------------------------------------
(* Properties.                                                             *)

RunRows == [phase: NonterminalRunPhases \cup Conclusions,
            target: {"none", "Completed"} \cup Conclusions,
            slot: BOOLEAN, revision: Nat,
            current: {NoAttempt} \cup Ordinals,
            candidate: Candidates \cup {NoCandidate}]
AttemptRows == [observed: Observations, terminal: BOOLEAN,
                contact: {NoRow, "NOT_CONTACTED", "CONTACT_MAY_HAVE_OCCURRED"},
                revision: Nat]
SessionRows == [state: {NoRow, "ACTIVE", "REVOKED"}, credential: Nat,
                generation: Nat]
RequestRows == [attempt: Ordinals, request: RequestIds, candidate: Candidates]

\* Every row has the columns migrations 13 and 14 give it.
TypeOK ==
    /\ generation \in Nat
    /\ goal \in OpenGoalPhases \cup {"Finalizing"}
    /\ task \in [phase: {"Active", "Evaluating", "Finalizing"}, revision: Nat]
    /\ run \in RunRows
    /\ plan \in Plans \cup {NoPlan}
    /\ attempt \in [Ordinals -> AttemptRows]
    /\ session \in [Ordinals -> SessionRows]
    /\ requests \in SUBSET RequestRows

\* "V1 permits at most one nonterminal Attempt per Run": the Attempts are the
\* ordinals up to the Run's current one, and every earlier one has ended.
OneLineage ==
    /\ History = 1 .. run.current
    /\ \A n \in Ordinals : Nonterminal(n) => n = run.current

\* A session lives exactly as long as its Attempt: load_current_lineage
\* refuses a nonterminal Attempt whose session is not ACTIVE, and a terminal
\* Attempt's worker has lost its authority.
SessionFollowsAttempt ==
    \A n \in Ordinals :
        /\ session[n].state = "ACTIVE" <=> Nonterminal(n)
        /\ session[n].state = NoRow <=> ~Created(n)

\* "A lineage Pantheon provably never launched cannot have ended": a terminal
\* Attempt has the durable contact marker.
EndedWasContacted ==
    \A n \in Ordinals :
        attempt[n].terminal => attempt[n].contact = "CONTACT_MAY_HAVE_OCCURRED"

\* "At most one Candidate per Run", and a Run that has one is no longer
\* Active: the Candidate, the request row and the Run's move to Finalizing
\* are one commit, and nothing else makes a Run Finalizing.
OneCandidate ==
    /\ run.candidate = NoCandidate => requests = {} /\ run.phase # "Finalizing"
    /\ run.candidate # NoCandidate =>
        /\ run.phase # "Active"
        /\ \E row \in requests :
            requests = {row} /\ row.candidate = run.candidate

\* The global execution slot is held exactly while the Run is nonterminal.
SlotWhileNonterminal == run.slot <=> run.phase \in NonterminalRunPhases

\* What is committed stands: a launch-contact marker, the end of an Attempt,
\* the credential revision of a contacted Attempt, the attached ContextPlan
\* and the Candidate are never taken back or replaced.
CommittedFactsStand ==
    [][/\ \A n \in Ordinals :
            attempt[n].contact = "CONTACT_MAY_HAVE_OCCURRED" =>
                /\ attempt'[n].contact = attempt[n].contact
                /\ attempt[n].terminal => attempt'[n].terminal
                /\ session'[n].credential = session[n].credential
       /\ plan # NoPlan => plan' = plan
       /\ run.candidate # NoCandidate => run'.candidate = run.candidate]_vars

\* "A terminal Run never reopens."
TerminalRunStays ==
    [][run.phase \in Conclusions => run'.phase \in Conclusions]_vars

\* "Cancellation/supersession wins if its authoritative fence committed
\* first": no Candidate is accepted once the Goal is cancelled.
CancelFencesSubmission ==
    [][goal \notin OpenGoalPhases => run'.candidate = run.candidate]_vars

\* A session of an older RestoreGeneration has no authority left: it is not
\* rekeyed, crosses no launch boundary and submits nothing.
OldGenerationFenced ==
    [][\A n \in Ordinals :
        Created(n) /\ session[n].generation # generation =>
            /\ session'[n].credential = session[n].credential
            /\ attempt'[n].contact = attempt[n].contact
            /\ \A row \in requests' \ requests : row.attempt # n]_vars

============================================================================
