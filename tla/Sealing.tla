------------------------------ MODULE Sealing -------------------------------
(***************************************************************************)
(* artifact.seal for one output slot of one Run: the durable Agent Control *)
(* request, the freeze or revalidation of the Workspace, the capture into  *)
(* the content store, the publication of the Artifact and its production   *)
(* record, and the outcome recorded on the request.                        *)
(*                                                                         *)
(* Calls are concurrent executions of AgentControlGateway::seal_artifact:  *)
(* a worker may send a request again while the first call still runs, and  *)
(* a call may die at any step.  Each step of a call is one transaction,    *)
(* one read transaction or one external effect.                            *)
(*                                                                         *)
(* The tree in the Workspace is one element of Contents.  Its Artifact and *)
(* its revision-state digest are that element, since both are digests of   *)
(* canonical documents of the tree.  Blobs(t) is the payloads of tree t.   *)
(***************************************************************************)
EXTENDS Naturals

CONSTANTS
    Calls,             \* concurrent calls of seal_artifact
    RequestIds,        \* request ids of the worker
    Contents,          \* trees the worker may leave in the Workspace
    OutOfScope,        \* trees that change a path outside the Task's scope
    NoContent,         \* no tree captured, nothing produced
    NoRequest,         \* no request being served
    MaxFaults          \* bound on failed captures and lost calls

ASSUME SealingAssumption ==
    /\ OutOfScope \subseteq Contents
    /\ NoContent \notin Contents
    /\ NoRequest \notin RequestIds
    /\ MaxFaults \in Nat

VARIABLES
    task,        \* tasks.phase
    run,         \* run_status: phase and revision
    session,     \* whether the worker's session authenticates
    ws,          \* workspaces: phase and revision
    tree,        \* what the Workspace directory holds
    cas,         \* blobs durable in the content store
    ledger,      \* command ids of the seal's transactions
    artifacts,   \* rows of artifacts
    production,  \* artifact of the production record of the Run and slot
    requests,    \* agent_requests: state and result
    call,        \* the step of each call, and what it has read
    faults,
    still        \* no process writes to the Workspace once it is frozen

vars == <<task, run, session, ws, tree, cas, ledger, artifacts, production,
          requests, call, faults, still>>

authority == <<task, run, session>>
rows == <<ws, ledger, artifacts, production, requests>>

Blobs(t) == {t}

Steps == {"idle", "describe", "readRun", "readWorkspace", "fence", "readFence",
          "capture", "publish", "complete", "refuse"}

Idle == [step |-> "idle", request |-> NoRequest, run |-> 0, phase |-> "none",
         fence |-> 0, captured |-> NoContent]

Init ==
    /\ task = "Active"
    /\ run = [phase |-> "Active", revision |-> 1]
    /\ session = TRUE
    /\ ws = [phase |-> "Ready", revision |-> 1]
    /\ tree \in Contents
    /\ cas = {}
    /\ ledger = {}
    /\ artifacts = {}
    /\ production = NoContent
    /\ requests = [r \in RequestIds |-> [state |-> "none", result |-> NoContent]]
    /\ call = [k \in Calls |-> Idle]
    /\ faults = 0
    /\ still \in BOOLEAN

----------------------------------------------------------------------------
(* The request.                                                            *)

At(k, step) == call[k].step = step
Goto(k, step) == call' = [call EXCEPT ![k].step = step]
Return(k) == call' = [call EXCEPT ![k] = Idle]
Fault == faults < MaxFaults /\ faults' = faults + 1

\* open_agent_request: the row is durable before any external effect.  A
\* recorded outcome is returned as it is; a STARTED row is driven again.
OpenRequest(k, r) ==
    /\ At(k, "idle")
    /\ session
    /\ requests[r].state \in {"none", "STARTED"}
    /\ requests' = [requests EXCEPT ![r].state = "STARTED"]
    /\ call' = [call EXCEPT ![k] = [Idle EXCEPT !.step = "describe", !.request = r]]
    /\ UNCHANGED <<authority, ws, tree, cas, ledger, artifacts, production, faults>>

\* describe_agent_session proves the lineage current.
Describe(k) ==
    /\ At(k, "describe")
    /\ Goto(k, IF session /\ task = "Active" /\ run.phase = "Active"
               THEN "readRun" ELSE "refuse")
    /\ UNCHANGED <<authority, rows, tree, cas, faults>>

\* run_execution_view: the revision the seal will claim.
ReadRun(k) ==
    /\ At(k, "readRun")
    /\ call' = [call EXCEPT ![k].run = run.revision, ![k].step = "readWorkspace"]
    /\ UNCHANGED <<authority, rows, tree, cas, faults>>

\* load_spec and workspace_for_task.
ReadWorkspace(k) ==
    /\ At(k, "readWorkspace")
    /\ call' = [call EXCEPT ![k].phase = ws.phase, ![k].fence = ws.revision,
                            ![k].step = IF task = "Active" THEN "fence" ELSE "refuse"]
    /\ UNCHANGED <<authority, rows, tree, cas, faults>>

----------------------------------------------------------------------------
(* The fence.                                                              *)

\* validate_seal_authority, inside each transaction: the Task is Active
\* under this Run, and the Run is nonterminal at the claimed revision.
SealAuthority(k) ==
    /\ task = "Active"
    /\ run.phase \in {"Active", "Finalizing"}
    /\ run.revision = call[k].run

\* Every identity carries the request, the revision read and the authority.
CommandId(k, name) == <<call[k].request, name, call[k].fence, call[k].run>>
New(k, name) == CommandId(k, name) \notin ledger
Record(k, name) == ledger' = ledger \cup {CommandId(k, name)}

\* freeze_workspace: Ready to Frozen, by the authority of the Run.
Freeze(k) ==
    /\ At(k, "fence")
    /\ call[k].phase = "Ready"
    /\ New(k, "freeze")
    /\ ws = [phase |-> "Ready", revision |-> call[k].fence]
    /\ SealAuthority(k)
    /\ ws' = [phase |-> "Frozen", revision |-> ws.revision + 1]
    /\ Record(k, "freeze")
    /\ Goto(k, "readFence")
    /\ UNCHANGED <<authority, tree, cas, artifacts, production, requests, faults>>

FreezeReplayed(k) ==
    /\ At(k, "fence")
    /\ call[k].phase = "Ready"
    /\ ~New(k, "freeze")
    /\ Goto(k, "readFence")
    /\ UNCHANGED <<authority, rows, tree, cas, faults>>

\* frozen_revision: the fence's own revision is read after the freeze.
ReadFence(k) ==
    /\ At(k, "readFence")
    /\ ws.phase = "Frozen"
    /\ call' = [call EXCEPT ![k].fence = ws.revision, ![k].step = "capture"]
    /\ UNCHANGED <<authority, rows, tree, cas, faults>>

\* validate_seal_authority_command: a fence held already must be authorized
\* again; nothing but the ledger is written.
Validate(k) ==
    /\ At(k, "fence")
    /\ call[k].phase = "Frozen"
    /\ \/ /\ New(k, "validated")
          /\ ws = [phase |-> "Frozen", revision |-> call[k].fence]
          /\ SealAuthority(k)
          /\ Record(k, "validated")
       \/ ~New(k, "validated") /\ UNCHANGED ledger
    /\ Goto(k, "capture")
    /\ UNCHANGED <<authority, ws, tree, cas, artifacts, production, requests, faults>>

\* The fence is not obtained: the row moved or the authority is gone.
FenceRefused(k) ==
    /\ At(k, "fence")
    /\ \/ /\ call[k].phase = "Ready"
          /\ New(k, "freeze")
       \/ /\ call[k].phase = "Frozen"
          /\ New(k, "validated")
    /\ ~(ws = [phase |-> call[k].phase, revision |-> call[k].fence] /\ SealAuthority(k))
    /\ Goto(k, "refuse")
    /\ UNCHANGED <<authority, rows, tree, cas, faults>>

----------------------------------------------------------------------------
(* Capture and publication.                                                *)

Capture_Unpublished(k) ==
    /\ At(k, "capture")
    /\ tree \notin OutOfScope
    /\ call' = [call EXCEPT ![k].captured = tree, ![k].step = "publish"]
    /\ UNCHANGED <<authority, rows, tree, cas, faults>>

\* capture_tree and the diff: every payload is durable in the store before
\* the manifest is built.
Capture(k) ==
    /\ At(k, "capture")
    /\ tree \notin OutOfScope
    /\ cas' = cas \cup Blobs(tree)
    /\ call' = [call EXCEPT ![k].captured = tree, ![k].step = "publish"]
    /\ UNCHANGED <<authority, rows, tree, faults>>

\* A changed path outside the scope, or a capture that fails, keeps the
\* freeze; the evidence is an Event, and the error is returned.
CaptureFails(k) ==
    /\ At(k, "capture")
    /\ IF tree \in OutOfScope THEN UNCHANGED faults ELSE Fault
    /\ Goto(k, "refuse")
    /\ UNCHANGED <<authority, rows, tree, cas>>

Fenced(k) == ws = [phase |-> "Frozen", revision |-> call[k].fence]

ProductionAgrees(k) == production \in {NoContent, call[k].captured}

Publish_AuthorityAssumed(k) ==
    /\ At(k, "publish")
    /\ New(k, "sealed")
    /\ Fenced(k)
    /\ ProductionAgrees(k)
    /\ artifacts' = artifacts \cup {call[k].captured}
    /\ production' = call[k].captured
    /\ Record(k, "sealed")
    /\ Goto(k, "complete")
    /\ UNCHANGED <<authority, ws, tree, cas, requests, faults>>

\* commit_changeset_seal: fence and authority are proved again, rows are
\* created or found equal.
Publish(k) ==
    /\ At(k, "publish")
    /\ New(k, "sealed")
    /\ Fenced(k)
    /\ SealAuthority(k)
    /\ ProductionAgrees(k)
    /\ artifacts' = artifacts \cup {call[k].captured}
    /\ production' = call[k].captured
    /\ Record(k, "sealed")
    /\ Goto(k, "complete")
    /\ UNCHANGED <<authority, ws, tree, cas, requests, faults>>

PublishReplayed_Uncommitted(k) ==
    /\ At(k, "publish")
    /\ Goto(k, "complete")
    /\ UNCHANGED <<authority, rows, tree, cas, faults>>

\* A replay returns the digest this call computed.
PublishReplayed(k) ==
    /\ At(k, "publish")
    /\ ~New(k, "sealed")
    /\ Goto(k, "complete")
    /\ UNCHANGED <<authority, rows, tree, cas, faults>>

PublishRefused(k) ==
    /\ At(k, "publish")
    /\ New(k, "sealed")
    /\ ~(Fenced(k) /\ SealAuthority(k) /\ ProductionAgrees(k))
    /\ Goto(k, "refuse")
    /\ UNCHANGED <<authority, rows, tree, cas, faults>>

----------------------------------------------------------------------------
(* The outcome.                                                            *)

CompleteRequest_AnyState(k) ==
    /\ At(k, "complete")
    /\ requests' = IF session
                   THEN [requests EXCEPT ![call[k].request] =
                           [state |-> "SUCCEEDED", result |-> call[k].captured]]
                   ELSE requests
    /\ Return(k)
    /\ UNCHANGED <<authority, ws, tree, cas, ledger, artifacts, production, faults>>

\* complete_agent_request: only a STARTED row takes the outcome, through the
\* session fence.
CompleteRequest(k) ==
    /\ At(k, "complete")
    /\ requests' = IF session /\ requests[call[k].request].state = "STARTED"
                   THEN [requests EXCEPT ![call[k].request] =
                           [state |-> "SUCCEEDED", result |-> call[k].captured]]
                   ELSE requests
    /\ Return(k)
    /\ UNCHANGED <<authority, ws, tree, cas, ledger, artifacts, production, faults>>

\* fail_agent_request, after any error of the seal.
FailRequest(k) ==
    /\ At(k, "refuse")
    /\ requests' = IF session /\ requests[call[k].request].state = "STARTED"
                   THEN [requests EXCEPT ![call[k].request].state = "FAILED"]
                   ELSE requests
    /\ Return(k)
    /\ UNCHANGED <<authority, ws, tree, cas, ledger, artifacts, production, faults>>

CallLost(k) ==
    /\ ~At(k, "idle")
    /\ Fault
    /\ Return(k)
    /\ UNCHANGED <<authority, rows, tree, cas>>

----------------------------------------------------------------------------
(* The rest of the system, as far as it moves what a seal relies on.       *)

\* The worker's processes.
WorkerWrites ==
    /\ ws.phase = "Ready" \/ ~still
    /\ tree' \in Contents \ {tree}
    /\ UNCHANGED <<authority, rows, cas, call, faults>>

\* T6: the slot's production record is what a Candidate may name.
SubmitCandidate ==
    /\ session /\ task = "Active" /\ run.phase = "Active"
    /\ production # NoContent
    /\ task' = "Evaluating"
    /\ run' = [phase |-> "Finalizing", revision |-> run.revision + 1]
    /\ UNCHANGED <<session, rows, tree, cas, call, faults>>

CancelGoal ==
    /\ task \in {"Active", "Evaluating"}
    /\ task' = "Finalizing"
    /\ UNCHANGED <<run, session, rows, tree, cas, call, faults>>

\* The Attempt ends: its session is revoked.
EndAttempt ==
    /\ session
    /\ session' = FALSE
    /\ UNCHANGED <<task, run, rows, tree, cas, call, faults>>

\* The controller concludes the Run.
ConcludeRun ==
    /\ ~session
    /\ run.phase \in {"Active", "Finalizing"}
    /\ run' = [phase |-> "Failed", revision |-> run.revision + 1]
    /\ UNCHANGED <<task, session, rows, tree, cas, call, faults>>

CallStep(k) ==
    \/ Describe(k) \/ ReadRun(k) \/ ReadWorkspace(k)
    \/ Freeze(k) \/ FreezeReplayed(k) \/ ReadFence(k) \/ Validate(k)
    \/ FenceRefused(k)
    \/ Capture(k) \/ CaptureFails(k)
    \/ Publish(k) \/ PublishReplayed(k) \/ PublishRefused(k)
    \/ CompleteRequest(k) \/ FailRequest(k)

Next ==
    /\ \/ \E k \in Calls : CallStep(k) \/ CallLost(k)
       \/ \E k \in Calls, r \in RequestIds : OpenRequest(k, r)
       \/ WorkerWrites \/ SubmitCandidate \/ CancelGoal \/ EndAttempt
       \/ ConcludeRun
    /\ UNCHANGED still

Spec == Init /\ [][Next]_vars

----------------------------------------------------------------------------
(* What a seal promises, whatever still writes to the Workspace.           *)

\* Bytes are durable before any row claims them: every Artifact's payloads are
\* in the content store, at whatever step a call was lost.
BytesBeforeRows == \A a \in artifacts : Blobs(a) \subseteq cas

\* A recorded outcome is final: a duplicate or late call neither turns a
\* refusal into a success nor rewrites a result.
OutcomesAreFinal ==
    [][\A r \in RequestIds :
         requests[r].state \in {"SUCCEEDED", "FAILED"} =>
             requests'[r] = requests[r]]_vars

\* Once the Task is cancelled, the Run concluded or its Candidate submitted,
\* nothing more is sealed, however far the capture had come.
AuthorityFencesSeal ==
    [][artifacts' # artifacts \/ production' # production =>
         task = "Active" /\ run.phase # "Failed"]_vars

(* What needs the Workspace to be still once it is frozen: nothing in the  *)
(* code stops a process from writing to a frozen Workspace, and a retry    *)
(* captures the tree again.                                                *)

\* A successful request names the Artifact that was published and produced,
\* also when the call that published it was lost and the request retried.
SuccessNamesArtifact ==
    \A r \in RequestIds :
        still /\ requests[r].state = "SUCCEEDED" =>
            requests[r].result \in artifacts /\ requests[r].result = production

=============================================================================
