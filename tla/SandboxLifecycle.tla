-------------------------- MODULE SandboxLifecycle --------------------------
(***************************************************************************)
(* The Sandbox of one Run: SandboxController's provision, reconcile and    *)
(* release over the sandbox_instances row, and the container the backend   *)
(* keeps under the key derived from the Run id.                            *)
(*                                                                         *)
(* Every provision call of a Run carries the same command id and plan, so  *)
(* its four derived commands are named by what they do.  Reconciliation    *)
(* and release commands are new each time and are not recorded here.       *)
(***************************************************************************)
EXTENDS Integers

CONSTANTS
    Provisioners,  \* callers of provision
    Recoverers,    \* callers of reconcile, begin_release, complete_release
    MaxRevision,   \* bound on the revision up to which recovery reconciles
                   \* although the presence has not changed
    MaxFaults      \* bound on backend errors, lost calls and container deaths,
                   \* for overlapping calls and for exclusive ones

ASSUME SandboxAssumption ==
    /\ Provisioners \cap Recoverers = {}
    /\ MaxRevision \in Nat /\ MaxFaults \in [BOOLEAN -> Nat]

VARIABLES
    row,       \* sandbox_instances: phase, observed presence, revision
    box,       \* the container: its state, and whether it is isolated
    ledger,    \* commands of provision that committed
    evidence,  \* whether a failed probe is on record
    call,      \* each caller's step, the revision it holds, what it observed
    faults,
    exclusive  \* whether calls come one at a time; chosen once and for all

vars == <<row, box, ledger, evidence, call, faults, exclusive>>

Phases == {"none", "Requested", "Preparing", "Ready", "Releasing", "Released", "Error"}
Presences == {"Present", "Absent", "Unknown"}
Callers == Provisioners \cup Recoverers

Idle == [step |-> "idle", revision |-> 0, found |-> "Unknown"]
NoBox == [state |-> "none", isolated |-> FALSE]

Init ==
    /\ row = [phase |-> "none", presence |-> "Absent", revision |-> 0]
    /\ box = NoBox
    /\ ledger = {}
    /\ evidence = FALSE
    /\ call = [c \in Callers |-> Idle]
    /\ faults = 0
    /\ exclusive \in BOOLEAN

At(c, step) == call[c].step = step
Goto(c, step) == call' = [call EXCEPT ![c].step = step]
Return(c) == call' = [call EXCEPT ![c] = Idle]
MayStart(c) == At(c, "idle") /\ (exclusive => \A d \in Callers : At(d, "idle"))
Fault == faults < MaxFaults[exclusive] /\ faults' = faults + 1

\* The CHECK constraints of the table.
Checked(phase, presence) ==
    /\ phase = "Ready" => presence = "Present"
    /\ phase \in {"Requested", "Released"} => presence = "Absent"

\* sandbox_phase and update_revisioned: the row exists at the held revision.
Current(c) == row.phase # "none" /\ row.revision = call[c].revision

Transition(phase, presence) ==
    row' = [phase |-> phase, presence |-> presence, revision |-> row.revision + 1]

----------------------------------------------------------------------------
(* provision.                                                              *)

CreateSandbox(c) ==
    /\ MayStart(c)
    /\ "create" \notin ledger
    /\ ledger' = ledger \cup {"create"}
    /\ row' = [phase |-> "Requested", presence |-> "Absent", revision |-> 1]
    /\ call' = [call EXCEPT ![c].step = "begin", ![c].revision = 1]
    /\ UNCHANGED <<box, evidence, faults>>

CreateReplayed(c) ==
    /\ MayStart(c)
    /\ "create" \in ledger
    /\ Goto(c, "read")
    /\ UNCHANGED <<row, box, ledger, evidence, faults>>

StepFor_RetriesError(phase) ==
    CASE phase = "Requested" -> "begin"
      [] phase \in {"Preparing", "Error"} -> "ensure"
      [] OTHER -> "idle"

\* The record decides what is left to do.  Ready is an answer; Error,
\* Releasing and Released are refusals.
StepFor(phase) ==
    CASE phase = "Requested" -> "begin"
      [] phase = "Preparing" -> "ensure"
      [] OTHER -> "idle"

ReadRecord(c) ==
    /\ At(c, "read")
    /\ call' = [call EXCEPT ![c].step = StepFor(row.phase),
                            ![c].revision = IF StepFor(row.phase) = "idle"
                                            THEN 0 ELSE row.revision]
    /\ UNCHANGED <<row, box, ledger, evidence, faults>>

BeginPreparation(c) ==
    /\ At(c, "begin")
    /\ "begin" \notin ledger
    /\ Current(c) /\ row.phase = "Requested"
    /\ ledger' = ledger \cup {"begin"}
    /\ Transition("Preparing", "Unknown")
    /\ call' = [call EXCEPT ![c].step = "ensure", ![c].revision = row.revision + 1]
    /\ UNCHANGED <<box, evidence, faults>>

\* The record is read again, and its phase is not.
BeginReplayed(c) ==
    /\ At(c, "begin")
    /\ "begin" \in ledger
    /\ call' = IF row.phase = "Released"
               THEN [call EXCEPT ![c] = Idle]
               ELSE [call EXCEPT ![c].step = "ensure", ![c].revision = row.revision]
    /\ UNCHANGED <<row, box, ledger, evidence, faults>>

BeginRefused(c) ==
    /\ At(c, "begin")
    /\ "begin" \notin ledger
    /\ ~(Current(c) /\ row.phase = "Requested")
    /\ Return(c)
    /\ UNCHANGED <<row, box, ledger, evidence, faults>>

\* ensure_sandbox: an existing container is started, otherwise one is created
\* and started.  How well it is isolated shows only when it is verified.
Ensure(c) ==
    /\ At(c, "ensure")
    /\ \E good \in BOOLEAN :
          box' = [state |-> "running",
                  isolated |-> IF box.state = "none" THEN good ELSE box.isolated]
    /\ Goto(c, "verify")
    /\ UNCHANGED <<row, ledger, evidence, faults>>

\* Listing, create or start fails: a container may or may not be left.
EnsureFails(c) ==
    /\ At(c, "ensure")
    /\ Fault
    /\ \E good \in BOOLEAN :
          box' \in {box} \cup (IF box.state = "none"
                               THEN {[state |-> "stopped", isolated |-> good]} ELSE {})
    /\ Goto(c, "fail")
    /\ UNCHANGED <<row, ledger, evidence>>

\* verify_sandbox: every fact of the plan and every probe passed.
Verified == box.isolated

VerifyPasses(c) ==
    /\ At(c, "verify")
    /\ box.state = "running" /\ Verified
    /\ Goto(c, "complete")
    /\ UNCHANGED <<row, box, ledger, evidence, faults>>

VerifyFails_Passes(c) ==
    /\ At(c, "verify")
    /\ box.state = "running" /\ ~Verified
    /\ Goto(c, "complete")
    /\ UNCHANGED <<row, box, ledger, evidence, faults>>

\* A fact does not hold: the evidence is recorded before the failure.
VerifyFails(c) ==
    /\ At(c, "verify")
    /\ box.state = "running" /\ ~Verified
    /\ evidence' = TRUE
    /\ Goto(c, "fail")
    /\ UNCHANGED <<row, box, ledger, faults>>

\* The container is gone, or cannot be inspected: the call ends as it is.
VerifyErrs(c) ==
    /\ At(c, "verify")
    /\ IF box.state = "running" THEN Fault ELSE UNCHANGED faults
    /\ Return(c)
    /\ UNCHANGED <<row, box, ledger, evidence>>

CompletePreparation(c) ==
    /\ At(c, "complete")
    /\ "complete" \notin ledger
    /\ Current(c) /\ row.phase = "Preparing"
    /\ ledger' = ledger \cup {"complete"}
    /\ Transition("Ready", "Present")
    /\ Return(c)
    /\ UNCHANGED <<box, evidence, faults>>

\* Replayed, or refused: nothing is written.
CompleteReturns(c) ==
    /\ At(c, "complete")
    /\ "complete" \in ledger \/ ~(Current(c) /\ row.phase = "Preparing")
    /\ Return(c)
    /\ UNCHANGED <<row, box, ledger, evidence, faults>>

\* A failed provisioning says nothing about what exists.
FailPresence == "Unknown"

\* fail_sandbox looks at the revision only.
FailSandbox(c) ==
    /\ At(c, "fail")
    /\ "fail" \notin ledger
    /\ Current(c)
    /\ ledger' = ledger \cup {"fail"}
    /\ Transition("Error", FailPresence)
    /\ Return(c)
    /\ UNCHANGED <<box, evidence, faults>>

FailReturns(c) ==
    /\ At(c, "fail")
    /\ "fail" \in ledger \/ ~Current(c)
    /\ Return(c)
    /\ UNCHANGED <<row, box, ledger, evidence, faults>>

----------------------------------------------------------------------------
(* reconcile, begin_release, complete_release.                             *)

Inspected_StoppedIsAbsent == IF box.state = "running" THEN "Present" ELSE "Absent"
\* inspect_sandbox.
Inspected ==
    CASE box.state = "none" -> "Absent"
      [] box.state = "stopped" -> "Unknown"
      [] box.state = "running" -> "Present"

\* The inventory lists every Sandbox that is not Released.
TakeRecord(c) ==
    /\ MayStart(c)
    /\ row.phase \notin {"none", "Released"}
    /\ row.revision < MaxRevision \/ Inspected # row.presence
    /\ call' = [call EXCEPT ![c].step = "held", ![c].revision = row.revision]
    /\ UNCHANGED <<row, box, ledger, evidence, faults>>

Inspect(c) ==
    /\ At(c, "held")
    /\ call' = [call EXCEPT ![c].step = "inspected", ![c].found = Inspected]
    /\ UNCHANGED <<row, box, ledger, evidence, faults>>

Recordable(c) ==
    Current(c) /\ Checked(row.phase, call[c].found)

UpdatePresence(c) ==
    /\ At(c, "inspected")
    /\ Recordable(c)
    /\ Transition(row.phase, call[c].found)
    /\ Return(c)
    /\ UNCHANGED <<box, ledger, evidence, faults>>

\* The revision moved, or a CHECK constraint refuses the observation.
UpdateRefused(c) ==
    /\ At(c, "inspected")
    /\ ~Recordable(c)
    /\ Return(c)
    /\ UNCHANGED <<row, box, ledger, evidence, faults>>

BeginRelease(c) ==
    /\ At(c, "held")
    /\ Current(c) /\ row.phase = "Ready"
    /\ Transition("Releasing", "Unknown")
    /\ Goto(c, "release")
    /\ UNCHANGED <<box, ledger, evidence, faults>>

\* release_sandbox ignores the exit status of stop and rm.
ReleaseBox(c) ==
    /\ At(c, "release")
    /\ \/ box' = NoBox /\ UNCHANGED faults
       \/ box' = box /\ Fault
    /\ Return(c)
    /\ UNCHANGED <<row, ledger, evidence>>

\* Present is refused by the code and Unknown by the table.
ReleaseAllowed(c) ==
    /\ Current(c) /\ row.phase = "Releasing"
    /\ call[c].found # "Present"
    /\ Checked("Released", call[c].found)

CompleteRelease(c) ==
    /\ At(c, "inspected")
    /\ ReleaseAllowed(c)
    /\ Transition("Released", call[c].found)
    /\ Return(c)
    /\ UNCHANGED <<box, ledger, evidence, faults>>

----------------------------------------------------------------------------
(* The process dies, or the container does.                                *)

CallLost(c) ==
    /\ ~At(c, "idle")
    /\ Fault
    /\ Return(c)
    /\ UNCHANGED <<row, box, ledger, evidence>>

ContainerStops ==
    /\ box.state # "none"
    /\ Fault
    /\ box' \in {NoBox, [box EXCEPT !.state = "stopped"]} \ {box}
    /\ UNCHANGED <<row, ledger, evidence, call>>

Provision(c) ==
    \/ CreateSandbox(c) \/ CreateReplayed(c) \/ ReadRecord(c)
    \/ BeginPreparation(c) \/ BeginReplayed(c) \/ BeginRefused(c)
    \/ Ensure(c) \/ EnsureFails(c)
    \/ VerifyPasses(c) \/ VerifyFails(c) \/ VerifyErrs(c)
    \/ CompletePreparation(c) \/ CompleteReturns(c)
    \/ FailSandbox(c) \/ FailReturns(c)

Reconcile(c) == TakeRecord(c) \/ Inspect(c) \/ UpdatePresence(c) \/ UpdateRefused(c)

Release(c) == BeginRelease(c) \/ ReleaseBox(c) \/ CompleteRelease(c)

Next ==
    /\ \/ \E c \in Provisioners : Provision(c)
       \/ \E c \in Recoverers : Reconcile(c) \/ Release(c)
       \/ \E c \in Callers : CallLost(c)
       \/ ContainerStops
    /\ UNCHANGED exclusive

Spec == Init /\ [][Next]_vars

----------------------------------------------------------------------------
\* Until the marker is committed nothing external exists: recovery may
\* conclude from Requested that there is no container.
EffectsAfterMarker ==
    row.phase \in {"none", "Requested"} => box.state = "none"

\* With one call at a time a Ready Sandbox is an isolated one, or has no
\* container left: a failed verification is never followed by Ready with that
\* container.
ReadyIsolated ==
    exclusive /\ row.phase = "Ready" => box.state = "none" \/ box.isolated

\* With one call at a time Absent on record is established: no container
\* exists, but for a preparation called again after it was reconciled.
AbsentIsEstablished ==
    exclusive /\ row.presence = "Absent" =>
        box.state = "none" \/ row.phase = "Preparing"

(* The Sandbox keeps the protocol of EffectProtocol: it dies by itself, a  *)
(* failed one is not tried again, and fail_sandbox looks at no phase.      *)

Stage ==
    CASE row.phase \in {"none", "Requested"} -> "unmarked"
      [] row.phase = "Preparing" -> "marked"
      [] row.phase = "Ready" -> "usable"
      [] row.phase = "Releasing" -> "closing"
      [] row.phase = "Released" -> "closed"
      [] row.phase = "Error" -> "failed"

World ==
    IF box.state = "none" THEN "none"
    ELSE IF box.isolated THEN "proven" ELSE "unproven"

Effect == INSTANCE EffectProtocol
            WITH Perishable <- TRUE, Retryable <- FALSE, Fenced <- FALSE,
                 Closable <- TRUE, stage <- Stage, claim <- row.presence,
                 world <- World, alone <- exclusive

\* The Sandbox implements EffectProtocol: no container before the marker, Ready
\* only over a verified one, Absent only over none, Released and Error final
\* whatever a delayed call still writes, and with one call at a time nothing
\* brings a container up again under Ready, Releasing, Released or Error.
ImplementsEffectProtocol == Effect!Spec

=============================================================================
