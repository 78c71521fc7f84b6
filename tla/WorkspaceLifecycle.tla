------------------------- MODULE WorkspaceLifecycle -------------------------
(***************************************************************************)
(* The Workspace of one Task: its row, the repository at its path, and the *)
(* callers of WorkspaceController::ensure that bring it to Ready.          *)
(*                                                                         *)
(* Store transactions are atomic.  Between two of them a caller runs Git   *)
(* or crashes, and other callers take their own steps.  A caller that      *)
(* returns, with a result or an error, or crashes, is back at "idle".      *)
(*                                                                         *)
(* Every caller asks for the same source and the same requested ref (a     *)
(* different request is refused by check_matches before it changes         *)
(* anything).  Git runs outside the database, so it may fail at any point  *)
(* and leave anything behind, and HEAD may be read back at a commit other  *)
(* than the one asked for.                                                 *)
(***************************************************************************)
EXTENDS Naturals

CONSTANTS
    Callers,      \* concurrent callers of ensure for this Task
    Bases,        \* commits of the source repository
    NoBase,       \* no commit resolved yet
    Identities,   \* command identities a caller may call ensure under
    NoIdentity,   \* no call in progress
    MaxRevision,  \* bound on the revision of the row, by "serial"
    MaxFaults     \* bound on Git failures, wrong checkouts and crashes, by
                  \* "serial"

ASSUME WorkspaceAssumption ==
    /\ NoBase \notin Bases
    /\ NoIdentity \notin Identities
    /\ {MaxRevision, MaxFaults} \subseteq [BOOLEAN -> Nat]

VARIABLES
    taskPhase,  \* tasks.phase
    ws,         \* the Task's row of workspaces
    ledger,     \* command ids committed by the transitions of this row
    head,       \* the commit the requested ref names in the source now
    disk,       \* what is at the Workspace path
    caller,     \* each caller's step, and the row it last read
    faults,     \* faults so far
    serial      \* the supervisor lets one call finish before the next begins

vars == <<taskPhase, ws, ledger, head, disk, caller, faults, serial>>

NoRow == "none"
Phases == {"Requested", "Materializing", "Ready", "Frozen", "Error"}
Materializations == {"Present", "Absent", "Unknown"}
Rows == [phase : Phases \cup {NoRow}, materialization : Materializations,
         base : Bases \cup {NoBase}, revision : Nat]

\* has_been_mutable.  No code moves a row to Releasing or Released.
HasBeenMutable(phase) == phase \in {"Ready", "Frozen"}

Steps == {"idle", "resolve", "open", "dispatch", "begin", "marked", "discard",
          "create", "verify", "complete", "fail", "record", "reopen"}

NoWorkspace ==
    [phase |-> NoRow, materialization |-> "Absent", base |-> NoBase,
     revision |-> 0]

Idle == [step |-> "idle", id |-> NoIdentity, row |-> NoWorkspace,
         base |-> NoBase, observed |-> "Unknown"]

Init ==
    /\ taskPhase = "Ready"
    /\ ws = NoWorkspace
    /\ ledger = {}
    /\ head \in Bases
    /\ disk = [state |-> "absent", base |-> NoBase]
    /\ caller = [c \in Callers |-> Idle]
    /\ faults = 0
    /\ serial \in BOOLEAN

----------------------------------------------------------------------------
(* Store transactions.  A caller runs a transition under an identity       *)
(* derived from its own, the transition's name and, but for open, the      *)
(* revision it starts from.  An identity in the ledger replays: nothing is *)
(* written, and the caller reads the row again in a later step.            *)

At(c, step) == caller[c].step = step
Goto(c, step) == caller' = [caller EXCEPT ![c].step = step]
Return(c) == caller' = [caller EXCEPT ![c] = Idle]
Take(c, row, step) ==
    caller' = [caller EXCEPT ![c] =
                 IF step = "idle" THEN Idle
                 ELSE [@ EXCEPT !.row = row, !.step = step]]
Fault == faults < MaxFaults[serial] /\ faults' = faults + 1

OpenId(c) == <<caller[c].id, "open">>
CommandId(c, name, revision) == <<caller[c].id, name, revision>>

\* update_revisioned on the row, and the record handed to the caller.
Transition(c, name, phase, materialization, next) ==
    /\ ws.revision < MaxRevision[serial]
    /\ ws' = [ws EXCEPT !.phase = phase, !.materialization = materialization,
                        !.revision = @ + 1]
    /\ ledger' = ledger \cup {CommandId(c, name, caller[c].row.revision)}
    /\ Take(c, ws', next)
    /\ UNCHANGED <<taskPhase, head, disk, faults>>

Replay(c, name, next) ==
    /\ CommandId(c, name, caller[c].row.revision) \in ledger
    /\ Take(c, caller[c].row, next)
    /\ UNCHANGED <<taskPhase, ws, ledger, head, disk, faults>>

Refused(c) ==
    /\ Return(c)
    /\ UNCHANGED <<taskPhase, ws, ledger, head, disk, faults>>

New(c, name) == CommandId(c, name, caller[c].row.revision) \notin ledger
Unmoved(c) == caller[c].row.revision = ws.revision

\* What ensure does with the row it found.  A frozen Workspace is refused.
StepFor_ErrorRefused(phase) ==
    CASE phase = "Ready" -> "reopen"
      [] phase \in {"Requested", "Materializing"} -> "begin"
      [] OTHER -> "idle"

StepFor(phase) ==
    CASE phase = "Ready" -> "reopen"
      [] phase \in {"Requested", "Materializing", "Error"} -> "begin"
      [] OTHER -> "idle"

\* ensure: read the Task's row.
Ensure(c, id) ==
    /\ At(c, "idle")
    /\ serial => \A d \in Callers : At(d, "idle")
    /\ LET step == IF ws.phase = NoRow THEN "resolve" ELSE StepFor(ws.phase)
       IN  caller' = [caller EXCEPT ![c] =
                        IF step = "idle" THEN Idle
                        ELSE [@ EXCEPT !.id = id, !.row = ws, !.step = step]]
    /\ UNCHANGED <<taskPhase, ws, ledger, head, disk, faults>>

\* repository_of and resolve_base: a Ready Task, and the commit the ref
\* names at this moment.
Resolve(c) ==
    /\ At(c, "resolve")
    /\ taskPhase = "Ready"
    /\ caller' = [caller EXCEPT ![c].base = head, ![c].step = "open"]
    /\ UNCHANGED <<taskPhase, ws, ledger, head, disk, faults>>

ResolveFails(c) ==
    /\ At(c, "resolve")
    /\ taskPhase # "Ready" \/ faults < MaxFaults[serial]
    /\ Return(c)
    /\ faults' = IF taskPhase = "Ready" THEN faults + 1 ELSE faults
    /\ UNCHANGED <<taskPhase, ws, ledger, head, disk>>

OpenAllowed == ws.phase = NoRow /\ taskPhase = "Ready"

\* open_workspace: identity and immutable base, before any effect.
OpenWorkspace(c) ==
    /\ At(c, "open")
    /\ OpenId(c) \notin ledger
    /\ OpenAllowed
    /\ ws' = [phase |-> "Requested", materialization |-> "Absent",
              base |-> caller[c].base, revision |-> 1]
    /\ ledger' = ledger \cup {OpenId(c)}
    /\ Take(c, ws', "begin")
    /\ UNCHANGED <<taskPhase, head, disk, faults>>

OpenReplayed(c) ==
    /\ At(c, "open")
    /\ OpenId(c) \in ledger
    /\ Goto(c, "dispatch")
    /\ UNCHANGED <<taskPhase, ws, ledger, head, disk, faults>>

OpenRefused(c) ==
    /\ At(c, "open")
    /\ OpenId(c) \notin ledger
    /\ ~OpenAllowed
    /\ Refused(c)

\* settle after a replayed open: the current row decides what follows.
DispatchReplayed(c) ==
    /\ At(c, "dispatch")
    /\ Take(c, ws, StepFor(ws.phase))
    /\ UNCHANGED <<taskPhase, ws, ledger, head, disk, faults>>

BeginAllowed(c) == Unmoved(c) /\ ~HasBeenMutable(ws.phase)

\* begin_workspace_materialization: the marker, before the first effect.
BeginMaterialization(c) ==
    /\ At(c, "begin")
    /\ New(c, "materializing")
    /\ BeginAllowed(c)
    /\ Transition(c, "materializing", "Materializing", "Unknown", "discard")

BeginReplayed(c) == At(c, "begin") /\ Replay(c, "materializing", "marked")

BeginRefused(c) ==
    /\ At(c, "begin")
    /\ New(c, "materializing")
    /\ ~BeginAllowed(c)
    /\ Refused(c)

\* settle after a replayed marker: whatever the row is now, the external
\* steps follow.
RereadMarked(c) ==
    /\ At(c, "marked")
    /\ Take(c, ws, "discard")
    /\ UNCHANGED <<taskPhase, ws, ledger, head, disk, faults>>

CompleteAllowed_Unverified(c) == Unmoved(c) /\ ws.phase = "Materializing"

CompleteAllowed(c) ==
    /\ Unmoved(c)
    /\ ws.phase = "Materializing"
    /\ ws.base = caller[c].base

\* complete_workspace_materialization: the commit read back at HEAD must be
\* the bound one.
CompleteMaterialization(c) ==
    /\ At(c, "complete")
    /\ New(c, "ready")
    /\ CompleteAllowed(c)
    /\ Transition(c, "ready", "Ready", "Present", "idle")

CompleteReplayed(c) == At(c, "complete") /\ Replay(c, "ready", "idle")

\* A refused completion returns the error and records no failure.
CompleteRefused(c) ==
    /\ At(c, "complete")
    /\ New(c, "ready")
    /\ ~CompleteAllowed(c)
    /\ Refused(c)

FailAllowed_AnyPhase(c) == Unmoved(c)
FailAllowed(c) == Unmoved(c) /\ ~HasBeenMutable(ws.phase)

\* fail_workspace_materialization, with what was observed.
FailMaterialization(c) ==
    /\ At(c, "record")
    /\ New(c, "failed")
    /\ FailAllowed(c)
    /\ Transition(c, "failed", "Error", caller[c].observed, "idle")

FailReplayed(c) == At(c, "record") /\ Replay(c, "failed", "idle")

FailRefused(c) ==
    /\ At(c, "record")
    /\ New(c, "failed")
    /\ ~FailAllowed(c)
    /\ Refused(c)

----------------------------------------------------------------------------
(* The repository at the Workspace path.                                   *)

Absent == [state |-> "absent", base |-> NoBase]

\* discard: remove_dir_all, and nothing there is success.
Discard(c) ==
    /\ At(c, "discard")
    /\ disk' = Absent
    /\ Goto(c, "create")
    /\ UNCHANGED <<taskPhase, ws, ledger, head, faults>>

DiscardFails(c) ==
    /\ At(c, "discard")
    /\ Fault
    /\ disk' \in {disk, [disk EXCEPT !.state =
                            IF @ = "absent" THEN @ ELSE "partial"]}
    /\ Goto(c, "fail")
    /\ UNCHANGED <<taskPhase, ws, ledger, head>>

\* materialize: git init leaves an existing repository in place.
StartMaterialize(c) ==
    /\ At(c, "create")
    /\ disk' = [disk EXCEPT !.state = IF @ = "absent" THEN "partial" ELSE @]
    /\ Goto(c, "verify")
    /\ UNCHANGED <<taskPhase, ws, ledger, head, faults>>

\* fetch, pin, detached checkout and the HEAD read back: b is the bound
\* commit, or by a fault another one.
FinishMaterialize(c, b) ==
    /\ At(c, "verify")
    /\ disk.state # "absent"
    /\ IF b = caller[c].row.base THEN UNCHANGED faults ELSE Fault
    /\ disk' = [disk EXCEPT !.state = "complete", !.base = b]
    /\ caller' = [caller EXCEPT ![c].base = b, ![c].step = "complete"]
    /\ UNCHANGED <<taskPhase, ws, ledger, head>>

\* A Git command fails, by itself or because the directory is gone.
MaterializeFails(c) ==
    /\ At(c, "verify")
    /\ IF disk.state = "absent" THEN UNCHANGED faults ELSE Fault
    /\ disk' \in {disk, IF disk.state = "absent" THEN disk
                        ELSE [disk EXCEPT !.state = "complete",
                                          !.base = caller[c].row.base]}
    /\ Goto(c, "fail")
    /\ UNCHANGED <<taskPhase, ws, ledger, head>>

\* observe: only a path that is not there is Absent; an inspection that
\* fails, or a repository that lacks the base, is Unknown.
Observations ==
    {"Unknown"} \cup (IF disk.state = "absent" THEN {"Absent"} ELSE {"Present"})

ObservedOnFailure_ErrorIsAbsent(o) == "Absent"
\* record_failure observes first, and never claims Present.
ObservedOnFailure(o) == IF o = "Absent" THEN "Absent" ELSE "Unknown"

ObserveFailure(c) ==
    /\ At(c, "fail")
    /\ \E o \in Observations :
         caller' = [caller EXCEPT ![c].observed = ObservedOnFailure(o),
                                  ![c].step = "record"]
    /\ UNCHANGED <<taskPhase, ws, ledger, head, disk, faults>>

\* reopen: a Ready Workspace is observed and nothing is written; one that is
\* not there is reported Missing and never rebuilt.
Reopen(c) == At(c, "reopen") /\ Refused(c)

CallerCrashes(c) ==
    /\ caller[c].step # "idle"
    /\ Fault
    /\ Return(c)
    /\ UNCHANGED <<taskPhase, ws, ledger, head, disk>>

----------------------------------------------------------------------------
(* The rest of the system, as far as it touches the row or the path.       *)

\* The source repository moves its ref.
SourceMoves ==
    /\ head' \in Bases \ {head}
    /\ UNCHANGED <<taskPhase, ws, ledger, disk, caller, faults>>

\* T3 takes a Ready Task whose Workspace is Ready and Present.
RunIntent ==
    /\ taskPhase = "Ready"
    /\ ws.phase = "Ready"
    /\ ws.materialization = "Present"
    /\ taskPhase' = "Active"
    /\ UNCHANGED <<ws, ledger, head, disk, caller, faults>>

CancelTask ==
    /\ taskPhase # "Finalizing"
    /\ taskPhase' = "Finalizing"
    /\ UNCHANGED <<ws, ledger, head, disk, caller, faults>>

\* freeze_workspace, under the authority of the Active Task's Run.
FreezeWorkspace ==
    /\ taskPhase = "Active"
    /\ ws.phase = "Ready"
    /\ ws.materialization = "Present"
    /\ ws.revision < MaxRevision[serial]
    /\ ws' = [ws EXCEPT !.phase = "Frozen", !.revision = @ + 1]
    /\ UNCHANGED <<taskPhase, ledger, head, disk, caller, faults>>

Transitions(c) ==
    \/ \E id \in Identities : Ensure(c, id)
    \/ Resolve(c) \/ OpenWorkspace(c) \/ OpenReplayed(c)
    \/ OpenRefused(c) \/ DispatchReplayed(c) \/ BeginMaterialization(c)
    \/ BeginReplayed(c) \/ BeginRefused(c) \/ RereadMarked(c)
    \/ CompleteMaterialization(c) \/ CompleteReplayed(c) \/ CompleteRefused(c)
    \/ FailMaterialization(c) \/ FailReplayed(c) \/ FailRefused(c)

External(c) ==
    \/ Discard(c) \/ StartMaterialize(c)
    \/ \E b \in Bases : FinishMaterialize(c, b)
    \/ ObserveFailure(c) \/ Reopen(c)

Faulty(c) ==
    \/ ResolveFails(c) \/ DiscardFails(c) \/ MaterializeFails(c)
    \/ CallerCrashes(c)

Environment ==
    SourceMoves \/ RunIntent \/ CancelTask \/ FreezeWorkspace

Next ==
    /\ \/ \E c \in Callers : Transitions(c) \/ External(c) \/ Faulty(c)
       \/ Environment
    /\ UNCHANGED serial

Spec == Init /\ [][Next]_vars

\* Each caller is a running thread, and whoever supervises it calls ensure
\* again after an error.  Faults need not stop, but are bounded here.
FairSpec ==
    /\ Spec
    /\ \A c \in Callers :
        WF_vars((Transitions(c) \/ External(c)) /\ UNCHANGED serial)

----------------------------------------------------------------------------
(* What must hold whatever the callers do.                                 *)

(* The Workspace keeps the protocol of EffectProtocol: nothing but its     *)
(* callers touches the path, a failed materialization is tried again, no   *)
(* failure strikes a row that has been mutable, and nothing releases it.   *)

Stage ==
    CASE ws.phase \in {NoRow, "Requested"} -> "unmarked"
      [] ws.phase = "Materializing" -> "marked"
      [] ws.phase \in {"Ready", "Frozen"} -> "usable"
      [] ws.phase = "Error" -> "failed"

World ==
    CASE disk.state = "absent" -> "none"
      [] disk.state = "complete" /\ disk.base = ws.base -> "proven"
      [] OTHER -> "unproven"

Effect == INSTANCE EffectProtocol
            WITH Perishable <- FALSE, Retryable <- TRUE, Fenced <- TRUE,
                 Closable <- FALSE, stage <- Stage, claim <- ws.materialization,
                 world <- World, alone <- serial

\* The Workspace implements EffectProtocol: nothing at the path before the
\* marker, Ready only over the bound commit, Absent only over an empty path, and
\* no late failure of another caller turns Ready or Frozen into Error, which
\* begin_workspace_materialization would rebuild.
ImplementsEffectProtocol == Effect!Spec

(* What needs the calls to come one at a time: a caller that is past its   *)
(* marker discards the path without reading the row again, also when       *)
(* another one has made the Workspace Ready meanwhile.                     *)

\* A Workspace that has been mutable has its repository at its path, checked
\* out from the commit the row is bound to: "external state at that point is
\* never-Ready controller-owned scratch", and nothing else is discarded.
ReadyMatchesBinding ==
    serial /\ ws.phase \in {"Ready", "Frozen"} =>
        disk.state = "complete" /\ disk.base = ws.base

\* No failure leaves the Workspace where ensure cannot take it further: called
\* again often enough it becomes Ready, unless the Task is cancelled first.
EventuallyReady ==
    serial => <>(ws.phase \in {"Ready", "Frozen"} \/ taskPhase = "Finalizing")

=============================================================================
