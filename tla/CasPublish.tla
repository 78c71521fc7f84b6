----------------------------- MODULE CasPublish -----------------------------
(***************************************************************************)
(* LocalFsCas::publish, against a file system that may lose power.  An     *)
(* object is one digest; its bytes are whole or not, and its directory     *)
(* entry is absent, visible, or visible and flushed.  After publish        *)
(* returns, the caller's transaction claims the object durably.            *)
(***************************************************************************)
EXTENDS Naturals

CONSTANTS
    Publishers,     \* concurrent calls of publish
    Objects,        \* digests being published
    NoObject,
    MaxLosses,      \* bound on power losses
    MaxFaults       \* bound on failed file operations and killed processes

ASSUME CasAssumption ==
    NoObject \notin Objects /\ MaxLosses \in Nat /\ MaxFaults \in Nat

VARIABLES
    entry,     \* directory entry of each object
    bytes,     \* bytes of the file each entry links to
    pub,       \* each call: its step, object, and the state of its staged file
    claims,    \* objects committed rows name, and whether the call that
               \* returned the reference had flushed the directory
    losses, faults

vars == <<entry, bytes, pub, claims, losses, faults>>
disk == <<entry, bytes>>
bounds == <<losses, faults>>

Idle == [step |-> "idle", object |-> NoObject, staged |-> "none"]

Init ==
    /\ entry = [o \in Objects |-> "absent"]
    /\ bytes = [o \in Objects |-> "none"]
    /\ pub = [p \in Publishers |-> Idle]
    /\ claims = {}
    /\ losses = 0
    /\ faults = 0

At(p, step) == pub[p].step = step
Goto(p, step) == pub' = [pub EXCEPT ![p].step = step]
Object(p) == pub[p].object

\* read_verified: what is linked must hash to the digest.
Verifies(o) == bytes[o] \in {"written", "synced"}

\* final_path.exists() decides between proving what is there and staging.
Begin(p, o) ==
    /\ At(p, "idle")
    /\ pub' = [pub EXCEPT ![p] = [step |-> IF entry[o] = "absent" THEN "stage" ELSE "verify",
                                  object |-> o, staged |-> "none"]]
    /\ UNCHANGED <<disk, claims, bounds>>

\* Bytes are written under a private name, then flushed.
Stage(p) ==
    /\ At(p, "stage")
    /\ pub' = [pub EXCEPT ![p].staged = "written", ![p].step = "flush"]
    /\ UNCHANGED <<disk, claims, bounds>>

Flush_Skipped(p) ==
    /\ At(p, "flush")
    /\ Goto(p, "link")
    /\ UNCHANGED <<disk, claims, bounds>>

Flush(p) ==
    /\ At(p, "flush")
    /\ pub' = [pub EXCEPT ![p].staged = "synced", ![p].step = "link"]
    /\ UNCHANGED <<disk, claims, bounds>>

\* finalize: a hard link creates the entry or finds it there.
Link(p) ==
    /\ At(p, "link")
    /\ entry[Object(p)] = "absent"
    /\ entry' = [entry EXCEPT ![Object(p)] = "linked"]
    /\ bytes' = [bytes EXCEPT ![Object(p)] = pub[p].staged]
    /\ Goto(p, "discard")
    /\ UNCHANGED <<claims, bounds>>

LinkCollides(p) ==
    /\ At(p, "link")
    /\ entry[Object(p)] # "absent"
    /\ Goto(p, "verify")
    /\ UNCHANGED <<disk, claims, bounds>>

\* Either existing-object path ends here: no directory flush follows.
Verify(p) ==
    /\ At(p, "verify")
    /\ entry[Object(p)] # "absent"
    /\ IF Verifies(Object(p)) THEN Goto(p, "found") ELSE pub' = [pub EXCEPT ![p] = Idle]
    /\ UNCHANGED <<disk, claims, bounds>>

\* discard_staged.
Discard(p) ==
    /\ At(p, "discard")
    /\ pub' = [pub EXCEPT ![p].staged = "none", ![p].step = "syncDir"]
    /\ UNCHANGED <<disk, claims, bounds>>

SyncDir_Skipped(p) ==
    /\ At(p, "syncDir")
    /\ Goto(p, "ok")
    /\ UNCHANGED <<disk, claims, bounds>>

\* sync_dir flushes every entry of the objects directory.
SyncDir(p) ==
    /\ At(p, "syncDir")
    /\ entry' = [o \in Objects |-> IF entry[o] = "linked" THEN "durable" ELSE entry[o]]
    /\ Goto(p, "ok")
    /\ UNCHANGED <<bytes, claims, bounds>>

\* publish returned the reference: the caller's transaction claims it.
Claim(p) ==
    /\ At(p, "ok") \/ At(p, "found")
    /\ claims' = claims \cup {[object |-> Object(p), flushed |-> At(p, "ok")]}
    /\ pub' = [pub EXCEPT ![p] = Idle]
    /\ UNCHANGED <<disk, bounds>>

\* Any file operation may fail, and the process may be killed; the file
\* system keeps what was done.
Abandon(p) ==
    /\ ~At(p, "idle")
    /\ faults < MaxFaults
    /\ faults' = faults + 1
    /\ pub' = [pub EXCEPT ![p] = Idle]
    /\ UNCHANGED <<disk, claims, losses>>

\* Power is lost: an unflushed entry may or may not survive, and so may the
\* unflushed bytes of a surviving entry.
PowerLoss ==
    /\ losses < MaxLosses
    /\ losses' = losses + 1
    /\ pub' = [p \in Publishers |-> Idle]
    /\ entry' \in {e \in [Objects -> {"absent", "durable"}] :
                     \A o \in Objects : entry[o] # "linked" => e[o] = entry[o]}
    /\ bytes' \in {b \in [Objects -> {"none", "synced", "torn"}] :
                     \A o \in Objects :
                        IF entry'[o] = "absent" THEN b[o] = "none"
                        ELSE IF bytes[o] = "written" THEN b[o] \in {"synced", "torn"}
                        ELSE b[o] = bytes[o]}
    /\ UNCHANGED <<claims, faults>>

PublishStep(p) ==
    \/ Stage(p) \/ Flush(p) \/ Link(p) \/ LinkCollides(p) \/ Verify(p)
    \/ Discard(p) \/ SyncDir(p) \/ Claim(p)

Next ==
    \/ \E p \in Publishers : PublishStep(p) \/ Abandon(p)
    \/ \E p \in Publishers, o \in Objects : Begin(p, o)
    \/ PowerLoss

Spec == Init /\ [][Next]_vars

----------------------------------------------------------------------------
\* The steps of a call and the states of the files; the bounds hold.
TypeOK ==
    /\ entry \in [Objects -> {"absent", "linked", "durable"}]
    /\ bytes \in [Objects -> {"none", "written", "synced", "torn"}]
    /\ pub \in [Publishers ->
                 [step : {"idle", "stage", "flush", "link", "verify", "discard",
                          "syncDir", "ok", "found"},
                  object : Objects \cup {NoObject},
                  staged : {"none", "written", "synced"}]]
    /\ claims \subseteq [object : Objects, flushed : BOOLEAN]
    /\ losses \in 0 .. MaxLosses
    /\ faults \in 0 .. MaxFaults

\* Nothing torn is ever visible under a digest: the bytes are flushed before
\* the name exists, so neither a crash nor a power loss leaves a partial object.
ObjectsWhole == \A o \in Objects : entry[o] # "absent" => bytes[o] = "synced"

\* Publication only creates: no publisher takes a durable entry back to one a
\* power loss could remove.
PublicationOnlyCreates ==
    [][\A o \in Objects : entry[o] = "durable" => entry'[o] = "durable"]_vars

\* "The linkage survives crashes too": an object a row names on the word of a
\* call that created and flushed its entry is there after any later loss of
\* power, whoever else publishes or is killed.  A reference returned for an
\* entry that was found there has no such backing: nobody may have flushed it.
FlushedClaimsSurvive ==
    \A c \in claims : c.flushed => entry[c.object] # "absent"

=============================================================================
