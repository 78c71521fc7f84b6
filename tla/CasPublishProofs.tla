-------------------------- MODULE CasPublishProofs --------------------------
(***************************************************************************)
(* Publication into the content store is safe for any number of            *)
(* publishers, objects, failures and power losses.                         *)
(***************************************************************************)
EXTENDS CasPublish, TLAPS

\* What a call has established at each of its steps: the staged bytes are
\* flushed when the name is about to be given, the name is there from then on,
\* and flushed when the reference is returned.
CallInv ==
    \A p \in Publishers :
        /\ pub[p].step # "idle" => pub[p].object \in Objects
        /\ pub[p].step = "link" => pub[p].staged = "synced"
        /\ pub[p].step \in {"discard", "syncDir"} => entry[pub[p].object] # "absent"
        /\ pub[p].step = "ok" => entry[pub[p].object] = "durable"

\* A claim backed by a flush names a durable entry.  That the entry is merely
\* there would not be inductive: a loss of power may take a linked entry.
ClaimInv == \A c \in claims : c.flushed => entry[c.object] = "durable"

CasInv == TypeOK /\ ObjectsWhole /\ CallInv /\ ClaimInv

Steps == {"idle", "stage", "flush", "link", "verify", "discard", "syncDir", "ok", "found"}
Calls == [step : Steps, object : Objects \cup {NoObject}, staged : {"none", "written", "synced"}]

----------------------------------------------------------------------------
\* The empty store satisfies the invariant.
LEMMA CasInit == Init => CasInv
  BY CasAssumption
     DEF Init, CasInv, TypeOK, ObjectsWhole, CallInv, ClaimInv, Idle

\* A step that leaves the entries, the bytes and the claims alone preserves the
\* invariant when the call that takes it is right about where it stands.
LEMMA CallMoves ==
    ASSUME CasInv, NEW p \in Publishers, NEW call \in Calls,
           pub' = [pub EXCEPT ![p] = call],
           call.step # "idle" => call.object \in Objects,
           call.step = "link" => call.staged = "synced",
           call.step \in {"discard", "syncDir"} => entry[call.object] # "absent",
           call.step = "ok" => entry[call.object] = "durable",
           UNCHANGED <<entry, bytes, claims, losses>>,
           faults' \in 0 .. MaxFaults
    PROVE  CasInv'
<1>1. TypeOK'
  BY DEF CasInv, TypeOK, Calls, Steps
<1>2. ObjectsWhole' /\ ClaimInv'
  BY DEF CasInv, ObjectsWhole, ClaimInv
<1>3. CallInv'
  <2> SUFFICES ASSUME NEW q \in Publishers
               PROVE  /\ pub'[q].step # "idle" => pub'[q].object \in Objects
                      /\ pub'[q].step = "link" => pub'[q].staged = "synced"
                      /\ pub'[q].step \in {"discard", "syncDir"} => entry[pub'[q].object] # "absent"
                      /\ pub'[q].step = "ok" => entry[pub'[q].object] = "durable"
    BY DEF CallInv
  <2>1. pub'[q] = IF q = p THEN call ELSE pub[q]
    BY DEF CasInv, TypeOK
  <2> QED
    BY <2>1 DEF CasInv, CallInv
<1> QED
  BY <1>1, <1>2, <1>3 DEF CasInv

\* The idle call is a call.
LEMMA IdleIsCall == Idle \in Calls /\ Idle.step = "idle"
  BY DEF Idle, Calls, Steps

\* Every step of the system preserves the invariant.
LEMMA CasStep == CasInv /\ [Next]_vars => CasInv'
<1> SUFFICES ASSUME CasInv, [Next]_vars PROVE CasInv'
  OBVIOUS
<1>t. pub \in [Publishers -> Calls] /\ faults \in 0 .. MaxFaults
  BY DEF CasInv, TypeOK, Calls, Steps
<1>1. ASSUME NEW p \in Publishers, NEW o \in Objects, Begin(p, o) PROVE CasInv'
  <2> DEFINE call == [step |-> IF entry[o] = "absent" THEN "stage" ELSE "verify",
                      object |-> o, staged |-> "none"]
  <2>1. call \in Calls /\ call.step \in {"stage", "verify"} /\ call.object = o
    BY DEF Calls, Steps
  <2>2. pub' = [pub EXCEPT ![p] = call] /\ UNCHANGED <<entry, bytes, claims, losses, faults>>
    BY <1>1 DEF Begin, disk, bounds
  <2> HIDE DEF call
  <2> QED
    BY <2>1, <2>2, <1>t, CallMoves
<1>2. ASSUME NEW p \in Publishers, Stage(p) PROVE CasInv'
  <2> DEFINE call == [pub[p] EXCEPT !.staged = "written", !.step = "flush"]
  <2>1. call \in Calls /\ call.step = "flush" /\ call.object = pub[p].object
    BY <1>t DEF Calls, Steps
  <2>2. call.object \in Objects
    BY <2>1, <1>2 DEF CasInv, CallInv, Stage, At
  <2>3. pub' = [pub EXCEPT ![p] = call] /\ UNCHANGED <<entry, bytes, claims, losses, faults>>
    BY <1>2, <1>t DEF Stage, disk, bounds, Calls
  <2> HIDE DEF call
  <2> QED
    BY <2>1, <2>2, <2>3, <1>t, CallMoves
<1>3. ASSUME NEW p \in Publishers, Flush(p) PROVE CasInv'
  <2> DEFINE call == [pub[p] EXCEPT !.staged = "synced", !.step = "link"]
  <2>1. call \in Calls /\ call.step = "link" /\ call.staged = "synced" /\ call.object = pub[p].object
    BY <1>t DEF Calls, Steps
  <2>2. call.object \in Objects
    BY <2>1, <1>3 DEF CasInv, CallInv, Flush, At
  <2>3. pub' = [pub EXCEPT ![p] = call] /\ UNCHANGED <<entry, bytes, claims, losses, faults>>
    BY <1>3, <1>t DEF Flush, disk, bounds, Calls
  <2> HIDE DEF call
  <2> QED
    BY <2>1, <2>2, <2>3, <1>t, CallMoves
<1>4. ASSUME NEW p \in Publishers, Link(p) PROVE CasInv'
  <2> DEFINE o == pub[p].object
  <2>1. o \in Objects /\ pub[p].staged = "synced" /\ entry[o] = "absent"
    BY <1>4 DEF CasInv, CallInv, Link, At, Object
  <2>2. /\ entry' = [entry EXCEPT ![o] = "linked"]
        /\ bytes' = [bytes EXCEPT ![o] = "synced"]
        /\ pub' = [pub EXCEPT ![p].step = "discard"]
        /\ UNCHANGED <<claims, losses, faults>>
    BY <1>4, <2>1 DEF Link, Goto, Object, bounds
  <2>3. TypeOK'
    <3>1. entry' \in [Objects -> {"absent", "linked", "durable"}]
      BY <2>1, <2>2 DEF CasInv, TypeOK
    <3>2. bytes' \in [Objects -> {"none", "written", "synced", "torn"}]
      BY <2>1, <2>2 DEF CasInv, TypeOK
    <3>3. pub' \in [Publishers -> Calls]
      BY <2>2, <1>t DEF Calls, Steps
    <3> QED
      BY <3>1, <3>2, <3>3, <2>2 DEF CasInv, TypeOK, Calls, Steps
  <2>4. ObjectsWhole'
    BY <2>1, <2>2 DEF CasInv, TypeOK, ObjectsWhole
  <2>5. \A x \in Objects : entry[x] # "absent" => entry'[x] = entry[x]
    BY <2>1, <2>2 DEF CasInv, TypeOK
  <2>6. CallInv'
    <3> SUFFICES ASSUME NEW q \in Publishers
                 PROVE  /\ pub'[q].step # "idle" => pub'[q].object \in Objects
                        /\ pub'[q].step = "link" => pub'[q].staged = "synced"
                        /\ pub'[q].step \in {"discard", "syncDir"} => entry'[pub'[q].object] # "absent"
                        /\ pub'[q].step = "ok" => entry'[pub'[q].object] = "durable"
      BY DEF CallInv
    <3>1. CASE q = p
      <4>1. pub'[p].step = "discard" /\ pub'[p].object = o
        BY <2>2, <1>t DEF Calls
      <4>2. entry'[o] = "linked"
        BY <2>1, <2>2 DEF CasInv, TypeOK
      <4> QED
        BY <3>1, <4>1, <4>2, <2>1
    <3>2. CASE q # p
      <4>1. pub'[q] = pub[q]
        BY <3>2, <2>2, <1>t
      <4> QED
        BY <4>1, <2>5 DEF CasInv, CallInv
    <3> QED
      BY <3>1, <3>2
  <2>7. ClaimInv'
    BY <2>2, <2>5 DEF CasInv, TypeOK, ClaimInv
  <2> QED
    BY <2>3, <2>4, <2>6, <2>7 DEF CasInv
<1>5. ASSUME NEW p \in Publishers, LinkCollides(p) PROVE CasInv'
  <2> DEFINE call == [pub[p] EXCEPT !.step = "verify"]
  <2>1. call \in Calls /\ call.step = "verify" /\ call.object = pub[p].object
    BY <1>t DEF Calls, Steps
  <2>2. call.object \in Objects
    BY <2>1, <1>5 DEF CasInv, CallInv, LinkCollides, At
  <2>3. pub' = [pub EXCEPT ![p] = call] /\ UNCHANGED <<entry, bytes, claims, losses, faults>>
    BY <1>5, <1>t DEF LinkCollides, Goto, disk, bounds, Calls
  <2> HIDE DEF call
  <2> QED
    BY <2>1, <2>2, <2>3, <1>t, CallMoves
<1>6. ASSUME NEW p \in Publishers, Verify(p) PROVE CasInv'
  <2> DEFINE call == [pub[p] EXCEPT !.step = "found"]
  <2>1. call \in Calls /\ call.step = "found" /\ call.object = pub[p].object
    BY <1>t DEF Calls, Steps
  <2>2. call.object \in Objects
    BY <2>1, <1>6 DEF CasInv, CallInv, Verify, At
  <2>3. /\ pub' = [pub EXCEPT ![p] = call] \/ pub' = [pub EXCEPT ![p] = Idle]
        /\ UNCHANGED <<entry, bytes, claims, losses, faults>>
    BY <1>6, <1>t DEF Verify, Goto, disk, bounds, Calls
  <2> HIDE DEF call
  <2>4. CASE pub' = [pub EXCEPT ![p] = call]
    BY <2>1, <2>2, <2>3, <2>4, <1>t, CallMoves
  <2>5. CASE pub' = [pub EXCEPT ![p] = Idle]
    BY <2>3, <2>5, <1>t, IdleIsCall, CallMoves
  <2> QED
    BY <2>3, <2>4, <2>5
<1>7. ASSUME NEW p \in Publishers, Discard(p) PROVE CasInv'
  <2> DEFINE call == [pub[p] EXCEPT !.staged = "none", !.step = "syncDir"]
  <2>1. call \in Calls /\ call.step = "syncDir" /\ call.object = pub[p].object
    BY <1>t DEF Calls, Steps
  <2>2. call.object \in Objects /\ entry[call.object] # "absent"
    BY <2>1, <1>7 DEF CasInv, CallInv, Discard, At
  <2>3. pub' = [pub EXCEPT ![p] = call] /\ UNCHANGED <<entry, bytes, claims, losses, faults>>
    BY <1>7, <1>t DEF Discard, disk, bounds, Calls
  <2> HIDE DEF call
  <2> QED
    BY <2>1, <2>2, <2>3, <1>t, CallMoves
<1>8. ASSUME NEW p \in Publishers, SyncDir(p) PROVE CasInv'
  <2> DEFINE o == pub[p].object
  <2>1. o \in Objects /\ entry[o] # "absent"
    BY <1>8 DEF CasInv, CallInv, SyncDir, At
  <2>2. /\ entry' = [x \in Objects |-> IF entry[x] = "linked" THEN "durable" ELSE entry[x]]
        /\ pub' = [pub EXCEPT ![p].step = "ok"]
        /\ UNCHANGED <<bytes, claims, losses, faults>>
    BY <1>8 DEF SyncDir, Goto, bounds
  <2>3. \A x \in Objects : /\ entry'[x] \in {"absent", "durable"}
                           /\ entry'[x] = "absent" <=> entry[x] = "absent"
    BY <2>2 DEF CasInv, TypeOK
  <2>4. TypeOK'
    <3>1. entry' \in [Objects -> {"absent", "linked", "durable"}]
      BY <2>2 DEF CasInv, TypeOK
    <3>2. pub' \in [Publishers -> Calls]
      BY <2>2, <1>t DEF Calls, Steps
    <3> QED
      BY <3>1, <3>2, <2>2 DEF CasInv, TypeOK, Calls, Steps
  <2>5. ObjectsWhole'
    BY <2>2, <2>3 DEF CasInv, ObjectsWhole
  <2>6. CallInv'
    <3> SUFFICES ASSUME NEW q \in Publishers
                 PROVE  /\ pub'[q].step # "idle" => pub'[q].object \in Objects
                        /\ pub'[q].step = "link" => pub'[q].staged = "synced"
                        /\ pub'[q].step \in {"discard", "syncDir"} => entry'[pub'[q].object] # "absent"
                        /\ pub'[q].step = "ok" => entry'[pub'[q].object] = "durable"
      BY DEF CallInv
    <3>1. CASE q = p
      <4>1. pub'[p].step = "ok" /\ pub'[p].object = o
        BY <2>2, <1>t DEF Calls
      <4>2. entry'[o] = "durable"
        BY <2>1, <2>3
      <4> QED
        BY <3>1, <4>1, <4>2, <2>1
    <3>2. CASE q # p
      <4>1. pub'[q] = pub[q]
        BY <3>2, <2>2, <1>t
      <4>2. \A x \in Objects : entry[x] = "durable" => entry'[x] = "durable"
        BY <2>2
      <4> QED
        BY <4>1, <4>2, <2>3 DEF CasInv, CallInv
    <3> QED
      BY <3>1, <3>2
  <2>7. ClaimInv'
    BY <2>2 DEF CasInv, TypeOK, ClaimInv
  <2> QED
    BY <2>4, <2>5, <2>6, <2>7 DEF CasInv
<1>9. ASSUME NEW p \in Publishers, Claim(p) PROVE CasInv'
  <2> DEFINE new == [object |-> pub[p].object, flushed |-> pub[p].step = "ok"]
  <2>1. pub[p].object \in Objects /\ (pub[p].step = "ok" => entry[pub[p].object] = "durable")
    BY <1>9 DEF CasInv, CallInv, Claim, At
  <2>2. /\ claims' = claims \cup {new}
        /\ pub' = [pub EXCEPT ![p] = Idle]
        /\ UNCHANGED <<entry, bytes, losses, faults>>
    BY <1>9 DEF Claim, At, Object, disk, bounds
  <2>3. new \in [object : Objects, flushed : BOOLEAN]
    BY <2>1
  <2>4. new.flushed => entry[new.object] = "durable"
    BY <2>1
  <2> HIDE DEF new
  <2>5. pub' \in [Publishers -> Calls]
    BY <2>2, <1>t, IdleIsCall
  <2>6. TypeOK'
    BY <2>2, <2>3, <2>5 DEF CasInv, TypeOK, Calls, Steps
  <2>7. ObjectsWhole' /\ ClaimInv'
    BY <2>2, <2>4 DEF CasInv, ObjectsWhole, ClaimInv
  <2>8. CallInv'
    <3> SUFFICES ASSUME NEW q \in Publishers
                 PROVE  pub'[q].step = "idle" \/ pub'[q] = pub[q]
      BY <2>2 DEF CasInv, CallInv
    <3> QED
      BY <2>2, <1>t, IdleIsCall
  <2> QED
    BY <2>6, <2>7, <2>8 DEF CasInv
<1>10. ASSUME NEW p \in Publishers, Abandon(p) PROVE CasInv'
  <2>1. pub' = [pub EXCEPT ![p] = Idle] /\ UNCHANGED <<entry, bytes, claims, losses>>
    BY <1>10 DEF Abandon, disk
  <2>2. faults' \in 0 .. MaxFaults
    BY <1>10, <1>t, CasAssumption DEF Abandon
  <2> QED
    BY <2>1, <2>2, IdleIsCall, CallMoves
<1>11. ASSUME PowerLoss PROVE CasInv'
  <2>1. /\ entry' \in [Objects -> {"absent", "durable"}]
        /\ \A o \in Objects : entry[o] # "linked" => entry'[o] = entry[o]
    BY <1>11 DEF PowerLoss
  <2>2. /\ bytes' \in [Objects -> {"none", "synced", "torn"}]
        /\ \A o \in Objects :
              IF entry'[o] = "absent" THEN bytes'[o] = "none"
              ELSE IF bytes[o] = "written" THEN bytes'[o] \in {"synced", "torn"}
              ELSE bytes'[o] = bytes[o]
    BY <1>11 DEF PowerLoss
  <2>3. pub' = [q \in Publishers |-> Idle] /\ claims' = claims /\ faults' = faults
    BY <1>11 DEF PowerLoss
  <2>4. losses' \in 0 .. MaxLosses
    BY <1>11, CasAssumption DEF PowerLoss, CasInv, TypeOK
  <2>5. TypeOK'
    <3>1. pub' \in [Publishers -> Calls]
      BY <2>3, IdleIsCall
    <3>2. entry' \in [Objects -> {"absent", "linked", "durable"}]
      BY <2>1
    <3>3. bytes' \in [Objects -> {"none", "written", "synced", "torn"}]
      BY <2>2
    <3> QED
      BY <3>1, <3>2, <3>3, <2>3, <2>4 DEF CasInv, TypeOK, Calls, Steps
  <2>6. ObjectsWhole'
    <3> SUFFICES ASSUME NEW o \in Objects, entry'[o] # "absent" PROVE bytes'[o] = "synced"
      BY DEF ObjectsWhole
    <3>1. entry[o] # "absent"
      BY <2>1
    <3>2. bytes[o] = "synced"
      BY <3>1 DEF CasInv, ObjectsWhole
    <3> QED
      BY <2>2, <3>2
  <2>7. CallInv'
    BY <2>3, IdleIsCall DEF CallInv
  <2>8. ClaimInv'
    BY <2>1, <2>3 DEF CasInv, TypeOK, ClaimInv
  <2> QED
    BY <2>5, <2>6, <2>7, <2>8 DEF CasInv
<1>12. CASE UNCHANGED vars
  BY <1>12 DEF vars, CasInv, TypeOK, ObjectsWhole, CallInv, ClaimInv
<1> QED
  BY <1>1, <1>2, <1>3, <1>4, <1>5, <1>6, <1>7, <1>8, <1>9, <1>10, <1>11, <1>12
     DEF Next, PublishStep

\* LocalFsCas::publish keeps its invariant under every interleaving.
THEOREM CasSafe == Spec => []CasInv
  BY CasInit, CasStep, PTL DEF Spec

\* No partial object is ever visible under a digest, however many calls race,
\* fail or are cut off by a power loss: the flush precedes the link.
THEOREM NothingTorn == Spec => []ObjectsWhole
<1>1. CasInv => ObjectsWhole
  BY DEF CasInv
<1> QED
  BY <1>1, CasSafe, PTL

\* What a flushed publication returned is there after any later power loss.
THEOREM FlushedStays == Spec => []FlushedClaimsSurvive
<1>1. CasInv => FlushedClaimsSurvive
  BY DEF CasInv, ClaimInv, FlushedClaimsSurvive
<1> QED
  BY <1>1, CasSafe, PTL

\* No call takes a durable entry back: the link creates, and never replaces.
THEOREM DurableStays == Spec => PublicationOnlyCreates
<1>1. CasInv /\ [Next]_vars =>
        [\A o \in Objects : entry[o] = "durable" => entry'[o] = "durable"]_vars
  <2> SUFFICES ASSUME CasInv, Next, NEW o \in Objects, entry[o] = "durable"
               PROVE  entry'[o] = "durable"
    OBVIOUS
  <2>1. ASSUME NEW p \in Publishers, Link(p) PROVE entry'[o] = "durable"
    BY <2>1 DEF Link, CasInv, TypeOK
  <2>2. ASSUME NEW p \in Publishers, SyncDir(p) PROVE entry'[o] = "durable"
    BY <2>2 DEF SyncDir
  <2>3. CASE PowerLoss
    BY <2>3 DEF PowerLoss
  <2>4. ASSUME NEW p \in Publishers,
               \/ Stage(p) \/ Flush(p) \/ LinkCollides(p) \/ Verify(p)
               \/ Discard(p) \/ Claim(p) \/ Abandon(p) \/ \E x \in Objects : Begin(p, x)
        PROVE  entry'[o] = "durable"
    BY <2>4 DEF Stage, Flush, LinkCollides, Verify, Discard, Claim, Abandon, Begin, disk
  <2> QED
    BY <2>1, <2>2, <2>3, <2>4 DEF Next, PublishStep
<1> QED
  BY <1>1, CasSafe, PTL DEF Spec, PublicationOnlyCreates

=============================================================================
