----------------------- MODULE SandboxLifecycleProofs -----------------------
(***************************************************************************)
(* What the record of a Sandbox says about its container, for any number   *)
(* of callers, revisions and faults.                                       *)
(***************************************************************************)
EXTENDS SandboxLifecycle, TLAPS

CallType ==
    [step : {"idle", "read", "begin", "ensure", "verify", "complete", "fail", "held",
             "inspected", "release"},
     revision : Nat, found : Presences]
RowType == [phase : Phases, presence : Presences, revision : Nat]
BoxType == [state : {"none", "stopped", "running"}, isolated : BOOLEAN]

\* The steps of provision behind the marker.
Marked == {"ensure", "verify", "complete", "fail"}

\* What the record w, the container b and the ledger l say of each other.
RecordInv(w, b, l) ==
    /\ w.phase = "none" => w.revision = 0
    /\ w.phase \in {"none", "Requested", "Released"} => w.presence = "Absent"
    /\ w.phase # "none" => "create" \in l
    /\ "begin" \in l <=> w.phase \notin {"none", "Requested"}
    /\ w.phase = "Error" => "fail" \in l
    /\ w.phase \in {"none", "Requested"} => b.state = "none"
    /\ exclusive /\ w.phase = "Ready" => b.state = "none" \/ b.isolated
    /\ w.phase = "Ready" => w.presence = "Present"
    /\ exclusive /\ w.presence = "Absent" => b.state = "none" \/ w.phase = "Preparing"

\* What a call r may rely on: the revision it holds was never that of a
\* Released record, and with one call at a time nothing moved behind its back.
CallInv(r, w, b, l) ==
    /\ r.revision <= w.revision
    /\ r.step \in Marked => "begin" \in l
    /\ r.step \in Marked \cup {"begin"} /\ w.phase = "Released" => r.revision < w.revision
    /\ exclusive =>
        /\ r.step = "begin" => w.phase = "Requested"
        /\ r.step \in Marked => w.phase = "Preparing"
        /\ r.step = "complete" => b.state = "none" \/ b.isolated
        /\ r.step = "inspected" /\ r.found = "Absent" => b.state = "none"

\* Exclusive calls come one at a time.
OneAtATime ==
    exclusive => \A c, d \in Callers : c # d => At(c, "idle") \/ At(d, "idle")

SandboxInv ==
    /\ row \in RowType /\ box \in BoxType /\ call \in [Callers -> CallType]
    /\ exclusive \in BOOLEAN
    /\ RecordInv(row, box, ledger)
    /\ \A c \in Callers : CallInv(call[c], row, box, ledger)
    /\ OneAtATime

----------------------------------------------------------------------------
\* No record, no container, no call.
LEMMA SandboxInit == Init => SandboxInv
<1> SUFFICES ASSUME Init PROVE SandboxInv
  OBVIOUS
<1>1. Idle \in CallType /\ Idle.step = "idle" /\ Idle.revision = 0
  BY DEF Idle, CallType, Presences
<1>2. call \in [Callers -> CallType] /\ \A c \in Callers : call[c] = Idle
  BY <1>1 DEF Init
<1>3. row \in RowType /\ box \in BoxType
  BY DEF Init, RowType, BoxType, NoBox, Phases, Presences
<1>4. RecordInv(row, box, ledger)
  BY DEF Init, RecordInv, NoBox
<1>5. \A c \in Callers : CallInv(call[c], row, box, ledger)
  BY <1>1, <1>2 DEF Init, CallInv, Marked
<1>6. OneAtATime
  BY <1>1, <1>2 DEF OneAtATime, At
<1> QED
  BY <1>2, <1>3, <1>4, <1>5, <1>6 DEF Init, SandboxInv

\* One call moves to k and may take the record forward and touch the container.
\* Calls that overlap with it rely on nothing it can take away; calls that may
\* not overlap are idle.
LEMMA CallActs ==
    ASSUME SandboxInv, NEW c \in Callers, NEW k \in CallType,
           ~At(c, "idle") \/ MayStart(c),
           call' = [call EXCEPT ![c] = k], exclusive' = exclusive,
           row' \in RowType, box' \in BoxType, ledger \subseteq ledger',
           row' = row \/ row'.revision = row.revision + 1,
           RecordInv(row', box', ledger'),
           CallInv(k, row', box', ledger')
    PROVE  SandboxInv'
<1>1. call \in [Callers -> CallType] /\ row \in RowType /\ exclusive \in BOOLEAN
  BY DEF SandboxInv
<1>2. call' \in [Callers -> CallType] /\ \A d \in Callers : call'[d] = IF d = c THEN k ELSE call[d]
  BY <1>1
<1>3. ASSUME exclusive, NEW d \in Callers, d # c PROVE call[d].step = "idle"
  BY <1>3 DEF SandboxInv, OneAtATime, At, MayStart
<1>4. RecordInv(row, box, ledger)'
  BY DEF RecordInv
<1>5. ASSUME NEW d \in Callers PROVE CallInv(call[d], row, box, ledger)'
  <2>1. CASE d = c
    BY <2>1, <1>2 DEF CallInv
  <2>2. CASE d # c
    <3>1. call'[d] = call[d] /\ CallInv(call[d], row, box, ledger) /\ call[d] \in CallType
      BY <2>2, <1>1, <1>2 DEF SandboxInv
    <3>2. /\ call[d].revision \in Nat /\ row.revision \in Nat /\ row'.revision \in Nat
      BY <3>1, <1>1 DEF CallType, RowType
    <3>3. call[d].revision <= row'.revision
      BY <3>1, <3>2 DEF CallInv
    <3>4. call[d].step \in Marked \cup {"begin"} /\ row'.phase = "Released" =>
            call[d].revision < row'.revision
      BY <3>1, <3>2 DEF CallInv
    <3>5. call[d].step \in Marked => "begin" \in ledger'
      BY <3>1 DEF CallInv
    <3>6. exclusive => call[d].step \notin Marked \cup {"begin", "complete", "inspected"}
      BY <1>3, <2>2 DEF Marked
    <3> QED
      BY <3>1, <3>3, <3>4, <3>5, <3>6 DEF CallInv
  <2> QED
    BY <2>1, <2>2
<1>6. OneAtATime'
  BY <1>2, <1>3 DEF OneAtATime, At
<1> QED
  BY <1>1, <1>2, <1>4, <1>5, <1>6 DEF SandboxInv

\* One call moves and writes nothing.
LEMMA CallMoves ==
    ASSUME SandboxInv, NEW c \in Callers, NEW k \in CallType,
           ~At(c, "idle") \/ MayStart(c),
           call' = [call EXCEPT ![c] = k], UNCHANGED <<exclusive, row, box, ledger>>,
           CallInv(k, row, box, ledger)
    PROVE  SandboxInv'
<1>1. RecordInv(row', box', ledger') /\ CallInv(k, row', box', ledger')
  BY DEF SandboxInv, RecordInv, CallInv
<1> QED
  BY <1>1, CallActs DEF SandboxInv

\* What an idle call relies on: nothing.
LEMMA IdleCall ==
    ASSUME NEW w \in RowType, NEW b, NEW l
    PROVE  Idle \in CallType /\ CallInv(Idle, w, b, l)
<1>1. Idle \in CallType /\ Idle.step = "idle" /\ Idle.revision = 0
  BY DEF Idle, CallType, Presences
<1>2. 0 <= w.revision
  BY DEF RowType
<1> QED
  BY <1>1, <1>2 DEF CallInv, Marked

\* A call returns and writes nothing.
LEMMA CallReturns ==
    ASSUME SandboxInv, NEW c \in Callers, ~At(c, "idle"), Return(c),
           UNCHANGED <<exclusive, row, box, ledger>>
    PROVE  SandboxInv'
<1>1. Idle \in CallType /\ CallInv(Idle, row, box, ledger)
  BY IdleCall DEF SandboxInv
<1> QED
  BY <1>1, CallMoves DEF Return

\* A call goes to the step st and writes nothing.
LEMMA CallGoes ==
    ASSUME SandboxInv, NEW c \in Callers, NEW st, ~At(c, "idle") \/ MayStart(c),
           Goto(c, st), UNCHANGED <<exclusive, row, box, ledger>>,
           \/ st = "read"
           \/ call[c].step \in Marked /\ st = "fail"
           \/ call[c].step \in Marked /\ st = "complete" /\ box.isolated
    PROVE  SandboxInv'
<1> DEFINE k == [call[c] EXCEPT !.step = st]
<1>1. call[c] \in CallType /\ CallInv(call[c], row, box, ledger)
  BY DEF SandboxInv
<1>2. k \in CallType /\ k.step = st /\ k.revision = call[c].revision
  BY <1>1 DEF CallType
<1>3. call' = [call EXCEPT ![c] = k]
  BY DEF Goto
<1> HIDE DEF k
<1>4. CallInv(k, row, box, ledger)
  BY <1>1, <1>2 DEF CallInv, Marked
<1> QED
  BY <1>2, <1>3, <1>4, CallMoves

\* A call returns after it took the record forward.
LEMMA RecordMoves ==
    ASSUME SandboxInv, NEW c \in Callers, ~At(c, "idle"), Return(c),
           NEW phase \in Phases, NEW presence \in Presences, Transition(phase, presence),
           UNCHANGED <<exclusive, box>>, ledger \subseteq ledger',
           RecordInv([phase |-> phase, presence |-> presence, revision |-> row.revision + 1],
                     box, ledger')
    PROVE  SandboxInv'
<1> DEFINE w == [phase |-> phase, presence |-> presence, revision |-> row.revision + 1]
<1>1. row \in RowType /\ row.revision \in Nat /\ row.revision + 1 \in Nat
  BY DEF SandboxInv, RowType
<1>2. w \in RowType /\ w.revision = row.revision + 1 /\ row' = w
  BY <1>1 DEF RowType, Transition
<1> HIDE DEF w
<1>3. RecordInv(row', box', ledger')
  BY <1>2 DEF RecordInv, w
<1>4. Idle \in CallType /\ CallInv(Idle, row', box', ledger')
  BY <1>2, IdleCall
<1> QED
  BY <1>2, <1>3, <1>4, CallActs DEF Return, SandboxInv

----------------------------------------------------------------------------
\* provision, up to the marker.
LEMMA CreateKeeps ==
    ASSUME SandboxInv, NEW c \in Callers, CreateSandbox(c), exclusive' = exclusive
    PROVE  SandboxInv'
<1> DEFINE k == [call[c] EXCEPT !.step = "begin", !.revision = 1]
<1>1. /\ MayStart(c) /\ "create" \notin ledger /\ ledger' = ledger \cup {"create"}
      /\ row' = [phase |-> "Requested", presence |-> "Absent", revision |-> 1]
      /\ call' = [call EXCEPT ![c].step = "begin", ![c].revision = 1]
      /\ box' = box
  BY DEF CreateSandbox
<1>2. call \in [Callers -> CallType] /\ call[c] \in CallType
  BY DEF SandboxInv
<1>3. call' = [call EXCEPT ![c] = k]
  BY <1>1, <1>2
<1>4. k \in CallType /\ k.step = "begin" /\ k.revision = 1
  BY <1>2 DEF CallType
<1> HIDE DEF k
<1>5. row.phase = "none" /\ row.revision = 0 /\ box.state = "none" /\ "begin" \notin ledger
  BY <1>1 DEF SandboxInv, RecordInv
<1>6. row' \in RowType /\ row'.revision = row.revision + 1 /\ row'.phase = "Requested"
      /\ row'.presence = "Absent"
  BY <1>1, <1>5 DEF RowType, Phases, Presences
<1>7. RecordInv(row', box', ledger')
  BY <1>1, <1>5, <1>6 DEF RecordInv
<1>8. CallInv(k, row', box', ledger')
  BY <1>4, <1>5, <1>6 DEF CallInv, Marked
<1> QED
  BY <1>1, <1>3, <1>4, <1>6, <1>7, <1>8, CallActs DEF SandboxInv

LEMMA ReadKeeps ==
    ASSUME SandboxInv, NEW c \in Callers, ReadRecord(c), exclusive' = exclusive
    PROVE  SandboxInv'
<1> DEFINE st == StepFor(row.phase)
           v == IF StepFor(row.phase) = "idle" THEN 0 ELSE row.revision
           k == [call[c] EXCEPT !.step = st, !.revision = v]
<1>1. /\ call[c].step = "read" /\ UNCHANGED <<row, box, ledger>>
      /\ call' = [call EXCEPT ![c].step = st, ![c].revision = v]
  BY DEF ReadRecord, At
<1>2. call \in [Callers -> CallType] /\ call[c] \in CallType /\ row.revision \in Nat
  BY DEF SandboxInv, RowType
<1>3. /\ st \in {"begin", "ensure", "idle"}
      /\ st = "begin" => row.phase = "Requested"
      /\ st = "ensure" => row.phase = "Preparing"
      /\ v \in Nat /\ v <= row.revision
  BY <1>2 DEF StepFor
<1> HIDE DEF st, v
<1>4. call' = [call EXCEPT ![c] = k]
  BY <1>1, <1>2
<1>5. k \in CallType /\ k.step = st /\ k.revision = v
  BY <1>2, <1>3 DEF CallType
<1> HIDE DEF k
<1>6. "begin" \in ledger <=> row.phase \notin {"none", "Requested"}
  BY DEF SandboxInv, RecordInv
<1>7. CallInv(k, row, box, ledger)
  BY <1>3, <1>5, <1>6 DEF CallInv, Marked
<1> QED
  BY <1>1, <1>4, <1>5, <1>7, CallMoves DEF At

\* The marker is committed, before anything external is done.
LEMMA MarkerKeeps ==
    ASSUME SandboxInv, NEW c \in Callers, BeginPreparation(c), exclusive' = exclusive
    PROVE  SandboxInv'
<1> DEFINE v == row.revision + 1
           k == [call[c] EXCEPT !.step = "ensure", !.revision = v]
<1>1. /\ call[c].step = "begin" /\ row.phase = "Requested" /\ ledger' = ledger \cup {"begin"}
      /\ row' = [phase |-> "Preparing", presence |-> "Unknown", revision |-> v]
      /\ call' = [call EXCEPT ![c].step = "ensure", ![c].revision = v]
      /\ box' = box
  BY DEF BeginPreparation, Transition, At
<1>2. call \in [Callers -> CallType] /\ call[c] \in CallType /\ row.revision \in Nat /\ v \in Nat
  BY DEF SandboxInv, RowType
<1>3. row' \in RowType /\ row'.revision = row.revision + 1 /\ row'.phase = "Preparing"
      /\ row'.presence = "Unknown"
  BY <1>1, <1>2 DEF RowType, Phases, Presences
<1>v. v <= row'.revision
  BY <1>2, <1>3
<1> HIDE DEF v
<1>4. call' = [call EXCEPT ![c] = k]
  BY <1>1, <1>2
<1>5. k \in CallType /\ k.step = "ensure" /\ k.revision = v
  BY <1>2 DEF CallType
<1> HIDE DEF k
<1>6. RecordInv(row', box', ledger')
  BY <1>1, <1>3 DEF SandboxInv, RecordInv
<1>7. CallInv(k, row', box', ledger')
  BY <1>1, <1>3, <1>5, <1>v DEF CallInv, Marked
<1> QED
  BY <1>1, <1>3, <1>4, <1>5, <1>6, <1>7, CallActs DEF At, SandboxInv

LEMMA MarkerReplayedKeeps ==
    ASSUME SandboxInv, NEW c \in Callers, BeginReplayed(c), exclusive' = exclusive
    PROVE  SandboxInv'
<1> DEFINE v == row.revision
           k == [call[c] EXCEPT !.step = "ensure", !.revision = v]
<1>1. call[c].step = "begin" /\ "begin" \in ledger /\ UNCHANGED <<row, box, ledger>>
  BY DEF BeginReplayed, At
<1>2. call \in [Callers -> CallType] /\ call[c] \in CallType /\ v \in Nat /\ v <= v
  BY DEF SandboxInv, RowType
<1>3. CASE row.phase = "Released"
  BY <1>1, <1>3, CallReturns DEF BeginReplayed, Return, At
<1>4. CASE row.phase # "Released"
  <2>1. call' = [call EXCEPT ![c].step = "ensure", ![c].revision = v]
    BY <1>4 DEF BeginReplayed
  <2>2. ~exclusive
    BY <1>1 DEF SandboxInv, RecordInv, CallInv
  <2>3. call' = [call EXCEPT ![c] = k]
    BY <2>1, <1>2
  <2>4. k \in CallType /\ k.step = "ensure" /\ k.revision = v
    BY <1>2 DEF CallType
  <2> HIDE DEF k
  <2>5. CallInv(k, row, box, ledger)
    BY <1>1, <1>2, <1>4, <2>2, <2>4 DEF CallInv, Marked
  <2> QED
    BY <1>1, <2>3, <2>4, <2>5, CallMoves DEF At
<1> QED
  BY <1>3, <1>4

\* The container is created or started, behind the marker.
LEMMA EnsureKeeps ==
    ASSUME SandboxInv, NEW c \in Callers, Ensure(c) \/ EnsureFails(c), exclusive' = exclusive
    PROVE  SandboxInv'
<1>1. /\ call[c].step = "ensure" /\ UNCHANGED <<row, ledger>>
  BY DEF Ensure, EnsureFails, At
<1>2. PICK st \in {"verify", "fail"} : call' = [call EXCEPT ![c].step = st]
  BY DEF Ensure, EnsureFails, Goto
<1>3. call[c] \in CallType /\ CallInv(call[c], row, box, ledger) /\ row \in RowType
      /\ box \in BoxType
  BY DEF SandboxInv
<1>4. box' \in BoxType
  <2>1. CASE Ensure(c)
    BY <2>1, <1>3 DEF Ensure, BoxType
  <2>2. CASE EnsureFails(c)
    BY <2>2, <1>3 DEF EnsureFails, BoxType
  <2> QED
    BY <2>1, <2>2
<1> DEFINE k == [call[c] EXCEPT !.step = st]
<1>5. k \in CallType /\ k.step = st /\ k.revision = call[c].revision
  BY <1>2, <1>3 DEF CallType
<1>6. call' = [call EXCEPT ![c] = k]
  BY <1>2
<1> HIDE DEF k
<1>7. CallInv(k, row', box', ledger')
  BY <1>1, <1>2, <1>3, <1>5 DEF CallInv, Marked
<1>8. "begin" \in ledger /\ (exclusive => row.phase = "Preparing")
  BY <1>1, <1>3 DEF CallInv, Marked
<1>9. RecordInv(row', box', ledger')
  BY <1>1, <1>8 DEF SandboxInv, RecordInv
<1> QED
  BY <1>1, <1>3, <1>4, <1>5, <1>6, <1>7, <1>9, CallActs DEF At

\* Ready is recorded by the call that verified the container.
LEMMA CompleteKeeps ==
    ASSUME SandboxInv, NEW c \in Callers, CompletePreparation(c), exclusive' = exclusive
    PROVE  SandboxInv'
<1> DEFINE w == [phase |-> "Ready", presence |-> "Present", revision |-> row.revision + 1]
<1>1. /\ call[c].step = "complete" /\ row.phase = "Preparing"
      /\ ledger' = ledger \cup {"complete"} /\ Transition("Ready", "Present")
      /\ Return(c) /\ box' = box
  BY DEF CompletePreparation, At
<1>2. CallInv(call[c], row, box, ledger) /\ RecordInv(row, box, ledger)
  BY DEF SandboxInv
<1>3. w.phase = "Ready" /\ w.presence = "Present"
  OBVIOUS
<1> HIDE DEF w
<1>4. RecordInv(w, box, ledger')
  BY <1>1, <1>2, <1>3 DEF RecordInv, CallInv
<1> QED
  BY <1>1, <1>4, RecordMoves DEF w, At, Phases, Presences

LEMMA FailKeeps ==
    ASSUME SandboxInv, NEW c \in Callers, FailSandbox(c), exclusive' = exclusive
    PROVE  SandboxInv'
<1> DEFINE w == [phase |-> "Error", presence |-> "Unknown", revision |-> row.revision + 1]
<1>1. /\ call[c].step = "fail" /\ ledger' = ledger \cup {"fail"}
      /\ Transition("Error", "Unknown") /\ Return(c) /\ box' = box
      /\ row.phase # "none"
  BY DEF FailSandbox, At, FailPresence, Current
<1>2. CallInv(call[c], row, box, ledger) /\ RecordInv(row, box, ledger)
  BY DEF SandboxInv
<1>3. w.phase = "Error" /\ w.presence = "Unknown"
  OBVIOUS
<1> HIDE DEF w
<1>4. RecordInv(w, box, ledger')
  BY <1>1, <1>2, <1>3 DEF RecordInv, CallInv, Marked
<1> QED
  BY <1>1, <1>4, RecordMoves DEF w, At, Phases, Presences

\* Recovery takes a record and inspects the container.
LEMMA InspectKeeps ==
    ASSUME SandboxInv, NEW c \in Callers, TakeRecord(c) \/ Inspect(c), exclusive' = exclusive
    PROVE  SandboxInv'
<1>1. call \in [Callers -> CallType] /\ call[c] \in CallType /\ row.revision \in Nat
      /\ box \in BoxType /\ CallInv(call[c], row, box, ledger)
  BY DEF SandboxInv, RowType
<1>2. CASE TakeRecord(c)
  <2> DEFINE v == row.revision
             k == [call[c] EXCEPT !.step = "held", !.revision = v]
  <2>1. k \in CallType /\ k.step = "held" /\ k.revision = v
    BY <1>1 DEF CallType
  <2>2. call' = [call EXCEPT ![c] = k] /\ MayStart(c) /\ UNCHANGED <<row, box, ledger>>
    BY <1>1, <1>2 DEF TakeRecord
  <2>3. v <= row.revision
    BY <1>1
  <2> HIDE DEF k, v
  <2>4. CallInv(k, row, box, ledger)
    BY <2>1, <2>3 DEF CallInv, Marked
  <2> QED
    BY <2>1, <2>2, <2>4, CallMoves
<1>3. CASE Inspect(c)
  <2> DEFINE f == Inspected
             k == [call[c] EXCEPT !.step = "inspected", !.found = f]
  <2>1. f \in Presences /\ (f = "Absent" => box.state = "none")
    BY <1>1 DEF Inspected, Presences, BoxType
  <2>2. call' = [call EXCEPT ![c].step = "inspected", ![c].found = f]
        /\ call[c].step = "held" /\ UNCHANGED <<row, box, ledger>>
    BY <1>3 DEF Inspect, At
  <2> HIDE DEF f
  <2>3. k \in CallType /\ k.step = "inspected" /\ k.found = f /\ k.revision = call[c].revision
    BY <1>1, <2>1 DEF CallType
  <2>4. call' = [call EXCEPT ![c] = k]
    BY <1>1, <2>2
  <2> HIDE DEF k
  <2>5. CallInv(k, row, box, ledger)
    BY <1>1, <2>1, <2>3 DEF CallInv, Marked
  <2> QED
    BY <2>2, <2>3, <2>4, <2>5, CallMoves DEF At
<1> QED
  BY <1>2, <1>3

\* The observation is recorded, or the release concluded from it.
LEMMA ObservedKeeps ==
    ASSUME SandboxInv, NEW c \in Callers, UpdatePresence(c) \/ CompleteRelease(c),
           exclusive' = exclusive
    PROVE  SandboxInv'
<1>1. PICK phase \in {row.phase, "Released"} :
        /\ Transition(phase, call[c].found)
        /\ row.phase # "none" /\ Checked(phase, call[c].found)
        /\ phase = "Released" => row.phase \in {"Releasing", "Released"}
  BY DEF UpdatePresence, CompleteRelease, Recordable, ReleaseAllowed, Current
<1>2. call[c].step = "inspected" /\ Return(c) /\ UNCHANGED <<box, ledger>>
  BY DEF UpdatePresence, CompleteRelease, At
<1>3. /\ CallInv(call[c], row, box, ledger) /\ RecordInv(row, box, ledger)
      /\ call[c].found \in Presences /\ phase \in Phases
  BY <1>1 DEF SandboxInv, CallType, RowType, Phases
<1> DEFINE w == [phase |-> phase, presence |-> call[c].found, revision |-> row.revision + 1]
<1>4. w.phase = phase /\ w.presence = call[c].found
  OBVIOUS
<1>5. exclusive /\ w.presence = "Absent" => box.state = "none"
  BY <1>2, <1>3, <1>4 DEF CallInv
<1> HIDE DEF w
<1>6. RecordInv(w, box, ledger')
  BY <1>1, <1>2, <1>3, <1>4, <1>5 DEF RecordInv, Checked
<1> QED
  BY <1>1, <1>2, <1>3, <1>6, RecordMoves DEF w, At

LEMMA ReleaseKeeps ==
    ASSUME SandboxInv, NEW c \in Callers, BeginRelease(c) \/ ReleaseBox(c), exclusive' = exclusive
    PROVE  SandboxInv'
<1>1. call[c] \in CallType /\ CallInv(call[c], row, box, ledger) /\ RecordInv(row, box, ledger)
      /\ row \in RowType /\ row.revision \in Nat /\ row.revision + 1 \in Nat /\ box \in BoxType
  BY DEF SandboxInv, RowType
<1>2. CASE BeginRelease(c)
  <2> DEFINE k == [call[c] EXCEPT !.step = "release"]
             w == [phase |-> "Releasing", presence |-> "Unknown", revision |-> row.revision + 1]
  <2>1. call' = [call EXCEPT ![c] = k] /\ call[c].step = "held" /\ row.phase = "Ready"
        /\ row' = w /\ UNCHANGED <<box, ledger>>
    BY <1>2 DEF BeginRelease, Goto, Transition, At
  <2>2. k \in CallType /\ k.step = "release" /\ k.revision = call[c].revision
    BY <1>1 DEF CallType
  <2>3. w \in RowType /\ w.phase = "Releasing" /\ w.presence = "Unknown"
        /\ w.revision = row.revision + 1
    BY <1>1 DEF RowType, Phases, Presences
  <2> HIDE DEF k, w
  <2>4. RecordInv(row', box', ledger')
    BY <1>1, <2>1, <2>3 DEF RecordInv
  <2>5. k.revision <= w.revision
    BY <1>1, <2>2, <2>3 DEF CallInv, CallType
  <2>6. CallInv(k, row', box', ledger')
    BY <2>1, <2>2, <2>5 DEF CallInv, Marked
  <2> QED
    BY <1>1, <2>1, <2>2, <2>3, <2>4, <2>6, CallActs DEF At
<1>3. CASE ReleaseBox(c)
  <2>1. /\ call' = [call EXCEPT ![c] = Idle] /\ call[c].step = "release"
        /\ UNCHANGED <<row, ledger>> /\ (box' = NoBox \/ box' = box)
    BY <1>3 DEF ReleaseBox, Return, At
  <2>2. NoBox \in BoxType /\ NoBox.state = "none"
    BY DEF NoBox, BoxType
  <2>3. RecordInv(row', box', ledger')
    BY <1>1, <2>1, <2>2 DEF RecordInv
  <2>4. Idle \in CallType /\ CallInv(Idle, row', box', ledger')
    BY <1>1, <2>1, IdleCall
  <2> QED
    BY <1>1, <2>1, <2>2, <2>3, <2>4, CallActs DEF At
<1> QED
  BY <1>2, <1>3

\* The container dies under whoever relies on it.
LEMMA StopKeeps ==
    ASSUME SandboxInv, ContainerStops, exclusive' = exclusive
    PROVE  SandboxInv'
<1>1. /\ box.state # "none" /\ UNCHANGED <<row, ledger, call>>
      /\ box' \in {NoBox, [box EXCEPT !.state = "stopped"]}
  BY DEF ContainerStops
<1>2. box \in BoxType
  BY DEF SandboxInv
<1>3. box' \in BoxType /\ (box'.state = "none" \/ box'.isolated = box.isolated)
  <2>1. CASE box' = NoBox
    BY <2>1 DEF BoxType, NoBox
  <2>2. CASE box' = [box EXCEPT !.state = "stopped"]
    BY <2>2, <1>2 DEF BoxType
  <2> QED
    BY <2>1, <2>2, <1>1
<1>4. RecordInv(row, box, ledger)'
  BY <1>1, <1>3 DEF SandboxInv, RecordInv
<1>5. ASSUME NEW c \in Callers PROVE CallInv(call[c], row, box, ledger)'
  BY <1>1, <1>3 DEF SandboxInv, CallInv
<1> QED
  BY <1>1, <1>3, <1>4, <1>5 DEF SandboxInv, OneAtATime, At

----------------------------------------------------------------------------
\* Every step keeps the invariant.
LEMMA SandboxStep == SandboxInv /\ [Next]_vars => SandboxInv'
<1> SUFFICES ASSUME SandboxInv, [Next]_vars PROVE SandboxInv'
  OBVIOUS
<1>1. ASSUME NEW c \in Callers, exclusive' = exclusive, Provision(c) PROVE SandboxInv'
  <2>1. CASE CreateReplayed(c)
    BY <1>1, <2>1, CallGoes DEF CreateReplayed
  <2>2. CASE BeginRefused(c) \/ CompleteReturns(c) \/ FailReturns(c) \/ VerifyErrs(c)
    BY <1>1, <2>2, CallReturns DEF BeginRefused, CompleteReturns, FailReturns, VerifyErrs, At
  <2>3. CASE VerifyPasses(c)
    BY <1>1, <2>3, CallGoes DEF VerifyPasses, At, Marked, Verified
  <2>4. CASE VerifyFails(c)
    BY <1>1, <2>4, CallGoes DEF VerifyFails, At, Marked
  <2> QED
    BY <1>1, <2>1, <2>2, <2>3, <2>4, CreateKeeps, ReadKeeps, MarkerKeeps, MarkerReplayedKeeps,
       EnsureKeeps, CompleteKeeps, FailKeeps DEF Provision
<1>2. ASSUME NEW c \in Callers, exclusive' = exclusive, Reconcile(c) \/ Release(c)
      PROVE  SandboxInv'
  <2>1. CASE UpdateRefused(c)
    BY <1>2, <2>1, CallReturns DEF UpdateRefused, At
  <2> QED
    BY <1>2, <2>1, InspectKeeps, ObservedKeeps, ReleaseKeeps DEF Reconcile, Release
<1>3. ASSUME NEW c \in Callers, exclusive' = exclusive, CallLost(c) PROVE SandboxInv'
  BY <1>3, CallReturns DEF CallLost
<1>4. CASE UNCHANGED vars
  <2>1. UNCHANGED <<row, box, ledger, call, exclusive>>
    BY <1>4 DEF vars
  <2> QED
    BY <2>1 DEF SandboxInv, RecordInv, CallInv, OneAtATime, At
<1>5. Provisioners \subseteq Callers /\ Recoverers \subseteq Callers
  BY DEF Callers
<1> QED
  BY <1>1, <1>2, <1>3, <1>4, <1>5, StopKeeps DEF Next

\* The Sandbox's record, container and calls keep their invariant.
THEOREM SandboxSafe == Spec => []SandboxInv
  BY SandboxInit, SandboxStep, PTL DEF Spec

\* Until the marker is committed there is no container, under any overlap.
THEOREM NoBoxBeforeMarker == Spec => []EffectsAfterMarker
<1>1. SandboxInv => EffectsAfterMarker
  BY DEF SandboxInv, RecordInv, EffectsAfterMarker
<1> QED
  BY <1>1, SandboxSafe, PTL

\* With one call at a time a Ready Sandbox is isolated, or has lost its
\* container.
THEOREM ReadyMeansIsolated == Spec => []ReadyIsolated
<1>1. SandboxInv => ReadyIsolated
  BY DEF SandboxInv, RecordInv, ReadyIsolated
<1> QED
  BY <1>1, SandboxSafe, PTL

\* With one call at a time Absent on record is established.
THEOREM AbsentMeansGone == Spec => []AbsentIsEstablished
<1>1. SandboxInv => AbsentIsEstablished
  BY DEF SandboxInv, RecordInv, AbsentIsEstablished
<1> QED
  BY <1>1, SandboxSafe, PTL

----------------------------------------------------------------------------
(* The refinement, one lemma per kind of step.                             *)

\* The variables of the protocol follow the record and the container.
LEMMA Unseen ==
    ASSUME UNCHANGED <<row, box, exclusive>>
    PROVE  UNCHANGED Effect!vars
  BY DEF Effect!vars, Stage, World

\* Where the stages and the worlds come from.
LEMMA StageOf ==
    ASSUME SandboxInv
    PROVE  /\ Stage = "unmarked" <=> row.phase \in {"none", "Requested"}
           /\ Stage = "marked" <=> row.phase = "Preparing"
           /\ Stage = "usable" <=> row.phase = "Ready"
           /\ Stage = "closing" <=> row.phase = "Releasing"
           /\ Stage = "closed" <=> row.phase = "Released"
           /\ Stage = "failed" <=> row.phase = "Error"
           /\ World = "none" <=> box.state = "none"
           /\ World = "proven" <=> box.state # "none" /\ box.isolated
           /\ World \in Effect!Worlds
<1>1. row.phase \in Phases
  BY DEF SandboxInv, RowType
<1> QED
  BY <1>1 DEF Stage, World, Phases, Effect!Worlds

\* The record is created before the marker: nothing the protocol speaks of.
LEMMA CreateRefines ==
    ASSUME SandboxInv, SandboxInv', NEW c \in Callers, exclusive' = exclusive, CreateSandbox(c)
    PROVE  UNCHANGED Effect!vars
<1>1. row.phase = "none" /\ row.presence = "Absent"
  BY DEF SandboxInv, RecordInv, CreateSandbox
<1>2. row'.phase = "Requested" /\ row'.presence = "Absent" /\ box' = box
  BY DEF CreateSandbox
<1>3. Stage = "unmarked" /\ Stage' = "unmarked" /\ World' = World
  BY <1>1, <1>2 DEF Stage, World
<1> QED
  BY <1>1, <1>2, <1>3 DEF Effect!vars

\* The marker.
LEMMA MarkerRefines ==
    ASSUME SandboxInv, SandboxInv', exclusive' = exclusive, NEW c \in Callers, BeginPreparation(c)
    PROVE  Effect!Mark
<1>1. row.phase = "Requested" /\ row'.phase = "Preparing" /\ row'.presence = "Unknown" /\ box' = box
  BY DEF BeginPreparation, Transition
<1>2. Stage = "unmarked" /\ Stage' = "marked" /\ World' = World
  BY <1>1 DEF Stage, World
<1> QED
  BY <1>1, <1>2 DEF Effect!Mark

\* The container is worked on under the marker, or later where calls overlap.
LEMMA EnsureRefines ==
    ASSUME SandboxInv, SandboxInv', exclusive' = exclusive, NEW c \in Callers,
           Ensure(c) \/ EnsureFails(c)
    PROVE  Effect!Work
<1>1. call[c].step = "ensure" /\ row' = row
  BY DEF Ensure, EnsureFails, At
<1>2. row.phase \notin {"none", "Requested"} /\ (exclusive => row.phase = "Preparing")
  BY <1>1 DEF SandboxInv, CallInv, RecordInv, Marked
<1>3. (Stage = "marked" \/ (~exclusive /\ Stage # "unmarked")) /\ Stage' = Stage
  BY <1>1, <1>2, StageOf DEF Stage
<1>4. World' \in Effect!Worlds
  BY DEF World, Effect!Worlds
<1> QED
  BY <1>1, <1>3, <1>4 DEF Effect!Work

\* Ready is written over a container that was verified, or has died since.
LEMMA CompleteRefines ==
    ASSUME SandboxInv, SandboxInv', exclusive' = exclusive, NEW c \in Callers,
           CompletePreparation(c)
    PROVE  Effect!Complete
<1>1. /\ call[c].step = "complete" /\ row.phase = "Preparing" /\ box' = box
      /\ row'.phase = "Ready" /\ row'.presence = "Present"
  BY DEF CompletePreparation, At, Transition
<1>2. exclusive => World \in {"proven", "none"}
  BY <1>1, StageOf DEF SandboxInv, CallInv
<1>3. Stage = "marked" /\ Stage' = "usable" /\ World' = World
  BY <1>1 DEF Stage, World
<1> QED
  BY <1>1, <1>2, <1>3 DEF Effect!Complete

\* fail_sandbox strikes under the marker; a delayed one also Ready or Releasing,
\* but no Released record (its revision is not that of one) and no second time.
LEMMA FailRefines ==
    ASSUME SandboxInv, SandboxInv', exclusive' = exclusive, NEW c \in Callers, FailSandbox(c)
    PROVE  Effect!Fail
<1>1. /\ call[c].step = "fail" /\ "fail" \notin ledger /\ row.revision = call[c].revision
      /\ row'.phase = "Error" /\ row'.presence = "Unknown" /\ box' = box
  BY DEF FailSandbox, At, Current, Transition, FailPresence
<1>2. row \in RowType /\ RecordInv(row, box, ledger) /\ CallInv(call[c], row, box, ledger)
  BY DEF SandboxInv
<1>3. row.phase \notin {"none", "Requested", "Error"} /\ (exclusive => row.phase = "Preparing")
  BY <1>1, <1>2 DEF CallInv, RecordInv, Marked
<1>4. row.phase # "Released"
  <2>1. row.revision \in Nat
    BY <1>2 DEF RowType
  <2> QED
    BY <1>1, <1>2, <2>1 DEF CallInv, Marked
<1>5. Stage \in {"marked", "usable", "closing"} /\ (exclusive => Stage = "marked")
  BY <1>2, <1>3, <1>4, StageOf DEF RowType, Phases
<1>6. Stage' = "failed" /\ World' = World
  BY <1>1 DEF Stage, World
<1> QED
  BY <1>1, <1>5, <1>6 DEF Effect!Fail

\* An observation is written down; before the marker and after the release it
\* says what the record says already.
LEMMA ObservedRefines ==
    ASSUME SandboxInv, SandboxInv', exclusive' = exclusive, NEW c \in Callers, UpdatePresence(c)
    PROVE  Effect!Observe \/ UNCHANGED Effect!vars
<1>1. /\ call[c].step = "inspected" /\ box' = box
      /\ row'.phase = row.phase /\ row'.presence = call[c].found
      /\ Checked(row.phase, call[c].found)
  BY DEF UpdatePresence, At, Transition, Recordable
<1>2. RecordInv(row, box, ledger) /\ CallInv(call[c], row, box, ledger)
      /\ call[c].found \in Presences
  BY DEF SandboxInv, CallType
<1>3. Stage' = Stage /\ World' = World
  BY <1>1 DEF Stage, World
<1>4. CASE row.phase \in {"none", "Requested", "Released"}
  <2>1. row.phase # "none"
    BY DEF UpdatePresence, Recordable, Current
  <2>2. row'.presence = row.presence
    BY <1>1, <1>2, <1>4, <2>1 DEF Checked, RecordInv
  <2> QED
    BY <2>2, <1>3 DEF Effect!vars
<1>5. CASE row.phase \notin {"none", "Requested", "Released"}
  <2>1. Stage \notin {"unmarked", "closed"}
    BY <1>5, StageOf
  <2>2. Stage = "usable" => row'.presence = "Present"
    BY <1>1, StageOf DEF Checked
  <2>3. exclusive /\ row'.presence = "Absent" => World = "none"
    BY <1>1, <1>2, StageOf DEF CallInv
  <2>4. row'.presence \in Effect!Claims
    BY <1>1, <1>2 DEF Presences, Effect!Claims
  <2> QED
    BY <1>3, <2>1, <2>2, <2>3, <2>4 DEF Effect!Observe
<1> QED
  BY <1>4, <1>5

\* The release is marked, removes the container, and ends over an empty world.
LEMMA ReleaseRefines ==
    ASSUME SandboxInv, SandboxInv', exclusive' = exclusive, NEW c \in Callers, Release(c)
    PROVE  Effect!Next \/ UNCHANGED Effect!vars
<1>1. CASE BeginRelease(c)
  <2>1. row.phase = "Ready" /\ row'.phase = "Releasing" /\ row'.presence = "Unknown" /\ box' = box
    BY <1>1 DEF BeginRelease, Transition
  <2>2. Stage = "usable" /\ Stage' = "closing" /\ World' = World
    BY <2>1 DEF Stage, World
  <2> QED
    BY <2>1, <2>2 DEF Effect!BeginClose, Effect!Next
<1>2. CASE ReleaseBox(c)
  <2>1. row' = row /\ (box' = box \/ box' = NoBox)
    BY <1>2 DEF ReleaseBox
  <2>2. CASE box' = box
    BY <2>1, <2>2, Unseen
  <2>3. CASE box' = NoBox
    <3>1. Stage' = Stage /\ World' = "none"
      BY <2>1, <2>3 DEF Stage, World, NoBox
    <3> QED
      BY <2>1, <3>1 DEF Effect!Vanish, Effect!Next
  <2> QED
    BY <2>1, <2>2, <2>3
<1>3. CASE CompleteRelease(c)
  <2>1. /\ call[c].step = "inspected" /\ row.phase = "Releasing" /\ call[c].found = "Absent"
        /\ row'.phase = "Released" /\ row'.presence = "Absent" /\ box' = box
    BY <1>3 DEF CompleteRelease, ReleaseAllowed, At, Transition, Checked
  <2>2. exclusive => World = "none"
    BY <2>1, StageOf DEF SandboxInv, CallInv
  <2>3. Stage = "closing" /\ Stage' = "closed" /\ World' = World
    BY <2>1 DEF Stage, World
  <2> QED
    BY <2>1, <2>2, <2>3 DEF Effect!Close, Effect!Next
<1> QED
  BY <1>1, <1>2, <1>3 DEF Release

\* A container that stops is still there; one that is gone has vanished.
LEMMA StopRefines ==
    ASSUME SandboxInv, SandboxInv', exclusive' = exclusive, ContainerStops
    PROVE  Effect!Next \/ UNCHANGED Effect!vars
<1>1. box \in BoxType /\ row' = row /\ box.state # "none"
      /\ (box' = NoBox \/ box' = [box EXCEPT !.state = "stopped"])
  BY DEF ContainerStops, SandboxInv
<1>2. Stage' = Stage
  BY <1>1 DEF Stage
<1>3. CASE box' = NoBox
  <2>1. World' = "none"
    BY <1>3 DEF World, NoBox
  <2> QED
    BY <1>1, <1>2, <2>1 DEF Effect!Vanish, Effect!Next
<1>4. CASE box' = [box EXCEPT !.state = "stopped"]
  <2>1. box'.state = "stopped" /\ box'.isolated = box.isolated
    BY <1>1, <1>4 DEF BoxType
  <2>2. World' = World
    BY <1>1, <2>1 DEF World
  <2> QED
    BY <1>1, <1>2, <2>2 DEF Effect!vars
<1> QED
  BY <1>1, <1>3, <1>4

\* Every step of the Sandbox is a step of the protocol, or none.
LEMMA StepRefines ==
    ASSUME SandboxInv, SandboxInv', [Next]_vars
    PROVE  [Effect!Next]_(Effect!vars)
<1>1. ASSUME NEW c \in Callers, exclusive' = exclusive, Provision(c)
      PROVE  Effect!Next \/ UNCHANGED Effect!vars
  <2>1. CASE \/ CreateReplayed(c) \/ ReadRecord(c) \/ BeginReplayed(c) \/ BeginRefused(c)
             \/ VerifyPasses(c) \/ VerifyFails(c) \/ VerifyErrs(c)
             \/ CompleteReturns(c) \/ FailReturns(c)
    BY <1>1, <2>1, Unseen DEF CreateReplayed, ReadRecord, BeginReplayed, BeginRefused,
       VerifyPasses, VerifyFails, VerifyErrs, CompleteReturns, FailReturns
  <2> QED
    BY <1>1, <2>1, CreateRefines, MarkerRefines, EnsureRefines, CompleteRefines, FailRefines
    DEF Provision, Effect!Next
<1>2. ASSUME NEW c \in Callers, exclusive' = exclusive, Reconcile(c)
      PROVE  Effect!Next \/ UNCHANGED Effect!vars
  <2>1. CASE TakeRecord(c) \/ Inspect(c) \/ UpdateRefused(c)
    BY <1>2, <2>1, Unseen DEF TakeRecord, Inspect, UpdateRefused
  <2> QED
    BY <1>2, <2>1, ObservedRefines DEF Reconcile, Effect!Next
<1>3. ASSUME NEW c \in Callers, exclusive' = exclusive, CallLost(c)
      PROVE  UNCHANGED Effect!vars
  BY <1>3, Unseen DEF CallLost
<1>4. CASE UNCHANGED vars
  BY <1>4, Unseen DEF vars
<1>5. Provisioners \subseteq Callers /\ Recoverers \subseteq Callers
  BY DEF Callers
<1> QED
  BY <1>1, <1>2, <1>3, <1>4, <1>5, ReleaseRefines, StopRefines DEF Next

\* The Sandbox implements the protocol of EffectProtocol: Released and Error
\* are final under any overlap of calls, and with one call at a time the record
\* never claims more than what was seen of the container.
THEOREM SandboxKeepsProtocol == Spec => ImplementsEffectProtocol
<1>1. Init => Effect!Init
  BY DEF Init, NoBox, Stage, World, Effect!Init
<1>2. SandboxInv /\ SandboxInv' /\ [Next]_vars => [Effect!Next]_(Effect!vars)
  BY StepRefines
<1> QED
  BY <1>1, <1>2, SandboxSafe, PTL DEF Spec, ImplementsEffectProtocol, Effect!Spec

=============================================================================
