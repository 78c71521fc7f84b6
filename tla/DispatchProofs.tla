--------------------------- MODULE DispatchProofs ---------------------------
(***************************************************************************)
(* One nonterminal Run and one configuration per Run, for any number of    *)
(* schedulers and Goals.  Nothing is assumed about the order in which a    *)
(* cycle serves its candidates.                                            *)
(***************************************************************************)
EXTENDS Dispatch, TLAPS

\* What a cycle holds: Q has its queue and A the scheduling revisions it read.
CycleType(Q, A) ==
    [step : {"idle", "snapshot", "slot", "route", "offers", "prepare", "commit"},
     config : Nat, revision : Nat, queue : Q, attempts : A, routed : Nat, guidance : Nat]

\* A cycle reads the published revision three times, and it only grows: what
\* it read earlier is no newer than what it read later.
CycleInv(r) ==
    /\ r.step # "idle" => r.config <= config.published
    /\ r.step \in {"offers", "prepare", "commit"} =>
        r.config <= r.routed /\ r.routed <= config.published
    /\ r.step = "commit" => r.routed <= r.guidance

DispatchTypes ==
    /\ sched \in [mode : {"RUNNING", "PAUSED"}, revision : Nat, next : Nat \ {0}]
    /\ served \in [Goals -> Nat]
    /\ run \in [Goals -> [phase : {"none", "Active", "Ended"}, bound : Nat, routed : Nat,
                          guidance : Nat]]
    /\ config \in [active : Nat, published : Nat, locked : BOOLEAN]
    /\ \E Q, A : cycle \in [Schedulers -> CycleType(Q, A)]

DispatchInv ==
    /\ DispatchTypes
    /\ config.published <= config.active
    /\ \A s \in Schedulers : CycleInv(cycle[s])
    /\ OneNonterminalRun
    /\ OneRevision
    /\ ChargedInOrder

----------------------------------------------------------------------------
\* The daemon has just started on a fresh database.
LEMMA DispatchInit == Init => DispatchInv
<1> SUFFICES ASSUME Init PROVE DispatchInv
  OBVIOUS
<1>1. Idle \in CycleType({<<>>}, {[g \in Goals |-> 0]}) /\ Idle.step = "idle"
  BY DEF CycleType, Idle
<1>2. \A s \in Schedulers : cycle[s] = Idle
  BY DEF Init
<1>3. \A s \in Schedulers : CycleInv(cycle[s])
  BY <1>1, <1>2 DEF CycleInv
<1>4. DispatchTypes
  <2>1. \E Q, A : cycle \in [Schedulers -> CycleType(Q, A)]
    BY <1>1 DEF Init
  <2> QED
    BY <2>1 DEF Init, DispatchTypes, NoRun
<1>5. config.published <= config.active
  BY DEF Init
<1>6. OneNonterminalRun /\ OneRevision /\ ChargedInOrder
  BY DEF Init, OneNonterminalRun, OneRevision, ChargedInOrder, NoRun
<1> QED
  BY <1>3, <1>4, <1>5, <1>6 DEF DispatchInv

\* The types the cycles have.
LEMMA CycleTyped ==
    ASSUME DispatchInv
    PROVE  \E Q, A : cycle \in [Schedulers -> CycleType(Q, A)]
  BY DEF DispatchInv, DispatchTypes

\* A cycle moves and nothing a Run rests on does.
LEMMA CycleMoves ==
    ASSUME DispatchInv, NEW s \in Schedulers, NEW Q, NEW A,
           cycle \in [Schedulers -> CycleType(Q, A)],
           NEW k \in CycleType(Q, A), CycleInv(k),
           cycle' = [cycle EXCEPT ![s] = k],
           UNCHANGED <<sched, served, run, slot, config>>
    PROVE  DispatchInv'
<1>1. \A t \in Schedulers : cycle'[t] = IF t = s THEN k ELSE cycle[t]
  OBVIOUS
<1>2. cycle' \in [Schedulers -> CycleType(Q, A)]
  OBVIOUS
<1>3. DispatchTypes'
  BY <1>2 DEF DispatchInv, DispatchTypes
<1>4. ASSUME NEW t \in Schedulers PROVE CycleInv(cycle[t])'
  BY <1>1 DEF DispatchInv, CycleInv
<1> QED
  BY <1>3, <1>4 DEF DispatchInv, OneNonterminalRun, OneRevision, ChargedInOrder

\* A cycle can always be idle.
LEMMA IdleTyped ==
    ASSUME NEW Q, NEW A, cycle \in [Schedulers -> CycleType(Q, A)]
    PROVE  LET QI == Q \cup {<<>>}
               AI == A \cup {[g \in Goals |-> 0]}
           IN  cycle \in [Schedulers -> CycleType(QI, AI)] /\ Idle \in CycleType(QI, AI)
  BY DEF CycleType, Idle

\* A cycle ends.
LEMMA CycleStops ==
    ASSUME DispatchInv, NEW s \in Schedulers, cycle' = [cycle EXCEPT ![s] = Idle],
           UNCHANGED <<sched, served, run, slot, config>>
    PROVE  DispatchInv'
<1>1. CycleInv(Idle)
  BY DEF CycleInv, Idle
<1>2. PICK Q, A : cycle \in [Schedulers -> CycleType(Q, A)] /\ Idle \in CycleType(Q, A)
  BY CycleTyped, IdleTyped
<1> QED
  BY <1>1, <1>2, CycleMoves

\* A cycle goes on to its next Task, or ends.
LEMMA CycleAfterDefer ==
    ASSUME DispatchInv, NEW s \in Schedulers, cycle[s].step # "idle", cycle' = AfterDefer(s),
           UNCHANGED <<sched, served, run, slot, config>>
    PROVE  DispatchInv'
<1> DEFINE q == Tail(cycle[s].queue)
           k == [cycle[s] EXCEPT !.queue = q, !.step = "route"]
<1>1. PICK Q0, A : cycle \in [Schedulers -> CycleType(Q0, A)]
  BY CycleTyped
<1> DEFINE Q == Q0 \cup {q}
<1>2. CASE Len(cycle[s].queue) > 1
  <2>1. cycle' = [cycle EXCEPT ![s].queue = q, ![s].step = "route"]
    BY <1>2 DEF AfterDefer
  <2>2. cycle \in [Schedulers -> CycleType(Q, A)] /\ q \in Q
    BY <1>1 DEF CycleType
  <2> HIDE DEF q, Q
  <2>3. cycle' = [cycle EXCEPT ![s] = k]
    BY <2>1, <2>2
  <2>4. k.step = "route" /\ k.config = cycle[s].config /\ k \in CycleType(Q, A)
    BY <2>2 DEF CycleType
  <2> HIDE DEF k
  <2>5. CycleInv(k)
    BY <2>4 DEF CycleInv, DispatchInv
  <2> QED
    BY <2>2, <2>3, <2>4, <2>5, CycleMoves
<1>3. CASE ~(Len(cycle[s].queue) > 1)
  BY <1>3, CycleStops DEF AfterDefer
<1> QED
  BY <1>2, <1>3

\* T3 commits a Run: the slot was free, and all three reads were of the same
\* revision.
LEMMA CommitKeeps ==
    ASSUME DispatchInv, NEW s \in Schedulers, CommitRunIntent(s)
    PROVE  DispatchInv'
<1> DEFINE g == Selected(s)
           r == [phase |-> "Active", bound |-> cycle[s].config, routed |-> cycle[s].routed,
                 guidance |-> cycle[s].guidance]
<1>1. /\ cycle[s].step = "commit" /\ slot = NoGoal
      /\ cycle[s].guidance = cycle[s].config
      /\ run' = [run EXCEPT ![g] = r] /\ slot' = g
      /\ served' = [served EXCEPT ![g] = sched.next]
      /\ sched' = [sched EXCEPT !.next = sched.next + 1, !.revision = @ + 1]
      /\ cycle' = [cycle EXCEPT ![s] = Idle] /\ config' = config
  BY DEF CommitRunIntent, At, Admitted, Configured, SlotAfter, NextAfter, Stop
<1>t. PICK Q, A : cycle \in [Schedulers -> CycleType(Q, A)] /\ Idle \in CycleType(Q, A)
  BY CycleTyped, IdleTyped
<1>2. /\ cycle[s].config \in Nat /\ cycle[s].routed \in Nat /\ cycle[s].guidance \in Nat
      /\ cycle[s].config <= cycle[s].routed /\ cycle[s].routed <= cycle[s].guidance
  BY <1>1, <1>t DEF DispatchInv, CycleInv, CycleType
<1>3. cycle[s].routed = cycle[s].config
  BY <1>1, <1>2
<1>4. /\ r.phase = "Active" /\ r.routed = r.bound /\ r.guidance = r.bound
      /\ r \in [phase : {"none", "Active", "Ended"}, bound : Nat, routed : Nat, guidance : Nat]
  BY <1>1, <1>2, <1>3
<1>5. sched \in [mode : {"RUNNING", "PAUSED"}, revision : Nat, next : Nat \ {0}]
      /\ served \in [Goals -> Nat]
      /\ run \in [Goals -> [phase : {"none", "Active", "Ended"}, bound : Nat, routed : Nat,
                            guidance : Nat]]
  BY DEF DispatchInv, DispatchTypes
<1>6. \A h \in Goals : run[h].phase # "Active"
  BY <1>1, DispatchAssumption DEF DispatchInv, OneNonterminalRun
<1> HIDE DEF g, r
<1>7. \A h \in Goals : /\ run'[h] = (IF h = g THEN r ELSE run[h])
                       /\ served'[h] = (IF h = g THEN sched.next ELSE served[h])
  BY <1>1, <1>5
<1>8. sched'.next = sched.next + 1
      /\ sched' \in [mode : {"RUNNING", "PAUSED"}, revision : Nat, next : Nat \ {0}]
  <2>1. sched.next + 1 \in Nat \ {0} /\ sched.revision + 1 \in Nat
    BY <1>5
  <2> QED
    BY <2>1, <1>1, <1>5
<1>9. DispatchTypes'
  <2>1. run' \in [Goals -> [phase : {"none", "Active", "Ended"}, bound : Nat, routed : Nat,
                            guidance : Nat]]
    BY <1>1, <1>4, <1>5
  <2>2. served' \in [Goals -> Nat]
    BY <1>1, <1>5
  <2>3. \E P, B : cycle' \in [Schedulers -> CycleType(P, B)]
    BY <1>1, <1>t
  <2> QED
    BY <2>1, <2>2, <2>3, <1>1, <1>8 DEF DispatchInv, DispatchTypes
<1>10. OneNonterminalRun'
  BY <1>1, <1>6, <1>7 DEF OneNonterminalRun
<1>11. OneRevision'
  BY <1>4, <1>7 DEF DispatchInv, OneRevision
<1>12. ChargedInOrder'
  <2>1. sched.next \in Nat \ {0} /\ \A h \in Goals : served[h] \in Nat /\ served[h] < sched.next
    BY <1>5 DEF DispatchInv, ChargedInOrder
  <2>2. \A h \in Goals : served'[h] < sched'.next
    BY <2>1, <1>7, <1>8
  <2>3. \A h, i \in Goals : h # i /\ served'[h] = served'[i] => served'[h] = 0
    BY <2>1, <1>7 DEF DispatchInv, ChargedInOrder
  <2>4. \A h \in Goals : (served'[h] # 0) <=> (run'[h].phase # "none")
    BY <2>1, <1>4, <1>7 DEF DispatchInv, ChargedInOrder
  <2> QED
    BY <2>2, <2>3, <2>4 DEF ChargedInOrder
<1>13. ASSUME NEW t \in Schedulers PROVE CycleInv(cycle[t])'
  <2>1. cycle'[t] = IF t = s THEN Idle ELSE cycle[t]
    BY <1>1, <1>t
  <2>2. CASE t = s
    BY <2>1, <2>2 DEF CycleInv, Idle
  <2>3. CASE t # s
    BY <2>1, <2>3, <1>1 DEF DispatchInv, CycleInv
  <2> QED
    BY <2>2, <2>3
<1> QED
  BY <1>1, <1>9, <1>10, <1>11, <1>12, <1>13 DEF DispatchInv

\* The published revision grows and the durable one stays ahead of it.
LEMMA ConfigurationKeeps ==
    ASSUME DispatchInv, ActivateConfiguration \/ PublishConfiguration
    PROVE  DispatchInv'
<1>1. config \in [active : Nat, published : Nat, locked : BOOLEAN]
      /\ config.published <= config.active
  BY DEF DispatchInv, DispatchTypes
<1>2. UNCHANGED <<sched, served, run, slot, cycle>>
  BY DEF ActivateConfiguration, PublishConfiguration
<1>3. /\ config' \in [active : Nat, published : Nat, locked : BOOLEAN]
      /\ config'.published <= config'.active
      /\ config.published <= config'.published
  <2>1. CASE ActivateConfiguration
    <3>1. config.active + 1 \in Nat /\ config.published <= config.active + 1
      BY <1>1
    <3>2. config' = [config EXCEPT !.active = config.active + 1, !.locked = TRUE]
      BY <2>1 DEF ActivateConfiguration
    <3>3. config'.published = config.published /\ config'.active = config.active + 1
      BY <3>2, <1>1
    <3>4. config' \in [active : Nat, published : Nat, locked : BOOLEAN]
      BY <3>1, <3>2, <1>1
    <3>5. config.published <= config.published
      BY <1>1
    <3> QED
      BY <3>1, <3>3, <3>4, <3>5
  <2>2. CASE PublishConfiguration
    <3>1. config' = [config EXCEPT !.published = config.active, !.locked = FALSE]
      BY <2>2 DEF PublishConfiguration
    <3>2. config' \in [active : Nat, published : Nat, locked : BOOLEAN]
      BY <3>1, <1>1
    <3>3. config'.published = config.active /\ config'.active = config.active
      BY <3>1, <1>1
    <3>4. config.active <= config.active
      BY <1>1
    <3> QED
      BY <3>2, <3>3, <3>4, <1>1
  <2> QED
    BY <2>1, <2>2
<1>4. DispatchTypes'
  BY <1>2, <1>3 DEF DispatchInv, DispatchTypes
<1>5. ASSUME NEW t \in Schedulers PROVE CycleInv(cycle[t])'
  <2>1. config.published \in Nat /\ config'.published \in Nat
    BY <1>1, <1>3
  <2>2. cycle[t].config \in Nat /\ cycle[t].routed \in Nat
    BY CycleTyped DEF CycleType
  <2> QED
    BY <2>1, <2>2, <1>2, <1>3 DEF DispatchInv, CycleInv
<1> QED
  BY <1>2, <1>3, <1>4, <1>5 DEF DispatchInv, OneNonterminalRun, OneRevision, ChargedInOrder

\* The Run that holds the slot ends and frees it.
LEMMA RunEndsKeeps ==
    ASSUME DispatchInv, NEW g \in Goals, RunEnds(g)
    PROVE  DispatchInv'
<1>1. /\ run[g].phase = "Active" /\ slot = g /\ slot' = NoGoal
      /\ run' = [run EXCEPT ![g].phase = "Ended"]
      /\ UNCHANGED <<sched, served, config, cycle>>
  BY DEF RunEnds, DispatchInv, OneNonterminalRun
<1>2. run \in [Goals -> [phase : {"none", "Active", "Ended"}, bound : Nat, routed : Nat,
                         guidance : Nat]]
  BY DEF DispatchInv, DispatchTypes
<1>3. /\ run' \in [Goals -> [phase : {"none", "Active", "Ended"}, bound : Nat, routed : Nat,
                             guidance : Nat]]
      /\ run'[g].phase = "Ended" /\ run'[g].bound = run[g].bound
      /\ run'[g].routed = run[g].routed /\ run'[g].guidance = run[g].guidance
      /\ \A h \in Goals : h # g => run'[h] = run[h]
  BY <1>1, <1>2
<1>4. DispatchTypes'
  BY <1>1, <1>3 DEF DispatchInv, DispatchTypes
<1>5. OneNonterminalRun'
  BY <1>1, <1>3 DEF DispatchInv, OneNonterminalRun
<1>6. OneRevision' /\ ChargedInOrder'
  BY <1>1, <1>3 DEF DispatchInv, OneRevision, ChargedInOrder
<1>7. ASSUME NEW t \in Schedulers PROVE CycleInv(cycle[t])'
  BY <1>1 DEF DispatchInv, CycleInv
<1> QED
  BY <1>1, <1>4, <1>5, <1>6, <1>7 DEF DispatchInv

\* The operator pauses or resumes.
LEMMA ModeKeeps ==
    ASSUME DispatchInv, SetDispatchMode \/ Resume
    PROVE  DispatchInv'
<1>1. UNCHANGED <<served, run, slot, config, cycle>>
  BY DEF SetDispatchMode, Resume
<1>2. sched \in [mode : {"RUNNING", "PAUSED"}, revision : Nat, next : Nat \ {0}]
  BY DEF DispatchInv, DispatchTypes
<1>3. sched' \in [mode : {"RUNNING", "PAUSED"}, revision : Nat, next : Nat \ {0}]
      /\ sched'.next = sched.next
  <2>1. sched.revision + 1 \in Nat
    BY <1>2
  <2> QED
    BY <2>1, <1>2 DEF SetDispatchMode, Resume
<1>4. ASSUME NEW t \in Schedulers PROVE CycleInv(cycle[t])'
  BY <1>1 DEF DispatchInv, CycleInv
<1> QED
  BY <1>1, <1>3, <1>4 DEF DispatchInv, DispatchTypes, OneNonterminalRun, OneRevision, ChargedInOrder

\* Nothing the invariant speaks of moves.
LEMMA DispatchStays ==
    ASSUME DispatchInv, UNCHANGED <<sched, served, run, slot, config, cycle>>
    PROVE  DispatchInv'
<1>1. ASSUME NEW t \in Schedulers PROVE CycleInv(cycle[t])'
  BY DEF DispatchInv, CycleInv
<1> QED
  BY <1>1 DEF DispatchInv, DispatchTypes, OneNonterminalRun, OneRevision, ChargedInOrder

\* One step of one cycle.
LEMMA CycleKeeps ==
    ASSUME DispatchInv, NEW s \in Schedulers, CycleStep(s)
    PROVE  DispatchInv'
<1>t. PICK Q, A : cycle \in [Schedulers -> CycleType(Q, A)]
  BY CycleTyped
<1>c. /\ CycleInv(cycle[s]) /\ config.published \in Nat /\ sched.revision \in Nat
      /\ cycle[s].config \in Nat /\ cycle[s].routed \in Nat
  BY <1>t DEF DispatchInv, DispatchTypes, CycleType
<1>1. CASE Capture(s)
  <2> DEFINE k == [cycle[s] EXCEPT !.config = config.published, !.step = "snapshot"]
  <2>1. cycle' = [cycle EXCEPT ![s] = k] /\ UNCHANGED <<sched, served, run, slot, config>>
    BY <1>1, <1>t DEF Capture
  <2>2. k \in CycleType(Q, A) /\ k.step = "snapshot" /\ k.config = config.published
    BY <1>t, <1>c DEF CycleType
  <2> HIDE DEF k
  <2>3. CycleInv(k)
    BY <1>c, <2>2 DEF CycleInv
  <2> QED
    BY <1>t, <2>1, <2>2, <2>3, CycleMoves
<1>2. CASE Snapshot(s)
  <2> DEFINE q == ServiceOrder({g \in Goals : Eligible(g)})
             k == [cycle[s] EXCEPT !.revision = sched.revision, !.queue = q,
                     !.attempts = attempt, !.step = "slot"]
  <2>1. UNCHANGED <<sched, served, run, slot, config>>
    BY <1>2 DEF Snapshot
  <2>2. CASE sched.mode = "PAUSED"
    BY <1>2, <2>1, <2>2, CycleStops DEF Snapshot
  <2>3. CASE sched.mode # "PAUSED"
    <3>1. cycle' = [cycle EXCEPT ![s].revision = sched.revision, ![s].queue = q,
                      ![s].attempts = attempt, ![s].step = "slot"]
      BY <1>2, <2>3 DEF Snapshot
    <3> DEFINE QS == Q \cup {q}
               AS == A \cup {attempt}
    <3>2. cycle \in [Schedulers -> CycleType(QS, AS)] /\ q \in QS /\ attempt \in AS
      BY <1>t DEF CycleType
    <3> HIDE DEF q, QS, AS
    <3>3. cycle' = [cycle EXCEPT ![s] = k]
      BY <3>1, <3>2
    <3>4. k \in CycleType(QS, AS) /\ k.step = "slot" /\ k.config = cycle[s].config
      BY <3>2, <1>c DEF CycleType
    <3> HIDE DEF k
    <3>5. CycleInv(k)
      BY <1>2, <1>c, <3>4 DEF CycleInv, Snapshot, At
    <3> QED
      BY <2>1, <3>2, <3>3, <3>4, <3>5, CycleMoves
  <2> QED
    BY <2>2, <2>3
<1>3. CASE CheckSlot(s)
  <2> DEFINE k == [cycle[s] EXCEPT !.step = "route"]
  <2>1. /\ cycle' = [cycle EXCEPT ![s] = Idle] \/ cycle' = [cycle EXCEPT ![s] = k]
        /\ UNCHANGED <<sched, served, run, slot, config>>
    BY <1>3, <1>t DEF CheckSlot
  <2>2. k \in CycleType(Q, A) /\ k.step = "route" /\ k.config = cycle[s].config
    BY <1>t, <1>c DEF CycleType
  <2> HIDE DEF k
  <2>3. CycleInv(k)
    BY <1>3, <1>c, <2>2 DEF CycleInv, CheckSlot, At
  <2> QED
    BY <1>t, <2>1, <2>2, <2>3, CycleMoves, CycleStops
<1>4. CASE RouteBegin(s)
  <2> DEFINE k == [cycle[s] EXCEPT !.routed = config.published, !.step = "offers"]
  <2>1. cycle' = [cycle EXCEPT ![s] = k] /\ UNCHANGED <<sched, served, run, slot, config>>
    BY <1>4, <1>t DEF RouteBegin
  <2>2. k \in CycleType(Q, A) /\ k.step = "offers" /\ k.config = cycle[s].config /\ k.routed = config.published
    BY <1>t, <1>c DEF CycleType
  <2> HIDE DEF k
  <2>3. CycleInv(k)
    BY <1>4, <1>c, <2>2 DEF CycleInv, RouteBegin, At
  <2> QED
    BY <1>t, <2>1, <2>2, <2>3, CycleMoves
<1>5. CASE RouteMoved(s)
  BY <1>5, CycleAfterDefer DEF RouteMoved, At
<1>6. CASE RouteEnd(s)
  <2> DEFINE k == [cycle[s] EXCEPT !.step = "prepare"]
  <2>1. cycle' = [cycle EXCEPT ![s] = k] /\ UNCHANGED <<sched, served, run, slot, config>>
    BY <1>6, <1>t DEF RouteEnd
  <2>2. k \in CycleType(Q, A) /\ k.step = "prepare" /\ k.config = cycle[s].config /\ k.routed = cycle[s].routed
    BY <1>t, <1>c DEF CycleType
  <2> HIDE DEF k
  <2>3. CycleInv(k)
    BY <1>6, <1>c, <2>2 DEF CycleInv, RouteEnd, At
  <2> QED
    BY <1>t, <2>1, <2>2, <2>3, CycleMoves
<1>7. CASE Defer(s)
  BY <1>7, CycleAfterDefer DEF Defer, At
<1>8. CASE DeferConflicts(s)
  BY <1>8, CycleStops DEF DeferConflicts, Stop
<1>9. CASE Prepare(s)
  <2> DEFINE k == [cycle[s] EXCEPT !.guidance = config.published, !.step = "commit"]
  <2>1. cycle' = [cycle EXCEPT ![s] = k] /\ UNCHANGED <<sched, served, run, slot, config>>
    BY <1>9, <1>t DEF Prepare
  <2>2. /\ k \in CycleType(Q, A) /\ k.step = "commit" /\ k.config = cycle[s].config
        /\ k.routed = cycle[s].routed /\ k.guidance = config.published
    BY <1>t, <1>c DEF CycleType
  <2> HIDE DEF k
  <2>3. CycleInv(k)
    BY <1>9, <1>c, <2>2 DEF CycleInv, Prepare, At
  <2> QED
    BY <1>t, <2>1, <2>2, <2>3, CycleMoves
<1>10. CASE CommitRunIntent(s)
  BY <1>10, CommitKeeps
<1>11. CASE CommitRefused(s)
  BY <1>11, CycleStops DEF CommitRefused, Stop
<1> QED
  BY <1>1, <1>2, <1>3, <1>4, <1>5, <1>6, <1>7, <1>8, <1>9, <1>10, <1>11 DEF CycleStep

\* Every step keeps the invariant.
LEMMA DispatchStep == DispatchInv /\ [Next]_vars => DispatchInv'
<1> SUFFICES ASSUME DispatchInv, [Next]_vars PROVE DispatchInv'
  OBVIOUS
<1>1. ASSUME NEW g \in Goals, CancelGoal(g) \/ WorkspaceReady(g) \/ BackoffElapses(g)
      PROVE  DispatchInv'
  BY <1>1, DispatchStays DEF CancelGoal, WorkspaceReady, BackoffElapses
<1>2. CASE UNCHANGED vars
  BY <1>2, DispatchStays DEF vars
<1> QED
  BY <1>1, <1>2, CycleKeeps, RunEndsKeeps, ModeKeeps, ConfigurationKeeps DEF Next

----------------------------------------------------------------------------
\* Scheduling keeps its invariant, however many cycles race.
THEOREM DispatchSafe == Spec => []DispatchInv
  BY DispatchInit, DispatchStep, PTL DEF Spec

\* At most one nonterminal Run exists, and it holds the slot.
THEOREM RunsAreSerial == Spec => []OneNonterminalRun
<1>1. DispatchInv => OneNonterminalRun
  BY DEF DispatchInv
<1> QED
  BY <1>1, DispatchSafe, PTL

\* A Run's binding, route and guidance are of the same configuration.
THEOREM RunsHaveOneRevision == Spec => []OneRevision
<1>1. DispatchInv => OneRevision
  BY DEF DispatchInv
<1> QED
  BY <1>1, DispatchSafe, PTL

\* Each service is charged a sequence of its own.
THEOREM ServicesAreCharged == Spec => []ChargedInOrder
<1>1. DispatchInv => ChargedInOrder
  BY DEF DispatchInv
<1> QED
  BY <1>1, DispatchSafe, PTL

\* Only T3 starts a Run, on a running dispatcher and for an open Goal.
LEMMA RunsStart ==
    ASSUME DispatchInv, Next, NEW g \in Goals, run[g].phase = "none", run'[g].phase # "none"
    PROVE  sched.mode = "RUNNING" /\ goal[g] = "open"
<1>1. run \in [Goals -> [phase : {"none", "Active", "Ended"}, bound : Nat, routed : Nat,
                         guidance : Nat]]
  BY DEF DispatchInv, DispatchTypes
<1>2. run' # run
  OBVIOUS
<1>3. ASSUME NEW h \in Goals, RunEnds(h) PROVE FALSE
  BY <1>1, <1>3 DEF RunEnds
<1>4. \A h \in Goals : ~CancelGoal(h) /\ ~WorkspaceReady(h) /\ ~BackoffElapses(h)
  BY <1>2 DEF CancelGoal, WorkspaceReady, BackoffElapses
<1>5. ~SetDispatchMode /\ ~Resume /\ ~ActivateConfiguration /\ ~PublishConfiguration
  BY <1>2 DEF SetDispatchMode, Resume, ActivateConfiguration, PublishConfiguration
<1>6. \A s \in Schedulers : CycleStep(s) => CommitRunIntent(s)
  BY <1>2 DEF CycleStep, Capture, Snapshot, CheckSlot, RouteBegin, RouteMoved, RouteEnd, Defer,
              DeferConflicts, Prepare, CommitRefused
<1>7. PICK s \in Schedulers : CommitRunIntent(s)
  BY <1>3, <1>4, <1>5, <1>6 DEF Next
<1>8. sched.mode = "RUNNING" /\ goal[Selected(s)] = "open"
  BY <1>7 DEF CommitRunIntent, Admitted, Permitted, Schedulable
<1>9. Selected(s) = g
  BY <1>1, <1>7 DEF CommitRunIntent
<1> QED
  BY <1>8, <1>9

\* A pause fences every decision made before it.
THEOREM PausedMeansPaused == Spec => PauseFences
<1>1. DispatchInv /\ [Next]_vars =>
        [sched.mode = "PAUSED" =>
           \A g \in Goals : run[g].phase = "none" => run'[g].phase = "none"]_vars
  BY RunsStart
<1> QED
  BY <1>1, DispatchSafe, PTL DEF Spec, PauseFences

\* A cancelled Goal starts nothing.
THEOREM CancelledStartsNothing == Spec => CancelFences
<1>1. DispatchInv /\ [Next]_vars =>
        [\A g \in Goals :
           goal[g] = "fenced" /\ run[g].phase = "none" => run'[g].phase = "none"]_vars
  BY RunsStart
<1> QED
  BY <1>1, DispatchSafe, PTL DEF Spec, CancelFences

=============================================================================
