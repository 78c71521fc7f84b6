--------------------- MODULE AuthoritativeStoreProofs ---------------------
(***************************************************************************)
(* The serialized write boundary for any number of threads and rows. The   *)
(* inductive invariant adds to the checked properties what they rest on:   *)
(* the rows a thread read, and the rows of the open transaction, already   *)
(* satisfy NoLostUpdate, and a connection with an open closure is clean.   *)
(***************************************************************************)
EXTENDS AuthoritativeStore, TLAPS

ConsistentRow == {r \in Row : r.value = r.revision}

WorkType == [rows: [Goals -> ConsistentRow], journal: Seq(Goals),
             failed: BOOLEAN]

SeenType == [goal: Goals \cup {None}, row: ConsistentRow]

Types ==
    /\ rows \in [Goals -> ConsistentRow]
    /\ journal \in Seq(Goals)
    /\ work \in WorkType
    /\ writer \in Threads \cup {None}
    /\ poisoned \in BOOLEAN
    /\ midTx \in BOOLEAN
    /\ pc \in [Threads -> InClosure \cup {"idle", "wait"}]
    /\ seen \in [Threads -> SeenType]

Exclusion == \A t \in Threads : pc[t] \in InClosure <=> writer = t

Targets == \A t \in Threads : pc[t] # "idle" => seen[t].goal \in Goals

Clean == writer # None => ~poisoned /\ ~midTx

Bounded ==
    /\ Len(journal) <= MaxJournal
    /\ Len(work.journal) <= MaxJournal
    /\ \A t \in Threads :
        pc[t] \in {"mutate", "append"} => Len(work.journal) < MaxJournal

StoreInv == Types /\ Exclusion /\ Targets /\ Clean /\ Bounded

\* The empty row is consistent, so a closed transaction and a caller that has
\* read nothing have their types.
LEMMA NoWorkType ==
    /\ NoRow \in ConsistentRow
    /\ Unseen \in SeenType
    /\ NoWork \in WorkType
    /\ Len(NoWork.journal) = 0
<1>1. NoRow \in ConsistentRow
  BY DEF NoRow, ConsistentRow, Row
<1>2. [g \in Goals |-> NoRow] \in [Goals -> ConsistentRow]
  BY <1>1
<1>3. <<>> \in Seq(Goals) /\ Len(<<>>) = 0
  OBVIOUS
<1>4. Unseen \in SeenType
  BY <1>1 DEF Unseen, SeenType
<1> QED
  BY <1>1, <1>2, <1>3, <1>4 DEF NoWork, WorkType

\* The statement of a matching update computes the next revision from the
\* current one: WHERE revision = ? makes the row read earlier the current one.
LEMMA MatchingUpdate ==
    ASSUME NEW r \in ConsistentRow, NEW s \in ConsistentRow,
           Matches(r, s.revision)
    PROVE  [revision |-> r.revision + 1, value |-> s.value + 1] \in ConsistentRow
BY DEF ConsistentRow, Row, Matches

\* A new store satisfies the invariant.
LEMMA StoreInitial == StoreInit => StoreInv
<1> SUFFICES ASSUME StoreInit PROVE StoreInv
  OBVIOUS
<1>1. Types
  <2>1. rows \in [Goals -> ConsistentRow] /\ work \in WorkType
    BY NoWorkType DEF StoreInit
  <2>2. journal \in Seq(Goals)
    BY DEF StoreInit
  <2>3. seen \in [Threads -> SeenType]
    BY NoWorkType DEF StoreInit
  <2> QED
    BY <2>1, <2>2, <2>3 DEF StoreInit, Types, InClosure
<1>2. Exclusion /\ Targets /\ Clean
  BY StoreAssumption DEF StoreInit, Exclusion, Targets, Clean, InClosure
<1>3. Bounded
  <2>1. Len(journal) = 0 /\ Len(work.journal) = 0
    BY NoWorkType DEF StoreInit
  <2> QED
    BY <2>1, StoreAssumption DEF StoreInit, Bounded
<1> QED
  BY <1>1, <1>2, <1>3 DEF StoreInv

\* A call that returns leaves the types of the threads' state alone.
LEMMA Returned ==
    ASSUME StoreInv, NEW t \in Threads, Return(t)
    PROVE  /\ pc' = [pc EXCEPT ![t] = "idle"]
           /\ pc' \in [Threads -> InClosure \cup {"idle", "wait"}]
           /\ seen' \in [Threads -> SeenType]
           /\ Targets'
<1>1. seen' \in [Threads -> SeenType]
  BY NoWorkType DEF StoreInv, Types, Return
<1> QED
  BY <1>1 DEF StoreInv, Types, Targets, Return

\* Closing the transaction of the one thread in a closure leaves no thread in
\* a closure, and so every part of the invariant about open closures.
LEMMA Released ==
    ASSUME StoreInv, NEW t \in Threads, pc[t] \in InClosure,
           pc' = [pc EXCEPT ![t] = "idle"], writer' = None
    PROVE  /\ Exclusion' /\ Clean'
           /\ \A u \in Threads : pc'[u] \notin {"mutate", "append"}
<1>1. \A u \in Threads : u # t => pc[u] \notin InClosure
  BY DEF StoreInv, Exclusion
<1>2. \A u \in Threads : pc'[u] \notin InClosure
  BY <1>1 DEF StoreInv, Types, InClosure
<1> QED
  BY <1>2, StoreAssumption
  DEF StoreInv, Types, Exclusion, Clean, InClosure

\* Every step of the boundary preserves the invariant.
LEMMA StoreStep == StoreInv /\ [StoreNext]_storeVars => StoreInv'
<1> SUFFICES ASSUME StoreInv, [StoreNext]_storeVars PROVE StoreInv'
  OBVIOUS
<1> USE StoreAssumption
<1>1. ASSUME NEW t \in Threads, NEW g \in Goals, Observe(t, g) PROVE StoreInv'
  <2>1. Types'
    <3>1. [goal |-> g, row |-> rows[g]] \in SeenType
      BY DEF StoreInv, Types, SeenType
    <3> QED
      BY <1>1, <3>1 DEF StoreInv, Types, Observe, committed, connection, InClosure
  <2>2. Exclusion' /\ Targets' /\ Clean' /\ Bounded'
    BY <1>1 DEF StoreInv, Types, Observe, committed, connection, InClosure,
                Exclusion, Targets, Clean, Bounded
  <2> QED
    BY <2>1, <2>2 DEF StoreInv
<1>2. ASSUME NEW t \in Threads, Begin(t) PROVE StoreInv'
  <2>1. CASE Refused
    <3>1. Return(t) /\ UNCHANGED <<rows, journal, writer, poisoned, midTx, work>>
      BY <1>2, <2>1 DEF Begin, committed, connection
    <3>2. pc[t] \notin InClosure
      BY <1>2 DEF Begin, InClosure
    <3> QED
      BY <3>1, <3>2, Returned DEF StoreInv, Types, Exclusion, Clean, Bounded, InClosure
  <2>2. CASE ~Refused
    <3>1. Types'
      <4>1. work' \in WorkType
        <5>1. work' = [rows |-> rows, journal |-> journal, failed |-> FALSE]
          BY <1>2, <2>2 DEF Begin
        <5>2. rows \in [Goals -> ConsistentRow] /\ journal \in Seq(Goals)
          BY DEF StoreInv, Types
        <5> QED
          BY <5>1, <5>2 DEF WorkType
      <4> QED
        BY <1>2, <2>2, <4>1 DEF StoreInv, Types, Begin, committed, InClosure
    <3>2. Exclusion' /\ Targets' /\ Clean'
      BY <1>2, <2>2 DEF StoreInv, Types, Begin, committed, InClosure, Refused,
                        LockFree, Exclusion, Targets, Clean
    <3>3. Bounded'
      BY <1>2, <2>2 DEF StoreInv, Types, Begin, committed, InClosure, LockFree,
                        Exclusion, Bounded
    <3> QED
      BY <3>1, <3>2, <3>3 DEF StoreInv
  <2> QED
    BY <2>1, <2>2
<1>3. ASSUME NEW t \in Threads, Mutate(t) PROVE StoreInv'
  <2> DEFINE g == seen[t].goal
             new == [revision |-> work.rows[g].revision + 1,
                     value |-> seen[t].row.value + 1]
  <2>1. g \in Goals /\ pc[t] = "mutate" /\ pc[t] \in InClosure
    BY <1>3 DEF StoreInv, Targets, Mutate, InClosure
  <2>2. CASE /\ Matches(work.rows[g], seen[t].row.revision)
             /\ work' = [work EXCEPT !.rows[g] = new]
             /\ pc' = [pc EXCEPT ![t] = "append"]
    <3>1. new \in ConsistentRow
      BY <2>1, <2>2, MatchingUpdate DEF StoreInv, Types, WorkType, SeenType
    <3> HIDE DEF new
    <3>2. work' \in WorkType /\ work'.journal = work.journal
      BY <2>1, <2>2, <3>1 DEF StoreInv, Types, WorkType
    <3>3. Types'
      BY <1>3, <2>2, <3>2 DEF StoreInv, Types, Mutate, committed, InClosure
    <3>4. Exclusion' /\ Targets' /\ Clean'
      BY <1>3, <2>1, <2>2 DEF StoreInv, Types, Mutate, committed, InClosure,
                              Exclusion, Targets, Clean
    <3>5. Bounded'
      BY <1>3, <2>1, <2>2, <3>2 DEF StoreInv, Types, Mutate, committed, Bounded
    <3> QED
      BY <3>3, <3>4, <3>5 DEF StoreInv
  <2>3. CASE StatementFails(t, "append")
    <3>1. work' \in WorkType /\ work'.journal = work.journal
      BY <2>3 DEF StoreInv, Types, WorkType, StatementFails
    <3>2. Types'
      BY <1>3, <2>3, <3>1 DEF StoreInv, Types, Mutate, committed, InClosure,
                              StatementFails
    <3>3. Exclusion' /\ Targets' /\ Clean'
      BY <1>3, <2>1, <2>3 DEF StoreInv, Types, Mutate, committed, InClosure,
                              StatementFails, Exclusion, Targets, Clean
    <3>4. Bounded'
      BY <1>3, <2>1, <2>3, <3>1 DEF StoreInv, Types, Mutate, committed,
                                    StatementFails, Bounded
    <3> QED
      BY <3>2, <3>3, <3>4 DEF StoreInv
  <2> QED
    BY <1>3, <2>2, <2>3 DEF Mutate
<1>4. ASSUME NEW t \in Threads, AppendEvent(t) PROVE StoreInv'
  <2>1. seen[t].goal \in Goals /\ pc[t] = "append" /\ pc[t] \in InClosure
    BY <1>4 DEF StoreInv, Targets, AppendEvent, InClosure
  <2>2. CASE /\ work' = [work EXCEPT !.journal = Append(@, seen[t].goal)]
             /\ pc' = [pc EXCEPT ![t] = "ok"]
    <3>1. /\ work' \in WorkType
          /\ Len(work'.journal) = Len(work.journal) + 1
      <4> DEFINE longer == Append(work.journal, seen[t].goal)
      <4>1. longer \in Seq(Goals) /\ Len(longer) = Len(work.journal) + 1
        BY <2>1 DEF StoreInv, Types, WorkType
      <4>2. work' = [work EXCEPT !.journal = longer]
        BY <2>2
      <4> HIDE DEF longer
      <4>3. work' \in WorkType /\ work'.journal = longer
        BY <4>1, <4>2 DEF StoreInv, Types, WorkType
      <4> QED
        BY <4>1, <4>3
    <3>2. Types'
      BY <1>4, <2>2, <3>1 DEF StoreInv, Types, AppendEvent, committed, InClosure
    <3>3. Exclusion' /\ Targets' /\ Clean'
      BY <1>4, <2>1, <2>2 DEF StoreInv, Types, AppendEvent, committed,
                              InClosure, Exclusion, Targets, Clean
    <3>4. \A u \in Threads : pc'[u] \notin {"mutate", "append"}
      BY <2>1, <2>2 DEF StoreInv, Types, Exclusion, InClosure
    <3>5. Len(work.journal) \in Nat /\ Len(work.journal) < MaxJournal
      BY <2>1 DEF StoreInv, Types, WorkType, Bounded
    <3>6. Bounded'
      BY <1>4, <3>1, <3>4, <3>5 DEF StoreInv, AppendEvent, committed, Bounded
    <3> QED
      BY <3>2, <3>3, <3>6 DEF StoreInv
  <2>3. CASE StatementFails(t, "ok")
    <3>1. work' \in WorkType /\ work'.journal = work.journal
      BY <2>3 DEF StoreInv, Types, WorkType, StatementFails
    <3>2. Types'
      BY <1>4, <2>3, <3>1 DEF StoreInv, Types, AppendEvent, committed,
                              InClosure, StatementFails
    <3>3. Exclusion' /\ Targets' /\ Clean'
      BY <1>4, <2>1, <2>3 DEF StoreInv, Types, AppendEvent, committed,
                              InClosure, StatementFails, Exclusion, Targets, Clean
    <3>4. Bounded'
      BY <1>4, <2>1, <2>3, <3>1 DEF StoreInv, Types, AppendEvent, committed,
                                    StatementFails, Bounded
    <3> QED
      BY <3>2, <3>3, <3>4 DEF StoreInv
  <2> QED
    BY <1>4, <2>2, <2>3 DEF AppendEvent
<1>5. ASSUME NEW t \in Threads, Reenter(t) PROVE StoreInv'
  BY <1>5 DEF StoreInv, Types, Reenter, ReentryAnswer, committed, connection,
              InClosure, Exclusion, Targets, Clean, Bounded
<1>6. ASSUME NEW t \in Threads, Finish(t) PROVE StoreInv'
  <2>1. /\ pc' = [pc EXCEPT ![t] = "idle"] /\ Targets'
        /\ pc' \in [Threads -> InClosure \cup {"idle", "wait"}]
        /\ seen' \in [Threads -> SeenType]
    BY <1>6, Returned DEF Finish
  <2>2. /\ Exclusion' /\ Targets' /\ Clean'
        /\ \A u \in Threads : pc'[u] \notin {"mutate", "append"}
    BY <1>6, <2>1, Released DEF Finish, InClosure
  <2>3. CASE Commit
    BY <1>6, <2>1, <2>2, <2>3, NoWorkType
    DEF StoreInv, Types, Finish, Commit, WorkType, Bounded, InClosure
  <2>4. CASE Rollback
    BY <1>6, <2>1, <2>2, <2>4, NoWorkType
    DEF StoreInv, Types, Finish, Rollback, committed, Bounded, InClosure
  <2> QED
    BY <1>6, <2>3, <2>4 DEF Finish
<1>7. ASSUME NEW t \in Threads, Abort(t) PROVE StoreInv'
  <2>1. /\ pc' = [pc EXCEPT ![t] = "idle"] /\ Targets'
        /\ pc' \in [Threads -> InClosure \cup {"idle", "wait"}]
        /\ seen' \in [Threads -> SeenType]
    BY <1>7, Returned DEF Abort
  <2>2. /\ Exclusion' /\ Targets' /\ Clean'
        /\ \A u \in Threads : pc'[u] \notin {"mutate", "append"}
    BY <1>7, <2>1, Released DEF Abort, InClosure
  <2> QED
    BY <1>7, <2>1, <2>2, NoWorkType
    DEF StoreInv, Types, Abort, Rollback, committed, Bounded, InClosure
<1>8. ASSUME NEW t \in Threads, Panic(t) PROVE StoreInv'
  <2>1. /\ pc' = [pc EXCEPT ![t] = "idle"] /\ Targets'
        /\ pc' \in [Threads -> InClosure \cup {"idle", "wait"}]
        /\ seen' \in [Threads -> SeenType]
    BY <1>8, Returned DEF Panic
  <2>2. /\ Exclusion' /\ Targets' /\ Clean'
        /\ \A u \in Threads : pc'[u] \notin {"mutate", "append"}
    BY <1>8, <2>1, Released DEF Panic, InClosure
  <2> QED
    BY <1>8, <2>1, <2>2, NoWorkType
    DEF StoreInv, Types, Panic, Rollback, committed, Bounded, InClosure
<1>9. ASSUME Reopen PROVE StoreInv'
  <2>1. Types'
    BY <1>9, NoWorkType DEF StoreInv, Types, Reopen, committed, InClosure
  <2>2. Exclusion' /\ Targets' /\ Clean'
    BY <1>9 DEF StoreInv, Types, Reopen, InClosure, Exclusion, Targets, Clean
  <2>3. Bounded'
    BY <1>9, NoWorkType DEF StoreInv, Reopen, committed, Bounded
  <2> QED
    BY <2>1, <2>2, <2>3 DEF StoreInv
<1>10. ASSUME UNCHANGED storeVars PROVE StoreInv'
  BY <1>10 DEF StoreInv, Types, storeVars, Exclusion, Targets, Clean, Bounded
<1> QED
  BY <1>1, <1>2, <1>3, <1>4, <1>5, <1>6, <1>7, <1>8, <1>9, <1>10 DEF StoreNext

\* The invariant holds in every reachable state, for any threads and rows.
THEOREM StoreSafe == StoreSpec => []StoreInv
BY StoreInitial, StoreStep, PTL DEF StoreSpec

\* Store::write serializes: transactions never overlap, and a thread holds
\* the writer mutex exactly while it is inside its closure.
THEOREM WritesAreSerial == StoreSpec => []StoreTypeOK
<1>1. StoreInv => StoreTypeOK
  BY DEF StoreInv, Types, Exclusion, Bounded, StoreTypeOK, WorkType, ConsistentRow
<1> QED
  BY StoreSafe, <1>1, PTL

\* The revision comparison of update_revisioned_by: no committed update
\* overwrites one its caller had not read.
THEOREM UpdatesAreNotLost == StoreSpec => []NoLostUpdate
<1>1. StoreInv => NoLostUpdate
  BY DEF StoreInv, Types, ConsistentRow, NoLostUpdate
<1> QED
  BY StoreSafe, <1>1, PTL

\* A poisoned writer, or a connection left inside a transaction, commits
\* nothing until the store is opened again.
THEOREM DirtyNeverCommits == StoreSpec => DirtyConnectionFenced
<1>1. StoreInv /\ [StoreNext]_storeVars =>
        [(poisoned \/ midTx) =>
            UNCHANGED <<rows, journal>> \/ ~(poisoned' \/ midTx')]_storeVars
  <2> SUFFICES ASSUME StoreInv, StoreNext, poisoned \/ midTx
               PROVE  UNCHANGED <<rows, journal>>
    OBVIOUS
  <2>1. \A t \in Threads : pc[t] \notin InClosure
    BY StoreAssumption DEF StoreInv, Exclusion, Clean
  <2> QED
    BY <2>1 DEF StoreNext, Observe, Begin, Mutate, AppendEvent, Reenter, Finish,
                Abort, Panic, Reopen, committed, InClosure
<1> QED
  BY StoreSafe, <1>1, PTL DEF StoreSpec, DirtyConnectionFenced
===========================================================================
