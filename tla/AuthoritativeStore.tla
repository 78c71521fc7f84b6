------------------------ MODULE AuthoritativeStore ------------------------
(***************************************************************************)
(* The serialized write boundary of pantheon-store: Store::write takes the *)
(* one writer mutex, transaction::run opens BEGIN IMMEDIATE, runs the      *)
(* caller's closure statement by statement and then commits or rolls back. *)
(* A closure may meet a stale revision or a SQLite error, may discard that *)
(* error and go on, may panic, and may call Store::write again. A COMMIT   *)
(* may fail and so may a ROLLBACK, whose error the code drops.             *)
(*                                                                         *)
(* The closure modelled is a read-modify-write of one Goal row, based on a *)
(* row read earlier on the read-only connection, followed by the Event of  *)
(* the change. Revision 0 stands for "no such row": the update of revision *)
(* 0 is the INSERT.                                                        *)
(***************************************************************************)
EXTENDS Naturals, Sequences

CONSTANTS
    Threads,     \* the callers of Store::write
    Goals,       \* the rows
    None,        \* no thread
    MaxJournal   \* bound on the Events of the journal

ASSUME StoreAssumption == None \notin Threads /\ MaxJournal \in Nat

VARIABLES
    rows,        \* committed rows
    journal,     \* committed Events of the current journal epoch, by sequence
    writer,      \* the thread that holds the writer mutex
    poisoned,    \* the writer mutex is poisoned
    midTx,       \* the connection was left inside a transaction (no autocommit)
    work,        \* the open transaction: its rows, its journal, Writer::failed
    pc,          \* where each thread is
    seen         \* the row each thread read before it called Store::write

committed == <<rows, journal>>
connection == <<writer, poisoned, midTx, work>>
storeVars == <<rows, journal, writer, poisoned, midTx, work, pc, seen>>

Row == [revision: Nat, value: Nat]
NoRow == [revision |-> 0, value |-> 0]
Unseen == [goal |-> None, row |-> NoRow]
NoWork == [rows |-> [g \in Goals |-> NoRow], journal |-> <<>>, failed |-> FALSE]

InClosure == {"mutate", "append", "ok", "err", "reenter"}

StoreInit ==
    /\ rows = [g \in Goals |-> NoRow]
    /\ journal = <<>>
    /\ writer = None
    /\ poisoned = FALSE
    /\ midTx = FALSE
    /\ work = NoWork
    /\ pc = [t \in Threads |-> "idle"]
    /\ seen = [t \in Threads |-> Unseen]

---------------------------------------------------------------------------
\* Store::revision_of and the row it belongs to, on the read-only connection.
Observe(t, g) ==
    /\ pc[t] = "idle"
    /\ seen' = [seen EXCEPT ![t] = [goal |-> g, row |-> rows[g]]]
    /\ pc' = [pc EXCEPT ![t] = "wait"]
    /\ UNCHANGED <<committed, connection>>

\* The call is over, and what the caller read goes out of scope.
Return(t) ==
    /\ pc' = [pc EXCEPT ![t] = "idle"]
    /\ seen' = [seen EXCEPT ![t] = Unseen]

\* The mutex is free. A poisoned mutex is free too: lock() returns an error.
LockFree == writer = None

\* Store::write once the mutex is taken: refuse a poisoned writer, refuse a
\* connection that is not in autocommit, and otherwise begin.
Refused_IntoInner == midTx
Refused == poisoned \/ midTx

Begin(t) ==
    /\ pc[t] = "wait"
    /\ LockFree
    /\ Len(journal) < MaxJournal
    /\ IF Refused
       THEN /\ Return(t)
            /\ UNCHANGED connection
       ELSE /\ writer' = t
            /\ work' = [rows |-> rows, journal |-> journal, failed |-> FALSE]
            /\ pc' = [pc EXCEPT ![t] = "mutate"]
            /\ UNCHANGED <<poisoned, midTx, seen>>
    /\ UNCHANGED committed

\* A statement that failed: Writer::fail marks the transaction, and the
\* closure either propagates the error or discards it and goes on to "next".
StatementFails(t, next) ==
    /\ work' = [work EXCEPT !.failed = TRUE]
    /\ pc' \in {[pc EXCEPT ![t] = "err"], [pc EXCEPT ![t] = next]}

\* WHERE id = ? AND revision = ?
Matches_AnyRevision(row, expected) == TRUE
Matches(row, expected) == row.revision = expected

Mutate(t) ==
    /\ pc[t] = "mutate"
    /\ LET g == seen[t].goal
           new == [revision |-> work.rows[g].revision + 1,
                   value |-> seen[t].row.value + 1]
       IN \/ /\ Matches(work.rows[g], seen[t].row.revision)
             /\ work' = [work EXCEPT !.rows[g] = new]
             /\ pc' = [pc EXCEPT ![t] = "append"]
          \/ StatementFails(t, "append")
    /\ UNCHANGED <<committed, writer, poisoned, midTx, seen>>

\* The Event of the change, by a kernel statement of the same transaction.
AppendEvent(t) ==
    /\ pc[t] = "append"
    /\ \/ /\ work' = [work EXCEPT !.journal = Append(@, seen[t].goal)]
          /\ pc' = [pc EXCEPT ![t] = "ok"]
       \/ StatementFails(t, "ok")
    /\ UNCHANGED <<committed, writer, poisoned, midTx, seen>>

\* The closure calls Store::write of the same store. The guard answers with
\* an error before the mutex is touched, and the closure propagates it.
ReentryAnswer_Unguarded == "reenter"
ReentryAnswer == "err"

Reenter(t) ==
    /\ pc[t] = "mutate"
    /\ pc' = [pc EXCEPT ![t] = ReentryAnswer]
    /\ UNCHANGED <<committed, connection, seen>>

---------------------------------------------------------------------------
\* The transaction is rolled back. When ROLLBACK itself fails the connection
\* stays inside the transaction; what it wrote is never visible to a reader.
Rollback ==
    /\ work' = NoWork
    /\ midTx' \in BOOLEAN
    /\ UNCHANGED committed

Commit ==
    /\ rows' = work.rows
    /\ journal' = work.journal
    /\ work' = NoWork
    /\ UNCHANGED midTx

\* The decision of transaction::run on a closure that returned Ok.
MayCommit_TrustsClosure == TRUE
MayCommit == ~work.failed

\* The closure returned Ok. COMMIT may fail; dropping the transaction rolls
\* it back and the caller is told so.
Finish(t) ==
    /\ pc[t] = "ok"
    /\ (MayCommit /\ Commit) \/ Rollback
    /\ writer' = None
    /\ Return(t)
    /\ UNCHANGED poisoned

\* The closure returned Err.
Abort(t) ==
    /\ pc[t] = "err"
    /\ Rollback
    /\ writer' = None
    /\ Return(t)
    /\ UNCHANGED poisoned

\* The closure panics: the transaction rolls back while unwinding and the
\* mutex guard poisons the mutex.
Panic(t) ==
    /\ pc[t] \in InClosure
    /\ Rollback
    /\ writer' = None
    /\ poisoned' = TRUE
    /\ Return(t)

\* The daemon stops and opens the store again: a fresh connection and mutex
\* over what was committed.
Reopen ==
    /\ writer' = None
    /\ poisoned' = FALSE
    /\ midTx' = FALSE
    /\ work' = NoWork
    /\ pc' = [t \in Threads |-> "idle"]
    /\ seen' = [t \in Threads |-> Unseen]
    /\ UNCHANGED committed

ClosureStep(t) == Mutate(t) \/ AppendEvent(t) \/ Finish(t) \/ Abort(t)

StoreNext ==
    \/ \E t \in Threads :
        \/ \E g \in Goals : Observe(t, g)
        \/ Begin(t)
        \/ Mutate(t)
        \/ AppendEvent(t)
        \/ Reenter(t)
        \/ Finish(t)
        \/ Abort(t)
        \/ Panic(t)
    \/ Reopen

StoreSpec == StoreInit /\ [][StoreNext]_storeVars

---------------------------------------------------------------------------
\* Types, and the mutex is held by exactly the thread that is inside a
\* closure: two transactions are never open at once.
StoreTypeOK ==
    /\ rows \in [Goals -> Row]
    /\ journal \in Seq(Goals)
    /\ Len(journal) <= MaxJournal
    /\ {poisoned, midTx, work.failed} \subseteq BOOLEAN
    /\ work.rows \in [Goals -> Row] /\ work.journal \in Seq(Goals)
    /\ \A t \in Threads : pc[t] \in InClosure \cup {"idle", "wait"}
    /\ \A t \in Threads : pc[t] \in InClosure <=> writer = t

\* No update is lost: each committed revision of a row was computed from the
\* revision before it, although every caller read its row before it took the
\* writer mutex. The comparison in the UPDATE statement is what ensures it.
NoLostUpdate == \A g \in Goals : rows[g].value = rows[g].revision

\* After a panic or a failed rollback the connection's state is not known,
\* and nothing is committed through it: the rows change only with the store
\* being opened again.
DirtyConnectionFenced ==
    [][(poisoned \/ midTx) =>
        UNCHANGED <<rows, journal>> \/ ~(poisoned' \/ midTx')]_storeVars

\* The writer mutex is always given back, also when the closure under it calls
\* Store::write again.
WriterReleased == (writer # None) ~> (writer = None)
===========================================================================
