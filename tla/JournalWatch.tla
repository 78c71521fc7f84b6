--------------------------- MODULE JournalWatch ---------------------------
(***************************************************************************)
(* List-then-watch over the store: an operator lists the Goals with the    *)
(* journal cursor of the list, opens GET /events/watch after that cursor,  *)
(* and applies the Events it receives. The daemon serves the watch from a  *)
(* task that polls Store::events_after page by page and sends the Events   *)
(* one by one into a bounded channel. A connection may drop at any moment; *)
(* the operator then resumes after the last Event received. A disaster     *)
(* restore moves the installation to another journal epoch.                *)
(*                                                                         *)
(* An Event is abstracted to the Goal it is about and its cursor, and what *)
(* an operator knows of a Goal to its revision.                            *)
(***************************************************************************)
EXTENDS AuthoritativeStore, SequencesExt, FiniteSetsExt

CONSTANTS
    Watchers,      \* operators
    WatchPage,     \* WATCH_PAGE, the most Events one poll reads
    WatchBuffer,   \* WATCH_BUFFER, the capacity of the channel
    MaxEpoch       \* bound on the journal epochs

ASSUME WatchAssumption ==
    /\ WatchPage \in Nat \ {0}
    /\ WatchBuffer \in Nat \ {0}
    /\ MaxEpoch \in Nat \ {0}

VARIABLES
    epoch,     \* the current journal epoch
    base,      \* the rows the epoch started from
    backup,    \* the rows in the operator's copy of the database
    watch      \* per operator: what it holds, and the daemon's task for it

watchVars == <<epoch, base, backup, watch>>
vars == <<storeVars, watchVars>>

Start == [epoch |-> 1, sequence |-> 0]
Revisions == [g \in Goals |-> rows[g].revision]

Database == [revisions |-> Revisions, epoch |-> epoch, journal |-> journal]
NoDatabase == [revisions |-> [g \in Goals |-> 0], epoch |-> 1, journal |-> <<>>]

Closed == [phase |-> "idle", snapshot |-> NoDatabase,
           known |-> [g \in Goals |-> 0], cursor |-> Start,
           at |-> Start, open |-> FALSE, page |-> <<>>, stream |-> <<>>]

Init ==
    /\ StoreInit
    /\ epoch = 1
    /\ base = [g \in Goals |-> 0]
    /\ backup = rows
    /\ watch = [w \in Watchers |-> Closed]

---------------------------------------------------------------------------
\* read_head: next_sequence - 1 of the current epoch.
ReadHead(db) == [epoch |-> db.epoch, sequence |-> Len(db.journal)]

\* The two conditions under which events_after accepts a cursor.
Reachable(db, cursor) ==
    /\ cursor.epoch = db.epoch
    /\ cursor.sequence <= Len(db.journal)

\* SELECT ... WHERE sequence > cursor ORDER BY sequence LIMIT limit
EventsAfter_BelowHead(db, cursor, limit) ==
    LET last == Min({Len(db.journal) - 1, cursor.sequence + limit})
    IN [i \in 1..(last - cursor.sequence) |->
           [goal |-> db.journal[cursor.sequence + i],
            cursor |-> [epoch |-> db.epoch, sequence |-> cursor.sequence + i]]]
EventsAfter(db, cursor, limit) ==
    LET last == Min({Len(db.journal), cursor.sequence + limit})
    IN [i \in 1..(last - cursor.sequence) |->
           [goal |-> db.journal[cursor.sequence + i],
            cursor |-> [epoch |-> db.epoch, sequence |-> cursor.sequence + i]]]

\* EventPage::next: the last Event's cursor, or the supplied one.
NextCursor(events, cursor) ==
    IF events = <<>> THEN cursor ELSE Last(events).cursor

---------------------------------------------------------------------------
\* goal_snapshot, first statement: the Goals. The read transaction's snapshot
\* is taken here and held for the second statement.
ListGoals(w) ==
    /\ watch[w].phase \in {"idle", "holding"}
    /\ watch' = [watch EXCEPT ![w].phase = "listing",
                              ![w].snapshot = Database,
                              ![w].known = Revisions]
    /\ UNCHANGED <<storeVars, epoch, base, backup>>

\* The state the second statement of goal_snapshot reads.
SecondStatementSees_Autocommit(w) == Database
SecondStatementSees(w) == watch[w].snapshot

\* goal_snapshot, second statement: the journal head.
ListHead(w) ==
    /\ watch[w].phase = "listing"
    /\ watch' = [watch EXCEPT ![w].phase = "holding",
                              ![w].snapshot = NoDatabase,
                              ![w].cursor = ReadHead(SecondStatementSees(w))]
    /\ UNCHANGED <<storeVars, epoch, base, backup>>

\* GET /events/watch?after=cursor: the cursor is validated before the stream
\* begins. An unreachable one is answered cursor-gone, and the operator has
\* to list again.
Connect(w) ==
    /\ watch[w].phase = "holding"
    /\ watch' = [watch EXCEPT
          ![w] = IF Reachable(Database, @.cursor)
                 THEN [@ EXCEPT !.phase = "watching", !.open = TRUE,
                                !.at = watch[w].cursor]
                 ELSE Closed]
    /\ UNCHANGED <<storeVars, epoch, base, backup>>

\* One round of the watch task, when it has sent its previous page: read the
\* next page. An empty page changes nothing.
Poll(w) ==
    LET at == watch[w].at
        events == EventsAfter(Database, at, WatchPage)
    IN /\ watch[w].open
       /\ watch[w].page = <<>>
       /\ Reachable(Database, at)
       /\ at.sequence < Len(journal)
       /\ watch' = [watch EXCEPT ![w].page = events,
                                 ![w].at = NextCursor(events, at)]
       /\ UNCHANGED <<storeVars, epoch, base, backup>>

\* The read of a round fails and the task ends the stream. What it already
\* sent is still delivered.
EndStream(w) ==
    /\ watch[w].open
    /\ watch[w].page = <<>>
    /\ watch' = [watch EXCEPT ![w].open = FALSE]
    /\ UNCHANGED <<storeVars, epoch, base, backup>>

\* The task sends one Event when the channel has room.
Room(w) == Len(watch[w].stream) < WatchBuffer

Send(w) ==
    /\ watch[w].open
    /\ watch[w].page # <<>>
    /\ Room(w)
    /\ watch' = [watch EXCEPT
          ![w].stream = Append(@, watch[w].page[1]),
          ![w].page = Tail(@)]
    /\ UNCHANGED <<storeVars, epoch, base, backup>>

\* The operator reads one message and remembers its cursor.
Receive(w) ==
    /\ watch[w].phase = "watching"
    /\ watch[w].stream # <<>>
    /\ LET event == watch[w].stream[1]
       IN watch' = [watch EXCEPT ![w].known[event.goal] = @ + 1,
                                 ![w].cursor = event.cursor,
                                 ![w].stream = Tail(@)]
    /\ UNCHANGED <<storeVars, epoch, base, backup>>

\* What the operator keeps of a stream that ended: its view, and the cursor of
\* the last Event it received.
AfterStream(s) ==
    IF s.phase = "watching"
    THEN [Closed EXCEPT !.phase = "holding", !.known = s.known,
                        !.cursor = s.cursor]
    ELSE IF s.phase = "listing" THEN Closed ELSE s

\* The connection drops; Events in the channel are lost.
Disconnect(w) ==
    /\ watch[w].phase = "watching"
    /\ watch' = [watch EXCEPT ![w] = AfterStream(@)]
    /\ UNCHANGED <<storeVars, epoch, base, backup>>

\* The daemon restarts: every stream and every request in progress ends.
Restart ==
    /\ Reopen
    /\ watch' = [w \in Watchers |-> AfterStream(watch[w])]
    /\ UNCHANGED <<epoch, base, backup>>

TakeBackup ==
    /\ backup' = rows
    /\ UNCHANGED <<storeVars, epoch, base, watch>>

\* Disaster restore, with the daemon stopped: the rows of the copy, under a
\* fresh journal epoch whose first sequence is 1.
Restore ==
    /\ epoch < MaxEpoch
    /\ epoch' = epoch + 1
    /\ rows' = backup
    /\ journal' = <<>>
    /\ base' = [g \in Goals |-> backup[g].revision]
    /\ writer' = None /\ poisoned' = FALSE /\ midTx' = FALSE /\ work' = NoWork
    /\ pc' = [t \in Threads |-> "idle"] /\ seen' = [t \in Threads |-> Unseen]
    /\ watch' = [w \in Watchers |-> AfterStream(watch[w])]
    /\ UNCHANGED backup

WriterStep ==
    \E t \in Threads :
        \/ \E g \in Goals : Observe(t, g)
        \/ Begin(t) \/ ClosureStep(t) \/ Reenter(t) \/ Panic(t)

Next ==
    \/ WriterStep /\ UNCHANGED watchVars
    \/ \E w \in Watchers :
        \/ ListGoals(w)
        \/ ListHead(w)
        \/ Connect(w)
        \/ Poll(w)
        \/ EndStream(w)
        \/ Send(w)
        \/ Receive(w)
        \/ Disconnect(w)
    \/ Restart
    \/ TakeBackup
    \/ Restore

Spec == Init /\ [][Next]_vars

\* A closure runs to its end, and the watch task and the operator's client are
\* loops. No thread is promised the mutex, and nobody has to write.
FairSpec ==
    /\ Spec
    /\ \A t \in Threads : WF_vars(ClosureStep(t) /\ UNCHANGED watchVars)
    /\ \A w \in Watchers :
        WF_vars(Poll(w)) /\ WF_vars(Send(w)) /\ WF_vars(Receive(w))

---------------------------------------------------------------------------
Occurrences(events, g) == Len(SelectSeq(events, LAMBDA e : e = g))

\* A committed revision and its Event appear together, whatever statement
\* failed on the way and whether or not the closure looked at the error: the
\* commit decision rests on Writer::failed and not on the closure.
EventPerRevision ==
    \A g \in Goals : rows[g].revision = base[g] + Occurrences(journal, g)

\* Whatever commits between the list and the watch, however often the stream
\* drops and is resumed, and across a restore, an operator's view is the state
\* the journal position it holds stands for: no Event is skipped and none is
\* applied twice. goal_snapshot's single read transaction, the strict
\* comparison in events_after and its epoch check are what ensure it.
ViewMatchesCursor ==
    \A w \in Watchers :
        LET held == watch[w]
        IN (held.phase \in {"holding", "watching"} /\ held.cursor.epoch = epoch) =>
             /\ held.cursor.sequence <= Len(journal)
             /\ \A g \in Goals :
                  held.known[g] = base[g] + Occurrences(
                      SubSeq(journal, 1, held.cursor.sequence), g)

\* A watcher that stays connected receives every Event that was committed,
\* although pages and the channel are smaller than the backlog.
WatcherCatchesUp ==
    \A w \in Watchers, n \in 1..MaxJournal :
        (watch[w].phase = "watching" /\ Len(journal) >= n) ~>
            \/ watch[w].cursor.sequence >= n
            \/ watch[w].phase # "watching"
            \/ ~watch[w].open
===========================================================================
