------------------------ MODULE CommandLedgerProofs ------------------------
(***************************************************************************)
(* Exactly-once execution and a consistent journal, for any callers,       *)
(* commands, Events and restores.                                          *)
(***************************************************************************)
EXTENDS CommandLedger, FiniteSetTheorems, TLAPS

\* A caller that has sent a command.
Sent == [pc : Answers \cup {"sent"}, cmd : Commands]

\* What committed in this generation is still in the ledger.  Nothing is said
\* of earlier generations: a restore may have taken their rows.
AppliedInv ==
    \A a \in applied : a.epoch <= generation /\ (a.epoch = generation => a \in commands)

\* No command is of a generation yet to come.
CallerInv == \A c \in Clients : client[c].pc # "idle" => client[c].cmd.epoch <= generation

\* Ledger rows and the Events of commands point at each other.
Paired(ledger, events) ==
    /\ \A row \in ledger :
        [epoch |-> row.journalEpoch, sequence |-> row.sequence,
         command |-> <<row.epoch, row.id>>] \in events
    /\ \A e \in events : e.command # Internal =>
        \E row \in ledger : /\ e.command = <<row.epoch, row.id>>
                            /\ e.epoch = row.journalEpoch
                            /\ e.sequence = row.sequence

\* A database that could be the store, or the copy of an earlier one.
Sound(ledger, events, rev) ==
    /\ \A e \in events : e.epoch <= journalEpoch
    /\ \A e, f \in events : (e.epoch = f.epoch /\ e.sequence = f.sequence) => e = f
    /\ Paired(ledger, events)
    /\ IsFiniteSet(events)
    /\ rev = 1 + Cardinality(events)

\* The sequences handed out in this epoch are those below the next one.
AllocatorInv ==
    /\ \A e \in journal : e.epoch = journalEpoch => e.sequence \in 1 .. (nextSequence - 1)
    /\ \A n \in 1 .. (nextSequence - 1) :
        \E e \in journal : e.epoch = journalEpoch /\ e.sequence = n

IdentityInv == AppliedInv /\ CallerInv /\ ExactlyOnce /\ AcknowledgedIsRecorded

JournalInv ==
    /\ Sound(commands, journal, revision)
    /\ Sound(backup.commands, backup.journal, backup.revision)
    /\ AllocatorInv

KernelInv == TypeOK /\ IdentityInv /\ JournalInv

----------------------------------------------------------------------------
\* The empty database.
LEMMA KernelInit == Init => KernelInv
<1> SUFFICES ASSUME Init PROVE KernelInv
  OBVIOUS
<1>1. TypeOK
  <2>1. client \in [Clients -> [pc : {"idle"}] \cup Sent]
    BY DEF Init
  <2>2. backup \in [commands : SUBSET LedgerRow, journal : SUBSET Event, revision : Nat \ {0}]
    BY DEF Init
  <2> QED
    BY <2>1, <2>2 DEF Init, TypeOK, Sent
<1>2. IdentityInv
  BY DEF Init, IdentityInv, AppliedInv, CallerInv, ExactlyOnce, AcknowledgedIsRecorded
<1>3. IsFiniteSet({}) /\ Cardinality({}) = 0
  BY FS_EmptySet
<1>4. JournalInv
  BY <1>3 DEF Init, JournalInv, Sound, Paired, AllocatorInv
<1> QED
  BY <1>1, <1>2, <1>4 DEF KernelInv

\* A caller that is not idle has a command.
LEMMA Sender ==
    ASSUME TypeOK, NEW c \in Clients, client[c].pc # "idle"
    PROVE  client[c] \in Sent
  BY DEF TypeOK, Sent

\* A caller moves and the database stays.
LEMMA CallerMoves ==
    ASSUME KernelInv, NEW c \in Clients, NEW k \in Sent, k.cmd.epoch <= generation,
           k.pc \in {"Executed", "Replayed"} /\ k.cmd.epoch = generation =>
               \E row \in commands : /\ row.epoch = k.cmd.epoch
                                     /\ row.id = k.cmd.id
                                     /\ row.hash = k.cmd.hash,
           client' = [client EXCEPT ![c] = k],
           UNCHANGED <<generation, store, backup, applied>>
    PROVE  KernelInv'
<1>1. UNCHANGED <<generation, commands, journal, journalEpoch, nextSequence, revision, backup, applied>>
  BY DEF store
<1>2. client \in [Clients -> [pc : {"idle"}] \cup Sent]
  BY DEF KernelInv, TypeOK, Sent
<1>3. client' \in [Clients -> [pc : {"idle"}] \cup Sent]
  BY <1>2
<1>4. TypeOK'
  BY <1>1, <1>3 DEF KernelInv, TypeOK, Sent
<1>5. \A d \in Clients : client'[d] = IF d = c THEN k ELSE client[d]
  BY <1>2
<1>6. CallerInv' /\ AcknowledgedIsRecorded'
  BY <1>1, <1>5 DEF KernelInv, IdentityInv, CallerInv, AcknowledgedIsRecorded
<1>7. AppliedInv' /\ ExactlyOnce'
  BY <1>1 DEF KernelInv, IdentityInv, AppliedInv, ExactlyOnce
<1>8. JournalInv'
  BY SMTT(20), <1>1 DEF KernelInv, JournalInv, Sound, Paired, AllocatorInv
<1> QED
  BY <1>4, <1>6, <1>7, <1>8 DEF KernelInv, IdentityInv

\* An answer without effect: the caller hears it or loses it.
LEMMA AnswerMoves ==
    ASSUME KernelInv, NEW c \in Clients, client[c].pc = "sent",
           NEW answer \in Answers, Answer(c, answer),
           answer \in {"Executed", "Replayed"} =>
               \E row \in commands : /\ row.epoch = client[c].cmd.epoch
                                     /\ row.id = client[c].cmd.id
                                     /\ row.hash = client[c].cmd.hash,
           UNCHANGED <<generation, store, backup, applied>>
    PROVE  KernelInv'
<1>1. PICK heard \in {answer, "Lost"} : client' = [client EXCEPT ![c].pc = heard]
  BY DEF Answer
<1>2. client[c] \in Sent
  BY Sender DEF KernelInv
<1> DEFINE k == [client[c] EXCEPT !.pc = heard]
<1>3. k \in Sent /\ k.cmd = client[c].cmd /\ k.pc = heard
  BY <1>1, <1>2 DEF Sent, Answers
<1>4. client' = [client EXCEPT ![c] = k]
  BY <1>1
<1>5. k.cmd.epoch <= generation
  BY <1>3 DEF KernelInv, IdentityInv, CallerInv
<1>6. k.pc \in {"Executed", "Replayed"} =>
        \E row \in commands : row.epoch = k.cmd.epoch /\ row.id = k.cmd.id /\ row.hash = k.cmd.hash
  BY <1>1, <1>3
<1> HIDE DEF k
<1> QED
  BY <1>3, <1>4, <1>5, <1>6, CallerMoves

\* One more Event at the next sequence keeps a journal sound.
LEMMA EventAppended ==
    ASSUME KernelInv, AllocateSequence, revision' = revision + 1,
           NEW command, AppendEvent(command)
    PROVE  LET e == [epoch |-> journalEpoch, sequence |-> nextSequence, command |-> command]
           IN  /\ journal' = journal \cup {e}
               /\ \A x \in journal' : x.epoch <= journalEpoch'
               /\ \A x, y \in journal' : (x.epoch = y.epoch /\ x.sequence = y.sequence) => x = y
               /\ IsFiniteSet(journal')
               /\ revision' = 1 + Cardinality(journal')
               /\ AllocatorInv'
<1> DEFINE e == [epoch |-> journalEpoch, sequence |-> nextSequence, command |-> command]
<1>1. /\ journal' = journal \cup {e} /\ journalEpoch' = journalEpoch
      /\ nextSequence' = nextSequence + 1
  BY DEF AllocateSequence, AppendEvent
<1>2. journalEpoch \in Nat /\ nextSequence \in Nat \ {0} /\ revision \in Nat
  BY DEF KernelInv, TypeOK
<1>3. e.epoch = journalEpoch /\ e.sequence = nextSequence
  OBVIOUS
<1> HIDE DEF e
<1>4. \A x \in journal : x.epoch = journalEpoch => x.sequence \in 1 .. (nextSequence - 1)
  BY DEF KernelInv, JournalInv, AllocatorInv
<1>5. \A x \in journal : ~(x.epoch = e.epoch /\ x.sequence = e.sequence)
  BY <1>2, <1>3, <1>4
<1>6. e \notin journal
  BY <1>5
<1>7. IsFiniteSet(journal) /\ revision = 1 + Cardinality(journal)
  BY DEF KernelInv, JournalInv, Sound
<1>8. IsFiniteSet(journal') /\ Cardinality(journal') = Cardinality(journal) + 1
  BY <1>1, <1>6, <1>7, FS_AddElement
<1>9. revision' = 1 + Cardinality(journal')
  <2>1. Cardinality(journal) \in Nat
    BY <1>7, FS_CardinalityType
  <2> QED
    BY <2>1, <1>7, <1>8
<1>10. \A x \in journal' : x.epoch <= journalEpoch'
  BY <1>1, <1>2, <1>3 DEF KernelInv, JournalInv, Sound
<1>11. \A x, y \in journal' : (x.epoch = y.epoch /\ x.sequence = y.sequence) => x = y
  BY <1>1, <1>5 DEF KernelInv, JournalInv, Sound
<1>12. AllocatorInv'
  <2>1. \A x \in journal' : x.epoch = journalEpoch' => x.sequence \in 1 .. (nextSequence' - 1)
    BY <1>1, <1>2, <1>3, <1>4
  <2>2. ASSUME NEW n \in 1 .. (nextSequence' - 1)
        PROVE  \E x \in journal' : x.epoch = journalEpoch' /\ x.sequence = n
    <3>1. CASE n = nextSequence
      BY <3>1, <1>1, <1>3
    <3>2. CASE n # nextSequence
      <4>1. n \in 1 .. (nextSequence - 1)
        BY <3>2, <1>1, <1>2
      <4>2. PICK x \in journal : x.epoch = journalEpoch /\ x.sequence = n
        BY <4>1 DEF KernelInv, JournalInv, AllocatorInv
      <4> QED
        BY <4>2, <1>1
    <3> QED
      BY <3>1, <3>2
  <2> QED
    BY <2>1, <2>2 DEF AllocatorInv
<1> QED
  BY <1>1, <1>8, <1>9, <1>10, <1>11, <1>12 DEF e

\* The copy is not touched by an append.
LEMMA CopyKept ==
    ASSUME KernelInv, backup' = backup, journalEpoch' = journalEpoch
    PROVE  Sound(backup.commands, backup.journal, backup.revision)'
  BY DEF KernelInv, JournalInv, Sound, Paired

----------------------------------------------------------------------------
\* The commit of a command.
LEMMA ExecutedKeeps == ASSUME KernelInv, NEW c \in Clients, Executed(c) PROVE KernelInv'
<1> DEFINE cmd == client[c].cmd
           row == [epoch |-> cmd.epoch, id |-> cmd.id, hash |-> cmd.hash,
                   journalEpoch |-> journalEpoch, sequence |-> nextSequence]
           e == [epoch |-> journalEpoch, sequence |-> nextSequence,
                 command |-> <<cmd.epoch, cmd.id>>]
<1>1. client[c] \in Sent /\ cmd \in Commands
  BY Sender DEF KernelInv, Executed, Sent
<1>2. /\ cmd.epoch = generation
      /\ \A x \in commands : ~(x.epoch = cmd.epoch /\ x.id = cmd.id)
      /\ revision' = revision + 1
      /\ AllocateSequence /\ AppendEvent(<<cmd.epoch, cmd.id>>)
      /\ commands' = commands \cup {row} /\ applied' = applied \cup {row}
      /\ Answer(c, "Executed")
      /\ UNCHANGED <<generation, backup>>
  BY DEF Executed, FenceEpoch, Lookup, UpdateRevisioned, RecordCommand
<1>3. journalEpoch' = journalEpoch /\ nextSequence' = nextSequence + 1
  BY <1>2 DEF AllocateSequence
<1>t. /\ journalEpoch \in Nat \ {0} /\ nextSequence \in Nat \ {0} /\ revision \in Nat \ {0}
      /\ commands \subseteq LedgerRow /\ journal \subseteq Event /\ applied \subseteq LedgerRow
      /\ client \in [Clients -> [pc : {"idle"}] \cup Sent]
  BY DEF KernelInv, TypeOK, Sent
<1>4. row \in LedgerRow /\ e \in Event
  BY <1>1, <1>t DEF LedgerRow, Event, Commands
<1>5. row.epoch = cmd.epoch /\ row.id = cmd.id /\ row.hash = cmd.hash
      /\ row.journalEpoch = journalEpoch /\ row.sequence = nextSequence
  OBVIOUS
<1>6. /\ journal' = journal \cup {e}
      /\ \A x \in journal' : x.epoch <= journalEpoch'
      /\ \A x, y \in journal' : (x.epoch = y.epoch /\ x.sequence = y.sequence) => x = y
      /\ IsFiniteSet(journal')
      /\ revision' = 1 + Cardinality(journal')
      /\ AllocatorInv'
  BY <1>2, EventAppended
<1>7. PICK heard \in {"Executed", "Lost"} : client' = [client EXCEPT ![c].pc = heard]
  BY <1>2 DEF Answer
<1> DEFINE k == [client[c] EXCEPT !.pc = heard]
<1>8. k \in Sent /\ k.cmd = cmd /\ k.pc = heard
  BY <1>1, <1>7 DEF Sent, Answers
<1>9. client' = [client EXCEPT ![c] = k]
  BY <1>7
<1>10. Paired(commands', journal')
  <2>1. e = [epoch |-> row.journalEpoch, sequence |-> row.sequence, command |-> <<row.epoch, row.id>>]
    BY <1>5
  <2>2. e.command = <<row.epoch, row.id>> /\ e.epoch = row.journalEpoch /\ e.sequence = row.sequence
    BY <1>5
  <2>3. Paired(commands, journal)
    BY DEF KernelInv, JournalInv, Sound
  <2> HIDE DEF e, row
  <2>4. \A x \in commands' :
          [epoch |-> x.journalEpoch, sequence |-> x.sequence, command |-> <<x.epoch, x.id>>] \in journal'
    BY <2>1, <2>3, <1>2, <1>6 DEF Paired
  <2>5. ASSUME NEW f \in journal', f.command # Internal
        PROVE  \E x \in commands' : /\ f.command = <<x.epoch, x.id>>
                                    /\ f.epoch = x.journalEpoch
                                    /\ f.sequence = x.sequence
    BY SMTT(20), <2>2, <2>3, <2>5, <1>2, <1>6 DEF Paired
  <2> QED
    BY <2>4, <2>5 DEF Paired
<1> HIDE DEF k, row, e
<1>11. TypeOK'
  <2>1. client' \in [Clients -> [pc : {"idle"}] \cup Sent]
    BY <1>t, <1>8, <1>9
  <2>2. commands' \subseteq LedgerRow /\ applied' \subseteq LedgerRow /\ journal' \subseteq Event
    BY <1>t, <1>2, <1>4, <1>6
  <2>3. nextSequence' \in Nat \ {0} /\ revision' \in Nat \ {0}
    BY <1>t, <1>2, <1>3
  <2> QED
    BY <2>1, <2>2, <2>3, <1>2, <1>3 DEF KernelInv, TypeOK, Sent
<1>12. AppliedInv'
  BY SMTT(20), <1>2, <1>5, <1>t DEF KernelInv, IdentityInv, AppliedInv, TypeOK
<1>13. ExactlyOnce'
  <2>1. \A a \in applied : ~(a.epoch = row.epoch /\ a.id = row.id)
    BY <1>2, <1>5 DEF KernelInv, IdentityInv, AppliedInv
  <2> QED
    BY <2>1, <1>2 DEF KernelInv, IdentityInv, ExactlyOnce
<1>14. \A d \in Clients : client'[d] = IF d = c THEN k ELSE client[d]
  BY <1>t, <1>9
<1>15. CallerInv'
  BY SMTT(20), <1>2, <1>8, <1>14 DEF KernelInv, IdentityInv, CallerInv, TypeOK
<1>16. AcknowledgedIsRecorded'
  <2> SUFFICES ASSUME NEW d \in Clients, client'[d].pc \in {"Executed", "Replayed"},
                      client'[d].cmd.epoch = generation'
               PROVE  \E x \in commands' : /\ x.epoch = client'[d].cmd.epoch
                                           /\ x.id = client'[d].cmd.id
                                           /\ x.hash = client'[d].cmd.hash
    BY DEF AcknowledgedIsRecorded
  <2>1. CASE d = c
    BY <2>1, <1>2, <1>5, <1>8, <1>14
  <2>2. CASE d # c
    BY SMTT(20), <2>2, <1>2, <1>14 DEF KernelInv, IdentityInv, AcknowledgedIsRecorded
  <2> QED
    BY <2>1, <2>2
<1>17. Sound(commands, journal, revision)'
  BY <1>6, <1>10 DEF Sound
<1>18. Sound(backup.commands, backup.journal, backup.revision)'
  BY <1>2, <1>3, CopyKept
<1> QED
  BY <1>6, <1>11, <1>12, <1>13, <1>15, <1>16, <1>17, <1>18 DEF KernelInv, IdentityInv, JournalInv

\* The commit of a controller's own mutation.
LEMMA InternalKeeps == ASSUME KernelInv, AppendInternalEvent PROVE KernelInv'
<1> DEFINE e == [epoch |-> journalEpoch, sequence |-> nextSequence, command |-> Internal]
<1>1. /\ revision' = revision + 1 /\ AllocateSequence /\ AppendEvent(Internal)
      /\ UNCHANGED <<generation, commands, backup, client, applied>>
      /\ journalEpoch' = journalEpoch /\ nextSequence' = nextSequence + 1
  BY DEF AppendInternalEvent, UpdateRevisioned, AllocateSequence
<1>2. /\ journal' = journal \cup {e}
      /\ \A x \in journal' : x.epoch <= journalEpoch'
      /\ \A x, y \in journal' : (x.epoch = y.epoch /\ x.sequence = y.sequence) => x = y
      /\ IsFiniteSet(journal')
      /\ revision' = 1 + Cardinality(journal')
      /\ AllocatorInv'
  BY <1>1, EventAppended
<1>3. e \in Event /\ e.command = Internal
  BY DEF KernelInv, TypeOK, Event
<1> HIDE DEF e
<1>4. TypeOK'
  <2>1. /\ journal' \subseteq Event /\ nextSequence' \in Nat \ {0} /\ revision' \in Nat \ {0}
    BY <1>1, <1>2, <1>3 DEF KernelInv, TypeOK
  <2> QED
    BY <2>1, <1>1 DEF KernelInv, TypeOK
<1>5. IdentityInv'
  BY <1>1 DEF KernelInv, IdentityInv, AppliedInv, CallerInv, ExactlyOnce, AcknowledgedIsRecorded
<1>6. Paired(commands', journal')
  <2>1. Paired(commands, journal)
    BY DEF KernelInv, JournalInv, Sound
  <2> QED
    BY <2>1, <1>1, <1>2, <1>3 DEF Paired
<1>7. Sound(commands, journal, revision)'
  BY <1>2, <1>6 DEF Sound
<1>8. Sound(backup.commands, backup.journal, backup.revision)'
  BY <1>1, CopyKept
<1> QED
  BY <1>2, <1>4, <1>5, <1>7, <1>8 DEF KernelInv, JournalInv

\* A copy is taken.
LEMMA BackupKeeps == ASSUME KernelInv, TakeBackup PROVE KernelInv'
<1>1. /\ backup' = [commands |-> commands, journal |-> journal, revision |-> revision]
      /\ UNCHANGED <<generation, commands, journal, journalEpoch, nextSequence, revision, client, applied>>
  BY DEF TakeBackup, store
<1>2. backup'.commands = commands /\ backup'.journal = journal /\ backup'.revision = revision
  BY <1>1
<1>3. TypeOK'
  <2>1. backup' \in [commands : SUBSET LedgerRow, journal : SUBSET Event, revision : Nat \ {0}]
    BY <1>1 DEF KernelInv, TypeOK
  <2> QED
    BY <2>1, <1>1 DEF KernelInv, TypeOK
<1>4. IdentityInv'
  BY <1>1 DEF KernelInv, IdentityInv, AppliedInv, CallerInv, ExactlyOnce, AcknowledgedIsRecorded
<1>5. JournalInv'
  BY <1>1, <1>2 DEF KernelInv, JournalInv, Sound, Paired, AllocatorInv
<1> QED
  BY <1>3, <1>4, <1>5 DEF KernelInv

\* The copy is put back, under a new generation and a new journal epoch.
LEMMA RestoreKeeps == ASSUME KernelInv, Restore PROVE KernelInv'
<1>1. /\ generation' = generation + 1 /\ commands' = backup.commands
      /\ journal' = backup.journal /\ revision' = backup.revision
      /\ journalEpoch' = journalEpoch + 1 /\ nextSequence' = 1
      /\ UNCHANGED <<backup, client, applied>>
  BY DEF Restore
<1>t. /\ generation \in Nat \ {0} /\ journalEpoch \in Nat \ {0}
      /\ backup \in [commands : SUBSET LedgerRow, journal : SUBSET Event, revision : Nat \ {0}]
      /\ client \in [Clients -> [pc : {"idle"}] \cup Sent] /\ applied \subseteq LedgerRow
  BY DEF KernelInv, TypeOK, Sent
<1>2. TypeOK'
  <2>1. /\ commands' \subseteq LedgerRow /\ journal' \subseteq Event /\ revision' \in Nat \ {0}
        /\ generation' \in Nat \ {0} /\ journalEpoch' \in Nat \ {0} /\ nextSequence' \in Nat \ {0}
    BY <1>1, <1>t
  <2> QED
    BY <2>1, <1>1 DEF KernelInv, TypeOK
<1>3. AppliedInv' /\ ExactlyOnce'
  <2>1. \A a \in applied : a.epoch \in Nat /\ a.epoch <= generation
    BY <1>t DEF KernelInv, IdentityInv, AppliedInv, LedgerRow
  <2> QED
    BY <2>1, <1>1, <1>t DEF KernelInv, IdentityInv, AppliedInv, ExactlyOnce
<1>4. CallerInv' /\ AcknowledgedIsRecorded'
  <2>1. ASSUME NEW c \in Clients, client[c].pc # "idle"
        PROVE  client[c].cmd.epoch \in Nat /\ client[c].cmd.epoch <= generation
    <3>1. client[c] \in Sent
      BY <2>1, Sender DEF KernelInv
    <3> QED
      BY <2>1, <3>1 DEF KernelInv, IdentityInv, CallerInv, Sent, Commands
  <2> QED
    BY <2>1, <1>1, <1>t DEF CallerInv, AcknowledgedIsRecorded
<1>5. \A e \in backup.journal : e.epoch \in Nat /\ e.epoch <= journalEpoch
  BY <1>t DEF KernelInv, JournalInv, Sound, Event
<1>6. \A e \in backup.journal : e.epoch <= journalEpoch' /\ e.epoch # journalEpoch'
  BY <1>1, <1>5, <1>t
<1>7. Sound(commands, journal, revision)' /\ Sound(backup.commands, backup.journal, backup.revision)'
  BY <1>1, <1>6 DEF KernelInv, JournalInv, Sound, Paired
<1>8. AllocatorInv'
  BY <1>1, <1>6 DEF AllocatorInv
<1> QED
  BY <1>2, <1>3, <1>4, <1>7, <1>8 DEF KernelInv, IdentityInv, JournalInv

\* Every step keeps the invariant.
LEMMA KernelStep == KernelInv /\ [Next]_vars => KernelInv'
<1> SUFFICES ASSUME KernelInv, [Next]_vars PROVE KernelInv'
  OBVIOUS
<1>1. ASSUME NEW c \in Clients, NEW id \in CommandIds, NEW hash \in Hashes, Issue(c, id, hash)
      PROVE  KernelInv'
  <2> DEFINE k == [pc |-> "sent", cmd |-> [epoch |-> generation, id |-> id, hash |-> hash,
                                           expected |-> revision]]
  <2>1. k \in Sent /\ k.pc = "sent" /\ k.cmd.epoch = generation
    BY DEF KernelInv, TypeOK, Sent, Commands
  <2>2. client' = [client EXCEPT ![c] = k] /\ UNCHANGED <<generation, store, backup, applied>>
    BY <1>1 DEF Issue
  <2>3. generation <= generation
    BY DEF KernelInv, TypeOK
  <2> HIDE DEF k
  <2> QED
    BY <2>1, <2>2, <2>3, CallerMoves
<1>2. ASSUME NEW c \in Clients, Resend(c) PROVE KernelInv'
  <2> DEFINE k == [client[c] EXCEPT !.pc = "sent", !.cmd.expected = revision]
  <2>1. client[c] \in Sent /\ client[c].pc # "idle"
    BY <1>2, Sender DEF KernelInv, Resend, Answers
  <2>2. k \in Sent /\ k.pc = "sent" /\ k.cmd.epoch = client[c].cmd.epoch
    BY <2>1 DEF KernelInv, TypeOK, Sent, Commands
  <2>3. client' = [client EXCEPT ![c] = k] /\ UNCHANGED <<generation, store, backup, applied>>
    BY <1>2 DEF Resend
  <2>4. k.cmd.epoch <= generation
    BY <2>1, <2>2 DEF KernelInv, IdentityInv, CallerInv
  <2> HIDE DEF k
  <2> QED
    BY <2>2, <2>3, <2>4, CallerMoves
<1>3. ASSUME NEW c \in Clients, CrashBeforeCommit(c) PROVE KernelInv'
  <2>1. Answer(c, "Lost") /\ client[c].pc = "sent" /\ UNCHANGED <<generation, store, backup, applied>>
    BY <1>3 DEF CrashBeforeCommit, Answer
  <2> QED
    BY <2>1, AnswerMoves DEF Answers
<1>4. ASSUME NEW c \in Clients, StaleCommandEpoch(c) PROVE KernelInv'
  BY <1>4, AnswerMoves DEF StaleCommandEpoch, Answers
<1>5. ASSUME NEW c \in Clients, CommandConflict(c) PROVE KernelInv'
  BY <1>5, AnswerMoves DEF CommandConflict, Answers
<1>6. ASSUME NEW c \in Clients, Replayed(c) PROVE KernelInv'
  <2>1. \E row \in commands : /\ row.epoch = client[c].cmd.epoch
                              /\ row.id = client[c].cmd.id
                              /\ row.hash = client[c].cmd.hash
    BY <1>6 DEF Replayed, SameRequest, Lookup
  <2> QED
    BY <2>1, <1>6, AnswerMoves DEF Replayed, Answers
<1>7. ASSUME NEW c \in Clients, MutationFails(c) PROVE KernelInv'
  BY <1>7, AnswerMoves DEF MutationFails, Answers
<1>8. CASE UNCHANGED vars
  <2>1. UNCHANGED <<generation, commands, journal, journalEpoch, nextSequence, revision, backup, client, applied>>
    BY <1>8 DEF vars, store
  <2>2. TypeOK' /\ IdentityInv'
    BY <2>1 DEF KernelInv, TypeOK, IdentityInv, AppliedInv, CallerInv, ExactlyOnce, AcknowledgedIsRecorded
  <2>3. JournalInv'
    BY <2>1 DEF KernelInv, JournalInv, Sound, Paired, AllocatorInv
  <2> QED
    BY <2>2, <2>3 DEF KernelInv
<1> QED
  BY <1>1, <1>2, <1>3, <1>4, <1>5, <1>6, <1>7, <1>8, ExecutedKeeps, InternalKeeps,
     BackupKeeps, RestoreKeeps DEF Next

----------------------------------------------------------------------------
\* The command kernel keeps its invariant, whatever is lost, resent, copied or
\* restored.
THEOREM KernelSafe == Spec => []KernelInv
  BY KernelInit, KernelStep, PTL DEF Spec

\* One (commandEpoch, commandId) commits at most one mutation, ever.
THEOREM CommandsRunOnce == Spec => []ExactlyOnce
<1>1. KernelInv => ExactlyOnce
  BY DEF KernelInv, IdentityInv
<1> QED
  BY <1>1, KernelSafe, PTL

\* A caller told Executed or Replayed in this generation finds its own request
\* in the ledger.
THEOREM AnswersAreBacked == Spec => []AcknowledgedIsRecorded
<1>1. KernelInv => AcknowledgedIsRecorded
  BY DEF KernelInv, IdentityInv
<1> QED
  BY <1>1, KernelSafe, PTL

\* Ledger rows and the Events of commands point at each other, before and
\* after every restore.
THEOREM LedgerAndJournalAgree == Spec => []LedgerMatchesJournal
<1>1. KernelInv => LedgerMatchesJournal
  BY DEF KernelInv, JournalInv, Sound, Paired, LedgerMatchesJournal
<1> QED
  BY <1>1, KernelSafe, PTL

\* The journal of the current epoch has no gap and no slot used twice.
THEOREM JournalHasNoGap == Spec => []JournalGapFree
<1>1. KernelInv => JournalGapFree
  <2> SUFFICES ASSUME KernelInv PROVE JournalGapFree
    OBVIOUS
  <2>1. {e.sequence : e \in {f \in journal : f.epoch = journalEpoch}} = 1 .. (nextSequence - 1)
    BY DEF KernelInv, JournalInv, AllocatorInv
  <2> QED
    BY <2>1 DEF KernelInv, JournalInv, Sound, JournalGapFree
<1> QED
  BY <1>1, KernelSafe, PTL

\* The row's revision counts the Events: no mutation commits without its Event.
THEOREM EveryMutationHasItsEvent == Spec => []RevisionCountsEvents
<1>1. KernelInv => RevisionCountsEvents
  BY DEF KernelInv, JournalInv, Sound, RevisionCountsEvents
<1> QED
  BY <1>1, KernelSafe, PTL

\* Only a restore removes a ledger row or an Event.
THEOREM OnlyRestoreForgets == Spec => AppendOnly
<1>1. KernelInv /\ [Next]_vars =>
        [generation' = generation => commands \subseteq commands' /\ journal \subseteq journal']_vars
  <2> SUFFICES ASSUME KernelInv, Next, generation' = generation
               PROVE  commands \subseteq commands' /\ journal \subseteq journal'
    OBVIOUS
  <2>1. ASSUME NEW c \in Clients, Executed(c) PROVE commands \subseteq commands' /\ journal \subseteq journal'
    BY <2>1 DEF Executed, RecordCommand, AppendEvent
  <2>2. CASE AppendInternalEvent
    BY <2>2 DEF AppendInternalEvent, AppendEvent
  <2>3. CASE Restore
    BY SMTT(20), <2>3 DEF Restore, KernelInv, TypeOK
  <2>4. CASE TakeBackup
    BY <2>4 DEF TakeBackup, store
  <2>5. ASSUME NEW c \in Clients,
               \/ \E id \in CommandIds, hash \in Hashes : Issue(c, id, hash)
               \/ Resend(c) \/ CrashBeforeCommit(c) \/ StaleCommandEpoch(c) \/ CommandConflict(c)
               \/ Replayed(c) \/ MutationFails(c)
        PROVE  commands \subseteq commands' /\ journal \subseteq journal'
    BY <2>5 DEF Issue, Resend, CrashBeforeCommit, StaleCommandEpoch, CommandConflict, Replayed,
                MutationFails, store
  <2> QED
    BY <2>1, <2>2, <2>3, <2>4, <2>5 DEF Next
<1> QED
  BY <1>1, KernelSafe, PTL DEF Spec, AppendOnly

============================================================================
