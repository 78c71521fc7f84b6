--------------------------- MODULE CommandLedger ---------------------------
(***************************************************************************)
(* The durable command kernel of pantheon-store: every operator command is *)
(* run by `execute` (command.rs) inside one authoritative BEGIN IMMEDIATE  *)
(* transaction that fences the epoch, classifies the command against the   *)
(* ledger, runs the caller's mutation, allocates a journal sequence,       *)
(* appends the Event and records the outcome.                              *)
(*                                                                         *)
(* A transaction is one step: SQLite commits it whole or not at all.  The  *)
(* caller's mutation is the one public mutation of the store, a revisioned *)
(* compare-and-set of a row whose revision the caller read beforehand.     *)
(* Replies may be lost, callers may resend, two callers may use the same   *)
(* command id, and a disaster restore may put an older database back.      *)
(***************************************************************************)
EXTENDS Naturals, FiniteSets

CONSTANTS
    Clients,        \* processes and threads that submit commands
    CommandIds,     \* command ids a caller may use
    Hashes,         \* request digests
    MaxGeneration,  \* bound on disaster restores
    MaxEvents       \* bound on the Events of one journal epoch

ASSUME LedgerAssumption ==
    /\ MaxGeneration \in Nat \ {0}
    /\ MaxEvents \in Nat

VARIABLES
    generation,    \* system_state.restore_generation
    commands,      \* rows of `commands`
    journal,       \* rows of `event_journal`
    journalEpoch,  \* the current journal epoch
    nextSequence,  \* journal_epochs.next_sequence of the current epoch
    revision,      \* revision of the row the mutations update
    backup,        \* the database copy a disaster restore would put back
    client,        \* per caller: its command and the last answer it has
    applied        \* history: every mutation that ever committed

store == <<commands, journal, journalEpoch, nextSequence, revision>>
vars == <<generation, store, backup, client, applied>>

Internal == <<"internal">>

Answers == {"Executed", "Replayed", "CommandConflict", "StaleCommandEpoch",
            "RevisionConflict", "Lost"}

Commands == [epoch: Nat, id: CommandIds, hash: Hashes, expected: Nat]
LedgerRow == [epoch: Nat, id: CommandIds, hash: Hashes,
              journalEpoch: Nat, sequence: Nat]
Event == [epoch: Nat, sequence: Nat,
          command: (Nat \X CommandIds) \cup {Internal}]

Init ==
    /\ generation = 1
    /\ commands = {}
    /\ journal = {}
    /\ journalEpoch = 1
    /\ nextSequence = 1
    /\ revision = 1
    /\ backup = [commands |-> {}, journal |-> {}, revision |-> 1]
    /\ client = [c \in Clients |-> [pc |-> "idle"]]
    /\ applied = {}

----------------------------------------------------------------------------
(* The pieces of `execute`.  A definition Name_Slip before Name is a       *)
(* mutant of it: the form a plausible slip in the code would give it.      *)
(* Nothing uses it; README.md says how the mutants are run.                *)

FenceEpoch_Skipped(cmd) == TRUE

FenceEpoch(cmd) == cmd.epoch = generation

Lookup(cmd) == {row \in commands : row.epoch = cmd.epoch /\ row.id = cmd.id}

SameRequest_Ignored(cmd) == TRUE

SameRequest(cmd) == \A row \in Lookup(cmd) : row.hash = cmd.hash

\* update_revisioned: one row at the expected revision, or RevisionConflict.
UpdateRevisioned(expected) ==
    /\ revision = expected
    /\ revision' = revision + 1

AllocateSequence ==
    /\ nextSequence <= MaxEvents
    /\ nextSequence' = nextSequence + 1
    /\ UNCHANGED journalEpoch

AppendEvent(command) ==
    journal' = journal \cup {[epoch |-> journalEpoch,
                              sequence |-> nextSequence,
                              command |-> command]}

RecordCommand_LateCursor(cmd) ==
    commands' = commands \cup {[epoch |-> cmd.epoch, id |-> cmd.id,
                                hash |-> cmd.hash,
                                journalEpoch |-> journalEpoch,
                                sequence |-> nextSequence']}

RecordCommand(cmd) ==
    commands' = commands \cup {[epoch |-> cmd.epoch, id |-> cmd.id,
                                hash |-> cmd.hash,
                                journalEpoch |-> journalEpoch,
                                sequence |-> nextSequence]}

----------------------------------------------------------------------------
(* Callers.                                                                *)

\* A caller reads the RestoreGeneration and the revision it will act on,
\* outside any transaction, and submits a command built from them.
Issue(c, id, hash) ==
    /\ client[c].pc # "sent"
    /\ client' = [client EXCEPT ![c] =
                    [pc |-> "sent",
                     cmd |-> [epoch |-> generation, id |-> id, hash |-> hash,
                              expected |-> revision]]]
    /\ UNCHANGED <<generation, store, backup, applied>>

\* A caller repeats a command it already sent, whatever it heard.  The
\* identity and the hash are the same; the mutation re-reads its revision.
Resend(c) ==
    /\ client[c].pc \in Answers
    /\ client' = [client EXCEPT ![c].pc = "sent", ![c].cmd.expected = revision]
    /\ UNCHANGED <<generation, store, backup, applied>>

\* The answer of the transaction, or nothing if the reply is lost.
Answer(c, answer) ==
    \E heard \in {answer, "Lost"} : client' = [client EXCEPT ![c].pc = heard]

\* The process dies before the transaction commits.
CrashBeforeCommit(c) ==
    /\ client[c].pc = "sent"
    /\ client' = [client EXCEPT ![c].pc = "Lost"]
    /\ UNCHANGED <<generation, store, backup, applied>>

----------------------------------------------------------------------------
(* `execute`, one action per way it ends.                                  *)

StaleCommandEpoch(c) ==
    /\ client[c].pc = "sent"
    /\ ~FenceEpoch(client[c].cmd)
    /\ Answer(c, "StaleCommandEpoch")
    /\ UNCHANGED <<generation, store, backup, applied>>

CommandConflict(c) ==
    /\ client[c].pc = "sent"
    /\ FenceEpoch(client[c].cmd)
    /\ Lookup(client[c].cmd) # {}
    /\ ~SameRequest(client[c].cmd)
    /\ Answer(c, "CommandConflict")
    /\ UNCHANGED <<generation, store, backup, applied>>

Replayed(c) ==
    /\ client[c].pc = "sent"
    /\ FenceEpoch(client[c].cmd)
    /\ Lookup(client[c].cmd) # {}
    /\ SameRequest(client[c].cmd)
    /\ Answer(c, "Replayed")
    /\ UNCHANGED <<generation, store, backup, applied>>

\* The mutation fails, and the whole transaction rolls back with it.
MutationFails(c) ==
    /\ client[c].pc = "sent"
    /\ FenceEpoch(client[c].cmd)
    /\ Lookup(client[c].cmd) = {}
    /\ revision # client[c].cmd.expected
    /\ Answer(c, "RevisionConflict")
    /\ UNCHANGED <<generation, store, backup, applied>>

Executed(c) ==
    LET cmd == client[c].cmd IN
    /\ client[c].pc = "sent"
    /\ FenceEpoch(cmd)
    /\ Lookup(cmd) = {}
    /\ UpdateRevisioned(cmd.expected)
    /\ AllocateSequence
    /\ AppendEvent(<<cmd.epoch, cmd.id>>)
    /\ RecordCommand(cmd)
    /\ Answer(c, "Executed")
    /\ applied' = applied \cup {[epoch |-> cmd.epoch, id |-> cmd.id,
                                 hash |-> cmd.hash,
                                 journalEpoch |-> journalEpoch,
                                 sequence |-> nextSequence]}
    /\ UNCHANGED <<generation, backup>>

\* A controller mutation with no command identity appends its Event through
\* the same allocator.
AppendInternalEvent ==
    /\ UpdateRevisioned(revision)
    /\ AllocateSequence
    /\ AppendEvent(Internal)
    /\ UNCHANGED <<generation, commands, backup, client, applied>>

----------------------------------------------------------------------------
(* Disaster restore: an operator copies the database, and later puts the   *)
(* copy back under a fresh RestoreGeneration and a fresh JournalEpoch.     *)

TakeBackup ==
    /\ backup' = [commands |-> commands, journal |-> journal,
                  revision |-> revision]
    /\ UNCHANGED <<generation, store, client, applied>>

Restore ==
    /\ generation < MaxGeneration
    /\ generation' = generation + 1
    /\ commands' = backup.commands
    /\ journal' = backup.journal
    /\ revision' = backup.revision
    /\ journalEpoch' = journalEpoch + 1
    /\ nextSequence' = 1
    /\ UNCHANGED <<backup, client, applied>>

Next ==
    \/ \E c \in Clients :
        \/ \E id \in CommandIds, hash \in Hashes : Issue(c, id, hash)
        \/ Resend(c)
        \/ CrashBeforeCommit(c)
        \/ StaleCommandEpoch(c)
        \/ CommandConflict(c)
        \/ Replayed(c)
        \/ MutationFails(c)
        \/ Executed(c)
    \/ AppendInternalEvent
    \/ TakeBackup
    \/ Restore

Spec == Init /\ [][Next]_vars

----------------------------------------------------------------------------
(* Properties.                                                             *)

\* Every variable stays in its type: rows, Events and callers' commands have
\* the columns command.rs and migration 3 give them.
TypeOK ==
    /\ generation \in Nat \ {0}
    /\ commands \in SUBSET LedgerRow
    /\ journal \in SUBSET Event
    /\ journalEpoch \in Nat \ {0}
    /\ nextSequence \in Nat \ {0}
    /\ revision \in Nat \ {0}
    /\ backup \in [commands: SUBSET LedgerRow, journal: SUBSET Event,
                   revision: Nat \ {0}]
    /\ client \in [Clients -> [pc: {"idle"}]
                              \cup [pc: Answers \cup {"sent"}, cmd: Commands]]
    /\ applied \in SUBSET LedgerRow

\* command.rs: "The mutation ran exactly once."  For one (commandEpoch,
\* commandId) at most one mutation ever commits, over every retry, lost reply
\* and disaster restore: the epoch fence comes before the ledger lookup, so a
\* ledger row that a restore took back cannot make an old command look new.
ExactlyOnce ==
    \A a, b \in applied : (a.epoch = b.epoch /\ a.id = b.id) => a = b

\* A caller that was told Executed or Replayed in the current generation can
\* rely on it: the ledger holds its command with its own request hash, so two
\* callers with different requests are never both told yes for one id.
AcknowledgedIsRecorded ==
    \A c \in Clients :
        (client[c].pc \in {"Executed", "Replayed"}
            /\ client[c].cmd.epoch = generation)
        => \E row \in commands : /\ row.epoch = client[c].cmd.epoch
                                 /\ row.id = client[c].cmd.id
                                 /\ row.hash = client[c].cmd.hash

\* The journal of the current epoch has no gap and no slot used twice: its
\* sequences are exactly the ones the allocator handed out.
JournalGapFree ==
    /\ {e.sequence : e \in {f \in journal : f.epoch = journalEpoch}}
        = 1 .. (nextSequence - 1)
    /\ \A e, f \in journal :
        (e.epoch = f.epoch /\ e.sequence = f.sequence) => e = f

\* A ledger row and its Event are committed together and point at each other.
LedgerMatchesJournal ==
    /\ \A row \in commands :
        [epoch |-> row.journalEpoch, sequence |-> row.sequence,
         command |-> <<row.epoch, row.id>>] \in journal
    /\ \A e \in journal : e.command # Internal =>
        \E row \in commands : /\ e.command = <<row.epoch, row.id>>
                              /\ e.epoch = row.journalEpoch
                              /\ e.sequence = row.sequence

\* No mutation commits without its Event, and no Event without its mutation:
\* the row's revision counts the Events.
RevisionCountsEvents == revision = 1 + Cardinality(journal)

\* Outside a restore, a ledger row is never rewritten or dropped and an Event
\* never leaves the journal: a conflicting request cannot take over an id.
AppendOnly ==
    [][generation' = generation =>
        /\ commands \subseteq commands'
        /\ journal \subseteq journal']_vars

============================================================================
