---------------------------- MODULE Configuration ----------------------------
(***************************************************************************)
(* Configuration authority: the immutable revisions of an installation     *)
(* (pantheon-store/src/configuration.rs) and each process's                *)
(* ConfigurationAuthority (pantheon-engine/src/configuration.rs), which    *)
(* publishes one of them behind the publication barrier.                   *)
(*                                                                         *)
(* A revision's content digest stands for what the source means and the    *)
(* compiler that said so; the source digest stands for the source.  The    *)
(* pointer is the last revision: write_activation inserts the revision and *)
(* moves the pointer in one transaction, and nothing else writes either.   *)
(* The pointer's revision column counts the activations.                   *)
(***************************************************************************)
EXTENDS Naturals, Sequences

CONSTANTS
    Processes,   \* the processes that open the store
    Threads,     \* threads of a process that activate configurations
    Sources,     \* source sets
    Meaning,     \* source -> what it compiles to, or Invalid
    Invalid,
    Nothing,     \* no semantics recovered
    Free,        \* nobody holds the publication lock
    Requests     \* command ids an operator activates under

VARIABLES
    revisions,   \* configuration_revisions, in order of activation_sequence
    ledger,      \* activation commands committed: id and request hash
    published,   \* process -> its Snapshot
    barrier,     \* process -> the thread that holds the publication lock
    act          \* process, thread -> its call of activate

configurationVars == <<revisions, ledger, published, barrier, act>>

NoSnapshot == [sequence |-> 0, semantics |-> Nothing]
NoCall == [pc |-> "idle"]

ConfigurationInit ==
    /\ revisions = <<>>
    /\ ledger = {}
    /\ published = [p \in Processes |-> NoSnapshot]
    /\ barrier = [p \in Processes |-> Free]
    /\ act = [p \in Processes |-> [t \in Threads |-> NoCall]]

\* SourceSet::compile.  The revision digest covers the compiler's version.
Compile(source, compiler) ==
    IF Meaning[source] = Invalid THEN Invalid
    ELSE [body |-> Meaning[source], compiler |-> compiler]

\* configuration_pointer and read_revision_row.
Sequence == Len(revisions)
Active == revisions[Sequence]

----------------------------------------------------------------------------
(* load: what the database says is active governs; the source only gives   *)
(* its semantics back, if it still compiles to the same digest.            *)

Recovered(source, compiler) ==
    LET c == Compile(source, compiler)
    IN  IF c = Active.content THEN c ELSE Nothing

Load(p, source, compiler) ==
    published' = [published EXCEPT ![p] =
        IF Sequence = 0 THEN NoSnapshot
        ELSE [sequence |-> Sequence, semantics |-> Recovered(source, compiler)]]

----------------------------------------------------------------------------
(* activate, by one thread of a process.                                   *)

InCall(p, t, pc) == act[p][t].pc = pc

\* The candidate compiles, or the call ends before it has touched anything.
BeginActivate(p, t, id, source, compiler) ==
    /\ InCall(p, t, "idle")
    /\ Compile(source, compiler) # Invalid
    /\ act' = [act EXCEPT ![p][t] =
                [pc |-> "lock", id |-> id, source |-> source,
                 compiled |-> Compile(source, compiler)]]
    /\ UNCHANGED <<revisions, ledger, published, barrier>>

\* The barrier, then the pointer revision the activation will be held to.
TakeBarrier(p, t) ==
    /\ InCall(p, t, "lock")
    /\ barrier[p] = Free
    /\ barrier' = [barrier EXCEPT ![p] = t]
    /\ act' = [act EXCEPT ![p][t] =
                [pc |-> "commit", id |-> act[p][t].id,
                 source |-> act[p][t].source, compiled |-> act[p][t].compiled,
                 expected |-> Sequence]]
    /\ UNCHANGED <<revisions, ledger, published>>

Recorded(call) == {row \in ledger : row.id = call.id}

Swapping(call, under) ==
    [pc |-> "swap", compiled |-> call.compiled, under |-> under]

Done(ok) == [pc |-> "done", ok |-> ok]

\* write_activation under execute_command.
CommitActivation(p, t) ==
    /\ InCall(p, t, "commit")
    /\ LET call == act[p][t] IN
       /\ Recorded(call) = {}
       /\ call.expected = Sequence
       /\ revisions' = Append(revisions, [content |-> call.compiled,
                                          source |-> call.source,
                                          command |-> call.id])
       /\ ledger' = ledger \cup {[id |-> call.id, source |-> call.source]}
       /\ act' = [act EXCEPT ![p][t] = Swapping(call, Sequence + 1)]
    /\ UNCHANGED <<published, barrier>>

ActivationReplayed(p, t) ==
    /\ InCall(p, t, "commit")
    /\ LET call == act[p][t] IN
       /\ Recorded(call) # {}
       /\ \A row \in Recorded(call) : row.source = call.source
       /\ act' = [act EXCEPT ![p][t] = Swapping(call, 0)]
    /\ UNCHANGED <<revisions, ledger, published, barrier>>

\* CommandConflict, or another process has moved the pointer.
ActivationRefused(p, t) ==
    /\ InCall(p, t, "commit")
    /\ LET call == act[p][t] IN
       IF Recorded(call) = {} THEN call.expected # Sequence
       ELSE \E row \in Recorded(call) : row.source # call.source
    /\ act' = [act EXCEPT ![p][t] = Done(FALSE)]
    /\ barrier' = [barrier EXCEPT ![p] = Free]
    /\ UNCHANGED <<revisions, ledger, published>>

Paired_Unchecked(sequence, compiled) == TRUE

\* Snapshot::new refuses semantics that are not the revision's own.
Paired(sequence, compiled) == revisions[sequence].content = compiled

\* The swap, still behind the barrier: under the revision just committed, or
\* after a replay under whatever is active by now.
SwapSnapshot(p, t) ==
    /\ InCall(p, t, "swap")
    /\ LET call == act[p][t]
           under == IF call.under = 0 THEN Sequence ELSE call.under
           paired == Paired(under, call.compiled)
       IN  /\ published' = IF paired
                           THEN [published EXCEPT ![p] =
                                   [sequence |-> under, semantics |-> call.compiled]]
                           ELSE published
           /\ act' = [act EXCEPT ![p][t] = Done(paired)]
    /\ barrier' = [barrier EXCEPT ![p] = Free]
    /\ UNCHANGED <<revisions, ledger>>

ReturnActivation(p, t) ==
    /\ InCall(p, t, "done")
    /\ act' = [act EXCEPT ![p][t] = NoCall]
    /\ UNCHANGED <<revisions, ledger, published, barrier>>

Activating(p, t) ==
    \/ TakeBarrier(p, t) \/ CommitActivation(p, t) \/ ActivationReplayed(p, t)
    \/ ActivationRefused(p, t) \/ SwapSnapshot(p, t)

----------------------------------------------------------------------------
(* snapshot: what a caller in the process is given, once it has the lock.  *)

SnapshotReadable_Unlocked(p) == TRUE

SnapshotReadable(p) == barrier[p] = Free

\* The process ends: nothing of the authority survives it.
Forget(p) ==
    /\ published' = [published EXCEPT ![p] = NoSnapshot]
    /\ barrier' = [barrier EXCEPT ![p] = Free]
    /\ act' = [act EXCEPT ![p] = [t \in Threads |-> NoCall]]

=============================================================================
