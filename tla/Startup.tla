------------------------------- MODULE Startup -------------------------------
(***************************************************************************)
(* A process of Pantheon from its start to the socket it serves: the claim *)
(* on the database file, the ordered migrations, the configuration it      *)
(* publishes, and the operator socket (pantheond/src/main.rs, Store::open, *)
(* pantheon-store/src/migrations.rs, pantheon-operator-api/src/socket.rs). *)
(*                                                                         *)
(* A process may die between any two steps and be started again, by the    *)
(* same build or by an older one, and the operator may edit the source     *)
(* file.  The claim of Store::open keeps two stores of one operating-      *)
(* system process apart ("shared"); nothing in the program keeps two       *)
(* processes apart.                                                        *)
(***************************************************************************)
EXTENDS Configuration, FiniteSets

CONSTANTS
    Builds,       \* builds of the program, numbered from 1; the last is current
    Known,        \* build -> how many migrations it knows
    Main,         \* the thread that starts the process
    NoOwner,      \* nothing is at the socket path
    MaxFaults     \* bound on deaths, downgrades, failures and edits, by "shared"

ASSUME StartupAssumption ==
    /\ Known \in Seq(Nat) /\ Builds = 1 .. Len(Known)
    /\ Main \in Threads /\ Free \notin Threads /\ NoOwner \notin Processes
    /\ Invalid # Nothing

VARIABLES
    schema,   \* user_version, the rows of schema_migrations, and the DDL run
    claims,   \* the stores that hold a claim on the database file
    proc,     \* process -> where its start has come to
    file,     \* the configuration source on disk
    socket,   \* the process whose listener is at the socket path
    shared,   \* whether the stores belong to one operating-system process
    faults

startupVars == <<schema, claims, proc, file, socket, shared, faults>>
processVars == <<configurationVars, startupVars>>

Down == [pc |-> "down"]
Current == Len(Known)

StartupInit ==
    /\ ConfigurationInit
    /\ schema = [userVersion |-> 0, recorded |-> {}, applied |-> <<>>]
    /\ claims = {}
    /\ proc = [p \in Processes |-> Down]
    /\ file \in {s \in Sources : Meaning[s] # Invalid}
    /\ socket = NoOwner
    /\ shared \in BOOLEAN
    /\ faults = 0

At(p, pc) == proc[p].pc = pc
Goto(p, pc) == proc' = [proc EXCEPT ![p].pc = pc]
Fault == faults < MaxFaults[shared] /\ faults' = faults + 1

\* The controllers run from here on, and the socket is bound meanwhile.
Published(p) == proc[p].pc \in {"clear", "remove", "bind", "serving"}

\* The process ends, whatever the reason: its claim is dropped, a socket file
\* stays where it is.
Exit(p) ==
    /\ proc' = [proc EXCEPT ![p] = Down]
    /\ claims' = claims \ {p}
    /\ Forget(p)
    /\ UNCHANGED <<revisions, ledger, schema, file, socket, shared>>

----------------------------------------------------------------------------
(* Store::open.                                                            *)

Start(p, build) ==
    /\ At(p, "down")
    /\ IF build = Current THEN UNCHANGED faults ELSE Fault
    /\ proc' = [proc EXCEPT ![p] = [pc |-> "open", build |-> build]]
    /\ UNCHANGED <<configurationVars, schema, claims, file, socket, shared>>

\* PathClaim::acquire: the registry is per operating-system process.
Claimed == shared /\ claims # {}

\* The connection exists, and is claimed before anything is written to it;
\* then the connection policy is applied and read back.
OpenStore(p) ==
    /\ At(p, "open")
    /\ ~Claimed
    /\ claims' = claims \cup {p}
    /\ Goto(p, "check")
    /\ UNCHANGED <<configurationVars, schema, file, socket, shared, faults>>

OpenRefused(p) ==
    /\ At(p, "open")
    /\ Claimed
    /\ Exit(p) /\ UNCHANGED faults

\* A schema newer than the build is refused before anything is written.
Supported(build) == schema.userVersion <= Known[build]

\* verify_recorded_state: the rows are the contiguous prefix that the version
\* read before says.
VerifiedState(version) == schema.recorded = 1 .. version

ReadVersion(p) ==
    /\ At(p, "check")
    /\ Supported(proc[p].build)
    /\ proc' = [proc EXCEPT ![p] = [pc |-> "verify", build |-> proc[p].build,
                                    next |-> schema.userVersion + 1]]
    /\ UNCHANGED <<configurationVars, schema, claims, file, socket, shared, faults>>

VerifyRecorded(p) ==
    /\ At(p, "verify")
    /\ VerifiedState(proc[p].next - 1)
    /\ Goto(p, "migrate")
    /\ UNCHANGED <<configurationVars, schema, claims, file, socket, shared, faults>>

SchemaRefused(p) ==
    /\ \/ At(p, "check") /\ ~Supported(proc[p].build)
       \/ At(p, "verify") /\ ~VerifiedState(proc[p].next - 1)
    /\ Exit(p) /\ UNCHANGED faults

\* The DDL of a migration that has run fails, and so does its row's key.
Applicable(version) == version \notin schema.recorded

ApplyOne_RowLater(version) ==
    schema' = [schema EXCEPT !.userVersion = version, !.applied = Append(@, version)]

\* apply_one: the DDL, user_version and the row in one transaction.
ApplyOne(version) ==
    schema' = [userVersion |-> version,
               recorded |-> schema.recorded \cup {version},
               applied |-> Append(schema.applied, version)]

Migrate(p) ==
    /\ At(p, "migrate")
    /\ proc[p].next <= Known[proc[p].build]
    /\ Applicable(proc[p].next)
    /\ ApplyOne(proc[p].next)
    /\ proc' = [proc EXCEPT ![p].next = @ + 1]
    /\ UNCHANGED <<configurationVars, claims, file, socket, shared, faults>>

MigrationFails(p) ==
    /\ At(p, "migrate")
    /\ proc[p].next <= Known[proc[p].build]
    /\ ~Applicable(proc[p].next)
    /\ Exit(p) /\ UNCHANGED faults

\* The read-only connection is opened, and the source file read.
Opened(p) ==
    /\ At(p, "migrate")
    /\ proc[p].next > Known[proc[p].build]
    /\ proc' = [proc EXCEPT ![p] = [pc |-> "load", build |-> proc[p].build,
                                    source |-> file]]
    /\ UNCHANGED <<configurationVars, schema, claims, file, socket, shared, faults>>

----------------------------------------------------------------------------
(* publish.                                                                *)

AfterLoad_AlwaysActivates == "bootstrap"

\* A restart verifies; only an installation with nothing active is initialized.
AfterLoad == IF Sequence = 0 THEN "bootstrap" ELSE "clear"

LoadConfiguration(p) ==
    /\ At(p, "load")
    /\ Load(p, proc[p].source, proc[p].build)
    /\ Goto(p, AfterLoad)
    /\ UNCHANGED <<revisions, ledger, barrier, act,
                   schema, claims, file, socket, shared, faults>>

\* The command is named by the source's digest.
BootstrapId(p) == <<"bootstrap", proc[p].source>>

Bootstrap(p) ==
    /\ At(p, "bootstrap")
    /\ BeginActivate(p, Main, BootstrapId(p), proc[p].source, proc[p].build)
    /\ Goto(p, "activate")
    /\ UNCHANGED <<schema, claims, file, socket, shared, faults>>

BootstrapInvalid(p) ==
    /\ At(p, "bootstrap")
    /\ Compile(proc[p].source, proc[p].build) = Invalid
    /\ Exit(p) /\ UNCHANGED faults

Bootstrapped(p) ==
    /\ At(p, "activate")
    /\ InCall(p, Main, "done") /\ act[p][Main].ok
    /\ ReturnActivation(p, Main)
    /\ Goto(p, "reload")
    /\ UNCHANGED <<schema, claims, file, socket, shared, faults>>

BootstrapRefused(p) ==
    /\ At(p, "activate")
    /\ InCall(p, Main, "done") /\ ~act[p][Main].ok
    /\ Exit(p) /\ UNCHANGED faults

ReloadConfiguration(p) ==
    /\ At(p, "reload")
    /\ Load(p, proc[p].source, proc[p].build)
    /\ Goto(p, "clear")
    /\ UNCHANGED <<revisions, ledger, barrier, act,
                   schema, claims, file, socket, shared, faults>>

----------------------------------------------------------------------------
(* bind and clear_stale.                                                   *)

Answers_FileExists(owner) == owner # NoOwner

\* Only a listener answers a connection; a socket file alone does not.
Answers(owner) == owner # NoOwner /\ At(owner, "serving")

ClearStale(p) ==
    /\ At(p, "clear")
    /\ ~Answers(socket)
    /\ Goto(p, IF socket = NoOwner THEN "bind" ELSE "remove")
    /\ UNCHANGED <<configurationVars, schema, claims, file, socket, shared, faults>>

AlreadyServing(p) ==
    /\ At(p, "clear")
    /\ Answers(socket)
    /\ Exit(p) /\ UNCHANGED faults

\* The path is removed, whatever is there by now.
RemoveStale(p) ==
    /\ At(p, "remove")
    /\ socket' = NoOwner
    /\ Goto(p, "bind")
    /\ UNCHANGED <<configurationVars, schema, claims, file, shared, faults>>

Bind(p) ==
    /\ At(p, "bind")
    /\ socket = NoOwner
    /\ socket' = p
    /\ Goto(p, "serving")
    /\ UNCHANGED <<configurationVars, schema, claims, file, shared, faults>>

BindRefused(p) ==
    /\ At(p, "bind")
    /\ socket # NoOwner
    /\ Exit(p) /\ UNCHANGED faults

----------------------------------------------------------------------------
(* While it serves, and what happens to it.                                *)

OperatorActivates(p, t, id, source) ==
    /\ At(p, "serving")
    /\ BeginActivate(p, t, id, source, proc[p].build)
    /\ UNCHANGED startupVars

Activate(p, t) == Activating(p, t) /\ UNCHANGED startupVars

ActivateReturns(p, t) ==
    /\ At(p, "serving")
    /\ ReturnActivation(p, t)
    /\ UNCHANGED startupVars

\* Killed, shut down, or a call to the system that fails.
Stop(p) == ~At(p, "down") /\ Fault /\ Exit(p)

EditSource ==
    /\ Fault
    /\ file' \in Sources \ {file}
    /\ UNCHANGED <<configurationVars, schema, claims, proc, socket, shared>>

StartSteps(p) ==
    \/ OpenStore(p) \/ OpenRefused(p) \/ ReadVersion(p) \/ VerifyRecorded(p)
    \/ SchemaRefused(p) \/ Migrate(p) \/ MigrationFails(p) \/ Opened(p)
    \/ LoadConfiguration(p) \/ Bootstrap(p) \/ BootstrapInvalid(p)
    \/ Bootstrapped(p) \/ BootstrapRefused(p) \/ ReloadConfiguration(p)
    \/ ClearStale(p) \/ AlreadyServing(p) \/ RemoveStale(p)
    \/ Bind(p) \/ BindRefused(p)

StartupNext ==
    \/ \E p \in Processes :
        \/ \E b \in Builds : Start(p, b)
        \/ StartSteps(p) \/ Stop(p)
        \/ \E t \in Threads :
            \/ \E id \in Requests, s \in Sources : OperatorActivates(p, t, id, s)
            \/ Activate(p, t) \/ ActivateReturns(p, t)
    \/ EditSource

\* The supervisor starts a process that is down, and its threads run.
StartupFairness ==
    \A p \in Processes :
        /\ WF_processVars(Start(p, Current) \/ StartSteps(p) \/ Activate(p, Main))
        /\ \A t \in Threads \ {Main} : WF_processVars(Activate(p, t))

----------------------------------------------------------------------------
(* Properties.                                                             *)

\* Whatever dies and whoever migrates at the same time, the schema is a whole
\* prefix of the migrations, each run once and on record; and with one store
\* at a time a process that has published runs on exactly the schema it knows.
SchemaWhole ==
    /\ schema.applied = [i \in 1 .. schema.userVersion |-> i]
    /\ VerifiedState(schema.userVersion)
    /\ \A p \in Processes :
        shared /\ Published(p) => schema.userVersion = Known[proc[p].build]

\* "ordinary restart is not configuration deployment": a start activates only
\* where nothing is active yet, and, even when first starts overlap, one source
\* once.
RestartAdoptsNothing ==
    [][revisions' # revisions /\ (\E p \in Processes : At(p, "activate")
                                    /\ InCall(p, Main, "commit") /\ act'[p] # act[p]) =>
        /\ shared => revisions = <<>>
        /\ \A i \in DOMAIN revisions :
            revisions[i].command # revisions'[Len(revisions')].command]_processVars

\* "Pantheon must prevent requests from observing a database-active new
\* revision while process-local compiled configuration still points at the old
\* revision": whenever a caller can get past the lock, the snapshot it is given
\* is of the revision the database has active.
BarrierHolds ==
    \A p \in Processes :
        shared /\ Published(p) /\ SnapshotReadable(p) =>
            published[p].sequence = Sequence

\* A snapshot never carries one revision's identity and another's semantics,
\* and no process serves without one.
SnapshotPaired ==
    \A p \in Processes :
        /\ published[p].semantics # Nothing =>
            published[p].semantics = revisions[published[p].sequence].content
        /\ Published(p) => published[p].sequence \in 1 .. Sequence

\* Whatever a death left behind (a claim, half of the migrations, a stale socket
\* file), a later start gets through to serving, unless there is nothing active
\* and nothing valid to activate; and with one store at a time the socket path
\* leads to the process that serves.
ServesAgain ==
    []<>(\/ \E p \in Processes : At(p, "serving") /\ (shared => socket = p)
         \/ Sequence = 0 /\ Meaning[file] = Invalid)

=============================================================================
