---------------------- MODULE ContextPreparationProofs ----------------------
(***************************************************************************)
(* Proofs about the processes that publish a configuration and prepare     *)
(* Runs, for any processes, threads, builds, sources, Runs and faults, and *)
(* whether or not the processes overlap.                                   *)
(*                                                                         *)
(* ProcessInv is what Startup and Configuration contribute: a snapshot and *)
(* a call that is about to swap one in name a revision that exists, and    *)
(* the semantics of a snapshot are those of its revision.  PrepareInv adds *)
(* what a call of prepare_run_context may rely on at each of its points:   *)
(* the rows T3 froze are found again in the revision they came from.       *)
(***************************************************************************)
EXTENDS ContextPreparation, TLAPS

Contents == [body : {Meaning[s] : s \in Sources}, compiler : Builds]
Ids == Requests \cup {<<"bootstrap", s>> : s \in Sources}
Revisions == [content : Contents, source : Sources, command : Ids]
Snapshots == [sequence : Nat, semantics : Contents \cup {Nothing}]

Calls ==
    [pc : {"idle"}]
    \cup [pc : {"lock"}, id : Ids, source : Sources, compiled : Contents]
    \cup [pc : {"commit"}, id : Ids, source : Sources, compiled : Contents,
          expected : Nat]
    \cup [pc : {"swap"}, compiled : Contents, under : Nat]
    \cup [pc : {"done"}, ok : BOOLEAN]

Late == {"load", "bootstrap", "activate", "reload", "clear", "remove", "bind", "serving"}
Procs ==
    [pc : {"down"}]
    \cup [pc : {"open", "check"}, build : Builds]
    \cup [pc : {"verify", "migrate"}, build : Builds, next : Nat]
    \cup [pc : Late, build : Builds, source : Sources]

Types ==
    /\ revisions \in Seq(Revisions)
    /\ published \in [Processes -> Snapshots]
    /\ act \in [Processes -> [Threads -> Calls]]
    /\ proc \in [Processes -> Procs]
    /\ schema.userVersion \in Nat
    /\ file \in Sources

\* A call that swaps has a revision to swap in.
GoodCall(c) ==
    /\ c.pc = "swap" => Sequence >= 1 /\ c.under <= Sequence
    /\ c.pc = "done" /\ c.ok => Sequence >= 1

GoodSnapshot(s) ==
    /\ s.sequence <= Sequence
    /\ s.semantics # Nothing => /\ s.sequence >= 1
                                /\ s.semantics = revisions[s.sequence].content

\* What a process at x may rely on, with calls f and snapshot s.
Good(x, f, s) ==
    /\ \A t \in Threads : GoodCall(f[t])
    /\ GoodSnapshot(s)
    /\ x.pc = "reload" => Sequence >= 1
    /\ x.pc \in {"clear", "remove", "bind", "serving"} => s.sequence >= 1

ProcessInv ==
    /\ Types
    /\ ledger # {} => Sequence >= 1
    /\ \A p \in Processes : Good(proc[p], act[p], published[p])

\* The plan of a Run, by what T3 froze.
Plan(r) == BuildContextPlan(runs[r], runs[r].guidance)

\* What T3 froze is found again in the revision it came from.
Frozen(r) ==
    /\ runs[r].sequence \in 1 .. Sequence
    /\ runs[r].guidance =
        revisions[runs[r].sequence].content.body.guidance[runs[r].agent]
    /\ runs[r].guidance # NoGuidance

\* What a call of prepare_run_context may rely on at each of its points.
GoodPrep(c) ==
    \/ c.pc = "idle"
    \/ /\ c.run \in Runs /\ runs[c.run] # NoRun
       /\ \/ c.pc = "policy" /\ c.snapshot = runs[c.run]
          \/ /\ c.pc = "guidance" /\ c.snapshot = runs[c.run]
             /\ c.policy = runs[c.run].policy
          \/ /\ c.pc \in {"check", "attach"}
             /\ c = [pc |-> c.pc, run |-> c.run, snapshot |-> runs[c.run],
                     plan |-> Plan(c.run)]
             /\ Expected(c.run) = "prepared"
          \/ /\ c.pc = "prepared" /\ c.plan = Plan(c.run)
             /\ attached[c.run] = c.plan /\ Expected(c.run) = "prepared"
          \/ c.pc = "failed" /\ Expected(c.run) = "failed"

PrepareInv ==
    /\ runs = [r \in Runs |-> runs[r]]
    /\ attached = [r \in Runs |-> attached[r]]
    /\ prep = [p \in Processes |-> prep[p]]
    /\ \A r \in Runs : runs[r] # NoRun => Frozen(r)
    /\ \A r \in Runs : attached[r] # NoPlan => runs[r] # NoRun /\ attached[r] = Plan(r)
    /\ \A c \in t3a : /\ c[1] \in Runs /\ runs[c[1]] # NoRun
                      /\ attached[c[1]] = c[3] /\ c[3] = Plan(c[1])
    /\ \A p \in Processes : GoodPrep(prep[p])

----------------------------------------------------------------------------

\* An installation that nobody has started satisfies ProcessInv.
LEMMA StartupStarts == StartupInit => ProcessInv
<1> SUFFICES ASSUME StartupInit PROVE ProcessInv
  OBVIOUS
<1> USE DEF StartupInit, ConfigurationInit, NoSnapshot, NoCall, Down
<1>1. Types
  BY DEF Types, Calls, Procs, Snapshots
<1>2. Sequence = 0
  BY DEF Sequence
<1>3. ASSUME NEW p \in Processes PROVE Good(proc[p], act[p], published[p])
  BY <1>2 DEF Good, GoodCall, GoodSnapshot
<1>4. QED
  BY <1>1, <1>3 DEF ProcessInv

\* Revisions that are there stay as they are.
LEMMA RevisionsGrow ==
  ASSUME revisions \in Seq(Revisions),
         \/ revisions' = revisions
         \/ \E x \in Revisions : revisions' = Append(revisions, x)
  PROVE  /\ Sequence \in Nat /\ Sequence' \in Nat /\ Sequence' >= Sequence
         /\ \A i \in 1 .. Sequence : revisions'[i] = revisions[i]
<1>1. CASE revisions' = revisions
  BY <1>1 DEF Sequence
<1>2. ASSUME NEW x \in Revisions, revisions' = Append(revisions, x)
      PROVE  /\ Sequence \in Nat /\ Sequence' \in Nat /\ Sequence' >= Sequence
             /\ \A i \in 1 .. Sequence : revisions'[i] = revisions[i]
  BY <1>2 DEF Sequence
<1>3. QED
  BY <1>1, <1>2

\* What a process relies on stays true while revisions are added.
LEMMA GoodStays ==
  ASSUME revisions \in Seq(Revisions),
         revisions' = revisions \/ \E x \in Revisions : revisions' = Append(revisions, x),
         NEW x, NEW f \in [Threads -> Calls], NEW s \in Snapshots, Good(x, f, s)
  PROVE  /\ \A t \in Threads :
             /\ f[t].pc = "swap" => Sequence' >= 1 /\ f[t].under <= Sequence'
             /\ f[t].pc = "done" /\ f[t].ok => Sequence' >= 1
         /\ s.sequence <= Sequence'
         /\ s.semantics # Nothing => /\ s.sequence >= 1
                                     /\ s.semantics = revisions'[s.sequence].content
         /\ x.pc = "reload" => Sequence' >= 1
         /\ x.pc \in {"clear", "remove", "bind", "serving"} => s.sequence >= 1
<1>1. /\ Sequence \in Nat /\ Sequence' \in Nat /\ Sequence' >= Sequence
      /\ \A i \in 1 .. Sequence : revisions'[i] = revisions[i]
  BY RevisionsGrow
<1>2. ASSUME NEW t \in Threads
      PROVE  /\ f[t].pc = "swap" => Sequence' >= 1 /\ f[t].under <= Sequence'
             /\ f[t].pc = "done" /\ f[t].ok => Sequence' >= 1
  <2>1. GoodCall(f[t]) /\ f[t] \in Calls
    BY DEF Good
  <2>2. f[t].pc = "swap" => f[t].under \in Nat
    BY <2>1 DEF Calls
  <2>3. QED
    BY <1>1, <2>1, <2>2 DEF GoodCall
<1>3. /\ s.sequence <= Sequence'
      /\ s.semantics # Nothing => /\ s.sequence >= 1
                                  /\ s.semantics = revisions'[s.sequence].content
  <2>1. GoodSnapshot(s) /\ s.sequence \in Nat
    BY DEF Good, Snapshots
  <2>2. QED
    BY <1>1, <2>1 DEF GoodSnapshot
<1>4. QED
  BY <1>1, <1>2, <1>3 DEF Good

\* A step of p that adds no revision: it comes to x, with calls f and snapshot s.
LEMMA Stepped ==
  ASSUME ProcessInv, NEW p \in Processes,
         NEW x \in Procs, NEW f \in [Threads -> Calls], NEW s \in Snapshots,
         proc' = [proc EXCEPT ![p] = x], act' = [act EXCEPT ![p] = f],
         published' = [published EXCEPT ![p] = s],
         UNCHANGED <<revisions, ledger>>,
         schema'.userVersion \in Nat, file' \in Sources, Good(x, f, s)
  PROVE  ProcessInv'
<1>1. Types
  BY DEF ProcessInv
<1>2. Types'
  BY <1>1 DEF Types
<1>3. Sequence' = Sequence
  BY DEF Sequence
<1>4. ASSUME NEW q \in Processes PROVE Good(proc[q], act[q], published[q])'
  <2>1. CASE q = p
    <3>1. proc'[q] = x /\ act'[q] = f /\ published'[q] = s
      BY <1>1, <2>1 DEF Types
    <3>2. QED
      BY <1>3, <3>1 DEF Good, GoodCall, GoodSnapshot
  <2>2. CASE q # p
    <3>1. /\ proc'[q] = proc[q] /\ act'[q] = act[q] /\ published'[q] = published[q]
          /\ Good(proc[q], act[q], published[q])
      BY <1>1, <2>2 DEF Types, ProcessInv
    <3>2. QED
      BY <1>3, <3>1 DEF Good, GoodCall, GoodSnapshot
  <2>3. QED
    BY <2>1, <2>2
<1>5. QED
  BY <1>2, <1>3, <1>4 DEF ProcessInv

\* p comes to x, where it may be without having published anything new.
MovesTo(p, x) ==
    /\ x \in Procs
    /\ proc' = [proc EXCEPT ![p] = x]
    /\ x.pc # "reload"
    /\ x.pc \in {"clear", "remove", "bind", "serving"} => Published(p)

\* Only the place of p changes.
LEMMA Moved ==
  ASSUME ProcessInv, NEW p \in Processes, \E x : MovesTo(p, x),
         UNCHANGED configurationVars, schema'.userVersion \in Nat, file' \in Sources
  PROVE  ProcessInv'
<1>0. PICK x \in Procs : MovesTo(p, x)
  BY DEF MovesTo
<1> DEFINE f == act[p]
           s == published[p]
<1>1. Types /\ Good(proc[p], f, s)
  BY DEF ProcessInv
<1>2. /\ f \in [Threads -> Calls] /\ s \in Snapshots
      /\ act' = [act EXCEPT ![p] = f] /\ published' = [published EXCEPT ![p] = s]
  BY <1>1 DEF Types, configurationVars
<1>3. Good(x, f, s)
  BY <1>0, <1>1 DEF Good, Published, MovesTo
<1>4. UNCHANGED <<revisions, ledger>>
  BY DEF configurationVars
<1> HIDE DEF f, s
<1>5. proc' = [proc EXCEPT ![p] = x]
  BY <1>0 DEF MovesTo
<1>6. QED
  BY <1>2, <1>3, <1>4, <1>5, Stepped

\* The process ends.
LEMMA Exited ==
  ASSUME ProcessInv, NEW p \in Processes, Exit(p)
  PROVE  ProcessInv'
<1> DEFINE f == [t \in Threads |-> NoCall]
<1>1. Types
  BY DEF ProcessInv
<1>2. /\ Down \in Procs /\ f \in [Threads -> Calls] /\ NoSnapshot \in Snapshots
  BY DEF Down, Procs, NoCall, Calls, NoSnapshot, Snapshots
<1>3. Good(Down, f, NoSnapshot)
  <2>1. Sequence \in Nat
    BY <1>1 DEF Types, Sequence
  <2>2. QED
    BY <2>1 DEF Good, GoodCall, GoodSnapshot, Down, NoCall, NoSnapshot
<1>4. /\ proc' = [proc EXCEPT ![p] = Down] /\ act' = [act EXCEPT ![p] = f]
      /\ published' = [published EXCEPT ![p] = NoSnapshot]
      /\ UNCHANGED <<revisions, ledger>>
  BY DEF Exit, Forget
<1>5. schema'.userVersion \in Nat /\ file' \in Sources
  BY <1>1 DEF Exit, Types
<1> HIDE DEF f
<1>6. QED
  BY <1>2, <1>3, <1>4, <1>5, Stepped

\* Goto keeps the other fields of a process record.
LEMMA Gone ==
  ASSUME Types, NEW p \in Processes, NEW pc, Goto(p, pc),
         \/ proc[p].pc = "open" /\ pc = "check"
         \/ proc[p].pc = "verify" /\ pc = "migrate"
         \/ proc[p].pc \in Late /\ pc \in Late
  PROVE  \E x \in Procs :
            /\ proc' = [proc EXCEPT ![p] = x] /\ x.pc = pc
            /\ x.build = proc[p].build
            /\ proc[p].pc = "verify" => x.next = proc[p].next
<1> DEFINE x == [proc[p] EXCEPT !.pc = pc]
<1>1. proc[p] \in Procs
  BY DEF Types
<1>2. proc' = [proc EXCEPT ![p] = x]
  BY DEF Goto
<1>3. x \in Procs /\ x.pc = pc /\ x.build = proc[p].build
      /\ (proc[p].pc = "verify" => x.next = proc[p].next)
  <2>1. CASE proc[p].pc = "open" /\ pc = "check"
    BY <1>1, <2>1 DEF Procs, Late
  <2>2. CASE proc[p].pc = "verify" /\ pc = "migrate"
    BY <1>1, <2>2 DEF Procs, Late
  <2>3. CASE proc[p].pc \in Late /\ pc \in Late
    BY <1>1, <2>3 DEF Procs, Late
  <2>4. QED
    BY <2>1, <2>2, <2>3
<1>4. QED
  BY <1>2, <1>3

----------------------------------------------------------------------------
(* The start of a process.                                                 *)

\* The store is opened and migrated, and the socket bound: the configuration is
\* left alone.
LEMMA Opens ==
  ASSUME ProcessInv, NEW p \in Processes,
         \/ \E b \in Builds : Start(p, b)
         \/ OpenStore(p) \/ ReadVersion(p) \/ VerifyRecorded(p) \/ Migrate(p)
         \/ Opened(p) \/ ClearStale(p) \/ RemoveStale(p) \/ Bind(p)
  PROVE  ProcessInv' /\ revisions' = revisions
<1>1. Types
  BY DEF ProcessInv
<1>2. proc[p] \in Procs /\ schema.userVersion \in Nat /\ file \in Sources
  BY <1>1 DEF Types
<1>3. UNCHANGED configurationVars /\ file' = file
  BY DEF Start, OpenStore, ReadVersion, VerifyRecorded, Migrate, Opened, ClearStale,
         RemoveStale, Bind
<1>4. schema'.userVersion \in Nat
  <2>1. CASE Migrate(p)
    <3>1. proc[p].next \in Nat
      BY <1>2, <2>1 DEF Migrate, At, Procs, Late
    <3>2. QED
      BY <2>1, <3>1 DEF Migrate, ApplyOne
  <2>2. CASE ~Migrate(p)
    <3>1. schema' = schema
      BY <2>2 DEF Start, OpenStore, ReadVersion, VerifyRecorded, Opened, ClearStale,
                  RemoveStale, Bind
    <3>2. QED
      BY <1>2, <3>1
  <2>3. QED
    BY <2>1, <2>2
<1>5. \E x : MovesTo(p, x)
  <2>1. ASSUME NEW b \in Builds, Start(p, b) PROVE MovesTo(p, [pc |-> "open", build |-> b])
    BY <2>1 DEF Start, MovesTo, Procs
  <2>2. CASE OpenStore(p) \/ VerifyRecorded(p)
    <3>1. PICK x \in Procs :
            proc' = [proc EXCEPT ![p] = x] /\ x.pc \in {"check", "migrate"}
      BY <1>1, <2>2, Gone DEF OpenStore, VerifyRecorded, At
    <3>2. MovesTo(p, x)
      BY <3>1 DEF MovesTo
    <3>3. QED
      BY <3>2
  <2>3. CASE ReadVersion(p)
    <3> DEFINE x == [pc |-> "verify", build |-> proc[p].build,
                     next |-> schema.userVersion + 1]
    <3>1. x \in Procs /\ x.pc = "verify"
      BY <1>2, <2>3 DEF ReadVersion, At, Procs, Late
    <3>2. MovesTo(p, x)
      BY <2>3, <3>1 DEF ReadVersion, MovesTo
    <3>3. QED
      BY <3>2
  <2>4. CASE Migrate(p)
    <3> DEFINE x == [proc[p] EXCEPT !.next = proc[p].next + 1]
    <3>1. proc[p] \in [pc : {"verify", "migrate"}, build : Builds, next : Nat]
      BY <1>2, <2>4 DEF Migrate, At, Procs, Late
    <3>2. x \in Procs /\ x.pc \in {"verify", "migrate"}
      BY <3>1 DEF Procs
    <3>3. proc' = [proc EXCEPT ![p] = x]
      BY <2>4 DEF Migrate
    <3> HIDE DEF x
    <3>4. MovesTo(p, x)
      BY <3>2, <3>3 DEF MovesTo
    <3>5. QED
      BY <3>4
  <2>5. CASE Opened(p)
    <3> DEFINE x == [pc |-> "load", build |-> proc[p].build, source |-> file]
    <3>1. x \in Procs /\ x.pc = "load"
      BY <1>2, <2>5 DEF Opened, At, Procs, Late
    <3>2. MovesTo(p, x)
      BY <2>5, <3>1 DEF Opened, MovesTo
    <3>3. QED
      BY <3>2
  <2>6. CASE ClearStale(p) \/ RemoveStale(p) \/ Bind(p)
    <3>1. PICK y \in {"bind", "remove", "serving"} : Goto(p, y)
      BY <2>6 DEF ClearStale, RemoveStale, Bind
    <3>2. Published(p) /\ proc[p].pc \in Late
      BY <2>6 DEF ClearStale, RemoveStale, Bind, At, Published, Late
    <3>3. PICK x \in Procs : proc' = [proc EXCEPT ![p] = x] /\ x.pc = y
      BY <1>1, <3>1, <3>2, Gone DEF Late
    <3>4. MovesTo(p, x)
      BY <3>1, <3>2, <3>3 DEF MovesTo
    <3>5. QED
      BY <3>4
  <2>7. QED
    BY <2>1, <2>2, <2>3, <2>4, <2>5, <2>6
<1>6. ProcessInv'
  BY <1>2, <1>3, <1>4, <1>5, Moved
<1>7. QED
  BY <1>3, <1>6 DEF configurationVars

\* load, at a restart or after the first activation.
LEMMA Loads ==
  ASSUME ProcessInv, NEW p \in Processes,
         LoadConfiguration(p) \/ ReloadConfiguration(p)
  PROVE  ProcessInv' /\ revisions' = revisions
<1> DEFINE m == Recovered(proc[p].source, proc[p].build)
           n == [sequence |-> Sequence, semantics |-> m]
           s == IF Sequence = 0 THEN NoSnapshot ELSE n
           f == act[p]
<1>1. Types /\ Good(proc[p], f, published[p])
  BY DEF ProcessInv
<1>2. Sequence \in Nat
  BY <1>1 DEF Types, Sequence
<1>3. /\ published' = [published EXCEPT ![p] = s]
      /\ UNCHANGED <<revisions, ledger, act, schema, file>>
  BY DEF LoadConfiguration, ReloadConfiguration, Load
<1>4. s \in Snapshots /\ GoodSnapshot(s) /\ s.sequence = Sequence
  <2>1. CASE Sequence = 0
    BY <1>2, <2>1 DEF NoSnapshot, Snapshots, GoodSnapshot
  <2>2. CASE Sequence # 0
    <3>1. Sequence >= 1 /\ revisions[Sequence] \in Revisions
      BY <1>1, <1>2, <2>2 DEF Types, Sequence
    <3>2. revisions[Sequence].content \in Contents
      BY <3>1 DEF Revisions
    <3>3. /\ m \in Contents \cup {Nothing}
          /\ m # Nothing => m = revisions[Sequence].content
      BY <3>2 DEF Recovered, Active
    <3> HIDE DEF m
    <3>4. n \in Snapshots /\ n.sequence = Sequence /\ n.semantics = m
      BY <1>2, <3>3 DEF Snapshots
    <3> HIDE DEF n
    <3>5. GoodSnapshot(n)
      BY <1>2, <3>1, <3>3, <3>4 DEF GoodSnapshot
    <3>6. s = n
      BY <2>2
    <3>7. QED
      BY <3>4, <3>5, <3>6
  <2>3. QED
    BY <2>1, <2>2
<1> HIDE DEF m, n, s
<1>5. PICK y \in {"bootstrap", "clear"} : Goto(p, y) /\ (y = "clear" => Sequence >= 1)
  <2>1. CASE LoadConfiguration(p)
    BY <1>2, <2>1 DEF LoadConfiguration, AfterLoad
  <2>2. CASE ReloadConfiguration(p)
    <3>1. Goto(p, "clear") /\ Sequence >= 1
      BY <1>1, <2>2 DEF ReloadConfiguration, At, Good
    <3>2. QED
      BY <3>1
  <2>3. QED
    BY <2>1, <2>2
<1>6. proc[p].pc \in Late
  BY DEF LoadConfiguration, ReloadConfiguration, At, Late
<1>7. PICK x \in Procs : proc' = [proc EXCEPT ![p] = x] /\ x.pc = y
  BY <1>1, <1>5, <1>6, Gone DEF Late
<1>8. f \in [Threads -> Calls] /\ act' = [act EXCEPT ![p] = f]
  BY <1>1, <1>3 DEF Types
<1>9. Good(x, f, s)
  BY <1>1, <1>4, <1>5, <1>7 DEF Good
<1>10. schema'.userVersion \in Nat /\ file' \in Sources
  BY <1>1, <1>3 DEF Types
<1> HIDE DEF f
<1>11. QED
  BY <1>3, <1>4, <1>7, <1>8, <1>9, <1>10, Stepped

----------------------------------------------------------------------------
(* The calls of activate.                                                  *)

SetCall(p, t, c) == act' = [act EXCEPT ![p][t] = c]

\* A call of p comes to c, and p to x with snapshot s.
LEMMA CallStepped ==
  ASSUME ProcessInv, NEW p \in Processes, NEW t \in Threads, NEW c \in Calls,
         SetCall(p, t, c), GoodCall(c), NEW x \in Procs, NEW s \in Snapshots,
         proc' = [proc EXCEPT ![p] = x], published' = [published EXCEPT ![p] = s],
         UNCHANGED <<revisions, ledger, schema, file>>, Good(x, act[p], s)
  PROVE  ProcessInv'
<1> DEFINE f == [act[p] EXCEPT ![t] = c]
<1>1. Types /\ act[p] \in [Threads -> Calls]
  BY DEF ProcessInv, Types
<1>2. f \in [Threads -> Calls] /\ \A u \in Threads : f[u] = IF u = t THEN c ELSE act[p][u]
  BY <1>1
<1>3. act' = [act EXCEPT ![p] = f]
  BY <1>1 DEF SetCall, Types
<1> HIDE DEF f
<1>4. Good(x, f, s)
  BY <1>2 DEF Good
<1>5. schema'.userVersion \in Nat /\ file' \in Sources
  BY <1>1 DEF Types
<1>6. QED
  BY <1>2, <1>3, <1>4, <1>5, Stepped

\* Nothing but a call of p changes.
LEMMA CallMoved ==
  ASSUME ProcessInv, NEW p \in Processes, NEW t \in Threads, NEW c \in Calls,
         SetCall(p, t, c), GoodCall(c),
         UNCHANGED <<revisions, ledger, published, schema, proc, file>>
  PROVE  ProcessInv'
<1> DEFINE x == proc[p]
           s == published[p]
<1>1. Types /\ Good(x, act[p], s)
  BY DEF ProcessInv
<1>2. /\ x \in Procs /\ s \in Snapshots
      /\ proc' = [proc EXCEPT ![p] = x] /\ published' = [published EXCEPT ![p] = s]
  BY <1>1 DEF Types
<1> HIDE DEF x, s
<1>3. QED
  BY <1>1, <1>2, CallStepped

\* What compiles is the content of a revision.
LEMMA Compiles ==
  ASSUME NEW s \in Sources, NEW b \in Builds, Compile(s, b) # Invalid
  PROVE  Compile(s, b) \in Contents
BY DEF Compile, Contents

\* An operator's activation begins.
LEMMA OperatorBegins ==
  ASSUME ProcessInv, NEW p \in Processes, NEW t \in Threads, NEW id \in Requests,
         NEW s \in Sources, OperatorActivates(p, t, id, s)
  PROVE  ProcessInv' /\ revisions' = revisions
<1> DEFINE c == [pc |-> "lock", id |-> id, source |-> s,
                 compiled |-> Compile(s, proc[p].build)]
<1>1. proc[p] \in Procs /\ proc[p].pc = "serving"
  BY DEF ProcessInv, Types, OperatorActivates, At
<1>2. proc[p].build \in Builds
  BY <1>1 DEF Procs, Late
<1>3. Compile(s, proc[p].build) \in Contents
  BY <1>2, Compiles DEF OperatorActivates, BeginActivate
<1>4. c \in Calls /\ c.pc = "lock"
  BY <1>3 DEF Calls, Ids
<1>5. /\ SetCall(p, t, c)
      /\ UNCHANGED <<revisions, ledger, published, schema, proc, file>>
  BY DEF OperatorActivates, BeginActivate, SetCall, startupVars
<1> HIDE DEF c
<1>6. GoodCall(c)
  BY <1>4 DEF GoodCall
<1>7. QED
  BY <1>4, <1>5, <1>6, CallMoved

\* A call takes the publication lock, is refused, or returns.
LEMMA CallGoesOn ==
  ASSUME ProcessInv, NEW p \in Processes, NEW t \in Threads,
         \/ (TakeBarrier(p, t) \/ ActivationRefused(p, t)) /\ UNCHANGED startupVars
         \/ ActivateReturns(p, t)
  PROVE  ProcessInv' /\ revisions' = revisions
<1>1. UNCHANGED <<revisions, ledger, published, schema, proc, file>>
  BY DEF TakeBarrier, ActivationRefused, ActivateReturns, ReturnActivation, startupVars
<1>2. CASE TakeBarrier(p, t)
  <2> DEFINE c == [pc |-> "commit", id |-> act[p][t].id,
                   source |-> act[p][t].source, compiled |-> act[p][t].compiled,
                   expected |-> Sequence]
  <2>1. act[p][t] \in Calls /\ act[p][t].pc = "lock" /\ Sequence \in Nat
    BY <1>2 DEF ProcessInv, Types, Sequence, TakeBarrier, InCall
  <2>2. c \in Calls /\ c.pc = "commit"
    BY <2>1 DEF Calls
  <2>3. SetCall(p, t, c)
    BY <1>2 DEF TakeBarrier, SetCall
  <2> HIDE DEF c
  <2>4. GoodCall(c)
    BY <2>2 DEF GoodCall
  <2>5. QED
    BY <1>1, <2>2, <2>3, <2>4, CallMoved
<1>3. CASE ActivationRefused(p, t)
  <2>1. Done(FALSE) \in Calls /\ GoodCall(Done(FALSE))
    BY DEF Done, Calls, GoodCall
  <2>2. SetCall(p, t, Done(FALSE))
    BY <1>3 DEF ActivationRefused, SetCall
  <2>3. QED
    BY <1>1, <2>1, <2>2, CallMoved
<1>4. CASE ActivateReturns(p, t)
  <2>1. NoCall \in Calls /\ GoodCall(NoCall)
    BY DEF NoCall, Calls, GoodCall
  <2>2. SetCall(p, t, NoCall)
    BY <1>4 DEF ActivateReturns, ReturnActivation, SetCall
  <2>3. QED
    BY <1>1, <2>1, <2>2, CallMoved
<1>5. QED
  BY <1>2, <1>3, <1>4

\* A call whose command is on record goes on to the swap: there is a revision.
LEMMA Replays ==
  ASSUME ProcessInv, NEW p \in Processes, NEW t \in Threads,
         ActivationReplayed(p, t), UNCHANGED startupVars
  PROVE  ProcessInv' /\ revisions' = revisions
<1> DEFINE c == Swapping(act[p][t], 0)
<1>1. /\ UNCHANGED <<revisions, ledger, published, schema, proc, file>>
      /\ SetCall(p, t, c)
  BY DEF ActivationReplayed, SetCall, startupVars
<1>2. act[p][t] \in Calls /\ act[p][t].pc = "commit"
  BY DEF ProcessInv, Types, ActivationReplayed, InCall
<1>3. c \in Calls /\ c.under = 0 /\ c.pc = "swap"
  BY <1>2 DEF Calls, Swapping
<1>4. Sequence >= 1
  BY DEF ActivationReplayed, Recorded, ProcessInv
<1> HIDE DEF c
<1>5. Sequence \in Nat
  BY DEF ProcessInv, Types, Sequence
<1>6. GoodCall(c)
  BY <1>3, <1>4, <1>5 DEF GoodCall
<1>7. QED
  BY <1>1, <1>3, <1>6, CallMoved

\* Snapshot::new is what stands between a replay and another revision's
\* identity.
LEMMA Swaps ==
  ASSUME ProcessInv, NEW p \in Processes, NEW t \in Threads,
         SwapSnapshot(p, t), UNCHANGED startupVars
  PROVE  ProcessInv' /\ revisions' = revisions
<1> DEFINE call == act[p][t]
           under == IF call.under = 0 THEN Sequence ELSE call.under
           paired == Paired(under, call.compiled)
           n == [sequence |-> under, semantics |-> call.compiled]
           s == IF paired THEN n ELSE published[p]
           x == proc[p]
           c == Done(paired)
<1>1. Types /\ Good(x, act[p], published[p])
  BY DEF ProcessInv
<1>2. call \in Calls /\ call.pc = "swap" /\ Sequence \in Nat
  BY <1>1 DEF Types, SwapSnapshot, InCall, Sequence
<1>3. call.compiled \in Contents /\ call.under \in Nat
  BY <1>2 DEF Calls
<1>4. GoodCall(call)
  BY <1>1 DEF Good
<1>5. Sequence >= 1 /\ under \in Nat /\ under >= 1 /\ under <= Sequence
  BY <1>2, <1>3, <1>4 DEF GoodCall
<1>6. /\ x \in Procs /\ proc' = [proc EXCEPT ![p] = x]
      /\ UNCHANGED <<revisions, ledger, schema, file>>
  BY <1>1 DEF SwapSnapshot, startupVars, Types
<1>7. published' = [published EXCEPT ![p] = s] /\ SetCall(p, t, c)
  <2>1. /\ published' = IF paired THEN [published EXCEPT ![p] = n] ELSE published
        /\ SetCall(p, t, c)
    BY DEF SwapSnapshot, SetCall
  <2>2. published = [published EXCEPT ![p] = published[p]]
    BY <1>1 DEF Types
  <2> HIDE DEF n, paired
  <2>3. QED
    BY <2>1, <2>2
<1>8. c \in Calls /\ GoodCall(c)
  <2>1. paired \in BOOLEAN
    BY DEF Paired
  <2> HIDE DEF paired
  <2>2. QED
    BY <1>5, <2>1 DEF Done, Calls, GoodCall
<1>9. s \in Snapshots /\ Good(x, act[p], s)
  <2>1. CASE paired
    <3>1. n \in Snapshots /\ n.sequence = under /\ n.semantics = call.compiled
      BY <1>3, <1>5 DEF Snapshots
    <3>2. revisions[under].content = call.compiled /\ s = n
      BY <2>1 DEF Paired
    <3> HIDE DEF n, s, under, paired, call
    <3>3. GoodSnapshot(n)
      BY <1>5, <3>1, <3>2 DEF GoodSnapshot
    <3>4. QED
      BY <1>1, <1>5, <3>1, <3>2, <3>3 DEF Good
  <2>2. CASE ~paired
    <3>1. s = published[p]
      BY <2>2
    <3>2. QED
      BY <1>1, <3>1 DEF Types
  <2>3. QED
    BY <2>1, <2>2
<1> HIDE DEF s, x, c
<1>10. QED
  BY <1>6, <1>7, <1>8, <1>9, CallStepped

\* A call commits a revision, and from then on has it to swap in.
LEMMA Commits ==
  ASSUME ProcessInv, NEW p \in Processes, NEW t \in Threads,
         CommitActivation(p, t), UNCHANGED startupVars
  PROVE  ProcessInv' /\ \E x \in Revisions : revisions' = Append(revisions, x)
<1> DEFINE call == act[p][t]
           c == Swapping(call, Sequence + 1)
           x == [content |-> call.compiled, source |-> call.source, command |-> call.id]
<1>1. Types
  BY DEF ProcessInv
<1>2. call \in Calls /\ call.pc = "commit" /\ Sequence \in Nat
  BY <1>1 DEF Types, Sequence, CommitActivation, InCall
<1>3. c \in Calls /\ c.pc = "swap" /\ c.under = Sequence + 1 /\ x \in Revisions
  <2>1. /\ call.id \in Ids /\ call.source \in Sources /\ call.compiled \in Contents
        /\ Sequence + 1 \in Nat
    BY <1>2 DEF Calls
  <2> HIDE DEF call
  <2>2. x \in Revisions
    BY <2>1 DEF Revisions
  <2>3. c \in [pc : {"swap"}, compiled : Contents, under : Nat]
        /\ c.pc = "swap" /\ c.under = Sequence + 1
    BY <2>1 DEF Swapping
  <2>4. QED
    BY <2>2, <2>3 DEF Calls
<1>4. /\ SetCall(p, t, c) /\ revisions' = Append(revisions, x)
      /\ UNCHANGED <<published, schema, proc, file>>
  BY DEF CommitActivation, SetCall, startupVars
<1> HIDE DEF call, c, x
<1>5. Sequence' = Sequence + 1 /\ revisions' \in Seq(Revisions)
  BY <1>1, <1>3, <1>4 DEF Types, Sequence
<1>6. /\ act' \in [Processes -> [Threads -> Calls]]
      /\ act'[p][t] = c
      /\ \A q \in Processes, u \in Threads :
            q # p \/ u # t => act'[q][u] = act[q][u]
  BY <1>1, <1>3, <1>4 DEF Types, SetCall
<1>7. Types'
  BY <1>1, <1>4, <1>5, <1>6 DEF Types
<1>8. ASSUME NEW q \in Processes PROVE Good(proc[q], act[q], published[q])'
  <2>1. /\ Good(proc[q], act[q], published[q])
        /\ act[q] \in [Threads -> Calls] /\ published[q] \in Snapshots
        /\ revisions \in Seq(Revisions)
    BY <1>1 DEF ProcessInv, Types
  <2>2. /\ \A u \in Threads :
            /\ act[q][u].pc = "swap" => Sequence' >= 1 /\ act[q][u].under <= Sequence'
            /\ act[q][u].pc = "done" /\ act[q][u].ok => Sequence' >= 1
        /\ published[q].sequence <= Sequence'
        /\ published[q].semantics # Nothing =>
            /\ published[q].sequence >= 1
            /\ published[q].semantics = revisions'[published[q].sequence].content
        /\ proc[q].pc = "reload" => Sequence' >= 1
        /\ proc[q].pc \in {"clear", "remove", "bind", "serving"} =>
            published[q].sequence >= 1
    BY <1>3, <1>4, <2>1, GoodStays
  <2>3. ASSUME NEW u \in Threads PROVE GoodCall(act[q][u])'
    <3>1. CASE q = p /\ u = t
      BY <1>2, <1>3, <1>5, <1>6, <3>1 DEF GoodCall
    <3>2. CASE ~(q = p /\ u = t)
      <4>1. act'[q][u] = act[q][u]
        BY <1>6, <3>2
      <4>2. QED
        BY <2>2, <4>1 DEF GoodCall
    <3>3. QED
      BY <3>1, <3>2
  <2>4. GoodSnapshot(published[q])'
    BY <1>4, <2>2 DEF GoodSnapshot
  <2>5. QED
    BY <1>4, <2>2, <2>3, <2>4 DEF Good
<1>9. Sequence' >= 1
  BY <1>2, <1>5
<1>10. QED
  BY <1>3, <1>4, <1>7, <1>8, <1>9 DEF ProcessInv

\* The first activation of an installation begins, and ends with a revision.
LEMMA Bootstraps ==
  ASSUME ProcessInv, NEW p \in Processes, Bootstrap(p) \/ Bootstrapped(p)
  PROVE  ProcessInv' /\ revisions' = revisions
<1> DEFINE s == published[p]
<1>1. Types /\ Good(proc[p], act[p], s) /\ Main \in Threads
  BY StartupAssumption DEF ProcessInv
<1>2. /\ s \in Snapshots /\ published' = [published EXCEPT ![p] = s]
      /\ UNCHANGED <<revisions, ledger, schema, file>>
  BY <1>1 DEF Bootstrap, BeginActivate, Bootstrapped, ReturnActivation, Types
<1> HIDE DEF s
<1>3. CASE Bootstrap(p)
  <2> DEFINE c == [pc |-> "lock", id |-> BootstrapId(p), source |-> proc[p].source,
                   compiled |-> Compile(proc[p].source, proc[p].build)]
  <2>1. proc[p] \in Procs /\ proc[p].pc = "bootstrap"
    BY <1>1, <1>3 DEF Types, Bootstrap, At
  <2>2. proc[p].build \in Builds /\ proc[p].source \in Sources
    BY <2>1 DEF Procs, Late
  <2>3. Compile(proc[p].source, proc[p].build) \in Contents
    BY <1>3, <2>2, Compiles DEF Bootstrap, BeginActivate
  <2>4. BootstrapId(p) \in Ids
    BY <2>2 DEF BootstrapId, Ids
  <2>5. c \in Calls /\ c.pc = "lock"
    BY <2>2, <2>3, <2>4 DEF Calls
  <2>6. SetCall(p, Main, c)
    BY <1>3 DEF Bootstrap, BeginActivate, SetCall
  <2> HIDE DEF c
  <2>7. GoodCall(c)
    BY <2>5 DEF GoodCall
  <2>8. PICK x \in Procs : proc' = [proc EXCEPT ![p] = x] /\ x.pc = "activate"
    <3>1. Goto(p, "activate") /\ proc[p].pc \in Late /\ "activate" \in Late
      BY <1>3, <2>1 DEF Bootstrap, Late
    <3>2. QED
      BY <1>1, <3>1, Gone
  <2>9. Good(x, act[p], s)
    BY <1>1, <2>8 DEF Good
  <2>10. QED
    BY <1>1, <1>2, <2>5, <2>6, <2>7, <2>8, <2>9, CallStepped
<1>4. CASE Bootstrapped(p)
  <2>1. NoCall \in Calls /\ GoodCall(NoCall)
    BY DEF NoCall, Calls, GoodCall
  <2>2. SetCall(p, Main, NoCall) /\ proc[p].pc = "activate"
    BY <1>4 DEF Bootstrapped, ReturnActivation, SetCall, At
  <2>3. Sequence >= 1
    BY <1>1, <1>4 DEF Bootstrapped, InCall, Good, GoodCall
  <2>4. PICK x \in Procs : proc' = [proc EXCEPT ![p] = x] /\ x.pc = "reload"
    <3>1. Goto(p, "reload") /\ proc[p].pc \in Late /\ "reload" \in Late
      BY <1>4, <2>2 DEF Bootstrapped, Late
    <3>2. QED
      BY <1>1, <3>1, Gone
  <2>5. Good(x, act[p], s)
    BY <1>1, <2>3, <2>4 DEF Good
  <2>6. QED
    BY <1>1, <1>2, <2>1, <2>2, <2>4, <2>5, CallStepped
<1>5. QED
  BY <1>3, <1>4

\* A process that ends, for whatever reason.
LEMMA Ends ==
  ASSUME ProcessInv, NEW p \in Processes,
         \/ OpenRefused(p) \/ SchemaRefused(p) \/ MigrationFails(p)
         \/ BootstrapInvalid(p) \/ BootstrapRefused(p) \/ AlreadyServing(p)
         \/ BindRefused(p) \/ Stop(p)
  PROVE  ProcessInv' /\ revisions' = revisions
<1>1. Exit(p)
  BY DEF OpenRefused, SchemaRefused, MigrationFails, BootstrapInvalid,
         BootstrapRefused, AlreadyServing, BindRefused, Stop
<1>2. QED
  BY <1>1, Exited DEF Exit

\* Nothing the processes rely on changes; an edit of the source file is seen by
\* later reads only.
LEMMA Undisturbed ==
  ASSUME ProcessInv, UNCHANGED <<configurationVars, schema, proc>>, file' \in Sources
  PROVE  ProcessInv'
<1>1. Types' /\ Sequence' = Sequence
  BY DEF ProcessInv, Types, Sequence, configurationVars
<1>2. ASSUME NEW q \in Processes PROVE Good(proc[q], act[q], published[q])'
  <2>1. Good(proc[q], act[q], published[q])
    BY DEF ProcessInv
  <2>2. QED
    BY <1>1, <2>1 DEF Good, GoodCall, GoodSnapshot, configurationVars
<1>3. QED
  BY <1>1, <1>2 DEF ProcessInv, configurationVars

\* Every step of the processes keeps ProcessInv, and only adds revisions.
LEMMA Processed ==
  ASSUME ProcessInv, StartupNext
  PROVE  /\ ProcessInv'
         /\ revisions' = revisions \/ \E x \in Revisions : revisions' = Append(revisions, x)
<1> DEFINE Kept == ProcessInv' /\ revisions' = revisions
           Grown == ProcessInv' /\ \E x \in Revisions : revisions' = Append(revisions, x)
<1>1. ASSUME NEW p \in Processes, NEW b \in Builds, Start(p, b) PROVE Kept
  BY <1>1, Opens
<1>2. ASSUME NEW p \in Processes, StartSteps(p) PROVE Kept
  BY <1>2, Opens, Loads, Bootstraps, Ends DEF StartSteps
<1>3. ASSUME NEW p \in Processes, NEW t \in Threads, NEW id \in Requests,
             NEW s \in Sources, OperatorActivates(p, t, id, s)
      PROVE  Kept
  BY <1>3, OperatorBegins
<1>4. ASSUME NEW p \in Processes, NEW t \in Threads, Activate(p, t)
      PROVE  Kept \/ Grown
  BY <1>4, CallGoesOn, Replays, Swaps, Commits DEF Activate, Activating
<1>5. ASSUME NEW p \in Processes, NEW t \in Threads, ActivateReturns(p, t) PROVE Kept
  BY <1>5, CallGoesOn
<1>6. ASSUME EditSource PROVE Kept
  <2>1. file' \in Sources /\ UNCHANGED <<configurationVars, schema, proc>>
    BY <1>6 DEF EditSource
  <2>2. QED
    BY <2>1, Undisturbed DEF configurationVars
<1>7. ASSUME NEW p \in Processes, Stop(p) PROVE Kept
  BY <1>7, Ends
<1>8. Kept \/ Grown
  <2> HIDE DEF Kept, Grown
  <2>1. QED
    BY <1>1, <1>2, <1>3, <1>4, <1>5, <1>6, <1>7 DEF StartupNext
<1>9. QED
  BY <1>8

----------------------------------------------------------------------------
(* Preparation.                                                            *)

\* What was frozen stays frozen while revisions are added.
LEMMA FrozenStays ==
  ASSUME Types, NEW r, Frozen(r), runs'[r] = runs[r],
         revisions' = revisions \/ \E x \in Revisions : revisions' = Append(revisions, x)
  PROVE  Frozen(r)'
<1>1. /\ Sequence \in Nat /\ Sequence' \in Nat /\ Sequence' >= Sequence
      /\ \A i \in 1 .. Sequence : revisions'[i] = revisions[i]
  BY RevisionsGrow DEF Types
<1>2. runs[r].sequence \in 1 .. Sequence
  BY DEF Frozen
<1>3. /\ runs[r].sequence \in 1 .. Sequence'
      /\ revisions'[runs[r].sequence] = revisions[runs[r].sequence]
  BY <1>1, <1>2
<1>4. QED
  BY <1>3 DEF Frozen

\* A process takes a step of its own, and a call ends with its process.
LEMMA ContextKept ==
  ASSUME Types, PrepareInv, UNCHANGED contextVars,
         revisions' = revisions \/ \E x \in Revisions : revisions' = Append(revisions, x),
         NEW S \in SUBSET Processes,
         prep' = [p \in Processes |-> IF p \in S THEN Idle ELSE prep[p]]
  PROVE  PrepareInv'
<1> USE DEF contextVars
<1>1. ASSUME NEW r \in Runs, runs[r] # NoRun PROVE Frozen(r)'
  BY <1>1, FrozenStays DEF PrepareInv
<1>2. ASSUME NEW p \in Processes PROVE GoodPrep(prep[p])'
  <2>1. CASE p \in S
    BY <2>1 DEF GoodPrep, Idle
  <2>2. CASE p \notin S
    <3>1. prep'[p] = prep[p] /\ GoodPrep(prep[p])
      BY <2>2 DEF PrepareInv
    <3>2. QED
      BY <3>1 DEF GoodPrep, Expected, Plan
  <2>3. QED
    BY <2>1, <2>2
<1>3. prep' = [p \in Processes |-> prep'[p]]
  OBVIOUS
<1>4. QED
  BY <1>1, <1>2, <1>3 DEF PrepareInv, Plan

\* A step of a call that writes nothing.
LEMMA PrepStepped ==
  ASSUME PrepareInv, NEW p \in Processes, NEW c, GoodPrep(c),
         prep' = [prep EXCEPT ![p] = c],
         UNCHANGED <<revisions, runs, attached, t3a>>
  PROVE  PrepareInv'
<1>1. \A r \in Runs : runs[r] # NoRun => Frozen(r)'
  BY DEF PrepareInv, Frozen, Sequence
<1>2. ASSUME NEW q \in Processes PROVE GoodPrep(prep[q])'
  <2>1. CASE q = p
    <3>1. prep'[q] = c
      BY <2>1 DEF PrepareInv
    <3>2. QED
      BY <3>1 DEF GoodPrep, Expected, Plan
  <2>2. CASE q # p
    <3>1. prep'[q] = prep[q] /\ GoodPrep(prep[q])
      BY <2>2 DEF PrepareInv
    <3>2. QED
      BY <3>1 DEF GoodPrep, Expected, Plan
  <2>3. QED
    BY <2>1, <2>2
<1>3. prep' = [q \in Processes |-> prep'[q]]
  BY DEF PrepareInv
<1>4. QED
  BY <1>1, <1>2, <1>3 DEF PrepareInv, Plan

\* T3 freezes what the active revision says, because the snapshot it routed
\* under is that revision's.
LEMMA RunCommitted ==
  ASSUME ProcessInv, PrepareInv, NEW p \in Processes, NEW r \in Runs,
         NEW a \in Agents, CommitRun(p, r, a)
  PROVE  PrepareInv'
<1> DEFINE c == published[p].semantics.body
           x == [agent |-> a, sequence |-> Sequence, policy |-> c.policy,
                 guidance |-> c.guidance[a]]
<1>1. /\ runs[r] = NoRun /\ runs' = [runs EXCEPT ![r] = x]
      /\ c.guidance[a] # NoGuidance /\ RunnableUnder(p)
      /\ UNCHANGED <<revisions, attached, t3a, prep>>
  BY DEF CommitRun, processVars, configurationVars
<1>2. /\ Sequence \in Nat /\ Sequence >= 1
      /\ published[p].semantics = revisions[Sequence].content
  <2>1. Types /\ GoodSnapshot(published[p])
    BY DEF ProcessInv, Good
  <2>2. Sequence \in Nat
    BY <2>1 DEF Types, Sequence
  <2>3. QED
    BY <1>1, <2>1, <2>2 DEF RunnableUnder, GoodSnapshot
<1>3. /\ x.sequence = Sequence /\ x.agent = a /\ x.guidance = c.guidance[a]
      /\ c = revisions[Sequence].content.body
  BY <1>2
<1> HIDE DEF x, c
<1>4. /\ runs'[r] = x /\ runs' = [q \in Runs |-> runs'[q]]
      /\ \A q \in Runs \ {r} : runs'[q] = runs[q]
  BY <1>1 DEF PrepareInv
<1>5. ASSUME NEW q \in Runs, runs'[q] # NoRun PROVE Frozen(q)'
  <2>1. CASE q = r
    <3>1. Sequence' = Sequence /\ revisions' = revisions /\ runs'[q] = x
      BY <1>1, <1>4, <2>1 DEF Sequence
    <3>2. /\ x.sequence \in 1 .. Sequence /\ x.guidance # NoGuidance
          /\ x.guidance = revisions[x.sequence].content.body.guidance[x.agent]
      <4>1. x.sequence \in 1 .. Sequence
        BY <1>2, <1>3
      <4>2. x.guidance # NoGuidance
        BY <1>1, <1>3
      <4>3. QED
        BY <1>3, <4>1, <4>2
    <3>3. QED
      BY <3>1, <3>2 DEF Frozen
  <2>2. CASE q # r
    BY <1>1, <1>4, <1>5, <2>2 DEF PrepareInv, Frozen, Sequence
  <2>3. QED
    BY <2>1, <2>2
<1>6. ASSUME NEW q \in Runs, attached'[q] # NoPlan
      PROVE  runs'[q] # NoRun /\ attached'[q] = Plan(q)'
  BY <1>1, <1>4, <1>6 DEF PrepareInv, Plan
<1>7. ASSUME NEW d \in t3a'
      PROVE  /\ d[1] \in Runs /\ runs'[d[1]] # NoRun
             /\ attached'[d[1]] = d[3] /\ d[3] = Plan(d[1])'
  BY <1>1, <1>4, <1>7 DEF PrepareInv, Plan
<1>8. ASSUME NEW q \in Processes PROVE GoodPrep(prep[q])'
  <2>1. GoodPrep(prep[q]) /\ prep'[q] = prep[q] /\ attached' = attached
    BY <1>1 DEF PrepareInv
  <2>2. CASE prep[q].pc = "idle"
    BY <2>1, <2>2 DEF GoodPrep
  <2>3. CASE prep[q].pc # "idle"
    <3>1. prep[q].run \in Runs /\ runs[prep[q].run] # NoRun
      BY <2>1, <2>3 DEF GoodPrep
    <3>2. runs'[prep[q].run] = runs[prep[q].run]
      BY <1>1, <1>4, <3>1
    <3>3. QED
      BY <2>1, <2>3, <3>1, <3>2 DEF GoodPrep, Expected, Plan
  <2>4. QED
    BY <2>2, <2>3
<1>9. QED
  BY <1>1, <1>4, <1>5, <1>6, <1>7, <1>8 DEF PrepareInv

\* The reads of a call: each finds what T3 froze.
LEMMA CallReads ==
  ASSUME PrepareInv, NEW p \in Processes,
         \/ \E r \in Runs : ReadSnapshot(p, r)
         \/ ReadPolicy(p) \/ ReadGuidance(p) \/ CheckAttachment(p)
         \/ AttachReplayed(p) \/ Return(p)
  PROVE  PrepareInv'
<1> DEFINE c == prep[p]
<1>1. GoodPrep(c)
  BY DEF PrepareInv
<1>2. UNCHANGED <<revisions, runs, attached, t3a>>
  BY DEF ReadSnapshot, ReadPolicy, ReadGuidance, CheckAttachment, AttachReplayed,
         Return, Step, processVars, configurationVars
<1>3. SUFFICES \E d : GoodPrep(d) /\ prep' = [prep EXCEPT ![p] = d]
  BY <1>2, PrepStepped
<1>4. ASSUME NEW r \in Runs, ReadSnapshot(p, r)
      PROVE  \E d : GoodPrep(d) /\ prep' = [prep EXCEPT ![p] = d]
  <2> DEFINE d == [pc |-> "policy", run |-> r, snapshot |-> runs[r]]
  <2>1. GoodPrep(d)
    BY <1>4 DEF GoodPrep, ReadSnapshot, Due
  <2>2. QED
    BY <1>4, <2>1 DEF ReadSnapshot, Step
<1>5. CASE ReadPolicy(p)
  <2> DEFINE d == [pc |-> "guidance", run |-> c.run, snapshot |-> c.snapshot,
                   policy |-> c.snapshot.policy]
  <2>1. GoodPrep(d)
    BY <1>1, <1>5 DEF GoodPrep, ReadPolicy
  <2>2. QED
    BY <1>5, <2>1 DEF ReadPolicy, Step, FrozenPolicy
<1>6. CASE ReadGuidance(p)
  <2> DEFINE found == FrozenGuidance(c.snapshot)
             usable == found # NoGuidance /\ Satisfiable(c.policy, Sections(found))
             d == [pc |-> "check", run |-> c.run, snapshot |-> c.snapshot,
                   plan |-> BuildContextPlan(c.snapshot, found)]
  <2>1. /\ c.run \in Runs /\ runs[c.run] # NoRun /\ c.snapshot = runs[c.run]
        /\ c.policy = runs[c.run].policy
    BY <1>1, <1>6 DEF GoodPrep, ReadGuidance
  <2>2. found = runs[c.run].guidance /\ found # NoGuidance
    BY <2>1 DEF PrepareInv, Frozen, FrozenGuidance
  <2>3. usable <=> Expected(c.run) = "prepared"
    BY <2>1, <2>2 DEF Expected
  <2>4. Expected(c.run) \in {"prepared", "failed"}
    BY DEF Expected
  <2>5. prep' = [prep EXCEPT ![p] = IF usable THEN d ELSE Failed(p)]
    BY <1>6 DEF ReadGuidance, Step
  <2>6. CASE usable
    <3>1. /\ d.pc = "check" /\ d.run = c.run
          /\ d = [pc |-> d.pc, run |-> d.run, snapshot |-> runs[d.run],
                  plan |-> Plan(d.run)]
      BY <2>1, <2>2 DEF Plan
    <3> HIDE DEF d, usable, found
    <3>2. GoodPrep(d)
      BY <2>1, <2>3, <2>6, <3>1 DEF GoodPrep
    <3>3. QED
      BY <2>5, <2>6, <3>2
  <2>7. CASE ~usable
    <3> DEFINE e == Failed(p)
    <3>1. e.pc = "failed" /\ e.run = c.run
      BY DEF Failed
    <3> HIDE DEF d, usable, found, e
    <3>2. GoodPrep(e)
      BY <2>1, <2>3, <2>4, <2>7, <3>1 DEF GoodPrep
    <3>3. prep' = [prep EXCEPT ![p] = e]
      BY <2>5, <2>7 DEF e
    <3>4. QED
      BY <3>2, <3>3
  <2>8. QED
    BY <2>6, <2>7
<1>7. ASSUME CheckAttachment(p) \/ AttachReplayed(p)
      PROVE  \E d : GoodPrep(d) /\ prep' = [prep EXCEPT ![p] = d]
  <2>1. /\ c.run \in Runs /\ runs[c.run] # NoRun
        /\ c = [pc |-> c.pc, run |-> c.run, snapshot |-> runs[c.run],
                plan |-> Plan(c.run)]
        /\ c.plan = Plan(c.run) /\ Expected(c.run) = "prepared"
    BY <1>1, <1>7 DEF GoodPrep, CheckAttachment, AttachReplayed
  <2> DEFINE d == [pc |-> "prepared", run |-> c.run, plan |-> c.plan]
             e == [pc |-> "attach", run |-> c.run, snapshot |-> runs[c.run],
                   plan |-> Plan(c.run)]
  <2>2. CASE prep' = [prep EXCEPT ![p] = d] /\ attached[c.run] = c.plan
    <3>1. GoodPrep(d)
      BY <2>1, <2>2 DEF GoodPrep
    <3>2. QED
      BY <2>2, <3>1
  <2>3. CASE prep' = [prep EXCEPT ![p] = e]
    <3>1. GoodPrep(e)
      BY <2>1 DEF GoodPrep
    <3>2. QED
      BY <2>3, <3>1
  <2>4. CASE AttachReplayed(p)
    <3>1. prep' = [prep EXCEPT ![p] = d] /\ <<c.run, c.snapshot, c.plan>> \in t3a
      BY <2>4 DEF AttachReplayed, Step, Prepared, CommandId
    <3>2. attached[c.run] = c.plan
      BY <3>1 DEF PrepareInv
    <3>3. QED
      BY <2>2, <3>1, <3>2
  <2>5. CASE CheckAttachment(p)
    <3>1. [c EXCEPT !.pc = "attach"] = e
      BY <2>1
    <3>2. prep' = [prep EXCEPT ![p] = IF attached[c.run] = c.plan THEN d
                                      ELSE [c EXCEPT !.pc = "attach"]]
      BY <2>5 DEF CheckAttachment, Step, Prepared
    <3> HIDE DEF d, e
    <3>3. QED
      BY <2>2, <2>3, <3>1, <3>2
  <2>6. QED
    BY <1>7, <2>4, <2>5
<1>8. CASE Return(p)
  <2>1. GoodPrep(Idle)
    BY DEF GoodPrep, Idle
  <2>2. QED
    BY <1>8, <2>1 DEF Return, Step
<1>9. QED
  BY <1>4, <1>5, <1>6, <1>7, <1>8

\* T3a: the plan of a Run is the same whoever built it, so an attachment is
\* never refused and never replaces another.
LEMMA Attaches ==
  ASSUME PrepareInv, NEW p \in Processes, AttachRunContextPlan(p)
  PROVE  PrepareInv'
<1> DEFINE r == prep[p].run
           d == [pc |-> "prepared", run |-> r, plan |-> Plan(r)]
<1>1. /\ prep[p].pc = "attach" /\ GoodPrep(prep[p])
  BY DEF PrepareInv, AttachRunContextPlan
<1>2. /\ r \in Runs /\ runs[r] # NoRun /\ prep[p].snapshot = runs[r]
      /\ prep[p].plan = Plan(r) /\ Expected(r) = "prepared"
  <2> DEFINE c == prep[p]
             e == [pc |-> c.pc, run |-> c.run, snapshot |-> runs[c.run],
                   plan |-> Plan(c.run)]
  <2>1. e.snapshot = runs[c.run] /\ e.plan = Plan(c.run)
    OBVIOUS
  <2>2. GoodPrep(c) /\ c.pc = "attach"
    BY <1>1
  <2> HIDE DEF c
  <2>3. /\ c.run \in Runs /\ runs[c.run] # NoRun /\ Expected(c.run) = "prepared"
        /\ c = e
    BY <2>2 DEF GoodPrep
  <2> HIDE DEF e
  <2>4. c.snapshot = runs[c.run] /\ c.plan = Plan(c.run)
    BY <2>1, <2>3
  <2>5. QED
    BY <2>3, <2>4 DEF c
<1>3. AttachAllowed(p)
  BY <1>2 DEF AttachAllowed, PrepareInv
<1>4. /\ attached' = [attached EXCEPT ![r] = Plan(r)]
      /\ t3a' = t3a \cup {<<r, runs[r], Plan(r)>>}
      /\ prep' = [prep EXCEPT ![p] = d]
      /\ UNCHANGED <<revisions, runs>>
  BY <1>2, <1>3 DEF AttachRunContextPlan, CommandId, Prepared, Step,
                    processVars, configurationVars
<1>5. /\ attached'[r] = Plan(r) /\ attached' = [q \in Runs |-> attached'[q]]
      /\ \A q \in Runs \ {r} : attached'[q] = attached[q]
      /\ prep'[p] = d /\ prep' = [q \in Processes |-> prep'[q]]
      /\ \A q \in Processes \ {p} : prep'[q] = prep[q]
  BY <1>2, <1>4 DEF PrepareInv
<1>6. d.pc = "prepared" /\ d.run = r /\ d.plan = Plan(r)
  OBVIOUS
<1> HIDE DEF r, d
<1>7. \A q \in Runs : Plan(q)' = Plan(q) /\ Expected(q)' = Expected(q)
  BY <1>4 DEF Plan, Expected
<1>8. \A q \in Runs : runs'[q] # NoRun => Frozen(q)'
  BY <1>4 DEF PrepareInv, Frozen, Sequence
<1>9. ASSUME NEW q \in Runs, attached'[q] # NoPlan
      PROVE  runs'[q] # NoRun /\ attached'[q] = Plan(q)'
  <2>1. CASE q = r
    BY <1>2, <1>4, <1>5, <1>7, <2>1
  <2>2. CASE q # r
    <3>1. attached'[q] = attached[q] /\ runs' = runs
      BY <1>4, <1>5, <2>2
    <3>2. runs[q] # NoRun /\ attached[q] = Plan(q)
      BY <1>9, <3>1 DEF PrepareInv
    <3>3. QED
      BY <1>7, <3>1, <3>2
  <2>3. QED
    BY <2>1, <2>2
<1>10. ASSUME NEW e \in t3a'
       PROVE  /\ e[1] \in Runs /\ runs'[e[1]] # NoRun
              /\ attached'[e[1]] = e[3] /\ e[3] = Plan(e[1])'
  <2>1. CASE e \in t3a
    BY <1>4, <1>5, <1>7, <2>1 DEF PrepareInv
  <2>2. CASE e = <<r, runs[r], Plan(r)>>
    BY <1>2, <1>4, <1>5, <1>7, <2>2
  <2>3. QED
    BY <1>4, <1>10, <2>1, <2>2
<1>11. ASSUME NEW q \in Processes PROVE GoodPrep(prep[q])'
  <2>1. CASE q = p
    BY <1>2, <1>4, <1>5, <1>6, <1>7, <2>1 DEF GoodPrep
  <2>2. CASE q # p
    <3>1. prep'[q] = prep[q] /\ GoodPrep(prep[q])
      BY <1>5, <2>2 DEF PrepareInv
    <3>2. CASE prep[q].pc = "idle"
      BY <3>1, <3>2 DEF GoodPrep
    <3>3. CASE prep[q].pc # "idle"
      <4>1. /\ prep[q].run \in Runs
            /\ prep[q].pc = "prepared" => attached'[prep[q].run] = prep[q].plan
        BY <1>5, <3>1, <3>3 DEF GoodPrep
      <4>2. QED
        BY <1>4, <1>7, <3>1, <3>3, <4>1 DEF GoodPrep
    <3>4. QED
      BY <3>2, <3>3
  <2>3. QED
    BY <2>1, <2>2
<1>12. QED
  BY <1>4, <1>5, <1>8, <1>9, <1>10, <1>11 DEF PrepareInv

ContextInv == ProcessInv /\ PrepareInv

\* The initial states satisfy the invariant.
LEMMA ContextStarts == Init => ContextInv
<1> SUFFICES ASSUME Init PROVE ContextInv
  OBVIOUS
<1>1. ProcessInv
  BY StartupStarts DEF Init
<1>2. PrepareInv
  BY DEF Init, PrepareInv, GoodPrep, Idle
<1>3. QED
  BY <1>1, <1>2 DEF ContextInv

\* Every step keeps the invariant.
LEMMA ContextSteps == ContextInv /\ [Next]_vars => ContextInv'
<1> SUFFICES ASSUME ProcessInv, PrepareInv, [Next]_vars PROVE ContextInv'
  BY DEF ContextInv
<1> USE DEF ContextInv
<1>0. Types /\ file \in Sources
  BY DEF ProcessInv, Types
<1>1. CASE ProcessStep
  <2> DEFINE S == {p \in Processes : proc'[p].pc = "down"}
  <2>1. /\ ProcessInv'
        /\ revisions' = revisions \/ \E x \in Revisions : revisions' = Append(revisions, x)
    BY <1>1, Processed DEF ProcessStep
  <2>3. prep' = [p \in Processes |-> IF p \in S THEN Idle ELSE prep[p]]
    BY <1>1 DEF ProcessStep
  <2>4. S \in SUBSET Processes /\ UNCHANGED contextVars
    BY <1>1 DEF ProcessStep
  <2> HIDE DEF S
  <2>5. PrepareInv'
    BY <1>0, <2>1, <2>3, <2>4, ContextKept
  <2>6. QED
    BY <2>1, <2>5
<1>2. ASSUME NEW p \in Processes, NEW r \in Runs, NEW a \in Agents, CommitRun(p, r, a)
      PROVE  ContextInv'
  BY <1>0, <1>2, RunCommitted, Undisturbed DEF CommitRun, processVars, startupVars
<1>3. ASSUME NEW p \in Processes, Prepare(p) PROVE ContextInv'
  <2>1. UNCHANGED processVars
    BY <1>3 DEF Prepare, ReadSnapshot, ReadPolicy, ReadGuidance, CheckAttachment,
                AttachReplayed, AttachRunContextPlan, Return, Step
  <2>2. ProcessInv'
    BY <1>0, <2>1, Undisturbed DEF processVars, startupVars
  <2>3. PrepareInv'
    BY <1>3, CallReads, Attaches DEF Prepare
  <2>4. QED
    BY <2>2, <2>3
<1>4. ASSUME NEW p \in Processes, CallLost(p) PROVE ContextInv'
  <2>1. GoodPrep(Idle)
    BY DEF GoodPrep, Idle
  <2>2. QED
    BY <1>0, <1>4, <2>1, PrepStepped, Undisturbed
       DEF CallLost, contextVars, configurationVars
<1>5. CASE UNCHANGED vars
  <2>1. ProcessInv'
    BY <1>0, <1>5, Undisturbed DEF vars, processVars, startupVars
  <2>2. PrepareInv'
    <3> DEFINE S == {}
    <3>1. /\ prep' = [p \in Processes |-> IF p \in S THEN Idle ELSE prep[p]]
          /\ S \in SUBSET Processes
      BY <1>5 DEF vars, PrepareInv
    <3>2. revisions' = revisions /\ UNCHANGED contextVars
      BY <1>5 DEF vars, processVars, configurationVars
    <3> HIDE DEF S
    <3>3. QED
      BY <1>0, <3>1, <3>2, ContextKept
  <2>3. QED
    BY <2>1, <2>2
<1>6. QED
  BY <1>1, <1>2, <1>3, <1>4, <1>5 DEF Next

\* What processes and calls rely on is true in every reachable state.
THEOREM ContextInvariant == Spec => []ContextInv
BY ContextStarts, ContextSteps, PTL DEF Spec

----------------------------------------------------------------------------

\* A snapshot carries the semantics of its own revision, and no process serves
\* without one, also when processes overlap.
THEOREM SnapshotsArePaired == Spec => []SnapshotPaired
<1>1. ContextInv => SnapshotPaired
  <2> SUFFICES ASSUME ProcessInv, NEW p \in Processes
               PROVE  /\ published[p].semantics # Nothing =>
                            published[p].semantics =
                                revisions[published[p].sequence].content
                      /\ Published(p) => published[p].sequence \in 1 .. Sequence
    BY DEF ContextInv, SnapshotPaired
  <2>1. /\ GoodSnapshot(published[p])
        /\ Published(p) => published[p].sequence >= 1
    BY DEF ProcessInv, Good, Published
  <2>2. published[p].sequence \in Nat /\ Sequence \in Nat
    BY DEF ProcessInv, Types, Sequence, Snapshots
  <2>3. QED
    BY <2>1, <2>2 DEF GoodSnapshot
<1>2. QED
  BY <1>1, ContextInvariant, PTL

\* Every preparation of a Run comes to the outcome that what T3 froze decides.
THEOREM PreparationsAgree == Spec => []OutcomesAgree
<1>1. ContextInv => OutcomesAgree
  BY DEF ContextInv, PrepareInv, OutcomesAgree, GoodPrep
<1>2. QED
  BY <1>1, ContextInvariant, PTL

\* An attached plan is built from its own Run's snapshot with the guidance
\* frozen in it, and a caller that was told so holds it.
THEOREM PlansAreFrozen == Spec => []PlanFromFrozen
<1>1. ContextInv => PlanFromFrozen
  BY DEF ContextInv, PrepareInv, PlanFromFrozen, GoodPrep, Plan
<1>2. QED
  BY <1>1, ContextInvariant, PTL

=============================================================================
