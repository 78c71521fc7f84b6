-------------------------- MODULE ContextPreparation --------------------------
(***************************************************************************)
(* prepare_run_context (pantheon-engine/src/context.rs): reconstruct what  *)
(* T3 froze for a Run, build its ContextPlan (pantheon-core/src/context.rs)*)
(* and attach it once, with T3a (pantheon-store/src/context.rs).           *)
(*                                                                         *)
(* The controllers run in the processes of Startup: each process commits   *)
(* Runs under the configuration it has published and prepares them, step   *)
(* by step, while configurations are activated, the process dies and is    *)
(* started again over a source that has drifted, or another process does   *)
(* the same.  What a configuration means is what preparation uses of it:   *)
(* the guidance of each Agent (or none) and the sections its context       *)
(* policy demands.  Digests are the values themselves; rows are immutable  *)
(* once written.  All builds have the same builder version.                *)
(***************************************************************************)
EXTENDS Startup, TLC

CONSTANTS
    Runs,               \* Run ids
    Agents,             \* Logical Agent versions
    NoGuidance,         \* the revision does not declare the Agent
    Inputs              \* the Task's input references, by their names

VARIABLES
    runs,       \* Run id -> the source snapshot frozen by T3, or NoRun
    plans,      \* the context_plans rows
    attached,   \* Run id -> the attached plan, or NoPlan
    t3a,        \* T3a commands committed
    prep        \* process -> where its call of prepare_run_context is

contextVars == <<runs, plans, attached, t3a>>
vars == <<processVars, contextVars, prep>>

NoRun == [agent |-> NoGuidance]
NoPlan == [snapshot |-> NoRun]
Idle == [pc |-> "idle"]

----------------------------------------------------------------------------
(* The plan.                                                               *)

Section(kind, inclusion, stratum, rank, body) ==
    [kind |-> kind, inclusion |-> inclusion, stratum |-> stratum,
     rank |-> rank, body |-> body]

\* The sections of build_context_plan: strata and kinds by their ranks.
Sections(guidance) ==
    <<Section("task-contract", 0, 1, 0, "objective"),
      Section("goal-contract", 0, 1, 1, "goal"),
      Section("agent-soul", 0, 2, 2, guidance),
      Section("agent-behavior", 0, 2, 3, guidance),
      Section("workspace-orientation", 1, 4, 4, "base")>> \o
    [i \in DOMAIN Inputs |-> Section("reference-input", 2, 4, 5, Inputs[i])]

\* Every section the frozen policy demands can be produced.
Satisfiable(policy, sections) == policy \subseteq {sections[i].kind : i \in DOMAIN sections}

\* order_key: inclusion class, authority stratum, kind.  Nothing is dropped:
\* no capacity is measured before a backend renders the plan.
InOrder(s, t) ==
    \/ s.inclusion < t.inclusion
    \/ s.inclusion = t.inclusion /\ s.stratum < t.stratum
    \/ s.inclusion = t.inclusion /\ s.stratum = t.stratum /\ s.rank < t.rank

BuildContextPlan(snapshot, guidance) ==
    [snapshot |-> snapshot, sections |-> SortSeq(Sections(guidance), InOrder)]

----------------------------------------------------------------------------
(* T3.                                                                     *)

Init ==
    /\ StartupInit
    /\ runs = [r \in Runs |-> NoRun]
    /\ plans = {}
    /\ attached = [r \in Runs |-> NoPlan]
    /\ t3a = {}
    /\ prep = [p \in Processes |-> Idle]

\* A Run is routed under the semantics the process has published, and T3 holds
\* it to the revision that is active.
RunnableUnder(p) ==
    /\ published[p].semantics # Nothing
    /\ published[p].sequence = Sequence

\* The Run freezes the active revision, its policy and the guidance of the
\* selected Agent, which T3 has found in it.
CommitRun(p, r, a) ==
    /\ Published(p) /\ SnapshotReadable(p)
    /\ runs[r] = NoRun
    /\ RunnableUnder(p)
    /\ LET c == published[p].semantics.body IN
       /\ c.guidance[a] # NoGuidance
       /\ runs' = [runs EXCEPT ![r] = [agent |-> a, sequence |-> Sequence,
                                       policy |-> c.policy,
                                       guidance |-> c.guidance[a]]]
    /\ UNCHANGED <<processVars, plans, attached, t3a, prep>>

----------------------------------------------------------------------------
(* prepare_run_context, by the controller thread of a process.             *)

Step(p, record) ==
    /\ Published(p)
    /\ prep' = [prep EXCEPT ![p] = record]
    /\ UNCHANGED <<processVars, runs>>

Failed(p) == [pc |-> "failed", run |-> prep[p].run]

Due_Published(p, r) ==
    runs[r] # NoRun /\ published[p].sequence = runs[r].sequence

\* A Run is prepared whatever the process has published by now.
Due(p, r) == runs[r] # NoRun

\* The Run, and its snapshot decoded and checked against its digest.
ReadSnapshot(p, r) ==
    /\ prep[p].pc = "idle"
    /\ Due(p, r)
    /\ Step(p, [pc |-> "policy", run |-> r, snapshot |-> runs[r]])
    /\ UNCHANGED <<plans, attached, t3a>>

\* The frozen policy, by its digest.
FrozenPolicy_Active(snapshot) == Active.content.body.policy

FrozenPolicy(snapshot) == snapshot.policy

ReadPolicy(p) ==
    /\ prep[p].pc = "policy"
    /\ Step(p, [pc |-> "guidance", run |-> prep[p].run,
                snapshot |-> prep[p].snapshot,
                policy |-> FrozenPolicy(prep[p].snapshot)])
    /\ UNCHANGED <<plans, attached, t3a>>

\* The guidance of the frozen revision, which must be the guidance T3 froze;
\* the Task's spec, the Goal's revision and the Workspace's base are checked
\* against the snapshot in the same way, and none of them ever changes.
FrozenGuidance_Latest(snapshot) ==
    IF Active.content.body.guidance[snapshot.agent] # NoGuidance
    THEN Active.content.body.guidance[snapshot.agent]
    ELSE snapshot.guidance

FrozenGuidance(snapshot) ==
    LET found == revisions[snapshot.sequence].content.body.guidance[snapshot.agent]
    IN  IF found = snapshot.guidance THEN found ELSE NoGuidance

ReadGuidance(p) ==
    /\ prep[p].pc = "guidance"
    /\ LET found == FrozenGuidance(prep[p].snapshot)
           usable == found # NoGuidance /\
                     Satisfiable(prep[p].policy, Sections(found))
       IN  Step(p, IF usable
                   THEN [pc |-> "check", run |-> prep[p].run,
                         snapshot |-> prep[p].snapshot,
                         plan |-> BuildContextPlan(prep[p].snapshot, found)]
                   ELSE Failed(p))
    /\ UNCHANGED <<plans, attached, t3a>>

Prepared(p) == [pc |-> "prepared", run |-> prep[p].run, plan |-> prep[p].plan]

\* An identical attachment leaves nothing to do.
CheckAttachment(p) ==
    /\ prep[p].pc = "check"
    /\ Step(p, IF attached[prep[p].run] = prep[p].plan
               THEN Prepared(p)
               ELSE [prep[p] EXCEPT !.pc = "attach"])
    /\ UNCHANGED <<plans, attached, t3a>>

\* T3a.  The command is named by the Run, the snapshot and the plan.
CommandId(p) == <<prep[p].run, prep[p].snapshot, prep[p].plan>>

AttachReplayed(p) ==
    /\ prep[p].pc = "attach"
    /\ CommandId(p) \in t3a
    /\ Step(p, Prepared(p))
    /\ UNCHANGED <<plans, attached, t3a>>

\* The claimed snapshot is the Run's, and no other plan is attached.
AttachAllowed(p) ==
    /\ prep[p].snapshot = runs[prep[p].run]
    /\ attached[prep[p].run] \in {NoPlan, prep[p].plan}

\* The plan row and the attachment, or ContextSourceMismatch or
\* RunContextPlanConflict and nothing.
AttachRunContextPlan(p) ==
    /\ prep[p].pc = "attach"
    /\ CommandId(p) \notin t3a
    /\ IF AttachAllowed(p)
       THEN /\ plans' = plans \cup {prep[p].plan}
            /\ attached' = [attached EXCEPT ![prep[p].run] = prep[p].plan]
            /\ t3a' = t3a \cup {CommandId(p)}
            /\ Step(p, Prepared(p))
       ELSE /\ Step(p, [pc |-> "refused", run |-> prep[p].run])
            /\ UNCHANGED <<plans, attached, t3a>>

\* The caller has the answer and may call again.
Return(p) ==
    /\ prep[p].pc \in {"prepared", "failed", "refused"}
    /\ Step(p, Idle)
    /\ UNCHANGED <<plans, attached, t3a>>

\* A store read fails: the next tick calls again.
CallLost(p) ==
    /\ Published(p)
    /\ prep[p].pc # "idle"
    /\ Fault
    /\ prep' = [prep EXCEPT ![p] = Idle]
    /\ UNCHANGED <<configurationVars, schema, claims, proc, file, socket, shared,
                   contextVars>>

Prepare(p) ==
    \/ \E r \in Runs : ReadSnapshot(p, r)
    \/ ReadPolicy(p) \/ ReadGuidance(p) \/ CheckAttachment(p)
    \/ AttachReplayed(p) \/ AttachRunContextPlan(p)
    \/ Return(p)

\* The processes; a call ends with its process.
ProcessStep ==
    /\ StartupNext
    /\ prep' = [p \in Processes |-> IF proc'[p].pc = "down" THEN Idle ELSE prep[p]]
    /\ UNCHANGED contextVars

Next ==
    \/ ProcessStep
    \/ \E p \in Processes :
        \/ \E r \in Runs, a \in Agents : CommitRun(p, r, a)
        \/ Prepare(p) \/ CallLost(p)

Spec == Init /\ [][Next]_vars

\* The controller's tick calls again for a Run that is not prepared yet.
FairSpec ==
    Spec /\ StartupFairness /\ \A p \in Processes : WF_vars(Prepare(p))

----------------------------------------------------------------------------
(* Properties.                                                             *)

\* What preparing the Run must come to, by what T3 froze and nothing else.
Expected(r) ==
    IF Satisfiable(runs[r].policy, Sections(runs[r].guidance))
    THEN "prepared"
    ELSE "failed"

\* "either produces byte-for-byte reproducible semantic content or fails
\* closed": every preparation of a Run, before or after an activation, a
\* crash or another caller's attachment, comes to the same outcome.
OutcomesAgree ==
    \A p \in Processes :
        prep[p].pc \in {"prepared", "failed", "refused"} =>
            prep[p].pc = Expected(prep[p].run)

\* "never the active ConfigurationRevision": an attached plan is the one built
\* from its own Run's snapshot with the guidance that was frozen in it, and a
\* caller told that its Run is prepared holds the attached plan.
PlanFromFrozen ==
    /\ \A r \in Runs :
        attached[r] # NoPlan =>
            attached[r] = BuildContextPlan(runs[r], runs[r].guidance)
    /\ \A p \in Processes :
        prep[p].pc = "prepared" => attached[prep[p].run] = prep[p].plan

\* A Run T3 has committed gets its plan whatever is activated, edited or killed
\* meanwhile, also where the process that serves has recovered no semantics.
PreparedEventually ==
    \A r \in Runs :
        (runs[r] # NoRun /\ Expected(r) = "prepared") ~> attached[r] # NoPlan

============================================================================
