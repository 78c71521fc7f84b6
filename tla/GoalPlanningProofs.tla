------------------------- MODULE GoalPlanningProofs -------------------------
(***************************************************************************)
(* Planning is safe for any Goals, callers and activations.  The argument  *)
(* is that the activation sequence only grows: a materialization admitted  *)
(* because the sequence is the frozen one has read nothing newer.          *)
(***************************************************************************)
EXTENDS GoalPlanning, TLAPS

CallSteps ==
    {"idle", "create", "plan", "record", "readPointer", "readRegistry", "materialize"}
CallType ==
    [step : CallSteps, goal : Goals \cup {NoGoal}, graph : 0 .. 1,
     config : 0 .. MaxConfig, registry : 0 .. MaxConfig]
OpType ==
    [state : {"none", "Planned", "Materialized"}, graph : {0}, config : 0 .. MaxConfig]
TaskType ==
    [phase : {"none", "Ready", "Finalizing"}, config : 0 .. MaxConfig,
     registry : 0 .. MaxConfig]

\* A row exists exactly when the command that makes it is in the ledger.
LedgerInv ==
    \A g \in Goals :
        /\ (goal[g] # "none") <=> (<<g, "create">> \in ledger)
        /\ (op[g].state # "none") <=> (<<g, "plan">> \in ledger)

\* What a caller has read is in the order it read it, and nothing of it is
\* newer than the state.
CallOK(k) ==
    /\ k.step # "idle" => k.goal \in Goals
    /\ k.step = "record" => k.graph <= graph[k.goal] /\ k.config <= config
    /\ k.step \in {"readPointer", "readRegistry", "materialize"} =>
            op[k.goal].state # "none"
    /\ k.step \in {"readRegistry", "materialize"} =>
            op[k.goal].config <= k.config /\ k.config <= config
    /\ k.step = "materialize" => k.config <= k.registry /\ k.registry <= config

CallInv == \A c \in Callers : CallOK(call[c])

FrozenInv == \A g \in Goals : op[g].config <= config

PlanInv ==
    /\ TypeOK /\ LedgerInv /\ CallInv /\ FrozenInv
    /\ SpentOnce /\ OneConfiguration /\ ActiveHasTask

----------------------------------------------------------------------------
\* The type invariant, with its record sets by name.
LEMMA Types ==
    TypeOK <=> /\ config \in 1 .. MaxConfig
               /\ goal \in [Goals -> {"none", "Planning", "Active", "Finalizing"}]
               /\ graph \in [Goals -> 0 .. 1]
               /\ op \in [Goals -> OpType]
               /\ task \in [Goals -> TaskType]
               /\ ledger \subseteq Goals \X {"create", "plan", "materialize"}
               /\ call \in [Callers -> CallType]
               /\ faults \in 0 .. MaxFaults
  BY DEF TypeOK, OpType, TaskType, CallType, CallSteps

\* The idle call.
LEMMA IdleCall == Idle \in CallType /\ Idle.step = "idle"
  BY PlanningAssumption DEF Idle, CallType, CallSteps

\* Nothing exists before the first command.
LEMMA PlanInit == Init => PlanInv
<1> SUFFICES ASSUME Init PROVE PlanInv
  OBVIOUS
<1>1. TypeOK
  <2>1. [state |-> "none", graph |-> 0, config |-> 0] \in OpType
    BY PlanningAssumption DEF OpType
  <2>2. [phase |-> "none", config |-> 0, registry |-> 0] \in TaskType
    BY PlanningAssumption DEF TaskType
  <2> QED
    BY <2>1, <2>2, Types, IdleCall, PlanningAssumption DEF Init
<1>2. CallInv
  BY IdleCall DEF Init, CallInv, CallOK
<1> QED
  BY <1>1, <1>2 DEF Init, PlanInv, LedgerInv, FrozenInv, SpentOnce, OneConfiguration, ActiveHasTask

\* A caller moves and the rows stay.
LEMMA CallerMoves ==
    ASSUME PlanInv, NEW c \in Callers, NEW k \in CallType, CallOK(k),
           call' = [call EXCEPT ![c] = k],
           UNCHANGED <<config, rows>>, faults' \in 0 .. MaxFaults
    PROVE  PlanInv'
<1>1. UNCHANGED <<config, goal, graph, op, task, ledger>>
  BY DEF rows
<1>2. call \in [Callers -> CallType]
  BY Types DEF PlanInv
<1>3. call' \in [Callers -> CallType]
  BY <1>2
<1>4. TypeOK'
  BY <1>1, <1>3, Types DEF PlanInv, TypeOK, CallType, CallSteps
<1>5. CallInv'
  <2> SUFFICES ASSUME NEW d \in Callers PROVE CallOK(call[d])'
    BY DEF CallInv
  <2>1. CASE d = c
    <3>1. call'[d] = k
      BY <2>1, <1>2
    <3> QED
      BY <3>1, <1>1 DEF CallOK
  <2>2. CASE d # c
    <3>1. call'[d] = call[d]
      BY <2>2, <1>2
    <3>2. CallOK(call[d])
      BY DEF PlanInv, CallInv
    <3> QED
      BY <3>1, <3>2, <1>1 DEF CallOK
  <2> QED
    BY <2>1, <2>2
<1> QED
  BY <1>1, <1>4, <1>5
     DEF PlanInv, LedgerInv, FrozenInv, SpentOnce, OneConfiguration, ActiveHasTask

\* The rows and the sequence only move forward.
Forward ==
    /\ config <= config'
    /\ \A g \in Goals :
        /\ graph[g] <= graph'[g]
        /\ op[g].state # "none" => op'[g].state # "none" /\ op'[g].config = op[g].config

\* What a caller knows stays true when they do.
LEMMA KnowledgeKept ==
    ASSUME PlanInv, TypeOK', Forward, NEW k \in CallType, CallOK(k)
    PROVE  CallOK(k)'
<1>1. /\ config \in Nat /\ config' \in Nat
      /\ k.graph \in Nat /\ k.config \in Nat /\ k.registry \in Nat
  BY PlanningAssumption DEF PlanInv, TypeOK, CallType
<1>2. ASSUME NEW g \in Goals
      PROVE  graph[g] \in Nat /\ graph'[g] \in Nat /\ op[g].config \in Nat
  BY <1>2, PlanningAssumption DEF PlanInv, TypeOK
<1>3. k.step # "idle" => k.goal \in Goals
  BY DEF CallOK
<1>4. k.step = "record" => k.graph <= graph'[k.goal] /\ k.config <= config'
  BY <1>1, <1>2, <1>3 DEF CallOK, Forward
<1>5. k.step \in {"readPointer", "readRegistry", "materialize"} => op'[k.goal].state # "none"
  BY <1>3 DEF CallOK, Forward
<1>6. k.step \in {"readRegistry", "materialize"} =>
        op'[k.goal].config <= k.config /\ k.config <= config'
  BY <1>1, <1>2, <1>3 DEF CallOK, Forward
<1>7. k.step = "materialize" => k.config <= k.registry /\ k.registry <= config'
  BY <1>1 DEF CallOK, Forward
<1> QED
  BY <1>3, <1>4, <1>5, <1>6, <1>7 DEF CallOK

\* The same for all callers but the one that moves.
LEMMA OthersKept ==
    ASSUME PlanInv, TypeOK', Forward, NEW c \in Callers,
           \A d \in Callers \ {c} : call'[d] = call[d],
           CallOK(call[c])'
    PROVE  CallInv'
<1> SUFFICES ASSUME NEW d \in Callers PROVE CallOK(call[d])'
  BY DEF CallInv
<1>1. CASE d = c
  BY <1>1
<1>2. CASE d # c
  <2> DEFINE k == call[d]
  <2>1. k \in CallType /\ CallOK(k)
    BY Types DEF PlanInv, CallInv
  <2>2. \A x \in CallType : CallOK(x) => CallOK(x)'
    BY KnowledgeKept
  <2>3. call'[d] = call[d]
    BY <1>2
  <2> QED
    BY <2>1, <2>2, <2>3 DEF CallOK
<1> QED
  BY <1>1, <1>2

----------------------------------------------------------------------------
\* Store::create_goal.
LEMMA CreateKeeps == ASSUME PlanInv, NEW c \in Callers, CreateGoal(c) PROVE PlanInv'
<1> DEFINE g == call[c].goal
           k == [call[c] EXCEPT !.step = "plan"]
<1>1. /\ call[c] \in CallType /\ call \in [Callers -> CallType]
      /\ goal \in [Goals -> {"none", "Planning", "Active", "Finalizing"}]
      /\ ledger \subseteq Goals \X {"create", "plan", "materialize"}
  BY Types DEF PlanInv
<1>2. g \in Goals /\ <<g, "create">> \notin ledger
  BY DEF PlanInv, CallInv, CallOK, CreateGoal, At, New, Of
<1>3. k \in CallType /\ k.step = "plan" /\ k.goal = g
  BY <1>1 DEF CallType, CallSteps
<1>4. /\ goal' = [goal EXCEPT ![g] = "Planning"]
      /\ ledger' = ledger \cup {<<g, "create">>}
      /\ call' = [call EXCEPT ![c] = k]
      /\ UNCHANGED <<config, graph, op, task, faults>>
  BY <1>1 DEF CreateGoal, Record, Goto, Of
<1> HIDE DEF k, g
<1>5. TypeOK'
  <2>1. call' \in [Callers -> CallType] /\ goal' \in [Goals -> {"none", "Planning", "Active", "Finalizing"}]
    BY <1>1, <1>2, <1>3, <1>4
  <2>2. ledger' \subseteq Goals \X {"create", "plan", "materialize"}
    BY <1>1, <1>2, <1>4
  <2> QED
    BY <2>1, <2>2, <1>4 DEF PlanInv, TypeOK, CallType, CallSteps
<1>6. Forward
  BY <1>4, PlanningAssumption DEF Forward, PlanInv, TypeOK
<1>7. CallInv'
  <2>1. \A d \in Callers \ {c} : call'[d] = call[d]
    BY <1>1, <1>4
  <2>2. call'[c] = k
    BY <1>1, <1>4
  <2>3. CallOK(call[c])'
    BY <2>2, <1>2, <1>3 DEF CallOK
  <2> QED
    BY <2>1, <2>3, <1>5, <1>6, OthersKept
<1>8. LedgerInv'
  <2> SUFFICES ASSUME NEW h \in Goals
               PROVE  /\ (goal'[h] # "none") <=> (<<h, "create">> \in ledger')
                      /\ (op'[h].state # "none") <=> (<<h, "plan">> \in ledger')
    BY DEF LedgerInv
  <2>1. goal'[h] = IF h = g THEN "Planning" ELSE goal[h]
    BY <1>1, <1>4
  <2>2. /\ (goal[h] # "none") <=> (<<h, "create">> \in ledger)
        /\ (op[h].state # "none") <=> (<<h, "plan">> \in ledger)
    BY DEF PlanInv, LedgerInv
  <2> QED
    BY <2>1, <2>2, <1>4
<1>9. ActiveHasTask'
  <2>1. \A h \in Goals : goal'[h] = "Active" => goal[h] = "Active"
    BY <1>1, <1>4
  <2> QED
    BY <2>1, <1>4 DEF PlanInv, ActiveHasTask
<1> QED
  BY <1>4, <1>5, <1>7, <1>8, <1>9 DEF PlanInv, FrozenInv, SpentOnce, OneConfiguration

\* Store::record_direct_planning.
LEMMA RecordKeeps == ASSUME PlanInv, NEW c \in Callers, RecordPlan(c) PROVE PlanInv'
<1> DEFINE g == call[c].goal
           k == [call[c] EXCEPT !.step = "readPointer"]
           new == [state |-> "Planned", graph |-> call[c].graph, config |-> call[c].config]
<1>1. /\ call[c] \in CallType /\ call \in [Callers -> CallType]
      /\ op \in [Goals -> OpType] /\ config \in 1 .. MaxConfig
      /\ ledger \subseteq Goals \X {"create", "plan", "materialize"}
  BY Types DEF PlanInv
<1>2. /\ g \in Goals /\ <<g, "plan">> \notin ledger
      /\ call[c].graph <= graph[g] /\ call[c].config <= config
  BY DEF PlanInv, CallInv, CallOK, RecordPlan, At, New, Of
<1>3. op[g].state = "none"
  BY <1>2 DEF PlanInv, LedgerInv
<1>4. graph[g] = 0 /\ task[g].phase = "none"
  BY <1>2, <1>3 DEF PlanInv, SpentOnce, TypeOK
<1>5. call[c].graph = 0
  BY <1>1, <1>2, <1>4 DEF CallType
<1>6. new \in OpType /\ new.state = "Planned" /\ new.config <= config
  BY <1>1, <1>2, <1>5 DEF OpType, CallType
<1>7. k \in CallType /\ k.step = "readPointer" /\ k.goal = g
  BY <1>1 DEF CallType, CallSteps
<1>8. /\ op' = [op EXCEPT ![g] = new]
      /\ ledger' = ledger \cup {<<g, "plan">>}
      /\ call' = [call EXCEPT ![c] = k]
      /\ UNCHANGED <<config, goal, graph, task, faults>>
  BY <1>1 DEF RecordPlan, Record, Goto, Of
<1> HIDE DEF k, g, new
<1>9. \A h \in Goals : op'[h] = IF h = g THEN new ELSE op[h]
  BY <1>1, <1>8
<1>10. TypeOK'
  <2>1. call' \in [Callers -> CallType] /\ op' \in [Goals -> OpType]
    BY <1>1, <1>6, <1>7, <1>8
  <2>2. ledger' \subseteq Goals \X {"create", "plan", "materialize"}
    BY <1>1, <1>2, <1>8
  <2> QED
    BY <2>1, <2>2, <1>8 DEF PlanInv, TypeOK, CallType, CallSteps, OpType
<1>11. Forward
  BY <1>3, <1>8, <1>9, PlanningAssumption DEF Forward, PlanInv, TypeOK
<1>12. CallInv'
  <2>1. \A d \in Callers \ {c} : call'[d] = call[d]
    BY <1>1, <1>8
  <2>2. call'[c] = k
    BY <1>1, <1>8
  <2>3. CallOK(call[c])'
    BY <2>2, <1>2, <1>6, <1>7, <1>9 DEF CallOK
  <2> QED
    BY <2>1, <2>3, <1>10, <1>11, OthersKept
<1>13. LedgerInv'
  <2> SUFFICES ASSUME NEW h \in Goals
               PROVE  /\ (goal'[h] # "none") <=> (<<h, "create">> \in ledger')
                      /\ (op'[h].state # "none") <=> (<<h, "plan">> \in ledger')
    BY DEF LedgerInv
  <2>1. /\ (goal[h] # "none") <=> (<<h, "create">> \in ledger)
        /\ (op[h].state # "none") <=> (<<h, "plan">> \in ledger)
    BY DEF PlanInv, LedgerInv
  <2> QED
    BY <2>1, <1>6, <1>8, <1>9
<1>14. FrozenInv' /\ SpentOnce' /\ OneConfiguration' /\ ActiveHasTask'
  BY <1>3, <1>4, <1>6, <1>8, <1>9
     DEF PlanInv, FrozenInv, SpentOnce, OneConfiguration, ActiveHasTask
<1> QED
  BY <1>10, <1>12, <1>13, <1>14 DEF PlanInv

\* Store::materialize: the sequence is the frozen one, so what the caller read
\* in between is that one too.
LEMMA MaterializeKeeps == ASSUME PlanInv, NEW c \in Callers, Materialize(c) PROVE PlanInv'
<1> DEFINE g == call[c].goal
           new == [phase |-> "Ready", config |-> call[c].config, registry |-> call[c].registry]
           spent == [op[g] EXCEPT !.state = "Materialized"]
<1>1. /\ call[c] \in CallType /\ call \in [Callers -> CallType]
      /\ op \in [Goals -> OpType] /\ task \in [Goals -> TaskType]
      /\ goal \in [Goals -> {"none", "Planning", "Active", "Finalizing"}]
      /\ graph \in [Goals -> 0 .. 1] /\ config \in 1 .. MaxConfig
      /\ ledger \subseteq Goals \X {"create", "plan", "materialize"}
  BY Types DEF PlanInv
<1>2. /\ g \in Goals
      /\ op[g].config <= call[c].config /\ call[c].config <= call[c].registry
      /\ call[c].registry <= config
  BY DEF PlanInv, CallInv, CallOK, Materialize, At
<1>3. op[g].state = "Planned" /\ config = op[g].config
  BY DEF Materialize, Current, Of
<1>4. call[c].config = op[g].config /\ call[c].registry = op[g].config
  <2>1. call[c].config \in Nat /\ call[c].registry \in Nat /\ config \in Nat
    BY <1>1, PlanningAssumption DEF CallType
  <2> HIDE DEF g
  <2> QED
    BY <2>1, <1>2, <1>3
<1>5. graph[g] = 0 /\ task[g].phase = "none"
  BY <1>1, <1>2, <1>3 DEF PlanInv, SpentOnce
<1>6. new \in TaskType /\ new.phase = "Ready" /\ new.config = op[g].config /\ new.registry = op[g].config
  BY <1>1, <1>4 DEF TaskType, CallType
<1>7. spent \in OpType /\ spent.state = "Materialized" /\ spent.config = op[g].config
  BY <1>1, <1>2 DEF OpType
<1>8. /\ task' = [task EXCEPT ![g] = new]
      /\ graph' = [graph EXCEPT ![g] = graph[g] + 1]
      /\ goal' = [goal EXCEPT ![g] = IF goal[g] = "Planning" THEN "Active" ELSE goal[g]]
      /\ op' = [op EXCEPT ![g] = spent]
      /\ ledger' = ledger \cup {<<g, "materialize">>}
      /\ call' = [call EXCEPT ![c] = Idle]
      /\ UNCHANGED <<config, faults>>
  BY <1>1, <1>2 DEF Materialize, Record, Return, Of, InitialPhase, GoalAfter, OpAfter
<1> HIDE DEF g, new, spent
<1>9. /\ \A h \in Goals : op'[h] = IF h = g THEN spent ELSE op[h]
      /\ \A h \in Goals : task'[h] = IF h = g THEN new ELSE task[h]
      /\ \A h \in Goals : graph'[h] = IF h = g THEN 1 ELSE graph[h]
      /\ \A h \in Goals : goal'[h] = IF h = g /\ goal[g] = "Planning" THEN "Active" ELSE goal[h]
  BY <1>1, <1>5, <1>8
<1>10. TypeOK'
  <2>1. call' \in [Callers -> CallType] /\ op' \in [Goals -> OpType] /\ task' \in [Goals -> TaskType]
    BY <1>1, <1>6, <1>7, <1>8, IdleCall
  <2>2. ledger' \subseteq Goals \X {"create", "plan", "materialize"}
    BY <1>1, <1>2, <1>8
  <2>3. goal' \in [Goals -> {"none", "Planning", "Active", "Finalizing"}]
    BY <1>1, <1>2, <1>8
  <2>4. graph' \in [Goals -> 0 .. 1]
    BY <1>1, <1>2, <1>5, <1>8
  <2> QED
    BY <2>1, <2>2, <2>3, <2>4, <1>8 DEF PlanInv, TypeOK, CallType, CallSteps, OpType, TaskType
<1>11. Forward
  BY <1>1, <1>5, <1>7, <1>8, <1>9, PlanningAssumption DEF Forward
<1>12. CallInv'
  <2>1. \A d \in Callers \ {c} : call'[d] = call[d]
    BY <1>1, <1>8
  <2>2. call'[c] = Idle
    BY <1>1, <1>8
  <2>3. CallOK(call[c])'
    BY <2>2, IdleCall DEF CallOK
  <2> QED
    BY <2>1, <2>3, <1>10, <1>11, OthersKept
<1>13. LedgerInv'
  <2> SUFFICES ASSUME NEW h \in Goals
               PROVE  /\ (goal'[h] # "none") <=> (<<h, "create">> \in ledger')
                      /\ (op'[h].state # "none") <=> (<<h, "plan">> \in ledger')
    BY DEF LedgerInv
  <2>1. /\ (goal[h] # "none") <=> (<<h, "create">> \in ledger)
        /\ (op[h].state # "none") <=> (<<h, "plan">> \in ledger)
    BY DEF PlanInv, LedgerInv
  <2>2. (goal'[h] # "none") <=> (goal[h] # "none")
    BY <1>9
  <2>3. (op'[h].state # "none") <=> (op[h].state # "none")
    BY <1>3, <1>7, <1>9
  <2> QED
    BY <2>1, <2>2, <2>3, <1>8
<1>14. FrozenInv'
  BY <1>7, <1>8, <1>9 DEF PlanInv, FrozenInv
<1>15. SpentOnce' /\ OneConfiguration'
  BY SMTT(20), <1>6, <1>7, <1>9 DEF PlanInv, SpentOnce, OneConfiguration
<1>16. ActiveHasTask'
  BY <1>3, <1>5, <1>6, <1>9 DEF PlanInv, ActiveHasTask
<1> QED
  BY <1>10, <1>12, <1>13, <1>14, <1>15, <1>16 DEF PlanInv

\* Store::cancel_goal.
LEMMA CancelKeeps == ASSUME PlanInv, NEW g \in Goals, CancelGoal(g) PROVE PlanInv'
<1>1. /\ task \in [Goals -> TaskType]
      /\ goal \in [Goals -> {"none", "Planning", "Active", "Finalizing"}]
  BY Types DEF PlanInv
<1> DEFINE new == Fenced(g)
<1>2. /\ new \in TaskType /\ new.config = task[g].config /\ new.registry = task[g].registry
      /\ (new.phase = "none") <=> (task[g].phase = "none")
  BY <1>1 DEF Fenced, TaskType
<1>3. /\ goal' = [goal EXCEPT ![g] = "Finalizing"]
      /\ task' = [task EXCEPT ![g] = new]
      /\ goal[g] # "none"
      /\ UNCHANGED <<config, graph, op, ledger, call, faults>>
  BY DEF CancelGoal
<1> HIDE DEF new
<1>4. /\ \A h \in Goals : task'[h] = IF h = g THEN new ELSE task[h]
      /\ \A h \in Goals : goal'[h] = IF h = g THEN "Finalizing" ELSE goal[h]
  BY <1>1, <1>3
<1>5. TypeOK'
  <2>1. task' \in [Goals -> TaskType] /\ goal' \in [Goals -> {"none", "Planning", "Active", "Finalizing"}]
    BY <1>1, <1>2, <1>3
  <2> QED
    BY <2>1, <1>3 DEF PlanInv, TypeOK, TaskType
<1>6. CallInv' /\ FrozenInv'
  BY <1>3 DEF PlanInv, CallInv, CallOK, FrozenInv
<1>7. LedgerInv'
  <2> SUFFICES ASSUME NEW h \in Goals
               PROVE  /\ (goal'[h] # "none") <=> (<<h, "create">> \in ledger')
                      /\ (op'[h].state # "none") <=> (<<h, "plan">> \in ledger')
    BY DEF LedgerInv
  <2>1. (goal'[h] # "none") <=> (goal[h] # "none")
    BY <1>3, <1>4
  <2> QED
    BY <2>1, <1>3 DEF PlanInv, LedgerInv
<1>8. SpentOnce' /\ OneConfiguration' /\ ActiveHasTask'
  BY <1>2, <1>3, <1>4 DEF PlanInv, SpentOnce, OneConfiguration, ActiveHasTask
<1> QED
  BY <1>5, <1>6, <1>7, <1>8 DEF PlanInv

\* A new configuration is activated.
LEMMA ActivationKeeps == ASSUME PlanInv, ActivateConfiguration PROVE PlanInv'
<1>1. /\ config' = config + 1 /\ config < MaxConfig
      /\ UNCHANGED <<goal, graph, op, task, ledger, call, faults>>
  BY DEF ActivateConfiguration, rows
<1>2. TypeOK'
  BY <1>1, PlanningAssumption DEF PlanInv, TypeOK
<1>3. Forward
  BY <1>1, PlanningAssumption DEF PlanInv, TypeOK, Forward
<1>4. CallInv'
  <2> SUFFICES ASSUME NEW c \in Callers PROVE CallOK(call[c])'
    BY DEF CallInv
  <2>1. call[c] \in CallType /\ CallOK(call[c])
    BY Types DEF PlanInv, CallInv
  <2>2. \A x \in CallType : CallOK(x) => CallOK(x)'
    BY <1>2, <1>3, KnowledgeKept
  <2> QED
    BY <2>1, <2>2, <1>1 DEF CallOK
<1>5. FrozenInv'
  BY <1>1, PlanningAssumption DEF PlanInv, TypeOK, FrozenInv
<1> QED
  BY <1>1, <1>2, <1>4, <1>5
     DEF PlanInv, LedgerInv, SpentOnce, OneConfiguration, ActiveHasTask

\* Every step keeps the invariant.
LEMMA PlanStep == PlanInv /\ [Next]_vars => PlanInv'
<1> SUFFICES ASSUME PlanInv, [Next]_vars PROVE PlanInv'
  OBVIOUS
<1>t. /\ call \in [Callers -> CallType] /\ faults \in 0 .. MaxFaults
      /\ config \in 1 .. MaxConfig /\ graph \in [Goals -> 0 .. 1]
      /\ \A c \in Callers : call[c] \in CallType /\ CallOK(call[c])
  BY Types DEF PlanInv, CallInv
<1>n. config \in 0 .. MaxConfig
  BY <1>t, PlanningAssumption
<1>0. CallOK(Idle)
  BY IdleCall DEF CallOK
<1>1. ASSUME NEW c \in Callers, NEW g \in Goals, Begin(c, g) PROVE PlanInv'
  <2> DEFINE k == [Idle EXCEPT !.step = "create", !.goal = g]
  <2>1. k \in CallType /\ k.step = "create" /\ k.goal = g
    BY IdleCall DEF CallType, CallSteps
  <2>2. CallOK(k)
    BY <2>1 DEF CallOK
  <2>3. call' = [call EXCEPT ![c] = k] /\ UNCHANGED <<config, rows>> /\ faults' = faults
    BY <1>1 DEF Begin
  <2> HIDE DEF k
  <2> QED
    BY <2>1, <2>2, <2>3, <1>t, CallerMoves
<1>2. ASSUME NEW c \in Callers, CreateReplayed(c) PROVE PlanInv'
  <2> DEFINE k == [call[c] EXCEPT !.step = "plan"]
  <2>1. k \in CallType /\ k.step = "plan" /\ k.goal = call[c].goal
    BY <1>t DEF CallType, CallSteps
  <2>2. CallOK(k)
    BY <2>1, <1>2, <1>t DEF CallOK, CreateReplayed, At
  <2>3. call' = [call EXCEPT ![c] = k] /\ UNCHANGED <<config, rows>> /\ faults' = faults
    BY <1>2, <1>t DEF CreateReplayed, Goto, CallType
  <2> HIDE DEF k
  <2> QED
    BY <2>1, <2>2, <2>3, <1>t, CallerMoves
<1>3. ASSUME NEW c \in Callers, ReadForPlan(c) PROVE PlanInv'
  <2> DEFINE g == call[c].goal
             k == [call[c] EXCEPT !.graph = graph[g], !.config = config, !.step = "record"]
  <2>0. g \in Goals
    BY <1>3, <1>t DEF CallOK, ReadForPlan, At
  <2>1. k \in CallType /\ k.step = "record" /\ k.goal = g /\ k.graph = graph[g] /\ k.config = config
    BY <2>0, <1>t, <1>n DEF CallType, CallSteps
  <2>2. CallOK(k)
    <3>1. graph[g] \in Nat /\ config \in Nat
      BY <2>0, <1>t
    <3> HIDE DEF k, g
    <3> QED
      BY <3>1, <2>0, <2>1 DEF CallOK
  <2>3. call' = [call EXCEPT ![c] = k] /\ UNCHANGED <<config, rows>> /\ faults' = faults
    BY <1>3, <1>t DEF ReadForPlan, CallType, Of
  <2> HIDE DEF k, g
  <2> QED
    BY <2>1, <2>2, <2>3, <1>t, CallerMoves
<1>4. ASSUME NEW c \in Callers, PlanReplayed(c) PROVE PlanInv'
  <2> DEFINE k == [call[c] EXCEPT !.step = "readPointer"]
  <2>1. k \in CallType /\ k.step = "readPointer" /\ k.goal = call[c].goal
    BY <1>t DEF CallType, CallSteps
  <2>2. CallOK(k)
    BY <2>1, <1>4, <1>t DEF CallOK, PlanReplayed, At, New, Of, PlanInv, LedgerInv
  <2>3. call' = [call EXCEPT ![c] = k] /\ UNCHANGED <<config, rows>> /\ faults' = faults
    BY <1>4, <1>t DEF PlanReplayed, Goto, CallType
  <2> HIDE DEF k
  <2> QED
    BY <2>1, <2>2, <2>3, <1>t, CallerMoves
<1>5. ASSUME NEW c \in Callers, ReadPointer(c) PROVE PlanInv'
  <2> DEFINE k == [call[c] EXCEPT !.config = config, !.step = "readRegistry"]
  <2>1. k \in CallType /\ k.step = "readRegistry" /\ k.goal = call[c].goal /\ k.config = config
    BY <1>t, <1>n DEF CallType, CallSteps
  <2>2. CallOK(k)
    <3>1. call[c].goal \in Goals /\ op[call[c].goal].state # "none"
      BY <1>5, <1>t DEF CallOK, ReadPointer, At
    <3>2. op[call[c].goal].config <= config /\ config <= config
      BY <3>1, <1>t DEF PlanInv, FrozenInv
    <3> HIDE DEF k
    <3> QED
      BY <3>1, <3>2, <2>1 DEF CallOK
  <2>3. call' = [call EXCEPT ![c] = k] /\ UNCHANGED <<config, rows>> /\ faults' = faults
    BY <1>5, <1>t DEF ReadPointer, CallType
  <2> HIDE DEF k
  <2> QED
    BY <2>1, <2>2, <2>3, <1>t, CallerMoves
<1>6. ASSUME NEW c \in Callers, ReadRegistry(c) PROVE PlanInv'
  <2> DEFINE k == [call[c] EXCEPT !.registry = config, !.step = "materialize"]
  <2>1. /\ k \in CallType /\ k.step = "materialize" /\ k.goal = call[c].goal
        /\ k.config = call[c].config /\ k.registry = config
    BY <1>t, <1>n DEF CallType, CallSteps
  <2>2. CallOK(k)
    <3>1. /\ call[c].goal \in Goals /\ op[call[c].goal].state # "none"
          /\ op[call[c].goal].config <= call[c].config /\ call[c].config <= config
      BY <1>6, <1>t DEF CallOK, ReadRegistry, At
    <3>2. config <= config
      BY <1>t
    <3> HIDE DEF k
    <3> QED
      BY <3>1, <3>2, <2>1 DEF CallOK
  <2>3. /\ call' = [call EXCEPT ![c] = k] \/ call' = [call EXCEPT ![c] = Idle]
        /\ UNCHANGED <<config, rows>> /\ faults' = faults
    BY <1>6, <1>t DEF ReadRegistry, CallType
  <2> HIDE DEF k
  <2> QED
    BY <2>1, <2>2, <2>3, <1>0, <1>t, IdleCall, CallerMoves
<1>7. ASSUME NEW c \in Callers, MaterializeReturns(c) PROVE PlanInv'
  <2>1. call' = [call EXCEPT ![c] = Idle] /\ UNCHANGED <<config, rows>> /\ faults' = faults
    BY <1>7 DEF MaterializeReturns, Return
  <2> QED
    BY <2>1, <1>0, <1>t, IdleCall, CallerMoves
<1>8. ASSUME NEW c \in Callers, CallLost(c) PROVE PlanInv'
  <2>1. call' = [call EXCEPT ![c] = Idle] /\ UNCHANGED <<config, rows>>
    BY <1>8 DEF CallLost, Return
  <2>2. faults' \in 0 .. MaxFaults
    BY <1>8, <1>t, PlanningAssumption DEF CallLost
  <2> QED
    BY <2>1, <2>2, <1>0, IdleCall, CallerMoves
<1>9. CASE UNCHANGED vars
  BY <1>9 DEF vars, PlanInv, TypeOK, LedgerInv, CallInv, CallOK, FrozenInv, SpentOnce,
              OneConfiguration, ActiveHasTask
<1> QED
  BY <1>1, <1>2, <1>3, <1>4, <1>5, <1>6, <1>7, <1>8, <1>9,
     CreateKeeps, RecordKeeps, MaterializeKeeps, CancelKeeps, ActivationKeeps
     DEF Next, Serve

----------------------------------------------------------------------------
\* The planning rows and the callers keep the invariant under every
\* interleaving of deliveries, cancellations and activations.
THEOREM PlanningSafe == Spec => []PlanInv
  BY PlanInit, PlanStep, PTL DEF Spec

\* A planning decision is spent exactly once, with the one patch it made.
THEOREM DecisionsSpentOnce == Spec => []SpentOnce
<1>1. PlanInv => SpentOnce
  BY DEF PlanInv
<1> QED
  BY <1>1, PlanningSafe, PTL

\* A Task's configuration, evaluator registry and frozen decision agree,
\* although a caller reads them at three different times.
THEOREM TasksPinnedOnce == Spec => []OneConfiguration
<1>1. PlanInv => OneConfiguration
  BY DEF PlanInv
<1> QED
  BY <1>1, PlanningSafe, PTL

\* A Goal is Active only with its Task Ready.
THEOREM ActiveGoalsHaveTasks == Spec => []ActiveHasTask
<1>1. PlanInv => ActiveHasTask
  BY DEF PlanInv
<1> QED
  BY <1>1, PlanningSafe, PTL

\* A cancelled Goal stays cancelled, and no create, plan or materialize command
\* under way takes it back.
THEOREM CancelledStays == Spec => CancellationStands
<1>1. PlanInv /\ [Next]_vars =>
        [\A g \in Goals : goal[g] = "Finalizing" => goal'[g] = "Finalizing"]_vars
  <2> SUFFICES ASSUME PlanInv, Next, NEW g \in Goals, goal[g] = "Finalizing"
               PROVE  goal'[g] = "Finalizing"
    OBVIOUS
  <2>t. goal \in [Goals -> {"none", "Planning", "Active", "Finalizing"}]
    BY DEF PlanInv, TypeOK
  <2>1. ASSUME NEW c \in Callers, CreateGoal(c) PROVE goal'[g] = "Finalizing"
    <3>1. <<call[c].goal, "create">> \notin ledger
      BY <2>1 DEF CreateGoal, New, Of
    <3>2. call[c].goal # g
      BY <3>1 DEF PlanInv, LedgerInv
    <3> QED
      BY <3>2, <2>1, <2>t DEF CreateGoal, Of
  <2>2. ASSUME NEW c \in Callers, Materialize(c) PROVE goal'[g] = "Finalizing"
    BY <2>2, <2>t DEF Materialize, GoalAfter, Of
  <2>3. ASSUME NEW h \in Goals, CancelGoal(h) PROVE goal'[g] = "Finalizing"
    BY <2>3, <2>t DEF CancelGoal
  <2>4. ASSUME NEW c \in Callers,
               \/ CreateReplayed(c) \/ ReadForPlan(c) \/ RecordPlan(c) \/ PlanReplayed(c)
               \/ ReadPointer(c) \/ ReadRegistry(c) \/ MaterializeReturns(c) \/ CallLost(c)
               \/ \E h \in Goals : Begin(c, h)
        PROVE  goal'[g] = "Finalizing"
    BY <2>4 DEF CreateReplayed, ReadForPlan, RecordPlan, PlanReplayed, ReadPointer, ReadRegistry,
                MaterializeReturns, CallLost, Begin, rows
  <2>5. CASE ActivateConfiguration
    BY <2>5 DEF ActivateConfiguration, rows
  <2> QED
    BY <2>1, <2>2, <2>3, <2>4, <2>5 DEF Next, Serve
<1> QED
  BY <1>1, PlanningSafe, PTL DEF Spec, CancellationStands

\* The transaction that cancels a Goal leaves none of its Tasks schedulable.
THEOREM CancelFencesTasks == Spec => CancellationFences
<1>1. PlanInv /\ [Next]_vars =>
        [\A g \in Goals : goal[g] # "Finalizing" /\ goal'[g] = "Finalizing" =>
            task'[g].phase # "Ready"]_vars
  <2> SUFFICES ASSUME PlanInv, Next, NEW g \in Goals,
                      goal[g] # "Finalizing", goal'[g] = "Finalizing"
               PROVE  task'[g].phase # "Ready"
    OBVIOUS
  <2>t. /\ goal \in [Goals -> {"none", "Planning", "Active", "Finalizing"}]
        /\ task \in [Goals -> TaskType]
    BY Types DEF PlanInv
  <2>1. ASSUME NEW h \in Goals, CancelGoal(h) PROVE task'[g].phase # "Ready"
    <3>1. h = g
      BY <2>1, <2>t DEF CancelGoal
    <3>2. task'[g] = Fenced(g)
      BY <3>1, <2>1, <2>t DEF CancelGoal
    <3>3. Fenced(g).phase # "Ready"
      BY <2>t DEF Fenced, TaskType
    <3> QED
      BY <3>2, <3>3
  <2>2. ASSUME NEW c \in Callers, CreateGoal(c) \/ Materialize(c) PROVE FALSE
    BY <2>2, <2>t DEF CreateGoal, Materialize, GoalAfter, Of
  <2>3. ASSUME NEW c \in Callers,
               \/ CreateReplayed(c) \/ ReadForPlan(c) \/ RecordPlan(c) \/ PlanReplayed(c)
               \/ ReadPointer(c) \/ ReadRegistry(c) \/ MaterializeReturns(c) \/ CallLost(c)
               \/ \E h \in Goals : Begin(c, h)
        PROVE  FALSE
    BY <2>3 DEF CreateReplayed, ReadForPlan, RecordPlan, PlanReplayed, ReadPointer, ReadRegistry,
                MaterializeReturns, CallLost, Begin, rows
  <2>4. CASE ActivateConfiguration
    BY <2>4 DEF ActivateConfiguration, rows
  <2> QED
    BY <2>1, <2>2, <2>3, <2>4 DEF Next, Serve
<1> QED
  BY <1>1, PlanningSafe, PTL DEF Spec, CancellationFences

=============================================================================
