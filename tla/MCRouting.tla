------------------------------ MODULE MCRouting ------------------------------
(***************************************************************************)
(* One Task, two backends and variations of one configuration: a second    *)
(* Agent under a policy of higher priority, a disabled backend, a pin, a   *)
(* forbidden action, a policy that is not declared, a shell Agent.         *)
(***************************************************************************)
EXTENDS Routing

Builder == [name |-> 1, version |-> 1, enabled |-> TRUE, current |-> TRUE,
            accepts |-> {"code"}, competencies |-> {"rust"},
            actions |-> {"repo.edit"}, features |-> {"tools"}, minContext |-> 1,
            isolation |-> {"isolation.filesystem"}, policy |-> 1, profile |-> 1]
Runner == [Builder EXCEPT !.name = 2, !.policy = 2, !.actions = {"shell.execute"},
                          !.isolation = {}]
OldRunner == [Runner EXCEPT !.version = 0, !.current = FALSE]
Reviewer == [Builder EXCEPT !.name = 3, !.isolation = {}]

Keyed == [name |-> 1, priority |-> 0, ordering |-> {"contextCapacity"},
          tieBreak |-> "backendId", requiresKeyed |-> TRUE]
Unkeyed == [name |-> 2, priority |-> 1, ordering |-> {}, tieBreak |-> "agentId",
            requiresKeyed |-> FALSE]

Container == [isolates |-> TRUE,
              guarantees |-> {"isolation.filesystem", "isolation.control-plane"}]

Base == [agents |-> {Builder, Reviewer}, policies |-> <<Keyed, Unkeyed>>,
         profiles |-> <<Container>>, pins |-> {}, exclusions |-> {},
         forbidden |-> {}, backends |-> <<TRUE, TRUE>>,
         versions |-> <<1>>, refs |-> {1},
         mandatory |-> {"task"}, dropOrder |-> {"notes"}, preload |-> {"task"}]

MCCandidates ==
    {[Base EXCEPT !.agents = {Builder, Runner, OldRunner}],
     [Base EXCEPT !.agents = {Builder, Reviewer, Runner}, !.pins = {<<1, 1>>, <<3, 1>>},
                  !.backends = <<TRUE, FALSE>>],
     [Base EXCEPT !.agents = {Builder, Runner}, !.forbidden = {"shell.execute"}],
     [Base EXCEPT !.agents = {Runner}, !.policies = <<Keyed>>],
     [Base EXCEPT !.agents = {Runner}, !.exclusions = {<<2, 1>>}],
     [Base EXCEPT !.backends = <<TRUE>>]}

MCTask == [type |-> "code", competencies |-> {"rust"}, effects |-> {"repo.edit"},
           activation |-> 1]
MCPorts == <<2, 1>>
MCSafety == <<[guarantees |-> {"isolation.filesystem"}, observational |-> FALSE],
              [guarantees |-> {}, observational |-> TRUE]>>

MCFactSheets ==
    LET full == [available |-> TRUE, features |-> {"tools"}, context |-> 1,
                 placement |-> {}, isolation |-> {"isolation.filesystem"},
                 resources |-> {}, keyed |-> TRUE]
    IN  <<full, [full EXCEPT !.context = 2], [full EXCEPT !.keyed = FALSE],
          [full EXCEPT !.available = FALSE, !.isolation = {}]>>

=============================================================================
