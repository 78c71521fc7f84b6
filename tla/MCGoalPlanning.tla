--------------------------- MODULE MCGoalPlanning ---------------------------
(***************************************************************************)
(* Two Goals, with two concurrent deliveries of their create commands.     *)
(***************************************************************************)
EXTENDS GoalPlanning

CONSTANTS g1, g2, c1, c2

MCGoals == {g1, g2}
MCCallers == {c1, c2}
LastUnresolvable == {MaxConfig}

=============================================================================
