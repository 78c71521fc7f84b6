----------------------------- MODULE MCDispatch -----------------------------
(***************************************************************************)
(* Two Goals.  Either the daemon's loop alone faces a first Goal that is   *)
(* impossible to route, or two cycles race for both.  A Task whose route   *)
(* failed is tried again only in the first case.                           *)
(***************************************************************************)
EXTENDS Dispatch

CONSTANTS s1, s2

MCNoGoal == 0
MCGoals == 1 .. 2
MCSchedulers == {s1, s2}
MCUnroutable == [r \in BOOLEAN |-> IF r THEN {} ELSE {1}]
MCMaxBackoffs == [r \in BOOLEAN |-> IF r THEN 1 ELSE 3]

=============================================================================
