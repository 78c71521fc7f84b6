------------------------- MODULE MCSandboxLifecycle -------------------------
(***************************************************************************)
(* Two callers of provision and one recovery controller.  Overlapping      *)
(* calls meet one fault less than exclusive ones.                          *)
(***************************************************************************)
EXTENDS SandboxLifecycle

CONSTANTS p1, p2, r1

MCProvisioners == {p1, p2}
MCRecoverers == {r1}
MCMaxFaults == [e \in BOOLEAN |-> IF e THEN 3 ELSE 2]

=============================================================================
