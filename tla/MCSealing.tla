------------------------------ MODULE MCSealing ------------------------------
(***************************************************************************)
(* Two concurrent calls serving two requests, with two trees a worker may  *)
(* leave in scope and one that reaches out of it.                          *)
(***************************************************************************)
EXTENDS Sealing, TLC

CONSTANTS k1, k2, r1, r2, t1, t2, stray

MCCalls == {k1, k2}
MCRequestIds == {r1, r2}
MCContents == {t1, t2, stray}
MCOutOfScope == {stray}
Symmetry == Permutations(MCCalls) \cup Permutations(MCRequestIds) \cup Permutations({t1, t2})

=============================================================================
