-------------------------- MODULE MCCommandLedger --------------------------
(* CommandLedger for TLC: two callers, bounded Events and restores.        *)
EXTENDS CommandLedger, TLC

CONSTANTS c1, c2, k1, h1, h2

MCClients == {c1, c2}
MCCommandIds == {k1}
MCHashes == {h1, h2}
MCSymmetry == Permutations(MCClients) \cup Permutations(MCHashes)

============================================================================
