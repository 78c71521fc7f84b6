------------------------ MODULE MCWorkspaceLifecycle ------------------------
(***************************************************************************)
(* Two callers, one at a time or overlapping; a call is a retry of an      *)
(* earlier request or a request of its own.  Serialized calls are followed *)
(* through more revisions and faults than overlapping ones.                *)
(***************************************************************************)
EXTENDS WorkspaceLifecycle

CONSTANTS c1, c2, b1, b2, requestA, requestB

MCCallers == {c1, c2}
MCBases == {b1, b2}
MCIdentities == {requestA, requestB}
MCMaxRevision == [s \in BOOLEAN |-> IF s THEN 8 ELSE 4]
MCMaxFaults == [s \in BOOLEAN |-> IF s THEN 2 ELSE 1]

=============================================================================
