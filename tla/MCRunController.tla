--------------------------- MODULE MCRunController ---------------------------
(***************************************************************************)
(* One Run, two ContextPlans to choose from, one request and one           *)
(* Candidate.  The launcher may give every answer to a launch, or all but  *)
(* EXITED.                                                                 *)
(***************************************************************************)
EXTENDS RunController

CONSTANTS p1, p2, r1, d1

MCPlans == {p1, p2}
MCRequestIds == {r1}
MCCandidates == {d1}
AllReplies == Observations
NeverExited == Observations \ {"EXITED"}

============================================================================
