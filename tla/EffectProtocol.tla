--------------------------- MODULE EffectProtocol ---------------------------
(***************************************************************************)
(* What the lifecycle records promise: one effect outside the database, as *)
(* the readers of its record may understand it.  The record carries a      *)
(* stage and a claim about presence; the world holds the effect itself.    *)
(*                                                                         *)
(*   marker     nothing exists outside before the record is "marked";      *)
(*   evidence   the record becomes "usable" only over an effect that was   *)
(*              read back and found right;                                 *)
(*   claim      "Absent" is written only over a world seen to be empty;    *)
(*   closing    "closed" is final, and "failed" is unless the effect may   *)
(*              be tried again.                                            *)
(*                                                                         *)
(* Two components keep this protocol, the Workspace of a Task and the      *)
(* Sandbox of a Run, and differ in the four constants.  The promises about *)
(* the world hold when calls come one at a time ("alone"); what is left of *)
(* them when calls overlap is written out in each action.                  *)
(***************************************************************************)

CONSTANTS
    Perishable,  \* the effect may disappear by itself
    Retryable,   \* a failed effect may be marked again
    Fenced,      \* a late failure cannot strike a usable record
    Closable     \* the effect is released in the end

VARIABLES
    stage,   \* of the record
    claim,   \* what the record says is there
    world,   \* "none", or an effect that is or is not as the record wants it
    alone    \* whether calls come one at a time; it never changes

vars == <<stage, claim, world, alone>>

Stages == {"unmarked", "marked", "usable", "closing", "closed", "failed"}
Claims == {"Present", "Absent", "Unknown"}
Worlds == {"none", "unproven", "proven"}

Init ==
    /\ stage = "unmarked"
    /\ claim = "Absent"
    /\ world = "none"
    /\ alone \in BOOLEAN

\* The marker: from here on nobody may conclude what exists.
Mark ==
    /\ stage \in {"unmarked", "marked"} \/ (Retryable /\ stage = "failed")
    /\ stage' = "marked" /\ claim' = "Unknown"
    /\ UNCHANGED <<world, alone>>

\* The effect is made, remade or damaged under the marker; a call that
\* overlaps another one may still be at it when the record has moved on.
Work ==
    /\ stage = "marked" \/ (~alone /\ stage # "unmarked")
    /\ world' \in Worlds
    /\ UNCHANGED <<stage, claim, alone>>

Vanish ==
    /\ Perishable
    /\ world' = "none"
    /\ UNCHANGED <<stage, claim, alone>>

\* What was found is written down; only an empty world is called empty.
Observe ==
    /\ stage \notin {"unmarked", "closed"}
    /\ claim' \in Claims
    /\ stage = "usable" => claim' = "Present"
    /\ alone /\ claim' = "Absent" => world = "none"
    /\ UNCHANGED <<stage, world, alone>>

Complete ==
    /\ stage = "marked"
    /\ alone => world = "proven" \/ (Perishable /\ world = "none")
    /\ stage' = "usable" /\ claim' = "Present"
    /\ UNCHANGED <<world, alone>>

\* A failure claims nothing it has not seen, and never that the effect is
\* there.
Fail ==
    /\ stage \in {"marked", "failed"}
        \/ (~alone /\ ~Fenced /\ stage \in {"usable", "closing"})
    /\ stage' = "failed" /\ claim' \in {"Absent", "Unknown"}
    /\ alone /\ claim' = "Absent" => world = "none"
    /\ UNCHANGED <<world, alone>>

BeginClose ==
    /\ Closable
    /\ stage = "usable"
    /\ stage' = "closing" /\ claim' = "Unknown"
    /\ UNCHANGED <<world, alone>>

Remove ==
    /\ stage = "closing"
    /\ world' = "none"
    /\ UNCHANGED <<stage, claim, alone>>

Close ==
    /\ stage = "closing"
    /\ alone => world = "none"
    /\ stage' = "closed" /\ claim' = "Absent"
    /\ UNCHANGED <<world, alone>>

Next ==
    \/ Mark \/ Work \/ Vanish \/ Observe \/ Complete \/ Fail
    \/ BeginClose \/ Remove \/ Close

Spec == Init /\ [][Next]_vars

=============================================================================
