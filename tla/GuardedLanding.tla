---------------------------- MODULE GuardedLanding -----------------------------
(***************************************************************************)
(* What the mode DRN Precision Land promises of a target that comes and    *)
(* goes: every update steers by a fresh target only, holds the vehicle     *)
(* while the target is stale and gives up once it is gone, and a target    *)
(* fades from one to the next no faster than the updates follow.           *)
(*                                                                         *)
(* There are no ages, timeouts, phases or dwell here: PrecisionLanding has *)
(* them all and implements this.                                           *)
(***************************************************************************)

VARIABLES
  engaged,      \* the mode is active
  trust,        \* "fresh", "stale" or "gone": what the target is good for
  motion,       \* what the vehicle was last told
  reacted,      \* an update has run at this moment
  result        \* how the landing ended, or "None"

Init ==
  /\ engaged = FALSE
  /\ trust = "gone"
  /\ motion = "None"
  /\ reacted = FALSE
  /\ result = "None"

Begin ==
  /\ ~engaged /\ engaged' = TRUE
  /\ motion' = "None" /\ reacted' = FALSE /\ result' = "None"
  /\ UNCHANGED trust

End ==
  /\ engaged /\ engaged' = FALSE
  /\ reacted' = FALSE
  /\ UNCHANGED <<trust, motion, result>>

\* A target is seen.
Sight ==
  /\ trust' = "fresh"
  /\ UNCHANGED <<engaged, motion, reacted, result>>

\* A moment passes, not before the mode has reacted to what it knew.
Pass ==
  /\ engaged => reacted
  /\ reacted' = FALSE
  /\ \/ trust' = trust
     \/ trust = "fresh" /\ trust' = "stale"
     \/ trust = "stale" /\ trust' = "gone"
  /\ UNCHANGED <<engaged, motion, result>>

\* The first result counts.
Give(res) == result' = IF result = "None" THEN res ELSE result

Steer ==
  /\ trust = "fresh"
  /\ \/ motion' \in {"Approach", "Descend"} /\ UNCHANGED result
     \/ Give("Success") /\ UNCHANGED motion

Wait == trust = "stale" /\ motion' = "Pause" /\ UNCHANGED result

\* On the ground, or without a target or an attitude, whatever the target was good for.
Finish == Give("Success") /\ UNCHANGED motion
GiveUp == Give("Failed") /\ UNCHANGED motion

React ==
  /\ engaged
  /\ reacted' = TRUE
  /\ Steer \/ Wait \/ Finish \/ GiveUp
  /\ UNCHANGED <<engaged, trust>>

Next == Begin \/ End \/ Sight \/ Pass \/ React

Spec == Init /\ [][Next]_<<engaged, trust, motion, reacted, result>>

\* A vehicle has been stopped before its target is given up: it never moves by a
\* command that a target gave which is gone by now.
StoppedBeforeGone ==
  engaged /\ result = "None" /\ trust = "gone" => motion \in {"None", "Pause"}
=============================================================================
