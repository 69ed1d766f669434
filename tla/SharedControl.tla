----------------------------- MODULE SharedControl -----------------------------
(***************************************************************************)
(* What the mode DRN Control promises of who the vehicle follows: its own  *)
(* position, a setpoint or an operator who moves it.  An operator takes    *)
(* over from anyone, is never displaced by a setpoint while moving the     *)
(* vehicle, and is followed no longer than until the next update after     *)
(* the movement was released or ran out.  A vehicle that cannot be held    *)
(* then is left where it was going, and the operator is told.              *)
(*                                                                         *)
(* There are no targets, commands, headings, ages or timeouts here:        *)
(* DrnControlMode has them all and implements this.                        *)
(***************************************************************************)

VARIABLES
  engaged,      \* the mode is active
  leader,       \* "Nobody", "Position", "Setpoint", "Operator" or "Left"
  wanted,       \* the operator wants to move the vehicle
  reacted,      \* an update has run at this moment
  told          \* the last report was of a failure, or not of this mode

vars == <<engaged, leader, wanted, reacted, told>>

Init ==
  /\ engaged = FALSE /\ leader = "Nobody" /\ wanted = FALSE
  /\ reacted = FALSE /\ told = FALSE

\* The operator lets go, or is made to.
Release ==
  /\ wanted' = FALSE
  /\ leader' = IF leader = "Operator" THEN "Left" ELSE leader

\* The vehicle holds its position.
Hold ==
  /\ wanted' = FALSE
  /\ leader' = "Position"
  /\ told' = FALSE

\* It does, or is said not to.
TryToHold == Hold \/ (Release /\ told' = TRUE)

Engage ==
  /\ ~engaged /\ engaged' = TRUE
  /\ reacted' = FALSE
  /\ leader = "Nobody" /\ TryToHold

Disengage ==
  /\ engaged /\ engaged' = FALSE
  /\ reacted' = FALSE /\ wanted' = FALSE
  /\ leader' = "Nobody"
  /\ UNCHANGED told

Ask ==
  /\ engaged
  /\ wanted' \in BOOLEAN
  /\ UNCHANGED <<engaged, leader, reacted, told>>

Place ==
  /\ engaged /\ ~wanted
  /\ leader' = "Setpoint" /\ told' = FALSE
  /\ UNCHANGED <<engaged, wanted, reacted>>

HoldHere == engaged /\ TryToHold /\ UNCHANGED <<engaged, reacted>>

\* Another mode is asked for; until it comes the vehicle goes on.
Withdraw == Release /\ told' = TRUE /\ UNCHANGED <<engaged, reacted>>

ReportOther == told' = TRUE /\ UNCHANGED <<engaged, leader, wanted, reacted>>

\* A moment passes, not before the mode has reacted to what it knew.
Pass ==
  /\ engaged => reacted
  /\ reacted' = FALSE
  /\ wanted' \in {wanted, FALSE}
  /\ UNCHANGED <<engaged, leader, told>>

Follow ==
  /\ wanted /\ leader' = "Operator"
  /\ told' = (leader = "Operator" /\ told)
  /\ UNCHANGED wanted

\* Refused: without a target the position may have been captured on the way.
Refuse ==
  /\ wanted /\ told' = TRUE
  /\ \/ Release
     \/ leader = "Nobody" /\ leader' = "Position" /\ wanted' = FALSE

Stop == ~wanted /\ leader = "Operator" /\ TryToHold

Rest == ~wanted /\ leader # "Operator" /\ UNCHANGED <<leader, wanted, told>>

React ==
  /\ engaged /\ UNCHANGED engaged
  /\ reacted' = TRUE
  /\ Follow \/ Refuse \/ Stop \/ Rest

Next ==
  \/ Engage \/ Disengage
  \/ Ask \/ Place \/ HoldHere \/ Withdraw \/ ReportOther
  \/ Pass \/ React

Spec == Init /\ [][Next]_vars
=============================================================================
