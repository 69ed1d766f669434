-------------------------- MODULE OperationLifecycle --------------------------
(***************************************************************************)
(* What drn_control promises of its operations: the executor is at one     *)
(* stage and waits for one call, and the end of that call, a request that  *)
(* may interrupt it, or a new beginning decides the next stage.            *)
(*                                                                         *)
(* There are no generations here, no callbacks of earlier requests and no  *)
(* library that holds them: DrnExecutor has them all and implements this.  *)
(***************************************************************************)

VARIABLES
  stage,   \* the operation; "HandedOver" is a precision landing that PX4 Land ends
  call,    \* the call whose end the executor acts on, or "none"
  charge   \* the executor is in charge of the vehicle

Stages == {"Idle", "Activating", "Arming", "TakingOff", "PrecisionLanding",
           "HandedOver", "Landing", "Returning", "Stranded"}

Calls == {"activation", "arm", "takeoff", "hold", "precision_land", "handoff",
          "land", "rtl", "disarm", "none"}

Init == stage = "Idle" /\ call = "none" /\ charge = FALSE

Becomes(s, c) == stage' = s /\ call' = c

Free     == stage = "Idle"
Released == Becomes("Idle", "none")

\* The vehicle is sent to Hold, for as long as PX4 holds it or refuses to.
Held == Becomes("Idle", "hold") \/ Released

\* Precision landing and its handover are all that a request may interrupt.
Interruptible == stage \in {"Idle", "PrecisionLanding", "HandedOver"}

-----------------------------------------------------------------------------
(* Requests.  Whatever is asked of PX4 may be refused at once.              *)

Activate == Free /\ (Becomes("Activating", "activation") \/ Released)

Takeoff == Free /\ (Becomes("Arming", "arm") \/ Released)

PrecisionLand == Free /\ (Becomes("PrecisionLanding", "precision_land") \/ Held)

Hold  == Interruptible /\ Held
Abort == stage \in {"PrecisionLanding", "HandedOver"} /\ Held
Land  == Interruptible /\ stage # "HandedOver" /\ (Becomes("Landing", "land") \/ Released)
Rtl   == Interruptible /\ (Becomes("Returning", "rtl") \/ Released)

\* Hold in place gives up the call and keeps the operation.
HoldInPlace == Interruptible /\ Becomes(IF Free THEN "Idle" ELSE "Stranded", "none")

Request ==
  Activate \/ Takeoff \/ PrecisionLand \/ Hold \/ Abort \/ Land \/ Rtl \/ HoldInPlace

-----------------------------------------------------------------------------
(* The call ends: the operation goes on to its next stage, or is over.      *)

GoesOn ==
  \/ call = "activation" /\ Becomes(stage, "none")
  \/ call = "arm" /\ Becomes("TakingOff", "takeoff")
  \/ call = "takeoff" /\ Becomes("Idle", "hold")
  \/ call = "precision_land" /\ Becomes("HandedOver", "handoff")
  \/ call \in {"handoff", "land", "rtl"} /\ Becomes(stage, "disarm")

\* A landing that failed ends in Hold.
FallsBack == call = "precision_land" /\ Becomes("Idle", "hold")

CallEnds == call # "none" /\ (GoesOn \/ FallsBack \/ Released)

Operate == (Request \/ CallEnds) /\ UNCHANGED charge

\* The executor is put in charge, loses it, or is started again out of charge:
\* an executor that stays in charge keeps its operation.
Restart == Released /\ charge' \in BOOLEAN /\ ~(charge /\ charge')

Next == Operate \/ Restart

Spec == Init /\ [][Next]_<<stage, call, charge>>
=============================================================================
