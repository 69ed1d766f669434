--------------------------- MODULE PrecisionLanding ---------------------------
(***************************************************************************)
(* The mode DRN Precision Land of drn_control: class PrecisionLandingMode  *)
(* of src/src/drn_control/src/control_node.cpp with the guards of          *)
(* precision_landing_control.hpp.                                          *)
(*                                                                         *)
(* Time is counted in ticks of the node clock, which does not go back.     *)
(* Instants are kept as ages, each saturated one past the last value the   *)
(* code tells apart.  The library calls updateSetpoint at a fixed rate     *)
(* while the mode is active: at least once per tick.  What an update       *)
(* measures (landed, attitude, offset from the marker) is an input: the    *)
(* stored target is rotated by the attitude of the moment, so it can       *)
(* change without a new target.                                            *)
(***************************************************************************)
EXTENDS Integers

CONSTANTS
  CommandTimeout,   \* precision_land.target_command_timeout_s, in ticks
  TargetTimeout,    \* precision_land.target_timeout_s
  AlignmentDwell    \* precision_land.alignment_dwell_s

\* The constructor rejects every other configuration.
ASSUME TimeoutsOrdered ==
  /\ CommandTimeout \in Nat \ {0}
  /\ TargetTimeout \in Nat
  /\ AlignmentDwell \in Nat \ {0}
  /\ CommandTimeout < TargetTimeout

VARIABLES
  active,       \* the library activated the mode
  updated,      \* updateSetpoint ran since the last tick
  descending,   \* descending_
  waiting,      \* waiting_for_target_
  targetAge,    \* now - target_received_at_, or Never
  alignedFor,   \* now - aligned_since_, or Never
  result,       \* the first result passed to completed(), or "None"
  command,      \* the last setpoint of this activation, or "None"
  status,       \* last_status_
  shown,        \* the message latched on /drn/control/status
  seen,         \* history: the horizontal error of the last steering update
  steady        \* history: ticks since an update saw the target misaligned

flight == <<descending, waiting, alignedFor>>
output == <<result, command, seen>>
vars   == <<active, updated, flight, targetAge, output, status, shown, steady>>

Never == -1

\* Horizontal errors: within alignment_tolerance_m, within realign_tolerance_m
\* (at least as wide), or beyond it.
Errors   == {"aligned", "near", "far"}
Commands == {"None", "Pause", "Approach", "Descend"}
Statuses == {"unset", "aligning", "realigning", "waiting_for_target", "descending",
             "handoff", "touchdown", "target_lost"}

TypeOK ==
  /\ active \in BOOLEAN
  /\ updated \in BOOLEAN
  /\ descending \in BOOLEAN
  /\ waiting \in BOOLEAN
  /\ targetAge \in 0..(TargetTimeout + 1) \cup {Never}
  /\ alignedFor \in 0..AlignmentDwell \cup {Never}
  /\ result \in {"None", "Success", "Failed"}
  /\ command \in Commands
  /\ status \in Statuses
  /\ shown \in Statuses \cup {"other"}
  /\ seen \in Errors \cup {"none"}
  /\ steady \in 0..AlignmentDwell

Init ==
  /\ active = FALSE
  /\ updated = FALSE
  /\ descending = FALSE
  /\ waiting = FALSE
  /\ targetAge = Never
  /\ alignedFor = Never
  /\ result = "None"
  /\ command = "None"
  /\ status = "unset"
  /\ shown = "other"            \* DrnControlMode publishes "waiting_for_px4"
  /\ seen = "none"
  /\ steady = 0

-----------------------------------------------------------------------------
\* A target of the right frame and distance was received, not longer ago.
TargetFresh(timeout) == targetAge # Never /\ targetAge <= timeout

\* Fault: an old target is as good as a new one.
TargetReadyAtAnyAge(attitude) == targetAge # Never /\ attitude

TargetReady(attitude) == TargetFresh(TargetTimeout) /\ attitude

\* publishStatus: a message is sent only if it is not the last one sent.
Publish(message) ==
  /\ status' = message
  /\ shown' = IF message = status THEN shown ELSE message

\* completed(): the library takes the first result only.
Complete(res) == result' = IF result = "None" THEN res ELSE result

\* Fault: an activation inherits the alignment of the one before.
ForgetButAlignment ==
  /\ descending' = FALSE
  /\ waiting' = FALSE
  /\ UNCHANGED alignedFor

\* Fault: an activation inherits the wait of the one before.
ForgetButWaiting ==
  /\ descending' = FALSE
  /\ alignedFor' = Never
  /\ UNCHANGED waiting

\* What both hooks reset.
Forget ==
  /\ descending' = FALSE
  /\ waiting' = FALSE
  /\ alignedFor' = Never

OnActivate ==
  /\ ~active
  /\ active' = TRUE
  /\ updated' = FALSE
  /\ Forget
  /\ Publish("aligning")
  /\ result' = "None" /\ command' = "None" /\ seen' = "none"
  /\ steady' = 0
  /\ UNCHANGED targetAge

\* PX4 ends the mode: it completed, or the executor or the pilot replaced it.
OnDeactivate ==
  /\ active
  /\ active' = FALSE
  /\ updated' = FALSE
  /\ Forget
  /\ UNCHANGED <<targetAge, output, status, shown, steady>>

-----------------------------------------------------------------------------
(* updateSetpoint: its three early returns, then the steering part.         *)

Touchdown ==
  /\ Publish("touchdown")
  /\ Complete("Success")
  /\ UNCHANGED <<flight, command, seen, steady>>

LoseTarget ==
  /\ Publish("target_lost")
  /\ Complete("Failed")
  /\ UNCHANGED <<flight, command, seen, steady>>

\* A target too old to steer by: zero velocity, the alignment clock goes on.
WaitForTarget ==
  /\ waiting' = TRUE
  /\ Publish("waiting_for_target")
  /\ command' = "Pause"
  /\ UNCHANGED <<descending, alignedFor, result, seen, steady>>

\* Fault: once descending, nothing stops the descent.
NeverRealigns(error) == FALSE

\* Descent is given up beyond realign_tolerance_m.
Realigns(error) == descending /\ error = "far"

\* An earlier update began the dwell, and it has passed.
StartsDescent(error) ==
  /\ ~descending /\ error = "aligned"
  /\ alignedFor # Never /\ alignedFor >= AlignmentDwell

\* descending_ and aligned_since_ after this measurement.
Track(error) ==
  /\ descending' = ((descending /\ ~Realigns(error)) \/ StartsDescent(error))
  /\ alignedFor' =
       IF descending /\ ~Realigns(error) THEN alignedFor
       ELSE IF error # "aligned" THEN Never
       ELSE IF alignedFor = Never THEN 0 ELSE alignedFor

\* The last status an update publishes before the handoff check.
Announcement(error) ==
  CASE Realigns(error)                    -> "realigning"
    [] StartsDescent(error)               -> "descending"
    [] OTHER -> IF ~waiting THEN status
                ELSE IF descending THEN "descending" ELSE "aligning"

\* low: the marker is within landing_handoff_height_m below the vehicle.
Steer(error, low) ==
  LET handoff == descending' /\ error = "aligned" /\ low IN
  /\ waiting' = FALSE
  /\ Track(error)
  /\ Publish(IF handoff THEN "handoff" ELSE Announcement(error))
  /\ IF handoff
       THEN Complete("Success") /\ UNCHANGED command
       ELSE /\ command' = IF descending' THEN "Descend" ELSE "Approach"
            /\ UNCHANGED result
  /\ seen' = error
  /\ steady' = IF error = "aligned" THEN steady ELSE 0

UpdateSetpoint(landed, attitude, error, low) ==
  /\ active
  /\ updated' = TRUE
  /\ \/ landed /\ Touchdown
     \/ ~landed /\ ~TargetReady(attitude) /\ LoseTarget
     \/ /\ ~landed /\ TargetReady(attitude)
        /\ IF TargetFresh(CommandTimeout) THEN Steer(error, low) ELSE WaitForTarget
  /\ UNCHANGED <<active, targetAge>>

-----------------------------------------------------------------------------
\* receiveTarget; a message of the wrong frame or distance changes nothing.
ReceiveTarget ==
  /\ targetAge' = 0
  /\ UNCHANGED <<active, updated, flight, output, status, shown, steady>>

\* An age after one more tick.
Older(age, last) == IF age = Never \/ age = last THEN age ELSE age + 1

Tick ==
  /\ active => updated
  /\ updated' = FALSE
  /\ targetAge' = Older(targetAge, TargetTimeout + 1)
  /\ alignedFor' = Older(alignedFor, AlignmentDwell)
  /\ steady' = Older(steady, AlignmentDwell)
  /\ UNCHANGED <<active, descending, waiting, output, status, shown>>

\* DrnControlMode and the executor publish on the same latched topic.
OtherStatus ==
  /\ shown' = "other"
  /\ UNCHANGED <<active, updated, flight, targetAge, output, status, steady>>

Update ==
  \E landed, attitude, low \in BOOLEAN, error \in Errors :
    UpdateSetpoint(landed, attitude, error, low)

Next ==
  \/ OnActivate
  \/ OnDeactivate
  \/ Update
  \/ ReceiveTarget
  \/ Tick
  \/ OtherStatus

Spec == Init /\ [][Next]_vars

-----------------------------------------------------------------------------
(* Properties.                                                              *)

\* "Motion pauses after 0.5 s without an update": once the update of a tick has
\* run, the vehicle descends only on a target younger than the command timeout,
\* and never beyond the realign tolerance.
DescentIsJustified ==
  active /\ updated /\ result = "None" /\ command = "Descend"
    => TargetFresh(CommandTimeout) /\ seen \in {"aligned", "near"}

\* "... and aborts after 3 s": once the update of a tick has run, a landing that
\* has not completed has a target younger than the target timeout.
LostTargetIsNoticed ==
  active /\ updated /\ result = "None" => TargetFresh(TargetTimeout)

\* The remembered status names the phase the flags describe: the waiting flag,
\* the descent flag and last_status_ are set in different branches.
StatusMatchesPhase ==
  active /\ result = "None" =>
    /\ waiting <=> status = "waiting_for_target"
    /\ ~waiting => (descending <=> status = "descending")

\* Descent starts only if no update of this activation has seen the target
\* misaligned for a whole dwell, whatever an earlier activation left behind.
DescentIsEarned ==
  [][~descending /\ descending' => steady >= AlignmentDwell]_vars

\* What the stored target is good for.
Trust ==
  IF TargetFresh(CommandTimeout) THEN "fresh"
  ELSE IF TargetFresh(TargetTimeout) THEN "stale"
  ELSE "gone"

Guarded ==
  INSTANCE GuardedLanding WITH
    engaged <- active, trust <- Trust, motion <- command, reacted <- updated

\* Whatever the phase, the flags and the timers of the mode are: a steering update
\* has a fresh target, a stale one holds the vehicle, and without one the landing is
\* given up, in this order and each by the update of a tick.
GuardsLanding == Guarded!Spec

\* The library keeps calling updateSetpoint, and the clock goes on.
FairSpec == Spec /\ WF_vars(Update) /\ WF_vars(Tick)

\* A landing whose target stays away ends: it completes or is replaced, unless
\* another target arrives.
AbandonedLandingEnds ==
  active ~> (~active \/ result # "None" \/ targetAge = 0)

-----------------------------------------------------------------------------
(* What drn_control's README says of the mode.                              *)

\* "Latched lifecycle and error status": an activation is announced.
ActivationIsAnnounced ==
  [][~active /\ active' => shown' = "aligning"]_vars
=============================================================================
