---------------------------- MODULE DrnControlMode ----------------------------
(***************************************************************************)
(* The mode DRN Control of drn_control: class DrnControlMode of            *)
(* src/src/drn_control/src/control_node.cpp with the TeleopCommandMixer of *)
(* teleop_control.hpp.                                                     *)
(*                                                                         *)
(* A target is abstracted to where it comes from and whether it has a      *)
(* heading; a teleop command to whether it moves the vehicle and needs a   *)
(* heading for it.  Messages that fail to parse change nothing.  Time is   *)
(* counted in ticks of the steady clock, kept as ages saturated one past   *)
(* the teleop timeout; while the mode is active the library calls          *)
(* updateSetpoint at least once per tick.                                  *)
(***************************************************************************)
EXTENDS Integers

CONSTANT TeleopTimeout      \* teleop_timeout_s in ticks

\* The parameter is positive; its cast to milliseconds may give zero.
ASSUME TimeoutIsNat == TeleopTimeout \in Nat

VARIABLES
  active,       \* isActive()
  armed,        \* isArmed()
  position,     \* the local position is valid
  heading,      \* the local heading is finite
  target,       \* target_, or NoTarget
  horizontal,   \* the mixer's command of the topic teleop/xy, or NoSlot
  vertical,     \* the mixer's command of the topic teleop/z_yaw, or NoSlot
  commanding,   \* teleop_commanding_
  status,       \* the last status published
  updated,      \* updateSetpoint ran since the last tick
  sinceMove     \* history: ticks since a command to move was accepted

vehicle == <<active, armed, position, heading>>
mixer   == <<horizontal, vertical>>
vars    == <<vehicle, target, mixer, commanding, status, updated, sinceMove>>

Origins  == {"Captured", "Setpoint", "Moved"}
NoTarget == [origin |-> "none", heading |-> FALSE]

HorizontalCommands == {"zero", "move"}
VerticalCommands   == {"zero", "climb", "turn"}
NoSlot             == [command |-> "none", age |-> 0]

Ages == 0..(TeleopTimeout + 1)

Failures == {"position_unavailable", "stop_failed", "teleop_without_position",
             "heading_unavailable"}
Statuses == Failures \cup {"waiting_for_px4", "holding", "teleop_active",
                           "teleop_timeout", "tracking_setpoint", "executor"}

TypeOK ==
  /\ active \in BOOLEAN
  /\ armed \in BOOLEAN
  /\ position \in BOOLEAN
  /\ heading \in BOOLEAN
  /\ target \in [origin : Origins, heading : BOOLEAN] \cup {NoTarget}
  /\ horizontal \in [command : HorizontalCommands, age : Ages] \cup {NoSlot}
  /\ vertical \in [command : VerticalCommands, age : Ages] \cup {NoSlot}
  /\ commanding \in BOOLEAN
  /\ status \in Statuses
  /\ updated \in BOOLEAN
  /\ sinceMove \in Ages

Init ==
  /\ active = FALSE
  /\ armed \in BOOLEAN
  /\ position \in BOOLEAN
  /\ heading \in BOOLEAN
  /\ target = NoTarget
  /\ horizontal = NoSlot
  /\ vertical = NoSlot
  /\ commanding = FALSE
  /\ status = "waiting_for_px4"
  /\ updated = FALSE
  /\ sinceMove = TeleopTimeout + 1

-----------------------------------------------------------------------------
(* The mixer.                                                               *)

\* Fault: a command never expires.
FreshForever(slot) == slot # NoSlot

Fresh(slot) == slot # NoSlot /\ slot.age <= TeleopTimeout

Moves(slot) == Fresh(slot) /\ slot.command # "zero"

Expired(slot) == slot # NoSlot /\ ~Fresh(slot) /\ slot.command # "zero"

\* The sampled command is not zero.
Moving == Moves(horizontal) \/ Moves(vertical)

ClearMixer ==
  /\ horizontal' = NoSlot
  /\ vertical' = NoSlot

CancelTeleopInput ==
  /\ ClearMixer
  /\ commanding' = FALSE

-----------------------------------------------------------------------------
Captured == [origin |-> "Captured", heading |-> heading]

\* captureCurrentTarget: without a position it fails and keeps the target.
CaptureCurrentTarget == target' = IF position THEN Captured ELSE target

OnActivate ==
  /\ ~active
  /\ active' = TRUE
  /\ updated' = FALSE
  /\ CancelTeleopInput
  /\ CaptureCurrentTarget
  /\ status' = IF position THEN "holding" ELSE "position_unavailable"
  /\ UNCHANGED <<armed, position, heading, sinceMove>>

OnDeactivate ==
  /\ active
  /\ active' = FALSE
  /\ updated' = FALSE
  /\ CancelTeleopInput
  /\ target' = NoTarget
  /\ UNCHANGED <<armed, position, heading, status, sinceMove>>

\* applyTeleopCommand: horizontal motion and yaw need a heading, the local one
\* or the target's.  A target captured on the way stays even if they lack it.
ApplyTeleopCommand ==
  LET base         == IF target = NoTarget THEN Captured ELSE target
      turns        == Moves(vertical) /\ vertical.command = "turn"
      needsHeading == Moves(horizontal) \/ turns
      canMove      == ~needsHeading \/ heading \/ base.heading
  IN
  \/ /\ target = NoTarget /\ ~position
     /\ CancelTeleopInput
     /\ status' = "teleop_without_position"
     /\ UNCHANGED target
  \/ /\ target # NoTarget \/ position
     /\ ~canMove
     /\ CancelTeleopInput
     /\ target' = base
     /\ status' = "heading_unavailable"
  \/ /\ target # NoTarget \/ position
     /\ canMove
     /\ target' = [origin |-> "Moved", heading |-> base.heading \/ turns]
     /\ commanding' = TRUE
     /\ status' = IF commanding THEN status ELSE "teleop_active"
     /\ UNCHANGED mixer

\* Fault: a failure to capture the position is reported as a timeout.
StopTeleopHidesFailure ==
  /\ CaptureCurrentTarget
  /\ CancelTeleopInput
  /\ status' = IF Expired(horizontal) \/ Expired(vertical)
                 THEN "teleop_timeout" ELSE "holding"

\* Movement was released or ran out: hold where the vehicle is.
StopTeleop ==
  /\ CaptureCurrentTarget
  /\ CancelTeleopInput
  /\ status' = IF ~position THEN "stop_failed"
               ELSE IF Expired(horizontal) \/ Expired(vertical)
                 THEN "teleop_timeout" ELSE "holding"

\* Then the target, if there is one, is sent to PX4.
UpdateSetpoint ==
  /\ active
  /\ updated' = TRUE
  /\ \/ Moving /\ ApplyTeleopCommand
     \/ ~Moving /\ commanding /\ StopTeleop
     \/ ~Moving /\ ~commanding /\ UNCHANGED <<target, mixer, commanding, status>>
  /\ UNCHANGED <<vehicle, sinceMove>>

-----------------------------------------------------------------------------
(* Subscriptions: nothing is taken unless the mode is active and armed.     *)

Accepts == active /\ armed

ReceiveHorizontalTeleop(command) ==
  /\ Accepts
  /\ horizontal' = [command |-> command, age |-> 0]
  /\ sinceMove' = IF command = "zero" THEN sinceMove ELSE 0
  /\ UNCHANGED <<vehicle, target, vertical, commanding, status, updated>>

ReceiveVerticalYawTeleop(command) ==
  /\ Accepts
  /\ vertical' = [command |-> command, age |-> 0]
  /\ sinceMove' = IF command = "zero" THEN sinceMove ELSE 0
  /\ UNCHANGED <<vehicle, target, horizontal, commanding, status, updated>>

\* Fault: an absolute setpoint takes over from an operator who is moving.
ReceiveSetpointAnyTime(withHeading) ==
  /\ Accepts
  /\ CancelTeleopInput
  /\ target' = [origin |-> "Setpoint", heading |-> withHeading]
  /\ status' = "tracking_setpoint"
  /\ UNCHANGED <<vehicle, updated, sinceMove>>

\* Fault: an absolute setpoint leaves the teleop state alone.
ReceiveSetpointKeepsTeleop(withHeading) ==
  /\ Accepts /\ ~Moving
  /\ target' = [origin |-> "Setpoint", heading |-> withHeading]
  /\ status' = "tracking_setpoint"
  /\ UNCHANGED <<vehicle, mixer, commanding, updated, sinceMove>>

\* A zero quaternion leaves the heading open.
ReceiveSetpoint(withHeading) ==
  /\ Accepts /\ ~Moving
  /\ CancelTeleopInput
  /\ target' = [origin |-> "Setpoint", heading |-> withHeading]
  /\ status' = "tracking_setpoint"
  /\ UNCHANGED <<vehicle, updated, sinceMove>>

-----------------------------------------------------------------------------
(* What the executor asks of the mode.                                      *)

\* requestHold while the mode is active.
HoldInPlace ==
  /\ Accepts
  /\ CancelTeleopInput
  /\ CaptureCurrentTarget
  /\ status' = IF position THEN "holding" ELSE "position_unavailable"
  /\ UNCHANGED <<vehicle, updated, sinceMove>>

\* Takeoff, precision landing, Land and RTL: input is cleared, the target stays.
RequestTakesOver ==
  /\ CancelTeleopInput
  /\ status' = "executor"
  /\ UNCHANGED <<vehicle, target, updated, sinceMove>>

\* Every other status of the executor goes through publishStatus as well.
ExecutorReports ==
  /\ status' = "executor"
  /\ UNCHANGED <<vehicle, target, mixer, commanding, updated, sinceMove>>

-----------------------------------------------------------------------------
VehicleReports ==
  /\ armed' \in BOOLEAN
  /\ position' \in BOOLEAN
  /\ heading' \in BOOLEAN
  /\ UNCHANGED <<active, target, mixer, commanding, status, updated, sinceMove>>

Older(age) == IF age = TeleopTimeout + 1 THEN age ELSE age + 1

OlderSlot(slot) == IF slot = NoSlot THEN slot ELSE [slot EXCEPT !.age = Older(@)]

Tick ==
  /\ active => updated
  /\ updated' = FALSE
  /\ horizontal' = OlderSlot(horizontal)
  /\ vertical' = OlderSlot(vertical)
  /\ sinceMove' = Older(sinceMove)
  /\ UNCHANGED <<vehicle, target, commanding, status>>

Next ==
  \/ OnActivate
  \/ OnDeactivate
  \/ UpdateSetpoint
  \/ \E command \in HorizontalCommands : ReceiveHorizontalTeleop(command)
  \/ \E command \in VerticalCommands : ReceiveVerticalYawTeleop(command)
  \/ \E withHeading \in BOOLEAN : ReceiveSetpoint(withHeading)
  \/ HoldInPlace
  \/ RequestTakesOver
  \/ ExecutorReports
  \/ VehicleReports
  \/ Tick

Spec == Init /\ [][Next]_vars

-----------------------------------------------------------------------------
(* Properties.                                                              *)

\* Nothing outlives the mode: an activation that finds no local position must
\* not fly to a target of the activation before.
InactiveIsEmpty ==
  ~active => target = NoTarget /\ horizontal = NoSlot /\ vertical = NoSlot /\ ~commanding

\* Command loss: once the update of a tick has run, teleop still commands only
\* if a command to move was accepted within the timeout, on either topic.
CommandLossStops ==
  active /\ updated /\ commanding => sinceMove <= TeleopTimeout

\* While teleop commands, the target is the one teleop moves: setpoints, holds
\* and activations all end teleop before they replace the target.
CommandingOwnsTarget == commanding => target.origin = "Moved"

\* Movement that ended without a hold leaves the moved target standing, and the
\* operator is told why.
AbandonedTargetIsReported ==
  target.origin = "Moved" /\ ~commanding => status \in Failures \cup {"executor"}

-----------------------------------------------------------------------------
(* The mode implements SharedControl.                                       *)

\* Who the target comes from; Left if teleop moved it and commands no more.
Leader ==
  IF target = NoTarget THEN "Nobody"
  ELSE IF target.origin = "Captured" THEN "Position"
  ELSE IF target.origin = "Setpoint" THEN "Setpoint"
  ELSE IF commanding THEN "Operator" ELSE "Left"

\* The last report was of a failure, or not of this mode.
Told == status \in Failures \cup {"executor"}

Shared == INSTANCE SharedControl WITH
  engaged <- active,
  leader  <- Leader,
  wanted  <- Moving,
  reacted <- updated,
  told    <- Told

\* Every step is one of SharedControl: whatever order commands, setpoints, holds
\* and requests of the executor come in, a setpoint never displaces an operator
\* who is moving the vehicle, a movement that ended is not followed past the
\* next update, and an activation inherits nothing from the one before.
SharesControl == Shared!Spec
=============================================================================
