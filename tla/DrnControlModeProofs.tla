------------------------- MODULE DrnControlModeProofs -------------------------
(***************************************************************************)
(* Proofs about DrnControlMode, for every teleop timeout.  The invariants   *)
(* are inductive together once SlotsAreRecent is added: the history of the  *)
(* last command to move is no older than any such command in the mixer.     *)
(***************************************************************************)
EXTENDS DrnControlMode, TLAPS

Recent(slot) == slot # NoSlot /\ slot.command # "zero" => sinceMove <= slot.age

SlotsAreRecent == Recent(horizontal) /\ Recent(vertical)

IInv ==
  /\ TypeOK
  /\ SlotsAreRecent
  /\ InactiveIsEmpty
  /\ CommandLossStops
  /\ CommandingOwnsTarget
  /\ AbandonedTargetIsReported

HorizontalSlots == [command : HorizontalCommands, age : Ages] \cup {NoSlot}
VerticalSlots   == [command : VerticalCommands, age : Ages] \cup {NoSlot}
Targets         == [origin : Origins, heading : BOOLEAN] \cup {NoTarget}

-----------------------------------------------------------------------------
(* The helpers.                                                             *)

LEMMA AgesBounds == (\A age \in Ages : age \in Nat) /\ 0 \in Ages /\ TeleopTimeout + 1 \in Ages
BY TimeoutIsNat DEF Ages

LEMMA OlderTyped ==
  ASSUME NEW age \in Ages
  PROVE  Older(age) \in Ages
BY TimeoutIsNat DEF Older, Ages

LEMMA OlderMonotone ==
  ASSUME NEW a \in Ages, NEW b \in Ages, a <= b
  PROVE  Older(a) <= Older(b)
BY TimeoutIsNat DEF Older, Ages

LEMMA OlderSlotTyped ==
  ASSUME NEW commands, NEW slot \in [command : commands, age : Ages] \cup {NoSlot}
  PROVE  OlderSlot(slot) \in [command : commands, age : Ages] \cup {NoSlot}
BY OlderTyped DEF OlderSlot

\* The moment ages a slot and the history alike.
LEMMA RecentGetsOlder ==
  ASSUME NEW commands, NEW slot \in [command : commands, age : Ages] \cup {NoSlot},
         NoSlot \notin [command : commands, age : Ages],
         sinceMove \in Ages, Recent(slot)
  PROVE  LET next == OlderSlot(slot) IN
           next # NoSlot /\ next.command # "zero" => Older(sinceMove) <= next.age
<1>1. CASE slot = NoSlot
  BY <1>1 DEF OlderSlot
<1>2. CASE slot # NoSlot
  <2>1. /\ OlderSlot(slot).command = slot.command
        /\ OlderSlot(slot).age = Older(slot.age)
        /\ slot.age \in Ages
    BY <1>2 DEF OlderSlot
  <2> QED
    BY <1>2, <2>1, OlderMonotone DEF Recent
<1> QED
  BY <1>1, <1>2

LEMMA CapturedTyped ==
  ASSUME TypeOK
  PROVE  Captured \in Targets
BY DEF Captured, Targets, Origins, TypeOK

LEMMA CaptureTyped ==
  ASSUME TypeOK, CaptureCurrentTarget
  PROVE  target' \in Targets /\ (position => target'.origin = "Captured")
BY CapturedTyped DEF CaptureCurrentTarget, TypeOK, Targets, Captured

\* An empty mixer has nothing to compare with the history.
LEMMA EmptyMixerTyped ==
  ASSUME ClearMixer
  PROVE  horizontal' \in HorizontalSlots /\ vertical' \in VerticalSlots
BY DEF ClearMixer, HorizontalSlots, VerticalSlots

LEMMA EmptyMixerRecent ==
  ASSUME ClearMixer
  PROVE  SlotsAreRecent'
BY DEF ClearMixer, SlotsAreRecent, Recent

\* TypeOK in the sets that the lemmas speak of.
LEMMA TypeFrom ==
  ASSUME active' \in BOOLEAN, armed' \in BOOLEAN, position' \in BOOLEAN,
         heading' \in BOOLEAN, target' \in Targets,
         horizontal' \in HorizontalSlots, vertical' \in VerticalSlots,
         commanding' \in BOOLEAN, status' \in Statuses, updated' \in BOOLEAN,
         sinceMove' \in Ages
  PROVE  TypeOK'
BY DEF TypeOK, Targets, HorizontalSlots, VerticalSlots

-----------------------------------------------------------------------------
(* The actions.                                                             *)

\* Input cancelled in a step that leaves the mode active or not as it was: what
\* remains is to say what becomes of the target.
LEMMA CancelKeeps ==
  ASSUME IInv, CancelTeleopInput, UNCHANGED <<vehicle, sinceMove>>,
         updated' \in BOOLEAN, status' \in Statuses, target' \in Targets,
         ~active' => target' = NoTarget,
         target'.origin = "Moved" => status' \in Failures \cup {"executor"}
  PROVE  IInv'
<1>1. TypeOK
  BY DEF IInv
<1>2. commanding' = FALSE /\ ClearMixer
  BY DEF CancelTeleopInput
<1>3. horizontal' = NoSlot /\ vertical' = NoSlot
  BY <1>2 DEF ClearMixer
<1>4. TypeOK'
  BY <1>1, <1>2, EmptyMixerTyped, TypeFrom DEF TypeOK, vehicle
<1> QED
  BY <1>2, <1>3, <1>4, EmptyMixerRecent DEF IInv, InactiveIsEmpty, CommandLossStops,
     CommandingOwnsTarget, AbandonedTargetIsReported

LEMMA HooksKeep ==
  ASSUME IInv, OnActivate \/ OnDeactivate
  PROVE  IInv'
<1>1. TypeOK /\ CancelTeleopInput
  BY DEF IInv, OnActivate, OnDeactivate
<1>2. commanding' = FALSE /\ ClearMixer /\ horizontal' = NoSlot /\ vertical' = NoSlot
  BY <1>1 DEF CancelTeleopInput, ClearMixer
<1>3. target' \in Targets /\ target'.origin # "Moved" /\ (~active' => target' = NoTarget)
  <2>1. CASE OnActivate
    <3>1. target = NoTarget
      BY <2>1 DEF OnActivate, IInv, InactiveIsEmpty
    <3> QED
      BY <1>1, <2>1, <3>1, CaptureTyped
         DEF OnActivate, CaptureCurrentTarget, Captured, NoTarget
  <2>2. CASE OnDeactivate
    BY <2>2 DEF OnDeactivate, NoTarget, Targets
  <2> QED
    BY <2>1, <2>2
<1>4. /\ active' \in BOOLEAN /\ updated' \in BOOLEAN /\ status' \in Statuses
      /\ UNCHANGED <<armed, position, heading, sinceMove>>
  BY <1>1 DEF OnActivate, OnDeactivate, Statuses, Failures, TypeOK
<1>5. TypeOK'
  BY <1>1, <1>2, <1>3, <1>4, EmptyMixerTyped, TypeFrom DEF TypeOK
<1> QED
  BY <1>2, <1>3, <1>5, EmptyMixerRecent DEF IInv, InactiveIsEmpty, CommandLossStops,
     CommandingOwnsTarget, AbandonedTargetIsReported

\* A command that moves is fresh, so a command to move was accepted in time.
LEMMA MovingIsRecent ==
  ASSUME IInv, Moving
  PROVE  sinceMove <= TeleopTimeout
<1>1. PICK slot \in {horizontal, vertical} : Moves(slot)
  BY DEF Moving
<1>2. /\ slot.age \in Ages /\ slot.age <= TeleopTimeout /\ sinceMove <= slot.age
      /\ sinceMove \in Ages
  BY <1>1 DEF IInv, TypeOK, SlotsAreRecent, Recent, Moves, Fresh
<1> QED
  BY <1>2, AgesBounds, TimeoutIsNat

LEMMA ApplyKeeps ==
  ASSUME IInv, UpdateSetpoint, Moving, ApplyTeleopCommand
  PROVE  IInv'
<1> DEFINE base == IF target = NoTarget THEN Captured ELSE target
<1>1. TypeOK /\ active /\ updated' = TRUE /\ UNCHANGED <<vehicle, sinceMove>>
  BY DEF IInv, UpdateSetpoint
<1>2. target \in Targets /\ base \in Targets
  BY <1>1, CapturedTyped DEF TypeOK, Targets
<1>3. CASE CancelTeleopInput /\ target' \in {target, base} /\ status' \in Failures
  <2>1. target' \in Targets /\ status' \in Statuses /\ active'
    BY <1>1, <1>2, <1>3 DEF Statuses, vehicle
  <2> QED
    BY <1>1, <1>3, <2>1, CancelKeeps
<1>4. CASE /\ target'.origin = "Moved" /\ target' \in Targets /\ commanding' = TRUE
           /\ status' \in {status, "teleop_active"} /\ UNCHANGED mixer
  <2>1. status' \in Statuses
    BY <1>1, <1>4 DEF TypeOK, Statuses
  <2>2. TypeOK'
    BY <1>1, <1>4, <2>1, TypeFrom
       DEF TypeOK, vehicle, mixer, HorizontalSlots, VerticalSlots
  <2>3. SlotsAreRecent'
    BY <1>1, <1>4 DEF IInv, SlotsAreRecent, Recent, mixer
  <2>4. sinceMove' <= TeleopTimeout /\ active'
    BY <1>1, MovingIsRecent DEF vehicle
  <2> QED
    BY <1>4, <2>2, <2>3, <2>4 DEF IInv, InactiveIsEmpty, CommandLossStops,
       CommandingOwnsTarget, AbandonedTargetIsReported
<1>5. ASSUME NEW turns \in BOOLEAN,
             target' = [origin |-> "Moved", heading |-> base.heading \/ turns]
      PROVE  target' \in Targets /\ target'.origin = "Moved"
  <2>1. (base.heading \/ turns) \in BOOLEAN
    BY Zenon
  <2> QED
    BY <1>5, <2>1 DEF Targets, Origins
<1>6. (Moves(vertical) /\ vertical.command = "turn") \in BOOLEAN
  BY Zenon
<1> QED
  BY <1>3, <1>4, <1>5, <1>6 DEF ApplyTeleopCommand, Failures

LEMMA StopKeeps ==
  ASSUME IInv, UpdateSetpoint, StopTeleop
  PROVE  IInv'
<1>1. TypeOK /\ active /\ updated' = TRUE /\ UNCHANGED <<vehicle, sinceMove>>
  BY DEF IInv, UpdateSetpoint
<1>2. /\ CancelTeleopInput /\ CaptureCurrentTarget
      /\ status' \in {"stop_failed", "teleop_timeout", "holding"}
      /\ ~position => status' = "stop_failed"
  BY DEF StopTeleop
<1>3. target' \in Targets /\ (position => target'.origin = "Captured")
  BY <1>1, <1>2, CaptureTyped
<1> QED
  BY <1>1, <1>2, <1>3, CancelKeeps DEF vehicle, Statuses, Failures

LEMMA UpdateKeeps ==
  ASSUME IInv, UpdateSetpoint
  PROVE  IInv'
<1>1. CASE ~Moving /\ ~commanding /\ UNCHANGED <<target, mixer, commanding, status>>
  <2>1. /\ updated' = TRUE /\ UNCHANGED <<vehicle, sinceMove>>
        /\ UNCHANGED <<target, horizontal, vertical, commanding, status>>
    BY <1>1 DEF UpdateSetpoint, mixer
  <2> QED
    BY <1>1, <2>1 DEF IInv, TypeOK, vehicle, SlotsAreRecent, Recent, InactiveIsEmpty,
       CommandLossStops, CommandingOwnsTarget, AbandonedTargetIsReported
<1> QED
  BY <1>1, ApplyKeeps, StopKeeps DEF UpdateSetpoint

LEMMA ReceiveHorizontalKeeps ==
  ASSUME IInv, NEW command \in HorizontalCommands, ReceiveHorizontalTeleop(command)
  PROVE  IInv'
<1>1. /\ active /\ horizontal' = [command |-> command, age |-> 0]
      /\ sinceMove' = IF command = "zero" THEN sinceMove ELSE 0
      /\ UNCHANGED <<active, armed, position, heading, target, vertical, commanding,
                     status, updated>>
  BY DEF ReceiveHorizontalTeleop, Accepts, vehicle
<1>2. sinceMove' \in Ages /\ sinceMove' <= sinceMove
  BY <1>1, AgesBounds DEF IInv, TypeOK
<1>3. horizontal' \in HorizontalSlots
  BY <1>1, AgesBounds DEF HorizontalSlots
<1>4. TypeOK'
  BY <1>1, <1>2, <1>3, TypeFrom DEF IInv, TypeOK, Targets, VerticalSlots
<1>5. SlotsAreRecent'
  <2>1. Recent(horizontal)'
    BY <1>1 DEF Recent
  <2>2. vertical = NoSlot \/ vertical.age \in Ages
    BY DEF IInv, TypeOK
  <2>3. Recent(vertical)'
    <3> SUFFICES ASSUME vertical' # NoSlot, vertical'.command # "zero"
                 PROVE  sinceMove' <= vertical'.age
      BY DEF Recent
    <3>1. sinceMove <= vertical.age
      BY <1>1 DEF IInv, SlotsAreRecent, Recent
    <3>2. sinceMove \in Nat /\ sinceMove' \in Nat /\ vertical.age \in Nat
      BY <1>1, <1>2, <2>2, AgesBounds DEF IInv, TypeOK
    <3> QED
      BY <1>1, <1>2, <3>1, <3>2
  <2> QED
    BY <2>1, <2>3 DEF SlotsAreRecent
<1>6. CommandLossStops'
  BY <1>1, <1>2, AgesBounds, TimeoutIsNat DEF IInv, TypeOK, CommandLossStops
<1> QED
  BY <1>1, <1>4, <1>5, <1>6 DEF IInv, InactiveIsEmpty, CommandingOwnsTarget,
     AbandonedTargetIsReported

LEMMA ReceiveVerticalYawKeeps ==
  ASSUME IInv, NEW command \in VerticalCommands, ReceiveVerticalYawTeleop(command)
  PROVE  IInv'
<1>1. /\ active /\ vertical' = [command |-> command, age |-> 0]
      /\ sinceMove' = IF command = "zero" THEN sinceMove ELSE 0
      /\ UNCHANGED <<active, armed, position, heading, target, horizontal, commanding,
                     status, updated>>
  BY DEF ReceiveVerticalYawTeleop, Accepts, vehicle
<1>2. sinceMove' \in Ages /\ sinceMove' <= sinceMove
  BY <1>1, AgesBounds DEF IInv, TypeOK
<1>3. vertical' \in VerticalSlots
  BY <1>1, AgesBounds DEF VerticalSlots
<1>4. TypeOK'
  BY <1>1, <1>2, <1>3, TypeFrom DEF IInv, TypeOK, Targets, HorizontalSlots
<1>5. SlotsAreRecent'
  <2>1. Recent(vertical)'
    BY <1>1 DEF Recent
  <2>2. horizontal = NoSlot \/ horizontal.age \in Ages
    BY DEF IInv, TypeOK
  <2>3. Recent(horizontal)'
    <3> SUFFICES ASSUME horizontal' # NoSlot, horizontal'.command # "zero"
                 PROVE  sinceMove' <= horizontal'.age
      BY DEF Recent
    <3>1. sinceMove <= horizontal.age
      BY <1>1 DEF IInv, SlotsAreRecent, Recent
    <3>2. sinceMove \in Nat /\ sinceMove' \in Nat /\ horizontal.age \in Nat
      BY <1>1, <1>2, <2>2, AgesBounds DEF IInv, TypeOK
    <3> QED
      BY <1>1, <1>2, <3>1, <3>2
  <2> QED
    BY <2>1, <2>3 DEF SlotsAreRecent
<1>6. CommandLossStops'
  BY <1>1, <1>2, AgesBounds, TimeoutIsNat DEF IInv, TypeOK, CommandLossStops
<1> QED
  BY <1>1, <1>4, <1>5, <1>6 DEF IInv, InactiveIsEmpty, CommandingOwnsTarget,
     AbandonedTargetIsReported

\* The steps that cancel the input: a setpoint and the executor's requests.
LEMMA ReplacementsKeep ==
  ASSUME IInv,
         \/ \E withHeading \in BOOLEAN : ReceiveSetpoint(withHeading)
         \/ HoldInPlace
         \/ RequestTakesOver
  PROVE  IInv'
<1>1. TypeOK /\ updated' \in BOOLEAN
  BY DEF IInv, TypeOK, ReceiveSetpoint, HoldInPlace, RequestTakesOver
<1>2. CASE \E withHeading \in BOOLEAN : ReceiveSetpoint(withHeading)
  <2>1. PICK withHeading \in BOOLEAN : ReceiveSetpoint(withHeading)
    BY <1>2
  <2>2. target' \in Targets /\ target'.origin = "Setpoint"
    BY <2>1 DEF ReceiveSetpoint, Targets, Origins
  <2>3. status' \in Statuses /\ active'
    BY <2>1 DEF ReceiveSetpoint, Accepts, Statuses, vehicle
  <2> QED
    BY <1>1, <2>1, <2>2, <2>3, CancelKeeps DEF ReceiveSetpoint
<1>3. CASE HoldInPlace
  <2>1. target' \in Targets /\ (position => target'.origin = "Captured")
    BY <1>1, <1>3, CaptureTyped DEF HoldInPlace
  <2>2. /\ status' \in Statuses /\ active'
        /\ ~position => status' \in Failures
    BY <1>3 DEF HoldInPlace, Accepts, Statuses, Failures, vehicle
  <2> QED
    BY <1>1, <1>3, <2>1, <2>2, CancelKeeps DEF HoldInPlace
<1>4. CASE RequestTakesOver
  <2>1. target' \in Targets /\ status' = "executor" /\ status' \in Statuses
    BY <1>1, <1>4 DEF RequestTakesOver, TypeOK, Targets, Statuses
  <2>2. ~active' => target' = NoTarget
    BY <1>4 DEF RequestTakesOver, vehicle, IInv, InactiveIsEmpty
  <2> QED
    BY <1>1, <1>4, <2>1, <2>2, CancelKeeps DEF RequestTakesOver
<1> QED
  BY <1>2, <1>3, <1>4

LEMMA TickKeeps ==
  ASSUME IInv, Tick
  PROVE  IInv'
<1>1. /\ updated' = FALSE
      /\ horizontal' = OlderSlot(horizontal) /\ vertical' = OlderSlot(vertical)
      /\ sinceMove' = Older(sinceMove)
      /\ UNCHANGED <<active, armed, position, heading, target, commanding, status>>
  BY DEF Tick, vehicle
<1>2. TypeOK
  BY DEF IInv
<1>3. horizontal' \in HorizontalSlots /\ vertical' \in VerticalSlots
  BY <1>1, <1>2, OlderSlotTyped DEF TypeOK, HorizontalSlots, VerticalSlots
<1>4. TypeOK'
  BY <1>1, <1>2, <1>3, OlderTyped, TypeFrom DEF TypeOK, Targets
<1>5. SlotsAreRecent'
  <2>1. /\ NoSlot \notin [command : HorizontalCommands, age : Ages]
        /\ NoSlot \notin [command : VerticalCommands, age : Ages]
    BY DEF NoSlot, HorizontalCommands, VerticalCommands
  <2>2. Recent(horizontal)'
    BY <1>1, <1>2, <2>1, RecentGetsOlder DEF IInv, TypeOK, SlotsAreRecent, Recent
  <2>3. Recent(vertical)'
    BY <1>1, <1>2, <2>1, RecentGetsOlder DEF IInv, TypeOK, SlotsAreRecent, Recent
  <2> QED
    BY <2>2, <2>3 DEF SlotsAreRecent
<1>6. InactiveIsEmpty'
  BY <1>1 DEF IInv, InactiveIsEmpty, OlderSlot
<1> QED
  BY <1>1, <1>4, <1>5, <1>6 DEF IInv, CommandLossStops, CommandingOwnsTarget,
     AbandonedTargetIsReported

-----------------------------------------------------------------------------
(* The specification.                                                       *)

LEMMA InitEstablishes == Init => IInv
<1> SUFFICES ASSUME Init PROVE IInv
  OBVIOUS
<1>1. TypeOK
  <2>1. sinceMove \in Ages
    BY AgesBounds DEF Init
  <2>2. status \in Statuses
    BY DEF Init, Statuses
  <2> QED
    BY <2>1, <2>2 DEF Init, TypeOK
<1>2. ~active /\ ~commanding /\ target = NoTarget /\ horizontal = NoSlot /\ vertical = NoSlot
  BY DEF Init
<1> QED
  BY <1>1, <1>2 DEF IInv, SlotsAreRecent, Recent, InactiveIsEmpty, CommandLossStops,
     CommandingOwnsTarget, AbandonedTargetIsReported, NoTarget

LEMMA InvariantStep == IInv /\ [Next]_vars => IInv'
<1> SUFFICES ASSUME IInv, [Next]_vars PROVE IInv'
  OBVIOUS
<1>1. CASE ExecutorReports
  <2>1. status' = "executor" /\ status' \in Statuses
    BY <1>1 DEF ExecutorReports, Statuses
  <2> QED
    BY <1>1, <2>1 DEF ExecutorReports, vehicle, mixer, IInv, TypeOK, SlotsAreRecent,
       Recent, InactiveIsEmpty, CommandLossStops, CommandingOwnsTarget,
       AbandonedTargetIsReported
<1>2. CASE VehicleReports
  BY <1>2 DEF VehicleReports, mixer, IInv, TypeOK, SlotsAreRecent, Recent,
     InactiveIsEmpty, CommandLossStops, CommandingOwnsTarget, AbandonedTargetIsReported
<1>3. CASE UNCHANGED vars
  BY <1>3 DEF vars, vehicle, mixer, IInv, TypeOK, SlotsAreRecent, Recent,
     InactiveIsEmpty, CommandLossStops, CommandingOwnsTarget, AbandonedTargetIsReported
<1> QED
  BY <1>1, <1>2, <1>3, HooksKeep, UpdateKeeps, ReceiveHorizontalKeeps,
     ReceiveVerticalYawKeeps, ReplacementsKeep, TickKeeps DEF Next

LEMMA InvariantHolds == Spec => []IInv
BY InitEstablishes, InvariantStep, PTL DEF Spec

\* Type correctness, for every teleop timeout.
THEOREM TypeCorrect == Spec => []TypeOK
<1>1. IInv => TypeOK
  BY DEF IInv
<1> QED
  BY <1>1, InvariantHolds, PTL

\* A mode that is not active keeps no target and no teleop input.
THEOREM InactiveAlwaysEmpty == Spec => []InactiveIsEmpty
<1>1. IInv => InactiveIsEmpty
  BY DEF IInv
<1> QED
  BY <1>1, InvariantHolds, PTL

\* Teleop never commands longer than the timeout after its last command to move.
THEOREM CommandLossAlwaysStops == Spec => []CommandLossStops
<1>1. IInv => CommandLossStops
  BY DEF IInv
<1> QED
  BY <1>1, InvariantHolds, PTL

\* While teleop commands, nothing else has replaced the target.
THEOREM CommandingAlwaysOwnsTarget == Spec => []CommandingOwnsTarget
<1>1. IInv => CommandingOwnsTarget
  BY DEF IInv
<1> QED
  BY <1>1, InvariantHolds, PTL

\* A moved target that nobody commands any more is always reported.
THEOREM AbandonedTargetAlwaysReported == Spec => []AbandonedTargetIsReported
<1>1. IInv => AbandonedTargetIsReported
  BY DEF IInv
<1> QED
  BY <1>1, InvariantHolds, PTL

-----------------------------------------------------------------------------
(* The refinement of SharedControl.                                         *)

LEMMA CancelReleases ==
  ASSUME CancelTeleopInput
  PROVE  ~Moving' /\ commanding' = FALSE
BY DEF CancelTeleopInput, ClearMixer, Moving, Moves, Fresh

\* Input that is cancelled with the target as it was leaves the vehicle.
LEMMA ReleaseLeaves ==
  ASSUME TypeOK, CancelTeleopInput, UNCHANGED target
  PROVE  Shared!Release
<1>1. Moving' = FALSE /\ commanding' = FALSE
  BY CancelReleases DEF Moving
<1>2. target = NoTarget \/ target.origin \in Origins
  BY DEF TypeOK
<1>3. Leader' = IF Leader = "Operator" THEN "Left" ELSE Leader
  BY <1>1, <1>2 DEF Leader, Origins
<1> QED
  BY <1>1, <1>3 DEF Shared!Release

\* With a position the capture holds it, without one the target stays.
LEMMA CaptureHolds ==
  ASSUME TypeOK, CancelTeleopInput, CaptureCurrentTarget,
         position => status' \in {"holding", "teleop_timeout"},
         ~position => status' \in Failures
  PROVE  Shared!TryToHold
<1>1. CASE position
  <2>1. Leader' = "Position"
    BY <1>1 DEF CaptureCurrentTarget, Captured, NoTarget, Leader
  <2>2. Moving' = FALSE
    BY CancelReleases DEF Moving
  <2>3. Told' = FALSE
    BY <1>1 DEF Told, Failures
  <2> QED
    BY <2>1, <2>2, <2>3 DEF Shared!TryToHold, Shared!Hold
<1>2. CASE ~position
  <2>1. Shared!Release
    BY <1>2, ReleaseLeaves DEF CaptureCurrentTarget
  <2>2. Told' = TRUE
    BY <1>2 DEF Told
  <2> QED
    BY <2>1, <2>2 DEF Shared!TryToHold
<1> QED
  BY <1>1, <1>2

LEMMA HooksRefine ==
  ASSUME IInv
  PROVE  /\ OnActivate => Shared!Engage
         /\ OnDeactivate => Shared!Disengage
<1>1. TypeOK
  BY DEF IInv
<1>2. ASSUME OnActivate PROVE Shared!Engage
  <2>1. Leader = "Nobody"
    BY <1>2 DEF OnActivate, IInv, InactiveIsEmpty, Leader
  <2>2. Shared!TryToHold
    BY <1>1, <1>2, CaptureHolds DEF OnActivate, Failures
  <2> QED
    BY <1>2, <2>1, <2>2 DEF OnActivate, Shared!Engage
<1>3. ASSUME OnDeactivate PROVE Shared!Disengage
  <2>1. Leader' = "Nobody"
    BY <1>3 DEF OnDeactivate, Leader
  <2>2. Moving' = FALSE
    BY <1>3, CancelReleases DEF OnDeactivate, Moving
  <2>3. UNCHANGED Told
    BY <1>3 DEF OnDeactivate, Told
  <2> QED
    BY <1>3, <2>1, <2>2, <2>3 DEF OnDeactivate, Shared!Disengage
<1> QED
  BY <1>2, <1>3

\* An operator commands only a target that teleop moves.
LEMMA LeaderCommands ==
  ASSUME IInv
  PROVE  commanding <=> Leader = "Operator"
BY DEF IInv, TypeOK, CommandingOwnsTarget, Leader, NoTarget, Origins

LEMMA ApplyRefines ==
  ASSUME IInv, Moving, ApplyTeleopCommand
  PROVE  Shared!Follow \/ Shared!Refuse
<1> DEFINE base == IF target = NoTarget THEN Captured ELSE target
<1>1. TypeOK /\ Moving = TRUE
  BY DEF IInv, Moving
<1>2. CASE CancelTeleopInput /\ target' \in {target, base} /\ status' \in Failures
  <2>1. Told' = TRUE
    BY <1>2 DEF Told
  <2>2. CASE target' = target
    BY <1>1, <1>2, <2>1, <2>2, ReleaseLeaves DEF Shared!Refuse
  <2>3. CASE target' # target
    <3>1. target = NoTarget /\ target' = Captured
      BY <1>2, <2>3
    <3>2. Leader = "Nobody" /\ Leader' = "Position"
      BY <3>1 DEF Leader, Captured, NoTarget
    <3>3. Moving' = FALSE
      BY <1>2, CancelReleases DEF Moving
    <3> QED
      BY <1>1, <2>1, <3>2, <3>3 DEF Shared!Refuse
  <2> QED
    BY <2>2, <2>3
<1>3. CASE /\ target'.origin = "Moved" /\ target' # NoTarget /\ commanding' = TRUE
           /\ status' = (IF commanding THEN status ELSE "teleop_active")
           /\ UNCHANGED mixer
  <2>1. Leader' = "Operator"
    BY <1>3 DEF Leader
  <2>2. Told' = (Leader = "Operator" /\ Told)
    BY <1>3, LeaderCommands DEF Told, Failures
  <2>3. UNCHANGED Moving
    BY <1>3 DEF mixer, Moving, Moves, Fresh
  <2> QED
    BY <1>1, <2>1, <2>2, <2>3 DEF Shared!Follow
<1>4. ASSUME NEW turns, target' = [origin |-> "Moved", heading |-> base.heading \/ turns]
      PROVE  target'.origin = "Moved" /\ target' # NoTarget
  BY <1>4 DEF NoTarget
<1> QED
  BY <1>2, <1>3, <1>4 DEF ApplyTeleopCommand, Failures

LEMMA UpdateRefines ==
  ASSUME IInv, UpdateSetpoint
  PROVE  Shared!React
<1>1. active /\ UNCHANGED active /\ updated' = TRUE /\ TypeOK
  BY DEF UpdateSetpoint, vehicle, IInv
<1>2. CASE Moving /\ ApplyTeleopCommand
  BY <1>1, <1>2, ApplyRefines DEF Shared!React
<1>3. CASE ~Moving /\ commanding /\ StopTeleop
  <2>1. Shared!TryToHold
    BY <1>1, <1>3, CaptureHolds DEF StopTeleop, Failures
  <2> QED
    BY <1>1, <1>3, <2>1, LeaderCommands DEF Shared!React, Shared!Stop
<1>4. CASE ~Moving /\ ~commanding /\ UNCHANGED <<target, mixer, commanding, status>>
  <2>1. UNCHANGED <<Leader, Moving, Told>>
    BY <1>4 DEF Leader, mixer, Moving, Moves, Fresh, Told
  <2> QED
    BY <1>1, <1>4, <2>1, LeaderCommands DEF Shared!React, Shared!Rest
<1> QED
  BY <1>2, <1>3, <1>4 DEF UpdateSetpoint

LEMMA MessagesRefine ==
  ASSUME IInv
  PROVE  /\ \A command \in HorizontalCommands : ReceiveHorizontalTeleop(command) => Shared!Ask
         /\ \A command \in VerticalCommands : ReceiveVerticalYawTeleop(command) => Shared!Ask
         /\ \A withHeading \in BOOLEAN : ReceiveSetpoint(withHeading) => Shared!Place
<1>1. ASSUME active, UNCHANGED <<active, target, commanding, status, updated>>
      PROVE  Shared!Ask
  <2>1. UNCHANGED <<Leader, Told>>
    BY <1>1 DEF Leader, Told
  <2>2. Moving' \in BOOLEAN
    BY DEF Moving, Moves, Fresh
  <2> QED
    BY <1>1, <2>1, <2>2 DEF Shared!Ask
<1>2. ASSUME NEW command, ReceiveHorizontalTeleop(command) PROVE Shared!Ask
  BY <1>1, <1>2 DEF ReceiveHorizontalTeleop, Accepts, vehicle
<1>3. ASSUME NEW command, ReceiveVerticalYawTeleop(command) PROVE Shared!Ask
  BY <1>1, <1>3 DEF ReceiveVerticalYawTeleop, Accepts, vehicle
<1>4. ASSUME NEW withHeading, ReceiveSetpoint(withHeading) PROVE Shared!Place
  <2>1. Leader' = "Setpoint"
    BY <1>4 DEF ReceiveSetpoint, Leader, NoTarget
  <2>2. Told' = FALSE
    BY <1>4 DEF ReceiveSetpoint, Told, Failures
  <2>3. Moving = FALSE /\ Moving' = FALSE
    BY <1>4, CancelReleases DEF ReceiveSetpoint, Moving
  <2> QED
    BY <1>4, <2>1, <2>2, <2>3 DEF ReceiveSetpoint, Accepts, vehicle, Shared!Place
<1> QED
  BY <1>2, <1>3, <1>4

LEMMA RequestsRefine ==
  ASSUME IInv
  PROVE  /\ HoldInPlace => Shared!HoldHere
         /\ RequestTakesOver => Shared!Withdraw
         /\ ExecutorReports => Shared!ReportOther
<1>1. TypeOK
  BY DEF IInv
<1>2. ASSUME HoldInPlace PROVE Shared!HoldHere
  <2>1. Shared!TryToHold
    BY <1>1, <1>2, CaptureHolds DEF HoldInPlace, Failures
  <2> QED
    BY <1>2, <2>1 DEF HoldInPlace, Accepts, vehicle, Shared!HoldHere
<1>3. ASSUME RequestTakesOver PROVE Shared!Withdraw
  <2>1. Shared!Release
    BY <1>1, <1>3, ReleaseLeaves DEF RequestTakesOver
  <2>2. Told' = TRUE
    BY <1>3 DEF RequestTakesOver, Told
  <2> QED
    BY <1>3, <2>1, <2>2 DEF RequestTakesOver, vehicle, Shared!Withdraw
<1>4. ASSUME ExecutorReports PROVE Shared!ReportOther
  <2>1. UNCHANGED <<Leader, Moving>>
    BY <1>4 DEF ExecutorReports, Leader, mixer, Moving, Moves, Fresh
  <2>2. Told' = TRUE
    BY <1>4 DEF ExecutorReports, Told
  <2> QED
    BY <1>4, <2>1, <2>2 DEF ExecutorReports, vehicle, Shared!ReportOther
<1> QED
  BY <1>2, <1>3, <1>4

\* A command does not become fresh by getting older.
LEMMA OlderExpires ==
  ASSUME NEW commands, NEW slot \in [command : commands, age : Ages] \cup {NoSlot},
         Moves(OlderSlot(slot))
  PROVE  Moves(slot)
<1>1. slot # NoSlot
  BY DEF Moves, Fresh, OlderSlot
<1>2. /\ OlderSlot(slot).command = slot.command
      /\ OlderSlot(slot).age = Older(slot.age)
      /\ slot.age \in Ages
  BY <1>1 DEF OlderSlot
<1>3. Older(slot.age) <= TeleopTimeout
  BY <1>2 DEF Moves, Fresh
<1>4. slot.age <= TeleopTimeout
  BY <1>2, <1>3, TimeoutIsNat DEF Older, Ages
<1> QED
  BY <1>1, <1>2, <1>4 DEF Moves, Fresh

LEMMA TickRefines ==
  ASSUME IInv, Tick
  PROVE  Shared!Pass
<1>1. UNCHANGED <<Leader, Told>>
  BY DEF Tick, Leader, Told
<1>2. Moving' => Moving
  <2>1. /\ Moves(OlderSlot(horizontal)) => Moves(horizontal)
        /\ Moves(OlderSlot(vertical)) => Moves(vertical)
    BY OlderExpires DEF IInv, TypeOK
  <2>2. Moving' = (Moves(OlderSlot(horizontal)) \/ Moves(OlderSlot(vertical)))
    BY DEF Tick, Moving, Moves, Fresh
  <2> QED
    BY <2>1, <2>2 DEF Moving
<1>3. Moving' \in {Moving, FALSE}
  BY <1>2 DEF Moving
<1> QED
  BY <1>1, <1>3 DEF Tick, vehicle, Shared!Pass

LEMMA StepRefines == IInv /\ [Next]_vars => [Shared!Next]_Shared!vars
<1> SUFFICES ASSUME IInv, [Next]_vars PROVE [Shared!Next]_Shared!vars
  OBVIOUS
<1>1. CASE VehicleReports \/ UNCHANGED vars
  <2>1. UNCHANGED <<active, updated, target, horizontal, vertical, commanding, status>>
    BY <1>1 DEF VehicleReports, vars, vehicle, mixer
  <2>2. UNCHANGED <<Leader, Moving, Told>>
    BY <2>1 DEF Leader, Moving, Moves, Fresh, Told
  <2> QED
    BY <2>1, <2>2 DEF Shared!vars
<1>2. CASE OnActivate \/ OnDeactivate
  BY <1>2, HooksRefine DEF Shared!Next
<1>3. CASE UpdateSetpoint
  BY <1>3, UpdateRefines DEF Shared!Next
<1>4. CASE \/ \E command \in HorizontalCommands : ReceiveHorizontalTeleop(command)
           \/ \E command \in VerticalCommands : ReceiveVerticalYawTeleop(command)
           \/ \E withHeading \in BOOLEAN : ReceiveSetpoint(withHeading)
  BY <1>4, MessagesRefine DEF Shared!Next
<1>5. CASE HoldInPlace \/ RequestTakesOver \/ ExecutorReports
  BY <1>5, RequestsRefine DEF Shared!Next
<1>6. CASE Tick
  BY <1>6, TickRefines DEF Shared!Next
<1> QED
  BY <1>1, <1>2, <1>3, <1>4, <1>5, <1>6 DEF Next

\* The mode implements SharedControl, for every teleop timeout: whatever order
\* commands, setpoints, holds and requests come in, one leader at a time moves the
\* vehicle, and which one changes only as SharedControl says.
THEOREM ControlIsShared == Spec => SharesControl
<1>1. Init => Shared!Init
  <2> SUFFICES ASSUME Init PROVE Shared!Init
    OBVIOUS
  <2>1. Leader = "Nobody" /\ Moving = FALSE /\ Told = FALSE
    BY DEF Init, Leader, Moving, Moves, Fresh, Told, Failures
  <2> QED
    BY <2>1 DEF Init, Shared!Init
<1> QED
  BY <1>1, StepRefines, InvariantHolds, PTL DEF Spec, SharesControl, Shared!Spec
=============================================================================
