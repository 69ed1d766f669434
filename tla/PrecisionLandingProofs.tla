------------------------ MODULE PrecisionLandingProofs ------------------------
(***************************************************************************)
(* Proofs about PrecisionLanding, for all timeouts the constructor accepts. *)
(* The argument is one inductive invariant: the typing, the three safety    *)
(* invariants, and AlignmentIsSteady, which says that the alignment clock   *)
(* never runs ahead of what the updates have seen.                          *)
(***************************************************************************)
EXTENDS PrecisionLanding, TLAPS

\* While the mode still aligns, its clock counts no tick from before the last
\* misaligned update or the activation.
AlignmentIsSteady == ~descending /\ alignedFor # Never => alignedFor <= steady

IInv ==
  /\ TypeOK
  /\ AlignmentIsSteady
  /\ DescentIsJustified
  /\ LostTargetIsNoticed
  /\ StatusMatchesPhase

-----------------------------------------------------------------------------
(* The helpers.                                                             *)

\* A saturated age keeps its range, and two ages keep their order.
LEMMA OlderTyped ==
  ASSUME NEW last \in Nat, NEW age \in 0..last \cup {Never}
  PROVE  Older(age, last) \in 0..last \cup {Never}
BY DEF Older, Never

LEMMA OlderMonotone ==
  ASSUME NEW last \in Nat, NEW a \in 0..last, NEW b \in 0..last, a <= b
  PROVE  Older(a, last) <= Older(b, last)
BY DEF Older, Never

LEMMA OlderReaches ==
  ASSUME NEW last \in Nat, NEW age \in 0..last
  PROVE  Older(age, last) \in 0..last
BY DEF Older, Never

LEMMA PublishTyped ==
  ASSUME TypeOK, NEW message \in Statuses, Publish(message)
  PROVE  status' \in Statuses /\ shown' \in Statuses \cup {"other"}
BY DEF Publish, TypeOK

LEMMA CompleteTyped ==
  ASSUME TypeOK, NEW res \in {"Success", "Failed"}, Complete(res)
  PROVE  result' \in {"Success", "Failed"}
BY DEF Complete, TypeOK

\* Descent goes on only within the realign tolerance and starts only aligned.
LEMMA TrackStaysClose ==
  ASSUME TypeOK, NEW error \in Errors, Track(error)
  PROVE  /\ descending' \in BOOLEAN
         /\ alignedFor' \in 0..AlignmentDwell \cup {Never}
         /\ descending' => error # "far"
<1>1. descending' \in BOOLEAN
  BY Zenon DEF Track
<1>2. alignedFor' \in 0..AlignmentDwell \cup {Never}
  BY TimeoutsOrdered DEF Track, TypeOK
<1>3. descending' => error # "far"
  BY DEF Track, Realigns, StartsDescent
<1> QED
  BY <1>1, <1>2, <1>3

LEMMA AnnouncementTyped ==
  ASSUME TypeOK, NEW error \in Errors
  PROVE  Announcement(error) \in Statuses
BY DEF Announcement, TypeOK, Statuses

-----------------------------------------------------------------------------
(* Type correctness.                                                        *)

LEMMA SteerTyped ==
  ASSUME TypeOK, NEW error \in Errors, NEW low \in BOOLEAN, Steer(error, low)
  PROVE  /\ waiting' = FALSE /\ descending' \in BOOLEAN
         /\ alignedFor' \in 0..AlignmentDwell \cup {Never}
         /\ result' \in {"None", "Success", "Failed"}
         /\ command' \in Commands
         /\ status' \in Statuses /\ shown' \in Statuses \cup {"other"}
         /\ seen' = error
<1>1. /\ descending' \in BOOLEAN /\ alignedFor' \in 0..AlignmentDwell \cup {Never}
      /\ waiting' = FALSE /\ seen' = error
  BY TrackStaysClose DEF Steer
<1>2. PICK message \in Statuses : Publish(message)
  <2>1. Announcement(error) \in Statuses /\ "handoff" \in Statuses
    BY AnnouncementTyped DEF Statuses
  <2> QED
    BY <2>1 DEF Steer
<1>3. status' \in Statuses /\ shown' \in Statuses \cup {"other"}
  BY <1>2, PublishTyped
<1>4. result' \in {"None", "Success", "Failed"}
  BY CompleteTyped DEF Steer, TypeOK
<1>5. command' \in Commands
  BY DEF Steer, TypeOK, Commands
<1> QED
  BY <1>1, <1>3, <1>4, <1>5

LEMMA UpdateTyped ==
  ASSUME TypeOK, NEW landed \in BOOLEAN, NEW attitude \in BOOLEAN,
         NEW error \in Errors, NEW low \in BOOLEAN,
         UpdateSetpoint(landed, attitude, error, low)
  PROVE  TypeOK'
<1>0. active' = active /\ updated' = TRUE /\ targetAge' = targetAge
  BY DEF UpdateSetpoint
<1>1. CASE Touchdown \/ LoseTarget
  <2>1. /\ result' \in {"None", "Success", "Failed"}
        /\ status' \in Statuses /\ shown' \in Statuses \cup {"other"}
    BY <1>1, CompleteTyped, PublishTyped DEF Touchdown, LoseTarget, Statuses
  <2>2. UNCHANGED <<descending, waiting, alignedFor, command, seen, steady>>
    BY <1>1 DEF Touchdown, LoseTarget, flight
  <2> QED
    BY <1>0, <2>1, <2>2 DEF TypeOK
<1>2. CASE WaitForTarget
  <2>1. status' \in Statuses /\ shown' \in Statuses \cup {"other"}
    BY <1>2, PublishTyped DEF WaitForTarget, Statuses
  <2>2. /\ waiting' \in BOOLEAN /\ command' \in Commands
        /\ UNCHANGED <<descending, alignedFor, result, seen, steady>>
    BY <1>2 DEF WaitForTarget, Commands
  <2> QED
    BY <1>0, <2>1, <2>2 DEF TypeOK
<1>3. CASE Steer(error, low)
  <2>1. steady' \in 0..AlignmentDwell
    <3>1. steady' = 0 \/ steady' = steady
      BY <1>3 DEF Steer
    <3>2. steady \in 0..AlignmentDwell /\ 0 \in 0..AlignmentDwell
      BY TimeoutsOrdered DEF TypeOK
    <3> QED
      BY <3>1, <3>2
  <2>2. /\ waiting' = FALSE /\ descending' \in BOOLEAN
        /\ alignedFor' \in 0..AlignmentDwell \cup {Never}
        /\ result' \in {"None", "Success", "Failed"}
        /\ command' \in Commands
        /\ status' \in Statuses /\ shown' \in Statuses \cup {"other"}
        /\ seen' \in Errors \cup {"none"}
    BY <1>3, SteerTyped
  <2> QED
    BY <1>0, <2>1, <2>2 DEF TypeOK
<1> QED
  BY <1>1, <1>2, <1>3 DEF UpdateSetpoint

LEMMA TickTyped ==
  ASSUME TypeOK, Tick
  PROVE  TypeOK'
<1>1. targetAge' \in 0..(TargetTimeout + 1) \cup {Never}
  BY OlderTyped, TimeoutsOrdered DEF Tick, TypeOK
<1>2. alignedFor' \in 0..AlignmentDwell \cup {Never}
  BY OlderTyped, TimeoutsOrdered DEF Tick, TypeOK
<1>3. steady' \in 0..AlignmentDwell
  BY OlderReaches, TimeoutsOrdered DEF Tick, TypeOK
<1>4. updated' = FALSE
      /\ UNCHANGED <<active, descending, waiting, result, command, seen, status, shown>>
  BY DEF Tick, output
<1> QED
  BY <1>1, <1>2, <1>3, <1>4 DEF TypeOK

LEMMA HooksTyped ==
  ASSUME TypeOK, OnActivate \/ OnDeactivate
  PROVE  TypeOK'
<1>1. CASE OnActivate
  <2>1. status' \in Statuses /\ shown' \in Statuses \cup {"other"}
    BY <1>1, PublishTyped DEF OnActivate, Statuses
  <2>2. /\ active' \in BOOLEAN /\ updated' \in BOOLEAN
        /\ descending' \in BOOLEAN /\ waiting' \in BOOLEAN
    BY <1>1 DEF OnActivate, Forget
  <2>3. /\ targetAge' = targetAge /\ alignedFor' = Never /\ result' = "None"
        /\ command' \in Commands /\ seen' = "none" /\ steady' \in 0..AlignmentDwell
    BY <1>1, TimeoutsOrdered DEF OnActivate, Forget, Commands
  <2> QED
    BY <2>1, <2>2, <2>3 DEF TypeOK
<1>2. CASE OnDeactivate
  BY <1>2 DEF OnDeactivate, Forget, output, TypeOK
<1> QED
  BY <1>1, <1>2

LEMMA TypeStep == TypeOK /\ [Next]_vars => TypeOK'
<1> SUFFICES ASSUME TypeOK, [Next]_vars PROVE TypeOK'
  OBVIOUS
<1>1. CASE OnActivate \/ OnDeactivate
  BY <1>1, HooksTyped
<1>2. CASE Update
  BY <1>2, UpdateTyped DEF Update
<1>3. CASE ReceiveTarget
  BY <1>3, TimeoutsOrdered DEF ReceiveTarget, flight, output, TypeOK
<1>4. CASE Tick
  BY <1>4, TickTyped
<1>5. CASE OtherStatus
  BY <1>5 DEF OtherStatus, flight, output, TypeOK
<1>6. CASE UNCHANGED vars
  BY <1>6 DEF vars, flight, output, TypeOK
<1> QED
  BY <1>1, <1>2, <1>3, <1>4, <1>5, <1>6 DEF Next

-----------------------------------------------------------------------------
(* The inductive step.                                                      *)

LEMMA UpdateKeeps ==
  ASSUME IInv, NEW landed \in BOOLEAN, NEW attitude \in BOOLEAN,
         NEW error \in Errors, NEW low \in BOOLEAN,
         UpdateSetpoint(landed, attitude, error, low)
  PROVE  /\ AlignmentIsSteady' /\ DescentIsJustified'
         /\ LostTargetIsNoticed' /\ StatusMatchesPhase'
<1>0. TypeOK /\ targetAge' = targetAge /\ active
  BY DEF UpdateSetpoint, IInv
<1>1. CASE Touchdown \/ LoseTarget
  <2>1. result' # "None"
    BY <1>0, <1>1, CompleteTyped DEF Touchdown, LoseTarget
  <2>2. AlignmentIsSteady'
    BY <1>1 DEF Touchdown, LoseTarget, flight, IInv, AlignmentIsSteady
  <2> QED
    BY <2>1, <2>2 DEF DescentIsJustified, LostTargetIsNoticed, StatusMatchesPhase
<1>2. CASE WaitForTarget /\ TargetReady(attitude)
  <2>1. AlignmentIsSteady'
    BY <1>2 DEF WaitForTarget, IInv, AlignmentIsSteady
  <2>2. LostTargetIsNoticed'
    BY <1>0, <1>2 DEF TargetReady, TargetFresh, LostTargetIsNoticed
  <2>3. DescentIsJustified' /\ StatusMatchesPhase'
    BY <1>2 DEF WaitForTarget, Publish, DescentIsJustified, StatusMatchesPhase
  <2> QED
    BY <2>1, <2>2, <2>3
<1>3. CASE Steer(error, low) /\ TargetReady(attitude) /\ TargetFresh(CommandTimeout)
  <2>1. Track(error) /\ waiting' = FALSE /\ seen' = error
    BY <1>3 DEF Steer
  <2>2. LostTargetIsNoticed'
    BY <1>0, <1>3 DEF TargetReady, TargetFresh, LostTargetIsNoticed
  <2>3. DescentIsJustified'
    <3>1. CASE result' # "None"
      BY <3>1 DEF DescentIsJustified
    <3>2. CASE result' = "None"
      <4>1. command' = "Descend" => descending'
        BY <1>0, <1>3, <3>2 DEF Steer, Complete, TypeOK
      <4>2. descending' => seen' \in {"aligned", "near"}
        BY <1>0, <2>1, TrackStaysClose DEF Errors
      <4> QED
        BY <1>0, <1>3, <4>1, <4>2 DEF DescentIsJustified, TargetFresh
    <3> QED
      BY <3>1, <3>2
  <2>4. StatusMatchesPhase'
    <3>1. CASE result' # "None"
      BY <3>1 DEF StatusMatchesPhase
    <3>2. CASE result' = "None"
      <4>1. result = "None" /\ status' = Announcement(error)
        BY <1>0, <1>3, <3>2 DEF Steer, Complete, Publish, TypeOK
      <4>2. /\ waiting <=> status = "waiting_for_target"
            /\ ~waiting => (descending <=> status = "descending")
        BY <1>0, <4>1 DEF IInv, StatusMatchesPhase
      <4>3. status' # "waiting_for_target"
        BY <4>1, <4>2 DEF Announcement
      <4>4. descending' <=> status' = "descending"
        BY <1>0, <2>1, <4>1, <4>2 DEF Track, Announcement, Realigns, StartsDescent, TypeOK
      <4> QED
        BY <2>1, <4>3, <4>4 DEF StatusMatchesPhase
    <3> QED
      BY <3>1, <3>2
  <2>5. AlignmentIsSteady'
    BY <1>0, <1>3, <2>1 DEF IInv, Steer, Track, Realigns, AlignmentIsSteady, TypeOK, Never
  <2> QED
    BY <2>2, <2>3, <2>4, <2>5
<1> QED
  BY <1>1, <1>2, <1>3 DEF UpdateSetpoint

LEMMA TickKeeps ==
  ASSUME IInv, Tick
  PROVE  /\ AlignmentIsSteady' /\ DescentIsJustified'
         /\ LostTargetIsNoticed' /\ StatusMatchesPhase'
<1>1. ~updated'
  BY DEF Tick
<1>2. DescentIsJustified' /\ LostTargetIsNoticed'
  BY <1>1 DEF DescentIsJustified, LostTargetIsNoticed
<1>3. StatusMatchesPhase'
  BY DEF Tick, output, IInv, StatusMatchesPhase
<1>4. AlignmentIsSteady'
  <2>1. CASE alignedFor = Never
    BY <2>1 DEF Tick, Older, AlignmentIsSteady
  <2>2. CASE descending
    BY <2>2 DEF Tick, AlignmentIsSteady
  <2>3. CASE ~descending /\ alignedFor # Never
    <3>1. /\ alignedFor \in 0..AlignmentDwell /\ steady \in 0..AlignmentDwell
          /\ alignedFor <= steady /\ AlignmentDwell \in Nat
      BY <2>3, TimeoutsOrdered DEF IInv, TypeOK, AlignmentIsSteady
    <3>2. Older(alignedFor, AlignmentDwell) <= Older(steady, AlignmentDwell)
      BY <3>1, OlderMonotone
    <3> QED
      BY <3>2 DEF Tick, AlignmentIsSteady
  <2> QED
    BY <2>1, <2>2, <2>3
<1> QED
  BY <1>2, <1>3, <1>4

LEMMA InvariantStep == IInv /\ [Next]_vars => IInv'
<1> SUFFICES ASSUME IInv, [Next]_vars PROVE IInv'
  OBVIOUS
<1>0. TypeOK'
  BY TypeStep DEF IInv
<1>1. CASE OnActivate
  BY <1>0, <1>1 DEF OnActivate, Forget, Publish, IInv, AlignmentIsSteady,
     DescentIsJustified, LostTargetIsNoticed, StatusMatchesPhase
<1>2. CASE OnDeactivate
  BY <1>0, <1>2 DEF OnDeactivate, Forget, IInv, AlignmentIsSteady,
     DescentIsJustified, LostTargetIsNoticed, StatusMatchesPhase
<1>3. CASE Update
  BY <1>0, <1>3, UpdateKeeps DEF Update, IInv
<1>4. CASE ReceiveTarget
  BY <1>0, <1>4, TimeoutsOrdered DEF ReceiveTarget, flight, output, IInv, AlignmentIsSteady,
     DescentIsJustified, LostTargetIsNoticed, StatusMatchesPhase, TargetFresh, Never
<1>5. CASE Tick
  BY <1>0, <1>5, TickKeeps DEF IInv
<1>6. CASE OtherStatus
  BY <1>0, <1>6 DEF OtherStatus, flight, output, IInv, AlignmentIsSteady,
     DescentIsJustified, LostTargetIsNoticed, StatusMatchesPhase, TargetFresh
<1>7. CASE UNCHANGED vars
  BY <1>0, <1>7 DEF vars, flight, output, IInv, AlignmentIsSteady,
     DescentIsJustified, LostTargetIsNoticed, StatusMatchesPhase, TargetFresh
<1> QED
  BY <1>1, <1>2, <1>3, <1>4, <1>5, <1>6, <1>7 DEF Next

LEMMA InitEstablishes == Init => IInv
<1> SUFFICES ASSUME Init PROVE IInv
  OBVIOUS
<1>1. TypeOK
  <2>1. /\ active \in BOOLEAN /\ updated \in BOOLEAN
        /\ descending \in BOOLEAN /\ waiting \in BOOLEAN
    BY DEF Init
  <2>2. /\ targetAge = Never /\ alignedFor = Never /\ result = "None"
        /\ command \in Commands /\ status \in Statuses /\ shown = "other"
        /\ seen = "none" /\ steady \in 0..AlignmentDwell
    BY TimeoutsOrdered DEF Init, Commands, Statuses
  <2> QED
    BY <2>1, <2>2 DEF TypeOK
<1>2. ~active /\ alignedFor = Never
  BY DEF Init
<1> QED
  BY <1>1, <1>2 DEF IInv, AlignmentIsSteady, DescentIsJustified, LostTargetIsNoticed,
     StatusMatchesPhase

LEMMA InvariantHolds == Spec => []IInv
BY InitEstablishes, InvariantStep, PTL DEF Spec

-----------------------------------------------------------------------------
(* The theorems.                                                            *)

\* Type correctness, for all timeouts.
THEOREM TypeCorrect == Spec => []TypeOK
<1>1. IInv => TypeOK
  BY DEF IInv
<1> QED
  BY <1>1, InvariantHolds, PTL

\* After the update of a tick, the vehicle descends only on a young, close target.
THEOREM DescentAlwaysJustified == Spec => []DescentIsJustified
<1>1. IInv => DescentIsJustified
  BY DEF IInv
<1> QED
  BY <1>1, InvariantHolds, PTL

\* After the update of a tick, a landing without result has a target in time.
THEOREM LostTargetAlwaysNoticed == Spec => []LostTargetIsNoticed
<1>1. IInv => LostTargetIsNoticed
  BY DEF IInv
<1> QED
  BY <1>1, InvariantHolds, PTL

\* The remembered status and the phase flags agree.
THEOREM StatusAlwaysMatchesPhase == Spec => []StatusMatchesPhase
<1>1. IInv => StatusMatchesPhase
  BY DEF IInv
<1> QED
  BY <1>1, InvariantHolds, PTL

\* Every descent is preceded by a whole dwell without a misaligned update.
THEOREM DescentAlwaysEarned == Spec => DescentIsEarned
<1>1. IInv /\ [Next]_vars => [~descending /\ descending' => steady >= AlignmentDwell]_vars
  <2> SUFFICES ASSUME IInv, Next, ~descending, descending'
               PROVE  steady >= AlignmentDwell
    OBVIOUS
  <2>1. PICK landed \in BOOLEAN, attitude \in BOOLEAN, error \in Errors, low \in BOOLEAN :
          UpdateSetpoint(landed, attitude, error, low)
    BY DEF Next, OnActivate, OnDeactivate, Forget, Update, ReceiveTarget, Tick,
       OtherStatus, flight
  <2>2. Track(error)
    BY <2>1 DEF UpdateSetpoint, Touchdown, LoseTarget, WaitForTarget, Steer, flight
  <2>3. StartsDescent(error)
    BY <2>2 DEF Track
  <2>4. /\ alignedFor # Never /\ alignedFor >= AlignmentDwell
        /\ alignedFor <= steady
    BY <2>3 DEF StartsDescent, IInv, AlignmentIsSteady
  <2> QED
    BY <2>4, TimeoutsOrdered DEF IInv, TypeOK
<1> QED
  BY <1>1, InvariantHolds, PTL DEF Spec, DescentIsEarned

-----------------------------------------------------------------------------
(* The mode implements GuardedLanding: the phases, flags and ages are hidden. *)

\* The mapped variables of GuardedLanding.
guarded == <<active, Trust, command, updated, result>>

GuardStep == Guarded!Next \/ UNCHANGED guarded

\* What an update finds, by the age of the target.
LEMMA TrustIs ==
  ASSUME TypeOK
  PROVE  /\ TargetFresh(CommandTimeout) <=> Trust = "fresh"
         /\ TargetFresh(TargetTimeout) /\ ~TargetFresh(CommandTimeout) <=> Trust = "stale"
         /\ ~TargetFresh(TargetTimeout) <=> Trust = "gone"
BY TimeoutsOrdered DEF Trust, TargetFresh, Never, TypeOK

LEMMA TrustKept == UNCHANGED targetAge => Trust' = Trust
BY DEF Trust, TargetFresh

\* A tick makes a fresh target stale at most, since the timeouts are a tick apart.
LEMMA TrustFades ==
  ASSUME TypeOK, Tick
  PROVE  \/ Trust' = Trust
         \/ Trust = "fresh" /\ Trust' = "stale"
         \/ Trust = "stale" /\ Trust' = "gone"
<1>1. CASE targetAge = Never \/ targetAge = TargetTimeout + 1
  BY <1>1, TrustKept DEF Tick, Older
<1>2. CASE targetAge \in 0..TargetTimeout
  <2>1. targetAge' = targetAge + 1
    BY <1>2, TimeoutsOrdered DEF Tick, Older, Never
  <2>2. /\ TargetFresh(CommandTimeout) <=> targetAge <= CommandTimeout
        /\ TargetFresh(CommandTimeout)' <=> targetAge + 1 <= CommandTimeout
        /\ TargetFresh(TargetTimeout)
        /\ TargetFresh(TargetTimeout)' <=> targetAge + 1 <= TargetTimeout
    BY <1>2, <2>1, TimeoutsOrdered DEF TargetFresh, Never
  <2>3. CASE targetAge + 1 <= CommandTimeout
    <3>1. TargetFresh(CommandTimeout) /\ TargetFresh(CommandTimeout)'
      BY <1>2, <2>2, <2>3, TimeoutsOrdered
    <3> QED
      BY <3>1 DEF Trust
  <2>4. CASE targetAge = CommandTimeout
    <3>1. /\ TargetFresh(CommandTimeout) /\ ~TargetFresh(CommandTimeout)'
          /\ TargetFresh(TargetTimeout)'
      BY <1>2, <2>2, <2>4, TimeoutsOrdered
    <3> QED
      BY <3>1 DEF Trust
  <2>5. CASE targetAge > CommandTimeout
    <3>1. /\ ~TargetFresh(CommandTimeout) /\ ~TargetFresh(CommandTimeout)'
          /\ TargetFresh(TargetTimeout)
      BY <1>2, <2>2, <2>5, TimeoutsOrdered
    <3> QED
      BY <3>1 DEF Trust
  <2> QED
    BY <1>2, <2>3, <2>4, <2>5, TimeoutsOrdered
<1> QED
  BY <1>1, <1>2, TimeoutsOrdered DEF TypeOK

\* An update reacts to what the target is good for, whatever else it measures.
LEMMA UpdateReacts ==
  ASSUME TypeOK, NEW landed \in BOOLEAN, NEW attitude \in BOOLEAN, NEW error \in Errors,
         NEW low \in BOOLEAN, UpdateSetpoint(landed, attitude, error, low)
  PROVE  Guarded!React
<1>1. active /\ updated' = TRUE /\ active' = active /\ Trust' = Trust
  BY TrustKept DEF UpdateSetpoint
<1>2. CASE Touchdown
  BY <1>1, <1>2 DEF Touchdown, Complete, Guarded!React, Guarded!Finish, Guarded!Give
<1>3. CASE LoseTarget
  BY <1>1, <1>3 DEF LoseTarget, Complete, Guarded!React, Guarded!GiveUp, Guarded!Give
<1>4. CASE WaitForTarget /\ TargetReady(attitude) /\ ~TargetFresh(CommandTimeout)
  <2>1. Trust = "stale"
    BY <1>4, TrustIs DEF TargetReady
  <2> QED
    BY <1>1, <1>4, <2>1 DEF WaitForTarget, Guarded!React, Guarded!Wait
<1>5. CASE Steer(error, low) /\ TargetFresh(CommandTimeout)
  <2>1. Trust = "fresh"
    BY <1>5, TrustIs
  <2>2. \/ command' \in {"Approach", "Descend"} /\ UNCHANGED result
        \/ Complete("Success") /\ UNCHANGED command
    BY <1>5 DEF Steer
  <2> QED
    BY <1>1, <2>1, <2>2 DEF Complete, Guarded!React, Guarded!Steer, Guarded!Give
<1> QED
  BY <1>2, <1>3, <1>4, <1>5 DEF UpdateSetpoint

LEMMA GuardStepHolds == TypeOK /\ [Next]_vars => GuardStep
<1> SUFFICES ASSUME TypeOK, [Next]_vars PROVE GuardStep
  OBVIOUS
<1>1. CASE OnActivate
  BY <1>1, TrustKept DEF OnActivate, GuardStep, Guarded!Next, Guarded!Begin
<1>2. CASE OnDeactivate
  BY <1>2, TrustKept DEF OnDeactivate, output, GuardStep, Guarded!Next, Guarded!End
<1>3. CASE Update
  BY <1>3, UpdateReacts DEF Update, GuardStep, Guarded!Next
<1>4. CASE ReceiveTarget
  <2>1. Trust' = "fresh"
    BY <1>4, TimeoutsOrdered DEF ReceiveTarget, Trust, TargetFresh, Never
  <2> QED
    BY <1>4, <2>1 DEF ReceiveTarget, output, GuardStep, Guarded!Next, Guarded!Sight
<1>5. CASE Tick
  BY <1>5, TrustFades DEF Tick, output, GuardStep, Guarded!Next, Guarded!Pass
<1>6. CASE OtherStatus \/ UNCHANGED vars
  BY <1>6, TrustKept DEF OtherStatus, vars, output, GuardStep, guarded
<1> QED
  BY <1>1, <1>2, <1>3, <1>4, <1>5, <1>6 DEF Next

\* The mode implements GuardedLanding, for all timeouts.
THEOREM LandingIsGuarded == Spec => GuardsLanding
<1>1. Init => Guarded!Init
  BY DEF Init, Guarded!Init, Trust, TargetFresh
<1>2. TypeOK /\ [Next]_vars => [Guarded!Next]_guarded
  BY GuardStepHolds DEF GuardStep
<1> QED
  BY <1>1, <1>2, TypeCorrect, PTL DEF Spec, GuardsLanding, Guarded!Spec, guarded

\* What GuardedLanding keeps from update to update: a target that is stale has stopped
\* the vehicle once the update of a moment has run, and one that is gone has ended it.
Reacted ==
  active /\ result = "None" =>
    /\ updated => Trust # "gone"
    /\ updated /\ Trust = "stale" => command = "Pause"
    /\ Trust = "gone" => command \in {"None", "Pause"}

LEMMA GuardedReacts == Reacted /\ [Guarded!Next]_guarded => Reacted'
<1> SUFFICES ASSUME Reacted, [Guarded!Next]_guarded PROVE Reacted'
  OBVIOUS
<1> USE DEF Reacted
<1>1. CASE Guarded!Begin
  BY <1>1 DEF Guarded!Begin
<1>2. CASE Guarded!End
  BY <1>2 DEF Guarded!End
<1>3. CASE Guarded!Sight
  BY <1>3 DEF Guarded!Sight
<1>4. CASE Guarded!Pass
  BY <1>4 DEF Guarded!Pass
<1>5. CASE Guarded!React
  <2>1. active /\ active' = active /\ updated' /\ Trust' = Trust
    BY <1>5 DEF Guarded!React
  <2>2. CASE Guarded!Steer
    BY <2>1, <2>2 DEF Guarded!Steer, Guarded!Give
  <2>3. CASE Guarded!Wait
    BY <2>1, <2>3 DEF Guarded!Wait
  <2>4. CASE Guarded!Finish \/ Guarded!GiveUp
    <3>1. result' # "None"
      BY <2>4 DEF Guarded!Finish, Guarded!GiveUp, Guarded!Give
    <3> QED
      BY <3>1
  <2> QED
    BY <1>5, <2>2, <2>3, <2>4 DEF Guarded!React
<1>6. CASE UNCHANGED guarded
  BY <1>6 DEF guarded
<1> QED
  BY <1>1, <1>2, <1>3, <1>4, <1>5, <1>6 DEF Guarded!Next

\* A fact of GuardedLanding, and so of the mode: before a landing is given up for its
\* target, the vehicle has been stopped.
THEOREM StoppedBeforeTargetIsGone == Spec => []Guarded!StoppedBeforeGone
<1>1. Guarded!Init => Reacted
  BY DEF Guarded!Init, Reacted
<1>2. Reacted => Guarded!StoppedBeforeGone
  BY DEF Reacted, Guarded!StoppedBeforeGone
<1> QED
  BY <1>1, <1>2, GuardedReacts, LandingIsGuarded, PTL
     DEF GuardsLanding, Guarded!Spec, guarded
=============================================================================
