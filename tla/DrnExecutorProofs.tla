-------------------------- MODULE DrnExecutorProofs --------------------------
(***************************************************************************)
(* Proofs about DrnExecutor, for every bound on the generation counter.    *)
(* The argument is one inductive invariant, IInv: callbacks never carry a  *)
(* generation from the future, at most one carries the present one, and    *)
(* that one belongs to the operation the executor reports.                 *)
(***************************************************************************)
EXTENDS DrnExecutor, TLAPS

-----------------------------------------------------------------------------
(* What the helpers of the handlers return.                                 *)

\* A new generation stays under the bound and outdates every earlier one.
LEMMA NextGenerationGrows ==
  ASSUME generation \in Generations, NextGeneration
  PROVE  generation' \in Generations /\ generation' > generation
BY MaxGenerationIsNat DEF NextGeneration, Generations

\* The generation a process starts with.
LEMMA ZeroTyped == 0 \in Generations
BY MaxGenerationIsNat DEF Generations

\* A response names a service and says whether the request was accepted.
LEMMA RespondTyped ==
  ASSUME NEW service \in Services, NEW success \in BOOLEAN,
         Respond(service, success)
  PROVE  response' \in [service : Services, success : BOOLEAN]
BY Zenon DEF Respond

\* Whether PX4 takes a mode switch or refuses it, the slot and the operation
\* keep their types.
LEMMA ScheduleTyped ==
  ASSUME NEW callback \in ModeCallbacks, NEW gen \in Generations,
         NEW op \in Operations, NEW landing \in BOOLEAN,
         Schedule(callback, gen, op, landing)
  PROVE  /\ scheduled' \in ModeCalls \cup {NoCall}
         /\ operation' \in Operations
         /\ inProgress' \in BOOLEAN
<1>1. scheduled' \in ModeCalls \cup {NoCall}
  BY DEF Schedule, ModeCalls
<1>2. operation' \in Operations
  BY DEF Schedule, Finish, Operations
<1>3. inProgress' \in BOOLEAN
  BY Zenon DEF Schedule, Finish
<1> QED
  BY <1>1, <1>2, <1>3

\* A switch to hold, the one every abort and every takeoff ends in.
LEMMA ScheduleHoldTyped ==
  ASSUME NEW gen \in Generations, NEW landing \in BOOLEAN,
         ScheduleHold(gen, landing)
  PROVE  /\ scheduled' \in ModeCalls \cup {NoCall}
         /\ operation' \in Operations
         /\ inProgress' \in BOOLEAN
BY ScheduleTyped DEF ScheduleHold, ModeCallbacks, Operations

\* Registering a wait for a reached generation.
LEMMA WaitTyped ==
  ASSUME TypeOK, NEW callback \in WaitCallbacks, NEW gen \in Generations,
         waits' = waits \cup {[callback |-> callback, gen |-> gen]}
  PROVE  waits' \in SUBSET WaitCalls
<1>1. [callback |-> callback, gen |-> gen] \in WaitCalls
  BY DEF WaitCalls
<1> QED
  BY <1>1 DEF TypeOK

\* A request that an early return turns down.
LEMMA RejectTyped ==
  ASSUME TypeOK, NEW service \in Services, Reject(service)
  PROVE  TypeOK'
<1>1. response' \in [service : Services, success : BOOLEAN]
  BY RespondTyped DEF Reject
<1>2. UNCHANGED <<operation, generation, inProgress, armed, inCharge, modeActive,
                  scheduled, waits, activations>>
  BY DEF Reject, process, status, pending
<1> QED
  BY <1>1, <1>2 DEF TypeOK

-----------------------------------------------------------------------------
(* Type correctness, action by action.                                      *)

\* Activation: the reply is awaited under the new generation.
LEMMA RequestActivateTyped == TypeOK /\ RequestActivate => TypeOK'
<1> SUFFICES ASSUME TypeOK, RequestActivate PROVE TypeOK'
  OBVIOUS
<1>1. generation' \in Generations
  BY NextGenerationGrows DEF RequestActivate, Reject, process, TypeOK
<1>2. operation' \in Operations
  BY DEF RequestActivate, Reject, process, Operations, TypeOK
<1>3. activations' \in SUBSET Generations
  BY <1>1 DEF RequestActivate, Reject, pending, TypeOK
<1>4. UNCHANGED <<inProgress, armed, inCharge, modeActive, scheduled, waits>>
  BY DEF RequestActivate, Reject, process, pending, status
<1>5. response' \in [service : Services, success : BOOLEAN]
  BY RespondTyped DEF RequestActivate, Reject, Services
<1> QED
  BY <1>1, <1>2, <1>3, <1>4, <1>5 DEF TypeOK

\* Takeoff: arming is refused at once or awaited under the new generation.
LEMMA RequestTakeoffTyped == TypeOK /\ RequestTakeoff => TypeOK'
<1> SUFFICES ASSUME TypeOK, RequestTakeoff PROVE TypeOK'
  OBVIOUS
<1>1. generation' \in Generations
  BY NextGenerationGrows DEF RequestTakeoff, Reject, process, TypeOK
<1>2. operation' \in Operations
  BY DEF RequestTakeoff, Reject, Finish, process, Operations, TypeOK
<1>3. inProgress' \in BOOLEAN
  BY Zenon DEF RequestTakeoff, Reject, Finish, process, TypeOK
<1>4. waits' \in SUBSET WaitCalls
  <2>1. CASE UNCHANGED waits
    BY <2>1 DEF TypeOK
  <2>2. CASE waits' = waits \cup {[callback |-> "arm", gen |-> generation']}
    BY <1>1, <2>2, WaitTyped DEF WaitCallbacks
  <2> QED
    BY <2>1, <2>2 DEF RequestTakeoff, Reject, pending
<1>5. UNCHANGED <<armed, inCharge, modeActive, scheduled, activations>>
  BY DEF RequestTakeoff, Reject, pending, status
<1>6. response' \in [service : Services, success : BOOLEAN]
  BY RespondTyped DEF RequestTakeoff, Reject, Services
<1> QED
  BY <1>1, <1>2, <1>3, <1>4, <1>5, <1>6 DEF TypeOK

\* Hold: in place, or by switching to the hold mode.
LEMMA RequestHoldTyped == TypeOK /\ RequestHold => TypeOK'
<1> SUFFICES ASSUME TypeOK, RequestHold PROVE TypeOK'
  OBVIOUS
<1>1. generation' \in Generations
  BY NextGenerationGrows DEF RequestHold, Reject, process, TypeOK
<1>2. /\ operation' \in Operations
      /\ inProgress' \in BOOLEAN
      /\ scheduled' \in ModeCalls \cup {NoCall}
  <2>1. CASE UNCHANGED <<operation, inProgress, scheduled>>
    BY <2>1 DEF TypeOK
  <2>2. CASE UNCHANGED <<operation, scheduled>> /\ inProgress' = FALSE
    BY <2>2 DEF TypeOK
  <2>3. CASE ScheduleHold(generation', FALSE)
    BY <1>1, <2>3, ScheduleHoldTyped
  <2> QED
    BY <2>1, <2>2, <2>3 DEF RequestHold, Reject, process, pending
<1>3. UNCHANGED <<armed, inCharge, modeActive, waits, activations>>
  BY DEF RequestHold, Reject, status, pending
<1>4. response' \in [service : Services, success : BOOLEAN]
  BY RespondTyped DEF RequestHold, Reject, Services
<1> QED
  BY <1>1, <1>2, <1>3, <1>4 DEF TypeOK

\* Precision landing: its mode, or hold when PX4 refuses it.
LEMMA RequestPrecisionLandTyped == TypeOK /\ RequestPrecisionLand => TypeOK'
<1> SUFFICES ASSUME TypeOK, RequestPrecisionLand PROVE TypeOK'
  OBVIOUS
<1>1. generation' \in Generations
  BY NextGenerationGrows DEF RequestPrecisionLand, Reject, process, TypeOK
<1>2. /\ operation' \in Operations
      /\ inProgress' \in BOOLEAN
      /\ scheduled' \in ModeCalls \cup {NoCall}
  <2>1. CASE UNCHANGED <<operation, inProgress, scheduled>>
    BY <2>1 DEF TypeOK
  <2>2. CASE Schedule("precision_land", generation', "PrecisionLanding", TRUE)
    BY <1>1, <2>2, ScheduleTyped DEF ModeCallbacks, Operations
  <2>3. CASE ScheduleHold(generation', FALSE)
    BY <1>1, <2>3, ScheduleHoldTyped
  <2> QED
    BY <2>1, <2>2, <2>3 DEF RequestPrecisionLand, Reject, process, pending
<1>3. UNCHANGED <<armed, inCharge, modeActive, waits, activations>>
  BY DEF RequestPrecisionLand, Reject, status, pending
<1>4. response' \in [service : Services, success : BOOLEAN]
  BY RespondTyped DEF RequestPrecisionLand, Reject, Services
<1> QED
  BY <1>1, <1>2, <1>3, <1>4 DEF TypeOK

\* Abort: always a switch to hold.
LEMMA RequestPrecisionLandAbortTyped == TypeOK /\ RequestPrecisionLandAbort => TypeOK'
<1> SUFFICES ASSUME TypeOK, RequestPrecisionLandAbort PROVE TypeOK'
  OBVIOUS
<1>1. generation' \in Generations
  BY NextGenerationGrows DEF RequestPrecisionLandAbort, Reject, process, TypeOK
<1>2. /\ operation' \in Operations
      /\ inProgress' \in BOOLEAN
      /\ scheduled' \in ModeCalls \cup {NoCall}
  <2>1. CASE UNCHANGED <<operation, inProgress, scheduled>>
    BY <2>1 DEF TypeOK
  <2>2. CASE ScheduleHold(generation', FALSE)
    BY <1>1, <2>2, ScheduleHoldTyped
  <2> QED
    BY <2>1, <2>2 DEF RequestPrecisionLandAbort, Reject, process, pending
<1>3. UNCHANGED <<armed, inCharge, modeActive, waits, activations>>
  BY DEF RequestPrecisionLandAbort, Reject, status, pending
<1>4. response' \in [service : Services, success : BOOLEAN]
  BY RespondTyped DEF RequestPrecisionLandAbort, Reject, Services
<1> QED
  BY <1>1, <1>2, <1>3, <1>4 DEF TypeOK

\* Land.
LEMMA RequestLandTyped == TypeOK /\ RequestLand => TypeOK'
<1> SUFFICES ASSUME TypeOK, RequestLand PROVE TypeOK'
  OBVIOUS
<1>1. generation' \in Generations
  BY NextGenerationGrows DEF RequestLand, Reject, process, TypeOK
<1>2. /\ operation' \in Operations
      /\ inProgress' \in BOOLEAN
      /\ scheduled' \in ModeCalls \cup {NoCall}
  <2>1. CASE UNCHANGED <<operation, inProgress, scheduled>>
    BY <2>1 DEF TypeOK
  <2>2. CASE Schedule("land", generation', "Landing", FALSE)
    BY <1>1, <2>2, ScheduleTyped DEF ModeCallbacks, Operations
  <2> QED
    BY <2>1, <2>2 DEF RequestLand, Reject, process, pending
<1>3. UNCHANGED <<armed, inCharge, modeActive, waits, activations>>
  BY DEF RequestLand, Reject, status, pending
<1>4. response' \in [service : Services, success : BOOLEAN]
  BY RespondTyped DEF RequestLand, Reject, Services
<1> QED
  BY <1>1, <1>2, <1>3, <1>4 DEF TypeOK

\* Return to launch.
LEMMA RequestRtlTyped == TypeOK /\ RequestRtl => TypeOK'
<1> SUFFICES ASSUME TypeOK, RequestRtl PROVE TypeOK'
  OBVIOUS
<1>1. generation' \in Generations
  BY NextGenerationGrows DEF RequestRtl, Reject, process, TypeOK
<1>2. /\ operation' \in Operations
      /\ inProgress' \in BOOLEAN
      /\ scheduled' \in ModeCalls \cup {NoCall}
  <2>1. CASE UNCHANGED <<operation, inProgress, scheduled>>
    BY <2>1 DEF TypeOK
  <2>2. CASE Schedule("rtl", generation', "Returning", FALSE)
    BY <1>1, <2>2, ScheduleTyped DEF ModeCallbacks, Operations
  <2> QED
    BY <2>1, <2>2 DEF RequestRtl, Reject, process, pending
<1>3. UNCHANGED <<armed, inCharge, modeActive, waits, activations>>
  BY DEF RequestRtl, Reject, status, pending
<1>4. response' \in [service : Services, success : BOOLEAN]
  BY RespondTyped DEF RequestRtl, Reject, Services
<1> QED
  BY <1>1, <1>2, <1>3, <1>4 DEF TypeOK

\* A mode's completion callback, whatever its result.
LEMMA ModeEndsTyped ==
  ASSUME TypeOK, NEW result \in Results, ModeEnds(result)
  PROVE  TypeOK'
<1>1. /\ UNCHANGED <<generation, armed, inCharge, modeActive, activations>>
      /\ response' = NoResponse
  BY DEF ModeEnds, StaleModeCompletes, TakeoffCompletes, HoldCompletes,
         PrecisionLandCompletes, GroundCompletes, ModeCompletes, process, status
<1>2. /\ operation' \in Operations
      /\ inProgress' \in BOOLEAN
      /\ scheduled' \in ModeCalls \cup {NoCall}
  <2>1. CASE scheduled' = NoCall /\ UNCHANGED <<operation, inProgress>>
    BY <2>1 DEF TypeOK
  <2>2. CASE scheduled' = NoCall /\ Finish
    BY <2>2 DEF Finish, Operations
  <2>3. CASE ScheduleHold(generation, inProgress) \/ ScheduleHold(generation, FALSE)
    BY <2>3, ScheduleHoldTyped DEF TypeOK
  <2>4. CASE Schedule("handoff", generation, "Landing", inProgress)
    BY <2>4, ScheduleTyped DEF TypeOK, ModeCallbacks, Operations
  <2> QED
    BY <2>1, <2>2, <2>3, <2>4
       DEF ModeEnds, StaleModeCompletes, TakeoffCompletes, HoldCompletes,
           PrecisionLandCompletes, GroundCompletes, process
<1>3. waits' \in SUBSET WaitCalls
  <2>1. CASE UNCHANGED waits
    BY <2>1 DEF TypeOK
  <2>2. CASE waits' = waits \cup {[callback |-> "disarm", gen |-> generation]}
    BY <2>2, WaitTyped DEF TypeOK, WaitCallbacks
  <2> QED
    BY <2>1, <2>2
       DEF ModeEnds, StaleModeCompletes, TakeoffCompletes, HoldCompletes,
           PrecisionLandCompletes, GroundCompletes
<1> QED
  BY <1>1, <1>2, <1>3 DEF TypeOK

\* A wait that is cancelled, and a reply to an activation.
LEMMA WaitCancelledTyped ==
  ASSUME TypeOK, NEW w \in waits, WaitCancelled(w)
  PROVE  TypeOK'
<1>1. operation' \in Operations /\ inProgress' \in BOOLEAN
  BY Zenon DEF WaitCancelled, Finish, TypeOK, Operations
<1>2. /\ waits' \in SUBSET WaitCalls
      /\ UNCHANGED <<generation, armed, inCharge, modeActive, scheduled, activations>>
      /\ response' = NoResponse
  BY DEF WaitCancelled, TypeOK, status
<1> QED
  BY <1>1, <1>2 DEF TypeOK

LEMMA ActivationAnsweredTyped ==
  ASSUME TypeOK, NEW gen \in activations, NEW accepted \in BOOLEAN,
         ActivationAnswered(gen, accepted)
  PROVE  TypeOK'
<1>1. operation' \in Operations
  BY DEF ActivationAnswered, TypeOK, Operations
<1>2. /\ activations' \in SUBSET Generations
      /\ response' = NoResponse
      /\ UNCHANGED <<generation, inProgress, armed, inCharge, modeActive, scheduled, waits>>
  BY DEF ActivationAnswered, TypeOK, status
<1> QED
  BY <1>1, <1>2 DEF TypeOK

\* The vehicle status: arming continues the takeoff, disarming ends a landing,
\* a change of charge starts a generation, and the process may restart.
LEMMA EnvironmentTyped == TypeOK /\ Environment => TypeOK'
<1> SUFFICES ASSUME TypeOK, Environment PROVE TypeOK'
  OBVIOUS
<1>1. CASE ArmedReported
  <2>1. /\ operation' \in Operations
        /\ inProgress' \in BOOLEAN
        /\ scheduled' \in ModeCalls \cup {NoCall}
    <3>1. CASE UNCHANGED <<operation, inProgress, scheduled>>
      BY <3>1 DEF TypeOK
    <3>2. CASE Schedule("takeoff", generation, "TakingOff", inProgress)
      BY <3>2, ScheduleTyped DEF TypeOK, ModeCallbacks, Operations
    <3> QED
      BY <1>1, <3>1, <3>2 DEF ArmedReported
  <2>2. /\ waits' \in SUBSET WaitCalls
        /\ armed' = TRUE
        /\ response' = NoResponse
        /\ UNCHANGED <<generation, inCharge, modeActive, activations>>
    BY <1>1 DEF ArmedReported, TypeOK
  <2> QED
    BY <2>1, <2>2 DEF TypeOK
<1>2. CASE DisarmedReported
  <2>1. operation' \in Operations /\ inProgress' \in BOOLEAN
    BY <1>2, Zenon DEF DisarmedReported, Finish, TypeOK, Operations
  <2>2. /\ waits' \in SUBSET WaitCalls
        /\ armed' = FALSE
        /\ response' = NoResponse
        /\ UNCHANGED <<generation, inCharge, modeActive, scheduled, activations>>
    BY <1>2 DEF DisarmedReported, TypeOK
  <2> QED
    BY <2>1, <2>2 DEF TypeOK
<1>3. CASE OnActivate
  <2>1. /\ generation' \in Generations
        /\ operation' \in Operations
        /\ inProgress' = FALSE
        /\ response' = NoResponse
        /\ UNCHANGED <<armed, scheduled, waits, activations>>
    BY <1>3, NextGenerationGrows DEF OnActivate, Finish, Operations, pending, TypeOK
  <2>2. inCharge' \in BOOLEAN /\ modeActive' \in BOOLEAN
    BY <1>3 DEF OnActivate
  <2> QED
    BY <2>1, <2>2 DEF TypeOK
<1>4. CASE OnDeactivate
  <2>1. /\ generation' \in Generations
        /\ operation' \in Operations
        /\ inProgress' = FALSE
        /\ waits' = {}
        /\ response' = NoResponse
        /\ UNCHANGED <<armed, activations>>
    BY <1>4, NextGenerationGrows DEF OnDeactivate, Finish, Operations, TypeOK
  <2>2. inCharge' = FALSE /\ modeActive' = FALSE
    BY <1>4 DEF OnDeactivate
  <2>3. scheduled' \in ModeCalls \cup {NoCall}
    BY <1>4 DEF OnDeactivate, TypeOK
  <2> QED
    BY <2>1, <2>2, <2>3 DEF TypeOK
<1>5. CASE ModeReported
  BY <1>5 DEF ModeReported, TypeOK, process, pending
<1>6. CASE Respawn
  BY <1>6, ZeroTyped DEF Respawn, Finish, TypeOK, Operations
<1> QED
  BY <1>1, <1>2, <1>3, <1>4, <1>5, <1>6 DEF Environment

\* Every variable keeps its type: the generation stays under its bound and a
\* callback is registered with a generation the counter has reached.
LEMMA TypeStep == TypeOK /\ [Next]_vars => TypeOK'
<1> SUFFICES ASSUME TypeOK, [Next]_vars PROVE TypeOK'
  OBVIOUS
<1>1. CASE Request
  BY <1>1, RequestActivateTyped, RequestTakeoffTyped, RequestHoldTyped,
     RequestPrecisionLandTyped, RequestPrecisionLandAbortTyped, RequestLandTyped,
     RequestRtlTyped DEF Request
<1>2. CASE Callback
  BY <1>2, ModeEndsTyped, WaitCancelledTyped, ActivationAnsweredTyped DEF Callback
<1>3. CASE Environment
  BY <1>3, EnvironmentTyped
<1>4. CASE UNCHANGED vars
  BY <1>4 DEF vars, process, status, pending, TypeOK
<1> QED
  BY <1>1, <1>2, <1>3, <1>4 DEF Next

LEMMA InitTyped == Init => TypeOK
BY ZeroTyped DEF Init, TypeOK, Operations

\* Type correctness of every reachable state, for every bound on the counter.
THEOREM TypeCorrect == Spec => []TypeOK
BY InitTyped, TypeStep, PTL DEF Spec

-----------------------------------------------------------------------------
(* The inductive invariant.                                                 *)

\* Generations only grow while callbacks are pending (Respawn drops them all).
NoFutureCallback ==
  /\ scheduled.gen <= generation
  /\ \A w \in waits : w.gen <= generation
  /\ \A gen \in activations : gen <= generation

\* The safety invariants that hang together.
CallbacksMatch ==
  /\ OneLiveCallback
  /\ LiveCallbackFitsOperation
  /\ InProgressIsLive
  /\ NeverStrandedInFlight

IInv == TypeOK /\ NoFutureCallback /\ CallbacksMatch

\* No wait would pass the generation guard.
QuietWaits == \A w \in waits : ~IsCurrent(w)

\* Three ways for a step to end well: nothing is live and the executor is free,
LEMMA SettledMatches ==
  ASSUME QuietWaits', ~LiveModeCall', ~inProgress',
         operation' \in {"Idle", "Activating"},
         LiveReply' => operation' = "Activating"
  PROVE  CallbacksMatch'
BY DEF QuietWaits, CallbacksMatch, OneLiveCallback, LiveCallbackFitsOperation,
       InProgressIsLive, NeverStrandedInFlight

\* one mode switch is live and fits the operation,
LEMMA ScheduledMatches ==
  ASSUME QuietWaits', scheduled'.callback \in ModeCallbacks,
         scheduled' # NoCall, IsCurrent(scheduled)', Fits(scheduled.callback)',
         ~LiveReply'
  PROVE  CallbacksMatch'
<1>1. LiveModeCall'
  BY DEF LiveModeCall
<1>2. OneLiveCallback' /\ LiveCallbackFitsOperation'
  BY <1>1 DEF QuietWaits, OneLiveCallback, LiveCallbackFitsOperation
<1>3. CASE scheduled'.callback = "hold"
  <2>1. operation' = "Idle" /\ ~inProgress'
    BY <1>3 DEF Fits
  <2> QED
    BY <1>2, <2>1 DEF CallbacksMatch, InProgressIsLive, NeverStrandedInFlight
<1>4. CASE scheduled'.callback # "hold"
  <2>1. Live'
    BY <1>1, <1>4 DEF Live
  <2>2. inProgress' => operation' \in {"PrecisionLanding", "Landing"}
    BY <1>4 DEF Fits, ModeCallbacks
  <2> QED
    BY <1>2, <2>1, <2>2 DEF CallbacksMatch, InProgressIsLive, NeverStrandedInFlight
<1> QED
  BY <1>3, <1>4

\* or one wait is live and fits the operation.
LEMMA WaitingMatches ==
  ASSUME NEW w \in waits', IsCurrent(w)', Fits(w.callback)', ~LiveModeCall',
         \A v \in waits' : IsCurrent(v)' => v = w, ~LiveReply',
         inProgress' => operation' \in {"PrecisionLanding", "Landing"}
  PROVE  CallbacksMatch'
<1>1. Live'
  BY DEF Live, LiveWait
<1>2. OneLiveCallback'
  BY DEF OneLiveCallback
<1>3. LiveCallbackFitsOperation'
  BY DEF LiveCallbackFitsOperation
<1> QED
  BY <1>1, <1>2, <1>3 DEF CallbacksMatch, InProgressIsLive, NeverStrandedInFlight

\* A new generation outdates everything that was pending.
LEMMA NextGenerationOutdates ==
  ASSUME IInv, NextGeneration
  PROVE  /\ scheduled.gen < generation'
         /\ \A w \in waits : w.gen < generation'
         /\ \A gen \in activations : gen < generation'
         /\ generation' \in Generations
<1>1. generation' \in Generations /\ generation' > generation /\ generation \in Nat
  BY NextGenerationGrows, MaxGenerationIsNat DEF IInv, TypeOK, Generations
<1>2. /\ scheduled.gen \in Nat
      /\ \A w \in waits : w.gen \in Nat
      /\ \A gen \in activations : gen \in Nat
  BY MaxGenerationIsNat DEF IInv, TypeOK, ModeCalls, WaitCalls, NoCall, Generations
<1>3. /\ scheduled.gen <= generation
      /\ \A w \in waits : w.gen <= generation
      /\ \A gen \in activations : gen <= generation
  BY DEF IInv, NoFutureCallback
<1> QED
  BY <1>1, <1>2, <1>3, MaxGenerationIsNat DEF Generations

\* Earlier waits are quiet after a new generation, whichever of them remain.
LEMMA OutdatedWaitsQuiet ==
  ASSUME IInv, NextGeneration, waits' \in SUBSET waits
  PROVE  QuietWaits' /\ \A w \in waits' : w.gen <= generation'
<1>1. \A w \in waits' : w.gen < generation' /\ w.gen \in Nat
  BY NextGenerationOutdates, MaxGenerationIsNat DEF IInv, TypeOK, WaitCalls, Generations
<1>2. generation' \in Nat
  BY NextGenerationOutdates, MaxGenerationIsNat DEF Generations
<1> QED
  BY <1>1, <1>2 DEF QuietWaits, IsCurrent

\* So are the activation replies that have not come yet.
LEMMA OutdatedReplies ==
  ASSUME IInv, NextGeneration, activations' \in SUBSET activations
  PROVE  ~LiveReply' /\ \A gen \in activations' : gen <= generation'
<1>1. \A gen \in activations' : gen < generation' /\ gen \in Nat
  BY NextGenerationOutdates, MaxGenerationIsNat DEF IInv, TypeOK, Generations
<1>2. generation' \in Nat
  BY NextGenerationOutdates, MaxGenerationIsNat DEF Generations
<1> QED
  BY <1>1, <1>2 DEF LiveReply

\* A mode switch under a new generation, taken by PX4 or refused.
LEMMA FreshScheduleMatches ==
  ASSUME IInv, NextGeneration, UNCHANGED <<waits, activations>>,
         NEW callback \in ModeCallbacks, NEW op, NEW landing,
         Schedule(callback, generation', op, landing),
         operation' = op /\ inProgress' = landing => Fits(callback)'
  PROVE  NoFutureCallback' /\ CallbacksMatch'
<1>1. /\ QuietWaits' /\ \A w \in waits' : w.gen <= generation'
      /\ ~LiveReply' /\ \A gen \in activations' : gen <= generation'
  BY OutdatedWaitsQuiet, OutdatedReplies
<1>2. generation' \in Nat
  BY NextGenerationOutdates, MaxGenerationIsNat DEF Generations
<1>3. CASE /\ scheduled' = [callback |-> callback, gen |-> generation']
           /\ operation' = op
           /\ inProgress' = landing
  <2>1. /\ scheduled'.callback = callback
        /\ scheduled'.gen = generation'
        /\ scheduled' # NoCall
    BY <1>3 DEF NoCall, ModeCallbacks
  <2>2. NoFutureCallback'
    BY <1>1, <1>2, <2>1 DEF NoFutureCallback
  <2>3. IsCurrent(scheduled)' /\ Fits(scheduled.callback)'
    BY <1>3, <2>1 DEF IsCurrent
  <2> QED
    BY <1>1, <2>1, <2>2, <2>3, ScheduledMatches
<1>4. CASE scheduled' = NoCall /\ Finish
  <2>1. NoFutureCallback'
    BY <1>1, <1>2, <1>4 DEF NoFutureCallback, NoCall
  <2>2. ~LiveModeCall' /\ ~inProgress' /\ operation' = "Idle"
    BY <1>4 DEF LiveModeCall, Finish
  <2> QED
    BY <1>1, <2>1, <2>2, SettledMatches
<1> QED
  BY <1>3, <1>4 DEF Schedule

LEMMA FreshHoldMatches ==
  ASSUME IInv, NextGeneration, UNCHANGED <<waits, activations>>,
         ScheduleHold(generation', FALSE)
  PROVE  NoFutureCallback' /\ CallbacksMatch'
<1>1. Schedule("hold", generation', "Idle", FALSE)
  BY DEF ScheduleHold
<1>2. operation' = "Idle" /\ inProgress' = FALSE => Fits("hold")'
  BY DEF Fits
<1>3. "hold" \in ModeCallbacks
  BY DEF ModeCallbacks
<1> QED
  BY <1>1, <1>2, <1>3, FreshScheduleMatches

\* A new generation that leaves the executor free and registers nothing.
LEMMA FreshIdleMatches ==
  ASSUME IInv, NextGeneration, waits' \in SUBSET waits,
         scheduled' \in {scheduled, NoCall},
         operation' \in {"Idle", "Activating"}, ~inProgress',
         LiveReply' => operation' = "Activating",
         \A gen \in activations' : gen <= generation'
  PROVE  NoFutureCallback' /\ CallbacksMatch'
<1>1. QuietWaits' /\ \A w \in waits' : w.gen <= generation'
  BY OutdatedWaitsQuiet
<1>2. generation' \in Nat /\ scheduled.gen \in Nat /\ scheduled.gen < generation'
  BY NextGenerationOutdates, MaxGenerationIsNat
     DEF IInv, TypeOK, ModeCalls, NoCall, Generations
<1>3. scheduled'.gen <= generation'
  BY <1>2 DEF NoCall
<1>4. ~LiveModeCall'
  BY <1>2 DEF LiveModeCall, IsCurrent
<1>5. NoFutureCallback'
  BY <1>1, <1>3 DEF NoFutureCallback
<1> QED
  BY <1>1, <1>4, <1>5, SettledMatches

\* A step that leaves the request and its callbacks alone.
LEMMA SameMatches ==
  ASSUME IInv, UNCHANGED <<operation, generation, inProgress, scheduled, waits, activations>>
  PROVE  NoFutureCallback' /\ CallbacksMatch'
BY DEF IInv, NoFutureCallback, CallbacksMatch, OneLiveCallback,
       LiveCallbackFitsOperation, InProgressIsLive, NeverStrandedInFlight,
       LiveModeCall, Live, LiveWait, LiveReply, IsCurrent, Fits

-----------------------------------------------------------------------------
(* The requests.                                                            *)

LEMMA RejectMatches ==
  ASSUME IInv, UNCHANGED <<process, status, pending>>
  PROVE  NoFutureCallback' /\ CallbacksMatch'
BY SameMatches DEF process, pending

\* While the executor is free, no landing is in progress.
LEMMA FreeHasNoLanding ==
  ASSUME IInv, operation \in {"Idle", "Activating", "Arming", "TakingOff", "Returning"}
  PROVE  ~inProgress
BY DEF IInv, CallbacksMatch, InProgressIsLive

LEMMA RequestActivateMatches ==
  ASSUME IInv, RequestActivate
  PROVE  NoFutureCallback' /\ CallbacksMatch'
<1>1. CASE UNCHANGED <<process, status, pending>>
  BY <1>1, RejectMatches
<1>2. CASE /\ operation = "Idle" /\ NextGeneration
           /\ UNCHANGED <<operation, activations, inProgress, scheduled, waits>>
  <2>1. ~inProgress'
    BY <1>2, FreeHasNoLanding
  <2>2. ~LiveReply' /\ \A gen \in activations' : gen <= generation'
    BY <1>2, OutdatedReplies
  <2> QED
    BY <1>2, <2>1, <2>2, FreshIdleMatches
<1>3. CASE /\ operation = "Idle" /\ NextGeneration
           /\ operation' = "Activating"
           /\ activations' = activations \cup {generation'}
           /\ UNCHANGED <<inProgress, scheduled, waits>>
  <2>1. ~inProgress'
    BY <1>3, FreeHasNoLanding
  <2>2. \A gen \in activations : gen \in Nat /\ gen < generation'
    BY <1>3, NextGenerationOutdates, MaxGenerationIsNat DEF IInv, TypeOK, Generations
  <2>3. generation' \in Nat
    BY <1>3, NextGenerationOutdates, MaxGenerationIsNat DEF Generations
  <2>4. \A gen \in activations' : gen <= generation'
    BY <1>3, <2>2, <2>3
  <2> QED
    BY <1>3, <2>1, <2>4, FreshIdleMatches
<1> QED
  BY <1>1, <1>2, <1>3 DEF RequestActivate, Reject

\* The arm wait is the one callback of the new generation.
LEMMA RequestTakeoffMatches ==
  ASSUME IInv, RequestTakeoff
  PROVE  NoFutureCallback' /\ CallbacksMatch'
<1>1. CASE UNCHANGED <<process, status, pending>>
  BY <1>1, RejectMatches
<1>2. CASE NextGeneration /\ Finish /\ UNCHANGED <<scheduled, waits, activations>>
  BY <1>2, FreshIdleMatches, OutdatedReplies DEF Finish
<1>3. CASE /\ operation = "Idle" /\ NextGeneration
           /\ operation' = "Arming"
           /\ waits' = waits \cup {[callback |-> "arm", gen |-> generation']}
           /\ UNCHANGED <<inProgress, scheduled, activations>>
  <2>0. ~LiveReply' /\ \A gen \in activations' : gen <= generation'
    BY <1>3, OutdatedReplies
  <2>1. /\ generation' \in Nat
        /\ scheduled.gen \in Nat /\ scheduled.gen < generation'
        /\ \A w \in waits : w.gen \in Nat /\ w.gen < generation'
    BY <1>3, NextGenerationOutdates, MaxGenerationIsNat
       DEF IInv, TypeOK, ModeCalls, WaitCalls, NoCall, Generations
  <2>2. PICK new \in waits' : /\ new.gen = generation' /\ new.callback = "arm"
                              /\ waits' = waits \cup {new}
    BY <1>3
  <2>3. NoFutureCallback'
    BY <1>3, <2>0, <2>1, <2>2 DEF NoFutureCallback
  <2>4. ~LiveModeCall'
    BY <1>3, <2>1 DEF LiveModeCall, IsCurrent
  <2>5. IsCurrent(new)' /\ \A v \in waits' : IsCurrent(v)' => v = new
    BY <1>3, <2>1, <2>2 DEF IsCurrent
  <2>6. ~inProgress'
    BY <1>3, FreeHasNoLanding
  <2>7. Fits(new.callback)'
    BY <1>3, <2>2, <2>6 DEF Fits
  <2> QED
    BY <2>0, <2>2, <2>3, <2>4, <2>5, <2>6, <2>7, WaitingMatches
<1> QED
  BY <1>1, <1>2, <1>3 DEF RequestTakeoff, Reject, CanBegin

\* In place, Hold leaves operation_ behind with no landing flag: an operation
\* that needs a live callback was not interruptible in the first place.
LEMMA RequestHoldMatches ==
  ASSUME IInv, RequestHold
  PROVE  NoFutureCallback' /\ CallbacksMatch'
<1>1. CASE UNCHANGED <<process, status, pending>>
  BY <1>1, RejectMatches
<1>2. CASE /\ NextGeneration /\ ScheduleHold(generation', FALSE)
           /\ UNCHANGED <<waits, activations>>
  BY <1>2, FreshHoldMatches
<1>3. CASE /\ CanInterrupt /\ NextGeneration /\ inProgress' = FALSE
           /\ UNCHANGED <<operation, scheduled, waits, activations>>
  <2>1. /\ QuietWaits' /\ \A w \in waits' : w.gen <= generation'
        /\ ~LiveReply' /\ \A gen \in activations' : gen <= generation'
    BY <1>3, OutdatedWaitsQuiet, OutdatedReplies
  <2>2. /\ generation' \in Nat
        /\ scheduled.gen \in Nat /\ scheduled.gen < generation'
    BY <1>3, NextGenerationOutdates, MaxGenerationIsNat
       DEF IInv, TypeOK, ModeCalls, NoCall, Generations
  <2>3. NoFutureCallback'
    BY <1>3, <2>1, <2>2 DEF NoFutureCallback
  <2>4. ~LiveModeCall'
    BY <1>3, <2>2 DEF LiveModeCall, IsCurrent
  <2>5. operation' \notin {"Arming", "TakingOff", "Returning"}
    BY <1>3, FreeHasNoLanding DEF CanInterrupt
  <2> QED
    BY <1>3, <2>1, <2>3, <2>4, <2>5
       DEF CallbacksMatch, OneLiveCallback, LiveCallbackFitsOperation,
           InProgressIsLive, NeverStrandedInFlight, QuietWaits
<1> QED
  BY <1>1, <1>2, <1>3 DEF RequestHold, Reject

LEMMA RequestPrecisionLandMatches ==
  ASSUME IInv, RequestPrecisionLand
  PROVE  NoFutureCallback' /\ CallbacksMatch'
<1>1. CASE UNCHANGED <<process, status, pending>>
  BY <1>1, RejectMatches
<1>2. CASE /\ NextGeneration /\ ScheduleHold(generation', FALSE)
           /\ UNCHANGED <<waits, activations>>
  BY <1>2, FreshHoldMatches
<1>3. CASE /\ NextGeneration /\ UNCHANGED <<waits, activations>>
           /\ Schedule("precision_land", generation', "PrecisionLanding", TRUE)
  <2>1. operation' = "PrecisionLanding" /\ inProgress' = TRUE => Fits("precision_land")'
    BY DEF Fits
  <2>2. "precision_land" \in ModeCallbacks
    BY DEF ModeCallbacks
  <2> QED
    BY <1>3, <2>1, <2>2, FreshScheduleMatches
<1> QED
  BY <1>1, <1>2, <1>3 DEF RequestPrecisionLand, Reject

LEMMA RequestPrecisionLandAbortMatches ==
  ASSUME IInv, RequestPrecisionLandAbort
  PROVE  NoFutureCallback' /\ CallbacksMatch'
BY RejectMatches, FreshHoldMatches DEF RequestPrecisionLandAbort, Reject

LEMMA RequestLandMatches ==
  ASSUME IInv, RequestLand
  PROVE  NoFutureCallback' /\ CallbacksMatch'
<1>1. CASE UNCHANGED <<process, status, pending>>
  BY <1>1, RejectMatches
<1>2. CASE /\ NextGeneration /\ UNCHANGED <<waits, activations>>
           /\ Schedule("land", generation', "Landing", FALSE)
  <2>1. operation' = "Landing" /\ inProgress' = FALSE => Fits("land")'
    BY DEF Fits
  <2>2. "land" \in ModeCallbacks
    BY DEF ModeCallbacks
  <2> QED
    BY <1>2, <2>1, <2>2, FreshScheduleMatches
<1> QED
  BY <1>1, <1>2 DEF RequestLand, Reject

LEMMA RequestRtlMatches ==
  ASSUME IInv, RequestRtl
  PROVE  NoFutureCallback' /\ CallbacksMatch'
<1>1. CASE UNCHANGED <<process, status, pending>>
  BY <1>1, RejectMatches
<1>2. CASE /\ NextGeneration /\ UNCHANGED <<waits, activations>>
           /\ Schedule("rtl", generation', "Returning", FALSE)
  <2>1. operation' = "Returning" /\ inProgress' = FALSE => Fits("rtl")'
    BY DEF Fits
  <2>2. "rtl" \in ModeCallbacks
    BY DEF ModeCallbacks
  <2> QED
    BY <1>2, <2>1, <2>2, FreshScheduleMatches
<1> QED
  BY <1>1, <1>2 DEF RequestRtl, Reject

-----------------------------------------------------------------------------
(* The callbacks and the vehicle status.                                    *)

\* What a generation is compared with.
LEMMA GenerationNat ==
  ASSUME IInv
  PROVE  generation \in Nat /\ 0 <= generation
BY MaxGenerationIsNat DEF IInv, TypeOK, Generations

\* Callbacks that are dropped without effect were stale.
LEMMA DropStaleMatches ==
  ASSUME IInv, UNCHANGED <<operation, generation, inProgress>>,
         waits' \in SUBSET waits, \A w \in waits \ waits' : ~IsCurrent(w),
         activations' \in SUBSET activations, LiveReply => LiveReply',
         \/ UNCHANGED scheduled
         \/ ~LiveModeCall /\ scheduled' = NoCall
  PROVE  NoFutureCallback' /\ CallbacksMatch'
<1>1. NoFutureCallback'
  BY GenerationNat DEF IInv, NoFutureCallback, NoCall
<1>2. /\ LiveModeCall' <=> LiveModeCall
      /\ LiveModeCall' => scheduled' = scheduled
  BY DEF LiveModeCall, IsCurrent
<1>3. LiveReply' <=> LiveReply
  BY DEF LiveReply
<1>4. \A w : LiveWait(w)' <=> LiveWait(w)
  BY DEF LiveWait, IsCurrent
<1>5. Live' <=> Live
  BY <1>2, <1>4 DEF Live, LiveWait
<1>6. OneLiveCallback'
  BY <1>2, <1>3 DEF IInv, CallbacksMatch, OneLiveCallback, IsCurrent
<1>7. LiveCallbackFitsOperation'
  BY <1>2, <1>3 DEF IInv, CallbacksMatch, LiveCallbackFitsOperation, IsCurrent, Fits
<1> QED
  BY <1>1, <1>5, <1>6, <1>7
     DEF IInv, CallbacksMatch, InProgressIsLive, NeverStrandedInFlight

\* The live callback was spent and the operation is over.
LEMMA FinishMatches ==
  ASSUME IInv, UNCHANGED generation, ~inProgress', operation' = "Idle",
         waits' \in SUBSET waits, \A w \in waits' : ~IsCurrent(w),
         scheduled' \in {scheduled, NoCall}, LiveModeCall => scheduled' = NoCall,
         activations' \in SUBSET activations, ~LiveReply'
  PROVE  NoFutureCallback' /\ CallbacksMatch'
<1>1. NoFutureCallback'
  BY GenerationNat DEF IInv, NoFutureCallback, NoCall
<1>2. QuietWaits' /\ ~LiveModeCall'
  BY DEF QuietWaits, LiveModeCall, IsCurrent
<1> QED
  BY <1>1, <1>2, SettledMatches

\* The live callback was spent and a mode switch continues the operation.
LEMMA ContinueMatches ==
  ASSUME IInv, UNCHANGED generation,
         waits' \in SUBSET waits, \A w \in waits' : ~IsCurrent(w),
         UNCHANGED activations, ~LiveReply,
         NEW callback \in ModeCallbacks, NEW op, NEW landing,
         Schedule(callback, generation, op, landing),
         operation' = op /\ inProgress' = landing => Fits(callback)'
  PROVE  NoFutureCallback' /\ CallbacksMatch'
<1>1. QuietWaits' /\ ~LiveReply'
  BY DEF QuietWaits, IsCurrent, LiveReply
<1>2. CASE /\ scheduled' = [callback |-> callback, gen |-> generation]
           /\ operation' = op
           /\ inProgress' = landing
  <2>1. /\ scheduled'.callback = callback
        /\ scheduled'.gen = generation'
        /\ scheduled' # NoCall
    BY <1>2 DEF NoCall, ModeCallbacks
  <2>2. NoFutureCallback'
    BY <2>1, GenerationNat DEF IInv, NoFutureCallback
  <2>3. IsCurrent(scheduled)' /\ Fits(scheduled.callback)'
    BY <1>2, <2>1 DEF IsCurrent
  <2> QED
    BY <1>1, <2>1, <2>2, <2>3, ScheduledMatches
<1>3. CASE scheduled' = NoCall /\ Finish
  <2>1. NoFutureCallback'
    BY <1>3, GenerationNat DEF IInv, NoFutureCallback, NoCall
  <2>2. ~LiveModeCall' /\ ~inProgress' /\ operation' = "Idle"
    BY <1>3 DEF LiveModeCall, Finish
  <2> QED
    BY <1>1, <2>1, <2>2, SettledMatches
<1> QED
  BY <1>2, <1>3 DEF Schedule

\* A live completion is the only live callback and fits the operation.
LEMMA ModeCompletesAlone ==
  ASSUME IInv, NEW callback, ModeCompletes(callback)
  PROVE  /\ LiveModeCall
         /\ QuietWaits
         /\ Fits(callback)
         /\ ~LiveReply /\ ~LiveReply'
         /\ UNCHANGED <<generation, activations>>
BY DEF IInv, CallbacksMatch, OneLiveCallback, LiveCallbackFitsOperation,
       ModeCompletes, LiveModeCall, LiveReply, QuietWaits

LEMMA ModeEndsMatches ==
  ASSUME IInv, NEW result \in Results, ModeEnds(result)
  PROVE  NoFutureCallback' /\ CallbacksMatch'
<1>1. CASE StaleModeCompletes
  BY <1>1, DropStaleMatches DEF StaleModeCompletes, LiveModeCall, LiveReply, process
<1>2. CASE TakeoffCompletes(result)
  <2>1. /\ LiveModeCall /\ QuietWaits /\ ~inProgress /\ UNCHANGED <<generation, waits, activations>>
        /\ ~LiveReply /\ ~LiveReply'
    BY <1>2, ModeCompletesAlone DEF TakeoffCompletes, Fits
  <2>2. CASE scheduled' = NoCall /\ Finish
    BY <2>1, <2>2, FinishMatches DEF Finish, QuietWaits
  <2>3. CASE ScheduleHold(generation, inProgress)
    <3>1. operation' = "Idle" /\ inProgress' = inProgress => Fits("hold")'
      BY <2>1 DEF Fits
    <3>2. "hold" \in ModeCallbacks
      BY DEF ModeCallbacks
    <3> QED
      BY <2>1, <2>3, <3>1, <3>2, ContinueMatches DEF ScheduleHold, QuietWaits
  <2> QED
    BY <1>2, <2>2, <2>3 DEF TakeoffCompletes
<1>3. CASE HoldCompletes(result)
  <2>1. /\ LiveModeCall /\ QuietWaits /\ ~inProgress /\ operation = "Idle"
        /\ UNCHANGED <<generation, waits, activations>>
        /\ ~LiveReply /\ ~LiveReply'
    BY <1>3, ModeCompletesAlone DEF HoldCompletes, Fits
  <2>2. scheduled' = NoCall /\ ~inProgress' /\ operation' = "Idle"
    BY <1>3, <2>1 DEF HoldCompletes, Finish
  <2> QED
    BY <2>1, <2>2, FinishMatches DEF QuietWaits
<1>4. CASE PrecisionLandCompletes(result)
  <2>1. /\ LiveModeCall /\ QuietWaits /\ inProgress /\ UNCHANGED <<generation, waits, activations>>
        /\ ~LiveReply /\ ~LiveReply'
    BY <1>4, ModeCompletesAlone DEF PrecisionLandCompletes, Fits
  <2>2. CASE Schedule("handoff", generation, "Landing", inProgress)
    <3>1. operation' = "Landing" /\ inProgress' = inProgress => Fits("handoff")'
      BY <2>1 DEF Fits
    <3>2. "handoff" \in ModeCallbacks
      BY DEF ModeCallbacks
    <3> QED
      BY <2>1, <2>2, <3>1, <3>2, ContinueMatches DEF QuietWaits
  <2>3. CASE ScheduleHold(generation, FALSE)
    <3>1. operation' = "Idle" /\ inProgress' = FALSE => Fits("hold")'
      BY DEF Fits
    <3>2. "hold" \in ModeCallbacks
      BY DEF ModeCallbacks
    <3> QED
      BY <2>1, <2>3, <3>1, <3>2, ContinueMatches DEF ScheduleHold, QuietWaits
  <2> QED
    BY <1>4, <2>2, <2>3 DEF PrecisionLandCompletes
<1>5. CASE GroundCompletes(result)
  <2>1. /\ LiveModeCall /\ QuietWaits /\ scheduled' = NoCall
        /\ operation \in {"Landing", "Returning"}
        /\ inProgress => operation = "Landing"
        /\ UNCHANGED <<generation, activations>>
        /\ ~LiveReply /\ ~LiveReply'
    BY <1>5, ModeCompletesAlone DEF GroundCompletes, Fits
  <2>2. CASE Finish /\ UNCHANGED waits
    BY <2>1, <2>2, FinishMatches DEF Finish, QuietWaits
  <2>3. CASE /\ waits' = waits \cup {[callback |-> "disarm", gen |-> generation]}
             /\ UNCHANGED <<operation, inProgress>>
    <3>1. PICK new \in waits' : /\ new.gen = generation /\ new.callback = "disarm"
                                /\ waits' = waits \cup {new}
      BY <2>3
    <3>2. NoFutureCallback'
      BY <2>1, <3>1, GenerationNat DEF IInv, NoFutureCallback, NoCall
    <3>3. ~LiveModeCall'
      BY <2>1 DEF LiveModeCall
    <3>4. IsCurrent(new)' /\ \A v \in waits' : IsCurrent(v)' => v = new
      BY <2>1, <3>1 DEF IsCurrent, QuietWaits
    <3>5. Fits(new.callback)'
      BY <2>1, <2>3, <3>1 DEF Fits
    <3>6. inProgress' => operation' \in {"PrecisionLanding", "Landing"}
      BY <2>1, <2>3
    <3> QED
      BY <2>1, <3>2, <3>3, <3>4, <3>5, <3>6, WaitingMatches
  <2> QED
    BY <1>5, <2>2, <2>3 DEF GroundCompletes
<1> QED
  BY <1>1, <1>2, <1>3, <1>4, <1>5 DEF ModeEnds

\* A live wait is the only live callback.
LEMMA WaitAlone ==
  ASSUME IInv, NEW w \in waits, IsCurrent(w)
  PROVE  /\ ~LiveModeCall /\ ~LiveReply
         /\ \A v \in waits : IsCurrent(v) => v = w
         /\ Fits(w.callback)
BY DEF IInv, CallbacksMatch, OneLiveCallback, LiveCallbackFitsOperation

LEMMA WaitCancelledMatches ==
  ASSUME IInv, NEW w \in waits, WaitCancelled(w)
  PROVE  NoFutureCallback' /\ CallbacksMatch'
<1>1. CASE IsCurrent(w)
  <2>1. /\ ~LiveModeCall /\ ~LiveReply
        /\ \A v \in waits : IsCurrent(v) => v = w
    BY <1>1, WaitAlone
  <2>2. /\ waits' = waits \ {w}
        /\ ~inProgress' /\ operation' = "Idle"
        /\ UNCHANGED <<generation, scheduled, activations>>
    BY <1>1 DEF WaitCancelled, Finish
  <2>3. ~LiveReply'
    BY <2>1, <2>2 DEF LiveReply
  <2> QED
    BY <2>1, <2>2, <2>3, FinishMatches
<1>2. CASE ~IsCurrent(w)
  BY <1>2, DropStaleMatches DEF WaitCancelled, LiveReply
<1> QED
  BY <1>1, <1>2

\* An accepted activation: only its own reply is spent.
LEMMA SpentReplyMatches ==
  ASSUME IInv, activations' \in SUBSET activations, ~LiveReply',
         UNCHANGED <<operation, generation, inProgress, scheduled, waits>>
  PROVE  NoFutureCallback' /\ CallbacksMatch'
<1>1. NoFutureCallback'
  BY DEF IInv, NoFutureCallback
<1>2. (LiveModeCall' <=> LiveModeCall) /\ (Live' <=> Live)
  BY DEF LiveModeCall, Live, LiveWait, IsCurrent
<1>3. OneLiveCallback' /\ LiveCallbackFitsOperation'
  BY <1>2 DEF IInv, CallbacksMatch, OneLiveCallback, LiveCallbackFitsOperation,
              IsCurrent, Fits
<1> QED
  BY <1>1, <1>2, <1>3 DEF IInv, CallbacksMatch, InProgressIsLive, NeverStrandedInFlight

LEMMA ActivationAnsweredMatches ==
  ASSUME IInv, NEW gen \in activations, NEW accepted \in BOOLEAN,
         ActivationAnswered(gen, accepted)
  PROVE  NoFutureCallback' /\ CallbacksMatch'

<1>1. /\ activations' = activations \ {gen}
      /\ UNCHANGED <<generation, inProgress, scheduled, waits>>
  BY DEF ActivationAnswered
<1>2. CASE gen = generation /\ ~accepted
  <2>1. /\ operation = "Activating"
        /\ ~LiveModeCall /\ \A w \in waits : ~IsCurrent(w)
    BY <1>2 DEF IInv, CallbacksMatch, OneLiveCallback, LiveCallbackFitsOperation,
                LiveReply
  <2>2. ~inProgress'
    BY <1>1, <2>1, FreeHasNoLanding
  <2>3. operation' = "Idle"
    BY <1>2 DEF ActivationAnswered
  <2>4. ~LiveReply'
    BY <1>1, <1>2 DEF LiveReply
  <2> QED
    BY <1>1, <2>1, <2>2, <2>3, <2>4, FinishMatches
<1>3. CASE gen # generation
  <2>1. operation' = operation
    BY <1>3 DEF ActivationAnswered
  <2>2. LiveReply => LiveReply'
    BY <1>1, <1>3 DEF LiveReply
  <2> QED
    BY <1>1, <2>1, <2>2, DropStaleMatches
<1>4. CASE gen = generation /\ accepted
  <2>1. operation' = operation /\ ~LiveReply'
    BY <1>1, <1>4 DEF ActivationAnswered, LiveReply
  <2> QED
    BY <1>1, <2>1, SpentReplyMatches
<1> QED
  BY <1>2, <1>3, <1>4

\* Takeoff goes on in the arm callback; without one the report changes nothing.
LEMMA ArmedReportedMatches ==
  ASSUME IInv, ArmedReported
  PROVE  NoFutureCallback' /\ CallbacksMatch'
<1>1. /\ waits' = waits \ WaitsFor("arm")
      /\ UNCHANGED <<generation, activations>>
  BY DEF ArmedReported
<1>2. CASE \E w \in WaitsFor("arm") : IsCurrent(w)
  <2>1. PICK w \in waits : IsCurrent(w) /\ w.callback = "arm"
    BY <1>2 DEF WaitsFor
  <2>2. /\ ~LiveReply /\ \A v \in waits : IsCurrent(v) => v = w
        /\ Fits("arm")
    BY <2>1, WaitAlone
  <2>3. \A v \in waits' : ~IsCurrent(v)
    BY <1>1, <2>1, <2>2 DEF WaitsFor
  <2>4. ~inProgress /\ Schedule("takeoff", generation, "TakingOff", inProgress)
    BY <1>2, <2>2 DEF ArmedReported, Fits
  <2>5. operation' = "TakingOff" /\ inProgress' = inProgress => Fits("takeoff")'
    BY <2>4 DEF Fits
  <2>6. "takeoff" \in ModeCallbacks
    BY DEF ModeCallbacks
  <2> QED
    BY <1>1, <2>2, <2>3, <2>4, <2>5, <2>6, ContinueMatches
<1>3. CASE \A w \in WaitsFor("arm") : ~IsCurrent(w)
  <2>1. UNCHANGED <<operation, inProgress, scheduled>>
    BY <1>3 DEF ArmedReported
  <2> QED
    BY <1>1, <1>3, <2>1, DropStaleMatches DEF LiveReply
<1> QED
  BY <1>2, <1>3

\* A disarm wait that still counts ends the operation.
LEMMA DisarmedReportedMatches ==
  ASSUME IInv, DisarmedReported
  PROVE  NoFutureCallback' /\ CallbacksMatch'
<1>1. /\ waits' = waits \ WaitsFor("disarm")
      /\ UNCHANGED <<generation, scheduled, activations>>
  BY DEF DisarmedReported
<1>2. CASE \E w \in WaitsFor("disarm") : IsCurrent(w)
  <2>1. PICK w \in waits : IsCurrent(w) /\ w.callback = "disarm"
    BY <1>2 DEF WaitsFor
  <2>2. /\ ~LiveModeCall /\ ~LiveReply
        /\ \A v \in waits : IsCurrent(v) => v = w
    BY <2>1, WaitAlone
  <2>3. \A v \in waits' : ~IsCurrent(v)
    BY <1>1, <2>1, <2>2 DEF WaitsFor
  <2>4. ~inProgress' /\ operation' = "Idle"
    BY <1>2 DEF DisarmedReported, Finish
  <2>5. ~LiveReply'
    BY <1>1, <2>2 DEF LiveReply
  <2> QED
    BY <1>1, <2>2, <2>3, <2>4, <2>5, FinishMatches
<1>3. CASE \A w \in WaitsFor("disarm") : ~IsCurrent(w)
  <2>1. UNCHANGED <<operation, inProgress>>
    BY <1>3 DEF DisarmedReported
  <2> QED
    BY <1>1, <1>3, <2>1, DropStaleMatches DEF LiveReply
<1> QED
  BY <1>2, <1>3

\* Both hooks outdate every callback and free the executor.
LEMMA HookMatches ==
  ASSUME IInv, OnActivate \/ OnDeactivate
  PROVE  NoFutureCallback' /\ CallbacksMatch'
<1>1. /\ NextGeneration /\ UNCHANGED activations
      /\ scheduled' \in {scheduled, NoCall} /\ waits' \in SUBSET waits
      /\ operation' = "Idle" /\ ~inProgress'
  BY DEF OnActivate, OnDeactivate, Finish, pending
<1>2. ~LiveReply' /\ \A gen \in activations' : gen <= generation'
  BY <1>1, OutdatedReplies
<1> QED
  BY <1>1, <1>2, FreshIdleMatches

\* A new process has nothing pending.
LEMMA RespawnMatches ==
  ASSUME Respawn
  PROVE  NoFutureCallback' /\ CallbacksMatch'
<1>1. NoFutureCallback'
  BY DEF Respawn, NoFutureCallback, NoCall
<1>2. QuietWaits' /\ ~LiveModeCall' /\ ~LiveReply'
  BY DEF Respawn, QuietWaits, LiveModeCall, LiveReply
<1>3. ~inProgress' /\ operation' = "Idle"
  BY DEF Respawn, Finish
<1> QED
  BY <1>1, <1>2, <1>3, SettledMatches

-----------------------------------------------------------------------------
(* The specification.                                                       *)

LEMMA InitEstablishes == Init => IInv
<1> SUFFICES ASSUME Init PROVE IInv
  OBVIOUS
<1>1. TypeOK
  BY InitTyped
<1>2. NoFutureCallback
  BY DEF Init, NoFutureCallback, NoCall
<1>3. CallbacksMatch
  BY DEF Init, CallbacksMatch, OneLiveCallback, LiveCallbackFitsOperation,
         InProgressIsLive, NeverStrandedInFlight, LiveModeCall, LiveReply
<1> QED
  BY <1>1, <1>2, <1>3 DEF IInv

\* Every step keeps the invariant.
LEMMA InvariantStep == IInv /\ [Next]_vars => IInv'
<1> SUFFICES ASSUME IInv, [Next]_vars PROVE IInv'
  OBVIOUS
<1>1. TypeOK'
  BY TypeStep DEF IInv
<1>2. CASE Request
  BY <1>2, RequestActivateMatches, RequestTakeoffMatches, RequestHoldMatches,
     RequestPrecisionLandMatches, RequestPrecisionLandAbortMatches,
     RequestLandMatches, RequestRtlMatches, <1>1 DEF Request, IInv
<1>3. CASE Callback
  BY <1>3, ModeEndsMatches, WaitCancelledMatches, ActivationAnsweredMatches, <1>1
     DEF Callback, IInv
<1>4. CASE Environment
  <2>1. CASE ModeReported
    BY <2>1, SameMatches, <1>1 DEF ModeReported, process, pending, IInv
  <2> QED
    BY <1>4, <2>1, ArmedReportedMatches, DisarmedReportedMatches, HookMatches,
       RespawnMatches, <1>1 DEF Environment, IInv
<1>5. CASE UNCHANGED vars
  BY <1>1, <1>5, SameMatches DEF vars, process, pending, IInv
<1> QED
  BY <1>2, <1>3, <1>4, <1>5 DEF Next

LEMMA InvariantHolds == Spec => []IInv
BY InitEstablishes, InvariantStep, PTL DEF Spec

-----------------------------------------------------------------------------
(* The safety invariants.                                                   *)

\* At most one pending callback passes the generation guard (isCurrent).
THEOREM OneLiveCallbackCorrect == Spec => []OneLiveCallback
<1>1. IInv => OneLiveCallback
  BY DEF IInv, CallbacksMatch
<1> QED
  BY <1>1, InvariantHolds, PTL

\* The callback that counts belongs to the operation operation_ names.
THEOREM LiveCallbackFits == Spec => []LiveCallbackFitsOperation
<1>1. IInv => LiveCallbackFitsOperation
  BY DEF IInv, CallbacksMatch
<1> QED
  BY <1>1, InvariantHolds, PTL

\* precision_landing_in_progress_ is set only while a callback can end the landing.
THEOREM LandingInProgressIsLive == Spec => []InProgressIsLive
<1>1. IInv => InProgressIsLive
  BY DEF IInv, CallbacksMatch
<1> QED
  BY <1>1, InvariantHolds, PTL

\* Arming, takeoff and return always have a callback that ends them.
THEOREM FlightIsNeverStranded == Spec => []NeverStrandedInFlight
<1>1. IInv => NeverStrandedInFlight
  BY DEF IInv, CallbacksMatch
<1> QED
  BY <1>1, InvariantHolds, PTL

-----------------------------------------------------------------------------
(* What a step may never do.                                                *)

\* Only a request answers a service call, and it leaves the vehicle status alone.
LEMMA OnlyRequestsRespond ==
  ASSUME Callback \/ Environment
  PROVE  response' = NoResponse
<1>1. CASE Callback
  BY <1>1 DEF Callback, ModeEnds, StaleModeCompletes, TakeoffCompletes, HoldCompletes,
     PrecisionLandCompletes, GroundCompletes, ModeCompletes, WaitCancelled,
     ActivationAnswered
<1>2. CASE Environment
  BY <1>2 DEF Environment, ArmedReported, DisarmedReported, OnActivate, OnDeactivate,
     ModeReported, Respawn
<1> QED
  BY <1>1, <1>2

\* Every request is answered, so a step without a response is not one.
LEMMA RequestsAnswer ==
  ASSUME Request PROVE response' # NoResponse
<1>1. \E service \in Services, success \in BOOLEAN : Respond(service, success)
  <2>1. CASE RequestActivate
    BY <2>1 DEF RequestActivate, Reject, Services
  <2>2. CASE RequestTakeoff
    BY <2>2 DEF RequestTakeoff, Reject, Services
  <2>3. CASE RequestHold
    BY <2>3 DEF RequestHold, Reject, Services
  <2>4. CASE RequestPrecisionLand
    BY <2>4 DEF RequestPrecisionLand, Reject, Services
  <2>5. CASE RequestPrecisionLandAbort
    BY <2>5 DEF RequestPrecisionLandAbort, Reject, Services
  <2>6. CASE RequestLand
    BY <2>6 DEF RequestLand, Reject, Services
  <2>7. CASE RequestRtl
    BY <2>7 DEF RequestRtl, Reject, Services
  <2> QED
    BY <2>1, <2>2, <2>3, <2>4, <2>5, <2>6, <2>7 DEF Request
<1> QED
  BY <1>1 DEF Respond, NoResponse, Services

\* A request is turned down or repeated without effect, or it needs a free
\* executor or a landing in progress and takes a new generation.
LEMMA RequestKeepsOrRenews ==
  ASSUME Request
  PROVE  \/ UNCHANGED <<process, pending>>
         \/ NextGeneration /\ (operation = "Idle" \/ inProgress)
<1>1. CASE RequestActivate
  BY <1>1 DEF RequestActivate, Reject
<1>2. CASE RequestTakeoff
  BY <1>2 DEF RequestTakeoff, Reject, CanBegin
<1>3. CASE RequestHold
  BY <1>3 DEF RequestHold, Reject, CanInterrupt
<1>4. CASE RequestPrecisionLand
  BY <1>4 DEF RequestPrecisionLand, Reject, CanBegin
<1>5. CASE RequestPrecisionLandAbort
  BY <1>5 DEF RequestPrecisionLandAbort, Reject
<1>6. CASE RequestLand
  BY <1>6 DEF RequestLand, Reject, CanInterrupt
<1>7. CASE RequestRtl
  BY <1>7 DEF RequestRtl, Reject, CanInterrupt
<1> QED
  BY <1>1, <1>2, <1>3, <1>4, <1>5, <1>6, <1>7 DEF Request

\* No request touches an accepted operation that may not be interrupted.
THEOREM RunningOperationIsKept == Spec => RunningOperationKept
<1>1. [Next]_vars => [Uninterruptible /\ response' # NoResponse
                        => UNCHANGED <<process, pending>>]_vars
  <2> SUFFICES ASSUME Next, Uninterruptible, response' # NoResponse
               PROVE  UNCHANGED <<process, pending>>
    OBVIOUS
  <2>1. Request
    BY OnlyRequestsRespond DEF Next
  <2>2. operation # "Idle" /\ ~inProgress
    BY DEF Uninterruptible
  <2> QED
    BY <2>1, <2>2, RequestKeepsOrRenews
<1> QED
  BY <1>1, PTL DEF Spec, RunningOperationKept

\* The report of an armed vehicle is the other step that displaces a callback.
LEMMA OnlyReportsArm ==
  ASSUME Callback \/ Environment, ~armed, armed'
  PROVE  ArmedReported
<1>1. CASE Callback
  BY <1>1 DEF Callback, ModeEnds, StaleModeCompletes, TakeoffCompletes, HoldCompletes,
     PrecisionLandCompletes, GroundCompletes, ModeCompletes, WaitCancelled,
     ActivationAnswered, status
<1>2. CASE Environment
  BY <1>2 DEF Environment, DisarmedReported, OnActivate, OnDeactivate,
     ModeReported, Respawn
<1> QED
  BY <1>1, <1>2

\* A displaced callback, which the library runs as cancelled, is always stale.
THEOREM DisplacedCallbackIsStale == Spec => DisplacedIsStale
<1>1. IInv /\ [Next]_vars =>
        [scheduled # NoCall /\ scheduled' # scheduled /\ Displacing
           => scheduled.gen # generation']_vars
  <2> SUFFICES ASSUME IInv, Next, scheduled # NoCall, scheduled' # scheduled, Displacing
               PROVE  scheduled.gen # generation'
    OBVIOUS
  <2>1. CASE Request
    <3>1. NextGeneration
      BY <2>1, RequestKeepsOrRenews DEF pending
    <3> QED
      BY <3>1, NextGenerationOutdates, MaxGenerationIsNat
         DEF IInv, TypeOK, ModeCalls, NoCall, Generations
  <2>2. CASE Callback \/ Environment
    <3>1. ArmedReported
      BY <2>2, OnlyRequestsRespond, OnlyReportsArm DEF Displacing
    <3>2. PICK w \in waits : IsCurrent(w)
      BY <3>1 DEF ArmedReported, WaitsFor
    <3>3. ~LiveModeCall /\ UNCHANGED generation
      BY <3>1, <3>2, WaitAlone DEF ArmedReported
    <3> QED
      BY <3>3 DEF LiveModeCall, IsCurrent
  <2> QED
    BY <2>1, <2>2 DEF Next
<1> QED
  BY <1>1, InvariantHolds, PTL DEF Spec, DisplacedIsStale

-----------------------------------------------------------------------------
(* The executor implements OperationLifecycle.  The invariant decides which  *)
(* stage and which call an operation stands for; every step then needs only *)
(* what it does to the operation and to the live call.                      *)

\* The stage and the call behind each operation.
Shape ==
  /\ operation = "Idle" =>
       Stage = "Idle" /\ Awaited = IF LiveModeCall THEN "hold" ELSE "none"
  /\ operation = "Activating" =>
       Stage = "Activating" /\ Awaited = IF LiveReply THEN "activation" ELSE "none"
  /\ operation = "Arming" => Stage = "Arming" /\ Awaited = "arm"
  /\ operation = "TakingOff" => Stage = "TakingOff" /\ Awaited = "takeoff"
  /\ operation = "PrecisionLanding" =>
       IF inProgress THEN Stage = "PrecisionLanding" /\ Awaited = "precision_land"
                     ELSE Stage = "Stranded" /\ Awaited = "none"
  /\ operation = "Landing" /\ inProgress =>
       Stage = "HandedOver" /\ Awaited = IF LiveModeCall THEN "handoff" ELSE "disarm"
  /\ operation = "Landing" /\ ~inProgress /\ Live =>
       Stage = "Landing" /\ Awaited = IF LiveModeCall THEN "land" ELSE "disarm"
  /\ operation = "Landing" /\ ~inProgress /\ ~Live =>
       Stage = "Stranded" /\ Awaited = "none"
  /\ operation = "Returning" =>
       Stage = "Returning" /\ Awaited = IF LiveModeCall THEN "rtl" ELSE "disarm"

\* What the executor waits for, by the kind of the live callback.
LEMMA AwaitedModeCall ==
  ASSUME LiveModeCall PROVE Awaited = scheduled.callback
BY DEF Awaited

LEMMA AwaitedWait ==
  ASSUME IInv, NEW w \in waits, IsCurrent(w)
  PROVE  Awaited = w.callback /\ ~LiveModeCall /\ ~LiveReply /\ w.callback \in WaitCallbacks
<1>1. ~LiveModeCall /\ ~LiveReply /\ \A v \in AwaitedWaits : v = w
  BY DEF IInv, CallbacksMatch, OneLiveCallback, AwaitedWaits
<1>2. w \in AwaitedWaits /\ w.callback \in WaitCallbacks
  BY DEF AwaitedWaits, IInv, TypeOK, WaitCalls
<1>3. CASE w.callback = "arm"
  BY <1>1, <1>2, <1>3 DEF Awaited
<1>4. CASE w.callback = "disarm"
  <2>1. ~ \E v \in AwaitedWaits : v.callback = "arm"
    BY <1>1, <1>4
  <2>2. \E v \in AwaitedWaits : v.callback = "disarm"
    BY <1>2, <1>4
  <2> QED
    BY <1>1, <1>2, <1>4, <2>1, <2>2 DEF Awaited
<1> QED
  BY <1>1, <1>2, <1>3, <1>4 DEF WaitCallbacks

LEMMA AwaitedNothing ==
  ASSUME ~LiveModeCall, QuietWaits
  PROVE  Awaited = IF LiveReply THEN "activation" ELSE "none"
<1>1. AwaitedWaits = {}
  BY DEF QuietWaits, AwaitedWaits
<1> QED
  BY <1>1 DEF Awaited

\* Outside of the callbacks that fit, an operation has none.
LEMMA ShapeHolds == IInv => Shape
<1> SUFFICES ASSUME IInv PROVE Shape
  OBVIOUS
<1>0. /\ LiveModeCall => Awaited = scheduled.callback /\ scheduled.callback \in ModeCallbacks
      /\ ~LiveModeCall /\ QuietWaits => Awaited = IF LiveReply THEN "activation" ELSE "none"
      /\ LiveModeCall => QuietWaits
  <2>1. LiveModeCall => scheduled.callback \in ModeCallbacks
    BY DEF LiveModeCall, IInv, TypeOK, ModeCalls
  <2>2. LiveModeCall => QuietWaits
    BY DEF IInv, CallbacksMatch, OneLiveCallback, QuietWaits
  <2> QED
    BY <2>1, <2>2, AwaitedModeCall, AwaitedNothing
<1>1. /\ LiveModeCall => Fits(scheduled.callback)
      /\ \A w \in waits : IsCurrent(w) => Fits(w.callback)
      /\ LiveReply => operation = "Activating"
      /\ inProgress => operation \in {"PrecisionLanding", "Landing"} /\ Live
      /\ operation \in {"Arming", "TakingOff", "Returning"} => Live
  BY DEF IInv, CallbacksMatch, LiveCallbackFitsOperation, InProgressIsLive,
         NeverStrandedInFlight
<1>2. ASSUME ~QuietWaits
      PROVE  /\ Awaited \in {"arm", "disarm"} /\ Fits(Awaited)
             /\ Live /\ ~LiveModeCall
  <2>1. PICK w \in waits : IsCurrent(w)
    BY <1>2 DEF QuietWaits
  <2>2. Awaited = w.callback /\ ~LiveModeCall /\ w.callback \in WaitCallbacks
    BY <2>1, AwaitedWait
  <2> QED
    BY <1>1, <2>1, <2>2 DEF WaitCallbacks, Live, LiveWait
<1>3. Live <=> (LiveModeCall /\ scheduled.callback # "hold") \/ ~QuietWaits
  BY DEF Live, LiveWait, QuietWaits
<1>4. operation \in Operations /\ inProgress \in BOOLEAN
  BY DEF IInv, TypeOK
<1>5. CASE operation \in {"Idle", "Activating"}
  <2>1. QuietWaits /\ ~inProgress /\ Stage = operation
    BY <1>1, <1>2, <1>5 DEF Fits, Stage, Stranded, FlightOperations
  <2>2. operation = "Activating" => ~LiveModeCall
    BY <1>0, <1>1 DEF Fits, ModeCallbacks
  <2>3. operation = "Idle" => ~LiveReply
    BY <1>1
  <2>4. operation = "Idle" /\ LiveModeCall => scheduled.callback = "hold"
    BY <1>0, <1>1 DEF Fits, ModeCallbacks
  <2> QED
    BY <1>0, <1>5, <2>1, <2>2, <2>3, <2>4 DEF Shape
<1>6. CASE operation \in {"Arming", "TakingOff", "Returning"}
  <2>1. Live /\ ~inProgress /\ Stage = operation
    BY <1>1, <1>6 DEF Stage, Stranded
  <2>2. operation = "Arming" => Awaited = "arm"
    BY <1>0, <1>1, <1>2, <1>3, <2>1 DEF Fits, ModeCallbacks
  <2>3. operation = "TakingOff" => Awaited = "takeoff"
    BY <1>0, <1>1, <1>2, <1>3, <2>1 DEF Fits, ModeCallbacks
  <2>4. operation = "Returning" => Awaited = IF LiveModeCall THEN "rtl" ELSE "disarm"
    BY <1>0, <1>1, <1>2, <1>3, <2>1 DEF Fits, ModeCallbacks
  <2> QED
    BY <1>6, <2>1, <2>2, <2>3, <2>4 DEF Shape
<1>7. CASE operation \in {"PrecisionLanding", "Landing"} /\ inProgress
  <2>1. Live /\ Stage = IF operation = "Landing" THEN "HandedOver" ELSE operation
    BY <1>1, <1>7 DEF Stage, Stranded
  <2>2. operation = "PrecisionLanding" => Awaited = "precision_land"
    BY <1>0, <1>1, <1>2, <1>3, <1>7, <2>1 DEF Fits, ModeCallbacks
  <2>3. operation = "Landing" => Awaited = IF LiveModeCall THEN "handoff" ELSE "disarm"
    BY <1>0, <1>1, <1>2, <1>3, <1>7, <2>1 DEF Fits, ModeCallbacks
  <2> QED
    BY <1>7, <2>1, <2>2, <2>3 DEF Shape
<1>8. CASE operation \in {"PrecisionLanding", "Landing"} /\ ~inProgress
  <2>1. CASE Live
    <3>1. operation = "Landing" /\ Stage = "Landing"
      BY <1>0, <1>1, <1>2, <1>3, <1>8, <2>1 DEF Fits, ModeCallbacks, Stage, Stranded
    <3>2. Awaited = IF LiveModeCall THEN "land" ELSE "disarm"
      BY <1>0, <1>1, <1>2, <1>3, <1>8, <2>1, <3>1 DEF Fits, ModeCallbacks
    <3> QED
      BY <1>8, <2>1, <3>1, <3>2 DEF Shape
  <2>2. CASE ~Live
    <3>1. Stage = "Stranded"
      BY <1>8, <2>2 DEF Stage, Stranded, FlightOperations, Operations
    <3>2. QuietWaits /\ ~LiveModeCall /\ ~LiveReply
      BY <1>0, <1>1, <1>3, <1>8, <2>2 DEF Fits
    <3> QED
      BY <1>0, <1>8, <2>2, <3>1, <3>2 DEF Shape
  <2> QED
    BY <2>1, <2>2
<1> QED
  BY <1>4, <1>5, <1>6, <1>7, <1>8, <1>1 DEF Operations

LEMMA ShapeHoldsNext == IInv' => Shape'
BY ShapeHolds, PTL

\* A step of the lifecycle, or none.
Refines == Lifecycle!Next \/ UNCHANGED <<Stage, Awaited, inCharge>>

\* Of these, the steps without a request: the awaited call ends, the executor begins
\* anew, or nothing happens to the operation.
Continues ==
  \/ Lifecycle!CallEnds /\ UNCHANGED inCharge
  \/ Lifecycle!Restart
  \/ UNCHANGED <<Stage, Awaited, inCharge>>

LEMMA ContinuesRefines == Continues => Refines
BY DEF Continues, Refines, Lifecycle!Next, Lifecycle!Operate

\* Nothing happens to the operation or to what is live: the lifecycle stutters.
LEMMA SameContinues ==
  ASSUME IInv, IInv', UNCHANGED <<operation, inProgress, inCharge>>,
         LiveModeCall' <=> LiveModeCall, Live' <=> Live, LiveReply' <=> LiveReply
  PROVE  Continues
<1>1. Shape /\ Shape' /\ operation \in Operations
  BY ShapeHolds, ShapeHoldsNext DEF IInv, TypeOK
<1>2. Stage' = Stage /\ Awaited' = Awaited
  <2>1. CASE operation \in {"Idle", "Activating", "Arming", "TakingOff", "PrecisionLanding"}
    BY <1>1, <2>1 DEF Shape
  <2>2. CASE operation \in {"Landing", "Returning"}
    BY <1>1, <2>2 DEF Shape
  <2> QED
    BY <1>1, <2>1, <2>2 DEF Operations
<1> QED
  BY <1>2 DEF Continues

\* Nor when only callbacks of earlier generations go.
LEMMA StaleGoneContinues ==
  ASSUME IInv, IInv', UNCHANGED <<operation, inProgress, inCharge, generation>>,
         scheduled' = scheduled \/ (~LiveModeCall /\ scheduled' = NoCall),
         waits' \in SUBSET waits, \A w \in waits : IsCurrent(w) => w \in waits',
         LiveReply' <=> LiveReply
  PROVE  Continues
<1>1. LiveModeCall' <=> LiveModeCall
  BY DEF LiveModeCall, IsCurrent
<1>2. (\E w \in waits' : LiveWait(w)') <=> (\E w \in waits : LiveWait(w))
  BY DEF LiveWait, IsCurrent
<1>3. Live' <=> Live
  BY <1>1, <1>2 DEF Live, LiveModeCall
<1> QED
  BY <1>1, <1>3, SameContinues

\* A new generation leaves nothing live of what was pending.
LEMMA RenewedQuiet ==
  ASSUME IInv, NextGeneration
  PROVE  /\ scheduled' \in {scheduled, NoCall} => ~LiveModeCall'
         /\ scheduled' \in {scheduled, NoCall} /\ waits' \in SUBSET waits => ~Live'
<1>1. scheduled' \in {scheduled, NoCall} => ~LiveModeCall'
  BY NextGenerationOutdates, MaxGenerationIsNat
     DEF IInv, TypeOK, ModeCalls, NoCall, Generations, LiveModeCall, IsCurrent
<1>2. waits' \in SUBSET waits => QuietWaits'
  BY OutdatedWaitsQuiet
<1> QED
  BY <1>1, <1>2 DEF Live, LiveWait, QuietWaits

\* The new callback is live, or PX4 refused and none is.
LEMMA ScheduleLive ==
  ASSUME NEW callback \in ModeCallbacks, NEW op, NEW landing, IInv',
         Schedule(callback, generation', op, landing)
  PROVE  \/ /\ LiveModeCall' /\ operation' = op /\ inProgress' = landing
            /\ scheduled'.callback = callback
            /\ callback # "hold" => Live'
         \/ ~LiveModeCall' /\ Finish
<1>1. CASE /\ scheduled' = [callback |-> callback, gen |-> generation']
           /\ operation' = op /\ inProgress' = landing
  <2>1. LiveModeCall' /\ scheduled'.callback = callback
    BY <1>1 DEF LiveModeCall, IsCurrent, NoCall, ModeCallbacks
  <2> QED
    BY <1>1, <2>1 DEF Live
<1>2. CASE scheduled' = NoCall /\ Finish
  BY <1>2 DEF LiveModeCall
<1> QED
  BY <1>1, <1>2 DEF Schedule

\* The stage in which a request may interrupt.
LEMMA InterruptibleStage ==
  ASSUME IInv
  PROVE  /\ operation = "Idle" => Stage = "Idle"
         /\ inProgress => \/ operation = "PrecisionLanding" /\ Stage = "PrecisionLanding"
                          \/ operation = "Landing" /\ Stage = "HandedOver"
<1>1. Shape
  BY ShapeHolds
<1>2. inProgress => operation \in {"PrecisionLanding", "Landing"}
  BY DEF IInv, CallbacksMatch, InProgressIsLive
<1> QED
  BY <1>1, <1>2 DEF Shape

\* An executor that is free again stands at Idle, held or not.
LEMMA FreeAgain ==
  ASSUME IInv', operation' = "Idle"
  PROVE  Lifecycle!Held /\ (~LiveModeCall' => Lifecycle!Released)
<1>1. Stage' = "Idle" /\ Awaited' = IF LiveModeCall' THEN "hold" ELSE "none"
  BY ShapeHoldsNext DEF Shape
<1> QED
  BY <1>1 DEF Lifecycle!Held, Lifecycle!Released, Lifecycle!Becomes

\* A request that is turned down, or repeats what is done already.
LEMMA UnansweredRefines ==
  ASSUME IInv, IInv', UNCHANGED <<process, status, pending>>
  PROVE  Refines
BY StaleGoneContinues, ContinuesRefines DEF process, status, pending, LiveReply

\* Hold given to PX4, in place of whatever a request may interrupt.
LEMMA HoldRefines ==
  ASSUME IInv, IInv', CanInterrupt, UNCHANGED inCharge, ScheduleHold(generation', FALSE)
  PROVE  Refines
<1>1. operation' = "Idle"
  BY DEF ScheduleHold, Schedule, Finish
<1>2. Lifecycle!Hold
  BY <1>1, FreeAgain, InterruptibleStage
     DEF CanInterrupt, Lifecycle!Hold, Lifecycle!Interruptible
<1> QED
  BY <1>2 DEF Refines, Lifecycle!Next, Lifecycle!Operate, Lifecycle!Request

LEMMA RequestActivateRefines ==
  ASSUME IInv, IInv', RequestActivate PROVE Refines
<1>1. CASE UNCHANGED <<process, status, pending>>
  BY <1>1, UnansweredRefines
<1>2. CASE /\ operation = "Idle" /\ NextGeneration /\ operation' = "Activating"
           /\ activations' = activations \cup {generation'} /\ UNCHANGED status
  <2>1. Stage = "Idle" /\ Stage' = "Activating" /\ Awaited' = "activation"
    BY <1>2, ShapeHolds, ShapeHoldsNext DEF Shape, LiveReply
  <2> QED
    BY <1>2, <2>1 DEF Refines, status, Lifecycle!Next, Lifecycle!Operate,
       Lifecycle!Request, Lifecycle!Activate, Lifecycle!Free, Lifecycle!Becomes
<1>3. CASE operation = "Idle" /\ NextGeneration /\ UNCHANGED <<operation, scheduled, status>>
  <2>1. Lifecycle!Released
    BY <1>3, RenewedQuiet, FreeAgain
  <2>2. Stage = "Idle"
    BY <1>3, InterruptibleStage
  <2> QED
    BY <1>3, <2>1, <2>2 DEF Refines, status, Lifecycle!Next, Lifecycle!Operate,
       Lifecycle!Request, Lifecycle!Activate, Lifecycle!Free
<1> QED
  BY <1>1, <1>2, <1>3 DEF RequestActivate, Reject

LEMMA RequestTakeoffRefines ==
  ASSUME IInv, IInv', RequestTakeoff PROVE Refines
<1>1. CASE UNCHANGED <<process, status, pending>>
  BY <1>1, UnansweredRefines
<1>2. CASE operation = "Idle" /\ operation' = "Arming" /\ UNCHANGED status
  <2>1. Stage = "Idle" /\ Stage' = "Arming" /\ Awaited' = "arm"
    BY <1>2, ShapeHolds, ShapeHoldsNext DEF Shape
  <2> QED
    BY <1>2, <2>1 DEF Refines, status, Lifecycle!Next, Lifecycle!Operate,
       Lifecycle!Request, Lifecycle!Takeoff, Lifecycle!Free, Lifecycle!Becomes
<1>3. CASE operation = "Idle" /\ NextGeneration /\ Finish /\ UNCHANGED <<scheduled, status>>
  <2>1. Lifecycle!Released
    BY <1>3, RenewedQuiet, FreeAgain DEF Finish
  <2>2. Stage = "Idle"
    BY <1>3, InterruptibleStage
  <2> QED
    BY <1>3, <2>1, <2>2 DEF Refines, status, Lifecycle!Next, Lifecycle!Operate,
       Lifecycle!Request, Lifecycle!Takeoff, Lifecycle!Free
<1> QED
  BY <1>1, <1>2, <1>3 DEF RequestTakeoff, Reject, CanBegin

\* Hold served in place is the one request that strands what it interrupts.
LEMMA HoldInPlaceRefines ==
  ASSUME IInv, IInv', CanInterrupt, NextGeneration, inProgress' = FALSE,
         UNCHANGED <<operation, scheduled, waits, inCharge>>
  PROVE  Refines
<1>1. ~LiveModeCall' /\ ~Live'
  BY RenewedQuiet
<1>2. CASE operation = "Idle"
  <2>1. Stage = "Idle" /\ Stage' = "Idle" /\ Awaited' = "none"
    BY <1>1, <1>2, ShapeHolds, ShapeHoldsNext DEF Shape
  <2> QED
    BY <2>1 DEF Refines, Lifecycle!Next, Lifecycle!Operate, Lifecycle!Request,
       Lifecycle!HoldInPlace, Lifecycle!Interruptible, Lifecycle!Free, Lifecycle!Becomes
<1>3. CASE inProgress
  <2>1. Stage \in {"PrecisionLanding", "HandedOver"} /\ operation \in {"PrecisionLanding", "Landing"}
    BY <1>3, InterruptibleStage
  <2>2. Stage' = "Stranded" /\ Awaited' = "none"
    BY <1>1, <2>1, ShapeHoldsNext DEF Shape
  <2> QED
    BY <2>1, <2>2 DEF Refines, Lifecycle!Next, Lifecycle!Operate, Lifecycle!Request,
       Lifecycle!HoldInPlace, Lifecycle!Interruptible, Lifecycle!Free, Lifecycle!Becomes
<1> QED
  BY <1>2, <1>3 DEF CanInterrupt

LEMMA RequestHoldRefines ==
  ASSUME IInv, IInv', RequestHold PROVE Refines
<1>1. CASE UNCHANGED <<process, status, pending>>
  BY <1>1, UnansweredRefines
<1>2. CASE /\ CanInterrupt /\ NextGeneration /\ inProgress' = FALSE
           /\ UNCHANGED <<operation, scheduled, waits, status>>
  BY <1>2, HoldInPlaceRefines DEF status
<1>3. CASE CanInterrupt /\ ScheduleHold(generation', FALSE) /\ UNCHANGED status
  BY <1>3, HoldRefines DEF status
<1> QED
  BY <1>1, <1>2, <1>3 DEF RequestHold, Reject

LEMMA RequestPrecisionLandRefines ==
  ASSUME IInv, IInv', RequestPrecisionLand PROVE Refines
<1>1. CASE UNCHANGED <<process, status, pending>>
  BY <1>1, UnansweredRefines
<1>2. CASE /\ operation = "Idle" /\ UNCHANGED status
           /\ Schedule("precision_land", generation', "PrecisionLanding", TRUE)
  <2>1. \/ operation' = "PrecisionLanding" /\ inProgress' = TRUE
        \/ ~LiveModeCall' /\ Finish
    BY <1>2, ScheduleLive DEF ModeCallbacks
  <2>2. \/ Stage' = "PrecisionLanding" /\ Awaited' = "precision_land"
        \/ Lifecycle!Released
    BY <2>1, ShapeHoldsNext, FreeAgain DEF Shape, Finish
  <2>3. Stage = "Idle"
    BY <1>2, InterruptibleStage
  <2> QED
    BY <1>2, <2>2, <2>3 DEF Refines, status, Lifecycle!Next, Lifecycle!Operate,
       Lifecycle!Request, Lifecycle!PrecisionLand, Lifecycle!Free, Lifecycle!Becomes,
       Lifecycle!Held
<1>3. CASE operation = "Idle" /\ UNCHANGED status /\ ScheduleHold(generation', FALSE)
  BY <1>3, HoldRefines DEF CanInterrupt, status
<1> QED
  BY <1>1, <1>2, <1>3 DEF RequestPrecisionLand, Reject, CanBegin

LEMMA RequestPrecisionLandAbortRefines ==
  ASSUME IInv, IInv', RequestPrecisionLandAbort PROVE Refines
<1>1. CASE UNCHANGED <<process, status, pending>>
  BY <1>1, UnansweredRefines
<1>2. CASE inProgress /\ UNCHANGED status /\ ScheduleHold(generation', FALSE)
  BY <1>2, HoldRefines DEF CanInterrupt, status
<1> QED
  BY <1>1, <1>2 DEF RequestPrecisionLandAbort, Reject

LEMMA RequestLandRefines ==
  ASSUME IInv, IInv', RequestLand PROVE Refines
<1>1. CASE UNCHANGED <<process, status, pending>>
  BY <1>1, UnansweredRefines
<1>2. CASE /\ CanInterrupt /\ ~(operation = "Landing" /\ inProgress) /\ UNCHANGED status
           /\ Schedule("land", generation', "Landing", FALSE)
  <2>1. \/ LiveModeCall' /\ Live' /\ operation' = "Landing" /\ inProgress' = FALSE
        \/ ~LiveModeCall' /\ Finish
    BY <1>2, ScheduleLive DEF ModeCallbacks
  <2>2. \/ Stage' = "Landing" /\ Awaited' = "land"
        \/ Lifecycle!Released
    BY <2>1, ShapeHoldsNext, FreeAgain DEF Shape, Finish
  <2>3. Stage \in {"Idle", "PrecisionLanding"}
    BY <1>2, InterruptibleStage DEF CanInterrupt
  <2> QED
    BY <1>2, <2>2, <2>3 DEF Refines, status, Lifecycle!Next, Lifecycle!Operate,
       Lifecycle!Request, Lifecycle!Land, Lifecycle!Interruptible, Lifecycle!Becomes
<1> QED
  BY <1>1, <1>2 DEF RequestLand, Reject

LEMMA RequestRtlRefines ==
  ASSUME IInv, IInv', RequestRtl PROVE Refines
<1>1. CASE UNCHANGED <<process, status, pending>>
  BY <1>1, UnansweredRefines
<1>2. CASE /\ CanInterrupt /\ UNCHANGED status
           /\ Schedule("rtl", generation', "Returning", FALSE)
  <2>1. \/ LiveModeCall' /\ operation' = "Returning"
        \/ ~LiveModeCall' /\ Finish
    BY <1>2, ScheduleLive DEF ModeCallbacks
  <2>2. \/ Stage' = "Returning" /\ Awaited' = "rtl"
        \/ Lifecycle!Released
    BY <2>1, ShapeHoldsNext, FreeAgain DEF Shape, Finish
  <2>3. Lifecycle!Interruptible
    BY <1>2, InterruptibleStage DEF CanInterrupt, Lifecycle!Interruptible
  <2> QED
    BY <1>2, <2>2, <2>3 DEF Refines, status, Lifecycle!Next, Lifecycle!Operate,
       Lifecycle!Request, Lifecycle!Rtl, Lifecycle!Becomes
<1> QED
  BY <1>1, <1>2 DEF RequestRtl, Reject

\* A callback that counts is the call the lifecycle waits for, so its end may
\* release the executor
LEMMA EndReleases ==
  ASSUME IInv', Awaited # "none", operation' = "Idle", ~LiveModeCall', UNCHANGED inCharge
  PROVE  Continues
BY FreeAgain DEF Continues, Lifecycle!CallEnds

\* or take it to the next stage.
LEMMA EndGoesOn ==
  ASSUME Awaited # "none", UNCHANGED inCharge, Lifecycle!GoesOn \/ Lifecycle!FallsBack
  PROVE  Continues
BY DEF Continues, Lifecycle!CallEnds

LEMMA StaleModeContinues ==
  ASSUME IInv, IInv', StaleModeCompletes PROVE Continues
<1>1. ~LiveModeCall
  BY DEF StaleModeCompletes, LiveModeCall
<1> QED
  BY <1>1, StaleGoneContinues DEF StaleModeCompletes, process, status, LiveReply

LEMMA TakeoffCompletesContinues ==
  ASSUME IInv, IInv', NEW result, TakeoffCompletes(result) PROVE Continues
<1>1. Awaited = "takeoff" /\ UNCHANGED inCharge
  BY AwaitedModeCall DEF TakeoffCompletes, ModeCompletes, LiveModeCall, status
<1>2. operation' = "Idle"
  BY DEF TakeoffCompletes, ScheduleHold, Schedule, Finish
<1>3. Stage' = "Idle" /\ Awaited' \in {"hold", "none"}
  BY <1>2, ShapeHoldsNext DEF Shape
<1>4. CASE Awaited' = "hold"
  BY <1>1, <1>3, <1>4, EndGoesOn DEF Lifecycle!GoesOn, Lifecycle!Becomes
<1>5. CASE Awaited' = "none"
  <2>1. ~LiveModeCall'
    BY <1>2, <1>5, ShapeHoldsNext DEF Shape
  <2> QED
    BY <1>1, <1>2, <2>1, EndReleases
<1> QED
  BY <1>3, <1>4, <1>5

LEMMA HoldCompletesContinues ==
  ASSUME IInv, IInv', NEW result, HoldCompletes(result) PROVE Continues
<1>1. LiveModeCall /\ scheduled.callback = "hold" /\ UNCHANGED inCharge
  BY DEF HoldCompletes, ModeCompletes, LiveModeCall, status
<1>2. Awaited = "hold" /\ operation = "Idle"
  BY <1>1, AwaitedModeCall DEF IInv, CallbacksMatch, LiveCallbackFitsOperation, Fits
<1>3. operation' = "Idle" /\ ~LiveModeCall'
  BY <1>2 DEF HoldCompletes, Finish, LiveModeCall
<1> QED
  BY <1>1, <1>2, <1>3, EndReleases

LEMMA PrecisionLandCompletesContinues ==
  ASSUME IInv, IInv', NEW result, PrecisionLandCompletes(result) PROVE Continues
<1>1. LiveModeCall /\ scheduled.callback = "precision_land" /\ UNCHANGED inCharge
  BY DEF PrecisionLandCompletes, ModeCompletes, LiveModeCall, status
<1>2. Awaited = "precision_land" /\ inProgress
  BY <1>1, AwaitedModeCall DEF IInv, CallbacksMatch, LiveCallbackFitsOperation, Fits
<1>3. CASE Schedule("handoff", generation, "Landing", inProgress) /\ UNCHANGED generation
  <2>1. \/ LiveModeCall' /\ operation' = "Landing" /\ inProgress'
        \/ ~LiveModeCall' /\ Finish
    BY <1>2, <1>3, ScheduleLive DEF ModeCallbacks
  <2>2. CASE LiveModeCall' /\ operation' = "Landing" /\ inProgress'
    BY <1>1, <1>2, <2>2, ShapeHoldsNext, EndGoesOn
       DEF Shape, Lifecycle!GoesOn, Lifecycle!Becomes
  <2>3. CASE ~LiveModeCall' /\ Finish
    BY <1>1, <1>2, <2>3, EndReleases DEF Finish
  <2> QED
    BY <2>1, <2>2, <2>3
<1>4. CASE ScheduleHold(generation, FALSE)
  <2>1. operation' = "Idle"
    BY <1>4 DEF ScheduleHold, Schedule, Finish
  <2>2. Stage' = "Idle" /\ Awaited' = IF LiveModeCall' THEN "hold" ELSE "none"
    BY <2>1, ShapeHoldsNext DEF Shape
  <2>3. CASE LiveModeCall'
    BY <1>1, <1>2, <2>2, <2>3, EndGoesOn DEF Lifecycle!FallsBack, Lifecycle!Becomes
  <2>4. CASE ~LiveModeCall'
    BY <1>1, <1>2, <2>1, <2>4, EndReleases
  <2> QED
    BY <2>3, <2>4
<1> QED
  BY <1>3, <1>4 DEF PrecisionLandCompletes, ModeCompletes

LEMMA GroundCompletesContinues ==
  ASSUME IInv, IInv', NEW result, GroundCompletes(result) PROVE Continues
<1>1. /\ LiveModeCall /\ scheduled.callback \in {"handoff", "land", "rtl"}
      /\ scheduled' = NoCall /\ ~LiveModeCall' /\ UNCHANGED <<inCharge, generation>>
  BY DEF GroundCompletes, ModeCompletes, LiveModeCall, status
<1>2. Awaited = scheduled.callback
  BY <1>1, AwaitedModeCall
<1>3. CASE /\ waits' = waits \cup {[callback |-> "disarm", gen |-> generation]}
           /\ UNCHANGED <<operation, inProgress>>
  <2>1. \E w \in waits' : w.gen = generation'
    <3>1. [callback |-> "disarm", gen |-> generation] \in waits'
      BY <1>3
    <3> QED
      BY <1>1, <3>1
  <2>2. Live'
    BY <2>1 DEF Live, LiveWait, IsCurrent
  <2>3. /\ scheduled.callback = "handoff" => operation = "Landing" /\ inProgress
        /\ scheduled.callback = "land" => operation = "Landing" /\ ~inProgress
        /\ scheduled.callback = "rtl" => operation = "Returning"
    BY <1>1 DEF IInv, CallbacksMatch, LiveCallbackFitsOperation, Fits
  <2>4. Live
    BY <1>1 DEF Live
  <2>5. Stage' = Stage /\ Awaited' = "disarm"
    BY <1>1, <1>3, <2>2, <2>3, <2>4, ShapeHolds, ShapeHoldsNext DEF Shape
  <2> QED
    BY <1>1, <1>2, <2>5, EndGoesOn DEF Lifecycle!GoesOn, Lifecycle!Becomes
<1>4. CASE Finish
  BY <1>1, <1>2, <1>4, EndReleases DEF Finish
<1> QED
  BY <1>3, <1>4 DEF GroundCompletes

LEMMA WaitCancelledContinues ==
  ASSUME IInv, IInv', NEW w \in waits, WaitCancelled(w) PROVE Continues
<1>1. CASE IsCurrent(w)
  <2>1. Awaited # "none" /\ ~LiveModeCall
    BY <1>1, AwaitedWait DEF WaitCallbacks
  <2>2. operation' = "Idle" /\ ~LiveModeCall' /\ UNCHANGED inCharge
    BY <1>1, <2>1 DEF WaitCancelled, Finish, LiveModeCall, IsCurrent, status
  <2> QED
    BY <2>1, <2>2, EndReleases
<1>2. CASE ~IsCurrent(w)
  BY <1>2, StaleGoneContinues DEF WaitCancelled, status, LiveReply
<1> QED
  BY <1>1, <1>2

LEMMA ActivationAnsweredContinues ==
  ASSUME IInv, IInv', NEW gen \in activations, NEW accepted \in BOOLEAN,
         ActivationAnswered(gen, accepted)
  PROVE  Continues
<1>1. CASE gen = generation
  <2>1. LiveReply /\ ~LiveReply' /\ ~LiveModeCall /\ operation = "Activating" /\ UNCHANGED inCharge
    BY <1>1 DEF LiveReply, IInv, CallbacksMatch, OneLiveCallback,
       LiveCallbackFitsOperation, ActivationAnswered, status
  <2>2. Stage = "Activating" /\ Awaited = "activation" /\ ~LiveModeCall'
    BY <2>1, ShapeHolds DEF Shape, LiveModeCall, IsCurrent, ActivationAnswered
  <2>3. CASE accepted
    <3>1. Stage' = "Activating" /\ Awaited' = "none"
      BY <2>1, <2>3, ShapeHoldsNext DEF Shape, ActivationAnswered
    <3> QED
      BY <2>1, <2>2, <3>1, EndGoesOn DEF Lifecycle!GoesOn, Lifecycle!Becomes
  <2>4. CASE ~accepted
    BY <1>1, <2>1, <2>2, <2>4, EndReleases DEF ActivationAnswered
  <2> QED
    BY <2>3, <2>4
<1>2. CASE gen # generation
  BY <1>2, StaleGoneContinues DEF ActivationAnswered, status, LiveReply
<1> QED
  BY <1>1, <1>2

LEMMA ArmedReportedContinues ==
  ASSUME IInv, IInv', ArmedReported PROVE Continues
<1>1. CASE \E w \in WaitsFor("arm") : IsCurrent(w)
  <2>1. PICK w \in waits : w.callback = "arm" /\ IsCurrent(w)
    BY <1>1 DEF WaitsFor
  <2>2. Awaited = "arm"
    BY <2>1, AwaitedWait
  <2>3. /\ Schedule("takeoff", generation', "TakingOff", inProgress)
        /\ UNCHANGED inCharge
    BY <1>1 DEF ArmedReported
  <2>4. \/ operation' = "TakingOff"
        \/ ~LiveModeCall' /\ Finish
    BY <2>3, ScheduleLive DEF ModeCallbacks
  <2>5. CASE operation' = "TakingOff"
    BY <2>2, <2>3, <2>5, ShapeHoldsNext, EndGoesOn
       DEF Shape, Lifecycle!GoesOn, Lifecycle!Becomes
  <2>6. CASE ~LiveModeCall' /\ Finish
    BY <2>2, <2>3, <2>6, EndReleases DEF Finish
  <2> QED
    BY <2>4, <2>5, <2>6
<1>2. CASE ~ \E w \in WaitsFor("arm") : IsCurrent(w)
  BY <1>2, StaleGoneContinues DEF ArmedReported, LiveReply
<1> QED
  BY <1>1, <1>2

LEMMA DisarmedReportedContinues ==
  ASSUME IInv, IInv', DisarmedReported PROVE Continues
<1>1. CASE \E w \in WaitsFor("disarm") : IsCurrent(w)
  <2>1. PICK w \in waits : w.callback = "disarm" /\ IsCurrent(w)
    BY <1>1 DEF WaitsFor
  <2>2. Awaited = "disarm" /\ ~LiveModeCall
    BY <2>1, AwaitedWait
  <2>3. operation' = "Idle" /\ ~LiveModeCall' /\ UNCHANGED inCharge
    BY <1>1, <2>2 DEF DisarmedReported, Finish, LiveModeCall, IsCurrent
  <2> QED
    BY <2>2, <2>3, EndReleases
<1>2. CASE ~ \E w \in WaitsFor("disarm") : IsCurrent(w)
  BY <1>2, StaleGoneContinues DEF DisarmedReported, LiveReply
<1> QED
  BY <1>1, <1>2

\* The hooks and a new process are the lifecycle's new beginnings.
LEMMA RestartContinues ==
  ASSUME IInv, IInv', OnActivate \/ OnDeactivate \/ Respawn PROVE Continues
<1>1. operation' = "Idle" /\ inCharge' \in BOOLEAN /\ ~(inCharge /\ inCharge')
  BY DEF OnActivate, OnDeactivate, Respawn, Finish
<1>2. ~LiveModeCall'
  <2>1. CASE OnActivate \/ OnDeactivate
    BY <2>1, RenewedQuiet DEF OnActivate, OnDeactivate, pending
  <2>2. CASE Respawn
    BY <2>2 DEF Respawn, LiveModeCall
  <2> QED
    BY <2>1, <2>2
<1> QED
  BY <1>1, <1>2, FreeAgain DEF Continues, Lifecycle!Restart

LEMMA InitRefines == Init => Lifecycle!Init
<1> SUFFICES ASSUME Init PROVE Lifecycle!Init
  OBVIOUS
<1>1. Stage = "Idle" /\ Awaited = "none"
  <2>1. ~LiveModeCall
    BY DEF Init, LiveModeCall
  <2> QED
    BY <2>1, InitEstablishes, ShapeHolds DEF Init, Shape
<1> QED
  BY <1>1 DEF Init, Lifecycle!Init

\* A callback or a report goes on with the operation; it never begins one.
LEMMA QuietContinues ==
  ASSUME IInv, IInv', Callback \/ Environment PROVE Continues
<1>1. CASE Callback
  BY <1>1, StaleModeContinues, TakeoffCompletesContinues, HoldCompletesContinues,
     PrecisionLandCompletesContinues, GroundCompletesContinues, WaitCancelledContinues,
     ActivationAnsweredContinues DEF Callback, ModeEnds
<1>2. CASE ModeReported
  BY <1>2, StaleGoneContinues DEF ModeReported, process, pending, LiveReply
<1>3. CASE Environment /\ ~ModeReported
  BY <1>3, ArmedReportedContinues, DisarmedReportedContinues, RestartContinues
     DEF Environment
<1> QED
  BY <1>1, <1>2, <1>3

LEMMA StepRefines == IInv /\ [Next]_vars => Refines
<1> SUFFICES ASSUME IInv, [Next]_vars PROVE Refines
  OBVIOUS
<1>0. IInv'
  BY InvariantStep
<1>1. CASE Request
  BY <1>0, <1>1, RequestActivateRefines, RequestTakeoffRefines, RequestHoldRefines,
     RequestPrecisionLandRefines, RequestPrecisionLandAbortRefines,
     RequestLandRefines, RequestRtlRefines DEF Request
<1>2. CASE Callback \/ Environment
  BY <1>0, <1>2, QuietContinues, ContinuesRefines
<1>3. CASE UNCHANGED vars
  BY <1>0, <1>3, UnansweredRefines DEF vars
<1> QED
  BY <1>1, <1>2, <1>3 DEF Next

\* The executor implements the lifecycle of operations: whatever is pending, late
\* or displaced, each of its steps is one the abstract machine allows.
THEOREM ExecutorImplements == Spec => Implements
<1>1. IInv /\ [Next]_vars => [Lifecycle!Next]_<<Stage, Awaited, inCharge>>
  BY StepRefines DEF Refines
<1> QED
  BY <1>1, InitRefines, InvariantHolds, PTL DEF Spec, Implements, Lifecycle!Spec
-----------------------------------------------------------------------------
(* Who may strand an operation.  The lifecycle says it is a Hold in place at *)
(* the abstract level; the concrete step must be the one that takes the      *)
(* landing flag and leaves the operation.                                    *)

\* Only a Hold served in place takes the landing flag and leaves a landing
\* operation behind that no callback ends.
LEMMA LandingGivenUp ==
  ASSUME IInv', Next, inProgress, ~inProgress',
         operation' \in {"PrecisionLanding", "Landing"}, ~Live'
  PROVE  response'.service = "hold" /\ modeActive
<1>1. CASE RequestHold
  <2>1. ~UNCHANGED process
    BY DEF process
  <2>2. ~ScheduleHold(generation', FALSE)
    BY DEF ScheduleHold, Schedule, Finish
  <2>3. modeActive /\ \E captured \in BOOLEAN : Respond("hold", captured)
    BY <1>1, <2>1, <2>2 DEF RequestHold, Reject
  <2> QED
    BY <2>3 DEF Respond
<1>2. CASE RequestLand
  <2>1. ~UNCHANGED process
    BY DEF process
  <2>2. Schedule("land", generation', "Landing", FALSE)
    BY <1>2, <2>1 DEF RequestLand, Reject
  <2> QED
    BY <2>2, ScheduleLive DEF ModeCallbacks, Finish
<1>3. CASE Request /\ ~RequestHold /\ ~RequestLand
  BY <1>3 DEF Request, RequestActivate, RequestTakeoff, RequestPrecisionLand,
     RequestPrecisionLandAbort, RequestRtl, Reject, process, ScheduleHold, Schedule, Finish
<1>4. CASE Callback
  BY <1>4 DEF Callback, ModeEnds, StaleModeCompletes, TakeoffCompletes, HoldCompletes,
     PrecisionLandCompletes, GroundCompletes, ModeCompletes, WaitCancelled,
     ActivationAnswered, process, ScheduleHold, Schedule, Finish
<1>5. CASE Environment
  BY <1>5 DEF Environment, ArmedReported, DisarmedReported, OnActivate, OnDeactivate,
     ModeReported, Respawn, process, Schedule, Finish
<1> QED
  BY <1>1, <1>2, <1>3, <1>4, <1>5 DEF Next

\* A flight operation loses its last live callback in one way: a Hold request
\* that finds DRN Control active and is served in place.
THEOREM StrandedOnlyInPlace == Spec => StrandedOnlyByHold
<1>1. IInv /\ [Next]_vars =>
        [~Stranded /\ Stranded' => response'.service = "hold" /\ modeActive]_vars
  <2> SUFFICES ASSUME IInv, Next, ~Stranded, Stranded'
               PROVE  response'.service = "hold" /\ modeActive
    OBVIOUS
  <2>1. IInv' /\ Refines
    BY InvariantStep, StepRefines
  <2>2. Stage # "Stranded" /\ Stage' = "Stranded"
    BY DEF Stage, IInv, TypeOK, Operations
  <2>3. Lifecycle!HoldInPlace /\ Stage # "Idle"
    BY <2>1, <2>2 DEF Refines, Lifecycle!Next, Lifecycle!Operate, Lifecycle!Restart,
       Lifecycle!Request, Lifecycle!Activate, Lifecycle!Takeoff, Lifecycle!PrecisionLand,
       Lifecycle!Hold, Lifecycle!Abort, Lifecycle!Land, Lifecycle!Rtl, Lifecycle!HoldInPlace,
       Lifecycle!Held, Lifecycle!Released, Lifecycle!Becomes, Lifecycle!CallEnds,
       Lifecycle!GoesOn, Lifecycle!FallsBack, Lifecycle!Free
  <2>4. inProgress
    <3>1. Stage \in {"PrecisionLanding", "HandedOver"} /\ Shape /\ operation \in Operations
      BY <2>3, ShapeHolds DEF Lifecycle!HoldInPlace, Lifecycle!Interruptible, IInv, TypeOK
    <3> QED
      BY <3>1 DEF Stage, Shape, Operations
  <2>5. ~inProgress' /\ operation' \in {"PrecisionLanding", "Landing"} /\ ~Live'
    BY <2>1 DEF Stranded, IInv, TypeOK, CallbacksMatch, InProgressIsLive, NeverStrandedInFlight,
       FlightOperations, Operations
  <2> QED
    BY <2>4, <2>5, <2>1, LandingGivenUp
<1> QED
  BY <1>1, InvariantHolds, PTL DEF Spec, StrandedOnlyByHold

-----------------------------------------------------------------------------
(* What the executor waits for between two requests.                        *)

\* In every reachable state the awaited call is one the lifecycle knows.
LEMMA AwaitedTyped == IInv => Awaited \in Lifecycle!Calls
<1> SUFFICES ASSUME IInv PROVE Awaited \in Lifecycle!Calls
  OBVIOUS
<1>1. LiveModeCall => scheduled.callback \in ModeCallbacks
  BY DEF LiveModeCall, IInv, TypeOK, ModeCalls
<1> QED
  BY <1>1 DEF Awaited, ModeCallbacks, Lifecycle!Calls

\* Without a request the executor only waits for ever fewer calls.
THEOREM OnlyRequestsProlongCalls == Spec => OnlyRequestsProlong
<1>1. IInv /\ [Next]_vars =>
        [response' = NoResponse => Awaited' = Awaited \/ CallsLeft[Awaited'] < CallsLeft[Awaited]]_vars
  <2> SUFFICES ASSUME IInv, Next, response' = NoResponse
               PROVE  Awaited' = Awaited \/ CallsLeft[Awaited'] < CallsLeft[Awaited]
    OBVIOUS
  <2>1. IInv' /\ Awaited \in Lifecycle!Calls
    BY InvariantStep, AwaitedTyped
  <2>2. Callback \/ Environment
    BY RequestsAnswer DEF Next
  <2>3. Continues
    BY <2>1, <2>2, QuietContinues
  <2>4. CASE Lifecycle!CallEnds
    BY <2>1, <2>4 DEF Lifecycle!CallEnds, Lifecycle!GoesOn, Lifecycle!FallsBack,
       Lifecycle!Released, Lifecycle!Becomes, Lifecycle!Calls, CallsLeft
  <2>5. CASE Lifecycle!Restart
    BY <2>1, <2>5 DEF Lifecycle!Restart, Lifecycle!Released, Lifecycle!Becomes,
       Lifecycle!Calls, CallsLeft
  <2> QED
    BY <2>3, <2>4, <2>5 DEF Continues
<1> QED
  BY <1>1, InvariantHolds, PTL DEF Spec, OnlyRequestsProlong
=============================================================================
