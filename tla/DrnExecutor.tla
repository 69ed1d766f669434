----------------------------- MODULE DrnExecutor -----------------------------
(***************************************************************************)
(* The operator-facing executor of drn_control: class DrnControlExecutor   *)
(* of src/src/drn_control/src/control_node.cpp.                            *)
(*                                                                         *)
(* The node spins one single-threaded rclcpp executor, so every service    *)
(* handler and every library callback runs to its end before the next one  *)
(* starts: each is one action.  The px4_ros2 library and PX4 are external; *)
(* they appear through what the code sees of them: the vehicle status the  *)
(* library last reported (armed, inCharge, modeActive) and the completion  *)
(* callbacks it holds (scheduled, waits, activations).                     *)
(***************************************************************************)
EXTENDS Naturals

CONSTANT MaxGeneration      \* bound on the uint64 request counter

ASSUME MaxGenerationIsNat == MaxGeneration \in Nat

VARIABLES
  operation,      \* operation_
  generation,     \* generation_
  inProgress,     \* precision_landing_in_progress_
  armed,          \* isArmed()
  inCharge,       \* isInCharge()
  modeActive,     \* mode_.isActive(): DRN Control is the reported flight mode
  scheduled,      \* the completion callback of the last mode switch, or NoCall
  waits,          \* the callbacks registered with arm and waitUntilDisarmed
  activations,    \* generations of the activation commands without a reply
  response        \* the Trigger response of this step, or NoResponse

process  == <<operation, generation, inProgress>>
status   == <<armed, inCharge, modeActive>>
pending  == <<scheduled, waits, activations>>
vars     == <<process, status, pending, response>>

Operations == {"Idle", "Activating", "Arming", "TakingOff",
               "PrecisionLanding", "Landing", "Returning"}

\* The operations that fly the vehicle on behalf of an accepted request.
FlightOperations == Operations \ {"Idle", "Activating"}

Services == {"activate", "takeoff", "hold", "land", "rtl",
             "precision_land", "precision_land_abort"}

\* Each callback is named for the call it completes; it captures a generation.
ModeCallbacks == {"takeoff", "hold", "precision_land", "handoff", "land", "rtl"}
WaitCallbacks == {"arm", "disarm"}

Generations == 0..MaxGeneration

NoCall     == [callback |-> "none", gen |-> 0]
NoResponse == [service |-> "none", success |-> FALSE]

ModeCalls == [callback : ModeCallbacks, gen : Generations]
WaitCalls == [callback : WaitCallbacks, gen : Generations]

TypeOK ==
  /\ operation \in Operations
  /\ generation \in Generations
  /\ inProgress \in BOOLEAN
  /\ armed \in BOOLEAN
  /\ inCharge \in BOOLEAN
  /\ modeActive \in BOOLEAN
  /\ scheduled \in ModeCalls \cup {NoCall}
  /\ waits \in SUBSET WaitCalls
  /\ activations \in SUBSET Generations
  /\ response \in [service : Services, success : BOOLEAN] \cup {NoResponse}

\* A freshly started process; the vehicle may already be flying.
Init ==
  /\ armed \in BOOLEAN
  /\ operation = "Idle"
  /\ generation = 0
  /\ inProgress = FALSE
  /\ inCharge = FALSE
  /\ modeActive = FALSE
  /\ scheduled = NoCall
  /\ waits = {}
  /\ activations = {}
  /\ response = NoResponse

-----------------------------------------------------------------------------
(* The vocabulary of the handlers.                                          *)

\* isCurrent: a callback acts only if no request or (de)activation came after.
IsCurrent(call) == call.gen = generation

Respond(service, success) ==
  response' = [service |-> service, success |-> success]

\* A request turned down by an early return.
Reject(service) ==
  /\ Respond(service, FALSE)
  /\ UNCHANGED <<process, status, pending>>

NextGeneration ==
  /\ generation < MaxGeneration
  /\ generation' = generation + 1

\* finishWithResult, and the end of a disarm wait.
Finish ==
  /\ operation' = "Idle"
  /\ inProgress' = FALSE

\* A mode switch asked of the library while (op, landing) is the executor's
\* state.  It drops the callback it displaces (DisplacedIsStale says why no
\* effect is lost) and either keeps the new one or is refused by PX4 at once,
\* in which case the callback runs inside the call and finishes.
Schedule(callback, gen, op, landing) ==
  \/ /\ scheduled' = [callback |-> callback, gen |-> gen]
     /\ operation' = op
     /\ inProgress' = landing
  \/ /\ scheduled' = NoCall
     /\ Finish

\* Fault: the switch to hold does not end the operation.
ScheduleHoldKeepsOperation(gen, landing) == Schedule("hold", gen, operation, landing)

ScheduleHold(gen, landing) == Schedule("hold", gen, "Idle", landing)

\* beginRequest's conditions.
CanBegin == inCharge /\ operation = "Idle"

\* Fault: any operation may be preempted.
CanInterruptAnything == TRUE

\* Hold, Land and RTL: precisionLandingCanBePreemptedBy holds for all three.
CanInterrupt == operation = "Idle" \/ inProgress

-----------------------------------------------------------------------------
(* The Trigger services.                                                    *)

RequestActivate ==
  \/ /\ inCharge
     /\ Respond("activate", TRUE)
     /\ UNCHANGED <<process, status, pending>>
  \/ /\ ~inCharge /\ (armed \/ operation # "Idle")
     /\ Reject("activate")
  \/ /\ ~inCharge /\ ~armed /\ operation = "Idle"
     /\ NextGeneration
     /\ \/ /\ operation' = "Activating"
           /\ activations' = activations \cup {generation'}
           /\ Respond("activate", TRUE)
        \/ /\ Respond("activate", FALSE)       \* service_is_ready() is false
           /\ UNCHANGED <<operation, activations>>
     /\ UNCHANGED <<inProgress, status, scheduled, waits>>

RequestTakeoff ==
  \/ /\ armed \/ ~CanBegin
     /\ Reject("takeoff")
  \/ /\ ~armed /\ CanBegin
     /\ NextGeneration
     /\ \/ /\ operation' = "Arming"
           /\ waits' = waits \cup {[callback |-> "arm", gen |-> generation']}
           /\ UNCHANGED inProgress
        \/ /\ Finish                           \* arming refused at once
           /\ UNCHANGED waits
     /\ Respond("takeoff", TRUE)
     /\ UNCHANGED <<status, scheduled, activations>>

RequestHold ==
  \/ /\ ~armed \/ ~CanInterrupt
     /\ Reject("hold")
  \/ /\ armed /\ CanInterrupt
     /\ NextGeneration
     /\ \/ \* hold in place: captureCurrentTarget may find no local position
           /\ modeActive
           /\ inProgress' = FALSE
           /\ \E captured \in BOOLEAN : Respond("hold", captured)
           /\ UNCHANGED <<operation, scheduled>>
        \/ /\ ~modeActive
           /\ ScheduleHold(generation', FALSE)
           /\ Respond("hold", TRUE)
     /\ UNCHANGED <<status, waits, activations>>

RequestPrecisionLand ==
  \E targetReady \in BOOLEAN :
    LET accept == armed /\ modeActive /\ targetReady /\ CanBegin IN
    \/ ~accept /\ Reject("precision_land")
    \/ /\ accept
       /\ NextGeneration
       /\ \/ Schedule("precision_land", generation', "PrecisionLanding", TRUE)
          \/ ScheduleHold(generation', FALSE)    \* refused: falls back to hold
       /\ Respond("precision_land", TRUE)
       /\ UNCHANGED <<status, waits, activations>>

\* Fault: the abort does not outdate the callback it cancels.
AbortKeepsGeneration ==
  /\ inProgress
  /\ ScheduleHold(generation, FALSE)
  /\ Respond("precision_land_abort", TRUE)
  /\ UNCHANGED <<generation, status, waits, activations>>

RequestPrecisionLandAbort ==
  \/ ~inProgress /\ Reject("precision_land_abort")
  \/ /\ inProgress
     /\ NextGeneration
     /\ ScheduleHold(generation', FALSE)
     /\ Respond("precision_land_abort", TRUE)
     /\ UNCHANGED <<status, waits, activations>>

\* Land is idempotent once precision landing has handed over to PX4 Land.
RequestLand ==
  LET handedOver == operation = "Landing" /\ inProgress IN
  \/ /\ ~armed \/ ~CanInterrupt
     /\ Reject("land")
  \/ /\ armed /\ handedOver
     /\ Respond("land", TRUE)
     /\ UNCHANGED <<process, status, pending>>
  \/ /\ armed /\ CanInterrupt /\ ~handedOver
     /\ NextGeneration
     /\ Schedule("land", generation', "Landing", FALSE)
     /\ Respond("land", TRUE)
     /\ UNCHANGED <<status, waits, activations>>

RequestRtl ==
  \/ /\ ~armed \/ ~CanInterrupt
     /\ Reject("rtl")
  \/ /\ armed /\ CanInterrupt
     /\ NextGeneration
     /\ Schedule("rtl", generation', "Returning", FALSE)
     /\ Respond("rtl", TRUE)
     /\ UNCHANGED <<status, waits, activations>>

-----------------------------------------------------------------------------
(* Completion callbacks.  "Success" is reported for a mode that ran to its  *)
(* end, "Deactivated" for one that was cancelled, "Failed" for the rest.    *)

Results == {"Success", "Failed", "Deactivated"}

\* Any callback whose generation has passed returns at once.
StaleModeCompletes ==
  /\ scheduled # NoCall /\ ~IsCurrent(scheduled)
  /\ scheduled' = NoCall
  /\ response' = NoResponse
  /\ UNCHANGED <<process, status, waits, activations>>

ModeCompletes(callback) ==
  /\ scheduled # NoCall /\ IsCurrent(scheduled)
  /\ scheduled.callback = callback
  /\ response' = NoResponse
  /\ UNCHANGED <<generation, status, activations>>

TakeoffCompletes(result) ==
  /\ ModeCompletes("takeoff")
  /\ IF result = "Success" THEN ScheduleHold(generation, inProgress)
                           ELSE scheduled' = NoCall /\ Finish
  /\ UNCHANGED waits

HoldCompletes(result) ==
  /\ ModeCompletes("hold")
  /\ scheduled' = NoCall
  /\ IF result = "Deactivated" THEN UNCHANGED <<operation, inProgress>>
                               ELSE Finish
  /\ UNCHANGED waits

\* Fault: a failed precision landing is tried again.
PrecisionLandRetries(result) ==
  /\ ModeCompletes("precision_land")
  /\ IF result = "Success" THEN Schedule("handoff", generation, "Landing", inProgress)
                           ELSE UNCHANGED <<scheduled, operation, inProgress>>
  /\ UNCHANGED waits

PrecisionLandCompletes(result) ==
  /\ ModeCompletes("precision_land")
  /\ IF result = "Success" THEN Schedule("handoff", generation, "Landing", inProgress)
                           ELSE ScheduleHold(generation, FALSE)
  /\ UNCHANGED waits

\* Fault: a landing or a return that fails is flown again as a landing.
GroundFailureLands(result) ==
  /\ \E callback \in {"handoff", "land", "rtl"} : ModeCompletes(callback)
  /\ IF result = "Success"
       THEN /\ scheduled' = NoCall
            /\ waits' = waits \cup {[callback |-> "disarm", gen |-> generation]}
            /\ UNCHANGED <<operation, inProgress>>
       ELSE /\ Schedule("land", generation, "Landing", FALSE)
            /\ UNCHANGED waits

\* Land, RTL and the landing handoff: a success goes on to waitForDisarm.
GroundCompletes(result) ==
  /\ \E callback \in {"handoff", "land", "rtl"} : ModeCompletes(callback)
  /\ scheduled' = NoCall
  /\ IF result = "Success"
       THEN /\ waits' = waits \cup {[callback |-> "disarm", gen |-> generation]}
            /\ UNCHANGED <<operation, inProgress>>
       ELSE Finish /\ UNCHANGED waits

ModeEnds(result) ==
  \/ StaleModeCompletes
  \/ TakeoffCompletes(result)
  \/ HoldCompletes(result)
  \/ PrecisionLandCompletes(result)
  \/ GroundCompletes(result)

WaitsFor(callback) == {w \in waits : w.callback = callback}

\* The status reports the vehicle armed: takeoff continues in the arm callback.
ArmedReported ==
  /\ ~armed
  /\ armed' = TRUE
  /\ waits' = waits \ WaitsFor("arm")
  /\ IF \E w \in WaitsFor("arm") : IsCurrent(w)
       THEN Schedule("takeoff", generation, "TakingOff", inProgress)
       ELSE UNCHANGED <<operation, inProgress, scheduled>>
  /\ response' = NoResponse
  /\ UNCHANGED <<generation, inCharge, modeActive, activations>>

\* A status without the armed flag ends every disarm wait.
DisarmedReported ==
  /\ armed \/ WaitsFor("disarm") # {}
  /\ armed' = FALSE
  /\ waits' = waits \ WaitsFor("disarm")
  /\ IF \E w \in WaitsFor("disarm") : IsCurrent(w)
       THEN Finish
       ELSE UNCHANGED <<operation, inProgress>>
  /\ response' = NoResponse
  /\ UNCHANGED <<generation, inCharge, modeActive, scheduled, activations>>

\* Fault: a cancelled wait finishes the operation, whichever request it was for.
WaitCancelledUnguarded(w) ==
  /\ waits' = waits \ {w}
  /\ Finish
  /\ response' = NoResponse
  /\ UNCHANGED <<generation, status, scheduled, activations>>

\* The library cancels a wait: anything but Success finishes the operation.
WaitCancelled(w) ==
  /\ waits' = waits \ {w}
  /\ IF IsCurrent(w) THEN Finish ELSE UNCHANGED <<operation, inProgress>>
  /\ response' = NoResponse
  /\ UNCHANGED <<generation, status, scheduled, activations>>

\* The vehicle command service answers; the answer may also never come.
\* An accepted activation stays "Activating" until onActivate.
ActivationAnswered(gen, accepted) ==
  /\ activations' = activations \ {gen}
  /\ IF gen = generation /\ ~accepted
       THEN operation' = "Idle"
       ELSE UNCHANGED operation
  /\ response' = NoResponse
  /\ UNCHANGED <<generation, inProgress, status, scheduled, waits>>

-----------------------------------------------------------------------------
(* Vehicle status and the process.                                          *)

\* Fault: taking charge leaves operation_ as it was.
OnActivateKeepsOperation ==
  /\ ~inCharge /\ inCharge' = TRUE
  /\ modeActive' \in BOOLEAN
  /\ NextGeneration
  /\ response' = NoResponse
  /\ UNCHANGED <<operation, inProgress, armed, pending>>

\* onActivate: the status puts this executor in charge.
OnActivate ==
  /\ ~inCharge
  /\ inCharge' = TRUE
  /\ modeActive' \in BOOLEAN
  /\ NextGeneration
  /\ Finish
  /\ response' = NoResponse
  /\ UNCHANGED <<armed, pending>>

\* onDeactivate.  The library cancels what is pending before the hook (then a
\* WaitCancelled or a completion with "Deactivated" precedes this step, and a
\* call made by that callback outlives it) or after it (the callback is stale).
OnDeactivate ==
  /\ inCharge
  /\ inCharge' = FALSE
  /\ modeActive' = FALSE
  /\ NextGeneration
  /\ Finish
  /\ scheduled' \in {scheduled, NoCall}
  /\ waits' = {}
  /\ response' = NoResponse
  /\ UNCHANGED <<armed, activations>>

\* The reported flight mode follows a switch with a delay, or the pilot's stick.
ModeReported ==
  /\ inCharge
  /\ modeActive' = ~modeActive
  /\ response' = NoResponse
  /\ UNCHANGED <<process, armed, inCharge, pending>>

\* The watchdog ends the process on FMU loss and the launch file respawns it.
Respawn ==
  /\ Finish
  /\ generation' = 0
  /\ inCharge' = FALSE
  /\ modeActive' = FALSE
  /\ scheduled' = NoCall
  /\ waits' = {}
  /\ activations' = {}
  /\ response' = NoResponse
  /\ UNCHANGED armed

-----------------------------------------------------------------------------
Request ==
  \/ RequestActivate
  \/ RequestTakeoff
  \/ RequestHold
  \/ RequestPrecisionLand
  \/ RequestPrecisionLandAbort
  \/ RequestLand
  \/ RequestRtl

Callback ==
  \/ \E result \in Results : ModeEnds(result)
  \/ \E w \in waits : WaitCancelled(w)
  \/ \E gen \in activations, accepted \in BOOLEAN : ActivationAnswered(gen, accepted)

Environment ==
  \/ ArmedReported
  \/ DisarmedReported
  \/ OnActivate
  \/ OnDeactivate
  \/ ModeReported
  \/ Respawn

Next == Request \/ Callback \/ Environment

Spec == Init /\ [][Next]_vars

-----------------------------------------------------------------------------
(* The callbacks that would pass the generation guard now.                   *)

LiveModeCall == scheduled # NoCall /\ IsCurrent(scheduled)

LiveWait(w) == w \in waits /\ IsCurrent(w)

LiveReply == generation \in activations

\* Some pending callback can still end the operation.
Live ==
  \/ LiveModeCall /\ scheduled.callback # "hold"
  \/ \E w \in waits : LiveWait(w)

\* The executor holds an operation that no callback will ever end.
Stranded == operation \in FlightOperations /\ ~Live

\* An accepted operation no service may interrupt.
Uninterruptible ==
  operation \in {"Arming", "TakingOff", "Landing", "Returning"} /\ ~inProgress

-----------------------------------------------------------------------------
(* Properties.                                                              *)

\* Two callbacks that both pass the generation guard would both drive the
\* vehicle: every path that registers one must have spent or outdated the last
\* one (isCurrent, lines 1087-1090, and the ++generation_ of each handler).
OneLiveCallback ==
  /\ \A v, w \in waits : IsCurrent(v) /\ IsCurrent(w) => v = w
  /\ LiveModeCall => \A w \in waits : ~IsCurrent(w)
  /\ LiveReply => ~LiveModeCall /\ \A w \in waits : ~IsCurrent(w)

\* The operation and landing flag under which a callback may act.
Fits(callback) ==
  /\ callback = "arm" => operation = "Arming" /\ ~inProgress
  /\ callback = "takeoff" => operation = "TakingOff" /\ ~inProgress
  /\ callback = "hold" => operation = "Idle" /\ ~inProgress
  /\ callback = "precision_land" => operation = "PrecisionLanding" /\ inProgress
  /\ callback = "handoff" => operation = "Landing" /\ inProgress
  /\ callback = "land" => operation = "Landing" /\ ~inProgress
  /\ callback = "rtl" => operation = "Returning" /\ ~inProgress
  /\ callback = "disarm" => operation \in {"Landing", "Returning"}

\* A callback that still counts belongs to the operation the executor reports:
\* no handler leaves operation_ behind a callback that would act on another.
LiveCallbackFitsOperation ==
  /\ LiveModeCall => Fits(scheduled.callback)
  /\ \A w \in waits : IsCurrent(w) => Fits(w.callback)
  /\ LiveReply => operation = "Activating"

\* precision_landing_in_progress_ opens the executor to preemption, so it may
\* only be set while a callback can still finish the landing.
InProgressIsLive ==
  inProgress => operation \in {"PrecisionLanding", "Landing"} /\ Live

\* Arming, takeoff and return are never left without a callback to end them.
NeverStrandedInFlight ==
  operation \in {"Arming", "TakingOff", "Returning"} => Live

\* The one step that leaves an operation with nobody to end it is a Hold served
\* in place (lines 876-889): it outdates the callback and keeps operation_.
StrandedOnlyByHold ==
  [][~Stranded /\ Stranded' => response'.service = "hold" /\ modeActive]_vars

\* The steps that schedule while an earlier callback may still be registered.
Displacing == response' # NoResponse \/ (~armed /\ armed')

\* A mode switch cancels the callback of the one it displaces from inside the
\* library; with the new generation already set that callback does nothing.
DisplacedIsStale ==
  [][scheduled # NoCall /\ scheduled' # scheduled /\ Displacing
       => scheduled.gen # generation']_vars

\* A request that arrives while an accepted, uninterruptible operation runs
\* changes nothing, whichever service it is and whatever the status reports.
RunningOperationKept ==
  [][Uninterruptible /\ response' # NoResponse => UNCHANGED <<process, pending>>]_vars

-----------------------------------------------------------------------------
(* The executor implements OperationLifecycle.                              *)

AwaitedWaits == {w \in waits : IsCurrent(w)}

\* The call that the executor still acts on; OneLiveCallback says there is one.
Awaited ==
  IF LiveModeCall THEN scheduled.callback
  ELSE IF \E w \in AwaitedWaits : w.callback = "arm" THEN "arm"
  ELSE IF \E w \in AwaitedWaits : w.callback = "disarm" THEN "disarm"
  ELSE IF LiveReply THEN "activation"
  ELSE "none"

Stage ==
  IF Stranded THEN "Stranded"
  ELSE IF operation = "Landing" /\ inProgress THEN "HandedOver"
  ELSE operation

Lifecycle ==
  INSTANCE OperationLifecycle WITH stage <- Stage, call <- Awaited, charge <- inCharge

\* Late, displaced and cancelled callbacks, lost replies and a changing status
\* notwithstanding, the executor is a machine with one call: everything it does is
\* a request in a stage that allows it, the end of the one call it waits for, a new
\* beginning, or nothing at all.
Implements == Lifecycle!Spec

\* How many calls an operation may still wait for, by the one it waits for now.
CallsLeft ==
  [call \in Lifecycle!Calls |->
     CASE call \in {"arm", "precision_land"}              -> 3
       [] call \in {"takeoff", "handoff", "land", "rtl"}  -> 2
       [] call \in {"hold", "disarm", "activation"}       -> 1
       [] call = "none"                                   -> 0]

\* Without a request an operation only runs down: no callback, report, hook or new
\* process repeats a call, falls back to a longer operation, or begins one.  That is
\* what keeps a landing or a return that fails from being tried for ever.
OnlyRequestsProlong ==
  [][response' = NoResponse =>
       Awaited' = Awaited \/ CallsLeft[Awaited'] < CallsLeft[Awaited]]_vars

-----------------------------------------------------------------------------
(* Fairness: PX4 ends or cancels every flight mode it accepted, and the      *)
(* status reports the armed state an accepted operation waits for.  Requests,*)
(* the pilot, the hold mode (it runs until something replaces it) and the    *)
(* activation reply are not fair: they may never come.                       *)

FlightModeEnds ==
  /\ operation \in FlightOperations
  /\ \E result \in Results : ModeEnds(result)

ArmingReported ==
  /\ \E w \in WaitsFor("arm") : LiveWait(w)
  /\ ArmedReported

TouchdownReported ==
  /\ \E w \in WaitsFor("disarm") : LiveWait(w)
  /\ DisarmedReported

FairSpec ==
  /\ Spec
  /\ WF_vars(FlightModeEnds)
  /\ WF_vars(ArmingReported)
  /\ WF_vars(TouchdownReported)

\* Every accepted flight operation ends, unless a Hold in place stranded it.
OperationEnds ==
  (operation \in FlightOperations) ~> (operation = "Idle" \/ Stranded)

-----------------------------------------------------------------------------
(* What drn_control's README says of the executor.                          *)

\* "Hold, Land, RTL, and the dedicated abort service can preempt precision
\* landing": after an accepted Hold no landing operation is left.
HoldPreempts ==
  [][response' = [service |-> "hold", success |-> TRUE] => operation' = "Idle"]_vars
=============================================================================
