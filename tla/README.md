# Verification of DRN Stack

TLA+ models of the stateful parts of DRN Stack (PX4 SITL, a ROS 2 control node,
and the tooling around them), the TLC configurations that check them on small
instances, and TLAPS proofs of their main invariants for every value of the
constants. Paths below are relative to the repository (`src/` is its root).

## The system

| Component | State it keeps | Operations | Talks to |
| --- | --- | --- | --- |
| `DrnControlExecutor` (`src/src/drn_control/src/control_node.cpp`) | `operation_`, `generation_`, `precision_landing_in_progress_`, callbacks held by px4_ros2 | 7 Trigger services, completion callbacks, `onActivate`/`onDeactivate` | PX4 through px4_ros2; calls `DrnControlMode` and asks `PrecisionLandingMode::targetReady` |
| `PrecisionLandingMode` (same file, `precision_landing_control.hpp`) | `descending_`, `aligned_since_`, `waiting_for_target_`, last target, `last_status_` | hooks, `updateSetpoint`, target subscription | setpoints to PX4, `completed()` to the library, the latched status topic |
| `DrnControlMode` (same file, `teleop_control.hpp`, `pose_conversion.hpp`) | `target_`, the mixer's two timed commands, `teleop_commanding_` | hooks, `updateSetpoint`, three subscriptions | GoTo setpoints to PX4, the latched status topic |
| Frame conversions (the three headers) | none | ENU/NED, FLU/NED, optical/FRD/NED | used by the two modes |
| Scenario runner (`scripts/run-scenario.sh`, `.ps1`) | flags of its EXIT trap, verdict | workflow and cleanup | Docker Compose, `drn-project`, `drn-px4-failure`, `drn-evidence` |
| Failure adapter (`scripts/docker/px4-failure.py`) | PX4's failure state | apply, restore | PX4 shell |
| Evidence packs (`scripts/docker/evidence.py`) | recorder process and PID file, pack directory | start, stop, finalize, validate, prune, replay | rosbag, the runner |
| Project SDK (`scripts/docker/project-sdk.py`) | the contract and the deadline of one process | validate, inspect, actions, restorations, launch, run, run-phase | the runner, which asks and branches; the ROS graph |
| Launch files (`src/drn_viz/launch`) | none | start the nodes of a profile and route its Gazebo topics | the ROS container |
| Smoke tests (`scripts/docker/*-smoke.py`, `smoke-test.sh`) | samples and errors of one run | callbacks, completion, verdict | the topics of a profile, the ROS graph; run as the setup phase of a scenario |
| Supervision (`scripts/docker/ros-entrypoint.sh`, `px4-entrypoint.sh`) | child PIDs | start, wait for the first exit, terminate the rest | Docker |
| Hardware acceptance (`scripts/docker/hardware-smoke.py`) | samples of one run | sample, judge, report | MAVLink, ROS graph |
| Visualisation (`src/drn_viz`) | last pose in `OdometryTfBridge` | callbacks and timers | ROS topics |

What is hard about it:

* **Overtaking callbacks.** Services, library callbacks and status updates reach
  the executor in any order. A callback belongs to the request that registered
  it, and only a captured generation tells whether that request still counts.
* **Switching modes.** A switch cancels the callback of the one before, inside
  the library; PX4 reports the new mode later than it accepts it.
* **Silence.** Lost markers, lost teleop commands, lost positions and headings
  arrive as the absence of messages, found only by comparing ages in the next
  `updateSetpoint`.
* **Restarts.** The watchdog ends the node when the FMU is lost and the launch
  file respawns it, possibly in the air.
* **Reading twice.** A scenario's project files are read by some eight processes,
  the ROS graph by one command per list; between two of them both may change.
* **Cleanup.** The scenario runner must undo an injected failure, finalize a
  recording and judge the run whatever step failed or was interrupted.

What makes each component correct:

* executor: at most one callback may act and it acts on the operation reported;
  no accepted operation is left without an end; running operations are not
  disturbed; precision landing can be preempted;
* precision landing: descent only on a fresh, aligned target after a whole
  dwell; a lost target ends the landing; the status tells the phase;
* DRN Control: command loss stops the vehicle; whoever replaces the target
  ends teleop; nothing outlives the mode; an abandoned target is reported;
* hardware acceptance: a passing report is about one vehicle with the pinned
  firmware, disarmed in every status sample, and every run ends;
* project SDK: what a run executes is what its gate admitted, the phases share
  one deadline and end by it, health is judged on recent lists;
* smoke tests: a test that passes overlooked nothing it promises to notice, and
  a healthy profile passes;
* runner and evidence: a passed verdict only for a run whose assertions held,
  whose failure was restored and whose recording is complete; the stack is
  never left behind.

## Modules

| Module | Models |
| --- | --- |
| `OperationLifecycle` | abstract: one operation, the one call it waits for, and what may follow |
| `DrnExecutor` | the executor against PX4 and px4_ros2 as the code sees them; implements `OperationLifecycle` |
| `GuardedLanding` | abstract: a landing, what its target is good for, and what that lets it do |
| `PrecisionLanding` | the mode DRN Precision Land; implements `GuardedLanding` |
| `SharedControl` | abstract: who the vehicle follows, and who may take over from whom |
| `DrnControlMode` | the mode DRN Control with its teleop mixer; implements `SharedControl` |
| `EvidencePack` | one evidence pack, its recorder and the commands on it |
| `RunVerdict` | abstract: the stages of a run, whether it is sound, and what it leaves behind |
| `ScenarioRun` | one run of the scenario runner; fills an `EvidencePack`, implements `RunVerdict` |
| `ProjectScenario` | the project SDK: contract, questions and phases of one scenario |
| `DrnVizLaunch` | operators: the nodes and topic routes of each profile |
| `SmokeTest` | one run of a smoke test on the nodes of `DrnVizLaunch` |
| `HardwareAcceptance` | one acceptance run of a flight controller on the bench |
| `MC*` | the instances TLC checks |
| `*Proofs` | the theorems, one module per component |

Definitions carry the names of the code: `RequestHold` is `requestHold`,
`ScheduleHold` is `scheduleHold`, `CaptureCurrentTarget` is
`captureCurrentTarget`. Every action stands for a whole handler. A definition
commented "Fault:" is a plausible bug of the definition that follows it; the
specification does not use it.

### DrnExecutor

The node runs one single-threaded rclcpp executor, so a service handler or a
library callback is one atomic action. `operation`, `generation` and
`inProgress` are the class's fields. The library and PX4 are external and
appear as

* the vehicle status: `armed`, `inCharge` and `modeActive`, which change at any
  time the library can report them;
* the callbacks it holds: `scheduled` (one mode switch at a time: a new one
  displaces the old), `waits` (`arm` and `waitUntilDisarmed`) and `activations`
  (vehicle commands whose reply may come late or never). Each callback is a
  record of the call it completes and the generation it captured.

A call into the library either registers the callback or is refused and runs it
inside the call (`Schedule`, `RequestTakeoff`). `OnDeactivate` allows both
orders of cancellation and hook. `Respawn` is the watchdog exit followed by the
launch file's restart, which forgets all of the process and none of the
vehicle. `response` is the Trigger response of the last step; it exists for the
properties.

`MaxGeneration` bounds the uint64 counter in the guard of `NextGeneration`.
Four generations are enough for two requests that overlap, the hook that
interrupts them and a request after it; respawns start over. The counter
itself needs 2^64 requests to wrap and is not modelled as wrapping.

`Implements` is `OperationLifecycle` under a refinement mapping: `stage` is the
operation, except that a precision landing which PX4 Land finishes is `HandedOver`
(the code sets `operation_` to `Landing` and leaves the flag set) and an operation
that no callback can end any more is `Stranded`; `call` is the callback of the current
generation, wherever it is held; `charge` is `inCharge`. All stale callbacks
disappear: that each of them, whenever the library runs it, changes nothing the
abstract specification sees is what the generations are for.

### PrecisionLanding

Time is counted in ticks of the node clock; instants are kept as ages which
saturate one past the last value the code tells apart. `Tick` requires that an
active mode was updated since the last tick: the library calls `updateSetpoint`
at a fixed rate, at least once per tick. Each update measures `landed`,
`attitude`, the class of horizontal error and whether the marker is below the
handoff height. `seen` and `steady` are history variables: what the last
steering update measured and for how long no update saw a misaligned target.
`shown` is the message latched on `/drn/control/status`, on which
`DrnControlMode` and the executor publish too (`OtherStatus`).

`GuardsLanding` is `GuardedLanding` under a refinement mapping: `trust` is what
the age of the stored target makes it good for (fresh, stale, gone), `motion` the
last setpoint, `reacted` is `updated`. The phase flags, the dwell, the status and
all ages disappear.

The constructor's checks of the timeouts are the assumption `TimeoutsOrdered`.
With timeouts 1, 2 and 4 a target can grow too old to steer by, the dwell can
run out meanwhile, and the target can come back before it is lost.

### DrnControlMode

A target is reduced to where it comes from (`Captured`, `Setpoint`, `Moved` by
teleop) and whether it has a heading; a teleop command to whether it moves the
vehicle and whether that needs a heading. Each topic's command has its own age.
Position and heading validity, arming and the calls the executor makes
(`HoldInPlace`, `RequestTakesOver`) come at any time. `sinceMove` is a history
variable: the age of the last accepted command to move, kept by the receiving
actions and read by no other. A timeout of two ticks lets a command be younger
than, as old as and older than the timeout and the topics expire apart. The
assumption allows a timeout of zero, which the cast to milliseconds gives for
parameters below one millisecond.

`SharesControl` is `SharedControl` under a refinement mapping: `leader` is where the
target comes from, with a moved target split by `commanding` into one the operator
leads and one that is left, `wanted` is whether the sampled command moves, `reacted`
is `updated`, and `told` whether the last status names a failure or comes from the
executor. Slots, ages, headings and `sinceMove` disappear. Hazards it is about: a
setpoint that arrives while an operator moves the vehicle must wait, one that does not
cancel the input would be dragged away by the next update, and a movement that ended
is dealt with at the next update, before more time passes. That a vehicle may be
`Left`, and led again by the operator while another mode has been asked for
(`Withdraw`), is what the code does.

### EvidencePack

The commands of `evidence.py` on one pack, in any order and repeated: a caller
may be interrupted between any two of them. `start` is two actions (`Launch`,
`Register`), since it waits a second in which the recorder may die. `Stop`
covers an orderly end, a recorder that is killed by the escalation, one that
outlives the timeout and is found again by a later stop, and one that is gone
already. A command's result is the parameter `ok`, which its caller branches
on. Files are reduced to what the commands test: an MCAP file is being written,
complete (rosbag2 writes `metadata.yaml` only when it closes), empty or torn; a
ULog is too short for its signature, still written, or complete. A ULog that is
cut off passes the checks of the code, which read its head only; `open` is
therefore accepted by `Captured`. `stale` says that a file of the manifest's
inventory may have changed since; whether a late write hits a file that is
listed is left open (`Touch`).

Bound: one recorder at a time. A second `start` in the same directory while the
first waits would need a caller that the repository does not have.

### ScenarioRun

The runner is one process; what it executes in a container is another and goes
on when the runner is interrupted, so `upCmd`, `apply`, `restore` and the
pack's recorder have their own actions. Every command may fail: `Fail` is
`set -e` entering the EXIT trap, `Note` is the trap's `status=1` with the
cleanup going on. Of a nonzero status only that it is not zero is kept. A
fatal signal in the workflow runs the trap, which reads the status of the last
command that was completed; as the trap clears itself first, a fatal signal in the
cleanup ends the runner. The flags of the script are variables under their own
names shortened (`owned` is `stack_owned`). `apply` and `restore` of
`px4-failure.py` take three steps each, in the code's order: PX4 can be armed
between any two. `restored` and `everArmed` are history variables.

`FillsPack` and `KeepsVerdict` are two refinements. Under the first, which maps the
variables of the pack to themselves, every step of the runner is a command of
`EvidencePack`, something the recorder or PX4 does, the end of their container, or
a stutter. Under the second, `stage` is where the next command is, `sound` says
that no command of the cleanup has failed, no signal has cut it short and the
workflow goes on or has succeeded, and the rest is the failure flag, the containers
and the manifest. `RunVerdict` then says what a run is: whatever goes wrong it is
undone, taken down and judged in that order; it is never sound again; and it goes
on as sound only with nothing left to undo or to take down. Its `ContainersCome`
after the work is over is the `compose up` that outlives a signal.

`KeepsArmedTime` says whether PX4 still reports `armed_time` after a disarm,
which this repository relies on and cannot show; without it `ArmedRunFails`
claims nothing. The other properties do not depend on it.

Assumed: containers do not end by themselves, and no other run shares the
Compose project. Arguments are taken as valid; image builds, gate checks and
the retention after the run are single steps that may fail.

### HardwareAcceptance

One action per read or judgement of `hardware-smoke.py`. The link is whatever
the program may read next: every system sends heartbeats, armed or not, and
answers, asked or not, in any order, and any message may be lost, so nothing is
assumed of the vehicle. `clock` tells the discovery window and the deadline of
the part that runs; the samples have a deadline of their own. The parameters
are read in any order instead of the configured one, which nothing depends on.
`seen`, `stamps`, `arming` and `odometry` are the program's collections;
`armedHeard`, `heard` and `answered` are history variables that remember what
it read and did not keep. An answer is filtered by its system, as in the code,
not by its component.

Bounds: two PX4s of which one is pinned, and a ground station with the pinned
version but another autopilot, so each test of the identity fails alone; two
parameters; two timestamps, since the code asks for two. The proofs hold for
any number of each.

### ProjectScenario

One action per command of `drn-project`, per command a phase executes, and per
step of the runner between them. `Reject` is the exit with 1 of any command that
finds the files invalid. A scenario with an operator action (schema 2) runs in
two phases around the injection, an inert one in one `drn-project run`. `files`
may be edited at any time (`Edit`); `contract` is what the running process has
read. The runner fixes `deadline_unix` once; each phase turns the rest of it into
a monotonic deadline of its own, so a wall clock that is set (`WallClockSteps`)
moves the deadline between, not within, phases. `sources`, `elapsed` and `seen`
are history variables.

`shape` stands for what is checked of one file by itself (types, patterns,
exact keys, duplicates); the checks that relate fields or files are written out.
Signals and evidence are in `ScenarioRun`, which has each phase as one step.

Bounds: four contents of the files (an inert scenario, an operator scenario, one
that injects and does not restore, and a broken overlay), a timeout of three
seconds, one edit and one step of the wall clock. One edit already lets the
commands before and after it disagree; three seconds let the first phase leave
some time and the second use it up.

### DrnVizLaunch and SmokeTest

`DrnVizLaunch` has no state: `Launched` is the nodes that the entrypoint's launch
file starts for a profile, a route is the Gazebo topic of a stream and the nodes
that carry it. `SmokeTest` runs one of the five Python tests on them: a message
of a stream can arrive if its nodes are alive and Gazebo offers its topic for the
model that is spawned. Callbacks, completion and verdict are one definition per
test, since the tests differ in what they keep: the sensor and landing tests
forget an error when a valid message follows, the others do not. Whether a
message is valid is one flag. Nodes may crash, as none but `drn_control` is
started again; foreign endpoints come and go while the fleet test lists the
graph. `spoiled`, `lastBad` and `stayed` are history variables.

Two things the model shows of the tests hold by how they are written and are not
claimed otherwise: all but the fleet test keep the last vehicle status only, so
an armed status followed by a disarmed one passes; and in the sensor and landing
tests an invalid message followed by a valid one passes. `PassedIsJustified`
says exactly what is left.

The colour calibration of the depth profile is bridged from the topic of
`x500_depth_0` whatever `model_name` is given; the instance therefore spawns that
model, the one of the shipped depth profile. The routes of the other profiles
follow `model_name` and work for any name.

Bounds: two samples instead of three, two vehicles, two image sizes, one crash. A
fleet has two to four vehicles, as `fleet_size()` of the test and the launch file
require (`SmokeAssumption`).

## Runs

| Run | Shows |
| --- | --- |
| `executor` | every interleaving up to four generations: `OneLiveCallback`, `LiveCallbackFitsOperation`, `NeverStrandedInFlight`, `StrandedOnlyByHold`, `DisplacedIsStale`, `RunningOperationKept`; `OnlyRequestsProlong`: without a request, ever fewer calls are awaited; `Implements`: every step is one of `OperationLifecycle` or a stutter; and `OperationEnds`: an accepted flight operation ends, unless a Hold in place stranded it |
| `landing` | `DescentIsJustified`, `StatusMatchesPhase`, `DescentIsEarned`; `GuardsLanding`: every step is one of `GuardedLanding` or a stutter; and `AbandonedLandingEnds` |
| `control_mode` | `CommandLossStops`, `CommandingOwnsTarget`, `AbandonedTargetIsReported`; `SharesControl`: every step is one of `SharedControl` or a stutter |
| `pack` | any order of the commands: `CountedIsComplete`, `PassedIsComplete` |
| `scenario` | a run whose every command may fail or be interrupted, with and without evidence and operator actions: `PassedIsEarned`, `PassedIsValid`, `ExitZeroIsClean`, `ArmedRunFails`, `RestoreIsAttempted`; `FillsPack` and `KeepsVerdict`: every step is one of `EvidencePack`, and of `RunVerdict`, or a stutter; and `RunEnds` |
| `hardware` | messages of three systems, deadlines, failing commands and interrupts anywhere: `PassedIsOneVehicle`, `PassedIsDisarmed`, `ExitZeroIsReported`; and `AcceptanceEnds` |
| `project` | edits, failures, a wall clock that is set and signals that flap, between any two commands: `InjectedIsRestorable`, `DeadlineIsShared`, `HealthIsRecent`; and `PhaseEnds` |
| `smoke` | the five tests with invalid messages, an armed vehicle, a crash, foreign endpoints: `PassedIsJustified`, `ForeignIsNoticed`, `FailedForAReason`; and `HealthyProfilePasses` |

Deadlock is checked in all of them but `scenario`, `hardware`, `project` and
`smoke`: a run of the runner, of a phase or of a test ends, and nothing need
happen after it.

The type invariant of every component is proved (`TypeCorrect`), and no run repeats it.
`LostTargetIsNoticed` and `InactiveIsEmpty` too are proved only: `GuardsLanding` and
`SharesControl` imply what they say of the mapped variables.

The last property of `executor`, `landing`, `scenario`, `hardware`, `project` and
`smoke` is a liveness property; these runs use the fair specification, whose safety is that of
`Spec`.

Fairness. `executor` assumes that PX4 ends or cancels a flight mode it
accepted and that the status reports the armed state an accepted operation
waits for. Nothing is assumed of operators, of the pilot, of the hold mode
(which runs until something replaces it) or of the reply to the activation
command: it may never come, and the model shows that the executor then stays
`Activating` until it is put in charge, its only other way out being a respawn.
`landing` assumes the library's update timer and the clock. `scenario` assumes
that the runner and the two commands of the adapter go on: `compose up`,
`compose down`, the phases, the waits of the adapter and of stop all have a
deadline, and the other commands are finite. Nothing is assumed of the vehicle,
the recorder or a command the runner no longer waits for. `hardware` assumes
that the clock and the program go on. `project` assumes that time passes and that
`subprocess.run` and the health loop act on a deadline that has passed; nothing
of the commands, which may hang. `smoke` assumes that publishers whose nodes are
alive go on publishing with new timestamps, that a first status comes and that
the test goes on; `HealthyProfilePasses` has as its hypothesis that nothing goes
wrong (no crash, no invalid message, not armed, no deadline passed), and says
that then nothing in the launch files or the test stands in the way.

The instances are small because nothing larger is told apart: four generations
for the executor, three timeouts that differ by more than one update for the
landing, a timeout of two ticks for teleop. `scenario` and `pack` have no bound
but the one recorder.

### Where the code and its documentation disagree

Each of these runs checks a sentence of the documentation and finds it
violated:

* `hold_preempts` (`src/src/drn_control/README.md`: "Hold, Land, RTL, and the
  dedicated abort service can preempt precision landing"): a Hold accepted
  while DRN Control is still the reported mode is served in place. It outdates
  the landing's callback and leaves `operation_` at `PrecisionLanding`; from
  then on every request is rejected until the executor is deactivated or
  activated again. `StrandedOnlyByHold` bounds it: no other step strands the
  executor.
* `activation_is_announced` (same file: "latched lifecycle and error status"):
  an activation is not announced if the mode's own last message was the same.
* `containers_are_stopped` (`docs/PROJECT_SDK.md`: "always stops its
  containers"): the trap clears itself before the cleanup, so a TERM or HUP
  while the recorder is stopped or the battery restored ends the runner before
  `compose down`. Bash 5.2 does so even when a signal began the cleanup. A
  Ctrl-C does it only if it kills the command the runner waits for; after one that
  the command catches, the cleanup goes on as after any command that failed.
* `armed_heartbeat_fails` (`docs/HARDWARE_UDP.md`: "fails when it sees [...] an
  armed heartbeat"): the heartbeats of the discovery window are read for their
  system id only.

Smaller ones have no run. The README of drn_control says that no flight request
is accepted before an activation, but `RequestHold`, `RequestLand` and
`RequestRtl` never ask `isInCharge()`; and it requires "continuous alignment",
but the dwell is counted through a gap in which no target was steered by
(`DescentIsEarned` bounds it: no update saw a misaligned target meanwhile). It
also says that a cancelled callback cannot schedule a mode, but a landing
cancelled while its generation is current calls `scheduleHold`; and that movement
which stops captures the position, which teleop stopped by a lost heading does not.
`AbandonedTargetIsReported` bounds the latter: a moved target that nobody
holds is reported.

## Proofs

All theorems hold for every value of the constants that satisfies the named
assumptions.

* `DrnExecutorProofs`. Type correctness is inductive. The safety invariants
  rest on one inductive invariant, `IInv`: type correctness, the generation of
  every callback at most the current one, at most one current callback among
  the three places that hold them, and agreement between that callback and
  `operation` and `inProgress`. `OneLiveCallback` alone is not inductive: that a
  completion may register the next callback under its own generation needs that
  it was the only current one and is spent, and that a new request outdates all
  of them needs the bound on their generations. `RunningOperationKept` and
  `DisplacedIsStale` are action properties proved from the same invariant.
  `StrandedOnlyByHold` speaks of two states and has many ways to fail: every step
  that could leave an operation without its callback is followed through the
  refinement, where only a Hold in place leaves the next stage `Stranded`.
  `OnlyRequestsProlong` is the safety half of `OperationEnds`: `CallsLeft` counts the
  calls an operation may still await, a completion spends one, and no callback,
  hook or restart adds one; liveness then needs fairness alone.
  `ExecutorImplements` is the refinement: under `IInv` the current callback is
  unique, so `call` is well defined, and each action is shown to be the abstract
  step of its request, the end of the current call, a restart or, for a stale
  callback, a stutter. `LandingInProgressIsLive` (while a landing may be
  preempted, a callback that ends it is pending) has no run of its own: the
  mapping of `HandedOver` and `PrecisionLanding` rests on it.
* `PrecisionLandingProofs`. `IInv` is the typing, the three safety invariants
  and `AlignmentIsSteady`: until the descent starts, the alignment clock never
  runs ahead of `steady`. Without it nothing ties the dwell the code measures to
  what the updates saw. The freshness of a target at the end of an update
  persists until the next tick, which clears `updated`. `LandingIsGuarded` is the
  refinement of `GuardedLanding`; that a tick cannot make a fresh target gone is
  where it needs `CommandTimeout < TargetTimeout`. `StoppedBeforeTargetIsGone` is
  proved of `GuardedLanding` alone, by an invariant that says what an update leaves
  behind, and holds of the mode through the refinement.
* `DrnControlModeProofs`. `IInv` adds `SlotsAreRecent`: a nonzero command in the
  mixer is at least as old as `sinceMove` says, which turns the freshness test
  of an update into the bound `CommandLossStops` states. `ControlIsShared` is the
  refinement of `SharedControl`. It uses `IInv` where the abstract step depends on who
  leads: an activation starts from nobody (`InactiveIsEmpty`), and `commanding` means
  that the operator leads only by `CommandingOwnsTarget`. That time alone never makes
  a command fresh (`OlderExpires`) is why `Pass` can only end a movement.
* `EvidencePackProofs`. With type correctness `PassedIsComplete` and
  `CountedIsComplete` are inductive together, by one lemma: a bag that is full,
  a ULog that has its signature and recorder metadata stay so under every
  action (`CaptureKept`).
* `ScenarioRunProofs`. `IInv` has four parts beside the typing.
  `WorkflowInv` says what each program point of the workflow has established
  (status 0, no verdict, the failure not started before its flag);
  `CleanupInv` carries to the end of the trap what each of its steps found,
  under the hypothesis that the status is still 0; `PackInv` ties a passed manifest to
  the flags and the pack, and keeps it valid, since nothing writes to the pack
  once the containers are gone; `AdapterInv` relates `restore` to `failureStarted`,
  `restored` and the battery. None of the properties is inductive, since each
  speaks of the end of a run whose reasons lie many steps back. `ArmInv`, kept
  apart, follows `armedTime` from an arming to the last check of the
  restoration; it alone uses `KeepsArmedTime`. `RunFillsPack` shows step by step that
  the runner never touches the pack but by a command of `EvidencePack`, with its
  result; `RunCertifiesCapture` then takes over the theorems of `EvidencePackProofs`
  (INSTANCEd as `Proved`, whose definitions are those of `Pack`) without proving
  them again. `RunKeepsVerdict` is the refinement of `RunVerdict` and uses `IInv` where
  an abstract step forbids what only the history of the flags excludes: a
  runner that goes on as sound has no failure left (`CleanupInv`), and a manifest
  that says "passed" is that of a sound run and the other way round (`PackInv`).
* `HardwareAcceptanceProofs`. `LinkInv`, `RosInv` and `ReportInv` say at every
  check what the earlier ones have established: while the window is open,
  `seen_systems` misses no PX4 that was heard; a parameter given up leaves a
  gap that `validate_parameters` still finds; only the last check sets the
  verdict and nothing read before it changes afterwards.
* `ProjectScenarioProofs`. None of its properties is inductive. `Path` says what
  each program point has behind it (a phase runs under the gate that leads to
  it), `Origin` that with one state of the files behind all answers the actions
  and restorations are those of one valid contract, `Undone` that a battery is off
  only after an injection that was allowed and never at a passed end, `Timing` that
  `elapsed` plus what is left of a deadline never exceeds the timeout while the wall
  clock is left alone, in both forms of the deadline and across the change from one
  to the other, and `Rounds` that a signal absent from `missing` has been seen in
  every list the round has taken.
* `SmokeTestProofs`. `Kept` relates the errors and dimensions a test keeps to
  what it has read, `Verdict` carries that past the loop, and `Shown` says that a
  foreign endpoint which stayed since the first list is in `found` once the list
  of its kind is taken. For `FailedForAReason`, `Sized` says that a counted stream of
  the sensor test has a size, so a complete test that differs in size really read
  two, and `Complied` that the lists taken so far have shown every endpoint
  required unless a node has crashed, for which the launch file must start what
  the test requires (`FleetStarted`). `HealthyNeverFails` is the safety half of
  `HealthyProfilePasses`.

Only model-checked: the liveness properties `OperationEnds`, `AbandonedLandingEnds`,
`RunEnds`, `AcceptanceEnds`, `PhaseEnds` and `HealthyProfilePasses` (temporal reasoning under fairness is out of the prover's reach).

## Not modelled, and why

* Positions, velocities and headings as numbers; parsing and range checks of
  messages (a rejected message changes nothing); integration step limits.
* A node clock that goes back, which simulated time can do after a restart.
* The one-shot timer that publishes the status after registration.
* Image processing and the single-message adapters of `drn_viz`, Compose
  configuration, wrappers around Docker Compose: they keep no state of their own.
* The shell checks of `smoke-test.sh` (processes, topics, TF frames and services
  by name), `hardware.launch.py` and `replay.launch.py`: one look at a list each.
* Retention over several packs and replay; the entrypoints' children and traps;
  executor and modes in one process; `OdometryTfBridge`; `run-scenario.ps1`. They
  are the plan below.

## Plan

What is left, in this order:

1. `EvidenceRetention`: prune over several packs (incomplete, pinned, newest
   kept, two runs pruning at once), and replay of a pack.
2. `ControlNode`: executor and both modes in one model with the shared status
   topic, on top of `OperationLifecycle`.
3. `Supervisor`: the entrypoints' children and traps. What `wait -n` does with
   a child that ended before it is a choice of the shell and stays open.
4. `OdometryTf`, and the frame conversions as operators over quarter turns
   against a reference definition.
5. `ProjectScenario` as the detail of the phases of `ScenarioRun`: a refinement that
   maps its phases to the runner's steps.
6. `run-scenario.ps1`, which differs from the shell script in how it traps.
