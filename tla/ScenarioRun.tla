----------------------------- MODULE ScenarioRun ------------------------------
(***************************************************************************)
(* One run of src/scripts/run-scenario.sh: the workflow, its EXIT trap,    *)
(* the failure adapter px4-failure.py and the evidence pack it fills       *)
(* (EvidencePack).                                                         *)
(*                                                                         *)
(* The runner is a script; what it executes in a container is a process of *)
(* its own, which goes on when the runner is interrupted.  `set -e` ends   *)
(* the workflow at the first command that fails, and the trap cleans up.   *)
(* A fatal signal runs the trap with status 0; the trap is then cleared,   *)
(* so a TERM or HUP during the cleanup ends the runner at once.  A Ctrl-C  *)
(* ends it only if the command it waits for dies of it; one that the       *)
(* command catches is a command that fails.                                *)
(*                                                                         *)
(* A ground station may arm and disarm the vehicle whenever PX4 runs.      *)
(* Containers do not end by themselves, and no other run shares the        *)
(* Compose project.                                                        *)
(***************************************************************************)
EXTENDS Naturals

CONSTANT KeepsArmedTime   \* PX4 still reports armed_time after it is disarmed

ASSUME ArmedTimeAssumption == KeepsArmedTime \in BOOLEAN

VARIABLES
  pc,             \* the next command of the runner
  status,         \* its exit status so far
  evidence,       \* --evidence was given
  gated,          \* the scenario has an operator action, and the flag was given
  succeeded, initialized, owned, recording, failureStarted,  \* flags of the script
  signalled,      \* no signal yet, or where the last one found the runner
  upCmd,          \* `compose up` is running
  stack,          \* the containers
  apply, restore, \* drn-px4-failure apply and restore in the PX4 container
  battery, armed, armedTime,                                 \* PX4
  restored,       \* history: restore verified the battery and the disarmed state
  everArmed,      \* history: the vehicle was armed before that
  starting, recorder, pidFile, meta, bag, heard, ulog, manifest, stale  \* EvidencePack

Pack == INSTANCE EvidencePack

script  == <<status, evidence, gated, succeeded, initialized, owned, recording,
             failureStarted, signalled>>
adapter == <<apply, restore, battery, restored>>
vehicle == <<armed, armedTime, everArmed>>
pack    == <<starting, recorder, pidFile, meta, bag, heard, ulog, manifest, stale>>
vars    == <<pc, script, upCmd, stack, adapter, vehicle, pack>>

Workflow == {"preflight", "prepare", "build", "up", "record", "recording", "setup",
             "inject", "applying", "assert", "done"}
Cleanup  == {"restore", "restoring", "stop", "logs", "down", "finalize", "validate", "prune"}
Commands == {"idle", "check", "inject", "measure", "done", "failed"}

TypeOK ==
  /\ pc \in Workflow \cup Cleanup \cup {"exited"}
  /\ status \in {0, 1}
  /\ evidence \in BOOLEAN /\ gated \in BOOLEAN
  /\ succeeded \in BOOLEAN /\ initialized \in BOOLEAN /\ owned \in BOOLEAN
  /\ recording \in BOOLEAN /\ failureStarted \in BOOLEAN
  /\ signalled \in {"no", "workflow", "cleanup"}
  /\ upCmd \in BOOLEAN
  /\ stack \in {"absent", "up"}
  /\ apply \in Commands /\ restore \in Commands
  /\ battery \in {"ok", "off"}
  /\ armed \in BOOLEAN /\ armedTime \in BOOLEAN
  /\ restored \in BOOLEAN /\ everArmed \in BOOLEAN
  /\ Pack!TypeOK

Init ==
  /\ pc = "preflight"
  /\ status = 0
  /\ evidence \in BOOLEAN
  /\ gated \in BOOLEAN
  /\ succeeded = FALSE /\ initialized = FALSE /\ owned = FALSE
  /\ recording = FALSE /\ failureStarted = FALSE
  /\ signalled = "no"
  /\ upCmd = FALSE
  /\ stack = "absent"
  /\ apply = "idle" /\ restore = "idle"
  /\ battery = "ok" /\ armed = FALSE /\ armedTime = FALSE
  /\ restored = FALSE /\ everArmed = FALSE
  /\ Pack!Init

-----------------------------------------------------------------------------
(* The workflow.                                                            *)

\* A command of the workflow fails: the EXIT trap begins.
Fail == pc' = "restore" /\ status' = 1

Then(next) == pc' = next /\ UNCHANGED status

\* Docker, storage, ports, leftover containers, the manifests and the gate.
Preflight ==
  /\ pc = "preflight"
  /\ Then(IF evidence THEN "prepare" ELSE "build") \/ Fail
  /\ UNCHANGED <<evidence, gated, succeeded, initialized, owned, recording,
                 failureStarted, signalled, upCmd, stack, adapter, vehicle, pack>>

\* The run directory; a failure before its flag leaves no pack to finalize.
Prepare ==
  /\ pc = "prepare"
  /\ \/ Then("build") /\ initialized' = TRUE
     \/ Fail /\ UNCHANGED initialized
  /\ UNCHANGED <<evidence, gated, succeeded, owned, recording, failureStarted,
                 signalled, upCmd, stack, adapter, vehicle, pack>>

\* The images are built; the stack is owned from before `up` is issued.
Build ==
  /\ pc = "build"
  /\ \/ Then("up") /\ owned' = TRUE /\ upCmd' = TRUE
     \/ Fail /\ UNCHANGED <<owned, upCmd>>
  /\ UNCHANGED <<evidence, gated, succeeded, initialized, recording, failureStarted,
                 signalled, stack, adapter, vehicle, pack>>

AfterRecording == IF gated THEN "setup" ELSE "assert"

\* `compose up --wait` returns; it fails with or without containers left.
UpReturns ==
  /\ pc = "up" /\ upCmd
  /\ upCmd' = FALSE
  /\ \/ stack = "up" /\ Then(IF evidence THEN "record" ELSE AfterRecording)
     \/ Fail
  /\ UNCHANGED <<evidence, gated, succeeded, initialized, owned, recording,
                 failureStarted, signalled, stack, adapter, vehicle, pack>>

StartRecording ==
  /\ pc = "record"
  /\ \/ Then("recording") /\ Pack!Launch
     \/ Fail /\ UNCHANGED pack
  /\ UNCHANGED <<evidence, gated, succeeded, initialized, owned, recording,
                 failureStarted, signalled, upCmd, stack, adapter, vehicle>>

\* Fault: start does not look whether its recorder has survived.
RecordingReturnsUnchecked ==
  /\ pc = "recording"
  /\ starting' = FALSE /\ pidFile' = TRUE /\ meta' = "started"
  /\ Then(AfterRecording)
  /\ recording' = TRUE
  /\ UNCHANGED <<evidence, gated, succeeded, initialized, owned, failureStarted,
                 signalled, upCmd, stack, adapter, vehicle,
                 recorder, bag, heard, ulog, manifest, stale>>

\* recording_started is set only after start has succeeded.
RecordingReturns ==
  /\ pc = "recording"
  /\ \E ok \in BOOLEAN :
       /\ Pack!Register(ok)
       /\ IF ok THEN Then(AfterRecording) ELSE Fail
       /\ recording' = ok
  /\ UNCHANGED <<evidence, gated, succeeded, initialized, owned, failureStarted,
                 signalled, upCmd, stack, adapter, vehicle>>

Setup ==
  /\ pc = "setup"
  /\ Then("inject") \/ Fail
  /\ UNCHANGED <<evidence, gated, succeeded, initialized, owned, recording,
                 failureStarted, signalled, upCmd, stack, adapter, vehicle, pack>>

\* Fault: the failure counts as started only once apply has succeeded.
InjectThenFlag ==
  /\ pc = "inject"
  /\ apply' = "check"
  /\ Then("applying")
  /\ UNCHANGED <<evidence, gated, succeeded, initialized, owned, recording,
                 failureStarted, signalled, upCmd, stack, restore, battery, restored,
                 vehicle, pack>>

\* The failure counts as started from before apply is issued.
Inject ==
  /\ pc = "inject"
  /\ failureStarted' = TRUE
  /\ apply' = "check"
  /\ Then("applying")
  /\ UNCHANGED <<evidence, gated, succeeded, initialized, owned, recording, signalled,
                 upCmd, stack, restore, battery, restored, vehicle, pack>>

ApplyReturns ==
  /\ pc = "applying" /\ apply \in {"done", "failed"}
  /\ IF apply = "done" THEN Then("assert") ELSE Fail
  /\ UNCHANGED <<evidence, gated, succeeded, initialized, owned, recording,
                 failureStarted, signalled, upCmd, stack, adapter, vehicle, pack>>

\* The assertions of a gated scenario, or all of an inert one.
Assert ==
  /\ pc = "assert"
  /\ \/ Then("done") /\ succeeded' = TRUE
     \/ Fail /\ UNCHANGED succeeded
  /\ UNCHANGED <<evidence, gated, initialized, owned, recording, failureStarted,
                 signalled, upCmd, stack, adapter, vehicle, pack>>

\* The end of the script; its last echo may still fail.
Finish ==
  /\ pc = "done"
  /\ Then("restore") \/ Fail
  /\ UNCHANGED <<evidence, gated, succeeded, initialized, owned, recording,
                 failureStarted, signalled, upCmd, stack, adapter, vehicle, pack>>

-----------------------------------------------------------------------------
(* drn-px4-failure in the PX4 container.                                    *)

Disarmed == ~armed /\ ~armedTime

\* Fault: the effect is awaited without a deadline.
MeasuredForever(command, effect) ==
  command = "measure" /\ battery = effect

\* _wait_for_battery_state may give up at any time.
MeasureEnds(command, effect) == command = "measure"

\* apply: check, inject, measure.  The failure command may fail after it took
\* effect, and may succeed without any.
Apply ==
  /\ stack = "up"
  /\ \/ /\ apply = "check"
        /\ apply' \in IF Disarmed THEN {"inject", "failed"} ELSE {"failed"}
        /\ UNCHANGED battery
     \/ /\ apply = "inject"
        /\ apply' \in {"measure", "failed"}
        /\ battery' \in {battery, "off"}
     \/ /\ MeasureEnds(apply, "off")
        /\ apply' \in IF battery = "off" THEN {"done", "failed"} ELSE {"failed"}
        /\ UNCHANGED battery
  /\ UNCHANGED <<pc, script, upCmd, stack, restore, restored, vehicle, pack>>

\* Fault: the vehicle is not checked again after the restoration.
RestoreDoneArmed == TRUE

\* restore verifies at last that PX4 is, and has been, disarmed.
RestoreDone == Disarmed

\* restore: inject, measure, check, in another order than apply.
Restore ==
  /\ stack = "up"
  /\ \/ /\ restore = "inject"
        /\ restore' \in {"measure", "failed"}
        /\ battery' \in {battery, "ok"}
        /\ UNCHANGED restored
     \/ /\ MeasureEnds(restore, "ok")
        /\ restore' \in IF battery = "ok" THEN {"check", "failed"} ELSE {"failed"}
        /\ UNCHANGED <<battery, restored>>
     \/ /\ restore = "check"
        /\ restore' \in IF RestoreDone THEN {"done", "failed"} ELSE {"failed"}
        /\ restored' = (restore' = "done")
        /\ UNCHANGED battery
  /\ UNCHANGED <<pc, script, upCmd, stack, apply, vehicle, pack>>

-----------------------------------------------------------------------------
(* The EXIT trap.                                                           *)

\* Only a failure that was started is restored.
RestoreStarts ==
  /\ pc = "restore"
  /\ IF owned /\ failureStarted
       THEN Then("restoring") /\ restore' = "inject"
       ELSE Then("stop") /\ UNCHANGED restore
  /\ UNCHANGED <<evidence, gated, succeeded, initialized, owned, recording,
                 failureStarted, signalled, upCmd, stack, apply, battery, restored,
                 vehicle, pack>>

\* Fault: the last command of the cleanup decides the status.
NoteLast(ok, next) == pc' = next /\ status' = IF ok THEN 0 ELSE 1

\* `status=1` if a step of the cleanup fails; the cleanup goes on.
Note(ok, next) == pc' = next /\ status' = IF ok THEN status ELSE 1

RestoreReturns ==
  /\ pc = "restoring" /\ restore \in {"done", "failed"}
  /\ Note(restore = "done", "stop")
  /\ failureStarted' = (restore # "done")
  /\ UNCHANGED <<evidence, gated, succeeded, initialized, owned, recording, signalled,
                 upCmd, stack, adapter, vehicle, pack>>

\* Fault: the trap does not look at the result of stop.
StopNoted(ok) == TRUE

\* The result of stop decides the status.
StopResult(ok) == ok

StopRecording ==
  /\ pc = "stop"
  /\ IF owned /\ recording
       THEN \E ok \in BOOLEAN :
              /\ Pack!Stop(ok) \/ (~ok /\ UNCHANGED pack)
              /\ Note(StopResult(ok), "logs")
       ELSE Then("logs") /\ UNCHANGED pack
  /\ UNCHANGED <<evidence, gated, succeeded, initialized, owned, recording,
                 failureStarted, signalled, upCmd, stack, adapter, vehicle>>

Logs ==
  /\ pc = "logs"
  /\ \E ok \in BOOLEAN : (ok \/ (owned /\ initialized)) /\ Note(ok, "down")
  /\ UNCHANGED <<evidence, gated, succeeded, initialized, owned, recording,
                 failureStarted, signalled, upCmd, stack, adapter, vehicle, pack>>

\* The containers end, and with them every process in them.
ContainersEnd ==
  /\ stack' = "absent"
  /\ apply' = "idle"
  /\ battery' = "ok" /\ armed' = FALSE /\ armedTime' = FALSE
  /\ Pack!ContainerEnds

\* Fault: the failure of `compose down` is ignored.
DownUnnoticed(ok) == TRUE

DownResult(ok) == ok

\* `compose down`; it may fail with the containers gone or left.
Down ==
  /\ pc = "down"
  /\ \/ /\ owned
        /\ \E ok \in BOOLEAN :
             /\ Note(DownResult(ok), "finalize")
             /\ \/ ContainersEnd
                \/ ~ok /\ UNCHANGED <<stack, apply, battery, armed, armedTime, pack>>
     \/ /\ ~owned /\ Then("finalize")
        /\ UNCHANGED <<stack, apply, battery, armed, armedTime, pack>>
  /\ UNCHANGED <<evidence, gated, succeeded, initialized, owned, recording,
                 failureStarted, signalled, upCmd, restore, restored, everArmed>>

\* Fault: the workflow alone decides.
VerdictOfWorkflow == IF succeeded THEN "passed" ELSE "failed"

Verdict == IF succeeded /\ status = 0 THEN "passed" ELSE "failed"

FinalizePack ==
  /\ pc = "finalize"
  /\ IF initialized
       THEN \E ok, oversize \in BOOLEAN :
              /\ Pack!Finalize(Verdict, oversize, ok)
              /\ Note(ok, "validate")
       ELSE Then("exited") /\ UNCHANGED pack
  /\ UNCHANGED <<evidence, gated, succeeded, initialized, owned, recording,
                 failureStarted, signalled, upCmd, stack, adapter, vehicle>>

\* A pack without a manifest is not validated.
Validate ==
  /\ pc = "validate"
  /\ \E ok \in BOOLEAN :
       /\ IF manifest = Pack!NoManifest THEN ok ELSE ok => Pack!Valid
       /\ Note(ok, "prune")
  /\ UNCHANGED <<evidence, gated, succeeded, initialized, owned, recording,
                 failureStarted, signalled, upCmd, stack, adapter, vehicle, pack>>

Prune ==
  /\ pc = "prune"
  /\ \E ok \in BOOLEAN : Note(ok, "exited")
  /\ UNCHANGED <<evidence, gated, succeeded, initialized, owned, recording,
                 failureStarted, signalled, upCmd, stack, adapter, vehicle, pack>>

-----------------------------------------------------------------------------
(* Signals, and what goes on without the runner.                            *)

\* The trap begins with status 0, whatever was running; or it is cut short.
Signal ==
  /\ \/ pc \in Workflow /\ pc' = "restore" /\ signalled' = "workflow"
     \/ pc \in Cleanup /\ pc' = "exited" /\ signalled' = "cleanup"
  /\ UNCHANGED <<status, evidence, gated, succeeded, initialized, owned, recording,
                 failureStarted, upCmd, stack, adapter, vehicle, pack>>

\* `compose up` creates the containers, in time or after a signal.
UpCreates ==
  /\ upCmd /\ stack = "absent"
  /\ stack' = "up"
  /\ UNCHANGED <<pc, script, upCmd, adapter, vehicle, pack>>

\* A `compose up` the runner no longer waits for ends.
UpEnds ==
  /\ upCmd /\ pc # "up"
  /\ upCmd' = FALSE
  /\ UNCHANGED <<pc, script, stack, adapter, vehicle, pack>>

\* The recorder, a start command left behind, and the logger of PX4.
Capture ==
  /\ stack = "up"
  /\ \/ Pack!Recorder
     \/ Pack!Px4Logs
     \/ pc # "recording" /\ \E ok \in BOOLEAN : Pack!Register(ok)
  /\ UNCHANGED <<pc, script, upCmd, stack, adapter, vehicle>>

\* everArmed covers the run up to the end of the restoration.
Arm ==
  /\ stack = "up" /\ ~armed
  /\ armed' = TRUE /\ armedTime' = TRUE
  /\ everArmed' = (everArmed \/ ~restored)
  /\ UNCHANGED <<pc, script, upCmd, stack, adapter, pack>>

Disarm ==
  /\ armed
  /\ armed' = FALSE /\ armedTime' = KeepsArmedTime
  /\ UNCHANGED <<pc, script, upCmd, stack, adapter, everArmed, pack>>

-----------------------------------------------------------------------------
Runner ==
  \/ Preflight \/ Prepare \/ Build \/ UpReturns \/ StartRecording \/ RecordingReturns
  \/ Setup \/ Inject \/ ApplyReturns \/ Assert \/ Finish
  \/ RestoreStarts \/ RestoreReturns \/ StopRecording \/ Logs \/ Down
  \/ FinalizePack \/ Validate \/ Prune

Next ==
  \/ Runner \/ Signal
  \/ UpCreates \/ UpEnds \/ Apply \/ Restore
  \/ Capture \/ Arm \/ Disarm

Spec == Init /\ [][Next]_vars

-----------------------------------------------------------------------------
(* Properties.                                                              *)

\* A manifest says "passed" only after a whole run: every assertion held, the
\* containers are gone, and an injected failure was seen restored.  The verdict is
\* taken from a flag and a status that a dozen commands set, and finalize may
\* still overrule it.
PassedIsEarned ==
  manifest.verdict = "passed" =>
    succeeded /\ stack = "absent" /\ (gated => restored)

\* A pack that says "passed" also validates: finalize looks at the directory,
\* validate at the manifest and at what stop counted, and only the status links
\* them when stop has failed.
PassedIsValid == manifest.verdict = "passed" => Pack!Valid

\* Exit status 0: the assertions held, nothing is left running, the failure is
\* restored, and the pack that was asked for says "passed" and validates.
ExitZeroIsClean ==
  pc = "exited" /\ signalled = "no" /\ status = 0 =>
    /\ succeeded /\ stack = "absent"
    /\ gated => restored
    /\ evidence => manifest.verdict = "passed" /\ Pack!Valid

\* "The run also fails if PX4's armed_time shows that it armed at any point":
\* provided that PX4 keeps that time, a run with status 0 was never armed before
\* its restoration was verified, not even between two commands of the adapter.
ArmedRunFails ==
  gated /\ KeepsArmedTime /\ pc = "exited" /\ signalled = "no" /\ status = 0 => ~everArmed

\* "Cleanup always attempts `battery ok`": the runner never takes down a PX4 whose
\* battery is off without an attempt to restore it, also when apply failed after
\* the injection, or a signal left apply behind.
RestoreIsAttempted ==
  [][stack = "up" /\ stack' = "absent" /\ battery = "off" => restore # "idle"]_vars

\* Every command of the runner has a deadline of its own or is finite: `up` and
\* `down` wait for a bounded time, a phase ends at its deadline, and the adapter and
\* stop give up.  So the runner goes on, and so do the commands of the adapter.
FairSpec == Spec /\ WF_vars(Runner) /\ WF_vars(Apply) /\ WF_vars(Restore)

\* Every run ends, whatever fails and whatever the vehicle does.
RunEnds == <>(pc = "exited")

\* Whatever the runner, its signals and its cleanup do to the evidence pack is a
\* history of that pack alone: what EvidencePack promises of the commands holds in
\* a run in which they are cut short, skipped or left behind.
FillsPack == Pack!Spec

-----------------------------------------------------------------------------
(* The run implements RunVerdict.                                           *)

\* How far the run is, by the next command of the runner.
Stage ==
  IF pc \in Workflow THEN "working"
  ELSE IF pc \in {"restore", "restoring"} THEN "undoing"
  ELSE IF pc \in {"stop", "logs", "down"} THEN "stopping"
  ELSE IF pc = "finalize" THEN "judging"
  ELSE IF pc \in {"validate", "prune"} THEN "closing"
  ELSE "ended"

\* Nothing has gone wrong: the workflow goes on or has succeeded, no command of the
\* cleanup has failed, and no signal has cut it short.
Sound == signalled # "cleanup" /\ status = 0 /\ (pc \in Workflow \/ succeeded)

Outcome ==
  INSTANCE RunVerdict WITH
    stage <- Stage, sound <- Sound, failure <- failureStarted,
    containers <- (stack = "up"), verdict <- manifest.verdict

\* With all its flags, its trap that a signal enters with status 0, commands that
\* outlive it and a pack judged by others, the runner keeps the order of its cleanup
\* and never takes an unsound run for a sound one again.
KeepsVerdict == Outcome!Spec

-----------------------------------------------------------------------------
(* What docs/PROJECT_SDK.md says of the runner.                             *)

\* "... and always stops its containers": a runner that owns a stack does not end
\* before `compose down` has returned.
ContainersAreStopped ==
  [][pc # "exited" /\ pc' = "exited" /\ owned => pc \in {"finalize", "validate", "prune"}]_vars
=============================================================================
