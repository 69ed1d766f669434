-------------------------- MODULE ScenarioRunProofs ---------------------------
(***************************************************************************)
(* Proofs about ScenarioRun: its type, and that neither the manifest nor   *)
(* the exit status certifies a run that is not clean.                      *)
(***************************************************************************)
EXTENDS ScenarioRun, TLAPS

\* The evidence commands, and the recorder and PX4 behind them, keep the type of
\* the pack.
LEMMA PackKept == ASSUME Pack!TypeOK, UNCHANGED pack PROVE Pack!TypeOK'
BY DEF pack, Pack!TypeOK

\* start, stop, finalize and the capture in the background, one lemma each.
LEMMA RegisterType ==
  ASSUME Pack!TypeOK, NEW ok \in BOOLEAN, Pack!Register(ok) PROVE Pack!TypeOK'
BY DEF Pack!TypeOK, Pack!Register, Pack!Touch

LEMMA StopType ==
  ASSUME Pack!TypeOK, NEW ok \in BOOLEAN, Pack!Stop(ok) PROVE Pack!TypeOK'
BY DEF Pack!TypeOK, Pack!Stop, Pack!StopTimesOut, Pack!StopEnds, Pack!Closed, Pack!Torn,
       Pack!Touch

LEMMA FinalizeType ==
  ASSUME Pack!TypeOK, NEW verdict \in {"passed", "failed"}, NEW oversize \in BOOLEAN,
         NEW ok \in BOOLEAN, Pack!Finalize(verdict, oversize, ok)
  PROVE  Pack!TypeOK'
<1>1. Pack!Judged(verdict, oversize) \in {"passed", "failed"}
  BY DEF Pack!Judged
<1>2. manifest' \in Pack!Manifests \cup {Pack!NoManifest} /\ stale' \in BOOLEAN
  <2>1. CASE manifest' = [verdict |-> Pack!Judged(verdict, oversize), oversize |-> oversize,
                          mcap |-> bag # "none", counted |-> meta = "counted",
                          ulog |-> ulog # "none"]
             /\ stale' = FALSE
    BY <1>1, <2>1 DEF Pack!Manifests
  <2>2. CASE Pack!Touch
    BY <2>2 DEF Pack!Touch, Pack!TypeOK
  <2>3. QED
    BY <2>1, <2>2 DEF Pack!Finalize
<1>3. UNCHANGED <<starting, recorder, pidFile, meta, bag, heard, ulog>>
  BY DEF Pack!Finalize
<1>4. QED
  BY <1>2, <1>3 DEF Pack!TypeOK

LEMMA CaptureType == ASSUME Pack!TypeOK, Capture PROVE Pack!TypeOK'
<1>1. CASE Pack!Recorder
  BY <1>1 DEF Pack!Recorder, Pack!RecorderOpens, Pack!RecorderHears, Pack!RecorderDies,
              Pack!RecorderEnds, Pack!Closed, Pack!Torn, Pack!Touch, Pack!TypeOK
<1>2. CASE Pack!Px4Logs
  BY <1>2 DEF Pack!Px4Logs, Pack!Touch, Pack!TypeOK
<1>3. CASE \E ok \in BOOLEAN : Pack!Register(ok)
  BY <1>3, RegisterType
<1>4. QED
  BY <1>1, <1>2, <1>3 DEF Capture

LEMMA ContainersEndType == ASSUME Pack!TypeOK, ContainersEnd PROVE Pack!TypeOK'
BY DEF Pack!TypeOK, ContainersEnd, Pack!ContainerEnds, Pack!Torn, Pack!Touch

\* What every command of the runner does to the two variables of its control flow.
ControlType == pc \in Workflow \cup Cleanup \cup {"exited"} /\ status \in {0, 1}

-----------------------------------------------------------------------------
\* The type invariant, over every command, signal and background process.
THEOREM TypeCorrect == Spec => []TypeOK
<1> USE DEF TypeOK, ControlType, Workflow, Cleanup, Commands, script, adapter, vehicle,
            Then, Fail, Note
<1>1. Init => TypeOK
  BY DEF Init, Pack!Init, Pack!TypeOK
<1>2. TypeOK /\ [Next]_vars => TypeOK'
  <2> SUFFICES ASSUME TypeOK, [Next]_vars PROVE TypeOK'
    OBVIOUS
  <2>1. CASE Preflight
    BY <2>1, PackKept DEF Preflight
  <2>2. CASE Prepare
    <3>1. Pack!TypeOK'
      BY <2>2, PackKept DEF Prepare
    <3>2. ControlType'
      BY <2>2 DEF Prepare
    <3>3. initialized' \in BOOLEAN
      BY <2>2 DEF Prepare
    <3>4. QED
      BY <2>2, <3>1, <3>2, <3>3 DEF Prepare
  <2>3. CASE Build
    <3>1. Pack!TypeOK'
      BY <2>3, PackKept DEF Build
    <3>2. ControlType'
      BY <2>3 DEF Build
    <3>3. owned' \in BOOLEAN /\ upCmd' \in BOOLEAN
      BY <2>3 DEF Build
    <3>4. QED
      BY <2>3, <3>1, <3>2, <3>3 DEF Build
  <2>4. CASE UpReturns
    <3>1. Pack!TypeOK'
      BY <2>4, PackKept DEF UpReturns
    <3>2. ControlType'
      BY <2>4 DEF UpReturns, AfterRecording
    <3>3. upCmd' \in BOOLEAN
      BY <2>4 DEF UpReturns
    <3>4. QED
      BY <2>4, <3>1, <3>2, <3>3 DEF UpReturns
  <2>5. CASE StartRecording
    <3>1. Pack!TypeOK'
      <4>1. CASE Pack!Launch
        BY <4>1 DEF Pack!TypeOK, Pack!Launch, Pack!Touch
      <4>2. QED
        BY <2>5, <4>1, PackKept DEF StartRecording
    <3>2. ControlType'
      BY <2>5 DEF StartRecording
    <3>3. QED
      BY <2>5, <3>1, <3>2 DEF StartRecording
  <2>6. CASE RecordingReturns
    <3>1. PICK ok \in BOOLEAN : /\ Pack!Register(ok)
                                /\ IF ok THEN Then(AfterRecording) ELSE Fail
                                /\ recording' = ok
      BY <2>6 DEF RecordingReturns
    <3>2. Pack!TypeOK'
      BY <3>1, RegisterType
    <3>3. ControlType'
      BY <3>1 DEF AfterRecording
    <3>4. recording' \in BOOLEAN
      BY <3>1
    <3>5. QED
      BY <2>6, <3>2, <3>3, <3>4 DEF RecordingReturns
  <2>7. CASE Setup
    BY <2>7, PackKept DEF Setup
  <2>8. CASE Inject
    BY <2>8, PackKept DEF Inject
  <2>9. CASE ApplyReturns
    BY <2>9, PackKept DEF ApplyReturns
  <2>10. CASE Assert
    <3>1. Pack!TypeOK'
      BY <2>10, PackKept DEF Assert
    <3>2. ControlType'
      BY <2>10 DEF Assert
    <3>3. succeeded' \in BOOLEAN
      BY <2>10 DEF Assert
    <3>4. QED
      BY <2>10, <3>1, <3>2, <3>3 DEF Assert
  <2>11. CASE Finish
    BY <2>11, PackKept DEF Finish
  <2>12. CASE RestoreStarts
    BY <2>12, PackKept DEF RestoreStarts
  <2>13. CASE RestoreReturns
    BY <2>13, PackKept DEF RestoreReturns
  <2>14. CASE StopRecording
    <3>1. Pack!TypeOK'
      BY <2>14, StopType, PackKept DEF StopRecording
    <3>2. ControlType'
      BY <2>14 DEF StopRecording
    <3>3. QED
      BY <2>14, <3>1, <3>2 DEF StopRecording
  <2>15. CASE Logs
    BY <2>15, PackKept DEF Logs
  <2>16. CASE Down
    <3>1. Pack!TypeOK'
      BY <2>16, ContainersEndType, PackKept DEF Down
    <3>2. ControlType'
      BY <2>16 DEF Down
    <3>3. /\ stack' \in {"absent", "up"} /\ apply' \in Commands /\ battery' \in {"ok", "off"}
          /\ armed' \in BOOLEAN /\ armedTime' \in BOOLEAN
      <4>1. CASE ContainersEnd
        BY <4>1 DEF ContainersEnd
      <4>2. CASE UNCHANGED <<stack, apply, battery, armed, armedTime, pack>>
        BY <4>2
      <4>3. QED
        BY <2>16, <4>1, <4>2 DEF Down
    <3>4. QED
      BY <2>16, <3>1, <3>2, <3>3 DEF Down
  <2>17. CASE FinalizePack
    <3>1. Verdict \in {"passed", "failed"}
      BY DEF Verdict
    <3>2. Pack!TypeOK'
      BY <2>17, <3>1, FinalizeType, PackKept DEF FinalizePack
    <3>3. ControlType'
      BY <2>17 DEF FinalizePack
    <3>4. QED
      BY <2>17, <3>2, <3>3 DEF FinalizePack
  <2>18. CASE Validate
    BY <2>18, PackKept DEF Validate
  <2>19. CASE Prune
    BY <2>19, PackKept DEF Prune
  <2>20. CASE Signal
    BY <2>20, PackKept DEF Signal
  <2>21. CASE UpCreates
    BY <2>21, PackKept DEF UpCreates
  <2>22. CASE UpEnds
    <3>1. Pack!TypeOK'
      BY <2>22, PackKept DEF UpEnds
    <3>2. ControlType'
      BY <2>22 DEF UpEnds
    <3>3. upCmd' \in BOOLEAN
      BY <2>22 DEF UpEnds
    <3>4. QED
      BY <2>22, <3>1, <3>2, <3>3 DEF UpEnds
  <2>23. CASE Apply
    BY <2>23, PackKept DEF Apply, MeasureEnds
  <2>24. CASE Restore
    <3>1. Pack!TypeOK'
      BY <2>24, PackKept DEF Restore
    <3>2. ControlType'
      BY <2>24 DEF Restore
    <3>3. /\ restore' \in Commands /\ restored' \in BOOLEAN /\ battery' \in {"ok", "off"}
      BY <2>24 DEF Restore, MeasureEnds
    <3>4. QED
      BY <2>24, <3>1, <3>2, <3>3 DEF Restore
  <2>25. CASE Capture
    <3>1. Pack!TypeOK'
      BY <2>25, CaptureType
    <3>2. QED
      BY <2>25, <3>1 DEF Capture
  <2>26. CASE Arm
    BY <2>26, PackKept DEF Arm
  <2>27. CASE Disarm
    <3>1. Pack!TypeOK'
      BY <2>27, PackKept DEF Disarm
    <3>2. ControlType'
      BY <2>27 DEF Disarm
    <3>3. armed' \in BOOLEAN /\ armedTime' \in BOOLEAN
      BY <2>27, ArmedTimeAssumption DEF Disarm
    <3>4. QED
      BY <2>27, <3>1, <3>2, <3>3 DEF Disarm
  <2>28. CASE UNCHANGED vars
    BY <2>28, PackKept DEF vars
  <2>29. QED
    BY <2>1, <2>2, <2>3, <2>4, <2>5, <2>6, <2>7, <2>8, <2>9, <2>10, <2>11, <2>12, <2>13,
       <2>14, <2>15, <2>16, <2>17, <2>18, <2>19, <2>20, <2>21, <2>22, <2>23, <2>24, <2>25,
       <2>26, <2>27, <2>28 DEF Next, Runner
<1>3. QED
  BY <1>1, <1>2, PTL DEF Spec
-----------------------------------------------------------------------------
(* The inductive invariant, in four parts.                                  *)

Started  == {"up", "record", "recording", "setup", "inject", "applying", "assert", "done"}
Prepared == Started \cup {"build"}
Injected == {"applying", "assert", "done"}
Judging  == {"stop", "logs", "down", "finalize", "validate", "prune"}

\* The workflow: its flags grow with its position, and nothing is decided yet.
WorkflowInv ==
  /\ pc \in Workflow => status = 0 /\ signalled = "no" /\ (succeeded <=> pc = "done")
  /\ pc \in Workflow \cup {"restore"} => restore = "idle"
  /\ pc \in Started => owned
  /\ pc \in Started \ {"up"} => ~upCmd
  /\ pc = "prepare" \/ initialized => evidence
  /\ pc \in Prepared /\ evidence => initialized
  /\ pc \in Injected \cup {"setup", "inject"} /\ evidence => recording
  /\ pc \in Injected /\ gated => failureStarted
  /\ pc \in Workflow \ {"recording"} => ~starting

\* A run that can still be certified: no failure, no cleanup cut short.
Passing == succeeded /\ status = 0 /\ signalled # "cleanup"

\* The cleanup: what it has done, if nothing went wrong on the way.
CleanupInv ==
  /\ succeeded => /\ owned /\ ~upCmd /\ ~starting
                  /\ evidence => initialized /\ recording
                  /\ gated => failureStarted \/ restored
  /\ pc \notin Workflow /\ signalled = "no" /\ status = 0 => succeeded
  /\ pc \notin Workflow \cup {"exited"} => signalled # "cleanup"
  /\ pc = "restoring" => owned /\ failureStarted
  /\ restored <=> restore = "done"
  /\ pc \in Judging => restore \in {"idle", "done", "failed"}
  /\ pc \in Judging \cup {"exited"} /\ Passing /\ gated => restored
  /\ pc \in {"finalize", "validate", "prune", "exited"} /\ Passing => stack = "absent"

\* The pack: no verdict before the end, and a verdict a later step agrees with.
PackInv ==
  /\ pc \notin {"validate", "prune", "exited"} => manifest = Pack!NoManifest
  /\ pc \in {"logs", "down", "finalize"} /\ Passing /\ evidence => meta = "counted"
  /\ manifest.verdict = "passed" =>
       succeeded /\ stack = "absent" /\ (gated => restored) /\ Pack!Valid
  /\ pc \in {"validate", "prune", "exited"} /\ Passing /\ evidence =>
       manifest.verdict = "passed"

\* The adapter: nothing is injected without the flag that has it restored.
AdapterInv ==
  /\ apply # "idle" \/ battery = "off" => owned /\ (failureStarted \/ restored)
  /\ pc \in {"stop", "logs", "down"} /\ owned /\ failureStarted => restore # "idle"

\* All of it.
IInv == TypeOK /\ WorkflowInv /\ CleanupInv /\ PackInv /\ AdapterInv

\* Every step of the runner, of the commands it left behind and of the vehicle keeps
\* the four parts.
LEMMA InvStep ==
  ASSUME IInv, [Next]_vars
  PROVE  WorkflowInv' /\ CleanupInv' /\ PackInv' /\ AdapterInv'
<1> USE DEF IInv, Workflow, Cleanup, Started, Prepared, Injected, Judging, Passing, Then, Fail,
            Note, script, adapter, vehicle, pack
<1>1. CASE Preflight
  BY <1>1 DEF WorkflowInv, CleanupInv, PackInv, AdapterInv, Preflight
<1>2. CASE Prepare
  BY <1>2 DEF WorkflowInv, CleanupInv, PackInv, AdapterInv, Prepare
<1>3. CASE Build
  BY <1>3 DEF WorkflowInv, CleanupInv, PackInv, AdapterInv, Build
<1>4. CASE UpReturns
  BY <1>4 DEF WorkflowInv, CleanupInv, PackInv, AdapterInv, UpReturns, AfterRecording
<1>5. CASE StartRecording
  BY <1>5 DEF WorkflowInv, CleanupInv, PackInv, AdapterInv, StartRecording, Pack!Launch,
     Pack!Touch
<1>6. CASE RecordingReturns
  BY <1>6 DEF WorkflowInv, CleanupInv, PackInv, AdapterInv, RecordingReturns,
     AfterRecording, Pack!Register, Pack!Touch
<1>7. CASE Setup
  BY <1>7 DEF WorkflowInv, CleanupInv, PackInv, AdapterInv, Setup
<1>8. CASE Inject
  BY <1>8 DEF WorkflowInv, CleanupInv, PackInv, AdapterInv, Inject
<1>9. CASE ApplyReturns
  BY <1>9 DEF WorkflowInv, CleanupInv, PackInv, AdapterInv, ApplyReturns
<1>10. CASE Assert
  BY <1>10 DEF WorkflowInv, CleanupInv, PackInv, AdapterInv, Assert
<1>11. CASE Finish
  <2>1. WorkflowInv'
    BY <1>11 DEF WorkflowInv, Finish
  <2>2. CleanupInv'
    BY <1>11 DEF WorkflowInv, CleanupInv, Finish
  <2>3. PackInv'
    BY <1>11 DEF WorkflowInv, CleanupInv, PackInv, Pack!Valid, Finish
  <2>4. AdapterInv'
    BY <1>11 DEF WorkflowInv, CleanupInv, AdapterInv, Finish
  <2>5. QED
    BY <2>1, <2>2, <2>3, <2>4
<1>12. CASE RestoreStarts
  <2>1. WorkflowInv'
    BY <1>12 DEF WorkflowInv, RestoreStarts
  <2>2. CleanupInv'
    BY <1>12 DEF WorkflowInv, CleanupInv, RestoreStarts
  <2>3. PackInv'
    BY <1>12 DEF WorkflowInv, CleanupInv, PackInv, Pack!Valid, RestoreStarts
  <2>4. AdapterInv'
    BY <1>12 DEF WorkflowInv, CleanupInv, AdapterInv, RestoreStarts
  <2>5. QED
    BY <2>1, <2>2, <2>3, <2>4
<1>13. CASE RestoreReturns
  <2>1. WorkflowInv'
    BY <1>13 DEF WorkflowInv, RestoreReturns
  <2>2. CleanupInv'
    <3>1. CASE restore = "done"
      <4>1. ~failureStarted' /\ restored'
        BY <1>13, <3>1 DEF CleanupInv, RestoreReturns
      <4>2. QED
        BY <1>13, <3>1, <4>1 DEF WorkflowInv, CleanupInv, RestoreReturns
    <3>2. CASE restore = "failed"
      <4>1. failureStarted' /\ status' = 1
        BY <1>13, <3>2 DEF RestoreReturns
      <4>2. QED
        BY <1>13, <3>2, <4>1 DEF WorkflowInv, CleanupInv, RestoreReturns
    <3>3. QED
      BY <1>13, <3>1, <3>2 DEF RestoreReturns
  <2>3. PackInv'
    BY <1>13 DEF WorkflowInv, CleanupInv, PackInv, Pack!Valid, RestoreReturns
  <2>4. AdapterInv'
    BY <1>13 DEF WorkflowInv, CleanupInv, AdapterInv, RestoreReturns
  <2>5. QED
    BY <2>1, <2>2, <2>3, <2>4
<1>14. CASE StopRecording
  <2>1. WorkflowInv'
    BY <1>14 DEF WorkflowInv, StopRecording, StopResult, Pack!Stop, Pack!StopTimesOut,
       Pack!StopEnds, Pack!Touch
  <2>2. CleanupInv'
    BY <1>14 DEF WorkflowInv, CleanupInv, StopRecording, StopResult, Pack!Stop,
       Pack!StopTimesOut, Pack!StopEnds, Pack!Touch
  <2>3. PackInv'
    BY <1>14 DEF WorkflowInv, CleanupInv, PackInv, Pack!Valid, StopRecording, StopResult,
       Pack!Stop, Pack!StopTimesOut, Pack!StopEnds, Pack!Touch
  <2>4. AdapterInv'
    BY <1>14 DEF WorkflowInv, CleanupInv, AdapterInv, StopRecording, StopResult, Pack!Stop,
       Pack!StopTimesOut, Pack!StopEnds, Pack!Touch
  <2>5. QED
    BY <2>1, <2>2, <2>3, <2>4
<1>15. CASE Logs
  <2>1. WorkflowInv'
    BY <1>15 DEF WorkflowInv, Logs
  <2>2. CleanupInv'
    BY <1>15 DEF WorkflowInv, CleanupInv, Logs
  <2>3. PackInv'
    BY <1>15 DEF WorkflowInv, CleanupInv, PackInv, Pack!Valid, Logs
  <2>4. AdapterInv'
    BY <1>15 DEF WorkflowInv, CleanupInv, AdapterInv, Logs
  <2>5. QED
    BY <2>1, <2>2, <2>3, <2>4
<1>16. CASE Down
  <2>1. UNCHANGED <<stack, pack>> \/ (stack' = "absent" /\ Pack!ContainerEnds)
    BY <1>16 DEF Down, ContainersEnd
  <2>2. WorkflowInv'
    BY <1>16, <2>1 DEF WorkflowInv, Down, ContainersEnd, DownResult, Pack!ContainerEnds
  <2>3. CleanupInv'
    BY <1>16, <2>1 DEF WorkflowInv, CleanupInv, Down, ContainersEnd, DownResult,
       Pack!ContainerEnds
  <2>4. PackInv'
    <3>1. manifest' = Pack!NoManifest /\ Pack!NoManifest.verdict = "none" /\ pc' = "finalize"
      BY <1>16, <2>1 DEF PackInv, Down, Pack!ContainerEnds, Pack!Touch, Pack!NoManifest
    <3>2. Passing' /\ evidence' => Passing /\ evidence /\ ~starting
      BY <1>16 DEF Down, CleanupInv
    <3>3. Passing' /\ evidence' => meta' = "counted"
      BY <1>16, <2>1, <3>2 DEF Down, PackInv, Pack!ContainerEnds
    <3> QED
      BY <3>1, <3>3 DEF PackInv
  <2>5. AdapterInv'
    BY <1>16 DEF WorkflowInv, CleanupInv, AdapterInv, Down, ContainersEnd, DownResult
  <2>6. QED
    BY <2>2, <2>3, <2>4, <2>5
<1>17. CASE FinalizePack
  <2>1. WorkflowInv' /\ CleanupInv' /\ AdapterInv'
    BY <1>17 DEF WorkflowInv, CleanupInv, AdapterInv, FinalizePack, Pack!Finalize, Pack!Touch
  <2>2. ASSUME ~initialized PROVE PackInv'
    <3>1. manifest = Pack!NoManifest /\ ~(Passing /\ evidence) /\ pc = "finalize"
      BY <1>17, <2>2 DEF CleanupInv, PackInv, FinalizePack
    <3>2. UNCHANGED <<manifest, succeeded, status, signalled, evidence>> /\ pc' = "exited"
      BY <1>17, <2>2 DEF FinalizePack
    <3>3. manifest'.verdict = "none"
      BY <3>1, <3>2 DEF Pack!NoManifest
    <3>4. ~evidence' \/ ~succeeded' \/ status' # 0 \/ signalled' = "cleanup"
      BY <3>1, <3>2
    <3>5. pc' = "exited"
      BY <3>2
    <3>6. QED
      BY <3>3, <3>4, <3>5 DEF PackInv
  <2>3. ASSUME initialized, NEW ok \in BOOLEAN, NEW oversize \in BOOLEAN,
               Pack!Finalize(Verdict, oversize, ok), Note(ok, "validate")
        PROVE  PackInv'
    <3> DEFINE written == [verdict |-> Pack!Judged(Verdict, oversize),
                           oversize |-> oversize, mcap |-> bag # "none",
                           counted |-> meta = "counted", ulog |-> ulog # "none"]
    <3>0. UNCHANGED <<evidence, gated, succeeded, signalled, stack, restored, starting,
                      recorder, pidFile, meta, bag, heard, ulog>>
      BY <1>17, <2>3 DEF FinalizePack, Pack!Finalize
    <3>1. CASE manifest' = written /\ ~stale' /\ (ok <=> written.verdict = Verdict)
      <4>1. CASE written.verdict = "passed"
        <5>1. Verdict = "passed" /\ Pack!Captured /\ ~oversize
          BY <4>1 DEF Pack!Judged
        <5>2. Passing /\ Passing'
          <6>1. succeeded /\ status = 0 /\ signalled # "cleanup"
            BY <1>17, <5>1 DEF Verdict, CleanupInv, FinalizePack
          <6>2. ok
            BY <3>1, <4>1, <5>1
          <6>3. status' = status
            BY <2>3, <6>2
          <6>4. QED
            BY <3>0, <6>1, <6>3
        <5>3. /\ succeeded /\ stack = "absent" /\ (gated => restored)
              /\ bag = "full" /\ meta = "counted" /\ ulog # "headless"
          BY <1>17, <2>3, <5>1, <5>2
             DEF WorkflowInv, CleanupInv, PackInv, FinalizePack, Pack!Captured
        <5>4. QED
          <6>1. Pack!Valid'
            <7>1. /\ manifest'.verdict = "passed" /\ ~manifest'.oversize /\ manifest'.counted
                  /\ ~stale' /\ bag' = "full" /\ ulog' # "headless"
              BY <3>0, <3>1, <4>1, <5>1, <5>3
            <7>2. manifest' # Pack!NoManifest
              BY <7>1 DEF Pack!NoManifest
            <7>3. QED
              BY <7>1, <7>2 DEF Pack!Valid, Pack!NoManifest
          <6>2. manifest'.verdict = "passed" /\ pc' = "validate"
            BY <2>3, <3>1, <4>1
          <6>3. QED
            BY <3>0, <5>3, <6>1, <6>2 DEF PackInv
      <4>2. CASE written.verdict = "failed"
        <5>1. ~Passing'
          BY <1>17, <2>3, <3>0, <3>1, <4>2 DEF Verdict
        <5>2. manifest'.verdict = "failed" /\ pc' = "validate"
          BY <2>3, <3>1, <4>2
        <5>3. QED
          BY <5>1, <5>2 DEF PackInv
      <4>3. QED
        BY <4>1, <4>2 DEF Pack!Judged
    <3>2. CASE ~ok /\ UNCHANGED manifest
      <4>1. status' = 1 /\ pc' = "validate"
        BY <2>3, <3>2
      <4>2. manifest'.verdict = "none"
        BY <1>17, <3>2 DEF PackInv, FinalizePack, Pack!NoManifest
      <4>3. QED
        BY <4>1, <4>2 DEF PackInv
    <3>3. QED
      BY <2>3, <3>1, <3>2 DEF Pack!Finalize, Pack!Touch
  <2>4. QED
    BY <1>17, <2>1, <2>2, <2>3 DEF FinalizePack
<1>18. CASE Validate
  <2>1. WorkflowInv'
    BY <1>18 DEF WorkflowInv, Validate
  <2>2. CleanupInv'
    BY <1>18 DEF WorkflowInv, CleanupInv, Validate
  <2>3. PackInv'
    BY <1>18 DEF WorkflowInv, CleanupInv, PackInv, Pack!Valid, Validate
  <2>4. AdapterInv'
    BY <1>18 DEF WorkflowInv, CleanupInv, AdapterInv, Validate
  <2>5. QED
    BY <2>1, <2>2, <2>3, <2>4
<1>19. CASE Prune
  <2>1. WorkflowInv'
    BY <1>19 DEF WorkflowInv, Prune
  <2>2. CleanupInv'
    BY <1>19 DEF WorkflowInv, CleanupInv, Prune
  <2>3. PackInv'
    BY <1>19 DEF WorkflowInv, CleanupInv, PackInv, Pack!Valid, Prune
  <2>4. AdapterInv'
    BY <1>19 DEF WorkflowInv, CleanupInv, AdapterInv, Prune
  <2>5. QED
    BY <2>1, <2>2, <2>3, <2>4
<1>20. CASE Signal
  <2>1. WorkflowInv'
    BY <1>20 DEF WorkflowInv, Signal
  <2>2. CleanupInv'
    BY <1>20 DEF WorkflowInv, CleanupInv, Signal
  <2>3. PackInv'
    BY <1>20 DEF WorkflowInv, CleanupInv, PackInv, Pack!Valid, Signal
  <2>4. AdapterInv'
    BY <1>20 DEF WorkflowInv, CleanupInv, AdapterInv, Signal
  <2>5. QED
    BY <2>1, <2>2, <2>3, <2>4
<1>21. CASE UpCreates
  BY <1>21 DEF WorkflowInv, CleanupInv, PackInv, AdapterInv, UpCreates
<1>22. CASE UpEnds
  BY <1>22 DEF WorkflowInv, CleanupInv, PackInv, AdapterInv, UpEnds
<1>23. CASE Apply
  BY <1>23 DEF WorkflowInv, CleanupInv, PackInv, AdapterInv, Apply, MeasureEnds, Disarmed
<1>24. CASE Restore
  <2>1. WorkflowInv' /\ PackInv' /\ AdapterInv'
    BY <1>24 DEF WorkflowInv, CleanupInv, PackInv, AdapterInv, Pack!Valid, Restore, MeasureEnds
  <2>2. restored' <=> restore' = "done"
    <3>1. CASE restore = "check"
      <4>1. restored' = (restore' = "done")
        BY <1>24, <3>1 DEF Restore, MeasureEnds
      <4>2. QED
        BY <4>1
    <3>2. CASE restore # "check"
      <4>1. restored' = restored /\ restore # "done" /\ restore' # "done"
        BY <1>24, <3>2 DEF Restore, MeasureEnds
      <4>2. QED
        BY <4>1 DEF CleanupInv
    <3>3. QED
      BY <3>1, <3>2
  <2>3. CleanupInv'
    BY <1>24, <2>2 DEF WorkflowInv, CleanupInv, Restore, MeasureEnds
  <2>4. QED
    BY <2>1, <2>3
<1>25. CASE Capture
  BY <1>25 DEF WorkflowInv, CleanupInv, PackInv, AdapterInv, Capture, Pack!Recorder,
     Pack!RecorderOpens, Pack!RecorderHears, Pack!RecorderDies, Pack!RecorderEnds,
        Pack!Px4Logs, Pack!Register, Pack!Touch,
         Pack!Valid
<1>26. CASE Arm
  BY <1>26 DEF WorkflowInv, CleanupInv, PackInv, AdapterInv, Arm
<1>27. CASE Disarm
  <2>1. WorkflowInv'
    BY <1>27 DEF WorkflowInv, Disarm
  <2>2. CleanupInv'
    BY <1>27 DEF WorkflowInv, CleanupInv, Disarm
  <2>3. PackInv'
    BY <1>27 DEF WorkflowInv, CleanupInv, PackInv, Pack!Valid, Disarm
  <2>4. AdapterInv'
    BY <1>27 DEF WorkflowInv, CleanupInv, AdapterInv, Disarm
  <2>5. QED
    BY <2>1, <2>2, <2>3, <2>4
<1>28. CASE UNCHANGED vars
  <2>1. WorkflowInv'
    BY <1>28 DEF WorkflowInv, vars
  <2>2. CleanupInv'
    BY <1>28 DEF WorkflowInv, CleanupInv, vars
  <2>3. PackInv'
    BY <1>28 DEF WorkflowInv, CleanupInv, PackInv, Pack!Valid, vars
  <2>4. AdapterInv'
    BY <1>28 DEF WorkflowInv, CleanupInv, AdapterInv, vars
  <2>5. QED
    BY <2>1, <2>2, <2>3, <2>4
<1>29. QED
  BY <1>1, <1>2, <1>3, <1>4, <1>5, <1>6, <1>7, <1>8, <1>9, <1>10, <1>11, <1>12, <1>13,
     <1>14, <1>15, <1>16, <1>17, <1>18, <1>19, <1>20, <1>21, <1>22, <1>23, <1>24, <1>25,
        <1>26, <1>27, <1>28
     DEF Next, Runner

\* The invariant holds in every run.
LEMMA InvHolds == Spec => []IInv
<1>1. Init => WorkflowInv /\ CleanupInv /\ PackInv /\ AdapterInv
  BY DEF Init, Pack!Init, Pack!NoManifest, WorkflowInv, CleanupInv, PackInv, AdapterInv,
         Workflow, Started, Prepared, Injected, Judging, Passing
<1>2. TypeOK' /\ IInv /\ [Next]_vars => IInv'
  BY InvStep DEF IInv
<1>3. QED
  BY <1>1, <1>2, TypeCorrect, PTL DEF Spec, IInv

-----------------------------------------------------------------------------
(* What follows.                                                            *)

\* A manifest says "passed" only after a whole, clean run.
THEOREM PassedEarned == Spec => []PassedIsEarned
<1>1. IInv => PassedIsEarned
  BY DEF IInv, PackInv, PassedIsEarned
<1>2. QED
  BY <1>1, InvHolds, PTL

\* What finalize passes, validate accepts, although they look at different things.
THEOREM PassedValid == Spec => []PassedIsValid
<1>1. IInv => PassedIsValid
  BY DEF IInv, PackInv, PassedIsValid
<1>2. QED
  BY <1>1, InvHolds, PTL

\* Exit status 0 stands for a run that passed and left nothing behind.
THEOREM ExitZeroClean == Spec => []ExitZeroIsClean
<1>1. ASSUME IInv, pc = "exited", signalled = "no", status = 0
      PROVE  /\ succeeded /\ stack = "absent" /\ (gated => restored)
             /\ evidence => manifest.verdict = "passed" /\ Pack!Valid
  <2>1. Passing
    BY <1>1 DEF IInv, CleanupInv, Passing, Workflow
  <2>2. stack = "absent" /\ (gated => restored)
    BY <1>1, <2>1 DEF IInv, CleanupInv
  <2>3. evidence => manifest.verdict = "passed"
    BY <1>1, <2>1 DEF IInv, PackInv
  <2>4. QED
    BY <1>1, <2>1, <2>2, <2>3 DEF IInv, PackInv, Passing
<1>2. IInv => ExitZeroIsClean
  BY <1>1 DEF ExitZeroIsClean
<1>3. QED
  BY <1>2, InvHolds, PTL

\* The containers of a PX4 whose battery is off are taken down only after an
\* attempt to restore it.
THEOREM RestoreAttempted == Spec => RestoreIsAttempted
<1>1. ASSUME IInv, [Next]_vars, stack = "up", stack' = "absent", battery = "off"
      PROVE  restore # "idle"
  <2>1. pc = "down"
    BY <1>1 DEF Next, Runner, Preflight, Prepare, Build, UpReturns, StartRecording,
       RecordingReturns, Setup, Inject, ApplyReturns, Assert, Finish, RestoreStarts,
       RestoreReturns, StopRecording, Logs, Down, FinalizePack, Validate, Prune, Signal,
       UpCreates, UpEnds, Apply, Restore, Capture, Arm, Disarm, vars
  <2>2. owned /\ (failureStarted \/ restored)
    BY <1>1 DEF IInv, AdapterInv
  <2>3. CASE failureStarted
    BY <1>1, <2>1, <2>2, <2>3 DEF IInv, AdapterInv
  <2>4. CASE restored
    BY <1>1, <2>4 DEF IInv, CleanupInv
  <2>5. QED
    BY <2>2, <2>3, <2>4
<1>2. IInv /\ [Next]_vars =>
        [stack = "up" /\ stack' = "absent" /\ battery = "off" => restore # "idle"]_vars
  BY <1>1
<1>3. QED
  BY <1>2, InvHolds, PTL DEF Spec, RestoreIsAttempted

\* If PX4 keeps the time of its last arming, an arming before the restoration is
\* verified is still visible there, until the containers are gone.
ArmInv ==
  /\ armed => armedTime
  /\ KeepsArmedTime /\ everArmed =>
       /\ ~restored
       /\ \/ armedTime
          \/ restore \in {"idle", "failed"} /\ pc \in {"finalize", "validate", "prune", "exited"}

\* It is kept by every step: the containers, and PX4 with them, go only once the
\* restoration is over.
LEMMA ArmStep == ASSUME IInv, ArmInv, [Next]_vars PROVE ArmInv'
<1> USE DEF IInv, ArmInv, script, adapter, vehicle, Then, Fail, Note
<1>1. CASE /\ UNCHANGED <<restore, restored, vehicle>>
           /\ pc' = pc \/ pc \notin {"finalize", "validate", "prune", "exited"}
                       \/ pc' \in {"finalize", "validate", "prune", "exited"}
  BY <1>1
<1>2. CASE RestoreStarts
  BY <1>2 DEF RestoreStarts
<1>3. CASE Down
  <2>1. restore \in {"idle", "failed"} \/ restored
    BY <1>3 DEF Down, CleanupInv, Judging
  <2>2. pc' = "finalize" /\ UNCHANGED <<restore, restored, everArmed>>
    BY <1>3 DEF Down
  <2>3. \/ armed' = armed /\ armedTime' = armedTime
        \/ armed' = FALSE /\ armedTime' = FALSE
    <3>1. CASE ContainersEnd
      BY <3>1 DEF ContainersEnd
    <3>2. CASE UNCHANGED <<stack, apply, battery, armed, armedTime, pack>>
      BY <3>2
    <3>3. QED
      BY <1>3, <3>1, <3>2 DEF Down
  <2>4. QED
    BY <2>1, <2>2, <2>3
<1>4. CASE Restore
  <2>1. UNCHANGED <<pc, vehicle>>
    BY <1>4 DEF Restore
  <2>2. restore \in {"inject", "measure", "check"}
    BY <1>4 DEF Restore, MeasureEnds
  <2>3. ~restored
    BY <2>2 DEF CleanupInv
  <2>4. KeepsArmedTime /\ everArmed => ~restored'
    BY <1>4, <2>2, <2>3 DEF Restore, MeasureEnds, RestoreDone, Disarmed
  <2>5. QED
    BY <2>1, <2>2, <2>4
<1>5. CASE Arm
  BY <1>5 DEF Arm
<1>6. CASE Disarm
  BY <1>6 DEF Disarm
<1>7. QED
  BY <1>1, <1>2, <1>3, <1>4, <1>5, <1>6 DEF Next, Runner, Preflight, Prepare, Build,
     UpReturns, StartRecording, RecordingReturns, Setup, Inject, ApplyReturns, Assert, Finish,
     RestoreReturns, StopRecording, Logs, FinalizePack, Validate, Prune, Signal, UpCreates,
     UpEnds, Apply, Capture, Cleanup, Workflow, vars

\* A gated run that was armed at any point before the restoration was verified does
\* not end with status 0, provided that PX4 keeps the time of its last arming.
THEOREM ArmedRunsFail == Spec => []ArmedRunFails
<1>1. Init => ArmInv
  BY DEF Init, ArmInv
<1>2. IInv /\ ArmInv /\ [Next]_vars => ArmInv'
  BY ArmStep
<1>3. IInv /\ ArmInv => ArmedRunFails
  <2> SUFFICES ASSUME IInv, ArmInv, gated, KeepsArmedTime, pc = "exited", signalled = "no",
                      status = 0
               PROVE  ~everArmed
    BY DEF ArmedRunFails
  <2>1. Passing
    BY DEF IInv, CleanupInv, Passing, Workflow
  <2>2. restored
    BY <2>1 DEF IInv, CleanupInv
  <2>3. QED
    BY <2>2 DEF ArmInv
<1>4. QED
  BY <1>1, <1>2, <1>3, InvHolds, PTL DEF Spec

-----------------------------------------------------------------------------
(* The pack in a run.                                                        *)

\* The recorder, a start left behind and PX4 go on while the containers are up.
LEMMA CaptureFills == ASSUME Capture PROVE Pack!Next
BY DEF Capture, Pack!Next, Pack!Command

\* `compose down` ends the container of the pack, or leaves the pack alone.
LEMMA DownFills == ASSUME Down PROVE Pack!Next \/ UNCHANGED pack
BY DEF Down, ContainersEnd, Pack!Next

\* Every step of a run is a step of its pack, or leaves it alone.
LEMMA StepFills == [Next]_vars => [Pack!Next]_(Pack!vars)
<1> SUFFICES ASSUME [Next]_vars PROVE Pack!Next \/ UNCHANGED pack
  BY DEF Pack!vars, Pack!capture, pack
<1>1. CASE StartRecording
  BY <1>1 DEF StartRecording, Pack!Next, Pack!Command
<1>2. CASE RecordingReturns
  BY <1>2 DEF RecordingReturns, Pack!Next, Pack!Command
<1>3. CASE StopRecording
  BY <1>3 DEF StopRecording, Pack!Next, Pack!Command
<1>4. CASE FinalizePack
  <2>1. Verdict \in {"passed", "failed"}
    BY DEF Verdict
  <2>2. QED
    BY <1>4, <2>1 DEF FinalizePack, Pack!Next, Pack!Command
<1>5. CASE Capture \/ Down
  BY <1>5, CaptureFills, DownFills
<1>6. CASE UNCHANGED pack
  BY <1>6
<1>7. QED
  BY <1>1, <1>2, <1>3, <1>4, <1>5, <1>6 DEF Next, Runner, Preflight, Prepare, Build, UpReturns,
     Setup, Inject, ApplyReturns, Assert, Finish, RestoreStarts, RestoreReturns, Logs, Validate,
     Prune, Signal, UpCreates, UpEnds, Apply, Restore, Arm, Disarm, vars

\* A run of the scenario runner, cut short or not, is a behaviour of EvidencePack.
THEOREM RunFillsPack == Spec => FillsPack
<1>1. Init => Pack!Init
  BY DEF Init
<1>2. QED
  BY <1>1, StepFills, PTL DEF Spec, FillsPack, Pack!Spec

\* What EvidencePackProofs proves, about the pack of this run.
Proved == INSTANCE EvidencePackProofs

\* Both instances are the same module with the same variables.
LEMMA SamePack == Pack!Spec => Proved!Spec
<1>1. Pack!Init => Proved!Init
  BY DEF Pack!Init, Proved!Init, Pack!NoManifest, Proved!NoManifest
<1>2. [Pack!Next]_(Pack!vars) => [Proved!Next]_(Proved!vars)
  BY DEF Pack!Next, Proved!Next, Pack!vars, Proved!vars, Pack!capture, Proved!capture,
     Pack!Recorder, Proved!Recorder, Pack!RecorderOpens, Proved!RecorderOpens,
     Pack!RecorderHears, Proved!RecorderHears, Pack!RecorderDies, Proved!RecorderDies,
     Pack!RecorderEnds, Proved!RecorderEnds, Pack!Closed, Proved!Closed, Pack!Torn,
     Proved!Torn, Pack!Touch, Proved!Touch, Pack!Px4Logs, Proved!Px4Logs,
     Pack!ContainerEnds, Proved!ContainerEnds, Pack!Command, Proved!Command,
     Pack!Launch, Proved!Launch, Pack!Register, Proved!Register, Pack!Stop, Proved!Stop,
     Pack!StopTimesOut, Proved!StopTimesOut, Pack!StopEnds, Proved!StopEnds,
     Pack!Countable, Proved!Countable, Pack!Finalize, Proved!Finalize, Pack!Judged,
     Proved!Judged, Pack!Captured, Proved!Captured, Pack!NoManifest, Proved!NoManifest
<1>3. QED
  BY <1>1, <1>2, PTL DEF Pack!Spec, Proved!Spec

\* So what evidence.py promises of its commands holds of the runner that calls them:
\* whatever fails or is cut short, a count stands for a complete bag, and "passed" for
\* a complete capture.
THEOREM RunCertifiesCapture == Spec => [](Pack!CountedIsComplete /\ Pack!PassedIsComplete)
<1>1. Proved!Spec => []Proved!CountedIsComplete /\ []Proved!PassedIsComplete
  <2>1. Proved!Spec => []Proved!CountedIsComplete
    BY Proved!CountComplete
  <2>2. Proved!Spec => []Proved!PassedIsComplete
    BY Proved!PassedComplete
  <2>3. QED
    BY <2>1, <2>2
<1>2. QED
  BY <1>1, RunFillsPack, SamePack, PTL
     DEF FillsPack, Pack!CountedIsComplete, Proved!CountedIsComplete,
         Pack!PassedIsComplete, Proved!PassedIsComplete

-----------------------------------------------------------------------------
(* The run implements RunVerdict.  Every step is one of a working run, one   *)
(* that leaves the work, one of the cleanup, or one behind the runner's back.*)

\* A step of RunVerdict, or none.
VerdictStep ==
  Outcome!Next \/ UNCHANGED <<Stage, Sound, failureStarted, stack = "up", manifest.verdict>>

\* Where the next command of the runner puts the run.
LEMMA StageIs ==
  /\ pc \in Workflow => Stage = "working"
  /\ pc \in {"restore", "restoring"} => Stage = "undoing"
  /\ pc \in {"stop", "logs", "down"} => Stage = "stopping"
  /\ pc = "finalize" => Stage = "judging"
  /\ pc \in {"validate", "prune"} => Stage = "closing"
  /\ pc = "exited" => Stage = "ended"
BY DEF Stage, Workflow

LEMMA StageIsNext ==
  /\ pc' \in Workflow => Stage' = "working"
  /\ pc' \in {"restore", "restoring"} => Stage' = "undoing"
  /\ pc' \in {"stop", "logs", "down"} => Stage' = "stopping"
  /\ pc' = "finalize" => Stage' = "judging"
  /\ pc' \in {"validate", "prune"} => Stage' = "closing"
  /\ pc' = "exited" => Stage' = "ended"
BY DEF Stage, Workflow

\* While the workflow runs, nothing has gone wrong yet.
LEMMA WorkIsSound == ASSUME IInv, pc \in Workflow PROVE Sound
BY DEF IInv, WorkflowInv, Sound

\* The runner works on, at most injecting its failure.
LEMMA WorksOn ==
  ASSUME IInv, pc \in Workflow, pc' \in Workflow, UNCHANGED <<status, signalled, stack, manifest>>,
         failureStarted' \in {failureStarted, TRUE}
  PROVE  VerdictStep
<1>1. Stage = "working" /\ Stage' = "working"
  BY StageIs, StageIsNext
<1>2. Sound /\ Sound'
  BY WorkIsSound DEF IInv, WorkflowInv, Sound
<1> QED
  BY <1>1, <1>2 DEF VerdictStep, Outcome!Next, Outcome!Inject

\* It leaves the workflow, done or not.
LEMMA Leaves ==
  ASSUME IInv, pc \in Workflow, pc' = "restore", UNCHANGED <<failureStarted, stack, manifest>>
  PROVE  VerdictStep
<1>1. Stage = "working" /\ Stage' = "undoing"
  BY StageIs, StageIsNext
<1>2. Sound /\ Sound' \in BOOLEAN
  BY WorkIsSound DEF Sound
<1> QED
  BY <1>1, <1>2 DEF VerdictStep, Outcome!Next, Outcome!Leave, Outcome!StaysUnsound

\* In the cleanup the status only gets worse, and only that of a sound run matters.
LEMMA CleansUp ==
  ASSUME pc \in Cleanup, pc' \notin Workflow, status' = status \/ status' # 0,
         UNCHANGED <<succeeded, signalled>>
  PROVE  Outcome!StaysUnsound
BY DEF Sound, Workflow, Cleanup, Outcome!StaysUnsound

\* The commands of the workflow.
LEMMA WorkflowVerdict ==
  ASSUME IInv,
         \/ Preflight \/ Prepare \/ Build \/ UpReturns \/ StartRecording \/ RecordingReturns
         \/ Setup \/ Inject \/ ApplyReturns \/ Assert \/ Finish
  PROVE  VerdictStep
<1> USE DEF Then, Fail, Workflow
<1>1. CASE Preflight \/ Prepare \/ Build \/ UpReturns \/ Setup \/ ApplyReturns \/ Assert
  <2>1. /\ pc \in Workflow /\ UNCHANGED <<signalled, stack, manifest, failureStarted>>
        /\ (pc' \in Workflow /\ status' = status) \/ pc' = "restore"
    BY <1>1 DEF Preflight, Prepare, Build, UpReturns, Setup, ApplyReturns, Assert,
       AfterRecording, pack
  <2> QED
    BY <2>1, WorksOn, Leaves
<1>2. CASE StartRecording \/ RecordingReturns
  <2>1. /\ pc \in Workflow /\ UNCHANGED <<signalled, stack, failureStarted>>
        /\ (pc' \in Workflow /\ status' = status) \/ pc' = "restore"
    BY <1>2 DEF StartRecording, RecordingReturns, AfterRecording
  <2>2. UNCHANGED manifest
    BY <1>2 DEF StartRecording, RecordingReturns, Pack!Launch, Pack!Register, Pack!Touch, pack
  <2> QED
    BY <2>1, <2>2, WorksOn, Leaves
<1>3. CASE Inject
  BY <1>3, WorksOn DEF Inject, pack
<1>4. CASE Finish
  BY <1>4, Leaves DEF Finish, pack
<1> QED
  BY <1>1, <1>2, <1>3, <1>4

\* The failure is undone, or was never started.
LEMMA UndoVerdict == ASSUME IInv, RestoreStarts \/ RestoreReturns PROVE VerdictStep
<1>1. CASE RestoreStarts /\ owned /\ failureStarted
  <2>1. /\ pc = "restore" /\ pc' = "restoring"
        /\ UNCHANGED <<status, signalled, succeeded, stack, manifest, failureStarted>>
    BY <1>1 DEF RestoreStarts, Then, pack
  <2>2. Stage' = Stage /\ Sound' = Sound
    BY <2>1, StageIs, StageIsNext DEF Sound, Workflow
  <2> QED
    BY <2>1, <2>2 DEF VerdictStep
<1>2. CASE RestoreStarts /\ ~(owned /\ failureStarted)
  <2>1. /\ pc = "restore" /\ pc' = "stop"
        /\ UNCHANGED <<status, signalled, succeeded, stack, manifest, failureStarted>>
    BY <1>2 DEF RestoreStarts, Then, pack
  <2>2. Stage = "undoing" /\ Stage' = "stopping" /\ Outcome!StaysUnsound
    BY <2>1, StageIs, StageIsNext, CleansUp DEF Cleanup, Workflow
  <2>3. ~(Sound' /\ failureStarted')
    BY <1>2, <2>1 DEF Sound, Workflow, IInv, CleanupInv
  <2> QED
    BY <2>1, <2>2, <2>3 DEF VerdictStep, Outcome!Next, Outcome!Undo
<1>3. CASE RestoreReturns
  <2>1. /\ pc = "restoring" /\ pc' = "stop" /\ UNCHANGED <<signalled, succeeded, stack, manifest>>
        /\ \/ restore = "done" /\ status' = status /\ failureStarted' = FALSE
           \/ restore = "failed" /\ status' = 1 /\ failureStarted' = TRUE
    BY <1>3 DEF RestoreReturns, Note, pack
  <2>2. restore = "failed" => owned /\ failureStarted
    BY <2>1 DEF IInv, CleanupInv
  <2>3. Stage = "undoing" /\ Stage' = "stopping" /\ Outcome!StaysUnsound
    BY <2>1, StageIs, StageIsNext, CleansUp DEF Cleanup, Workflow
  <2>4. failureStarted' \in {failureStarted, FALSE} /\ ~(Sound' /\ failureStarted')
    <3>1. CASE restore = "done"
      BY <2>1, <3>1
    <3>2. CASE restore = "failed"
      <4>1. failureStarted = TRUE
        BY <2>2, <3>2 DEF IInv, TypeOK
      <4>2. ~Sound' /\ failureStarted' = TRUE
        BY <2>1, <3>2 DEF Sound
      <4> QED
        BY <4>1, <4>2
    <3> QED
      BY <2>1, <3>1, <3>2
  <2> QED
    BY <2>1, <2>3, <2>4 DEF VerdictStep, Outcome!Next, Outcome!Undo
<1> QED
  BY <1>1, <1>2, <1>3

\* The recording is stopped and the logs are kept, or something goes wrong with them.
LEMMA StopVerdict == ASSUME IInv, StopRecording \/ Logs PROVE VerdictStep
<1>1. /\ pc \in {"stop", "logs"} /\ pc' \in {"logs", "down"}
      /\ status' = status \/ status' = 1
      /\ UNCHANGED <<succeeded, signalled, failureStarted, stack>>
  BY DEF StopRecording, Logs, Note, Then
<1>2. UNCHANGED manifest
  BY DEF StopRecording, Logs, Pack!Stop, Pack!StopTimesOut, Pack!StopEnds, Pack!Touch, pack
<1>3. Stage = "stopping" /\ Stage' = "stopping" /\ Outcome!StaysUnsound
  BY <1>1, StageIs, StageIsNext, CleansUp DEF Cleanup, Workflow
<1> QED
  BY <1>1, <1>2, <1>3 DEF VerdictStep, Outcome!Next, Outcome!CleanUp

\* The containers are gone once `compose down` has succeeded.
LEMMA DownVerdict == ASSUME IInv, Down PROVE VerdictStep
<1>1. /\ pc = "down" /\ pc' = "finalize" /\ (status' = status \/ status' = 1)
      /\ UNCHANGED <<succeeded, signalled, failureStarted>>
  BY DEF Down, Note, Then
<1>2. UNCHANGED manifest /\ stack' \in {stack, "absent"}
  BY DEF Down, ContainersEnd, Pack!ContainerEnds, Pack!Touch, pack
<1>3. Stage = "stopping" /\ Stage' = "judging" /\ Outcome!StaysUnsound
  BY <1>1, StageIs, StageIsNext, CleansUp DEF Cleanup, Workflow
<1>4. Sound' => stack' = "absent"
  <2> SUFFICES ASSUME Sound' PROVE stack' = "absent"
    OBVIOUS
  <2>1. succeeded /\ status' # 1
    BY <1>1 DEF Sound, Workflow
  <2>2. owned
    BY <2>1 DEF IInv, CleanupInv
  <2> QED
    BY <2>1, <2>2 DEF Down, Note, DownResult, ContainersEnd
<1>5. (stack = "up")' \in {stack = "up", FALSE} /\ ~(Sound' /\ (stack = "up")')
  BY <1>2, <1>4
<1> QED
  BY <1>1, <1>2, <1>3, <1>5 DEF VerdictStep, Outcome!Next, Outcome!TakeDown

\* finalize passes a sound run, and no other; without a pack there is no verdict.
LEMMA FinalizeVerdict == ASSUME IInv, IInv', FinalizePack PROVE VerdictStep
<1>1. /\ pc = "finalize" /\ pc' \in {"validate", "exited"} /\ (status' = status \/ status' = 1)
      /\ UNCHANGED <<succeeded, signalled, failureStarted, stack, evidence>>
  BY DEF FinalizePack, Note, Then
<1>2. Stage = "judging" /\ Outcome!StaysUnsound
  BY <1>1, StageIs, CleansUp DEF Cleanup, Workflow
<1>3. CASE ~initialized
  <2>1. pc' = "exited" /\ UNCHANGED manifest /\ Stage' = "ended"
    BY <1>3, StageIsNext DEF FinalizePack, Then, pack
  <2> QED
    BY <1>1, <1>2, <2>1 DEF VerdictStep, Outcome!Next, Outcome!End
<1>4. CASE initialized
  <2>1. PICK ok \in BOOLEAN, oversize \in BOOLEAN :
          Pack!Finalize(Verdict, oversize, ok) /\ Note(ok, "validate")
    BY <1>4 DEF FinalizePack
  <2>2. pc' = "validate" /\ Stage' = "closing"
    BY <2>1, StageIsNext DEF Note
  <2>3. manifest'.verdict \in {"none", "passed", "failed"}
    BY DEF IInv, TypeOK, Pack!TypeOK, Pack!Manifests, Pack!NoManifest
  <2>4. ASSUME manifest'.verdict = "passed" PROVE Sound'
    <3>1. manifest'.verdict = Pack!Judged(Verdict, oversize) /\ (ok <=> manifest'.verdict = Verdict)
      <4>1. manifest.verdict = "none"
        BY <1>1 DEF IInv, PackInv, Pack!NoManifest
      <4> QED
        BY <2>1, <2>4, <4>1 DEF Pack!Finalize, Pack!Touch
    <3>2. Verdict = "passed" /\ ok
      BY <2>4, <3>1 DEF Pack!Judged
    <3>3. succeeded /\ status' = 0
      BY <2>1, <3>2 DEF Verdict, Note
    <3>4. signalled # "cleanup"
      BY <1>1 DEF IInv, CleanupInv, Workflow
    <3> QED
      BY <1>1, <3>3, <3>4 DEF Sound
  <2>5. ASSUME Sound' PROVE manifest'.verdict = "passed"
    <3>1. Passing'
      BY <2>2, <2>5 DEF Sound, Passing, Workflow
    <3>2. evidence'
      BY <1>1, <1>4 DEF IInv, WorkflowInv
    <3> QED
      BY <2>2, <3>1, <3>2 DEF IInv, PackInv
  <2> QED
    BY <1>1, <1>2, <2>2, <2>3, <2>4, <2>5 DEF VerdictStep, Outcome!Next, Outcome!Judge
<1> QED
  BY <1>3, <1>4

\* What is done after the verdict may go wrong, and does not change it.
LEMMA CloseVerdict == ASSUME IInv, Validate \/ Prune PROVE VerdictStep
<1>1. /\ \/ pc = "validate" /\ pc' = "prune"
         \/ pc = "prune" /\ pc' = "exited"
      /\ status' = status \/ status' = 1
      /\ UNCHANGED <<succeeded, signalled, failureStarted, stack, manifest>>
  BY DEF Validate, Prune, Note, pack
<1>2. Stage = "closing" /\ Stage' \in {"closing", "ended"} /\ Outcome!StaysUnsound
  BY <1>1, StageIs, StageIsNext, CleansUp DEF Cleanup, Workflow
<1> QED
  BY <1>1, <1>2 DEF VerdictStep, Outcome!Next, Outcome!CleanUp, Outcome!End

\* A signal ends the work, or cuts the cleanup short.
LEMMA SignalVerdict == ASSUME IInv, Signal PROVE VerdictStep
<1>1. UNCHANGED <<failureStarted, stack, manifest>>
  BY DEF Signal, pack
<1>2. CASE pc \in Workflow /\ pc' = "restore"
  BY <1>1, <1>2, Leaves
<1>3. CASE pc \in Cleanup /\ pc' = "exited" /\ signalled' = "cleanup"
  <2>1. Stage \notin {"working", "ended"} /\ Stage' = "ended"
    BY <1>3, StageIs, StageIsNext DEF Cleanup
  <2>2. Sound' = FALSE
    BY <1>3 DEF Sound
  <2> QED
    BY <1>1, <2>1, <2>2 DEF VerdictStep, Outcome!Next, Outcome!CutShort
<1> QED
  BY <1>2, <1>3 DEF Signal

\* A late `compose up` serves a run that has failed.
LEMMA UpVerdict == ASSUME IInv, UpCreates PROVE VerdictStep
<1>1. UNCHANGED <<pc, status, signalled, succeeded, failureStarted, manifest>> /\ stack' = "up"
  BY DEF UpCreates, script, pack
<1>2. Stage' = Stage /\ Sound' = Sound
  BY <1>1 DEF Stage, Sound
<1>3. Stage = "working" \/ ~Sound
  <2>1. ~succeeded
    BY DEF UpCreates, IInv, CleanupInv
  <2>2. pc \in Workflow => Stage = "working"
    BY StageIs
  <2> QED
    BY <2>1, <2>2 DEF Sound
<1> QED
  BY <1>1, <1>2, <1>3 DEF VerdictStep, Outcome!Next, Outcome!ContainersCome

\* The rest goes on beside the runner, and the verdict does not show it.
LEMMA ElsewhereVerdict ==
  ASSUME UpEnds \/ Apply \/ Restore \/ Capture \/ Arm \/ Disarm \/ UNCHANGED vars
  PROVE  VerdictStep
<1>1. UNCHANGED <<pc, status, signalled, succeeded, failureStarted, stack>>
  BY DEF UpEnds, Apply, Restore, Capture, Arm, Disarm, vars, script
<1>2. UNCHANGED manifest
  BY DEF UpEnds, Apply, Restore, Capture, Arm, Disarm, vars, pack, Pack!Recorder,
     Pack!RecorderOpens, Pack!RecorderHears, Pack!RecorderDies, Pack!RecorderEnds,
     Pack!Px4Logs, Pack!Register, Pack!Touch
<1>3. Stage' = Stage /\ Sound' = Sound
  BY <1>1 DEF Stage, Sound
<1> QED
  BY <1>1, <1>2, <1>3 DEF VerdictStep

\* The runner implements RunVerdict.
THEOREM RunKeepsVerdict == Spec => KeepsVerdict
<1>1. Init => Outcome!Init
  BY DEF Init, Pack!Init, Pack!NoManifest, Outcome!Init, Stage, Sound, Workflow
<1>2. IInv /\ IInv' /\ [Next]_vars =>
        [Outcome!Next]_<<Stage, Sound, failureStarted, stack = "up", manifest.verdict>>
  <2> SUFFICES ASSUME IInv, IInv', [Next]_vars PROVE VerdictStep
    BY DEF VerdictStep
  <2> QED
    BY WorkflowVerdict, UndoVerdict, StopVerdict, DownVerdict, FinalizeVerdict, CloseVerdict,
       SignalVerdict, UpVerdict, ElsewhereVerdict DEF Next, Runner
<1>3. QED
  BY <1>1, <1>2, InvHolds, PTL DEF Spec, KeepsVerdict, Outcome!Spec
=============================================================================
