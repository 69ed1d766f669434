----------------------------- MODULE EvidencePack -----------------------------
(***************************************************************************)
(* One evidence pack of src/scripts/docker/evidence.py: the directory, the *)
(* recorder that fills it, and the commands start, stop, finalize and      *)
(* validate.  A command may be issued at any time, again, or while the     *)
(* recorder is still writing; a command that fails reports it to its       *)
(* caller and may leave part of its work behind.  Bound: at most one       *)
(* recorder at a time.                                                     *)
(*                                                                         *)
(* Files are abstracted to what the commands test: whether an MCAP file is *)
(* there, complete (only then rosbag2 has written metadata.yaml) and has   *)
(* messages; whether a ULog file is there and begins with its signature.   *)
(***************************************************************************)
EXTENDS Naturals

VARIABLES
  starting,   \* a start command waits to see whether its recorder survives
  recorder,   \* the recorder process
  pidFile,    \* state/recorder.pid exists
  meta,       \* state/recorder.json: none, written by start, or counted by stop
  bag,        \* telemetry/
  heard,      \* the recorder has written a message
  ulog,       \* ulog/: the boot log of PX4
  manifest,   \* manifest.json, or NoManifest
  stale       \* a file of the inventory has changed since

capture == <<starting, recorder, pidFile, meta, bag, heard, ulog>>
vars    == <<capture, manifest, stale>>

NoManifest ==
  [verdict |-> "none", oversize |-> FALSE, mcap |-> FALSE, counted |-> FALSE, ulog |-> FALSE]

Manifests ==
  [verdict : {"passed", "failed"}, oversize : BOOLEAN, mcap : BOOLEAN, counted : BOOLEAN,
   ulog : BOOLEAN]

TypeOK ==
  /\ starting \in BOOLEAN
  /\ recorder \in {"none", "running", "stopping"}
  /\ pidFile \in BOOLEAN
  /\ meta \in {"none", "started", "counted"}
  /\ bag \in {"none", "open", "empty", "full", "torn"}
  /\ heard \in BOOLEAN
  /\ ulog \in {"none", "headless", "open", "complete"}
  /\ manifest \in Manifests \cup {NoManifest}
  /\ stale \in BOOLEAN

Init ==
  /\ starting = FALSE
  /\ recorder = "none"
  /\ pidFile = FALSE
  /\ meta = "none"
  /\ bag = "none"
  /\ heard = FALSE
  /\ ulog = "none"
  /\ manifest = NoManifest
  /\ stale = FALSE

-----------------------------------------------------------------------------
(* The recorder, rosbag2, and the logger of PX4.                            *)

\* A file is created or changes; only a file of its inventory makes a manifest
\* written before stale.
Touch == stale' \in {stale, manifest # NoManifest} /\ UNCHANGED manifest

RecorderOpens ==
  /\ recorder = "running" /\ bag = "none"
  /\ bag' = "open"
  /\ Touch
  /\ UNCHANGED <<starting, recorder, pidFile, meta, heard, ulog>>

RecorderHears ==
  /\ recorder # "none" /\ bag = "open"
  /\ heard' = TRUE
  /\ Touch
  /\ UNCHANGED <<starting, recorder, pidFile, meta, bag, ulog>>

\* The bag after an orderly end of the recorder.
Closed == IF bag # "open" THEN bag ELSE IF heard THEN "full" ELSE "empty"

\* The bag after the recorder is killed.
Torn == IF bag = "open" THEN "torn" ELSE bag

RecorderEnds(end) ==
  /\ recorder' = "none"
  /\ bag' = end
  /\ Touch

\* The recorder crashes, or acts late on the SIGTERM of a stop that gave up.
RecorderDies ==
  /\ \/ recorder = "running" /\ RecorderEnds(Torn)
     \/ recorder = "stopping" /\ \E end \in {Torn, Closed} : RecorderEnds(end)
  /\ UNCHANGED <<starting, pidFile, meta, heard, ulog>>

\* The container ends, and with it the recorder and a start that has not returned,
\* whichever of its two writes it had got to; PX4 may close its log first.
ContainerEnds ==
  /\ starting' = FALSE /\ recorder' = "none"
  /\ bag' = IF recorder = "none" THEN bag ELSE Torn
  /\ \/ UNCHANGED <<pidFile, meta>>
     \/ /\ starting /\ recorder # "none"
        /\ pidFile' = TRUE /\ meta' \in {meta, "started"}
  /\ ulog' \in IF ulog = "open" THEN {"open", "complete"} ELSE {ulog}
  /\ Touch
  /\ UNCHANGED heard

\* The log of PX4 is created, gets its signature, and is closed.
Px4Logs ==
  /\ \/ ulog = "none" /\ ulog' = "headless"
     \/ ulog = "headless" /\ ulog' = "open"
     \/ ulog = "open" /\ ulog' \in {"open", "complete"}
  /\ Touch
  /\ UNCHANGED <<starting, recorder, pidFile, meta, bag, heard>>

-----------------------------------------------------------------------------
(* start: launch the recorder, wait a second, record its PID.               *)

Launch ==
  /\ bag = "none" /\ ~pidFile
  /\ ~starting /\ recorder = "none"     \* the bound
  /\ starting' = TRUE
  /\ recorder' = "running"
  /\ Touch                             \* logs/rosbag-record.log
  /\ UNCHANGED <<pidFile, meta, bag, heard, ulog>>

\* start returns: it fails if the recorder has ended, or at one of its writes.
Register(ok) ==
  /\ starting
  /\ starting' = FALSE
  /\ \/ /\ ok /\ recorder # "none"
        /\ pidFile' = TRUE /\ meta' = "started"
     \/ /\ ~ok /\ recorder # "none"
        /\ pidFile' \in BOOLEAN /\ UNCHANGED meta
     \/ /\ ~ok /\ recorder = "none"
        /\ UNCHANGED <<pidFile, meta>>
  /\ Touch
  /\ UNCHANGED <<recorder, bag, heard, ulog>>

-----------------------------------------------------------------------------
(* stop: SIGINT, wait for the recorder, then check and count its bag.       *)

\* The recorder outlives the timeout and is sent SIGTERM; its PID file stays.
StopTimesOut ==
  /\ pidFile /\ recorder # "none"
  /\ recorder' = "stopping"
  /\ UNCHANGED <<starting, pidFile, meta, bag, heard, ulog, manifest, stale>>

\* Fault: any MCAP file is counted.
CountableIfThere(telemetry) == telemetry # "none"

\* The messages are counted in a bag that has an MCAP file, complete metadata,
\* and messages.
Countable(telemetry) == telemetry = "full"

\* The recorder has ended, now or before; the checks follow.
StopEnds(ok) ==
  /\ pidFile
  /\ pidFile' = FALSE
  /\ recorder' = "none"
  /\ bag' \in IF recorder = "none" THEN {bag} ELSE {Closed, Torn}
  /\ \/ ok /\ meta # "none" /\ Countable(bag') /\ meta' = "counted"
     \/ ~ok /\ UNCHANGED meta           \* ros2 bag info may fail on any bag
  /\ Touch
  /\ UNCHANGED <<starting, heard, ulog>>

Stop(ok) ==
  \/ ~ok /\ ~pidFile
     /\ UNCHANGED <<starting, recorder, pidFile, meta, bag, heard, ulog, manifest, stale>>
  \/ ~ok /\ StopTimesOut
  \/ StopEnds(ok)

-----------------------------------------------------------------------------
(* finalize and validate.                                                   *)

\* Fault: only the presence of the files is checked.
CapturedIfThere == meta # "none" /\ bag # "none" /\ ulog # "none"

\* No capture error: recorder metadata, a countable bag and a signed ULog.
Captured == meta # "none" /\ bag = "full" /\ ulog \in {"open", "complete"}

\* The effective verdict: what the caller says, unless the capture or size is bad.
Judged(verdict, oversize) ==
  IF verdict = "passed" /\ Captured /\ ~oversize THEN "passed" ELSE "failed"

\* finalize writes the manifest last, and fails if it says something else than
\* it was told; it may also fail before it writes one.
Finalize(verdict, oversize, ok) ==
  /\ \/ /\ manifest' = [verdict  |-> Judged(verdict, oversize), oversize |-> oversize,
                        mcap |-> bag # "none", counted |-> meta = "counted",
                        ulog |-> ulog # "none"]
        /\ stale' = FALSE
        /\ ok <=> manifest'.verdict = verdict
     \/ /\ ~ok
        /\ Touch                       \* result.json may have been rewritten
  /\ UNCHANGED <<starting, recorder, pidFile, meta, bag, heard, ulog>>

\* What validate accepts: unchanged files, a size within the limit, and, if a
\* bag is listed, one that was counted and is complete.
Valid ==
  /\ manifest # NoManifest
  /\ ~stale
  /\ ~manifest.oversize
  /\ manifest.mcap => manifest.counted /\ bag = "full"
  /\ manifest.ulog => ulog # "headless"

-----------------------------------------------------------------------------
Recorder == RecorderOpens \/ RecorderHears \/ RecorderDies

Command ==
  \/ Launch
  \/ \E ok \in BOOLEAN : Register(ok)
  \/ \E ok \in BOOLEAN : Stop(ok)
  \/ \E verdict \in {"passed", "failed"}, oversize, ok \in BOOLEAN :
       Finalize(verdict, oversize, ok)

Next == Recorder \/ Px4Logs \/ ContainerEnds \/ Command

Spec == Init /\ [][Next]_vars

-----------------------------------------------------------------------------
(* Properties.                                                              *)

\* A message count stands for a complete bag: stop counts after the recorder is
\* gone, and a bag that was killed, empty or still open never gets a count, not
\* even from a stop repeated after one that timed out.
CountedIsComplete == meta = "counted" => bag = "full"

\* A manifest that says "passed" describes a complete capture, whatever the
\* caller said and whenever it called: a full bag, recorder metadata, a ULog with
\* its signature, within the size limit.
PassedIsComplete ==
  manifest.verdict = "passed" =>
    /\ bag = "full" /\ meta # "none" /\ ulog \in {"open", "complete"}
    /\ ~manifest.oversize
=============================================================================
