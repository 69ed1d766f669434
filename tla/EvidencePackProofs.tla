-------------------------- MODULE EvidencePackProofs --------------------------
(***************************************************************************)
(* Proofs about EvidencePack: its type, and that neither a message count   *)
(* nor the verdict "passed" ever stands for an incomplete capture.         *)
(***************************************************************************)
EXTENDS EvidencePack, TLAPS

\* What finalize writes is a manifest, for either verdict of the caller.
LEMMA FinalizeType ==
  ASSUME NEW verdict \in {"passed", "failed"}, NEW oversize \in BOOLEAN, NEW ok \in BOOLEAN,
         TypeOK, Finalize(verdict, oversize, ok)
  PROVE  manifest' \in Manifests \cup {NoManifest} /\ stale' \in BOOLEAN
<1>1. CASE manifest' = [verdict  |-> Judged(verdict, oversize), oversize |-> oversize,
                        mcap |-> bag # "none", counted |-> meta = "counted",
                        ulog |-> ulog # "none"]
           /\ stale' = FALSE
  <2>1. Judged(verdict, oversize) \in {"passed", "failed"}
    BY DEF Judged
  <2>2. QED
    BY <1>1, <2>1 DEF Manifests
<1>2. CASE Touch
  BY <1>2 DEF Touch, TypeOK
<1>3. QED
  BY <1>1, <1>2 DEF Finalize

\* The type invariant of evidence.py's pack, for every order of its commands.
THEOREM TypeCorrect == Spec => []TypeOK
<1>1. Init => TypeOK
  BY DEF Init, TypeOK
<1>2. TypeOK /\ [Next]_vars => TypeOK'
  <2> SUFFICES ASSUME TypeOK, [Next]_vars PROVE TypeOK'
    OBVIOUS
  <2>1. CASE Recorder
    BY <2>1 DEF Recorder, RecorderOpens, RecorderHears, RecorderDies, RecorderEnds,
                Closed, Torn, Touch, TypeOK
  <2>2. CASE Px4Logs
    BY <2>2 DEF Px4Logs, Touch, TypeOK
  <2>3. CASE Launch
    BY <2>3 DEF Launch, Touch, TypeOK
  <2>4. ASSUME NEW ok \in BOOLEAN, Register(ok) PROVE TypeOK'
    BY <2>4 DEF Register, Touch, TypeOK
  <2>5. ASSUME NEW ok \in BOOLEAN, Stop(ok) PROVE TypeOK'
    BY <2>5 DEF Stop, StopTimesOut, StopEnds, Closed, Torn, Touch, TypeOK
  <2>6. ASSUME NEW verdict \in {"passed", "failed"}, NEW oversize \in BOOLEAN,
               NEW ok \in BOOLEAN, Finalize(verdict, oversize, ok)
        PROVE  TypeOK'
    <3>1. manifest' \in Manifests \cup {NoManifest} /\ stale' \in BOOLEAN
      BY <2>6, FinalizeType
    <3>2. UNCHANGED <<starting, recorder, pidFile, meta, bag, heard, ulog>>
      BY <2>6 DEF Finalize
    <3>3. QED
      BY <3>1, <3>2 DEF TypeOK
  <2>7. CASE ContainerEnds
    BY <2>7 DEF ContainerEnds, Torn, Touch, TypeOK
  <2>8. CASE UNCHANGED vars
    BY <2>8 DEF vars, capture, TypeOK
  <2>9. QED
    BY <2>1, <2>2, <2>3, <2>4, <2>5, <2>6, <2>7, <2>8 DEF Next, Command
<1>3. QED
  BY <1>1, <1>2, PTL DEF Spec

-----------------------------------------------------------------------------
\* No step changes a complete bag, or takes back the metadata and the signature of
\* the ULog a manifest was judged by: what was captured stays captured.
CaptureKept ==
  /\ bag = "full" => bag' = "full"
  /\ meta # "none" => meta' # "none"
  /\ ulog \in {"open", "complete"} => ulog' \in {"open", "complete"}

LEMMA CaptureIsKept == ASSUME TypeOK, [Next]_vars PROVE CaptureKept
<1>1. CASE Recorder
  BY <1>1 DEF Recorder, RecorderOpens, RecorderHears, RecorderDies, RecorderEnds,
              Closed, Torn, Touch, TypeOK, CaptureKept
<1>2. CASE Px4Logs
  BY <1>2 DEF Px4Logs, Touch, TypeOK, CaptureKept
<1>3. CASE Launch
  BY <1>3 DEF Launch, Touch, TypeOK, CaptureKept
<1>4. ASSUME NEW ok \in BOOLEAN, Register(ok) PROVE CaptureKept
  BY <1>4 DEF Register, Touch, TypeOK, CaptureKept
<1>5. ASSUME NEW ok \in BOOLEAN, Stop(ok) PROVE CaptureKept
  BY <1>5 DEF Stop, StopTimesOut, StopEnds, Closed, Torn, Touch, TypeOK, CaptureKept
<1>6. ASSUME NEW verdict \in {"passed", "failed"}, NEW oversize \in BOOLEAN,
             NEW ok \in BOOLEAN, Finalize(verdict, oversize, ok)
      PROVE  CaptureKept
  BY <1>6 DEF Finalize, CaptureKept
<1>7. CASE ContainerEnds
  BY <1>7 DEF ContainerEnds, Torn, Touch, TypeOK, CaptureKept
<1>8. CASE UNCHANGED vars
  BY <1>8 DEF vars, capture, CaptureKept
<1>9. QED
  BY <1>1, <1>2, <1>3, <1>4, <1>5, <1>6, <1>7, <1>8 DEF Next, Command

\* A message count stands for a complete bag: only StopEnds counts, and it looks at
\* the bag first.
THEOREM CountComplete == Spec => []CountedIsComplete
<1>1. Init => CountedIsComplete
  BY DEF Init, CountedIsComplete
<1>2. TypeOK /\ CountedIsComplete /\ [Next]_vars => CountedIsComplete'
  <2> SUFFICES ASSUME TypeOK, CountedIsComplete, [Next]_vars PROVE CountedIsComplete'
    OBVIOUS
  <2>1. CaptureKept
    BY CaptureIsKept
  <2>2. CASE UNCHANGED meta
    BY <2>1, <2>2 DEF CaptureKept, CountedIsComplete
  <2>3. ASSUME NEW ok \in BOOLEAN, Register(ok) PROVE CountedIsComplete'
    BY <2>1, <2>3 DEF Register, CaptureKept, CountedIsComplete
  <2>4. ASSUME NEW ok \in BOOLEAN, StopEnds(ok) PROVE CountedIsComplete'
    BY <2>1, <2>4 DEF StopEnds, Countable, CaptureKept, CountedIsComplete
  <2>5. CASE ContainerEnds
    BY <2>1, <2>5 DEF ContainerEnds, CaptureKept, CountedIsComplete
  <2>6. QED
    BY <2>2, <2>3, <2>4, <2>5 DEF Next, Command, Recorder, RecorderOpens, RecorderHears,
       RecorderDies, Px4Logs, Launch, Stop, StopTimesOut, Finalize, vars, capture
<1>3. QED
  BY <1>1, <1>2, TypeCorrect, PTL DEF Spec

\* A manifest that says "passed" describes a complete capture: finalize judged one,
\* and no later command takes it back.
THEOREM PassedComplete == Spec => []PassedIsComplete
<1>1. Init => PassedIsComplete
  BY DEF Init, NoManifest, PassedIsComplete
<1>2. TypeOK /\ PassedIsComplete /\ [Next]_vars => PassedIsComplete'
  <2> SUFFICES ASSUME TypeOK, PassedIsComplete, [Next]_vars PROVE PassedIsComplete'
    OBVIOUS
  <2>1. CaptureKept
    BY CaptureIsKept
  <2>2. CASE UNCHANGED manifest
    BY <2>1, <2>2 DEF CaptureKept, PassedIsComplete
  <2>3. ASSUME NEW verdict \in {"passed", "failed"}, NEW oversize \in BOOLEAN,
               NEW ok \in BOOLEAN, Finalize(verdict, oversize, ok)
        PROVE  PassedIsComplete'
    <3>1. CASE UNCHANGED manifest
      BY <2>2, <3>1
    <3>2. CASE /\ manifest'.verdict = Judged(verdict, oversize)
               /\ manifest'.oversize = oversize
               /\ UNCHANGED <<bag, meta, ulog>>
      BY <3>2 DEF Judged, Captured, PassedIsComplete
    <3>3. QED
      BY <2>3, <3>1, <3>2 DEF Finalize, Touch
  <2>4. QED
    BY <2>2, <2>3 DEF Next, Command, Recorder, RecorderOpens, RecorderHears, RecorderDies,
       RecorderEnds, Px4Logs, ContainerEnds, Launch, Register, Stop, StopTimesOut, StopEnds,
       Touch,
       vars, capture
<1>3. QED
  BY <1>1, <1>2, TypeCorrect, PTL DEF Spec
=============================================================================
