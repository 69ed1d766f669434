------------------------ MODULE ProjectScenarioProofs ------------------------
(***************************************************************************)
(* Proofs about ProjectScenario, for every set of contents, every timeout  *)
(* and any number of edits and clock steps.  The inductive invariant says  *)
(* where each of the runner's answers came from, what the two clocks of a  *)
(* phase still allow, and what the lists of a health round have covered.   *)
(***************************************************************************)
EXTENDS ProjectScenario, FiniteSetTheorems, TLAPS

-----------------------------------------------------------------------------
(* What the questions may answer.                                           *)

\* An accepted project answers within the contract.
LEMMA ValidAnswers ==
  ASSUME NEW f, Valid(f)
  PROVE  /\ f.scenario.timeout \in 1..MaxTimeout
         /\ f.scenario.version \in {1, 2}
         /\ Lines(f.scenario.actions) \in {<<"blank">>, <<"battery">>}
         /\ Lines(Restorations(f.scenario)) \in {<<"blank">>, <<"battery">>}
         /\ f.scenario.version = 2 => Lines(Restorations(f.scenario)) = <<"battery">>
<1>1. /\ f.scenario.timeout \in 1..MaxTimeout
      /\ f.scenario.version \in {1, 2}
      /\ f.scenario.actions \in {<<>>, <<"battery">>}
      /\ f.scenario.version = 2 => f.scenario.cleanup = <<"battery", "stop-stack">>
  BY DEF Valid, ScenarioValid, ActionsValid, CleanupValid
<1>2. <<"battery">> # <<>>
  OBVIOUS
<1>3. Lines(f.scenario.actions) \in {<<"blank">>, <<"battery">>}
  BY <1>1 DEF Lines
<1>4. Restorations(f.scenario) \in {<<>>, <<"battery">>}
  BY DEF Restorations
<1>5. Lines(Restorations(f.scenario)) \in {<<"blank">>, <<"battery">>}
  BY <1>4 DEF Lines
<1>6. ASSUME f.scenario.version = 2
      PROVE  Lines(Restorations(f.scenario)) = <<"battery">>
  <2>1. f.scenario.cleanup = <<"battery", "stop-stack">>
    BY <1>1, <1>6
  <2>2. 1 \in DOMAIN <<"battery", "stop-stack">> /\ <<"battery", "stop-stack">>[1] = "battery"
    OBVIOUS
  <2>3. "battery" \in Elements(f.scenario.cleanup)
    BY <2>1, <2>2 DEF Elements
  <2> QED
    BY <1>2, <2>3 DEF Restorations, Lines
<1> QED
  BY <1>1, <1>3, <1>5, <1>6

\* The signals of a contract are among all signals.
LEMMA SignalsTyped ==
  ASSUME NEW p \in Projects
  PROVE  /\ Health(p) \subseteq AllSignals
         /\ \A i \in 1..3 : Of(p, Categories[i]) \subseteq Health(p)
<1>1. Health(p) \subseteq AllSignals
  BY DEF AllSignals
<1>2. \A c : Of(p, c) \subseteq Health(p)
  BY DEF Of, Health
<1> QED
  BY <1>1, <1>2

LEMMA LessTyped ==
  ASSUME NEW n \in Nat
  PROVE  Less(n) \in Nat /\ Less(n) <= n /\ (Less(n) > 0 => Less(n) = n - 1)
BY DEF Less

-----------------------------------------------------------------------------
(* Types.                                                                   *)

LEMMA InitTyped == Init => TypeOK
<1> SUFFICES ASSUME Init PROVE TypeOK
  OBVIOUS
<1>1. NotAsked \in Answers
  BY DEF Answers
<1>2. /\ 0 \in 0..MaxTimeout /\ 0 \in 0..2 * MaxTimeout /\ 0 \in 0..MaxTimeout + 1
      /\ 0 \in 0..MaxEdits /\ 0 \in 0..MaxSteps /\ 1 \in 1..4 /\ 1 \in Nat
  BY ProjectAssumption
<1> QED
  BY <1>1, <1>2 DEF Init, TypeOK, Questions, InProcess

LEMMA QuestionsTyped ==
  ASSUME TypeOK,
         \/ AskValidate \/ AskGate \/ AskTimeout \/ AskActions
         \/ AskRestorations \/ AskProject \/ StackUp
  PROVE  TypeOK'
<1> USE ProjectAssumption DEF Ask, answers, clocks, health, Questions, InProcess
<1>1. CASE AskValidate
  BY <1>1 DEF TypeOK, AskValidate
<1>2. CASE AskGate
  <2>1. gate' \in {"inert", "required"} /\ pc' \in {"get", "timeout", "end"}
        /\ verdict' \in {verdict, "failed"}
    BY <1>2 DEF AskGate
  <2> QED
    BY <1>2, <2>1 DEF TypeOK, AskGate
<1>3. CASE AskTimeout
  <2>1. timeout' \in 0..MaxTimeout
    BY <1>3, ValidAnswers DEF AskTimeout, Accepted
  <2> QED
    BY <1>3, <2>1 DEF TypeOK, AskTimeout
<1>4. CASE AskActions
  <2>1. actions' \in Answers
    BY <1>4, ValidAnswers DEF Answers, AskActions, Accepted
  <2> QED
    BY <1>4, <2>1 DEF TypeOK, AskActions
<1>5. CASE AskRestorations
  <2>1. restorations' \in Answers
    BY <1>5, ValidAnswers DEF Answers, AskRestorations, Accepted
  <2> QED
    BY <1>5, <2>1 DEF TypeOK, AskRestorations
<1>6. CASE AskProject
  BY <1>6 DEF TypeOK, AskProject
<1>7. CASE StackUp
  BY <1>7 DEF TypeOK, StackUp
<1> QED
  BY <1>1, <1>2, <1>3, <1>4, <1>5, <1>6, <1>7

\* A failure, whether a question, a command or the health assertion meets it.
LEMMA FailTyped ==
  ASSUME TypeOK, Fail
  PROVE  verdict' = "failed" /\ pc' \in {"restore", "end"}
BY DEF Fail

LEMMA RejectTyped ==
  ASSUME TypeOK, Reject \/ CommandFails \/ CommandTimesOut \/ HealthTimesOut
  PROVE  TypeOK'
<1>1. /\ Fail
      /\ UNCHANGED <<files, edits, allowed, answers, started, contract, clocks, next,
                     health, up, battery, sources>>
  BY DEF Reject, CommandFails, CommandTimesOut, HealthTimesOut
<1> QED
  BY <1>1, FailTyped DEF TypeOK, answers, clocks, health, InProcess, Questions

LEMMA StartPhaseTyped ==
  ASSUME TypeOK, NEW phase, NEW work \in InProcess, StartPhase(phase, work)
  PROVE  TypeOK'
<1>1. left' \in 0..2 * MaxTimeout
  BY ProjectAssumption DEF StartPhase, TypeOK, Remaining
<1>2. verdict' \in {verdict, "failed"} /\ pc' \in InProcess \cup {"restore", "end"}
  BY DEF StartPhase, Fail
<1> QED
  BY <1>1, <1>2 DEF StartPhase, TypeOK, answers, health, InProcess, Questions

LEMMA StartRunTyped ==
  ASSUME TypeOK, StartRun PROVE TypeOK'
<1>1. files.scenario.timeout \in 1..MaxTimeout
  BY ValidAnswers DEF StartRun, Accepted
<1>2. left' \in 0..2 * MaxTimeout /\ elapsed' \in 0..MaxTimeout + 1
  BY <1>1, ProjectAssumption DEF StartRun, TypeOK
<1>3. verdict' \in {verdict, "failed"} /\ pc' \in InProcess \cup {"restore", "end"}
  BY DEF StartRun, Fail, InProcess
<1> QED
  BY <1>2, <1>3 DEF StartRun, TypeOK, answers, health, InProcess, Questions

LEMMA PhasesTyped ==
  ASSUME TypeOK, FixDeadline \/ SetupPasses \/ Apply \/ Restore PROVE TypeOK'
<1> USE DEF answers, clocks, health, InProcess, Questions
<1>1. CASE FixDeadline
  <2>1. timeout \in 0..2 * MaxTimeout /\ 0 \in 0..MaxTimeout + 1
    BY ProjectAssumption DEF TypeOK
  <2> QED
    BY <1>1, <2>1 DEF TypeOK, FixDeadline
<1>2. CASE SetupPasses
  BY <1>2 DEF TypeOK, SetupPasses
<1>3. CASE Apply
  <2>1. /\ pc' \in {"phase2", "restore"} /\ verdict' \in {verdict, "failed"}
        /\ battery' \in {"ok", "off"}
    BY <1>3 DEF TypeOK, Apply
  <2> QED
    BY <1>3, <2>1 DEF TypeOK, Apply
<1>4. CASE Restore
  BY <1>4 DEF TypeOK, Restore
<1> QED
  BY <1>1, <1>2, <1>3, <1>4

\* What an assertion that holds does to the verdict and to the round.
LEMMA AdvanceTyped ==
  ASSUME TypeOK, Advance, UNCHANGED up
  PROVE  /\ pc' \in {pc, "restore", "end"} /\ verdict' \in {verdict, "passed"}
         /\ next' \in Nat /\ listing' \in 1..4
         /\ missing' \subseteq AllSignals /\ seen' \subseteq AllSignals
BY DEF TypeOK, Advance, NewRound

LEMMA TimeTyped ==
  ASSUME TypeOK, TimePasses
  PROVE  /\ left' \in 0..2 * MaxTimeout /\ wallLeft' \in 0..2 * MaxTimeout
         /\ elapsed' \in 0..MaxTimeout + 1 /\ steps' \in 0..MaxSteps
BY ProjectAssumption DEF TypeOK, TimePasses, Less

LEMMA AssertionsTyped ==
  ASSUME TypeOK, MessageArrives \/ TakeList \/ SleepAndRetry PROVE TypeOK'
<1> USE DEF answers, InProcess, Questions
<1>1. CASE MessageArrives
  BY <1>1, AdvanceTyped DEF TypeOK, MessageArrives
<1>2. CASE TakeList
  <2> DEFINE all == Collected(missing, Categories[listing])
  <2>1. CASE Advance
    BY <1>2, <2>1, AdvanceTyped DEF TypeOK, TakeList
  <2>2. CASE /\ missing' = all /\ listing' = listing + 1
             /\ UNCHANGED <<pc, verdict, next, seen>>
    <3>1. listing \in 1..3 /\ contract \in Projects
      BY <1>2 DEF TakeList, TypeOK, Waiting, Categories
    <3>2. all \subseteq AllSignals
      BY <3>1, SignalsTyped DEF Collected, TypeOK
    <3> QED
      BY <1>2, <2>2, <3>1, <3>2 DEF TypeOK, TakeList
  <2> QED
    BY <1>2, <2>1, <2>2 DEF TakeList
<1>3. CASE SleepAndRetry
  BY <1>3, TimeTyped DEF TypeOK, SleepAndRetry, NewRound
<1> QED
  BY <1>1, <1>2, <1>3

LEMMA EnvironmentTyped ==
  ASSUME TypeOK, Edit \/ Tick \/ WallClockSteps \/ SignalChanges PROVE TypeOK'
<1> USE DEF answers, InProcess, Questions
<1>1. CASE Edit
  BY <1>1, ProjectAssumption DEF TypeOK, Edit, clocks, health
<1>2. CASE Tick
  BY <1>2, TimeTyped DEF TypeOK, Tick, health
<1>3. CASE WallClockSteps
  BY <1>3, ProjectAssumption DEF TypeOK, WallClockSteps, health
<1>4. CASE SignalChanges
  <2>1. contract \in Projects
    BY <1>4 DEF SignalChanges, TypeOK
  <2>2. up' \subseteq AllSignals
    BY <1>4, <2>1, SignalsTyped DEF SignalChanges, TypeOK
  <2> QED
    BY <1>4, <2>2 DEF TypeOK, SignalChanges, clocks
<1> QED
  BY <1>1, <1>2, <1>3, <1>4

LEMMA TypeStep == TypeOK /\ [Next]_vars => TypeOK'
<1> SUFFICES ASSUME TypeOK, [Next]_vars PROVE TypeOK'
  OBVIOUS
<1>1. CASE Next
  <2>1. CASE StartSetup \/ StartAssertions
    BY <2>1, StartPhaseTyped DEF StartSetup, StartAssertions, InProcess
  <2> QED
    BY <1>1, <2>1, QuestionsTyped, RejectTyped, StartRunTyped, PhasesTyped,
       AssertionsTyped, EnvironmentTyped DEF Next
<1>2. CASE UNCHANGED vars
  BY <1>2 DEF vars, answers, clocks, health, TypeOK
<1> QED
  BY <1>1, <1>2

\* Every variable keeps its type: the clocks stay within twice the longest timeout,
\* and a running process has read a contract.
THEOREM TypeCorrect == Spec => []TypeOK
BY InitTyped, TypeStep, PTL DEF Spec

-----------------------------------------------------------------------------
(* Where the runner is, and what it holds by then.                          *)

Gated == {"timeout", "actions", "restorations", "deadline", "phase1", "apply", "phase2"}

\* The way through the runner: an inert scenario goes through "run" only.
Path ==
  /\ pc \in Gated => gate = "required"
  /\ pc = "run" => gate = "inert"
  /\ pc \in {"validate", "gate"} => gate = "none" /\ ~started
  /\ gate = "none" => pc \in {"validate", "gate", "end"}
  /\ verdict = "passed" => pc \in {"restore", "end"} /\ gate # "none"
  /\ gate = "required" /\ pc \in {"get", "up", "deadline", "phase1", "setup", "apply", "phase2", "assert"}
       => restorations # NotAsked
  /\ started => gate = "required" /\ restorations # NotAsked
  /\ gate = "inert" /\ (pc \in InProcess \/ verdict = "passed") =>
       Valid(contract) /\ contract.scenario.version = 1

\* The contents that the answers came from.
Origin ==
  /\ IsFiniteSet(sources)
  /\ gate = "required" => \E f \in sources : Valid(f) /\ f.scenario.version = 2
  /\ restorations # NotAsked =>
       \E f \in sources : Valid(f) /\ restorations = Lines(Restorations(f.scenario))

LEMMA PathInit == Init => Path /\ Origin
<1> SUFFICES ASSUME Init PROVE Path /\ Origin
  OBVIOUS
<1>1. IsFiniteSet({})
  BY FS_EmptySet
<1> QED
  BY <1>1 DEF Init, Path, Origin, Gated, InProcess

\* A failure leaves the way, and a restoration ends it.
LEMMA FailPath ==
  ASSUME TypeOK, Path, Fail, UNCHANGED <<gate, restorations, started, contract>>
  PROVE  Path'
<1>1. verdict' = "failed" /\ pc' \in {"restore", "end"} /\ (~started => pc' = "end")
  BY DEF Fail
<1> QED
  BY <1>1 DEF Path, Gated, InProcess, TypeOK

LEMMA QuestionsPath ==
  ASSUME TypeOK, Path,
         \/ AskValidate \/ AskGate \/ AskTimeout \/ AskActions
         \/ AskRestorations \/ AskProject \/ StackUp
  PROVE  Path'
<1> USE DEF Ask, answers, Path, Gated, InProcess, TypeOK
<1>1. CASE AskValidate
  BY <1>1 DEF AskValidate
<1>2. CASE AskGate
  <2>1. CASE gate' = "inert"
    BY <1>2, <2>1 DEF AskGate
  <2>2. CASE gate' = "required"
    BY <1>2, <2>2 DEF AskGate
  <2> QED
    BY <1>2, <2>1, <2>2 DEF AskGate
<1>3. CASE AskTimeout
  BY <1>3 DEF AskTimeout
<1>4. CASE AskActions
  BY <1>4 DEF AskActions
<1>5. CASE AskRestorations
  <2>1. restorations' \in {<<"blank">>, <<"battery">>}
    BY <1>5, ValidAnswers DEF AskRestorations, Accepted
  <2>2. <<"blank">> # NotAsked /\ <<"battery">> # NotAsked
    BY DEF NotAsked
  <2> QED
    BY <1>5, <2>1, <2>2 DEF AskRestorations
<1>6. CASE AskProject
  BY <1>6 DEF AskProject
<1>7. CASE StackUp
  BY <1>7 DEF StackUp
<1> QED
  BY <1>1, <1>2, <1>3, <1>4, <1>5, <1>6, <1>7

LEMMA PhasesPath ==
  ASSUME TypeOK, Path,
         FixDeadline \/ StartSetup \/ StartAssertions \/ StartRun \/ SetupPasses \/ Apply \/ Restore
  PROVE  Path'
<1>1. CASE FixDeadline
  BY <1>1 DEF FixDeadline, answers, Path, Gated, InProcess, TypeOK
<1>2. CASE StartSetup \/ StartAssertions
  <2>1. gate = "required" /\ UNCHANGED <<gate, restorations, started>>
    BY <1>2 DEF StartSetup, StartAssertions, StartPhase, answers, Path, Gated
  <2>2. \/ pc' \in InProcess /\ verdict' = verdict
        \/ Fail
    BY <1>2 DEF StartSetup, StartAssertions, StartPhase, InProcess
  <2>3. pc \in {"phase1", "phase2"}
    BY <1>2 DEF StartSetup, StartAssertions, StartPhase
  <2> QED
    BY <2>1, <2>2, <2>3 DEF Path, Gated, InProcess, TypeOK, Fail
<1>3. CASE StartRun
  <2>1. gate = "inert" /\ UNCHANGED <<gate, restorations, started>> /\ Valid(files)
        /\ contract' = files /\ verdict # "passed"
    BY <1>3 DEF StartRun, answers, Path, Accepted
  <2>2. CASE files.scenario.version = 1
    BY <1>3, <2>1, <2>2 DEF StartRun, Path, Gated, InProcess
  <2>3. CASE files.scenario.version # 1
    BY <1>3, <2>1, <2>3 DEF StartRun, Fail, Path, Gated, InProcess
  <2> QED
    BY <2>2, <2>3
<1>4. CASE SetupPasses
  BY <1>4 DEF SetupPasses, answers, Path, Gated, InProcess, TypeOK
<1>5. CASE Apply
  BY <1>5 DEF Apply, answers, Path, Gated, InProcess, TypeOK
<1>6. CASE Restore
  BY <1>6 DEF Restore, answers, Path, Gated, InProcess, TypeOK
<1> QED
  BY <1>1, <1>2, <1>3, <1>4, <1>5, <1>6

LEMMA AdvancePath ==
  ASSUME TypeOK, Path, pc = "assert", Advance,
         UNCHANGED <<gate, restorations, started, contract>>
  PROVE  Path'
<1>1. /\ pc' \in {"assert", "restore", "end"}
      /\ pc' = "assert" => verdict' = verdict
      /\ pc' # "assert" => verdict' = "passed"
  BY DEF Advance
<1> QED
  BY <1>1 DEF Path, Gated, InProcess, TypeOK

LEMMA OthersPath ==
  ASSUME TypeOK, Path,
         \/ MessageArrives \/ TakeList \/ SleepAndRetry \/ Edit \/ Tick
         \/ WallClockSteps \/ SignalChanges \/ UNCHANGED vars
  PROVE  Path'
<1>1. \/ UNCHANGED <<pc, verdict, gate, restorations, started, contract>>
      \/ pc = "assert" /\ Advance /\ UNCHANGED <<gate, restorations, started, contract>>
  BY DEF MessageArrives, TakeList, SleepAndRetry, Edit, Tick, WallClockSteps,
     SignalChanges, vars, answers
<1>2. CASE UNCHANGED <<pc, verdict, gate, restorations, started, contract>>
  BY <1>2 DEF Path
<1> QED
  BY <1>1, <1>2, AdvancePath

LEMMA PathStep == TypeOK /\ Path /\ [Next]_vars => Path'
<1> SUFFICES ASSUME TypeOK, Path, [Next]_vars PROVE Path'
  OBVIOUS
<1>1. CASE Reject \/ CommandFails \/ CommandTimesOut \/ HealthTimesOut
  BY <1>1, FailPath DEF Reject, CommandFails, CommandTimesOut, HealthTimesOut, answers
<1> QED
  BY <1>1, QuestionsPath, PhasesPath, OthersPath DEF Next

\* Only the questions add a content, and each adds the one it read.
LEMMA OriginStep == TypeOK /\ Path /\ Origin /\ [Next]_vars => Origin'
<1> SUFFICES ASSUME TypeOK, Path, Origin, [Next]_vars PROVE Origin'
  OBVIOUS
<1>1. CASE UNCHANGED <<gate, restorations, sources>>
  BY <1>1 DEF Origin
<1>2. CASE AskGate
  <2>1. /\ sources' = sources \cup {files} /\ Valid(files) /\ UNCHANGED restorations
        /\ gate' = "required" => files.scenario.version = 2
    BY <1>2 DEF AskGate, Ask, Accepted
  <2> QED
    BY <2>1, FS_AddElement DEF Origin
<1>3. CASE AskActions
  <2>1. sources' = sources \cup {files} /\ UNCHANGED <<gate, restorations>>
    BY <1>3 DEF AskActions, Ask
  <2> QED
    BY <2>1, FS_AddElement DEF Origin
<1>4. CASE AskRestorations
  <2>1. /\ sources' = sources \cup {files} /\ Valid(files) /\ UNCHANGED gate
        /\ restorations' = Lines(Restorations(files.scenario))
    BY <1>4 DEF AskRestorations, Ask, Accepted
  <2> QED
    BY <2>1, FS_AddElement DEF Origin
<1>5. CASE AskValidate \/ AskTimeout \/ AskProject \/ StackUp
  BY <1>1, <1>5 DEF AskValidate, AskTimeout, AskProject, StackUp, Ask, answers
<1>6. CASE \/ Reject \/ FixDeadline \/ StartSetup \/ StartAssertions \/ StartRun
           \/ CommandFails \/ CommandTimesOut \/ SetupPasses \/ Apply \/ HealthTimesOut
           \/ Restore
  BY <1>1, <1>6 DEF Reject, FixDeadline, StartSetup, StartAssertions, StartPhase, StartRun,
     CommandFails, CommandTimesOut, SetupPasses, Apply, HealthTimesOut, Restore, answers
<1>7. CASE \/ MessageArrives \/ TakeList \/ SleepAndRetry \/ Edit \/ Tick
           \/ WallClockSteps \/ SignalChanges \/ UNCHANGED vars
  BY <1>1, <1>7 DEF MessageArrives, TakeList, SleepAndRetry, Edit, Tick, WallClockSteps,
     SignalChanges, vars, answers
<1> QED
  BY <1>2, <1>3, <1>4, <1>5, <1>6, <1>7 DEF Next

\* Nothing is injected without the flag, and nothing injected survives a run that passes.
Undone ==
  /\ ~started => battery = "ok"
  /\ started => allowed
  /\ gate = "required" /\ pc # "end" => allowed
  /\ pc = "end" /\ verdict = "passed" => battery = "ok"

LEMMA UndoneStep == TypeOK /\ Path /\ Undone /\ [Next]_vars => Undone'
<1> SUFFICES ASSUME TypeOK, Path, Undone, [Next]_vars PROVE Undone'
  OBVIOUS
<1>1. CASE Reject \/ CommandFails \/ CommandTimesOut \/ HealthTimesOut
  <2>1. UNCHANGED <<started, battery, allowed, gate>> /\ verdict' = "failed" /\ pc # "end"
    BY <1>1 DEF Reject, CommandFails, CommandTimesOut, HealthTimesOut, Fail, answers, Reads,
       Questions, Command, Waiting, InProcess
  <2> QED
    BY <2>1 DEF Undone
<1>2. CASE \/ AskValidate \/ AskGate \/ AskTimeout \/ AskActions
           \/ AskRestorations \/ AskProject \/ StackUp
  <2>1. /\ UNCHANGED <<started, battery, allowed>> /\ pc # "end"
        /\ (verdict' # "passed" \/ verdict' = verdict)
    BY <1>2 DEF AskValidate, AskGate, AskTimeout, AskActions, AskRestorations, AskProject,
       StackUp, Ask
  <2>2. gate' = "required" /\ pc' # "end" => allowed
    <3>1. CASE AskGate
      BY <3>1 DEF AskGate
    <3>2. CASE ~AskGate
      BY <1>2, <2>1, <3>2 DEF AskValidate, AskTimeout, AskActions, AskRestorations, AskProject,
         StackUp, answers, Undone
    <3> QED
      BY <3>1, <3>2
  <2>3. verdict' # "passed"
    BY <1>2, <2>1 DEF AskValidate, AskGate, AskTimeout, AskActions, AskRestorations,
       AskProject, StackUp, Ask, Path
  <2> QED
    BY <2>1, <2>2, <2>3 DEF Undone
<1>3. CASE FixDeadline \/ StartSetup \/ StartAssertions \/ StartRun \/ SetupPasses
  <2>1. UNCHANGED <<started, battery, allowed, gate>> /\ verdict' # "passed" /\ pc # "end"
    BY <1>3 DEF FixDeadline, StartSetup, StartAssertions, StartPhase, StartRun, SetupPasses,
       Fail, answers, Path, InProcess
  <2> QED
    BY <2>1 DEF Undone
<1>4. CASE Apply
  <2>1. /\ gate = "required" /\ pc # "end" /\ UNCHANGED <<gate, allowed>> /\ started'
        /\ pc' # "end"
    BY <1>4 DEF Apply, answers, Path, Gated
  <2> QED
    BY <2>1 DEF Undone
<1>5. CASE Restore
  <2>1. /\ UNCHANGED <<started, allowed, gate>> /\ pc' = "end"
        /\ \/ battery' = "ok"
           \/ battery' = battery /\ verdict' = "failed"
    BY <1>5 DEF Restore, answers
  <2> QED
    BY <2>1 DEF Undone
<1>6. CASE \/ MessageArrives \/ TakeList \/ SleepAndRetry \/ Edit \/ Tick
           \/ WallClockSteps \/ SignalChanges \/ UNCHANGED vars
  <2>1. /\ UNCHANGED <<started, battery, allowed, gate>>
        /\ \/ UNCHANGED <<pc, verdict>>
           \/ pc = "assert" /\ Advance
    BY <1>6 DEF MessageArrives, TakeList, SleepAndRetry, Edit, Tick, WallClockSteps,
       SignalChanges, vars, answers
  <2>2. pc = "assert" /\ Advance => UNCHANGED <<pc, verdict>> \/ (pc' = "end" => ~started)
    BY DEF Advance
  <2> QED
    BY <2>1, <2>2 DEF Undone
<1> QED
  BY <1>1, <1>2, <1>3, <1>4, <1>5, <1>6 DEF Next

\* An injection needs the flag, an inert run carries out an inert contract, a run whose
\* answers came from one content knows what to restore before it injects, and no run
\* passes with its failure still there.
THEOREM InjectedAlwaysRestorable == Spec => []InjectedIsRestorable
<1>1. Path /\ Origin /\ Undone /\ TypeOK => InjectedIsRestorable
  <2> SUFFICES ASSUME Path, Origin, Undone, TypeOK PROVE InjectedIsRestorable
    OBVIOUS
  <2>1. started \/ battery = "off" => allowed
    BY DEF Undone
  <2>2. gate = "inert" /\ verdict = "passed" => contract.scenario.version = 1
    BY DEF Path
  <2>3. ASSUME started, Cardinality(sources) = 1 PROVE "battery" \in Elements(restorations)
    <3>1. PICK f \in sources : Valid(f) /\ f.scenario.version = 2
      BY <2>3 DEF Path, Origin
    <3>2. PICK g \in sources : Valid(g) /\ restorations = Lines(Restorations(g.scenario))
      BY <2>3 DEF Path, Origin
    <3>3. f = g
      BY <2>3, FS_Singleton DEF Origin
    <3>4. restorations = <<"battery">>
      BY <3>1, <3>2, <3>3, ValidAnswers
    <3>5. 1 \in DOMAIN <<"battery">> /\ <<"battery">>[1] = "battery"
      OBVIOUS
    <3> QED
      BY <3>4, <3>5 DEF Elements
  <2> QED
    BY <2>1, <2>2, <2>3 DEF InjectedIsRestorable, Undone
<1>2. Init => Undone
  BY DEF Init, Undone
<1> QED
  BY <1>1, <1>2, PathInit, PathStep, OriginStep, UndoneStep, InitTyped, TypeStep, PTL DEF Spec

-----------------------------------------------------------------------------
(* What the two clocks still allow.                                         *)

Limit == IF gate = "required" THEN timeout ELSE contract.scenario.timeout

\* As long as the wall clock is not set, no time is gained where a deadline is handed on.
Timing ==
  steps = 0 =>
    /\ /\ gate = "required" /\ wallLeft > 0
       /\ pc \in {"phase1", "setup", "apply", "phase2", "assert"}
       => wallLeft + elapsed <= timeout
    /\ pc \in InProcess /\ left > 0 => left + elapsed <= Limit
    /\ verdict = "passed" => elapsed <= Limit

\* The invariant that the steps of time rest on.
Walked == TypeOK /\ Path /\ Timing

LEMMA TimingInit == Init => Timing
BY DEF Init, Timing, InProcess

\* The limit of a running phase is a number of seconds.
LEMMA LimitTyped ==
  ASSUME TypeOK, Path, pc \in InProcess \/ verdict = "passed"
  PROVE  Limit \in Nat
<1>1. gate = "required" => Limit \in Nat
  BY ProjectAssumption DEF Limit, TypeOK
<1>2. gate # "none"
  BY DEF Path, InProcess, TypeOK
<1>3. gate = "inert" => Limit \in Nat
  BY ValidAnswers, ProjectAssumption DEF Limit, Path
<1> QED
  BY <1>1, <1>2, <1>3 DEF TypeOK

LEMMA Handed ==
  ASSUME NEW a \in Nat, NEW b \in Nat, NEW c \in Nat, NEW e \in Nat,
         a + b <= c, e <= b + 1
  PROVE  (a - 1) + e <= c
OBVIOUS

\* A second of time is a second of the scenario and of what remains.
LEMMA TimePassesTiming ==
  ASSUME Walked, TimePasses, pc \in Timed,
         UNCHANGED <<pc, verdict, gate, timeout, contract>>
  PROVE  Timing'
<1> USE DEF Walked
<1>1. /\ wallLeft \in Nat /\ left \in Nat /\ elapsed \in Nat /\ timeout \in Nat
      /\ elapsed' \in Nat /\ elapsed' <= elapsed + 1 /\ steps' = steps
      /\ wallLeft' \in Nat /\ (wallLeft' > 0 => wallLeft > 0 /\ wallLeft' = wallLeft - 1)
      /\ left' \in Nat /\ (left' > 0 => left > 0 /\ left' = left - 1)
  BY ProjectAssumption DEF TypeOK, TimePasses, Less
<1>2. Limit' = Limit /\ verdict # "passed"
  BY DEF Limit, Path, Timed, InProcess
<1>3. ASSUME steps' = 0, gate' = "required", wallLeft' > 0,
             pc' \in {"phase1", "setup", "apply", "phase2", "assert"}
      PROVE  wallLeft' + elapsed' <= timeout'
  <2>1. wallLeft + elapsed <= timeout
    BY <1>1, <1>3 DEF Timing
  <2>2. timeout' = timeout /\ wallLeft' = wallLeft - 1
    BY <1>1, <1>3
  <2> QED
    BY <1>1, <2>1, <2>2, Handed
<1>4. ASSUME steps' = 0, pc' \in InProcess, left' > 0
      PROVE  left' + elapsed' <= Limit'
  BY <1>1, <1>2, <1>4, LimitTyped DEF Timing
<1> QED
  BY <1>2, <1>3, <1>4 DEF Timing, InProcess

LEMMA PhasesTiming ==
  ASSUME Walked, FixDeadline \/ StartSetup \/ StartAssertions \/ StartRun
  PROVE  Timing'
<1> USE DEF Walked
<1>1. wallLeft \in Nat /\ left \in Nat /\ elapsed \in Nat /\ timeout \in Nat
  BY ProjectAssumption DEF TypeOK
<1>2. CASE FixDeadline
  BY <1>1, <1>2 DEF FixDeadline, answers, Timing, Path, InProcess
<1>3. CASE StartSetup \/ StartAssertions
  <2>1. /\ gate = "required" /\ verdict # "passed" /\ pc \in {"phase1", "phase2"}
        /\ UNCHANGED <<gate, timeout, wallLeft, elapsed, steps>>
    BY <1>3 DEF StartSetup, StartAssertions, StartPhase, answers, Path, Gated
  <2>2. \/ wallLeft > 0 /\ left' = wallLeft /\ pc' \in InProcess /\ verdict' = verdict
        \/ left' = 0 /\ pc' \in {"restore", "end"} /\ verdict' = "failed"
    BY <1>3, <1>1 DEF StartSetup, StartAssertions, StartPhase, Remaining, InProcess, Fail
  <2> QED
    BY <1>1, <2>1, <2>2 DEF Timing, Limit, InProcess
<1>4. CASE StartRun
  <2>1. /\ gate = "inert" /\ verdict # "passed" /\ Valid(files)
        /\ contract' = files /\ UNCHANGED <<gate, timeout, wallLeft, steps>>
    BY <1>4 DEF StartRun, answers, Path, Accepted
  <2>2. files.scenario.timeout \in Nat
    BY <2>1, ValidAnswers, ProjectAssumption
  <2>3. \/ left' = files.scenario.timeout /\ elapsed' = 0 /\ verdict' = verdict
        \/ pc' \in {"restore", "end"} /\ verdict' = "failed"
    BY <1>4 DEF StartRun, Fail
  <2> QED
    BY <1>1, <2>1, <2>2, <2>3 DEF Timing, Limit, InProcess
<1> QED
  BY <1>2, <1>3, <1>4

\* An assertion holds only before the deadline of its process.
LEMMA AdvanceTiming ==
  ASSUME Walked, pc = "assert", left > 0, Advance,
         UNCHANGED <<answers, contract, left, wallLeft, elapsed, steps>>
  PROVE  Timing'
<1>1. left \in Nat /\ elapsed \in Nat /\ Limit \in Nat /\ wallLeft \in Nat
  BY LimitTyped, ProjectAssumption DEF Walked, TypeOK, InProcess
<1>2. Limit' = Limit
  BY DEF Limit, answers
<1>3. /\ pc' \in {"assert", "restore", "end"}
      /\ pc' = "assert" => verdict' = verdict
  BY DEF Advance
<1>4. steps = 0 => elapsed <= Limit
  BY <1>1 DEF Walked, Timing, InProcess
<1> QED
  BY <1>1, <1>2, <1>3, <1>4 DEF Walked, Timing, InProcess, answers

\* A step that leaves the clocks alone, and enters no process, keeps what they allow.
LEMMA StillTiming ==
  ASSUME Walked, UNCHANGED <<clocks, gate, timeout, contract>>,
         verdict' \in {verdict, "failed"},
         \/ pc' = pc
         \/ pc = "setup" /\ pc' \in {"apply", "assert"}
         \/ pc = "apply" /\ pc' = "phase2"
         \/ pc' \notin {"phase1", "setup", "apply", "phase2", "assert"}
  PROVE  Timing'
<1>1. Limit' = Limit
  BY DEF Limit
<1> QED
  BY <1>1 DEF Walked, Timing, InProcess, clocks

LEMMA TimingStep == Walked /\ [Next]_vars => Timing'
<1> SUFFICES ASSUME Walked, [Next]_vars PROVE Timing'
  OBVIOUS
<1>1. CASE AskValidate \/ AskGate \/ AskTimeout
  <2>1. pc \in {"validate", "gate", "timeout"} /\ pc' \in {"gate", "get", "timeout", "actions", "end"}
        /\ verdict' \in {verdict, "failed"} /\ UNCHANGED clocks
    BY <1>1 DEF AskValidate, AskGate, AskTimeout, Ask, clocks
  <2>2. verdict # "passed"
    BY <2>1 DEF Walked, Path
  <2> QED
    BY <2>1, <2>2 DEF Timing, InProcess
<1>2. CASE AskActions \/ AskRestorations \/ AskProject \/ StackUp
  BY <1>2, StillTiming DEF AskActions, AskRestorations, AskProject, StackUp, Ask, answers
<1>3. CASE Reject \/ CommandFails \/ CommandTimesOut \/ HealthTimesOut
  BY <1>3, StillTiming DEF Reject, CommandFails, CommandTimesOut, HealthTimesOut, Fail, answers
<1>4. CASE SetupPasses \/ Apply \/ Restore
  BY <1>4, StillTiming DEF SetupPasses, Apply, Restore, answers
<1>5. CASE MessageArrives
  BY <1>5, AdvanceTiming DEF MessageArrives
<1>6. CASE TakeList
  <2>1. CASE Advance
    BY <1>6, <2>1, AdvanceTiming DEF TakeList
  <2>2. CASE UNCHANGED <<pc, verdict>>
    BY <1>6, <2>2, StillTiming DEF TakeList, answers, clocks
  <2> QED
    BY <1>6, <2>1, <2>2 DEF TakeList
<1>7. CASE SleepAndRetry \/ Tick
  <2>1. pc \in Timed
    BY <1>7 DEF SleepAndRetry, Tick, Waiting, Timed, InProcess
  <2> QED
    BY <1>7, <2>1, TimePassesTiming DEF SleepAndRetry, Tick, answers
<1>8. CASE WallClockSteps
  BY <1>8, ProjectAssumption DEF WallClockSteps, Timing, Walked, TypeOK
<1>9. CASE Edit \/ SignalChanges \/ UNCHANGED vars
  BY <1>9, StillTiming DEF Edit, SignalChanges, vars, answers
<1> QED
  BY <1>1, <1>2, <1>3, <1>4, <1>5, <1>6, <1>7, <1>8, <1>9, PhasesTiming DEF Next

\* The two processes of a scenario with an operator action share its one timeout.
THEOREM DeadlineAlwaysShared == Spec => []DeadlineIsShared
<1>1. Walked => DeadlineIsShared
  BY DEF Walked, Timing, Limit, DeadlineIsShared
<1> QED
  BY <1>1, TimingInit, TimingStep, PathInit, PathStep, InitTyped, TypeStep, PTL DEF Spec, Walked

-----------------------------------------------------------------------------
(* What a round of lists has covered.                                       *)

Rounds ==
  /\ up \subseteq seen
  /\ pc \notin {"assert", "restore", "end"} => listing = 1
  /\ \A i \in 1..3 : i < listing => Of(contract, Categories[i]) \subseteq missing \cup seen

LEMMA RoundsInit == Init => Rounds
BY DEF Init, Rounds

LEMMA NewRoundCovers ==
  ASSUME NewRound, UNCHANGED up, pc \in {"assert", "setup"}, pc' \in {"assert", "restore", "end"}
  PROVE  Rounds'
BY DEF NewRound, Rounds

LEMMA TakeListRounds ==
  ASSUME TypeOK, Rounds, TakeList PROVE Rounds'
<1>1. CASE Advance
  BY <1>1, NewRoundCovers DEF TakeList, Advance
<1>2. CASE /\ missing' = Collected(missing, Categories[listing])
           /\ listing' = listing + 1
           /\ UNCHANGED <<pc, verdict, next, seen>>
  <2>1. /\ listing \in 1..3 /\ UNCHANGED <<up, contract>> /\ pc = "assert" /\ pc' = "assert"
        /\ missing \subseteq missing'
        /\ Of(contract, Categories[listing]) \subseteq missing' \cup up
    BY <1>2 DEF TakeList, TypeOK, Waiting, Categories, Collected
  <2>2. ASSUME NEW i \in 1..3, i < listing'
        PROVE  Of(contract, Categories[i]) \subseteq missing' \cup seen'
    <3>1. CASE i < listing
      BY <1>2, <2>1, <3>1 DEF Rounds
    <3>2. CASE i = listing
      BY <1>2, <2>1, <3>2 DEF Rounds
    <3> QED
      BY <1>2, <2>1, <2>2, <3>1, <3>2
  <2> QED
    BY <1>2, <2>1, <2>2 DEF Rounds
<1> QED
  BY <1>1, <1>2 DEF TakeList

LEMMA RoundsStep == TypeOK /\ Rounds /\ [Next]_vars => Rounds'
<1> SUFFICES ASSUME TypeOK, Rounds, [Next]_vars PROVE Rounds'
  OBVIOUS
<1>1. CASE TakeList
  BY <1>1, TakeListRounds
<1>2. CASE MessageArrives \/ SleepAndRetry
  BY <1>2, NewRoundCovers DEF MessageArrives, SleepAndRetry, Advance, Waiting
<1>3. CASE SignalChanges
  BY <1>3 DEF SignalChanges, Rounds
<1>4. CASE StartSetup \/ StartAssertions \/ StartRun
  <2>1. pc \in {"phase1", "phase2", "run"} /\ UNCHANGED <<listing, missing, seen, up>>
    BY <1>4 DEF StartSetup, StartAssertions, StartPhase, StartRun, health
  <2> QED
    BY <2>1 DEF Rounds
<1>5. CASE \/ AskValidate \/ AskGate \/ AskTimeout \/ AskActions \/ AskRestorations
           \/ AskProject \/ StackUp
  <2>1. pc \in Questions \cup {"up"} /\ UNCHANGED <<contract, listing, missing, seen, up>>
    BY <1>5 DEF AskValidate, AskGate, AskTimeout, AskActions, AskRestorations, AskProject,
       StackUp, Ask, health, Questions
  <2> QED
    BY <2>1 DEF Rounds, Questions
<1>6. CASE \/ Reject \/ CommandFails \/ CommandTimesOut \/ HealthTimesOut
  <2>1. pc' \in {"restore", "end"} /\ UNCHANGED <<contract, listing, missing, seen, up>>
    BY <1>6 DEF Reject, CommandFails, CommandTimesOut, HealthTimesOut, Fail, health
  <2> QED
    BY <2>1 DEF Rounds
<1>7. CASE FixDeadline \/ SetupPasses \/ Apply \/ Restore
  <2>1. /\ pc \in {"deadline", "setup", "apply", "restore"}
        /\ pc = "restore" => pc' = "end"
        /\ UNCHANGED <<contract, listing, missing, seen, up>>
    BY <1>7 DEF FixDeadline, SetupPasses, Apply, Restore, health
  <2> QED
    BY <2>1 DEF Rounds
<1>8. CASE Edit \/ Tick \/ WallClockSteps \/ UNCHANGED vars
  BY <1>8 DEF Edit, Tick, WallClockSteps, vars, health, Rounds
<1> QED
  BY <1>1, <1>2, <1>3, <1>4, <1>5, <1>6, <1>7, <1>8 DEF Next

\* The health assertion vouches for every declared signal since its round began.
THEOREM HealthAlwaysRecent == Spec => HealthIsRecent
<1>1. TypeOK /\ Rounds /\ [Next]_vars
        => [pc = "assert" /\ next' # next /\ Assertion = "project-health"
              => Health(contract) \subseteq seen]_vars
  <2> SUFFICES ASSUME TypeOK, Rounds, Next, pc = "assert", next' # next,
                      Assertion = "project-health"
               PROVE  Health(contract) \subseteq seen
    OBVIOUS
  <2>1. TakeList
    BY DEF Next, Reject, Ask, AskValidate, AskGate, AskTimeout, AskActions, AskRestorations,
       AskProject, StackUp, FixDeadline, StartSetup, StartAssertions, StartPhase, StartRun,
       CommandFails, CommandTimesOut, SetupPasses, Apply, MessageArrives, SleepAndRetry,
       HealthTimesOut, Restore, Edit, Tick, WallClockSteps, SignalChanges
  <2>2. listing = 3 /\ Collected(missing, Categories[3]) = {}
    BY <2>1 DEF TakeList, Categories, TypeOK
  <2>3. \A i \in 1..3 : Of(contract, Categories[i]) \subseteq seen
    BY <2>2 DEF Collected, Rounds
  <2>4. /\ Of(contract, Categories[1]) = contract.manifest.nodes
        /\ Of(contract, Categories[2]) = contract.manifest.topics
        /\ Of(contract, Categories[3]) = contract.manifest.services
    BY DEF Of, Categories
  <2> QED
    BY <2>3, <2>4 DEF Health
<1> QED
  BY <1>1, RoundsInit, RoundsStep, InitTyped, TypeStep, PTL DEF Spec, HealthIsRecent
=============================================================================
