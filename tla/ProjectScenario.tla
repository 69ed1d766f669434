--------------------------- MODULE ProjectScenario ----------------------------
(***************************************************************************)
(* The project SDK, src/scripts/docker/project-sdk.py (drn-project): the   *)
(* contract of a project, and the phases of a scenario that it runs in the *)
(* ROS container for src/scripts/run-scenario.sh.                          *)
(*                                                                         *)
(* Every question the runner asks, and every phase, is a process of its    *)
(* own that reads the project's files again; an editor may change them in  *)
(* between.  A phase is given the end of the scenario in wall-clock time   *)
(* and measures it with its own monotonic clock.  Times count down to the  *)
(* moment they stand for.  What ScenarioRun shows of the runner (signals,  *)
(* evidence, containers) is left out here.                                 *)
(***************************************************************************)
EXTENDS Naturals, FiniteSets, Sequences

CONSTANTS
  Projects,     \* contents that the project's files may have
  Underlay,     \* ROS packages of the stack
  MaxTimeout,   \* the longest timeout_seconds: 600 in the code
  MaxEdits,     \* bound on the edits
  MaxSteps      \* bound on the steps of the wall clock

ASSUME ProjectAssumption ==
  /\ MaxTimeout \in Nat \ {0}
  /\ MaxEdits \in Nat /\ MaxSteps \in Nat

VARIABLES
  files,        \* the project's files
  edits,        \* how often they were changed
  allowed,      \* --allow-operator-actions was given
  pc,           \* the next command of the runner, or where drn-project is
  verdict,      \* "none", "passed" or "failed"
  gate,         \* operator_gate, as inspect answered
  timeout,      \* scenario_timeout
  actions,      \* operator_actions: lines of `drn-project actions`
  restorations, \* failure_restorations: lines of `drn-project restorations`
  started,      \* failure_actions_started
  contract,     \* the files as the running drn-project process has read them
  wallLeft,     \* from the wall clock to deadline_unix
  left,         \* from the monotonic clock to the deadline of the process
  next,         \* index of the assertion that runs
  listing,      \* the list that the health assertion takes next
  missing,      \* the signals it has missed in this round
  up,           \* the declared signals that exist
  battery,      \* PX4's battery
  steps,        \* how often the wall clock was stepped
  sources,      \* history: the files behind gate, actions and restorations
  elapsed,      \* history: time since the deadline was fixed
  seen          \* history: the signals that existed at some time in this round

answers == <<gate, timeout, actions, restorations>>
clocks  == <<wallLeft, left, elapsed, steps>>
health  == <<listing, missing, seen>>
vars    == <<files, edits, allowed, pc, verdict, answers, started, contract,
             clocks, next, health, up, battery, sources>>

-----------------------------------------------------------------------------
(* The contract.  "shape" stands for what is checked of a file by itself:   *)
(* it exists, has exactly its keys, and every value has its type, pattern   *)
(* and no duplicates.                                                       *)

ManifestValid(p) ==
  /\ p.manifest.shape
  /\ p.manifest.version = 1
  /\ p.manifest.scenarios # {}

\* The overlay adds one image, built from the project, that mounts it read-only.
OverrideValid(p) ==
  /\ p.override.shape
  /\ p.override.image = p.manifest.name
  /\ p.override.build = "project"
  /\ p.override.environment = "manifest"
  /\ p.override.volumes = "read_only"

Elements(seq) == {seq[i] : i \in DOMAIN seq}

PackagesValid(p) ==
  /\ p.packages # <<>>
  /\ Cardinality(Elements(p.packages)) = Len(p.packages)
  /\ Elements(p.packages) \cap Underlay = {}
  /\ p.manifest.package \in Elements(p.packages)

\* Schema 1 is inert; schema 2 has one operator action.
ActionsValid(s) == s.actions = IF s.version = 1 THEN <<>> ELSE <<"battery">>

\* Fault: the cleanup of schema 2 is not required to restore.
CleanupStops(s) == s.cleanup \in {<<"stop-stack">>, <<"battery", "stop-stack">>}

CleanupValid(s) ==
  s.cleanup = IF s.version = 1 THEN <<"stop-stack">> ELSE <<"battery", "stop-stack">>

AssertionsValid(p) ==
  /\ p.scenario.assertions # <<>>
  /\ \A a \in Elements(p.scenario.assertions) :
       a = "project-health" \/ a \in p.manifest.topics

ScenarioValid(p) ==
  /\ p.scenario.shape
  /\ p.scenario.version \in {1, 2}
  /\ p.scenario.name \in p.manifest.scenarios
  /\ p.scenario.stem = p.scenario.name
  /\ p.scenario.timeout \in 1..MaxTimeout
  /\ p.scenario.setup = <<"core-smoke">>
  /\ ActionsValid(p.scenario)
  /\ AssertionsValid(p)
  /\ CleanupValid(p.scenario)

\* validate_contract
Valid(p) ==
  ManifestValid(p) /\ OverrideValid(p) /\ PackagesValid(p) /\ ScenarioValid(p)

\* The signals of a manifest, by the list that shows them.
Categories == <<"nodes", "topics", "services">>
Health(p)  == p.manifest.nodes \cup p.manifest.topics \cup p.manifest.services
Of(p, category) ==
  CASE category = "nodes" -> p.manifest.nodes
    [] category = "topics" -> p.manifest.topics
    [] OTHER -> p.manifest.services

AllSignals == UNION {Health(p) : p \in Projects}
NoContract == [none |-> TRUE]

NotAsked == <<>>
Answers  == {NotAsked, <<"blank">>, <<"battery">>}

Questions == {"validate", "gate", "timeout", "actions", "restorations", "get"}
InProcess == {"setup", "assert"}

TypeOK ==
  /\ files \in Projects
  /\ edits \in 0..MaxEdits
  /\ allowed \in BOOLEAN
  /\ pc \in Questions \cup InProcess
            \cup {"up", "deadline", "phase1", "apply", "phase2", "run", "restore", "end"}
  /\ verdict \in {"none", "passed", "failed"}
  /\ gate \in {"none", "inert", "required"}
  /\ timeout \in 0..MaxTimeout
  /\ actions \in Answers
  /\ restorations \in Answers
  /\ started \in BOOLEAN
  /\ contract \in Projects \cup {NoContract}
  /\ wallLeft \in 0..2 * MaxTimeout
  /\ left \in 0..2 * MaxTimeout
  /\ next \in Nat
  /\ listing \in 1..4
  /\ missing \subseteq AllSignals
  /\ up \subseteq AllSignals
  /\ battery \in {"ok", "off"}
  /\ steps \in 0..MaxSteps
  /\ sources \subseteq Projects
  /\ elapsed \in 0..MaxTimeout + 1
  /\ seen \subseteq AllSignals
  /\ pc \in InProcess => contract \in Projects

Init ==
  /\ files \in Projects
  /\ edits = 0
  /\ allowed \in BOOLEAN
  /\ pc = "validate" /\ verdict = "none"
  /\ gate = "none" /\ timeout = 0 /\ actions = NotAsked /\ restorations = NotAsked
  /\ started = FALSE
  /\ contract = NoContract
  /\ wallLeft = 0 /\ left = 0 /\ elapsed = 0 /\ steps = 0
  /\ next = 1
  /\ listing = 1 /\ missing = {} /\ seen = {}
  /\ up = {}
  /\ battery = "ok"
  /\ sources = {}

-----------------------------------------------------------------------------
(* The runner asks.  Each question validates the files as they are now;     *)
(* `get` and `launch` read the manifest only.                               *)

Fail ==
  /\ verdict' = "failed"
  /\ pc' = IF started THEN "restore" ELSE "end"

Reads == Questions \cup {"up", "phase1", "phase2", "run"}
Accepted == IF pc \in {"get", "up"} THEN ManifestValid(files) ELSE Valid(files)

\* ConfigurationError: the process exits with 1, and the runner with it.
Reject ==
  /\ pc \in Reads /\ ~Accepted
  /\ Fail
  /\ UNCHANGED <<files, edits, allowed, answers, started, contract, clocks, next,
                 health, up, battery, sources>>

\* The question that pc names is answered from the present files.
Ask(question) ==
  /\ pc = question /\ Accepted
  /\ sources' = IF question \in {"gate", "actions", "restorations"}
                THEN sources \cup {files} ELSE sources
  /\ UNCHANGED <<files, edits, allowed, started, contract, clocks, next, health,
                 up, battery>>

AskValidate ==
  /\ Ask("validate")
  /\ pc' = "gate"
  /\ UNCHANGED <<verdict, answers>>

\* An operator action needs the operator's flag.
AskGate ==
  /\ Ask("gate")
  /\ gate' = IF files.scenario.version = 2 THEN "required" ELSE "inert"
  /\ CASE gate' = "inert" -> pc' = "get" /\ verdict' = verdict
       [] gate' = "required" /\ allowed -> pc' = "timeout" /\ verdict' = verdict
       [] OTHER -> pc' = "end" /\ verdict' = "failed"
  /\ UNCHANGED <<timeout, actions, restorations>>

AskTimeout ==
  /\ Ask("timeout")
  /\ timeout' = files.scenario.timeout
  /\ pc' = "actions"
  /\ UNCHANGED <<verdict, gate, actions, restorations>>

\* mapfile makes one blank entry of an empty answer.
Lines(output) == IF output = <<>> THEN <<"blank">> ELSE output

AskActions ==
  /\ Ask("actions")
  /\ actions' = Lines(files.scenario.actions)
  /\ pc' = "restorations"
  /\ UNCHANGED <<verdict, gate, timeout, restorations>>

Restorations(s) == IF "battery" \in Elements(s.cleanup) THEN <<"battery">> ELSE <<>>

AskRestorations ==
  /\ Ask("restorations")
  /\ restorations' = Lines(Restorations(files.scenario))
  /\ pc' = "get"
  /\ UNCHANGED <<verdict, gate, timeout, actions>>

AskProject ==
  /\ Ask("get")
  /\ pc' = "up"
  /\ UNCHANGED <<verdict, answers>>

\* The stack comes up when the project's launch does: the container ends with it.
StackUp ==
  /\ Ask("up")
  /\ pc' = IF gate = "required" THEN "deadline" ELSE "run"
  /\ UNCHANGED <<verdict, answers>>

-----------------------------------------------------------------------------
(* The phases.                                                              *)

\* deadline_unix
FixDeadline ==
  /\ pc = "deadline"
  /\ wallLeft' = timeout /\ elapsed' = 0
  /\ pc' = "phase1"
  /\ UNCHANGED <<files, edits, allowed, verdict, answers, started, contract, left,
                 steps, next, health, up, battery, sources>>

\* Fault: a phase takes the whole timeout again.
RemainingAnew == timeout

Remaining == wallLeft

\* run-phase: the rest of the wall-clock time becomes a monotonic deadline.
StartPhase(phase, work) ==
  /\ pc = phase /\ Accepted
  /\ contract' = files
  /\ IF Remaining > 0
     THEN left' = Remaining /\ pc' = work /\ verdict' = verdict
     ELSE left' = 0 /\ Fail
  /\ UNCHANGED <<files, edits, allowed, answers, started, wallLeft, elapsed, steps,
                 next, health, up, battery, sources>>

StartSetup      == StartPhase("phase1", "setup")
StartAssertions == StartPhase("phase2", "assert")

\* run: only an inert scenario, in one process, under a deadline of its own.
StartRun ==
  /\ pc = "run" /\ Accepted
  /\ contract' = files
  /\ IF files.scenario.version = 1
     THEN /\ left' = files.scenario.timeout /\ elapsed' = 0
          /\ pc' = "setup" /\ verdict' = verdict
     ELSE Fail /\ UNCHANGED <<left, elapsed>>
  /\ UNCHANGED <<files, edits, allowed, answers, started, wallLeft, steps, next,
                 health, up, battery, sources>>

\* Fault: a command runs without a timeout.
CommandNeverExpires == FALSE

\* A command of a phase gets the time that remains, and is killed at its end.
CommandExpires == left = 0

Waiting == pc = "assert" /\ listing > Len(Categories)   \* between two rounds
Command == pc \in InProcess /\ ~Waiting

CommandFails ==
  /\ Command /\ left > 0
  /\ Fail
  /\ UNCHANGED <<files, edits, allowed, answers, started, contract, clocks, next,
                 health, up, battery, sources>>

CommandTimesOut ==
  /\ Command /\ CommandExpires
  /\ Fail
  /\ UNCHANGED <<files, edits, allowed, answers, started, contract, clocks, next,
                 health, up, battery, sources>>

\* The core smoke test passes: the end of the setup phase, or the middle of run.
SetupPasses ==
  /\ pc = "setup" /\ left > 0
  /\ pc' = IF gate = "required" THEN "apply" ELSE "assert"
  /\ UNCHANGED <<files, edits, allowed, verdict, answers, started, contract, clocks,
                 next, health, up, battery, sources>>

\* The adapter is told to inject; a failure of it may come after the injection.
Apply ==
  /\ pc = "apply"
  /\ started' = TRUE
  /\ \/ /\ actions[1] = "battery"
        /\ battery' = "off" /\ pc' = "phase2" /\ verdict' = verdict
     \/ /\ battery' \in IF actions[1] = "battery" THEN {battery, "off"} ELSE {battery}
        /\ pc' = "restore" /\ verdict' = "failed"
  /\ UNCHANGED <<files, edits, allowed, answers, contract, clocks, next, health, up,
                 sources>>

-----------------------------------------------------------------------------
(* The assertions, in their order.                                          *)

Assertion == contract.scenario.assertions[next]

NewRound == listing' = 1 /\ missing' = {} /\ seen' = up

\* The assertion holds; after the last one the phase has passed.
Advance ==
  /\ next' = next + 1
  /\ NewRound
  /\ IF next < Len(contract.scenario.assertions)
     THEN UNCHANGED <<pc, verdict>>
     ELSE verdict' = "passed" /\ pc' = IF started THEN "restore" ELSE "end"

\* topic-message: `ros2 topic echo --once` returns.
MessageArrives ==
  /\ pc = "assert" /\ left > 0
  /\ Assertion # "project-health" /\ Assertion \in up
  /\ Advance
  /\ UNCHANGED <<files, edits, allowed, answers, started, contract, left, wallLeft,
                 elapsed, steps, up, battery, sources>>

\* Fault: only the signals missed by the last list count.
CollectedLast(m, category) == Of(contract, category) \ up

Collected(m, category) == m \cup (Of(contract, category) \ up)

\* project-health lists nodes, topics and services, one command after the other.
TakeList ==
  /\ pc = "assert" /\ left > 0
  /\ Assertion = "project-health" /\ ~Waiting
  /\ LET all == Collected(missing, Categories[listing])
     IN IF listing = Len(Categories) /\ all = {}
        THEN Advance
        ELSE /\ missing' = all /\ listing' = listing + 1
             /\ UNCHANGED <<pc, verdict, next, seen>>
  /\ UNCHANGED <<files, edits, allowed, answers, started, contract, left, wallLeft,
                 elapsed, steps, up, battery, sources>>

Less(n) == IF n = 0 THEN 0 ELSE n - 1

TimePasses ==
  /\ left' = Less(left) /\ wallLeft' = Less(wallLeft)
  /\ elapsed' = IF elapsed > MaxTimeout THEN elapsed ELSE elapsed + 1
  /\ steps' = steps

\* Something is missing: one second of sleep, and everything is listed again.
SleepAndRetry ==
  /\ Waiting /\ left > 1
  /\ TimePasses
  /\ NewRound
  /\ UNCHANGED <<files, edits, allowed, pc, verdict, answers, started, contract, next,
                 up, battery, sources>>

HealthTimesOut ==
  /\ Waiting /\ left \leq 1
  /\ Fail
  /\ UNCHANGED <<files, edits, allowed, answers, started, contract, clocks, next,
                 health, up, battery, sources>>

\* Fault: a blank restoration is skipped.
RestoreSkipsBlanks ==
  /\ pc = "restore" /\ pc' = "end"
  /\ IF restorations[1] = "battery"
     THEN \/ battery' = "ok" /\ verdict' = verdict
          \/ battery' = battery /\ verdict' = "failed"
     ELSE UNCHANGED <<battery, verdict>>
  /\ UNCHANGED <<files, edits, allowed, answers, started, contract, clocks, next,
                 health, up, sources>>

\* The runner's cleanup, whatever the verdict.
Restore ==
  /\ pc = "restore" /\ pc' = "end"
  /\ \/ /\ restorations[1] = "battery"
        /\ battery' = "ok" /\ verdict' = verdict
     \/ battery' = battery /\ verdict' = "failed"
  /\ UNCHANGED <<files, edits, allowed, answers, started, contract, clocks, next,
                 health, up, sources>>

-----------------------------------------------------------------------------
(* The environment: the editor, time, the wall clock, the ROS graph.        *)

Edit ==
  /\ pc # "end" /\ edits < MaxEdits
  /\ files' \in Projects \ {files}
  /\ edits' = edits + 1
  /\ UNCHANGED <<allowed, pc, verdict, answers, started, contract, clocks, next,
                 health, up, battery, sources>>

Timed == InProcess \cup {"phase1", "apply", "phase2"}

Tick ==
  /\ pc \in Timed
  /\ TimePasses
  /\ UNCHANGED <<files, edits, allowed, pc, verdict, answers, started, contract, next,
                 health, up, battery, sources>>

\* Time synchronisation sets the wall clock, not the monotonic ones.
WallClockSteps ==
  /\ pc \in Timed /\ gate = "required" /\ steps < MaxSteps
  /\ wallLeft' \in 0..2 * MaxTimeout
  /\ steps' = steps + 1
  /\ UNCHANGED <<files, edits, allowed, pc, verdict, answers, started, contract, left,
                 elapsed, next, health, up, battery, sources>>

\* A node, topic or service of the project appears or vanishes.
SignalChanges ==
  /\ pc = "assert"
  /\ \E s \in Health(contract) : up' = IF s \in up THEN up \ {s} ELSE up \cup {s}
  /\ seen' = seen \cup up'
  /\ UNCHANGED <<files, edits, allowed, pc, verdict, answers, started, contract, clocks,
                 next, listing, missing, battery, sources>>

Next ==
  \/ Reject \/ AskValidate \/ AskGate \/ AskTimeout \/ AskActions \/ AskRestorations
  \/ AskProject \/ StackUp \/ FixDeadline \/ StartSetup \/ StartAssertions \/ StartRun
  \/ CommandFails \/ CommandTimesOut \/ SetupPasses \/ Apply
  \/ MessageArrives \/ TakeList \/ SleepAndRetry \/ HealthTimesOut \/ Restore
  \/ Edit \/ Tick \/ WallClockSteps \/ SignalChanges

Spec == Init /\ [][Next]_vars

\* Time passes, and drn-project acts on a deadline that has passed.
FairSpec == Spec /\ WF_vars(Tick) /\ WF_vars(CommandTimesOut) /\ WF_vars(HealthTimesOut)

-----------------------------------------------------------------------------
(* Failures are injected only with the operator's flag, and can be restored: *)
(* `drn-project run` carries out no contract with an operator action,       *)
(* whatever the gate was told; when the gate, the actions and the           *)
(* restorations came from one state of the files, a run that has begun to   *)
(* inject knows what to restore; and when they did not, the run at least    *)
(* does not end as passed with the failure still there.                     *)
InjectedIsRestorable ==
  /\ started \/ battery = "off" => allowed
  /\ gate = "inert" /\ verdict = "passed" => contract.scenario.version = 1
  /\ started /\ Cardinality(sources) = 1 => "battery" \in Elements(restorations)
  /\ pc = "end" /\ verdict = "passed" => battery = "ok"

(* The phases share one deadline: a scenario passes only within its timeout,*)
(* counted from the start of its first phase, unless the wall clock, which  *)
(* carries the deadline between the two processes, was set meanwhile.       *)
DeadlineIsShared ==
  verdict = "passed" /\ steps = 0 =>
    elapsed <= IF gate = "required" THEN timeout ELSE contract.scenario.timeout

(* project-health vouches for every signal that the manifest declares: each *)
(* has existed since its last round of lists began (not: at one moment).    *)
HealthIsRecent ==
  [][pc = "assert" /\ next' # next /\ Assertion = "project-health"
       => Health(contract) \subseteq seen]_vars

(* A phase ends at its deadline at the latest, however long a command of it *)
(* hangs and however often the health signals change: what ScenarioRun      *)
(* assumes of the commands that the runner waits for.                       *)
PhaseEnds == pc \in InProcess ~> pc \notin InProcess
=============================================================================
