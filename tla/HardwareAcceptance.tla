-------------------------- MODULE HardwareAcceptance --------------------------
(***************************************************************************)
(* One run of src/scripts/docker/hardware-smoke.py, the acceptance check   *)
(* of a flight controller on the bench: identity and parameters over       *)
(* MAVLink, the ROS graph, status and odometry samples, and the report.    *)
(*                                                                         *)
(* Every system on the link sends at any time, whatever was asked of it,   *)
(* and any message may be lost; the vehicle is armed and disarmed at will. *)
(* A message is therefore whatever the program may read next.  Deadlines   *)
(* are the values of clock; ROS commands fail at will, and an interrupt    *)
(* may end the process anywhere.                                           *)
(***************************************************************************)

CONSTANTS
  Systems,      \* the MAVLink system ids on the link
  NoSystem,     \* none of them
  Px4,          \* those whose heartbeat says PX4
  Pinned,       \* those with the expected firmware version and hash
  Parameters,   \* DRN_HARDWARE_PARAMETERS
  Stamps        \* timestamps of vehicle-status samples

ASSUME SystemsAssumption ==
  NoSystem \notin Systems /\ Px4 \subseteq Systems /\ Pinned \subseteq Systems

VARIABLES
  pc,           \* the next check
  clock,        \* of the part that runs: early, discovered (2 s later), late
  system,       \* who sent the first heartbeat, or NoSystem
  firstArmed,   \* that heartbeat says armed
  seen,         \* seen_systems
  pending,      \* parameters not asked for yet
  parameters,   \* parameters that were read
  listed,       \* a control endpoint was in a list of the ROS graph
  stamps, arming, odometry,   \* the samples of the Collector
  verdict,      \* of the report in memory
  report,       \* the report on disk
  exitCode,
  armedHeard,   \* history: an armed heartbeat of a PX4 was read
  heard,        \* history: the PX4s whose heartbeat was read
  answered      \* history: the systems whose answers were taken

link  == <<system, firstArmed, seen, armedHeard, heard>>
reads == <<pending, parameters>>
ros   == <<listed, stamps, arming, odometry>>
vars  == <<pc, clock, link, reads, answered, ros, verdict, report, exitCode>>

Checks == {"heartbeat", "discover", "version", "parameter", "types", "nodes", "topics",
           "services", "sample"}

TypeOK ==
  /\ pc \in Checks \cup {"report", "written", "exited"}
  /\ clock \in {"early", "discovered", "late"}
  /\ system \in Systems \cup {NoSystem}
  /\ seen \subseteq Systems /\ heard \subseteq Systems /\ answered \subseteq Systems
  /\ firstArmed \in BOOLEAN /\ armedHeard \in BOOLEAN
  /\ pending \subseteq Parameters /\ parameters \subseteq Parameters
  /\ listed \in BOOLEAN /\ odometry \in BOOLEAN
  /\ stamps \subseteq Stamps
  /\ arming \subseteq {"armed", "disarmed"}
  /\ verdict \in {"failed", "passed"}
  /\ report \in {"none", "failed", "passed"}
  /\ exitCode \in {0, 1}

Init ==
  /\ pc = "heartbeat"
  /\ clock = "early"
  /\ system = NoSystem
  /\ firstArmed = FALSE /\ armedHeard = FALSE
  /\ seen = {} /\ heard = {} /\ answered = {}
  /\ pending = Parameters /\ parameters = {}
  /\ listed = FALSE /\ stamps = {} /\ arming = {} /\ odometry = FALSE
  /\ verdict = "failed" /\ report = "none" /\ exitCode = 1

-----------------------------------------------------------------------------
(* collect_mavlink                                                          *)

Late == clock = "late"

\* An exception: the report keeps the verdict it began with.
Fail == pc' = "report" /\ UNCHANGED <<verdict, exitCode>>

Then(next) == pc' = next /\ UNCHANGED <<verdict, exitCode>>

\* The first heartbeat chooses the system, whatever sent it.
FirstHeartbeat ==
  /\ pc = "heartbeat"
  /\ \/ /\ ~Late
        /\ \E s \in Systems, isArmed \in BOOLEAN :
             /\ system' = s /\ seen' = {s}
             /\ firstArmed' = isArmed
             /\ heard' = {s} \cap Px4
             /\ armedHeard' = (isArmed /\ s \in Px4)
        /\ Then("discover")
     \/ Late /\ Fail /\ UNCHANGED link
  /\ UNCHANGED <<clock, reads, answered, ros, report>>

\* seen_systems after a heartbeat in the discovery window.
Noted(s) == IF s \in Px4 THEN seen \cup {s} ELSE seen

\* Further heartbeats within two seconds; only their system is looked at.
Discover ==
  /\ pc = "discover" /\ clock = "early"
  /\ \E s \in Systems, isArmed \in BOOLEAN :
       /\ seen' = Noted(s)
       /\ heard' = heard \cup ({s} \cap Px4)
       /\ armedHeard' = (armedHeard \/ (isArmed /\ s \in Px4))
  /\ UNCHANGED <<pc, clock, system, firstArmed, reads, answered, ros, verdict, report,
                 exitCode>>

\* validate_single_system; the version is requested of that system.
SingleSystem ==
  /\ pc = "discover" /\ clock # "early"
  /\ IF seen = {system} THEN Then("version") ELSE Fail
  /\ UNCHANGED <<clock, link, reads, answered, ros, report>>

\* Fault: an answer is taken from any system.
AcceptsAny(s) == s \in Systems

\* wait_for_message skips the messages of other systems.
Accepts(s) == s = system

\* validate_identity: of the first heartbeat and the version that was received.
Identified(s) == system \in Px4 /\ ~firstArmed /\ s \in Pinned

Version ==
  /\ pc = "version"
  /\ \/ /\ ~Late
        /\ \E s \in Systems :
             /\ Accepts(s)
             /\ answered' = answered \cup {s}
             /\ IF Identified(s) THEN Then("parameter") ELSE Fail
     \/ Late /\ Fail /\ UNCHANGED answered
  /\ UNCHANGED <<clock, link, reads, ros, report>>

\* Fault: the wait for a parameter has no deadline.
NeverGivesUp == FALSE

GivesUp == Late

\* One parameter is read, or given up at the deadline: inside the wait that is an
\* exception, but between two waits the loop only goes on to the next name.
ReadParameter ==
  /\ pc = "parameter"
  /\ \E name \in pending :
       /\ pending' = pending \ {name}
       /\ \/ /\ ~Late
             /\ \E s \in Systems : Accepts(s) /\ answered' = answered \cup {s}
             /\ parameters' = parameters \cup {name}
             /\ Then("parameter")
          \/ /\ GivesUp
             /\ Fail \/ Then("parameter")
             /\ UNCHANGED <<answered, parameters>>
  /\ UNCHANGED <<clock, link, ros, report>>

\* Every name has a value.
AllRead == Parameters \subseteq parameters

\* validate_parameters
ValidateParameters ==
  /\ pc = "parameter" /\ pending = {}
  /\ IF AllRead THEN Then("types") ELSE Fail
  /\ UNCHANGED <<clock, link, reads, answered, ros, report>>

-----------------------------------------------------------------------------
(* validate_ros_graph and collect_ros_samples                               *)

\* The types of both topics; a command may fail or time out.
TopicTypes ==
  /\ pc = "types"
  /\ Then("nodes") \/ Fail
  /\ UNCHANGED <<clock, link, reads, answered, ros, report>>

\* The three lists are taken one after the other and judged after the last.
List(here, after) ==
  /\ pc = here
  /\ \/ /\ listed' \in {listed, TRUE}
        /\ IF here = "services" /\ listed' THEN Fail /\ UNCHANGED clock ELSE after
     \/ Fail /\ UNCHANGED <<listed, clock>>
  /\ UNCHANGED <<link, reads, answered, stamps, arming, odometry, report>>

ListNodes    == List("nodes", Then("topics") /\ UNCHANGED clock)
ListTopics   == List("topics", Then("services") /\ UNCHANGED clock)
\* The samples have a deadline of their own.
ListServices == List("services", Then("sample") /\ clock' = "early")

TwoStamps == \E s, t \in stamps : s # t

Enough == TwoStamps /\ odometry

OnStatus ==
  /\ pc = "sample" /\ ~Late /\ ~Enough
  /\ \E stamp \in Stamps, state \in {"armed", "disarmed"} :
       /\ stamps' = stamps \cup {stamp}
       /\ arming' = arming \cup {state}
  /\ UNCHANGED <<pc, clock, link, reads, answered, listed, odometry, verdict, report,
                 exitCode>>

\* Odometry with timestamp zero is not counted.
OnOdometry ==
  /\ pc = "sample" /\ ~Late /\ ~Enough
  /\ odometry' = TRUE
  /\ UNCHANGED <<pc, clock, link, reads, answered, listed, stamps, arming, verdict, report,
                 exitCode>>

\* Fault: one disarmed sample is enough.
DisarmedOnce == TwoStamps /\ "disarmed" \in arming

\* validate_disarmed_samples
Disarmed == TwoStamps /\ arming \subseteq {"disarmed"}

\* The loop ends, and with it the checks.
Judge ==
  /\ pc = "sample" /\ (Enough \/ Late)
  /\ \/ /\ Disarmed /\ odometry
        /\ pc' = "report" /\ verdict' = "passed" /\ exitCode' = 0
     \/ ~(Disarmed /\ odometry) /\ Fail
  /\ UNCHANGED <<clock, link, reads, answered, ros, report>>

-----------------------------------------------------------------------------
(* main                                                                     *)

\* Fault: a report that cannot be written is ignored.
Unwritten == pc' = "written" /\ UNCHANGED <<report, exitCode>>

\* The exception of write_report is not caught.
NotWritten == pc' = "exited" /\ exitCode' = 1 /\ UNCHANGED report

WriteReport ==
  /\ pc = "report"
  /\ \/ pc' = "written" /\ report' = verdict /\ UNCHANGED exitCode
     \/ NotWritten
  /\ UNCHANGED <<clock, link, reads, answered, ros, verdict>>

Exit ==
  /\ pc = "written"
  /\ pc' = "exited"
  /\ UNCHANGED <<clock, link, reads, answered, ros, verdict, report, exitCode>>

\* No handler of main catches an interrupt.
Interrupt ==
  /\ pc # "exited"
  /\ pc' = "exited" /\ exitCode' = 1
  /\ UNCHANGED <<clock, link, reads, answered, ros, verdict, report>>

\* The discovery window begins with the first heartbeat and is never longer than
\* the deadline.
TimePasses ==
  /\ pc # "exited"
  /\ \/ clock # "late" /\ clock' = "late"
     \/ clock = "early" /\ pc = "discover" /\ clock' = "discovered"
  /\ UNCHANGED <<pc, link, reads, answered, ros, verdict, report, exitCode>>

Program ==
  \/ FirstHeartbeat \/ Discover \/ SingleSystem \/ Version
  \/ ReadParameter \/ ValidateParameters
  \/ TopicTypes \/ ListNodes \/ ListTopics \/ ListServices
  \/ OnStatus \/ OnOdometry \/ Judge
  \/ WriteReport \/ Exit

Next == Program \/ Interrupt \/ TimePasses

Spec == Init /\ [][Next]_vars

-----------------------------------------------------------------------------
(* Properties.                                                              *)

\* "A passing report" is about one vehicle: the system of the first heartbeat is a
\* PX4 with the pinned firmware, every answer came from it although others talk on
\* the link, all parameters were read although a wait may be given up silently, and
\* no other PX4 was heard.
PassedIsOneVehicle ==
  report = "passed" =>
    /\ system \in Px4 \cap Pinned
    /\ answered = {system} /\ heard = {system}
    /\ parameters = Parameters

\* ... that was disarmed whenever its state was sampled: in the first heartbeat, the
\* only one whose armed bit counts, and in each of two or more status samples, the
\* early ones included; and no list of the graph had a control endpoint.
PassedIsDisarmed ==
  report = "passed" =>
    /\ ~firstArmed /\ TwoStamps /\ arming = {"disarmed"} /\ odometry
    /\ ~listed

\* The exit status is 0 only with a report on disk that says "passed", whatever
\* interrupts the run or keeps the report from being written.
ExitZeroIsReported == pc = "exited" /\ exitCode = 0 => report = "passed"

\* The clock goes on, and the program with it: no wait is longer than its deadline.
FairSpec == Spec /\ WF_vars(TimePasses) /\ WF_vars(Program)

\* An acceptance run ends, however little the vehicle answers.
AcceptanceEnds == <>(pc = "exited")

-----------------------------------------------------------------------------
(* What docs/HARDWARE_UDP.md says of the check.                             *)

\* "The acceptance run fails when it sees ... an armed heartbeat".
ArmedHeartbeatFails == report = "passed" => ~armedHeard
=============================================================================
