------------------------------ MODULE SmokeTest ------------------------------
(***************************************************************************)
(* The smoke tests of the simulation profiles: sensor-smoke.py,            *)
(* lidar-smoke.py, vision-odometry-smoke.py, precision-landing-smoke.py    *)
(* and fleet-smoke.py, on the nodes that DrnVizLaunch starts.              *)
(*                                                                         *)
(* Each test is one node that handles one message at a time until it has   *)
(* seen enough or its deadline has passed, and then judges what it kept.   *)
(* The tests keep different things: the sensor and landing tests forget an *)
(* invalid message when a valid one follows, the LiDAR and vision tests do *)
(* not; all but the fleet test keep the last vehicle status only.  Nodes   *)
(* may crash while a test runs, and ROS endpoints come and go while the    *)
(* fleet test lists the graph.                                             *)
(***************************************************************************)
EXTENDS DrnVizLaunch

CONSTANTS
  Models,       \* the Gazebo models of the profiles
  Vehicles,     \* the fleet
  Required,     \* samples required of a stream: 3 in every test
  Stamps,       \* message timestamps; 0 is an unset one
  Sizes,        \* image dimensions
  MaxCrashes    \* bound on the nodes that crash

ASSUME SmokeAssumption ==
  /\ Vehicles \subseteq Nat \ {0}
  /\ IsFiniteSet(Vehicles)
  /\ Cardinality(Vehicles) \in 2..4     \* fleet_size() refuses any other
  /\ Required \in Nat \ {0}
  /\ Stamps \subseteq Nat
  /\ Sizes \subseteq Nat \ {0}
  /\ MaxCrashes \in Nat

VARIABLES
  program,      \* the test that runs
  model,        \* DRN_SIM_MODEL_NAME, the model that is spawned
  alive,        \* the launched nodes that still run
  count,        \* counts, samples, walls_valid: valid messages of a stream, up to Required
  stamps,       \* distinct timestamps of a stream
  errors,       \* the streams with an error that is kept
  size,         \* the dimensions last kept of a stream, 0 for none
  arming,       \* arming_state
  outcome,      \* "sampling", "graph" (fleet only), or how the test ended
  listed,       \* the lists of the graph taken so far
  found,        \* the endpoints on them
  foreign,      \* control endpoints and unscoped PX4 topics that exist
  spoiled,      \* history: some invalid message was read
  lastBad,      \* history: streams whose last message was invalid
  stayed        \* history: foreign endpoints that existed ever since the first list

kept  == <<count, stamps, errors, size>>
graph == <<listed, found, foreign, stayed>>
vars  == <<program, model, alive, kept, arming, outcome, graph,
           spoiled, lastBad>>

CapabilityOf == [sensor |-> "depth-camera", lidar |-> "laser-scan",
                 vision |-> "vision-odometry", landing |-> "precision-landing",
                 fleet |-> "multi-vehicle"]
Programs == DOMAIN CapabilityOf

\* The subscriptions of each test, besides the vehicle status.
SensorStreams  == {"color", "color_info", "depth", "depth_info"}
LidarStreams   == {"scan", "walls"}
VisionStreams  == {"vision"}
LandingStreams == {"landing", "landing_info", "visible", "target"}
FleetStreams   == {"status", "odometry"}

NamesOf == [sensor |-> SensorStreams, lidar |-> LidarStreams, vision |-> VisionStreams,
            landing |-> LandingStreams, fleet |-> FleetStreams]

\* A stream is <<vehicle, name>>; a test of one vehicle reads the root topics.
StreamsOf(p) == (IF p = "fleet" THEN Vehicles ELSE {0}) \X NamesOf[p]
Streams      == StreamsOf(program)

RoutesOf == [sensor |-> DepthRoutes(model), lidar |-> LidarRoutes(model),
             vision |-> VisionRoutes(model), landing |-> LandingRoutes(model)]

\* PX4 publishes the telemetry of a fleet itself.
Delivered(s) ==
  \/ program = "fleet"
  \/ /\ program # "fleet"
     /\ RoutesOf[program][s[2]].source \in Offered(model)
     /\ RoutesOf[program][s[2]].nodes \subseteq alive

Started == Launched({CapabilityOf[program]}, Vehicles)

\* What the fleet test must not find in the lists of the graph.
ForeignNodes    == Root({"drn_control"})
ForeignTopics   == Root({"control_topic", "unscoped_px4_topic"})
ForeignServices == Root({"control_service"})
Forbidden       == ForeignNodes \cup ForeignTopics \cup ForeignServices

\* The endpoints that the fleet test requires.
RequiredNodes  == Root({"foxglove_bridge"}) \cup (Vehicles \X VehicleNodes)
RequiredTopics == Vehicles \X {"vehicle_odometry", "vehicle_status", "robot_description"}

TypeOK ==
  /\ program \in Programs
  /\ model \in Models
  /\ alive \subseteq Started
  /\ count \in [Streams -> 0..Required]
  /\ stamps \in [Streams -> SUBSET Stamps]
  /\ errors \subseteq Streams
  /\ size \in [Streams -> Sizes \cup {0}]
  /\ arming \in {"none", "disarmed", "armed"}
  /\ outcome \in {"sampling", "graph", "passed", "failed", "timeout", "error"}
  /\ listed \in 0..3
  /\ found \subseteq RequiredNodes \cup RequiredTopics \cup Forbidden
  /\ foreign \subseteq Forbidden
  /\ spoiled \in BOOLEAN
  /\ lastBad \subseteq Streams
  /\ stayed \subseteq foreign

Init ==
  /\ program \in Programs
  /\ model \in Models
  /\ alive = Started
  /\ count = [s \in Streams |-> 0]
  /\ stamps = [s \in Streams |-> {}]
  /\ errors = {}
  /\ size = [s \in Streams |-> 0]
  /\ arming = "none"
  /\ outcome = "sampling"
  /\ listed = 0 /\ found = {} /\ foreign = {} /\ stayed = {}
  /\ spoiled = FALSE /\ lastBad = {}

-----------------------------------------------------------------------------
(* The callbacks: what a message of stream s leaves behind.                 *)

\* Only whether a count has reached the number required is ever looked at.
Counted(s) == count' = [count EXCEPT ![s] = IF @ < Required THEN @ + 1 ELSE @]

Stamped(s, stamp) == stamps' = [stamps EXCEPT ![s] = @ \cup {stamp}]

Refused(s) ==
  /\ errors' = errors \cup {s}
  /\ UNCHANGED <<count, stamps, size>>

SensorImage(s, m) ==
  \/ ~m.valid /\ Refused(s)
  \/ /\ m.valid
     /\ errors' = errors \ {s}
     /\ size' = [size EXCEPT ![s] = m.size]
     /\ Counted(s)
     /\ UNCHANGED stamps

SensorInfo(s, m) ==
  \/ ~m.valid /\ Refused(s)
  \/ /\ m.valid
     /\ errors' = errors \ {s}
     /\ size' = [size EXCEPT ![s] = m.size]
     /\ Counted(s)
     /\ UNCHANGED stamps

LidarScan(s, m) ==
  \/ ~m.valid /\ Refused(s)
  \/ /\ m.valid
     /\ Stamped(s, m.stamp) /\ Counted(s)
     /\ UNCHANGED <<errors, size>>

\* Fault: valid walls replace the error of earlier ones.
LidarWallsForgive(s, m) ==
  \/ ~m.valid /\ Refused(s)
  \/ m.valid /\ Counted(s) /\ errors' = errors \ {s} /\ UNCHANGED <<stamps, size>>

LidarWalls(s, m) ==
  \/ ~m.valid /\ Refused(s)
  \/ m.valid /\ Counted(s) /\ UNCHANGED <<stamps, errors, size>>

VisionOdometry(s, m) ==
  \/ ~m.valid /\ Refused(s)
  \/ /\ m.valid
     /\ Stamped(s, m.stamp) /\ Counted(s)
     /\ UNCHANGED <<errors, size>>

LandingImage(s, m) ==
  \/ ~m.valid /\ Refused(s)
  \/ m.valid /\ Counted(s) /\ errors' = errors \ {s} /\ UNCHANGED <<stamps, size>>

LandingInfo(s, m) ==
  \/ ~m.valid /\ Refused(s)
  \/ m.valid /\ Counted(s) /\ errors' = errors \ {s} /\ UNCHANGED <<stamps, size>>

\* The detector's heartbeat is counted whatever it says.
LandingVisible(s, m) == m.valid /\ Counted(s) /\ UNCHANGED <<stamps, errors, size>>

LandingTarget(s, m) ==
  \/ ~m.valid /\ Refused(s)
  \/ m.valid /\ Counted(s) /\ errors' = errors \ {s} /\ UNCHANGED <<stamps, size>>

\* The fleet test keeps every sample.  An armed status counts as a sample too,
\* and so does an odometry message without a timestamp.
FleetStatus(s, m) ==
  /\ Stamped(s, m.stamp)
  /\ errors' = IF m.valid THEN errors ELSE errors \cup {s}
  /\ UNCHANGED <<count, size>>

FleetOdometry(s, m) ==
  /\ m.valid = (m.stamp > 0)
  /\ Stamped(s, m.stamp)
  /\ errors' = IF m.valid THEN errors ELSE errors \cup {s}
  /\ UNCHANGED <<count, size>>

Callback(s, m) ==
  \/ program = "sensor" /\ s[2] \in {"color", "depth"} /\ SensorImage(s, m)
  \/ program = "sensor" /\ s[2] \in {"color_info", "depth_info"} /\ SensorInfo(s, m)
  \/ program = "lidar" /\ s[2] = "scan" /\ LidarScan(s, m)
  \/ program = "lidar" /\ s[2] = "walls" /\ LidarWalls(s, m)
  \/ program = "vision" /\ VisionOdometry(s, m)
  \/ program = "landing" /\ s[2] = "landing" /\ LandingImage(s, m)
  \/ program = "landing" /\ s[2] = "landing_info" /\ LandingInfo(s, m)
  \/ program = "landing" /\ s[2] = "visible" /\ LandingVisible(s, m)
  \/ program = "landing" /\ s[2] = "target" /\ LandingTarget(s, m)
  \/ program = "fleet" /\ s[2] = "status" /\ FleetStatus(s, m)
  \/ program = "fleet" /\ s[2] = "odometry" /\ FleetOdometry(s, m)

-----------------------------------------------------------------------------
(* Enough samples, and the verdict on them.                                 *)

Topic(name) == <<0, name>>

\* Fault: the calibrations are not waited for.
SensorCompleteOnImages ==
  /\ \A s \in Streams : s[2] \in {"color", "depth"} => count[s] >= Required
  /\ arming # "none"

SensorComplete ==
  /\ \A s \in Streams : count[s] >= Required
  /\ arming # "none"

LidarComplete ==
  /\ count[Topic("scan")] >= Required
  /\ Cardinality(stamps[Topic("scan")]) >= Required
  /\ count[Topic("walls")] > 0
  /\ arming # "none"

VisionComplete ==
  /\ count[Topic("vision")] >= Required
  /\ Cardinality(stamps[Topic("vision")]) >= Required
  /\ arming # "none"

\* Targets are not required: the marker may be out of sight.
LandingComplete ==
  /\ \A s \in Streams \ {Topic("target")} : count[s] >= Required
  /\ arming # "none"

FleetComplete == \A s \in Streams : Cardinality(stamps[s]) >= Required

Complete ==
  \/ program = "sensor" /\ SensorComplete
  \/ program = "lidar" /\ LidarComplete
  \/ program = "vision" /\ VisionComplete
  \/ program = "landing" /\ LandingComplete
  \/ program = "fleet" /\ FleetComplete

SensorPasses ==
  /\ errors = {}
  /\ size[Topic("color")] = size[Topic("color_info")]
  /\ size[Topic("depth")] = size[Topic("depth_info")]
  /\ arming = "disarmed"

LidarPasses   == errors = {} /\ arming = "disarmed"
VisionPasses  == errors = {} /\ arming = "disarmed"
LandingPasses == errors = {} /\ arming = "disarmed"
FleetPasses   == errors = {}

Passes ==
  \/ program = "sensor" /\ SensorPasses
  \/ program = "lidar" /\ LidarPasses
  \/ program = "vision" /\ VisionPasses
  \/ program = "landing" /\ LandingPasses
  \/ program = "fleet" /\ FleetPasses

-----------------------------------------------------------------------------
Messages == [valid : BOOLEAN, stamp : Stamps, size : Sizes]

\* One turn of the loop: it ends as soon as the samples are complete.
Turn == outcome = "sampling" /\ ~Complete

OnMessage(s) ==
  /\ Turn
  /\ Delivered(s)
  /\ \E m \in Messages :
       /\ Callback(s, m)
       /\ spoiled' = (spoiled \/ ~m.valid)
       /\ lastBad' = IF m.valid THEN lastBad \ {s} ELSE lastBad \cup {s}
  /\ UNCHANGED <<program, model, alive, arming, outcome, graph>>

\* The status of the one vehicle; the next status replaces it.
OnStatus ==
  /\ Turn /\ program # "fleet"
  /\ arming' \in {"disarmed", "armed"}
  /\ UNCHANGED <<program, model, alive, kept, outcome, graph, spoiled, lastBad>>

Judge ==
  /\ outcome = "sampling" /\ Complete
  /\ outcome' = IF ~Passes THEN "failed"
                ELSE IF program = "fleet" THEN "graph" ELSE "passed"
  /\ UNCHANGED <<program, model, alive, kept, arming, graph, spoiled, lastBad>>

\* The deadline passes before the samples are complete.
TimesOut ==
  /\ Turn
  /\ outcome' = "timeout"
  /\ UNCHANGED <<program, model, alive, kept, arming, graph, spoiled, lastBad>>

-----------------------------------------------------------------------------
(* The graph of a fleet: nodes, topics and services, one list after another.*)

Existing ==
  << (alive \cap RequiredNodes) \cup (foreign \cap ForeignNodes),
     (Vehicles \X {"vehicle_odometry", "vehicle_status"})
       \cup {<<v, "robot_description">> :
               v \in {w \in Vehicles : <<w, "robot_state_publisher">> \in alive}}
       \cup (foreign \cap ForeignTopics),
     foreign \cap ForeignServices >>

\* Fault: services are listed and not looked at.
GraphPassesWithoutServices(all) ==
  /\ RequiredNodes \cup RequiredTopics \subseteq all
  /\ all \cap (Forbidden \ ForeignServices) = {}

GraphPasses(all) ==
  /\ RequiredNodes \cup RequiredTopics \subseteq all
  /\ all \cap Forbidden = {}

\* A list that cannot be taken fails the test.
ListGraph ==
  /\ outcome = "graph" /\ listed < 3
  /\ \/ /\ listed' = listed + 1
        /\ found' = found \cup Existing[listed']
        /\ stayed' = IF listed = 0 THEN foreign ELSE stayed
        /\ outcome' = IF listed' < 3 THEN "graph"
                      ELSE IF GraphPasses(found') THEN "passed" ELSE "failed"
     \/ outcome' = "error" /\ UNCHANGED <<listed, found, stayed>>
  /\ UNCHANGED <<program, model, alive, kept, arming, foreign, spoiled, lastBad>>

\* Somebody starts or stops a control node, a publisher or an unscoped PX4.
ForeignComes(f) ==
  /\ outcome = "graph" /\ f \notin foreign
  /\ foreign' = foreign \cup {f}
  /\ UNCHANGED <<program, model, alive, kept, arming, outcome, listed, found,
                 stayed, spoiled, lastBad>>

ForeignGoes(f) ==
  /\ outcome = "graph" /\ f \in foreign
  /\ foreign' = foreign \ {f}
  /\ stayed' = stayed \ {f}
  /\ UNCHANGED <<program, model, alive, kept, arming, outcome, listed, found,
                 spoiled, lastBad>>

-----------------------------------------------------------------------------
(* Nodes that crash; only drn_control is started again.                     *)

\* The nodes the test depends on: the fleet test looks at them in the graph only.
Carriers ==
  IF program = "fleet" THEN RequiredNodes
  ELSE UNION {RoutesOf[program][s[2]].nodes : s \in Streams}

Crash(n) ==
  /\ outcome = IF program = "fleet" THEN "graph" ELSE "sampling"
  /\ Cardinality(Started \ alive) < MaxCrashes
  /\ alive' = alive \ {n}
  /\ UNCHANGED <<program, model, kept, arming, outcome, graph, spoiled, lastBad>>

Next ==
  \/ \E s \in Streams : OnMessage(s)
  \/ OnStatus
  \/ Judge
  \/ TimesOut
  \/ ListGraph
  \/ \E f \in Forbidden : ForeignComes(f) \/ ForeignGoes(f)
  \/ \E n \in Carriers \cap alive : Crash(n)

Spec == Init /\ [][Next]_vars

-----------------------------------------------------------------------------
(* Properties.                                                              *)

\* The tests that forget an error when a valid message follows it.
Forgiving == {"sensor", "landing"}

Agree(image, info) == size[image] = 0 \/ size[info] = 0 \/ size[image] = size[info]
SizesAgree ==
  program = "sensor" =>
    /\ Agree(Topic("color"), Topic("color_info"))
    /\ Agree(Topic("depth"), Topic("depth_info"))

\* A test that passed has not overlooked what it read: no stream ended on an
\* invalid message, in the LiDAR, vision and fleet tests no message at all was
\* invalid (an armed status of a fleet vehicle is one), and image and calibration
\* were of one size.  The callbacks, complete() and main() keep that in counts, a
\* dict or a list of errors and two dicts of dimensions.
PassedIsJustified ==
  outcome = "passed" =>
    /\ lastBad = {}
    /\ program \notin Forgiving => ~spoiled
    /\ SizesAgree

\* A control endpoint or an unscoped PX4 topic that is there from the first list
\* of the graph to the last is never passed over, whichever list shows it.
ForeignIsNoticed == outcome = "passed" => stayed = {}

\* A test does not fail for nothing: what it reports is an invalid message, cameras
\* that differ in size, an armed vehicle, a node that has crashed, or a foreign
\* endpoint that a list did show.  Enough samples imply that everything the verdict
\* compares has arrived, and three lists that every endpoint required was on one.
FailedForAReason ==
  outcome = "failed" =>
    \/ errors # {} \/ ~SizesAgree \/ arming = "armed"
    \/ alive # Started \/ found \cap Forbidden # {}

\* Publishers go on publishing with new timestamps, a first status comes, and the
\* test goes on.
Progress(s) == OnMessage(s) /\ <<count, stamps>>' # <<count, stamps>>

AllStreams == UNION {StreamsOf(p) : p \in Programs}

FairSpec ==
  /\ Spec
  /\ \A s \in AllStreams : WF_vars(s \in Streams /\ Progress(s))
  /\ WF_vars(arming = "none" /\ OnStatus)
  /\ WF_vars(Judge)
  /\ WF_vars(ListGraph)

\* Nothing has gone wrong so far.
Healthy ==
  /\ outcome \notin {"timeout", "error"}
  /\ alive = Started /\ foreign = {}
  /\ errors = {} /\ SizesAgree
  /\ arming # "armed"

\* A profile whose nodes run and whose messages are valid passes its test in time:
\* what the launch file starts and bridges for the capability is all that the test
\* waits for, and no callback can keep it from completing.
HealthyProfilePasses == []Healthy => <>(outcome = "passed")
=============================================================================
