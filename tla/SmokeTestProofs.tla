---------------------------- MODULE SmokeTestProofs ----------------------------
(***************************************************************************)
(* Proofs about SmokeTest, for every fleet, every number of required       *)
(* samples and any number of crashes.  The inductive invariant relates the *)
(* errors that a test keeps to the messages it has read, and the lists of  *)
(* the graph it has taken to the endpoints that were there all along.      *)
(***************************************************************************)
EXTENDS SmokeTest, TLAPS

-----------------------------------------------------------------------------
(* Types.                                                                   *)

LEMMA InitTyped == Init => TypeOK
<1> SUFFICES ASSUME Init PROVE TypeOK
  OBVIOUS
<1>1. 0 \in 0..Required
  BY SmokeAssumption
<1>2. /\ count \in [Streams -> 0..Required]
      /\ stamps \in [Streams -> SUBSET Stamps]
      /\ size \in [Streams -> Sizes \cup {0}]
  BY <1>1 DEF Init
<1>3. /\ program \in Programs /\ model \in Models /\ alive \subseteq Started
      /\ errors \subseteq Streams /\ arming = "none" /\ outcome = "sampling"
      /\ spoiled \in BOOLEAN /\ lastBad \subseteq Streams
  BY DEF Init
<1>4. listed \in 0..3 /\ found = {} /\ foreign = {} /\ stayed = {}
  BY DEF Init
<1> QED
  BY <1>2, <1>3, <1>4 DEF TypeOK

\* What a callback makes of the data that the test keeps.
LEMMA CallbackTyped ==
  ASSUME TypeOK, NEW s \in Streams, NEW m \in Messages, Callback(s, m)
  PROVE  /\ count' \in [Streams -> 0..Required]
         /\ stamps' \in [Streams -> SUBSET Stamps]
         /\ errors' \subseteq Streams
         /\ size' \in [Streams -> Sizes \cup {0}]
<1> DEFINE Kept(c, t, e, z) ==
             /\ c \in [Streams -> 0..Required]
             /\ t \in [Streams -> SUBSET Stamps]
             /\ e \subseteq Streams
             /\ z \in [Streams -> Sizes \cup {0}]
<1>1. Kept(count, stamps, errors, size)
  BY DEF TypeOK
<1>2. m.stamp \in Stamps /\ m.size \in Sizes
  BY DEF Messages
<1>3. Counted(s) => count' \in [Streams -> 0..Required]
  BY SmokeAssumption DEF Counted, TypeOK
<1>4. Stamped(s, m.stamp) => stamps' \in [Streams -> SUBSET Stamps]
  BY <1>1, <1>2 DEF Stamped
<1>5. size' = [size EXCEPT ![s] = m.size] => size' \in [Streams -> Sizes \cup {0}]
  BY <1>1, <1>2
<1>6. CASE SensorImage(s, m) \/ SensorInfo(s, m)
  BY <1>1, <1>3, <1>5, <1>6 DEF SensorImage, SensorInfo, Refused
<1>7. CASE LidarScan(s, m) \/ VisionOdometry(s, m)
  BY <1>1, <1>3, <1>4, <1>7 DEF LidarScan, VisionOdometry, Refused
<1>8. CASE LidarWalls(s, m) \/ LandingVisible(s, m)
  BY <1>1, <1>3, <1>8 DEF LidarWalls, LandingVisible, Refused
<1>9. CASE LandingImage(s, m) \/ LandingInfo(s, m) \/ LandingTarget(s, m)
  BY <1>1, <1>3, <1>9 DEF LandingImage, LandingInfo, LandingTarget, Refused
<1>10. CASE FleetStatus(s, m) \/ FleetOdometry(s, m)
  BY <1>1, <1>4, <1>10 DEF FleetStatus, FleetOdometry
<1> QED
  BY <1>6, <1>7, <1>8, <1>9, <1>10 DEF Callback

LEMMA OnMessageTyped ==
  ASSUME TypeOK, NEW s \in Streams, OnMessage(s)
  PROVE  TypeOK'
<1>1. PICK m \in Messages :
        /\ Callback(s, m)
        /\ spoiled' = (spoiled \/ ~m.valid)
        /\ lastBad' = IF m.valid THEN lastBad \ {s} ELSE lastBad \cup {s}
  BY DEF OnMessage
<1>2. UNCHANGED <<program, model, alive, arming, outcome, graph>>
  BY DEF OnMessage
<1>3. Streams' = Streams /\ Started' = Started
  BY <1>2 DEF Streams, Started
<1>4. lastBad' \subseteq Streams
  BY <1>1 DEF TypeOK
<1>5. spoiled' \in BOOLEAN
  BY <1>1 DEF TypeOK
<1> QED
  BY <1>1, <1>2, <1>3, <1>4, <1>5, CallbackTyped DEF TypeOK, graph

\* The lists show required and foreign endpoints only.
LEMMA ExistingTyped ==
  ASSUME TypeOK, NEW i \in 1..3
  PROVE  /\ Existing[i] \subseteq RequiredNodes \cup RequiredTopics \cup Forbidden
         /\ i = 1 => foreign \cap ForeignNodes \subseteq Existing[i]
         /\ i = 2 => foreign \cap ForeignTopics \subseteq Existing[i]
         /\ i = 3 => foreign \cap ForeignServices \subseteq Existing[i]
<1>1. {<<v, "robot_description">> :
          v \in {w \in Vehicles : <<w, "robot_state_publisher">> \in alive}}
        \subseteq RequiredTopics
  <2>1. ASSUME NEW v \in Vehicles PROVE <<v, "robot_description">> \in RequiredTopics
    BY DEF RequiredTopics
  <2> QED
    BY <2>1
<1>2. Vehicles \X {"vehicle_odometry", "vehicle_status"} \subseteq RequiredTopics
  BY DEF RequiredTopics
<1>3. CASE i = 1
  BY <1>3 DEF Existing, Forbidden
<1>4. CASE i = 2
  <2>1. Existing[2] =
          (Vehicles \X {"vehicle_odometry", "vehicle_status"})
            \cup {<<v, "robot_description">> :
                    v \in {w \in Vehicles : <<w, "robot_state_publisher">> \in alive}}
            \cup (foreign \cap ForeignTopics)
    BY DEF Existing
  <2>2. /\ Existing[2] \subseteq RequiredTopics \cup Forbidden
        /\ foreign \cap ForeignTopics \subseteq Existing[2]
    BY <1>1, <1>2, <2>1, Zenon DEF Forbidden
  <2> QED
    BY <1>4, <2>2
<1>5. CASE i = 3
  BY <1>5 DEF Existing, Forbidden
<1> QED
  BY <1>3, <1>4, <1>5

LEMMA ListGraphTyped ==
  ASSUME TypeOK, ListGraph PROVE TypeOK'
<1>1. Streams' = Streams /\ Started' = Started
  BY DEF ListGraph, Streams, Started
<1>2. CASE /\ listed' = listed + 1
           /\ found' = found \cup Existing[listed']
           /\ stayed' = IF listed = 0 THEN foreign ELSE stayed
           /\ outcome' = IF listed' < 3 THEN "graph"
                         ELSE IF GraphPasses(found') THEN "passed" ELSE "failed"
  <2>1. listed' \in 1..3 /\ outcome' \in {"graph", "passed", "failed"}
    BY <1>2 DEF ListGraph, TypeOK
  <2>2. found' \subseteq RequiredNodes \cup RequiredTopics \cup Forbidden
    BY <1>2, <2>1, ExistingTyped DEF TypeOK
  <2>3. stayed' \subseteq foreign'
    BY <1>2 DEF ListGraph, TypeOK
  <2> QED
    BY <1>1, <2>1, <2>2, <2>3 DEF ListGraph, TypeOK, kept
<1>3. CASE outcome' = "error" /\ UNCHANGED <<listed, found, stayed>>
  BY <1>1, <1>3 DEF ListGraph, TypeOK, kept
<1> QED
  BY <1>2, <1>3 DEF ListGraph

LEMMA OthersTyped ==
  ASSUME TypeOK,
         \/ OnStatus \/ Judge \/ TimesOut
         \/ \E f \in Forbidden : ForeignComes(f) \/ ForeignGoes(f)
         \/ \E n \in Carriers \cap alive : Crash(n)
         \/ UNCHANGED vars
  PROVE  TypeOK'
<1> USE DEF kept, graph
<1>1. Streams' = Streams /\ Started' = Started
  BY DEF OnStatus, Judge, TimesOut, ForeignComes, ForeignGoes, Crash, vars, Streams, Started
<1>2. CASE OnStatus
  BY <1>1, <1>2 DEF OnStatus, TypeOK
<1>3. CASE Judge
  BY <1>1, <1>3 DEF Judge, TypeOK
<1>4. CASE TimesOut
  BY <1>1, <1>4 DEF TimesOut, TypeOK
<1>5. CASE \E f \in Forbidden : ForeignComes(f) \/ ForeignGoes(f)
  BY <1>1, <1>5 DEF ForeignComes, ForeignGoes, TypeOK
<1>6. CASE \E n \in Carriers \cap alive : Crash(n)
  BY <1>1, <1>6 DEF Crash, TypeOK
<1>7. CASE UNCHANGED vars
  BY <1>1, <1>7 DEF vars, TypeOK
<1> QED
  BY <1>2, <1>3, <1>4, <1>5, <1>6, <1>7

LEMMA TypeStep == TypeOK /\ [Next]_vars => TypeOK'
<1> SUFFICES ASSUME TypeOK, [Next]_vars PROVE TypeOK'
  OBVIOUS
<1> QED
  BY OnMessageTyped, ListGraphTyped, OthersTyped DEF Next

\* Every variable keeps its type: no count passes what is required, and the endpoints
\* that stayed are there.
THEOREM TypeCorrect == Spec => []TypeOK
BY InitTyped, TypeStep, PTL DEF Spec

-----------------------------------------------------------------------------
(* What the kept errors say about the messages read.                        *)

Kept ==
  /\ lastBad \subseteq errors
  /\ program \notin Forgiving /\ spoiled => errors # {}

Verdict ==
  /\ outcome = "graph" => program = "fleet" /\ errors = {}
  /\ outcome = "passed" => errors = {} /\ SizesAgree

LEMMA CallbackKeeps ==
  ASSUME TypeOK, NEW s \in Streams, NEW m \in Messages, Callback(s, m)
  PROVE  /\ ~m.valid => errors' = errors \cup {s}
         /\ m.valid => errors' \in {errors, errors \ {s}}
         /\ program \notin Forgiving => errors \subseteq errors'
<1>1. CASE SensorImage(s, m) \/ SensorInfo(s, m) \/ LandingImage(s, m)
           \/ LandingInfo(s, m) \/ LandingVisible(s, m) \/ LandingTarget(s, m)
  <2>1. /\ ~m.valid => errors' = errors \cup {s}
        /\ m.valid => errors' \in {errors, errors \ {s}}
    BY <1>1 DEF SensorImage, SensorInfo, LandingImage, LandingInfo, LandingVisible,
       LandingTarget, Refused
  <2>2. CASE program \in Forgiving
    BY <2>1, <2>2
  <2>3. CASE program \notin Forgiving
    <3>1. \/ LidarScan(s, m) \/ LidarWalls(s, m) \/ VisionOdometry(s, m)
          \/ FleetStatus(s, m) \/ FleetOdometry(s, m)
      BY <2>3 DEF Callback, Forgiving
    <3> QED
      BY <2>1, <3>1 DEF LidarScan, LidarWalls, VisionOdometry, FleetStatus,
         FleetOdometry, Refused
  <2> QED
    BY <2>2, <2>3
<1>2. CASE \/ LidarScan(s, m) \/ LidarWalls(s, m) \/ VisionOdometry(s, m)
           \/ FleetStatus(s, m) \/ FleetOdometry(s, m)
  BY <1>2 DEF LidarScan, LidarWalls, VisionOdometry, FleetStatus, FleetOdometry, Refused
<1> QED
  BY <1>1, <1>2 DEF Callback

LEMMA OnMessageKeeps ==
  ASSUME TypeOK, Kept, Verdict, NEW s \in Streams, OnMessage(s)
  PROVE  Kept' /\ Verdict'
<1>1. PICK m \in Messages :
        /\ Callback(s, m)
        /\ spoiled' = (spoiled \/ ~m.valid)
        /\ lastBad' = IF m.valid THEN lastBad \ {s} ELSE lastBad \cup {s}
  BY DEF OnMessage
<1>2. outcome' = "sampling" /\ program' = program
  BY DEF OnMessage, Turn
<1>3. lastBad' \subseteq errors'
  BY <1>1, CallbackKeeps DEF Kept
<1>4. ASSUME program' \notin Forgiving, spoiled' PROVE errors' # {}
  <2>1. CASE m.valid
    BY <1>1, <1>2, <1>4, <2>1, CallbackKeeps DEF Kept
  <2>2. CASE ~m.valid
    BY <1>1, <2>2, CallbackKeeps
  <2> QED
    BY <2>1, <2>2
<1> QED
  BY <1>2, <1>3, <1>4 DEF Kept, Verdict

LEMMA JudgeKeeps ==
  ASSUME TypeOK, Kept, Verdict, Judge PROVE Kept' /\ Verdict'
<1>1. UNCHANGED <<program, errors, size, spoiled, lastBad>>
  BY DEF Judge, kept
<1>2. outcome' \in {"graph", "passed"} => Passes
  BY DEF Judge
<1>3. Passes => errors = {} /\ SizesAgree
  BY DEF Passes, SensorPasses, LidarPasses, VisionPasses, LandingPasses, FleetPasses,
     SizesAgree, Agree
<1>4. outcome' = "graph" => program = "fleet"
  BY DEF Judge
<1>5. SizesAgree' = SizesAgree
  BY <1>1 DEF SizesAgree, Agree
<1> QED
  BY <1>1, <1>2, <1>3, <1>4, <1>5 DEF Kept, Verdict

LEMMA OthersKeep ==
  ASSUME TypeOK, Kept, Verdict,
         \/ OnStatus \/ TimesOut \/ ListGraph
         \/ \E f \in Forbidden : ForeignComes(f) \/ ForeignGoes(f)
         \/ \E n \in Carriers \cap alive : Crash(n)
         \/ UNCHANGED vars
  PROVE  Kept' /\ Verdict'
<1>1. UNCHANGED <<program, errors, size, spoiled, lastBad>>
  BY DEF OnStatus, TimesOut, ListGraph, ForeignComes, ForeignGoes, Crash, vars, kept
<1>2. SizesAgree' = SizesAgree
  BY <1>1 DEF SizesAgree, Agree
<1>3. \/ outcome' \in {outcome, "timeout", "error", "failed"}
      \/ outcome = "graph" /\ outcome' = "passed"
  BY DEF OnStatus, TimesOut, ListGraph, ForeignComes, ForeignGoes, Crash, vars
<1>4. outcome = "graph" => SizesAgree
  BY DEF Verdict, SizesAgree
<1> QED
  BY <1>1, <1>2, <1>3, <1>4 DEF Kept, Verdict

LEMMA KeptStep == TypeOK /\ Kept /\ Verdict /\ [Next]_vars => Kept' /\ Verdict'
<1> SUFFICES ASSUME TypeOK, Kept, Verdict, [Next]_vars PROVE Kept' /\ Verdict'
  OBVIOUS
<1> QED
  BY OnMessageKeeps, JudgeKeeps, OthersKeep DEF Next

LEMMA KeptInit == Init => Kept /\ Verdict
BY DEF Init, Kept, Verdict

\* A test that passed has overlooked no invalid message that its errors stand for.
THEOREM PassedAlwaysJustified == Spec => []PassedIsJustified
<1>1. Kept /\ Verdict => PassedIsJustified
  BY DEF Kept, Verdict, PassedIsJustified
<1> QED
  BY <1>1, KeptInit, KeptStep, InitTyped, TypeStep, PTL DEF Spec

-----------------------------------------------------------------------------
(* What the lists have shown.                                               *)

Shown ==
  /\ outcome = "graph" => program = "fleet"
  /\ program # "fleet" => stayed = {}
  /\ listed >= 1 => stayed \cap ForeignNodes \subseteq found
  /\ listed >= 2 => stayed \cap ForeignTopics \subseteq found
  /\ listed >= 3 => stayed \cap ForeignServices \subseteq found
  /\ outcome = "passed" /\ program = "fleet" => listed = 3 /\ found \cap Forbidden = {}

LEMMA ShownInit == Init => Shown
BY DEF Init, Shown

LEMMA ListGraphShows ==
  ASSUME TypeOK, Shown, ListGraph PROVE Shown'
<1>1. outcome = "graph" /\ program = "fleet" /\ UNCHANGED <<program, foreign>>
  BY DEF ListGraph, Shown
<1>2. CASE /\ listed' = listed + 1
           /\ found' = found \cup Existing[listed']
           /\ stayed' = IF listed = 0 THEN foreign ELSE stayed
           /\ outcome' = IF listed' < 3 THEN "graph"
                         ELSE IF GraphPasses(found') THEN "passed" ELSE "failed"
  <2>1. /\ listed \in 0..2 /\ listed' \in 1..3
        /\ stayed' \subseteq foreign /\ (listed # 0 => stayed' = stayed)
        /\ found \subseteq found' /\ Existing[listed'] \subseteq found'
    BY <1>2 DEF ListGraph, TypeOK
  <2>2. stayed' \cap ForeignNodes \subseteq found'
    BY <1>2, <2>1, ExistingTyped DEF Shown
  <2>3. listed' >= 2 => stayed' \cap ForeignTopics \subseteq found'
    BY <1>2, <2>1, ExistingTyped DEF Shown
  <2>4. listed' >= 3 => stayed' \cap ForeignServices \subseteq found'
    BY <1>2, <2>1, ExistingTyped DEF Shown
  <2>5. outcome' = "passed" => listed' = 3 /\ found' \cap Forbidden = {}
    BY <1>2, <2>1 DEF GraphPasses
  <2> QED
    BY <1>1, <2>2, <2>3, <2>4, <2>5 DEF Shown
<1>3. CASE outcome' = "error" /\ UNCHANGED <<listed, found, stayed>>
  BY <1>1, <1>3 DEF Shown
<1> QED
  BY <1>2, <1>3 DEF ListGraph

LEMMA ShownStep == TypeOK /\ Shown /\ [Next]_vars => Shown'
<1> SUFFICES ASSUME TypeOK, Shown, [Next]_vars PROVE Shown'
  OBVIOUS
<1>1. CASE ListGraph
  BY <1>1, ListGraphShows
<1>2. CASE \E s \in Streams : OnMessage(s)
  BY <1>2 DEF OnMessage, Turn, Shown, graph
<1>3. CASE OnStatus \/ TimesOut \/ UNCHANGED vars \/ \E n \in Carriers \cap alive : Crash(n)
  BY <1>3 DEF OnStatus, TimesOut, vars, Crash, Shown, graph
<1>4. CASE Judge
  <2>1. UNCHANGED <<program, listed, found, stayed>>
        /\ (outcome' = "graph" => program = "fleet")
        /\ (outcome' = "passed" => program # "fleet")
    BY <1>4 DEF Judge, graph
  <2> QED
    BY <2>1 DEF Shown
<1>5. CASE \E f \in Forbidden : ForeignComes(f) \/ ForeignGoes(f)
  <2>1. stayed' \subseteq stayed /\ UNCHANGED <<program, outcome, listed, found>>
    BY <1>5 DEF ForeignComes, ForeignGoes
  <2> QED
    BY <2>1 DEF Shown
<1> QED
  BY <1>1, <1>2, <1>3, <1>4, <1>5 DEF Next

\* A control endpoint that was there from the first list of the graph to the last
\* fails the fleet test.
THEOREM ForeignAlwaysNoticed == Spec => []ForeignIsNoticed
<1>1. TypeOK /\ Shown => ForeignIsNoticed
  <2> SUFFICES ASSUME TypeOK, Shown, outcome = "passed", program = "fleet"
               PROVE  stayed = {}
    BY DEF Shown, ForeignIsNoticed
  <2>1. listed >= 1 /\ listed >= 2 /\ listed >= 3 /\ found \cap Forbidden = {}
    BY DEF Shown
  <2>2. stayed \subseteq Forbidden
    BY DEF TypeOK
  <2> QED
    BY <2>1, <2>2 DEF Shown, Forbidden
<1> QED
  BY <1>1, ShownInit, ShownStep, InitTyped, TypeStep, PTL DEF Spec

-----------------------------------------------------------------------------
(* Why a test fails.                                                        *)

\* A stream of the sensor test that has been counted has a size.
Sized == program = "sensor" => \A s \in Streams : count[s] > 0 => size[s] # 0

\* As long as no node has crashed, the lists taken so far have shown what they should.
Complied ==
  program = "fleet" /\ alive = Started =>
    /\ listed >= 1 => RequiredNodes \subseteq found
    /\ listed >= 2 => RequiredTopics \subseteq found

ReasonInv == Sized /\ Complied /\ FailedForAReason

LEMMA ReasonInit == Init => ReasonInv
BY DEF Init, ReasonInv, Sized, Complied, FailedForAReason

\* The launch file of a fleet starts what its test requires.
LEMMA FleetStarted == program = "fleet" => RequiredNodes \subseteq Started
<1> SUFFICES ASSUME program = "fleet" PROVE RequiredNodes \subseteq Started
  OBVIOUS
<1>1. Started = Launched({"multi-vehicle"}, Vehicles)
  BY DEF Started, CapabilityOf
<1>2. Started = Root({"foxglove_bridge"}) \cup (Vehicles \X VehicleNodes)
  BY <1>1, SmokeAssumption DEF Launched, Fleet
<1> QED
  BY <1>2 DEF RequiredNodes

LEMMA SizedStep == TypeOK /\ Sized /\ [Next]_vars => Sized'
<1> SUFFICES ASSUME TypeOK, Sized, [Next]_vars PROVE Sized'
  OBVIOUS
<1>1. ASSUME NEW s \in Streams, OnMessage(s) PROVE Sized'
  <2>1. PICK m \in Messages : Callback(s, m)
    BY <1>1 DEF OnMessage
  <2>2. program' = program /\ Streams' = Streams
    BY <1>1 DEF OnMessage, Streams
  <2> SUFFICES ASSUME program = "sensor", NEW t \in Streams, count'[t] > 0
               PROVE  size'[t] # 0
    BY <2>2 DEF Sized
  <2>3. CASE ~m.valid
    <3>1. UNCHANGED <<count, size>>
      BY <2>1, <2>3 DEF Callback, SensorImage, SensorInfo, Refused
    <3> QED
      BY <3>1 DEF Sized
  <2>4. CASE m.valid
    <3>1. size' = [size EXCEPT ![s] = m.size] /\ Counted(s)
      BY <2>1, <2>4 DEF Callback, SensorImage, SensorInfo
    <3>2. m.size # 0
      BY SmokeAssumption DEF Messages
    <3>3. t # s => count'[t] = count[t] /\ size'[t] = size[t]
      BY <3>1 DEF Counted, TypeOK
    <3>4. size'[s] = m.size
      BY <3>1 DEF TypeOK
    <3> QED
      BY <3>2, <3>3, <3>4 DEF Sized
  <2> QED
    BY <2>3, <2>4
<1>2. CASE UNCHANGED <<program, count, size>>
  BY <1>2 DEF Sized, Streams
<1>3. ASSUME \/ OnStatus \/ Judge \/ TimesOut \/ ListGraph
             \/ \E f \in Forbidden : ForeignComes(f) \/ ForeignGoes(f)
             \/ \E n \in Carriers \cap alive : Crash(n)
             \/ UNCHANGED vars
      PROVE  UNCHANGED <<program, count, size>>
  BY <1>3 DEF OnStatus, Judge, TimesOut, ListGraph, ForeignComes, ForeignGoes, Crash, vars, kept
<1> QED
  BY <1>1, <1>2, <1>3 DEF Next

\* The first two lists show every node and topic required, unless a node has crashed.
LEMMA ListsComply ==
  ASSUME TypeOK, program = "fleet", alive = Started
  PROVE  RequiredNodes \subseteq Existing[1] /\ RequiredTopics \subseteq Existing[2]
<1>1. RequiredNodes \subseteq Existing[1]
  BY FleetStarted DEF Existing
<1>2. ASSUME NEW v \in Vehicles PROVE <<v, "robot_state_publisher">> \in alive
  BY FleetStarted DEF RequiredNodes, VehicleNodes
<1>3. {w \in Vehicles : <<w, "robot_state_publisher">> \in alive} = Vehicles
  BY <1>2
<1>4. Existing[2] =
        (Vehicles \X {"vehicle_odometry", "vehicle_status"})
          \cup {<<v, "robot_description">> : v \in Vehicles}
          \cup (foreign \cap ForeignTopics)
  BY <1>3 DEF Existing
<1>5. RequiredTopics \subseteq
        (Vehicles \X {"vehicle_odometry", "vehicle_status"})
          \cup {<<v, "robot_description">> : v \in Vehicles}
  BY DEF RequiredTopics
<1>6. RequiredTopics \subseteq Existing[2]
  BY <1>4, <1>5, Zenon
<1> QED
  BY <1>1, <1>6

LEMMA CompliedStep == TypeOK /\ Complied /\ [Next]_vars => Complied'
<1> SUFFICES ASSUME TypeOK, Complied, [Next]_vars,
                    program' = "fleet", alive' = Started'
             PROVE  /\ listed' >= 1 => RequiredNodes \subseteq found'
                    /\ listed' >= 2 => RequiredTopics \subseteq found'
  BY DEF Complied, RequiredNodes, RequiredTopics
<1>1. program = "fleet" /\ Started' = Started
  BY DEF Next, OnMessage, OnStatus, Judge, TimesOut, ListGraph, ForeignComes, ForeignGoes,
     Crash, vars, Started
<1>2. CASE ListGraph
  <2>1. alive = Started
    BY <1>1, <1>2 DEF ListGraph
  <2>2. CASE listed' = listed + 1 /\ found' = found \cup Existing[listed']
    <3>1. listed \in 0..2
      BY <1>2 DEF ListGraph, TypeOK
    <3>2. listed = 0 => RequiredNodes \subseteq found'
      BY <1>1, <2>1, <2>2, ListsComply
    <3>3. listed = 1 => RequiredTopics \subseteq found'
      BY <1>1, <2>1, <2>2, ListsComply
    <3>4. found \subseteq found'
      BY <2>2
    <3>5. listed >= 1 => RequiredNodes \subseteq found'
      BY <1>1, <2>1, <3>4 DEF Complied
    <3>6. listed >= 2 => RequiredTopics \subseteq found'
      BY <1>1, <2>1, <3>4 DEF Complied
    <3> QED
      BY <2>2, <3>1, <3>2, <3>3, <3>5, <3>6
  <2>3. CASE UNCHANGED <<listed, found>>
    BY <1>1, <2>1, <2>3 DEF Complied
  <2> QED
    BY <1>2, <2>2, <2>3 DEF ListGraph
<1>3. CASE ~ListGraph
  <2>1. UNCHANGED <<listed, found>>
    BY <1>3 DEF Next, OnMessage, OnStatus, Judge, TimesOut, ForeignComes, ForeignGoes, Crash,
       vars, graph
  <2>2. alive' \subseteq alive
    BY <1>3 DEF Next, OnMessage, OnStatus, Judge, TimesOut, ForeignComes, ForeignGoes, Crash,
       vars
  <2>3. alive = Started
    BY <1>1, <2>2 DEF TypeOK
  <2> QED
    BY <1>1, <2>1, <2>3 DEF Complied
<1> QED
  BY <1>2, <1>3

\* Enough samples were taken, and they do not pass.
LEMMA JudgeHasAReason ==
  ASSUME TypeOK, Sized, Judge PROVE FailedForAReason'
<1> SUFFICES ASSUME outcome' = "failed", errors = {}, arming # "armed" PROVE ~SizesAgree
  <2>1. UNCHANGED <<program, errors, size, arming>>
    BY DEF Judge, kept
  <2>2. SizesAgree' = SizesAgree
    BY <2>1 DEF SizesAgree, Agree
  <2> QED
    BY <2>1, <2>2 DEF FailedForAReason
<1>1. Complete /\ ~Passes
  BY DEF Judge
<1>2. program # "fleet" => arming = "disarmed"
  <2>1. program # "fleet" => arming # "none"
    BY <1>1 DEF Complete, SensorComplete, LidarComplete, VisionComplete, LandingComplete
  <2> QED
    BY <2>1 DEF TypeOK
<1>3. program = "sensor"
  <2>1. program \in {"sensor", "lidar", "vision", "landing", "fleet"}
    BY DEF TypeOK, Programs, CapabilityOf
  <2> QED
    BY <1>1, <1>2, <2>1 DEF Passes, LidarPasses, VisionPasses, LandingPasses, FleetPasses
<1>4. \/ size[Topic("color")] # size[Topic("color_info")]
      \/ size[Topic("depth")] # size[Topic("depth_info")]
  BY <1>1, <1>2, <1>3 DEF Passes, SensorPasses
<1>5. ASSUME NEW name \in SensorStreams PROVE size[Topic(name)] # 0
  <2>1. Topic(name) \in Streams
    BY <1>3 DEF Streams, StreamsOf, NamesOf, Topic
  <2>2. count[Topic(name)] >= Required
    BY <1>1, <1>3, <2>1 DEF Complete, SensorComplete
  <2>3. count[Topic(name)] > 0
    BY <2>1, <2>2, SmokeAssumption DEF TypeOK
  <2> QED
    BY <1>3, <2>1, <2>3 DEF Sized
<1> QED
  BY <1>3, <1>4, <1>5 DEF SizesAgree, Agree, SensorStreams

\* The three lists were taken, and they do not pass.
LEMMA GraphHasAReason ==
  ASSUME TypeOK, Complied, Shown, ListGraph, outcome' = "failed" PROVE FailedForAReason'
<1>1. program = "fleet" /\ UNCHANGED <<program, alive>> /\ Started' = Started
  BY DEF ListGraph, Shown, Started
<1>2. /\ listed' = listed + 1 /\ listed' \in 1..3 /\ ~(listed' < 3)
      /\ found \subseteq found' /\ ~GraphPasses(found')
  BY DEF ListGraph, TypeOK
<1> SUFFICES ASSUME alive = Started PROVE found' \cap Forbidden # {}
  BY <1>1 DEF FailedForAReason, Forbidden, ForeignNodes, ForeignTopics, ForeignServices
<1>3. listed = 2
  BY <1>2 DEF TypeOK
<1>4. RequiredNodes \cup RequiredTopics \subseteq found'
  BY <1>1, <1>2, <1>3 DEF Complied
<1> QED
  BY <1>2, <1>4 DEF GraphPasses

LEMMA ReasonStep == TypeOK /\ Shown /\ ReasonInv /\ [Next]_vars => FailedForAReason'
<1> SUFFICES ASSUME TypeOK, Shown, ReasonInv, [Next]_vars, outcome' = "failed"
             PROVE  FailedForAReason'
  BY DEF FailedForAReason
<1>1. CASE Judge
  BY <1>1, JudgeHasAReason DEF ReasonInv
<1>2. CASE ListGraph
  BY <1>2, GraphHasAReason DEF ReasonInv
<1>3. CASE UNCHANGED vars
  <2>1. Started' = Started /\ SizesAgree' = SizesAgree /\ Forbidden' = Forbidden
    BY <1>3 DEF vars, kept, Started, SizesAgree, Agree, Forbidden, ForeignNodes,
       ForeignTopics, ForeignServices
  <2> QED
    BY <1>3, <2>1 DEF vars, kept, graph, ReasonInv, FailedForAReason
<1>4. ~(\E s \in Streams : OnMessage(s)) /\ ~OnStatus /\ ~TimesOut
  BY DEF OnMessage, OnStatus, TimesOut, Turn
<1>5. CASE \E f \in Forbidden : ForeignComes(f) \/ ForeignGoes(f)
  BY <1>5 DEF ForeignComes, ForeignGoes
<1>6. CASE \E n \in Carriers \cap alive : Crash(n)
  BY <1>6 DEF Crash
<1> QED
  BY <1>1, <1>2, <1>3, <1>4, <1>5, <1>6 DEF Next

\* A test that fails has a reason.
THEOREM FailedAlwaysForAReason == Spec => []FailedForAReason
<1>1. Init => TypeOK /\ Shown /\ ReasonInv
  BY InitTyped, ShownInit, ReasonInit
<1>2. TypeOK /\ Shown /\ ReasonInv /\ [Next]_vars => (TypeOK /\ Shown /\ ReasonInv)'
  BY TypeStep, ShownStep, SizedStep, CompliedStep, ReasonStep DEF ReasonInv
<1>3. ReasonInv => FailedForAReason
  BY DEF ReasonInv
<1> QED
  BY <1>1, <1>2, <1>3, PTL DEF Spec

\* Where nothing foreign exists, the lists show nothing foreign.
LEMMA HealthyListsClean ==
  ASSUME TypeOK, foreign = {}, found \cap Forbidden = {}, [Next]_vars
  PROVE  found' \cap Forbidden' = {}
<1>1. (RequiredNodes \cup RequiredTopics) \cap Forbidden = {}
  <2>1. \A v \in Vehicles : v # 0
    BY SmokeAssumption
  <2> QED
    BY <2>1 DEF RequiredNodes, RequiredTopics, Forbidden, ForeignNodes, ForeignTopics,
       ForeignServices, Root
<1>2. ASSUME NEW i \in 1..3 PROVE Existing[i] \cap Forbidden = {}
  <2>1. CASE i = 1
    BY <1>1, <2>1 DEF Existing
  <2>2. CASE i = 2
    <3>1. Existing[2] \subseteq RequiredTopics
      <4>1. {<<v, "robot_description">> :
               v \in {w \in Vehicles : <<w, "robot_state_publisher">> \in alive}}
              \subseteq RequiredTopics
        <5>1. ASSUME NEW v \in Vehicles PROVE <<v, "robot_description">> \in RequiredTopics
          BY DEF RequiredTopics
        <5> QED
          BY <5>1
      <4>2. Vehicles \X {"vehicle_odometry", "vehicle_status"} \subseteq RequiredTopics
        BY DEF RequiredTopics
      <4>3. Existing[2] =
              (Vehicles \X {"vehicle_odometry", "vehicle_status"})
                \cup {<<v, "robot_description">> :
                        v \in {w \in Vehicles : <<w, "robot_state_publisher">> \in alive}}
                \cup (foreign \cap ForeignTopics)
        BY DEF Existing
      <4> QED
        BY <4>1, <4>2, <4>3, Zenon
    <3> QED
      BY <1>1, <2>2, <3>1
  <2>3. CASE i = 3
    BY <2>3 DEF Existing
  <2> QED
    BY <2>1, <2>2, <2>3
<1>3. \/ found' = found
      \/ listed' \in 1..3 /\ found' = found \cup Existing[listed']
  <2>1. CASE ListGraph
    BY <2>1 DEF ListGraph, TypeOK
  <2>2. CASE ~ListGraph
    BY <2>2 DEF Next, OnMessage, OnStatus, Judge, TimesOut, ForeignComes, ForeignGoes, Crash,
       vars, graph
  <2> QED
    BY <2>1, <2>2
<1>4. Forbidden' = Forbidden
  BY DEF Forbidden, ForeignNodes, ForeignTopics, ForeignServices
<1> QED
  BY <1>2, <1>3, <1>4

\* The safety half of HealthyProfilePasses: as long as nothing goes wrong, no test
\* fails, whatever the order in which messages and lists come.
THEOREM HealthyNeverFails == Spec /\ []Healthy => [](outcome # "failed")
<1>1. Init => found \cap Forbidden = {}
  BY DEF Init
<1>2. TypeOK /\ Healthy /\ found \cap Forbidden = {} /\ [Next]_vars
        => (found \cap Forbidden = {})'
  BY HealthyListsClean DEF Healthy
<1>3. Healthy /\ FailedForAReason /\ found \cap Forbidden = {} => outcome # "failed"
  BY DEF Healthy, FailedForAReason
<1> QED
  BY <1>1, <1>2, <1>3, FailedAlwaysForAReason, TypeCorrect, PTL DEF Spec
=============================================================================
