----------------------- MODULE HardwareAcceptanceProofs ------------------------
(***************************************************************************)
(* Proofs about HardwareAcceptance, for any number of systems, parameters  *)
(* and timestamps.  A passing report stands at the end of a dozen checks,  *)
(* none of which is repeated; the inductive invariant says at every check  *)
(* what the ones before it have established.                               *)
(***************************************************************************)
EXTENDS HardwareAcceptance, TLAPS

\* The program points after the identity, and after the parameters.
Identifies == {"parameter", "types", "nodes", "topics", "services", "sample"}
Configured == Identifies \ {"parameter"}

\* What the MAVLink part says of the vehicle.
Identity ==
  system \in Px4 \cap Pinned /\ ~firstArmed /\ heard = {system} /\ answered = {system}

\* The link: while the window is open, seen_systems misses no PX4; once it is shut,
\* no other PX4 was heard, and every answer is from the first system.
LinkInv ==
  /\ pc = "discover" => seen = {system} \cup heard
  /\ pc \in {"discover", "version"} => system \in Systems /\ (system \in Px4 => system \in heard)
  /\ pc = "version" => heard \subseteq {system}
  /\ pc \in {"heartbeat", "discover", "version"} => answered = {}
  /\ pc \in Identifies => Identity

\* The parameters, the graph and the samples.
RosInv ==
  /\ pc \in Checks => parameters \cup pending \subseteq Parameters
  /\ pc \in Configured => parameters = Parameters
  /\ pc = "sample" => ~listed
  /\ stamps # {} => arming # {}

\* The report: "passed" comes from the last check and from nowhere else.
ReportInv ==
  /\ pc \in Checks => verdict = "failed" /\ exitCode = 1
  /\ pc \in Checks \cup {"report"} => report = "none"
  /\ verdict = "passed" =>
       /\ Identity /\ parameters = Parameters /\ ~listed
       /\ TwoStamps /\ arming = {"disarmed"} /\ odometry
  /\ report = "passed" => verdict = "passed"
  /\ exitCode = 0 =>
       verdict = "passed" /\ (pc \in {"written", "exited"} => report = "passed")

IInv == TypeOK /\ LinkInv /\ RosInv /\ ReportInv

\* The variables keep their types: the step of each action.
LEMMA TypeStep == ASSUME TypeOK, [Next]_vars PROVE TypeOK'
<1> USE SystemsAssumption DEF TypeOK, Checks, Fail, Then, link, reads, ros
<1>1. CASE FirstHeartbeat
  BY <1>1 DEF FirstHeartbeat
<1>2. CASE Discover
  BY <1>2 DEF Discover, Noted
<1>3. CASE SingleSystem
  BY <1>3 DEF SingleSystem
<1>4. CASE Version
  BY <1>4 DEF Version
<1>5. CASE ReadParameter
  BY <1>5 DEF ReadParameter
<1>6. CASE ValidateParameters \/ TopicTypes
  BY <1>6 DEF ValidateParameters, TopicTypes
<1>7. CASE ListNodes \/ ListTopics \/ ListServices
  <2>1. CASE ListNodes
    BY <2>1 DEF ListNodes, List
  <2>2. CASE ListTopics
    BY <2>2 DEF ListTopics, List
  <2>3. CASE ListServices
    BY <2>3 DEF ListServices, List
  <2> QED
    BY <1>7, <2>1, <2>2, <2>3
<1>8. CASE OnStatus
  BY <1>8 DEF OnStatus
<1>9. CASE OnOdometry
  BY <1>9 DEF OnOdometry
<1>10. CASE Judge
  BY <1>10 DEF Judge
<1>11. CASE WriteReport
  BY <1>11 DEF WriteReport, NotWritten
<1>12. CASE Exit \/ Interrupt
  BY <1>12 DEF Exit, Interrupt
<1>13. CASE TimePasses
  BY <1>13 DEF TimePasses
<1>14. CASE UNCHANGED vars
  BY <1>14 DEF vars
<1> QED
  BY <1>1, <1>2, <1>3, <1>4, <1>5, <1>6, <1>7, <1>8, <1>9, <1>10, <1>11, <1>12, <1>13,
     <1>14
  DEF Next, Program

\* Type correctness: no check leaves anything but a verdict of the two, whatever
\* the link and the graph deliver.
THEOREM TypeCorrect == Spec => []TypeOK
<1>1. Init => TypeOK
  BY DEF Init, TypeOK, Checks
<1> QED
  BY <1>1, TypeStep, PTL DEF Spec

\* The link part: each step of the MAVLink checks keeps it, and the later checks do
\* not touch what it speaks of.
LEMMA LinkStep == ASSUME IInv, [Next]_vars PROVE LinkInv'
<1> USE DEF IInv, LinkInv, Identity, Identifies, Checks, Fail, Then
<1>1. CASE FirstHeartbeat
  BY <1>1 DEF FirstHeartbeat, link
<1>2. CASE Discover
  <2>1. PICK s \in Systems :
          /\ seen' = Noted(s)
          /\ heard' = heard \cup ({s} \cap Px4)
    BY <1>2 DEF Discover
  <2>2. seen' = {system} \cup heard'
    BY <1>2, <2>1 DEF Discover, Noted
  <2> QED
    BY <1>2, <2>1, <2>2 DEF Discover
<1>3. CASE SingleSystem
  BY <1>3 DEF SingleSystem, link
<1>4. CASE Version
  BY <1>4 DEF Version, link, Accepts, Identified
<1>5. CASE ReadParameter
  BY <1>5 DEF ReadParameter, link, Accepts
<1>6. CASE ValidateParameters \/ TopicTypes
  BY <1>6 DEF ValidateParameters, TopicTypes, link
<1>7. CASE ListNodes \/ ListTopics \/ ListServices
  <2>1. /\ pc \in Identifies
        /\ pc' \in Identifies \cup {"report"}
        /\ UNCHANGED <<link, answered>>
    BY <1>7 DEF ListNodes, ListTopics, ListServices, List
  <2> QED
    BY <2>1 DEF link
<1>8. CASE OnStatus \/ OnOdometry \/ Judge
  BY <1>8 DEF OnStatus, OnOdometry, Judge, link
<1>9. CASE WriteReport \/ Exit \/ Interrupt \/ TimePasses
  BY <1>9 DEF WriteReport, NotWritten, Exit, Interrupt, TimePasses, link
<1>10. CASE UNCHANGED vars
  BY <1>10 DEF vars, link
<1> QED
  BY <1>1, <1>2, <1>3, <1>4, <1>5, <1>6, <1>7, <1>8, <1>9, <1>10 DEF Next, Program

\* The parameters that are missing at the end of the waits are found missing; what
\* the lists showed is kept to the last; every status sample leaves a state.
LEMMA RosStep == ASSUME IInv, [Next]_vars PROVE RosInv'
<1> USE DEF IInv, TypeOK, RosInv, Identifies, Configured, Checks, Fail, Then
<1>1. CASE FirstHeartbeat \/ Discover \/ SingleSystem \/ Version
  BY <1>1 DEF FirstHeartbeat, Discover, SingleSystem, Version, reads, ros
<1>2. CASE ReadParameter
  BY <1>2 DEF ReadParameter, ros
<1>3. CASE ValidateParameters \/ TopicTypes
  BY <1>3 DEF ValidateParameters, AllRead, TopicTypes, reads, ros
<1>4. CASE ListNodes \/ ListTopics \/ ListServices
  BY <1>4 DEF ListNodes, ListTopics, ListServices, List, reads
<1>5. CASE OnStatus \/ OnOdometry
  BY <1>5 DEF OnStatus, OnOdometry, reads
<1>6. CASE Judge \/ WriteReport \/ Exit \/ Interrupt \/ TimePasses
  BY <1>6 DEF Judge, WriteReport, NotWritten, Exit, Interrupt, TimePasses, reads, ros
<1>7. CASE UNCHANGED vars
  BY <1>7 DEF vars, reads, ros
<1> QED
  BY <1>1, <1>2, <1>3, <1>4, <1>5, <1>6, <1>7 DEF Next, Program

\* The report part: only Judge sets the verdict, and nothing read before it changes
\* afterwards.
LEMMA ReportStep == ASSUME IInv, [Next]_vars PROVE ReportInv'
<1> USE DEF IInv, ReportInv, Checks, Fail, Then
<1>1. CASE pc \in Checks /\ verdict' = verdict /\ exitCode' = exitCode /\ report' = report
  BY <1>1
<1>2. CASE FirstHeartbeat \/ Discover \/ SingleSystem \/ Version \/ ReadParameter
           \/ ValidateParameters \/ TopicTypes \/ OnStatus \/ OnOdometry
  BY <1>1, <1>2 DEF FirstHeartbeat, Discover, SingleSystem, Version, ReadParameter,
                    ValidateParameters, TopicTypes, OnStatus, OnOdometry
<1>3. CASE ListNodes \/ ListTopics \/ ListServices
  BY <1>1, <1>3 DEF ListNodes, ListTopics, ListServices, List
<1>4. CASE Judge
  <2>1. CASE Disarmed /\ odometry /\ pc' = "report" /\ verdict' = "passed" /\ exitCode' = 0
    <3>1. Identity /\ parameters = Parameters /\ ~listed
      BY <1>4 DEF Judge, LinkInv, RosInv, Identifies, Configured
    <3>2. arming = {"disarmed"}
      BY <2>1 DEF Disarmed, TwoStamps, RosInv
    <3>3. UNCHANGED <<system, firstArmed, heard, answered, parameters, listed, stamps,
                      arming, odometry, report>>
      BY <1>4 DEF Judge, link, reads, ros
    <3> QED
      BY <1>4, <2>1, <3>1, <3>2, <3>3 DEF Judge, Disarmed, TwoStamps, Identity
  <2>2. CASE Fail
    BY <1>1, <1>4, <2>2 DEF Judge
  <2> QED
    BY <1>4, <2>1, <2>2 DEF Judge
<1>5. CASE WriteReport
  BY <1>5 DEF WriteReport, NotWritten, link, reads, ros, Identity, TwoStamps
<1>6. CASE Exit \/ Interrupt \/ TimePasses
  BY <1>6 DEF Exit, Interrupt, TimePasses, link, reads, ros, Identity, TwoStamps
<1>7. CASE UNCHANGED vars
  BY <1>7 DEF vars, link, reads, ros, Identity, TwoStamps
<1> QED
  BY <1>2, <1>3, <1>4, <1>5, <1>6, <1>7 DEF Next, Program

\* The inductive invariant holds at every point of every run.
LEMMA InvHolds == Spec => []IInv
<1>1. Init => IInv
  <2> SUFFICES ASSUME Init PROVE IInv
    OBVIOUS
  <2>1. TypeOK
    BY DEF Init, TypeOK, Checks
  <2>2. LinkInv /\ RosInv
    BY DEF Init, LinkInv, RosInv, Identifies, Configured, Checks
  <2>3. ReportInv
    BY DEF Init, ReportInv, Checks
  <2> QED
    BY <2>1, <2>2, <2>3 DEF IInv
<1>2. IInv /\ [Next]_vars => IInv'
  BY TypeStep, LinkStep, RosStep, ReportStep DEF IInv
<1> QED
  BY <1>1, <1>2, PTL DEF Spec

\* A report that says "passed" is about one pinned PX4: it alone answered, and no
\* other was heard while the window was open, whatever number of systems send.
THEOREM PassedOneVehicle == Spec => []PassedIsOneVehicle
<1>1. IInv => PassedIsOneVehicle
  BY DEF IInv, ReportInv, Identity, PassedIsOneVehicle
<1> QED
  BY <1>1, InvHolds, PTL

\* ... whose status samples were all disarmed, on a graph without control endpoints.
THEOREM PassedDisarmed == Spec => []PassedIsDisarmed
<1>1. IInv => PassedIsDisarmed
  BY DEF IInv, ReportInv, Identity, PassedIsDisarmed
<1> QED
  BY <1>1, InvHolds, PTL

\* Exit status 0 stands for a report on disk that says "passed".
THEOREM ExitZeroReported == Spec => []ExitZeroIsReported
<1>1. IInv => ExitZeroIsReported
  BY DEF IInv, ReportInv, ExitZeroIsReported
<1> QED
  BY <1>1, InvHolds, PTL
=============================================================================
