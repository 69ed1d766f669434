----------------------------- MODULE DrnVizLaunch -----------------------------
(***************************************************************************)
(* What the ROS container starts: visualize.launch.py for one vehicle,     *)
(* fleet.launch.py for a fleet, and the routes its nodes open from Gazebo  *)
(* topics to the topics that the smoke tests read.                         *)
(*                                                                         *)
(* A node is <<namespace, name>>; namespace 0 is the root, namespace v     *)
(* stands for /px4_v.  A Gazebo topic is <<model, sensor>>, with "any" for *)
(* a topic whose name does not contain a model.                            *)
(***************************************************************************)
EXTENDS Naturals, FiniteSets

Root(names) == {0} \X names

SupportedCapabilities ==
  {"depth-camera", "laser-scan", "precision-landing", "vision-odometry"}

CommonNodes ==
  Root({"robot_state_publisher", "foxglove_bridge", "odometry_tf_bridge", "drn_control"})

DepthNodes   == Root({"depth_camera_bridge", "depth_camera_tf"})
LandingNodes == Root({"landing_camera_bridge", "landing_target_detector", "landing_camera_tf"})
VisionNodes  == Root({"vision_odometry_bridge", "vision_odometry_adapter"})
\* Fault: the adapter of the LiDAR is not started.
LidarNodesWithoutAdapter == Root({"lidar_bridge", "lidar_world_markers", "lidar_tf"})

LidarNodes   == Root({"lidar_bridge", "laser_scan_adapter", "lidar_world_markers", "lidar_tf"})

\* An unknown capability ends the launch before any node is started.
Visualize(capabilities) ==
  IF ~(capabilities \subseteq SupportedCapabilities) THEN {}
  ELSE CommonNodes
       \cup (IF "depth-camera" \in capabilities THEN DepthNodes ELSE {})
       \cup (IF "precision-landing" \in capabilities THEN LandingNodes ELSE {})
       \cup (IF "vision-odometry" \in capabilities THEN VisionNodes ELSE {})
       \cup (IF "laser-scan" \in capabilities THEN LidarNodes ELSE {})

\* The observers of each vehicle; no flight control is loaded.
VehicleNodes == {"map_origin", "robot_state_publisher", "odometry_tf_bridge"}

Fleet(vehicles) ==
  IF Cardinality(vehicles) \notin 2..4 THEN {}
  ELSE Root({"foxglove_bridge"}) \cup (vehicles \X VehicleNodes)

\* The entrypoint picks the launch file by the profile's capabilities.
Launched(capabilities, vehicles) ==
  IF "multi-vehicle" \in capabilities THEN Fleet(vehicles) ELSE Visualize(capabilities)

-----------------------------------------------------------------------------
(* Routes: the Gazebo topic a stream comes from, and the nodes that carry it.*)

Route(source, names) == [source |-> source, nodes |-> Root(names)]

\* The calibration of the colour camera is taken from x500_depth_0 whatever the
\* model is; the depth camera has topics without a model.
DepthRoutes(model) ==
  [color      |-> Route(<<model, "color">>, {"depth_camera_bridge"}),
   color_info |-> Route(<<"x500_depth_0", "color_info">>, {"depth_camera_bridge"}),
   depth      |-> Route(<<"any", "depth">>, {"depth_camera_bridge"}),
   depth_info |-> Route(<<"any", "depth_info">>, {"depth_camera_bridge"})]

\* The detector answers every image, with a target when it sees the marker.
LandingRoutes(model) ==
  LET detected == Route(<<model, "landing">>,
                        {"landing_camera_bridge", "landing_target_detector"}) IN
  [landing      |-> Route(<<model, "landing">>, {"landing_camera_bridge"}),
   landing_info |-> Route(<<model, "landing_info">>, {"landing_camera_bridge"}),
   visible      |-> detected,
   target       |-> detected]

VisionRoutes(model) ==
  [vision |-> Route(<<model, "vision">>, {"vision_odometry_bridge", "vision_odometry_adapter"})]

\* The walls come from a node that reads no Gazebo topic.
LidarRoutes(model) ==
  [scan  |-> Route(<<model, "scan">>, {"lidar_bridge", "laser_scan_adapter"}),
   walls |-> Route(<<"any", "walls">>, {"lidar_world_markers"})]

\* External: what Gazebo and the nodes offer once the model is spawned.
Offered(model) ==
  {model, "any"} \X {"color", "color_info", "depth", "depth_info", "landing",
                     "landing_info", "vision", "scan", "walls"}
=============================================================================
