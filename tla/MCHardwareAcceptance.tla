------------------------- MODULE MCHardwareAcceptance -------------------------
(* Model checking of HardwareAcceptance: two PX4s, one of them pinned, and a  *)
(* ground station on the link, in place of each other; two parameters, so one *)
(* can be given up while the other is read.                                   *)
EXTENDS HardwareAcceptance

CONSTANTS board, spare, station, nobody, cfg, port

MCSystems    == {board, spare, station}
MCPx4        == {board, spare}
MCPinned     == {board, station}
MCParameters == {cfg, port}
=============================================================================
