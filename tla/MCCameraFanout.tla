--------------------------- MODULE MCCameraFanout ---------------------------
(* CameraFanout for one viewer.                                            *)
EXTENDS CameraFanout, TLC

CONSTANTS v1, r1
=============================================================================
