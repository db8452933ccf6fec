--------------------------- MODULE MCCameraControl ---------------------------
(* Small instances of CameraControl for TLC.                               *)
EXTENDS CameraControl

(* Below, at and above the limits; -1 stands for the negative values of    *)
(* the signed fields.                                                      *)
BoundarySamples == {-1, 0, 10, 11}

(* No action reads the last answer, and no property of camera_commands.    *)
WithoutReply == <<camera, bugcheck, transfers>>
=============================================================================
