---------------------------- MODULE MCVideoStream ----------------------------
(* Small instances of VideoStream for TLC.                                 *)
EXTENDS VideoStreamInv, TLC

(* IOCTL_SET_VIDEO_PROP accepts a negative width or height.                *)
LengthsWithNegative == {-1, 1, 2}

(* The requests, URBs, processors and threads are interchangeable.         *)
Symmetric ==
  Permutations(Requests) \cup Permutations(Urbs) \cup Permutations(Cpus)
    \cup Permutations(Setters)

(* What the driver does never depends on what the host assembled: states   *)
(* that differ in the observers only are explored once.                    *)
DriverState == <<app, frame, tick, prop, iso, dpcs, bugcheck, faults>>
=============================================================================
