---------------------------- MODULE MCStreamPower ----------------------------
(* Small instances of StreamPower for TLC.                                 *)
EXTENDS StreamPower

(* What the driver does never depends on what the host assembled, and no   *)
(* property of these runs mentions it: states that differ in the observers *)
(* only are explored once.  They have the same steps, so that behaviours   *)
(* and the enabled actions stay what they are.                             *)
DriverState ==
  <<app, frame, tick, prop, iso, dpcs, bugcheck, faults, power, pipe>>
=============================================================================
