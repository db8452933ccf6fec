----------------------------- MODULE StreamPower -----------------------------
(***************************************************************************)
(* The streaming path under the PnP and power manager: VideoStream while   *)
(* the device is put to sleep and woken, the host opens and closes the     *)
(* streaming interface, and the device is removed and added again.         *)
(*                                                                         *)
(* The driver's D0 exit does nothing, VideoQueue and the default queue are *)
(* not power managed, and only the cleanup callback stops the timer.  So   *)
(* frames are taken and counted in low power as well, while the framework  *)
(* holds back IsoVideoInQueue, which is power managed.  Every stop waits   *)
(* for the requests the driver holds, and the driver only gives them back  *)
(* in later ticks and DPCs.                                                *)
(***************************************************************************)
EXTENDS VideoStream

VARIABLES
  power, \* "d0", "stopping" and "low"; "removing" and "removed"
  pipe   \* the host's streaming interface: "closed", "open", "closing"

powerVars == <<vars, power, pipe>>

(* IsoVideoInQueue hands out nothing on the way to low power and in it.    *)
Paused == power \in {"stopping", "low"}

Stopping == power \in {"stopping", "removing"}

UrbHeld == \E u \in Urbs : urb[u] = "held"

(* An URB of the host that is not back yet.                                *)
UrbOut == \E u \in Urbs : urb[u] # "idle"

------------------------------------------------------------------------------
(* What goes on in every state of the device                               *)

(* The rest of an IOCTL_SET_VIDEO_PROP under way.                          *)
SetOn(s) == (\E n \in FrameLengths : SetPropLength(s, n)) \/ SetPropPos(s)

(* A device that is being removed accepts no more requests.                *)
Requesting ==
  \/ power # "removing" /\ \E r \in Requests, n \in BufferLengths : Push(r, n)
  \/ \E r \in Requests : PushRefused(r)
  \/ \E s \in Setters :
       IF power = "removing" THEN SetOn(s) ELSE SetVideoProp(s)

(* The application and the host cancel requests when they like; the        *)
(* framework cancels them when it removes the device or closes the pipe.   *)
Cancelling ==
  \/ \E i \in DOMAIN videoQueue : CancelPush(i)
  \/ \E i \in DOMAIN isoQueue : CancelUrb(i)

Submitting == power = "d0" /\ pipe = "open" /\ \E u \in Urbs : SubmitUrb(u)

(* The queue is paused, whatever is in it.                                 *)
NoUrbPaused ==
  /\ Running /\ timer = "iso" /\ Paused
  /\ timer' = "armed"
  /\ currentRequest' \in IF isoReady THEN {currentRequest, NULL} ELSE {currentRequest}
  /\ UNCHANGED <<app, frame, timeout, prop, isoReady, isoQueue, urb, dpcs,
                 bugcheck, faults, host>>

Ticking == (~(Paused /\ timer = "iso") /\ EvtIsochTimer) \/ NoUrbPaused

Streaming ==
  /\ power # "removed"
  /\ \/ Requesting \/ Cancelling \/ Submitting \/ Ticking
     \/ \E c \in Cpus : DpcCompleteVidoeIsoUrb(c)
  /\ UNCHANGED <<power, pipe>>

------------------------------------------------------------------------------
(* The host opens and closes the streaming interface                       *)

(* DEVICE_DATA_ENDPOINT_ADD: a new queue each time; the old one is drained *)
(* by then.                                                                *)
OpenPipe ==
  /\ Running /\ power = "d0" /\ pipe = "closed"
  /\ pipe' = "open" /\ isoReady' = TRUE
  /\ UNCHANGED <<app, frame, tick, prop, isoQueue, urb, currentRequest, dpcs,
                 bugcheck, faults, host, power>>

ClosePipe ==
  /\ Running /\ power = "d0" /\ pipe = "open"
  /\ pipe' = "closing"
  /\ UNCHANGED <<vars, power>>

PipeClosed ==
  /\ Running /\ pipe = "closing" /\ ~UrbOut
  /\ pipe' = "closed"
  /\ UNCHANGED <<vars, power>>

------------------------------------------------------------------------------
(* The PnP and power manager                                               *)

(* On the way to low power the framework waits for the URBs the driver has.*)
Suspend ==
  /\ Running /\ power = "d0"
  /\ power' = "stopping"
  /\ UNCHANGED <<vars, pipe>>

Suspended ==
  /\ Running /\ power = "stopping" /\ ~UrbHeld
  /\ power' = "low"
  /\ UNCHANGED <<vars, pipe>>

Resume ==
  /\ Running /\ power = "low"
  /\ power' = "d0"
  /\ UNCHANGED <<vars, pipe>>

Unplug ==
  /\ Running /\ power \in {"d0", "low"}
  /\ power' = "removing"
  /\ UNCHANGED <<vars, pipe>>

(* All requests are back.  The cleanup callback stops the timer and waits  *)
(* for its callback; the deletion of the DPC waits for a run of it.        *)
Removed ==
  /\ Running /\ power = "removing"
  /\ ~Outstanding /\ ~UrbOut /\ ~Setting /\ timer = "armed"
  /\ \A c \in Cpus : dpc[c].pc = "idle"
  /\ power' = "removed" /\ pipe' = "closed"
  /\ UNCHANGED vars

(* A new device with a zeroed context and init_cam_prop.  The counter of   *)
(* processVideo is static and stays what it was.                           *)
AddAgain ==
  /\ Running /\ power = "removed"
  /\ power' = "d0"
  /\ videoQueue' = <<>> /\ currentVideoRequest' = NULL
  /\ frame_buf' = NULL /\ frame_pos' = 0 /\ frame_flip' = 0
  /\ frame_length' = InitialLength
  /\ timer' = "armed" /\ setProp' = [s \in Setters |-> "idle"]
  /\ isoReady' = FALSE /\ isoQueue' = <<>> /\ currentRequest' = NULL
  /\ dpcQueued' = FALSE /\ dpc' = [c \in Cpus |-> Idle]
  /\ asm' = Closed /\ picture' = NULL
  /\ UNCHANGED <<req, bufLen, timeout, urb, bugcheck, faults, pipe>>

PowerInit == Init /\ power = "d0" /\ pipe = "closed"

PnP ==
  \/ OpenPipe \/ ClosePipe \/ PipeClosed
  \/ Suspend \/ Suspended \/ Resume
  \/ Unplug \/ Removed \/ AddAgain

PowerNext == Streaming \/ PnP \/ (Stopped /\ UNCHANGED <<power, pipe>>)

PowerSpec == PowerInit /\ [][PowerNext]_powerVars

(* The timer ticks and queued DPCs run, in every power state.  A request   *)
(* in progress goes on; the framework cancels what it drains and goes on   *)
(* when what it waits for has happened; WdfTimerStop cancels the timer, so *)
(* that ticks cannot put off a removal for ever.  Nothing is assumed of    *)
(* the application, the host and the PnP manager.                          *)
Draining ==
  /\ \/ power = "removing" /\ Cancelling
     \/ pipe = "closing" /\ \E i \in DOMAIN isoQueue : CancelUrb(i)
  /\ UNCHANGED <<power, pipe>>

PowerFair ==
  /\ WF_powerVars(power # "removed" /\ Ticking /\ UNCHANGED <<power, pipe>>)
  /\ \A c \in Cpus :
       WF_powerVars(/\ power # "removed" /\ DpcCompleteVidoeIsoUrb(c)
                    /\ UNCHANGED <<power, pipe>>)
  /\ \A s \in Setters : WF_powerVars(SetOn(s) /\ UNCHANGED <<power, pipe>>)
  /\ WF_powerVars(Draining)
  /\ WF_powerVars(Suspended) /\ WF_powerVars(PipeClosed) /\ SF_powerVars(Removed)

FairPowerSpec == PowerSpec /\ PowerFair

------------------------------------------------------------------------------
(* Properties                                                              *)

(* The counter of processVideo is 0 when a device goes, so that it cannot  *)
(* shorten the time of a frame of the next device or make it discard one.  *)
CounterFresh == power = "removed" => timeout = 0

(* Every pushed frame comes back, in low power and on removal too:         *)
(* TimeoutTicks bounds the time a host that takes no URBs can hold it up.  *)
FrameReturned ==
  \A r \in Requests : req[r] \in {"queued", "held"} ~> req[r] = "done" \/ ~Running

(* An URB the driver took comes back, unless a DPC outlived its tick.      *)
UrbReturned ==
  \A u \in Urbs :
    urb[u] = "held" ~> urb[u] # "held" \/ "dpc_overlap" \in faults \/ ~Running

(* Nothing the driver holds keeps the device from going to sleep or from   *)
(* being removed, unless a DPC outlived its tick and lost an URB.          *)
StopsComplete ==
  Stopping ~> ~Stopping \/ "dpc_overlap" \in faults \/ ~Running

------------------------------------------------------------------------------
(* The intended use over power changes, removal and new devices.           *)
CalmPowerSpec == PowerInit /\ [][PowerNext /\ faults' = {}]_powerVars

(* The old device has given back every frame when the next one starts      *)
(* from nothing.                                                           *)
Renewal ==
  /\ power = "removed" /\ Pending = <<>> /\ ~Sending
  /\ Abstract!Empty'

(* In calm use each device implements FrameDelivery from its addition to   *)
(* its removal: putting it to sleep, waking it and closing the interface   *)
(* lose, repeat and reorder no frame.  The frame that a sleep interrupts   *)
(* may be abandoned, because the ticks go on, and spoils the next one.     *)
DeliversPerDevice ==
  /\ Abstract!Empty
  /\ [][Abstract!Deliver \/ Renewal]_<<Pending, Sending, Spoiled, picture>>
=============================================================================
