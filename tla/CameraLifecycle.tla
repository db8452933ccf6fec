--------------------------- MODULE CameraLifecycle ---------------------------
(***************************************************************************)
(* The life of a camera: DeviceAdd, power up (plug in), power down, and    *)
(* the cleanup callback, call by call, where each call into the framework  *)
(* may fail.  The PnP manager drives it; the isochronous timer ticks and   *)
(* the host adds endpoints meanwhile.                                      *)
(*                                                                         *)
(* What is kept are the handles of the device context that one routine     *)
(* fills and another one uses or tests.                                    *)
(***************************************************************************)
EXTENDS Naturals

VARIABLES
  step,         \* the call to make next, or where the device rests
  UdecxCamInit, \* the UDECXUSBDEVICE_INIT: "null" or "owned"
  VCamDevice,   \* the UDECXUSBDEVICE: "none", "created", "plugged"
  timer,        \* isoTransferTimer: "none", "stopped", "armed"
  dpc,          \* completeUrbDpc # NULL
  control,      \* ControlEndpoint # NULL
  isoQueue,     \* IsoVideoInQueue # NULL
  enqueued,     \* observer: processVideo got as far as WdfDpcEnqueue
  bugcheck,
  faults        \* what did not go as intended, so far

handles == <<UdecxCamInit, VCamDevice, timer, dpc, control, isoQueue, enqueued>>
lcVars  == <<step, handles, bugcheck, faults>>

Running == bugcheck = "none"

(* The call named s is made, and t follows.                                *)
Call(s, t) == Running /\ step = s /\ step' = t /\ UNCHANGED <<bugcheck, faults>>

(* It fails, and what was built is given back to the framework.            *)
Fail(s, t) ==
  /\ Running /\ step = s /\ step' = t
  /\ faults' = faults \cup {"call_failed"}
  /\ UNCHANGED <<handles, bugcheck>>

Stop(s, why) ==
  Running /\ step = s /\ bugcheck' = why /\ UNCHANGED <<step, handles, faults>>

------------------------------------------------------------------------------
(* ControllerWdfEvtDeviceAdd                                               *)

DeviceAdd == Call("absent", "prepare") /\ UNCHANGED handles

(* Everything before WdfDeviceCreate; a failure leaves nothing behind.     *)
Prepare ==
  \/ Call("prepare", "create") /\ UNCHANGED handles
  \/ Fail("prepare", "absent")

(* WdfDeviceCreate, with the first free name.                              *)
CreateDevice ==
  \/ Call("create", "publish") /\ UNCHANGED handles
  \/ Fail("create", "absent")

(* Symbolic link and device interface.  From here on a failure makes the   *)
(* framework delete the device, which runs the cleanup callback.           *)
Publish ==
  \/ Call("publish", "emulate") /\ UNCHANGED handles
  \/ Fail("publish", "cleanup")

(* The status of UdecxWdfDeviceAddUsbDeviceEmulation is overwritten.       *)
Emulate ==
  \/ Call("emulate", "queues") /\ UNCHANGED handles
  \/ Fail("emulate", "queues")

(* Context, default queue, VideoQueue; then the list and the properties.   *)
CreateQueues ==
  \/ Call("queues", "allocate") /\ UNCHANGED handles
  \/ Fail("queues", "cleanup")

(* Mutant: the result is not tested.                                       *)
AllocateUnchecked ==
  /\ Call("allocate", "describe")
  /\ UdecxCamInit' \in {"owned", "null"}
  /\ UNCHANGED <<VCamDevice, timer, dpc, control, isoQueue, enqueued>>

(* Usb_Initialize: allocate the init structure and describe the device.    *)
Allocate ==
  \/ /\ Call("allocate", "describe")
     /\ UdecxCamInit' = "owned"
     /\ UNCHANGED <<VCamDevice, timer, dpc, control, isoQueue, enqueued>>
  \/ Fail("allocate", "cleanup")

Describe ==
  \/ Call("describe", "added") /\ UNCHANGED handles
  \/ Fail("describe", "cleanup")

------------------------------------------------------------------------------
(* ControllerWdfEvtDeviceD0Entry: the camera is plugged in when the device *)
(* comes from D3Final (the first start, or a start after it was stopped),  *)
(* and nothing happens when it comes from a low power state.               *)

(* Mutants: the previous state is tested the wrong way round, or not.      *)
D0EntryNever == Call("added", "suspended") /\ UNCHANGED handles

ResumeAlways == Call("suspended", "config") /\ UNCHANGED handles

D0Entry == Call("added", "config") /\ UNCHANGED handles

D0EntryAgain ==
  /\ Running /\ step = "stopped" /\ step' = "config"
  /\ faults' = faults \cup {"restarted"}
  /\ UNCHANGED <<handles, bugcheck>>

Resume == Call("suspended", "working") /\ UNCHANGED handles

(* Usb_ReadDescriptorsAndPlugIn: the configuration descriptor goes to the  *)
(* init structure, ...                                                     *)
AddConfiguration ==
  \/ UdecxCamInit = "owned" /\ Call("config", "camera") /\ UNCHANGED handles
  \/ UdecxCamInit = "owned" /\ Fail("config", "cleanup")
  \/ UdecxCamInit = "null" /\ Stop("config", "null_init")

(* Mutant: the init structure survives, as if a copy had been passed.      *)
CreateCameraKeepsInit ==
  /\ Call("camera", "timer")
  /\ VCamDevice' = "created"
  /\ UNCHANGED <<UdecxCamInit, timer, dpc, control, isoQueue, enqueued>>

(* ... UdecxUsbDeviceCreate uses the init structure up, ...                *)
CreateCamera ==
  \/ /\ Call("camera", "timer")
     /\ VCamDevice' = "created" /\ UdecxCamInit' = "null"
     /\ UNCHANGED <<timer, dpc, control, isoQueue, enqueued>>
  \/ Fail("camera", "cleanup")

(* ... the timer is created and started at once, ...                       *)
CreateTimer ==
  \/ /\ Call("timer", "dpc")
     /\ timer' = "armed"
     /\ UNCHANGED <<UdecxCamInit, VCamDevice, dpc, control, isoQueue, enqueued>>
  \/ Fail("timer", "cleanup")

(* ... before the DPC that it enqueues, ...                                *)
CreateDpc ==
  \/ /\ Call("dpc", "plug")
     /\ dpc' = TRUE
     /\ UNCHANGED <<UdecxCamInit, VCamDevice, timer, control, isoQueue, enqueued>>
  \/ Fail("dpc", "cleanup")

(* ... and the camera is plugged in.                                       *)
PlugIn ==
  \/ /\ Call("plug", "working")
     /\ VCamDevice' = "plugged"
     /\ UNCHANGED <<UdecxCamInit, timer, dpc, control, isoQueue, enqueued>>
  \/ Fail("plug", "cleanup")

------------------------------------------------------------------------------
(* ControllerWdfEvtDeviceD0Exit                                            *)

Suspend == Call("working", "suspended") /\ UNCHANGED handles

(* To D3Final: Usb_Disconnect unplugs the camera only if there is an init  *)
(* structure.                                                              *)
D0ExitFinal == Call("working", "disconnect") /\ UNCHANGED handles

Disconnect ==
  /\ Call("disconnect", "stopped")
  /\ VCamDevice' = IF UdecxCamInit # "null" THEN "none" ELSE VCamDevice
  /\ UNCHANGED <<UdecxCamInit, timer, dpc, control, isoQueue, enqueued>>

(* The PnP manager removes the device, perhaps before it was started.      *)
Remove ==
  \E from \in {"stopped", "suspended"} :
    Call(from, "cleanup") /\ UNCHANGED handles

RemoveEarly ==
  /\ Running /\ step = "added" /\ step' = "cleanup"
  /\ faults' = faults \cup {"never_started"}
  /\ UNCHANGED <<handles, bugcheck>>

------------------------------------------------------------------------------
(* ControllerWdfEvtCleanupCallback                                         *)

(* Mutant: the timer is not stopped.                                       *)
CleanupLeavesTimer == Call("cleanup", "destroy") /\ UNCHANGED handles

(* WdfTimerStop, without a test of the handle ...                          *)
Cleanup ==
  \/ timer = "none" /\ Stop("cleanup", "null_timer")
  \/ /\ timer # "none" /\ Call("cleanup", "destroy")
     /\ timer' = "stopped"
     /\ UNCHANGED <<UdecxCamInit, VCamDevice, dpc, control, isoQueue, enqueued>>

(* ... and Usb_Destroy.                                                    *)
Destroy ==
  /\ Call("destroy", "delete")
  /\ UdecxCamInit' = "null"
  /\ UNCHANGED <<VCamDevice, timer, dpc, control, isoQueue, enqueued>>

(* The framework deletes the device with its children and its context.     *)
Delete ==
  /\ Call("delete", "absent")
  /\ UdecxCamInit' = "null" /\ VCamDevice' = "none" /\ timer' = "none"
  /\ dpc' = FALSE /\ control' = FALSE /\ isoQueue' = FALSE /\ enqueued' = FALSE

------------------------------------------------------------------------------
(* The host                                                                *)

(* EvtUdecxUsbDeviceControlEndpointAdd.                                    *)
ControlEndpointAdd ==
  /\ Running /\ VCamDevice = "plugged" /\ step # "delete"
  /\ control' = TRUE
  /\ UNCHANGED <<step, UdecxCamInit, VCamDevice, timer, dpc, isoQueue, enqueued,
                 bugcheck, faults>>

(* The host selects the streaming interface: DEVICE_DATA_ENDPOINT_ADD      *)
(* creates IsoVideoInQueue, also when the creation of the endpoint then    *)
(* fails.                                                                  *)
EndpointAdd ==
  /\ Running /\ VCamDevice = "plugged" /\ control /\ step # "delete"
  /\ isoQueue' = TRUE
  /\ UNCHANGED <<step, UdecxCamInit, VCamDevice, timer, dpc, control, enqueued,
                 bugcheck, faults>>

(* Mutant: the queue is not tested.                                        *)
TickAlways ==
  /\ Running /\ timer = "armed"
  /\ enqueued' = TRUE
  /\ UNCHANGED <<step, UdecxCamInit, VCamDevice, timer, dpc, control, isoQueue,
                 bugcheck, faults>>

(* EvtIsochTimer goes as far as WdfDpcEnqueue if there is a queue, and     *)
(* starts the timer again.                                                 *)
Tick ==
  /\ Running /\ timer = "armed" /\ isoQueue
  /\ enqueued' = TRUE
  /\ UNCHANGED <<step, UdecxCamInit, VCamDevice, timer, dpc, control, isoQueue,
                 bugcheck, faults>>

------------------------------------------------------------------------------
Init ==
  /\ step = "absent" /\ UdecxCamInit = "null" /\ VCamDevice = "none"
  /\ timer = "none" /\ dpc = FALSE /\ control = FALSE /\ isoQueue = FALSE
  /\ enqueued = FALSE
  /\ bugcheck = "none" /\ faults = {}

(* What runs to its end once it was called.                                *)
Routine ==
  \/ Prepare \/ CreateDevice \/ Publish \/ Emulate \/ CreateQueues
  \/ Allocate \/ Describe
  \/ AddConfiguration \/ CreateCamera \/ CreateTimer \/ CreateDpc \/ PlugIn
  \/ Disconnect \/ Cleanup \/ Destroy \/ Delete

PnP ==
  \/ DeviceAdd \/ D0Entry \/ D0EntryAgain \/ Resume
  \/ Suspend \/ D0ExitFinal \/ Remove \/ RemoveEarly

Stopped == ~Running /\ UNCHANGED lcVars

Next == Routine \/ PnP \/ ControlEndpointAdd \/ EndpointAdd \/ Tick \/ Stopped

Spec == Init /\ [][Next]_lcVars

(* A routine that was called runs to its end, and the PnP manager starts a *)
(* device that was added, unless it removes it.                            *)
FairSpec == Spec /\ WF_lcVars(Routine) /\ WF_lcVars(D0Entry)

------------------------------------------------------------------------------
(* Properties                                                              *)

Built == {"config", "camera", "timer", "dpc", "plug", "working", "suspended",
          "disconnect", "stopped"}

(* The type of the state, and the handles each routine counts on.          *)
TypeOK ==
  /\ step \in {"absent", "prepare", "create", "publish", "emulate", "queues",
               "allocate", "describe", "added", "cleanup", "destroy", "delete"}
              \cup Built
  /\ UdecxCamInit \in {"null", "owned"}
  /\ VCamDevice \in {"none", "created", "plugged"}
  /\ timer \in {"none", "stopped", "armed"} /\ dpc \in BOOLEAN
  /\ control \in BOOLEAN /\ isoQueue \in BOOLEAN /\ enqueued \in BOOLEAN
  /\ bugcheck \in {"none", "null_timer", "null_init"}
  /\ faults \subseteq {"call_failed", "never_started", "restarted"}
  /\ step \in {"describe", "added", "camera"} => UdecxCamInit = "owned"
  /\ step \in {"timer", "dpc", "plug"} => VCamDevice = "created"

(* The timer is started before the DPC and the camera exist, and it also   *)
(* runs when their creation failed; but it enqueues the DPC only when it   *)
(* was created, because the queue it looks at first comes later.           *)
DpcExistsWhenEnqueued == enqueued => dpc

(* Usb_Disconnect never unplugs the camera: whenever it runs, the init     *)
(* structure it tests has been used up by the creation of the camera.      *)
UnplugUnreachable == step = "disconnect" => UdecxCamInit = "null"

(* The timer does not outlive the cleanup callback, and nothing but the    *)
(* cleanup callback stops it.                                              *)
TimerStoppedByCleanup ==
  /\ step \in {"destroy", "delete", "absent"} => timer # "armed"
  /\ step \in {"dpc", "plug", "working", "suspended", "disconnect", "stopped"} =>
       timer = "armed"

(* The two ways the routines break each other: a device is cleaned up      *)
(* before it had a timer, because a call failed or it was never started,   *)
(* and a stopped device, whose camera is still plugged in, starts again.   *)
BugcheckExplained ==
  /\ bugcheck = "null_timer" =>
       /\ faults \cap {"call_failed", "never_started"} # {}
       /\ VCamDevice # "plugged"
  /\ bugcheck = "null_init" => "restarted" \in faults /\ VCamDevice = "plugged"

(* A device that is added gets its camera plugged in, unless a call fails  *)
(* or the device is removed.                                               *)
CameraAppears ==
  step = "prepare" ~>
    VCamDevice = "plugged" \/ "call_failed" \in faults \/ step = "cleanup"

(* "On failure in this function (or later but still before creating the    *)
(* UDECXUSBDEVICE), UdecxCamInit will be freed by Usb_Destroy."            *)
InitFreed ==
  UdecxCamInit = "owned" /\ step = "cleanup" ~> UdecxCamInit = "null"
=============================================================================
