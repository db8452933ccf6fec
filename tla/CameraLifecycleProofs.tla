------------------------ MODULE CameraLifecycleProofs ------------------------
(* The safety properties of CameraLifecycle, proved.                       *)
EXTENDS CameraLifecycle, TLAPS

(* Nothing of the camera exists yet, or only its init structure.           *)
BeforeCamera ==
  {"absent", "prepare", "create", "publish", "emulate", "queues", "allocate",
   "describe", "added", "camera"}

(* The camera is plugged in and the timer ticks.                           *)
Plugged == {"working", "suspended", "disconnect", "stopped"}

(* Which handles there are at each call.                                   *)
HandleInv ==
  /\ step \in BeforeCamera => timer = "none" /\ VCamDevice = "none"
  /\ step = "timer" => timer = "none"
  /\ step \in {"timer", "dpc", "plug"} => UdecxCamInit = "null"
  /\ step \in {"dpc", "plug"} => timer = "armed"
  /\ step = "plug" => dpc
  /\ step \in Plugged =>
       VCamDevice = "plugged" /\ timer = "armed" /\ UdecxCamInit = "null"
  /\ step \in {"destroy", "delete"} => timer = "stopped"

(* The first start has the init structure, a start after a stop the old    *)
(* camera.                                                                 *)
StartInv ==
  step = "config" =>
    \/ UdecxCamInit = "owned" /\ timer = "none" /\ VCamDevice = "none"
    \/ UdecxCamInit = "null" /\ VCamDevice = "plugged" /\ "restarted" \in faults

(* A cleanup without a timer has a cause.                                  *)
CleanupInv ==
  step = "cleanup" /\ timer = "none" =>
    VCamDevice # "plugged" /\ faults \cap {"call_failed", "never_started"} # {}

(* Endpoints come with a plugged camera, and that comes after the DPC.     *)
DpcInv == isoQueue \/ enqueued \/ VCamDevice = "plugged" => dpc

(* The inductive invariant.                                                *)
LInv ==
  /\ TypeOK
  /\ HandleInv /\ StartInv /\ CleanupInv /\ DpcInv
  /\ BugcheckExplained

------------------------------------------------------------------------------
(* The invariant holds at first: there is no device.                       *)
LEMMA InvInit == Init => LInv
BY DEF Init, LInv, TypeOK, HandleInv, StartInv, CleanupInv, DpcInv,
       BugcheckExplained, BeforeCamera, Plugged, Built

(* A call that fails keeps the invariant: the cleanup that follows now has *)
(* a cause.                                                                *)
LEMMA FailNext ==
  ASSUME LInv,
         NEW s \in BeforeCamera \cup {"config", "timer", "dpc", "plug"},
         NEW t \in {"absent", "queues", "cleanup"},
         s = "config" => UdecxCamInit = "owned",
         t = "absent" => s \in BeforeCamera,
         t = "queues" => s \in BeforeCamera,
         Fail(s, t)
  PROVE  LInv'
<1>1. /\ step = s /\ step' = t /\ bugcheck = "none"
      /\ faults' = faults \cup {"call_failed"}
      /\ UNCHANGED handles /\ UNCHANGED bugcheck
  BY DEF Fail, Running
<1>2. VCamDevice # "plugged"
  BY <1>1 DEF LInv, TypeOK, HandleInv, StartInv, BeforeCamera
<1>3. TypeOK'
  <2>1. faults' \subseteq {"call_failed", "never_started", "restarted"}
    BY <1>1 DEF LInv, TypeOK
  <2> QED
    BY <1>1, <2>1 DEF LInv, TypeOK, Built, handles
<1>4. HandleInv' /\ StartInv' /\ DpcInv'
  BY <1>1 DEF LInv, HandleInv, StartInv, DpcInv, BeforeCamera, Plugged, handles
<1>5. CleanupInv'
  <2>1. "call_failed" \in faults'
    BY <1>1
  <2> QED
    BY <1>1, <1>2, <2>1 DEF CleanupInv, handles
<1>6. BugcheckExplained'
  BY <1>1 DEF BugcheckExplained
<1> QED
  BY <1>3, <1>4, <1>5, <1>6 DEF LInv

(* ControllerWdfEvtDeviceAdd keeps it: until D0Entry there is nothing but  *)
(* the init structure.                                                     *)
LEMMA AddNext ==
  ASSUME LInv,
         DeviceAdd \/ Prepare \/ CreateDevice \/ Publish \/ Emulate \/
         CreateQueues \/ Allocate \/ Describe
  PROVE  LInv'
<1> USE DEF LInv, TypeOK, HandleInv, StartInv, CleanupInv, DpcInv,
            BugcheckExplained, BeforeCamera, Plugged, Built, Running, Call, handles
<1>1. CASE DeviceAdd
  BY <1>1 DEF DeviceAdd
<1>2. CASE Prepare
  <2>1. CASE Call("prepare", "create") /\ UNCHANGED handles
    BY <2>1
  <2>2. CASE Fail("prepare", "absent")
    BY <2>2, FailNext
  <2> QED
    BY <1>2, <2>1, <2>2 DEF Prepare
<1>3. CASE CreateDevice
  <2>1. CASE Call("create", "publish") /\ UNCHANGED handles
    BY <2>1
  <2>2. CASE Fail("create", "absent")
    BY <2>2, FailNext
  <2> QED
    BY <1>3, <2>1, <2>2 DEF CreateDevice
<1>4. CASE Publish
  <2>1. CASE Call("publish", "emulate") /\ UNCHANGED handles
    BY <2>1
  <2>2. CASE Fail("publish", "cleanup")
    BY <2>2, FailNext
  <2> QED
    BY <1>4, <2>1, <2>2 DEF Publish
<1>5. CASE Emulate
  <2>1. CASE Call("emulate", "queues") /\ UNCHANGED handles
    BY <2>1
  <2>2. CASE Fail("emulate", "queues")
    BY <2>2, FailNext
  <2> QED
    BY <1>5, <2>1, <2>2 DEF Emulate
<1>6. CASE CreateQueues
  <2>1. CASE Call("queues", "allocate") /\ UNCHANGED handles
    BY <2>1
  <2>2. CASE Fail("queues", "cleanup")
    BY <2>2, FailNext
  <2> QED
    BY <1>6, <2>1, <2>2 DEF CreateQueues
<1>7. CASE Allocate
  <2>1. CASE /\ Call("allocate", "describe") /\ UdecxCamInit' = "owned"
             /\ UNCHANGED <<VCamDevice, timer, dpc, control, isoQueue, enqueued>>
    BY <2>1
  <2>2. CASE Fail("allocate", "cleanup")
    BY <2>2, FailNext
  <2> QED
    BY <1>7, <2>1, <2>2 DEF Allocate
<1>8. CASE Describe
  <2>1. CASE Call("describe", "added") /\ UNCHANGED handles
    BY <2>1
  <2>2. CASE Fail("describe", "cleanup")
    BY <2>2, FailNext
  <2> QED
    BY <1>8, <2>1, <2>2 DEF Describe
<1> QED
  BY <1>1, <1>2, <1>3, <1>4, <1>5, <1>6, <1>7, <1>8

(* Usb_ReadDescriptorsAndPlugIn keeps it: the handles appear in the order  *)
(* of the calls.                                                           *)
LEMMA PowerUpNext ==
  ASSUME LInv,
         D0Entry \/ D0EntryAgain \/ Resume \/ AddConfiguration \/
         CreateCamera \/ CreateTimer \/ CreateDpc \/ PlugIn
  PROVE  LInv'
<1> USE DEF LInv, TypeOK, HandleInv, StartInv, CleanupInv, DpcInv,
            BugcheckExplained, BeforeCamera, Plugged, Built, Running, Call, handles
<1>1. CASE D0Entry
  BY <1>1 DEF D0Entry
<1>2. CASE D0EntryAgain
  BY <1>2 DEF D0EntryAgain
<1>3. CASE Resume
  BY <1>3 DEF Resume
<1>4. CASE AddConfiguration
  <2>1. CASE UdecxCamInit = "owned" /\ Call("config", "camera") /\ UNCHANGED handles
    BY <2>1
  <2>2. CASE UdecxCamInit = "owned" /\ Fail("config", "cleanup")
    BY <2>2, FailNext
  <2>3. CASE UdecxCamInit = "null" /\ Stop("config", "null_init")
    BY <2>3 DEF Stop
  <2> QED
    BY <1>4, <2>1, <2>2, <2>3 DEF AddConfiguration
<1>5. CASE CreateCamera
  <2>1. CASE /\ Call("camera", "timer") /\ VCamDevice' = "created" /\ UdecxCamInit' = "null"
             /\ UNCHANGED <<timer, dpc, control, isoQueue, enqueued>>
    BY <2>1
  <2>2. CASE Fail("camera", "cleanup")
    BY <2>2, FailNext
  <2> QED
    BY <1>5, <2>1, <2>2 DEF CreateCamera
<1>6. CASE CreateTimer
  <2>1. CASE /\ Call("timer", "dpc") /\ timer' = "armed"
             /\ UNCHANGED <<UdecxCamInit, VCamDevice, dpc, control, isoQueue, enqueued>>
    BY <2>1
  <2>2. CASE Fail("timer", "cleanup")
    BY <2>2, FailNext
  <2> QED
    BY <1>6, <2>1, <2>2 DEF CreateTimer
<1>7. CASE CreateDpc
  <2>1. CASE /\ Call("dpc", "plug") /\ dpc' = TRUE
             /\ UNCHANGED <<UdecxCamInit, VCamDevice, timer, control, isoQueue, enqueued>>
    BY <2>1
  <2>2. CASE Fail("dpc", "cleanup")
    BY <2>2, FailNext
  <2> QED
    BY <1>7, <2>1, <2>2 DEF CreateDpc
<1>8. CASE PlugIn
  <2>1. CASE /\ Call("plug", "working") /\ VCamDevice' = "plugged"
             /\ UNCHANGED <<UdecxCamInit, timer, dpc, control, isoQueue, enqueued>>
    BY <2>1
  <2>2. CASE Fail("plug", "cleanup")
    BY <2>2, FailNext
  <2> QED
    BY <1>8, <2>1, <2>2 DEF PlugIn
<1> QED
  BY <1>1, <1>2, <1>3, <1>4, <1>5, <1>6, <1>7, <1>8

(* D0Exit, removal and the cleanup callback keep it: the timer is stopped  *)
(* before anything else goes, or the system stops with a cause.            *)
LEMMA PowerDownNext ==
  ASSUME LInv,
         Suspend \/ D0ExitFinal \/ Disconnect \/ Remove \/ RemoveEarly \/
         Cleanup \/ Destroy \/ Delete
  PROVE  LInv'
<1> USE DEF LInv, TypeOK, HandleInv, StartInv, CleanupInv, DpcInv,
            BugcheckExplained, BeforeCamera, Plugged, Built, Running, Call, handles
<1>1. CASE Suspend
  BY <1>1 DEF Suspend
<1>2. CASE D0ExitFinal
  BY <1>2 DEF D0ExitFinal
<1>3. CASE Disconnect
  BY <1>3 DEF Disconnect
<1>4. CASE Remove
  BY <1>4 DEF Remove
<1>5. CASE RemoveEarly
  BY <1>5 DEF RemoveEarly
<1>6. CASE Cleanup
  <2>1. CASE timer = "none" /\ Stop("cleanup", "null_timer")
    BY <2>1 DEF Stop
  <2>2. CASE /\ timer # "none" /\ Call("cleanup", "destroy")
             /\ timer' = "stopped"
             /\ UNCHANGED <<UdecxCamInit, VCamDevice, dpc, control, isoQueue, enqueued>>
    BY <2>2
  <2> QED
    BY <1>6, <2>1, <2>2 DEF Cleanup
<1>7. CASE Destroy
  BY <1>7 DEF Destroy
<1>8. CASE Delete
  BY <1>8 DEF Delete
<1> QED
  BY <1>1, <1>2, <1>3, <1>4, <1>5, <1>6, <1>7, <1>8

(* So do the host and the timer: they need a plugged camera, or a queue.   *)
LEMMA HostNext ==
  ASSUME LInv,
         ControlEndpointAdd \/ EndpointAdd \/ Tick
  PROVE  LInv'
<1> USE DEF LInv, TypeOK, HandleInv, StartInv, CleanupInv, DpcInv,
            BugcheckExplained, BeforeCamera, Plugged, Built, Running, Call, handles
<1>1. CASE ControlEndpointAdd
  BY <1>1 DEF ControlEndpointAdd
<1>2. CASE EndpointAdd
  BY <1>2 DEF EndpointAdd
<1>3. CASE Tick
  BY <1>3 DEF Tick
<1> QED
  BY <1>1, <1>2, <1>3

(* The invariant depends on the state only.                                *)
LEMMA InvStutter == LInv /\ UNCHANGED lcVars => LInv'
BY DEF LInv, TypeOK, HandleInv, StartInv, CleanupInv, DpcInv,
       BugcheckExplained, lcVars, handles

(* Every step keeps it.                                                    *)
LEMMA InvNext == LInv /\ [Next]_lcVars => LInv'
BY AddNext, PowerUpNext, PowerDownNext, HostNext, InvStutter
   DEF Next, Routine, PnP, Stopped

------------------------------------------------------------------------------
(* The handles are where each routine counts on them, in every order of    *)
(* starts, stops and failures.                                             *)
THEOREM HandlesInPlace == Spec => []LInv
BY InvInit, InvNext, PTL DEF Spec

(* The type of the state, with the handles the next call uses unchecked.   *)
THEOREM Typed == Spec => []TypeOK
<1>1. LInv => TypeOK
  BY DEF LInv
<1> QED
  BY HandlesInPlace, <1>1, PTL

(* processVideo reaches WdfDpcEnqueue only when CreateDpc has succeeded,   *)
(* although the timer was started before.                                  *)
THEOREM EnqueuesARealDpc == Spec => []DpcExistsWhenEnqueued
<1>1. LInv => DpcExistsWhenEnqueued
  BY DEF LInv, DpcInv, DpcExistsWhenEnqueued
<1> QED
  BY HandlesInPlace, <1>1, PTL

(* Usb_Disconnect never gets to the call that unplugs the camera.          *)
THEOREM NeverUnplugged == Spec => []UnplugUnreachable
<1>1. LInv => UnplugUnreachable
  BY DEF LInv, HandleInv, Plugged, UnplugUnreachable
<1> QED
  BY HandlesInPlace, <1>1, PTL

(* The timer is stopped by the cleanup callback and by nothing else.       *)
THEOREM TimerEndsInCleanup == Spec => []TimerStoppedByCleanup
<1>1. LInv => TimerStoppedByCleanup
  BY DEF LInv, HandleInv, BeforeCamera, Plugged, TimerStoppedByCleanup
<1> QED
  BY HandlesInPlace, <1>1, PTL

(* The lifecycle stops the system in two ways only, each with its cause.   *)
THEOREM NoUnexplainedBugcheck == Spec => []BugcheckExplained
<1>1. LInv => BugcheckExplained
  BY DEF LInv
<1> QED
  BY HandlesInPlace, <1>1, PTL
=============================================================================
