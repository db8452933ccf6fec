-------------------------- MODULE StreamPowerProofs --------------------------
(* The safety of the streaming path and, in calm use, what it delivers     *)
(* hold over sleep, wake, removal and addition of the device, for any      *)
(* number of requests, URBs and processors.                                *)
EXTENDS StreamPower, FrameDeliveryProofs

(* Without a frame in hand nothing was counted.                            *)
FreshInv == frame_buf = NULL => timeout = 0

(* A device that is gone has no request of anybody.                        *)
GoneInv == power = "removed" => ~Outstanding /\ ~UrbOut /\ timeout = 0

(* The inductive invariant.                                                *)
PInv == IInv /\ FreshInv /\ GoneInv

------------------------------------------------------------------------------
(* It holds for the first device.                                          *)
LEMMA PowerInvInit == PowerInit => PInv
BY InvInit DEF PowerInit, PInv, FreshInv, GoneInv, Init

(* Every step of the streaming path counts only for a frame that has       *)
(* bytes, and resets the counter when it gives the frame back.             *)
LEMMA FreshNext ==
  ASSUME FreshInv, IInv, [Next]_vars
  PROVE  FreshInv'
<1> USE DEF FreshInv, app, frame, tick, prop, iso, dpcs, host
<1>1. CASE UNCHANGED vars
  BY <1>1 DEF vars
<1>2. CASE Application
  BY <1>2 DEF Application, Push, PushRefused, CancelPush, SetVideoProp, SetPropFlip,
              SetPropLength, SetPropPos
<1>3. CASE Host
  BY <1>3 DEF Host, EndpointAdd, SubmitUrb, CancelUrb
<1>4. CASE EvtIsochTimer
  <2>1. CASE TickRelease
    BY <2>1 DEF TickRelease
  <2>2. CASE TickGetState
    BY <2>2 DEF TickGetState, Counted, Unfinished
  <2>3. CASE TickContinue
    BY <2>3 DEF TickContinue, FrameDue, Unfinished
  <2>4. CASE RetrieveNothing \/ StartFrame \/ RejectFrame \/ NoUrb \/ RetrieveUrb
             \/ EnqueueDpc
    BY <2>4 DEF RetrieveNothing, StartFrame, RejectFrame, NoUrb, RetrieveUrb,
                EnqueueDpc
  <2>5. CASE RetrieveFrame
    BY <2>5 DEF RetrieveFrame
  <2>6. CASE TakeFrame
    <3>1. currentVideoRequest # NULL
      BY <2>6 DEF TakeFrame, IInv, HandInv
    <3> QED
      BY <2>6, <3>1 DEF TakeFrame
  <2> QED
    BY <1>4, <2>1, <2>2, <2>3, <2>4, <2>5, <2>6 DEF EvtIsochTimer
<1>5. ASSUME NEW c \in Cpus, DpcCompleteVidoeIsoUrb(c) PROVE FreshInv'
  BY <1>5 DEF DpcCompleteVidoeIsoUrb, DpcBegin, DpcReturnEmpty, DpcNoRequest,
              DpcCopy, DpcAdvance, DpcStore, DpcEof, DpcFlip, DpcNext, DpcBadCopy,
              DpcComplete
<1>6. CASE Stopped
  BY <1>6 DEF Stopped, vars
<1> QED
  BY <1>1, <1>2, <1>3, <1>4, <1>5, <1>6 DEF Next

------------------------------------------------------------------------------
(* A step of the streaming path that the power state lets through is one   *)
(* of VideoStream, except the look at a paused queue.                      *)
LEMMA StreamingSteps ==
  ASSUME Streaming
  PROVE  (Next \/ NoUrbPaused) /\ power # "removed" /\ UNCHANGED <<power, pipe>>
BY DEF Streaming, Requesting, Cancelling, Submitting, Ticking, Next, Application,
       SetOn, SetVideoProp, Host

(* A paused queue leaves the streaming path as an empty one does.          *)
LEMMA PausedNext ==
  ASSUME IInv, FreshInv, NoUrbPaused
  PROVE  IInv' /\ FreshInv'
<1> USE DEF NoUrbPaused, IInv, app, frame, tick, prop, iso, dpcs, host
<1>1. currentRequest' \in {currentRequest, NULL} /\ timer' = "armed"
  OBVIOUS
<1>2. TypeOK'
  BY <1>1 DEF TypeOK
<1>3. VideoQueueInv' /\ IsoQueueInv' /\ RunInv' /\ CopyInv' /\ BugcheckExplained'
  BY DEF VideoQueueInv, IsoQueueInv, RunInv, CopyInv, Reach, BugcheckExplained, Calm
<1>4. HandInv' /\ GeometryInv'
  BY <1>1 DEF HandInv, GeometryInv, Mismatched, Calm, Outstanding, Setting, TooShort
<1>5. DpcInv'
  BY <1>1 DEF DpcInv, OneAtATime, DpcPending, TypeOK
<1> QED
  BY <1>2, <1>3, <1>4, <1>5 DEF FreshInv

(* A new device starts like the first one.                                 *)
LEMMA AgainNext ==
  ASSUME IInv, GoneInv, AddAgain
  PROVE  PInv'
<1> USE DEF AddAgain, IInv, GoneInv
<1>1. power = "removed" /\ timeout' = 0 /\ ~Outstanding /\ ~UrbOut /\ frame_buf' = NULL
  OBVIOUS
<1>2. TypeOK'
  <2>1. /\ dpc' \in [Cpus -> DpcRun]
        /\ (\A c \in Cpus : dpc[c].pc = "flip" => dpc[c].len \in {0, 1})'
    BY DEF DpcRun, Idle
  <2>2. asm' \in Assembly
    BY DEF Assembly, Closed
  <2>3. videoQueue' \in Seq(Requests) /\ isoQueue' \in Seq(Urbs)
    OBVIOUS
  <2>4. frame_length' \in Int
    BY Lengths
  <2>5. /\ req' \in [Requests -> {"free", "queued", "held", "done"}]
        /\ bufLen' \in [Requests -> Nat]
        /\ urb' \in [Urbs -> {"idle", "queued", "held"}]
        /\ bugcheck' \in Bugchecks /\ faults' \subseteq Faults
    BY DEF TypeOK
  <2>6. /\ frame_flip' \in {0, 1} /\ frame_pos' \in Int /\ timeout' \in Nat
        /\ setProp' \in [Setters -> {"idle", "length", "pos"}]
    BY <1>1
  <2>7. isoReady' \in BOOLEAN /\ dpcQueued' \in BOOLEAN
    BY Zenon
  <2> QED
    BY <2>1, <2>2, <2>3, <2>4, <2>5, <2>6, <2>7, Zenon DEF TypeOK
<1>3. VideoQueueInv' /\ IsoQueueInv'
  BY DEF VideoQueueInv, IsoQueueInv, Queues, IsInjective
<1>4. /\ \A r \in Requests : req'[r] \notin {"queued", "held"}
      /\ \A u \in Urbs : urb'[u] # "held"
  BY <1>1 DEF Outstanding, UrbOut
<1>5. HandInv'
  BY <1>1, <1>4 DEF HandInv
<1>6. GeometryInv'
  BY <1>4 DEF GeometryInv, Outstanding, Setting
<1>7. RunInv' /\ CopyInv' /\ DpcInv'
  BY <1>4 DEF RunInv, CopyInv, DpcInv, DpcPending, Idle
<1>8. BugcheckExplained'
  BY DEF BugcheckExplained
<1> QED
  BY <1>1, <1>2, <1>3, <1>5, <1>6, <1>7, <1>8 DEF PInv, FreshInv

(* A device that goes holds no frame, so that nothing is counted.          *)
LEMMA RemovedNext ==
  ASSUME IInv, FreshInv, Removed
  PROVE  timeout = 0
<1>1. frame_buf = NULL
  BY DEF Removed, IInv, HandInv, TypeOK, Outstanding
<1> QED
  BY <1>1 DEF FreshInv

(* The steps of the host's interface and of the PnP manager that leave the *)
(* streaming path alone, or only create the queue.                         *)
LEMMA PnPNext ==
  ASSUME PInv, PnP
  PROVE  PInv'
<1>1. CASE OpenPipe
  <2>1. [Next]_vars
    <3>1. CASE isoReady
      BY <1>1, <3>1 DEF OpenPipe, vars, app, frame, tick, prop, iso, dpcs, host,
                        PInv, IInv, TypeOK
    <3>2. CASE ~isoReady
      BY <1>1, <3>2 DEF OpenPipe, Next, Host, EndpointAdd
    <3> QED
      BY <3>1, <3>2
  <2>2. power' # "removed"
    BY <1>1 DEF OpenPipe
  <2> QED
    BY <2>1, <2>2, InvNext, FreshNext DEF PInv, GoneInv
<1>2. CASE ClosePipe \/ PipeClosed \/ Suspend \/ Suspended \/ Resume \/ Unplug
  <2>1. UNCHANGED vars /\ (power' = "removed" => power = "removed")
    BY <1>2 DEF ClosePipe, PipeClosed, Suspend, Suspended, Resume, Unplug
  <2>2. GoneInv'
    BY <2>1 DEF PInv, GoneInv, Outstanding, UrbOut, vars, app, iso, tick
  <2> QED
    BY <2>1, <2>2, InvNext, FreshNext DEF PInv
<1>3. CASE Removed
  <2>1. UNCHANGED vars /\ ~Outstanding /\ ~UrbOut
    BY <1>3 DEF Removed
  <2>2. timeout = 0
    BY <1>3, RemovedNext DEF PInv
  <2>3. GoneInv'
    BY <2>1, <2>2 DEF GoneInv, Outstanding, UrbOut, vars, app, iso, tick
  <2> QED
    BY <2>1, <2>3, InvNext, FreshNext DEF PInv
<1>4. CASE AddAgain
  BY <1>4, AgainNext DEF PInv
<1> QED
  BY <1>1, <1>2, <1>3, <1>4 DEF PnP

(* Every step keeps the invariant.                                         *)
LEMMA PowerInvNext == PInv /\ [PowerNext]_powerVars => PInv'
<1> SUFFICES ASSUME PInv, [PowerNext]_powerVars PROVE PInv'
  OBVIOUS
<1>1. CASE Streaming
  <2>1. power # "removed" /\ UNCHANGED power
    BY <1>1, StreamingSteps
  <2>2. GoneInv'
    BY <2>1 DEF GoneInv
  <2>3. CASE Next
    BY <2>2, <2>3, InvNext, FreshNext DEF PInv
  <2>4. CASE NoUrbPaused
    BY <2>2, <2>4, PausedNext DEF PInv
  <2> QED
    BY <1>1, <2>3, <2>4, StreamingSteps
<1>2. CASE PnP
  BY <1>2, PnPNext
<1>3. CASE UNCHANGED powerVars \/ (Stopped /\ UNCHANGED <<power, pipe>>)
  <2>1. UNCHANGED vars /\ UNCHANGED power
    BY <1>3 DEF powerVars, Stopped
  <2>2. GoneInv'
    BY <2>1 DEF PInv, GoneInv, Outstanding, UrbOut, vars, app, iso, tick
  <2> QED
    BY <2>1, <2>2, InvNext, FreshNext DEF PInv
<1> QED
  BY <1>1, <1>2, <1>3 DEF PowerNext

------------------------------------------------------------------------------
(* The invariant of the streaming path holds over power changes, removal   *)
(* and new devices.                                                        *)
THEOREM PowerInvariant == PowerSpec => []PInv
BY PowerInvInit, PowerInvNext, PTL DEF PowerSpec

(* No power change and no removal stops the system without a departure     *)
(* from the intended use that explains it.                                 *)
THEOREM PowerSafe == PowerSpec => []BugcheckExplained
<1>1. PInv => BugcheckExplained
  BY DEF PInv, IInv
<1> QED
  BY PowerInvariant, <1>1, PTL

(* Nothing is lost either: a frame or an URB that was taken is in hand or  *)
(* on its way, whatever the power manager does meanwhile.                  *)
THEOREM PowerLosesNothing == PowerSpec => []NothingLost
<1>1. PInv => NothingLost
  BY DEF PInv, IInv, TypeOK, NothingLost, HandInv, DpcInv, OneAtATime, DpcPending
<1> QED
  BY PowerInvariant, <1>1, PTL

(* The static counter is 0 whenever a device goes, for all limits.         *)
THEOREM CounterStartsFresh == PowerSpec => []CounterFresh
<1>1. PInv => CounterFresh
  BY DEF PInv, GoneInv, CounterFresh
<1> QED
  BY PowerInvariant, <1>1, PTL

(* The copy stays inside the pushed buffer, also while the device sleeps.  *)
THEOREM PowerCopiesWithinBuffer == PowerSpec => []CopyWithinBuffer
<1>1. PInv => CopyWithinBuffer
  BY InvCopies DEF PInv
<1> QED
  BY PowerInvariant, <1>1, PTL

------------------------------------------------------------------------------
(* Calm use                                                                *)

(* The invariant of calm use over power changes.                           *)
PCalm == PInv /\ CalmInv

LEMMA PowerCalmInit == PowerInit => PCalm
BY PowerInvInit, CalmInit DEF PowerInit, PCalm

(* A paused queue ends the tick, and no byte is sent.                      *)
LEMMA PausedCalm ==
  ASSUME PCalm, faults' = {}, NoUrbPaused
  PROVE  CalmInv'
<1> USE DEF PCalm, CalmInv
<1>1. IInv'
  BY PausedNext DEF PInv
<1>2. /\ timer = "iso" /\ timer' = "armed"
      /\ UNCHANGED <<app, frame, timeout, dpcs, host>>
  BY DEF NoUrbPaused
<1>3. HostInv'
  BY <1>2 DEF HostInv, Sending, app, frame, host
<1>4. ProgressInv'
  BY <1>2 DEF ProgressInv, Sending, Sent, Copies, Advances, Reach, app, frame, dpcs, host
<1> QED
  BY <1>1, <1>3, <1>4

(* A device that is gone has given back every frame.                       *)
LEMMA GoneEmpty ==
  ASSUME PCalm, power = "removed"
  PROVE  videoQueue = <<>> /\ currentVideoRequest = NULL
<1>1. ~Outstanding
  BY DEF PCalm, PInv, GoneInv
<1>2. currentVideoRequest = NULL
  BY <1>1, CalmFacts DEF PCalm, CalmInv, Outstanding
<1>3. ASSUME videoQueue # <<>> PROVE FALSE
  <2>1. 1 \in 1 .. Len(videoQueue) /\ videoQueue[1] \in Requests
    BY <1>3 DEF PCalm, CalmInv, IInv, TypeOK
  <2>2. req[videoQueue[1]] = "queued"
    BY <2>1 DEF PCalm, CalmInv, IInv, VideoQueueInv, Queues
  <2> QED
    BY <1>1, <2>1, <2>2 DEF Outstanding
<1> QED
  BY <1>2, <1>3

(* The next one starts like the first, and with the counter at 0.          *)
LEMMA AgainCalm ==
  ASSUME PCalm, AddAgain
  PROVE  PCalm' /\ Renewal
<1>1. PInv' /\ faults' = {}
  BY AgainNext DEF PCalm, PInv, CalmInv, AddAgain
<1>2. /\ power = "removed" /\ timeout' = 0 /\ timer' = "armed"
      /\ videoQueue' = <<>> /\ currentVideoRequest' = NULL /\ frame_buf' = NULL
      /\ frame_flip' = 0 /\ asm' = Closed /\ picture' = NULL
      /\ dpc' = [c \in Cpus |-> Idle]
  BY DEF AddAgain, PCalm, PInv, GoneInv
<1>3. HostInv'
  BY <1>2 DEF HostInv, Sending, Closed
<1>4. ProgressInv'
  BY <1>2, Ticks DEF ProgressInv, Copies, Advances, Idle
<1>5. Pending = <<>> /\ ~Sending
  BY <1>2, GoneEmpty DEF Pending, Sending
<1>6. Abstract!Empty'
  BY <1>2 DEF Abstract!Empty, Pending, Sending, Spoiled, Closed
<1> QED
  BY <1>1, <1>2, <1>3, <1>4, <1>5, <1>6 DEF PCalm, PInv, CalmInv, Renewal

(* What the PnP manager and the host's interface do to the streaming path: *)
(* nothing, or the queue is created; or a new device starts.               *)
LEMMA PnPSteps ==
  ASSUME PCalm, PnP, ~AddAgain
  PROVE  [CalmNext]_vars /\ UNCHANGED <<Pending, Sending, Spoiled, picture, req>>
<1>1. CASE OpenPipe
  <2>1. /\ UNCHANGED <<app, frame, tick, prop, isoQueue, urb, currentRequest, dpcs, bugcheck,
                       faults, host>>
        /\ Running /\ isoReady' = TRUE
    BY <1>1 DEF OpenPipe
  <2>2. UNCHANGED <<videoQueue, currentVideoRequest, frame_flip, asm, picture, req>>
    BY <2>1 DEF app, frame, host
  <2>3. CASE isoReady
    BY <2>1, <2>2, <2>3, Stutters DEF vars, iso, PCalm, CalmInv, IInv, TypeOK
  <2>4. CASE ~isoReady
    BY <2>1, <2>2, <2>4, Stutters DEF CalmNext, Next, Host, EndpointAdd, PCalm, CalmInv
  <2> QED
    BY <2>3, <2>4
<1>2. CASE ClosePipe \/ PipeClosed \/ Suspend \/ Suspended \/ Resume \/ Unplug \/ Removed
  <2>1. UNCHANGED vars
    BY <1>2 DEF ClosePipe, PipeClosed, Suspend, Suspended, Resume, Unplug, Removed
  <2> QED
    BY <2>1, Stutters DEF vars, app, frame, host
<1> QED
  BY <1>1, <1>2 DEF PnP

(* One step in calm use, whatever the power manager does.                  *)
LEMMA PowerSteps ==
  ASSUME PCalm, PowerNext, faults' = {}
  PROVE  /\ PCalm' /\ Kept
         /\ \/ Abstract!Deliver \/ Renewal
            \/ UNCHANGED <<Pending, Sending, Spoiled, picture>>
<1>1. PInv'
  BY PowerInvNext DEF PCalm
<1>2. ASSUME [CalmNext]_vars
      PROVE  /\ CalmInv' /\ Kept
             /\ Abstract!Deliver \/ UNCHANGED <<Pending, Sending, Spoiled, picture>>
  BY <1>2, CalmNextKeeps, StepsKeep, StepsAsDelivery DEF PCalm, Abstract!fdVars
<1>3. CASE NoUrbPaused
  <2>1. UNCHANGED <<videoQueue, currentVideoRequest, frame_flip, asm, picture, req>>
    BY <1>3 DEF NoUrbPaused, app, frame, host
  <2>2. Kept
    BY <2>1 DEF Kept
  <2> QED
    BY <1>1, <1>3, <2>1, <2>2, PausedCalm, Stutters DEF PCalm
<1>4. CASE Streaming
  <2>1. CASE Next
    BY <1>1, <1>2, <2>1 DEF CalmNext, PCalm
  <2> QED
    BY <1>3, <1>4, <2>1, StreamingSteps
<1>5. CASE AddAgain
  BY <1>5, AgainCalm DEF AddAgain, Kept
<1>6. CASE PnP /\ ~AddAgain
  BY <1>1, <1>2, <1>6, PnPSteps DEF PCalm
<1>7. CASE Stopped
  BY <1>1, <1>2, <1>7 DEF Stopped, PCalm
<1> QED
  BY <1>4, <1>5, <1>6, <1>7 DEF PowerNext

LEMMA PowerStutters ==
  ASSUME PCalm, UNCHANGED powerVars
  PROVE  PCalm' /\ UNCHANGED <<Pending, Sending, Spoiled, picture>>
<1>1. UNCHANGED vars
  BY DEF powerVars
<1>2. CalmInv'
  BY <1>1, CalmNextKeeps DEF PCalm
<1>3. PInv'
  BY PowerInvNext DEF PCalm
<1> QED
  BY <1>1, <1>2, <1>3, Stutters DEF PCalm, vars, app, frame, host

(* The invariant of calm use, over power changes, removal and new devices. *)
THEOREM PowerCalmInvariant == CalmPowerSpec => []PCalm
<1>1. PCalm /\ [PowerNext /\ faults' = {}]_powerVars => PCalm'
  BY PowerSteps, PowerStutters
<1> QED
  BY <1>1, PowerCalmInit, PTL DEF CalmPowerSpec

(* KeptUntilSent over power changes: a sleep or a removal does not make    *)
(* the driver give up a frame before its time.                             *)
THEOREM PowerKeepsUntilSent == CalmPowerSpec => KeptUntilSent
<1>1. PCalm /\ [PowerNext /\ faults' = {}]_powerVars => [Kept]_vars
  BY PowerSteps DEF powerVars
<1>2. KeptUntilSent <=> [][Kept]_vars
  BY DEF KeptUntilSent, Kept
<1> QED
  BY <1>1, <1>2, PowerCalmInvariant, PTL DEF CalmPowerSpec

(* DeliversPerDevice: each device delivers its frames in order, once and   *)
(* whole from its addition to its removal, over any sleeps; the next one   *)
(* starts from nothing.                                                    *)
THEOREM PowerDelivers == CalmPowerSpec => DeliversPerDevice
<1>1. PCalm /\ [PowerNext /\ faults' = {}]_powerVars =>
        [Abstract!Deliver \/ Renewal]_<<Pending, Sending, Spoiled, picture>>
  BY PowerSteps, PowerStutters
<1>2. PowerInit => Abstract!Empty
  BY StartsDelivery DEF PowerInit
<1> QED
  BY <1>1, <1>2, PowerCalmInvariant, PTL DEF CalmPowerSpec, DeliversPerDevice
=============================================================================
