----------------------------- MODULE VideoStream -----------------------------
(***************************************************************************)
(* The streaming path of the virtual camera driver.                        *)
(*                                                                         *)
(* The application pushes frames (IOCTL_VIDEO_DATA_PUSH) into VideoQueue.  *)
(* The isochronous timer callback (processVideo) takes one frame at a time *)
(* in hand, takes one isochronous URB of the host per tick and enqueues a  *)
(* DPC that copies the next bytes of the frame into the URB's packets.     *)
(* IOCTL_SET_VIDEO_PROP rewrites the frame geometry at any moment.         *)
(*                                                                         *)
(* The device has no synchronization scope, so the timer callback, the DPC *)
(* (also two runs of it, on two processors) and the IOCTL dispatch run     *)
(* concurrently and share frameData without a lock: one action is one      *)
(* access window of the code.  The environment is free to leave the usage  *)
(* the code was written for; "faults" remembers which departures happened, *)
(* and the properties say what each of them can and cannot break.          *)
(* StreamPower adds power, removal and the fairness of the timer.          *)
(***************************************************************************)
EXTENDS Integers, Sequences, SequencesExt

CONSTANTS
  Requests,      \* push requests of the application, each used once
  Urbs,          \* isochronous URBs of the host, resubmitted when completed
  Cpus,          \* processors a DPC can run on
  Setters,       \* threads that may be in IOCTL_SET_VIDEO_PROP
  InitialLength, \* frame_length of init_cam_prop: 1920 * 1080 * 2
  FrameLengths,  \* values IOCTL_SET_VIDEO_PROP can give frame_length
  BufferLengths, \* lengths of the buffers the application pushes
  DataLen,       \* payload bytes per packet: DISTANCE - VID_HDR_LEN
  Packets,       \* NumberOfPackets of an URB
  TimeoutTicks,  \* 3000 in processVideo
  DiscardTicks,  \* 30 in processVideo
  NULL,
  Torn           \* what the host shows for a frame it did not get whole

ASSUME Naming == NULL \notin Requests \cup Urbs /\ Torn \notin Requests
ASSUME Lengths ==
  InitialLength \in Nat /\ FrameLengths \subseteq Int /\ BufferLengths \subseteq Nat
ASSUME Payload == DataLen \in Nat \ {0} /\ Packets \in Nat \ {0}
ASSUME Ticks == TimeoutTicks \in Nat /\ DiscardTicks \in Nat

VARIABLES
  req,                 \* state of each push request
  bufLen,              \* length of its buffer
  videoQueue,          \* VideoQueue, a manual queue
  currentVideoRequest, \* the frame in hand
  frame_buf,           \* the request whose buffer is being sent, or NULL
  frame_pos, frame_length, frame_flip,
  timeout,             \* the static counter of processVideo
  timer,               \* where the timer callback is; "armed" between ticks
  setProp,             \* per thread: where IOCTL_SET_VIDEO_PROP is
  isoReady,            \* IsoVideoInQueue # NULL
  isoQueue, urb,       \* its URBs, and the state of each URB
  currentRequest,      \* the URB handed to the DPC
  dpcQueued,           \* completeUrbDpc is in a processor's DPC queue
  dpc,                 \* the runs of DpcCompleteVidoeIsoUrb in progress
  bugcheck,            \* why the system stopped, or "none"
  faults,              \* departures from the intended use, so far
  asm, picture         \* observers: the host's frame assembler, and what
                       \* it shows: the last frame that was completed

app    == <<req, bufLen, videoQueue>>
frame  == <<currentVideoRequest, frame_buf, frame_pos, frame_length, frame_flip>>
tick   == <<timeout, timer>>
prop   == <<setProp>>
iso    == <<isoReady, isoQueue, urb, currentRequest>>
dpcs   == <<dpcQueued, dpc>>
host   == <<asm, picture>>
vars   == <<app, frame, tick, prop, iso, dpcs, bugcheck, faults, host>>

Idle == [pc |-> "idle", urb |-> NULL, left |-> 0, len |-> 0]

Closed == [open |-> FALSE, fid |-> 0, src |-> NULL, next |-> 0, whole |-> TRUE]

Running == bugcheck = "none"

(* A DPC is queued or has not returned yet.                                *)
DpcPending == dpcQueued \/ \E c \in Cpus : dpc[c].pc # "idle"

(* IOCTL_SET_VIDEO_PROP is under way.                                      *)
Setting == \E s \in Setters : setProp[s] # "idle"

(* Some pushed frame has not been given back to the application.           *)
Outstanding == \E r \in Requests : req[r] \in {"queued", "held"}

Blame(f) == faults' = faults \cup {f}

(* Mutant: the minimum length is not passed.                               *)
AnyLengthWillDo(r) == bufLen[r] = 0

(* WdfRequestRetrieveInputBuffer fails: the minimum is passed as a size_t, *)
(* so that a negative frame_length is larger than any buffer.              *)
TooShort(r) ==
  \/ bufLen[r] = 0
  \/ frame_length < 0
  \/ bufLen[r] < frame_length

(* WdfRequestComplete of a push request: a second completion of the same   *)
(* request, or of a NULL handle, stops the system.                         *)
CompletePush(r) ==
  IF req[r] = "held"
  THEN req' = [req EXCEPT ![r] = "done"] /\ UNCHANGED bugcheck
  ELSE bugcheck' = "double_push" /\ UNCHANGED req

CompleteUrb(u) ==
  IF urb[u] = "held"
  THEN urb' = [urb EXCEPT ![u] = "idle"] /\ UNCHANGED bugcheck
  ELSE bugcheck' = "double_urb" /\ UNCHANGED urb

------------------------------------------------------------------------------
(* The application                                                         *)

(* IOCTL_VIDEO_DATA_PUSH: forwarded to VideoQueue.                         *)
Push(r, n) ==
  /\ Running /\ req[r] = "free"
  /\ req' = [req EXCEPT ![r] = "queued"]
  /\ bufLen' = [bufLen EXCEPT ![r] = n]
  /\ videoQueue' = Append(videoQueue, r)
  /\ faults' = faults
       \cup (IF n = 0 \/ n < frame_length \/ frame_length < 0
             THEN {"short_frame"} ELSE {})
       \cup (IF Setting THEN {"resize_in_flight"} ELSE {})
  /\ UNCHANGED <<frame, tick, prop, iso, dpcs, bugcheck, host>>

(* The forwarding fails, and the request is completed with that status.    *)
PushRefused(r) ==
  /\ Running /\ req[r] = "free"
  /\ req' = [req EXCEPT ![r] = "done"]
  /\ UNCHANGED <<bufLen, videoQueue, frame, tick, prop, iso, dpcs, bugcheck,
                 faults, host>>

(* The application cancels a queued request, or exits: the framework       *)
(* completes it without asking the driver.  A request in hand was not      *)
(* marked cancelable and stays.                                            *)
CancelPush(i) ==
  /\ Running /\ i \in DOMAIN videoQueue
  /\ req' = [req EXCEPT ![videoQueue[i]] = "done"]
  /\ videoQueue' = RemoveAt(videoQueue, i)
  /\ IF timer = "retrieve" THEN Blame("cancel_window") ELSE UNCHANGED faults
  /\ UNCHANGED <<bufLen, frame, tick, prop, iso, dpcs, bugcheck, host>>

(* IOCTL_SET_VIDEO_PROP in the order of its stores.  The default queue is  *)
(* parallel, so that several threads can be in it.                         *)
SetPropFlip(s) ==
  /\ Running /\ setProp[s] = "idle"
  /\ setProp' = [setProp EXCEPT ![s] = "length"]
  /\ frame_flip' = 0
  /\ IF Outstanding THEN Blame("resize_in_flight") ELSE UNCHANGED faults
  /\ UNCHANGED <<app, currentVideoRequest, frame_buf, frame_pos, frame_length,
                 tick, iso, dpcs, bugcheck, host>>

(* The product is that of the sizes in the context, which may be those of  *)
(* two threads.                                                            *)
SetPropLength(s, n) ==
  /\ Running /\ setProp[s] = "length"
  /\ setProp' = [setProp EXCEPT ![s] = "pos"]
  /\ frame_length' = n
  /\ UNCHANGED <<app, currentVideoRequest, frame_buf, frame_pos, frame_flip,
                 tick, iso, dpcs, bugcheck, faults, host>>

SetPropPos(s) ==
  /\ Running /\ setProp[s] = "pos"
  /\ setProp' = [setProp EXCEPT ![s] = "idle"]
  /\ frame_pos' = 0
  /\ UNCHANGED <<app, currentVideoRequest, frame_buf, frame_length, frame_flip,
                 tick, iso, dpcs, bugcheck, faults, host>>

SetVideoProp(s) ==
  \/ SetPropFlip(s)
  \/ \E n \in FrameLengths : SetPropLength(s, n)
  \/ SetPropPos(s)

------------------------------------------------------------------------------
(* The host                                                                *)

(* DEVICE_DATA_ENDPOINT_ADD for endpoint 0x82 creates IsoVideoInQueue.     *)
EndpointAdd ==
  /\ Running /\ ~isoReady
  /\ isoReady' = TRUE
  /\ UNCHANGED <<app, frame, tick, prop, isoQueue, urb, currentRequest, dpcs,
                 bugcheck, faults, host>>

SubmitUrb(u) ==
  /\ Running /\ isoReady /\ urb[u] = "idle"
  /\ urb' = [urb EXCEPT ![u] = "queued"]
  /\ isoQueue' = Append(isoQueue, u)
  /\ UNCHANGED <<app, frame, tick, prop, isoReady, currentRequest, dpcs,
                 bugcheck, faults, host>>

CancelUrb(i) ==
  /\ Running /\ i \in DOMAIN isoQueue
  /\ urb' = [urb EXCEPT ![isoQueue[i]] = "idle"]
  /\ isoQueue' = RemoveAt(isoQueue, i)
  /\ UNCHANGED <<app, frame, tick, prop, isoReady, currentRequest, dpcs,
                 bugcheck, faults, host>>

------------------------------------------------------------------------------
(* EvtIsochTimer: processVideo, then the timer is started again            *)

Unfinished == frame_buf # NULL /\ frame_pos < frame_length

(* Mutant: the ticks are not counted.                                      *)
CountedNever == timeout

(* The counter after "++timeout > 3000", which only an unfinished frame    *)
(* reaches: || evaluates it last.                                          *)
Counted == IF Unfinished THEN timeout + 1 ELSE timeout

(* Mutant: a timeout one tick early.                                       *)
FrameDueEarly == ~Unfinished \/ Counted >= TimeoutTicks

FrameDue == ~Unfinished \/ Counted > TimeoutTicks

BlameOverlap ==
  IF DpcPending THEN Blame("dpc_overlap") ELSE UNCHANGED faults

(* Mutants: the counter is not reset; the request stays in hand.           *)
TickReleaseKeepsTimeout ==
  /\ Running /\ timer = "armed" /\ BlameOverlap
  /\ FrameDue /\ currentVideoRequest # NULL
  /\ frame_buf' = NULL
  /\ CompletePush(currentVideoRequest)
  /\ currentVideoRequest' = NULL
  /\ UNCHANGED <<bufLen, videoQueue, frame_pos, frame_length, frame_flip, timer,
                 timeout, prop, iso, dpcs, host>>

TickReleaseKeepsRequest ==
  /\ Running /\ timer = "armed" /\ BlameOverlap
  /\ FrameDue /\ currentVideoRequest # NULL
  /\ frame_buf' = NULL
  /\ CompletePush(currentVideoRequest)
  /\ timeout' = 0
  /\ UNCHANGED <<bufLen, videoQueue, currentVideoRequest, frame_pos,
                 frame_length, frame_flip, timer, prop, iso, dpcs, host>>

(* The frame in hand is finished, or was in hand for too many ticks.       *)
TickRelease ==
  /\ Running /\ timer = "armed" /\ BlameOverlap
  /\ FrameDue /\ currentVideoRequest # NULL
  /\ frame_buf' = NULL
  /\ CompletePush(currentVideoRequest)
  /\ currentVideoRequest' = NULL
  /\ timeout' = 0
  /\ UNCHANGED <<bufLen, videoQueue, frame_pos, frame_length, frame_flip, timer,
                 prop, iso, dpcs, host>>

(* Nothing in hand: look at VideoQueue (WdfIoQueueGetState).               *)
TickGetState ==
  /\ Running /\ timer = "armed" /\ BlameOverlap
  /\ FrameDue /\ currentVideoRequest = NULL
  /\ timeout' = Counted
  /\ timer' = IF videoQueue = <<>> THEN "iso" ELSE "retrieve"
  /\ UNCHANGED <<app, frame, prop, iso, dpcs, bugcheck, host>>

(* The frame in hand has bytes left: go on to the URBs.                    *)
TickContinue ==
  /\ Running /\ timer = "armed" /\ BlameOverlap
  /\ ~FrameDue
  /\ timeout' = Counted /\ timer' = "iso"
  /\ UNCHANGED <<app, frame, prop, iso, dpcs, bugcheck, host>>

(* WdfIoQueueRetrieveNextRequest(VideoQueue).  The queue may have become   *)
(* empty since its state was read; the error path then completes the NULL  *)
(* currentVideoRequest.                                                    *)
RetrieveNothing ==
  /\ Running /\ timer = "retrieve" /\ videoQueue = <<>>
  /\ bugcheck' = "null_request"
  /\ UNCHANGED <<app, frame, tick, prop, iso, dpcs, faults, host>>

Discards == timeout > DiscardTicks

RetrieveFrame ==
  /\ Running /\ timer = "retrieve" /\ videoQueue # <<>>
  /\ videoQueue' = Tail(videoQueue)
  /\ req' = [req EXCEPT ![Head(videoQueue)] = IF Discards THEN "done" ELSE "held"]
  /\ currentVideoRequest' = IF Discards THEN NULL ELSE Head(videoQueue)
  /\ timeout' = IF Discards THEN 0 ELSE timeout
  /\ timer' = IF Discards THEN "armed" ELSE "buffer"
  /\ UNCHANGED <<bufLen, frame_buf, frame_pos, frame_length, frame_flip, prop,
                 iso, dpcs, bugcheck, faults, host>>

(* WdfRequestRetrieveInputBuffer succeeds ...                              *)
TakeFrame ==
  /\ Running /\ timer = "buffer" /\ ~TooShort(currentVideoRequest)
  /\ frame_buf' = currentVideoRequest
  /\ timer' = "pos"
  /\ UNCHANGED <<app, currentVideoRequest, frame_pos, frame_length, frame_flip,
                 timeout, prop, iso, dpcs, bugcheck, faults, host>>

(* Mutant: the position of the last frame is kept.                         *)
StartFrameInTheMiddle ==
  /\ Running /\ timer = "pos"
  /\ timer' = "iso"
  /\ UNCHANGED <<app, frame, timeout, prop, iso, dpcs, bugcheck, faults, host>>

(* ... and the frame is sent from its first byte.                          *)
StartFrame ==
  /\ Running /\ timer = "pos"
  /\ frame_pos' = 0
  /\ timer' = "iso"
  /\ UNCHANGED <<app, currentVideoRequest, frame_buf, frame_length, frame_flip,
                 timeout, prop, iso, dpcs, bugcheck, faults, host>>

(* It fails: the request is completed but stays in currentVideoRequest.    *)
RejectFrame ==
  /\ Running /\ timer = "buffer" /\ TooShort(currentVideoRequest)
  /\ CompletePush(currentVideoRequest)
  /\ timer' = "armed"
  /\ UNCHANGED <<bufLen, videoQueue, frame, timeout, prop, iso, dpcs, faults,
                 host>>

(* No endpoint yet, or no URB queued.  In the second case the failed       *)
(* retrieve may leave currentRequest or clear it.                          *)
NoUrb ==
  /\ Running /\ timer = "iso"
  /\ \/ ~isoReady /\ UNCHANGED currentRequest
     \/ isoReady /\ isoQueue = <<>> /\ currentRequest' \in {currentRequest, NULL}
  /\ timer' = "armed"
  /\ UNCHANGED <<app, frame, timeout, prop, isoReady, isoQueue, urb, dpcs,
                 bugcheck, faults, host>>

RetrieveUrb ==
  /\ Running /\ timer = "iso" /\ isoReady /\ isoQueue # <<>>
  /\ currentRequest' = Head(isoQueue)
  /\ isoQueue' = Tail(isoQueue)
  /\ urb' = [urb EXCEPT ![Head(isoQueue)] = "held"]
  /\ timer' = "enqueue"
  /\ UNCHANGED <<app, frame, timeout, prop, isoReady, dpcs, bugcheck, faults,
                 host>>

(* Mutant: processVideo returns before WdfDpcEnqueue.                      *)
EnqueueNothing ==
  /\ Running /\ timer = "enqueue"
  /\ timer' = "armed"
  /\ UNCHANGED <<app, frame, timeout, prop, iso, dpcs, bugcheck, faults, host>>

(* WdfDpcEnqueue; without effect if the DPC is still queued.               *)
EnqueueDpc ==
  /\ Running /\ timer = "enqueue"
  /\ dpcQueued' = TRUE /\ timer' = "armed"
  /\ UNCHANGED <<app, frame, timeout, prop, iso, dpc, bugcheck, faults, host>>

------------------------------------------------------------------------------
(* DpcCompleteVidoeIsoUrb                                                  *)

(* A frame is in hand: start filling the packets of currentRequest.        *)
DpcBegin(c) ==
  /\ Running /\ dpcQueued /\ dpc[c].pc = "idle"
  /\ currentRequest # NULL /\ frame_buf # NULL
  /\ dpcQueued' = FALSE
  /\ dpc' = [dpc EXCEPT ![c] = [pc |-> "copy", urb |-> currentRequest,
                                left |-> Packets, len |-> 0]]
  /\ UNCHANGED <<app, frame, tick, prop, iso, bugcheck, faults, host>>

(* Mutant: without a frame the DPC returns and keeps the URB.              *)
DpcReturnNothing(c) ==
  /\ Running /\ dpcQueued /\ dpc[c].pc = "idle" /\ currentRequest # NULL
  /\ dpcQueued' = FALSE
  /\ UNCHANGED <<app, frame, tick, prop, iso, dpc, bugcheck, faults, host>>

(* No frame: the URB goes back without bytes.  An URB of another kind, or  *)
(* one without a buffer, goes back with an error whether or not there is a *)
(* frame.                                                                  *)
DpcReturnEmpty(c) ==
  /\ Running /\ dpcQueued /\ dpc[c].pc = "idle" /\ currentRequest # NULL
  /\ dpcQueued' = FALSE
  /\ CompleteUrb(currentRequest)
  /\ UNCHANGED <<app, frame, tick, prop, isoReady, isoQueue, currentRequest, dpc,
                 faults, host>>

(* WdfRequestGetParameters of a NULL handle.                               *)
DpcNoRequest(c) ==
  /\ Running /\ dpcQueued /\ dpc[c].pc = "idle" /\ currentRequest = NULL
  /\ bugcheck' = "null_request"
  /\ UNCHANGED <<app, frame, tick, prop, iso, dpcs, faults, host>>

(* Mutant: the last packet is filled like the others.                      *)
CopyAllOfIt == DataLen

CopyLength ==
  IF frame_length - frame_pos < DataLen THEN frame_length - frame_pos ELSE DataLen

(* What the host's assembler makes of a packet: a packet opens a frame if  *)
(* the last one was closed by EOF or had the other FID, and otherwise adds *)
(* to it.                                                                  *)
Opens == ~asm.open \/ asm.fid # frame_flip

Fits ==
  IF Opens THEN frame_pos = 0
  ELSE asm.whole /\ asm.src = frame_buf /\ asm.next = frame_pos

(* One packet: header and payload are written.  A copy of no bytes does    *)
(* not read frame_buf ...                                                  *)
DpcCopy(c) ==
  /\ Running /\ dpc[c].pc = "copy"
  /\ CopyLength = 0 \/ (CopyLength > 0 /\ frame_buf # NULL)
  /\ dpc' = [dpc EXCEPT ![c].pc = "advance", ![c].len = CopyLength]
  /\ asm' = [open |-> TRUE, fid |-> frame_flip, src |-> frame_buf,
             next |-> frame_pos + CopyLength, whole |-> Fits]
  /\ UNCHANGED <<app, frame, tick, prop, iso, dpcQueued, bugcheck, faults,
                 picture>>

(* ... then frame_pos is read, and "len" is what it is to become ...       *)
DpcAdvance(c) ==
  /\ Running /\ dpc[c].pc = "advance"
  /\ dpc' = [dpc EXCEPT ![c].pc = "store", ![c].len = frame_pos + @]
  /\ UNCHANGED <<app, frame, tick, prop, iso, dpcQueued, bugcheck, faults, host>>

(* ... and stored.                                                         *)
DpcStore(c) ==
  /\ Running /\ dpc[c].pc = "store"
  /\ frame_pos' = dpc[c].len
  /\ dpc' = [dpc EXCEPT ![c].pc = "eof", ![c].len = 0]
  /\ UNCHANGED <<app, currentVideoRequest, frame_buf, frame_length, frame_flip,
                 tick, prop, iso, dpcQueued, bugcheck, faults, host>>

FrameEnds == frame_pos >= frame_length

(* Mutant: the frame id counts up.                                         *)
DpcEofCountsFlips(c) ==
  /\ Running /\ dpc[c].pc = "eof"
  /\ asm' = [asm EXCEPT !.open = ~FrameEnds]
  /\ picture' = IF ~FrameEnds THEN picture ELSE IF asm.whole THEN asm.src ELSE Torn
  /\ dpc' = [dpc EXCEPT ![c].pc = IF FrameEnds THEN "flip" ELSE "next",
                        ![c].len = IF FrameEnds THEN frame_flip + 1 ELSE 0]
  /\ UNCHANGED <<app, frame, tick, prop, iso, dpcQueued, bugcheck, faults>>

(* The last packet of a frame gets EOF, and the frame id is read; "len" is *)
(* what it is to become ...                                                *)
DpcEof(c) ==
  /\ Running /\ dpc[c].pc = "eof"
  /\ asm' = [asm EXCEPT !.open = ~FrameEnds]
  /\ picture' = IF ~FrameEnds THEN picture ELSE IF asm.whole THEN asm.src ELSE Torn
  /\ dpc' = [dpc EXCEPT ![c].pc = IF FrameEnds THEN "flip" ELSE "next",
                        ![c].len = IF FrameEnds THEN 1 - frame_flip ELSE 0]
  /\ UNCHANGED <<app, frame, tick, prop, iso, dpcQueued, bugcheck, faults>>

(* ... and stored.                                                         *)
DpcFlip(c) ==
  /\ Running /\ dpc[c].pc = "flip"
  /\ frame_flip' = dpc[c].len
  /\ dpc' = [dpc EXCEPT ![c].pc = "next", ![c].len = 0]
  /\ UNCHANGED <<app, currentVideoRequest, frame_buf, frame_pos, frame_length,
                 tick, prop, iso, dpcQueued, bugcheck, faults, host>>

(* The end of the frame ends the URB; it is looked for once more.          *)
DpcNext(c) ==
  /\ Running /\ dpc[c].pc = "next"
  /\ dpc' = [dpc EXCEPT ![c].pc = IF FrameEnds \/ dpc[c].left = 1
                                  THEN "complete" ELSE "copy",
                        ![c].left = @ - 1]
  /\ UNCHANGED <<app, frame, tick, prop, iso, dpcQueued, bugcheck, faults, host>>

(* The copy reads through a NULL frame_buf, or its length is negative and  *)
(* becomes a huge size_t.                                                  *)
DpcBadCopy(c) ==
  /\ Running /\ dpc[c].pc = "copy"
  /\ \/ frame_buf = NULL /\ CopyLength # 0 /\ bugcheck' = "null_frame"
     \/ frame_buf # NULL /\ CopyLength < 0 /\ bugcheck' = "bad_copy"
  /\ UNCHANGED <<app, frame, tick, prop, iso, dpcs, faults, host>>

DpcComplete(c) ==
  /\ Running /\ dpc[c].pc = "complete"
  /\ CompleteUrb(dpc[c].urb)
  /\ dpc' = [dpc EXCEPT ![c] = Idle]
  /\ UNCHANGED <<app, frame, tick, prop, isoReady, isoQueue, currentRequest,
                 dpcQueued, faults, host>>

------------------------------------------------------------------------------
(* init_cam_prop and the zeroed device context.                            *)
Init ==
  /\ req = [r \in Requests |-> "free"]
  /\ bufLen = [r \in Requests |-> 0]
  /\ videoQueue = <<>>
  /\ currentVideoRequest = NULL
  /\ frame_buf = NULL /\ frame_pos = 0 /\ frame_flip = 0
  /\ frame_length = InitialLength
  /\ timeout = 0 /\ timer = "armed"
  /\ setProp = [s \in Setters |-> "idle"]
  /\ isoReady = FALSE /\ isoQueue = <<>>
  /\ urb = [u \in Urbs |-> "idle"]
  /\ currentRequest = NULL
  /\ dpcQueued = FALSE /\ dpc = [c \in Cpus |-> Idle]
  /\ bugcheck = "none" /\ faults = {}
  /\ asm = Closed /\ picture = NULL

Application ==
  \/ \E r \in Requests, n \in BufferLengths : Push(r, n)
  \/ \E r \in Requests : PushRefused(r)
  \/ \E i \in DOMAIN videoQueue : CancelPush(i)
  \/ \E s \in Setters : SetVideoProp(s)

Host ==
  \/ EndpointAdd
  \/ \E u \in Urbs : SubmitUrb(u)
  \/ \E i \in DOMAIN isoQueue : CancelUrb(i)

EvtIsochTimer ==
  \/ TickRelease \/ TickGetState \/ TickContinue
  \/ RetrieveNothing \/ RetrieveFrame \/ TakeFrame \/ StartFrame \/ RejectFrame
  \/ NoUrb \/ RetrieveUrb \/ EnqueueDpc

DpcCompleteVidoeIsoUrb(c) ==
  \/ DpcBegin(c) \/ DpcReturnEmpty(c) \/ DpcNoRequest(c)
  \/ DpcCopy(c) \/ DpcAdvance(c) \/ DpcStore(c) \/ DpcEof(c) \/ DpcFlip(c)
  \/ DpcNext(c) \/ DpcBadCopy(c) \/ DpcComplete(c)

(* After a bugcheck nothing happens any more.                              *)
Stopped == ~Running /\ UNCHANGED vars

Next ==
  \/ Application
  \/ Host
  \/ EvtIsochTimer
  \/ \E c \in Cpus : DpcCompleteVidoeIsoUrb(c)
  \/ Stopped

Spec == Init /\ [][Next]_vars

------------------------------------------------------------------------------
(* Properties                                                              *)

Bugchecks == {"none", "double_push", "double_urb", "null_request",
              "null_frame", "bad_copy"}

Faults == {"short_frame", "resize_in_flight", "cancel_window", "dpc_overlap"}

DpcRun == [pc : {"idle", "copy", "advance", "store", "eof", "flip", "next",
                 "complete"},
           urb : Urbs \cup {NULL}, left : Int, len : Int]

Assembly == [open : BOOLEAN, fid : {0, 1}, src : Requests \cup {NULL},
             next : Int, whole : BOOLEAN]

(* The type of the state.                                                  *)
TypeOK ==
  /\ req \in [Requests -> {"free", "queued", "held", "done"}]
  /\ bufLen \in [Requests -> Nat]
  /\ videoQueue \in Seq(Requests)
  /\ currentVideoRequest \in Requests \cup {NULL}
  /\ frame_buf \in Requests \cup {NULL}
  /\ frame_pos \in Int /\ frame_length \in Int /\ frame_flip \in {0, 1}
  /\ timeout \in Nat
  /\ timer \in {"armed", "retrieve", "buffer", "pos", "iso", "enqueue"}
  /\ setProp \in [Setters -> {"idle", "length", "pos"}]
  /\ isoReady \in BOOLEAN /\ isoQueue \in Seq(Urbs)
  /\ urb \in [Urbs -> {"idle", "queued", "held"}]
  /\ currentRequest \in Urbs \cup {NULL}
  /\ dpcQueued \in BOOLEAN
  /\ dpc \in [Cpus -> DpcRun]
  /\ \A c \in Cpus : dpc[c].pc = "flip" => dpc[c].len \in {0, 1}
  /\ bugcheck \in Bugchecks /\ faults \subseteq Faults
  /\ asm \in Assembly /\ picture \in Requests \cup {NULL, Torn}

(* What each bugcheck takes.                                               *)
Causes ==
  [ none         |-> Faults,
    double_push  |-> {"short_frame", "resize_in_flight"},
    double_urb   |-> {"dpc_overlap"},
    null_request |-> {"cancel_window", "dpc_overlap"},
    null_frame   |-> {"dpc_overlap"},
    bad_copy     |-> {"resize_in_flight", "dpc_overlap"} ]

(* The system stops only after a departure from the intended use that      *)
(* explains it: a frame given back twice needs a buffer too short for the  *)
(* geometry, an URB given back twice or a copy through a NULL frame needs  *)
(* a DPC that outlives the tick that queued it, and so on.                 *)
BugcheckExplained ==
  bugcheck # "none" => faults \cap Causes[bugcheck] # {}

Calm == faults \cap {"resize_in_flight", "dpc_overlap"} = {}

(* How far a run of the DPC has come in the frame: the packet it has just  *)
(* copied included.                                                        *)
Reach(c) ==
  CASE dpc[c].pc = "advance" -> frame_pos + dpc[c].len
    [] dpc[c].pc = "store"   -> dpc[c].len
    [] OTHER                 -> frame_pos

(* The DPC reads inside the buffer of the frame in hand, unless the        *)
(* geometry changed under a frame or two DPCs ran: position, bytes just    *)
(* copied, frame length and buffer length stay in this order between the   *)
(* timer's check of the buffer and the last packet.                        *)
CopyWithinBuffer ==
  \A c \in Cpus :
    Calm /\ dpc[c].pc \notin {"idle", "complete"} =>
      /\ frame_buf # NULL
      /\ 0 <= frame_pos /\ frame_pos <= Reach(c)
      /\ Reach(c) <= frame_length
      /\ frame_length <= bufLen[frame_buf]

(* No pushed frame is lost: one that was taken from VideoQueue and not     *)
(* completed is the frame in hand.  No URB is lost, unless a DPC overlaps  *)
(* the next tick: one that was taken from IsoVideoInQueue and not          *)
(* completed is on its way to the DPC or in it.                            *)
NothingLost ==
  /\ \A r \in Requests : req[r] = "held" => currentVideoRequest = r
  /\ \A u \in Urbs : urb[u] = "held" /\ "dpc_overlap" \notin faults =>
       \/ currentRequest = u /\ (timer = "enqueue" \/ dpcQueued)
       \/ \E c \in Cpus : dpc[c].urb = u

(* The branch of processVideo that discards a frame ("timeout > 30") is    *)
(* dead: the counter is 0 whenever no frame is in hand.                    *)
DiscardUnreachable == timer = "retrieve" => ~Discards

(* In calm use the driver keeps a frame that has bytes until the host got  *)
(* its last byte and EOF, or for more than TimeoutTicks ticks; it never    *)
(* gives one back earlier and never because the next one waits.            *)
KeptUntilSent ==
  [][ \A r \in Requests :
        req[r] = "held" /\ req'[r] = "done" /\ frame_length > 0 =>
          \/ asm.src = r /\ ~asm.open
          \/ timeout' = 0 /\ timeout = TimeoutTicks ]_vars

------------------------------------------------------------------------------
(* The intended use: no frame shorter than the geometry, no change of the  *)
(* geometry while frames are outstanding, no cancellation in the window of *)
(* processVideo, and DPCs that return before the next tick.                *)
CalmNext == Next /\ faults' = {}

CalmSpec == Init /\ [][CalmNext]_vars

(* What FrameDelivery says of frames, read off this state: the frame in    *)
(* hand counts as pending until the host got its EOF.                      *)
Sent == asm.src = currentVideoRequest /\ ~asm.open

Pending ==
  IF currentVideoRequest = NULL \/ Sent THEN videoQueue
  ELSE <<currentVideoRequest>> \o videoQueue

Sending ==
  currentVideoRequest # NULL /\ asm.src = currentVideoRequest /\ asm.open

Spoiled ==
  asm.open /\ asm.fid = frame_flip /\ (asm.src # currentVideoRequest \/ ~asm.whole)

Abstract ==
  INSTANCE FrameDelivery WITH Frames <- Requests, Blank <- NULL,
    pending <- Pending, sending <- Sending, spoiled <- Spoiled

(* In calm use the driver implements FrameDelivery: the host shows the     *)
(* frames in order, once and whole, and a torn one only after a frame that *)
(* was abandoned half way.                                                 *)
Delivers == Abstract!Delivery
=============================================================================
