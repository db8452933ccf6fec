---------------------------- MODULE VideoStreamInv ----------------------------
(* The inductive invariant behind the safety properties of VideoStream.    *)
EXTENDS VideoStream

(* A queue holds requests in state "queued", each once.                    *)
Queues(q, state) ==
  /\ \A i \in 1 .. Len(q) : state[q[i]] = "queued"
  /\ IsInjective(q)

VideoQueueInv == Queues(videoQueue, req)

IsoQueueInv == Queues(isoQueue, urb)

Mismatched == faults \cap {"short_frame", "resize_in_flight"} # {}

(* The frame in hand: who holds it, and what the timer knows of it between *)
(* its steps.  A frame that was completed and is still in hand was too     *)
(* short.                                                                  *)
HandInv ==
  /\ currentVideoRequest = NULL => frame_buf = NULL /\ timeout = 0
  /\ frame_buf # NULL => frame_buf = currentVideoRequest /\ req[frame_buf] = "held"
  /\ \A r \in Requests : req[r] = "held" => currentVideoRequest = r
  /\ currentVideoRequest # NULL => req[currentVideoRequest] = "held" \/ Mismatched
  /\ timer = "retrieve" =>
       /\ currentVideoRequest = NULL
       /\ videoQueue = <<>> => "cancel_window" \in faults
  /\ timer = "buffer" =>
       /\ currentVideoRequest # NULL /\ frame_buf = NULL
       /\ req[currentVideoRequest] = "held"
  /\ timer = "pos" => frame_buf # NULL

(* The geometry and the buffers: a mismatch has a cause.                   *)
GeometryInv ==
  /\ Setting /\ Outstanding => "resize_in_flight" \in faults
  /\ \A r \in Requests :
       req[r] \in {"queued", "held"} /\ TooShort(r) => Mismatched
  /\ Calm /\ frame_buf # NULL =>
       /\ 0 <= frame_length /\ frame_length <= bufLen[frame_buf]
       /\ timer # "pos" => 0 <= frame_pos /\ frame_pos <= frame_length

OneAtATime == "dpc_overlap" \notin faults

(* A run of the DPC in progress has an URB.                                *)
RunInv == \A c \in Cpus : dpc[c].pc # "idle" => dpc[c].urb \in Urbs

(* As long as no DPC outlives its tick, there is one URB under way at most *)
(* and it is the one in currentRequest.                                    *)
DpcInv ==
  OneAtATime =>
    /\ timer # "armed" => ~DpcPending
    /\ dpcQueued => \A c \in Cpus : dpc[c].pc = "idle"
    /\ \A c, d \in Cpus : dpc[c].pc # "idle" /\ dpc[d].pc # "idle" => c = d
    /\ timer = "enqueue" \/ DpcPending =>
         currentRequest # NULL /\ urb[currentRequest] = "held"
    /\ \A c \in Cpus : dpc[c].pc # "idle" => dpc[c].urb = currentRequest
    /\ \A c \in Cpus : dpc[c].pc # "idle" => frame_buf # NULL
    /\ \A u \in Urbs : urb[u] = "held" =>
         currentRequest = u /\ (timer = "enqueue" \/ DpcPending)

(* What a packet adds stays inside the frame.                              *)
CopyInv ==
  \A c \in Cpus :
    Calm /\ dpc[c].pc \in {"advance", "store"} =>
      frame_pos <= Reach(c) /\ Reach(c) <= frame_length

(* The inductive invariant.                                                *)
IInv ==
  /\ TypeOK
  /\ VideoQueueInv /\ IsoQueueInv
  /\ HandInv /\ GeometryInv
  /\ RunInv /\ DpcInv /\ CopyInv
  /\ BugcheckExplained

------------------------------------------------------------------------------
(* What the host has of the frame in hand, in calm use.                    *)

Copies   == \E c \in Cpus : dpc[c].pc = "copy"
Advances == \E c \in Cpus : dpc[c].pc \in {"advance", "store", "eof"}

(* The frame the host assembles was taken from VideoQueue; its frame id is *)
(* that of the driver, unless a new geometry has reset the driver's.       *)
HostInv ==
  /\ asm.src # NULL => req[asm.src] \in {"held", "done"}
  /\ asm.open => asm.src # NULL
  /\ asm.open /\ asm.fid # frame_flip => frame_flip = 0
  /\ Sending => asm.fid = frame_flip

(* How far the frame in hand is: not begun, begun and its bytes so far     *)
(* received, or sent with its EOF; a URB is filled only if it is not sent, *)
(* and the frame id changes only when it is.                               *)
ProgressInv ==
  /\ timeout <= TimeoutTicks
  /\ currentVideoRequest # NULL /\ frame_buf = NULL => timer = "buffer"
  /\ timer \in {"buffer", "pos"} => asm.src # currentVideoRequest
  /\ frame_buf # NULL /\ timer # "pos" /\ ~Advances =>
       /\ asm.src # currentVideoRequest => frame_pos = 0
       /\ Sending => frame_pos < frame_length /\ (asm.whole => asm.next = frame_pos)
       /\ Sent => frame_pos >= frame_length
  /\ \A c \in Cpus :
       /\ dpc[c].pc \in {"advance", "store", "eof"} =>
            Sending /\ (asm.whole => asm.next = Reach(c))
       /\ dpc[c].pc = "flip" => Sent
  /\ frame_buf # NULL /\ (timer \in {"iso", "enqueue"} \/ dpcQueued \/ Copies) => ~Sent

CalmInv == faults = {} /\ IInv /\ HostInv /\ ProgressInv
=============================================================================
