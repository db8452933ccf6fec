------------------------- MODULE FrameDeliveryProofs -------------------------
(* Proofs that the streaming path implements FrameDelivery in calm use,    *)
(* for any number of frames, URBs and processors and any geometry.         *)
EXTENDS VideoStreamProofs

------------------------------------------------------------------------------
(* Calm use                                                                *)

(* Without a fault the system runs, a frame in hand is held and long       *)
(* enough, and the geometry changes only when no frame is outstanding.     *)
LEMMA CalmFacts ==
  ASSUME IInv, faults = {}
  PROVE  /\ bugcheck = "none"
         /\ currentVideoRequest # NULL =>
              /\ currentVideoRequest \in Requests
              /\ req[currentVideoRequest] = "held"
              /\ ~TooShort(currentVideoRequest)
         /\ Setting => currentVideoRequest = NULL /\ videoQueue = <<>>
         /\ timer = "retrieve" => videoQueue # <<>> /\ ~Discards
<1> USE DEF IInv
<1>1. bugcheck = "none"
  BY DEF BugcheckExplained
<1>2. ASSUME currentVideoRequest # NULL
      PROVE  /\ currentVideoRequest \in Requests
             /\ req[currentVideoRequest] = "held"
             /\ ~TooShort(currentVideoRequest)
  BY <1>2 DEF HandInv, GeometryInv, Mismatched, TypeOK
<1>3. ASSUME Setting
      PROVE  currentVideoRequest = NULL /\ videoQueue = <<>>
  <2>1. ~Outstanding
    BY <1>3 DEF GeometryInv
  <2>2. currentVideoRequest = NULL
    BY <2>1, <1>2 DEF Outstanding
  <2>3. ASSUME videoQueue # <<>> PROVE FALSE
    <3>1. 1 \in 1 .. Len(videoQueue) /\ videoQueue[1] \in Requests
      BY <2>3 DEF TypeOK
    <3>2. req[videoQueue[1]] = "queued"
      BY <3>1 DEF VideoQueueInv, Queues
    <3> QED
      BY <2>1, <3>1, <3>2 DEF Outstanding
  <2> QED
    BY <2>2, <2>3
<1>4. ASSUME timer = "retrieve"
      PROVE  videoQueue # <<>> /\ ~Discards
  BY <1>4, Ticks DEF HandInv, Discards
<1> QED
  BY <1>1, <1>2, <1>3, <1>4

(* Between two ticks there is one run of the DPC at most, and it is over   *)
(* when the timer callback runs.                                           *)
LEMMA CalmRuns ==
  ASSUME IInv, faults = {}
  PROVE  /\ DpcPending => timer = "armed"
         /\ \A c, d \in Cpus : dpc[c].pc # "idle" /\ dpc[d].pc # "idle" => c = d
         /\ dpcQueued => \A c \in Cpus : dpc[c].pc = "idle"
         /\ Copies \/ Advances => frame_buf # NULL
BY DEF IInv, DpcInv, OneAtATime, DpcPending, Copies, Advances

(* A run of the DPC that goes on after a packet is the only one, before    *)
(* and after its step.                                                     *)
LEMMA RunAlone ==
  ASSUME IInv, faults = {}, NEW c \in Cpus,
         DpcAdvance(c) \/ DpcStore(c) \/ DpcEof(c) \/ DpcFlip(c) \/ DpcNext(c)
  PROVE  /\ timer = "armed" /\ ~dpcQueued /\ frame_buf # NULL
         /\ currentVideoRequest # NULL
         /\ \A d \in Cpus \ {c} : dpc[d].pc = "idle" /\ dpc'[d].pc = "idle"
         /\ UNCHANGED <<app, timeout, timer, currentVideoRequest, frame_buf,
                        frame_length, dpcQueued>>
<1>1. /\ dpc[c].pc # "idle" /\ \A d \in Cpus \ {c} : dpc'[d] = dpc[d]
      /\ UNCHANGED <<app, timeout, timer, currentVideoRequest, frame_buf,
                     frame_length, dpcQueued>>
  BY RunsGoOn DEF IInv, tick
<1>2. \A d \in Cpus \ {c} : dpc[d].pc = "idle"
  BY <1>1, CalmRuns
<1>3. frame_buf # NULL /\ currentVideoRequest # NULL
  BY <1>1 DEF IInv, DpcInv, OneAtATime, HandInv
<1> QED
  BY <1>1, <1>2, <1>3, CalmRuns DEF DpcPending

LEMMA CalmInit == Init => CalmInv
<1> SUFFICES ASSUME Init PROVE CalmInv
  OBVIOUS
<1>1. HostInv
  BY DEF Init, HostInv, Closed, Sending
<1>2. ProgressInv
  BY Ticks DEF Init, ProgressInv, Closed, Sent, Sending, Copies, Advances, Idle
<1> QED
  BY <1>1, <1>2, InvInit DEF CalmInv, Init

(* What a step of the timer callback, of the DPC and of IOCTL_SET_VIDEO_   *)
(* PROP knows in calm use.                                                 *)
LEMMA TickAlone ==
  ASSUME CalmInv, faults' = {}, TickRelease \/ TickGetState \/ TickContinue
  PROVE  ~DpcPending
BY DEF TickRelease, TickGetState, TickContinue, BlameOverlap, Blame

LEMMA FlipAlone ==
  ASSUME CalmInv, faults' = {}, NEW s \in Setters, SetPropFlip(s)
  PROVE  currentVideoRequest = NULL /\ videoQueue = <<>>
<1>1. ~Outstanding
  BY DEF SetPropFlip, Blame
<1>2. currentVideoRequest = NULL
  BY <1>1, CalmFacts DEF CalmInv, Outstanding
<1>3. ASSUME videoQueue # <<>> PROVE FALSE
  <2>1. 1 \in 1 .. Len(videoQueue) /\ videoQueue[1] \in Requests
    BY <1>3 DEF CalmInv, IInv, TypeOK
  <2>2. req[videoQueue[1]] = "queued"
    BY <2>1 DEF CalmInv, IInv, VideoQueueInv, Queues
  <2> QED
    BY <1>1, <2>1, <2>2 DEF Outstanding
<1> QED
  BY <1>2, <1>3

LEMMA HostNext ==
  ASSUME CalmInv, faults' = {}, [Next]_vars
  PROVE  HostInv'
<1> USE DEF CalmInv, IInv, TypeOK, Assembly, HostInv, Sending, app, frame, tick, prop, iso, dpcs,
        host
<1>1. ASSUME NEW r \in Requests, NEW n \in BufferLengths, Push(r, n) PROVE HostInv'
  BY <1>1, Naming DEF Push
<1>2. ASSUME NEW i \in DOMAIN videoQueue, CancelPush(i) PROVE HostInv'
  <2>1. req[videoQueue[i]] = "queued" /\ videoQueue[i] \in Requests
    BY DEF VideoQueueInv, Queues
  <2> QED
    BY <1>2, <2>1, Naming DEF CancelPush
<1>3. ASSUME NEW s \in Setters, SetPropFlip(s) PROVE HostInv'
  BY <1>3, FlipAlone DEF SetPropFlip
<1>4. ASSUME NEW s \in Setters, SetPropPos(s) \/ \E n \in FrameLengths : SetPropLength(s, n)
      PROVE  HostInv'
  BY <1>4 DEF SetPropLength, SetPropPos
<1>5. CASE TickRelease
  BY <1>5, Naming DEF TickRelease, CompletePush
<1>6. CASE RetrieveFrame
  <2>1. /\ Head(videoQueue) \in Requests /\ req[Head(videoQueue)] = "queued"
    BY <1>6, TailQueues DEF RetrieveFrame, VideoQueueInv
  <2>2. asm.src # Head(videoQueue)
    BY <2>1, Naming
  <2> QED
    BY <1>6, <2>1, <2>2, Naming DEF RetrieveFrame
<1>7. CASE RejectFrame
  BY <1>7, CalmFacts DEF RejectFrame, HandInv
<1>8. ASSUME NEW c \in Cpus, DpcCopy(c) PROVE HostInv'
  <2>1. /\ frame_buf \in Requests /\ frame_buf # NULL
        /\ frame_buf = currentVideoRequest /\ req[frame_buf] = "held"
    BY <1>8, CalmRuns DEF DpcCopy, Copies, HandInv
  <2>2. asm' = [open |-> TRUE, fid |-> frame_flip, src |-> frame_buf,
                next |-> frame_pos + CopyLength, whole |-> Fits]
        /\ UNCHANGED <<req, currentVideoRequest, frame_flip>>
    BY <1>8 DEF DpcCopy
  <2>3. asm'.open /\ asm'.fid = frame_flip /\ asm'.src = frame_buf
    BY <2>2
  <2> HIDE DEF TypeOK
  <2> QED
    BY <2>1, <2>2, <2>3
<1>9. ASSUME NEW c \in Cpus, DpcEof(c) PROVE HostInv'
  <2>1. Sending
    BY <1>9 DEF DpcEof, ProgressInv
  <2>2. /\ asm' = [asm EXCEPT !.open = ~FrameEnds]
        /\ UNCHANGED <<req, currentVideoRequest, frame_flip>>
    BY <1>9 DEF DpcEof
  <2>3. FrameEnds \in BOOLEAN
    BY DEF FrameEnds
  <2>4. asm'.open = ~FrameEnds /\ asm'.src = asm.src /\ asm'.fid = asm.fid
    BY <2>2, <2>3
  <2> QED
    BY <2>1, <2>2, <2>3, <2>4
<1>10. CASE \/ EndpointAdd \/ (\E u \in Urbs : SubmitUrb(u))
            \/ (\E i \in DOMAIN isoQueue : CancelUrb(i))
  BY <1>10 DEF EndpointAdd, SubmitUrb, CancelUrb
<1>11. CASE \/ TickGetState \/ TickContinue \/ RetrieveNothing \/ TakeFrame \/ StartFrame
            \/ NoUrb \/ RetrieveUrb \/ EnqueueDpc
  BY <1>11 DEF TickGetState, TickContinue, RetrieveNothing, TakeFrame, StartFrame, NoUrb,
     RetrieveUrb, EnqueueDpc
<1>12. CASE \E c \in Cpus : DpcBegin(c) \/ DpcReturnEmpty(c) \/ DpcNoRequest(c) \/ DpcBadCopy(c)
                            \/ DpcComplete(c)
  BY <1>12 DEF DpcBegin, DpcReturnEmpty, DpcNoRequest, DpcBadCopy, DpcComplete
<1>13. CASE UNCHANGED vars
  BY <1>13 DEF vars
<1>14. ASSUME NEW c \in Cpus, DpcAdvance(c) \/ DpcStore(c) \/ DpcNext(c) PROVE HostInv'
  BY <1>14 DEF DpcAdvance, DpcStore, DpcNext
<1>15. ASSUME NEW c \in Cpus, DpcFlip(c) PROVE HostInv'
  <2>1. ~asm.open
    BY <1>15 DEF DpcFlip, ProgressInv, Sent
  <2> QED
    BY <1>15, <2>1 DEF DpcFlip
<1>16. ASSUME NEW r \in Requests, PushRefused(r) PROVE HostInv'
  BY <1>16, Naming DEF PushRefused
<1> HIDE DEF CalmInv, IInv, TypeOK, Assembly, HostInv, Sending, app, frame, tick, prop, iso, dpcs,
             host
<1> QED
  BY <1>1, <1>2, <1>3, <1>4, <1>5, <1>6, <1>7, <1>8, <1>9, <1>10, <1>11, <1>12, <1>13, <1>14,
     <1>15, <1>16
     DEF Next, Application, SetVideoProp, Host, EvtIsochTimer, DpcCompleteVidoeIsoUrb, Stopped

LEMMA ProgressNext ==
  ASSUME CalmInv, faults' = {}, [Next]_vars
  PROVE  ProgressInv'
<1> USE DEF CalmInv, IInv, TypeOK, Assembly, DpcRun, ProgressInv, Sending, Sent, Copies, Advances,
        Reach, app, frame, tick, prop, iso, dpcs, host
<1>1. ASSUME NEW r \in Requests, NEW n \in BufferLengths, Push(r, n) PROVE ProgressInv'
  BY <1>1 DEF Push
<1>2. ASSUME NEW i \in DOMAIN videoQueue, CancelPush(i) PROVE ProgressInv'
  BY <1>2 DEF CancelPush
<1>3. ASSUME NEW s \in Setters, SetPropFlip(s) PROVE ProgressInv'
  BY <1>3 DEF SetPropFlip
<1>4. ASSUME NEW s \in Setters, SetPropPos(s) \/ \E n \in FrameLengths : SetPropLength(s, n)
      PROVE  ProgressInv'
  <2>1. Setting
    BY <1>4 DEF SetPropPos, SetPropLength, Setting
  <2>2. currentVideoRequest = NULL /\ frame_buf = NULL
    BY <2>1, CalmFacts DEF HandInv
  <2>3. UNCHANGED <<timeout, timer, currentVideoRequest, frame_buf, asm, dpc, dpcQueued>>
    BY <1>4 DEF SetPropPos, SetPropLength
  <2>4. ~Copies /\ ~Advances
    BY <2>2, CalmRuns
  <2> HIDE DEF TypeOK
  <2> QED
    BY <2>2, <2>3, <2>4
<1>5. CASE TickRelease
  <2>1. timer' = "armed" /\ currentVideoRequest' = NULL /\ frame_buf' = NULL /\ timeout' = 0
        /\ UNCHANGED dpc
    BY <1>5 DEF TickRelease
  <2>2. \A c \in Cpus : dpc[c].pc = "idle"
    BY <1>5, TickAlone DEF DpcPending
  <2> QED
    BY <2>1, <2>2, Ticks
<1>6. CASE TickGetState
  <2>1. ~Advances /\ ~Copies /\ ~dpcQueued
    BY <1>6, TickAlone DEF DpcPending
  <2>2. currentVideoRequest = NULL /\ frame_buf = NULL /\ timeout = 0 /\ timeout' = timeout
    BY <1>6 DEF TickGetState, HandInv, Counted, Unfinished
  <2>3. UNCHANGED <<currentVideoRequest, frame_buf, asm, dpc, dpcQueued>>
        /\ timer' \in {"iso", "retrieve"}
    BY <1>6 DEF TickGetState
  <2> QED
    BY <2>1, <2>2, <2>3, Ticks
<1>7. CASE TickContinue
  <2>1. ~Advances /\ ~Copies /\ ~dpcQueued
    BY <1>7, TickAlone DEF DpcPending
  <2>2. /\ frame_buf # NULL /\ frame_pos < frame_length /\ timeout' <= TimeoutTicks
        /\ timer = "armed" /\ timer' = "iso"
        /\ UNCHANGED <<currentVideoRequest, frame_buf, frame_pos, frame_length, asm, dpc, dpcQueued>>
    BY <1>7, Ticks DEF TickContinue, FrameDue, Unfinished, Counted
  <2> QED
    BY <2>1, <2>2
<1>8. CASE RetrieveFrame
  <2>1. /\ Head(videoQueue) \in Requests /\ req[Head(videoQueue)] = "queued"
    BY <1>8, TailQueues DEF RetrieveFrame, VideoQueueInv
  <2>2. asm.src # Head(videoQueue)
    BY <2>1, Naming DEF HostInv
  <2>3. timer = "retrieve" /\ ~Discards /\ frame_buf = NULL
    BY <1>8, CalmFacts DEF RetrieveFrame, HandInv
  <2>4. /\ currentVideoRequest' = Head(videoQueue) /\ timer' = "buffer"
        /\ UNCHANGED <<timeout, frame_buf, asm, dpc, dpcQueued>>
    BY <1>8, <2>3 DEF RetrieveFrame
  <2>5. \A c \in Cpus : dpc[c].pc = "idle"
    BY <2>3, CalmRuns DEF DpcPending
  <2> QED
    BY <2>2, <2>3, <2>4, <2>5
<1>9. CASE TakeFrame
  <2>1. ~Advances /\ ~Copies /\ ~dpcQueued
    BY <1>9, CalmRuns DEF TakeFrame, DpcPending
  <2> QED
    BY <1>9, <2>1 DEF TakeFrame, HandInv
<1>10. CASE StartFrame
  <2>1. ~Advances /\ ~Copies /\ ~dpcQueued
    BY <1>10, CalmRuns DEF StartFrame, DpcPending
  <2>2. frame_buf # NULL /\ frame_buf = currentVideoRequest /\ asm.src # currentVideoRequest
    BY <1>10 DEF StartFrame, HandInv
  <2> QED
    BY <1>10, <2>1, <2>2 DEF StartFrame
<1>11. CASE RejectFrame
  BY <1>11, CalmFacts DEF RejectFrame, HandInv
<1>12. CASE RetrieveNothing \/ NoUrb \/ RetrieveUrb
  <2>1. CASE RetrieveNothing
    BY <2>1 DEF RetrieveNothing
  <2>2. CASE NoUrb \/ RetrieveUrb
    <3>1. /\ timer = "iso" /\ timer' \in {"armed", "enqueue"}
          /\ UNCHANGED <<timeout, currentVideoRequest, frame_buf, frame_pos, frame_length, asm,
                         dpc, dpcQueued>>
      BY <2>2 DEF NoUrb, RetrieveUrb
    <3> QED
      BY <3>1
  <2> QED
    BY <1>12, <2>1, <2>2
<1>13. CASE EnqueueDpc
  BY <1>13 DEF EnqueueDpc
<1>14. ASSUME NEW c \in Cpus, DpcBegin(c) PROVE ProgressInv'
  <2>1. /\ dpcQueued /\ dpcQueued' = FALSE /\ dpc'[c].pc = "copy"
        /\ \A d \in Cpus \ {c} : dpc'[d] = dpc[d]
        /\ UNCHANGED <<timeout, timer, currentVideoRequest, frame_buf, frame_pos, frame_length, asm>>
    BY <1>14 DEF DpcBegin
  <2> QED
    BY <2>1, CalmRuns
<1>15. ASSUME NEW c \in Cpus, DpcCopy(c) PROVE ProgressInv'
  <2>0. frame_buf # NULL
    BY <1>15, CalmRuns DEF DpcCopy
  <2>1. /\ dpc[c].pc = "copy" /\ frame_buf # NULL
        /\ dpc' = [dpc EXCEPT ![c] = [@ EXCEPT !.pc = "advance", !.len = CopyLength]]
        /\ asm' = [open |-> TRUE, fid |-> frame_flip, src |-> frame_buf,
                   next |-> frame_pos + CopyLength, whole |-> Fits]
        /\ UNCHANGED <<timeout, timer, currentVideoRequest, frame_buf, frame_pos, frame_length,
                       dpcQueued>>
    BY <1>15, <2>0 DEF DpcCopy
  <2>2. /\ dpc'[c].pc = "advance" /\ dpc'[c].len = CopyLength
        /\ \A d \in Cpus \ {c} : dpc'[d] = dpc[d]
    BY <2>1
  <2>3. timer = "armed" /\ ~dpcQueued /\ \A d \in Cpus \ {c} : dpc[d].pc = "idle"
    BY <2>1, CalmRuns DEF DpcPending
  <2>4. frame_buf = currentVideoRequest
    BY <2>1 DEF HandInv
  <2>5. /\ asm'.open /\ asm'.src = currentVideoRequest /\ asm'.next = frame_pos + CopyLength
    BY <2>1, <2>4
  <2>6. Reach(c)' = frame_pos + CopyLength
    BY <2>1, <2>2 DEF Reach
  <2> QED
    BY <2>1, <2>2, <2>3, <2>5, <2>6
<1>16. ASSUME NEW c \in Cpus, DpcAdvance(c) \/ DpcStore(c) PROVE ProgressInv'
  <2>0. timeout <= TimeoutTicks
    OBVIOUS
  <2>1. /\ timer = "armed" /\ ~dpcQueued /\ frame_buf # NULL
        /\ \A d \in Cpus \ {c} : dpc'[d].pc = "idle"
        /\ UNCHANGED <<timeout, timer, currentVideoRequest, frame_buf, frame_length, dpcQueued>>
    BY <1>16, RunAlone
  <2>2. UNCHANGED asm /\ dpc[c].pc \in {"advance", "store"}
    BY <1>16 DEF DpcAdvance, DpcStore
  <2>3. dpc'[c].pc \in {"store", "eof"} /\ Reach(c)' = Reach(c)
    <3>1. CASE DpcAdvance(c)
      <4>1. /\ dpc[c].pc = "advance" /\ dpc'[c].pc = "store" /\ frame_pos' = frame_pos
            /\ dpc'[c].len = frame_pos + dpc[c].len
        BY <3>1 DEF DpcAdvance
      <4> QED
        BY <4>1 DEF Reach
    <3>2. CASE DpcStore(c)
      <4>1. dpc[c].pc = "store" /\ dpc'[c].pc = "eof" /\ frame_pos' = dpc[c].len
        BY <3>2 DEF DpcStore
      <4> QED
        BY <4>1 DEF Reach
    <3> QED
      BY <1>16, <3>1, <3>2
  <2>4. Sending /\ (asm.whole => asm.next = Reach(c))
    BY <2>2
  <2>5. Advances' /\ ~Copies'
    BY <2>1, <2>3
  <2> HIDE DEF CalmInv, IInv, TypeOK, Assembly, DpcRun, Advances, Copies, Reach
  <2> QED
    BY <2>0, <2>1, <2>2, <2>3, <2>4, <2>5
<1>21. ASSUME NEW c \in Cpus, DpcEof(c) PROVE ProgressInv'
  <2>0. timeout <= TimeoutTicks
    OBVIOUS
  <2>1. /\ timer = "armed" /\ ~dpcQueued /\ frame_buf # NULL
        /\ \A d \in Cpus \ {c} : dpc'[d].pc = "idle"
        /\ UNCHANGED <<timeout, timer, currentVideoRequest, frame_buf, frame_length, dpcQueued>>
    BY <1>21, RunAlone
  <2>2. /\ dpc[c].pc = "eof" /\ UNCHANGED frame_pos
        /\ asm' = [asm EXCEPT !.open = ~FrameEnds]
        /\ dpc'[c].pc = IF FrameEnds THEN "flip" ELSE "next"
    BY <1>21 DEF DpcEof
  <2>3. FrameEnds \in BOOLEAN /\ (FrameEnds <=> frame_pos >= frame_length)
    BY DEF FrameEnds
  <2>4. asm'.open = ~FrameEnds /\ asm'.src = asm.src /\ asm'.next = asm.next
        /\ asm'.whole = asm.whole
    BY <2>2, <2>3
  <2>5. Sending /\ (asm.whole => asm.next = frame_pos)
    BY <2>2 DEF Reach
  <2>6. ~Advances' /\ ~Copies' /\ frame_pos \in Int /\ frame_length \in Int
    BY <2>1, <2>2
  <2>7. \A d \in Cpus : /\ dpc'[d].pc \notin {"advance", "store", "eof"}
                        /\ dpc'[d].pc = "flip" => Sent'
    BY <2>1, <2>2, <2>4, <2>5
  <2> HIDE DEF CalmInv, IInv, TypeOK, Assembly, DpcRun, Advances, Copies, Reach
  <2>8. asm'.open <=> frame_pos < frame_length
    <3>1. asm'.open <=> ~FrameEnds
      BY <2>4, Zenon
    <3> QED
      BY <2>3, <2>6, <3>1
  <2>9. /\ Sending' => frame_pos < frame_length
        /\ Sent' => frame_pos >= frame_length
    BY <2>1, <2>6, <2>8
  <2>10. asm'.src = currentVideoRequest' /\ (asm'.whole => asm'.next = frame_pos')
    BY <2>1, <2>2, <2>4, <2>5
  <2>11. timer' = "armed" /\ ~dpcQueued' /\ frame_buf' # NULL /\ timeout' <= TimeoutTicks
         /\ frame_pos' = frame_pos /\ frame_length' = frame_length
    BY <2>0, <2>1, <2>2
  <2> HIDE DEF Sending, Sent
  <2> QED
    BY <2>6, <2>7, <2>9, <2>10, <2>11
<1>22. ASSUME NEW c \in Cpus, DpcFlip(c) \/ DpcNext(c) PROVE ProgressInv'
  <2>0. ProgressInv /\ frame_pos \in Int /\ frame_length \in Int
    OBVIOUS
  <2>1. /\ timer = "armed" /\ ~dpcQueued /\ frame_buf # NULL
        /\ \A d \in Cpus \ {c} : dpc[d].pc = "idle" /\ dpc'[d].pc = "idle"
        /\ UNCHANGED <<timeout, timer, currentVideoRequest, frame_buf, frame_length, dpcQueued>>
    BY <1>22, RunAlone
  <2>2. /\ dpc[c].pc \in {"flip", "next"} /\ UNCHANGED <<frame_pos, asm>>
        /\ dpc'[c].pc \in {"next", "complete", "copy"}
        /\ dpc'[c].pc = "copy" => ~FrameEnds
    BY <1>22 DEF DpcFlip, DpcNext
  <2>3. ~Advances /\ ~Advances'
    BY <2>1, <2>2
  <2>4. Copies' => ~(frame_pos >= frame_length)
    BY <2>1, <2>2 DEF FrameEnds
  <2> HIDE DEF CalmInv, IInv, TypeOK, Assembly, DpcRun, Advances, Copies
  <2> QED
    BY <2>0, <2>1, <2>2, <2>3, <2>4
<1>23. ASSUME NEW r \in Requests, PushRefused(r) PROVE ProgressInv'
  <2>1. UNCHANGED <<frame, tick, dpcs, host>>
    BY <1>23 DEF PushRefused
  <2> HIDE DEF TypeOK, IInv, Assembly, DpcRun
  <2> QED
    BY <2>1 DEF Reach
<1>17. ASSUME NEW c \in Cpus, DpcComplete(c) PROVE ProgressInv'
  BY <1>17, CalmRuns DEF DpcComplete, Idle
<1>18. CASE \/ EndpointAdd \/ (\E u \in Urbs : SubmitUrb(u))
            \/ (\E i \in DOMAIN isoQueue : CancelUrb(i))
  <2>1. UNCHANGED <<frame, tick, dpcs, host>>
    BY <1>18 DEF EndpointAdd, SubmitUrb, CancelUrb
  <2> HIDE DEF TypeOK, IInv, Assembly, DpcRun
  <2> QED
    BY <2>1
<1>19. CASE \E c \in Cpus : DpcReturnEmpty(c) \/ DpcNoRequest(c) \/ DpcBadCopy(c)
  <2>1. /\ UNCHANGED <<frame, tick, dpc, asm>>
        /\ dpcQueued' => dpcQueued
    BY <1>19 DEF DpcReturnEmpty, DpcNoRequest, DpcBadCopy
  <2> HIDE DEF TypeOK, IInv, Assembly, DpcRun
  <2> QED
    BY <2>1
<1>20. CASE UNCHANGED vars
  BY <1>20 DEF vars
<1> HIDE DEF CalmInv, IInv, TypeOK, Assembly, DpcRun, ProgressInv, Sending, Sent, Copies,
             Advances, Reach, app, frame, tick, prop, iso, dpcs, host
<1> QED
  BY <1>1, <1>2, <1>3, <1>4, <1>5, <1>6, <1>7, <1>8, <1>9, <1>10, <1>11, <1>12, <1>13, <1>14,
     <1>15, <1>16, <1>17, <1>18, <1>19, <1>20, <1>21, <1>22, <1>23
     DEF Next, Application, SetVideoProp, Host, EvtIsochTimer, DpcCompleteVidoeIsoUrb, Stopped

LEMMA CalmNextKeeps == CalmInv /\ [CalmNext]_vars => CalmInv'
<1> SUFFICES ASSUME CalmInv, [CalmNext]_vars PROVE CalmInv'
  OBVIOUS
<1>1. [Next]_vars /\ faults' = {}
  BY DEF CalmNext, CalmInv, vars
<1>2. IInv'
  BY <1>1, InvNext DEF CalmInv
<1> QED
  BY <1>1, <1>2, HostNext, ProgressNext DEF CalmInv

THEOREM CalmInvariant == CalmSpec => []CalmInv
BY CalmInit, CalmNextKeeps, PTL DEF CalmSpec

------------------------------------------------------------------------------
(* A frame is kept until it was sent                                       *)

LEMMA ReleaseKeeps ==
  ASSUME CalmInv, faults' = {}, TickRelease, NEW r \in Requests,
         req[r] = "held", frame_length > 0
  PROVE  \/ asm.src = r /\ ~asm.open
         \/ timeout' = 0 /\ timeout = TimeoutTicks
<1> USE DEF CalmInv, IInv, TypeOK, ProgressInv
<1>1. currentVideoRequest = r /\ r # NULL
  BY Naming DEF HandInv
<1>2. /\ timer = "armed" /\ timeout' = 0 /\ FrameDue
  BY DEF TickRelease
<1>3. ~Advances
  BY TickAlone DEF Advances, DpcPending
<1>4. frame_buf # NULL
  BY <1>1, <1>2
<1>5. CASE Sent
  BY <1>1, <1>5 DEF Sent
<1>6. CASE ~Sent
  <2>1. frame_pos < frame_length
    BY <1>1, <1>2, <1>3, <1>4, <1>6 DEF Sent, Sending
  <2>2. timeout + 1 > TimeoutTicks
    BY <2>1, <1>2, <1>4 DEF FrameDue, Unfinished, Counted
  <2> QED
    BY <2>2, <1>2, Ticks
<1> QED
  BY <1>5, <1>6

(* A frame that has bytes leaves the driver sent or after too many ticks.  *)
Kept ==
  \A r \in Requests :
    req[r] = "held" /\ req'[r] = "done" /\ frame_length > 0 =>
      \/ asm.src = r /\ ~asm.open
      \/ timeout' = 0 /\ timeout = TimeoutTicks

LEMMA StepsKeep == CalmInv /\ [CalmNext]_vars => Kept
<1> SUFFICES ASSUME CalmInv, [CalmNext]_vars, NEW r \in Requests,
                    req[r] = "held", req'[r] = "done", frame_length > 0
             PROVE  \/ asm.src = r /\ ~asm.open
                    \/ timeout' = 0 /\ timeout = TimeoutTicks
  BY DEF Kept
<1>1. [Next]_vars /\ faults' = {} /\ req[r] = "held" /\ req'[r] # "held"
  BY DEF CalmNext, CalmInv, vars
<1> USE DEF CalmInv, IInv, TypeOK, app, frame, tick, prop, iso, dpcs, host
<1>2. ASSUME NEW q \in Requests, NEW n \in BufferLengths, Push(q, n) PROVE req'[r] = "held"
  BY <1>1, <1>2 DEF Push
<1>3. ASSUME NEW i \in DOMAIN videoQueue, CancelPush(i) PROVE req'[r] = "held"
  <2>0. DOMAIN videoQueue = 1 .. Len(videoQueue)
    BY LenProperties
  <2>1. req[videoQueue[i]] = "queued"
    BY <2>0 DEF VideoQueueInv, Queues
  <2> QED
    BY <1>1, <1>3, <2>1 DEF CancelPush
<1>4. CASE RetrieveFrame
  <2>1. req[Head(videoQueue)] = "queued"
    BY <1>4, TailQueues DEF RetrieveFrame, VideoQueueInv
  <2>2. req'[r] = "held"
    BY <1>1, <1>4, <2>1 DEF RetrieveFrame
  <2> QED
    BY <1>1, <2>2
<1>5. CASE RejectFrame
  BY <1>5, <1>1, CalmFacts DEF RejectFrame, HandInv
<1>6. CASE TickRelease
  BY <1>1, <1>6, ReleaseKeeps
<1>7. CASE UNCHANGED req
  BY <1>1, <1>7
<1>8. ASSUME NEW s \in Setters,
             SetPropFlip(s) \/ SetPropPos(s) \/ \E n \in FrameLengths : SetPropLength(s, n)
      PROVE  UNCHANGED req
  BY <1>8 DEF SetPropFlip, SetPropPos, SetPropLength
<1>9. Host => UNCHANGED req
  BY DEF Host, EndpointAdd, SubmitUrb, CancelUrb
<1>10. TickGetState \/ TickContinue \/ RetrieveNothing \/ TakeFrame \/ StartFrame \/ NoUrb
         \/ RetrieveUrb \/ EnqueueDpc => UNCHANGED req
  BY DEF TickGetState, TickContinue, RetrieveNothing, TakeFrame, StartFrame, NoUrb,
     RetrieveUrb, EnqueueDpc
<1>11. ASSUME NEW c \in Cpus, DpcCompleteVidoeIsoUrb(c) PROVE UNCHANGED req
  BY <1>11 DEF DpcCompleteVidoeIsoUrb, DpcBegin, DpcReturnEmpty, DpcNoRequest, DpcCopy,
     DpcAdvance, DpcStore, DpcEof, DpcFlip, DpcNext, DpcBadCopy, DpcComplete
<1>12. Stopped \/ UNCHANGED vars => UNCHANGED req
  BY DEF Stopped, vars
<1>13. ASSUME NEW q \in Requests, PushRefused(q) PROVE req'[r] = "held"
  BY <1>1, <1>13 DEF PushRefused
<1> HIDE DEF CalmInv, IInv, TypeOK
<1> QED
  BY <1>1, <1>2, <1>3, <1>4, <1>5, <1>6, <1>7, <1>8, <1>9, <1>10, <1>11, <1>12, <1>13
     DEF Next, Application, SetVideoProp, EvtIsochTimer

(* KeptUntilSent: a frame that has bytes goes back to the application when *)
(* the host got its last byte and EOF, or after more than TimeoutTicks     *)
(* ticks, and not before.                                                  *)
THEOREM KeepsUntilSent == CalmSpec => KeptUntilSent
<1>1. Kept => [Kept]_vars
  OBVIOUS
<1>2. KeptUntilSent <=> [][Kept]_vars
  BY DEF KeptUntilSent, Kept
<1> QED
  BY <1>1, <1>2, StepsKeep, CalmInvariant, PTL DEF CalmSpec

------------------------------------------------------------------------------
(* The host gets the frames in order, once and whole                       *)

(* A queue with the frame in hand in front of it.                          *)
LEMMA InFront ==
  ASSUME NEW S, NEW h \in S, NEW q \in Seq(S)
  PROVE  /\ <<h>> \o q \in Seq(S) /\ <<h>> \o q # <<>>
         /\ Len(<<h>> \o q) = Len(q) + 1
         /\ Head(<<h>> \o q) = h /\ Tail(<<h>> \o q) = q
         /\ DOMAIN (<<h>> \o q) = 1 .. Len(q) + 1
         /\ \A i \in 1 .. Len(q) + 1 : (<<h>> \o q)[i] = IF i = 1 THEN h ELSE q[i - 1]
<1> DEFINE f == <<h>> \o q
<1>1. <<h>> \in Seq(S) /\ Len(<<h>>) = 1 /\ <<h>>[1] = h
  OBVIOUS
<1>2. f \in Seq(S) /\ Len(f) = Len(q) + 1 /\ Len(q) \in Nat
  BY <1>1, ConcatProperties, LenProperties
<1>3. \A i \in 1 .. Len(q) + 1 : f[i] = IF i = 1 THEN h ELSE q[i - 1]
  <2>1. \A i \in 1 .. 1 + Len(q) : f[i] = IF i <= 1 THEN <<h>>[i] ELSE q[i - 1]
    BY <1>1, ConcatProperties
  <2> QED
    BY <2>1, <1>1, <1>2
<1> HIDE DEF f
<1>4. f # <<>> /\ DOMAIN f = 1 .. Len(q) + 1
  BY <1>2, EmptySeq, LenProperties
<1>5. Head(f) = h
  BY <1>2, <1>3, <1>4
<1>6. Tail(f) \in Seq(S) /\ Len(Tail(f)) = Len(q) /\ \A i \in 1 .. Len(q) : Tail(f)[i] = f[i + 1]
  BY <1>2, <1>4, HeadTailProperties
<1>7. \A i \in 1 .. Len(q) : Tail(f)[i] = q[i]
  BY <1>2, <1>3, <1>6
<1>8. Tail(f) = q
  BY <1>2, <1>6, <1>7, SeqEqual
<1> QED
  BY <1>2, <1>3, <1>4, <1>5, <1>8 DEF f

LEMMA InFrontOfTail ==
  ASSUME NEW S, NEW q \in Seq(S), q # <<>>
  PROVE  <<Head(q)>> \o Tail(q) = q
<1>1. /\ Head(q) \in S /\ Tail(q) \in Seq(S) /\ Len(q) \in Nat \ {0}
      /\ Len(Tail(q)) = Len(q) - 1
      /\ \A i \in 1 .. Len(Tail(q)) : Tail(q)[i] = q[i + 1]
  BY HeadTailProperties, EmptySeq
<1>2. Head(q) = q[1]
  BY <1>1
<1> DEFINE f == <<Head(q)>> \o Tail(q)
<1>3. /\ f \in Seq(S) /\ Len(f) = Len(q)
      /\ \A i \in 1 .. Len(q) : f[i] = IF i = 1 THEN Head(q) ELSE Tail(q)[i - 1]
  BY <1>1, InFront
<1> HIDE DEF f
<1>4. \A i \in 1 .. Len(q) : f[i] = q[i]
  BY <1>1, <1>2, <1>3
<1>5. f = q
  BY <1>3, <1>4, SeqEqual
<1> QED
  BY <1>5 DEF f

LEMMA InFrontOfAppend ==
  ASSUME NEW S, NEW h \in S, NEW q \in Seq(S), NEW e \in S
  PROVE  <<h>> \o Append(q, e) = Append(<<h>> \o q, e)
<1> DEFINE f == <<h>> \o Append(q, e)
           g == Append(<<h>> \o q, e)
<1>1. /\ Append(q, e) \in Seq(S) /\ Len(Append(q, e)) = Len(q) + 1 /\ Len(q) \in Nat
      /\ \A i \in 1 .. Len(q) : Append(q, e)[i] = q[i]
      /\ Append(q, e)[Len(q) + 1] = e
  BY AppendProperties, LenProperties
<1>2. /\ f \in Seq(S) /\ Len(f) = Len(q) + 2
      /\ \A i \in 1 .. Len(q) + 2 : f[i] = IF i = 1 THEN h ELSE Append(q, e)[i - 1]
  BY <1>1, InFront
<1>3. /\ <<h>> \o q \in Seq(S) /\ Len(<<h>> \o q) = Len(q) + 1
      /\ \A i \in 1 .. Len(q) + 1 : (<<h>> \o q)[i] = IF i = 1 THEN h ELSE q[i - 1]
  BY InFront
<1>4. /\ g \in Seq(S) /\ Len(g) = Len(q) + 2
      /\ \A i \in 1 .. Len(q) + 1 : g[i] = (<<h>> \o q)[i]
      /\ g[Len(q) + 2] = e
  BY <1>1, <1>3, AppendProperties
<1> HIDE DEF f, g
<1>5. \A i \in 1 .. Len(q) + 2 : f[i] = g[i]
  <2> TAKE i \in 1 .. Len(q) + 2
  <2>1. CASE i = 1
    BY <2>1, <1>1, <1>2, <1>3, <1>4
  <2>2. CASE i \in 2 .. Len(q) + 1
    <3>1. i - 1 \in 1 .. Len(q) /\ i \in 1 .. Len(q) + 1 /\ i # 1
      BY <2>2, <1>1
    <3>2. f[i] = q[i - 1]
      BY <3>1, <1>1, <1>2
    <3>3. g[i] = q[i - 1]
      BY <3>1, <1>3, <1>4
    <3> QED
      BY <3>2, <3>3
  <2>3. CASE i = Len(q) + 2
    BY <2>3, <1>1, <1>2, <1>4
  <2> QED
    BY <2>1, <2>2, <2>3, <1>1
<1>6. f = g
  BY <1>2, <1>4, <1>5, SeqEqual
<1> QED
  BY <1>6 DEF f, g

LEMMA InFrontOfRemove ==
  ASSUME NEW S, NEW h \in S, NEW q \in Seq(S), NEW i \in DOMAIN q
  PROVE  /\ i + 1 \in DOMAIN (<<h>> \o q) /\ i + 1 # 1
         /\ <<h>> \o RemoveAt(q, i) = RemoveAt(<<h>> \o q, i + 1)
<1> DEFINE r == RemoveAt(q, i)
           f == <<h>> \o q
           g == RemoveAt(f, i + 1)
           k == <<h>> \o r
<1>1. DOMAIN q = 1 .. Len(q) /\ Len(q) \in Nat /\ i \in 1 .. Len(q)
  BY LenProperties
<1>2. /\ r \in Seq(S) /\ Len(r) = Len(q) - 1
      /\ \A j \in 1 .. Len(q) - 1 : r[j] = q[IF j < i THEN j ELSE j + 1]
  BY RemoveAtProperties
<1>3. /\ f \in Seq(S) /\ Len(f) = Len(q) + 1 /\ DOMAIN f = 1 .. Len(q) + 1
      /\ \A j \in 1 .. Len(q) + 1 : f[j] = IF j = 1 THEN h ELSE q[j - 1]
  BY InFront
<1>4. i + 1 \in DOMAIN f /\ i + 1 # 1
  BY <1>1, <1>3
<1> HIDE DEF f, r
<1>5. /\ g \in Seq(S) /\ Len(g) = Len(q)
      /\ \A j \in 1 .. Len(q) : g[j] = f[IF j < i + 1 THEN j ELSE j + 1]
  <2>1. /\ g \in Seq(S) /\ Len(g) = Len(f) - 1
        /\ \A j \in 1 .. Len(f) - 1 : g[j] = f[IF j < i + 1 THEN j ELSE j + 1]
    BY <1>3, <1>4, RemoveAtProperties
  <2>2. Len(f) - 1 = Len(q) /\ Len(q) \in Nat
    BY <1>1, <1>3, LenProperties
  <2> HIDE DEF g
  <2> QED
    BY <2>1, <2>2
<1>6. /\ k \in Seq(S) /\ Len(k) = Len(q)
      /\ \A j \in 1 .. Len(q) : k[j] = IF j = 1 THEN h ELSE r[j - 1]
  <2>1. /\ k \in Seq(S) /\ Len(k) = Len(r) + 1
        /\ \A j \in 1 .. Len(r) + 1 : k[j] = IF j = 1 THEN h ELSE r[j - 1]
    BY <1>2, InFront
  <2>2. Len(r) + 1 = Len(q)
    BY <1>1, <1>2
  <2> QED
    BY <2>1, <2>2
<1> HIDE DEF g, k
<1>7. \A j \in 1 .. Len(q) : g[j] = k[j]
  <2> TAKE j \in 1 .. Len(q)
  <2>1. CASE j = 1
    <3>1. k[j] = h
      BY <2>1, <1>6
    <3>2. g[j] = f[1]
      BY <2>1, <1>1, <1>5
    <3> QED
      BY <3>1, <3>2, <1>3
  <2>2. CASE j # 1
    <3>1. j - 1 \in 1 .. Len(q) - 1 /\ k[j] = q[IF j - 1 < i THEN j - 1 ELSE (j - 1) + 1]
      BY <2>2, <1>1, <1>2, <1>6
    <3>2. CASE j < i + 1
      <4>1. j - 1 < i /\ j \in 1 .. Len(q) + 1
        BY <3>2, <1>1
      <4>2. g[j] = q[j - 1]
        BY <4>1, <3>2, <2>2, <1>3, <1>5
      <4>3. k[j] = q[j - 1]
        BY <4>1, <3>1
      <4> QED
        BY <4>2, <4>3
    <3>3. CASE ~(j < i + 1)
      <4>1. j + 1 \in 1 .. Len(q) + 1 /\ j + 1 # 1 /\ (j + 1) - 1 = j /\ (j - 1) + 1 = j
        BY <1>1
      <4>2. g[j] = q[j]
        BY <4>1, <3>3, <1>1, <1>3, <1>5
      <4>3. k[j] = q[j]
        BY <4>1, <3>1, <3>3, <1>1
      <4> QED
        BY <4>2, <4>3
    <3> QED
      BY <3>2, <3>3
  <2> QED
    BY <2>1, <2>2
<1>8. g = k
  BY <1>5, <1>6, <1>7, SeqEqual
<1> QED
  BY <1>4, <1>8 DEF f, g, k, r

LEMMA RemoveInFront ==
  ASSUME NEW S, NEW h \in S, NEW q \in Seq(S)
  PROVE  1 \in DOMAIN (<<h>> \o q) /\ RemoveAt(<<h>> \o q, 1) = q
<1> DEFINE f == <<h>> \o q
           g == RemoveAt(f, 1)
<1>1. /\ f \in Seq(S) /\ Len(f) = Len(q) + 1 /\ DOMAIN f = 1 .. Len(q) + 1 /\ Len(q) \in Nat
      /\ \A j \in 1 .. Len(q) + 1 : f[j] = IF j = 1 THEN h ELSE q[j - 1]
  BY InFront, LenProperties
<1>2. 1 \in DOMAIN f
  BY <1>1
<1> HIDE DEF f
<1>3. /\ g \in Seq(S) /\ Len(g) = Len(f) - 1
      /\ \A j \in 1 .. Len(f) - 1 : g[j] = f[IF j < 1 THEN j ELSE j + 1]
  BY <1>1, <1>2, RemoveAtProperties
<1> HIDE DEF g
<1>4. Len(g) = Len(q) /\ \A j \in 1 .. Len(q) : g[j] = q[j]
  BY <1>1, <1>3
<1>5. g = q
  BY <1>3, <1>4, SeqEqual
<1> QED
  BY <1>2, <1>5 DEF f, g

(* The steps that neither move a frame nor send a byte.                    *)
LEMMA Stutters ==
  ASSUME UNCHANGED <<videoQueue, currentVideoRequest, frame_flip, asm, picture>>
  PROVE  UNCHANGED <<Pending, Sending, Spoiled, picture>>
BY DEF Pending, Sending, Spoiled, Sent

LEMMA StartsDelivery == Init => Abstract!Empty
BY DEF Init, Abstract!Empty, Pending, Sending, Spoiled, Closed

(* The frame in hand that was not sent is the first one pending.           *)
LEMMA FirstPending ==
  ASSUME CalmInv, currentVideoRequest # NULL, ~Sent
  PROVE  /\ Pending = <<currentVideoRequest>> \o videoQueue
         /\ Pending # <<>> /\ Head(Pending) = currentVideoRequest /\ Tail(Pending) = videoQueue
         /\ 1 \in DOMAIN Pending /\ RemoveAt(Pending, 1) = videoQueue
<1>1. currentVideoRequest \in Requests /\ videoQueue \in Seq(Requests)
  BY DEF CalmInv, IInv, TypeOK
<1>2. Pending = <<currentVideoRequest>> \o videoQueue
  BY DEF Pending
<1> QED
  BY <1>1, <1>2, InFront, RemoveInFront

LEMMA PushDelivers ==
  ASSUME CalmInv, NEW r \in Requests, NEW n \in BufferLengths, Push(r, n)
  PROVE  Abstract!Accept(r)
<1> USE DEF CalmInv, IInv, TypeOK
<1>1. /\ videoQueue' = Append(videoQueue, r)
      /\ UNCHANGED <<currentVideoRequest, frame_flip, asm, picture>>
  BY DEF Push, frame, host
<1>2. UNCHANGED <<Sending, Spoiled, Sent>>
  BY <1>1 DEF Sending, Spoiled, Sent
<1>3. CASE currentVideoRequest = NULL \/ Sent
  BY <1>1, <1>2, <1>3 DEF Abstract!Accept, Pending
<1>4. CASE ~(currentVideoRequest = NULL \/ Sent)
  <2>1. <<currentVideoRequest>> \o Append(videoQueue, r)
          = Append(<<currentVideoRequest>> \o videoQueue, r)
    <3>1. currentVideoRequest \in Requests /\ videoQueue \in Seq(Requests)
      BY <1>4
    <3> HIDE DEF CalmInv, IInv, TypeOK
    <3> QED
      BY <3>1, InFrontOfAppend
  <2>2. Pending' = Append(Pending, r)
    BY <2>1, <1>1, <1>2, <1>4 DEF Pending
  <2> QED
    BY <2>2, <1>1, <1>2 DEF Abstract!Accept
<1> QED
  BY <1>3, <1>4

LEMMA CancelDelivers ==
  ASSUME CalmInv, NEW i \in DOMAIN videoQueue, CancelPush(i)
  PROVE  \E j \in DOMAIN Pending : Abstract!Drop(j)
<1> USE DEF CalmInv, IInv, TypeOK
<1>1. /\ videoQueue' = RemoveAt(videoQueue, i)
      /\ UNCHANGED <<currentVideoRequest, frame_flip, asm, picture>>
  BY DEF CancelPush, frame, host
<1>2. UNCHANGED <<Sending, Spoiled, Sent>>
  BY <1>1 DEF Sending, Spoiled, Sent
<1>3. CASE currentVideoRequest = NULL \/ Sent
  <2>1. Pending = videoQueue /\ Pending' = RemoveAt(Pending, i) /\ ~Sending
    BY <1>1, <1>2, <1>3 DEF Pending, Sending, Sent
  <2> QED
    BY <2>1, <1>1, <1>2 DEF Abstract!Drop, Abstract!RemoveAt, RemoveAt
<1>4. CASE ~(currentVideoRequest = NULL \/ Sent)
  <2>1. /\ i + 1 \in DOMAIN (<<currentVideoRequest>> \o videoQueue) /\ i + 1 # 1
        /\ <<currentVideoRequest>> \o RemoveAt(videoQueue, i)
             = RemoveAt(<<currentVideoRequest>> \o videoQueue, i + 1)
    BY <1>4, InFrontOfRemove
  <2>2. Pending' = RemoveAt(Pending, i + 1) /\ i + 1 \in DOMAIN Pending
    BY <2>1, <1>1, <1>2, <1>4 DEF Pending
  <2>3. Abstract!Drop(i + 1)
    BY <2>1, <2>2, <1>1, <1>2 DEF Abstract!Drop, Abstract!RemoveAt, RemoveAt
  <2> QED
    BY <2>2, <2>3
<1> QED
  BY <1>3, <1>4

(* The new geometry resets the frame id of the driver: what the host has   *)
(* of an abandoned frame does not spoil the next one then.                 *)
LEMMA FlipDelivers ==
  ASSUME CalmInv, faults' = {}, NEW s \in Setters, SetPropFlip(s)
  PROVE  Abstract!Reformat \/ UNCHANGED <<Pending, Sending, Spoiled, picture>>
<1> USE DEF CalmInv, IInv, TypeOK
<1>1. /\ frame_flip' = 0
      /\ UNCHANGED <<videoQueue, currentVideoRequest, asm, picture>>
  BY DEF SetPropFlip, app, host
<1>2. currentVideoRequest = NULL /\ videoQueue = <<>>
  BY FlipAlone
<1>3. Pending = <<>> /\ Pending' = <<>> /\ UNCHANGED Sending
  BY <1>1, <1>2 DEF Pending, Sending
<1>4. Spoiled' => Spoiled
  BY <1>1 DEF Spoiled, HostInv
<1> HIDE DEF CalmInv, IInv, TypeOK
<1>5. Spoiled \in BOOLEAN /\ Spoiled' \in BOOLEAN
  BY DEF Spoiled
<1>6. CASE Spoiled /\ ~Spoiled'
  BY <1>1, <1>3, <1>5, <1>6 DEF Abstract!Reformat
<1>7. CASE Spoiled <=> Spoiled'
  BY <1>1, <1>3, <1>5, <1>7
<1> QED
  BY <1>4, <1>5, <1>6, <1>7

(* A frame leaves the hand: it was sent before, or goes without or with    *)
(* some of its bytes sent.                                                 *)
LEMMA ReleaseDelivers ==
  ASSUME CalmInv, faults' = {}, TickRelease
  PROVE  Abstract!Deliver \/ UNCHANGED <<Pending, Sending, Spoiled, picture>>
<1> USE DEF CalmInv, IInv, TypeOK, Assembly
<1>1. /\ currentVideoRequest # NULL /\ currentVideoRequest' = NULL
      /\ UNCHANGED <<videoQueue, frame_flip, asm, picture>>
  BY DEF TickRelease, host
<1>2. Pending' = videoQueue /\ Sending' = FALSE
  BY <1>1 DEF Pending, Sending
<1>3. CASE Sent
  BY <1>1, <1>2, <1>3 DEF Pending, Sending, Spoiled, Sent
<1>4. CASE Sending
  <2>1. Pending # <<>> /\ Tail(Pending) = videoQueue
    BY <1>1, <1>4, FirstPending DEF Sent, Sending
  <2>2. Spoiled' = TRUE
    BY <1>1, <1>4 DEF Spoiled, Sending, HostInv
  <2>3. Abstract!Abandon
    BY <1>1, <1>2, <1>4, <2>1, <2>2 DEF Abstract!Abandon
  <2> QED
    BY <2>3 DEF Abstract!Deliver
<1>5. CASE ~Sent /\ ~Sending
  <2>1. 1 \in DOMAIN Pending /\ RemoveAt(Pending, 1) = videoQueue
    BY <1>1, <1>5, FirstPending
  <2>2. asm.src # currentVideoRequest
    BY <1>1, <1>5 DEF Sent, Sending
  <2>3. Spoiled' = Spoiled
    BY <1>1, <2>2 DEF Spoiled, HostInv
  <2>4. Sending = FALSE
    BY <1>5 DEF Sending
  <2>5. Abstract!Drop(1)
    BY <1>1, <1>2, <2>1, <2>3, <2>4 DEF Abstract!Drop, Abstract!RemoveAt, RemoveAt
  <2> QED
    BY <2>1, <2>5 DEF Abstract!Deliver
<1> QED
  BY <1>3, <1>4, <1>5

(* The oldest frame of VideoQueue is taken in hand: it stays the first.    *)
LEMMA RetrieveDelivers ==
  ASSUME CalmInv, faults' = {}, RetrieveFrame
  PROVE  UNCHANGED <<Pending, Sending, Spoiled, picture>>
<1> USE DEF CalmInv, IInv, TypeOK, Assembly
<1>1. /\ Head(videoQueue) \in Requests /\ req[Head(videoQueue)] = "queued"
      /\ videoQueue # <<>> /\ currentVideoRequest = NULL /\ ~Discards
  BY TailQueues, CalmFacts DEF RetrieveFrame, VideoQueueInv, HandInv
<1>2. /\ currentVideoRequest' = Head(videoQueue) /\ videoQueue' = Tail(videoQueue)
      /\ UNCHANGED <<frame_flip, asm, picture>>
  BY <1>1 DEF RetrieveFrame, host
<1>3. asm.src # Head(videoQueue) /\ Head(videoQueue) # NULL
  BY <1>1, Naming DEF HostInv
<1>4. <<Head(videoQueue)>> \o Tail(videoQueue) = videoQueue
  BY <1>1, InFrontOfTail
<1>5. ~Sent'
  BY <1>2, <1>3 DEF Sent
<1>6. Pending' = Pending
  BY <1>1, <1>2, <1>3, <1>4, <1>5 DEF Pending
<1>7. Sending' = Sending
  BY <1>1, <1>2, <1>3 DEF Sending
<1>8. Spoiled' = Spoiled
  BY <1>1, <1>2, <1>3 DEF Spoiled, HostInv
<1> QED
  BY <1>2, <1>6, <1>7, <1>8

(* A packet begins the frame or adds to it.                                *)
LEMMA CopyDelivers ==
  ASSUME CalmInv, faults' = {}, NEW c \in Cpus, DpcCopy(c)
  PROVE  Abstract!Begin \/ UNCHANGED <<Pending, Sending, Spoiled, picture>>
<1> USE DEF CalmInv, IInv, TypeOK, Assembly
<1>1. /\ dpc[c].pc = "copy" /\ frame_buf # NULL
      /\ asm' = [open |-> TRUE, fid |-> frame_flip, src |-> frame_buf,
                 next |-> frame_pos + CopyLength, whole |-> Fits]
      /\ UNCHANGED <<videoQueue, currentVideoRequest, frame_flip, picture>>
  BY CalmRuns DEF DpcCopy, Copies, app, frame
<1>2. frame_buf = currentVideoRequest /\ currentVideoRequest # NULL
  BY <1>1 DEF HandInv
<1>3. /\ asm'.open /\ asm'.fid = frame_flip /\ asm'.src = currentVideoRequest
      /\ asm'.whole = Fits
  BY <1>1, <1>2
<1>4. ~Sent
  BY <1>1 DEF ProgressInv, Copies
<1>5. Pending' = Pending
  BY <1>1, <1>2, <1>3, <1>4 DEF Pending, Sent
<1>6. Sending' = TRUE
  BY <1>1, <1>2, <1>3 DEF Sending
<1>7. Spoiled' = ~Fits
  <2>1. Fits \in BOOLEAN
    BY DEF Fits
  <2> QED
    BY <2>1, <1>1, <1>3 DEF Spoiled
<1>8. timer # "pos" /\ ~Advances
  BY <1>1, CalmRuns DEF DpcPending, Advances
<1>9. CASE Sending
  <2>1. ~Opens
    BY <1>9 DEF Opens, Sending, HostInv
  <2>2. asm.whole => asm.next = frame_pos
    BY <1>1, <1>8, <1>9 DEF ProgressInv
  <2>3. asm.src = currentVideoRequest
    BY <1>9 DEF Sending
  <2>4. Fits = asm.whole
    BY <2>1, <2>2, <2>3, <1>2 DEF Fits
  <2>5. Spoiled = ~asm.whole
    BY <1>9 DEF Spoiled, Sending, HostInv
  <2> QED
    BY <1>1, <1>5, <1>6, <1>7, <1>9, <2>4, <2>5 DEF Sending
<1>10. CASE ~Sending
  <2>1. asm.src # currentVideoRequest
    BY <1>2, <1>4, <1>10 DEF Sending, Sent
  <2>2. frame_pos = 0
    BY <2>1, <1>1, <1>8 DEF ProgressInv
  <2>3. Fits = Opens
    BY <2>1, <2>2, <1>2 DEF Fits, Opens
  <2>4. Spoiled = ~Opens
    BY <2>1 DEF Spoiled, Opens
  <2>5. Pending # <<>>
    BY <1>2, <1>4, FirstPending
  <2> QED
    BY <1>1, <1>5, <1>6, <1>7, <1>10, <2>3, <2>4, <2>5 DEF Abstract!Begin
<1> QED
  BY <1>9, <1>10

(* The packet with EOF shows the frame, or a torn one if the host had      *)
(* bytes of another one.                                                   *)
LEMMA EofDelivers ==
  ASSUME CalmInv, faults' = {}, NEW c \in Cpus, DpcEof(c)
  PROVE  Abstract!Show \/ UNCHANGED <<Pending, Sending, Spoiled, picture>>
<1> USE DEF CalmInv, IInv, TypeOK, Assembly
<1>1. /\ asm' = [asm EXCEPT !.open = ~FrameEnds]
      /\ picture' = IF ~FrameEnds THEN picture ELSE IF asm.whole THEN asm.src ELSE Torn
      /\ UNCHANGED <<videoQueue, currentVideoRequest, frame_flip>>
  BY DEF DpcEof, app, frame
<1>2. FrameEnds \in BOOLEAN
  BY DEF FrameEnds
<1>3. Sending /\ asm.fid = frame_flip
  BY DEF DpcEof, ProgressInv, HostInv
<1>4. /\ asm'.open = ~FrameEnds /\ asm'.src = asm.src /\ asm'.fid = asm.fid
      /\ asm'.whole = asm.whole
  BY <1>1, <1>2
<1>5. CASE ~FrameEnds
  <2>1. asm' = asm
    BY <1>1, <1>3, <1>5 DEF Sending
  <2> QED
    BY <2>1, <1>1, <1>5, Stutters
<1>6. CASE FrameEnds
  <2>1. /\ Pending # <<>> /\ Head(Pending) = currentVideoRequest /\ Tail(Pending) = videoQueue
    BY <1>3, FirstPending DEF Sending, Sent
  <2>2. Spoiled = ~asm.whole
    BY <1>3 DEF Spoiled, Sending
  <2>3. Sending' = FALSE /\ Spoiled' = FALSE
    BY <1>4, <1>6 DEF Sending, Spoiled
  <2>4. Pending' = videoQueue
    BY <1>1, <1>3, <1>4, <1>6 DEF Pending, Sent, Sending
  <2>5. picture' = IF Spoiled THEN Torn ELSE Head(Pending)
    BY <1>1, <1>3, <1>6, <2>1, <2>2 DEF Sending
  <2> QED
    BY <1>3, <2>1, <2>3, <2>4, <2>5 DEF Abstract!Show
<1> QED
  BY <1>5, <1>6

(* The frame id is flipped when the host has closed the frame: what it     *)
(* shows and assembles does not change.                                    *)
LEMMA FlipStutters ==
  ASSUME CalmInv, NEW c \in Cpus, DpcFlip(c)
  PROVE  UNCHANGED <<Pending, Sending, Spoiled, picture>>
<1>1. ~asm.open
  BY DEF CalmInv, ProgressInv, Sent, DpcFlip
<1>2. UNCHANGED <<videoQueue, currentVideoRequest, asm, picture>>
  BY DEF DpcFlip, app, host
<1> QED
  BY <1>1, <1>2 DEF Pending, Sending, Spoiled, Sent

(* One step in calm use is one step of FrameDelivery, or none.             *)
LEMMA StepsAsDelivery ==
  CalmInv /\ [CalmNext]_vars => [Abstract!Deliver]_Abstract!fdVars
<1> SUFFICES ASSUME CalmInv, [CalmNext]_vars
             PROVE  Abstract!Deliver \/ UNCHANGED <<Pending, Sending, Spoiled, picture>>
  BY DEF Abstract!fdVars
<1>1. [Next]_vars /\ faults' = {}
  BY DEF CalmNext, CalmInv, vars
<1> USE DEF app, frame, tick, prop, iso, dpcs, host
<1>2. ASSUME NEW r \in Requests, NEW n \in BufferLengths, Push(r, n) PROVE Abstract!Deliver
  BY <1>2, PushDelivers DEF Abstract!Deliver
<1>3. ASSUME NEW i \in DOMAIN videoQueue, CancelPush(i) PROVE Abstract!Deliver
  BY <1>3, CancelDelivers DEF Abstract!Deliver
<1>4. ASSUME NEW s \in Setters, SetPropFlip(s)
      PROVE  Abstract!Deliver \/ UNCHANGED <<Pending, Sending, Spoiled, picture>>
  BY <1>1, <1>4, FlipDelivers DEF Abstract!Deliver
<1>5. CASE TickRelease
  BY <1>1, <1>5, ReleaseDelivers
<1>6. CASE RetrieveFrame
  BY <1>1, <1>6, RetrieveDelivers
<1>7. ASSUME NEW c \in Cpus, DpcCopy(c) \/ DpcEof(c) \/ DpcFlip(c)
      PROVE  Abstract!Deliver \/ UNCHANGED <<Pending, Sending, Spoiled, picture>>
  BY <1>1, <1>7, CopyDelivers, EofDelivers, FlipStutters DEF Abstract!Deliver
<1>8. ASSUME NEW s \in Setters, SetPropPos(s) \/ \E n \in FrameLengths : SetPropLength(s, n)
      PROVE  UNCHANGED <<Pending, Sending, Spoiled, picture>>
  BY <1>8, Stutters DEF SetPropLength, SetPropPos
<1>9. CASE Host
  BY <1>9, Stutters DEF Host, EndpointAdd, SubmitUrb, CancelUrb
<1>10. CASE \/ TickGetState \/ TickContinue \/ RetrieveNothing \/ TakeFrame \/ StartFrame
            \/ RejectFrame \/ NoUrb \/ RetrieveUrb \/ EnqueueDpc
  BY <1>10, Stutters DEF TickGetState, TickContinue, RetrieveNothing, TakeFrame, StartFrame,
     RejectFrame, NoUrb, RetrieveUrb, EnqueueDpc
<1>11. ASSUME NEW c \in Cpus,
              \/ DpcBegin(c) \/ DpcReturnEmpty(c) \/ DpcNoRequest(c) \/ DpcBadCopy(c)
              \/ DpcAdvance(c) \/ DpcStore(c) \/ DpcNext(c) \/ DpcComplete(c)
       PROVE  UNCHANGED <<Pending, Sending, Spoiled, picture>>
  BY <1>11, Stutters DEF DpcBegin, DpcReturnEmpty, DpcNoRequest, DpcBadCopy, DpcAdvance,
     DpcStore, DpcNext, DpcComplete
<1>12. CASE Stopped \/ UNCHANGED vars
  BY <1>12, Stutters DEF Stopped, vars
<1>13. ASSUME NEW r \in Requests, PushRefused(r)
       PROVE  UNCHANGED <<Pending, Sending, Spoiled, picture>>
  BY <1>13, Stutters DEF PushRefused
<1> QED
  BY <1>1, <1>2, <1>3, <1>4, <1>5, <1>6, <1>7, <1>8, <1>9, <1>10, <1>11, <1>12, <1>13
     DEF Next, Application, SetVideoProp, EvtIsochTimer, DpcCompleteVidoeIsoUrb

(* Delivers: in calm use the host shows the pushed frames in order, once   *)
(* and whole, and a torn one only after a frame that was abandoned half    *)
(* way.                                                                    *)
THEOREM ImplementsDelivery == CalmSpec => Delivers
BY StartsDelivery, StepsAsDelivery, CalmInvariant, PTL
   DEF CalmSpec, Delivers, Abstract!Delivery
=============================================================================
