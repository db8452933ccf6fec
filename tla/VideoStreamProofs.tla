-------------------------- MODULE VideoStreamProofs --------------------------
(* Proofs that VideoStreamInv!IInv is inductive, and what follows from it. *)
EXTENDS VideoStreamInv, SequenceTheorems, TLAPS

------------------------------------------------------------------------------
(* What the operations on the two queues do to Queues.                     *)

(* Appending an element that was not in a sequence without repetition (a   *)
(* push or a submitted URB joins its queue).                               *)
LEMMA AppendQueues ==
  ASSUME NEW S, NEW T, NEW q \in Seq(S), NEW state \in [S -> T], NEW e \in S,
         Queues(q, state), state[e] # "queued"
  PROVE  Queues(Append(q, e), [state EXCEPT ![e] = "queued"])
BY DEF Queues, IsInjective

(* Taking the first element of such a sequence (the timer callback         *)
(* retrieves the next request).                                            *)
LEMMA TailQueues ==
  ASSUME NEW S, NEW T, NEW q \in Seq(S), NEW state \in [S -> T], NEW v,
         Queues(q, state), q # <<>>
  PROVE  /\ Head(q) \in S /\ Tail(q) \in Seq(S)
         /\ state[Head(q)] = "queued"
         /\ Queues(Tail(q), [state EXCEPT ![Head(q)] = v])
BY DEF Queues, IsInjective

(* Where the elements of a sequence are when one was removed (a queued     *)
(* request is cancelled).                                                  *)
LEMMA RemoveAtProperties ==
  ASSUME NEW S, NEW q \in Seq(S), NEW i \in DOMAIN q
  PROVE  /\ RemoveAt(q, i) \in Seq(S)
         /\ Len(RemoveAt(q, i)) = Len(q) - 1
         /\ \A j \in 1 .. Len(q) - 1 :
              RemoveAt(q, i)[j] = q[IF j < i THEN j ELSE j + 1]
<1> DEFINE n == Len(q)
           a == SubSeq(q, 1, i - 1)
           b == SubSeq(q, i + 1, n)
           r == RemoveAt(q, i)
           old(j) == IF j < i THEN j ELSE j + 1
<1>1. n \in Nat /\ DOMAIN q = 1 .. n /\ i \in 1 .. n /\ q \in [1 .. n -> S]
  OBVIOUS
<1>2. /\ a \in Seq(S) /\ Len(a) = i - 1
      /\ \A j \in 1 .. i - 1 : a[j] = q[j]
  <2>1. \A j \in 1 .. i - 1 : q[j] \in S
    BY <1>1
  <2> QED
    BY <1>1, <2>1, SubSeqProperties
<1>3. /\ b \in Seq(S) /\ Len(b) = n - i
      /\ \A j \in 1 .. n - i : b[j] = q[i + j]
  <2>1. \A j \in i + 1 .. n : q[j] \in S
    BY <1>1
  <2>2. /\ b \in Seq(S)
        /\ Len(b) = IF i + 1 <= n THEN n - (i + 1) + 1 ELSE 0
        /\ \A j \in 1 .. n - (i + 1) + 1 : b[j] = q[(i + 1) + j - 1]
    BY <1>1, <2>1, SubSeqProperties
  <2> QED
    BY <1>1, <2>2
<1>4. /\ r \in Seq(S) /\ Len(r) = n - 1
      /\ \A j \in 1 .. n - 1 : r[j] = q[old(j)]
  <2>1. r = a \o b
    BY DEF RemoveAt
  <2> HIDE DEF a, b, r
  <2>2. /\ r \in Seq(S) /\ Len(r) = Len(a) + Len(b)
        /\ \A j \in 1 .. Len(a) + Len(b) :
             r[j] = IF j <= Len(a) THEN a[j] ELSE b[j - Len(a)]
    BY <1>2, <1>3, <2>1, ConcatProperties
  <2>3. ASSUME NEW j \in 1 .. n - 1 PROVE r[j] = q[old(j)]
    <3>1. CASE j < i
      BY <1>1, <1>2, <1>3, <2>2, <3>1
    <3>2. CASE j >= i
      <4>1. j - (i - 1) \in 1 .. n - i /\ i + (j - (i - 1)) = j + 1
        BY <1>1, <3>2
      <4>2. r[j] = b[j - (i - 1)]
        BY <1>1, <1>2, <1>3, <2>2, <3>2
      <4> QED
        BY <1>1, <1>3, <3>2, <4>1, <4>2
    <3> QED
      BY <1>1, <3>1, <3>2
  <2> QED
    BY <1>1, <1>2, <1>3, <2>2, <2>3
<1> QED
  BY <1>4

(* Removing an element anywhere keeps queue and states in agreement.       *)
LEMMA RemoveQueues ==
  ASSUME NEW S, NEW T, NEW q \in Seq(S), NEW state \in [S -> T], NEW v,
         Queues(q, state), NEW i \in DOMAIN q
  PROVE  /\ q[i] \in S
         /\ state[q[i]] = "queued"
         /\ Queues(RemoveAt(q, i), [state EXCEPT ![q[i]] = v])
<1> DEFINE n == Len(q)
           r == RemoveAt(q, i)
           old(j) == IF j < i THEN j ELSE j + 1
<1>1. n \in Nat /\ DOMAIN q = 1 .. n /\ i \in 1 .. n /\ q \in [1 .. n -> S]
  OBVIOUS
<1>2. /\ r \in Seq(S) /\ Len(r) = n - 1
      /\ \A j \in 1 .. n - 1 : r[j] = q[old(j)]
  BY RemoveAtProperties
<1>3. \A j \in 1 .. n - 1 : old(j) \in 1 .. n /\ old(j) # i
  BY <1>1
<1>4. \A j, k \in 1 .. n - 1 : old(j) = old(k) => j = k
  BY <1>1
<1> HIDE DEF r, old
<1>5. \A j \in 1 .. n - 1 : q[old(j)] # q[i] /\ state[q[old(j)]] = "queued"
  BY <1>1, <1>3 DEF Queues, IsInjective
<1>6. \A j \in 1 .. n - 1 : [state EXCEPT ![q[i]] = v][r[j]] = "queued"
  BY <1>1, <1>2, <1>3, <1>5
<1>7. IsInjective(r)
  BY <1>1, <1>2, <1>3, <1>4 DEF Queues, IsInjective
<1>8. Queues(r, [state EXCEPT ![q[i]] = v])
  BY <1>1, <1>2, <1>6, <1>7 DEF Queues
<1> QED
  BY <1>1, <1>2, <1>8 DEF Queues, r

(* Completing a request that is not in the queue.                          *)
LEMMA SameQueues ==
  ASSUME NEW S, NEW T, NEW q \in Seq(S), NEW state \in [S -> T], NEW e \in S,
         NEW v, Queues(q, state), state[e] # "queued"
  PROVE  Queues(q, [state EXCEPT ![e] = v])
BY DEF Queues

------------------------------------------------------------------------------
(* Types                                                                   *)

(* The initial state of the device context has the right type.             *)
LEMMA TypeInit == Init => TypeOK
<1> SUFFICES ASSUME Init PROVE TypeOK
  OBVIOUS
<1>1. frame_length \in Int
  BY Lengths DEF Init
<1>2. asm \in Assembly
  BY DEF Init, Closed, Assembly
<1>3. dpc \in [Cpus -> DpcRun]
  BY DEF Init, Idle, DpcRun
<1>4. videoQueue \in Seq(Requests) /\ isoQueue \in Seq(Urbs)
  BY DEF Init
<1>5. req \in [Requests -> {"free", "queued", "held", "done"}]
  BY DEF Init
<1>6. bufLen \in [Requests -> Nat]
  BY DEF Init
<1>7. urb \in [Urbs -> {"idle", "queued", "held"}]
  BY DEF Init
<1>8. faults \subseteq Faults /\ bugcheck \in Bugchecks
  BY DEF Init, Faults, Bugchecks
<1>9. isoReady \in BOOLEAN /\ dpcQueued \in BOOLEAN
  BY DEF Init
<1>10. /\ frame_flip \in {0, 1} /\ frame_pos \in Int /\ timeout \in Nat
       /\ setProp \in [Setters -> {"idle", "length", "pos"}]
  BY DEF Init
<1>11. \A c \in Cpus : dpc[c].pc = "flip" => dpc[c].len \in {0, 1}
  BY DEF Init, Idle
<1> QED
  BY <1>1, <1>2, <1>3, <1>4, <1>5, <1>6, <1>7, <1>8, <1>9, <1>10, <1>11, Zenon
     DEF Init, TypeOK

(* So do the steps of a run of the DPC after it has written a packet.      *)
LEMMA PacketType ==
  ASSUME TypeOK, NEW c \in Cpus,
         DpcAdvance(c) \/ DpcStore(c) \/ DpcEof(c) \/ DpcFlip(c) \/ DpcNext(c)
  PROVE  TypeOK'
<1> USE DEF app, frame, tick, prop, iso, host
<1>1. /\ dpc \in [Cpus -> DpcRun] /\ dpc[c] \in DpcRun
      /\ frame_pos \in Int /\ frame_flip \in {0, 1} /\ asm \in Assembly
      /\ picture \in Requests \cup {NULL, Torn}
      /\ \A d \in Cpus : dpc[d].pc = "flip" => dpc[d].len \in {0, 1}
  BY DEF TypeOK
<1>2. ASSUME NEW pc \in {"store", "eof", "flip", "next", "complete", "copy"},
             NEW len \in Int, NEW left \in Int, pc = "flip" => len \in {0, 1},
             dpc' = [dpc EXCEPT ![c] = [@ EXCEPT !.pc = pc, !.len = len, !.left = left]]
      PROVE  /\ dpc' \in [Cpus -> DpcRun]
             /\ \A d \in Cpus : dpc'[d].pc = "flip" => dpc'[d].len \in {0, 1}
  <2>1. /\ [dpc[c] EXCEPT !.pc = pc, !.len = len, !.left = left] \in DpcRun
        /\ [dpc[c] EXCEPT !.pc = pc, !.len = len, !.left = left].pc = pc
        /\ [dpc[c] EXCEPT !.pc = pc, !.len = len, !.left = left].len = len
    BY <1>1 DEF DpcRun
  <2> QED
    BY <1>1, <1>2, <2>1
<1>3. /\ dpc' \in [Cpus -> DpcRun]
      /\ \A d \in Cpus : dpc'[d].pc = "flip" => dpc'[d].len \in {0, 1}
  <2> DEFINE run == dpc[c]
  <2>0. /\ run.left \in Int /\ run.len \in Int
        /\ DOMAIN run = {"pc", "urb", "left", "len"}
        /\ run = [pc |-> run.pc, urb |-> run.urb, left |-> run.left, len |-> run.len]
    BY <1>1 DEF DpcRun
  <2>1. CASE DpcAdvance(c)
    <3> DEFINE pc == "store"
               len == frame_pos + run.len
               left == run.left
    <3>1. pc \in {"store"} /\ len \in Int /\ left \in Int /\ (pc = "flip" => len \in {0, 1})
      BY <1>1, <2>0
    <3>2. dpc' = [dpc EXCEPT ![c] = [@ EXCEPT !.pc = pc, !.len = len, !.left = left]]
      BY <1>1, <2>0, <2>1 DEF DpcAdvance
    <3> HIDE DEF pc, len, left
    <3> QED
      BY <1>2, <3>1, <3>2
  <2>2. CASE DpcStore(c)
    <3> DEFINE pc == "eof"
               len == 0
               left == run.left
    <3>1. pc \in {"eof"} /\ len \in Int /\ left \in Int /\ (pc = "flip" => len \in {0, 1})
      BY <1>1, <2>0
    <3>2. dpc' = [dpc EXCEPT ![c] = [@ EXCEPT !.pc = pc, !.len = len, !.left = left]]
      BY <1>1, <2>0, <2>2 DEF DpcStore
    <3> HIDE DEF pc, len, left
    <3> QED
      BY <1>2, <3>1, <3>2
  <2>3. CASE DpcEof(c)
    <3> DEFINE pc == IF FrameEnds THEN "flip" ELSE "next"
               len == IF FrameEnds THEN 1 - frame_flip ELSE 0
               left == run.left
    <3>1. pc \in {"flip", "next"} /\ len \in Int /\ left \in Int /\ (pc = "flip" => len \in {0, 1})
      BY <1>1, <2>0
    <3>2. dpc' = [dpc EXCEPT ![c] = [@ EXCEPT !.pc = pc, !.len = len, !.left = left]]
      BY <1>1, <2>0, <2>3 DEF DpcEof
    <3> HIDE DEF pc, len, left
    <3> QED
      BY <1>2, <3>1, <3>2
  <2>4. CASE DpcFlip(c)
    <3> DEFINE pc == "next"
               len == 0
               left == run.left
    <3>1. pc \in {"next"} /\ len \in Int /\ left \in Int /\ (pc = "flip" => len \in {0, 1})
      BY <1>1, <2>0
    <3>2. dpc' = [dpc EXCEPT ![c] = [@ EXCEPT !.pc = pc, !.len = len, !.left = left]]
      BY <1>1, <2>0, <2>4 DEF DpcFlip
    <3> HIDE DEF pc, len, left
    <3> QED
      BY <1>2, <3>1, <3>2
  <2>5. CASE DpcNext(c)
    <3> DEFINE pc == IF FrameEnds \/ dpc[c].left = 1 THEN "complete" ELSE "copy"
               len == run.len
               left == run.left - 1
    <3>1. pc \in {"complete", "copy"} /\ len \in Int /\ left \in Int /\ (pc = "flip" => len \in {0, 1})
      BY <1>1, <2>0
    <3>2. dpc' = [dpc EXCEPT ![c] = [@ EXCEPT !.pc = pc, !.len = len, !.left = left]]
      BY <1>1, <2>0, <2>5 DEF DpcNext
    <3> HIDE DEF pc, len, left
    <3> QED
      BY <1>2, <3>1, <3>2
  <2> QED
    BY <2>1, <2>2, <2>3, <2>4, <2>5
<1>4. frame_pos' \in Int /\ frame_flip' \in {0, 1}
  BY <1>1 DEF DpcAdvance, DpcStore, DpcEof, DpcFlip, DpcNext, DpcRun
<1>5. asm' \in Assembly /\ picture' \in Requests \cup {NULL, Torn}
  BY <1>1 DEF DpcAdvance, DpcStore, DpcEof, DpcFlip, DpcNext, Assembly, FrameEnds
<1>6. UNCHANGED <<app, currentVideoRequest, frame_buf, frame_length, tick, prop, iso, dpcQueued,
                  bugcheck, faults>>
  BY DEF DpcAdvance, DpcStore, DpcEof, DpcFlip, DpcNext
<1> QED
  BY <1>3, <1>4, <1>5, <1>6 DEF TypeOK

(* Every step keeps the type, the stores of IOCTL_SET_VIDEO_PROP, of the   *)
(* timer callback and of the DPC included.                                 *)
LEMMA TypeNext == TypeOK /\ [Next]_vars => TypeOK'
<1> SUFFICES ASSUME TypeOK, [Next]_vars PROVE TypeOK'
  OBVIOUS
<1> USE DEF TypeOK, app, frame, tick, prop, iso, dpcs, host
<1>1. ASSUME NEW r \in Requests, NEW n \in BufferLengths, Push(r, n) PROVE TypeOK'
  BY Lengths, <1>1 DEF Push, Faults
<1>2. ASSUME NEW i \in DOMAIN videoQueue, CancelPush(i) PROVE TypeOK'
  <2>1. RemoveAt(videoQueue, i) \in Seq(Requests)
    BY RemoveAtProperties
  <2>2. req' \in [Requests -> {"free", "queued", "held", "done"}]
    BY <1>2 DEF CancelPush
  <2>3. faults' \subseteq Faults
    BY <1>2 DEF CancelPush, Blame, Faults
  <2> QED
    BY <1>2, <2>1, <2>2, <2>3 DEF CancelPush
<1>3. ASSUME NEW s \in Setters, SetPropFlip(s) PROVE TypeOK'
  BY Lengths, <1>3 DEF SetPropFlip, Blame, Faults
<1>4. ASSUME NEW s \in Setters, NEW n \in FrameLengths, SetPropLength(s, n)
      PROVE  TypeOK'
  BY <1>4, Lengths DEF SetPropLength
<1>5. ASSUME NEW s \in Setters, SetPropPos(s) PROVE TypeOK'
  BY <1>5 DEF SetPropPos
<1>6. CASE EndpointAdd
  BY <1>6 DEF EndpointAdd
<1>7. ASSUME NEW u \in Urbs, SubmitUrb(u) PROVE TypeOK'
  BY <1>7 DEF SubmitUrb
<1>8. ASSUME NEW i \in DOMAIN isoQueue, CancelUrb(i) PROVE TypeOK'
  <2>1. RemoveAt(isoQueue, i) \in Seq(Urbs)
    BY RemoveAtProperties
  <2> QED
    BY <1>8, <2>1 DEF CancelUrb
<1>9. CASE TickRelease
  BY <1>9 DEF TickRelease, CompletePush, BlameOverlap, Blame, Faults, Bugchecks
<1>10. CASE TickGetState
  <2>1. Counted \in Nat
    BY DEF Counted, Unfinished
  <2>2. faults' \subseteq Faults
    BY <1>10 DEF TickGetState, BlameOverlap, Blame, Faults
  <2> QED
    BY <1>10, <2>1, <2>2 DEF TickGetState
<1>11. CASE TickContinue
  <2>1. Counted \in Nat
    BY DEF Counted, Unfinished
  <2>2. faults' \subseteq Faults
    BY <1>11 DEF TickContinue, BlameOverlap, Blame, Faults
  <2> QED
    BY <1>11, <2>1, <2>2 DEF TickContinue
<1>12. CASE RetrieveNothing
  BY <1>12 DEF RetrieveNothing, Bugchecks
<1>13. CASE RetrieveFrame
  BY <1>13 DEF RetrieveFrame
<1>14. CASE TakeFrame
  BY <1>14 DEF TakeFrame
<1>15. CASE StartFrame
  BY <1>15 DEF StartFrame
<1>16. CASE RejectFrame
  <2>1. /\ req' \in [Requests -> {"free", "queued", "held", "done"}]
        /\ bugcheck' \in Bugchecks
    BY <1>16 DEF RejectFrame, CompletePush, Bugchecks
  <2> QED
    BY <1>16, <2>1 DEF RejectFrame
<1>17. CASE NoUrb
  BY <1>17 DEF NoUrb
<1>18. CASE RetrieveUrb
  BY <1>18 DEF RetrieveUrb
<1>19. CASE EnqueueDpc
  BY <1>19 DEF EnqueueDpc
<1>20. ASSUME NEW c \in Cpus, DpcBegin(c) PROVE TypeOK'
  <2>1. dpc' \in [Cpus -> DpcRun]
    BY Payload, <1>20 DEF DpcBegin, DpcRun
  <2>2. dpcQueued' \in BOOLEAN
    BY <1>20 DEF DpcBegin
  <2> QED
    BY <1>20, <2>1, <2>2 DEF DpcBegin
<1>21. ASSUME NEW c \in Cpus, DpcReturnEmpty(c) PROVE TypeOK'
  <2>1. /\ urb' \in [Urbs -> {"idle", "queued", "held"}]
        /\ bugcheck' \in Bugchecks
    BY <1>21 DEF DpcReturnEmpty, CompleteUrb, Bugchecks
  <2>2. dpcQueued' \in BOOLEAN
    BY <1>21 DEF DpcReturnEmpty
  <2> QED
    BY <1>21, <2>1, <2>2 DEF DpcReturnEmpty
<1>22. ASSUME NEW c \in Cpus, DpcNoRequest(c) PROVE TypeOK'
  BY <1>22 DEF DpcNoRequest, Bugchecks
<1>23. ASSUME NEW c \in Cpus, DpcCopy(c) PROVE TypeOK'
  <2>1. CopyLength \in Int
    BY Payload DEF CopyLength
  <2>2. dpc' \in [Cpus -> DpcRun]
    <3>1. dpc[c] \in DpcRun
      OBVIOUS
    <3> HIDE DEF TypeOK
    <3>2. [dpc[c] EXCEPT !.pc = "advance", !.len = CopyLength] \in DpcRun
      BY <2>1, <3>1 DEF DpcRun
    <3>3. dpc' = [dpc EXCEPT ![c] = [@ EXCEPT !.pc = "advance", !.len = CopyLength]]
      BY <1>23 DEF DpcCopy
    <3> QED
      BY <3>2, <3>3 DEF TypeOK
  <2>3. asm' \in Assembly
    <3>1. Fits \in BOOLEAN
      BY DEF Fits, Opens, Assembly
    <3> QED
      BY <1>23, <2>1, <3>1 DEF DpcCopy, Assembly
  <2> QED
    BY <1>23, <2>2, <2>3 DEF DpcCopy
<1>24. ASSUME NEW c \in Cpus, DpcAdvance(c) \/ DpcStore(c) \/ DpcEof(c) \/ DpcFlip(c)
                              \/ DpcNext(c)
       PROVE  TypeOK'
  BY <1>24, PacketType DEF app, frame, tick, prop, iso, host
<1>25. ASSUME NEW c \in Cpus, DpcBadCopy(c) PROVE TypeOK'
  BY <1>25 DEF DpcBadCopy, Bugchecks
<1>26. ASSUME NEW c \in Cpus, DpcComplete(c) PROVE TypeOK'
  <2>1. /\ urb' \in [Urbs -> {"idle", "queued", "held"}]
        /\ bugcheck' \in Bugchecks
    BY <1>26 DEF DpcComplete, CompleteUrb, Bugchecks
  <2>2. /\ dpc' \in [Cpus -> DpcRun]
        /\ \A d \in Cpus : dpc'[d].pc = "flip" => dpc'[d].len \in {0, 1}
    BY <1>26 DEF DpcComplete, Idle, DpcRun
  <2> QED
    BY <1>26, <2>1, <2>2 DEF DpcComplete
<1>27. CASE UNCHANGED vars
  BY <1>27 DEF vars
<1>28. ASSUME NEW r \in Requests, PushRefused(r) PROVE TypeOK'
  BY <1>28 DEF PushRefused
<1> QED
  BY <1>1, <1>2, <1>3, <1>4, <1>5, <1>6, <1>7, <1>8, <1>9,
     <1>10, <1>11, <1>12, <1>13, <1>14, <1>15, <1>16, <1>17, <1>18, <1>19,
     <1>20, <1>21, <1>22, <1>23, <1>24, <1>25, <1>26, <1>27, <1>28
     DEF Next, Application, SetVideoProp, Host, EvtIsochTimer,
         DpcCompleteVidoeIsoUrb, Stopped

(* The state has its type in every reachable state: positions and lengths  *)
(* are integers, the frame id is a bit, the counter of ticks is natural.   *)
THEOREM Typed == Spec => []TypeOK
<1>1. TypeOK /\ [Next]_vars => TypeOK'
  BY TypeNext
<1> QED
  BY TypeInit, <1>1, PTL DEF Spec

------------------------------------------------------------------------------
(* Completing a push request, also one that was completed already, leaves  *)
(* VideoQueue alone.                                                       *)
LEMMA CompletePushQueues ==
  ASSUME TypeOK, VideoQueueInv, NEW r \in Requests, CompletePush(r),
         UNCHANGED videoQueue
  PROVE  VideoQueueInv'
<1>1. CASE req[r] = "held"
  <2>1. Queues(videoQueue, [req EXCEPT ![r] = "done"])
    BY <1>1, SameQueues DEF TypeOK, VideoQueueInv
  <2> QED
    BY <1>1, <2>1 DEF CompletePush, VideoQueueInv
<1>2. CASE req[r] # "held"
  BY <1>2 DEF CompletePush, VideoQueueInv
<1> QED
  BY <1>1, <1>2

(* Completing an URB, also one that was completed already, leaves the      *)
(* queue of URBs alone.                                                    *)
LEMMA CompleteUrbQueues ==
  ASSUME TypeOK, IsoQueueInv, NEW u \in Urbs, CompleteUrb(u), UNCHANGED isoQueue
  PROVE  IsoQueueInv'
<1>1. CASE urb[u] = "held"
  <2>1. Queues(isoQueue, [urb EXCEPT ![u] = "idle"])
    BY <1>1, SameQueues DEF TypeOK, IsoQueueInv
  <2> QED
    BY <1>1, <2>1 DEF CompleteUrb, IsoQueueInv
<1>2. CASE urb[u] # "held"
  BY <1>2 DEF CompleteUrb, IsoQueueInv
<1> QED
  BY <1>1, <1>2

(* The queues keep their shape: what enters was not queued, what leaves    *)
(* changes its state.                                                      *)
LEMMA VideoQueueNext ==
  ASSUME TypeOK, VideoQueueInv, HandInv, [Next]_vars
  PROVE  VideoQueueInv'
<1> USE DEF TypeOK, VideoQueueInv, app, frame, tick, prop, iso, dpcs, host
<1>1. ASSUME NEW r \in Requests, NEW n \in BufferLengths, Push(r,
     n) PROVE VideoQueueInv'
  BY <1>1, AppendQueues DEF Push
<1>2. ASSUME NEW i \in DOMAIN videoQueue, CancelPush(i) PROVE VideoQueueInv'
  <2>1. Queues(RemoveAt(videoQueue, i), [req EXCEPT ![videoQueue[i]] = "done"])
    BY RemoveQueues
  <2> QED
    BY <1>2, <2>1 DEF CancelPush
<1>3. CASE TickRelease
  <2>1. currentVideoRequest \in Requests
    BY <1>3 DEF TickRelease
  <2> QED
    BY <1>3, <2>1, CompletePushQueues DEF TickRelease
<1>4. CASE RetrieveFrame
  BY <1>4, TailQueues DEF RetrieveFrame
<1>5. CASE RejectFrame
  <2>1. currentVideoRequest \in Requests
    BY <1>5 DEF RejectFrame, HandInv
  <2> QED
    BY <1>5, <2>1, CompletePushQueues DEF RejectFrame
<1>6. CASE \/ (\E s \in Setters : SetPropFlip(s))
          \/ (\E s \in Setters, n \in FrameLengths : SetPropLength(s, n))
          \/ (\E s \in Setters : SetPropPos(s))
  BY <1>6 DEF SetPropFlip, SetPropLength, SetPropPos
<1>7. CASE \/ EndpointAdd
          \/ (\E u \in Urbs : SubmitUrb(u))
          \/ (\E i \in DOMAIN isoQueue : CancelUrb(i))
  BY <1>7 DEF EndpointAdd, SubmitUrb, CancelUrb
<1>8. CASE \/ TickGetState
          \/ TickContinue
          \/ RetrieveNothing
          \/ TakeFrame
          \/ StartFrame
          \/ NoUrb
          \/ RetrieveUrb
          \/ EnqueueDpc
  BY <1>8 DEF TickGetState, TickContinue, RetrieveNothing, TakeFrame,
     StartFrame, NoUrb, RetrieveUrb, EnqueueDpc
<1>9. CASE \E c \in Cpus : DpcBegin(c) \/ DpcReturnEmpty(c) \/ DpcNoRequest(c) \/ DpcCopy(c) \/ DpcAdvance(c) \/ DpcStore(c) \/ DpcEof(c) \/ DpcFlip(c) \/ DpcNext(c) \/ DpcBadCopy(c) \/ DpcComplete(c)
  BY <1>9 DEF DpcBegin, DpcReturnEmpty, DpcNoRequest, DpcCopy, DpcAdvance,
     DpcStore, DpcEof, DpcFlip, DpcNext, DpcBadCopy, DpcComplete
<1>10. CASE UNCHANGED vars
  BY <1>10 DEF vars
<1>11. ASSUME NEW r \in Requests, PushRefused(r) PROVE VideoQueueInv'
  BY <1>11, SameQueues DEF PushRefused
<1> QED
  BY <1>1, <1>2, <1>3, <1>4, <1>5, <1>6, <1>7, <1>8, <1>9, <1>10, <1>11
     DEF Next, Application, SetVideoProp, Host, EvtIsochTimer,
         DpcCompleteVidoeIsoUrb, Stopped

(* IsoVideoInQueue holds exactly the URBs that are queued, each once.      *)
LEMMA IsoQueueNext ==
  ASSUME TypeOK, IsoQueueInv, RunInv, [Next]_vars
  PROVE  IsoQueueInv'
<1> USE DEF TypeOK, IsoQueueInv, app, frame, tick, prop, iso, dpcs, host
<1>1. ASSUME NEW u \in Urbs, SubmitUrb(u) PROVE IsoQueueInv'
  BY <1>1, AppendQueues DEF SubmitUrb
<1>2. ASSUME NEW i \in DOMAIN isoQueue, CancelUrb(i) PROVE IsoQueueInv'
  <2>1. Queues(RemoveAt(isoQueue, i), [urb EXCEPT ![isoQueue[i]] = "idle"])
    BY RemoveQueues
  <2> QED
    BY <1>2, <2>1 DEF CancelUrb
<1>3. CASE RetrieveUrb
  BY <1>3, TailQueues DEF RetrieveUrb
<1>4. ASSUME NEW c \in Cpus, DpcReturnEmpty(c) PROVE IsoQueueInv'
  <2>1. currentRequest \in Urbs
    BY <1>4 DEF DpcReturnEmpty
  <2> QED
    BY <1>4, <2>1, CompleteUrbQueues DEF DpcReturnEmpty
<1>5. ASSUME NEW c \in Cpus, DpcComplete(c) PROVE IsoQueueInv'
  <2>1. dpc[c].urb \in Urbs
    BY <1>5 DEF DpcComplete, RunInv
  <2> QED
    BY <1>5, <2>1, CompleteUrbQueues DEF DpcComplete
<1>6. CASE \/ (\E r \in Requests, n \in BufferLengths : Push(r, n))
          \/ (\E r \in Requests : PushRefused(r))
          \/ (\E i \in DOMAIN videoQueue : CancelPush(i))
          \/ (\E s \in Setters : SetPropFlip(s))
          \/ (\E s \in Setters, n \in FrameLengths : SetPropLength(s, n))
          \/ (\E s \in Setters : SetPropPos(s))
  BY <1>6 DEF Push, PushRefused, CancelPush, SetPropFlip, SetPropLength, SetPropPos
<1>7. CASE EndpointAdd
  BY <1>7 DEF EndpointAdd
<1>8. CASE \/ TickRelease
          \/ TickGetState
          \/ TickContinue
          \/ RetrieveNothing
          \/ RetrieveFrame
          \/ TakeFrame
          \/ StartFrame
          \/ RejectFrame
          \/ NoUrb
          \/ EnqueueDpc
  BY <1>8 DEF TickRelease, TickGetState, TickContinue, RetrieveNothing,
     RetrieveFrame, TakeFrame, StartFrame, RejectFrame, NoUrb, EnqueueDpc
<1>9. CASE \E c \in Cpus : DpcBegin(c) \/ DpcNoRequest(c) \/ DpcCopy(c) \/ DpcAdvance(c) \/ DpcStore(c) \/ DpcEof(c) \/ DpcFlip(c) \/ DpcNext(c) \/ DpcBadCopy(c)
  BY <1>9 DEF DpcBegin, DpcNoRequest, DpcCopy, DpcAdvance, DpcStore, DpcEof, DpcFlip,
     DpcNext, DpcBadCopy
<1>10. CASE UNCHANGED vars
  BY <1>10 DEF vars
<1> QED
  BY <1>1, <1>2, <1>3, <1>4, <1>5, <1>6, <1>7, <1>8, <1>9, <1>10
     DEF Next, Application, SetVideoProp, Host, EvtIsochTimer,
         DpcCompleteVidoeIsoUrb, Stopped

(* Every step keeps what is known of the frame in hand: it is the only     *)
(* frame that is held, and frame_buf is its buffer or NULL.                *)
LEMMA HandNext ==
  ASSUME TypeOK, VideoQueueInv, HandInv, GeometryInv, [Next]_vars
  PROVE  HandInv'
<1> USE DEF TypeOK, HandInv, Mismatched, app, frame, tick, prop, iso, dpcs, host
<1>1. ASSUME NEW r \in Requests, NEW n \in BufferLengths, Push(r, n)
      PROVE  HandInv'
  <2>1. /\ req[r] = "free" /\ req' = [req EXCEPT ![r] = "queued"]
        /\ videoQueue' = Append(videoQueue, r) /\ faults \subseteq faults'
        /\ UNCHANGED <<currentVideoRequest, frame_buf, timeout, timer>>
    BY <1>1 DEF Push
  <2>2. \A q \in Requests : (req'[q] = "held") <=> (req[q] = "held")
    BY <2>1
  <2>3. Append(videoQueue, r) # <<>>
    BY AppendProperties
  <2> QED
    BY <2>1, <2>2, <2>3, Naming
<1>2. ASSUME NEW i \in DOMAIN videoQueue, CancelPush(i) PROVE HandInv'
  <2>1. videoQueue[i] \in Requests /\ req[videoQueue[i]] = "queued"
    BY DEF VideoQueueInv, Queues
  <2>2. req' = [req EXCEPT ![videoQueue[i]] = "done"]
    BY <1>2 DEF CancelPush
  <2>3. faults \subseteq faults' /\ (timer = "retrieve" => "cancel_window" \in faults')
    BY <1>2 DEF CancelPush, Blame
  <2>4. UNCHANGED <<frame, tick>>
    BY <1>2 DEF CancelPush
  <2> QED
    BY <2>1, <2>2, <2>3, <2>4, Naming
<1>3. ASSUME NEW s \in Setters, SetPropFlip(s) PROVE HandInv'
  BY <1>3, Naming DEF SetPropFlip, Blame
<1>4. CASE TickRelease
  BY <1>4, Naming DEF TickRelease, CompletePush, BlameOverlap, Blame
<1>5. CASE TickGetState
  BY <1>5, Naming DEF TickGetState, Counted, Unfinished, BlameOverlap, Blame
<1>6. CASE TickContinue
  BY <1>6, Naming DEF TickContinue, Counted, Unfinished, FrameDue,
     BlameOverlap, Blame
<1>7. CASE RetrieveFrame
  BY <1>7, Naming, TailQueues DEF RetrieveFrame, VideoQueueInv, Discards
<1>8. CASE TakeFrame
  BY <1>8, Naming DEF TakeFrame
<1>9. CASE RejectFrame
  BY <1>9, Naming DEF RejectFrame, CompletePush, GeometryInv
<1>10. CASE \/ (\E s \in Setters, n \in FrameLengths : SetPropLength(s, n))
          \/ (\E s \in Setters : SetPropPos(s))
  BY <1>10 DEF SetPropLength, SetPropPos
<1>11. CASE \/ EndpointAdd
          \/ (\E u \in Urbs : SubmitUrb(u))
          \/ (\E i \in DOMAIN isoQueue : CancelUrb(i))
  BY <1>11 DEF EndpointAdd, SubmitUrb, CancelUrb
<1>12. CASE \/ RetrieveNothing
          \/ StartFrame
          \/ NoUrb
          \/ RetrieveUrb
          \/ EnqueueDpc
  BY <1>12 DEF RetrieveNothing, StartFrame, NoUrb, RetrieveUrb, EnqueueDpc
<1>13. CASE \E c \in Cpus : DpcBegin(c) \/ DpcReturnEmpty(c) \/ DpcNoRequest(c) \/ DpcCopy(c) \/ DpcAdvance(c) \/ DpcStore(c) \/ DpcEof(c) \/ DpcFlip(c) \/ DpcNext(c) \/ DpcBadCopy(c) \/ DpcComplete(c)
  BY <1>13 DEF DpcBegin, DpcReturnEmpty, DpcNoRequest, DpcCopy, DpcAdvance,
     DpcStore, DpcEof, DpcFlip, DpcNext, DpcBadCopy, DpcComplete
<1>14. CASE UNCHANGED vars
  BY <1>14 DEF vars
<1>15. ASSUME NEW r \in Requests, PushRefused(r) PROVE HandInv'
  <2>1. \A q \in Requests : (req'[q] = "held") <=> (req[q] = "held")
    BY <1>15 DEF PushRefused
  <2>2. UNCHANGED <<videoQueue, frame, tick, faults>>
    BY <1>15 DEF PushRefused
  <2> QED
    BY <2>1, <2>2
<1> QED
  BY <1>1, <1>2, <1>3, <1>4, <1>5, <1>6, <1>7, <1>8, <1>9, <1>10, <1>11, <1>12,
     <1>13, <1>14, <1>15
     DEF Next, Application, SetVideoProp, Host, EvtIsochTimer,
         DpcCompleteVidoeIsoUrb, Stopped

(* After a packet was written only one run of the DPC goes on, with the    *)
(* URB it has; it is in the steps it may come to from where it was.        *)
LEMMA RunsGoOn ==
  ASSUME TypeOK, NEW c \in Cpus,
         DpcAdvance(c) \/ DpcStore(c) \/ DpcEof(c) \/ DpcFlip(c) \/ DpcNext(c)
  PROVE  /\ dpc[c].pc \in {"advance", "store", "eof", "flip", "next"}
         /\ dpc'[c].pc # "idle" /\ dpc'[c].pc # "advance"
         /\ \A d \in Cpus : dpc'[d].urb = dpc[d].urb
         /\ \A d \in Cpus \ {c} : dpc'[d] = dpc[d]
         /\ UNCHANGED <<app, currentVideoRequest, frame_buf, frame_length, tick, prop, iso,
                        dpcQueued, bugcheck, faults>>
<1>1. dpc \in [Cpus -> DpcRun] /\ dpc[c] \in DpcRun
  BY DEF TypeOK
<1> QED
  BY <1>1 DEF DpcAdvance, DpcStore, DpcEof, DpcFlip, DpcNext, DpcRun, frame, iso

(* A run of the DPC keeps the URB it started with.                         *)
LEMMA RunNext ==
  ASSUME TypeOK, RunInv, [Next]_vars
  PROVE  RunInv'
<1> USE DEF TypeOK, RunInv, app, frame, tick, prop, iso, dpcs, host
<1>1. ASSUME NEW c \in Cpus, DpcBegin(c) PROVE RunInv'
  BY <1>1 DEF DpcBegin
<1>2. ASSUME NEW c \in Cpus, DpcCopy(c) PROVE RunInv'
  BY <1>2 DEF DpcCopy, Idle
<1>3. ASSUME NEW c \in Cpus, DpcAdvance(c) \/ DpcStore(c) \/ DpcEof(c) \/ DpcFlip(c)
                             \/ DpcNext(c)
      PROVE  RunInv'
  <2>1. dpc[c].pc # "idle" /\ \A d \in Cpus : dpc'[d].urb = dpc[d].urb
    BY <1>3, RunsGoOn
  <2>2. \A d \in Cpus \ {c} : dpc'[d] = dpc[d]
    BY <1>3, RunsGoOn
  <2> QED
    BY <2>1, <2>2
<1>4. ASSUME NEW c \in Cpus, DpcComplete(c) PROVE RunInv'
  BY <1>4 DEF DpcComplete, Idle
<1>5. CASE \/ (\E r \in Requests, n \in BufferLengths : Push(r, n))
          \/ (\E r \in Requests : PushRefused(r))
          \/ (\E i \in DOMAIN videoQueue : CancelPush(i))
          \/ (\E s \in Setters : SetPropFlip(s))
          \/ (\E s \in Setters, n \in FrameLengths : SetPropLength(s, n))
          \/ (\E s \in Setters : SetPropPos(s))
  BY <1>5 DEF Push, PushRefused, CancelPush, SetPropFlip, SetPropLength, SetPropPos
<1>6. CASE \/ EndpointAdd
          \/ (\E u \in Urbs : SubmitUrb(u))
          \/ (\E i \in DOMAIN isoQueue : CancelUrb(i))
  BY <1>6 DEF EndpointAdd, SubmitUrb, CancelUrb
<1>7. CASE \/ TickRelease
          \/ TickGetState
          \/ TickContinue
          \/ RetrieveNothing
          \/ RetrieveFrame
          \/ TakeFrame
          \/ StartFrame
          \/ RejectFrame
          \/ NoUrb
          \/ RetrieveUrb
          \/ EnqueueDpc
  BY <1>7 DEF TickRelease, TickGetState, TickContinue, RetrieveNothing,
     RetrieveFrame, TakeFrame, StartFrame, RejectFrame, NoUrb, RetrieveUrb,
     EnqueueDpc
<1>8. CASE \E c \in Cpus : DpcReturnEmpty(c) \/ DpcNoRequest(c) \/ DpcBadCopy(c)
  BY <1>8 DEF DpcReturnEmpty, DpcNoRequest, DpcBadCopy
<1>9. CASE UNCHANGED vars
  BY <1>9 DEF vars
<1> QED
  BY <1>1, <1>2, <1>3, <1>4, <1>5, <1>6, <1>7, <1>8, <1>9
     DEF Next, Application, SetVideoProp, Host, EvtIsochTimer,
         DpcCompleteVidoeIsoUrb, Stopped

(* Every step keeps the geometry within the buffers, or blames the push or *)
(* the IOCTL_SET_VIDEO_PROP that broke it.                                 *)
LEMMA GeometryNext ==
  ASSUME TypeOK, VideoQueueInv, HandInv, GeometryInv, CopyInv, [Next]_vars
  PROVE  GeometryInv'
<1> USE DEF TypeOK, GeometryInv, Outstanding, Setting, TooShort, Mismatched,
     Calm, app, frame, tick, prop, iso, dpcs, host
<1>1. ASSUME NEW r \in Requests, NEW n \in BufferLengths, Push(r,
     n) PROVE GeometryInv'
  BY <1>1, Naming, Lengths DEF Push, HandInv
<1>2. ASSUME NEW i \in DOMAIN videoQueue, CancelPush(i) PROVE GeometryInv'
  <2>1. videoQueue[i] \in Requests /\ req[videoQueue[i]] = "queued"
    BY DEF VideoQueueInv, Queues
  <2>2. req' = [req EXCEPT ![videoQueue[i]] = "done"]
    BY <1>2 DEF CancelPush
  <2>3. faults \subseteq faults' /\ UNCHANGED <<bufLen, frame, tick, prop>>
    BY <1>2 DEF CancelPush, Blame
  <2> QED
    BY <2>1, <2>2, <2>3
<1>3. ASSUME NEW s \in Setters, SetPropFlip(s) PROVE GeometryInv'
  BY <1>3, Naming DEF SetPropFlip, Blame, HandInv
<1>4. ASSUME NEW s \in Setters, NEW n \in FrameLengths, SetPropLength(s, n)
      PROVE  GeometryInv'
  BY <1>4, Naming DEF SetPropLength, HandInv
<1>5. ASSUME NEW s \in Setters, SetPropPos(s) PROVE GeometryInv'
  BY <1>5, Naming DEF SetPropPos, HandInv
<1>6. CASE TickRelease
  BY <1>6, Naming DEF TickRelease, CompletePush, BlameOverlap, Blame
<1>7. CASE TickGetState
  BY <1>7, Naming DEF TickGetState, BlameOverlap, Blame
<1>8. CASE TickContinue
  BY <1>8, Naming DEF TickContinue, BlameOverlap, Blame
<1>9. CASE RetrieveFrame
  <2>1. Head(videoQueue) \in Requests /\ req[Head(videoQueue)] = "queued"
    BY <1>9, TailQueues DEF VideoQueueInv, RetrieveFrame
  <2> QED
    BY <1>9, <2>1 DEF RetrieveFrame, HandInv
<1>10. CASE TakeFrame
  BY <1>10, Naming DEF TakeFrame, HandInv
<1>11. CASE StartFrame
  BY <1>11, Naming DEF StartFrame, HandInv
<1>12. CASE RejectFrame
  BY <1>12, Naming DEF RejectFrame, CompletePush
<1>13. CASE NoUrb
  BY <1>13 DEF NoUrb
<1>14. CASE RetrieveUrb
  BY <1>14 DEF RetrieveUrb
<1>15. CASE EnqueueDpc
  BY <1>15 DEF EnqueueDpc
<1>16. ASSUME NEW c \in Cpus, DpcStore(c) PROVE GeometryInv'
  <2>1. /\ frame_pos' = dpc[c].len
        /\ UNCHANGED <<app, frame_buf, frame_length, tick, prop, faults>>
    BY <1>16 DEF DpcStore
  <2>2. dpc[c].len \in Int
    BY DEF DpcRun
  <2>3. Calm => frame_pos <= dpc[c].len /\ dpc[c].len <= frame_length
    BY <1>16 DEF DpcStore, CopyInv, Reach
  <2> QED
    BY <2>1, <2>2, <2>3
<1>17. CASE \/ EndpointAdd
          \/ (\E u \in Urbs : SubmitUrb(u))
          \/ (\E i \in DOMAIN isoQueue : CancelUrb(i))
  BY <1>17 DEF EndpointAdd, SubmitUrb, CancelUrb
<1>18. CASE RetrieveNothing
  BY <1>18 DEF RetrieveNothing
<1>19. CASE \E c \in Cpus : \/ DpcBegin(c) \/ DpcReturnEmpty(c) \/ DpcNoRequest(c) \/ DpcCopy(c)
                             \/ DpcAdvance(c) \/ DpcEof(c) \/ DpcFlip(c) \/ DpcNext(c)
                             \/ DpcBadCopy(c) \/ DpcComplete(c)
  BY <1>19 DEF DpcBegin, DpcReturnEmpty, DpcNoRequest, DpcCopy, DpcAdvance,
     DpcEof, DpcFlip, DpcNext, DpcBadCopy, DpcComplete
<1>20. CASE UNCHANGED vars
  BY <1>20 DEF vars
<1>21. ASSUME NEW r \in Requests, PushRefused(r) PROVE GeometryInv'
  BY <1>21 DEF PushRefused
<1> QED
  BY <1>1, <1>2, <1>3, <1>4, <1>5, <1>6, <1>7, <1>8, <1>9, <1>10, <1>11, <1>12,
     <1>13, <1>14, <1>15, <1>16, <1>17, <1>18, <1>19, <1>20, <1>21
     DEF Next, Application, SetVideoProp, Host, EvtIsochTimer,
         DpcCompleteVidoeIsoUrb, Stopped

(* As long as no DPC outlives its tick there is one URB under way, and it  *)
(* is the one in currentRequest.                                           *)
LEMMA UrbNext ==
  ASSUME TypeOK, HandInv, RunInv, IsoQueueInv, DpcInv, [Next]_vars
  PROVE  DpcInv'
<1> USE DEF TypeOK, DpcInv, OneAtATime, DpcPending, app, frame, tick, prop,
     iso, dpcs, host
<1>1. ASSUME NEW r \in Requests, NEW n \in BufferLengths, Push(r,
     n) PROVE DpcInv'
  BY <1>1 DEF Push
<1>2. ASSUME NEW i \in DOMAIN videoQueue, CancelPush(i) PROVE DpcInv'
  BY <1>2 DEF CancelPush, Blame
<1>3. ASSUME NEW s \in Setters, SetPropFlip(s) PROVE DpcInv'
  BY <1>3 DEF SetPropFlip, Blame
<1>4. ASSUME NEW u \in Urbs, SubmitUrb(u) PROVE DpcInv'
  BY <1>4 DEF SubmitUrb
<1>5. ASSUME NEW i \in DOMAIN isoQueue, CancelUrb(i) PROVE DpcInv'
  <2>1. isoQueue[i] \in Urbs /\ urb[isoQueue[i]] = "queued"
    BY DEF IsoQueueInv, Queues
  <2>2. urb' = [urb EXCEPT ![isoQueue[i]] = "idle"]
    BY <1>5 DEF CancelUrb
  <2>3. UNCHANGED <<frame, tick, currentRequest, dpcs, faults>>
    BY <1>5 DEF CancelUrb
  <2> QED
    BY <2>1, <2>2, <2>3
<1>6. CASE TickRelease
  BY <1>6 DEF TickRelease, BlameOverlap, Blame
<1>7. CASE TickGetState
  BY <1>7 DEF TickGetState, BlameOverlap, Blame
<1>8. CASE TickContinue
  BY <1>8 DEF TickContinue, BlameOverlap, Blame
<1>9. CASE RetrieveFrame
  BY <1>9 DEF RetrieveFrame
<1>10. CASE TakeFrame
  BY <1>10 DEF TakeFrame
<1>11. CASE StartFrame
  BY <1>11 DEF StartFrame
<1>12. CASE RejectFrame
  BY <1>12 DEF RejectFrame
<1>13. CASE NoUrb
  BY <1>13 DEF NoUrb
<1>14. CASE RetrieveUrb
  BY <1>14, Naming, TailQueues DEF RetrieveUrb, IsoQueueInv
<1>15. CASE EnqueueDpc
  BY <1>15 DEF EnqueueDpc
<1>16. ASSUME NEW c \in Cpus, DpcBegin(c) PROVE DpcInv'
  BY <1>16 DEF DpcBegin
<1>17. ASSUME NEW c \in Cpus, DpcReturnEmpty(c) PROVE DpcInv'
  BY <1>17 DEF DpcReturnEmpty, CompleteUrb
<1>18. ASSUME NEW c \in Cpus, DpcCopy(c) PROVE DpcInv'
  BY <1>18 DEF DpcCopy
<1>19. ASSUME NEW c \in Cpus, DpcAdvance(c) \/ DpcStore(c) \/ DpcEof(c) \/ DpcFlip(c)
                              \/ DpcNext(c)
       PROVE  DpcInv'
  <2>1. /\ dpc[c].pc # "idle" /\ dpc'[c].pc # "idle" /\ dpc'[c].urb = dpc[c].urb
        /\ \A d \in Cpus \ {c} : dpc'[d] = dpc[d]
        /\ UNCHANGED <<frame_buf, tick, iso, dpcQueued, faults>>
    BY <1>19, RunsGoOn
  <2>2. \A d \in Cpus : (dpc'[d].pc = "idle" <=> dpc[d].pc = "idle") /\ dpc'[d].urb = dpc[d].urb
    BY <2>1
  <2> QED
    BY <2>1, <2>2
<1>20. ASSUME NEW c \in Cpus, DpcComplete(c) PROVE DpcInv'
  BY <1>20 DEF DpcComplete, CompleteUrb, Idle
<1>21. CASE \/ (\E s \in Setters, n \in FrameLengths : SetPropLength(s, n))
          \/ (\E s \in Setters : SetPropPos(s))
  BY <1>21 DEF SetPropLength, SetPropPos
<1>22. CASE EndpointAdd
  BY <1>22 DEF EndpointAdd
<1>23. CASE RetrieveNothing
  BY <1>23 DEF RetrieveNothing
<1>24. CASE \E c \in Cpus : DpcNoRequest(c) \/ DpcBadCopy(c)
  BY <1>24 DEF DpcNoRequest, DpcBadCopy
<1>25. CASE UNCHANGED vars
  BY <1>25 DEF vars
<1>26. ASSUME NEW r \in Requests, PushRefused(r) PROVE DpcInv'
  BY <1>26 DEF PushRefused
<1> QED
  BY <1>1, <1>2, <1>3, <1>4, <1>5, <1>6, <1>7, <1>8, <1>9, <1>10, <1>11, <1>12,
     <1>13, <1>14, <1>15, <1>16, <1>17, <1>18, <1>19, <1>20, <1>21, <1>22,
     <1>23, <1>24, <1>25, <1>26
     DEF Next, Application, SetVideoProp, Host, EvtIsochTimer,
         DpcCompleteVidoeIsoUrb, Stopped

(* The packet a run of the DPC has written stays inside the frame.         *)
LEMMA CopyNext ==
  ASSUME TypeOK, HandInv, GeometryInv, DpcInv, CopyInv, [Next]_vars
  PROVE  CopyInv'
<1> USE DEF TypeOK, CopyInv, Reach, Calm, app, frame, tick, prop, iso, dpcs, host
<1>1. ASSUME NEW r \in Requests, NEW n \in BufferLengths, Push(r,
     n) PROVE CopyInv'
  BY <1>1 DEF Push
<1>2. ASSUME NEW i \in DOMAIN videoQueue, CancelPush(i) PROVE CopyInv'
  BY <1>2 DEF CancelPush, Blame
<1>3. ASSUME NEW s \in Setters, SetPropFlip(s) PROVE CopyInv'
  BY <1>3 DEF SetPropFlip, Blame
<1>4. ASSUME NEW s \in Setters, NEW n \in FrameLengths, SetPropLength(s, n)
      PROVE  CopyInv'
  BY <1>4 DEF SetPropLength, GeometryInv, HandInv, DpcInv, OneAtATime, Setting,
     Outstanding
<1>5. ASSUME NEW s \in Setters, SetPropPos(s) PROVE CopyInv'
  BY <1>5 DEF SetPropPos, GeometryInv, HandInv, DpcInv, OneAtATime, Setting,
     Outstanding
<1>6. CASE TickRelease
  BY <1>6 DEF TickRelease, BlameOverlap, Blame
<1>7. CASE TickGetState
  BY <1>7 DEF TickGetState, BlameOverlap, Blame
<1>8. CASE TickContinue
  BY <1>8 DEF TickContinue, BlameOverlap, Blame
<1>9. CASE StartFrame
  BY <1>9 DEF StartFrame, DpcInv, OneAtATime, DpcPending
<1>10. ASSUME NEW c \in Cpus, DpcBegin(c) PROVE CopyInv'
  BY <1>10 DEF DpcBegin
<1>11. ASSUME NEW c \in Cpus, DpcCopy(c) PROVE CopyInv'
  BY <1>11, Payload DEF DpcCopy, CopyLength, DpcInv, OneAtATime
<1>12. ASSUME NEW c \in Cpus, DpcAdvance(c) \/ DpcStore(c) \/ DpcEof(c) \/ DpcFlip(c)
                              \/ DpcNext(c)
       PROVE  CopyInv'
  <2>1. /\ dpc[c].pc # "idle" /\ faults' = faults /\ frame_length' = frame_length
        /\ \A d \in Cpus \ {c} : dpc'[d] = dpc[d]
    BY <1>12, RunsGoOn
  <2>2. Calm' => \A d \in Cpus \ {c} : dpc'[d].pc = "idle"
    BY <2>1 DEF DpcInv, OneAtATime
  <2>3. CASE DpcAdvance(c)
    <3>1. /\ dpc[c].pc = "advance" /\ dpc'[c].pc = "store" /\ frame_pos' = frame_pos
          /\ dpc'[c].len = frame_pos + dpc[c].len
      BY <2>3 DEF DpcAdvance, DpcRun
    <3>2. Reach(c)' = Reach(c)
      BY <3>1 DEF Reach
    <3>3. Calm' <=> Calm
      BY <2>1 DEF Calm
    <3>4. Calm => frame_pos <= Reach(c) /\ Reach(c) <= frame_length
      BY <3>1
    <3> HIDE DEF TypeOK, CopyInv, Reach, Calm
    <3>5. ASSUME Calm', NEW d \in Cpus, dpc'[d].pc \in {"advance", "store"}
          PROVE  frame_pos' <= Reach(d)' /\ Reach(d)' <= frame_length'
      <4>1. d = c
        BY <2>2, <3>5
      <4> QED
        BY <2>1, <3>1, <3>2, <3>3, <3>4, <3>5, <4>1
    <3> QED
      BY <3>5 DEF CopyInv
  <2>4. CASE DpcStore(c) \/ DpcEof(c) \/ DpcFlip(c) \/ DpcNext(c)
    <3>1. dpc'[c].pc \notin {"advance", "store"}
      BY <2>4 DEF DpcStore, DpcEof, DpcFlip, DpcNext, DpcRun
    <3> QED
      BY <2>2, <3>1
  <2> QED
    BY <1>12, <2>3, <2>4
<1>13. ASSUME NEW c \in Cpus, DpcComplete(c) PROVE CopyInv'
  BY <1>13 DEF DpcComplete, Idle
<1>14. CASE \/ EndpointAdd
          \/ (\E u \in Urbs : SubmitUrb(u))
          \/ (\E i \in DOMAIN isoQueue : CancelUrb(i))
  BY <1>14 DEF EndpointAdd, SubmitUrb, CancelUrb
<1>15. CASE \/ RetrieveNothing
          \/ RetrieveFrame
          \/ TakeFrame
          \/ RejectFrame
          \/ NoUrb
          \/ RetrieveUrb
          \/ EnqueueDpc
  BY <1>15 DEF RetrieveNothing, RetrieveFrame, TakeFrame, RejectFrame, NoUrb,
     RetrieveUrb, EnqueueDpc
<1>16. CASE \E c \in Cpus : DpcReturnEmpty(c) \/ DpcNoRequest(c) \/ DpcBadCopy(c)
  BY <1>16 DEF DpcReturnEmpty, DpcNoRequest, DpcBadCopy
<1>17. CASE UNCHANGED vars
  BY <1>17 DEF vars
<1>18. ASSUME NEW r \in Requests, PushRefused(r) PROVE CopyInv'
  BY <1>18 DEF PushRefused
<1> QED
  BY <1>1, <1>2, <1>3, <1>4, <1>5, <1>6, <1>7, <1>8, <1>9, <1>10, <1>11, <1>12,
     <1>13, <1>14, <1>15, <1>16, <1>17, <1>18
     DEF Next, Application, SetVideoProp, Host, EvtIsochTimer,
         DpcCompleteVidoeIsoUrb, Stopped

(* Every step that stops the system has a cause among the faults.          *)
LEMMA BugcheckNext ==
  ASSUME TypeOK, HandInv, GeometryInv, RunInv, DpcInv, BugcheckExplained,
     [Next]_vars
  PROVE  BugcheckExplained'
<1> USE DEF TypeOK, BugcheckExplained, Causes, app, frame, tick, prop, iso,
     dpcs, host
<1>1. ASSUME NEW r \in Requests, NEW n \in BufferLengths, Push(r,
     n) PROVE BugcheckExplained'
  BY <1>1 DEF Push, Running
<1>2. ASSUME NEW i \in DOMAIN videoQueue, CancelPush(i) PROVE BugcheckExplained'
  BY <1>2 DEF CancelPush, Blame, Running
<1>3. ASSUME NEW s \in Setters, SetPropFlip(s) PROVE BugcheckExplained'
  BY <1>3 DEF SetPropFlip, Blame, Running
<1>4. CASE TickRelease
  BY <1>4 DEF TickRelease, CompletePush, BlameOverlap, Blame, Running, HandInv,
     Mismatched
<1>5. CASE TickGetState
  BY <1>5 DEF TickGetState, BlameOverlap, Blame, Running
<1>6. CASE TickContinue
  BY <1>6 DEF TickContinue, BlameOverlap, Blame, Running
<1>7. CASE RetrieveNothing
  BY <1>7 DEF RetrieveNothing, Running, HandInv
<1>8. CASE RejectFrame
  BY <1>8 DEF RejectFrame, CompletePush, Running, HandInv
<1>9. ASSUME NEW c \in Cpus, DpcReturnEmpty(c) PROVE BugcheckExplained'
  BY <1>9 DEF DpcReturnEmpty, CompleteUrb, Running, DpcInv, OneAtATime,
     DpcPending
<1>10. ASSUME NEW c \in Cpus, DpcNoRequest(c) PROVE BugcheckExplained'
  BY <1>10 DEF DpcNoRequest, Running, DpcInv, OneAtATime, DpcPending
<1>11. ASSUME NEW c \in Cpus, DpcBadCopy(c) PROVE BugcheckExplained'
  BY <1>11, Payload DEF DpcBadCopy, CopyLength, Running, GeometryInv, Calm,
     DpcInv, OneAtATime, DpcPending
<1>12. ASSUME NEW c \in Cpus, DpcComplete(c) PROVE BugcheckExplained'
  BY <1>12 DEF DpcComplete, CompleteUrb, Running, DpcInv, OneAtATime, DpcPending
<1>13. CASE \/ (\E s \in Setters, n \in FrameLengths : SetPropLength(s, n))
          \/ (\E s \in Setters : SetPropPos(s))
  BY <1>13 DEF SetPropLength, SetPropPos
<1>14. CASE \/ EndpointAdd
          \/ (\E u \in Urbs : SubmitUrb(u))
          \/ (\E i \in DOMAIN isoQueue : CancelUrb(i))
  BY <1>14 DEF EndpointAdd, SubmitUrb, CancelUrb
<1>15. CASE \/ RetrieveFrame
          \/ TakeFrame
          \/ StartFrame
          \/ NoUrb
          \/ RetrieveUrb
          \/ EnqueueDpc
  BY <1>15 DEF RetrieveFrame, TakeFrame, StartFrame, NoUrb, RetrieveUrb,
     EnqueueDpc
<1>16. CASE \E c \in Cpus : \/ DpcBegin(c) \/ DpcCopy(c) \/ DpcAdvance(c) \/ DpcStore(c)
                             \/ DpcEof(c) \/ DpcFlip(c) \/ DpcNext(c)
  BY <1>16 DEF DpcBegin, DpcCopy, DpcAdvance, DpcStore, DpcEof, DpcFlip, DpcNext
<1>17. CASE UNCHANGED vars
  BY <1>17 DEF vars
<1>18. ASSUME NEW r \in Requests, PushRefused(r) PROVE BugcheckExplained'
  BY <1>18 DEF PushRefused, Running
<1> QED
  BY <1>1, <1>2, <1>3, <1>4, <1>5, <1>6, <1>7, <1>8, <1>9, <1>10, <1>11, <1>12,
     <1>13, <1>14, <1>15, <1>16, <1>17, <1>18
     DEF Next, Application, SetVideoProp, Host, EvtIsochTimer,
         DpcCompleteVidoeIsoUrb, Stopped

(* The inductive invariant holds in the initial states.                    *)
LEMMA InvInit == Init => IInv
<1> SUFFICES ASSUME Init PROVE IInv
  OBVIOUS
<1>1. TypeOK
  BY TypeInit
<1>2. VideoQueueInv /\ IsoQueueInv
  BY DEF Init, VideoQueueInv, IsoQueueInv, Queues, IsInjective
<1>3. HandInv /\ RunInv /\ BugcheckExplained
  BY DEF Init, HandInv, RunInv, BugcheckExplained, Idle
<1>4. GeometryInv
  BY DEF Init, GeometryInv, Outstanding, Setting
<1>5. DpcInv /\ CopyInv
  BY DEF Init, DpcInv, DpcPending, CopyInv, Idle
<1> QED
  BY <1>1, <1>2, <1>3, <1>4, <1>5 DEF IInv

(* It is kept by every step.                                               *)
LEMMA InvNext == IInv /\ [Next]_vars => IInv'
BY TypeNext, VideoQueueNext, IsoQueueNext, HandNext, GeometryNext, RunNext,
   UrbNext, CopyNext, BugcheckNext DEF IInv

(* The inductive invariant holds in every reachable state.                 *)
THEOREM Invariant == Spec => []IInv
BY InvInit, InvNext, PTL DEF Spec

------------------------------------------------------------------------------
(* What the properties of VideoStream need of it.                          *)

(* Each bugcheck of the streaming path has one of the causes Causes names: *)
(* in the intended use the driver never stops the system.                  *)
THEOREM NoUnexplainedBugcheck == Spec => []BugcheckExplained
<1>1. IInv => BugcheckExplained
  BY DEF IInv
<1> QED
  BY Invariant, <1>1, PTL

(* What a run of the DPC copies lies inside the frame, and that inside the *)
(* buffer.                                                                 *)
LEMMA InvCopies == IInv => CopyWithinBuffer
<1> SUFFICES ASSUME IInv, NEW c \in Cpus, Calm, dpc[c].pc \notin {"idle", "complete"}
             PROVE  /\ frame_buf # NULL
                    /\ 0 <= frame_pos /\ frame_pos <= Reach(c)
                    /\ Reach(c) <= frame_length
                    /\ frame_length <= bufLen[frame_buf]
  BY DEF CopyWithinBuffer
<1>1. frame_buf # NULL /\ timer # "pos"
  BY DEF IInv, DpcInv, OneAtATime, DpcPending, Calm
<1>2. /\ 0 <= frame_length /\ frame_length <= bufLen[frame_buf]
      /\ 0 <= frame_pos /\ frame_pos <= frame_length
  BY <1>1 DEF IInv, GeometryInv
<1>3. frame_pos \in Int
  BY DEF IInv, TypeOK
<1>4. CASE dpc[c].pc \in {"advance", "store"}
  BY <1>1, <1>2, <1>4 DEF IInv, CopyInv
<1>5. CASE dpc[c].pc \notin {"advance", "store"}
  <2>1. Reach(c) = frame_pos
    BY <1>5 DEF Reach
  <2> QED
    BY <1>1, <1>2, <1>3, <2>1
<1> QED
  BY <1>4, <1>5

(* The copy of the DPC stays inside the pushed buffer, whatever its length *)
(* and the geometry, unless the geometry changed under it or DPCs overlap. *)
THEOREM CopiesWithinBuffer == Spec => []CopyWithinBuffer
BY Invariant, InvCopies, PTL

(* Frames and URBs that were taken from their queues are in hand, on their *)
(* way to the DPC, or in it: none is forgotten.                            *)
THEOREM NothingIsLost == Spec => []NothingLost
<1>1. IInv => NothingLost
  BY DEF IInv, TypeOK, NothingLost, HandInv, DpcInv, OneAtATime, DpcPending
<1> QED
  BY Invariant, <1>1, PTL

(* The branch of processVideo that discards a frame ("timeout > 30") is    *)
(* dead for every value of the two tick limits.                            *)
THEOREM DiscardIsDead == Spec => []DiscardUnreachable
<1>1. IInv => DiscardUnreachable
  BY Ticks DEF IInv, DiscardUnreachable, HandInv, Discards
<1> QED
  BY Invariant, <1>1, PTL

=============================================================================
