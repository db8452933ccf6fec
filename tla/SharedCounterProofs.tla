------------------------- MODULE SharedCounterProofs -------------------------
(***************************************************************************)
(* What several cameras do to their one counter, for any number of         *)
(* cameras, frames and ticks.                                              *)
(***************************************************************************)
EXTENDS SharedCounter, TLAPS

(* The counter is evaluated only with a frame in hand; a frame is taken    *)
(* only when there is none and the queue has one.                          *)
Working ==
  \A c \in Cameras :
    /\ pc[c] = "count" => hand[c] # "none"
    /\ pc[c] = "retrieve" => hand[c] = "none" /\ waiting[c] > 0

(* While a camera is not crowded nobody else has a frame in hand, and the  *)
(* counter is not ahead of the camera's own ticks.                         *)
Owned(c, n) == n <= waited[c] \/ waited[c] > TimeoutTicks

OwnCounter ==
  \A c \in Cameras :
    hand[c] # "none" /\ ~crowded[c] =>
      /\ \A d \in Cameras \ {c} : hand[d] = "none"
      /\ Owned(c, timeout)
      /\ pc[c] = "count" => Owned(c, reg[c])

SCInv == TypeOK /\ Working /\ CounterHeld /\ OwnCounter /\ ShortenedByNeighbour

LEMMA PlusOneType == \A n \in Nat : PlusOne(n) \in Nat /\ PlusOne(n) <= n + 1
  BY Limits DEF PlusOne

(* The type invariant is kept, and the two facts about where a callback    *)
(* stands with it.                                                         *)
LEMMA TypeStep == TypeOK /\ Working /\ [Next]_scVars => TypeOK' /\ Working'
<1> SUFFICES ASSUME TypeOK, Working, [Next]_scVars PROVE TypeOK' /\ Working'
  OBVIOUS
<1> USE DEF TypeOK, Steps, Working, Goto
<1>1. CASE UNCHANGED scVars
  BY <1>1 DEF scVars
<1>2. ASSUME NEW c \in Cameras, processVideo(c) PROVE TypeOK' /\ Working'
  <2>1. CASE TickLook(c)
    BY <2>1 DEF TickLook
  <2>2. CASE TickCount(c)
    BY <2>2, PlusOneType DEF TickCount
  <2>3. CASE TickRelease(c)
    BY <2>3 DEF TickRelease
  <2>4. CASE TickReset(c)
    BY <2>4 DEF TickReset
  <2>5. CASE TickGetState(c)
    BY <2>5 DEF TickGetState
  <2>6. CASE RetrieveFrame(c)
    <3>1. crowded' \in [Cameras -> BOOLEAN]
      BY <2>6, Zenon DEF RetrieveFrame
    <3>2. waiting[c] > 0 /\ waiting' = [waiting EXCEPT ![c] = @ - 1]
      BY <2>6 DEF RetrieveFrame
    <3>3. waiting' \in [Cameras -> Nat]
      BY <3>2
    <3>4. pc' \in [Cameras -> Steps] /\ hand' \in [Cameras -> {"none", "sending", "sent"}]
      BY <2>6 DEF RetrieveFrame
    <3>5. waited' \in [Cameras -> Nat] /\ reg' \in [Cameras -> Nat] /\ timeout' \in Nat
      <4>1. reg' = reg /\ timeout' = timeout
        BY <2>6 DEF RetrieveFrame
      <4>2. waited' = waited \/ waited' = [waited EXCEPT ![c] = 0]
        BY <2>6 DEF RetrieveFrame
      <4> QED
        BY <4>1, <4>2
    <3>6. Working'
      BY <2>6 DEF RetrieveFrame
    <3> QED
      BY <3>1, <3>3, <3>4, <3>5, <3>6
  <2>7. CASE TickIso(c)
    BY <2>7 DEF TickIso
  <2> QED
    BY <1>2, <2>1, <2>2, <2>3, <2>4, <2>5, <2>6, <2>7 DEF processVideo
<1>3. ASSUME NEW c \in Cameras, Around(c) PROVE TypeOK' /\ Working'
  <2>1. CASE Sent(c)
    BY <2>1 DEF Sent
  <2>2. CASE Push(c)
    BY <2>2 DEF Push
  <2>3. CASE CancelPush(c)
    BY <2>3 DEF CancelPush
  <2>4. CASE Arrive(c)
    BY <2>4 DEF Arrive
  <2>5. CASE Leave(c)
    BY <2>5 DEF Leave
  <2> QED
    BY <1>3, <2>1, <2>2, <2>3, <2>4, <2>5 DEF Around
<1> QED
  BY <1>1, <1>2, <1>3 DEF Next

(* Who makes the counter nonzero has a frame in hand, and keeps it until   *)
(* it has reset the counter.                                               *)
LEMMA HeldStep == TypeOK /\ Working /\ CounterHeld /\ [Next]_scVars => CounterHeld'
<1> SUFFICES ASSUME TypeOK, Working, CounterHeld, [Next]_scVars PROVE CounterHeld'
  OBVIOUS
<1> USE DEF TypeOK, Steps, Working, CounterHeld, Busy, Goto
<1>1. CASE UNCHANGED scVars
  BY <1>1 DEF scVars
<1>2. ASSUME NEW c \in Cameras, processVideo(c) PROVE CounterHeld'
  <2>1. CASE TickLook(c)
    BY <2>1 DEF TickLook
  <2>2. CASE TickCount(c)
    BY <2>2 DEF TickCount
  <2>3. CASE TickRelease(c)
    BY <2>3 DEF TickRelease
  <2>4. CASE TickReset(c)
    BY <2>4 DEF TickReset
  <2>5. CASE TickGetState(c)
    BY <2>5 DEF TickGetState
  <2>6. CASE RetrieveFrame(c)
    BY <2>6 DEF RetrieveFrame
  <2>7. CASE TickIso(c)
    BY <2>7 DEF TickIso
  <2> QED
    BY <1>2, <2>1, <2>2, <2>3, <2>4, <2>5, <2>6, <2>7 DEF processVideo
<1>3. ASSUME NEW c \in Cameras, Around(c) PROVE CounterHeld'
  <2>1. CASE Sent(c)
    BY <2>1 DEF Sent
  <2>2. CASE Push(c)
    BY <2>2 DEF Push
  <2>3. CASE CancelPush(c)
    BY <2>3 DEF CancelPush
  <2>4. CASE Arrive(c)
    BY <2>4 DEF Arrive
  <2>5. CASE Leave(c)
    BY <2>5 DEF Leave
  <2> QED
    BY <1>3, <2>1, <2>2, <2>3, <2>4, <2>5 DEF Around
<1> QED
  BY <1>1, <1>2, <1>3 DEF Next

(* A frame that is taken while no other camera is busy finds the counter   *)
(* at 0.                                                                   *)
LEMMA FreshWhenAlone ==
  ASSUME TypeOK, Working, CounterHeld, NEW c \in Cameras, pc[c] = "retrieve",
         \A d \in Cameras \ {c} : ~Busy(d)
  PROVE  timeout = 0
BY DEF TypeOK, Working, CounterHeld, Busy

(* Nobody else has a frame in hand while a camera is not crowded, so that  *)
(* nobody else counts.                                                     *)
LEMMA OwnStep ==
  TypeOK /\ Working /\ CounterHeld /\ OwnCounter /\ [Next]_scVars => OwnCounter'
<1> SUFFICES ASSUME TypeOK, Working, CounterHeld, OwnCounter, [Next]_scVars
             PROVE  OwnCounter'
  OBVIOUS
<1> USE DEF TypeOK, Steps, Working, OwnCounter, Owned, Goto
<1>1. CASE UNCHANGED scVars
  BY <1>1 DEF scVars
<1>2. ASSUME NEW c \in Cameras, processVideo(c) PROVE OwnCounter'
  <2>1. CASE TickLook(c)
    BY <2>1 DEF TickLook
  <2>2. CASE TickCount(c)
    BY <2>2, PlusOneType, Limits DEF TickCount
  <2>3. CASE TickRelease(c)
    BY <2>3 DEF TickRelease
  <2>4. CASE TickReset(c)
    BY <2>4 DEF TickReset
  <2>5. CASE TickGetState(c)
    BY <2>5 DEF TickGetState
  <2>6. CASE RetrieveFrame(c)
    <3>1. CASE Discards
      BY <2>6, <3>1 DEF RetrieveFrame
    <3>2. CASE ~Discards
      <4>1. ASSUME NEW e \in Cameras, hand'[e] # "none", ~crowded'[e], e # c
            PROVE  FALSE
        <5>1. hand' = [hand EXCEPT ![c] = "sending"]
          BY <2>6, <3>2 DEF RetrieveFrame
        <5>2. hand'[e] = hand[e]
          BY <5>1, <4>1
        <5>3. crowded' = [d \in Cameras |-> IF d = c THEN \E b \in Cameras \ {c} : Busy(b)
                                            ELSE crowded[d] \/ hand[d] # "none"]
          BY <2>6, <3>2, Zenon DEF RetrieveFrame
        <5>4. crowded'[e] = (crowded[e] \/ hand[e] # "none")
          BY <5>3, <4>1, Zenon
        <5> QED
          BY <4>1, <5>2, <5>4, Zenon
      <4>2. ASSUME ~crowded'[c] PROVE \A d \in Cameras \ {c} : ~Busy(d)
        BY <2>6, <3>2, <4>2, Zenon DEF RetrieveFrame
      <4>3. ASSUME ~crowded'[c] PROVE timeout = 0
        BY <2>6, <4>2, <4>3, FreshWhenAlone DEF RetrieveFrame
      <4>4. ASSUME ~crowded'[c]
            PROVE  /\ \A d \in Cameras \ {c} : hand'[d] = "none"
                   /\ timeout' = 0 /\ waited'[c] = 0 /\ pc'[c] = "iso"
        <5>1. /\ hand' = [hand EXCEPT ![c] = "sending"] /\ UNCHANGED timeout
              /\ pc' = [pc EXCEPT ![c] = "iso"] /\ waited' = [waited EXCEPT ![c] = 0]
          BY <2>6, <3>2 DEF RetrieveFrame
        <5>2. \A d \in Cameras \ {c} : ~Busy(d)
          BY <4>2, <4>4
        <5>3. timeout = 0
          BY <4>3, <4>4
        <5> QED
          BY <5>1, <5>2, <5>3 DEF Busy
      <4> QED
        BY <4>1, <4>4
    <3> QED
      BY <3>1, <3>2
  <2>7. CASE TickIso(c)
    BY <2>7 DEF TickIso
  <2> QED
    BY <1>2, <2>1, <2>2, <2>3, <2>4, <2>5, <2>6, <2>7 DEF processVideo
<1>3. ASSUME NEW c \in Cameras, Around(c) PROVE OwnCounter'
  <2>1. CASE Sent(c)
    BY <2>1 DEF Sent
  <2>2. CASE Push(c)
    BY <2>2 DEF Push
  <2>3. CASE CancelPush(c)
    BY <2>3 DEF CancelPush
  <2>4. CASE Arrive(c)
    BY <2>4 DEF Arrive
  <2>5. CASE Leave(c)
    BY <2>5 DEF Leave
  <2> QED
    BY <1>3, <2>1, <2>2, <2>3, <2>4, <2>5 DEF Around
<1> QED
  BY <1>1, <1>2, <1>3 DEF Next

(* A tick that gives a frame up has counted past the limit, and with it    *)
(* the ticks of its own camera unless the camera is crowded.               *)
LEMMA ShortenedStep == SCInv /\ [Next]_scVars => ShortenedByNeighbour'
<1> SUFFICES ASSUME SCInv, [Next]_scVars PROVE ShortenedByNeighbour'
  OBVIOUS
<1> USE DEF SCInv, TypeOK, Steps, Working, ShortenedByNeighbour, Goto
<1>1. CASE UNCHANGED scVars
  BY <1>1 DEF scVars
<1>2. ASSUME NEW c \in Cameras, processVideo(c) PROVE ShortenedByNeighbour'
  <2>1. CASE TickLook(c)
    BY <2>1 DEF TickLook
  <2>2. CASE TickCount(c)
    <3>1. ASSUME pc'[c] = "due", ~crowded[c] PROVE waited'[c] > TimeoutTicks
      BY <2>2, <3>1, PlusOneType, Limits DEF TickCount, OwnCounter, Owned
    <3> QED
      BY <2>2, <3>1 DEF TickCount
  <2>3. CASE TickRelease(c)
    BY <2>3 DEF TickRelease
  <2>4. CASE TickReset(c)
    BY <2>4 DEF TickReset
  <2>5. CASE TickGetState(c)
    BY <2>5 DEF TickGetState
  <2>6. CASE RetrieveFrame(c)
    <3>1. ASSUME NEW e \in Cameras, e # c, crowded[e], hand[e] # "none" PROVE crowded'[e]
      BY <2>6, <3>1, Zenon DEF RetrieveFrame
    <3> QED
      BY <2>6, <3>1 DEF RetrieveFrame
  <2>7. CASE TickIso(c)
    BY <2>7 DEF TickIso
  <2> QED
    BY <1>2, <2>1, <2>2, <2>3, <2>4, <2>5, <2>6, <2>7 DEF processVideo
<1>3. ASSUME NEW c \in Cameras, Around(c) PROVE ShortenedByNeighbour'
  <2>1. CASE Sent(c)
    BY <2>1 DEF Sent
  <2>2. CASE Push(c)
    BY <2>2 DEF Push
  <2>3. CASE CancelPush(c)
    BY <2>3 DEF CancelPush
  <2>4. CASE Arrive(c)
    BY <2>4 DEF Arrive
  <2>5. CASE Leave(c)
    BY <2>5 DEF Leave
  <2> QED
    BY <1>3, <2>1, <2>2, <2>3, <2>4, <2>5 DEF Around
<1> QED
  BY <1>1, <1>2, <1>3 DEF Next

(* The invariant of the cameras of one driver.                             *)
THEOREM SharedInvariant == Spec => []SCInv
<1>1. Init => SCInv
  BY DEF Init, SCInv, TypeOK, Steps, Working, CounterHeld, OwnCounter, ShortenedByNeighbour
<1>2. SCInv /\ [Next]_scVars => SCInv'
  BY TypeStep, HeldStep, OwnStep, ShortenedStep DEF SCInv
<1> QED
  BY <1>1, <1>2, PTL DEF Spec

(* The state of the cameras keeps its type: what a callback carries from   *)
(* one access of the counter to the next is a value the counter can have.  *)
THEOREM Typed == Spec => []TypeOK
<1>1. SCInv => TypeOK
  BY DEF SCInv
<1> QED
  BY <1>1, SharedInvariant, PTL

(* CounterHeld for any number of cameras: once every frame is back the     *)
(* static counter of processVideo is 0 again, whatever updates were lost.  *)
THEOREM CounterIsHeld == Spec => []CounterHeld
<1>1. SCInv => CounterHeld
  BY DEF SCInv
<1> QED
  BY <1>1, SharedInvariant, PTL

(* DiscardNeedsNeighbour: the discard of processVideo (io.cpp 1111) cannot *)
(* happen to the only camera of a driver.                                  *)
THEOREM DiscardIsANeighbours == Spec => []DiscardNeedsNeighbour
<1>1. SCInv => DiscardNeedsNeighbour
  <2> SUFFICES ASSUME SCInv, NEW c \in Cameras, pc[c] = "retrieve", Discards
               PROVE  \E d \in Cameras \ {c} : Busy(d)
    BY DEF DiscardNeedsNeighbour
  <2>1. timeout # 0
    BY Limits DEF Discards, SCInv, TypeOK
  <2> QED
    BY <2>1, FreshWhenAlone DEF SCInv
<1> QED
  BY <1>1, SharedInvariant, PTL

(* ShortenedByNeighbour: a camera that nobody crowds gives a frame up only *)
(* after more than TimeoutTicks of its own ticks.                          *)
THEOREM TimeoutIsOwn == Spec => []ShortenedByNeighbour
<1>1. SCInv => ShortenedByNeighbour
  BY DEF SCInv
<1> QED
  BY <1>1, SharedInvariant, PTL
=============================================================================
