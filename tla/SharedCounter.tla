---------------------------- MODULE SharedCounter ----------------------------
(***************************************************************************)
(* Several cameras in one driver.  DeviceAdd looks for a free name, so     *)
(* that the driver can serve several controllers; each has its own timer,  *)
(* context and queues, but "static int timeout" of processVideo is one     *)
(* variable for all of them, counted and reset without a lock.             *)
(*                                                                         *)
(* VideoStream models one camera in detail.  Here a camera is what matters *)
(* to the counter: how many frames wait, what became of the one in hand,   *)
(* and where its timer callback is between two accesses of the counter.    *)
(* Buffers are long enough, and no frame is cancelled in the window of     *)
(* VideoStream; what those do is shown there.                              *)
(***************************************************************************)
EXTENDS Integers

CONSTANTS
  Cameras,
  MaxFrames,    \* bound on the frames that wait at a camera
  TimeoutTicks, \* 3000 in processVideo
  DiscardTicks, \* 30 in processVideo
  CounterTop    \* where the model stops counting; the code only compares

ASSUME Limits ==
  /\ TimeoutTicks \in Nat /\ DiscardTicks \in Nat /\ MaxFrames \in Nat
  /\ CounterTop \in Nat /\ CounterTop > TimeoutTicks /\ CounterTop > DiscardTicks

VARIABLES
  timeout,  \* the static counter
  pc,       \* per camera: where its timer callback is; "armed" between ticks
  reg,      \* the counter as the callback read it
  waiting,  \* frames in VideoQueue
  hand,     \* the frame in hand: "none", "sending", "sent"
  waited,   \* observer: ticks the frame in hand was waited for, capped
  crowded   \* observer: another camera had a frame in hand meanwhile

scVars == <<timeout, pc, reg, waiting, hand, waited, crowded>>

(* "++timeout" of the value read.  The code compares the counter with its  *)
(* two limits and does nothing else with it, so that counting may stop     *)
(* above both.                                                             *)
PlusOne(n) == IF n < CounterTop THEN n + 1 ELSE n

Goto(c, step) == pc' = [pc EXCEPT ![c] = step]

(* The camera has a frame in hand, or has still to reset the counter for   *)
(* the one it had.                                                         *)
Busy(c) == hand[c] # "none" \/ pc[c] = "reset"

------------------------------------------------------------------------------
(* EvtIsochTimer of one camera: processVideo                               *)

(* Mutant: the counter is evaluated first.                                 *)
TickLookCountsAlways(c) ==
  /\ pc[c] = "armed"
  /\ Goto(c, "count") /\ reg' = [reg EXCEPT ![c] = timeout]
  /\ UNCHANGED <<timeout, waiting, hand, waited, crowded>>

(* Only a frame with bytes left reaches "++timeout".                       *)
TickLook(c) ==
  /\ pc[c] = "armed"
  /\ \/ hand[c] = "sending" /\ Goto(c, "count") /\ reg' = [reg EXCEPT ![c] = timeout]
     \/ hand[c] # "sending" /\ Goto(c, "due") /\ UNCHANGED reg
  /\ UNCHANGED <<timeout, waiting, hand, waited, crowded>>

(* Mutant: nothing is counted.                                             *)
TickCountNothing(c) ==
  /\ pc[c] = "count"
  /\ Goto(c, "iso")
  /\ UNCHANGED <<timeout, reg, waiting, hand, waited, crowded>>

(* Mutant: one tick early.                                                 *)
TickCountEarly(c) ==
  /\ pc[c] = "count"
  /\ timeout' = PlusOne(reg[c])
  /\ Goto(c, IF PlusOne(reg[c]) >= TimeoutTicks THEN "due" ELSE "iso")
  /\ waited' = [waited EXCEPT ![c] = IF @ > TimeoutTicks THEN @ ELSE @ + 1]
  /\ UNCHANGED <<reg, waiting, hand, crowded>>

TickCount(c) ==
  /\ pc[c] = "count"
  /\ timeout' = PlusOne(reg[c])
  /\ Goto(c, IF PlusOne(reg[c]) > TimeoutTicks THEN "due" ELSE "iso")
  /\ waited' = [waited EXCEPT ![c] = IF @ > TimeoutTicks THEN @ ELSE @ + 1]
  /\ UNCHANGED <<reg, waiting, hand, crowded>>

(* The frame in hand is given back ...                                     *)
TickRelease(c) ==
  /\ pc[c] = "due" /\ hand[c] # "none"
  /\ hand' = [hand EXCEPT ![c] = "none"]
  /\ Goto(c, "reset")
  /\ UNCHANGED <<timeout, reg, waiting, waited, crowded>>

(* Mutant: the counter is not reset.                                       *)
TickResetNothing(c) ==
  /\ pc[c] = "reset"
  /\ Goto(c, "armed")
  /\ UNCHANGED <<timeout, reg, waiting, hand, waited, crowded>>

(* ... and the counter reset.                                              *)
TickReset(c) ==
  /\ pc[c] = "reset"
  /\ timeout' = 0
  /\ Goto(c, "armed")
  /\ UNCHANGED <<reg, waiting, hand, waited, crowded>>

(* Mutant: an empty queue is asked for a frame as well.                    *)
TickGetStateNever(c) ==
  /\ pc[c] = "due" /\ hand[c] = "none"
  /\ Goto(c, "retrieve")
  /\ UNCHANGED <<timeout, reg, waiting, hand, waited, crowded>>

(* The queue is looked at first: a tick without frames goes on.            *)
TickGetState(c) ==
  /\ pc[c] = "due" /\ hand[c] = "none"
  /\ Goto(c, IF waiting[c] = 0 THEN "iso" ELSE "retrieve")
  /\ UNCHANGED <<timeout, reg, waiting, hand, waited, crowded>>

Discards == timeout > DiscardTicks

(* The next frame is taken; with a counter over its limit it is completed  *)
(* at once, unsent, and the counter is reset.                              *)
RetrieveFrame(c) ==
  /\ pc[c] = "retrieve"
  /\ waiting' = [waiting EXCEPT ![c] = @ - 1]
  /\ \/ Discards /\ Goto(c, "reset") /\ UNCHANGED <<hand, waited, crowded>>
     \/ /\ ~Discards /\ Goto(c, "iso")
        /\ hand' = [hand EXCEPT ![c] = "sending"]
        /\ waited' = [waited EXCEPT ![c] = 0]
        /\ crowded' = [d \in Cameras |-> IF d = c THEN \E e \in Cameras \ {c} : Busy(e)
                                         ELSE crowded[d] \/ hand[d] # "none"]
  /\ UNCHANGED <<timeout, reg>>

(* An URB is taken, or none; the timer is started again.                   *)
TickIso(c) ==
  /\ pc[c] = "iso"
  /\ Goto(c, "armed")
  /\ UNCHANGED <<timeout, reg, waiting, hand, waited, crowded>>

------------------------------------------------------------------------------
(* Around the timer                                                        *)

(* The DPC has sent the last byte of the frame in hand.  A host that takes *)
(* no URBs never lets it.                                                  *)
Sent(c) ==
  /\ hand[c] = "sending"
  /\ hand' = [hand EXCEPT ![c] = "sent"]
  /\ UNCHANGED <<timeout, pc, reg, waiting, waited, crowded>>

Push(c) ==
  /\ pc[c] # "absent" /\ waiting[c] < MaxFrames
  /\ waiting' = [waiting EXCEPT ![c] = @ + 1]
  /\ UNCHANGED <<timeout, pc, reg, hand, waited, crowded>>

CancelPush(c) ==
  /\ waiting[c] > 0 /\ pc[c] # "retrieve"
  /\ waiting' = [waiting EXCEPT ![c] = @ - 1]
  /\ UNCHANGED <<timeout, pc, reg, hand, waited, crowded>>

(* A camera is added; the removal of one waits for its frames.             *)
Arrive(c) ==
  /\ pc[c] = "absent"
  /\ Goto(c, "armed")
  /\ UNCHANGED <<timeout, reg, waiting, hand, waited, crowded>>

Leave(c) ==
  /\ pc[c] = "armed" /\ waiting[c] = 0 /\ hand[c] = "none"
  /\ Goto(c, "absent")
  /\ UNCHANGED <<timeout, reg, waiting, hand, waited, crowded>>

------------------------------------------------------------------------------
Init ==
  /\ timeout = 0
  /\ pc = [c \in Cameras |-> "absent"]
  /\ reg = [c \in Cameras |-> 0]
  /\ waiting = [c \in Cameras |-> 0]
  /\ hand = [c \in Cameras |-> "none"]
  /\ waited = [c \in Cameras |-> 0]
  /\ crowded = [c \in Cameras |-> FALSE]

processVideo(c) ==
  \/ TickLook(c) \/ TickCount(c) \/ TickRelease(c) \/ TickReset(c)
  \/ TickGetState(c) \/ RetrieveFrame(c) \/ TickIso(c)

Around(c) == Sent(c) \/ Push(c) \/ CancelPush(c) \/ Arrive(c) \/ Leave(c)

Next == \E c \in Cameras : processVideo(c) \/ Around(c)

Spec == Init /\ [][Next]_scVars

(* The timer of every camera is started again at the end of each tick.     *)
FairSpec == Spec /\ \A c \in Cameras : WF_scVars(processVideo(c))

------------------------------------------------------------------------------
(* Properties                                                              *)

Steps == {"absent", "armed", "count", "due", "reset", "retrieve", "iso"}

(* The type of the state.                                                  *)
TypeOK ==
  /\ timeout \in Nat
  /\ pc \in [Cameras -> Steps]
  /\ reg \in [Cameras -> Nat] /\ waiting \in [Cameras -> Nat]
  /\ hand \in [Cameras -> {"none", "sending", "sent"}]
  /\ waited \in [Cameras -> Nat] /\ crowded \in [Cameras -> BOOLEAN]

(* The counter is 0 unless some camera has a frame in hand: neither a      *)
(* removed camera nor a lost update leaves anything behind.                *)
CounterHeld == timeout # 0 => \E c \in Cameras : Busy(c)

(* A frame is discarded unsent only on account of another camera, which    *)
(* has a frame in hand that its host does not take; a camera alone never   *)
(* discards one.                                                           *)
DiscardNeedsNeighbour ==
  \A c \in Cameras :
    pc[c] = "retrieve" /\ Discards => \E d \in Cameras \ {c} : Busy(d)

(* A frame is given up before more than TimeoutTicks ticks of its own      *)
(* camera only if another camera counted as well.                          *)
ShortenedByNeighbour ==
  \A c \in Cameras :
    pc[c] = "due" /\ hand[c] = "sending" => waited[c] > TimeoutTicks \/ crowded[c]

(* A frame comes back, unless other cameras reset the counter for ever:    *)
(* updates that get lost can delay it but not prevent it.                  *)
StarvedByNeighbour ==
  \A c \in Cameras :
    \/ []<>(hand[c] = "none")
    \/ []<>(\E d \in Cameras \ {c} : pc[d] = "reset")
=============================================================================
