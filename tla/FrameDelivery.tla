---------------------------- MODULE FrameDelivery ----------------------------
(***************************************************************************)
(* What the streaming path promises the application, in calm use: frames   *)
(* reach the host one at a time, whole, in the order they were pushed and  *)
(* at most once.  A frame may be dropped (the application withdraws it, or *)
(* no host takes it in time).  A frame that is dropped after its first     *)
(* bytes were sent spoils the next one, because nothing tells the host     *)
(* that it will not be finished: the frame id only flips after an EOF.     *)
(***************************************************************************)
EXTENDS Naturals, Sequences, SequencesExt

CONSTANTS
  Frames,
  Torn,   \* shown for a frame that is not whole; not a frame
  Blank   \* shown before the first frame; not a frame

VARIABLES
  pending,  \* frames accepted and not shown, in order
  sending,  \* some of the first one's bytes were sent
  spoiled,  \* what the host is assembling started with another frame
  picture   \* what the host shows

fdVars == <<pending, sending, spoiled, picture>>

Empty ==
  /\ pending = <<>> /\ sending = FALSE /\ spoiled = FALSE /\ picture = Blank

Accept(f) ==
  /\ pending' = Append(pending, f)
  /\ UNCHANGED <<sending, spoiled, picture>>

Begin ==
  /\ pending # <<>> /\ ~sending
  /\ sending' = TRUE
  /\ UNCHANGED <<pending, spoiled, picture>>

Show ==
  /\ pending # <<>> /\ sending
  /\ picture' = IF spoiled THEN Torn ELSE Head(pending)
  /\ pending' = Tail(pending)
  /\ sending' = FALSE /\ spoiled' = FALSE

(* A frame goes before any of its bytes was sent ...                       *)
Drop(i) ==
  /\ i = 1 => ~sending
  /\ pending' = RemoveAt(pending, i)
  /\ UNCHANGED <<sending, spoiled, picture>>

(* ... or after.                                                           *)
Abandon ==
  /\ pending # <<>> /\ sending
  /\ pending' = Tail(pending)
  /\ sending' = FALSE /\ spoiled' = TRUE
  /\ UNCHANGED picture

(* A new geometry, with no frame around, resets the frame id.              *)
Reformat ==
  /\ pending = <<>> /\ spoiled
  /\ spoiled' = FALSE
  /\ UNCHANGED <<pending, sending, picture>>

Deliver ==
  \/ \E f \in Frames : Accept(f)
  \/ Begin
  \/ Show
  \/ \E i \in DOMAIN pending : Drop(i)
  \/ Abandon
  \/ Reformat

Delivery == Empty /\ [][Deliver]_fdVars
=============================================================================
