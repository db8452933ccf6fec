---------------------------- MODULE CommandQueue ----------------------------
(***************************************************************************)
(* What the list of camera commands promises: ptzNotifyApp adds a command, *)
(* IOCTL_GET_UVC_CMD takes the oldest one or answers that there is none,   *)
(* and there is none then.  The promise ends for good when the list is     *)
(* used in a way it was not written for.                                   *)
(***************************************************************************)
EXTENDS Naturals, Sequences

CONSTANT Commands

VARIABLES
  queue,    \* commands notified and not taken, oldest first
  fetched,  \* commands taken, in this order
  refusals, \* parity of the answers "no more matches"
  broken

cqVars == <<queue, fetched, refusals, broken>>

Empty == queue = <<>> /\ fetched = <<>> /\ refusals = 0 /\ ~broken

Notify(c) ==
  /\ ~broken
  /\ queue' = Append(queue, c)
  /\ UNCHANGED <<fetched, refusals, broken>>

Fetch ==
  /\ ~broken /\ queue # <<>>
  /\ fetched' = Append(fetched, Head(queue)) /\ queue' = Tail(queue)
  /\ UNCHANGED <<refusals, broken>>

Refuse ==
  /\ ~broken /\ queue = <<>>
  /\ refusals' = 1 - refusals
  /\ UNCHANGED <<queue, fetched, broken>>

Break ==
  /\ ~broken /\ broken'
  /\ queue' = <<>> /\ fetched' = <<>> /\ refusals' = 0

Use == (\E c \in Commands : Notify(c)) \/ Fetch \/ Refuse \/ Break

Queue == Empty /\ [][Use]_cqVars
=============================================================================
