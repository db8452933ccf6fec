----------------------------- MODULE CommandList -----------------------------
(***************************************************************************)
(* The list of camera commands, pointer by pointer.                        *)
(*                                                                         *)
(* ptzNotifyApp (one control transfer at a time) inserts at the head of    *)
(* ptzListHdr; IOCTL_GET_UVC_CMD (the default queue is parallel, so that   *)
(* several can run) removes at the tail.  There is no lock: one action is  *)
(* one access window of the list functions of the kernel, which stop the   *)
(* system when they find neighbours that do not point at each other.       *)
(*                                                                         *)
(* "faults" remembers how the accesses overlapped.  CameraControl models   *)
(* the same list as a queue: IsAQueue says when that is right.             *)
(***************************************************************************)
EXTENDS Integers, Sequences, FiniteSets

CONSTANTS
  Items,      \* pool blocks, reused after they are freed
  Readers,    \* threads of the application
  MaxInserts, \* bound on the commands of a behaviour
  Hdr, NULL

ASSUME Distinct == Hdr \notin Items /\ NULL \notin Items \cup {Hdr}
ASSUME Bound == MaxInserts \in Nat /\ IsFiniteSet(Items)

VARIABLES
  flink, blink, \* the links of the header and the blocks
  ctrl,         \* the command in a block: its number in the order of notification
  live,         \* the blocks that are allocated
  writer,       \* where ptzNotifyApp is, its block, NextEntry
  reader,       \* where each IOCTL_GET_UVC_CMD is, Entry, PrevEntry
  written,      \* commands notified so far
  taken,        \* observer: the commands handed out, in this order
  refusals,     \* observer: parity of the answers "no more matches"
  bugcheck, faults

links  == <<flink, blink>>
clVars == <<links, ctrl, live, writer, reader, written, taken, refusals, bugcheck, faults>>

Nodes == Items \cup {Hdr}

NoWrite == [pc |-> "idle", item |-> NULL, next |-> NULL]
NoRead  == [pc |-> "idle", entry |-> NULL, prev |-> NULL]

Running == bugcheck = "none"

Valid(e) == e \in live \cup {Hdr}

(* The reader is inside RemoveTailList and has a block in hand.            *)
Removing(r) == reader[r].pc \in {"prev", "unlink", "close"}

Stop(why) ==
  bugcheck' = why /\ UNCHANGED <<links, ctrl, live, writer, reader, written, taken, refusals>>

------------------------------------------------------------------------------
(* ptzNotifyApp                                                            *)

(* Mutant: the result of ExAllocatePool is not tested.                     *)
InsertUnchecked(e) ==
  /\ Running /\ writer.pc = "idle" /\ written < MaxInserts
  /\ writer' = [pc |-> "link", item |-> NULL, next |-> flink[Hdr]]
  /\ live' = live \cup {NULL}
  /\ written' = written + 1
  /\ UNCHANGED <<links, ctrl, reader, taken, refusals, bugcheck, faults>>

(* InsertHeadList reads the first entry and checks its back link.  The     *)
(* writer is to insert before the very block a reader is removing.         *)
InsertRead(e) ==
  /\ Running /\ writer.pc = "idle" /\ e \notin live /\ written < MaxInserts
  /\ LET next == flink[Hdr]
     IN  /\ faults' = IF \E r \in Readers : Removing(r) /\ reader[r].entry = next
                      THEN faults \cup {"last_entry"} ELSE faults
         /\ \/ /\ ~Valid(next) /\ Stop("freed_memory")
            \/ /\ Valid(next) /\ blink[next] # Hdr /\ Stop("corrupt_list")
            \/ /\ Valid(next) /\ blink[next] = Hdr
               /\ writer' = [pc |-> "link", item |-> e, next |-> next]
               /\ live' = live \cup {e}
               /\ ctrl' = [ctrl EXCEPT ![e] = written + 1]
               /\ written' = written + 1
               /\ UNCHANGED <<links, reader, taken, refusals, bugcheck>>

(* It links the block to its neighbours, and the first entry back to it ...*)
InsertLink ==
  /\ Running /\ writer.pc = "link"
  /\ \/ ~Valid(writer.next) /\ Stop("freed_memory")
     \/ /\ Valid(writer.next)
        /\ flink' = [flink EXCEPT ![writer.item] = writer.next]
        /\ blink' = [blink EXCEPT ![writer.item] = Hdr, ![writer.next] = writer.item]
        /\ writer' = [writer EXCEPT !.pc = "publish"]
        /\ UNCHANGED <<ctrl, live, reader, written, taken, refusals, bugcheck>>
  /\ UNCHANGED faults

(* ... and makes it the first one.                                         *)
InsertPublish ==
  /\ Running /\ writer.pc = "publish"
  /\ flink' = [flink EXCEPT ![Hdr] = writer.item]
  /\ writer' = NoWrite
  /\ UNCHANGED <<blink, ctrl, live, reader, written, taken, refusals, bugcheck, faults>>

------------------------------------------------------------------------------
(* IOCTL_GET_UVC_CMD                                                       *)

(* Mutant: the list is tested at its other end.                            *)
ReadEmptyTail(r) ==
  /\ Running /\ reader[r].pc = "idle" /\ blink[Hdr] = Hdr
  /\ refusals' = 1 - refusals
  /\ UNCHANGED <<links, ctrl, live, writer, reader, written, taken, bugcheck, faults>>

(* IsListEmpty says that there is none: STATUS_NO_MORE_MATCHES.            *)
ReadEmpty(r) ==
  /\ Running /\ reader[r].pc = "idle" /\ flink[Hdr] = Hdr
  /\ refusals' = 1 - refusals
  /\ UNCHANGED <<links, ctrl, live, writer, reader, written, taken, bugcheck, faults>>

(* Mutant: the list is not tested.                                         *)
ReadAnyway(r) ==
  /\ Running /\ reader[r].pc = "idle"
  /\ reader' = [reader EXCEPT ![r].pc = "tail"]
  /\ faults' = IF \E q \in Readers \ {r} : reader[q].pc # "idle"
               THEN faults \cup {"two_readers"} ELSE faults
  /\ UNCHANGED <<links, ctrl, live, writer, written, taken, refusals, bugcheck>>

(* IsListEmpty says that there is a command, and the buffer fits it.       *)
ReadCheck(r) ==
  /\ Running /\ reader[r].pc = "idle" /\ flink[Hdr] # Hdr
  /\ reader' = [reader EXCEPT ![r].pc = "tail"]
  /\ faults' = IF \E q \in Readers \ {r} : reader[q].pc # "idle"
               THEN faults \cup {"two_readers"} ELSE faults
  /\ UNCHANGED <<links, ctrl, live, writer, written, taken, refusals, bugcheck>>

(* There is one, but the buffer of the request has not the size of a       *)
(* command: STATUS_INVALID_PARAMETER, and the list keeps it.               *)
ReadRefused(r) ==
  /\ Running /\ reader[r].pc = "idle" /\ flink[Hdr] # Hdr
  /\ UNCHANGED clVars

(* RemoveTailList reads the last entry ...                                 *)
ReadTail(r) ==
  /\ Running /\ reader[r].pc = "tail"
  /\ reader' = [reader EXCEPT ![r].pc = "prev", ![r].entry = blink[Hdr]]
  /\ faults' = IF writer.pc # "idle" /\ writer.next = blink[Hdr]
               THEN faults \cup {"last_entry"} ELSE faults
  /\ UNCHANGED <<links, ctrl, live, writer, written, taken, refusals, bugcheck>>

(* ... and the one before, and checks both links ...                       *)
ReadPrev(r) ==
  /\ Running /\ reader[r].pc = "prev"
  /\ LET entry == reader[r].entry
         prev  == blink[entry]
     IN  \/ ~(Valid(entry) /\ Valid(prev)) /\ Stop("freed_memory")
         \/ /\ Valid(entry) /\ Valid(prev)
            /\ \/ /\ flink[entry] # Hdr \/ flink[prev] # entry
                  /\ Stop("corrupt_list")
               \/ /\ flink[entry] = Hdr /\ flink[prev] = entry
                  /\ reader' = [reader EXCEPT ![r].pc = "unlink", ![r].prev = prev]
                  /\ UNCHANGED <<links, ctrl, live, writer, written, taken, refusals, bugcheck>>
  /\ UNCHANGED faults

(* Mutant: the entry is unlinked in one direction only.                    *)
ReadUnlinkHalf(r) ==
  /\ Running /\ reader[r].pc = "unlink"
  /\ blink' = [blink EXCEPT ![Hdr] = reader[r].prev]
  /\ reader' = [reader EXCEPT ![r].pc = "copy"]
  /\ UNCHANGED <<flink, ctrl, live, writer, written, taken, refusals, bugcheck, faults>>

(* ... and unlinks the entry in two stores.                                *)
ReadUnlink(r) ==
  /\ Running /\ reader[r].pc = "unlink"
  /\ blink' = [blink EXCEPT ![Hdr] = reader[r].prev]
  /\ reader' = [reader EXCEPT ![r].pc = "close"]
  /\ UNCHANGED <<flink, ctrl, live, writer, written, taken, refusals, bugcheck, faults>>

(* Mutant: the block is freed before the command is copied out of it.      *)
ReadCloseFrees(r) ==
  /\ Running /\ reader[r].pc = "close"
  /\ flink' = [flink EXCEPT ![reader[r].prev] = Hdr]
  /\ live' = live \ {reader[r].entry}
  /\ reader' = [reader EXCEPT ![r].pc = "copy"]
  /\ UNCHANGED <<blink, ctrl, writer, written, taken, refusals, bugcheck, faults>>

ReadClose(r) ==
  /\ Running /\ reader[r].pc = "close"
  /\ \/ ~Valid(reader[r].prev) /\ Stop("freed_memory")
     \/ /\ Valid(reader[r].prev)
        /\ flink' = [flink EXCEPT ![reader[r].prev] = Hdr]
        /\ reader' = [reader EXCEPT ![r].pc = "copy"]
        /\ UNCHANGED <<blink, ctrl, live, writer, written, taken, refusals, bugcheck>>
  /\ UNCHANGED faults

(* The command is copied out and the request completed.  RemoveTailList of *)
(* an empty list returned the header, which lies in the device context.    *)
ReadCopy(r) ==
  /\ Running /\ reader[r].pc = "copy"
  /\ \/ reader[r].entry \notin live \cup {Hdr} /\ Stop("freed_memory")
     \/ /\ Valid(reader[r].entry)
        /\ taken' = Append(taken, ctrl[reader[r].entry])
        /\ reader' = [reader EXCEPT ![r].pc = "free"]
        /\ UNCHANGED <<links, ctrl, live, writer, written, refusals, bugcheck>>
  /\ UNCHANGED faults

(* ExFreePool.                                                             *)
ReadFree(r) ==
  /\ Running /\ reader[r].pc = "free"
  /\ \/ reader[r].entry \notin live /\ Stop("bad_free")
     \/ /\ reader[r].entry \in live
        /\ live' = live \ {reader[r].entry}
        /\ reader' = [reader EXCEPT ![r] = NoRead]
        /\ UNCHANGED <<links, ctrl, writer, written, taken, refusals, bugcheck>>
  /\ UNCHANGED faults

------------------------------------------------------------------------------
(* InitializeListHead in EvtDriverDeviceAdd.                               *)
Init ==
  /\ flink = [e \in Nodes |-> IF e = Hdr THEN Hdr ELSE NULL]
  /\ blink = [e \in Nodes |-> IF e = Hdr THEN Hdr ELSE NULL]
  /\ ctrl = [e \in Nodes |-> 0]
  /\ live = {}
  /\ writer = NoWrite /\ reader = [r \in Readers |-> NoRead]
  /\ written = 0 /\ taken = <<>> /\ refusals = 0
  /\ bugcheck = "none" /\ faults = {}

ptzNotifyApp ==
  \/ \E e \in Items : InsertRead(e)
  \/ InsertLink \/ InsertPublish

GetUvcCmd(r) ==
  \/ ReadEmpty(r) \/ ReadRefused(r) \/ ReadCheck(r) \/ ReadTail(r) \/ ReadPrev(r)
  \/ ReadUnlink(r) \/ ReadClose(r) \/ ReadCopy(r) \/ ReadFree(r)

(* The system has stopped.                                                 *)
Stopped == ~Running /\ UNCHANGED clVars

Next == ptzNotifyApp \/ (\E r \in Readers : GetUvcCmd(r)) \/ Stopped

Spec == Init /\ [][Next]_clVars

------------------------------------------------------------------------------
(* Properties                                                              *)

Bugchecks == {"none", "freed_memory", "corrupt_list", "bad_free"}

Faults == {"last_entry", "two_readers"}

(* The type of the state.                                                  *)
TypeOK ==
  /\ flink \in [Nodes -> Nodes \cup {NULL}] /\ blink \in [Nodes -> Nodes \cup {NULL}]
  /\ ctrl \in [Nodes -> 0 .. MaxInserts] /\ live \subseteq Items
  /\ writer \in [pc : {"idle", "link", "publish"}, item : Items \cup {NULL},
                 next : Nodes \cup {NULL}]
  /\ reader \in [Readers -> [pc : {"idle", "tail", "prev", "unlink", "close",
                                   "copy", "free"},
                             entry : Nodes \cup {NULL}, prev : Nodes \cup {NULL}]]
  /\ written \in 0 .. MaxInserts /\ taken \in Seq(0 .. MaxInserts)
  /\ refusals \in 0 .. 1 /\ bugcheck \in Bugchecks /\ faults \subseteq Faults

(* The list breaks in two ways only: a writer and a reader meet at the     *)
(* last entry, or two threads read at the same time.                       *)
BreaksOnlyByOverlap == bugcheck # "none" => faults # {}

(* With one reader at a time, whatever the writer does, the header itself  *)
(* is never handed out and freed.                                          *)
HeaderNeverFreed ==
  \A r \in Readers :
    reader[r].pc \in {"copy", "free"} /\ "two_readers" \notin faults =>
      reader[r].entry # Hdr

Copying == {r \in Readers : reader[r].pc = "copy"}

(* The commands that were unlinked, and those that were published: they    *)
(* are numbered, so that the list is to hold those in between.             *)
Removed   == Len(taken) + (IF Copying = {} THEN 0 ELSE 1)
Published == IF writer.pc = "idle" THEN written ELSE written - 1

Quiet == writer.pc = "idle" /\ \A r \in Readers : ~Removing(r)

Intact == faults = {}

(* The block of a command; the header is at both ends.                     *)
Node(block, k) == IF k \in DOMAIN block THEN block[k] ELSE Hdr

(* Without such an overlap the list holds exactly the commands that were   *)
(* notified and not removed.  It can be walked from the newest to the      *)
(* oldest at every moment, and back when nobody is inside a list function. *)
ListIntact ==
  Intact =>
    \E block \in [Removed + 1 .. Published -> live] :
      /\ \A k \in DOMAIN block : ctrl[block[k]] = k
      /\ \A k \in Removed .. Published : flink[Node(block, k + 1)] = Node(block, k)
      /\ Quiet =>
           \A k \in Removed .. Published : blink[Node(block, k)] = Node(block, k + 1)

(* The commands on their way to the application.                           *)
Fetched ==
  IF Copying = {} THEN taken
  ELSE Append(taken, ctrl[reader[CHOOSE r \in Copying : TRUE].entry])

Abstract ==
  INSTANCE CommandQueue WITH
    Commands <- 1 .. MaxInserts,
    queue    <- IF Intact THEN [i \in 1 .. Published - Removed |-> Removed + i] ELSE <<>>,
    fetched  <- IF Intact THEN Fetched ELSE <<>>,
    refusals <- IF Intact THEN refusals ELSE 0,
    broken   <- ~Intact

(* Without such an overlap the list is a queue: each command is taken      *)
(* once, the oldest first, and "no more matches" is the truth at the       *)
(* moment IsListEmpty is asked, whatever the writer is in the middle of.   *)
IsAQueue == Abstract!Queue
=============================================================================
