-------------------------- MODULE CommandListProofs --------------------------
(* Proofs about the list of camera commands, for any number of blocks, of  *)
(* readers and of commands: what it keeps as long as no two accesses       *)
(* overlap in one of the two ways of "faults", and that it is a queue then.*)
EXTENDS CommandList, SequenceTheorems, TLAPS

------------------------------------------------------------------------------
(* The type of the state                                                   *)

LEMMA InitTyped == Init => TypeOK
BY Distinct, Bound DEF Init, TypeOK, Nodes, NoWrite, NoRead, Bugchecks, Faults

WriterState ==
  [pc : {"idle", "link", "publish"}, item : Items \cup {NULL}, next : Nodes \cup {NULL}]

ReaderState ==
  [pc : {"idle", "tail", "prev", "unlink", "close", "copy", "free"},
   entry : Nodes \cup {NULL}, prev : Nodes \cup {NULL}]

(* TypeOK without the shape of the records.                                *)
Parts ==
  /\ flink \in [Nodes -> Nodes \cup {NULL}] /\ blink \in [Nodes -> Nodes \cup {NULL}]
  /\ ctrl \in [Nodes -> 0 .. MaxInserts] /\ live \subseteq Items
  /\ writer \in WriterState /\ reader \in [Readers -> ReaderState]
  /\ written \in 0 .. MaxInserts /\ taken \in Seq(0 .. MaxInserts)
  /\ refusals \in 0 .. 1 /\ bugcheck \in Bugchecks /\ faults \subseteq Faults

LEMMA TypeParts == (TypeOK <=> Parts) /\ (TypeOK' <=> Parts')
<1>1. TypeOK <=> Parts
  BY DEF TypeOK, Parts, WriterState, ReaderState
<1>2. TypeOK' <=> Parts'
  BY DEF TypeOK, Parts, WriterState, ReaderState
<1> QED
  BY <1>1, <1>2

LEMMA HdrIsNode == Hdr \in Nodes /\ Items \subseteq Nodes /\ NULL \notin Nodes
BY Distinct DEF Nodes

LEMMA InsertTyped ==
  ASSUME TypeOK, ptzNotifyApp
  PROVE  TypeOK'
<1> USE TypeParts, HdrIsNode, Bound DEF Parts
<1>1. CASE \E e \in Items : InsertRead(e)
  <2> PICK e \in Items : InsertRead(e)
    BY <1>1
  <2>1. faults' \subseteq Faults
    BY DEF InsertRead, Faults
  <2>2. CASE Stop("freed_memory") \/ Stop("corrupt_list")
    BY <2>1, <2>2 DEF Stop, links, Bugchecks
  <2>3. CASE Valid(flink[Hdr]) /\ ~(Stop("freed_memory") \/ Stop("corrupt_list"))
    <3>1. /\ writer' = [pc |-> "link", item |-> e, next |-> flink[Hdr]]
          /\ ctrl' = [ctrl EXCEPT ![e] = written + 1]
          /\ live' = live \cup {e} /\ written' = written + 1 /\ written < MaxInserts
          /\ UNCHANGED <<flink, blink, reader, taken, refusals, bugcheck>>
      BY <2>3 DEF InsertRead, links
    <3>2. written + 1 \in 0 .. MaxInserts
      BY <3>1
    <3>3. ctrl' \in [Nodes -> 0 .. MaxInserts]
      BY <3>1, <3>2
    <3>4. writer' \in WriterState
      BY <3>1 DEF WriterState
    <3> QED
      BY <2>1, <3>1, <3>2, <3>3, <3>4
  <2> QED
    BY <2>2, <2>3 DEF InsertRead
<1>2. CASE InsertLink
  <2>1. CASE Stop("freed_memory")
    BY <1>2, <2>1 DEF InsertLink, Stop, links, Bugchecks
  <2>2. CASE ~Stop("freed_memory")
    <3>1. /\ flink' = [flink EXCEPT ![writer.item] = writer.next]
          /\ blink' = [blink EXCEPT ![writer.item] = Hdr, ![writer.next] = writer.item]
          /\ writer' = [writer EXCEPT !.pc = "publish"]
          /\ UNCHANGED <<ctrl, live, reader, written, taken, refusals, bugcheck, faults>>
      BY <1>2, <2>2 DEF InsertLink
    <3>2. writer.item \in Nodes \cup {NULL} /\ writer.next \in Nodes \cup {NULL}
      BY DEF WriterState
    <3>3. flink' \in [Nodes -> Nodes \cup {NULL}] /\ blink' \in [Nodes -> Nodes \cup {NULL}]
      BY <3>1, <3>2
    <3>4. writer' \in WriterState
      BY <3>1 DEF WriterState
    <3> QED
      BY <3>1, <3>3, <3>4
  <2> QED
    BY <2>1, <2>2
<1>3. CASE InsertPublish
  <2>1. /\ flink' = [flink EXCEPT ![Hdr] = writer.item] /\ writer' = NoWrite
        /\ UNCHANGED <<blink, ctrl, live, reader, written, taken, refusals, bugcheck, faults>>
    BY <1>3 DEF InsertPublish
  <2>2. writer.item \in Nodes \cup {NULL} /\ NoWrite \in WriterState
    BY DEF WriterState, NoWrite
  <2> QED
    BY <2>1, <2>2
<1> QED
  BY <1>1, <1>2, <1>3 DEF ptzNotifyApp

LEMMA ReadTyped ==
  ASSUME TypeOK, NEW r \in Readers, GetUvcCmd(r)
  PROVE  TypeOK'
<1> USE TypeParts, HdrIsNode DEF Parts
<1>1. reader[r] \in ReaderState
  OBVIOUS
<1>2. ASSUME NEW f \in ReaderState
      PROVE  [reader EXCEPT ![r] = f] \in [Readers -> ReaderState]
  OBVIOUS
<1>3. CASE ReadEmpty(r)
  BY <1>3 DEF ReadEmpty, links
<1>4. CASE ReadCheck(r)
  <2>1. [reader[r] EXCEPT !.pc = "tail"] \in ReaderState
    BY <1>1 DEF ReaderState
  <2>2. /\ reader' = [reader EXCEPT ![r] = [reader[r] EXCEPT !.pc = "tail"]]
        /\ faults' \subseteq Faults
    BY <1>4 DEF ReadCheck, Faults
  <2>3. reader' \in [Readers -> ReaderState]
    BY <2>1, <2>2, <1>2
  <2> QED
    BY <1>4, <2>2, <2>3 DEF ReadCheck, links
<1>5. CASE ReadTail(r)
  <2> DEFINE f == [reader[r] EXCEPT !.pc = "prev", !.entry = blink[Hdr]]
  <2>1. f \in ReaderState
    BY <1>1 DEF ReaderState
  <2>2. reader' = [reader EXCEPT ![r] = f] /\ faults' \subseteq Faults
    BY <1>5 DEF ReadTail, Faults
  <2> HIDE DEF f
  <2>3. reader' \in [Readers -> ReaderState]
    BY <2>1, <2>2, <1>2
  <2> QED
    BY <1>5, <2>2, <2>3 DEF ReadTail, links
<1>6. CASE ReadPrev(r)
  <2>1. CASE Stop("freed_memory") \/ Stop("corrupt_list")
    BY <1>6, <2>1 DEF ReadPrev, Stop, links, Bugchecks
  <2>2. CASE ~(Stop("freed_memory") \/ Stop("corrupt_list"))
    <3> DEFINE f == [reader[r] EXCEPT !.pc = "unlink", !.prev = blink[reader[r].entry]]
    <3>1. /\ Valid(blink[reader[r].entry]) /\ UNCHANGED faults
          /\ reader' = [reader EXCEPT ![r] = f]
          /\ UNCHANGED <<links, ctrl, live, writer, written, taken, refusals, bugcheck>>
      BY <1>6, <2>2 DEF ReadPrev
    <3>2. blink[reader[r].entry] \in Nodes
      BY <3>1 DEF Valid
    <3>3. f \in ReaderState
      BY <3>2, <1>1 DEF ReaderState
    <3> HIDE DEF f
    <3>4. reader' \in [Readers -> ReaderState]
      BY <3>1, <3>3, <1>2
    <3> QED
      BY <3>1, <3>4 DEF links
  <2> QED
    BY <2>1, <2>2
<1>7. CASE ReadUnlink(r)
  <2>1. [reader[r] EXCEPT !.pc = "close"] \in ReaderState
    BY <1>1 DEF ReaderState
  <2>2. reader' = [reader EXCEPT ![r] = [reader[r] EXCEPT !.pc = "close"]]
    BY <1>7 DEF ReadUnlink
  <2>3. reader' \in [Readers -> ReaderState]
    BY <2>1, <2>2, <1>2
  <2>4. reader[r].prev \in Nodes \cup {NULL}
    BY <1>1 DEF ReaderState
  <2>5. blink' \in [Nodes -> Nodes \cup {NULL}]
    BY <1>7, <2>4 DEF ReadUnlink
  <2> QED
    BY <1>7, <2>3, <2>5 DEF ReadUnlink
<1>8. CASE ReadClose(r)
  <2>1. CASE Stop("freed_memory")
    BY <1>8, <2>1 DEF ReadClose, Stop, links, Bugchecks
  <2>2. CASE ~Stop("freed_memory")
    <3>1. /\ flink' = [flink EXCEPT ![reader[r].prev] = Hdr]
          /\ reader' = [reader EXCEPT ![r] = [reader[r] EXCEPT !.pc = "copy"]]
          /\ UNCHANGED <<blink, ctrl, live, writer, written, taken, refusals, bugcheck, faults>>
      BY <1>8, <2>2 DEF ReadClose
    <3>2. flink' \in [Nodes -> Nodes \cup {NULL}]
      BY <3>1
    <3>3. [reader[r] EXCEPT !.pc = "copy"] \in ReaderState
      BY <1>1 DEF ReaderState
    <3>4. reader' \in [Readers -> ReaderState]
      BY <3>1, <3>3, <1>2
    <3> QED
      BY <3>1, <3>2, <3>4
  <2> QED
    BY <2>1, <2>2
<1>9. CASE ReadCopy(r)
  <2>1. CASE Stop("freed_memory")
    BY <1>9, <2>1 DEF ReadCopy, Stop, links, Bugchecks
  <2>2. CASE ~Stop("freed_memory")
    <3>1. /\ Valid(reader[r].entry) /\ taken' = Append(taken, ctrl[reader[r].entry])
          /\ reader' = [reader EXCEPT ![r] = [reader[r] EXCEPT !.pc = "free"]]
          /\ UNCHANGED <<flink, blink, ctrl, live, writer, written, refusals, bugcheck, faults>>
      BY <1>9, <2>2 DEF ReadCopy, links
    <3>2. ctrl[reader[r].entry] \in 0 .. MaxInserts
      BY <3>1 DEF Valid
    <3>3. taken' \in Seq(0 .. MaxInserts)
      BY <3>1, <3>2, AppendProperties
    <3>4. [reader[r] EXCEPT !.pc = "free"] \in ReaderState
      BY <1>1 DEF ReaderState
    <3>5. reader' \in [Readers -> ReaderState]
      BY <3>1, <3>4, <1>2
    <3> QED
      BY <3>1, <3>3, <3>5
  <2> QED
    BY <2>1, <2>2
<1>10. CASE ReadFree(r)
  <2>1. CASE Stop("bad_free")
    BY <1>10, <2>1 DEF ReadFree, Stop, links, Bugchecks
  <2>2. CASE ~Stop("bad_free")
    <3>1. /\ reader' = [reader EXCEPT ![r] = NoRead] /\ live' = live \ {reader[r].entry}
          /\ UNCHANGED <<flink, blink, ctrl, writer, written, taken, refusals, bugcheck, faults>>
      BY <1>10, <2>2 DEF ReadFree, links
    <3>2. NoRead \in ReaderState
      BY DEF NoRead, ReaderState
    <3>3. reader' \in [Readers -> ReaderState]
      BY <3>1, <3>2, <1>2
    <3> QED
      BY <3>1, <3>3
  <2> QED
    BY <2>1, <2>2
<1>11. CASE ReadRefused(r)
  BY <1>11 DEF ReadRefused, clVars, links
<1> QED
  BY <1>3, <1>4, <1>5, <1>6, <1>7, <1>8, <1>9, <1>10, <1>11 DEF GetUvcCmd

(* TypeOK: the links lead to blocks, to the header or nowhere, whatever    *)
(* ptzNotifyApp and IOCTL_GET_UVC_CMD do to each other.                    *)
THEOREM Typed == Spec => []TypeOK
<1>1. TypeOK /\ [Next]_clVars => TypeOK'
  <2> SUFFICES ASSUME TypeOK, [Next]_clVars PROVE TypeOK'
    OBVIOUS
  <2>1. CASE Stopped \/ UNCHANGED clVars
    BY <2>1 DEF Stopped, clVars, links, TypeOK
  <2> QED
    BY <2>1, InsertTyped, ReadTyped DEF Next
<1> QED
  BY <1>1, InitTyped, PTL DEF Spec

------------------------------------------------------------------------------
(* The inductive invariant                                                 *)

(* Who is inside the list functions, and with which command: one reader at *)
(* a time, and it holds what was removed last; the writer holds a block    *)
(* that is not yet in the list.                                            *)
Stages ==
  /\ \A q, r \in Readers : reader[q].pc # "idle" /\ reader[r].pc # "idle" => q = r
  /\ Removed \in 0 .. Published
  /\ writer.pc # "idle" => writer.item \in live /\ ctrl[writer.item] = written
  /\ writer.pc = "publish" => flink[writer.item] = writer.next /\ blink[writer.item] = Hdr
  /\ \A r \in Readers :
       /\ reader[r].pc = "tail" => Removed < Published
       /\ reader[r].pc \in {"copy", "free"} =>
            reader[r].entry \in live /\ ctrl[reader[r].entry] = Removed

(* The blocks between the last one removed and the last one published.     *)
Blocks(block) ==
  /\ block \in [Removed + 1 .. Published -> live]
  /\ \A k \in DOMAIN block : ctrl[block[k]] = k

(* The forward links are right at every moment.                            *)
Forward(block) ==
  \A k \in Removed .. Published : flink[Node(block, k + 1)] = Node(block, k)

(* The back links are right except for the two that InsertHeadList and     *)
(* RemoveTailList have stored before the forward link that goes with them. *)
Backward(block) ==
  \A k \in Removed .. Published :
    blink[Node(block, k)] =
      IF k = Published /\ writer.pc = "publish" THEN writer.item
      ELSE IF k = Removed /\ \E r \in Readers : reader[r].pc = "close"
           THEN Node(block, k + 2)
           ELSE Node(block, k + 1)

(* What the writer and the reader have read is still so: the writer        *)
(* inserts before the newest block, and that is not the one being removed. *)
Hands(block) ==
  /\ writer.pc # "idle" => writer.next = Node(block, Published)
  /\ \A r \in Readers :
       /\ Removing(r) => /\ reader[r].entry = Node(block, Removed + 1)
                         /\ Removed < Published
                         /\ writer.pc # "idle" => Removed + 1 < Published
       /\ reader[r].pc \in {"unlink", "close"} => reader[r].prev = Node(block, Removed + 2)

Chain(block) == Blocks(block) /\ Forward(block) /\ Backward(block) /\ Hands(block)

InStep ==
  /\ bugcheck = "none" /\ Stages
  /\ \E block \in [Removed + 1 .. Published -> live] : Chain(block)

IInv == TypeOK /\ (Intact => InStep)

(* The counts are numbers.                                                 *)
LEMMA Counts ==
  ASSUME TypeOK
  PROVE  /\ Removed \in Nat /\ Published \in Int /\ written \in Nat
         /\ Len(taken) \in Nat
BY Bound, LenProperties DEF TypeOK, Removed, Published

(* The blocks of the list: allocated, different from each other, from the  *)
(* header and from every block with another number.                        *)
LEMMA NodeOf ==
  ASSUME TypeOK, NEW block, Blocks(block)
  PROVE  /\ \A k \in Int : k \notin Removed + 1 .. Published => Node(block, k) = Hdr
         /\ \A k \in Removed + 1 .. Published :
              /\ Node(block, k) = block[k] /\ Node(block, k) \in live
              /\ Node(block, k) \in Items /\ Node(block, k) # Hdr
              /\ ctrl[Node(block, k)] = k
         /\ \A j, k \in Removed .. Published : Node(block, j) = Node(block, k) => j = k
         /\ \A k \in Int : Node(block, k) \in Nodes /\ Valid(Node(block, k))
<1> USE Distinct, Counts DEF Nodes, Blocks, Valid
<1>1. DOMAIN block = Removed + 1 .. Published
  OBVIOUS
<1>2. \A k \in Int : k \notin Removed + 1 .. Published => Node(block, k) = Hdr
  BY <1>1 DEF Node
<1>3. \A k \in Removed + 1 .. Published :
        /\ Node(block, k) = block[k] /\ Node(block, k) \in live
        /\ Node(block, k) \in Items /\ Node(block, k) # Hdr
        /\ ctrl[Node(block, k)] = k
  BY <1>1 DEF Node, TypeOK
<1>4. \A k \in Int : Node(block, k) \in Nodes /\ Valid(Node(block, k))
  BY <1>2, <1>3
<1>5. ASSUME NEW j \in Removed .. Published, NEW k \in Removed .. Published,
             Node(block, j) = Node(block, k)
      PROVE  j = k
  <2>1. CASE j = Removed /\ k # Removed
    <3>1. Node(block, j) = Hdr /\ k \in Removed + 1 .. Published
      BY <2>1, <1>2
    <3> QED
      BY <3>1, <1>3, <1>5
  <2>2. CASE j # Removed /\ k = Removed
    <3>1. Node(block, k) = Hdr /\ j \in Removed + 1 .. Published
      BY <2>2, <1>2
    <3> QED
      BY <3>1, <1>3, <1>5
  <2>3. CASE j # Removed /\ k # Removed
    <3>1. j \in Removed + 1 .. Published /\ k \in Removed + 1 .. Published
      BY <2>3
    <3> QED
      BY <3>1, <1>3, <1>5
  <2> QED
    BY <2>1, <2>2, <2>3
<1> QED
  BY <1>2, <1>3, <1>4, <1>5

LEMMA InitInStep == Init => IInv
<1> SUFFICES ASSUME Init PROVE IInv
  OBVIOUS
<1>1. TypeOK
  BY InitTyped
<1>2. Copying = {} /\ taken = <<>> /\ written = 0 /\ writer.pc = "idle"
  BY DEF Init, Copying, NoRead, NoWrite
<1>3. Removed = 0 /\ Published = 0
  BY <1>2 DEF Removed, Published
<1>4. Stages
  BY <1>2, <1>3 DEF Init, Stages, NoRead
<1> DEFINE none == [k \in 1 .. 0 |-> Hdr]
<1>5. \A k \in Int : Node(none, k) = Hdr
  BY DEF Node
<1> HIDE DEF none
<1>6. none \in [Removed + 1 .. Published -> live] /\ DOMAIN none = {}
  BY <1>3 DEF none
<1>7. Chain(none)
  BY <1>2, <1>3, <1>5, <1>6 DEF Chain, Blocks, Forward, Backward, Hands, Init, Nodes, NoRead,
     Removing
<1>8. \E block \in [Removed + 1 .. Published -> live] : Chain(block)
  BY <1>6, <1>7
<1> QED
  BY <1>1, <1>4, <1>8 DEF IInv, InStep, Init

------------------------------------------------------------------------------
(* The steps of the writer                                                 *)

Whole(block) == TypeOK /\ bugcheck = "none" /\ Stages /\ Chain(block)

(* The links are as InsertHeadList expects them, and it is not about to    *)
(* insert before the block that a reader removes: that would be a fault.   *)
LEMMA InsertReadKeeps ==
  ASSUME NEW block, Whole(block), Intact', NEW e \in Items, InsertRead(e)
  PROVE  /\ bugcheck' = "none" /\ Stages' /\ Chain(block)'
         /\ UNCHANGED <<Removed, Published, taken, reader, refusals>>
<1> USE Counts, Distinct DEF Whole
<1>0. \A k \in Int : Node(block, k)' = Node(block, k)
  BY DEF Node
<1>n. /\ \A k \in Removed + 1 .. Published : Node(block, k) \in live
      /\ \A k \in Int : k \notin Removed + 1 .. Published => Node(block, k) = Hdr
      /\ \A j, k \in Removed .. Published : Node(block, j) = Node(block, k) => j = k
      /\ \A k \in Int : Node(block, k) \in Nodes /\ Valid(Node(block, k))
  BY NodeOf DEF Chain
<1>r. Removed \in Nat /\ Published \in Nat /\ Removed <= Published /\ Published = written
      /\ writer.pc = "idle"
  BY DEF Stages, InsertRead, Published
(* The first entry is the newest block, and its back link is the header. *)
<1>1. flink[Hdr] = Node(block, Published)
  <2>1. Node(block, Published + 1) = Hdr
    BY <1>n, <1>r
  <2> QED
    BY <2>1, <1>r DEF Chain, Forward
<1>2. Removed < Published \/ ~\E r \in Readers : reader[r].pc = "close"
  BY DEF Chain, Hands, Removing
<1>3. blink[flink[Hdr]] = Hdr
  <2>1. blink[Node(block, Published)] = Node(block, Published + 1)
    BY <1>2, <1>r DEF Chain, Backward
  <2> QED
    BY <2>1, <1>1, <1>n, <1>r
<1>4. /\ writer' = [pc |-> "link", item |-> e, next |-> Node(block, Published)]
      /\ live' = live \cup {e} /\ e \notin live
      /\ ctrl' = [ctrl EXCEPT ![e] = written + 1]
      /\ written' = written + 1
      /\ UNCHANGED <<links, reader, taken, refusals, bugcheck>>
  BY <1>1, <1>3, <1>n, <1>r DEF InsertRead
<1>5. UNCHANGED <<Removed, Published, taken, reader, refusals>>
  BY <1>4, <1>r DEF Removed, Copying, Published
<1>6. \A i \in live : ctrl'[i] = ctrl[i] /\ i \in live'
  BY <1>4 DEF TypeOK, Nodes
<1>7. ctrl'[e] = written'
  BY <1>4 DEF TypeOK, Nodes
<1>8. Stages'
  BY <1>4, <1>5, <1>6, <1>7 DEF Stages
<1>9. Blocks(block)'
  BY <1>4, <1>5, <1>6 DEF Chain, Blocks
<1>10. Forward(block)'
  BY <1>0, <1>4, <1>5, <1>r DEF Chain, Forward, links
<1>11. Backward(block)'
  BY <1>0, <1>4, <1>5, <1>r DEF Chain, Backward, links
<1>12. Hands(block)'
  <2>1. ASSUME NEW r \in Readers, Removing(r)
        PROVE  Removed + 1 < Published
    <3>1. reader[r].entry # flink[Hdr]
      BY <2>1, <1>4 DEF InsertRead, Intact, links
    <3>2. reader[r].entry = Node(block, Removed + 1) /\ Removed < Published
      BY <2>1 DEF Chain, Hands
    <3> QED
      BY <3>1, <3>2, <1>1, <1>r
  <2> QED
    BY <2>1, <1>0, <1>4, <1>5, <1>r DEF Chain, Hands, Removing
<1> QED
  BY <1>4, <1>5, <1>8, <1>9, <1>10, <1>11, <1>12 DEF Chain

LEMMA InsertLinkKeeps ==
  ASSUME NEW block, Whole(block), Intact', InsertLink
  PROVE  /\ bugcheck' = "none" /\ Stages' /\ Chain(block)'
         /\ UNCHANGED <<Removed, Published, taken, reader, refusals>>
<1> USE Counts, Distinct DEF Whole
<1>0. \A k \in Int : Node(block, k)' = Node(block, k)
  BY DEF Node
<1>n. /\ \A k \in Removed + 1 .. Published : Node(block, k) \in Items /\ ctrl[Node(block, k)] = k
      /\ \A k \in Int : k \notin Removed + 1 .. Published => Node(block, k) = Hdr
      /\ \A j, k \in Removed .. Published : Node(block, j) = Node(block, k) => j = k
      /\ \A k \in Int : Node(block, k) \in Nodes /\ Valid(Node(block, k))
  BY NodeOf DEF Chain
<1>r. /\ Removed \in Nat /\ Published \in Nat /\ Removed <= Published
      /\ Published = written - 1 /\ writer.pc = "link"
  BY DEF Stages, InsertLink, Published
<1>1. writer.next = Node(block, Published) /\ writer.item \in live /\ writer.item \in Items
      /\ ctrl[writer.item] = written
  BY <1>r DEF Chain, Hands, Stages, TypeOK
<1>2. /\ flink' = [flink EXCEPT ![writer.item] = writer.next]
      /\ blink' = [blink EXCEPT ![writer.item] = Hdr, ![writer.next] = writer.item]
      /\ writer' = [writer EXCEPT !.pc = "publish"]
      /\ UNCHANGED <<ctrl, live, reader, written, taken, refusals, bugcheck>>
  BY <1>1, <1>n, <1>r DEF InsertLink
<1>3. /\ writer'.pc = "publish" /\ writer'.item = writer.item /\ writer'.next = writer.next
  BY <1>2 DEF TypeOK
<1>4. UNCHANGED <<Removed, Published, taken, reader, refusals>>
  BY <1>2, <1>3, <1>r DEF Removed, Copying, Published
(* The new block is none of the list. *)
<1>5. \A k \in Removed .. Published + 1 : Node(block, k) # writer.item
  BY <1>1, <1>n, <1>r
<1>6. Stages'
  <2>1. flink'[writer.item] = writer.next /\ blink'[writer.item] = Hdr
    BY <1>1, <1>2, <1>5, <1>n, <1>r DEF TypeOK, Nodes
  <2>2. Removed' \in 0 .. Published'
    BY <1>4, <1>r
  <2>3. writer'.item \in live' /\ ctrl'[writer'.item] = written'
    BY <1>1, <1>2, <1>3
  <2>4. \A r \in Readers :
          /\ (reader[r].pc = "tail")' => Removed' < Published'
          /\ (reader[r].pc \in {"copy", "free"})' =>
               reader'[r].entry \in live' /\ ctrl'[reader'[r].entry] = Removed'
    BY <1>2, <1>4 DEF Stages
  <2>5. \A q, r \in Readers : reader'[q].pc # "idle" /\ reader'[r].pc # "idle" => q = r
    BY <1>2 DEF Stages
  <2>6. flink'[writer'.item] = writer'.next /\ blink'[writer'.item] = Hdr
    BY <2>1, <1>3
  <2> QED
    BY <2>2, <2>3, <2>4, <2>5, <2>6 DEF Stages
<1>7. Blocks(block)'
  BY <1>2, <1>4 DEF Chain, Blocks
<1>8. Forward(block)'
  <2>1. ASSUME NEW k \in Removed .. Published
        PROVE  flink'[Node(block, k + 1)] = flink[Node(block, k + 1)]
    <3>1. k + 1 \in Removed .. Published + 1 /\ k + 1 \in Int
      BY <1>r
    <3>2. Node(block, k + 1) \in Nodes /\ Node(block, k + 1) # writer.item
      BY <3>1, <1>5, <1>n
    <3> QED
      BY <3>2, <1>2 DEF TypeOK
  <2> QED
    BY <2>1, <1>0, <1>4, <1>r DEF Chain, Forward
<1>9. Backward(block)'
  <2>1. ASSUME NEW k \in Removed .. Published, k # Published
        PROVE  blink'[Node(block, k)] = blink[Node(block, k)]
    <3>1. Node(block, k) # writer.next
      BY <2>1, <1>1, <1>n, <1>r
    <3> QED
      BY <3>1, <1>2, <1>5, <1>n, <1>r DEF TypeOK
  <2>2. blink'[Node(block, Published)] = writer.item
    BY <1>1, <1>2, <1>n, <1>r DEF TypeOK
  <2>3. ASSUME NEW k \in Removed .. Published
        PROVE  blink'[Node(block, k)] =
                 IF k = Published THEN writer.item
                 ELSE IF k = Removed /\ \E r \in Readers : reader[r].pc = "close"
                      THEN Node(block, k + 2) ELSE Node(block, k + 1)
    BY <2>1, <2>2, <1>r DEF Chain, Backward
  <2>4. \A k \in Int : /\ Node(block, k)' = Node(block, k)
                      /\ Node(block, k + 1)' = Node(block, k + 1)
                      /\ Node(block, k + 2)' = Node(block, k + 2)
    BY <1>0
  <2>5. \A k \in Removed .. Published : k \in Int
    BY <1>r
  <2>6. UNCHANGED <<Removed, Published, reader>> /\ writer'.pc = "publish"
        /\ writer'.item = writer.item
    BY <1>2, <1>3, <1>4
  <2>7. SUFFICES ASSUME NEW k \in Removed .. Published
                 PROVE  blink'[Node(block, k)'] =
                          IF k = Published' /\ writer'.pc = "publish" THEN writer'.item
                          ELSE IF k = Removed' /\ \E r \in Readers : reader'[r].pc = "close"
                               THEN Node(block, k + 2)' ELSE Node(block, k + 1)'
    BY <2>6 DEF Backward
  <2> QED
    BY <2>3, <2>4, <2>5, <2>6
<1>10. Hands(block)'
  BY <1>0, <1>2, <1>3, <1>4, <1>r DEF Chain, Hands, Removing
<1> QED
  BY <1>2, <1>4, <1>6, <1>7, <1>8, <1>9, <1>10 DEF Chain

LEMMA InsertPublishKeeps ==
  ASSUME NEW block, Whole(block), Intact', InsertPublish,
         NEW longer,
         longer = [k \in Removed + 1 .. written |-> IF k = written THEN writer.item ELSE block[k]]
  PROVE  /\ bugcheck' = "none" /\ Stages' /\ Chain(longer)'
         /\ UNCHANGED <<Removed, taken, reader, refusals>>
         /\ Published' = Published + 1 /\ Published + 1 = written
<1> USE Counts, Distinct DEF Whole
<1>n. /\ \A k \in Removed + 1 .. Published :
           /\ Node(block, k) = block[k] /\ Node(block, k) \in live /\ Node(block, k) \in Items
           /\ ctrl[Node(block, k)] = k
      /\ \A k \in Int : k \notin Removed + 1 .. Published => Node(block, k) = Hdr
      /\ \A j, k \in Removed .. Published : Node(block, j) = Node(block, k) => j = k
      /\ \A k \in Int : Node(block, k) \in Nodes
  BY NodeOf DEF Chain
<1>r. /\ Removed \in Nat /\ Published \in Nat /\ Removed <= Published
      /\ Published + 1 = written /\ writer.pc = "publish"
  BY DEF Stages, InsertPublish, Published
<1>1. /\ writer.next = Node(block, Published) /\ writer.item \in live /\ writer.item \in Items
      /\ ctrl[writer.item] = written
      /\ flink[writer.item] = writer.next /\ blink[writer.item] = Hdr
  BY <1>r DEF Chain, Hands, Stages, TypeOK
<1>2. /\ flink' = [flink EXCEPT ![Hdr] = writer.item] /\ writer' = NoWrite /\ writer'.pc = "idle"
      /\ UNCHANGED <<blink, ctrl, live, reader, written, taken, refusals, bugcheck>>
  BY DEF InsertPublish, NoWrite
<1>3. UNCHANGED <<Removed, taken, reader, refusals>> /\ Published' = Published + 1
  BY <1>2, <1>r DEF Removed, Copying, Published
<1>4. DOMAIN longer = Removed + 1 .. Published + 1
  BY <1>r
<1>0. \A k \in Int : Node(longer, k)' = Node(longer, k)
  BY DEF Node
<1>5. /\ Node(longer, Published + 1) = writer.item
      /\ \A k \in Int : k # Published + 1 => Node(longer, k) = Node(block, k)
  <2>1. Node(longer, Published + 1) = writer.item
    BY <1>4, <1>r DEF Node
  <2>2. ASSUME NEW k \in Int, k # Published + 1
        PROVE  Node(longer, k) = Node(block, k)
    <3>1. CASE k \in Removed + 1 .. Published
      BY <3>1, <1>4, <1>n, <1>r DEF Node
    <3>2. CASE k \notin Removed + 1 .. Published
      <4>1. k \notin DOMAIN longer
        BY <3>2, <2>2, <1>4, <1>r
      <4> QED
        BY <4>1, <3>2, <1>n DEF Node
    <3> QED
      BY <3>1, <3>2
  <2> QED
    BY <2>1, <2>2
<1>6. Stages'
  <2>1. Removed' \in 0 .. Published'
    BY <1>3, <1>r
  <2>2. \A r \in Readers :
          /\ reader'[r].pc = "tail" => Removed' < Published'
          /\ reader'[r].pc \in {"copy", "free"} =>
               reader'[r].entry \in live' /\ ctrl'[reader'[r].entry] = Removed'
    BY <1>2, <1>3, <1>r DEF Stages
  <2>3. \A q, r \in Readers : reader'[q].pc # "idle" /\ reader'[r].pc # "idle" => q = r
    BY <1>2 DEF Stages
  <2> QED
    BY <2>1, <2>2, <2>3, <1>2 DEF Stages
<1>7. Blocks(longer)'
  <2>1. longer \in [Removed + 1 .. Published + 1 -> live]
    BY <1>1, <1>r DEF Chain, Blocks
  <2>2. \A k \in DOMAIN longer : ctrl[longer[k]] = k
    BY <1>1, <1>r, <1>n
  <2> QED
    BY <2>1, <2>2, <1>2, <1>3 DEF Blocks
<1>8. Forward(longer)'
  <2>1. ASSUME NEW k \in Removed .. Published + 1
        PROVE  flink'[Node(longer, k + 1)] = Node(longer, k)
    <3>1. CASE k = Published + 1
      <4>1. Node(longer, k + 1) = Hdr
        BY <3>1, <1>5, <1>n, <1>r
      <4> QED
        BY <4>1, <3>1, <1>2, <1>5 DEF TypeOK, Nodes
    <3>2. CASE k = Published
      <4>1. flink'[writer.item] = flink[writer.item]
        BY <1>1, <1>2 DEF TypeOK, Nodes
      <4>2. Node(longer, k) = Node(block, k) /\ Node(longer, k + 1) = writer.item
        BY <3>2, <1>5, <1>r
      <4> QED
        BY <4>1, <4>2, <3>2, <1>1
    <3>3. CASE k < Published
      <4>1. k + 1 \in Removed + 1 .. Published /\ k \in Removed .. Published /\ k \in Int
        BY <3>3, <1>r
      <4>2. Node(longer, k) = Node(block, k) /\ Node(longer, k + 1) = Node(block, k + 1)
        BY <3>3, <4>1, <1>5, <1>r
      <4>3. flink[Node(block, k + 1)] = Node(block, k)
        BY <4>1 DEF Chain, Forward
      <4>4. Node(block, k + 1) \in Items
        BY <4>1, <1>n
      <4> QED
        BY <4>2, <4>3, <4>4, <1>2 DEF TypeOK, Nodes
    <3> QED
      BY <3>1, <3>2, <3>3, <1>r
  <2>2. \A k \in Int : Node(longer, k + 1)' = Node(longer, k + 1)
    BY <1>0
  <2> QED
    BY <2>1, <2>2, <1>0, <1>3, <1>r DEF Forward
<1>9. Backward(longer)'
  <2> DEFINE closing == \E r \in Readers : reader[r].pc = "close"
  <2>0. closing => Removed + 1 < Published
    BY <1>r DEF Chain, Hands, Removing
  <2>1. ASSUME NEW k \in Removed .. Published + 1
        PROVE  blink[Node(longer, k)] =
                 IF k = Removed /\ closing THEN Node(longer, k + 2) ELSE Node(longer, k + 1)
    <3>1. CASE k = Published + 1
      <4>1. Node(longer, k + 1) = Hdr /\ Node(longer, k) = writer.item
        BY <3>1, <1>5, <1>n, <1>r
      <4> QED
        BY <4>1, <3>1, <1>1, <1>r, <2>0
    <3>2. CASE k = Published
      <4>1. Node(longer, k) = Node(block, k) /\ Node(longer, k + 1) = writer.item
        BY <3>2, <1>5, <1>r
      <4>2. blink[Node(block, k)] = writer.item
        BY <3>2, <1>r DEF Chain, Backward
      <4> QED
        BY <4>1, <4>2, <3>2, <2>0, <1>r
    <3>3. CASE k < Published
      <4>1. k \in Removed .. Published /\ k \in Int
        BY <3>3, <1>r
      <4>2. Node(longer, k) = Node(block, k) /\ Node(longer, k + 1) = Node(block, k + 1)
        BY <3>3, <4>1, <1>5, <1>r
      <4>3. blink[Node(block, k)] =
              IF k = Removed /\ closing THEN Node(block, k + 2) ELSE Node(block, k + 1)
        BY <4>1, <3>3, <1>r DEF Chain, Backward
      <4>4. k = Removed /\ closing => Node(longer, k + 2) = Node(block, k + 2)
        BY <2>0, <4>1, <1>5, <1>r
      <4> QED
        BY <4>2, <4>3, <4>4
    <3> QED
      BY <3>1, <3>2, <3>3, <1>r
  <2>2. \A k \in Int : Node(longer, k + 1)' = Node(longer, k + 1)
                       /\ Node(longer, k + 2)' = Node(longer, k + 2)
    BY <1>0
  <2>3. closing' = closing
    BY <1>2
  <2> HIDE DEF closing
  <2>4. (\E r \in Readers : reader[r].pc = "close")' = closing
    BY <2>3 DEF closing
  <2> QED
    BY <2>1, <2>2, <2>4, <1>0, <1>2, <1>3, <1>r DEF Backward
<1>10. Hands(longer)'
  <2>1. ASSUME NEW r \in Readers, Removing(r)
        PROVE  reader[r].entry = Node(longer, Removed + 1) /\ Removed + 1 < Published
    BY <2>1, <1>5, <1>r DEF Chain, Hands
  <2>2. ASSUME NEW r \in Readers, reader[r].pc \in {"unlink", "close"}
        PROVE  reader[r].prev = Node(longer, Removed + 2)
    <3>1. Removing(r) /\ reader[r].prev = Node(block, Removed + 2)
      BY <2>2 DEF Chain, Hands, Removing
    <3>2. Removed + 1 < Published
      BY <3>1, <2>1
    <3> QED
      BY <3>1, <3>2, <1>5, <1>r
  <2>3. Node(longer, Removed + 1)' = Node(longer, Removed + 1)
        /\ Node(longer, Removed + 2)' = Node(longer, Removed + 2)
    BY <1>3 DEF Node
  <2> QED
    BY <2>1, <2>2, <2>3, <1>2, <1>3, <1>r DEF Hands, Removing
<1> QED
  BY <1>2, <1>3, <1>6, <1>7, <1>8, <1>9, <1>10, <1>r DEF Chain

------------------------------------------------------------------------------
(* The steps of a reader                                                   *)

LEMMA ReadEmptyKeeps ==
  ASSUME NEW block, Whole(block), NEW r \in Readers, ReadEmpty(r)
  PROVE  /\ bugcheck' = "none" /\ Stages' /\ Chain(block)'
         /\ UNCHANGED <<Removed, Published, taken, reader>>
         /\ refusals' = 1 - refusals /\ Removed = Published
<1> USE Counts, Distinct DEF Whole
<1>1. UNCHANGED <<flink, blink, ctrl, live, writer, reader, written, taken, bugcheck>>
      /\ refusals' = 1 - refusals /\ flink[Hdr] = Hdr
  BY DEF ReadEmpty, links
<1>2. UNCHANGED <<Removed, Published>>
  BY <1>1 DEF Removed, Published, Copying
<1>3. \A k \in Int : Node(block, k)' = Node(block, k)
  BY DEF Node
<1>4. Stages'
  BY <1>1, <1>2 DEF Stages
<1>5. Blocks(block)' /\ Forward(block)' /\ Hands(block)'
  BY <1>1, <1>2, <1>3 DEF Chain, Blocks, Forward, Hands, Removing
<1>6. Backward(block)'
  BY <1>1, <1>2, <1>3 DEF Chain, Backward
<1>7. Removed = Published
  <2>1. Removed <= Published /\ Removed \in Nat /\ Published \in Nat
    BY DEF Stages
  <2>2. Node(block, Published + 1) = Hdr
    BY <2>1, NodeOf DEF Chain
  <2>3. Node(block, Published) = Hdr
    BY <2>1, <2>2, <1>1 DEF Chain, Forward
  <2>4. Published \notin Removed + 1 .. Published
    BY <2>1, <2>3, NodeOf DEF Chain
  <2> QED
    BY <2>1, <2>4
<1> QED
  BY <1>1, <1>2, <1>4, <1>5, <1>6, <1>7 DEF Chain

(* A step of the only reader that takes it from one place to the next and  *)
(* changes neither the list nor what was copied.                           *)
LEMMA ReaderMoves ==
  ASSUME NEW block, Whole(block), NEW r \in Readers,
         \A q \in Readers \ {r} : reader[q].pc = "idle" /\ reader'[q] = reader[q],
         reader[r].pc \notin {"copy", "close"}, reader'[r].pc \in {"tail", "prev", "unlink"},
         UNCHANGED <<flink, blink, ctrl, live, writer, written, taken, bugcheck>>,
         Removed < Published,
         reader'[r].pc \in {"prev", "unlink"} =>
           /\ reader'[r].entry = Node(block, Removed + 1)
           /\ writer.pc # "idle" => Removed + 1 < Published,
         reader'[r].pc = "unlink" => reader'[r].prev = Node(block, Removed + 2)
  PROVE  /\ bugcheck' = "none" /\ Stages' /\ Chain(block)'
         /\ UNCHANGED <<Removed, Published>>
<1> USE Counts, Distinct DEF Whole
<1>1. Copying = {} /\ Copying' = {}
  BY DEF Copying
<1>2. UNCHANGED <<Removed, Published>>
  BY <1>1 DEF Removed, Published
<1>3. \A k \in Int : Node(block, k)' = Node(block, k)
  BY DEF Node
<1>4. Stages'
  <2>1. \A q, s \in Readers : reader'[q].pc # "idle" /\ reader'[s].pc # "idle" => q = s
    OBVIOUS
  <2>2. \A q \in Readers :
          /\ reader'[q].pc = "tail" => Removed < Published
          /\ reader'[q].pc \notin {"copy", "free"}
    OBVIOUS
  <2> QED
    BY <2>1, <2>2, <1>2 DEF Stages
<1>5. Blocks(block)' /\ Forward(block)'
  BY <1>2, <1>3 DEF Chain, Blocks, Forward
<1>6. Backward(block)'
  <2>1. (~\E q \in Readers : reader[q].pc = "close") /\ ~\E q \in Readers : reader'[q].pc = "close"
    OBVIOUS
  <2>2. \A k \in Int : Node(block, k + 1)' = Node(block, k + 1)
    BY <1>3
  <2> QED
    BY <2>1, <2>2, <1>2, <1>3 DEF Chain, Backward
<1>7. Hands(block)'
  <2>1. \A q \in Readers : reader'[q].pc \in {"prev", "unlink", "close"} => q = r
    OBVIOUS
  <2>2. writer.pc # "idle" => writer.next = Node(block, Published)
    BY DEF Chain, Hands
  <2>3. Node(block, Removed + 1)' = Node(block, Removed + 1)
        /\ Node(block, Removed + 2)' = Node(block, Removed + 2)
        /\ Node(block, Published)' = Node(block, Published)
    BY <1>2, <1>3 DEF Node
  <2> QED
    BY <2>1, <2>2, <2>3, <1>2 DEF Hands, Removing
<1> QED
  BY <1>2, <1>4, <1>5, <1>6, <1>7 DEF Chain

LEMMA ReadCheckKeeps ==
  ASSUME NEW block, Whole(block), Intact', NEW r \in Readers, ReadCheck(r)
  PROVE  /\ bugcheck' = "none" /\ Stages' /\ Chain(block)'
         /\ UNCHANGED <<Removed, Published, taken, Copying, refusals>>
<1> USE Counts, Distinct DEF Whole
<1>1. \A q \in Readers \ {r} : reader[q].pc = "idle"
  BY DEF ReadCheck, Intact
<1>2. /\ reader[r].pc = "idle" /\ reader'[r].pc = "tail" /\ flink[Hdr] # Hdr
      /\ \A q \in Readers \ {r} : reader'[q] = reader[q]
      /\ UNCHANGED <<flink, blink, ctrl, live, writer, written, taken, refusals, bugcheck>>
  BY DEF ReadCheck, TypeOK, links
<1>3. Removed < Published
  <2>1. Removed <= Published /\ Removed \in Nat /\ Published \in Nat
    BY DEF Stages
  <2>2. Node(block, Published + 1) = Hdr
    BY <2>1, NodeOf DEF Chain
  <2>3. Node(block, Published) # Hdr
    BY <2>1, <2>2, <1>2 DEF Chain, Forward
  <2>4. Published \in Removed + 1 .. Published
    BY <2>1, <2>3, NodeOf DEF Chain
  <2> QED
    BY <2>1, <2>4
<1>4. Copying = {} /\ Copying' = {}
  BY <1>1, <1>2 DEF Copying
<1>5. bugcheck' = "none" /\ Stages' /\ Chain(block)' /\ UNCHANGED <<Removed, Published>>
  BY <1>1, <1>2, <1>3, ReaderMoves
<1> QED
  BY <1>2, <1>4, <1>5

(* The reader that is in the middle of something is the only one.          *)
LEMMA Alone ==
  ASSUME Stages, NEW r \in Readers, reader[r].pc # "idle"
  PROVE  \A q \in Readers \ {r} : reader[q].pc = "idle"
BY DEF Stages

LEMMA ReadTailKeeps ==
  ASSUME NEW block, Whole(block), Intact', NEW r \in Readers, ReadTail(r)
  PROVE  /\ bugcheck' = "none" /\ Stages' /\ Chain(block)'
         /\ UNCHANGED <<Removed, Published, taken, Copying, refusals>>
<1> USE Counts, Distinct DEF Whole
<1>1. /\ reader[r].pc = "tail" /\ reader'[r].pc = "prev" /\ reader'[r].entry = blink[Hdr]
      /\ \A q \in Readers \ {r} : reader'[q] = reader[q]
      /\ UNCHANGED <<flink, blink, ctrl, live, writer, written, taken, refusals, bugcheck>>
      /\ ~(writer.pc # "idle" /\ writer.next = blink[Hdr])
  BY DEF ReadTail, TypeOK, links, Intact
<1>2. \A q \in Readers \ {r} : reader[q].pc = "idle"
  BY <1>1, Alone
<1>3. Removed < Published /\ Removed \in Nat /\ Published \in Nat
  BY <1>1 DEF Stages
<1>4. Node(block, Removed) = Hdr
  BY <1>3, NodeOf DEF Chain
<1>5. blink[Hdr] = Node(block, Removed + 1)
  <2>1. ~\E q \in Readers : reader[q].pc = "close"
    BY <1>1, <1>2
  <2> QED
    BY <2>1, <1>3, <1>4 DEF Chain, Backward
<1>6. writer.pc # "idle" => Removed + 1 < Published
  BY <1>1, <1>3, <1>5 DEF Chain, Hands
<1>7. Copying = {} /\ Copying' = {}
  BY <1>1, <1>2 DEF Copying
<1>8. bugcheck' = "none" /\ Stages' /\ Chain(block)' /\ UNCHANGED <<Removed, Published>>
  BY <1>1, <1>2, <1>3, <1>5, <1>6, ReaderMoves
<1> QED
  BY <1>1, <1>7, <1>8

LEMMA ReadPrevKeeps ==
  ASSUME NEW block, Whole(block), NEW r \in Readers, ReadPrev(r)
  PROVE  /\ bugcheck' = "none" /\ Stages' /\ Chain(block)'
         /\ UNCHANGED <<Removed, Published, taken, Copying, refusals>>
<1> USE Counts, Distinct DEF Whole
<1>1. reader[r].pc = "prev"
  BY DEF ReadPrev
<1>2. \A q \in Readers \ {r} : reader[q].pc = "idle"
  BY <1>1, Alone
<1>3. /\ Removed \in Nat /\ Published \in Nat /\ Removed < Published
      /\ reader[r].entry = Node(block, Removed + 1)
      /\ writer.pc # "idle" => Removed + 1 < Published
  BY <1>1 DEF Stages, Chain, Hands, Removing
(* The entry and the one before it are where the check expects them. *)
<1>4. blink[reader[r].entry] = Node(block, Removed + 2)
  <2>1. ~(Removed + 1 = Published /\ writer.pc = "publish") /\ Removed + 1 # Removed
    BY <1>3
  <2> QED
    BY <2>1, <1>3 DEF Chain, Backward
<1>5. flink[reader[r].entry] = Hdr /\ flink[Node(block, Removed + 2)] = reader[r].entry
  <2>1. Node(block, Removed) = Hdr
    BY <1>3, NodeOf DEF Chain
  <2>2. flink[Node(block, Removed + 1)] = Node(block, Removed)
    BY <1>3 DEF Chain, Forward
  <2>3. flink[Node(block, (Removed + 1) + 1)] = Node(block, Removed + 1)
    BY <1>3 DEF Chain, Forward
  <2> QED
    BY <2>1, <2>2, <2>3, <1>3
<1>6. Valid(reader[r].entry) /\ Valid(Node(block, Removed + 2))
  BY <1>3, NodeOf DEF Chain
<1>7. /\ reader' = [reader EXCEPT ![r].pc = "unlink", ![r].prev = Node(block, Removed + 2)]
      /\ UNCHANGED <<flink, blink, ctrl, live, writer, written, taken, refusals, bugcheck>>
  BY <1>4, <1>5, <1>6 DEF ReadPrev, links
<1>8. /\ reader'[r].pc = "unlink" /\ reader'[r].prev = Node(block, Removed + 2)
      /\ reader'[r].entry = reader[r].entry
      /\ \A q \in Readers \ {r} : reader'[q] = reader[q]
  BY <1>7 DEF TypeOK
<1>9. Copying = {} /\ Copying' = {}
  BY <1>1, <1>2, <1>8 DEF Copying
<1>10. UNCHANGED <<flink, blink, ctrl, live, writer, written, taken, refusals, bugcheck>>
  BY <1>7
<1>11. bugcheck' = "none" /\ Stages' /\ Chain(block)' /\ UNCHANGED <<Removed, Published>>
  BY <1>1, <1>2, <1>3, <1>8, <1>10, ReaderMoves
<1> QED
  BY <1>9, <1>10, <1>11

LEMMA ReadUnlinkKeeps ==
  ASSUME NEW block, Whole(block), NEW r \in Readers, ReadUnlink(r)
  PROVE  /\ bugcheck' = "none" /\ Stages' /\ Chain(block)'
         /\ UNCHANGED <<Removed, Published, taken, Copying, refusals>>
<1> USE Counts, Distinct DEF Whole
<1>1. /\ reader[r].pc = "unlink" /\ reader'[r].pc = "close"
      /\ reader'[r].entry = reader[r].entry /\ reader'[r].prev = reader[r].prev
      /\ \A q \in Readers \ {r} : reader'[q] = reader[q]
      /\ blink' = [blink EXCEPT ![Hdr] = reader[r].prev]
      /\ UNCHANGED <<flink, ctrl, live, writer, written, taken, refusals, bugcheck>>
  BY DEF ReadUnlink, TypeOK
<1>2. \A q \in Readers \ {r} : reader[q].pc = "idle"
  BY <1>1, Alone
<1>3. /\ Removed \in Nat /\ Published \in Nat /\ Removed < Published
      /\ reader[r].entry = Node(block, Removed + 1)
      /\ reader[r].prev = Node(block, Removed + 2)
      /\ writer.pc # "idle" => Removed + 1 < Published
  BY <1>1 DEF Stages, Chain, Hands, Removing
<1>4. Copying = {} /\ Copying' = {}
  BY <1>1, <1>2 DEF Copying
<1>5. UNCHANGED <<Removed, Published>>
  BY <1>1, <1>4 DEF Removed, Published
<1>0. \A k \in Int : Node(block, k)' = Node(block, k)
  BY DEF Node
<1>6. Stages'
  <2>1. \A q, s \in Readers : reader'[q].pc # "idle" /\ reader'[s].pc # "idle" => q = s
    BY <1>1, <1>2
  <2>2. \A q \in Readers : reader'[q].pc \in {"idle", "close"}
    BY <1>1, <1>2
  <2>3. Removed' \in 0 .. Published'
    BY <1>3, <1>5
  <2>4. writer.pc = "publish" => blink'[writer.item] = Hdr
    <3>1. ASSUME writer.pc = "publish" PROVE writer.item \in Items /\ blink[writer.item] = Hdr
      BY <3>1 DEF Stages, TypeOK
    <3> QED
      BY <3>1, <1>1 DEF TypeOK, Nodes
  <2> QED
    BY <2>1, <2>2, <2>3, <2>4, <1>1 DEF Stages
<1>7. Blocks(block)' /\ Forward(block)'
  BY <1>0, <1>1, <1>5 DEF Chain, Blocks, Forward
<1>8. Backward(block)'
  <2>1. ASSUME NEW k \in Removed .. Published
        PROVE  blink'[Node(block, k)] =
                 IF k = Published /\ writer.pc = "publish" THEN writer.item
                 ELSE IF k = Removed THEN Node(block, k + 2) ELSE Node(block, k + 1)
    <3>1. CASE k = Removed
      <4>1. Node(block, k) = Hdr
        BY <3>1, NodeOf DEF Chain
      <4>2. blink'[Hdr] = reader[r].prev
        BY <1>1 DEF TypeOK, Nodes
      <4> QED
        BY <4>1, <4>2, <3>1, <1>3
    <3>2. CASE k # Removed
      <4>1. Node(block, k) \in Items
        BY <3>2, <1>3, NodeOf DEF Chain
      <4>2. blink'[Node(block, k)] = blink[Node(block, k)]
        BY <4>1, <1>1 DEF TypeOK, Nodes
      <4> QED
        BY <4>2, <3>2 DEF Chain, Backward
    <3> QED
      BY <3>1, <3>2
  <2>2. \A k \in Int : Node(block, k + 1)' = Node(block, k + 1)
                       /\ Node(block, k + 2)' = Node(block, k + 2)
    BY <1>0
  <2>3. \E q \in Readers : reader'[q].pc = "close"
    BY <1>1
  <2> QED
    BY <2>1, <2>2, <2>3, <1>0, <1>1, <1>5, <1>3 DEF Backward
<1>9. Hands(block)'
  <2>1. \A q \in Readers : reader'[q].pc \in {"prev", "unlink", "close"} => q = r
    BY <1>1, <1>2
  <2>2. writer.pc # "idle" => writer.next = Node(block, Published)
    BY DEF Chain, Hands
  <2>3. Node(block, Removed + 1)' = Node(block, Removed + 1)
        /\ Node(block, Removed + 2)' = Node(block, Removed + 2)
        /\ Node(block, Published)' = Node(block, Published)
    BY <1>5, <1>0 DEF Node
  <2> QED
    BY <2>1, <2>2, <2>3, <1>1, <1>3, <1>5 DEF Hands, Removing
<1> QED
  BY <1>1, <1>4, <1>5, <1>6, <1>7, <1>8, <1>9 DEF Chain

LEMMA ReadCloseKeeps ==
  ASSUME NEW block, Whole(block), NEW r \in Readers, ReadClose(r),
         NEW shorter, shorter = [k \in Removed + 2 .. Published |-> block[k]]
  PROVE  /\ bugcheck' = "none" /\ Stages' /\ Chain(shorter)'
         /\ UNCHANGED <<Published, taken, refusals>>
         /\ Removed < Published /\ Removed' = Removed + 1 /\ Removed = Len(taken)
         /\ Copying = {} /\ Copying' = {r}
<1> USE Counts, Distinct DEF Whole
<1>1. reader[r].pc = "close"
  BY DEF ReadClose
<1>2. \A q \in Readers \ {r} : reader[q].pc = "idle"
  BY <1>1, Alone
<1>3. /\ Removed \in Nat /\ Published \in Nat /\ Removed < Published
      /\ reader[r].entry = Node(block, Removed + 1)
      /\ reader[r].prev = Node(block, Removed + 2)
      /\ writer.pc # "idle" => Removed + 1 < Published
  BY <1>1 DEF Stages, Chain, Hands, Removing
<1>n. /\ \A k \in Removed + 1 .. Published :
           /\ Node(block, k) = block[k] /\ Node(block, k) \in live /\ Node(block, k) \in Items
           /\ ctrl[Node(block, k)] = k
      /\ \A k \in Int : k \notin Removed + 1 .. Published => Node(block, k) = Hdr
      /\ \A j, k \in Removed .. Published : Node(block, j) = Node(block, k) => j = k
      /\ \A k \in Int : Node(block, k) \in Nodes /\ Valid(Node(block, k))
  BY NodeOf DEF Chain
<1>4. /\ flink' = [flink EXCEPT ![Node(block, Removed + 2)] = Hdr]
      /\ reader' = [reader EXCEPT ![r].pc = "copy"]
      /\ UNCHANGED <<blink, ctrl, live, writer, written, taken, refusals, bugcheck>>
  BY <1>3, <1>n DEF ReadClose
<1>5. /\ reader'[r].pc = "copy" /\ reader'[r].entry = reader[r].entry
      /\ \A q \in Readers \ {r} : reader'[q] = reader[q]
  BY <1>4 DEF TypeOK
<1>6. UNCHANGED <<blink, ctrl, live, writer, written, taken, refusals, bugcheck>>
  BY <1>4
<1>7. Copying = {} /\ Copying' = {r}
  BY <1>1, <1>2, <1>5 DEF Copying
<1>8. /\ UNCHANGED Published /\ Removed' = Removed + 1 /\ Removed = Len(taken)
  BY <1>6, <1>7 DEF Removed, Published
<1>0. \A k \in Int : Node(shorter, k)' = Node(shorter, k)
  BY DEF Node
<1>9. /\ Node(shorter, Removed + 1) = Hdr
      /\ \A k \in Int : k # Removed + 1 => Node(shorter, k) = Node(block, k)
  <2>1. DOMAIN shorter = Removed + 2 .. Published
    BY <1>3
  <2>2. Node(shorter, Removed + 1) = Hdr
    BY <2>1, <1>3 DEF Node
  <2>3. ASSUME NEW k \in Int, k # Removed + 1
        PROVE  Node(shorter, k) = Node(block, k)
    <3>1. CASE k \in Removed + 2 .. Published
      BY <3>1, <2>1, <1>n, <1>3 DEF Node
    <3>2. CASE k \notin Removed + 2 .. Published
      <4>1. k \notin Removed + 1 .. Published
        BY <3>2, <2>3, <1>3
      <4> QED
        BY <4>1, <3>2, <2>1, <1>n DEF Node
    <3> QED
      BY <3>1, <3>2
  <2> QED
    BY <2>2, <2>3
<1>10. Stages'
  <2>1. \A q, s \in Readers : reader'[q].pc # "idle" /\ reader'[s].pc # "idle" => q = s
    BY <1>2, <1>5
  <2>2. \A q \in Readers :
          /\ reader'[q].pc # "tail"
          /\ reader'[q].pc \in {"copy", "free"} => q = r
    BY <1>2, <1>5
  <2>3. reader'[r].entry \in live' /\ ctrl'[reader'[r].entry] = Removed'
    <3>1. Removed + 1 \in Removed + 1 .. Published
      BY <1>3
    <3> QED
      BY <3>1, <1>n, <1>3, <1>5, <1>6, <1>8
  <2>4. Removed' \in 0 .. Published'
    BY <1>3, <1>8
  <2>5. writer.pc = "publish" => flink'[writer.item] = writer.next
    <3> SUFFICES ASSUME writer.pc = "publish" PROVE flink'[writer.item] = writer.next
      OBVIOUS
    <3>1. writer.item \in Items /\ ctrl[writer.item] = written /\ flink[writer.item] = writer.next
          /\ Published + 1 = written
      BY DEF Stages, TypeOK, Published
    <3>2. Removed + 2 \in Removed + 1 .. Published
      BY <1>3
    <3>3. Node(block, Removed + 2) # writer.item
      BY <3>1, <3>2, <1>n, <1>3
    <3> QED
      BY <3>1, <3>3, <1>4 DEF TypeOK, Nodes
  <2> QED
    BY <2>1, <2>2, <2>3, <2>4, <2>5, <1>6 DEF Stages
<1>11. Blocks(shorter)'
  <2>1. shorter \in [(Removed + 1) + 1 .. Published -> live]
    BY <1>3 DEF Chain, Blocks
  <2>2. \A k \in DOMAIN shorter : ctrl[shorter[k]] = k
    BY <1>3 DEF Chain, Blocks
  <2> QED
    BY <2>1, <2>2, <1>6, <1>8 DEF Blocks
<1>12. Forward(shorter)'
  <2>1. ASSUME NEW k \in Removed + 1 .. Published
        PROVE  flink'[Node(shorter, k + 1)] = Node(shorter, k)
    <3>1. k \in Int /\ k + 1 \in Int /\ Node(shorter, k + 1) = Node(block, k + 1)
      BY <1>3, <1>9
    <3>2. CASE k = Removed + 1
      <4>1. flink'[Node(block, Removed + 2)] = Hdr
        BY <1>3, <1>4, <1>n DEF TypeOK
      <4> QED
        BY <4>1, <3>1, <3>2, <1>9, <1>3
    <3>3. CASE k # Removed + 1
      <4>1. Node(shorter, k) = Node(block, k) /\ flink[Node(block, k + 1)] = Node(block, k)
        BY <3>1, <3>3, <1>9, <1>3 DEF Chain, Forward
      <4>2. Node(block, k + 1) # Node(block, Removed + 2)
        <5>1. Removed + 2 \in Removed + 1 .. Published
          BY <3>3, <1>3
        <5>2. CASE k = Published
          BY <5>1, <5>2, <1>n, <1>3
        <5>3. CASE k # Published
          BY <5>1, <5>3, <3>3, <1>n, <1>3
        <5> QED
          BY <5>2, <5>3
      <4> QED
        BY <3>1, <4>1, <4>2, <1>4, <1>n DEF TypeOK
    <3> QED
      BY <3>2, <3>3
  <2>2. \A k \in Int : Node(shorter, k + 1)' = Node(shorter, k + 1)
    BY <1>0
  <2> QED
    BY <2>1, <2>2, <1>0, <1>8, <1>3 DEF Forward
<1>13. Backward(shorter)'
  <2>1. ASSUME NEW k \in Removed + 1 .. Published
        PROVE  blink[Node(shorter, k)] =
                 IF k = Published /\ writer.pc = "publish" THEN writer.item
                 ELSE Node(shorter, k + 1)
    <3>1. k \in Int /\ k + 1 \in Int /\ Node(shorter, k + 1) = Node(block, k + 1)
      BY <1>3, <1>9
    <3>2. CASE k = Removed + 1
      <4>1. Node(block, Removed) = Hdr /\ Node(shorter, k) = Hdr
        BY <3>2, <1>9, <1>n, <1>3
      <4>2. blink[Node(block, Removed)] = Node(block, Removed + 2)
        BY <1>1, <1>3 DEF Chain, Backward
      <4>3. ~(k = Published /\ writer.pc = "publish")
        BY <3>2, <1>3
      <4> QED
        BY <4>1, <4>2, <4>3, <3>1, <3>2, <1>3
    <3>3. CASE k # Removed + 1
      <4>1. Node(shorter, k) = Node(block, k) /\ k # Removed /\ k \in Removed .. Published
        BY <3>1, <3>3, <1>9, <1>3
      <4> QED
        BY <4>1, <3>1 DEF Chain, Backward
    <3> QED
      BY <3>2, <3>3
  <2>2. \A k \in Int : Node(shorter, k + 1)' = Node(shorter, k + 1)
    BY <1>0
  <2>3. ~\E q \in Readers : reader'[q].pc = "close"
    BY <1>2, <1>5
  <2> QED
    BY <2>1, <2>2, <2>3, <1>0, <1>6, <1>8, <1>3 DEF Backward
<1>14. Hands(shorter)'
  <2>1. \A q \in Readers : reader'[q].pc \notin {"prev", "unlink", "close"}
    BY <1>2, <1>5
  <2>2. writer.pc # "idle" => writer.next = Node(shorter, Published)
    BY <1>3, <1>9 DEF Chain, Hands
  <2>3. Node(shorter, Published)' = Node(shorter, Published)
    BY <1>8 DEF Node
  <2> QED
    BY <2>1, <2>2, <2>3, <1>6, <1>8 DEF Hands, Removing
<1> QED
  BY <1>3, <1>6, <1>7, <1>8, <1>10, <1>11, <1>12, <1>13, <1>14 DEF Chain

(* What a reader does after the entry has left the list.                   *)
LEMMA ReaderLeaves ==
  ASSUME NEW block, Whole(block), NEW r \in Readers,
         reader[r].pc \in {"copy", "free"}, reader'[r].pc \in {"free", "idle"},
         \A q \in Readers \ {r} : reader[q].pc = "idle" /\ reader'[q] = reader[q],
         reader'[r].pc = "free" => reader'[r].entry = reader[r].entry /\ live' = live,
         live \ {reader[r].entry} \subseteq live',
         UNCHANGED <<flink, blink, ctrl, writer, written, bugcheck, Removed>>
  PROVE  bugcheck' = "none" /\ Stages' /\ Chain(block)' /\ UNCHANGED Published
<1> USE Counts, Distinct DEF Whole
<1>1. UNCHANGED Published
  BY DEF Published
<1>2. Removed \in Nat /\ Published \in Nat /\ Removed <= Published
      /\ reader[r].entry \in live /\ ctrl[reader[r].entry] = Removed
  BY DEF Stages
<1>0. \A k \in Int : Node(block, k)' = Node(block, k)
  BY DEF Node
<1>3. Stages'
  <2>1. \A q, s \in Readers : reader'[q].pc # "idle" /\ reader'[s].pc # "idle" => q = s
    OBVIOUS
  <2>2. \A q \in Readers :
          /\ reader'[q].pc # "tail"
          /\ reader'[q].pc \in {"copy", "free"} =>
               reader'[q].entry \in live' /\ ctrl[reader'[q].entry] = Removed
    BY <1>2
  <2>3. writer.pc # "idle" => writer.item \in live' /\ ctrl[writer.item] = written
    <3> SUFFICES ASSUME writer.pc # "idle"
                 PROVE  writer.item \in live' /\ ctrl[writer.item] = written
      OBVIOUS
    <3>1. writer.item \in live /\ ctrl[writer.item] = written
      BY DEF Stages
    <3>2. Published + 1 = written
      BY DEF Published
    <3> QED
      BY <3>1, <3>2, <1>2
  <2>4. writer.pc = "publish" => flink[writer.item] = writer.next /\ blink[writer.item] = Hdr
    BY DEF Stages
  <2>5. Removed \in 0 .. Published
    BY <1>2
  <2> QED
    BY <2>1, <2>2, <2>3, <2>4, <2>5, <1>1 DEF Stages
<1>4. Blocks(block)'
  <2>1. \A k \in DOMAIN block : block[k] \in live'
    BY <1>2 DEF Chain, Blocks
  <2>2. block \in [Removed + 1 .. Published -> live']
    BY <2>1 DEF Chain, Blocks
  <2> QED
    BY <2>2, <1>1 DEF Chain, Blocks
<1>5. Forward(block)'
  BY <1>0, <1>1, <1>2 DEF Chain, Forward
<1>6. Backward(block)'
  <2>1. (~\E q \in Readers : reader[q].pc = "close") /\ ~\E q \in Readers : reader'[q].pc = "close"
    OBVIOUS
  <2>2. \A k \in Int : Node(block, k + 1)' = Node(block, k + 1)
    BY <1>0
  <2> QED
    BY <2>1, <2>2, <1>0, <1>1, <1>2 DEF Chain, Backward
<1>7. Hands(block)'
  <2>1. \A q \in Readers : reader'[q].pc \notin {"prev", "unlink", "close"}
    OBVIOUS
  <2>2. writer.pc # "idle" => writer.next = Node(block, Published)
    BY DEF Chain, Hands
  <2>3. Node(block, Published)' = Node(block, Published)
    BY <1>1 DEF Node
  <2> QED
    BY <2>1, <2>2, <2>3, <1>1 DEF Hands, Removing
<1> QED
  BY <1>1, <1>3, <1>4, <1>5, <1>6, <1>7 DEF Chain

LEMMA ReadCopyKeeps ==
  ASSUME NEW block, Whole(block), NEW r \in Readers, ReadCopy(r)
  PROVE  /\ bugcheck' = "none" /\ Stages' /\ Chain(block)'
         /\ UNCHANGED <<Removed, Published, refusals>>
         /\ taken' = Append(taken, Removed) /\ Copying = {r} /\ Copying' = {}
<1> USE Counts, Distinct DEF Whole
<1>1. reader[r].pc = "copy"
  BY DEF ReadCopy
<1>2. \A q \in Readers \ {r} : reader[q].pc = "idle"
  BY <1>1, Alone
<1>3. reader[r].entry \in live /\ ctrl[reader[r].entry] = Removed
  BY <1>1 DEF Stages
<1>4. /\ taken' = Append(taken, Removed) /\ reader' = [reader EXCEPT ![r].pc = "free"]
      /\ UNCHANGED <<flink, blink, ctrl, live, writer, written, refusals, bugcheck>>
  BY <1>3 DEF ReadCopy, links
<1>5. /\ reader'[r].pc = "free" /\ reader'[r].entry = reader[r].entry
      /\ \A q \in Readers \ {r} : reader'[q] = reader[q]
  BY <1>4 DEF TypeOK
<1>6. UNCHANGED <<flink, blink, ctrl, live, writer, written, refusals, bugcheck>>
  BY <1>4
<1>7. Copying = {r} /\ Copying' = {}
  BY <1>1, <1>2, <1>5 DEF Copying
<1>8. Len(taken') = Len(taken) + 1
  BY <1>4, AppendProperties DEF TypeOK
<1>9. UNCHANGED Removed
  BY <1>7, <1>8 DEF Removed
<1>10. bugcheck' = "none" /\ Stages' /\ Chain(block)' /\ UNCHANGED Published
  BY <1>1, <1>2, <1>5, <1>6, <1>9, ReaderLeaves
<1> QED
  BY <1>4, <1>7, <1>9, <1>10

LEMMA ReadFreeKeeps ==
  ASSUME NEW block, Whole(block), NEW r \in Readers, ReadFree(r)
  PROVE  /\ bugcheck' = "none" /\ Stages' /\ Chain(block)'
         /\ UNCHANGED <<Removed, Published, taken, Copying, refusals>>
<1> USE Counts, Distinct DEF Whole
<1>1. reader[r].pc = "free"
  BY DEF ReadFree
<1>2. \A q \in Readers \ {r} : reader[q].pc = "idle"
  BY <1>1, Alone
<1>3. reader[r].entry \in live
  BY <1>1 DEF Stages
<1>4. /\ live' = live \ {reader[r].entry} /\ reader' = [reader EXCEPT ![r] = NoRead]
      /\ UNCHANGED <<flink, blink, ctrl, writer, written, taken, refusals, bugcheck>>
  BY <1>3 DEF ReadFree, links
<1>5. reader'[r].pc = "idle" /\ \A q \in Readers \ {r} : reader'[q] = reader[q]
  BY <1>4 DEF TypeOK, NoRead
<1>6. Copying = {} /\ Copying' = {}
  BY <1>1, <1>2, <1>5 DEF Copying
<1>7. UNCHANGED Removed
  BY <1>4, <1>6 DEF Removed
<1>8. bugcheck' = "none" /\ Stages' /\ Chain(block)' /\ UNCHANGED Published
  BY <1>1, <1>2, <1>4, <1>5, <1>7, ReaderLeaves
<1> QED
  BY <1>4, <1>6, <1>7, <1>8

------------------------------------------------------------------------------
(* The invariant                                                           *)

(* What a step does to the numbers of the commands.                        *)
Same     == UNCHANGED <<Removed, Published, taken, Copying, refusals>>
Notified == /\ UNCHANGED <<Removed, taken, Copying, refusals>>
            /\ Published' = Published + 1 /\ Published + 1 = written
Unlinked == /\ UNCHANGED <<Published, taken, refusals>>
            /\ Removed < Published /\ Removed' = Removed + 1
            /\ Copying = {} /\ Copying' # {}
Copied   == /\ UNCHANGED <<Removed, Published, refusals>>
            /\ taken' = Append(taken, Removed) /\ Copying # {} /\ Copying' = {}
Refused  == /\ UNCHANGED <<Removed, Published, taken, Copying>>
            /\ refusals' = 1 - refusals /\ Removed = Published

LEMMA FaultsStay == [Next]_clVars /\ Intact' => Intact
BY DEF Next, ptzNotifyApp, GetUvcCmd, Stopped, clVars, Intact, InsertRead, InsertLink,
   InsertPublish, ReadEmpty, ReadRefused, ReadCheck, ReadTail, ReadPrev, ReadUnlink, ReadClose, ReadCopy,
   ReadFree

(* A chain after the step, of allocated blocks.                            *)
LEMMA ChainIsBounded ==
  ASSUME bugcheck' = "none", Stages', NEW block, Chain(block)'
  PROVE  InStep'
<1>1. block \in [Removed' + 1 .. Published' -> live']
  BY DEF Chain, Blocks
<1> QED
  BY <1>1 DEF InStep

(* As long as the accesses do not overlap, every step keeps the list, and  *)
(* does one of five things to the numbers.                                 *)
LEMMA CalmStep ==
  ASSUME TypeOK, InStep, Intact', [Next]_clVars
  PROVE  InStep' /\ (Same \/ Notified \/ Unlinked \/ Copied \/ Refused)
<1>1. PICK block : Chain(block)
  BY DEF InStep
<1>2. Whole(block)
  BY <1>1 DEF Whole, InStep
<1>3. ASSUME NEW e \in Items, InsertRead(e)
      PROVE  InStep' /\ Same
  <2>1. bugcheck' = "none" /\ Stages' /\ Chain(block)' /\ Same
    BY <1>2, <1>3, InsertReadKeeps DEF Same, Copying
  <2> QED
    BY <2>1, ChainIsBounded
<1>4. CASE InsertLink
  <2>1. bugcheck' = "none" /\ Stages' /\ Chain(block)' /\ Same
    BY <1>2, <1>4, InsertLinkKeeps DEF Same, Copying
  <2> QED
    BY <2>1, ChainIsBounded
<1>5. CASE InsertPublish
  <2>1. PICK longer :
          longer = [k \in Removed + 1 .. written |-> IF k = written THEN writer.item ELSE block[k]]
    OBVIOUS
  <2>2. bugcheck' = "none" /\ Stages' /\ Chain(longer)' /\ Notified
    BY <1>2, <1>5, <2>1, InsertPublishKeeps DEF Notified, Copying
  <2> QED
    BY <2>2, ChainIsBounded
<1>6. ASSUME NEW r \in Readers, ReadEmpty(r)
      PROVE  InStep' /\ Refused
  <2>1. bugcheck' = "none" /\ Stages' /\ Chain(block)' /\ Refused
    BY <1>2, <1>6, ReadEmptyKeeps DEF Refused, Copying
  <2> QED
    BY <2>1, ChainIsBounded
<1>7. ASSUME NEW r \in Readers,
             ReadCheck(r) \/ ReadTail(r) \/ ReadPrev(r) \/ ReadUnlink(r) \/ ReadFree(r)
      PROVE  InStep' /\ Same
  <2>1. bugcheck' = "none" /\ Stages' /\ Chain(block)' /\ Same
    BY <1>2, <1>7, ReadCheckKeeps, ReadTailKeeps, ReadPrevKeeps, ReadUnlinkKeeps, ReadFreeKeeps
       DEF Same
  <2> QED
    BY <2>1, ChainIsBounded
<1>8. ASSUME NEW r \in Readers, ReadClose(r)
      PROVE  InStep' /\ Unlinked
  <2>1. PICK shorter : shorter = [k \in Removed + 2 .. Published |-> block[k]]
    OBVIOUS
  <2>2. bugcheck' = "none" /\ Stages' /\ Chain(shorter)' /\ Unlinked
    BY <1>2, <1>8, <2>1, ReadCloseKeeps DEF Unlinked
  <2> QED
    BY <2>2, ChainIsBounded
<1>9. ASSUME NEW r \in Readers, ReadCopy(r)
      PROVE  InStep' /\ Copied
  <2>1. bugcheck' = "none" /\ Stages' /\ Chain(block)' /\ Copied
    BY <1>2, <1>9, ReadCopyKeeps DEF Copied
  <2> QED
    BY <2>1, ChainIsBounded
<1>10. CASE Stopped \/ UNCHANGED clVars
  <2>1. UNCHANGED <<flink, blink, ctrl, live, writer, reader, written, taken, refusals, bugcheck>>
    BY <1>10 DEF Stopped, clVars, links
  <2>2. UNCHANGED <<Removed, Published, Copying>>
    BY <2>1 DEF Removed, Published, Copying
  <2>3. \A k \in Int : Node(block, k)' = Node(block, k)
    BY DEF Node
  <2>4. Stages'
    BY <1>2, <2>1, <2>2 DEF Whole, Stages
  <2>5. Chain(block)'
    BY <1>2, <2>1, <2>2, <2>3 DEF Whole, Chain, Blocks, Forward, Backward, Hands, Removing
  <2>6. bugcheck' = "none"
    BY <1>2, <2>1 DEF Whole
  <2> QED
    BY <2>1, <2>2, <2>4, <2>5, <2>6, ChainIsBounded DEF Same
<1> QED
  BY <1>3, <1>4, <1>5, <1>6, <1>7, <1>8, <1>9, <1>10
     DEF Next, ptzNotifyApp, GetUvcCmd, ReadRefused

LEMMA StepKeepsIInv == IInv /\ [Next]_clVars => IInv'
<1> SUFFICES ASSUME IInv, [Next]_clVars PROVE IInv'
  OBVIOUS
<1>1. TypeOK'
  <2>1. CASE Stopped \/ UNCHANGED clVars
    BY <2>1 DEF Stopped, clVars, links, TypeOK, IInv
  <2> QED
    BY <2>1, InsertTyped, ReadTyped DEF Next, IInv
<1>2. Intact' => InStep'
  BY FaultsStay, CalmStep DEF IInv
<1> QED
  BY <1>1, <1>2 DEF IInv

THEOREM Invariant == Spec => []IInv
BY InitInStep, StepKeepsIInv, PTL DEF Spec

(* BreaksOnlyByOverlap: the kernel never finds the list broken, and        *)
(* nothing freed is touched, unless a writer and a reader meet at the last *)
(* entry or two threads read at the same time.                             *)
THEOREM BreaksByOverlap == Spec => []BreaksOnlyByOverlap
<1>1. IInv => BreaksOnlyByOverlap
  BY DEF IInv, Intact, InStep, BreaksOnlyByOverlap
<1> QED
  BY <1>1, Invariant, PTL

(* ListIntact: until then the list holds exactly the commands that were    *)
(* notified and not removed, in order, in both directions when nobody is   *)
(* inside a list function.                                                 *)
THEOREM HoldsTheCommands == Spec => []ListIntact
<1>1. IInv => ListIntact
  <2> SUFFICES ASSUME IInv, Intact PROVE ListIntact
    BY DEF ListIntact
  <2>1. PICK block \in [Removed + 1 .. Published -> live] : Chain(block)
    BY DEF IInv, InStep
  <2>2. Quiet =>
          \A k \in Removed .. Published : blink[Node(block, k)] = Node(block, k + 1)
    BY <2>1 DEF Chain, Backward, Quiet, Removing
  <2> QED
    BY <2>1, <2>2 DEF Chain, Blocks, Forward, ListIntact
<1> QED
  BY <1>1, Invariant, PTL

------------------------------------------------------------------------------
(* The list is a queue                                                     *)

(* The commands a + 1, ..., a + n.                                         *)
Run(a, n) == [i \in 1 .. n |-> a + i]

LEMMA RunIsSeq ==
  ASSUME NEW a \in Nat, NEW n \in Nat
  PROVE  Run(a, n) \in Seq(Nat) /\ Len(Run(a, n)) = n /\ (Run(a, n) = <<>> <=> n = 0)
<1>1. Run(a, n) \in Seq(Nat) /\ Len(Run(a, n)) = n
  BY DEF Run
<1> QED
  BY <1>1, EmptySeq, LenProperties

LEMMA RunAppend ==
  ASSUME NEW a \in Nat, NEW n \in Nat
  PROVE  Append(Run(a, n), a + n + 1) = Run(a, n + 1)
BY RunIsSeq DEF Run

LEMMA RunTail ==
  ASSUME NEW a \in Nat, NEW n \in Nat \ {0}
  PROVE  Head(Run(a, n)) = a + 1 /\ Tail(Run(a, n)) = Run(a + 1, n - 1)
<1>1. Run(a, n) \in Seq(Nat) /\ Len(Run(a, n)) = n /\ Run(a, n) # <<>>
  BY RunIsSeq
<1>2. Run(a, n)[1] = a + 1 /\ \A i \in 1 .. n - 1 : Run(a, n)[i + 1] = (a + 1) + i
  BY DEF Run
<1>3. Head(Run(a, n)) = a + 1
  BY <1>1, <1>2
<1>4. /\ Tail(Run(a, n)) \in Seq(Nat) /\ Len(Tail(Run(a, n))) = n - 1
      /\ \A i \in 1 .. n - 1 : Tail(Run(a, n))[i] = (a + 1) + i
  BY <1>1, <1>2, HeadTailProperties
<1>5. Run(a + 1, n - 1) \in Seq(Nat) /\ Len(Run(a + 1, n - 1)) = n - 1
  BY RunIsSeq
<1>6. \A i \in 1 .. n - 1 : Run(a + 1, n - 1)[i] = (a + 1) + i
  BY DEF Run
<1>7. Tail(Run(a, n)) = Run(a + 1, n - 1)
  BY <1>4, <1>5, <1>6, SeqEqual
<1> QED
  BY <1>3, <1>7

LEMMA FetchedIs ==
  Stages => Fetched = IF Copying = {} THEN taken ELSE Append(taken, Removed)
<1> SUFFICES ASSUME Stages, Copying # {}
             PROVE  Fetched = Append(taken, Removed)
  BY DEF Fetched
<1>1. (CHOOSE r \in Copying : TRUE) \in Copying
  OBVIOUS
<1> QED
  BY <1>1 DEF Fetched, Stages, Copying

LEMMA FetchedIsNext ==
  Stages' => Fetched' = IF Copying' = {} THEN taken' ELSE Append(taken', Removed')
<1>1. (Stages => Fetched = IF Copying = {} THEN taken ELSE Append(taken, Removed))'
  BY FetchedIs, PTL
<1> QED
  BY <1>1

LEMMA StartsEmpty == Init => Abstract!Empty
<1> SUFFICES ASSUME Init PROVE Abstract!Empty
  OBVIOUS
<1>1. Copying = {} /\ taken = <<>> /\ written = 0 /\ writer.pc = "idle" /\ Intact
  BY DEF Init, Copying, NoRead, NoWrite, Intact
<1>2. Removed = 0 /\ Published = 0
  BY <1>1 DEF Removed, Published
<1>3. [i \in 1 .. Published - Removed |-> Removed + i] = <<>>
  BY <1>2
<1> QED
  BY <1>1, <1>3 DEF Abstract!Empty, Fetched, Init

(* One step of the list is one step of the queue, or none.                 *)
LEMMA StepsAsQueue == IInv /\ IInv' /\ [Next]_clVars => [Abstract!Use]_Abstract!cqVars
<1> SUFFICES ASSUME IInv, IInv', [Next]_clVars
             PROVE  Abstract!Use \/ UNCHANGED Abstract!cqVars
  OBVIOUS
<1> USE DEF Abstract!Use, Abstract!cqVars, Abstract!Notify, Abstract!Fetch, Abstract!Refuse,
            Abstract!Break
<1>1. CASE ~Intact
  <2>1. ~Intact'
    BY <1>1, FaultsStay
  <2> QED
    BY <1>1, <2>1
<1>2. CASE Intact /\ ~Intact'
  BY <1>2
<1>3. CASE Intact /\ Intact'
  <2> DEFINE queue == [i \in 1 .. Published - Removed |-> Removed + i]
  <2>1. TypeOK /\ InStep /\ Stages /\ Stages'
    BY <1>3 DEF IInv, InStep
  <2>2. /\ Removed \in Nat /\ Published \in Nat /\ Removed <= Published /\ Published <= written
        /\ written \in 0 .. MaxInserts
    <3>1. Removed \in Nat /\ Published \in Int /\ written \in Nat
      BY <2>1, Counts
    <3> QED
      BY <3>1, <2>1 DEF Stages, TypeOK, Published
  <2>3. /\ Fetched = IF Copying = {} THEN taken ELSE Append(taken, Removed)
        /\ Fetched' = IF Copying' = {} THEN taken' ELSE Append(taken', Removed')
    BY <2>1, FetchedIs, FetchedIsNext
  <2>4. queue = Run(Removed, Published - Removed)
    BY DEF Run
  <2>5. queue' = Run(Removed', Published' - Removed')
    BY DEF Run
  <2>q. /\ (IF Intact THEN [i \in 1 .. Published - Removed |-> Removed + i] ELSE <<>>) = queue
        /\ (IF Intact THEN [i \in 1 .. Published - Removed |-> Removed + i] ELSE <<>>)' = queue'
    BY <1>3
  <2> HIDE DEF queue
  <2>6. CASE Same
    <3>1. queue' = queue /\ Fetched' = Fetched
      BY <2>6, <2>3, <2>4, <2>5 DEF Same
    <3> QED
      BY <3>1, <2>q, <2>6, <1>3 DEF Same
  <2>7. CASE Notified
    <3>0. Fetched' = Fetched
      BY <2>7, <2>3 DEF Notified
    <3>1. queue' = Append(queue, Published + 1)
      <4> DEFINE n == Published - Removed
      <4>1. n \in Nat /\ Published + 1 = Removed + n + 1 /\ Published' - Removed' = n + 1
        BY <2>7, <2>2 DEF Notified
      <4>2. queue = Run(Removed, n) /\ queue' = Run(Removed, n + 1)
        BY <4>1, <2>4, <2>5, <2>7 DEF Notified
      <4>3. Append(Run(Removed, n), Removed + n + 1) = Run(Removed, n + 1)
        BY <4>1, <2>2, RunAppend
      <4> QED
        BY <4>1, <4>2, <4>3
    <3>2. Published + 1 \in 1 .. MaxInserts
      BY <2>7, <2>2 DEF Notified
    <3> QED
      BY <3>0, <3>1, <3>2, <2>q, <2>7, <1>3 DEF Notified
  <2>8. CASE Unlinked
    <3>1. queue # <<>> /\ Head(queue) = Removed + 1 /\ queue' = Tail(queue)
      <4> DEFINE n == Published - Removed
      <4>1. n \in Nat \ {0} /\ Published' - Removed' = n - 1
        BY <2>8, <2>2 DEF Unlinked
      <4>2. queue = Run(Removed, n) /\ queue' = Run(Removed + 1, n - 1)
        BY <4>1, <2>4, <2>5, <2>8 DEF Unlinked
      <4> HIDE DEF n
      <4> QED
        BY <4>1, <4>2, <2>2, RunIsSeq, RunTail
    <3>2. Fetched' = Append(Fetched, Removed + 1)
      BY <2>8, <2>3 DEF Unlinked
    <3> QED
      BY <3>1, <3>2, <2>q, <2>8, <1>3 DEF Unlinked
  <2>9. CASE Copied
    <3>1. queue' = queue /\ Fetched' = Fetched
      BY <2>9, <2>3, <2>4, <2>5 DEF Copied
    <3> QED
      BY <3>1, <2>q, <2>9, <1>3 DEF Copied
  <2>10. CASE Refused
    <3>1. queue = <<>> /\ queue' = queue /\ Fetched' = Fetched
      BY <2>10, <2>2, <2>3, <2>4, <2>5, RunIsSeq DEF Refused
    <3> QED
      BY <3>1, <2>q, <2>10, <1>3 DEF Refused
  <2> QED
    BY <2>1, <2>6, <2>7, <2>8, <2>9, <2>10, <1>3, CalmStep
<1> QED
  BY <1>1, <1>2, <1>3

(* IsAQueue: until two accesses overlap in one of the two ways, each       *)
(* command is handed to the application once, the oldest first, and "no    *)
(* more matches" is answered only when there is none.                      *)
THEOREM ImplementsQueue == Spec => IsAQueue
BY StartsEmpty, StepsAsQueue, Invariant, PTL DEF Spec, IsAQueue, Abstract!Queue

------------------------------------------------------------------------------
(* One reader at a time                                                    *)

(* A reader that has found the list not empty finds it so until it has     *)
(* removed an entry, as nobody else removes one, and has a block in hand   *)
(* from then on; the writer may do what it likes.                          *)
OneReader ==
  "two_readers" \notin faults =>
    /\ \A q, r \in Readers : reader[q].pc # "idle" /\ reader[r].pc # "idle" => q = r
    /\ \A r \in Readers :
         /\ reader[r].pc \in {"tail", "prev"} => flink[Hdr] # Hdr
         /\ reader[r].pc \in {"unlink", "close", "copy", "free"} => reader[r].entry # Hdr

LEMMA InsertKeepsOneReader ==
  ASSUME TypeOK, OneReader, ptzNotifyApp
  PROVE  OneReader'
<1>1. UNCHANGED reader
  BY DEF ptzNotifyApp, InsertRead, InsertLink, InsertPublish, Stop
<1>2. "two_readers" \notin faults' => "two_readers" \notin faults
  BY DEF ptzNotifyApp, InsertRead, InsertLink, InsertPublish
<1>3. writer.item # Hdr
  BY Distinct DEF TypeOK
<1>4. flink[Hdr] # Hdr => flink'[Hdr] # Hdr
  <2>1. ASSUME NEW e \in Items, InsertRead(e) PROVE UNCHANGED flink
    BY <2>1 DEF InsertRead, Stop, links
  <2>2. CASE InsertLink
    BY <2>2, <1>3 DEF InsertLink, Stop, links, TypeOK, Nodes
  <2>3. CASE InsertPublish
    BY <2>3, <1>3 DEF InsertPublish, TypeOK, Nodes
  <2> QED
    BY <2>1, <2>2, <2>3 DEF ptzNotifyApp
<1> QED
  BY <1>1, <1>2, <1>4 DEF OneReader

LEMMA ReadKeepsOneReader ==
  ASSUME TypeOK, OneReader, NEW r \in Readers, GetUvcCmd(r)
  PROVE  OneReader'
<1> SUFFICES ASSUME "two_readers" \notin faults' PROVE OneReader'
  BY DEF OneReader
<1>1. "two_readers" \notin faults
  BY DEF GetUvcCmd, ReadEmpty, ReadRefused, clVars, ReadCheck, ReadTail, ReadPrev, ReadUnlink,
     ReadClose, ReadCopy, ReadFree
(* The others are idle, before the step and after it. *)
<1>2. \A q \in Readers \ {r} : reader[q].pc = "idle" \/ ReadEmpty(r) \/ ReadRefused(r)
  <2>1. CASE reader[r].pc # "idle"
    BY <2>1, <1>1 DEF OneReader
  <2>2. CASE reader[r].pc = "idle"
    BY <2>2 DEF GetUvcCmd, ReadCheck, ReadTail, ReadPrev, ReadUnlink, ReadClose, ReadCopy,
       ReadFree
  <2> QED
    BY <2>1, <2>2
<1>3. \A q \in Readers \ {r} : reader'[q] = reader[q]
  BY DEF GetUvcCmd, ReadEmpty, ReadRefused, clVars, ReadCheck, ReadTail, ReadPrev, ReadUnlink,
     ReadClose, ReadCopy, ReadFree, Stop, TypeOK
<1>4. CASE ReadEmpty(r) \/ ReadRefused(r)
  BY <1>4, <1>1 DEF ReadEmpty, ReadRefused, clVars, OneReader, links
<1>5. SUFFICES ASSUME \A q \in Readers \ {r} : reader[q].pc = "idle"
               PROVE  /\ reader'[r].pc \in {"tail", "prev"} => flink'[Hdr] # Hdr
                      /\ reader'[r].pc \in {"unlink", "close", "copy", "free"} =>
                           reader'[r].entry # Hdr
  BY <1>2, <1>3, <1>4 DEF OneReader
<1>6. CASE ReadCheck(r)
  BY <1>6 DEF ReadCheck, TypeOK, links
<1>7. CASE ReadTail(r)
  <2>1. reader[r].pc = "tail" /\ reader'[r].pc = "prev" /\ UNCHANGED flink
    BY <1>7 DEF ReadTail, TypeOK, links
  <2> QED
    BY <2>1, <1>1 DEF OneReader
<1>8. CASE ReadPrev(r)
  <2>1. CASE UNCHANGED <<reader, flink>>
    BY <2>1, <1>1 DEF OneReader
  <2>2. CASE ~UNCHANGED <<reader, flink>>
    <3>1. /\ reader[r].pc = "prev" /\ flink[reader[r].entry] = Hdr
          /\ reader'[r].pc = "unlink" /\ reader'[r].entry = reader[r].entry
      BY <1>8, <2>2 DEF ReadPrev, Stop, TypeOK, links
    <3>2. flink[Hdr] # Hdr
      BY <3>1, <1>1 DEF OneReader
    <3> QED
      BY <3>1, <3>2
  <2> QED
    BY <2>1, <2>2
<1>9. CASE ReadUnlink(r) \/ ReadClose(r) \/ ReadCopy(r)
  <2>1. /\ reader[r].pc \in {"unlink", "close", "copy"}
        /\ reader'[r].pc \in {"unlink", "close", "copy", "free"}
        /\ reader'[r].entry = reader[r].entry
    BY <1>9 DEF ReadUnlink, ReadClose, ReadCopy, Stop, TypeOK
  <2> QED
    BY <2>1, <1>1 DEF OneReader
<1>10. CASE ReadFree(r)
  <2>1. CASE UNCHANGED reader
    BY <2>1, <1>10, <1>1 DEF OneReader, ReadFree
  <2>2. CASE ~UNCHANGED reader
    BY <2>2, <1>10 DEF ReadFree, Stop, NoRead, TypeOK
  <2> QED
    BY <2>1, <2>2
<1>11. CASE ReadEmpty(r) \/ ReadRefused(r)
  BY <1>11, <1>1 DEF ReadEmpty, ReadRefused, clVars, OneReader, links
<1> QED
  BY <1>6, <1>7, <1>8, <1>9, <1>10, <1>11 DEF GetUvcCmd

(* HeaderNeverFreed: with one reader at a time RemoveTailList never hands  *)
(* out the header, which IOCTL_GET_UVC_CMD would free.                     *)
THEOREM NeverFreesHeader == Spec => []HeaderNeverFreed
<1>1. Init => OneReader
  BY DEF Init, OneReader, NoRead
<1>2. TypeOK /\ OneReader /\ [Next]_clVars => OneReader'
  <2> SUFFICES ASSUME TypeOK, OneReader, [Next]_clVars PROVE OneReader'
    OBVIOUS
  <2>1. CASE Stopped \/ UNCHANGED clVars
    BY <2>1 DEF Stopped, clVars, links, OneReader
  <2> QED
    BY <2>1, InsertKeepsOneReader, ReadKeepsOneReader DEF Next
<1>3. OneReader => HeaderNeverFreed
  BY DEF OneReader, HeaderNeverFreed
<1> QED
  BY <1>1, <1>2, <1>3, Typed, PTL DEF Spec
=============================================================================
