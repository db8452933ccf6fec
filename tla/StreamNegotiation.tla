-------------------------- MODULE StreamNegotiation --------------------------
(***************************************************************************)
(* How host and application agree on the format of the stream, and how     *)
(* often the timer looks for it.  The host probes and commits a frame      *)
(* index on the control endpoint (videoControl), one transfer at a time.   *)
(* Applications set the format with IOCTL_SET_VIDEO_PROP; the default      *)
(* queue is parallel, so that several requests run at once.  EvtIsochTimer *)
(* starts its timer with the interval it finds.  There is no lock, and an  *)
(* action is one access of what another handler uses.                      *)
(*                                                                         *)
(* Sizes are ints.  A product is exact up to the last store of it, which   *)
(* keeps it modulo Word: the remainders of the partial products agree.     *)
(***************************************************************************)
EXTENDS Integers

CONSTANTS
  Setters,     \* the IOCTL_SET_VIDEO_PROPs of a behaviour; each is used once
  Props,       \* the VideoProp structures they pass
  Initial,     \* what init_cam_prop sets
  HostIndices, \* bFrameIndex values the host asks for
  MaxWidth,    \* 4096
  MaxHeight,   \* 2160
  Word,        \* 2^32, or less in larger units of size
  Divisor      \* MAX_LEN_OF_FULL_SPEED_ISO_TRANSFER_PER_FRAME, 255 * 1024

VideoProps == [width : Int, height : Int, bits : Int, rate : Int, index : Nat \ {0}]

ASSUME Geometry ==
  /\ Props \subseteq VideoProps /\ HostIndices \subseteq Nat \ {0}
  /\ MaxWidth \in Int /\ MaxHeight \in Int

(* 1920 x 1080 fits, and a quotient by Divisor has four decimals at most.  *)
ASSUME Arithmetic ==
  /\ Word \in Nat \ {0} /\ Word % 2 = 0 /\ Divisor \in Nat \ {0}
  /\ (Word \div 2) \div Divisor < 100 * 100
  /\ Initial \in VideoProps /\ Initial.rate = 0
  /\ Initial.width >= 0 /\ Initial.height >= 0 /\ Initial.bits = 16
  /\ Initial.width * Initial.height * 2 < Word \div 2

VARIABLES
  width, height, frame_rate, bFrameIndex, frame_length, iso_timer_interval,
  needChangeFormat,
  setProp, prop, \* per request: what it stores next, and its VideoProp
  due,           \* DueTime of the last WdfTimerStart: none, "past" or "relative"
  ctl,           \* where videoControl is; "idle" between transfers
  probe,         \* what it is about to answer
  reply,         \* the last completed video request
  agreed,        \* observer: the frame index the host committed last, or 0
  faults         \* observer: how the handlers met, and what they computed

sizes  == <<width, height, frame_rate>>
format == <<bFrameIndex, frame_length, needChangeFormat>>
timing == <<iso_timer_interval, due>>
setter == <<setProp, prop>>
video  == <<ctl, probe, reply, agreed>>
snVars == <<sizes, format, timing, setter, video, faults>>

------------------------------------------------------------------------------
(* int arithmetic                                                          *)

Wrap(x) == ((x + Word \div 2) % Word) - (Word \div 2)

(* Division by a positive number truncates.                                *)
Over(x, n) == IF x >= 0 THEN x \div n ELSE -((-x) \div n)

Length(w, h, bits) == w * h * Over(bits, 8)

(* frameRate > 120 || frameRate < 0                                        *)
Rate(p) == IF p.rate > 120 \/ p.rate < 0 THEN 30 ELSE p.rate

Negative(p) == p.width < 0 \/ p.height < 0 \/ p.bits < 0

Overflow(x) == IF Wrap(x) # x THEN {"overflow"} ELSE {}

------------------------------------------------------------------------------
(* The host                                                                *)

NoProbe == [req |-> "none", index |-> 0]

Answer(req, index, size) == [req |-> req, index |-> index, size |-> size]

Ready == ctl = "idle"

Setting == \E s \in Setters : setProp[s] \notin {"new", "done"}

(* videoControl looks at the properties while they are being set.          *)
Race == faults' = IF Setting THEN faults \cup {"raced"} ELSE faults

(* A length other than that of uvc_streaming_control: success, no bytes.   *)
VideoIgnored ==
  /\ Ready
  /\ reply' = Answer("ignored", 0, 0)
  /\ UNCHANGED <<sizes, format, timing, setter, ctl, probe, agreed, faults>>

(* UVC_SET_CUR: the frame index must be the current one ...                *)
VideoReject(i) ==
  /\ Ready /\ i # bFrameIndex
  /\ reply' = Answer("rejected", 0, 0)
  /\ Race
  /\ UNCHANGED <<sizes, format, timing, setter, ctl, probe, agreed>>

(* Mutant: any frame index will do.                                        *)
VideoAcceptAny(i) ==
  /\ Ready
  /\ ctl' = "clear" /\ agreed' = i
  /\ Race
  /\ UNCHANGED <<sizes, format, timing, setter, probe, reply>>

VideoAccept(i) ==
  /\ Ready /\ i = bFrameIndex
  /\ ctl' = "clear" /\ agreed' = i
  /\ Race
  /\ UNCHANGED <<sizes, format, timing, setter, probe, reply>>

(* ... and then no change of the format is pending any more.               *)
VideoClear ==
  /\ ctl = "clear"
  /\ ctl' = "idle" /\ needChangeFormat' = FALSE
  /\ reply' = Answer("committed", 0, 0)
  /\ UNCHANGED <<sizes, bFrameIndex, frame_length, timing, setter, probe,
                 agreed, faults>>

(* Any other request is a probe, and all but two are answered alike: the   *)
(* frame index is read ...                                                 *)
VideoProbe ==
  /\ Ready
  /\ \E req \in {"current", "get_min", "get_max"} :
       probe' = [req |-> req, index |-> bFrameIndex]
  /\ ctl' = "size"
  /\ Race
  /\ UNCHANGED <<sizes, format, timing, setter, reply, agreed>>

(* ... and then the frame length; the frame indices at the ends of the     *)
(* descriptor's list are fixed.                                            *)
VideoAnswer ==
  /\ ctl = "size" /\ ctl' = "idle"
  /\ LET index == CASE probe.req = "get_min" -> 7
                    [] probe.req = "get_max" -> 1
                    [] OTHER -> probe.index
     IN  reply' = Answer(probe.req, index, frame_length)
  /\ probe' = NoProbe
  /\ UNCHANGED <<sizes, format, timing, setter, agreed, faults>>

------------------------------------------------------------------------------
(* IOCTL_SET_VIDEO_PROP, store by store                                    *)

At(s, here, next) == setProp[s] = here /\ setProp' = [setProp EXCEPT ![s] = next]

(* Too large a size is refused before anything is stored.                  *)
SetWidth(s, p) ==
  /\ p.width <= MaxWidth /\ p.height <= MaxHeight
  /\ At(s, "new", "height")
  /\ prop' = [prop EXCEPT ![s] = p]
  /\ width' = p.width
  /\ faults' = faults \cup (IF Setting THEN {"two_setters"} ELSE {})
                      \cup (IF ~Ready THEN {"raced"} ELSE {})
                      \cup (IF Negative(p) THEN {"negative"} ELSE {})
  /\ UNCHANGED <<height, frame_rate, format, timing, video>>

SetHeight(s) ==
  /\ At(s, "height", "rate")
  /\ height' = prop[s].height
  /\ UNCHANGED <<width, frame_rate, format, timing, prop, video, faults>>

SetRate(s) ==
  /\ At(s, "rate", "index")
  /\ frame_rate' = Rate(prop[s])
  /\ UNCHANGED <<width, height, format, timing, prop, video, faults>>

SetIndex(s) ==
  /\ At(s, "index", "length")
  /\ bFrameIndex' = prop[s].index
  /\ UNCHANGED <<sizes, frame_length, needChangeFormat, timing, prop, video, faults>>

(* Mutant: the length of the old geometry is kept.                         *)
SetLengthOld(s) ==
  /\ At(s, "length", "flag")
  /\ UNCHANGED <<sizes, format, timing, prop, video, faults>>

(* Mutant: the product is kept in a wider type.                            *)
SetLengthWide(s) ==
  /\ At(s, "length", "flag")
  /\ frame_length' = Length(width, height, prop[s].bits) * frame_rate
  /\ UNCHANGED <<sizes, bFrameIndex, needChangeFormat, timing, prop, video, faults>>

(* The width and the height are those of the context, the depth that of    *)
(* the request.                                                            *)
SetLength(s) ==
  /\ At(s, "length", "flag")
  /\ LET length == Length(width, height, prop[s].bits)
     IN  frame_length' = Wrap(length) /\ faults' = faults \cup Overflow(length)
  /\ UNCHANGED <<sizes, bFrameIndex, needChangeFormat, timing, prop, video>>

SetFlag(s) ==
  /\ At(s, "flag", "interval")
  /\ needChangeFormat' = TRUE
  /\ UNCHANGED <<sizes, bFrameIndex, frame_length, timing, prop, video, faults>>

(* The interval is stored as bytes per second in units of Divisor ...      *)
SetInterval(s) ==
  /\ At(s, "interval", "negate")
  /\ LET flow == frame_length * frame_rate
     IN  /\ iso_timer_interval' = Over(Wrap(flow), Divisor)
         /\ faults' = faults \cup Overflow(flow)
  /\ UNCHANGED <<sizes, format, due, prop, video>>

(* Mutant: the sign is left alone.                                         *)
SetNegateKeepsSign(s) ==
  /\ At(s, "negate", "done")
  /\ iso_timer_interval' = Over(iso_timer_interval, 100)
  /\ prop' = [prop EXCEPT ![s] = Initial]
  /\ UNCHANGED <<sizes, format, due, video, faults>>

(* ... and then divided by 100 * (-1).                                     *)
SetNegate(s) ==
  /\ At(s, "negate", "done")
  /\ iso_timer_interval' = -Over(iso_timer_interval, 100)
  /\ prop' = [prop EXCEPT ![s] = Initial]
  /\ UNCHANGED <<sizes, format, due, video, faults>>

------------------------------------------------------------------------------
(* The end of EvtIsochTimer                                                *)

(* WdfTimerStart takes a time below 0 as relative and any other one as a   *)
(* point of time, which has long passed.                                   *)
DueTime(t) == IF t < 0 THEN "relative" ELSE "past"

(* WDF_REL_TIMEOUT_IN_MS negates the interval.                             *)
TimerStart ==
  /\ due' = DueTime(-iso_timer_interval)
  /\ faults' = IF \E s \in Setters : setProp[s] = "negate"
               THEN faults \cup {"torn_interval"} ELSE faults
  /\ UNCHANGED <<sizes, format, iso_timer_interval, setter, video>>

------------------------------------------------------------------------------
(* init_cam_prop in a zeroed context: 1000 / 120 is an int.                *)
Init ==
  /\ width = Initial.width /\ height = Initial.height /\ frame_rate = 0
  /\ bFrameIndex = Initial.index
  /\ frame_length = Length(Initial.width, Initial.height, Initial.bits)
  /\ iso_timer_interval = (-1) * (1000 \div 120) * 10 /\ due = "none"
  /\ needChangeFormat = FALSE
  /\ setProp = [s \in Setters |-> "new"] /\ prop = [s \in Setters |-> Initial]
  /\ ctl = "idle" /\ probe = NoProbe /\ reply = Answer("none", 0, 0)
  /\ agreed = 0 /\ faults = {}

VideoControl ==
  \/ VideoIgnored
  \/ \E i \in HostIndices : VideoReject(i) \/ VideoAccept(i)
  \/ VideoClear \/ VideoProbe \/ VideoAnswer

SetVideoProp(s) ==
  \/ \E p \in Props : SetWidth(s, p)
  \/ SetHeight(s) \/ SetRate(s) \/ SetIndex(s) \/ SetLength(s) \/ SetFlag(s)
  \/ SetInterval(s) \/ SetNegate(s)

Next == VideoControl \/ (\E s \in Setters : SetVideoProp(s)) \/ TimerStart

Spec == Init /\ [][Next]_snVars

------------------------------------------------------------------------------
(* Properties                                                              *)

Int32 == -(Word \div 2) .. Word \div 2 - 1

Stores ==
  {"new", "height", "rate", "index", "length", "flag", "interval", "negate", "done"}

Faults == {"raced", "two_setters", "torn_interval", "overflow", "negative"}

(* The type of the state.                                                  *)
TypeOK ==
  /\ width \in Int /\ height \in Int /\ frame_rate \in 0 .. 120
  /\ bFrameIndex \in Nat \ {0} /\ needChangeFormat \in BOOLEAN
  /\ frame_length \in Int32 /\ iso_timer_interval \in Int
  /\ due \in {"none", "past", "relative"}
  /\ setProp \in [Setters -> Stores] /\ prop \in [Setters -> Props \cup {Initial}]
  /\ ctl \in {"idle", "clear", "size"}
  /\ agreed \in HostIndices \cup {0} /\ faults \subseteq Faults

(* Without an overlap of SET_VIDEO_PROP and a video request, a cleared     *)
(* needChangeFormat means that the host's last commit was for the frame    *)
(* index the application uses now, however many requests set it.           *)
CommitIsCurrent ==
  "raced" \notin faults /\ ~needChangeFormat /\ ~Setting /\ agreed # 0 =>
    agreed = bFrameIndex

Mode(p) == [index |-> p.index, length |-> Wrap(Length(p.width, p.height, p.bits))]

(* Without such an overlap and with one SET_VIDEO_PROP at a time, the      *)
(* answer to a probe has the index and the length of one VideoProp.        *)
ProbeIsOneMode ==
  {"raced", "two_setters"} \cap faults = {} /\ reply.req = "current" =>
    \E p \in Props \cup {Initial} :
      [index |-> reply.index, length |-> reply.size] = Mode(p)

(* The timer never sleeps: its DueTime lies in the past, whatever the      *)
(* sizes and however requests interleave, except that it finds the         *)
(* interval between its two stores, or that a product left the range of    *)
(* int (as 4096 x 2160, 32 bits, 120 frames do), or that a size is         *)
(* negative.  Then a frame that is due waits.                              *)
SleepsOnlyWhenTorn ==
  due = "relative" => {"torn_interval", "overflow", "negative"} \cap faults # {}

(* The comment at controller.cpp 817: "If the value is negative, the time  *)
(* period is relative to the current system time".                         *)
NegativeIsRelative ==
  [][TimerStart /\ iso_timer_interval < 0 => due' = "relative"]_snVars
=============================================================================
