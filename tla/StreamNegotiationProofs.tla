----------------------- MODULE StreamNegotiationProofs -----------------------
(* The safety properties of StreamNegotiation, proved.                     *)
EXTENDS StreamNegotiation, TLAPS

Half == Word \div 2

LEMMA HalfWord == Half \in Nat \ {0} /\ Word = Half + Half
BY Arithmetic DEF Half

(* An int.                                                                 *)
LEMMA WrapType == \A x \in Int : Wrap(x) \in Int32
<1> SUFFICES ASSUME NEW x \in Int PROVE Wrap(x) \in Int32
  OBVIOUS
<1>1. (x + Half) % Word \in 0 .. Word - 1
  BY HalfWord, Arithmetic
<1> QED
  BY <1>1, HalfWord DEF Wrap, Int32, Half

(* Quotients keep the sign.                                                *)
LEMMA Quotient ==
  ASSUME NEW n \in Nat \ {0}, NEW x \in Nat
  PROVE  x \div n \in Nat /\ x \div n <= x
OBVIOUS

LEMMA OverType == \A n \in Nat \ {0} : \A x \in Int : Over(x, n) \in Int
<1> SUFFICES ASSUME NEW n \in Nat \ {0}, NEW x \in Int PROVE Over(x, n) \in Int
  OBVIOUS
<1>1. CASE x >= 0
  BY <1>1, Quotient DEF Over
<1>2. CASE ~(x >= 0)
  <2>1. -x \in Nat
    BY <1>2
  <2> QED
    BY <1>2, <2>1, Quotient DEF Over
<1> QED
  BY <1>1, <1>2

LEMMA Ordered ==
  ASSUME NEW n \in Nat \ {0}, NEW x \in Nat, NEW y \in Nat, x <= y
  PROVE  x \div n <= y \div n
OBVIOUS

(* What 100 * (-1) makes of an interval.                                   *)
LEMMA Hundredth ==
  ASSUME NEW x \in Int, -100 < x, x < 100 * 100
  PROVE  -100 < -Over(x, 100) /\ -Over(x, 100) <= 0
<1>1. CASE x >= 0
  <2>1. x \div 100 \in 0 .. 99
    BY <1>1
  <2> QED
    BY <1>1, <2>1 DEF Over
<1>2. CASE x < 0
  <2>1. (-x) \div 100 = 0
    BY <1>2
  <2> QED
    BY <1>2, <2>1 DEF Over
<1> QED
  BY <1>1, <1>2

LEMMA ProductNat == \A a, b, c \in Nat : a * b * c \in Nat
<1> SUFFICES ASSUME NEW a \in Nat, NEW b \in Nat, NEW c \in Nat PROVE a * b * c \in Nat
  OBVIOUS
<1>1. a * b \in Nat
  OBVIOUS
<1> QED
  BY <1>1

LEMMA LengthType ==
  ASSUME NEW w \in Int, NEW h \in Int, NEW b \in Int
  PROVE  /\ Length(w, h, b) \in Int
         /\ w >= 0 /\ h >= 0 /\ b >= 0 => Length(w, h, b) >= 0
<1>1. Over(b, 8) \in Int
  BY OverType
<1>2. w * h \in Int
  OBVIOUS
<1>3. w * h * Over(b, 8) \in Int
  BY <1>1, <1>2
<1>4. ASSUME w >= 0, h >= 0, b >= 0 PROVE w * h * Over(b, 8) \in Nat
  <2>1. Over(b, 8) \in Nat
    BY <1>4 DEF Over
  <2> QED
    BY <1>4, <2>1, ProductNat
<1> QED
  BY <1>3, <1>4 DEF Length

------------------------------------------------------------------------------
(* The inductive invariant.                                                *)

Active(s) == setProp[s] \notin {"new", "done"}

Given == Props \cup {Initial}

(* The request has got past a store.                                       *)
Past(s, stores) == setProp[s] \in stores

FromIndex == {"length", "flag", "interval", "negate"}

(* With one request at a time the stores done are those of its VideoProp,  *)
(* and between requests the context holds one mode.                        *)
StoreInv ==
  "two_setters" \notin faults =>
    /\ \A s, t \in Setters : Active(s) /\ Active(t) => s = t
    /\ ~Setting => \E p \in Given :
                     bFrameIndex = Mode(p).index /\ frame_length = Mode(p).length
    /\ \A s \in Setters :
         /\ Active(s) => width = prop[s].width
         /\ Past(s, FromIndex \cup {"rate", "index"}) => height = prop[s].height
         /\ Past(s, FromIndex) => bFrameIndex = prop[s].index
         /\ Past(s, FromIndex \ {"length"}) => frame_length = Mode(prop[s]).length

(* Between the two halves of a video request nothing was set, or the       *)
(* handlers overlapped.                                                    *)
HalfInv ==
  "raced" \notin faults /\ ctl # "idle" =>
    /\ ~Setting
    /\ ctl = "clear" => agreed = bFrameIndex
    /\ ctl = "size" => probe.index = bFrameIndex

(* While no request is between its index and its flag, a cleared flag      *)
(* means a commit of the current index.                                    *)
CommitInv ==
  "raced" \notin faults /\ ~needChangeFormat /\ agreed # 0
  /\ (\A s \in Setters : ~Past(s, {"length", "flag"})) => agreed = bFrameIndex

(* Sizes that are not negative and products that are ints make intervals   *)
(* that are positive only between the two stores of an interval.           *)
Sane == "overflow" \notin faults /\ "negative" \notin faults

IntervalInv ==
  Sane =>
    /\ width >= 0 /\ height >= 0 /\ frame_length >= 0
    /\ \A s \in Setters : ~Negative(prop[s])
    /\ -100 < iso_timer_interval /\ iso_timer_interval < 100 * 100
    /\ iso_timer_interval > 0 => \E s \in Setters : setProp[s] = "negate"

NInv ==
  /\ TypeOK /\ StoreInv /\ HalfInv /\ CommitInv /\ ProbeIsOneMode
  /\ IntervalInv /\ SleepsOnlyWhenTorn

------------------------------------------------------------------------------
(* Each VideoProp has int fields, and its mode an int length.              *)
LEMMA GivenType ==
  ASSUME NEW p \in Given
  PROVE  /\ p.width \in Int /\ p.height \in Int /\ p.bits \in Int
         /\ p.index \in Nat \ {0} /\ Rate(p) \in 0 .. 120
BY Geometry, Arithmetic DEF Given, VideoProps, Rate

(* The type invariant is kept.                                             *)
LEMMA TypeStep == TypeOK /\ [Next]_snVars => TypeOK'
<1> SUFFICES ASSUME TypeOK, [Next]_snVars PROVE TypeOK'
  OBVIOUS
<1> USE DEF TypeOK, Given, Stores, Faults, At, Race
<1>1. CASE UNCHANGED snVars
  BY <1>1 DEF snVars, sizes, format, timing, setter, video
<1>2. ASSUME VideoControl PROVE TypeOK'
  <2>1. CASE VideoIgnored
    BY <2>1 DEF VideoIgnored, sizes, format, timing, setter
  <2>2. ASSUME NEW i \in HostIndices, VideoReject(i) PROVE TypeOK'
    BY <2>2 DEF VideoReject, sizes, format, timing, setter
  <2>3. ASSUME NEW i \in HostIndices, VideoAccept(i) PROVE TypeOK'
    BY <2>3 DEF VideoAccept, sizes, format, timing, setter
  <2>4. CASE VideoClear
    BY <2>4 DEF VideoClear, sizes, format, timing, setter
  <2>5. CASE VideoProbe
    BY <2>5 DEF VideoProbe, sizes, format, timing, setter
  <2>6. CASE VideoAnswer
    BY <2>6 DEF VideoAnswer, sizes, format, timing, setter
  <2> QED
    BY <1>2, <2>1, <2>2, <2>3, <2>4, <2>5, <2>6 DEF VideoControl
<1>3. ASSUME NEW s \in Setters, SetVideoProp(s) PROVE TypeOK'
  <2>1. ASSUME NEW p \in Props, SetWidth(s, p) PROVE TypeOK'
    BY <2>1, GivenType DEF SetWidth, sizes, format, timing, video
  <2>2. CASE SetHeight(s)
    BY <2>2, GivenType DEF SetHeight, sizes, format, timing, video
  <2>3. CASE SetRate(s)
    BY <2>3, GivenType DEF SetRate, sizes, format, timing, video
  <2>4. CASE SetIndex(s)
    BY <2>4, GivenType DEF SetIndex, sizes, format, timing, video
  <2>5. CASE SetLength(s)
    <3>1. prop[s] \in Given
      OBVIOUS
    <3>2. Length(width, height, prop[s].bits) \in Int
      BY <3>1, GivenType, LengthType
    <3>3. frame_length' \in Int32
      BY <2>5, <3>2, WrapType DEF SetLength
    <3> QED
      BY <2>5, <3>3 DEF SetLength, Overflow, sizes, format, timing, video
  <2>6. CASE SetFlag(s)
    BY <2>6 DEF SetFlag, At, sizes, format, timing, video
  <2>7. CASE SetInterval(s)
    <3>1. frame_length * frame_rate \in Int
      BY HalfWord DEF Int32, Half
    <3>2. Wrap(frame_length * frame_rate) \in Int
      BY <3>1, WrapType, HalfWord DEF Int32, Half
    <3>3. iso_timer_interval' \in Int
      BY <2>7, <3>2, OverType, Arithmetic DEF SetInterval
    <3> QED
      BY <2>7, <3>3 DEF SetInterval, Overflow, sizes, format, timing, video
  <2>8. CASE SetNegate(s)
    <3>1. iso_timer_interval' \in Int
      <4>1. Over(iso_timer_interval, 100) \in Int
        BY OverType
      <4> QED
        BY <2>8, <4>1 DEF SetNegate
    <3> QED
      BY <2>8, <3>1 DEF SetNegate, sizes, format, timing, video
  <2> QED
    BY <1>3, <2>1, <2>2, <2>3, <2>4, <2>5, <2>6, <2>7, <2>8 DEF SetVideoProp
<1>4. CASE TimerStart
  BY <1>4 DEF TimerStart, DueTime, sizes, format, setter, video
<1> QED
  BY <1>1, <1>2, <1>3, <1>4 DEF Next

(* The stores of a request that runs alone are its own.                    *)
LEMMA StoreStep == TypeOK /\ StoreInv /\ [Next]_snVars => StoreInv'
<1> SUFFICES ASSUME TypeOK, StoreInv, [Next]_snVars PROVE StoreInv'
  OBVIOUS
<1> USE DEF TypeOK, StoreInv, Active, Setting, Given, Past, FromIndex, Stores, At, Race
<1>1. CASE UNCHANGED snVars
  BY <1>1 DEF snVars, sizes, format, timing, setter, video
<1>2. ASSUME VideoControl PROVE StoreInv'
  <2>1. CASE VideoIgnored
    BY <2>1 DEF VideoIgnored, sizes, format, timing, setter
  <2>2. ASSUME NEW i \in HostIndices, VideoReject(i) PROVE StoreInv'
    BY <2>2 DEF VideoReject, sizes, format, timing, setter
  <2>3. ASSUME NEW i \in HostIndices, VideoAccept(i) PROVE StoreInv'
    BY <2>3 DEF VideoAccept, sizes, format, timing, setter
  <2>4. CASE VideoClear
    BY <2>4 DEF VideoClear, sizes, format, timing, setter
  <2>5. CASE VideoProbe
    BY <2>5 DEF VideoProbe, sizes, format, timing, setter
  <2>6. CASE VideoAnswer
    BY <2>6 DEF VideoAnswer, sizes, format, timing, setter
  <2> QED
    BY <1>2, <2>1, <2>2, <2>3, <2>4, <2>5, <2>6 DEF VideoControl
<1>3. ASSUME NEW s \in Setters, SetVideoProp(s) PROVE StoreInv'
  <2>1. ASSUME NEW p \in Props, SetWidth(s, p) PROVE StoreInv'
    BY <2>1 DEF SetWidth, At, sizes, format, timing, video
  <2>2. CASE SetHeight(s)
    BY <2>2 DEF SetHeight, At, sizes, format, timing, video
  <2>3. CASE SetRate(s)
    BY <2>3 DEF SetRate, At, sizes, format, timing, video
  <2>4. CASE SetIndex(s)
    BY <2>4 DEF SetIndex, At, sizes, format, timing, video
  <2>5. CASE SetLength(s)
    <3>1. "two_setters" \notin faults' => "two_setters" \notin faults
      BY <2>5 DEF SetLength
    <3>2. "two_setters" \notin faults => frame_length' = Mode(prop[s]).length
      BY <2>5 DEF SetLength, Mode
    <3> QED
      BY <2>5, <3>1, <3>2 DEF SetLength, sizes, format, timing, video
  <2>6. CASE SetFlag(s)
    BY <2>6 DEF SetFlag, At, sizes, format, timing, video
  <2>7. CASE SetInterval(s)
    <3>1. "two_setters" \notin faults' => "two_setters" \notin faults
      BY <2>7 DEF SetInterval
    <3> QED
      BY <2>7, <3>1 DEF SetInterval, sizes, format, timing, video
  <2>8. CASE SetNegate(s)
    <3>1. /\ prop[s] \in Given
          /\ "two_setters" \notin faults =>
               bFrameIndex = Mode(prop[s]).index /\ frame_length = Mode(prop[s]).length
      BY <2>8 DEF SetNegate, Mode
    <3> QED
      BY <2>8, <3>1 DEF SetNegate, sizes, format, video
  <2> QED
    BY <1>3, <2>1, <2>2, <2>3, <2>4, <2>5, <2>6, <2>7, <2>8 DEF SetVideoProp
<1>4. CASE TimerStart
  BY <1>4 DEF TimerStart, sizes, format, setter, video
<1> QED
  BY <1>1, <1>2, <1>3, <1>4 DEF Next

(* Whoever stores an index sets the flag afterwards, and the commit that   *)
(* clears it has seen no store in between.                                 *)
LEMMA CommitStep == TypeOK /\ HalfInv /\ CommitInv /\ [Next]_snVars => HalfInv' /\ CommitInv'
<1> SUFFICES ASSUME TypeOK, HalfInv, CommitInv, [Next]_snVars PROVE HalfInv' /\ CommitInv'
  OBVIOUS
<1> USE DEF TypeOK, HalfInv, CommitInv, Setting, Past, Stores, At, Race, Ready
<1>1. CASE UNCHANGED snVars
  BY <1>1 DEF snVars, sizes, format, timing, setter, video
<1>2. ASSUME VideoControl PROVE HalfInv' /\ CommitInv'
  <2>1. CASE VideoIgnored
    BY <2>1 DEF VideoIgnored, sizes, format, timing, setter
  <2>2. ASSUME NEW i \in HostIndices, VideoReject(i) PROVE HalfInv' /\ CommitInv'
    BY <2>2 DEF VideoReject, sizes, format, timing, setter
  <2>3. ASSUME NEW i \in HostIndices, VideoAccept(i) PROVE HalfInv' /\ CommitInv'
    BY <2>3 DEF VideoAccept, sizes, format, timing, setter
  <2>4. CASE VideoClear
    BY <2>4 DEF VideoClear, sizes, format, timing, setter
  <2>5. CASE VideoProbe
    <3>1. probe'.index = bFrameIndex
      BY <2>5 DEF VideoProbe
    <3> QED
      BY <2>5, <3>1 DEF VideoProbe, sizes, format, timing, setter
  <2>6. CASE VideoAnswer
    BY <2>6 DEF VideoAnswer, sizes, format, timing, setter
  <2> QED
    BY <1>2, <2>1, <2>2, <2>3, <2>4, <2>5, <2>6 DEF VideoControl
<1>3. ASSUME NEW s \in Setters, SetVideoProp(s) PROVE HalfInv' /\ CommitInv'
  <2>1. ASSUME NEW p \in Props, SetWidth(s, p) PROVE HalfInv' /\ CommitInv'
    BY <2>1 DEF SetWidth, At, sizes, format, timing, video
  <2>2. CASE SetHeight(s)
    BY <2>2 DEF SetHeight, At, sizes, format, timing, video
  <2>3. CASE SetRate(s)
    BY <2>3 DEF SetRate, At, sizes, format, timing, video
  <2>4. CASE SetIndex(s)
    BY <2>4 DEF SetIndex, At, sizes, format, timing, video
  <2>5. CASE SetLength(s)
    BY <2>5 DEF SetLength, At, sizes, format, timing, video
  <2>6. CASE SetFlag(s)
    BY <2>6 DEF SetFlag, At, sizes, format, timing, video
  <2>7. CASE SetInterval(s)
    BY <2>7 DEF SetInterval, At, sizes, format, timing, video
  <2>8. CASE SetNegate(s)
    BY <2>8 DEF SetNegate, At, sizes, format, timing, video
  <2> QED
    BY <1>3, <2>1, <2>2, <2>3, <2>4, <2>5, <2>6, <2>7, <2>8 DEF SetVideoProp
<1>4. CASE TimerStart
  BY <1>4 DEF TimerStart, sizes, format, setter, video
<1> QED
  BY <1>1, <1>2, <1>3, <1>4 DEF Next

(* The answer to a probe is the mode that the context held through both    *)
(* halves.                                                                 *)
LEMMA ProbeStep ==
  TypeOK /\ StoreInv /\ HalfInv /\ ProbeIsOneMode /\ [Next]_snVars => ProbeIsOneMode'
<1> SUFFICES ASSUME TypeOK, StoreInv, HalfInv, ProbeIsOneMode, [Next]_snVars
             PROVE  ProbeIsOneMode'
  OBVIOUS
<1> USE DEF ProbeIsOneMode, Given, Answer, Race, Ready
<1>1. CASE UNCHANGED snVars
  BY <1>1 DEF snVars, sizes, format, timing, setter, video
<1>2. ASSUME VideoControl PROVE ProbeIsOneMode'
  <2>1. CASE VideoIgnored
    BY <2>1 DEF VideoIgnored, sizes, format, timing, setter
  <2>2. ASSUME NEW i \in HostIndices, VideoReject(i) PROVE ProbeIsOneMode'
    BY <2>2 DEF VideoReject, sizes, format, timing, setter
  <2>3. ASSUME NEW i \in HostIndices, VideoAccept(i) PROVE ProbeIsOneMode'
    BY <2>3 DEF VideoAccept, sizes, format, timing, setter
  <2>4. CASE VideoClear
    BY <2>4 DEF VideoClear, sizes, format, timing, setter
  <2>5. CASE VideoProbe
    BY <2>5 DEF VideoProbe, sizes, format, timing, setter
  <2>6. CASE VideoAnswer
    <3>1. CASE {"raced", "two_setters"} \cap faults = {} /\ reply'.req = "current"
      <4>1. reply'.index = bFrameIndex /\ reply'.size = frame_length
        BY <2>6, <3>1 DEF VideoAnswer, HalfInv
      <4>2. PICK p \in Given : bFrameIndex = Mode(p).index /\ frame_length = Mode(p).length
        BY <2>6, <3>1 DEF VideoAnswer, HalfInv, StoreInv
      <4> QED
        BY <4>1, <4>2 DEF Mode
    <3>2. CASE ~({"raced", "two_setters"} \cap faults = {} /\ reply'.req = "current")
      BY <2>6, <3>2 DEF VideoAnswer
    <3> QED
      BY <3>1, <3>2
  <2> QED
    BY <1>2, <2>1, <2>2, <2>3, <2>4, <2>5, <2>6 DEF VideoControl
<1>3. ASSUME NEW s \in Setters, SetVideoProp(s) PROVE ProbeIsOneMode'
  <2>1. ASSUME NEW p \in Props, SetWidth(s, p) PROVE ProbeIsOneMode'
    BY <2>1 DEF SetWidth, At, sizes, format, timing, video
  <2>2. CASE SetHeight(s)
    BY <2>2 DEF SetHeight, At, sizes, format, timing, video
  <2>3. CASE SetRate(s)
    BY <2>3 DEF SetRate, At, sizes, format, timing, video
  <2>4. CASE SetIndex(s)
    BY <2>4 DEF SetIndex, At, sizes, format, timing, video
  <2>5. CASE SetLength(s)
    BY <2>5 DEF SetLength, At, sizes, format, timing, video
  <2>6. CASE SetFlag(s)
    BY <2>6 DEF SetFlag, At, sizes, format, timing, video
  <2>7. CASE SetInterval(s)
    BY <2>7 DEF SetInterval, At, sizes, format, timing, video
  <2>8. CASE SetNegate(s)
    BY <2>8 DEF SetNegate, At, sizes, format, timing, video
  <2> QED
    BY <1>3, <2>1, <2>2, <2>3, <2>4, <2>5, <2>6, <2>7, <2>8 DEF SetVideoProp
<1>4. CASE TimerStart
  BY <1>4 DEF TimerStart, sizes, format, setter, video
<1> QED
  BY <1>1, <1>2, <1>3, <1>4 DEF Next

(* A sane interval is positive only while a request has still to negate    *)
(* it; a second division makes it 0.                                       *)
LEMMA IntervalStep ==
  TypeOK /\ IntervalInv /\ SleepsOnlyWhenTorn /\ [Next]_snVars =>
    IntervalInv' /\ SleepsOnlyWhenTorn'
<1> SUFFICES ASSUME TypeOK, IntervalInv, SleepsOnlyWhenTorn, [Next]_snVars
             PROVE  IntervalInv' /\ SleepsOnlyWhenTorn'
  OBVIOUS
<1> USE DEF TypeOK, IntervalInv, Sane, Given, Stores, Negative, At, Race, SleepsOnlyWhenTorn
<1>1. CASE UNCHANGED snVars
  BY <1>1 DEF snVars, sizes, format, timing, setter, video
<1>2. ASSUME VideoControl PROVE IntervalInv' /\ SleepsOnlyWhenTorn'
  <2>1. CASE VideoIgnored
    BY <2>1 DEF VideoIgnored, sizes, format, timing, setter
  <2>2. ASSUME NEW i \in HostIndices, VideoReject(i) PROVE IntervalInv' /\ SleepsOnlyWhenTorn'
    BY <2>2 DEF VideoReject, sizes, format, timing, setter
  <2>3. ASSUME NEW i \in HostIndices, VideoAccept(i) PROVE IntervalInv' /\ SleepsOnlyWhenTorn'
    BY <2>3 DEF VideoAccept, sizes, format, timing, setter
  <2>4. CASE VideoClear
    BY <2>4 DEF VideoClear, sizes, format, timing, setter
  <2>5. CASE VideoProbe
    BY <2>5 DEF VideoProbe, sizes, format, timing, setter
  <2>6. CASE VideoAnswer
    BY <2>6 DEF VideoAnswer, sizes, format, timing, setter
  <2> QED
    BY <1>2, <2>1, <2>2, <2>3, <2>4, <2>5, <2>6 DEF VideoControl
<1>3. ASSUME NEW s \in Setters, SetVideoProp(s) PROVE IntervalInv' /\ SleepsOnlyWhenTorn'
  <2>1. ASSUME NEW p \in Props, SetWidth(s, p) PROVE IntervalInv' /\ SleepsOnlyWhenTorn'
    BY <2>1, GivenType DEF SetWidth, sizes, format, timing, video
  <2>2. CASE SetHeight(s)
    <3>1. prop[s] \in Given
      OBVIOUS
    <3>2. prop[s].height \in Int
      BY <3>1, GivenType
    <3> QED
      BY <2>2, <3>2 DEF SetHeight, sizes, format, timing, video
  <2>3. CASE SetRate(s)
    BY <2>3 DEF SetRate, At, sizes, format, timing, video
  <2>4. CASE SetIndex(s)
    BY <2>4 DEF SetIndex, At, sizes, format, timing, video
  <2>5. CASE SetLength(s)
    <3>1. prop[s] \in Given
      OBVIOUS
    <3>2. ASSUME Sane' PROVE frame_length' >= 0
      <4>1. frame_length' = Length(width, height, prop[s].bits)
        BY <2>5, <3>2 DEF SetLength, Overflow
      <4>2. Sane
        BY <2>5, <3>2 DEF SetLength
      <4>3. /\ prop[s].bits \in Int /\ width >= 0 /\ height >= 0
            /\ ~(prop[s].bits < 0)
        BY <3>1, <4>2, GivenType
      <4>4. prop[s].bits >= 0
        BY <4>3
      <4> QED
        BY <4>1, <4>3, <4>4, LengthType
    <3> QED
      BY <2>5, <3>2 DEF SetLength, sizes, format, timing, video
  <2>6. CASE SetFlag(s)
    BY <2>6 DEF SetFlag, At, sizes, format, timing, video
  <2>7. CASE SetInterval(s)
    <3>1. ASSUME Sane'
          PROVE  0 <= iso_timer_interval' /\ iso_timer_interval' < 100 * 100
      <4> DEFINE flow == frame_length * frame_rate
      <4>1. Sane
        BY <2>7, <3>1 DEF SetInterval
      <4>2. flow \in Nat
        BY <4>1, HalfWord DEF Int32, Half
      <4>3. Wrap(flow) = flow
        BY <2>7, <3>1 DEF SetInterval, Overflow
      <4>4. flow <= Half
        BY <4>2, <4>3, WrapType, HalfWord DEF Int32, Half
      <4>5. iso_timer_interval' = flow \div Divisor
        BY <2>7, <4>2, <4>3 DEF SetInterval, Over
      <4>6. flow \div Divisor \in Nat /\ flow \div Divisor <= Half \div Divisor
        BY <4>2, <4>4, Quotient, Ordered, HalfWord, Arithmetic
      <4>7. Half \div Divisor \in Nat
        BY HalfWord, Quotient, Arithmetic
      <4> HIDE DEF flow
      <4> QED
        BY <4>5, <4>6, <4>7, Arithmetic DEF Half
    <3>2. Sane' => Sane
      BY <2>7 DEF SetInterval
    <3>3. setProp'[s] = "negate" /\ iso_timer_interval' \in Int
      BY <2>7, TypeStep DEF SetInterval, Next, SetVideoProp
    <3>4. ASSUME Sane' PROVE iso_timer_interval' > -100
      BY <3>1, <3>3, <3>4
    <3>5. IntervalInv'
      BY <2>7, <3>1, <3>2, <3>3, <3>4 DEF SetInterval, sizes, format, video
    <3>6. SleepsOnlyWhenTorn'
      BY <2>7 DEF SetInterval
    <3> QED
      BY <3>5, <3>6
  <2>8. CASE SetNegate(s)
    <3>1. ASSUME Sane
          PROVE  -100 < iso_timer_interval' /\ iso_timer_interval' <= 0
      BY <2>8, <3>1, Hundredth DEF SetNegate
    <3>2. ~Negative(Initial)
      BY Arithmetic DEF VideoProps
    <3>3. iso_timer_interval' \in Int
      <4>1. Over(iso_timer_interval, 100) \in Int
        BY OverType
      <4> QED
        BY <2>8, <4>1 DEF SetNegate
    <3> QED
      BY <2>8, <3>1, <3>2, <3>3 DEF SetNegate, sizes, format, video
  <2> QED
    BY <1>3, <2>1, <2>2, <2>3, <2>4, <2>5, <2>6, <2>7, <2>8 DEF SetVideoProp
<1>4. CASE TimerStart
  BY <1>4 DEF TimerStart, DueTime, sizes, format, setter, video
<1> QED
  BY <1>1, <1>2, <1>3, <1>4 DEF Next

------------------------------------------------------------------------------
(* The invariant holds for what init_cam_prop sets.                        *)
LEMMA InvInit == Init => NInv
<1> SUFFICES ASSUME Init PROVE NInv
  OBVIOUS
<1>1. Length(Initial.width, Initial.height, Initial.bits) = Initial.width * Initial.height * 2
  BY Arithmetic DEF Length, Over
<1>2. /\ Initial.width \in Nat /\ Initial.height \in Nat /\ Initial \in Given
      /\ Initial.index \in Nat \ {0} /\ Initial.bits = 16
  BY Arithmetic DEF VideoProps, Given
<1>3. frame_length \in 0 .. Half - 1 /\ frame_length = Length(Initial.width, Initial.height, Initial.bits)
  <2>1. Initial.width * Initial.height \in Nat
    BY <1>2
  <2> QED
    BY <1>1, <2>1, HalfWord, Arithmetic DEF Init, Half
<1>4. Wrap(frame_length) = frame_length
  <2>1. (frame_length + Half) % Word = frame_length + Half
    BY <1>3, HalfWord
  <2> QED
    BY <2>1, <1>3, HalfWord DEF Wrap, Half
<1>5. iso_timer_interval = -80
  BY DEF Init
<1>6. TypeOK
  <2>1. frame_length \in Int32 /\ iso_timer_interval \in Int
    BY <1>3, <1>5, HalfWord DEF Int32, Half
  <2>2. needChangeFormat \in BOOLEAN
    BY Zenon DEF Init
  <2>3. prop \in [Setters -> Props \cup {Initial}] /\ setProp \in [Setters -> Stores]
    BY DEF Init, Stores
  <2>4. width \in Int /\ height \in Int /\ bFrameIndex \in Nat \ {0} /\ frame_rate \in 0 .. 120
    BY <1>2 DEF Init
  <2> QED
    BY <2>1, <2>2, <2>3, <2>4 DEF Init, TypeOK
<1>7. StoreInv
  BY <1>2, <1>3, <1>4 DEF Init, StoreInv, Active, Setting, Past, FromIndex, Mode
<1>8. HalfInv /\ CommitInv /\ ProbeIsOneMode /\ SleepsOnlyWhenTorn
  BY DEF Init, HalfInv, CommitInv, ProbeIsOneMode, SleepsOnlyWhenTorn, Answer
<1>9. IntervalInv
  BY <1>2, <1>3, <1>5 DEF Init, IntervalInv, Negative
<1> QED
  BY <1>6, <1>7, <1>8, <1>9 DEF NInv

(* The invariant of the negotiation and the interval, for any requests,    *)
(* sizes and word.                                                         *)
THEOREM NegotiationInvariant == Spec => []NInv
<1>1. NInv /\ [Next]_snVars => NInv'
  BY TypeStep, StoreStep, CommitStep, ProbeStep, IntervalStep DEF NInv
<1> QED
  BY InvInit, <1>1, PTL DEF Spec

(* TypeOK: frame_length is always an int.                                  *)
THEOREM Typed == Spec => []TypeOK
<1>1. NInv => TypeOK
  BY DEF NInv
<1> QED
  BY NegotiationInvariant, <1>1, PTL

(* CommitIsCurrent: a commit that cleared needChangeFormat is for the      *)
(* current frame index, unless handlers overlapped.                        *)
THEOREM CommitsAreCurrent == Spec => []CommitIsCurrent
<1>1. NInv => CommitIsCurrent
  BY DEF NInv, CommitInv, CommitIsCurrent, Setting, Past
<1> QED
  BY NegotiationInvariant, <1>1, PTL

(* ProbeIsOneMode: a probe is answered with the index and the length of    *)
(* one VideoProp, unless handlers overlapped.                              *)
THEOREM ProbesAreOneMode == Spec => []ProbeIsOneMode
<1>1. NInv => ProbeIsOneMode
  BY DEF NInv
<1> QED
  BY NegotiationInvariant, <1>1, PTL

(* SleepsOnlyWhenTorn: the timer is never started with a relative time,    *)
(* for sizes that are not negative and products that are ints, unless it   *)
(* meets an interval between its stores.                                   *)
THEOREM TimerPolls == Spec => []SleepsOnlyWhenTorn
<1>1. NInv => SleepsOnlyWhenTorn
  BY DEF NInv
<1> QED
  BY NegotiationInvariant, <1>1, PTL
=============================================================================
