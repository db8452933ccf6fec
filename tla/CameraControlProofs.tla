------------------------- MODULE CameraControlProofs -------------------------
(* Proofs about the camera controls, for any of them, any values the host  *)
(* sets and any number of transfers.                                       *)
EXTENDS CameraControl, SequenceTheorems, TLAPS

------------------------------------------------------------------------------
(* The table of the controls and the operators that read it                *)

(* A control as ptzControl needs it: the fields that SET_CUR stores exist, *)
(* those the application is told are among them and are not in "altered",  *)
(* and what is limited to 1 .. 10 has a range that contains 1 .. 10.       *)
Regular(c, altered) ==
  /\ c.init \in Seq(Int) /\ c.told \in Seq(Nat)
  /\ c.kept \subseteq DOMAIN c.init
  /\ \A k \in DOMAIN c.told : c.told[k] \in c.kept \ altered
  /\ \A k \in DOMAIN c.told :
       c.told[k] \in c.limited =>
         \A v \in 1 .. 10 : c.min[c.told[k]] <= v /\ v <= c.max[c.told[k]]

(* The field that GET_CUR overwrites.                                      *)
Altered(s) == IF s = "zoom_rel" THEN {2} ELSE {}

(* The table of ptzControl has this for every control; the field that      *)
(* GET_CUR overwrites is not one the application is told.                  *)
LEMMA Table ==
  ASSUME NEW s \in Controls
  PROVE  Regular(Control[s], Altered(s)) /\ Control[s].code \in Codes
<1> USE DEF Control, Altered
<1>1. CASE s = "zoom_abs"
  <2>1. Control[s] = ZoomAbsolute
    BY <1>1
  <2>2. Regular(ZoomAbsolute, {})
    BY DEF Regular, ZoomAbsolute
  <2> QED
    BY <1>1, <2>1, <2>2 DEF Codes, Controls
<1>2. CASE s = "zoom_rel"
  <2>1. Control[s] = ZoomRelative
    BY <1>2
  <2>2. Regular(ZoomRelative, {2})
    BY DEF Regular, ZoomRelative
  <2> QED
    BY <1>2, <2>1, <2>2 DEF Codes, Controls
<1>3. CASE s = "pantilt_abs"
  <2>1. Control[s] = PanTiltAbsolute
    BY <1>3
  <2>2. Regular(PanTiltAbsolute, {})
    BY DEF Regular, PanTiltAbsolute
  <2> QED
    BY <1>3, <2>1, <2>2 DEF Codes, Controls
<1>4. CASE s = "pantilt_rel"
  <2>1. Control[s] = PanTiltRelative
    BY <1>4
  <2>2. Regular(PanTiltRelative, {})
    BY DEF Regular, PanTiltRelative
  <2> QED
    BY <1>4, <2>1, <2>2 DEF Codes, Controls
<1>5. CASE s = "focus_abs"
  <2>1. Control[s] = FocusAbsolute
    BY <1>5
  <2>2. Regular(FocusAbsolute, {})
    BY DEF Regular, FocusAbsolute
  <2> QED
    BY <1>5, <2>1, <2>2 DEF Codes, Controls
<1>6. CASE s = "focus_rel"
  <2>1. Control[s] = FocusRelative
    BY <1>6
  <2>2. Regular(FocusRelative, {})
    BY DEF Regular, FocusRelative
  <2> QED
    BY <1>6, <2>1, <2>2 DEF Codes, Controls
<1>7. CASE s = "focus_auto"
  <2>1. Control[s] = FocusAuto
    BY <1>7
  <2>2. Regular(FocusAuto, {})
    BY DEF Regular, FocusAuto
  <2> QED
    BY <1>7, <2>1, <2>2 DEF Codes, Controls
<1> QED
  BY <1>1, <1>2, <1>3, <1>4, <1>5, <1>6, <1>7 DEF Controls

(* A function of the first natural numbers is a sequence.                  *)
LEMMA FunctionIsSeq ==
  ASSUME NEW S, NEW n \in Nat, NEW f \in [1 .. n -> S]
  PROVE  f \in Seq(S) /\ Len(f) = n
OBVIOUS

(* The data of a control, as the host or the device context has it.        *)
Shaped(s, data) == data \in Seq(Int) /\ Len(data) = Len(Control[s].init)

(* What the host sends has the shape of the control.                       *)
LEMMA DataShaped ==
  ASSUME NEW s \in Selectors, NEW data \in Data(s)
  PROVE  Shaped(s, data)
<1>1. Control[s].init \in Seq(Int)
  BY Table, Usage DEF Regular
<1>2. data \in [DOMAIN Control[s].init -> Int]
  <2>1. PICK v \in Samples, w \in Samples :
          data = [i \in DOMAIN Control[s].init |-> IF i \in Control[s].limited THEN v ELSE w]
    BY DEF Data
  <2>2. v \in Int /\ w \in Int
    BY Usage
  <2> QED
    BY <2>1, <2>2
<1>3. Len(Control[s].init) \in Nat /\ DOMAIN Control[s].init = 1 .. Len(Control[s].init)
  BY <1>1, LenProperties
<1> QED
  BY <1>2, <1>3, FunctionIsSeq DEF Shaped

(* What a second read of the transfer finds has it as well.                *)
LEMMA ReadShaped ==
  ASSUME NEW s \in Selectors, NEW data \in Data(s), NEW sent,
         NEW read \in ReadAgain(s, data, sent)
  PROVE  Shaped(s, read)
<1>1. read \in Data(s)
  BY DEF ReadAgain
<1> QED
  BY <1>1, DataShaped

(* The fields that a transfer brings are the first ones of the data.       *)
LEMMA SentProperties ==
  ASSUME NEW s \in Selectors, NEW data \in Data(s), NEW sent \in Sent(s)
  PROVE  LET brought == SubSeq(data, 1, sent)
         IN  /\ brought \in Seq(Int) /\ DOMAIN brought = 1 .. sent
             /\ \A f \in 1 .. sent : brought[f] = data[f]
<1>1. data \in Seq(Int) /\ Len(data) \in Nat /\ sent \in 0 .. Len(data)
  BY DataShaped, LenProperties DEF Shaped, Sent
<1>2. \A f \in 1 .. sent : data[f] \in Int
  BY <1>1, ElementOfSeq
<1> QED
  BY <1>1, <1>2

(* The limit ptzControl puts on a value.                                   *)
LEMMA LimitRange == \A v \in Int : Limit(v) \in 1 .. 10
BY DEF Limit

(* A command has its code and integers, and those that are limited lie in  *)
(* the range the host is offered.                                          *)
LEMMA CommandProperties ==
  ASSUME NEW s \in Selectors, NEW data, Shaped(s, data)
  PROVE  LET c == Control[s]
             m == Command(s, data)
         IN  /\ m \in [from : Selectors, code : Codes, values : Seq(Int)]
             /\ m.from = s /\ m.code = c.code
             /\ \A k \in DOMAIN c.told :
                  c.told[k] \in c.limited =>
                    c.min[c.told[k]] <= m.values[k] /\ m.values[k] <= c.max[c.told[k]]
<1> DEFINE c == Control[s]
           v == [i \in DOMAIN c.told |->
                   LET f == c.told[i]
                   IN  IF f \in c.limited THEN Limit(data[f]) ELSE data[f]]
<1>1. s \in Controls /\ Regular(c, Altered(s)) /\ c.code \in Codes
  BY Table, Usage
<1>2. \A k \in DOMAIN c.told : c.told[k] \in DOMAIN data /\ data[c.told[k]] \in Int
  <2>1. DOMAIN data = DOMAIN c.init
    BY <1>1, LenProperties DEF Regular, Shaped
  <2>2. \A f \in DOMAIN data : data[f] \in Int
    BY LenProperties DEF Shaped
  <2> QED
    BY <1>1, <2>1, <2>2 DEF Regular
<1>3. \A k \in DOMAIN c.told : v[k] \in Int
  BY <1>2, LimitRange
<1>4. v \in Seq(Int)
  <2>1. DOMAIN c.told = 1 .. Len(c.told) /\ Len(c.told) \in Nat
    BY <1>1, LenProperties DEF Regular
  <2>2. v \in [1 .. Len(c.told) -> Int]
    BY <1>3, <2>1
  <2> HIDE DEF v
  <2> QED
    BY <2>1, <2>2, FunctionIsSeq
<1>5. Command(s, data) = [from |-> s, code |-> c.code, values |-> v]
  BY DEF Command
<1>6. \A k \in DOMAIN c.told : c.told[k] \in c.limited => v[k] \in 1 .. 10
  BY <1>2, LimitRange
<1>7. \A k \in DOMAIN c.told :
        c.told[k] \in c.limited => c.min[c.told[k]] <= v[k] /\ v[k] <= c.max[c.told[k]]
  BY <1>1, <1>6 DEF Regular
<1> HIDE DEF v
<1> QED
  BY <1>1, <1>4, <1>5, <1>7

(* What SET_CUR leaves in the device context.                              *)
Stored(s, old, data) ==
  [i \in DOMAIN old |-> IF i \in Control[s].kept THEN data[i] ELSE old[i]]

(* It has the shape of the control and the kept fields of the data, and    *)
(* the application is told of it what GET_CUR tells the host.              *)
LEMMA StoredProperties ==
  ASSUME NEW s \in Selectors, NEW old, NEW data, Shaped(s, old), Shaped(s, data)
  PROVE  /\ Shaped(s, Stored(s, old, data))
         /\ \A f \in Control[s].kept : Stored(s, old, data)[f] = data[f]
         /\ Command(s, Current(s, Stored(s, old, data))).values = Command(s, data).values
<1> DEFINE c == Control[s]
           q == Stored(s, old, data)
<1>1. s \in Controls /\ Regular(c, Altered(s))
  BY Table, Usage
<1>2. /\ old \in Seq(Int) /\ data \in Seq(Int) /\ c.init \in Seq(Int)
      /\ Len(old) = Len(data) /\ Len(old) = Len(c.init)
  BY <1>1 DEF Shaped, Regular
<1>3. q \in Seq(Int) /\ Len(q) = Len(old)
  <2>1. DOMAIN old = 1 .. Len(old) /\ DOMAIN data = 1 .. Len(old) /\ Len(old) \in Nat
    BY <1>2, LenProperties
  <2>2. \A i \in 1 .. Len(old) : old[i] \in Int /\ data[i] \in Int
    BY <1>2, <2>1, ElementOfSeq
  <2>3. q \in [1 .. Len(old) -> Int]
    BY <2>1, <2>2 DEF Stored
  <2> HIDE DEF q
  <2> QED
    BY <2>1, <2>3, FunctionIsSeq
<1>4. \A f \in c.kept : f \in DOMAIN old /\ q[f] = data[f]
  BY <1>1, <1>2 DEF Regular, Stored
<1>5. \A k \in DOMAIN c.told : Current(s, q)[c.told[k]] = data[c.told[k]]
  <2>1. ASSUME NEW k \in DOMAIN c.told
        PROVE  c.told[k] \in DOMAIN q /\ q[c.told[k]] = data[c.told[k]]
               /\ c.told[k] \notin Altered(s)
    BY <1>1, <1>4 DEF Regular, Stored
  <2> HIDE DEF q, c
  <2> QED
    BY <2>1 DEF Current, Altered
<1> QED
  BY <1>2, <1>3, <1>4, <1>5 DEF Shaped, Command

------------------------------------------------------------------------------
(* Types and ranges                                                        *)

(* The device context that init_ptz_ctrl_data fills has the right type.    *)
LEMMA TypeInit == Init => TypeOK
<1> SUFFICES ASSUME Init PROVE TypeOK
  OBVIOUS
<1>1. \A s \in Selectors : Control[s].init \in Seq(Int)
  BY Table, Usage DEF Regular
<1>2. ptz \in [Selectors -> Seq(Int)]
  BY <1>1 DEF Init
<1>3. /\ commands \in Seq([from : Selectors, code : Codes, values : Seq(Int)])
      /\ Len(commands) <= transfers /\ transfers \in 0 .. MaxTransfers
  BY Bound DEF Init
<1>4. /\ appView \in [Codes -> Seq(Int)] /\ asked \in [Selectors -> Seq(Int)]
      /\ told \in [Selectors -> {"never", "yes", "no", "other"}]
  BY DEF Init, Nothing
<1>5. \A s \in Selectors : Len(ptz[s]) = Len(Control[s].init)
  BY DEF Init
<1> QED
  BY <1>2, <1>3, <1>4, <1>5 DEF Init, TypeOK

(* One SET_CUR, of any length, told to the application or not.             *)
LEMMA PtzSetType ==
  ASSUME TypeOK,
         NEW u, NEW s \in Selectors, NEW data \in Data(s), NEW sent \in Sent(s),
         PtzSet(u, s, data, sent)
  PROVE  /\ TypeOK'
         /\ Shaped(s, ptz[s]) /\ Shaped(s, data)
         /\ ptz' = [ptz EXCEPT ![s] = Stored(s, ptz[s], data)]
<1>1. Shaped(s, data) /\ Shaped(s, ptz[s])
  BY DataShaped DEF TypeOK, Shaped
<1>2. ptz' = [ptz EXCEPT ![s] = Stored(s, ptz[s], data)]
  BY DEF PtzSet, Stored, TypeOK
<1>3. ptz' \in [Selectors -> Seq(Int)] /\ \A t \in Selectors : Len(ptz'[t]) = Len(Control[t].init)
  BY <1>1, <1>2, StoredProperties DEF TypeOK, Shaped
<1>4. asked' \in [Selectors -> Seq(Int)]
  BY SentProperties DEF PtzSet, Ask, TypeOK
<1>5. told' \in [Selectors -> {"never", "yes", "no", "other"}]
  BY DEF PtzSet, TypeOK
<1>6. commands' \in Seq([from : Selectors, code : Codes, values : Seq(Int)])
      /\ Len(commands') <= transfers'
  <2>1. \A read \in ReadAgain(s, data, sent) :
          Command(s, read) \in [from : Selectors, code : Codes, values : Seq(Int)]
    BY ReadShaped, CommandProperties
  <2>2. \/ commands' = commands
        \/ \E read \in ReadAgain(s, data, sent) :
             commands' = Append(commands, Command(s, read))
    BY DEF PtzSet
  <2>3. transfers' = transfers + 1 /\ transfers \in Nat
    BY DEF PtzSet, TypeOK
  <2> DEFINE Told == [from : Selectors, code : Codes, values : Seq(Int)]
  <2>4. commands \in Seq(Told) /\ Len(commands) <= transfers /\ Len(commands) \in Nat
    BY LenProperties DEF TypeOK
  <2> HIDE DEF Told
  <2>5. ASSUME NEW read \in ReadAgain(s, data, sent),
               commands' = Append(commands, Command(s, read))
        PROVE  commands' \in Seq(Told) /\ Len(commands') <= transfers'
    <3>1. commands' \in Seq(Told) /\ Len(commands') = Len(commands) + 1
      BY <2>1, <2>4, <2>5, AppendProperties DEF Told
    <3> QED
      BY <2>3, <2>4, <3>1 DEF Told
  <2>6. CASE commands' = commands
    BY <2>3, <2>4, <2>6 DEF Told
  <2> QED
    BY <2>2, <2>5, <2>6 DEF Told
<1>7. transfers' \in 0 .. MaxTransfers
  BY Bound DEF PtzSet, TypeOK
<1>8. appView' \in [Codes -> Seq(Int)] /\ bugcheck' \in BOOLEAN
  BY DEF PtzSet, TypeOK
<1> QED
  BY <1>1, <1>2, <1>3, <1>4, <1>5, <1>6, <1>7, <1>8 DEF TypeOK

(* Every step keeps the type.                                              *)
LEMMA TypeNext == TypeOK /\ [Next]_ccVars => TypeOK'
<1> SUFFICES ASSUME TypeOK, [Next]_ccVars PROVE TypeOK'
  OBVIOUS
<1>1. CASE Ignored \/ Refused \/ NotControl \/ Stopped \/ UNCHANGED ccVars
  BY <1>1 DEF Ignored, Refused, NotControl, Stopped, ccVars, camera, TypeOK
<1>2. ASSUME NEW s \in Selectors, PtzGet(s) PROVE TypeOK'
  BY <1>2 DEF PtzGet, camera, TypeOK
<1>3. ASSUME NEW s \in Selectors, NEW u \in Receivers(s), NEW data \in Data(s),
             NEW sent \in Sent(s), PtzSet(u, s, data, sent)
      PROVE  TypeOK'
  BY <1>3, PtzSetType
<1>4. CASE ReadCommand
  <2>1. /\ Head(commands) \in [from : Selectors, code : Codes, values : Seq(Int)]
        /\ Tail(commands) \in Seq([from : Selectors, code : Codes, values : Seq(Int)])
        /\ Len(Tail(commands)) = Len(commands) - 1
    BY <1>4, HeadTailProperties DEF ReadCommand, TypeOK
  <2>2. appView' \in [Codes -> Seq(Int)]
    BY <1>4, <2>1 DEF ReadCommand, TypeOK
  <2> QED
    BY <1>4, <2>1, <2>2 DEF ReadCommand, TypeOK
<1> QED
  BY <1>1, <1>2, <1>3, <1>4 DEF Next, IoEvtControlUrb

(* The state has its type in every reachable state: each control keeps the *)
(* shape of its data, and no more commands wait than were set.             *)
THEOREM Typed == Spec => []TypeOK
BY TypeInit, TypeNext, PTL DEF Spec

(* A step keeps what waits in range: it adds a command in range, takes the *)
(* first one away, or leaves the list alone.                               *)
LEMMA ToldInRangeNext ==
  TypeOK /\ ToldInRange /\ [Next]_ccVars => ToldInRange'
<1> SUFFICES ASSUME TypeOK, ToldInRange, [Next]_ccVars PROVE ToldInRange'
  OBVIOUS
<1>1. CASE UNCHANGED commands
  BY <1>1 DEF ToldInRange
<1>2. ASSUME NEW s \in Selectors, NEW u \in Receivers(s), NEW data \in Data(s),
             NEW sent \in Sent(s), NEW read \in ReadAgain(s, data, sent),
             commands' = Append(commands, Command(s, read))
      PROVE  ToldInRange'
  <2>1. Shaped(s, read)
    BY ReadShaped
  <2>2. Len(commands) \in Nat /\ Len(commands') = Len(commands) + 1
        /\ DOMAIN commands = 1 .. Len(commands)
        /\ DOMAIN commands' = 1 .. Len(commands) + 1
        /\ commands'[Len(commands) + 1] = Command(s, read)
        /\ \A i \in 1 .. Len(commands) : commands'[i] = commands[i]
    <3>1. Command(s, read) \in [from : Selectors, code : Codes, values : Seq(Int)]
      BY <2>1, CommandProperties
    <3> QED
      BY <1>2, <3>1, AppendProperties, LenProperties DEF TypeOK
  <2> SUFFICES ASSUME NEW i \in DOMAIN commands',
                      NEW k \in DOMAIN Control[commands'[i].from].told,
                      LET c == Control[commands'[i].from]
                      IN  c.told[k] \in c.limited
               PROVE  LET c == Control[commands'[i].from]
                      IN  /\ c.min[c.told[k]] <= commands'[i].values[k]
                          /\ commands'[i].values[k] <= c.max[c.told[k]]
    BY DEF ToldInRange
  <2>3. CASE i \in DOMAIN commands
    BY <2>2, <2>3 DEF ToldInRange
  <2>4. CASE i = Len(commands) + 1
    BY <2>1, <2>2, <2>4, CommandProperties
  <2>5. i \in DOMAIN commands \/ i = Len(commands) + 1
    BY <2>2
  <2> QED
    BY <2>3, <2>4, <2>5, Zenon
<1>3. CASE ReadCommand
  <2>1. \A i \in DOMAIN commands' : i + 1 \in DOMAIN commands /\ commands'[i] = commands[i + 1]
    BY <1>3, HeadTailProperties, LenProperties DEF ReadCommand, TypeOK
  <2> QED
    BY <2>1 DEF ToldInRange
<1> QED
  BY <1>1, <1>2, <1>3 DEF Next, IoEvtControlUrb, Ignored, Refused, NotControl, PtzGet,
     PtzSet, Stopped, ccVars, camera

(* What the application is told stays in the range the host was offered,   *)
(* for every value of every control.                                       *)
THEOREM LimitsHold == Spec => []ToldInRange
<1>1. Init => ToldInRange
  BY DEF Init, ToldInRange
<1> QED
  BY <1>1, Typed, ToldInRangeNext, PTL DEF Spec

------------------------------------------------------------------------------
(* What the application knows                                              *)

(* What the application is to know of a control.                           *)
View(s) == Command(s, Current(s, ptz[s])).values

(* The newest word on a control that has a code of its own is what GET_CUR *)
(* tells the host: the last command with this code that waits, or what the *)
(* application read if none waits.                                         *)
FollowsInv ==
  \A s \in Selectors :
    told[s] = "yes" /\ Unambiguous(s) =>
      /\ \A i \in DOMAIN commands :
           /\ commands[i].code = Control[s].code
           /\ \A j \in DOMAIN commands : j > i => commands[j].code # Control[s].code
           => commands[i].values = View(s)
      /\ (\A i \in DOMAIN commands : commands[i].code # Control[s].code) =>
           appView[Control[s].code] = View(s)

(* A SET_CUR of a control is the newest word on it and on no other control *)
(* that has a code of its own.                                             *)
LEMMA PtzSetFollows ==
  ASSUME TypeOK, FollowsInv,
         NEW u, NEW t \in Selectors, NEW data \in Data(t), NEW sent \in Sent(t),
         PtzSet(u, t, data, sent)
  PROVE  FollowsInv'
<1>1. Shaped(t, ptz[t]) /\ Shaped(t, data)
      /\ ptz' = [ptz EXCEPT ![t] = Stored(t, ptz[t], data)]
  BY PtzSetType
<1>2. \A s \in Selectors : s # t => View(s)' = View(s)
  BY <1>1 DEF View, TypeOK
<1>3. View(t)' = Command(t, data).values
  <2>1. ptz'[t] = Stored(t, ptz[t], data)
    BY <1>1 DEF TypeOK
  <2> QED
    BY <1>1, <2>1, StoredProperties DEF View
<1>4. \A s \in Selectors : s # t => told'[s] = told[s]
  BY DEF PtzSet, TypeOK
<1>5. UNCHANGED appView
  BY DEF PtzSet
<1>6. CASE UNCHANGED commands /\ told'[t] = "no"
  BY <1>2, <1>4, <1>5, <1>6 DEF FollowsInv
<1>7. ASSUME NEW read \in ReadAgain(t, data, sent),
             commands' = Append(commands, Command(t, read)),
             told'[t] = "yes" => read = data
      PROVE  FollowsInv'
  <2>1. /\ Len(commands) \in Nat /\ DOMAIN commands = 1 .. Len(commands)
        /\ DOMAIN commands' = 1 .. Len(commands) + 1
        /\ commands'[Len(commands) + 1] = Command(t, read)
        /\ \A i \in 1 .. Len(commands) : commands'[i] = commands[i]
    <3>1. Command(t, read) \in [from : Selectors, code : Codes, values : Seq(Int)]
      BY ReadShaped, CommandProperties
    <3> QED
      BY <1>7, <3>1, AppendProperties, LenProperties DEF TypeOK
  <2>2. Command(t, read).code = Control[t].code
    BY ReadShaped, CommandProperties
  <2> SUFFICES ASSUME NEW s \in Selectors, told'[s] = "yes", Unambiguous(s)
               PROVE  /\ \A i \in DOMAIN commands' :
                           /\ commands'[i].code = Control[s].code
                           /\ \A j \in DOMAIN commands' :
                                j > i => commands'[j].code # Control[s].code
                           => commands'[i].values = View(s)'
                      /\ (\A i \in DOMAIN commands' :
                            commands'[i].code # Control[s].code) =>
                           appView'[Control[s].code] = View(s)'
    BY DEF FollowsInv, Unambiguous
  <2>3. CASE s = t
    BY <1>3, <1>7, <2>1, <2>2, <2>3
  <2>4. CASE s # t
    <3>1. Control[t].code # Control[s].code
      BY <2>4, Usage DEF Unambiguous
    <3>2. told[s] = "yes" /\ View(s)' = View(s)
      BY <1>2, <1>4, <2>4
    <3> QED
      BY <1>5, <2>1, <2>2, <3>1, <3>2 DEF FollowsInv
  <2> QED
    BY <2>3, <2>4
<1> QED
  BY <1>6, <1>7 DEF PtzSet, TypeOK

(* Reading a command moves the newest word to the application if it was    *)
(* the last one on its control.                                            *)
LEMMA ReadFollows ==
  ASSUME TypeOK, FollowsInv, ReadCommand
  PROVE  FollowsInv'
<1>1. /\ Len(commands) \in Nat \ {0} /\ DOMAIN commands = 1 .. Len(commands)
      /\ DOMAIN commands' = 1 .. Len(commands) - 1
      /\ \A i \in 1 .. Len(commands) - 1 : commands'[i] = commands[i + 1]
      /\ Head(commands) = commands[1]
  BY HeadTailProperties, LenProperties, EmptySeq DEF ReadCommand, TypeOK
<1>2. UNCHANGED <<ptz, told>>
  BY DEF ReadCommand
<1>3. /\ commands[1].code \in Codes
      /\ appView' = [appView EXCEPT ![commands[1].code] = commands[1].values]
  <2>1. commands[1] \in [from : Selectors, code : Codes, values : Seq(Int)]
    <3>1. 1 \in 1 .. Len(commands)
      BY <1>1
    <3>2. commands \in Seq([from : Selectors, code : Codes, values : Seq(Int)])
      BY DEF TypeOK
    <3> QED
      BY <3>1, <3>2, ElementOfSeq, Zenon
  <2> QED
    BY <1>1, <2>1 DEF ReadCommand
<1> SUFFICES ASSUME NEW s \in Selectors, told[s] = "yes", Unambiguous(s)
             PROVE  /\ \A i \in DOMAIN commands' :
                         /\ commands'[i].code = Control[s].code
                         /\ \A j \in DOMAIN commands' :
                              j > i => commands'[j].code # Control[s].code
                         => commands'[i].values = View(s)
                    /\ (\A i \in DOMAIN commands' :
                          commands'[i].code # Control[s].code) =>
                         appView'[Control[s].code] = View(s)
  BY <1>2 DEF FollowsInv, Unambiguous, View
<1> DEFINE c == Control[s].code
<1>4. c \in Codes /\ appView \in [Codes -> Seq(Int)]
  BY Table, Usage DEF TypeOK
<1>5. ASSUME NEW i \in DOMAIN commands', commands'[i].code = c,
             \A j \in DOMAIN commands' : j > i => commands'[j].code # c
      PROVE  commands'[i].values = View(s)
  <2>1. i + 1 \in DOMAIN commands /\ commands[i + 1].code = c
    BY <1>1, <1>5
  <2>2. ASSUME NEW j \in DOMAIN commands, j > i + 1 PROVE commands[j].code # c
    <3>1. j - 1 \in DOMAIN commands' /\ commands'[j - 1] = commands[j]
      BY <1>1, <2>2
    <3> QED
      BY <1>1, <1>5, <2>2, <3>1
  <2> QED
    BY <1>1, <2>1, <2>2 DEF FollowsInv
<1>6. ASSUME \A i \in DOMAIN commands' : commands'[i].code # c
      PROVE  appView'[c] = View(s)
  <2>1. ASSUME NEW j \in DOMAIN commands, j > 1 PROVE commands[j].code # c
    <3>1. j - 1 \in DOMAIN commands' /\ commands'[j - 1] = commands[j]
      BY <1>1, <2>1
    <3> QED
      BY <1>6, <3>1
  <2>2. CASE commands[1].code = c
    BY <1>1, <1>3, <1>4, <2>1, <2>2 DEF FollowsInv
  <2>3. CASE commands[1].code # c
    BY <1>1, <1>3, <1>4, <2>1, <2>3 DEF FollowsInv
  <2> QED
    BY <2>2, <2>3
<1> QED
  BY <1>5, <1>6

(* Every step keeps it.                                                    *)
LEMMA FollowsNext == TypeOK /\ FollowsInv /\ [Next]_ccVars => FollowsInv'
<1> SUFFICES ASSUME TypeOK, FollowsInv, [Next]_ccVars PROVE FollowsInv'
  OBVIOUS
<1>1. CASE UNCHANGED camera
  BY <1>1 DEF FollowsInv, View, Unambiguous, camera
<1>2. ASSUME NEW s \in Selectors, NEW u \in Receivers(s), NEW data \in Data(s),
             NEW sent \in Sent(s), PtzSet(u, s, data, sent)
      PROVE  FollowsInv'
  BY <1>2, PtzSetFollows
<1>3. CASE ReadCommand
  BY <1>3, ReadFollows
<1> QED
  BY <1>1, <1>2, <1>3 DEF Next, IoEvtControlUrb, Ignored, Refused, NotControl, PtzGet,
     Stopped, ccVars, camera

(* An application that has read every command knows what GET_CUR tells the *)
(* host: no command overtakes another or lands on another control, however *)
(* many are sent and whatever is in them.                                  *)
THEOREM FollowsHost == Spec => []AppFollowsHost
<1>1. Init => FollowsInv
  BY DEF Init, FollowsInv
<1>2. FollowsInv => AppFollowsHost
  BY DEF FollowsInv, AppFollowsHost, View
<1> QED
  BY <1>1, <1>2, Typed, FollowsNext, PTL DEF Spec

------------------------------------------------------------------------------
(* What the host reads back                                                *)

(* A request that reaches the camera's control from the processing unit is *)
(* one of the strays.                                                      *)
LEMMA OnlyStraysCross ==
  ASSUME NEW s \in Controls, "processing" \in Receivers(s)
  PROVE  s \in Strays
<1>1. /\ s \in DOMAIN CameraSelectors
      /\ CameraSelectors[s] \in Advertised("camera")
  BY ControlsAgree DEF Controls, Control, CameraSelectors
<1>2. CameraSelectors[s] \in {7, 8, 11}
  BY <1>1, ControlsAgree DEF Receivers
<1> QED
  BY <1>2 DEF CameraSelectors, Controls, Control, Strays

(* A SET_CUR to the camera terminal is stored as it was asked; one to      *)
(* another unit or control leaves the control alone.                       *)
LEMMA ReadsBackNext ==
  TypeOK /\ TerminalReadsBack /\ [Next]_ccVars => TerminalReadsBack'
<1> SUFFICES ASSUME TypeOK, TerminalReadsBack, [Next]_ccVars PROVE TerminalReadsBack'
  OBVIOUS
<1>1. CASE UNCHANGED <<ptz, asked>>
  BY <1>1 DEF TerminalReadsBack
<1>2. ASSUME NEW t \in Selectors, NEW u \in Receivers(t), NEW data \in Data(t),
             NEW sent \in Sent(t), PtzSet(u, t, data, sent)
      PROVE  TerminalReadsBack'
  <2>1. Shaped(t, ptz[t]) /\ Shaped(t, data)
        /\ ptz' = [ptz EXCEPT ![t] = Stored(t, ptz[t], data)]
    BY <1>2, PtzSetType
  <2>2. \A f \in Control[t].kept : ptz'[t][f] = data[f]
    BY <2>1, StoredProperties DEF TypeOK
  <2>3. u = "camera" => asked' = [asked EXCEPT ![t] = SubSeq(data, 1, sent)]
    BY <1>2 DEF PtzSet, Ask
  <2>4. u # "camera" => asked' = asked /\ t \in Strays
    BY <1>2, OnlyStraysCross, Usage DEF PtzSet, Ask, Receivers
  <2>5. /\ DOMAIN SubSeq(data, 1, sent) = 1 .. sent
        /\ \A f \in 1 .. sent : SubSeq(data, 1, sent)[f] = data[f]
    BY <1>2, SentProperties
  <2>6. ASSUME NEW s \in Selectors \ Strays, NEW f \in Control[s].kept \cap DOMAIN asked'[s]
        PROVE  ptz'[s][f] = asked'[s][f]
    <3>1. CASE u = "camera" /\ s = t
      <4>1. asked'[s] = SubSeq(data, 1, sent)
        BY <2>3, <3>1 DEF TypeOK
      <4> QED
        BY <2>2, <2>5, <2>6, <3>1, <4>1
    <3>2. CASE u # "camera" \/ s # t
      <4>1. asked'[s] = asked[s] /\ ptz'[s] = ptz[s]
        BY <2>1, <2>3, <2>4, <3>2 DEF TypeOK
      <4> QED
        BY <2>6, <4>1 DEF TerminalReadsBack
    <3> QED
      BY <3>1, <3>2
  <2> QED
    BY <2>6 DEF TerminalReadsBack
<1> QED
  BY <1>1, <1>2 DEF Next, IoEvtControlUrb, Ignored, Refused, NotControl, PtzGet,
     ReadCommand, Stopped, ccVars, camera

(* The controls that no other unit shares read back what the host set.     *)
THEOREM ReadsBack == Spec => []TerminalReadsBack
<1>1. Init => TerminalReadsBack
  <2>1. DOMAIN Nothing = {}
    BY DEF Nothing
  <2> QED
    BY <2>1 DEF Init, TerminalReadsBack
<1> QED
  BY <1>1, Typed, ReadsBackNext, PTL DEF Spec
=============================================================================
