---------------------------- MODULE CameraControl ----------------------------
(***************************************************************************)
(* The camera controls (pan, tilt, zoom, focus) of the control endpoint.   *)
(* The host sets and reads them with class requests; each SET_CUR leaves a *)
(* command that the application fetches with IOCTL_GET_UVC_CMD.  The       *)
(* control queue is sequential: one control transfer at a time.            *)
(*                                                                         *)
(* The list that carries the commands is a queue here; CommandList models  *)
(* it pointer by pointer.  The video requests of the same endpoint are in  *)
(* StreamNegotiation.                                                      *)
(***************************************************************************)
EXTENDS UvcDescriptors

CONSTANTS
  Selectors,    \* the camera controls the host uses, among Controls
  Samples,      \* values the host puts into a field of a control
  MaxTransfers  \* bound on the SET_CUR transfers of a behaviour

------------------------------------------------------------------------------
(* The camera controls: the code of the command for the application, the   *)
(* answers to GET_MIN, GET_MAX, GET_RES and GET_DEF, the initial data, the *)
(* fields SET_CUR stores ("kept"), those the application is told, and      *)
(* those that are limited to 1 .. 10 for it.  UVC numbers are read as the  *)
(* integer type the code reads them with.                                  *)

ZoomAbsolute ==
  [code |-> 6, min |-> <<1>>, max |-> <<10>>, res |-> <<1>>, def |-> <<5>>,
   init |-> <<5>>, kept |-> {1}, told |-> <<1>>, limited |-> {1}, low |-> 0]

ZoomRelative ==
  [code |-> 3, min |-> <<0, 0, 1>>, max |-> <<0, 0, 10>>, res |-> <<0, 0, 1>>,
   def |-> <<0, 1, 5>>, init |-> <<0, 0, 5>>, kept |-> {1, 3},
   told |-> <<1, 3>>, limited |-> {3}, low |-> 0]

PanTiltAbsolute ==
  [code |-> 4, min |-> <<1, 1>>, max |-> <<10, 10>>, res |-> <<1, 1>>,
   def |-> <<5, 5>>, init |-> <<0, 0>>, kept |-> {1, 2}, told |-> <<1, 2>>,
   limited |-> {}, low |-> -1]

PanTiltRelative ==
  [code |-> 1, min |-> <<0, 1, 0, 1>>, max |-> <<0, 10, 0, 10>>,
   res |-> <<0, 1, 0, 1>>, def |-> <<0, 5, 0, 5>>, init |-> <<0, 5, 0, 5>>,
   kept |-> 1 .. 4, told |-> <<1, 2, 3, 4>>, limited |-> {2, 4}, low |-> 0]

(* INT16: values from 32768 on are negative and limited to 1.              *)
FocusAbsolute ==
  [code |-> 5, min |-> <<1>>, max |-> <<10>>, res |-> <<1>>, def |-> <<5>>,
   init |-> <<0>>, kept |-> {1}, told |-> <<1>>, limited |-> {1}, low |-> -1]

FocusRelative ==
  [code |-> 2, min |-> <<0, 1>>, max |-> <<0, 10>>, res |-> <<0, 1>>,
   def |-> <<0, 5>>, init |-> <<0, 5>>, kept |-> {1, 2}, told |-> <<1, 2>>,
   limited |-> {2}, low |-> 0]

(* NDI_PTZ_FOCUS_AUTO has the value of NDI_PTZ_FOCUS_ABS.                  *)
FocusAuto ==
  [code |-> 5, min |-> <<0>>, max |-> <<1>>, res |-> <<1>>, def |-> <<1>>,
   init |-> <<0>>, kept |-> {1}, told |-> <<1>>, limited |-> {}, low |-> 0]

Control ==
  [zoom_abs |-> ZoomAbsolute, zoom_rel |-> ZoomRelative,
   pantilt_abs |-> PanTiltAbsolute, pantilt_rel |-> PanTiltRelative,
   focus_abs |-> FocusAbsolute, focus_rel |-> FocusRelative,
   focus_auto |-> FocusAuto]

Controls == DOMAIN Control

Codes == {Control[s].code : s \in Controls}

ASSUME Usage == Selectors \subseteq Controls /\ Samples \subseteq Int
ASSUME Bound == MaxTransfers \in Nat

(* Mutant: no upper limit.                                                 *)
LimitBelow(v) == IF v < 1 THEN 1 ELSE v

Limit(v) == IF v < 1 THEN 1 ELSE IF v > 10 THEN 10 ELSE v

(* A command: told fields of the data, limited where the control limits    *)
(* them.  "from" is an observer.                                           *)
Command(s, data) ==
  [from |-> s, code |-> Control[s].code,
   values |-> [i \in DOMAIN Control[s].told |->
                 LET f == Control[s].told[i]
                 IN  IF f \in Control[s].limited THEN Limit(data[f]) ELSE data[f]]]

(* GET_CUR of relative zoom always reports digital zoom on.                *)
Current(s, data) ==
  IF s = "zoom_rel" THEN [data EXCEPT ![2] = 1] ELSE data

UVC_CONTROL_CAP_GET == 1
UVC_CONTROL_CAP_SET == 2

Capable(info, cap) == (info \div cap) % 2 = 1

------------------------------------------------------------------------------
VARIABLES
  ptz,        \* ptzData, per control
  commands,   \* ptzListHdr, oldest first
  appView,    \* the last command the application read, per code
  reply,      \* the last completed control transfer
  bugcheck,   \* a transfer was completed twice
  transfers,  \* SET_CUR transfers so far
  told,       \* observer: was the application told what the last SET_CUR stored
  asked       \* observer: the fields of the last SET_CUR to the camera terminal

camera == <<ptz, commands, appView, told, asked>>
ccVars == <<camera, reply, bugcheck, transfers>>

Answer(status, req, data) == [status |-> status, req |-> req, data |-> data]

Nothing == <<>>

(* A control transfer starts.                                              *)
Ready == ~bugcheck

(* The host sends a request of a control to a unit that has it.  wIndex    *)
(* names the unit, and ptzControl compares the selector only: controls of  *)
(* the processing unit that have the selector of a camera control are      *)
(* taken for it.                                                           *)
Receivers(s) ==
  {u \in {"camera", "processing"} : CameraSelectors[s] \in Advertised(u)}

(* What the code finds for a control: one value in the limited fields and  *)
(* one in the others.                                                      *)
Data(s) ==
  LET values == {v \in Samples : v >= Control[s].low}
  IN  {[i \in DOMAIN Control[s].init |-> IF i \in Control[s].limited THEN v ELSE w] :
         v, w \in values}

(* The fields of a control that a transfer brings: all, or the first ones  *)
(* of a shorter wLength.                                                   *)
Sent(s) == 0 .. Len(Control[s].init)

(* The copies have the size of the control and not that of the transfer,   *)
(* so that the fields behind a short one are those of any data.  Two       *)
(* controls, of one field each, are read twice: for the device context and *)
(* for the command.                                                        *)
ReadAgain(s, data, sent) ==
  IF s \in {"zoom_abs", "focus_auto"} /\ sent = 0 THEN Data(s) ELSE {data}

(* What the host takes the control of the camera terminal to be.           *)
Ask(u, s, data, sent) ==
  asked' = IF u = "camera" THEN [asked EXCEPT ![s] = SubSeq(data, 1, sent)] ELSE asked

------------------------------------------------------------------------------
(* IoEvtControlUrb                                                         *)

(* No transfer buffer, or a request ptzControl does not know: success, and  *)
(* nothing is touched.                                                     *)
Ignored ==
  /\ Ready
  /\ reply' = Answer("success", "ignored", Nothing)
  /\ UNCHANGED <<camera, bugcheck, transfers>>

(* Not a class request to an interface, or a buffer shorter than wLength.  *)
Refused ==
  /\ Ready
  /\ reply' = Answer("invalid_request", "refused", Nothing)
  /\ UNCHANGED <<camera, bugcheck, transfers>>

(* Not a control URB: completed here and again at exit.                    *)
NotControl ==
  /\ Ready
  /\ bugcheck' = TRUE
  /\ UNCHANGED <<camera, reply, transfers>>

(* Mutant: the data of one control goes to the array of another.           *)
PtzSetCopyPaste(u, s, data, sent) ==
  /\ Ready /\ transfers < MaxTransfers
  /\ transfers' = transfers + 1 /\ Ask(u, s, data, sent)
  /\ LET t == IF s = "zoom_rel" THEN "focus_abs" ELSE s
     IN  ptz' = [ptz EXCEPT ![t] = data]
  /\ reply' = Answer("success", "set_cur", Nothing)
  /\ UNCHANGED <<commands, told, appView, bugcheck>>

(* Mutant: the command overtakes those that wait.                          *)
PtzSetLifo(u, s, data, sent) ==
  /\ Ready /\ transfers < MaxTransfers
  /\ transfers' = transfers + 1 /\ Ask(u, s, data, sent)
  /\ ptz' = [ptz EXCEPT ![s] = [i \in DOMAIN @ |->
                                  IF i \in Control[s].kept THEN data[i] ELSE @[i]]]
  /\ \/ /\ commands' = <<Command(s, data)>> \o commands
        /\ told' = [told EXCEPT ![s] = "yes"]
     \/ /\ told' = [told EXCEPT ![s] = "no"]
        /\ UNCHANGED commands
  /\ reply' = Answer("success", "set_cur", Nothing)
  /\ UNCHANGED <<appView, bugcheck>>

(* ptzControl, UVC_SET_CUR.  The data is stored as it was read; if the     *)
(* pool has no memory for the command the application is not told, and the *)
(* host hears of success all the same.                                     *)
PtzSet(u, s, data, sent) ==
  /\ Ready /\ transfers < MaxTransfers
  /\ transfers' = transfers + 1 /\ Ask(u, s, data, sent)
  /\ ptz' = [ptz EXCEPT ![s] = [i \in DOMAIN @ |->
                                  IF i \in Control[s].kept THEN data[i] ELSE @[i]]]
  /\ \/ \E read \in ReadAgain(s, data, sent) :
          /\ commands' = Append(commands, Command(s, read))
          /\ told' = [told EXCEPT ![s] = IF read = data THEN "yes" ELSE "other"]
     \/ /\ told' = [told EXCEPT ![s] = "no"]
        /\ UNCHANGED commands
  /\ reply' = Answer("success", "set_cur", Nothing)
  /\ UNCHANGED <<appView, bugcheck>>

(* The other requests of ptzControl.  They change nothing, so that it does *)
(* not matter to which unit they go; the host gets as much of the answer   *)
(* as it asked for.                                                        *)
PtzGet(s) ==
  /\ Ready
  /\ \/ reply' = Answer("success", "get_info", <<2>>)
     \/ reply' = Answer("success", "get_cur", Current(s, ptz[s]))
     \/ reply' = Answer("success", "get_min", Control[s].min)
     \/ reply' = Answer("success", "get_max", Control[s].max)
     \/ reply' = Answer("success", "get_res", Control[s].res)
     \/ reply' = Answer("success", "get_def", Control[s].def)
  /\ UNCHANGED <<camera, bugcheck, transfers>>

------------------------------------------------------------------------------
(* The application                                                         *)

(* IOCTL_GET_UVC_CMD of a list that is not empty, with a buffer that has   *)
(* the size of a command; otherwise it changes nothing.                    *)
ReadCommand ==
  /\ ~bugcheck /\ commands # <<>>
  /\ appView' = [appView EXCEPT ![Head(commands).code] = Head(commands).values]
  /\ commands' = Tail(commands)
  /\ UNCHANGED <<ptz, told, asked, reply, bugcheck, transfers>>

------------------------------------------------------------------------------
(* init_ptz_ctrl_data in a zeroed device context.                          *)
Init ==
  /\ ptz = [s \in Selectors |-> Control[s].init]
  /\ commands = <<>> /\ appView = [c \in Codes |-> Nothing]
  /\ reply = Answer("success", "none", Nothing)
  /\ bugcheck = FALSE /\ transfers = 0
  /\ told = [s \in Selectors |-> "never"]
  /\ asked = [s \in Selectors |-> Nothing]

IoEvtControlUrb ==
  \/ Ignored \/ Refused \/ NotControl
  \/ \E s \in Selectors :
       PtzGet(s) \/ \E u \in Receivers(s), data \in Data(s), sent \in Sent(s) :
                      PtzSet(u, s, data, sent)

Stopped == bugcheck /\ UNCHANGED ccVars

Next == IoEvtControlUrb \/ ReadCommand \/ Stopped

Spec == Init /\ [][Next]_ccVars

------------------------------------------------------------------------------
(* Properties                                                              *)

(* The type of the state: each control keeps the shape of its data.        *)
TypeOK ==
  /\ ptz \in [Selectors -> Seq(Int)]
  /\ \A s \in Selectors : Len(ptz[s]) = Len(Control[s].init)
  /\ commands \in Seq([from : Selectors, code : Codes, values : Seq(Int)])
  /\ Len(commands) <= transfers /\ transfers \in 0 .. MaxTransfers
  /\ appView \in [Codes -> Seq(Int)]
  /\ told \in [Selectors -> {"never", "yes", "no", "other"}]
  /\ asked \in [Selectors -> Seq(Int)]
  /\ bugcheck \in BOOLEAN

(* What the application is told stays in the range the host can ask for    *)
(* with GET_MIN and GET_MAX, whatever the host sets, in every field that   *)
(* the driver limits.                                                      *)
ToldInRange ==
  \A i \in DOMAIN commands :
    LET c == Control[commands[i].from]
    IN  \A k \in DOMAIN c.told :
          c.told[k] \in c.limited =>
            /\ c.min[c.told[k]] <= commands[i].values[k]
            /\ commands[i].values[k] <= c.max[c.told[k]]

(* The two focus controls share a code, so that the application cannot     *)
(* tell one from the other.                                                *)
Unambiguous(s) ==
  \A t \in Controls : Control[t].code = Control[s].code => t = s

(* An application that has read every command knows what GET_CUR tells the *)
(* host, for each control the host has set: commands neither overtake each *)
(* other nor land on another control.  It holds only while the pool has    *)
(* memory, and not for the controls that share their code; a transfer too  *)
(* short to bring the focal length may leave two different values of it.   *)
AppFollowsHost ==
  commands = <<>> =>
    \A s \in Selectors :
      told[s] = "yes" /\ Unambiguous(s) =>
        appView[Control[s].code] = Command(s, Current(s, ptz[s])).values

(* Saturation, sharpness and the automatic white balance have selectors    *)
(* of the camera terminal: ptzControl stores them into these controls.     *)
Strays == {"focus_rel", "focus_auto", "zoom_abs"}

(* The other controls of the camera terminal read back as the host has set *)
(* them there, in every field it sent and that is kept: no request to      *)
(* another unit, and no request of another control, changes them.          *)
TerminalReadsBack ==
  \A s \in Selectors \ Strays :
    \A f \in Control[s].kept \cap DOMAIN asked[s] : ptz[s][f] = asked[s][f]

(* uvc_struct.h gives bit 0 of GET_INFO to "the control supports GET", and *)
(* each GET_INFO branch of ptzControl is commented "GET / SET".            *)
InfoSaysGetAndSet ==
  reply.req = "get_info" =>
    /\ Capable(reply.data[1], UVC_CONTROL_CAP_GET)
    /\ Capable(reply.data[1], UVC_CONTROL_CAP_SET)

=============================================================================
