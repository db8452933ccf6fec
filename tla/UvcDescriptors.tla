--------------------------- MODULE UvcDescriptors ---------------------------
(***************************************************************************)
(* The configuration descriptor that the camera shows the host.  It is a   *)
(* constant array of bytes; here it is the sequence of its descriptors     *)
(* with the fields that the driver's code has to agree with: lengths and   *)
(* totals, the controls of each unit, the frames, the endpoints.           *)
(***************************************************************************)
EXTENDS Integers, Sequences, SequencesExt, FiniteSets

------------------------------------------------------------------------------
(* The configuration, its interface association and the video control      *)
(* interface: a camera terminal (1), a processing unit (2) after it, the   *)
(* output terminal (3) after that, and an extension unit (4) that takes    *)
(* its input from the camera terminal.                                     *)

ConfigurationTotal == 423 \* wTotalLength, 0x01a7
ControlTotal       == 79  \* wTotalLength of the VideoControl header, 0x4f

ConfigurationHead == <<9, 8>>

ControlHeader == 13

(* bmControls as the bits that are set: 0x021e60 and 0x177b.               *)
Units ==
  <<[unit |-> "camera",     bytes |-> 18, source |-> 0, bits |-> {5, 6, 9, 10, 11, 12, 17}],
    [unit |-> "processing", bytes |-> 12, source |-> 1,
     bits |-> {0, 1, 3, 4, 5, 6, 8, 9, 10, 12}],
    [unit |-> "output",     bytes |-> 9,  source |-> 2, bits |-> {}],
    [unit |-> "extension",  bytes |-> 28, source |-> 1, bits |-> {}]>>

InterfaceBytes == 9
EndpointBytes  == 7

------------------------------------------------------------------------------
(* The video streaming interface: a header, one uncompressed format with   *)
(* its frames, and the colour matching.                                    *)

StreamingTotal == 285 \* wTotalLength of the VideoStreaming header, 0x011d

StreamingHeader == 14

Format == [bytes |-> 27, index |-> 1, frames |-> 7, bits |-> 16]

(* Sizes, dwMaxVideoFrameBufferSize, and the default of the two intervals. *)
Frame(i, w, h, buffer) ==
  [index |-> i, width |-> w, height |-> h, buffer |-> buffer,
   interval |-> 333333, bytes |-> 34]

LargeFrames ==
  <<Frame(1, 4096, 2160, 17694720), Frame(2, 1920, 1080, 4147200),
    Frame(3, 1280, 720, 1843200)>>

SmallFrames ==
  <<Frame(4, 704, 576, 811008), Frame(5, 858, 480, 823680),
    Frame(6, 480, 360, 345600), Frame(7, 320, 180, 115200)>>

Frames == LargeFrames \o SmallFrames

ColourMatching == 6

(* Alternate setting 1 has the isochronous endpoint; the interrupt         *)
(* endpoint belongs to the control interface.                              *)
StreamEndpoint  == [address |-> 130, packet |-> 3072] \* 0x82, 0x0c00
StatusEndpoint  == [address |-> 131, packet |-> 16]   \* 0x83

------------------------------------------------------------------------------
(* The device descriptor and the strings that Usb_Initialize adds.         *)

Device == [bytes |-> 18, manufacturer |-> 1, product |-> 2, serial |-> 0]

StringIndices == {1, 2} \* g_ManufacturerIndex, g_ProductIndex

(* iFunction of the association and iInterface of the two interfaces.      *)
InterfaceNames == {2, 0}

(* Usb_Initialize declares a full speed device: the most that an           *)
(* isochronous packet of one may carry.                                    *)
SpeedLimit == 1023

------------------------------------------------------------------------------
(* What other code says about the same things.                             *)

(* DEVICE_DATA_ENDPOINT_ADD makes queues for these addresses.              *)
EndpointAddresses == {130, 131}

(* videoControl: dwFrameInterval and dwMaxPayloadTransferSize of an        *)
(* answer, and its frame indices for GET_MIN and GET_MAX.                  *)
ProbeInterval == 333333 \* 0x00051615
ProbePayload  == 2048
MinIndex == 7
MaxIndex == 1

(* The selectors of ptzControl.                                            *)
CameraSelectors ==
  [focus_abs |-> 6, focus_rel |-> 7, focus_auto |-> 8, zoom_abs |-> 11,
   zoom_rel |-> 12, pantilt_abs |-> 13, pantilt_rel |-> 14]

(* The selector behind each bit of bmControls: bit k is the entry k + 1,   *)
(* 0 where the unit has no such control.                                   *)
SelectorOfBit ==
  [camera     |-> <<1, 2, 3, 4, 5, 6, 7, 9, 10, 11, 12, 13, 14, 15, 16, 0, 0, 8>>,
   processing |-> <<2, 3, 6, 7, 8, 9, 10, 12, 1, 4, 5, 16, 11, 13, 14, 15, 17, 18>>]

Advertised(unit) ==
  LET here == {i \in DOMAIN Units : Units[i].unit = unit}
  IN  {SelectorOfBit[unit][b + 1] : b \in UNION {Units[i].bits : i \in here}}

------------------------------------------------------------------------------
(* How the parts agree.                                                    *)

Bytes(seq) == FoldLeft(LAMBDA n, d : n + d.bytes, 0, seq)

ControlBytes   == ControlHeader + Bytes(Units)
StreamingBytes == StreamingHeader + Format.bytes + Bytes(Frames) + ColourMatching

(* The array has the length it says, so that a host that follows bLength   *)
(* ends at its end; so has the part of the streaming interface.            *)
ASSUME TotalsAgree ==
  /\ FoldLeft(+, 0, ConfigurationHead) + 3 * InterfaceBytes + 2 * EndpointBytes
       + ControlBytes + StreamingBytes = ConfigurationTotal
  /\ StreamingBytes = StreamingTotal

(* The header of the control interface is one byte short of its part.      *)
ASSUME ControlTotalIsShort == ControlBytes = ControlTotal + 1

(* Each unit takes its input from one that was described before.           *)
ASSUME UnitsAreChained == \A i \in DOMAIN Units : Units[i].source \in 0 .. i - 1

(* The frames are numbered as videoControl's GET_MIN and GET_MAX have it,  *)
(* and hold exactly the pixels of the format.                              *)
ASSUME FramesAgree ==
  /\ Len(Frames) = Format.frames
  /\ \A i \in DOMAIN Frames :
       /\ Frames[i].index = i /\ Frames[i].interval = ProbeInterval
       /\ Frames[i].buffer = Frames[i].width * Frames[i].height * (Format.bits \div 8)
       /\ Frames[MinIndex].buffer <= Frames[i].buffer
       /\ Frames[i].buffer <= Frames[MaxIndex].buffer

(* The endpoint carries in one interval what an answer to a probe says:    *)
(* bits 11 and 12 of wMaxPacketSize count additional transactions.         *)
ASSUME EndpointsAgree ==
  /\ {StreamEndpoint.address, StatusEndpoint.address} = EndpointAddresses
  /\ LET size == StreamEndpoint.packet % 2048
         more == (StreamEndpoint.packet \div 2048) % 4
     IN  size * (1 + more) = ProbePayload

(* The endpoint is not one of the speed that the device declares.          *)
ASSUME EndpointIsFaster == StreamEndpoint.packet % 2048 > SpeedLimit

(* Every string that a descriptor names exists; 0 is no string.            *)
ASSUME StringsExist ==
  {Device.manufacturer, Device.product, Device.serial} \cup InterfaceNames
    \subseteq StringIndices \cup {0}

(* ptzControl knows exactly the controls the camera terminal has.  Three   *)
(* of the processing unit's controls have selectors of the camera's.       *)
ASSUME ControlsAgree ==
  /\ Advertised("camera") = {CameraSelectors[s] : s \in DOMAIN CameraSelectors}
  /\ Advertised("camera") \cap Advertised("processing") = {7, 8, 11}
=============================================================================
