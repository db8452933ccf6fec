------------------------- MODULE MCStreamNegotiation -------------------------
(* Small instances of StreamNegotiation for TLC.  Widths are counted in    *)
(* units of 128 pixels and heights in units of 8 lines, so that lengths,   *)
(* Divisor and Word are the real ones divided by 1024, and the intervals   *)
(* are the real ones.                                                      *)
EXTENDS StreamNegotiation, UvcDescriptors

Prop(w, h, bits, rate, index) ==
  [width |-> w \div 128, height |-> h \div 8, bits |-> bits, rate |-> rate,
   index |-> index]

(* IOCTL_SET_VIDEO_PROP with a frame of the descriptor.                    *)
Mode16(f, rate) == Prop(f.width, f.height, Format.bits, rate, f.index)

Boot == Prop(1920, 1080, 16, 0, 1)

(* A mode of the descriptor with a frame rate that is replaced, the        *)
(* largest size with a product beyond int, and a negative width.           *)
ThreeProps ==
  {Mode16(Frames[3], 121), Prop(4096, 2160, 32, 120, 1),
   Prop(-1280, 720, 16, 30, 3)}

(* init_cam_prop sets a size that the descriptor has as another frame.     *)
ASSUME BootIsFrameTwo ==
  /\ Frames[Boot.index].buffer # Frames[2].buffer
  /\ Boot = [Mode16(Frames[2], 0) EXCEPT !.index = 1]

Symmetric == Permutations(Setters)

FourMillion == 4194304 \* 2^32 / 1024
=============================================================================
