\* GET_INFO against the capability bits of uvc_struct.h.
SPECIFICATION Spec
CONSTANTS
  Selectors = {"zoom_abs", "zoom_rel", "pantilt_abs", "pantilt_rel", "focus_abs", "focus_rel", "focus_auto"}
  Samples <- BoundarySamples
  MaxTransfers = 1
INVARIANTS
  InfoSaysGetAndSet
