\* Camera controls and the application that reads the commands.
SPECIFICATION Spec
CONSTANTS
  Selectors = {"zoom_abs", "zoom_rel", "pantilt_abs", "pantilt_rel", "focus_abs", "focus_rel", "focus_auto"}
  Samples <- BoundarySamples
  MaxTransfers = 2
VIEW WithoutReply
INVARIANTS
  TypeOK
  ToldInRange
  AppFollowsHost
  TerminalReadsBack
