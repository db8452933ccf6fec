\* Every call may fail, and the PnP manager does what it likes.
SPECIFICATION FairSpec
INVARIANTS
  TypeOK
  DpcExistsWhenEnqueued
  UnplugUnreachable
  TimerStoppedByCleanup
  BugcheckExplained
PROPERTIES
  CameraAppears
