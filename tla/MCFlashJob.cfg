SPECIFICATION FairSpec
CONSTANTS
  NChunks = 3
  MaxPolls = 1
  Faults <- RestoreWorks
INVARIANTS
  TypeOK
  BootsOnlyVerified
  NoHalfCustomizedBoot
  CardSettled
PROPERTIES
  FormatsSafely
  Termination
  KeepsPromise
