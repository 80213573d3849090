SPECIFICATION FairSpec
CONSTANTS
  card = card  stick = stick  disk = disk  None = None
  Cards <- Removables
  Disks <- FixedOnes
  Source = stick
  Resolves = TRUE
  Numbers <- TwoNumbers
  Size <- Sizes
INVARIANTS
  TypeOK WrittenWasMeant
PROPERTIES
  CardGetsArmed
