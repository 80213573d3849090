SPECIFICATION Spec
CONSTANTS
  card1 = card1  card2 = card2  ssd = ssd
  t1 = t1  t2 = t2
  Medium <- Media
  Fixed <- Fixeds
  Size <- Sizes
  Disk <- Disks
  MaxLetter = 2
  Thread <- Threads
  MaxMoves = 2
CONSTRAINT OneExcuse
SYMMETRY Symmetry
INVARIANTS
  TypeOK OthersLeftAlone GivenSpared CandidatesStripped
CHECK_DEADLOCK FALSE
