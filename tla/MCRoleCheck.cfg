SPECIFICATION FairSpec
CONSTANTS
  dome = dome  image = image
  Images <- Paths
  Hint <- Named
  MaxPicks = 2
INVARIANTS
  RoleTypeOK ShownIsOwn NoWrongImagePasses
PROPERTIES
  CheckEnds
CHECK_DEADLOCK FALSE
