SPECIFICATION Spec
CONSTANTS
  Faults <- AllFaults
  Home <- InOrder
INVARIANTS
  TypeOK BootsComplete NoForeignNetwork
