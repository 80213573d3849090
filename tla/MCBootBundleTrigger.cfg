SPECIFICATION Spec
CONSTANTS
  Faults <- AllFaults
  Home <- InOrder
INVARIANTS
  TriggerLast
