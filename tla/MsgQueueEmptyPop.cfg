CONSTANTS
  Producers <- MCProducers
  MaxPuts = 2
  MaxCount = 2
  Exit = Exit
  Garbage = Garbage
SPECIFICATION Spec
INVARIANT HandlesOnlyPutMessages
CHECK_DEADLOCK FALSE
