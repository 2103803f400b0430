SPECIFICATION Spec
CONSTANTS
  Samples = 3
  Setups <- AllSetups
INVARIANTS
  TypeOK
  SamplesAreSound
  EveryEndIsAsked
PROPERTIES
  ImplementsSampleLoop
  EveryCaptureEnds
CHECK_DEADLOCK FALSE
