SPECIFICATION FairSpec
CONSTANTS
  BootMasks <- Masks
  EventFile <- ThreeEvents
  RandomWaits <- Waits
INVARIANTS InterruptsInOrder CrossbarProtocol
PROPERTY InterruptsDelivered
