SPECIFICATION Spec
CONSTANTS
  MaxRegistrations = 3
  MaxStops = 2
  NumServices <- MCNumServices
INVARIANTS
  ServicesAttributed
  AcknowledgedIsStored
PROPERTIES
  StoredIsAcknowledged
CHECK_DEADLOCK FALSE
