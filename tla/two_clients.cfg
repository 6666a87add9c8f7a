CONSTANTS
  Timer = Timer  Operator = Operator
  Clients = {Timer, Operator}
  FaultKinds = {"crash", "db", "lost", "refused"}
  MaxFaults = 3
  MaxEvents = 3
SPECIFICATION FairSpec
CHECK_DEADLOCK FALSE
INVARIANT TypeOK
INVARIANT LossExplained
INVARIANT DuplicatesCostFaults
PROPERTY IsOutbox
PROPERTY AtLeastOnce
