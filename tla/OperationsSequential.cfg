CONSTANTS
  o1 = o1  s1 = s1  None = None
  Operations = {o1}
  Slots = {s1}
  MaxAttempts = 3
  MaxCopies = 2
  MaxFaults = 3
SPECIFICATION FairSpec
INVARIANTS TypeOK RunsOnce
PROPERTIES Implements OperationFinishes
