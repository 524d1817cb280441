\* The process ends between any two system calls; no descriptor is left; the
\* disk is full.
SPECIFICATION Spec
CONSTANTS
  v1 = v1
  v2 = v2
  Val <- TwoValues
  Torn = Torn
  MaxData = 4
  MaxFd = 5
  Faults = {"open", "write"}
CHECK_DEADLOCK FALSE
INVARIANTS TypeOK DurableRefs IdsAscending
PROPERTY StoreSpec
