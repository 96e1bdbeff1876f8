SPECIFICATION Spec
CONSTANTS
  SeqMax = 3
  MaxItems = 4
  NetCap = 2
  AckCap = 1
INVARIANTS TypeOK InOrder OneReader NumbersInOrder
PROPERTIES AckedDelivered SolEnds
CHECK_DEADLOCK FALSE
