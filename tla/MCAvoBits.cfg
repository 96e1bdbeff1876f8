SPECIFICATION Spec
CONSTANTS
  W = 3
  Order <- MCOrder
  MaxWords = 4
  Slack = 6
INVARIANTS TypeOK WindowInv
PROPERTY CursorSpec
CHECK_DEADLOCK FALSE
