SPECIFICATION FairSpec
CONSTANTS
  Viewers = {v1, v2}
  Cap = 1
INVARIANTS TypeOK LatestOnItsWay PushesInOrder
PROPERTY Settles
