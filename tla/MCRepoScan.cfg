SPECIFICATION Spec
CONSTANTS
  Scanners = {p1, p2}
  Clearers = {c1}
  Limit = 2
  Parts = 3
  MaxLog = 3
INVARIANTS TypeOK WalkIsPrefix NoTornRecord
PROPERTY ScansEnd
