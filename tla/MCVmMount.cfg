SPECIFICATION FairSpec
CONSTANTS
  Reqs = {r1, r2}
  Uploads = {r2}
  Unmounters = {u1, u2}
  None = None
  MaxBusy = 3
  Active = {r1}
INVARIANTS TypeOK RecordIsServed NothingHeld
PROPERTIES RecordKept UnmountEnds
