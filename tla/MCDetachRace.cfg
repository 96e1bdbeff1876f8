SPECIFICATION Spec
CONSTANTS
  Reqs = {r1, r2}
  Uploads = {r1, r2}
  Unmounters = {u1, u2}
  None = None
  MaxBusy = 4
  Active = {r1, r2}
SYMMETRY ReqSymmetry
INVARIANT DetachIsClean
