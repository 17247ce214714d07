SPECIFICATION Spec
CONSTANTS
  Users = {u1, u2}
  NoUser = NoUser
  MaxRequests = 1
SYMMETRY UserSymmetry
INVARIANT
  GetDataFindsUser
