SPECIFICATION Spec
CONSTANTS
  Users = {u1, u2}
  NoUser = NoUser
  MaxRequests = 2
SYMMETRY UserSymmetry
INVARIANT
  OnlyVerifiedUsersListed
