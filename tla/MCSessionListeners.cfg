SPECIFICATION ListenersSpec
CONSTANTS
  Users = {u1, u2}
  NoUser = NoUser
  MaxRequests = 2
  MaxEntries = 2
SYMMETRY UserSymmetry
INVARIANTS
  TypeOK
  NoTrapUnlessDisturbed
  GateUnlessOverlapped
  SavedWhereShown
  SessionInv
  
