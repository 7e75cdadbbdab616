SPECIFICATION Spec
CONSTANTS
  admin = admin
  bob = bob
  t1 = t1
  t2 = t2
  Names <- TwoNames
  Admin = admin
  Threads <- TwoThreads
  MaxPw = 3
  MaxStops = 2
  NoUser = NoUser
  NoPw = NoPw
  NoThread = NoThread
  Idle = Idle
CHECK_DEADLOCK FALSE
SYMMETRY ThreadSymmetry
INVARIANTS
RevokedStaysRevoked
AnAccountRemains
PasswordsAreKnown
PROPERTIES
SessionsDependOnUsersOnly
