SPECIFICATION FairSpec
CONSTANTS
  Clients = {1, 2, 3}
  UserIds = {1, 2, 3, 4}
  SessionIds = {1, 2, 3}
  MaxFailedAttempts = 3
  LockoutDuration = 1
  AccessTTL = 1
  SessionTTL = 2
  RefreshTTL = 3
  LoginLimit = 2
  LoginWindow = 1
  MaxWrong = 5
  Worlds <- Situations
INVARIANTS
  LockoutBound
  ShutOut
  
  AdminRemains
PROPERTY RightPasswordGetsIn
