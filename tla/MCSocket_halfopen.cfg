CONSTANTS
  MaxWrites = 2
  WriteLens <- MCWriteLens
  MaxConnects = 1
  ReuseAfterDestroy = FALSE
  AllowHalfOpen = TRUE
  REMOVE_LISTENER = TRUE
  ConnectCaps <- MCConnectCaps
  Adopted = FALSE

SPECIFICATION Spec
PROPERTY HalfOpenHonoured
