CONSTANTS
  MaxWrites = 2
  WriteLens <- MCWriteLens
  MaxConnects = 2
  ReuseAfterDestroy = TRUE
  AllowHalfOpen = FALSE
  REMOVE_LISTENER = TRUE
  ConnectCaps <- MCConnectCaps
  Adopted = FALSE

SPECIFICATION Spec
PROPERTY CallbackAssertions
