\* One connection of a client socket, never reused after destroy.
CONSTANTS
  MaxWrites = 2
  WriteLens <- MCWriteLens
  MaxConnects = 1
  ReuseAfterDestroy = FALSE
  AllowHalfOpen = FALSE
  REMOVE_LISTENER = TRUE
  ConnectCaps <- MCConnectCaps
  Adopted = FALSE

SPECIFICATION Spec






PROPERTY ConnectOnlyWhileLive
