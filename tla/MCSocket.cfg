\* One connection of a client socket, or a socket created over an open
\* stream; never reused after destroy.
CONSTANTS
  MaxWrites = 2
  WriteLens <- MCWriteLens
  MaxConnects = 1
  ReuseAfterDestroy = FALSE
  AllowHalfOpen = FALSE
  REMOVE_LISTENER = TRUE
  ConnectCaps <- MCConnectCaps
  Adopted = TRUE

SPECIFICATION Spec
INVARIANT TypeOK
INVARIANT CloseIsTerminal
INVARIANT WriteCallbacksInOrder
PROPERTY DrainWhenWritesComplete
PROPERTY CallbackAssertions
PROPERTY PeerCloseTearsDown
