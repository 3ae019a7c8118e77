SPECIFICATION Spec
CONSTANTS
  Wire <- MCWire
  MaxHeadersCount = 1
  SplitFields = FALSE
\* The peer may close the connection and the parser may be freed; after
\* that nothing is parsed and the program may stop.
CHECK_DEADLOCK FALSE
INVARIANT AssertionsHold
INVARIANT HeadersAsSent
INVARIANT DataInOrder
