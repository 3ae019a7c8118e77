SPECIFICATION Spec
CONSTANTS
  Wire <- MCWire
  MaxHeadersCount = 1
  SplitFields = TRUE
\* The peer may close the connection and the parser may be freed; after
\* that nothing is parsed and the program may stop.
CHECK_DEADLOCK FALSE
INVARIANT AssertionsHold
