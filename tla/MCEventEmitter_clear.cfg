\* 'data' listeners that call removeAllListeners('data') while it is
\* emitted.
CONSTANTS
  EVENTS <- MCEvents
  NEW_LISTENER <- MCNewListener
  USE_SP = TRUE
  DistinctFns = TRUE
  Fns <- MCNoFns
  ListenerOps <- MCClearingOps
  CallingEvents <- MCDataCalls
  MaxAdds = 3
  MaxOps = 5

SPECIFICATION Spec
\* The program stops calling once its MaxOps calls are made.
CHECK_DEADLOCK FALSE
INVARIANT OnceAtMostOnce
