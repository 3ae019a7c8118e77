\* The LIBNODE_USE_SP emitter; every listener a function of its own, and
\* 'data' listeners that add on() and once() listeners while an emit
\* runs, which emits newListener inside the emit of 'data'.
CONSTANTS
  EVENTS <- MCEvents
  NEW_LISTENER <- MCNewListener
  USE_SP = TRUE
  DistinctFns = TRUE
  Fns <- MCNoFns
  ListenerOps <- MCAddingOps
  CallingEvents <- MCDataCalls
  MaxAdds = 4
  MaxOps = 6

SPECIFICATION Spec
\* The program stops calling once its MaxOps calls are made.
CHECK_DEADLOCK FALSE
INVARIANT TypeOK
INVARIANT OnceAtMostOnce
PROPERTY SnapshotSemantics
PROPERTY EmitReturns
