--------------------------- MODULE MCEventEmitter ---------------------------
(* Instances of EventEmitter for TLC: one user event besides newListener.  *)
EXTENDS EventEmitter

MCEvents == {"data", "newListener"}
MCNewListener == "newListener"
\* Listeners that register more listeners, the re-entrant calls spec 4.1
\* says an emit must tolerate.
MCAddingOps == {"on", "once"}
\* Listeners that remove a registration, their own or another.
MCRemovingOps == {"remove"}
\* Listeners that register plain listeners only.
MCOnOps == {"on"}
\* Listeners that make no call on their emitter.
MCNoOps == {}
\* Listeners that clear the event they are called for, as OnDestroy does.
MCClearingOps == {"removeAllOf"}
\* Only 'data' listeners call the emitter; newListener listeners do not.
MCDataCalls == {"data"}
MCAllCall == MCEvents
MCNoFns == {}
MCSharedFns == {1}
=============================================================================
