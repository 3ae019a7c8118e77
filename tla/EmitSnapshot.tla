---------------------------- MODULE EmitSnapshot ----------------------------
(***************************************************************************)
(* What an EventEmitter promises (spec 4.1): every event has an ordered    *)
(* list of listeners; emit() calls, in order, exactly the listeners the    *)
(* list held when the emit started, whatever those listeners add or remove *)
(* while it runs; a once() listener removes its own registration after it  *)
(* has been called.                                                        *)
(*                                                                         *)
(* Calls nest: a listener may call on(), once(), removeListener() or       *)
(* emit() on the same emitter, and on() itself emits newListener.  The     *)
(* nesting is a stack of frames: an emit frame holds the listeners still   *)
(* to be called, a call frame the registration whose listener is running.  *)
(***************************************************************************)
EXTENDS Integers, Sequences, SequencesExt

CONSTANTS EVENTS, NEW_LISTENER, DistinctFns, Fns, ListenerOps, CallingEvents,
          MaxAdds, MaxOps

VARIABLES
  listeners,  \* [EVENTS -> Seq(Entry)]: the registrations, in order
  frames,     \* the stack of emit and call frames
  nextId,     \* registrations so far
  ops         \* calls made on the emitter so far

Ops == {"on", "once", "remove", "removeAllOf", "removeAll", "emit", "listeners"}
Ids == 1..MaxAdds
FnIds == IF DistinctFns THEN Ids ELSE Fns
Entry == [id : Ids, fn : FnIds, once : BOOLEAN]
NoEntry == [id |-> 0, fn |-> 0, once |-> FALSE]

Init ==
  /\ listeners = [ev \in EVENTS |-> <<>>]
  /\ frames = <<>>
  /\ nextId = 0 /\ ops = 0

Top == frames[Len(frames)]

\* Who may call the emitter now: the program when nothing runs, or the
\* listener on top of the stack, with the calls a listener makes.
MayCall(op) ==
  /\ ops < MaxOps
  /\ IF frames = <<>> THEN op \in Ops
                      ELSE /\ Top.kind = "call" /\ Top.ev \in CallingEvents
                           /\ op \in ListenerOps

StartEmit(ls, fr, ev) ==
  IF ls[ev] = <<>> THEN fr
  ELSE Append(fr, [kind |-> "emit", ev |-> ev, todo |-> ls[ev], e |-> NoEntry])

Add(once) ==
  /\ MayCall(IF once THEN "once" ELSE "on")
  /\ nextId < MaxAdds
  /\ \E ev \in EVENTS, fn \in (IF DistinctFns THEN {nextId + 1} ELSE Fns) :
       LET ls == [listeners EXCEPT
                    ![ev] = Append(@, [id |-> nextId + 1, fn |-> fn, once |-> once])]
       IN /\ listeners' = ls
          /\ frames' = StartEmit(ls, frames, NEW_LISTENER)
  /\ nextId' = nextId + 1 /\ ops' = ops + 1

\* removeListener removes the first registration of the function.
WithoutFirst(seq, fn) ==
  LET k == SelectInSeq(seq, LAMBDA x : x.fn = fn)
  IN IF k = 0 THEN seq ELSE RemoveAt(seq, k)

RemoveOne ==
  /\ MayCall("remove")
  /\ \E ev \in EVENTS, fn \in FnIds :
       listeners' = [listeners EXCEPT ![ev] = WithoutFirst(@, fn)]
  /\ ops' = ops + 1 /\ UNCHANGED <<frames, nextId>>

RemoveAllOf ==
  /\ MayCall("removeAllOf")
  /\ \E ev \in EVENTS : listeners' = [listeners EXCEPT ![ev] = <<>>]
  /\ ops' = ops + 1 /\ UNCHANGED <<frames, nextId>>

RemoveAll ==
  /\ MayCall("removeAll")
  /\ listeners' = [ev \in EVENTS |-> <<>>]
  /\ ops' = ops + 1 /\ UNCHANGED <<frames, nextId>>

Emit ==
  /\ MayCall("emit")
  /\ \E ev \in EVENTS : frames' = StartEmit(listeners, frames, ev)
  /\ ops' = ops + 1 /\ UNCHANGED <<listeners, nextId>>

\* listeners(ev) returns the list and changes nothing observable.
ListenersOf ==
  /\ MayCall("listeners")
  /\ ops' = ops + 1 /\ UNCHANGED <<listeners, frames, nextId>>

\* The next listener of the snapshot is called; an exhausted emit returns.
EmitNext ==
  /\ frames # <<>> /\ Top.kind = "emit"
  /\ IF Top.todo = <<>>
       THEN frames' = Front(frames)
       ELSE frames' = Append([frames EXCEPT ![Len(frames)].todo = Tail(@)],
                             [kind |-> "call", ev |-> Top.ev, todo |-> <<>>,
                              e |-> Head(Top.todo)])
  /\ UNCHANGED <<listeners, nextId, ops>>

\* A listener returns; a once() registration is then removed.
Return ==
  /\ frames # <<>> /\ Top.kind = "call"
  /\ frames' = Front(frames)
  /\ listeners' =
       IF Top.e.once
         THEN [listeners EXCEPT ![Top.ev] = SelectSeq(@, LAMBDA x : x.id # Top.e.id)]
         ELSE listeners
  /\ UNCHANGED <<nextId, ops>>

Next ==
  \/ Add(FALSE) \/ Add(TRUE) \/ RemoveOne \/ RemoveAllOf \/ RemoveAll \/ Emit
  \/ ListenersOf \/ EmitNext \/ Return

Spec == Init /\ [][Next]_<<listeners, frames, nextId, ops>>

=============================================================================
