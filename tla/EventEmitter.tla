---------------------------- MODULE EventEmitter ----------------------------
(***************************************************************************)
(* events::EventEmitter (include/libnode/detail/events/event_emitter.h):   *)
(* the listener arrays, the Once wrapper and the two emit loops, the one   *)
(* built with LIBNODE_USE_SP (99-116) and the other one (176-189).         *)
(*                                                                         *)
(* Listener arrays are reference-counted objects: an emit keeps the array  *)
(* it started on even when removeAllListeners() detaches it from the       *)
(* emitter.  They are modelled as the sequence `arrays' of every array     *)
(* created, and `cur', which gives the index of the array an event is      *)
(* bound to (0: none).                                                     *)
(*                                                                         *)
(* A listener is user code: while it runs it may call the emitter (the     *)
(* calls in ListenerOps), and it returns.  Nested calls form a stack of    *)
(* frames: an emit frame is the state of an emit() loop, a call frame a    *)
(* listener running.  A registration's function is its own one when       *)
(* DistinctFns holds, or one of the functions Fns shared between           *)
(* registrations.                                                          *)
(***************************************************************************)
EXTENDS Integers, Sequences, SequencesExt

CONSTANTS
  EVENTS,        \* the event names a program uses
  NEW_LISTENER,  \* I::EVENT_NEW_LISTENER, emitted by addListener
  USE_SP,        \* the LIBNODE_USE_SP build option
  DistinctFns,   \* every registration passes a function of its own
  Fns,           \* the functions registrations share otherwise
  ListenerOps,   \* the calls a listener makes on its emitter
  CallingEvents, \* the events whose listeners make those calls
  MaxAdds,       \* bound on on() and once() registrations
  MaxOps         \* bound on calls made on the emitter

ASSUME NEW_LISTENER \in EVENTS /\ USE_SP \in BOOLEAN /\ DistinctFns \in BOOLEAN
ASSUME MaxAdds \in Nat /\ MaxOps \in Nat

Ops == {"on", "once", "remove", "removeAllOf", "removeAll", "emit", "listeners"}
ASSUME ListenerOps \subseteq Ops /\ CallingEvents \subseteq EVENTS

Ids == 1..MaxAdds
FnIds == IF DistinctFns THEN Ids ELSE Fns
\* A registration: a JsFunction, or a Once wrapping one (once = TRUE).
Entry == [id : Ids, fn : FnIds, once : BOOLEAN]
NoEntry == [id |-> 0, fn |-> 0, once |-> FALSE]

VARIABLES
  arrays,     \* every listener array created, by index
  cur,        \* [EVENTS -> index of the bound array, 0 if none]
  stack,      \* frames of the nested emit() loops and listener calls
  nextId,     \* registrations so far
  ops,        \* calls made on the emitter so far
  onceCalls,  \* history: times each once() registration was called (max 2)
  fault       \* a null listener was dereferenced

vars == <<arrays, cur, stack, nextId, ops, onceCalls, fault>>

Frame == [kind : {"emit", "call"}, ev : EVENTS, a : Nat, i : Nat, len : Nat,
          e : Entry \cup {NoEntry}]

\* The state of the loop of an emit() frame: 0 <= i <= len in the
\* LIBNODE_USE_SP loop, whose len counts the entries still to visit.
LoopStateOK(f) == f.kind = "emit" /\ USE_SP => f.i <= f.len

TypeOK ==
  /\ arrays \in Seq(Seq(Entry))
  /\ cur \in [EVENTS -> 0..Len(arrays)]
  /\ stack \in Seq(Frame) /\ \A k \in DOMAIN stack : LoopStateOK(stack[k])
  /\ nextId \in 0..MaxAdds /\ ops \in 0..MaxOps
  /\ onceCalls \in [Ids -> 0..2]
  /\ fault \in BOOLEAN

-----------------------------------------------------------------------------
(* The emitter as a record, and a record made the next state.              *)

St == [arrays |-> arrays, cur |-> cur, stack |-> stack]
Become(s) == arrays' = s.arrays /\ cur' = s.cur /\ stack' = s.stack

Arr(s, ev) == IF s.cur[ev] = 0 THEN <<>> ELSE s.arrays[s.cur[ev]]
SetArr(s, k, seq) == [s EXCEPT !.arrays[k] = seq]
Push(s, f) == [s EXCEPT !.stack = Append(@, f)]
Pop(s) == [s EXCEPT !.stack = Front(@)]

\* newListeners (SP, 391-396), and listeners() of the other build (165-174),
\* which binds a new array to an event that has none.
NewListeners(s, ev) ==
  [s EXCEPT !.arrays = Append(@, <<>>), !.cur[ev] = Len(s.arrays) + 1]
Listeners(s, ev) == IF s.cur[ev] = 0 THEN NewListeners(s, ev) ELSE s

\* emit() up to its loop: an event without listeners returns false
\* (99-105, 176-181); the other build creates the array first.
EmitStart(s, ev) ==
  LET s1 == IF USE_SP THEN s ELSE Listeners(s, ev)
  IN IF Arr(s1, ev) = <<>> THEN s1
     ELSE Push(s1, [kind |-> "emit", ev |-> ev, a |-> s1.cur[ev], i |-> 0,
                    len |-> Len(Arr(s1, ev)), e |-> NoEntry])

\* addListener (36-50, 123-133): append, then emit newListener.
AddListener(s, ev, e) ==
  LET s1 == Listeners(s, ev)
  IN EmitStart(SetArr(s1, s1.cur[ev], Append(Arr(s1, ev), e)), NEW_LISTENER)

\* Fault variant: the search stops one entry past the first match.
RemoveMatchNext(seq, fn) ==
  LET k == SelectInSeq(seq, LAMBDA x : x.fn = fn)
  IN IF k = 0 THEN seq ELSE RemoveAt(seq, k + 1)

\* The loop of removeListener (57-72, 138-154): the first entry whose
\* function, or whose Once's wrapped function, is fn.
RemoveMatch(seq, fn) ==
  LET k == SelectInSeq(seq, LAMBDA x : x.fn = fn)
  IN IF k = 0 THEN seq ELSE RemoveAt(seq, k)

\* removeListener (52-73, 135-155); the other build creates the array.
RemoveListener(s, ev, fn) ==
  LET s1 == IF USE_SP THEN s ELSE Listeners(s, ev)
  IN IF s1.cur[ev] = 0 THEN s1
     ELSE SetArr(s1, s1.cur[ev], RemoveMatch(Arr(s1, ev), fn))

\* removeAllListeners(event) (80-89, 161-163) and removeAllListeners()
\* (75-78, 157-159) unbind arrays; an emit running on one keeps it.
RemoveAllListenersOf(s, ev) == [s EXCEPT !.cur[ev] = 0]
RemoveAllListeners(s) == [s EXCEPT !.cur = [x \in EVENTS |-> 0]]

\* Fault variant: the Once wrapper that never removes its registration.
OnceDoneKeep(s, f) == s

\* Once::operator() after the wrapped listener returns (363-367):
\* ee_->removeListener(event_, listener_).
OnceDone(s, f) == IF f.e.once THEN RemoveListener(s, f.ev, f.e.fn) ELSE s

-----------------------------------------------------------------------------
(* One iteration of an emit() loop, on the frame on top of the stack: it   *)
(* returns, or pushes the call of the entry at index i (0-based).          *)

CallOf(f, e) == [kind |-> "call", ev |-> f.ev, a |-> 0, i |-> 0, len |-> 0, e |-> e]

\* Fault variant: the SP loop that also advances i past a Once.
EmitNextAdvanceOnce(s) ==
  LET n == Len(s.stack)  f == s.stack[n]  a == s.arrays[f.a]
  IN IF f.i >= f.len THEN Pop(s)
     ELSE LET e == a[f.i + 1]
              f1 == IF e.once THEN [f EXCEPT !.len = @ - 1, !.i = @ + 1]
                              ELSE [f EXCEPT !.i = @ + 1]
          IN Push([s EXCEPT !.stack[n] = f1], CallOf(f, e))

\* Fault variant: the SP loop that forgets to advance past a plain listener.
EmitNextStuck(s) ==
  LET n == Len(s.stack)  f == s.stack[n]  a == s.arrays[f.a]
  IN IF f.i >= f.len THEN Pop(s)
     ELSE LET e == a[f.i + 1]
              f1 == IF e.once THEN [f EXCEPT !.len = @ - 1] ELSE f
          IN Push([s EXCEPT !.stack[n] = f1], CallOf(f, e))

\* LIBNODE_USE_SP (104-114): len is read once; a Once, which will remove
\* itself, shortens it instead of advancing i.  The other build (181-187)
\* compares i with the array's current size and advances i only past a Once.
EmitNext(s) ==
  LET n == Len(s.stack)  f == s.stack[n]  a == s.arrays[f.a]
  IN IF USE_SP
       THEN IF f.i >= f.len THEN Pop(s)
            ELSE LET e == a[f.i + 1]
                     f1 == IF e.once THEN [f EXCEPT !.len = @ - 1]
                                     ELSE [f EXCEPT !.i = @ + 1]
                 IN Push([s EXCEPT !.stack[n] = f1], CallOf(f, e))
       ELSE IF f.i >= Len(a) THEN Pop(s)
            ELSE LET e == a[f.i + 1]
                     f1 == IF e.once THEN [f EXCEPT !.i = @ + 1] ELSE f
                 IN Push([s EXCEPT !.stack[n] = f1], CallOf(f, e))

-----------------------------------------------------------------------------
(* Actions.  The program calls the emitter when nothing runs; a listener   *)
(* calls it while it runs, then returns.                                    *)

Init ==
  /\ arrays = <<>> /\ cur = [ev \in EVENTS |-> 0]
  /\ stack = <<>> /\ nextId = 0 /\ ops = 0
  /\ onceCalls = [id \in Ids |-> 0] /\ fault = FALSE

Top == stack[Len(stack)]

MayCall(op) ==
  /\ ~fault /\ ops < MaxOps
  /\ IF stack = <<>> THEN op \in Ops
                     ELSE /\ Top.kind = "call" /\ Top.ev \in CallingEvents
                          /\ op \in ListenerOps

Call(s) == Become(s) /\ ops' = ops + 1 /\ UNCHANGED <<onceCalls, fault>>

FreshFns == IF DistinctFns THEN {nextId + 1} ELSE Fns

\* on() (192-194) and once() (196-201), which wraps the listener in a Once.
Add(once) ==
  /\ MayCall(IF once THEN "once" ELSE "on")
  /\ nextId < MaxAdds
  /\ \E ev \in EVENTS, fn \in FreshFns :
       Call(AddListener(St, ev, [id |-> nextId + 1, fn |-> fn, once |-> once]))
  /\ nextId' = nextId + 1

RemoveOne ==
  /\ MayCall("remove")
  /\ \E ev \in EVENTS, fn \in FnIds : Call(RemoveListener(St, ev, fn))
  /\ UNCHANGED nextId

RemoveAllOf ==
  /\ MayCall("removeAllOf")
  /\ \E ev \in EVENTS : Call(RemoveAllListenersOf(St, ev))
  /\ UNCHANGED nextId

RemoveAll == MayCall("removeAll") /\ Call(RemoveAllListeners(St)) /\ UNCHANGED nextId

Emit ==
  /\ MayCall("emit")
  /\ \E ev \in EVENTS : Call(EmitStart(St, ev))
  /\ UNCHANGED nextId

\* listeners(event) (91-97, 165-174) creates the array of a new event.
ListenersOf ==
  /\ MayCall("listeners")
  /\ \E ev \in EVENTS : Call(Listeners(St, ev))
  /\ UNCHANGED nextId

\* getTyped past the end of a shrunk array yields a null listener, and
\* calling it dereferences null.
NullListener ==
  USE_SP /\ Top.i < Top.len /\ Top.i + 1 > Len(arrays[Top.a])

EmitStep ==
  /\ ~fault /\ stack # <<>> /\ Top.kind = "emit"
  /\ IF NullListener
       THEN fault' = TRUE /\ UNCHANGED <<arrays, cur, stack, nextId, ops, onceCalls>>
       ELSE LET s1 == EmitNext(St)
                called == Len(s1.stack) > Len(stack)
                e == Last(s1.stack).e
            IN /\ Become(s1)
               /\ onceCalls' = IF called /\ e.once
                                 THEN [onceCalls EXCEPT ![e.id] = IF @ < 2 THEN @ + 1 ELSE 2]
                                 ELSE onceCalls
               /\ UNCHANGED <<nextId, ops, fault>>

\* The running listener returns; a Once then removes its registration.
Return ==
  /\ ~fault /\ stack # <<>> /\ Top.kind = "call"
  /\ Become(OnceDone(Pop(St), Top))
  /\ UNCHANGED <<nextId, ops, onceCalls, fault>>

Next ==
  \/ Add(FALSE) \/ Add(TRUE) \/ RemoveOne \/ RemoveAllOf \/ RemoveAll \/ Emit
  \/ ListenersOf \/ EmitStep \/ Return

\* emit() is a loop of the running thread and a listener is finite code:
\* both go on while they can.  Nothing forces the program to call.
Fairness == WF_vars(EmitStep) /\ WF_vars(Return)

Spec == Init /\ [][Next]_vars /\ Fairness

-----------------------------------------------------------------------------
(* Refinement mapping to EmitSnapshot.  The listeners an emit frame has    *)
(* still to call are the entries i+1..len of its array; while a Once it    *)
(* called still runs, that Once is still at i+1 and len has already been   *)
(* decremented, so the window is one entry further.                        *)

Pending(k) ==
  LET f == stack[k]
      a == arrays[f.a]
      busy == /\ USE_SP /\ k < Len(stack) /\ stack[k + 1].e.once
              /\ f.i + 1 <= Len(a) /\ a[f.i + 1] = stack[k + 1].e
      lo == f.i + 1 + (IF busy THEN 1 ELSE 0)
      hi == IF USE_SP THEN f.len + (IF busy THEN 1 ELSE 0) ELSE Len(a)
      top == IF hi < Len(a) THEN hi ELSE Len(a)
  IN [j \in 1..(top - lo + 1) |-> a[lo + j - 1]]

AbsFrame(k) ==
  [kind |-> stack[k].kind, ev |-> stack[k].ev, e |-> stack[k].e,
   todo |-> IF stack[k].kind = "emit" THEN Pending(k) ELSE <<>>]

Snapshot == INSTANCE EmitSnapshot
              WITH listeners <- [ev \in EVENTS |-> Arr(St, ev)],
                   frames <- [k \in DOMAIN stack |-> AbsFrame(k)]

-----------------------------------------------------------------------------
(* Properties.                                                             *)

\* emit() implements the snapshot semantics of spec 4.1: every listener
\* registered when an emit starts is called exactly once and in order,
\* whatever the listeners add or remove meanwhile, and a Once's return
\* removes exactly its own registration.  It is about the i/len
\* bookkeeping of emit() and the removeListener call of Once.
SnapshotSemantics == Snapshot!Spec

\* A once() registration is called at most once over the emitter's life:
\* the Once wrapper must remove the very entry that was called.
OnceAtMostOnce == \A id \in Ids : onceCalls[id] <= 1

\* Every emit() returns: a call into the emitter from the program
\* eventually completes, however the loop indexes its array.
EmitReturns == stack # <<>> ~> stack = <<>>
=============================================================================
