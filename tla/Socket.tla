------------------------------- MODULE Socket -------------------------------
(***************************************************************************)
(* The net::Socket of libnode (include/libnode/detail/net/socket.h): the   *)
(* flag state machine, the pre-connect write queue, write requests and     *)
(* their callbacks, shutdown, destroy, the inactivity timer and the        *)
(* next-tick emission of 'error' and 'close'.                              *)
(*                                                                         *)
(* Every C++ member function is an operator from a socket record to a      *)
(* socket record, so that a handler that calls end(), which calls write(), *)
(* which calls destroy(), is one action that applies them in code order.   *)
(* An action is one callback of the event loop (an I/O completion, a timer *)
(* or a next-tick function) or one call a user makes on the socket.        *)
(*                                                                         *)
(* The transport (a libuv stream) is modelled by what the socket can       *)
(* observe of it: whether reading is started, whether it still accepts     *)
(* writes, whether the peer has sent FIN, and its outstanding requests,    *)
(* each tagged with the handle it was issued on.  Closing a handle cancels *)
(* its outstanding requests: their callbacks still run, with an error.     *)
(***************************************************************************)
EXTENDS Integers, Sequences, FiniteSets, SequencesExt

CONSTANTS
  MaxWrites,          \* bound on the number of write() calls
  WriteLens,          \* lengths a written buffer may have
  MaxConnects,        \* bound on the number of connect() calls
  ReuseAfterDestroy,  \* whether the user calls connect() on a destroyed socket
  AllowHalfOpen,      \* the allowHalfOpen option passed to Socket::create
  REMOVE_LISTENER,    \* the LIBNODE_REMOVE_LISTENER build option
  ConnectCaps,        \* <<readable, writable>> pairs a connect may report
  Adopted             \* whether a socket may be created over an open stream

ASSUME MaxWrites \in Nat /\ MaxConnects \in Nat \ {0}
ASSUME WriteLens \subseteq Nat /\ WriteLens # {}
ASSUME {ReuseAfterDestroy, AllowHalfOpen, REMOVE_LISTENER, Adopted} \subseteq BOOLEAN
ASSUME ConnectCaps \subseteq BOOLEAN \X BOOLEAN /\ ConnectCaps # {}

\* Socket::Flag (socket.h:954-966).
FlagNames == {"READABLE", "WRITABLE", "CONNECTING", "PAUSED", "GOT_EOF",
              "DESTROYED", "DESTROY_SOON", "SHUTDOWN", "SHUTDOWN_QUEUED",
              "ERROR_EMITTED", "ALLOW_HALF_OPEN"}

\* Handle 0 is NULL; handle i is the one created by the i-th connect(), and
\* handle MaxConnects + 1 the open stream a socket was created over.
AdoptedHandle == MaxConnects + 1
Handles == 0..AdoptedHandle
WriteIds == 1..MaxWrites
NoCb == 0                      \* a write issued without a callback
NoData == [len |-> -1]         \* end() called without data

\* The events a property is about; 'data' and 'timeout' are not recorded.
Events == {"connect", "end", "drain", "error", "close"}
TickKinds == {"error", "close", "errorAndDestroy", "destroy"}

VARIABLES
  flags,            \* flags_
  handle,           \* handle_ (0 = NULL)
  connects,         \* connect() calls so far; the newest handle's id
  reading,          \* readStart() is in effect on handle_
  hWritable,        \* the transport still accepts writes (uv_is_writable)
  peerClosed,       \* the peer's FIN has reached handle_
  lookups,          \* outstanding dns::lookup, each with its AfterLookup
  connectReqs,      \* outstanding connect requests (AfterConnect)
  shutdownReqs,     \* handles with an outstanding shutdown (AfterShutdown)
  writeReqs,        \* outstanding write requests, in submission order
  pendingWriteReqs, \* pendingWriteReqs_
  connectQueue,     \* connectBufQueue_ and connectCbQueue_, zipped
  connectQueueSize, \* connectQueueSize_
  hasTimer,         \* timer_ is not UNDEFINED
  timerArmed,       \* the libuv timer behind timer_ has not fired yet
  ticks,            \* functions queued with process::nextTick, in order
  issued,           \* write() calls so far; the id of the newest write
  emitted,          \* history: the Events emitted, in order
  cbs,              \* history: write callbacks invoked, with their status
  sent,             \* history: ids of writes handed to a transport
  listening         \* user code may run: the loop is idle, or the last step
                    \* ran user code (a user call, a listener, a callback)

vars == <<flags, handle, connects, reading, hWritable, peerClosed, lookups,
          connectReqs, shutdownReqs, writeReqs, pendingWriteReqs,
          connectQueue, connectQueueSize, hasTimer, timerArmed, ticks,
          issued, emitted, cbs, sent, listening>>

WriteRec == [id : WriteIds, len : WriteLens, cb : WriteIds \cup {NoCb}]
ReqRec == [id : WriteIds, cb : WriteIds \cup {NoCb}, h : Handles \ {0}]
ConnRec == [h : Handles \ {0}, c : 1..MaxConnects]
TickRec == [kind : TickKinds, err : BOOLEAN]

TypeOK ==
  /\ flags \subseteq FlagNames
  /\ handle \in Handles /\ connects \in 0..MaxConnects
  /\ {reading, hWritable, peerClosed, hasTimer, timerArmed} \subseteq BOOLEAN
  /\ lookups \subseteq ConnRec /\ connectReqs \subseteq ConnRec
  /\ shutdownReqs \subseteq Handles \ {0}
  /\ writeReqs \in Seq(ReqRec)
  /\ pendingWriteReqs \in 0..MaxWrites
  /\ connectQueue \in Seq(WriteRec)
  /\ connectQueueSize \in Nat
  /\ ticks \in Seq(TickRec)
  /\ issued \in 0..MaxWrites
  /\ emitted \in Seq(Events)
  /\ cbs \in Seq([id : WriteIds, ok : BOOLEAN])
  /\ sent \subseteq WriteIds
  /\ listening \in BOOLEAN

-----------------------------------------------------------------------------
(* The socket as a record, and a record made the next state.               *)

Cur == [flags |-> flags, handle |-> handle, connects |-> connects,
        reading |-> reading, hWritable |-> hWritable,
        peerClosed |-> peerClosed, lookups |-> lookups,
        connectReqs |-> connectReqs, shutdownReqs |-> shutdownReqs,
        writeReqs |-> writeReqs, pendingWriteReqs |-> pendingWriteReqs,
        connectQueue |-> connectQueue, connectQueueSize |-> connectQueueSize,
        hasTimer |-> hasTimer, timerArmed |-> timerArmed, ticks |-> ticks,
        issued |-> issued, emitted |-> emitted, cbs |-> cbs, sent |-> sent]

Become(r) ==
  /\ flags' = r.flags /\ handle' = r.handle /\ connects' = r.connects
  /\ reading' = r.reading /\ hWritable' = r.hWritable
  /\ peerClosed' = r.peerClosed /\ lookups' = r.lookups
  /\ connectReqs' = r.connectReqs /\ shutdownReqs' = r.shutdownReqs
  /\ writeReqs' = r.writeReqs /\ pendingWriteReqs' = r.pendingWriteReqs
  /\ connectQueue' = r.connectQueue /\ connectQueueSize' = r.connectQueueSize
  /\ hasTimer' = r.hasTimer /\ timerArmed' = r.timerArmed
  /\ ticks' = r.ticks /\ issued' = r.issued /\ emitted' = r.emitted
  /\ cbs' = r.cbs /\ sent' = r.sent

\* A user call runs user code to its end; a loop callback runs user code if
\* it emitted an event or invoked a write callback.
UserStep(r) == Become(r) /\ listening' = TRUE
LoopStep(r) ==
  /\ Become(r)
  /\ listening' = (Len(r.emitted) > Len(emitted) \/ Len(r.cbs) > Len(cbs))

Has(r, f) == f \in r.flags
SetFlag(r, f) == [r EXCEPT !.flags = @ \cup {f}]
UnsetFlag(r, f) == [r EXCEPT !.flags = @ \ {f}]
Emit(r, e) == [r EXCEPT !.emitted = Append(@, e)]
NextTick(r, kind, err) ==
  [r EXCEPT !.ticks = Append(@, [kind |-> kind, err |-> err])]
\* cb->call(err) or (*cb)(): the callback of write  w  runs with status ok.
CallCb(r, cb, ok) ==
  IF cb = NoCb THEN r ELSE [r EXCEPT !.cbs = Append(@, [id |-> cb, ok |-> ok])]

-----------------------------------------------------------------------------
(* Timer helpers (socket.h:618-633) and active() (391-396).                *)

StartTimer(r) == [r EXCEPT !.hasTimer = TRUE, !.timerArmed = TRUE]
FinishTimer(r) == [r EXCEPT !.hasTimer = FALSE, !.timerArmed = FALSE]
Active(r) == IF r.hasTimer THEN StartTimer(FinishTimer(r)) ELSE r

\* handle_->close() and setOnRead(null); the handle's requests stay
\* outstanding and are completed later with an error.
CloseHandle(r) ==
  [r EXCEPT !.handle = 0, !.reading = FALSE, !.hWritable = FALSE,
            !.peerClosed = FALSE]

\* connectQueueCleanUp (537-542).
ConnectQueueCleanUp(r) ==
  [UnsetFlag(r, "CONNECTING") EXCEPT !.connectQueueSize = 0,
                                     !.connectQueue = <<>>]

\* fireErrorCallbacks (544-551).
FireErrorCallbacks(r, err, cb) ==
  LET r1 == CallCb(r, cb, ~err)
  IN IF err /\ ~Has(r1, "ERROR_EMITTED")
       THEN SetFlag(NextTick(r1, "error", err), "ERROR_EMITTED")
       ELSE r1

\* Fault variant: destroy() that queues 'close' before 'error'.
DestroyCloseFirst(r, err, cb) ==
  IF Has(r, "DESTROYED")
    THEN IF REMOVE_LISTENER THEN r ELSE FireErrorCallbacks(r, err, cb)
    ELSE LET r1 == FinishTimer(UnsetFlag(UnsetFlag(ConnectQueueCleanUp(r),
                                         "READABLE"), "WRITABLE"))
             r2 == IF r1.handle # 0 THEN CloseHandle(r1) ELSE r1
         IN SetFlag(FireErrorCallbacks(NextTick(r2, "close", err), err, cb),
                    "DESTROYED")

\* destroy(err, cb) (553-592); err is TRUE when an Error is passed.
Destroy(r, err, cb) ==
  IF Has(r, "DESTROYED")
    THEN IF REMOVE_LISTENER THEN r ELSE FireErrorCallbacks(r, err, cb)
    ELSE LET r1 == FinishTimer(UnsetFlag(UnsetFlag(ConnectQueueCleanUp(r),
                                         "READABLE"), "WRITABLE"))
             r2 == IF r1.handle # 0 THEN CloseHandle(r1) ELSE r1
             r3 == FireErrorCallbacks(r2, err, cb)
         IN SetFlag(NextTick(r3, "close", err), "DESTROYED")

\* Fault variant: writeBuffer() that does not count the request.
WriteBufferUncounted(r, w) ==
  LET r1 == Active(r)
  IN IF r1.handle = 0 \/ ~r1.hWritable
       THEN Destroy(r1, TRUE, w.cb)
       ELSE [r1 EXCEPT
               !.writeReqs = Append(@, [id |-> w.id, cb |-> w.cb, h |-> r1.handle]),
               !.sent = @ \cup {w.id}]

\* writeBuffer (594-616).  A transport that no longer accepts writes
\* returns no request (uv_write fails with EPIPE).
WriteBuffer(r, w) ==
  LET r1 == Active(r)
  IN IF r1.handle = 0 \/ ~r1.hWritable
       THEN Destroy(r1, TRUE, w.cb)
       ELSE [r1 EXCEPT
               !.writeReqs = Append(@, [id |-> w.id, cb |-> w.cb, h |-> r1.handle]),
               !.pendingWriteReqs = @ + 1,
               !.sent = @ \cup {w.id}]

\* write(data, enc, cb) (274-301).
Write(r, w) ==
  IF Has(r, "CONNECTING")
    THEN [r EXCEPT !.connectQueueSize = @ + w.len,
                   !.connectQueue = Append(@, w)]
    ELSE WriteBuffer(r, w)

\* destroySoon (147-157).
DestroySoon(r) ==
  IF Has(r, "DESTROYED") THEN r
  ELSE LET r1 == SetFlag(UnsetFlag(r, "WRITABLE"), "DESTROY_SOON")
       IN IF r1.pendingWriteReqs > 0 THEN r1 ELSE Destroy(r1, FALSE, NoCb)

\* handle_->shutdown() and the AfterShutdown it installs (131-139); it
\* fails with ENOTCONN when the transport no longer accepts writes.
Shutdown(r) ==
  IF r.handle # 0 /\ r.hWritable
    THEN [r EXCEPT !.shutdownReqs = @ \cup {r.handle}, !.hWritable = FALSE]
    ELSE Destroy(r, TRUE, NoCb)

\* Fault variant: end() that shuts down without clearing WRITABLE.
EndKeepsWritable(r, data) ==
  LET WriteData(x) == IF data = NoData THEN x ELSE Write(x, data)
      r1 == IF Has(r, "CONNECTING") /\ ~Has(r, "SHUTDOWN_QUEUED")
              THEN SetFlag(UnsetFlag(WriteData(r), "WRITABLE"), "SHUTDOWN_QUEUED")
              ELSE r
  IN IF ~Has(r1, "WRITABLE") THEN r1
     ELSE LET r2 == WriteData(r1)
          IN IF ~Has(r2, "READABLE") THEN DestroySoon(r2)
             ELSE Shutdown(SetFlag(r2, "SHUTDOWN"))

\* end(data, enc) (110-141); data is a WriteRec or NoData.
End(r, data) ==
  LET WriteData(x) == IF data = NoData THEN x ELSE Write(x, data)
      r1 == IF Has(r, "CONNECTING") /\ ~Has(r, "SHUTDOWN_QUEUED")
              THEN SetFlag(UnsetFlag(WriteData(r), "WRITABLE"), "SHUTDOWN_QUEUED")
              ELSE r
  IN IF ~Has(r1, "WRITABLE") THEN r1
     ELSE LET r2 == WriteData(UnsetFlag(r1, "WRITABLE"))
          IN IF ~Has(r2, "READABLE") THEN DestroySoon(r2)
             ELSE Shutdown(SetFlag(r2, "SHUTDOWN"))

-----------------------------------------------------------------------------
(* Connecting: connect() (498-535), the static connect functions that      *)
(* issue the request (444-496), AfterLookup (830-856) and AfterConnect     *)
(* (758-812).                                                              *)

\* initSocketHandle (429-442) on a new handle: flags_ = 0 wipes every flag.
InitSocketHandle(r, h) ==
  [r EXCEPT !.handle = h, !.flags = {}, !.pendingWriteReqs = 0,
            !.connectQueueSize = 0, !.reading = FALSE, !.hWritable = FALSE,
            !.peerClosed = FALSE]

\* handle->connect(...) on handle h for the c-th connect(); a handle with a
\* connect already in flight, a closed handle or a failed bind make it
\* return no request (syncOk = FALSE), and the socket is destroyed.
ConnectOn(r, h, c, syncOk) ==
  IF syncOk /\ \A cr \in r.connectReqs : cr.h # h
    THEN [r EXCEPT !.connectReqs = @ \cup {[h |-> h, c |-> c]}]
    ELSE Destroy(r, TRUE, NoCb)

\* connect(port, host, localAddress, path, cb): viaLookup is a TCP connect
\* to a named host, which first goes through dns::lookup.
Connect(r, viaLookup, syncOk) ==
  LET c  == r.connects + 1
      r0 == [r EXCEPT !.connects = c]
      r1 == IF Has(r0, "DESTROYED") \/ r0.handle = 0
              THEN InitSocketHandle(r0, c) ELSE r0
      r2 == SetFlag(SetFlag(Active(r1), "CONNECTING"), "WRITABLE")
  IN IF viaLookup
       THEN [r2 EXCEPT !.lookups = @ \cup {[h |-> r2.handle, c |-> c]}]
       ELSE ConnectOn(r2, r2.handle, c, syncOk)

\* AfterLookup: lk.h is the tcp_ captured when the lookup was started.
AfterLookup(r, lk, ok, syncOk) ==
  LET r0 == [r EXCEPT !.lookups = @ \ {lk}]
  IN IF ~Has(r0, "CONNECTING") THEN r0
     ELSE IF ~ok THEN NextTick(r0, "errorAndDestroy", TRUE)
     ELSE ConnectOn(Active(r0), lk.h, lk.c, syncOk)

\* Fault variant: the queue replayed from its newest write.
FlushConnectQueueReversed(r) ==
  IF r.connectQueueSize # 0
    THEN ConnectQueueCleanUp(FoldLeft(Write, r, Reverse(r.connectQueue)))
    ELSE r

\* The replay of the pre-connect queue (788-799).
FlushConnectQueue(r) ==
  IF r.connectQueueSize # 0
    THEN ConnectQueueCleanUp(FoldLeft(Write, r, r.connectQueue))
    ELSE r

\* AfterConnect; caps = <<readable, writable>> reported with the status.
AfterConnect(r, cr, ok, caps) ==
  LET r0 == [r EXCEPT !.connectReqs = @ \ {cr}]
      r1 == UnsetFlag(r0, "CONNECTING")
      Cap(x, f, on) == IF on THEN SetFlag(x, f) ELSE UnsetFlag(x, f)
      r2 == [Cap(Cap(r1, "READABLE", caps[1]), "WRITABLE", caps[2])
               EXCEPT !.hWritable = caps[2]]
      r3 == Active(r2)
      r4 == IF caps[1] /\ ~Has(r3, "PAUSED") THEN [r3 EXCEPT !.reading = TRUE]
                                            ELSE r3
      r5 == Emit(FlushConnectQueue(r4), "connect")
  IN IF Has(r0, "DESTROYED") THEN r0
     ELSE IF ~ok THEN Destroy(ConnectQueueCleanUp(r1), TRUE, NoCb)
     ELSE IF Has(r5, "SHUTDOWN_QUEUED")
            THEN End(UnsetFlag(r5, "SHUTDOWN_QUEUED"), NoData)
            ELSE r5

-----------------------------------------------------------------------------
(* Completions: OnRead (644-686), AfterShutdown (697-707), AfterWrite      *)
(* (721-747), and the next-tick functions EmitError (873-876),             *)
(* EmitErrorAndDestroy (891-895), EmitClose with OnDestroy (910-916,       *)
(* 940-947).                                                               *)

\* Fault variant: the EOF branch without the end() of a non half-open socket.
OnReadEofNoEnd(r) ==
  LET r1 == Active([r EXCEPT !.reading = FALSE])
      r2 == SetFlag(UnsetFlag(r1, "READABLE"), "GOT_EOF")
      r3 == IF ~Has(r2, "WRITABLE") THEN Destroy(r2, FALSE, NoCb) ELSE r2
  IN Emit(r3, "end")

\* OnRead with the EOF error; libuv has stopped reading before calling it.
OnReadEof(r) ==
  LET r1 == Active([r EXCEPT !.reading = FALSE])
      r2 == SetFlag(UnsetFlag(r1, "READABLE"), "GOT_EOF")
      r3 == IF ~Has(r2, "WRITABLE") THEN Destroy(r2, FALSE, NoCb) ELSE r2
      r4 == IF ~Has(r3, "ALLOW_HALF_OPEN") THEN End(r3, NoData) ELSE r3
  IN Emit(r4, "end")

\* OnRead with an error: ECONNRESET destroys quietly, others with the error.
OnReadError(r, reset) == Destroy(Active(r), ~reset, NoCb)

AfterShutdown(r, h) ==
  LET r0 == [r EXCEPT !.shutdownReqs = @ \ {h}]
  IN IF Has(r0, "DESTROYED") THEN r0
     ELSE IF Has(r0, "GOT_EOF") \/ ~Has(r0, "READABLE")
            THEN Destroy(r0, FALSE, NoCb)
            ELSE r0

\* Fault variant: AfterWrite that emits 'drain' on every completion.
AfterWriteDrainAlways(r, ok) ==
  LET w  == Head(r.writeReqs)
      r0 == [r EXCEPT !.writeReqs = Tail(@)]
      r1 == [Active(r0) EXCEPT !.pendingWriteReqs = @ - 1]
      r3 == CallCb(Emit(r1, "drain"), w.cb, TRUE)
  IN IF Has(r0, "DESTROYED") THEN r0
     ELSE IF ~ok THEN Destroy(r0, TRUE, w.cb)
     ELSE IF r3.pendingWriteReqs = 0 /\ Has(r3, "DESTROY_SOON")
            THEN Destroy(r3, FALSE, NoCb)
            ELSE r3

\* AfterWrite for the oldest outstanding request.
AfterWrite(r, ok) ==
  LET w  == Head(r.writeReqs)
      r0 == [r EXCEPT !.writeReqs = Tail(@)]
      r1 == [Active(r0) EXCEPT !.pendingWriteReqs = @ - 1]
      r2 == IF r1.pendingWriteReqs = 0 THEN Emit(r1, "drain") ELSE r1
      r3 == CallCb(r2, w.cb, TRUE)
  IN IF Has(r0, "DESTROYED") THEN r0
     ELSE IF ~ok THEN Destroy(r0, TRUE, w.cb)
     ELSE IF r3.pendingWriteReqs = 0 /\ Has(r3, "DESTROY_SOON")
            THEN Destroy(r3, FALSE, NoCb)
            ELSE r3

RunTick(r) ==
  LET t  == Head(r.ticks)
      r0 == [r EXCEPT !.ticks = Tail(@)]
  IN CASE t.kind = "error" -> Emit(r0, "error")
       [] t.kind = "close" -> Emit(r0, "close")
       [] t.kind = "errorAndDestroy" ->
            \* the 'error' listeners run before destroy(): the rest of the
            \* function is kept at the head of the queue
            [Emit(r0, "error") EXCEPT
               !.ticks = <<[kind |-> "destroy", err |-> FALSE]>> \o @]
       [] t.kind = "destroy" -> Destroy(r0, FALSE, NoCb)

-----------------------------------------------------------------------------
(* Initial state: Socket::create(options) (43-67, 407-427).  Without      *)
(* options the socket has no handle.  With an fd or a handle it is created *)
(* over an open stream, whose transport may or may not accept writes; the  *)
(* READABLE, WRITABLE and ALLOW_HALF_OPEN bits that create(fd, ...) and    *)
(* create(handle, ...) set are all wiped by initSocketHandle, and nothing  *)
(* starts reading.                                                         *)

Init ==
  /\ flags = {}
  /\ \/ handle = 0 /\ hWritable = FALSE
     \/ Adopted /\ handle = AdoptedHandle /\ hWritable \in BOOLEAN
  /\ connects = 0
  /\ reading = FALSE /\ peerClosed = FALSE
  /\ lookups = {} /\ connectReqs = {} /\ shutdownReqs = {}
  /\ writeReqs = <<>> /\ pendingWriteReqs = 0
  /\ connectQueue = <<>> /\ connectQueueSize = 0
  /\ hasTimer = FALSE /\ timerArmed = FALSE
  /\ ticks = <<>> /\ issued = 0
  /\ emitted = <<>> /\ cbs = <<>> /\ sent = {}
  /\ listening = TRUE

-----------------------------------------------------------------------------
(* Calls the user makes, from its own callbacks or from a listener.       *)

\* User code runs when the loop is idle or inside the step just taken.
UserMayRun == ticks = <<>> \/ listening

\* connect() on a socket created over an open stream hands that stream, a
\* uv::Pipe for create(fd, ...), to tcp connect by reinterpret_cast
\* (socket.h 508-527): its outcome is libuv's, not the socket's, and the
\* model does not make that call.
UserConnect ==
  /\ UserMayRun
  /\ connects < MaxConnects
  /\ handle # AdoptedHandle
  /\ ReuseAfterDestroy \/ ~Has(Cur, "DESTROYED")
  /\ \E viaLookup, syncOk \in BOOLEAN : UserStep(Connect(Cur, viaLookup, syncOk))

\* write(data, enc, cb), with or without a callback.
UserWrite ==
  /\ UserMayRun
  /\ issued < MaxWrites
  /\ \E len \in WriteLens, withCb \in BOOLEAN :
       LET id == issued + 1
       IN UserStep(Write([Cur EXCEPT !.issued = id],
                       [id |-> id, len |-> len, cb |-> IF withCb THEN id ELSE NoCb]))

\* end() or end(data); the data is written without a callback.
UserEnd ==
  /\ UserMayRun
  /\ \/ UserStep(End(Cur, NoData))
     \/ /\ issued < MaxWrites
        /\ \E len \in WriteLens :
             LET id == issued + 1
             IN UserStep(End([Cur EXCEPT !.issued = id],
                             [id |-> id, len |-> len, cb |-> NoCb]))

\* destroy() or destroy(err).
UserDestroy == UserMayRun /\ \E err \in BOOLEAN : UserStep(Destroy(Cur, err, NoCb))

UserDestroySoon == UserMayRun /\ UserStep(DestroySoon(Cur))

\* pause() (94-97) and resume() (99-102).
Pause(r) ==
  LET r1 == SetFlag(r, "PAUSED")
  IN IF r1.handle # 0 /\ ~Has(r1, "CONNECTING")
       THEN [r1 EXCEPT !.reading = FALSE] ELSE r1

Resume(r) ==
  LET r1 == UnsetFlag(r, "PAUSED")
  IN IF r1.handle # 0 /\ ~Has(r1, "CONNECTING")
       THEN [r1 EXCEPT !.reading = TRUE] ELSE r1

UserPause == UserMayRun /\ UserStep(Pause(Cur))
UserResume == UserMayRun /\ UserStep(Resume(Cur))

\* setTimeout(ms, cb) (227-241): ms > 0 (re)arms the timer, 0 cancels it.
SetTimeout(r, on) == IF on THEN StartTimer(r) ELSE FinishTimer(r)
UserSetTimeout == UserMayRun /\ \E on \in BOOLEAN : UserStep(SetTimeout(Cur, on))

-----------------------------------------------------------------------------
(* Callbacks of the event loop.  I/O and timer callbacks run only once the *)
(* next-tick queue is empty.                                               *)

Idle == ticks = <<>>

LookupDone ==
  /\ Idle
  /\ \E lk \in lookups, ok, syncOk \in BOOLEAN :
       LoopStep(AfterLookup(Cur, lk, ok, syncOk))

\* A request on a closed handle completes with ECANCELED.
ConnectDone ==
  /\ Idle
  /\ \E cr \in connectReqs, ok \in BOOLEAN, caps \in ConnectCaps :
       /\ ok => cr.h = handle
       /\ LoopStep(AfterConnect(Cur, cr, ok, caps))

\* The peer sends FIN on an established connection.
PeerFin ==
  /\ handle # 0 /\ ~Has(Cur, "CONNECTING") /\ ~peerClosed
  /\ peerClosed' = TRUE
  /\ UNCHANGED <<flags, handle, connects, reading, hWritable, lookups,
                 connectReqs, shutdownReqs, writeReqs, pendingWriteReqs,
                 connectQueue, connectQueueSize, hasTimer, timerArmed, ticks,
                 issued, emitted, cbs, sent, listening>>

Reading == Idle /\ handle # 0 /\ reading

ReadData == Reading /\ ~peerClosed /\ UserStep(Active(Cur))

ReadEof == Reading /\ peerClosed /\ LoopStep(OnReadEof(Cur))

ReadError == Reading /\ \E reset \in BOOLEAN : LoopStep(OnReadError(Cur, reset))

WriteDone ==
  /\ Idle /\ writeReqs # <<>>
  /\ \E ok \in BOOLEAN :
       /\ ok => Head(writeReqs).h = handle
       /\ LoopStep(AfterWrite(Cur, ok))

ShutdownDone == Idle /\ \E h \in shutdownReqs : LoopStep(AfterShutdown(Cur, h))

\* EmitTimeout (927-930): emits 'timeout'; the timer has fired.
TimerFires ==
  /\ Idle /\ timerArmed
  /\ timerArmed' = FALSE /\ listening' = TRUE
  /\ UNCHANGED <<flags, handle, connects, reading, hWritable, peerClosed,
                 lookups, connectReqs, shutdownReqs, writeReqs,
                 pendingWriteReqs, connectQueue, connectQueueSize, hasTimer,
                 ticks, issued, emitted, cbs, sent>>

Tick == ticks # <<>> /\ LoopStep(RunTick(Cur))

Next ==
  \/ UserConnect \/ UserWrite \/ UserEnd \/ UserDestroy \/ UserDestroySoon
  \/ UserPause \/ UserResume \/ UserSetTimeout
  \/ LookupDone \/ ConnectDone \/ PeerFin \/ ReadData \/ ReadEof
  \/ ReadError \/ WriteDone \/ ShutdownDone \/ TimerFires \/ Tick

\* The event loop runs every queued tick and completes every outstanding
\* request, and libuv reports the EOF of a stream it is reading.  Nothing
\* forces the user or the peer to act.
Fairness ==
  /\ WF_vars(Tick) /\ WF_vars(LookupDone) /\ WF_vars(ConnectDone)
  /\ WF_vars(WriteDone) /\ WF_vars(ShutdownDone) /\ WF_vars(ReadEof)

Spec == Init /\ [][Next]_vars /\ Fairness

-----------------------------------------------------------------------------
(* Properties.                                                             *)

\* 'close' is the last event of a socket: it is emitted at most once, and no
\* 'connect', 'end', 'drain' or 'error' follows it.  It depends on every
\* completion (AfterConnect, AfterWrite, OnRead, the next-tick functions)
\* recognising a destroyed socket.
CloseIsTerminal ==
  \A i \in 1..Len(emitted) : emitted[i] = "close" => i = Len(emitted)

\* Write callbacks run in the order the writes were issued, each at most
\* once, across the pre-connect queue replay, completions and failures.
WriteCallbacksInOrder == IsSorted([i \in DOMAIN cbs |-> cbs[i].id], <)

\* The write requests still outstanding on the socket's live handle.
Outstanding == SelectSeq(writeReqs, LAMBDA w : w.h = handle)

\* 'drain' fires exactly when the pending-write count returns to zero
\* (spec 4.2, 5 and 8.2): a step that emits it leaves no write outstanding on
\* the live handle, and the successful completion of the last outstanding
\* write of a live socket emits it.  AfterWrite (socket.h 732-735) decides
\* this on pendingWriteReqs_, which writeBuffer, the connect-queue replay
\* and end()'s write all count; the property relates that counter to the
\* requests really outstanding.  Drained: the step emits 'drain'.
Drained == \E i \in Len(emitted) + 1..Len(emitted') : emitted'[i] = "drain"
DrainWhenWritesComplete ==
  [][/\ Drained => Outstanding' = <<>>
     /\ (/\ WriteDone /\ ~Has(Cur, "DESTROYED")
         /\ Outstanding = <<Head(writeReqs)>>
         /\ "DESTROYED" \notin flags')
        => Drained]_vars

\* The assertions of the completions hold when they run: AfterConnect finds
\* a live socket CONNECTING (socket.h:761), AfterShutdown finds SHUTDOWN
\* set and WRITABLE clear (698-699), and OnDestroy, run by EmitClose, finds
\* the socket DESTROYED with no handle (941-942).
CallbackAssertions ==
  /\ [][ConnectDone => Has(Cur, "DESTROYED") \/ Has(Cur, "CONNECTING")]_vars
  /\ [][ShutdownDone => Has(Cur, "SHUTDOWN") /\ ~Has(Cur, "WRITABLE")]_vars
  /\ [][Tick /\ Head(ticks).kind = "close" =>
          Has(Cur, "DESTROYED") /\ handle = 0]_vars

\* Once the peer's FIN has been read by a socket that does not allow half
\* open connections, the socket is eventually destroyed: end() is called,
\* the outstanding writes drain and destroySoon() completes.
PeerCloseTearsDown ==
  (Has(Cur, "GOT_EOF") /\ ~Has(Cur, "ALLOW_HALF_OPEN")) ~> Has(Cur, "DESTROYED")

\* Writes queued while connecting are replayed when the connect succeeds:
\* a socket that is no longer CONNECTING holds no queued write (spec 3:
\* "pre-connect queued writes flush exactly once on successful connect").
QueueFlushedOnConnect ==
  ~Has(Cur, "CONNECTING") => connectQueue = <<>>

\* A socket created with allowHalfOpen stays writable when the peer's FIN
\* is read (spec 3: "ALLOW_HALF_OPEN permits continued writes after
\* GOT_EOF").
HalfOpenHonoured ==
  [][ReadEof /\ AllowHalfOpen /\ Has(Cur, "WRITABLE") => "WRITABLE" \in flags']_vars

\* OnRead receives EOF at most once: the assert(!GOT_EOF) of socket.h:666.
EofReadOnce == [][ReadEof => ~Has(Cur, "GOT_EOF")]_vars

\* 'error' is emitted at most once per socket (spec 4.2, the ERROR_EMITTED
\* latch).
ErrorAtMostOnce == Len(SelectSeq(emitted, LAMBDA e : e = "error")) <= 1


\* 'connect' is emitted only by a live socket: AfterConnect replays the
\* writes queued while connecting before it emits, and a replayed write
\* that fails destroys the socket (socket.h:796, spec 3: DESTROYED is
\* terminal).
ConnectOnlyWhileLive ==
  [][\A i \in Len(emitted) + 1..Len(emitted') :
       emitted'[i] = "connect" => "DESTROYED" \notin flags']_vars

\* write() on a socket that is not writable returns false and leaves it as
\* it was: nothing is queued, sent or destroyed (spec 4.2, write(): "returns
\* false if not writable"); socket.h:274 never tests WRITABLE.
WriteRefusedWhenNotWritable ==
  [][UserWrite /\ ~Has(Cur, "WRITABLE") =>
       /\ flags' = flags /\ sent' = sent /\ connectQueue' = connectQueue]_vars
=============================================================================
