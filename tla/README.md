# TLA+ models of libnode

libnode is a node.js-style runtime in C++ on top of libuv. Everything runs on
one event loop thread. User code runs inside event listeners, write
callbacks and `process::nextTick` functions. This project models the parts of
the library whose correctness depends on the order in which those callbacks
run.

## The system

| Part | Source | State | Operations |
|---|---|---|---|
| `net::Socket` | `detail/net/socket.h` | `flags_` (READABLE, WRITABLE, CONNECTING, PAUSED, GOT_EOF, DESTROYED, DESTROY_SOON, SHUTDOWN, SHUTDOWN_QUEUED, ERROR_EMITTED, ALLOW_HALF_OPEN), `handle_`, the pre-connect queue, `pendingWriteReqs_`, `timer_` | create, connect, write, end, destroy, destroySoon, pause, resume, setTimeout; callbacks OnRead, AfterLookup, AfterConnect, AfterWrite, AfterShutdown; next-tick functions EmitError, EmitErrorAndDestroy, EmitClose/OnDestroy, EmitTimeout |
| `events::EventEmitter` | `detail/events/event_emitter.h` | a vector of listeners per event, with `Once` wrappers | on, once, removeListener, removeAllListeners, emit |
| `http::Parser` | `detail/http/parser.h` | the http_parser state, header fields and values, the incoming message, `pendings` | execute, finish, free, and the http_parser callbacks |
| util codecs | `src/util.cpp` | none between calls; the locals of the C loops during a call | hexEncode, hexDecode, percentEncode, percentDecode, base64 |
| http server facade, rsa extension | `http/server.h`, `exts/rsa_crypto` | none | factories and OpenSSL wrappers |

How the parts interact:
- A socket is an EventEmitter. Every `emit` runs user listeners, and those
  listeners may call back into the socket, for example destroy() from an
  'error' listener.
- The socket forwards data to an `http::Parser` through `onData`. The parser
  pauses and resumes the socket.
- The socket schedules its 'error' and 'close' emissions with
  `process::nextTick`. The loop runs all queued ticks before any I/O or timer
  callback.
- libuv owns the requests. Closing a handle cancels its outstanding
  requests, and their callbacks still run later with ECANCELED.

What is hard to test here:
- Completions that arrive after destroy() or after a reconnect.
- Listeners that re-enter the socket.
- The order of the next-tick queue relative to I/O callbacks.
- Flags that later code relies on being wiped by `initSocketHandle`.
- The peer closing while writes are still pending.

## Modules

`Socket.tla` models `net::Socket`.
- **State.** The variables are the socket's fields: `flags`, `handle`,
  `pendingWriteReqs`, `connectQueue`, `hasTimer`. Next to them are the
  transport as the socket observes it: `reading`, `hWritable`, `peerClosed`,
  and the outstanding `lookups`, `connectReqs`, `writeReqs` and
  `shutdownReqs`, each tagged with the handle it was issued on. The model
  also holds the next-tick queue `ticks`, and three histories: `emitted`
  (events), `cbs` (write callbacks) and `sent` (writes handed to a transport).
- **Functions as operators.** Each C++ member function is an operator from a
  socket record to a socket record: `Destroy`, `WriteBuffer`, `Write`,
  `End`, `DestroySoon`, `Connect`, `AfterConnect`, `AfterWrite`, and so on.
  A handler is then the composition of the calls it makes, in code order.
  For example, `OnReadEof` is `Destroy` and then `End` and then the emission
  of 'end'.
- **One action per call or callback.** There is one action per user call
  (`UserConnect`, `UserWrite`, `UserEnd`, `UserDestroy`, `UserDestroySoon`,
  `UserPause`, `UserResume`, `UserSetTimeout`) and one per loop callback
  (`LookupDone`, `ConnectDone`, `ReadData`, `ReadEof`, `ReadError`,
  `WriteDone`, `ShutdownDone`, `TimerFires`, `Tick`). `PeerFin` is the peer
  closing its side.
- **When user code runs.** User code can only run when the loop is idle, or
  inside a step that ran user code: a listener or a write callback. The
  variable `listening` records this, and every user action is guarded by
  `UserMayRun`.
- **Creation.** `Init` is either `create()` with no handle, or, when the
  constant `Adopted` is TRUE, `create(fd, ...)`/`create(handle, ...)` over an
  open stream (handle `AdoptedHandle`), whose transport may or may not be
  writable. Either way `initSocketHandle` has wiped the READABLE, WRITABLE
  and ALLOW_HALF_OPEN bits that creation set, and nothing is reading.
  `connect()` on such a socket casts the stream to a TCP handle (socket.h
  508-527); the model's user does not make that call (see the hazards).
- **Ticks.** Ticks run in FIFO order. `EmitErrorAndDestroy` is split into its
  'error' emission and a `destroy` continuation at the head of the queue, so
  that the error listener runs in between, as it does in the code.

`MCSocket.tla` gives the model-value sets for the configurations.

`EventEmitter.tla` models `events::EventEmitter` (event_emitter.h).
- **State.** `arrays` is every listener array created so far (a
  `std::vector` of `SingleListener` entries held by a shared pointer), and
  `cur[ev]` is the index of the array bound to the event (0 = none). A
  running emit keeps the array it started on, as the code keeps the shared
  pointer, even after removeAllListeners unbinds it. `stack` holds emit frames
  (event, array, `i`, `len`) and call frames (the entry whose listener runs).
  `onceCalls` counts the calls of each once() registration; `fault` records a
  read past the end of an array.
- **Both emit loops.** `USE_SP` selects the build. With LIBNODE_USE_SP the
  loop caches `len`; a Once entry decrements `len` and keeps `i`, a plain
  entry advances `i` (lines 104-114). Without it the loop compares `i` with
  the live size and advances only past a Once entry (lines 181-187).
- **Once.** A call frame for a Once entry returns through `OnceDone`, which is
  the wrapper's `removeListener(event_, listener_)`: it removes the first
  entry with the same function, not necessarily the entry that ran.
- **Listeners re-enter.** While a listener runs, it may call the emitter.
  `ListenerOps` says which calls, and `CallingEvents` says whose listeners
  make them. `MaxAdds` bounds registrations and `MaxOps` bounds calls.
  `DistinctFns` gives every registration its own function; otherwise all
  registrations share the functions of `Fns`.

`EmitSnapshot.tla` is the promise of spec 4.1: emit calls, in order, the
listeners registered when it started, and a once() registration is removed
after its call. An emit frame there holds the snapshot still to be called.
`EventEmitter` is mapped onto it by `Snapshot == INSTANCE EmitSnapshot WITH
...`:
- `listeners` is the array bound to each event;
- an emit frame's `todo` is `Pending(k)`, the entries `i+1..len` of the
  frame's array, shifted by one while a called Once still occupies slot
  `i+1`.

`MCEventEmitter.tla` gives the small sets for the configurations.

`HttpParser.tla` models `http::Parser` (parser.h), together with the
IncomingMessage it builds and the socket it reads from.
- **The wire.** The bytes are abstracted to tokens. `Wire` describes the
  messages the peer sends: header count, body pieces, an optional trailer
  and an upgrade flag. Every header field and every header value is two
  pieces, so a buffer boundary can fall inside it. A piece stands for its
  text as the header scanner returns it, and `concat` is sequence
  concatenation.
- **http_parser.** It is a library outside src/, so it is modelled from
  spec 6. `Execute` hands the parser any prefix of the unparsed tokens.
  `Callbacks` (RECURSIVE) turns that buffer into the callbacks http_parser
  makes: adjacent pieces of one field, value or body become one data
  callback, so a piece cut by the buffer end arrives as two.
  `SplitFields` says whether a buffer may end inside a header field.
- **The handlers.** There is one action per callback: `OnMessageBegin`,
  `OnUrl`, `OnHeaderField`, `OnHeaderValue`, `OnHeadersComplete`, `OnBody`
  and `OnMessageComplete`. Each is translated from the static and the
  member function together. A failed `assert` sets `aborted`, and nothing
  runs after it.
- **The message.** `msgs` holds every IncomingMessage, with its `paused`,
  `complete` and `readable` flags, its `pendings` and what it has
  `delivered` ('data' buffers and 'end'). `Pause` and `Resume` model
  IncomingMessage (spec 4.4, not under src/) and may run between any two
  callbacks, as a listener can. `Free` detaches the parser between buffers.
  `SocketEnd` is the socket reading EOF.

`MCHttpParser.tla` gives the wire for the configurations.

`Codec.tla` models the hex and percent codecs of util.cpp.
- **Data.** A byte is a natural in 0..255, and a string is its sequence of
  code points. `CharBytes` is `Buffer::create(str, enc)` for each encoding of
  the switch in percentEncode, with UTF16 and UTF32 in the host's byte order
  (`BigEndian`). `BytesStr` is `String::create(data, enc, n)`, and it gives
  `Null` for bytes that are no string of `Chars`.
- **Hex.** `HexEncode`, `DecodeHex` and `HexDecode` are operators.
  `HexEncodeCall` and `HexDecodeCall` are the public calls, including their
  null arguments.
- **Percent loops.** The two static C loops run one iteration per step.
  `src`, `i`, `out`, `room` and `cap` are the source bytes, the source
  pointer, the chars written, `encodedLength`/`decodedLength` and the
  buffer size.
  - `room` is a Size of `SizeBits` bits. `Dec` and `Sub2` are `--` and
    `-= 2`, and they wrap below zero as the unsigned type does.
    Because they wrap by construction, the module checks no type
    invariant: `room` in `0..SizeMax` would hold whatever the code did.
  - `EncodeEscape` keeps both mid-escape `break`s.
  - `DecodeStep` reads `*(source+1)` and `*(source+2)`. Past the source's
    NUL, a read is any byte of `Garbage`, and `overread` records that it
    happened (undefined behaviour in the code).
- **References.** `RefHexEncode` and `RefEncode` are written independently
  of the code's operators: lower-case hex, and the RFC 3986 percent-encoding
  of the bytes of a string.

`MCCodec.tla` gives the inputs:
- the chars ' ', '%', '+', 'A', 'a', '~' and U+00E9 (two UTF-8 bytes), in
  strings of up to two chars;
- the encodings UTF8, UTF16 (little-endian host) and UTF32BE;
- for hexDecode, every string of up to four of '0', 'a', 'A' and 'g';
- for percentDecode, every reference encoding, and every string of up to
  two of '%', '+', '4', 'A' and U+00E9.

## Runs

All runs share these bounds:
- one connect (`MaxConnects = 1`), or two for the reconnect run;
- two writes (`MaxWrites = 2`), each with or without a callback, and
  possibly inside end();
- every DNS result, connect result and read error;
- a peer FIN;
- pause, resume, setTimeout and destroy at any point where user code may
  run.

Two writes are enough to tell the order of callbacks apart and to have one
write pending while another completes. One connect covers every path
through a single lifecycle.

Every socket run sets `REMOVE_LISTENER = TRUE`, the build with
`LIBNODE_REMOVE_LISTENER`, where destroy() on a destroyed socket does
nothing and OnDestroy removes every listener. In the other build that
destroy() fires the error callbacks again. Under the `socket_core`
constants with `REMOVE_LISTENER = FALSE`, TLC finds `CloseIsTerminal`
violated: destroy(), then write(), whose writeBuffer finds no handle and
queues 'error' behind 'close' (socket.h 555-560, 597-598). It is listed as
a hazard; the run list has no slot for that build. Under
`REMOVE_LISTENER = TRUE` a completion that lacked its DESTROYED guard would
call only a destroy that does nothing, so the runs cannot tell that guard
apart.

| Run | Expect | What it shows |
|---|---|---|
| `socket_core` (`MCSocket.cfg`) | pass | `TypeOK`; `CloseIsTerminal`: 'close' is the last event; `WriteCallbacksInOrder`: write callbacks run in issue order, across the queue replay, completions and ECANCELED failures; `DrainWhenWritesComplete`: 'drain' is emitted exactly when the last write outstanding on the live handle completes, so `pendingWriteReqs_` counts the requests really outstanding (spec 4.2, 5 and 8.2); `CallbackAssertions`: the asserts of AfterConnect, AfterShutdown and OnDestroy hold; `PeerCloseTearsDown`: a peer FIN on a non half-open socket leads to destroy. The socket is either a client or one created over an open stream. About 20,000 states. |
| `socket_half_open` (`MCSocket_halfopen.cfg`) | violation | `allowHalfOpen` is wiped by `initSocketHandle` (socket.h:430), so EOF still calls end(). |
| `socket_reconnect` (`MCSocket_reuse.cfg`) | violation | connect() after destroy() lets the stale EmitClose run on the new connection, and OnDestroy's asserts fail. |
| `socket_error_twice` (`MCSocket_dnserr.cfg`) | violation | An 'error' listener calling destroy(err) after a DNS failure makes 'error' fire twice. |
| `socket_replay_failure` (`MCSocket_replay.cfg`) | violation | `ConnectOnlyWhileLive`: a write queued while connecting is replayed by AfterConnect. The replay's submit fails, and writeBuffer destroys the socket. AfterConnect then emits 'connect' on the destroyed socket (socket.h:796). |
| `socket_write_not_writable` (`MCSocket_writeend.cfg`) | violation | `WriteRefusedWhenNotWritable`: write() on a socket that is not writable should return false (spec 4.2). socket.h:274 never tests WRITABLE, so the write reaches writeBuffer, and with no handle it destroys the socket with an error. |

`EofReadOnce` in `Socket.tla` states that 'end' is emitted once. TLC finds it
violated under the `socket_core` constants: resume() after EOF on a
DESTROY_SOON socket re-reads EOF, and `assert(!GOT_EOF)` fails at
socket.h:666. It is listed as a hazard, with no run of its own.

The emitter runs use two events, 'data' and 'newListener'. The passing run
allows 4 registrations and 6 calls; the violation run allows 3 and 5. Four
registrations let a listener add another one during an emit that already
holds two entries. Six calls leave room for a nested emit, or a removal,
inside a listener.

| Run | Expect | What it shows |
|---|---|---|
| `emitter_snapshot` (`MCEventEmitter.cfg`) | pass | The SP build, with 'data' listeners calling on() and once(). `SnapshotSemantics`: the emitter implements `EmitSnapshot`. `OnceAtMostOnce`: a once() registration runs at most once. `EmitReturns`: every emit returns. About 74,000 states. |
| `emitter_clear_during_emit` (`MCEventEmitter_clear.cfg`) | violation | removeAllListeners(ev) during an emit detaches the array. The Once wrapper's removeListener then finds nothing to remove in the new array, and the outer loop calls the Once again (line 109). Socket's OnDestroy does this during emit('destroy') (socket.h:944). |

The same model breaks `SnapshotSemantics` when a 'data' listener calls
removeListener (`ListenerOps <- MCRemovingOps`, line 111) or a newListener
listener calls on() (`MCOnOps`, `CallingEvents <- MCAllCall`, line 107). It
breaks `EmitReturns` in the build without LIBNODE_USE_SP (`USE_SP = FALSE`,
line 184). These three are listed as hazards; the number of runs the
project can keep does not leave room for their runs.

The parser runs use two pipelined requests. The first has two headers
with `maxHeadersCount = 1`, a body of two pieces and a trailer line; the
second is an upgrade. This covers the cap, the trailer flush, pendings while
paused, the socket resume between messages, and the UPGRADE path. Buffers
may end after any token.

| Run | Expect | What it shows |
|---|---|---|
| `parser_pipeline` (`MCHttpParser.cfg`) | pass | Buffers never end inside a header field. `AssertionsHold`: no assert of parser.h fails. `HeadersAsSent`: each message has its url and min(n, cap) header lines in order, plus its trailer once complete, however the buffers cut the stream (spec 6.3, 6.4). `DataInOrder`: body data is delivered in wire order with what is still queued, and 'end' comes once, last, after completion, whatever pause()/resume() calls interleave. About 1,400 states. |
| `parser_split_field` (`MCHttpParser_split.cfg`) | violation | A buffer that ends inside a header name gives two on_header_field calls. onHeaderField always starts a new field, so `assert(fields == values)` fails (parser.h:130). Spec 4.3 says the second chunk extends the tail field. |

The codec runs use the inputs of `MCCodec.tla`, with `SizeBits = 16`. A
two-char string is eight bytes at most, so every call makes the counters
reach zero, or wrap, at each point where the code tests them.

| Run | Expect | What it shows |
|---|---|---|
| `codec_pure` (`MCCodec.cfg`) | pass | `HexCodec`: hexEncode writes lower-case hex, and hexDecode returns the bytes exactly for the strings hexEncode produces, and null for the others (odd length, 'A', 'g'). `EncodeWithinBuffer`: percentEncode's writes and NUL stay inside its `3n + 1` buffer, even after `encodedLength -= 2` wraps. `DecodeWithinBuffer`: percentDecode's writes stay inside its `n + 1` buffer even when a trailing "%X" has sent it reading past the NUL; only the `decodedLength` test stops it then. `DecodeInvertsEncoding`: percentDecode of the RFC 3986 encoding of a string gives the string back, in all three encodings. About 5,000 states. |
| `codec_percent_encode` (`MCCodec_percent.cfg`) | violation | `EncodeMatchesReference`: percentEncode("  ") is "%20%". An escaped byte costs five units of `encodedLength` out of a budget of three per byte, so the last escape is cut after its '%' or after its first digit (util.cpp:279). |

The model also reaches the decoder's read past the source's NUL. On "%A"
at the end of a string, `source += 3` steps over the terminator
(util.cpp:306); `DecodeWithinBuffer` shows the writes stay in bounds, the
read itself is undefined behaviour no property states. The decoder's buffer
is sized by characters, not bytes, so "\u00e9" decodes to a truncated byte
sequence (util.cpp:374); it is listed as a hazard and no run states it.

The passing emitter run does not reach two Once hazards, and
`OnceAtMostOnce` does not cover them there. TLC finds it violated for each
when the constants allow it, but the run list has no slot for either:
- `DistinctFns = FALSE` with one shared function: on(f) then once(f); the
  Once wrapper's removeListener(f) removes the on(f) entry (line 365), and
  the once(f) registration runs on the next emit again;
- listeners that may call emit() of their own event (`ListenerOps` with
  "once" and "emit"): a once listener re-emits 'data' before its wrapper
  removes it (line 364), and is called again.
The same mechanism in Socket's OnDestroy (socket.h:944) needs the Socket
and EventEmitter models composed, which no module does.

Each property of a passing run is tested by a mutant, a variant of a mapped
operator defined just before it:
- a writeBuffer that does not count its request;
- a destroy that queues 'close' before 'error';
- an AfterWrite that emits 'drain' on every completion
  (`DrainWhenWritesComplete`);
- an end that shuts down without clearing WRITABLE;
- a queue replay in reverse;
- an EOF branch without its end();
- for the parser, an onHeaderValue that never adds the null value
  (`AssertionsHold`), a header copy without the maxHeadersCount cap
  (`HeadersAsSent`), and a message complete that emits 'end' while buffers
  are queued (`DataInOrder`);
- for the emitter, an emit loop that advances `i` past a Once (`TypeOK`), a
  removeListener that removes the entry after the match
  (`SnapshotSemantics`), a Once wrapper that removes nothing
  (`OnceAtMostOnce`), and an emit loop that never advances (`EmitReturns`);
- for the codecs, a decodeHex that also accepts 'A'-'F' (`HexCodec`), a
  percentEncode buffer of `2n + 1` chars (`EncodeWithinBuffer`), a
  percentDecode loop without its `decodedLength` test
  (`DecodeWithinBuffer`), and a
  valueFromHexChar without its upper-case branch (`DecodeInvertsEncoding`).

## Fairness

Weak fairness is assumed only for the loop callbacks: `Tick`, `LookupDone`,
`ConnectDone`, `WriteDone`, `ShutdownDone` and `ReadEof`.
- libuv runs every callback of an outstanding request, even a cancelled one.
- The loop drains the next-tick queue.
- A stream that is being read reports a FIN that has arrived.

For the emitter, `EmitStep` and `Return` are weakly fair: an emit is a
loop in one call stack and a listener returns, so both must happen.

The parser runs check safety only; their cfg turns deadlock checking off,
because the peer may close and the parser may be freed.

Nothing forces the user or the peer to act, and data reads and timers are
not required to happen.

## Not modelled

- The decoder and setEncoding, addresses, setNoDelay/setKeepAlive,
  ref/unref, connect(options) (which only parses its options into a call of
  the modelled connect), the setOnData/setOnEnd/setOnDrain/setOnClose
  listener swaps, and the byte counters. These are data or I/O that no
  property distinguishes.
- `bytesWritten()` (socket.h 195-202) reads `connectBufQueue_->length()`,
  but `connectBufQueue_` is null except while writes are queued during a
  connect (992, 540). The call dereferences null in nearly every state; one
  call of a unit test shows it, and it is left out of the model.
- A `connect()` on a socket created over an open stream: the stream, a
  `uv::Pipe` for `create(fd, ...)`, is reinterpret_cast to `uv::Tcp` and
  handed to tcp connect, and what libuv does then is outside the code.
  Modelled as an ordinary connect, the peer's FIN read while it is in flight
  queues an end() that AfterConnect's flag reset drops, and the socket is
  never destroyed.
- base64 (util.cpp 125-232), which delegates to OpenSSL or the b64
  library, both outside the repository. `extend` copies entries from one
  JsObject to another, and has nothing to check.
- The http server facade (`http/server.h`), factory declarations only with no
  implementation under src/, and the rsa
  extension, which wraps OpenSSL.
- `setMaxListeners` only sets the threshold of a debug print.
- Listener payloads (the emitted arguments) are not modelled. A listener's
  behaviour is a choice among the calls it may make.
- Of the parser: finish(), whose effect is inside http_parser; the method
  table and the version string, which are data; skipBody, which the request
  sink answers false; and a free() from inside a callback, whose callers
  are the server and client facades outside src/.
- `QueueFlushedOnConnect` in `Socket.tla` states that writes queued while
  connecting are flushed. A zero-length write breaks it: socket.h:788
  flushes only when `connectQueueSize_` is non-zero. No run checks it; it
  is listed as a hazard.

## Plan

1. **Socket properties still to add:**
   - an abstract socket lifecycle (connecting, open, half closed, destroyed)
     as a refinement of `Socket`.
2. **Composition.**
   - `HttpParser` fed by the `Socket` model's reads and pause/resume, in
     place of the abstract `sockPaused` and `sockReadable`;
   - socket listeners driven by the `EventEmitter` model.
3. **The percent decoder's truncation at an encoded NUL** (util.cpp:374)
   as a violation run, when the run list has room; its overread is covered
   by `DecodeWithinBuffer`.
4. **Back-pressure across pipelined messages** (parser.h:339), once a rule
   for it is stated.
