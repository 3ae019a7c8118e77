----------------------------- MODULE HttpParser -----------------------------
(***************************************************************************)
(* http::Parser (detail/http/parser.h) driven by the http_parser library   *)
(* and coupled to the IncomingMessage it builds and to its socket.         *)
(*                                                                         *)
(* The bytes on the wire are abstracted to tokens: a message is its start  *)
(* line, the two pieces of every header field and of every header value,   *)
(* its body pieces, optional trailer header and its end.  execute() is     *)
(* handed a prefix of the tokens not yet parsed; http_parser turns it into *)
(* callbacks, joining adjacent pieces of one field, one value or the body  *)
(* into a single data callback, so a piece cut by the end of the buffer    *)
(* arrives as two callbacks of the same kind.  A piece stands for its text *)
(* as the header scanner returns it; concat() is sequence concatenation.   *)
(***************************************************************************)
EXTENDS Integers, Sequences, SequencesExt

CONSTANTS
  Wire,             \* the messages the peer sends, in order (see MsgDesc)
  MaxHeadersCount,  \* the Parser's maxHeadersCount (0 = no cap)
  SplitFields       \* may an execute() buffer end inside a header field?

\* A message: its header count, body pieces, trailer and upgrade flag.
MsgDesc == [hs : 0..2, body : 0..2, trailer : BOOLEAN, upgrade : BOOLEAN]

\* http_parser stops at an upgrade: an upgrade message is the last one
\* parsed, and has no body.
ASSUME /\ Wire \in Seq(MsgDesc)
       /\ \A i \in 1..Len(Wire) :
            Wire[i].upgrade => i = Len(Wire) /\ Wire[i].body = 0 /\ ~Wire[i].trailer
       /\ MaxHeadersCount \in Nat

DataKinds == {"url", "field", "value", "body"}

Tok(k, m, h, p) == [k |-> k, m |-> m, h |-> h, p |-> p]

\* The tokens of message i; header h is a field and a value of two pieces.
Tokens(i) ==
  LET d == Wire[i]
      Hdr(h) == <<Tok("field", i, h, 1), Tok("field", i, h, 2),
                  Tok("value", i, h, 1), Tok("value", i, h, 2)>>
  IN  <<Tok("begin", i, 0, 0), Tok("url", i, 0, 1)>>
      \o FlattenSeq([h \in 1..d.hs |-> Hdr(h)])
      \o <<Tok("hdone", i, 0, 0)>>
      \o [j \in 1..d.body |-> Tok("body", i, 0, j)]
      \o (IF d.trailer THEN Hdr(d.hs + 1) ELSE <<>>)
      \o <<Tok("done", i, 0, 0)>>

Stream == FlattenSeq([i \in 1..Len(Wire) |-> Tokens(i)])

\* Two adjacent tokens that http_parser reports in one data callback.
SameRun(a, b) == a.k \in DataKinds /\ a.k = b.k /\ a.m = b.m /\ a.h = b.h

\* The callbacks http_parser_execute makes for one buffer of tokens.
RECURSIVE Callbacks(_)
Callbacks(s) ==
  IF s = <<>> THEN <<>>
  ELSE LET r == Callbacks(Tail(s))
       IN  IF r # <<>> /\ SameRun(Head(s), Head(r).toks[1])
             THEN <<[Head(r) EXCEPT !.toks = <<Head(s)>> \o @]>> \o Tail(r)
             ELSE <<[k |-> Head(s).k, m |-> Head(s).m, h |-> Head(s).h,
                     toks |-> <<Head(s)>>]>> \o r

\* A buffer may end after token e unless that cuts a header field.
Cuttable(e) ==
  \/ SplitFields
  \/ e = Len(Stream)
  \/ ~(Stream[e].k = "field" /\ SameRun(Stream[e], Stream[e + 1]))

\* The EOF sentinel of pendings (a null buffer) and the 'end' event in the
\* history of what a message delivered; no data callback is empty.
EOF == <<>>

VARIABLES
  parsed,       \* tokens whose callbacks have run
  cbq,          \* callbacks of the running execute() still to be made
  url,          \* url_
  fields,       \* fields_: a sequence of field texts
  values,       \* values_: a sequence of value texts
  upgrade,      \* the UPGRADE bit of the Parser's flags
  incoming,     \* incoming_: the index in msgs, 0 = null
  msgs,         \* every IncomingMessage created, in order
  attached,     \* socket_ is set and the socket's onData feeds execute()
  sockPaused,   \* the socket is paused
  sockReadable, \* the socket is readable
  aborted       \* an assert() of parser.h failed

vars == <<parsed, cbq, url, fields, values, upgrade, incoming, msgs,
          attached, sockPaused, sockReadable, aborted>>

\* Parser(type, sock, maxHeadersCount): http_parser_init, empty buffers.
Init ==
  /\ parsed = 0 /\ cbq = <<>>
  /\ url = <<>> /\ fields = <<>> /\ values = <<>>
  /\ upgrade = FALSE /\ incoming = 0 /\ msgs = <<>>
  /\ attached = TRUE /\ sockPaused = FALSE /\ sockReadable = TRUE
  /\ aborted = FALSE

\* execute(buf): the socket delivers the next buffer while it reads.
Execute ==
  /\ ~aborted /\ attached /\ sockReadable /\ ~sockPaused
  /\ cbq = <<>> /\ parsed < Len(Stream)
  /\ \E e \in parsed + 1..Len(Stream) :
       /\ Cuttable(e)
       /\ cbq' = Callbacks(SubSeq(Stream, parsed + 1, e))
  /\ UNCHANGED <<parsed, url, fields, values, upgrade, incoming, msgs,
                 attached, sockPaused, sockReadable, aborted>>

\* The callback at the head of cbq has run.
CB == Head(cbq)
Consumed == /\ cbq' = Tail(cbq)
            /\ parsed' = parsed + Len(CB.toks)

\* An assert() that fails aborts the process: nothing happens after it.
Abort == /\ aborted' = TRUE
         /\ UNCHANGED <<parsed, cbq, url, fields, values, upgrade, incoming,
                        msgs, attached, sockPaused, sockReadable>>

OnMessageBegin ==
  /\ ~aborted /\ cbq # <<>> /\ CB.k = "begin"
  /\ Consumed
  /\ url' = <<>> /\ fields' = <<>> /\ values' = <<>>
  /\ UNCHANGED <<upgrade, incoming, msgs, attached, sockPaused, sockReadable,
                 aborted>>

OnUrl ==
  /\ ~aborted /\ cbq # <<>> /\ CB.k = "url"
  /\ Consumed
  /\ url' = url \o CB.toks
  /\ UNCHANGED <<fields, values, upgrade, incoming, msgs, attached,
                 sockPaused, sockReadable, aborted>>

\* Every field callback starts a new field, after assert(fields == values).
OnHeaderField ==
  /\ ~aborted /\ cbq # <<>> /\ CB.k = "field"
  /\ IF Len(fields) # Len(values) THEN Abort
     ELSE /\ Consumed
          /\ fields' = Append(fields, CB.toks)
          /\ UNCHANGED <<url, values, upgrade, incoming, msgs, attached,
                         sockPaused, sockReadable, aborted>>

\* The first value callback after a field adds a null value; every value
\* callback then appends its text to the value of the last field.
OnHeaderValueAddsNone(vs) == vs

OnHeaderValueAdds(vs) == IF Len(vs) # Len(fields) THEN Append(vs, <<>>) ELSE vs

OnHeaderValue ==
  /\ ~aborted /\ cbq # <<>> /\ CB.k = "value"
  /\ LET vs == OnHeaderValueAdds(values)
     IN  IF Len(vs) # Len(fields) THEN Abort
         ELSE /\ Consumed
              /\ values' = [vs EXCEPT ![Len(fields)] = @ \o CB.toks]
              /\ UNCHANGED <<url, fields, upgrade, incoming, msgs, attached,
                             sockPaused, sockReadable, aborted>>

\* The header lines handed to the message: at most maxHeadersCount of them
\* when it is set.
HeadersCapNone(n) == n

HeadersCap(n) ==
  IF MaxHeadersCount # 0 THEN (IF n < MaxHeadersCount THEN n ELSE MaxHeadersCount)
  ELSE n

Lines(n) == [i \in 1..n |-> [f |-> fields[i], v |-> values[i]]]

\* static onHeadersComplete takes UPGRADE from http_parser; the member
\* onHeadersComplete builds the IncomingMessage from the accumulated
\* url and header lines, clears them and, unless upgrading, hands the
\* message to onIncoming (whose skipBody answer is false for requests).
OnHeadersComplete ==
  /\ ~aborted /\ cbq # <<>> /\ CB.k = "hdone"
  /\ LET n == Len(values)
         up == Wire[CB.m].upgrade
     IN  IF Len(fields) \notin {n, n + 1} THEN Abort
         ELSE /\ Consumed
              /\ upgrade' = up
              /\ incoming' = Len(msgs) + 1
              /\ msgs' = Append(msgs,
                   [url |-> url, headers |-> Lines(HeadersCap(n)), upgrade |-> up,
                    paused |-> FALSE, complete |-> FALSE, readable |-> TRUE,
                    pendings |-> <<>>, delivered |-> <<>>])
              /\ url' = <<>> /\ fields' = <<>> /\ values' = <<>>
              /\ UNCHANGED <<attached, sockPaused, sockReadable, aborted>>

\* A body buffer is queued while the message is paused or has queued
\* buffers, and emitted as 'data' otherwise.
OnBody ==
  /\ ~aborted /\ cbq # <<>> /\ CB.k = "body"
  /\ Consumed
  /\ msgs' = [msgs EXCEPT ![incoming] =
                IF @.paused \/ @.pendings # <<>>
                  THEN [@ EXCEPT !.pendings = Append(@, CB.toks)]
                  ELSE [@ EXCEPT !.delivered = Append(@, CB.toks)]]
  /\ UNCHANGED <<url, fields, values, upgrade, incoming, attached, sockPaused,
                 sockReadable, aborted>>

\* The end of a non-upgrade message: queued as the EOF sentinel behind
\* queued buffers or while paused, emitted as 'end' otherwise.
DeliverEofAtOnce(m) ==
  IF m.upgrade THEN m ELSE [m EXCEPT !.readable = FALSE, !.delivered = Append(@, EOF)]

DeliverEof(m) ==
  IF m.upgrade THEN m
  ELSE IF m.paused \/ m.pendings # <<>>
         THEN [m EXCEPT !.pendings = Append(@, EOF)]
         ELSE [m EXCEPT !.readable = FALSE, !.delivered = Append(@, EOF)]

\* onMessageComplete: COMPLETE, trailer lines flushed (after
\* assert(values == fields)), EOF delivered, and the socket resumed if it
\* is still readable.
OnMessageComplete ==
  /\ ~aborted /\ cbq # <<>> /\ CB.k = "done"
  /\ IF fields # <<>> /\ Len(values) # Len(fields) THEN Abort
     ELSE LET m == [msgs[incoming] EXCEPT !.complete = TRUE,
                      !.headers = @ \o Lines(Len(fields))]
          IN  /\ Consumed
              /\ msgs' = [msgs EXCEPT ![incoming] = DeliverEof(m)]
              /\ IF fields # <<>>
                   THEN url' = <<>> /\ fields' = <<>> /\ values' = <<>>
                   ELSE UNCHANGED <<url, fields, values>>
              /\ sockPaused' = (sockPaused /\ ~sockReadable)
              /\ UNCHANGED <<upgrade, incoming, attached, sockReadable, aborted>>

(***************************************************************************)
(* IncomingMessage (spec 4.4): the user pauses and resumes a message.      *)
(* pause() pauses the socket; resume() emits the queued buffers in order,  *)
(* the EOF sentinel as 'end', and resumes the socket.                      *)
(***************************************************************************)
Pause(j) ==
  /\ ~aborted
  /\ msgs' = [msgs EXCEPT ![j].paused = TRUE]
  /\ sockPaused' = TRUE
  /\ UNCHANGED <<parsed, cbq, url, fields, values, upgrade, incoming, attached,
                 sockReadable, aborted>>

Resume(j) ==
  /\ ~aborted
  /\ msgs' = [msgs EXCEPT ![j].paused = FALSE,
                          ![j].readable = @ /\ EOF \notin ToSet(msgs[j].pendings),
                          ![j].delivered = @ \o msgs[j].pendings,
                          ![j].pendings = <<>>]
  /\ sockPaused' = FALSE
  /\ UNCHANGED <<parsed, cbq, url, fields, values, upgrade, incoming, attached,
                 sockReadable, aborted>>

\* free(): detach from the socket (its onData and onEnd hooks are cleared)
\* and drop the header buffers and the message; called between buffers.
Free ==
  /\ ~aborted /\ attached /\ cbq = <<>>
  /\ attached' = FALSE /\ fields' = <<>> /\ values' = <<>> /\ incoming' = 0
  /\ UNCHANGED <<parsed, cbq, url, upgrade, msgs, sockPaused, sockReadable,
                 aborted>>

\* The socket reads EOF and is no longer readable; no more data arrives.
SocketEnd ==
  /\ ~aborted /\ sockReadable /\ cbq = <<>>
  /\ sockReadable' = FALSE
  /\ UNCHANGED <<parsed, cbq, url, fields, values, upgrade, incoming, msgs,
                 attached, sockPaused, aborted>>

Next ==
  \/ Execute \/ OnMessageBegin \/ OnUrl \/ OnHeaderField \/ OnHeaderValue
  \/ OnHeadersComplete \/ OnBody \/ OnMessageComplete
  \/ \E j \in 1..Len(msgs) : Pause(j) \/ Resume(j)
  \/ Free \/ SocketEnd

Spec == Init /\ [][Next]_vars

-----------------------------------------------------------------------------
\* The asserts of onHeaderField, onHeaderValue, onHeadersComplete and
\* onMessageComplete never fail, whatever buffers execute() is given.
AssertionsHold == ~aborted

\* min(n, k) header lines for a cap k > 0, all n for k = 0 (spec 6.4).
SpecCap(n) ==
  IF MaxHeadersCount = 0 \/ n <= MaxHeadersCount THEN n ELSE MaxHeadersCount

\* The header line h of message i as the peer sent it.
SentLine(i, h) ==
  [f |-> <<Tok("field", i, h, 1), Tok("field", i, h, 2)>>,
   v |-> <<Tok("value", i, h, 1), Tok("value", i, h, 2)>>]

\* Every IncomingMessage carries the url and the first maxHeadersCount header
\* lines its request was sent with, in order, and, once complete, its
\* trailer line: however execute() buffers cut the stream (spec 6.3, 6.4).
HeadersAsSent ==
  \A j \in 1..Len(msgs) :
    /\ msgs[j].url = <<Tok("url", j, 0, 1)>>
    /\ msgs[j].headers =
         [h \in 1..SpecCap(Wire[j].hs) |-> SentLine(j, h)]
         \o (IF msgs[j].complete /\ Wire[j].trailer
               THEN <<SentLine(j, Wire[j].hs + 1)>> ELSE <<>>)

\* The body pieces parsed for message j, in wire order.
BodyParsed(j) == SelectSeq(SubSeq(Stream, 1, parsed), LAMBDA t : t.k = "body" /\ t.m = j)

\* A message delivers its body in wire order, with what is still queued
\* behind it; its 'end' comes once, last, after the message is complete
\* and nothing is queued: whatever pause() and resume() calls interleave
\* with the parser's callbacks.
DataInOrder ==
  \A j \in 1..Len(msgs) :
    LET d == msgs[j].delivered
        p == msgs[j].pendings
    IN  /\ FlattenSeq(d) \o FlattenSeq(p) = BodyParsed(j)
        /\ \A x \in 1..Len(d) : d[x] = EOF => x = Len(d) /\ p = <<>> /\ msgs[j].complete
        /\ \A x \in 1..Len(p) : p[x] = EOF => x = Len(p)
====
