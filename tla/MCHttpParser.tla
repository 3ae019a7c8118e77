---------------------------- MODULE MCHttpParser ----------------------------
EXTENDS HttpParser

\* Two pipelined requests: the first has two headers (one over the cap),
\* a body of two pieces and a trailer; the second is an upgrade.
MCWire ==
  <<[hs |-> 2, body |-> 2, trailer |-> TRUE, upgrade |-> FALSE],
    [hs |-> 1, body |-> 0, trailer |-> FALSE, upgrade |-> TRUE]>>
====
