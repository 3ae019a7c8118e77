------------------------------ MODULE MCSocket ------------------------------
(* Instantiation of Socket for TLC.                                        *)
EXTENDS Socket

\* A TCP connect reports a readable and writable stream; a pipe opened for
\* reading only reports a stream that is not writable.
MCConnectCaps == {<<TRUE, TRUE>>, <<TRUE, FALSE>>}
MCWriteLens == {1}
MCZeroWriteLens == {0, 1}
=============================================================================
