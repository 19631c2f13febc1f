------------------------------ MODULE MCServer ------------------------------
(***************************************************************************)
(* Instances of Server for TLC.  The runs differ in what clients send.     *)
(***************************************************************************)
EXTENDS Server, TLC

CONSTANTS s1, s2, s3, w1, w2, o1, o2, o3, o4

\* Requests that end the connection; a second one may be pipelined.
ClosingChunks == {<<"close">>, <<"malformed">>, <<"toolarge">>, <<"partial">>,
                  <<"close", "close">>, <<"malformed", "close">>}

\* Requests of every kind, kept connections among them.
ThrowingChunks == {<<"keepalive">>, <<"close">>, <<"badlength">>, <<"throws">>}

\* Connections that are kept.
KeepAliveChunks == {<<"keepalive">>}
PipelinedChunks == {<<"keepalive", "keepalive">>}

\* Operations and threads are interchangeable; sessions but the first as well.
ServerSymmetry == Permutations(Op \ {FirstOp}) \cup Permutations(Worker)
=============================================================================
