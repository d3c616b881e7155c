---------------------------- MODULE MCStreaming ----------------------------
(***************************************************************************)
(* Two bytes, pieces that are empty, one byte and two, and two stops of    *)
(* different length, one of which spans any two pieces that end in a and   *)
(* begin with b.                                                           *)
(***************************************************************************)
EXTENDS Streaming

CONSTANTS a, b

Bytes == {a, b}
Pieces == {<< >>, <<a>>, <<a, b>>, <<b>>}
Stops == {<<b, b>>, <<a, a, b>>}
=============================================================================
