------------------------------ MODULE MCServer ------------------------------
(***************************************************************************)
(* A blocking request and a streamed one, for a queue and a batch of one:  *)
(* the second may be refused, wait while the first runs, or run after it.  *)
(***************************************************************************)
EXTENDS Server

CONSTANTS g1, s1

Requests == {g1, s1}
Streams == {s1}
=============================================================================
