--------------------------- MODULE MCSharedPrefix ---------------------------
(* Two prompts with the same whole-block prefix, one of them no longer than *)
(* it, and a third request that fills the pool by itself.                   *)
EXTENDS Scheduler

CONSTANTS r1, r2, r3

MCReq == {r1, r2, r3}
MCPrompt == r1 :> <<1, 2, 3>> @@ r2 :> <<1, 2>> @@ r3 :> <<4, 5, 6, 7, 8, 9, 10>>
MCMaxNew == r1 :> 1 @@ r2 :> 1 @@ r3 :> 1
MCFnv(s) == FoldLeft(LAMBDA h, t : (h * 7 + t) % 1009, 11, s)
=============================================================================
