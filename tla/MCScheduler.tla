----------------------------- MODULE MCScheduler -----------------------------
EXTENDS Scheduler

CONSTANTS r1, r2, r3

MCReq == {r1, r2, r3}
MCPrompt == r1 :> <<1>> @@ r2 :> <<2, 3>> @@ r3 :> <<4, 5, 6, 7, 8, 9>>
MCMaxNew == r1 :> 5 @@ r2 :> 2 @@ r3 :> 0
MCFnv(s) == FoldLeft(LAMBDA h, t : (h * 7 + t) % 1009, 11, s)
=============================================================================
