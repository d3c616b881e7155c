----------------------------- MODULE MCLiveness -----------------------------
EXTENDS Scheduler

CONSTANTS r1, r2

MCReq == {r1, r2}
MCPrompt == r1 :> <<1>> @@ r2 :> <<2>>
MCMaxNew == r1 :> 4 @@ r2 :> 4
MCFnv(s) == FoldLeft(LAMBDA h, t : (h * 7 + t) % 1009, 11, s)
=============================================================================
