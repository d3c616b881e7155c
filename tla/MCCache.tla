------------------------------- MODULE MCCache -------------------------------
EXTENDS Scheduler

CONSTANTS r1, r2, r3

MCReq == {r1, r2, r3}
MCPrompt == r1 :> <<1, 2, 3>> @@ r2 :> <<1, 2, 3, 4, 5>> @@ r3 :> <<6, 7, 8, 9, 10, 11, 12>>
MCMaxNew == r1 :> 8 @@ r2 :> 4 @@ r3 :> 5
MCFnv(s) == FoldLeft(LAMBDA h, t : (h * 7 + t) % 1009, 11, s)
=============================================================================
