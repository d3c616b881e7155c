------------------------------ MODULE MCStatic ------------------------------
EXTENDS StaticScheduler

CONSTANTS r1, r2, r3, r4

MCReq == {r1, r2, r3, r4}
MCPrompt == r1 :> <<1>> @@ r2 :> <<2, 3>> @@ r3 :> <<4, 5, 6, 7>> @@ r4 :> <<8>>
MCMaxNew == r1 :> 1 @@ r2 :> 2 @@ r3 :> 1 @@ r4 :> 9
=============================================================================
