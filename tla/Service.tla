------------------------------- MODULE Service -------------------------------
(***************************************************************************)
(* What the server promises its clients, whatever the scheduler does       *)
(* inside: a request is refused only at capacity or after the close, an    *)
(* accepted one is answered once, and the answer is one that its request,  *)
(* its client or the backend gave reason for.                              *)
(***************************************************************************)
EXTENDS Naturals, FiniteSets

CONSTANTS
  Req,
  QueueDepth,
  Oversized   \* the requests no empty server could run to their max_tokens

VARIABLES
  phase,      \* "new", "refused", "accepted" or "answered"
  answer,     \* the finish reason of an answered request
  cancelled,  \* requests whose client gave up
  closed,
  broken      \* the backend has failed

svars == <<phase, answer, cancelled, closed, broken>>

Waiting == {r \in Req : phase[r] = "accepted"}

Init ==
  /\ phase = [r \in Req |-> "new"]
  /\ answer = [r \in Req |-> "none"]
  /\ cancelled = {} /\ closed = FALSE /\ broken = FALSE

Accept(r) ==
  /\ phase[r] = "new" /\ ~closed
  /\ phase' = [phase EXCEPT ![r] = "accepted"]
  /\ UNCHANGED <<answer, cancelled, closed, broken>>

Refuse(r) ==
  /\ phase[r] = "new"
  /\ closed \/ Cardinality(Waiting) >= QueueDepth
  /\ phase' = [phase EXCEPT ![r] = "refused"]
  /\ UNCHANGED <<answer, cancelled, closed, broken>>

Justified(r, why) ==
  \/ why \in {"eos", "max_tokens", "stop"}
  \/ why = "cancelled" /\ r \in cancelled
  \/ why = "context_overflow" /\ r \in Oversized
  \/ why = "error" /\ broken

Answer(r, why) ==
  /\ phase[r] = "accepted" /\ Justified(r, why)
  /\ phase' = [phase EXCEPT ![r] = "answered"]
  /\ answer' = [answer EXCEPT ![r] = why]
  /\ UNCHANGED <<cancelled, closed, broken>>

GiveUp(r) ==
  /\ phase[r] = "accepted"
  /\ cancelled' = cancelled \cup {r}
  /\ UNCHANGED <<phase, answer, closed, broken>>

Close == closed' = TRUE /\ UNCHANGED <<phase, answer, cancelled, broken>>

Break == broken' = TRUE /\ UNCHANGED <<phase, answer, cancelled, closed>>

Reasons == {"eos", "max_tokens", "stop", "cancelled", "context_overflow", "error"}

Next ==
  \/ \E r \in Req : \/ Accept(r) \/ Refuse(r) \/ GiveUp(r)
                    \/ \E why \in Reasons : Answer(r, why)
  \/ Close \/ Break

Spec == Init /\ [][Next]_svars
=============================================================================
