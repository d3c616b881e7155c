------------------------------- MODULE Clients -------------------------------
(***************************************************************************)
(* What the HTTP threads and the scheduler thread share: the bounded       *)
(* request queue, the cancel flags, the promises and the sinks.  The       *)
(* handlers' steps leave the scheduler thread's own state alone; each      *)
(* scheduler adds that part.                                               *)
(***************************************************************************)
EXTENDS Jobs

CONSTANT QueueDepth   \* RequestQueue's capacity (--queue)

ASSUME QueueAssumption == QueueDepth \in Nat

VARIABLES
  queue,   \* RequestQueue: the waiting requests, in order
  closed,  \* RequestQueue::closed_
  status,  \* what try_push() answered: "new", "refused" or "accepted"
  cancel,  \* the requests whose cancel flag is up
  result,  \* the reason in the fulfilled promise, "none" before
  told     \* terminal calls (on_finish or on_error) a request's sink has had

shared == <<queue, closed, status, cancel, result, told>>

NoClients ==
  /\ queue = << >> /\ closed = FALSE /\ cancel = {}
  /\ status = [r \in Req |-> "new"]
  /\ result = [r \in Req |-> "none"]
  /\ told = [r \in Req |-> 0]

(* Mutant of Full: one request too many. *)
FullTooLate == Len(queue) > QueueDepth

Full == Len(queue) >= QueueDepth

(* try_push(): refused at capacity or once closed, answered 503. *)
try_push(r) ==
  /\ status[r] = "new"
  /\ IF closed \/ Full
     THEN status' = [status EXCEPT ![r] = "refused"] /\ UNCHANGED queue
     ELSE status' = [status EXCEPT ![r] = "accepted"] /\ queue' = Append(queue, r)
  /\ UNCHANGED <<closed, cancel, result, told>>

(* A client disconnect, or a handler that notices the shutdown. *)
raise_cancel(r) ==
  /\ status[r] = "accepted" /\ result[r] = "none" /\ r \notin cancel
  /\ cancel' = cancel \cup {r}
  /\ UNCHANGED <<queue, closed, status, result, told>>

close ==
  /\ ~closed
  /\ closed' = TRUE
  /\ UNCHANGED <<queue, status, cancel, result, told>>

(* pop() and try_pop() of a nonempty queue. *)
pop ==
  /\ queue # << >>
  /\ queue' = Tail(queue)
  /\ UNCHANGED <<closed, status, cancel, result, told>>

(* deliver(): the promise is fulfilled. *)
deliver(r, why) == result' = [result EXCEPT ![r] = why]

-----------------------------------------------------------------------------
SharedTypeOK ==
  /\ queue \in Seq(Req) /\ Len(queue) <= QueueDepth
  /\ closed \in BOOLEAN /\ cancel \subseteq Req
  /\ status \in [Req -> {"new", "refused", "accepted"}]
  /\ result \in [Req -> (Reason \ {"unset"}) \cup {"none"}]
  /\ told \in [Req -> Nat]

(* Every accepted and unanswered request is exactly once in line, and no   *)
(* other one is.                                                           *)
OncePerRequest(line) ==
  \A r \in Req :
    Cardinality({i \in 1..Len(line) : line[i] = r})
      = IF status[r] = "accepted" /\ result[r] = "none" THEN 1 ELSE 0

(* token_sink.hpp: "exactly one terminal call", over all the attempts at a *)
(* request: the sink outlives a preemption.                                *)
ToldOnce ==
  \A r \in Req : told[r] <= 1 /\ (result[r] # "none" => told[r] = 1)

(* Every accepted request is answered: by deliver(), after any deferral,   *)
(* preemption, failure or cancellation on the way.                         *)
Answered == \A r \in Req : status[r] = "accepted" ~> result[r] # "none"
=============================================================================
