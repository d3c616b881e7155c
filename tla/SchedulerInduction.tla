-------------------------- MODULE SchedulerInduction --------------------------
(***************************************************************************)
(* The inductive invariant of continuous batching, and the steps of the    *)
(* HTTP threads and of the first half of a pass: taking and admitting.     *)
(* The memory plays no part in the argument: whatever fits or does not,    *)
(* each request is moved, never copied or dropped.                         *)
(***************************************************************************)
EXTENDS Scheduler, JobsProofs

(* The types of what the argument is about. *)
Types ==
  /\ SharedTypeOK
  /\ pc \in Place
  /\ pending \in Seq(Req) /\ active \in Seq(Req)
  /\ sampling \in Seq(Req) /\ grewShort \in Seq(Req)
  /\ job = [r \in Req |-> job[r]]
  /\ failures \in Nat

(* The three lists are apart and hold the waiting requests, each once. *)
Placed ==
  /\ IsInjective(queue) /\ IsInjective(pending) /\ IsInjective(active)
  /\ ToSet(queue) \cap ToSet(pending) = {}
  /\ ToSet(queue) \cap ToSet(active) = {}
  /\ ToSet(pending) \cap ToSet(active) = {}
  /\ ToSet(queue) \cup ToSet(pending) \cup ToSet(active) = Waiting

(* Every job is sound, was told only in the batch, and has a reason that   *)
(* its client or the backend gave.                                         *)
JobOK(r) ==
  /\ Sound(job[r])
  /\ r \notin ToSet(active) => ~job[r].notified
  /\ job[r].reason = "cancelled" => r \in cancel
  /\ job[r].reason = "error" => failures > 0

JobsOK == \A r \in Req : JobOK(r)

(* The terminal calls, counted. *)
Told == \A r \in Req : told[r] = IF result[r] # "none" \/ job[r].notified THEN 1 ELSE 0

(* What is still to be accepted in this pass is running. *)
Sampled ==
  /\ IsInjective(sampling)
  /\ \A r \in ToSet(sampling) : r \in ToSet(active) /\ ~job[r].finished
  /\ pc # "accept" => sampling = << >>

(* What is starved is looked at once, and running when it is. *)
Short ==
  /\ IsInjective(grewShort)
  /\ \A r \in ToSet(grewShort) : r \in ToSet(active) => ~job[r].finished
  /\ ToSet(grewShort) \cap ToSet(sampling) = {}
  /\ pc \notin {"accept", "retire", "resolve"} => grewShort = << >>

(* A job is tried for the head of pending. *)
Trying == pc = "fit" => pending # << >>

IInv == Types /\ Placed /\ Accepted /\ JobsOK /\ Told /\ Sampled /\ Short /\ Trying
-----------------------------------------------------------------------------
(* The initial state satisfies the inductive invariant. *)
LEMMA InitIInv == Init => IInv
<1> SUFFICES ASSUME Init PROVE IInv
  OBVIOUS
<1> USE DEF Init, NoClients
<1>1. ToSet(<< >>) = {} /\ IsInjective(<< >>) /\ << >> \in Seq(Req)
  BY DEF ToSet, IsInjective
<1>2. Types
  <2>0. Len(queue) <= QueueDepth
    <3> Len(<< >>) = 0 /\ 0 <= QueueDepth
      BY QueueAssumption
    <3> QED
      OBVIOUS
  <2>1. SharedTypeOK
    <3>1. closed \in BOOLEAN /\ cancel \subseteq Req /\ queue \in Seq(Req)
      BY <1>1
    <3>2. status \in [Req -> {"new", "refused", "accepted"}]
      OBVIOUS
    <3>3. result \in [Req -> (Reason \ {"unset"}) \cup {"none"}]
      OBVIOUS
    <3>4. told \in [Req -> Nat]
      OBVIOUS
    <3> QED
      BY <2>0, <3>1, <3>2, <3>3, <3>4 DEF SharedTypeOK
  <2>2. pc \in Place /\ failures \in Nat /\ job = [r \in Req |-> job[r]]
    BY DEF Place
  <2> QED
    BY <1>1, <2>1, <2>2 DEF Types
<1>3. Placed
  BY <1>1 DEF Placed, Waiting
<1>4. JobsOK
  BY NoJobSound DEF JobsOK, JobOK
<1>5. Told
  BY NoJobSound DEF Told
<1>6. Accepted /\ Sampled /\ Short /\ Trying
  BY <1>1 DEF Accepted, Sampled, Short, Trying
<1> QED
  BY <1>2, <1>3, <1>4, <1>5, <1>6 DEF IInv

(* The lists, as lists. *)
LEMMA Lists ==
  ASSUME IInv
  PROVE  /\ queue \in Seq(Req) /\ pending \in Seq(Req) /\ active \in Seq(Req)
         /\ sampling \in Seq(Req) /\ grewShort \in Seq(Req)
         /\ IsInjective(queue) /\ IsInjective(pending) /\ IsInjective(active)
         /\ IsInjective(sampling) /\ IsInjective(grewShort)
BY DEF IInv, Types, SharedTypeOK, Placed, Sampled, Short

(* What the members of the lists are. *)
LEMMA Members ==
  ASSUME IInv
  PROVE  /\ ToSet(queue) \subseteq Waiting /\ ToSet(pending) \subseteq Waiting
         /\ ToSet(active) \subseteq Waiting /\ Waiting \subseteq Req
         /\ \A i \in 1..Len(active) : active[i] \in ToSet(active)
BY DEF IInv, Placed, Waiting, Types, ToSet

(* Where the pass samples nothing, and where nothing starves. *)
LEMMA Idle ==
  ASSUME IInv
  PROVE  /\ pc # "accept" => sampling = << >> /\ ToSet(sampling) = {}
         /\ pc \notin {"accept", "retire", "resolve"} => grewShort = << >> /\ ToSet(grewShort) = {}
<1>1. ToSet(<< >>) = {}
  BY DEF ToSet
<1>2. pc # "accept" => sampling = << >>
  BY DEF IInv, Sampled
<1>3. pc \notin {"accept", "retire", "resolve"} => grewShort = << >>
  BY DEF IInv, Short
<1> QED
  BY <1>1, <1>2, <1>3

(* Nothing is sampled and nothing starves: nothing to keep. *)
LEMMA Unsampled ==
  ASSUME sampling = << >>, grewShort = << >>, UNCHANGED <<sampling, grewShort>>
  PROVE  Sampled' /\ Short'
<1>1. IsInjective(<< >>)
  BY DEF IsInjective
<1>2. ToSet(<< >>) = {}
  BY DEF ToSet
<1> QED
  BY <1>1, <1>2 DEF Sampled, Short

(* One job is replaced. *)
LEMMA JobReplaced ==
  ASSUME IInv, NEW r \in Req, NEW k, job' = [job EXCEPT ![r] = k]
  PROVE  /\ job' = [q \in Req |-> job'[q]] /\ job'[r] = k
         /\ \A q \in Req : q # r => job'[q] = job[q]
BY DEF IInv, Types

(* The other jobs stay as sound as they are. *)
LEMMA OneJob ==
  ASSUME IInv, NEW r \in Req, NEW k, Sound(k), job' = [job EXCEPT ![r] = k],
         k.notified => r \in ToSet(active'),
         k.reason = "cancelled" => r \in cancel,
         k.reason = "error" => failures > 0,
         ToSet(active) \ {r} \subseteq ToSet(active'),
         UNCHANGED <<cancel, failures>>
  PROVE  JobsOK'
<1>1. /\ job' = [q \in Req |-> job'[q]] /\ job'[r] = k /\ \A q \in Req : q # r => job'[q] = job[q]
  BY JobReplaced
<1> SUFFICES ASSUME NEW q \in Req PROVE JobOK(q)'
  BY DEF JobsOK
<1>2. CASE q = r
  BY <1>1, <1>2 DEF JobOK
<1>3. CASE q # r
  BY <1>1, <1>3 DEF IInv, JobsOK, JobOK
<1> QED
  BY <1>2, <1>3

(* An answer takes its request out of the waiting ones. *)
LEMMA Answering ==
  ASSUME IInv, NEW r \in Req, r \in Waiting, NEW why \in Reason, why # "unset",
         deliver(r, why), UNCHANGED status
  PROVE  /\ result' \in [Req -> (Reason \ {"unset"}) \cup {"none"}]
         /\ result'[r] = why /\ why # "none" /\ \A q \in Req : q # r => result'[q] = result[q]
         /\ Waiting' = Waiting \ {r} /\ Accepted' /\ result[r] = "none"
BY Delivered DEF IInv, Types

(* A terminal call is counted. *)
LEMMA Calling ==
  ASSUME IInv, NEW r \in Req, NEW n \in Nat, told' = [told EXCEPT ![r] = n]
  PROVE  /\ told' \in [Req -> Nat] /\ told'[r] = n /\ \A q \in Req : q # r => told'[q] = told[q]
BY DEF IInv, Types, SharedTypeOK

(* What is running has not been told. *)
LEMMA Untold ==
  ASSUME IInv, NEW r \in Req, r \in Waiting, ~job[r].notified
  PROVE  told[r] = 0
BY DEF IInv, Told, Waiting

(* A step that moves no request and changes no job. *)
LEMMA QuietStep ==
  ASSUME IInv, UNCHANGED <<shared, pending, active, job, sampling, grewShort, failures>>,
         pc' \in Place,
         pc' # "accept" => sampling = << >>,
         pc' \notin {"accept", "retire", "resolve"} => grewShort = << >>,
         pc' = "fit" => pending # << >>
  PROVE  IInv'
<1>1. Types'
  BY DEF IInv, Types, SharedTypeOK, shared
<1>2. Placed'
  BY DEF IInv, Placed, Waiting, shared
<1>3. JobsOK'
  BY DEF IInv, JobsOK, JobOK, shared
<1>4. Told'
  BY DEF IInv, Told, shared
<1>5. Accepted' /\ Sampled' /\ Short' /\ Trying'
  BY DEF IInv, Accepted, Sampled, Short, Trying, shared
<1> QED
  BY <1>1, <1>2, <1>3, <1>4, <1>5 DEF IInv

-----------------------------------------------------------------------------
(* try_push() refuses, or adds to the queue. *)
LEMMA SubmitStep ==
  ASSUME IInv, NEW r \in Req, Submit(r)
  PROVE  IInv'
<1> USE DEF Submit, try_push, private
<1>1. r \notin Waiting /\ r \notin ToSet(queue)
  BY Members DEF Waiting
<1>2. CASE closed \/ Full
  <2>1. /\ status' = [status EXCEPT ![r] = "refused"]
        /\ UNCHANGED <<queue, closed, cancel, result, told, private>>
    BY <1>2
  <2>2. Types'
    BY <2>1 DEF IInv, Types, SharedTypeOK
  <2>3. Waiting' = Waiting
    BY <1>1, <2>1 DEF IInv, Types, SharedTypeOK, Waiting
  <2>4. Placed'
    BY <2>1, <2>3 DEF IInv, Placed
  <2>5. JobsOK' /\ Told'
    BY <2>1 DEF IInv, JobsOK, JobOK, Told
  <2>6. Sampled' /\ Short' /\ Trying'
    BY <2>1 DEF IInv, Sampled, Short, Trying
  <2>10. Accepted'
    BY <2>1 DEF IInv, Types, SharedTypeOK, Accepted
  <2> QED
    BY <2>2, <2>4, <2>5, <2>6, <2>10 DEF IInv
<1>3. CASE ~(closed \/ Full)
  <2>1. /\ status' = [status EXCEPT ![r] = "accepted"] /\ queue' = Append(queue, r)
        /\ UNCHANGED <<closed, cancel, result, told, private>>
    BY <1>3
  <2>2. queue \in Seq(Req) /\ IsInjective(queue) /\ Len(queue) \in Nat /\ Len(queue) < QueueDepth
    BY <1>3, QueueAssumption DEF IInv, Types, SharedTypeOK, Placed, Full
  <2>3. /\ queue' \in Seq(Req) /\ IsInjective(queue') /\ ToSet(queue') = ToSet(queue) \cup {r}
        /\ Len(queue') = Len(queue) + 1
    BY <1>1, <2>1, <2>2, OnceAppend
  <2>4. Types'
    BY <2>1, <2>2, <2>3, QueueAssumption DEF IInv, Types, SharedTypeOK
  <2>5. result[r] = "none"
    BY <1>1 DEF IInv, Accepted
  <2>6. Waiting' = Waiting \cup {r}
    BY <2>1, <2>5 DEF IInv, Types, SharedTypeOK, Waiting
  <2>7. Placed'
    BY <1>1, <2>1, <2>3, <2>6, Members DEF IInv, Placed
  <2>8. JobsOK' /\ Told'
    BY <2>1 DEF IInv, JobsOK, JobOK, Told
  <2>9. Sampled' /\ Short' /\ Trying'
    BY <2>1 DEF IInv, Sampled, Short, Trying
  <2>10. Accepted'
    BY <2>1 DEF IInv, Types, SharedTypeOK, Accepted
  <2> QED
    BY <2>4, <2>7, <2>8, <2>9, <2>10 DEF IInv
<1> QED
  BY <1>2, <1>3

(* A client gives up. *)
LEMMA CancelStep ==
  ASSUME IInv, NEW r \in Req, Cancel(r)
  PROVE  IInv'
<1>1. cancel' = cancel \cup {r} /\ UNCHANGED <<queue, closed, status, result, told, private>>
  BY DEF Cancel, raise_cancel
<1> USE DEF private
<1>2. Types'
  BY <1>1 DEF IInv, Types, SharedTypeOK
<1>3. Placed'
  BY <1>1 DEF IInv, Placed, Waiting
<1>4. JobsOK' /\ Told'
  BY <1>1 DEF IInv, JobsOK, JobOK, Told
<1>5. Accepted' /\ Sampled' /\ Short' /\ Trying'
  BY <1>1 DEF IInv, Accepted, Sampled, Short, Trying
<1> QED
  BY <1>2, <1>3, <1>4, <1>5 DEF IInv

(* The queue is closed. *)
LEMMA CloseStep ==
  ASSUME IInv, Close
  PROVE  IInv'
<1>1. closed' = TRUE /\ UNCHANGED <<queue, cancel, status, result, told, private>>
  BY DEF Close, close
<1> USE DEF private
<1>2. Types'
  BY <1>1 DEF IInv, Types, SharedTypeOK
<1>3. Placed'
  BY <1>1 DEF IInv, Placed, Waiting
<1>4. JobsOK' /\ Told'
  BY <1>1 DEF IInv, JobsOK, JobOK, Told
<1>5. Accepted' /\ Sampled' /\ Short' /\ Trying'
  BY <1>1 DEF IInv, Accepted, Sampled, Short, Trying
<1> QED
  BY <1>2, <1>3, <1>4, <1>5 DEF IInv

(* A request goes from the queue to pending. *)
LEMMA TakeOneStep ==
  ASSUME IInv, TakeOne
  PROVE  IInv'
<1>1. /\ queue # << >> /\ queue' = Tail(queue) /\ pending' = Append(pending, Head(queue))
      /\ UNCHANGED <<closed, status, cancel, result, told, pc, active, job, sampling, grewShort, failures>>
      /\ pc = "take"
  BY DEF TakeOne, pop
<1>2. /\ queue' \in Seq(Req) /\ IsInjective(queue') /\ ToSet(queue') = ToSet(queue) \ {Head(queue)}
      /\ Head(queue) \in ToSet(queue) /\ Head(queue) \in Req
  BY <1>1, Lists, OnceTail
<1>3. Head(queue) \notin ToSet(pending)
  BY <1>2 DEF IInv, Placed
<1>4. /\ pending' \in Seq(Req) /\ IsInjective(pending')
      /\ ToSet(pending') = ToSet(pending) \cup {Head(queue)}
  BY <1>1, <1>2, <1>3, Lists, OnceAppend
<1>5. Len(queue') <= QueueDepth
  <2> Len(queue') = Len(queue) - 1 /\ Len(queue) \in Nat /\ Len(queue) <= QueueDepth
    BY <1>1, Lists DEF IInv, Types, SharedTypeOK
  <2> QED
    BY QueueAssumption
<1>6. Types'
  BY <1>1, <1>2, <1>4, <1>5 DEF IInv, Types, SharedTypeOK
<1>7. Placed'
  BY <1>1, <1>2, <1>4 DEF IInv, Placed, Waiting
<1>8. JobsOK' /\ Told' /\ Accepted'
  BY <1>1 DEF IInv, JobsOK, JobOK, Told, Accepted
<1>9. Sampled' /\ Short' /\ Trying'
  BY <1>1 DEF IInv, Sampled, Short, Trying
<1> QED
  BY <1>6, <1>7, <1>8, <1>9 DEF IInv

(* A job is made for the head of pending. *)
LEMMA MakeJobStep ==
  ASSUME IInv, MakeJob
  PROVE  IInv'
<1>0. PICK r \in Req : r = Head(pending)
  BY Lists, OnceTail DEF MakeJob
<1>1. PICK k : r = Head(pending) /\ k = make_job(r, Last(freeSlots))
  BY <1>0
<1>2. /\ pending # << >> /\ job' = [job EXCEPT ![r] = k] /\ pc = "admit" /\ pc' = "fit"
      /\ UNCHANGED <<shared, pending, active, sampling, grewShort, failures>>
  BY <1>1 DEF MakeJob
<1> USE DEF shared
<1>3. /\ job' = [q \in Req |-> job'[q]] /\ job'[r] = k /\ \A q \in Req : q # r => job'[q] = job[q]
  BY <1>1, <1>2, JobReplaced
<1>4. Sound(k) /\ ~k.notified /\ k.reason \in {"unset", "context_overflow"}
  BY <1>1, MakeJobSound
<1>5. r \in ToSet(pending) /\ r \notin ToSet(active) /\ ~job[r].notified
  <2>1. r \in ToSet(pending)
    BY <1>1, <1>2, Lists, OnceTail
  <2> QED
    BY <1>1, <2>1 DEF IInv, Placed, JobsOK, JobOK
<1>6. Types'
  BY <1>2, <1>3 DEF IInv, Types, SharedTypeOK, Place
<1>7. Placed' /\ Accepted'
  BY <1>2 DEF IInv, Placed, Waiting, Accepted
<1>8. JobsOK'
  <2> SUFFICES ASSUME NEW q \in Req PROVE JobOK(q)'
    BY DEF JobsOK
  <2>1. CASE q = r
    BY <1>2, <1>3, <1>4, <2>1 DEF JobOK
  <2>2. CASE q # r
    BY <1>2, <1>3, <2>2 DEF IInv, JobsOK, JobOK
  <2> QED
    BY <2>1, <2>2
<1>9. Told'
  BY <1>2, <1>3, <1>4, <1>5 DEF IInv, Told
<1>10. Sampled' /\ Short' /\ Trying'
  BY <1>2, Idle, Unsampled DEF Trying
<1> QED
  BY <1>6, <1>7, <1>8, <1>9, <1>10 DEF IInv

(* What admission does to a job is no end of it. *)
LEMMA AdmittedSound ==
  ASSUME NEW r \in Req, Sound(job[r])
  PROVE  Sound(Admitted(r).job) /\ SameEnd(Admitted(r).job, job[r])
<1>1. PICK j : j = job[r]
  OBVIOUS
<1>2. \E n, t : \/ Admitted(r).job = [adopt_cached_prefix(r, j, n) EXCEPT !.table = t]
                \/ Admitted(r).job = [j EXCEPT !.table = t]
  BY <1>1 DEF Admitted
<1>3. PICK n, t : \/ Admitted(r).job = [adopt_cached_prefix(r, j, n) EXCEPT !.table = t]
                  \/ Admitted(r).job = [j EXCEPT !.table = t]
  BY <1>2
<1>4. CASE Admitted(r).job = [j EXCEPT !.table = t]
  BY <1>1, <1>4, ProgressSound
<1>5. CASE Admitted(r).job = [adopt_cached_prefix(r, j, n) EXCEPT !.table = t]
  <2>1. PICK a : a = adopt_cached_prefix(r, j, n)
    OBVIOUS
  <2>2. Sound(a) /\ SameEnd(a, j)
    BY <1>1, <2>1, ProgressSound
  <2>3. Sound([a EXCEPT !.table = t]) /\ SameEnd([a EXCEPT !.table = t], a)
    BY <2>2, ProgressSound
  <2> QED
    BY <1>1, <1>5, <2>1, <2>2, <2>3 DEF SameEnd
<1> QED
  BY <1>3, <1>4, <1>5

(* The head of pending joins the batch. *)
LEMMA AdmitStep ==
  ASSUME IInv, Admit
  PROVE  IInv'
<1>0. pc = "fit" /\ pending # << >>
  BY DEF Admit, IInv, Trying
<1>1. PICK r \in Req : r = Head(pending)
  BY <1>0, Lists, OnceTail
<1>2. PICK k : k = IF job[r].finished THEN job[r] ELSE Admitted(r).job
  OBVIOUS
<1>3. /\ job' = [job EXCEPT ![r] = k] /\ active' = Append(active, r) /\ pending' = Tail(pending)
      /\ pc' = "admit" /\ UNCHANGED <<shared, sampling, grewShort, failures>>
  BY <1>1, <1>2 DEF Admit
<1> USE DEF shared
<1>4. /\ pending' \in Seq(Req) /\ IsInjective(pending') /\ r \in ToSet(pending)
      /\ ToSet(pending') = ToSet(pending) \ {r}
  BY <1>0, <1>1, <1>3, Lists, OnceTail
<1>5. r \notin ToSet(active)
  BY <1>4 DEF IInv, Placed
<1>6. /\ active' \in Seq(Req) /\ IsInjective(active') /\ ToSet(active') = ToSet(active) \cup {r}
  BY <1>3, <1>5, Lists, OnceAppend
<1>7. JobOK(r) /\ Sound(job[r])
  BY DEF IInv, JobsOK, JobOK
<1>8. Sound(k) /\ SameEnd(k, job[r])
  BY <1>2, <1>7, AdmittedSound DEF SameEnd
<1>9. JobsOK'
  BY <1>3, <1>6, <1>7, <1>8, OneJob DEF SameEnd, JobOK
<1>10. /\ job' = [q \in Req |-> job'[q]] /\ job'[r] = k /\ \A q \in Req : q # r => job'[q] = job[q]
  BY <1>3, JobReplaced
<1>11. Types'
  BY <1>3, <1>4, <1>6, <1>10 DEF IInv, Types, SharedTypeOK, Place
<1>12. Placed' /\ Accepted'
  BY <1>3, <1>4, <1>6 DEF IInv, Placed, Waiting, Accepted
<1>13. Told'
  BY <1>3, <1>8, <1>10 DEF IInv, Told, SameEnd
<1>14. Sampled' /\ Short' /\ Trying'
  BY <1>0, <1>3, Idle, Unsampled DEF Trying
<1> QED
  BY <1>9, <1>11, <1>12, <1>13, <1>14 DEF IInv

(* The head of pending is answered without a batch. *)
LEMMA RejectStep ==
  ASSUME IInv, RejectUnfittable
  PROVE  IInv'
<1>0. pc = "fit" /\ pending # << >>
  BY DEF RejectUnfittable, IInv, Trying
<1>1. PICK r \in Req : r = Head(pending)
  BY <1>0, Lists, OnceTail
<1>2. /\ deliver(r, "context_overflow") /\ told' = [told EXCEPT ![r] = told[r] + 1]
      /\ job' = [job EXCEPT ![r] = NoJob] /\ pending' = Tail(pending) /\ pc' = "admit"
      /\ UNCHANGED <<queue, closed, status, cancel, active, sampling, grewShort, failures>>
  BY <1>1 DEF RejectUnfittable
<1>3. /\ pending' \in Seq(Req) /\ IsInjective(pending') /\ r \in ToSet(pending)
      /\ ToSet(pending') = ToSet(pending) \ {r}
  BY <1>0, <1>1, <1>2, Lists, OnceTail
<1>4. r \notin ToSet(active) /\ r \notin ToSet(queue) /\ r \in Waiting
  BY <1>3 DEF IInv, Placed
<1>5. ~job[r].notified /\ told[r] = 0
  <2>1. ~job[r].notified
    BY <1>4 DEF IInv, JobsOK, JobOK
  <2> QED
    BY <1>4, <2>1, Untold
<1>6. /\ result' \in [Req -> (Reason \ {"unset"}) \cup {"none"}]
      /\ result'[r] # "none" /\ \A q \in Req : q # r => result'[q] = result[q]
      /\ Waiting' = Waiting \ {r} /\ Accepted'
  <2>1. "context_overflow" \in Reason /\ "context_overflow" # "unset"
    BY DEF Reason
  <2> QED
    BY <1>2, <1>4, <2>1, Answering
<1>7. /\ told' \in [Req -> Nat] /\ told'[r] = 1 /\ \A q \in Req : q # r => told'[q] = told[q]
  <2>1. told' = [told EXCEPT ![r] = 1]
    BY <1>2, <1>5
  <2> QED
    BY <2>1, Calling
<1>8. JobsOK'
  BY <1>2, NoJobSound, OneJob
<1>9. /\ job' = [q \in Req |-> job'[q]] /\ job'[r] = NoJob /\ \A q \in Req : q # r => job'[q] = job[q]
  BY <1>2, JobReplaced
<1>10. Types'
  BY <1>2, <1>3, <1>6, <1>7, <1>9 DEF IInv, Types, SharedTypeOK, Place
<1>11. Placed'
  BY <1>2, <1>3, <1>4, <1>6 DEF IInv, Placed
<1>12. Told'
  <2> SUFFICES ASSUME NEW q \in Req
               PROVE  told'[q] = IF result'[q] # "none" \/ job'[q].notified THEN 1 ELSE 0
    BY DEF Told
  <2>1. CASE q = r
    BY <1>6, <1>7, <2>1
  <2>2. CASE q # r
    BY <1>6, <1>7, <1>9, <2>2 DEF IInv, Told
  <2> QED
    BY <2>1, <2>2
<1>13. Sampled' /\ Short' /\ Trying'
  BY <1>0, <1>2, Idle, Unsampled DEF Trying
<1> QED
  BY <1>6, <1>8, <1>10, <1>11, <1>12, <1>13 DEF IInv

(* The head of pending waits where it is. *)
LEMMA DeferStep ==
  ASSUME IInv, Defer
  PROVE  IInv'
<1>0. pc = "fit" /\ pending # << >>
  BY DEF Defer, IInv, Trying
<1>1. PICK r \in Req : r = Head(pending)
  BY <1>0, Lists, OnceTail
<1>2. /\ job' = [job EXCEPT ![r] = NoJob] /\ pc' = "build"
      /\ UNCHANGED <<shared, pending, active, sampling, grewShort, failures>>
  BY <1>1 DEF Defer
<1> USE DEF shared
<1>3. r \in ToSet(pending) /\ r \notin ToSet(active) /\ ~job[r].notified
  <2>1. r \in ToSet(pending)
    BY <1>0, <1>1, Lists, OnceTail
  <2> QED
    BY <2>1 DEF IInv, Placed, JobsOK, JobOK
<1>4. JobsOK'
  BY <1>2, NoJobSound, OneJob
<1>5. /\ job' = [q \in Req |-> job'[q]] /\ job'[r] = NoJob /\ \A q \in Req : q # r => job'[q] = job[q]
  BY <1>2, JobReplaced
<1>6. Types'
  BY <1>2, <1>5 DEF IInv, Types, SharedTypeOK, Place
<1>7. Placed' /\ Accepted'
  BY <1>2 DEF IInv, Placed, Waiting, Accepted
<1>8. Told'
  BY <1>2, <1>3, <1>5, NoJobSound DEF IInv, Told
<1>9. Sampled' /\ Short' /\ Trying'
  BY <1>0, <1>2, Idle, Unsampled DEF Trying
<1> QED
  BY <1>4, <1>6, <1>7, <1>8, <1>9 DEF IInv
=============================================================================
