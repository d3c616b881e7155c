---------------------------- MODULE StaticProofs ----------------------------
(***************************************************************************)
(* Static batching answers every request it takes exactly once, for every  *)
(* set of requests, every pool, batch and queue size, every n_batch and    *)
(* every number of backend failures.                                       *)
(***************************************************************************)
EXTENDS StaticScheduler, JobsProofs

Place == {"take", "admit", "pass", "accept", "deliver", "done"}

(* The types of what the argument is about. *)
Types ==
  /\ SharedTypeOK
  /\ pc \in Place
  /\ batch \in Seq(Req) /\ sampling \in Seq(Req)
  /\ job = [r \in Req |-> job[r]]
  /\ failures \in Nat
  /\ pc \in {"take", "admit", "deliver"} => cursor \in Nat \ {0}
  /\ pc = "take" => cursor = 1

(* The members of the batch that deliver() has not reached. *)
Open == {batch[i] : i \in {i \in 1..Len(batch) : pc = "deliver" => cursor <= i}}

(* The queue and the batch are apart, and what is still open in them are   *)
(* the waiting requests.                                                   *)
Placed ==
  /\ IsInjective(queue) /\ IsInjective(batch)
  /\ ToSet(queue) \cap ToSet(batch) = {}
  /\ ToSet(queue) \cup Open = Waiting
  /\ \A r \in ToSet(batch) : status[r] = "accepted"

(* Every job is sound, was told only in the batch, and has a reason that   *)
(* its client or the backend gave.                                         *)
JobOK(r) ==
  /\ Sound(job[r])
  /\ r \notin ToSet(batch) \/ pc \in {"take", "admit"} => ~job[r].notified
  /\ r \in ToSet(batch) /\ pc = "deliver" => job[r].finished
  /\ job[r].reason = "cancelled" => r \in cancel
  /\ job[r].reason = "error" => failures > 0

JobsOK == \A r \in Req : JobOK(r)

(* The terminal calls, counted. *)
Told == \A r \in Req : told[r] = IF result[r] # "none" \/ job[r].notified THEN 1 ELSE 0

(* What is still to be accepted in this pass is running. *)
Sampled ==
  /\ IsInjective(sampling)
  /\ \A r \in ToSet(sampling) : r \in ToSet(batch) /\ ~job[r].finished
  /\ pc # "accept" => sampling = << >>

IInv == Types /\ Placed /\ Accepted /\ JobsOK /\ Told /\ Sampled
-----------------------------------------------------------------------------
(* The lists, as lists, and their members. *)
LEMMA Lists ==
  ASSUME IInv
  PROVE  /\ queue \in Seq(Req) /\ batch \in Seq(Req) /\ sampling \in Seq(Req)
         /\ IsInjective(queue) /\ IsInjective(batch) /\ IsInjective(sampling)
         /\ DOMAIN batch = 1..Len(batch) /\ Len(batch) \in Nat
         /\ \A i \in 1..Len(batch) : batch[i] \in ToSet(batch) /\ batch[i] \in Req
         /\ ToSet(batch) \subseteq Req /\ ToSet(queue) \subseteq Req
<1>1. /\ queue \in Seq(Req) /\ batch \in Seq(Req) /\ sampling \in Seq(Req)
      /\ IsInjective(queue) /\ IsInjective(batch) /\ IsInjective(sampling)
  BY DEF IInv, Types, SharedTypeOK, Placed, Sampled
<1>2. DOMAIN batch = 1..Len(batch) /\ Len(batch) \in Nat
  BY <1>1
<1>3. /\ \A i \in 1..Len(batch) : batch[i] \in ToSet(batch) /\ batch[i] \in Req
      /\ ToSet(batch) \subseteq Req
  BY <1>1, <1>2 DEF ToSet
<1>4. ToSet(queue) \subseteq Req
  BY <1>1 DEF ToSet
<1> QED
  BY <1>1, <1>2, <1>3, <1>4

(* Outside of the delivery the whole batch is open. *)
LEMMA AllOpen ==
  ASSUME batch \in Seq(Req), pc # "deliver"
  PROVE  Open = ToSet(batch)
BY DEF Open, ToSet

(* What is open is waiting. *)
LEMMA OpenWaits ==
  ASSUME IInv
  PROVE  /\ Open \subseteq Waiting /\ Waiting \subseteq Req /\ Open \cap ToSet(queue) = {}
         /\ pc # "deliver" => ToSet(batch) = Open
<1>1. Open \subseteq ToSet(batch)
  BY Lists DEF Open
<1>2. pc # "deliver" => ToSet(batch) = Open
  BY AllOpen, Lists
<1> QED
  BY <1>1, <1>2 DEF IInv, Placed, Waiting

(* Where the pass samples nothing. *)
LEMMA Idle ==
  ASSUME IInv, pc # "accept"
  PROVE  sampling = << >> /\ (UNCHANGED sampling => Sampled')
<1>1. sampling = << >>
  BY DEF IInv, Sampled
<1>2. IsInjective(<< >>)
  BY DEF IsInjective
<1>3. ToSet(<< >>) = {}
  BY DEF ToSet
<1> QED
  BY <1>1, <1>2, <1>3 DEF Sampled

(* The initial state satisfies the inductive invariant. *)
LEMMA InitIInv == Init => IInv
<1> SUFFICES ASSUME Init PROVE IInv
  OBVIOUS
<1> USE DEF Init, NoClients
<1>1. ToSet(<< >>) = {} /\ IsInjective(<< >>) /\ << >> \in Seq(Req)
  BY DEF ToSet, IsInjective
<1>2. Types
  <2>1. Len(queue) <= QueueDepth
    <3> Len(<< >>) = 0 /\ 0 <= QueueDepth
      BY QueueAssumption
    <3> QED
      OBVIOUS
  <2>2. SharedTypeOK
    <3>1. closed \in BOOLEAN /\ cancel \subseteq Req /\ queue \in Seq(Req)
      BY <1>1
    <3>2. status \in [Req -> {"new", "refused", "accepted"}]
      OBVIOUS
    <3>3. result \in [Req -> (Reason \ {"unset"}) \cup {"none"}]
      OBVIOUS
    <3>4. told \in [Req -> Nat]
      OBVIOUS
    <3> QED
      BY <2>1, <3>1, <3>2, <3>3, <3>4 DEF SharedTypeOK
  <2>3. pc \in Place /\ failures \in Nat /\ job = [r \in Req |-> job[r]] /\ cursor \in Nat \ {0}
    BY DEF Place
  <2> QED
    BY <1>1, <2>2, <2>3 DEF Types
<1>3. Placed
  <2>1. Open = {}
    BY <1>1, AllOpen
  <2> QED
    BY <1>1, <2>1 DEF Placed, Waiting
<1>4. JobsOK
  BY NoJobSound DEF JobsOK, JobOK
<1>5. Told
  BY NoJobSound DEF Told
<1>6. Accepted /\ Sampled
  BY <1>1 DEF Accepted, Sampled
<1> QED
  BY <1>2, <1>3, <1>4, <1>5, <1>6 DEF IInv

(* A step that moves no request and changes no job. *)
LEMMA QuietStep ==
  ASSUME IInv, UNCHANGED <<shared, batch, job, sampling, failures>>,
         pc' \in Place, pc' # "accept" => sampling = << >>,
         pc' \in {"take", "admit"} => pc \in {"take", "admit"},
         pc = "deliver" => pc' = "deliver" /\ UNCHANGED cursor,
         pc' = "deliver" => pc = "deliver" \/ (cursor' = 1 /\ \A r \in ToSet(batch) : job[r].finished),
         pc' \in {"take", "admit", "deliver"} => cursor' \in Nat \ {0},
         pc' = "take" => cursor' = 1
  PROVE  IInv'
<1>1. Types'
  BY DEF IInv, Types, SharedTypeOK, shared
<1>2. Open' = Open
  <2>1. CASE pc = "deliver"
    BY <2>1 DEF Open
  <2>2. CASE pc # "deliver" /\ pc' # "deliver"
    BY <2>2 DEF Open
  <2>3. CASE pc # "deliver" /\ pc' = "deliver"
    BY <2>3, Lists DEF Open
  <2> QED
    BY <2>1, <2>2, <2>3
<1>3. Waiting' = Waiting /\ Accepted'
  BY DEF IInv, Waiting, Accepted, shared
<1>4. Placed'
  BY <1>2, <1>3 DEF IInv, Placed, shared
<1>5. JobsOK'
  <2> SUFFICES ASSUME NEW r \in Req PROVE JobOK(r)'
    BY DEF JobsOK
  <2>1. JobOK(r)
    BY DEF IInv, JobsOK
  <2> QED
    BY <2>1 DEF JobOK, shared
<1>6. Told' /\ Sampled'
  BY DEF IInv, Told, Sampled, shared
<1> QED
  BY <1>1, <1>3, <1>4, <1>5, <1>6 DEF IInv

-----------------------------------------------------------------------------
(* try_push() refuses, or adds to the queue. *)
LEMMA SubmitStep ==
  ASSUME IInv, NEW r \in Req, Submit(r)
  PROVE  IInv'
<1>0. UNCHANGED <<closed, cancel, result, told, private>> /\ status[r] = "new"
  BY DEF Submit, try_push
<1> USE DEF private
<1>1. r \notin Waiting /\ r \notin ToSet(queue) /\ r \notin ToSet(batch) /\ result[r] = "none"
  BY <1>0 DEF IInv, Placed, Accepted, Waiting
<1>2. status \in [Req -> {"new", "refused", "accepted"}] /\ Open' = Open
  BY <1>0 DEF IInv, Types, SharedTypeOK, Open
<1>3. JobsOK' /\ Told' /\ Sampled'
  BY <1>0 DEF IInv, JobsOK, JobOK, Told, Sampled
<1>4. CASE closed \/ Full
  <2>1. status' = [status EXCEPT ![r] = "refused"] /\ UNCHANGED queue
    BY <1>4 DEF Submit, try_push
  <2>2. Types'
    BY <1>0, <2>1 DEF IInv, Types, SharedTypeOK
  <2>3. Waiting' = Waiting /\ Accepted'
    BY <1>0, <1>1, <1>2, <2>1 DEF IInv, Accepted, Waiting
  <2>4. \A q \in ToSet(batch) : status'[q] = "accepted"
    BY <1>1, <1>2, <2>1, Lists DEF IInv, Placed
  <2>5. Placed'
    BY <1>0, <1>2, <2>1, <2>3, <2>4 DEF IInv, Placed
  <2> QED
    BY <1>3, <2>2, <2>3, <2>5 DEF IInv
<1>5. CASE ~(closed \/ Full)
  <2>1. status' = [status EXCEPT ![r] = "accepted"] /\ queue' = Append(queue, r)
    BY <1>5 DEF Submit, try_push
  <2>2. Len(queue) \in Nat /\ Len(queue) < QueueDepth
    BY <1>5, Lists, QueueAssumption DEF Full
  <2>3. /\ queue' \in Seq(Req) /\ IsInjective(queue') /\ ToSet(queue') = ToSet(queue) \cup {r}
        /\ Len(queue') = Len(queue) + 1
    BY <1>1, <2>1, Lists, OnceAppend
  <2>4. Types'
    <3>1. Len(queue') <= QueueDepth
      BY <2>2, <2>3, QueueAssumption
    <3>2. status' \in [Req -> {"new", "refused", "accepted"}]
      BY <1>2, <2>1
    <3>3. SharedTypeOK'
      BY <1>0, <2>3, <3>1, <3>2 DEF IInv, Types, SharedTypeOK
    <3> QED
      BY <1>0, <3>3 DEF IInv, Types
  <2>5. Waiting' = Waiting \cup {r} /\ Accepted'
    BY <1>0, <1>1, <1>2, <2>1 DEF IInv, Accepted, Waiting
  <2>6. \A q \in ToSet(batch) : status'[q] = "accepted"
    BY <1>1, <1>2, <2>1, Lists DEF IInv, Placed
  <2>7. Placed'
    BY <1>0, <1>1, <1>2, <2>3, <2>5, <2>6 DEF IInv, Placed
  <2> QED
    BY <1>3, <2>4, <2>5, <2>7 DEF IInv
<1> QED
  BY <1>4, <1>5

(* A client gives up, or the queue is closed. *)
LEMMA SignalStep ==
  ASSUME IInv, Close \/ \E r \in Req : Cancel(r)
  PROVE  IInv'
<1>1. /\ UNCHANGED <<queue, status, result, told, private>>
      /\ closed' \in BOOLEAN /\ cancel' \subseteq Req /\ cancel \subseteq cancel'
  BY DEF Cancel, raise_cancel, Close, close, IInv, Types, SharedTypeOK
<1> USE DEF private
<1>2. Types'
  BY <1>1 DEF IInv, Types, SharedTypeOK
<1>3. Open' = Open /\ Waiting' = Waiting /\ Accepted'
  BY <1>1 DEF IInv, Open, Waiting, Accepted
<1>4. Placed'
  BY <1>1, <1>3 DEF IInv, Placed
<1>5. JobsOK' /\ Told' /\ Sampled'
  BY <1>1 DEF IInv, JobsOK, JobOK, Told, Sampled
<1> QED
  BY <1>2, <1>3, <1>4, <1>5 DEF IInv

(* A request goes from the queue to the batch. *)
LEMMA TakeOneStep ==
  ASSUME IInv, TakeOne
  PROVE  IInv'
<1>1. /\ pc = "take" /\ queue # << >> /\ queue' = Tail(queue) /\ batch' = Append(batch, Head(queue))
      /\ UNCHANGED <<closed, status, cancel, result, told, pc, cursor, job, sampling, failures>>
  BY DEF TakeOne, pop
<1>2. /\ queue' \in Seq(Req) /\ IsInjective(queue') /\ ToSet(queue') = ToSet(queue) \ {Head(queue)}
      /\ Head(queue) \in ToSet(queue) /\ Head(queue) \in Req
  BY <1>1, Lists, OnceTail
<1>3. Head(queue) \notin ToSet(batch) /\ Head(queue) \in Waiting
  BY <1>2 DEF IInv, Placed
<1>4. /\ batch' \in Seq(Req) /\ IsInjective(batch')
      /\ ToSet(batch') = ToSet(batch) \cup {Head(queue)}
  BY <1>1, <1>2, <1>3, Lists, OnceAppend
<1>5. Len(queue') <= QueueDepth
  <2> Len(queue') = Len(queue) - 1 /\ Len(queue) \in Nat /\ Len(queue) <= QueueDepth
    BY <1>1, Lists DEF IInv, Types, SharedTypeOK
  <2> QED
    BY QueueAssumption
<1>6. Types'
  BY <1>1, <1>2, <1>4, <1>5 DEF IInv, Types, SharedTypeOK
<1>7. Open = ToSet(batch) /\ Open' = ToSet(batch')
  <2>1. Open = ToSet(batch)
    BY <1>1, OpenWaits
  <2>2. Open' = ToSet(batch')
    <3>1. DOMAIN batch' = 1..Len(batch') /\ pc' # "deliver"
      BY <1>1, <1>4
    <3> QED
      BY <3>1 DEF Open, ToSet
  <2> QED
    BY <2>1, <2>2
<1>8. Waiting' = Waiting /\ Accepted'
  BY <1>1 DEF IInv, Waiting, Accepted
<1>9. Placed'
  BY <1>1, <1>2, <1>3, <1>4, <1>7, <1>8 DEF IInv, Placed, Waiting
<1>10. JobsOK' /\ Told'
  BY <1>1, <1>4 DEF IInv, JobsOK, JobOK, Told
<1>11. Sampled'
  BY <1>1, Idle
<1> QED
  BY <1>6, <1>8, <1>9, <1>10, <1>11 DEF IInv

(* One job is replaced. *)
LEMMA JobReplaced ==
  ASSUME IInv, NEW r \in Req, NEW k, job' = [job EXCEPT ![r] = k]
  PROVE  /\ job' = [q \in Req |-> job'[q]] /\ job'[r] = k
         /\ \A q \in Req : q # r => job'[q] = job[q]
BY DEF IInv, Types

(* The other jobs stay as sound as they are. *)
LEMMA OneJob ==
  ASSUME IInv, NEW r \in Req, r \in ToSet(batch), NEW k, Sound(k), job' = [job EXCEPT ![r] = k],
         pc \in {"take", "admit"} => ~k.notified,
         pc = "deliver" => k.finished,
         k.reason = "cancelled" => r \in cancel,
         k.reason = "error" => failures > 0,
         UNCHANGED <<pc, batch, cancel, failures>>
  PROVE  JobsOK'
<1>1. /\ job' = [q \in Req |-> job'[q]] /\ job'[r] = k /\ \A q \in Req : q # r => job'[q] = job[q]
  BY JobReplaced
<1> SUFFICES ASSUME NEW q \in Req PROVE JobOK(q)'
  BY DEF JobsOK
<1>2. CASE q = r
  BY <1>1, <1>2 DEF JobOK
<1>3. CASE q # r
  BY <1>1, <1>3 DEF IInv, JobsOK, JobOK
<1> QED
  BY <1>2, <1>3

(* What moves no request out of the queue or the batch, and delivers none. *)
LEMMA StaysPlaced ==
  ASSUME IInv, UNCHANGED <<queue, batch, status, result>>,
         pc # "deliver", pc' = "deliver" => cursor' = 1
  PROVE  Placed' /\ Accepted'
<1>1. Open' = Open
  <2>1. CASE pc' = "deliver"
    BY <2>1, Lists DEF Open
  <2>2. CASE pc' # "deliver"
    BY <2>2 DEF Open
  <2> QED
    BY <2>1, <2>2
<1>2. Waiting' = Waiting /\ Accepted'
  BY DEF IInv, Waiting, Accepted
<1> QED
  BY <1>1, <1>2 DEF IInv, Placed

(* A member of the batch gets its job, and its blocks or a rejection. *)
LEMMA AdmitOneStep ==
  ASSUME IInv, AdmitOne
  PROVE  IInv'
<1>0. /\ pc = "admit" /\ cursor <= Len(batch) /\ cursor' = cursor + 1 /\ cursor \in Nat \ {0}
      /\ UNCHANGED <<shared, pc, batch, sampling, failures>>
  BY DEF AdmitOne, IInv, Types
<1> USE DEF shared
<1>1. PICK r : r = batch[cursor]
  OBVIOUS
<1>2. r \in Req /\ r \in ToSet(batch)
  <2>1. cursor \in 1..Len(batch)
    BY <1>0, Lists
  <2> QED
    BY <1>1, <2>1, Lists
<1>3. PICK j : j = make_job(r, cursor - 1)
  OBVIOUS
<1>4. Sound(j) /\ ~j.notified /\ j.reason \in {"unset", "context_overflow"}
  BY <1>3, MakeJobSound
<1>5. \/ job' = [job EXCEPT ![r] = j]
      \/ job' = [job EXCEPT ![r] = fail(j, "context_overflow")]
      \/ \E t : job' = [job EXCEPT ![r] = [j EXCEPT !.table = t]]
  BY <1>1, <1>3 DEF AdmitOne
<1>6. PICK k : /\ job' = [job EXCEPT ![r] = k] /\ Sound(k) /\ ~k.notified
               /\ k.reason \in {"unset", "context_overflow"}
  <2>1. CASE job' = [job EXCEPT ![r] = j]
    BY <1>4, <2>1
  <2>2. CASE job' = [job EXCEPT ![r] = fail(j, "context_overflow")]
    <3>1. "context_overflow" \in Reason /\ "context_overflow" # "unset"
      BY DEF Reason
    <3>2. /\ Sound(fail(j, "context_overflow")) /\ ~fail(j, "context_overflow").notified
          /\ fail(j, "context_overflow").reason \in {"unset", "context_overflow"}
      BY <1>4, <3>1, FailSound
    <3> QED
      BY <2>2, <3>2
  <2>3. ASSUME NEW t, job' = [job EXCEPT ![r] = [j EXCEPT !.table = t]]
        PROVE  \E k : /\ job' = [job EXCEPT ![r] = k] /\ Sound(k) /\ ~k.notified
                      /\ k.reason \in {"unset", "context_overflow"}
    <3>1. Sound([j EXCEPT !.table = t]) /\ SameEnd([j EXCEPT !.table = t], j)
      BY <1>4, ProgressSound
    <3> QED
      BY <1>4, <2>3, <3>1 DEF SameEnd
  <2> QED
    BY <1>5, <2>1, <2>2, <2>3
<1>7. /\ job' = [q \in Req |-> job'[q]] /\ job'[r] = k /\ \A q \in Req : q # r => job'[q] = job[q]
  BY <1>2, <1>6, JobReplaced
<1>8. JobsOK'
  BY <1>0, <1>2, <1>6, OneJob
<1>9. ~job[r].notified
  BY <1>0, <1>2 DEF IInv, JobsOK, JobOK
<1>10. Told'
  BY <1>0, <1>6, <1>7, <1>9 DEF IInv, Told
<1>11. Types'
  BY <1>0, <1>7 DEF IInv, Types, SharedTypeOK
<1>12. Placed' /\ Accepted'
  BY <1>0, StaysPlaced
<1>13. Sampled'
  BY <1>0, Idle
<1> QED
  BY <1>8, <1>10, <1>11, <1>12, <1>13 DEF IInv

(* prefill_item() is no end of a job. *)
LEMMA FedSound ==
  ASSUME NEW r \in Req, Sound(job[r])
  PROVE  Sound(Fed[r]) /\ SameEnd(Fed[r], job[r])
<1>1. PICK j, n : j = job[r] /\ n = PromptLen(r)
  OBVIOUS
<1>2. Sound(take_prefill_chunk(j, n)) /\ SameEnd(take_prefill_chunk(j, n), j)
  BY <1>1, ProgressSound
<1>3. Fed[r] = take_prefill_chunk(j, n) \/ Fed[r] = j
  BY <1>1 DEF Fed
<1> QED
  BY <1>1, <1>2, <1>3 DEF SameEnd

(* A forward pass: who is sampled is running, and sampled once. *)
LEMMA PassStep ==
  ASSUME IInv, Pass
  PROVE  IInv'
<1>1. /\ pc = "pass" /\ pc' = "accept" /\ job' = Fed /\ sampling' \in InOrder(batch, Plan.items)
      /\ UNCHANGED <<shared, batch, failures>>
  BY DEF Pass
<1> USE DEF shared
<1>2. PICK items : items = Plan.items
  OBVIOUS
<1>3. items \in SUBSET (1..Len(batch)) /\ \A i \in items : ~job[batch[i]].finished
  BY <1>2 DEF Plan, Slice, Running
<1>4. PICK s \in InOrder(batch, items) : s = sampling'
  BY <1>1, <1>2
<1>5. s \in Seq(Req) /\ IsInjective(s) /\ ToSet(s) \subseteq {batch[i] : i \in items}
  BY <1>3, <1>4, Lists, InOrderOnce
<1>6. \A r \in Req : Sound(job'[r]) /\ SameEnd(job'[r], job[r])
  BY <1>1, FedSound DEF IInv, JobsOK, JobOK
<1>7. job' = [r \in Req |-> job'[r]]
  BY <1>1 DEF Fed
<1>8. JobsOK' /\ Told'
  BY <1>1, <1>6 DEF IInv, JobsOK, JobOK, Told, SameEnd
<1>9. Types'
  BY <1>1, <1>4, <1>5, <1>7 DEF IInv, Types, SharedTypeOK, Place
<1>10. Placed' /\ Accepted'
  BY <1>1, StaysPlaced
<1>11. Sampled'
  <2>1. \A r \in ToSet(s) : r \in ToSet(batch) /\ ~job'[r].finished
    <3> TAKE r \in ToSet(s)
    <3>1. PICK i \in items : r = batch[i]
      BY <1>5
    <3>2. r \in ToSet(batch) /\ r \in Req /\ ~job[r].finished
      BY <1>3, <3>1, Lists
    <3> QED
      BY <1>6, <3>2 DEF SameEnd
  <2> QED
    BY <1>1, <1>4, <1>5, <2>1 DEF Sampled
<1> QED
  BY <1>8, <1>9, <1>10, <1>11 DEF IInv

(* decode() throws: the whole batch ends, and who was not told is told. *)
LEMMA PassFailsStep ==
  ASSUME IInv, PassFails
  PROVE  IInv'
<1>1. /\ pc = "pass" /\ pc' = "deliver" /\ cursor' = 1 /\ failures' = failures + 1
      /\ job' = [r \in Req |-> IF r \in ToSet(batch) THEN finish(fail(Fed[r], "error")) ELSE job[r]]
      /\ told' = [r \in Req |-> IF r \in ToSet(batch) /\ ~job[r].notified THEN told[r] + 1 ELSE told[r]]
      /\ UNCHANGED <<queue, closed, status, cancel, result, batch, sampling>>
  BY DEF PassFails
<1>2. failures \in Nat /\ failures' \in Nat /\ failures' > 0
  BY <1>1 DEF IInv, Types
<1>3. \A r \in ToSet(batch) : /\ Sound(job'[r]) /\ job'[r].finished /\ job'[r].notified
                              /\ job'[r].reason \in {job[r].reason, "error"}
  <2> TAKE r \in ToSet(batch)
  <2>1. r \in Req /\ Sound(job[r])
    BY Lists DEF IInv, JobsOK, JobOK
  <2>2. PICK k, f : k = Fed[r] /\ f = fail(k, "error")
    OBVIOUS
  <2>3. Sound(k) /\ SameEnd(k, job[r])
    BY <2>1, <2>2, FedSound
  <2>4. "error" \in Reason /\ "error" # "unset"
    BY DEF Reason
  <2>5. Sound(f) /\ f.finished /\ f.reason \in {k.reason, "error"}
    BY <2>2, <2>3, <2>4, FailSound
  <2>6. Sound(finish(f)) /\ finish(f).finished /\ finish(f).notified /\ finish(f).reason = f.reason
    BY <2>5, FinishSound
  <2>7. job'[r] = finish(f)
    BY <1>1, <2>1, <2>2
  <2> QED
    BY <2>3, <2>5, <2>6, <2>7 DEF SameEnd
<1>4. \A r \in Req : r \notin ToSet(batch) => job'[r] = job[r] /\ told'[r] = told[r]
  BY <1>1
<1>5. JobsOK'
  <2> SUFFICES ASSUME NEW r \in Req PROVE JobOK(r)'
    BY DEF JobsOK
  <2>1. JobOK(r)
    BY DEF IInv, JobsOK
  <2>2. CASE r \in ToSet(batch)
    BY <1>1, <1>2, <1>3, <2>1, <2>2 DEF JobOK
  <2>3. CASE r \notin ToSet(batch)
    BY <1>1, <1>2, <1>4, <2>1, <2>3 DEF JobOK
  <2> QED
    BY <2>2, <2>3
<1>6. \A r \in ToSet(batch) : told'[r] = 1
  <2> TAKE r \in ToSet(batch)
  <2>1. r \in Req /\ result[r] = "none"
    BY <1>1, OpenWaits DEF Waiting
  <2>2. told[r] = IF job[r].notified THEN 1 ELSE 0
    BY <2>1 DEF IInv, Told
  <2>3. told'[r] = IF job[r].notified THEN told[r] ELSE told[r] + 1
    BY <1>1, <2>1
  <2> QED
    BY <2>2, <2>3
<1>7. Told'
  <2> SUFFICES ASSUME NEW r \in Req
               PROVE  told'[r] = IF result'[r] # "none" \/ job'[r].notified THEN 1 ELSE 0
    BY DEF Told
  <2>1. CASE r \in ToSet(batch)
    BY <1>3, <1>6, <2>1
  <2>2. CASE r \notin ToSet(batch)
    BY <1>1, <1>4, <2>2 DEF IInv, Told
  <2> QED
    BY <2>1, <2>2
<1>8. told' \in [Req -> Nat]
  <2>1. told \in [Req -> Nat]
    BY DEF IInv, Types, SharedTypeOK
  <2> QED
    BY <1>1, <2>1
<1>9. Types'
  BY <1>1, <1>2, <1>8 DEF IInv, Types, SharedTypeOK, Place
<1>10. Placed' /\ Accepted'
  BY <1>1, StaysPlaced
<1>11. Sampled'
  BY <1>1, Idle
<1> QED
  BY <1>5, <1>7, <1>9, <1>10, <1>11 DEF IInv

(* A terminal call is counted. *)
LEMMA Calling ==
  ASSUME IInv, NEW r \in Req, NEW n \in Nat, told' = [told EXCEPT ![r] = n]
  PROVE  /\ told' \in [Req -> Nat] /\ told'[r] = n /\ \A q \in Req : q # r => told'[q] = told[q]
BY DEF IInv, Types, SharedTypeOK

(* A sampled token is accepted, and its sequence ends or goes on. *)
LEMMA AcceptOneStep ==
  ASSUME IInv, NEW outcome \in Outcome, AcceptOne(outcome)
  PROVE  IInv'
<1>0. pc = "accept" /\ sampling # << >>
  BY DEF AcceptOne
<1>1. PICK r \in Req : r = Head(sampling)
  BY <1>0, Lists, OnceTail
<1>2. PICK j : j = accept(r, job[r], outcome, r \in cancel)
  OBVIOUS
<1>3. /\ sampling' = Tail(sampling)
      /\ UNCHANGED <<queue, closed, status, cancel, result, pc, batch, cursor, failures>>
  BY DEF AcceptOne
<1>4. /\ sampling' \in Seq(Req) /\ IsInjective(sampling') /\ r \in ToSet(sampling)
      /\ ToSet(sampling') = ToSet(sampling) \ {r}
  BY <1>0, <1>1, <1>3, Lists, OnceTail
<1>5. r \in ToSet(batch) /\ ~job[r].finished /\ result[r] = "none"
  <2>1. r \in ToSet(batch) /\ ~job[r].finished
    BY <1>4 DEF IInv, Sampled
  <2> QED
    BY <1>0, <2>1, OpenWaits DEF Waiting
<1>6. Sound(job[r]) /\ ~job[r].notified /\ told[r] = 0
  <2>1. Sound(job[r]) /\ ~job[r].notified
    BY <1>5 DEF IInv, JobsOK, JobOK, Sound
  <2> QED
    BY <1>5, <2>1 DEF IInv, Told
<1>7. /\ Sound(j) /\ ~j.notified /\ j.reason \in {"unset", "eos", "max_tokens", "stop", "cancelled"}
      /\ j.reason = "cancelled" => r \in cancel
  <2>1. PICK before, flag : before = job[r] /\ flag = (r \in cancel)
    OBVIOUS
  <2>2. flag \in BOOLEAN
    BY <2>1
  <2>3. j = accept(r, before, outcome, flag)
    BY <1>2, <2>1
  <2> QED
    BY <1>5, <1>6, <2>1, <2>2, <2>3, AcceptSound
<1>8. PICK k : /\ job' = [job EXCEPT ![r] = k] /\ Sound(k) /\ k.reason = j.reason
               /\ \/ k.notified /\ told' = [told EXCEPT ![r] = 1]
                  \/ ~k.notified /\ UNCHANGED told
  <2>1. CASE j.finished
    <3>1. job' = [job EXCEPT ![r] = finish(j)] /\ told' = [told EXCEPT ![r] = told[r] + 1]
      BY <1>1, <1>2, <2>1 DEF AcceptOne
    <3>2. Sound(finish(j)) /\ finish(j).notified /\ finish(j).reason = j.reason
      BY <1>7, <2>1, FinishSound
    <3>3. told' = [told EXCEPT ![r] = 1]
      BY <1>6, <3>1
    <3> QED
      BY <3>1, <3>2, <3>3
  <2>2. CASE ~j.finished
    <3>1. job' = [job EXCEPT ![r] = j] /\ UNCHANGED told
      BY <1>1, <1>2, <2>2 DEF AcceptOne
    <3> QED
      BY <1>7, <3>1
  <2> QED
    BY <2>1, <2>2
<1>9. JobsOK'
  BY <1>0, <1>3, <1>5, <1>7, <1>8, OneJob
<1>10. /\ job' = [q \in Req |-> job'[q]] /\ job'[r] = k /\ \A q \in Req : q # r => job'[q] = job[q]
  BY <1>8, JobReplaced
<1>11. /\ told' \in [Req -> Nat] /\ told'[r] = (IF k.notified THEN 1 ELSE 0)
       /\ \A q \in Req : q # r => told'[q] = told[q]
  <2>1. CASE k.notified
    BY <1>8, <2>1, Calling
  <2>2. CASE ~k.notified
    BY <1>6, <1>8, <2>2 DEF IInv, Types, SharedTypeOK
  <2> QED
    BY <2>1, <2>2
<1>12. Types'
  BY <1>0, <1>3, <1>4, <1>10, <1>11 DEF IInv, Types, SharedTypeOK
<1>13. Placed' /\ Accepted'
  BY <1>0, <1>3, StaysPlaced
<1>14. Told'
  <2> SUFFICES ASSUME NEW q \in Req
               PROVE  told'[q] = IF result'[q] # "none" \/ job'[q].notified THEN 1 ELSE 0
    BY DEF Told
  <2>1. CASE q = r
    BY <1>3, <1>5, <1>10, <1>11, <2>1
  <2>2. CASE q # r
    BY <1>3, <1>10, <1>11, <2>2 DEF IInv, Told
  <2> QED
    BY <2>1, <2>2
<1>15. Sampled'
  <2>1. \A q \in ToSet(sampling') : q \in ToSet(batch) /\ ~job'[q].finished
    BY <1>4, <1>10, Lists DEF IInv, Sampled
  <2> QED
    BY <1>0, <1>3, <1>4, <2>1 DEF Sampled
<1> QED
  BY <1>9, <1>12, <1>13, <1>14, <1>15 DEF IInv

(* The next member of the batch is told, unless it was, and answered. *)
LEMMA DeliverOneStep ==
  ASSUME IInv, DeliverOne
  PROVE  IInv' /\ \E r \in Req : r \in Waiting /\ job[r].finished /\ deliver(r, job[r].reason)
<1>0. /\ pc = "deliver" /\ cursor <= Len(batch) /\ cursor' = cursor + 1 /\ cursor \in Nat \ {0}
      /\ UNCHANGED <<queue, closed, status, cancel, pc, batch, sampling, failures>>
  BY DEF DeliverOne, IInv, Types
<1>1. PICK r : r = batch[cursor]
  OBVIOUS
<1>2. r \in Req /\ r \in ToSet(batch) /\ cursor \in 1..Len(batch) /\ r \in Open
  <2>1. cursor \in 1..Len(batch)
    BY <1>0, Lists
  <2> QED
    BY <1>0, <1>1, <2>1, Lists DEF Open
<1>3. /\ told' = [told EXCEPT ![r] = IF job[r].notified THEN told[r] ELSE told[r] + 1]
      /\ job' = [job EXCEPT ![r] = [finish(job[r]) EXCEPT !.table = NewTable]]
      /\ deliver(r, job[r].reason)
  BY <1>1 DEF DeliverOne
<1>4. JobOK(r) /\ Sound(job[r]) /\ job[r].finished /\ r \in Waiting
  BY <1>0, <1>2, OpenWaits DEF IInv, JobsOK, JobOK
<1>5. PICK why \in Reason : why = job[r].reason /\ why # "unset"
  BY <1>4 DEF Sound
<1>6. /\ result' \in [Req -> (Reason \ {"unset"}) \cup {"none"}] /\ result[r] = "none"
      /\ result'[r] # "none" /\ \A q \in Req : q # r => result'[q] = result[q]
      /\ Waiting' = Waiting \ {r} /\ Accepted'
  <2>1. deliver(r, why) /\ UNCHANGED status /\ SharedTypeOK /\ Accepted
    BY <1>0, <1>3, <1>5 DEF IInv, Types
  <2> QED
    BY <1>2, <1>4, <1>5, <2>1, Delivered
<1>7. /\ told' \in [Req -> Nat] /\ told'[r] = 1 /\ \A q \in Req : q # r => told'[q] = told[q]
  <2>1. told[r] = IF job[r].notified THEN 1 ELSE 0
    BY <1>2, <1>6 DEF IInv, Told
  <2>2. (IF job[r].notified THEN told[r] ELSE told[r] + 1) = 1
    BY <2>1
  <2>3. told' = [told EXCEPT ![r] = 1]
    BY <1>3, <2>2
  <2> QED
    BY <1>2, <2>3, Calling
<1>8. PICK k : /\ job' = [job EXCEPT ![r] = k] /\ Sound(k) /\ k.finished /\ k.reason = job[r].reason
  <2>1. PICK j, f : j = job[r] /\ f = finish(j)
    OBVIOUS
  <2>2. Sound(f) /\ f.finished /\ f.reason = j.reason
    BY <1>4, <2>1, FinishSound
  <2>3. Sound([f EXCEPT !.table = NewTable]) /\ SameEnd([f EXCEPT !.table = NewTable], f)
    BY <2>2, ProgressSound
  <2>4. job' = [job EXCEPT ![r] = [f EXCEPT !.table = NewTable]]
    BY <1>3, <2>1
  <2> QED
    BY <2>1, <2>2, <2>3, <2>4 DEF SameEnd
<1>9. JobsOK'
  BY <1>0, <1>2, <1>4, <1>8, OneJob DEF JobOK
<1>10. /\ job' = [q \in Req |-> job'[q]] /\ \A q \in Req : q # r => job'[q] = job[q]
  BY <1>2, <1>8, JobReplaced
<1>11. Types'
  <2>1. SharedTypeOK'
    BY <1>0, <1>6, <1>7 DEF IInv, Types, SharedTypeOK
  <2>2. cursor' \in Nat \ {0} /\ pc' # "take"
    BY <1>0
  <2> QED
    BY <1>0, <1>10, <2>1, <2>2 DEF IInv, Types
<1>12. Open' = Open \ {r}
  <2>1. \A i \in 1..Len(batch) : cursor + 1 <= i <=> cursor <= i /\ i # cursor
    BY <1>0
  <2>2. \A i \in 1..Len(batch) : batch[i] = r <=> i = cursor
    BY <1>1, <1>2, Lists DEF IsInjective
  <2>3. Open = {batch[i] : i \in {i \in 1..Len(batch) : cursor <= i}}
    BY <1>0 DEF Open
  <2>4. Open' = {batch[i] : i \in {i \in 1..Len(batch) : cursor + 1 <= i}}
    BY <1>0 DEF Open
  <2> QED
    BY <2>1, <2>2, <2>3, <2>4
<1>13. Placed'
  BY <1>0, <1>2, <1>6, <1>12, OpenWaits DEF IInv, Placed
<1>14. Told'
  <2> SUFFICES ASSUME NEW q \in Req
               PROVE  told'[q] = IF result'[q] # "none" \/ job'[q].notified THEN 1 ELSE 0
    BY DEF Told
  <2>1. CASE q = r
    BY <1>6, <1>7, <2>1
  <2>2. CASE q # r
    BY <1>6, <1>7, <1>10, <2>2 DEF IInv, Told
  <2> QED
    BY <2>1, <2>2
<1>15. Sampled'
  BY <1>0, Idle
<1> QED
  BY <1>2, <1>3, <1>4, <1>6, <1>9, <1>11, <1>13, <1>14, <1>15 DEF IInv

(* The batch is over: all of it was answered. *)
LEMMA DeliverDoneStep ==
  ASSUME IInv, DeliverDone
  PROVE  IInv'
<1>1. /\ pc = "deliver" /\ cursor > Len(batch) /\ pc' = "take" /\ batch' = << >> /\ cursor' = 1
      /\ job' = [r \in Req |-> NoJob] /\ UNCHANGED <<shared, sampling, failures>>
  BY DEF DeliverDone
<1> USE DEF shared
<1>2. ToSet(<< >>) = {} /\ IsInjective(<< >>) /\ << >> \in Seq(Req)
  BY DEF ToSet, IsInjective
<1>3. Open = {}
  <2>1. cursor \in Nat
    BY <1>1 DEF IInv, Types
  <2> QED
    BY <1>1, <2>1, Lists DEF Open
<1>4. \A r \in ToSet(batch) : result[r] # "none"
  BY <1>3, Lists DEF IInv, Placed, Waiting
<1>5. Types'
  BY <1>1, <1>2 DEF IInv, Types, SharedTypeOK, Place
<1>6. Open' = {}
  <2>1. Len(batch') = 0
    BY <1>1
  <2> QED
    BY <2>1 DEF Open
<1>7. Waiting' = Waiting /\ Accepted'
  BY <1>1 DEF IInv, Waiting, Accepted
<1>8. Placed'
  BY <1>1, <1>2, <1>3, <1>6, <1>7 DEF IInv, Placed
<1>9. JobsOK'
  BY <1>1, <1>2, NoJobSound DEF JobsOK, JobOK
<1>10. Told'
  <2> SUFFICES ASSUME NEW r \in Req
               PROVE  told[r] = IF result[r] # "none" THEN 1 ELSE 0
    BY <1>1, NoJobSound DEF Told
  <2>1. CASE r \in ToSet(batch)
    BY <1>4, <2>1 DEF IInv, Told
  <2>2. CASE r \notin ToSet(batch)
    BY <2>2 DEF IInv, Told, JobsOK, JobOK
  <2> QED
    BY <2>1, <2>2
<1>11. Sampled'
  BY <1>1, Idle
<1> QED
  BY <1>5, <1>7, <1>8, <1>9, <1>10, <1>11 DEF IInv

(* Every step preserves the inductive invariant. *)
LEMMA NextIInv == IInv /\ [Next]_vars => IInv'
<1> SUFFICES ASSUME IInv, [Next]_vars PROVE IInv'
  OBVIOUS
<1>1. ASSUME NEW r \in Req, Submit(r) PROVE IInv'
  BY <1>1, SubmitStep
<1>2. ASSUME NEW r \in Req, Cancel(r) PROVE IInv'
  BY <1>2, SignalStep
<1>3. CASE Close
  BY <1>3, SignalStep
<1>4. CASE TakeOne
  BY <1>4, TakeOneStep
<1>5. CASE TakeEnough \/ TakeNothing
  BY <1>5, QuietStep, Idle DEF TakeEnough, TakeNothing, Place, IInv, Types
<1>6. CASE AdmitOne
  BY <1>6, AdmitOneStep
<1>7. CASE AdmitDone
  BY <1>7, QuietStep, Idle DEF AdmitDone, Place
<1>8. CASE Pass
  BY <1>8, PassStep
<1>9. CASE PassFails
  BY <1>9, PassFailsStep
<1>10. CASE PassesOver
  BY <1>10, QuietStep, Idle DEF PassesOver, Running, Place
<1>11. ASSUME NEW outcome \in Outcome, AcceptOne(outcome) PROVE IInv'
  BY <1>11, AcceptOneStep
<1>12. CASE AcceptDone
  BY <1>12, QuietStep DEF AcceptDone, Place
<1>13. CASE DeliverOne
  BY <1>13, DeliverOneStep
<1>14. CASE DeliverDone
  BY <1>14, DeliverDoneStep
<1>15. CASE UNCHANGED vars
  BY <1>15, QuietStep DEF vars, private, IInv, Types, Sampled
<1> QED
  BY <1>1, <1>2, <1>3, <1>4, <1>5, <1>6, <1>7, <1>8, <1>9, <1>10, <1>11, <1>12, <1>13, <1>14,
     <1>15 DEF Next, Run, Stopped

-----------------------------------------------------------------------------
(* Every behaviour of run_static() stays within the inductive invariant,   *)
(* whatever the pool, the clients and the backend do.                      *)
THEOREM StaticInvariant == Spec => []IInv
BY InitIInv, NextIInv, PTL DEF Spec

(* A sink gets exactly one terminal call: of the loop that accepts, of the *)
(* failure of the whole batch, or of the delivery, never of two of them.   *)
THEOREM StaticTellsOnce == Spec => []ToldOnce
<1>1. IInv => ToldOnce
  BY DEF IInv, Told, ToldOnce
<1> QED
  BY <1>1, StaticInvariant, PTL

-----------------------------------------------------------------------------
(* The service with every "context_overflow" allowed: which requests fit is *)
(* about the memory, which this argument leaves open.                       *)
Phase == [r \in Req |-> IF result[r] # "none" THEN "answered" ELSE status[r]]

Lenient == INSTANCE Service WITH
  Oversized <- Req,
  phase     <- Phase,
  answer    <- result,
  cancelled <- cancel,
  broken    <- failures > 0

(* What is in the queue is waiting for an answer. *)
LEMMA QueueWaits ==
  ASSUME IInv
  PROVE  Cardinality(Waiting) \in Nat /\ Len(queue) <= Cardinality(Waiting)
<1>1. /\ IsFiniteSet(ToSet(queue)) /\ Cardinality(ToSet(queue)) = Len(queue)
      /\ IsFiniteSet(ToSet(batch))
  BY Lists, OnceLength
<1>2. IsFiniteSet(Waiting)
  <2>1. IsFiniteSet(ToSet(queue) \cup ToSet(batch))
    BY <1>1, FS_Union
  <2>2. Open \subseteq ToSet(batch)
    BY Lists DEF Open
  <2>3. Waiting \in SUBSET (ToSet(queue) \cup ToSet(batch))
    BY <2>2 DEF IInv, Placed
  <2> QED
    BY <2>1, <2>3, FS_Subset
<1>3. Cardinality(ToSet(queue)) <= Cardinality(Waiting)
  <2>1. ToSet(queue) \in SUBSET Waiting
    BY DEF IInv, Placed
  <2> QED
    BY <1>2, <2>1, FS_Subset
<1>4. Cardinality(Waiting) \in Nat
  BY <1>2, FS_CardinalityType
<1> QED
  BY <1>1, <1>3, <1>4

(* The service counts as the scheduler does. *)
LEMMA SameCount == ASSUME NEW S PROVE Lenient!Cardinality(S) = Cardinality(S)
BY DEF Cardinality, Lenient!Cardinality

(* try_push() accepts or refuses as the service does. *)
LEMMA SubmitMaps ==
  ASSUME IInv, NEW r \in Req, Submit(r)
  PROVE  Lenient!Next
<1>1. status[r] = "new" /\ result[r] = "none" /\ UNCHANGED <<result, cancel, closed, failures>>
  BY DEF Submit, try_push, private, IInv, Accepted
<1>2. status \in [Req -> {"new", "refused", "accepted"}]
  BY DEF IInv, Types, SharedTypeOK
<1>3. UNCHANGED <<result, cancel, closed, failures > 0>>
  BY <1>1
<1>4. CASE closed \/ Full
  <2>1. status' = [status EXCEPT ![r] = "refused"]
    BY <1>4 DEF Submit, try_push
  <2>2. Phase[r] = "new" /\ Phase' = [Phase EXCEPT ![r] = "refused"]
    BY <1>1, <1>2, <2>1 DEF Phase
  <2>3. Lenient!Waiting = Waiting
    BY DEF Lenient!Waiting, Waiting, Phase
  <2>4. Full => Lenient!Cardinality(Lenient!Waiting) >= QueueDepth
    <3>1. Len(queue) \in Nat
      BY Lists
    <3> QED
      BY <2>3, <3>1, QueueWaits, QueueAssumption, SameCount DEF Full
  <2>5. closed \/ Lenient!Cardinality(Lenient!Waiting) >= QueueDepth
    BY <1>4, <2>4
  <2>6. Lenient!Refuse(r)
    BY <1>3, <2>2, <2>5 DEF Lenient!Refuse
  <2> QED
    BY <2>6 DEF Lenient!Next
<1>5. CASE ~(closed \/ Full)
  <2>1. status' = [status EXCEPT ![r] = "accepted"]
    BY <1>5 DEF Submit, try_push
  <2>2. Phase[r] = "new" /\ Phase' = [Phase EXCEPT ![r] = "accepted"]
    BY <1>1, <1>2, <2>1 DEF Phase
  <2>3. Lenient!Accept(r)
    BY <1>3, <1>5, <2>2 DEF Lenient!Accept
  <2> QED
    BY <2>3 DEF Lenient!Next
<1> QED
  BY <1>4, <1>5

(* The delivery answers as the service does. *)
LEMMA DeliverMaps ==
  ASSUME IInv, DeliverOne
  PROVE  Lenient!Next
<1>1. PICK r \in Req : r \in Waiting /\ job[r].finished /\ deliver(r, job[r].reason)
  BY DeliverOneStep
<1>2. UNCHANGED <<status, cancel, closed, failures>>
  BY DEF DeliverOne
<1>3. /\ Sound(job[r]) /\ (job[r].reason = "cancelled" => r \in cancel)
      /\ (job[r].reason = "error" => failures > 0)
  BY DEF IInv, JobsOK, JobOK
<1>4. PICK why \in Reason : why = job[r].reason /\ why # "unset"
  BY <1>1, <1>3 DEF Sound
<1>5. deliver(r, why) /\ SharedTypeOK /\ Accepted
  BY <1>1, <1>4 DEF IInv, Types
<1>6. /\ result'[r] = why /\ why # "none" /\ \A q \in Req : q # r => result'[q] = result[q]
      /\ result[r] = "none" /\ status[r] = "accepted"
  BY <1>1, <1>2, <1>4, <1>5, Delivered DEF Waiting
<1>7. Phase[r] = "accepted" /\ Phase' = [Phase EXCEPT ![r] = "answered"]
  BY <1>2, <1>6 DEF Phase
<1>8. why \in Lenient!Reasons /\ Lenient!Justified(r, why)
  BY <1>3, <1>4 DEF Reason, Lenient!Reasons, Lenient!Justified
<1>9. Lenient!Answer(r, why)
  BY <1>2, <1>5, <1>7, <1>8 DEF Lenient!Answer, deliver
<1> QED
  BY <1>8, <1>9 DEF Lenient!Next

(* Every step is a step of the service, or none. *)
LEMMA StepMaps ==
  ASSUME IInv, [Next]_vars
  PROVE  [Lenient!Next]_(Lenient!svars)
<1>1. ASSUME NEW r \in Req, Submit(r) PROVE Lenient!Next
  BY <1>1, SubmitMaps
<1>2. ASSUME NEW r \in Req, Cancel(r) PROVE Lenient!Next
  <2>1. Phase[r] = "accepted" /\ Phase' = Phase
    BY <1>2 DEF Cancel, raise_cancel, Phase
  <2>2. Lenient!GiveUp(r)
    BY <1>2, <2>1 DEF Cancel, raise_cancel, private, Lenient!GiveUp
  <2> QED
    BY <2>2 DEF Lenient!Next
<1>3. CASE Close
  <2>1. Lenient!Close
    BY <1>3 DEF Close, close, private, Lenient!Close, Phase
  <2> QED
    BY <2>1 DEF Lenient!Next
<1>4. CASE DeliverOne
  BY <1>4, DeliverMaps
<1>5. CASE PassFails
  <2>1. /\ failures \in Nat /\ failures' = failures + 1
        /\ UNCHANGED <<closed, status, cancel, result>>
    BY <1>5 DEF PassFails, IInv, Types
  <2>2. (failures' > 0) = TRUE /\ Phase' = Phase
    BY <2>1 DEF Phase
  <2>3. Lenient!Break
    BY <2>1, <2>2 DEF Lenient!Break
  <2> QED
    BY <2>3 DEF Lenient!Next
<1>6. CASE UNCHANGED <<status, result, cancel, closed, failures>>
  BY <1>6 DEF Lenient!svars, Phase
<1>7. CASE TakeOne \/ TakeEnough \/ TakeNothing \/ AdmitOne \/ AdmitDone
  BY <1>6, <1>7 DEF TakeOne, pop, TakeEnough, TakeNothing, AdmitOne, AdmitDone, shared
<1>8. CASE Pass \/ PassesOver \/ AcceptDone \/ DeliverDone \/ \E outcome \in Outcome : AcceptOne(outcome)
  BY <1>6, <1>8 DEF Pass, PassesOver, AcceptDone, DeliverDone, AcceptOne, shared
<1>9. CASE UNCHANGED vars
  BY <1>6, <1>9 DEF vars, shared, private
<1> QED
  BY <1>1, <1>2, <1>3, <1>4, <1>5, <1>7, <1>8, <1>9 DEF Next, Run, Stopped

(* Static batching implements the service: a request is refused only when  *)
(* QueueDepth requests wait or the queue is closed, an accepted one is     *)
(* answered at most once, with "cancelled" only if its client gave up and  *)
(* with "error" only if a forward pass failed.                             *)
THEOREM StaticServes == Spec => Lenient!Spec
<1>1. Init => Lenient!Init
  BY DEF Init, NoClients, Lenient!Init, Phase
<1>2. IInv /\ [Next]_vars => [Lenient!Next]_(Lenient!svars)
  BY StepMaps
<1> QED
  BY <1>1, <1>2, StaticInvariant, PTL DEF Spec, Lenient!Spec
=============================================================================
