--------------------------- MODULE SchedulerProofs ---------------------------
(***************************************************************************)
(* Continuous batching neither loses a request nor answers one twice, for  *)
(* every set of requests, every pool, batch and queue size, every cache    *)
(* configuration and every number of backend failures.  The steps that     *)
(* resolve cache exhaustion complete the induction.                        *)
(***************************************************************************)
EXTENDS SchedulerPass

(* The next starved sequence: the rest of them. *)
LEMMA NextStarved ==
  ASSUME IInv, pc = "resolve", grewShort # << >>, grewShort' = Tail(grewShort),
         UNCHANGED <<pc, sampling>>
  PROVE  /\ grewShort' \in Seq(Req) /\ IsInjective(grewShort')
         /\ ToSet(grewShort') = ToSet(grewShort) \ {Head(grewShort)}
         /\ sampling = << >> /\ ToSet(sampling) = {}
<1>1. sampling = << >> /\ ToSet(sampling) = {}
  BY Idle
<1> QED
  BY <1>1, Lists, OnceTail

(* A starved sequence that is gone, or that nobody can make room for. *)
LEMMA SkipStep ==
  ASSUME IInv, pc = "resolve", grewShort # << >>, grewShort' = Tail(grewShort),
         UNCHANGED <<shared, pc, pending, active, job, sampling, failures>>
  PROVE  IInv'
<1> USE DEF shared
<1>1. /\ grewShort' \in Seq(Req) /\ IsInjective(grewShort')
      /\ ToSet(grewShort') = ToSet(grewShort) \ {Head(grewShort)} /\ ToSet(sampling) = {}
  BY NextStarved
<1>2. Types'
  BY <1>1 DEF IInv, Types, SharedTypeOK
<1>3. Placed' /\ Accepted'
  BY DEF IInv, Placed, Waiting, Accepted
<1>4. JobsOK' /\ Told'
  BY DEF IInv, JobsOK, JobOK, Told
<1>5. Sampled' /\ Short' /\ Trying'
  BY <1>1 DEF IInv, Sampled, Short, Trying
<1> QED
  BY <1>2, <1>3, <1>4, <1>5 DEF IInv

(* A starved sequence grows. *)
LEMMA GrowsStep ==
  ASSUME IInv, NEW r \in Req, ResolveGrows(r)
  PROVE  IInv'
<1>1. PICK j, t : j = job[r] /\ t = ensure_capacity(mem.pool, job[r].table, Needed(r)).table
  OBVIOUS
<1>2. /\ pc = "resolve" /\ grewShort # << >> /\ r = Head(grewShort) /\ grewShort' = Tail(grewShort)
      /\ job' = [job EXCEPT ![r].table = t]
      /\ UNCHANGED <<shared, pc, pending, active, sampling, failures>>
  BY <1>1 DEF ResolveGrows, Starved
<1> USE DEF shared
<1>3. job' = [job EXCEPT ![r] = [j EXCEPT !.table = t]]
  BY <1>1, <1>2
<1>4. PICK k : k = [j EXCEPT !.table = t]
  OBVIOUS
<1>5. JobOK(r) /\ Sound(j)
  BY <1>1 DEF IInv, JobsOK, JobOK
<1>6. Sound(k) /\ SameEnd(k, j) /\ job' = [job EXCEPT ![r] = k]
  BY <1>3, <1>4, <1>5, ProgressSound
<1>7. JobsOK'
  BY <1>1, <1>2, <1>5, <1>6, OneJob DEF SameEnd, JobOK
<1>8. /\ job' = [q \in Req |-> job'[q]] /\ job'[r] = k /\ \A q \in Req : q # r => job'[q] = job[q]
  BY <1>6, JobReplaced
<1>9. /\ grewShort' \in Seq(Req) /\ IsInjective(grewShort')
      /\ ToSet(grewShort') = ToSet(grewShort) \ {r} /\ sampling = << >> /\ ToSet(sampling) = {}
  BY <1>2, NextStarved
<1>10. Types'
  BY <1>2, <1>8, <1>9 DEF IInv, Types, SharedTypeOK
<1>11. Placed' /\ Accepted' /\ Trying'
  BY <1>2 DEF IInv, Placed, Waiting, Accepted, Trying
<1>12. Told'
  BY <1>1, <1>2, <1>6, <1>8 DEF IInv, Told, SameEnd
<1>13. Sampled'
  BY <1>2, <1>9, Lists DEF Sampled
<1>14. Short'
  <2>1. \A q \in ToSet(grewShort') : q \in ToSet(active') => ~job'[q].finished
    BY <1>2, <1>8, <1>9, Members DEF IInv, Short
  <2> QED
    BY <1>2, <1>9, <2>1 DEF Short
<1> QED
  BY <1>7, <1>10, <1>11, <1>12, <1>13, <1>14 DEF IInv

(* A starved sequence outgrew the pool and is told so. *)
LEMMA TooBigStep ==
  ASSUME IInv, NEW r \in Req, ResolveTooBig(r)
  PROVE  IInv'
<1>1. /\ pc = "resolve" /\ grewShort # << >> /\ r = Head(grewShort) /\ r \in ToSet(active)
      /\ grewShort' = Tail(grewShort) /\ told' = [told EXCEPT ![r] = told[r] + 1]
      /\ job' = [job EXCEPT ![r] = finish(stop_with(job[r], "context_overflow"))]
      /\ UNCHANGED <<queue, closed, status, cancel, result, pc, pending, active, sampling, failures>>
  BY DEF ResolveTooBig, Starved
<1>2. r \in ToSet(grewShort) /\ r \in Waiting
  BY <1>1, Lists, OnceTail, Members
<1>3. Sound(job[r]) /\ ~job[r].finished /\ ~job[r].notified
  <2>1. Sound(job[r]) /\ ~job[r].finished
    BY <1>1, <1>2 DEF IInv, JobsOK, JobOK, Short
  <2> QED
    BY <2>1 DEF Sound
<1>4. PICK k : /\ job' = [job EXCEPT ![r] = k] /\ Sound(k) /\ k.notified /\ k.reason = "context_overflow"
  <2>1. PICK j, s : j = job[r] /\ s = stop_with(j, "context_overflow")
    OBVIOUS
  <2>2. "context_overflow" \in Reason /\ "context_overflow" # "unset"
    BY DEF Reason
  <2>3. Sound(s) /\ s.finished /\ s.reason = "context_overflow"
    BY <1>3, <2>1, <2>2, StopSound
  <2>4. Sound(finish(s)) /\ finish(s).notified /\ finish(s).reason = s.reason
    BY <2>3, FinishSound
  <2> QED
    BY <1>1, <2>1, <2>3, <2>4
<1>5. /\ told' \in [Req -> Nat] /\ told'[r] = 1 /\ \A q \in Req : q # r => told'[q] = told[q]
  <2>0. told[r] = 0
    BY <1>2, <1>3, Untold
  <2>1. told' = [told EXCEPT ![r] = 1]
    BY <1>1, <2>0
  <2> QED
    BY <2>1, Calling
<1>6. JobsOK'
  BY <1>1, <1>4, OneJob
<1>7. /\ job' = [q \in Req |-> job'[q]] /\ job'[r] = k /\ \A q \in Req : q # r => job'[q] = job[q]
  BY <1>4, JobReplaced
<1>8. /\ grewShort' \in Seq(Req) /\ IsInjective(grewShort')
      /\ ToSet(grewShort') = ToSet(grewShort) \ {r} /\ sampling = << >> /\ ToSet(sampling) = {}
  BY <1>1, NextStarved
<1>9. Types'
  BY <1>1, <1>5, <1>7, <1>8 DEF IInv, Types, SharedTypeOK
<1>10. Placed' /\ Accepted' /\ Trying'
  BY <1>1 DEF IInv, Placed, Waiting, Accepted, Trying
<1>11. Told'
  <2> SUFFICES ASSUME NEW q \in Req
               PROVE  told'[q] = IF result'[q] # "none" \/ job'[q].notified THEN 1 ELSE 0
    BY DEF Told
  <2>1. CASE q = r
    BY <1>4, <1>5, <1>7, <2>1
  <2>2. CASE q # r
    BY <1>1, <1>5, <1>7, <2>2 DEF IInv, Told
  <2> QED
    BY <2>1, <2>2
<1>12. Sampled'
  BY <1>1, <1>8, Lists DEF Sampled
<1>13. Short'
  <2>1. \A q \in ToSet(grewShort') : q \in ToSet(active') => ~job'[q].finished
    BY <1>1, <1>7, <1>8, Members DEF IInv, Short
  <2> QED
    BY <1>1, <1>8, <2>1 DEF Short
<1> QED
  BY <1>6, <1>9, <1>10, <1>11, <1>12, <1>13 DEF IInv

(* A running sequence goes back to the front of pending, and starts over. *)
LEMMA PreemptStep ==
  ASSUME IInv, NEW r \in Req, Preempt(r)
  PROVE  IInv'
<1>1. pc = "resolve" /\ grewShort # << >> /\ UNCHANGED <<shared, pc, sampling, failures>>
  BY DEF Preempt, Starved
<1> USE DEF shared
<1>2. CASE Victims(r) = {}
  BY <1>1, <1>2, SkipStep DEF Preempt
<1>3. CASE Victims(r) # {}
  <2>1. PICK i \in Victims(r) :
          /\ active' = RemoveAt(active, i) /\ pending' = <<active[i]>> \o pending
          /\ job' = [job EXCEPT ![active[i]] = NoJob] /\ UNCHANGED grewShort
    BY <1>3 DEF Preempt
  <2>2. PICK v : v = active[i]
    OBVIOUS
  <2>3. i \in 1..Len(active) /\ ~job[v].finished
    BY <2>1, <2>2 DEF Victims, Running
  <2>4. /\ active' \in Seq(Req) /\ IsInjective(active') /\ v \in Req
        /\ ToSet(active') = ToSet(active) \ {v} /\ v \in ToSet(active)
    BY <2>1, <2>2, <2>3, Lists, OnceRemoveAt
  <2>5. v \in Waiting /\ v \notin ToSet(queue) /\ v \notin ToSet(pending)
    BY <2>4, Members DEF IInv, Placed
  <2>6. /\ pending' \in Seq(Req) /\ IsInjective(pending')
        /\ ToSet(pending') = ToSet(pending) \cup {v}
    <3>1. <<v>> \in Seq(Req) /\ IsInjective(<<v>>) /\ ToSet(<<v>>) = {v}
      <4>1. <<v>> \in Seq(Req) /\ DOMAIN <<v>> = {1} /\ <<v>>[1] = v
        BY <2>4
      <4>2. ToSet(<<v>>) = {v}
        BY <4>1 DEF ToSet
      <4> QED
        BY <4>1, <4>2 DEF IsInjective
    <3>2. pending' = <<v>> \o pending /\ ToSet(<<v>>) \cap ToSet(pending) = {}
      BY <2>1, <2>2, <2>5, <3>1
    <3>3. pending \in Seq(Req) /\ IsInjective(pending)
      BY Lists
    <3>4. PICK front \in Seq(Req), back \in Seq(Req) : front = <<v>> /\ back = pending
      BY <3>1, <3>3
    <3>5. /\ front \in Seq(Req) /\ back \in Seq(Req)
          /\ IsInjective(front) /\ IsInjective(back) /\ ToSet(front) \cap ToSet(back) = {}
      BY <3>1, <3>2, <3>3, <3>4
    <3>6. /\ front \o back \in Seq(Req) /\ IsInjective(front \o back)
          /\ ToSet(front \o back) = ToSet(front) \cup ToSet(back)
      BY <3>5, OnceConcat
    <3> QED
      BY <3>1, <3>2, <3>4, <3>6
  <2>7. job' = [job EXCEPT ![v] = NoJob]
    BY <2>1, <2>2
  <2>8. ~job[v].notified
    BY <2>3, <2>4 DEF IInv, JobsOK, JobOK, Sound
  <2>9. JobsOK'
    BY <1>1, <2>4, <2>7, NoJobSound, OneJob
  <2>10. /\ job' = [q \in Req |-> job'[q]] /\ job'[v] = NoJob
         /\ \A q \in Req : q # v => job'[q] = job[q]
    BY <2>4, <2>7, JobReplaced
  <2>11. Types'
    BY <1>1, <2>1, <2>4, <2>6, <2>10 DEF IInv, Types, SharedTypeOK
  <2>12. Placed' /\ Accepted'
    <3>1. Waiting' = Waiting /\ Accepted'
      BY <1>1 DEF IInv, Waiting, Accepted
    <3> QED
      BY <1>1, <2>4, <2>5, <2>6, <3>1 DEF IInv, Placed
  <2>13. Told'
    BY <1>1, <2>8, <2>10, NoJobSound DEF IInv, Told
  <2>14. sampling = << >> /\ ToSet(sampling) = {}
    BY <1>1, Idle
  <2>15. Sampled' /\ Trying'
    BY <1>1, <2>14, Lists DEF Sampled, Trying
  <2>16. Short'
    <3>1. \A q \in ToSet(grewShort) : q \in ToSet(active') => ~job'[q].finished
      BY <2>4, <2>10, Members DEF IInv, Short
    <3> QED
      BY <1>1, <2>1, <2>14, <3>1 DEF IInv, Short
  <2> QED
    BY <2>9, <2>11, <2>12, <2>13, <2>15, <2>16 DEF IInv
<1> QED
  BY <1>2, <1>3

-----------------------------------------------------------------------------
(* Every step preserves the inductive invariant. *)
LEMMA NextIInv == IInv /\ [Next]_vars => IInv'
<1> SUFFICES ASSUME IInv, [Next]_vars PROVE IInv'
  OBVIOUS
<1> USE DEF shared
<1>1. ASSUME NEW r \in Req, Submit(r) PROVE IInv'
  BY <1>1, SubmitStep
<1>2. ASSUME NEW r \in Req, Cancel(r) PROVE IInv'
  BY <1>2, CancelStep
<1>3. CASE Close
  BY <1>3, CloseStep
<1>4. CASE TakeOne
  BY <1>4, TakeOneStep
<1>5. CASE TakeEnough \/ TakeNothing
  BY <1>5, QuietStep DEF TakeEnough, TakeNothing, IInv, Sampled, Short, Place
<1>6. CASE MakeJob
  BY <1>6, MakeJobStep
<1>7. CASE AdmitReclaim
  BY <1>7, QuietStep DEF AdmitReclaim, IInv, Sampled, Short, Trying, Place
<1>8. CASE Admit
  BY <1>8, AdmitStep
<1>9. CASE RejectUnfittable
  BY <1>9, RejectStep
<1>10. CASE Defer
  BY <1>10, DeferStep
<1>11. CASE AdmitDone
  BY <1>11, QuietStep DEF AdmitDone, IInv, Sampled, Short, Place
<1>12. CASE BuildAndDecode
  BY <1>12, BuildStep
<1>13. CASE DecodeFails
  BY <1>13, DecodeFailsStep
<1>14. ASSUME NEW outcome \in Outcome, AcceptOne(outcome) PROVE IInv'
  BY <1>14, AcceptOneStep
<1>15. CASE AcceptDone
  BY <1>15, QuietStep DEF AcceptDone, IInv, Sampled, Short, Place
<1>16. CASE Retire
  BY <1>16, RetireStep
<1>17. CASE RetireDone
  <2>1. pc = "sweep" => grewShort = << >>
    BY DEF IInv, Short
  <2>2. sampling = << >> /\ pc' \in {"resolve", "take"} /\ (pc' = "take" => pc = "sweep")
    BY <1>17 DEF RetireDone, IInv, Sampled
  <2> QED
    BY <1>17, <2>1, <2>2, QuietStep DEF RetireDone, Place
<1>18. CASE ResolveGone
  BY <1>18, SkipStep DEF ResolveGone
<1>19. CASE ResolveDone
  BY <1>19, QuietStep DEF ResolveDone, IInv, Sampled, Short, Place
<1>20. ASSUME NEW r \in Req, ResolveTooBig(r) PROVE IInv'
  BY <1>20, TooBigStep
<1>21. ASSUME NEW r \in Req, ResolveGrows(r) PROVE IInv'
  BY <1>21, GrowsStep
<1>22. ASSUME NEW r \in Req, ResolveReclaim(r) PROVE IInv'
  BY <1>22, QuietStep DEF ResolveReclaim, Starved, IInv, Sampled, Short, Place
<1>23. ASSUME NEW r \in Req, Preempt(r) PROVE IInv'
  BY <1>23, PreemptStep
<1>24. CASE UNCHANGED vars
  BY <1>24, QuietStep DEF vars, private, IInv, Types, Sampled, Short, Trying
<1> QED
  BY <1>1, <1>2, <1>3, <1>4, <1>5, <1>6, <1>7, <1>8, <1>9, <1>10, <1>11, <1>12, <1>13, <1>14,
     <1>15, <1>16, <1>17, <1>18, <1>19, <1>20, <1>21, <1>22, <1>23, <1>24
     DEF Next, Run, Resolve, Stopped

-----------------------------------------------------------------------------
(* Every behaviour of run_continuous() stays within the inductive          *)
(* invariant, whatever the pool, the cache, the clients and the backend do. *)
THEOREM SchedulerInvariant == Spec => []IInv
BY InitIInv, NextIInv, PTL DEF Spec

(* An accepted request is in the queue, in pending or in the batch, exactly *)
(* once, until it is answered: run_continuous() neither drops nor doubles   *)
(* it when it defers, preempts, fails, rejects or drains.                   *)
THEOREM ContinuousOwnsOnce == Spec => []OwnedOnce
<1>1. IInv => OwnedOnce
  <2> SUFFICES ASSUME IInv PROVE OwnedOnce
    OBVIOUS
  <2>1. /\ queue \o pending \in Seq(Req) /\ IsInjective(queue \o pending)
        /\ ToSet(queue \o pending) = ToSet(queue) \cup ToSet(pending)
    BY Lists, OnceConcat DEF IInv, Placed
  <2>2. ToSet(queue \o pending) \cap ToSet(active) = {}
    BY <2>1 DEF IInv, Placed
  <2>3. PICK line : line = queue \o pending \o active
    OBVIOUS
  <2>4. line \in Seq(Req) /\ IsInjective(line) /\ ToSet(line) = Waiting
    <3>1. /\ (queue \o pending) \o active \in Seq(Req) /\ IsInjective((queue \o pending) \o active)
          /\ ToSet((queue \o pending) \o active) = ToSet(queue \o pending) \cup ToSet(active)
      <4>1. PICK front \in Seq(Req), back \in Seq(Req) : front = queue \o pending /\ back = active
        BY <2>1, Lists
      <4>2. /\ front \in Seq(Req) /\ back \in Seq(Req)
            /\ IsInjective(front) /\ IsInjective(back) /\ ToSet(front) \cap ToSet(back) = {}
        BY <2>1, <2>2, <4>1, Lists
      <4>3. /\ front \o back \in Seq(Req) /\ IsInjective(front \o back)
            /\ ToSet(front \o back) = ToSet(front) \cup ToSet(back)
        BY <4>2, OnceConcat
      <4> QED
        BY <4>1, <4>3
    <3> QED
      BY <2>1, <2>3, <3>1 DEF IInv, Placed
  <2>5. \A r \in Req : Cardinality({i \in 1..Len(line) : line[i] = r})
                         = IF r \in Waiting THEN 1 ELSE 0
    BY <2>4, OnceCount
  <2>6. OncePerRequest(line)
    BY <2>5 DEF OncePerRequest, Waiting
  <2> QED
    BY <2>3, <2>6 DEF OwnedOnce
<1> QED
  BY <1>1, SchedulerInvariant, PTL

(* A sink gets exactly one terminal call, over all the attempts at its      *)
(* request: finish() marks the job, retire() calls only for an unmarked one, *)
(* and a preempted job was not told.                                        *)
THEOREM ContinuousTellsOnce == Spec => []ToldOnce
<1>1. IInv => ToldOnce
  BY DEF IInv, Told, ToldOnce
<1> QED
  BY <1>1, SchedulerInvariant, PTL

-----------------------------------------------------------------------------
(* The service with every "context_overflow" allowed: which requests fit is *)
(* about the memory, which this argument leaves open.                       *)
Phase == [r \in Req |-> IF result[r] # "none" THEN "answered" ELSE status[r]]

Lenient == INSTANCE Service WITH
  Oversized <- Req,
  phase     <- Phase,
  answer    <- result,
  cancelled <- cancel,
  broken    <- failures > 0

(* What is in the queue is waiting for an answer. *)
LEMMA QueueWaits ==
  ASSUME IInv
  PROVE  Cardinality(Waiting) \in Nat /\ Len(queue) <= Cardinality(Waiting)
<1>1. /\ IsFiniteSet(ToSet(queue)) /\ Cardinality(ToSet(queue)) = Len(queue)
      /\ IsFiniteSet(ToSet(pending)) /\ IsFiniteSet(ToSet(active))
  BY Lists, OnceLength
<1>2. IsFiniteSet(Waiting)
  <2>1. IsFiniteSet(ToSet(queue) \cup ToSet(pending))
    BY <1>1, FS_Union
  <2>2. IsFiniteSet((ToSet(queue) \cup ToSet(pending)) \cup ToSet(active))
    BY <1>1, <2>1, FS_Union
  <2> QED
    BY <2>2 DEF IInv, Placed
<1>3. Cardinality(ToSet(queue)) <= Cardinality(Waiting)
  BY <1>2, Members, FS_Subset
<1>4. Cardinality(Waiting) \in Nat
  BY <1>2, FS_CardinalityType
<1> QED
  BY <1>1, <1>3, <1>4

(* An answer of the scheduler is an answer of the service. *)
LEMMA AnswerMaps ==
  ASSUME IInv, NEW r \in Req, r \in Waiting, NEW why \in Reason, why # "unset",
         why = "cancelled" => r \in cancel, why = "error" => failures > 0,
         deliver(r, why), UNCHANGED <<status, cancel, closed, failures>>
  PROVE  Lenient!Next
<1>1. /\ result'[r] = why /\ why # "none" /\ \A q \in Req : q # r => result'[q] = result[q]
      /\ result[r] = "none" /\ status[r] = "accepted"
  BY Answering DEF Waiting
<1>2. Phase[r] = "accepted" /\ Phase' = [Phase EXCEPT ![r] = "answered"]
  BY <1>1 DEF Phase
<1>3. why \in Lenient!Reasons /\ Lenient!Justified(r, why)
  BY DEF Reason, Lenient!Reasons, Lenient!Justified
<1>4. Lenient!Answer(r, why)
  BY <1>2, <1>3 DEF Lenient!Answer, deliver
<1> QED
  BY <1>3, <1>4 DEF Lenient!Next

(* The service counts as the scheduler does. *)
LEMMA SameCount == ASSUME NEW S PROVE Lenient!Cardinality(S) = Cardinality(S)
BY DEF Cardinality, Lenient!Cardinality

(* Every step is a step of the service, or none. *)
LEMMA StepMaps ==
  ASSUME IInv, [Next]_vars
  PROVE  [Lenient!Next]_(Lenient!svars)
<1>1. ASSUME NEW r \in Req, Submit(r) PROVE Lenient!Next
  <2>1. status[r] = "new" /\ result[r] = "none" /\ UNCHANGED <<result, cancel, closed, failures>>
    BY <1>1 DEF Submit, try_push, private, IInv, Accepted
  <2>2. status \in [Req -> {"new", "refused", "accepted"}]
    BY DEF IInv, Types, SharedTypeOK
  <2>3. CASE closed \/ Full
    <3>1. status' = [status EXCEPT ![r] = "refused"]
      BY <1>1, <2>3 DEF Submit, try_push
    <3>2. Phase[r] = "new" /\ Phase' = [Phase EXCEPT ![r] = "refused"]
      BY <2>1, <2>2, <3>1 DEF Phase
    <3>3. Lenient!Waiting = Waiting
      BY DEF Lenient!Waiting, Waiting, Phase
    <3>4. Full => Lenient!Cardinality(Lenient!Waiting) >= QueueDepth
      <4>1. Len(queue) \in Nat
        BY Lists
      <4> QED
        BY <3>3, <4>1, QueueWaits, QueueAssumption, SameCount DEF Full
    <3>5. closed \/ Lenient!Cardinality(Lenient!Waiting) >= QueueDepth
      BY <2>3, <3>4
    <3>6. UNCHANGED <<result, cancel, closed, failures > 0>>
      BY <2>1
    <3>7. Lenient!Refuse(r)
      BY <3>2, <3>5, <3>6 DEF Lenient!Refuse
    <3> QED
      BY <3>7 DEF Lenient!Next
  <2>4. CASE ~(closed \/ Full)
    <3>1. status' = [status EXCEPT ![r] = "accepted"]
      BY <1>1, <2>4 DEF Submit, try_push
    <3>2. Phase[r] = "new" /\ Phase' = [Phase EXCEPT ![r] = "accepted"]
      BY <2>1, <2>2, <3>1 DEF Phase
    <3>3. Lenient!Accept(r)
      BY <2>1, <2>4, <3>2 DEF Lenient!Accept
    <3> QED
      BY <3>3 DEF Lenient!Next
  <2> QED
    BY <2>3, <2>4
<1>2. ASSUME NEW r \in Req, Cancel(r) PROVE Lenient!Next
  <2>1. Phase[r] = "accepted" /\ Phase' = Phase
    BY <1>2 DEF Cancel, raise_cancel, Phase
  <2>2. Lenient!GiveUp(r)
    BY <1>2, <2>1 DEF Cancel, raise_cancel, private, Lenient!GiveUp
  <2> QED
    BY <2>2 DEF Lenient!Next
<1>3. CASE Close
  <2>1. Lenient!Close
    BY <1>3 DEF Close, close, private, Lenient!Close, Phase
  <2> QED
    BY <2>1 DEF Lenient!Next
<1>4. CASE RejectUnfittable
  <2>1. PICK r \in Req : r = Head(pending) /\ r \in Waiting
    <3>1. pending # << >>
      BY <1>4 DEF RejectUnfittable, IInv, Trying
    <3>2. Head(pending) \in ToSet(pending) /\ Head(pending) \in Req
      BY <3>1, Lists, OnceTail
    <3> QED
      BY <3>2, Members
  <2>2. deliver(r, "context_overflow") /\ UNCHANGED <<status, cancel, closed, failures>>
    BY <1>4, <2>1 DEF RejectUnfittable
  <2>3. "context_overflow" \in Reason
    BY DEF Reason
  <2> QED
    BY <2>1, <2>2, <2>3, AnswerMaps
<1>5. CASE Retire
  <2>1. PICK i \in 1..Len(active) : job[active[i]].finished /\ deliver(active[i], job[active[i]].reason)
    BY <1>5 DEF Retire, Running
  <2>2. PICK r, why : r = active[i] /\ why = job[r].reason
    OBVIOUS
  <2>3. r \in Waiting /\ r \in Req
    BY <2>1, <2>2, Members
  <2>4. Sound(job[r]) /\ (why = "cancelled" => r \in cancel) /\ (why = "error" => failures > 0)
    BY <2>2, <2>3 DEF IInv, JobsOK, JobOK
  <2>5. why \in Reason /\ why # "unset" /\ deliver(r, why)
    BY <2>1, <2>2, <2>4 DEF Sound
  <2>6. UNCHANGED <<status, cancel, closed, failures>>
    BY <1>5 DEF Retire
  <2> QED
    BY <2>3, <2>4, <2>5, <2>6, AnswerMaps
<1>6. CASE DecodeFails
  <2>1. failures \in Nat /\ failures' = failures + 1 /\ UNCHANGED shared
    BY <1>6 DEF DecodeFails, IInv, Types
  <2>2. (failures' > 0) = TRUE /\ Phase' = Phase
    BY <2>1 DEF Phase, shared
  <2>3. Lenient!Break
    BY <2>1, <2>2 DEF Lenient!Break, shared
  <2> QED
    BY <2>3 DEF Lenient!Next
<1>7. CASE UNCHANGED <<status, result, cancel, closed, failures>>
  BY <1>7 DEF Lenient!svars, Phase
<1>8. CASE TakeOne \/ TakeEnough \/ TakeNothing \/ MakeJob \/ AdmitReclaim \/ Admit \/ Defer \/ AdmitDone
  BY <1>7, <1>8 DEF TakeOne, pop, TakeEnough, TakeNothing, MakeJob, AdmitReclaim, Admit, Defer,
                    AdmitDone, shared
<1>9. CASE BuildAndDecode \/ AcceptDone \/ RetireDone \/ \E outcome \in Outcome : AcceptOne(outcome)
  BY <1>7, <1>9 DEF BuildAndDecode, AcceptDone, RetireDone, AcceptOne, shared
<1>10. CASE Resolve
  BY <1>7, <1>10 DEF Resolve, ResolveGone, ResolveDone, ResolveTooBig, ResolveGrows, ResolveReclaim,
                     Preempt, shared
<1>11. CASE UNCHANGED vars
  BY <1>7, <1>11 DEF vars, shared, private
<1> QED
  BY <1>1, <1>2, <1>3, <1>4, <1>5, <1>6, <1>8, <1>9, <1>10, <1>11 DEF Next, Run, Stopped

(* Continuous batching implements the service: a request is refused only   *)
(* when QueueDepth requests wait or the queue is closed, an accepted one   *)
(* is answered at most once, with "cancelled" only if its client gave up   *)
(* and with "error" only if the backend failed.                            *)
THEOREM ContinuousServes == Spec => Lenient!Spec
<1>1. Init => Lenient!Init
  BY DEF Init, NoClients, Lenient!Init, Phase
<1>2. IInv /\ [Next]_vars => [Lenient!Next]_(Lenient!svars)
  BY StepMaps
<1> QED
  BY <1>1, <1>2, SchedulerInvariant, PTL DEF Spec, Lenient!Spec
=============================================================================
