---------------------------- MODULE SchedulerPass ----------------------------
(***************************************************************************)
(* The middle of a pass preserves the inductive invariant: decoding,       *)
(* accepting and retiring.                                                 *)
(***************************************************************************)
EXTENDS SchedulerInduction

(* A chunk is no end of a job. *)
LEMMA ChunkedSound ==
  ASSUME NEW r \in Req, Sound(job[r])
  PROVE  Sound(Chunked[r]) /\ SameEnd(Chunked[r], job[r])
<1>1. PICK j, n : j = job[r] /\ n = Chunks[r]
  OBVIOUS
<1>2. Chunked[r] = take_prefill_chunk(j, n)
  BY <1>1 DEF Chunked
<1> QED
  BY <1>1, <1>2, ProgressSound

(* One pass is decoded: who is sampled is running, and sampled once. *)
LEMMA BuildStep ==
  ASSUME IInv, BuildAndDecode
  PROVE  IInv'
<1>1. PICK first \in InOrder(active, Decodes), last \in InOrder(active, Completed) :
         sampling' = first \o last
  BY DEF BuildAndDecode
<1>2. /\ pc = "build" /\ pc' = "accept" /\ job' = Chunked
      /\ UNCHANGED <<shared, pending, active, grewShort, failures>>
  BY DEF BuildAndDecode
<1> USE DEF shared
<1>3. /\ Decodes \in SUBSET (1..Len(active)) /\ Completed \in SUBSET (1..Len(active))
      /\ Decodes \cap Completed = {}
      /\ \A i \in Decodes \cup Completed : ~job[active[i]].finished
  BY DEF Decodes, Completed, Running
<1>4. /\ first \in Seq(Req) /\ IsInjective(first)
      /\ ToSet(first) \subseteq {active[i] : i \in Decodes}
  BY <1>3, Lists, InOrderOnce
<1>5. /\ last \in Seq(Req) /\ IsInjective(last)
      /\ ToSet(last) \subseteq {active[i] : i \in Completed}
  BY <1>3, Lists, InOrderOnce
<1>6. ToSet(first) \cap ToSet(last) = {}
  <2> SUFFICES ASSUME NEW x, x \in ToSet(first), x \in ToSet(last) PROVE FALSE
    OBVIOUS
  <2>1. PICK i \in Decodes : x = active[i]
    BY <1>4
  <2>2. PICK k \in Completed : x = active[k]
    BY <1>5
  <2>3. i = k
    <3>1. active \in Seq(Req) /\ IsInjective(active) /\ DOMAIN active = 1..Len(active)
      BY Lists
    <3>2. i \in DOMAIN active /\ k \in DOMAIN active
      BY <1>3, <2>1, <2>2, <3>1
    <3> QED
      BY <2>1, <2>2, <3>1, <3>2 DEF IsInjective
  <2> QED
    BY <1>3, <2>1, <2>2, <2>3
<1>7. sampling' \in Seq(Req) /\ IsInjective(sampling') /\ ToSet(sampling') = ToSet(first) \cup ToSet(last)
  BY <1>1, <1>4, <1>5, <1>6, OnceConcat
<1>8. \A r \in Req : Sound(job'[r]) /\ SameEnd(job'[r], job[r])
  BY <1>2, ChunkedSound DEF IInv, JobsOK, JobOK
<1>9. JobsOK' /\ Told'
  BY <1>2, <1>8 DEF IInv, JobsOK, JobOK, Told, SameEnd
<1>10. job' = [r \in Req |-> job'[r]]
  BY <1>2 DEF Chunked
<1>11. Types'
  BY <1>2, <1>7, <1>10 DEF IInv, Types, SharedTypeOK, Place
<1>12. Placed' /\ Accepted' /\ Trying'
  BY <1>2 DEF IInv, Placed, Waiting, Accepted, Trying
<1>13. \A r \in ToSet(sampling') : r \in ToSet(active) /\ ~job'[r].finished
  <2> TAKE r \in ToSet(sampling')
  <2>1. PICK i \in Decodes \cup Completed : r = active[i]
    BY <1>4, <1>5, <1>7
  <2>2. r \in ToSet(active) /\ r \in Req /\ ~job[r].finished
    BY <1>3, <2>1, Members
  <2> QED
    BY <1>8, <2>2 DEF SameEnd
<1>14. grewShort = << >> /\ ToSet(grewShort) = {}
  BY <1>2, Idle
<1>15. Sampled' /\ Short'
  BY <1>2, <1>7, <1>13, <1>14, Lists DEF Sampled, Short
<1> QED
  BY <1>9, <1>11, <1>12, <1>15 DEF IInv

(* Every sequence in flight fails. *)
LEMMA DecodeFailsStep ==
  ASSUME IInv, DecodeFails
  PROVE  IInv'
<1>1. /\ pc = "build" /\ pc' = "retire" /\ failures' = failures + 1
      /\ job' = [r \in Req |-> IF r \in ToSet(active) THEN fail(Chunked[r], "error") ELSE job[r]]
      /\ UNCHANGED <<shared, pending, active, sampling, grewShort>>
  BY DEF DecodeFails
<1> USE DEF shared
<1>2. failures \in Nat /\ failures' \in Nat /\ failures' > 0
  BY <1>1 DEF IInv, Types
<1>3. \A r \in Req : /\ Sound(job'[r]) /\ job'[r].notified = job[r].notified
                     /\ job'[r].reason \in {job[r].reason, "error"}
  <2> TAKE r \in Req
  <2>1. Sound(job[r])
    BY DEF IInv, JobsOK, JobOK
  <2>2. CASE r \notin ToSet(active)
    BY <1>1, <2>1, <2>2
  <2>3. CASE r \in ToSet(active)
    <3>1. PICK k : k = Chunked[r]
      OBVIOUS
    <3>2. Sound(k) /\ SameEnd(k, job[r])
      BY <2>1, <3>1, ChunkedSound
    <3>3. "error" \in Reason /\ "error" # "unset"
      BY DEF Reason
    <3>4. /\ Sound(fail(k, "error")) /\ fail(k, "error").notified = k.notified
          /\ fail(k, "error").reason \in {k.reason, "error"}
      BY <3>2, <3>3, FailSound
    <3> QED
      BY <1>1, <2>3, <3>1, <3>2, <3>4 DEF SameEnd
  <2> QED
    BY <2>2, <2>3
<1>4. JobsOK'
  <2> SUFFICES ASSUME NEW r \in Req PROVE JobOK(r)'
    BY DEF JobsOK
  <2>1. JobOK(r)
    BY DEF IInv, JobsOK
  <2> QED
    BY <1>1, <1>2, <1>3, <2>1 DEF JobOK
<1>5. Told'
  BY <1>1, <1>3 DEF IInv, Told
<1>6. Types'
  BY <1>1, <1>2 DEF IInv, Types, SharedTypeOK, Place
<1>7. Placed' /\ Accepted' /\ Trying'
  BY <1>1 DEF IInv, Placed, Waiting, Accepted, Trying
<1>8. Sampled' /\ Short'
  BY <1>1, Idle, Unsampled
<1> QED
  BY <1>4, <1>5, <1>6, <1>7, <1>8 DEF IInv

(* A sampled token is accepted, and its sequence ends, grows or starves. *)
LEMMA AcceptOneStep ==
  ASSUME IInv, NEW outcome \in Outcome, AcceptOne(outcome)
  PROVE  IInv'
<1>0. pc = "accept" /\ sampling # << >>
  BY DEF AcceptOne
<1>a. PICK r \in Req : r = Head(sampling)
  BY <1>0, Lists, OnceTail
<1>1. PICK j : r = Head(sampling) /\ j = accept(r, job[r], outcome, r \in cancel)
  BY <1>a
<1>2. /\ sampling' = Tail(sampling)
      /\ UNCHANGED <<queue, closed, status, cancel, result, pc, pending, active, failures>>
  BY DEF AcceptOne
<1>3. /\ sampling' \in Seq(Req) /\ IsInjective(sampling') /\ r \in ToSet(sampling)
      /\ ToSet(sampling') = ToSet(sampling) \ {r}
  BY <1>0, <1>1, <1>2, Lists, OnceTail
<1>4. r \in ToSet(active) /\ ~job[r].finished /\ r \notin ToSet(grewShort) /\ r \in Waiting
  BY <1>3, Members DEF IInv, Sampled, Short
<1>5. Sound(job[r]) /\ ~job[r].notified /\ told[r] = 0
  <2>1. Sound(job[r]) /\ ~job[r].notified
    BY <1>4 DEF IInv, JobsOK, JobOK, Sound
  <2> QED
    BY <1>4, <2>1, Untold
<1>6. /\ Sound(j) /\ ~j.notified /\ j.reason \in {"unset", "eos", "max_tokens", "stop", "cancelled"}
      /\ j.reason = "cancelled" => r \in cancel
  <2>1. PICK before, flag : before = job[r] /\ flag = (r \in cancel)
    OBVIOUS
  <2>3. flag \in BOOLEAN
    BY <2>1
  <2>2. j = accept(r, before, outcome, flag)
    BY <1>1, <2>1
  <2> QED
    BY <1>4, <1>5, <2>1, <2>2, <2>3, AcceptSound
<1>7. PICK k :
        /\ job' = [job EXCEPT ![r] = k] /\ Sound(k) /\ k.reason = j.reason
        /\ \/ k.notified /\ told' = [told EXCEPT ![r] = 1] /\ UNCHANGED grewShort
           \/ /\ ~k.notified /\ ~k.finished /\ UNCHANGED told
              /\ UNCHANGED grewShort \/ grewShort' = Append(grewShort, r)
  <2>1. CASE j.finished
    <3>1. job' = [job EXCEPT ![r] = finish(j)] /\ told' = [told EXCEPT ![r] = 1] /\ UNCHANGED grewShort
      <4>1. /\ job' = [job EXCEPT ![r] = finish(j)] /\ UNCHANGED grewShort
            /\ told' = [told EXCEPT ![r] = told[r] + 1]
        BY <1>1, <2>1 DEF AcceptOne
      <4> QED
        BY <1>5, <4>1
    <3>2. Sound(finish(j)) /\ finish(j).notified /\ finish(j).reason = j.reason
      BY <1>6, <2>1, FinishSound
    <3> QED
      BY <3>1, <3>2
  <2>2. CASE ~j.finished
    <3>1. UNCHANGED told
      BY <1>1, <2>2 DEF AcceptOne
    <3>2. \/ (\E t : job' = [job EXCEPT ![r] = [j EXCEPT !.table = t]]) /\ UNCHANGED grewShort
          \/ job' = [job EXCEPT ![r] = j] /\ grewShort' = Append(grewShort, r)
      BY <1>1, <2>2 DEF AcceptOne
    <3>3. CASE job' = [job EXCEPT ![r] = j] /\ grewShort' = Append(grewShort, r)
      BY <1>6, <2>2, <3>1, <3>3
    <3>4. ASSUME NEW t, job' = [job EXCEPT ![r] = [j EXCEPT !.table = t]], UNCHANGED grewShort
          PROVE  \E k : /\ job' = [job EXCEPT ![r] = k] /\ Sound(k) /\ k.reason = j.reason
                        /\ ~k.notified /\ ~k.finished /\ UNCHANGED told /\ UNCHANGED grewShort
      <4>1. Sound([j EXCEPT !.table = t]) /\ SameEnd([j EXCEPT !.table = t], j)
        BY <1>6, ProgressSound
      <4> QED
        BY <1>6, <2>2, <3>1, <3>4, <4>1 DEF SameEnd
    <3> QED
      BY <3>2, <3>3, <3>4
  <2> QED
    BY <2>1, <2>2
<1>8. JobsOK'
  BY <1>2, <1>4, <1>6, <1>7, OneJob
<1>9. /\ job' = [q \in Req |-> job'[q]] /\ job'[r] = k /\ \A q \in Req : q # r => job'[q] = job[q]
  BY <1>7, JobReplaced
<1>10. /\ told' \in [Req -> Nat] /\ told'[r] = (IF k.notified THEN 1 ELSE 0)
       /\ \A q \in Req : q # r => told'[q] = told[q]
  <2>1. CASE k.notified
    BY <1>7, <2>1, Calling
  <2>2. CASE ~k.notified
    BY <1>5, <1>7, <2>2 DEF IInv, Types, SharedTypeOK
  <2> QED
    BY <2>1, <2>2
<1>11. /\ grewShort' \in Seq(Req) /\ IsInjective(grewShort')
       /\ ToSet(grewShort') \subseteq ToSet(grewShort) \cup {r}
       /\ k.finished => r \notin ToSet(grewShort')
  <2>1. CASE UNCHANGED grewShort
    BY <1>4, <2>1, Lists
  <2>2. CASE grewShort' = Append(grewShort, r) /\ ~k.finished
    BY <1>4, <2>2, Lists, OnceAppend
  <2>3. k.notified => k.finished
    BY <1>7 DEF Sound
  <2> QED
    BY <1>7, <2>1, <2>2
<1>12. Types'
  BY <1>2, <1>3, <1>9, <1>10, <1>11 DEF IInv, Types, SharedTypeOK
<1>13. Placed' /\ Accepted' /\ Trying'
  BY <1>0, <1>2 DEF IInv, Placed, Waiting, Accepted, Trying
<1>14. Told'
  <2> SUFFICES ASSUME NEW q \in Req
               PROVE  told'[q] = IF result'[q] # "none" \/ job'[q].notified THEN 1 ELSE 0
    BY DEF Told
  <2>1. CASE q = r
    BY <1>2, <1>4, <1>9, <1>10, <2>1 DEF Waiting
  <2>2. CASE q # r
    BY <1>2, <1>9, <1>10, <2>2 DEF IInv, Told
  <2> QED
    BY <2>1, <2>2
<1>15. Sampled'
  BY <1>0, <1>2, <1>3, <1>9, Lists, Members DEF IInv, Sampled
<1>16. Short'
  <2>1. \A q \in ToSet(grewShort') : q \in ToSet(active') => ~job'[q].finished
    <3> TAKE q \in ToSet(grewShort')
    <3>1. CASE q = r
      BY <1>9, <1>11, <3>1
    <3>2. CASE q # r
      BY <1>2, <1>9, <1>11, <3>2, Members DEF IInv, Short
    <3> QED
      BY <3>1, <3>2
  <2>2. ToSet(grewShort') \cap ToSet(sampling') = {}
    BY <1>3, <1>11 DEF IInv, Short
  <2> QED
    BY <1>0, <1>2, <1>11, <2>1, <2>2 DEF Short
<1> QED
  BY <1>8, <1>12, <1>13, <1>14, <1>15, <1>16 DEF IInv

(* A finished sequence leaves the batch and is answered. *)
LEMMA RetireStep ==
  ASSUME IInv, Retire
  PROVE  IInv'
<1>1. PICK i \in 1..Len(active) :
        /\ job[active[i]].finished
        /\ told' = [told EXCEPT ![active[i]] = IF job[active[i]].notified THEN @ ELSE @ + 1]
        /\ deliver(active[i], job[active[i]].reason)
        /\ active' = RemoveAt(active, i)
        /\ job' = [job EXCEPT ![active[i]] = NoJob]
  BY DEF Retire, Running
<1>2. PICK r : r = active[i]
  OBVIOUS
<1>3. /\ active' \in Seq(Req) /\ IsInjective(active') /\ r \in Req
      /\ ToSet(active') = ToSet(active) \ {r} /\ r \in ToSet(active)
  BY <1>1, <1>2, Lists, OnceRemoveAt
<1>4. /\ pc \in {"retire", "sweep"}
      /\ UNCHANGED <<queue, closed, status, cancel, pc, pending, sampling, grewShort, failures>>
  BY DEF Retire
<1>5. r \in Waiting /\ r \notin ToSet(queue) /\ r \notin ToSet(pending)
  BY <1>3, Members DEF IInv, Placed
<1>6. Sound(job[r]) /\ job[r].reason \in Reason /\ job[r].reason # "unset"
  <2>1. Sound(job[r])
    BY <1>3 DEF IInv, JobsOK, JobOK
  <2> QED
    BY <1>1, <1>2, <2>1 DEF Sound
<1>7. /\ result' \in [Req -> (Reason \ {"unset"}) \cup {"none"}] /\ result[r] = "none"
      /\ result'[r] # "none" /\ \A q \in Req : q # r => result'[q] = result[q]
      /\ Waiting' = Waiting \ {r} /\ Accepted'
  <2>1. PICK why \in Reason : why = job[r].reason /\ why # "unset"
    BY <1>6
  <2>2. deliver(r, why)
    BY <1>1, <1>2, <2>1
  <2>3. r \in Req /\ r \in Waiting /\ UNCHANGED status
    BY <1>3, <1>4, <1>5
  <2> QED
    BY <2>1, <2>2, <2>3, Answering
<1>8. /\ told' \in [Req -> Nat] /\ told'[r] = 1 /\ \A q \in Req : q # r => told'[q] = told[q]
  <2>1. told[r] = IF job[r].notified THEN 1 ELSE 0
    BY <1>3, <1>7 DEF IInv, Told
  <2>2. told' = [told EXCEPT ![r] = 1]
    <3>1. told' = [told EXCEPT ![r] = IF job[r].notified THEN told[r] ELSE told[r] + 1]
      BY <1>1, <1>2
    <3>2. (IF job[r].notified THEN told[r] ELSE told[r] + 1) = 1
      BY <2>1
    <3> QED
      BY <3>1, <3>2
  <2> QED
    BY <1>3, <2>2, Calling
<1>9. job' = [job EXCEPT ![r] = NoJob]
  BY <1>1, <1>2
<1>10. JobsOK'
  BY <1>3, <1>4, <1>9, NoJobSound, OneJob
<1>11. /\ job' = [q \in Req |-> job'[q]] /\ job'[r] = NoJob /\ \A q \in Req : q # r => job'[q] = job[q]
  BY <1>3, <1>9, JobReplaced
<1>12. Types'
  BY <1>3, <1>4, <1>7, <1>8, <1>11 DEF IInv, Types, SharedTypeOK
<1>13. Placed'
  BY <1>3, <1>4, <1>5, <1>7 DEF IInv, Placed
<1>14. Told'
  <2> SUFFICES ASSUME NEW q \in Req
               PROVE  told'[q] = IF result'[q] # "none" \/ job'[q].notified THEN 1 ELSE 0
    BY DEF Told
  <2>1. CASE q = r
    BY <1>7, <1>8, <2>1
  <2>2. CASE q # r
    BY <1>7, <1>8, <1>11, <2>2 DEF IInv, Told
  <2> QED
    BY <2>1, <2>2
<1>15. sampling = << >> /\ ToSet(sampling) = {}
  BY <1>4, Idle
<1>16. Sampled' /\ Trying'
  BY <1>4, <1>15, Lists DEF Sampled, Trying
<1>17. Short'
  <2>1. \A q \in ToSet(grewShort) : q \in ToSet(active') => ~job'[q].finished
    BY <1>3, <1>11, Members DEF IInv, Short
  <2> QED
    BY <1>4, <1>15, <2>1 DEF IInv, Short
<1> QED
  BY <1>7, <1>10, <1>12, <1>13, <1>14, <1>16, <1>17 DEF IInv
=============================================================================
