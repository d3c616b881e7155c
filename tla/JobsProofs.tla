----------------------------- MODULE JobsProofs -----------------------------
(***************************************************************************)
(* What the proofs about the two schedulers share: the operations on a job *)
(* keep it sound, the lists that requests are moved between keep each of   *)
(* them once, and an answer takes its request out of the waiting ones.     *)
(***************************************************************************)
EXTENDS Clients, FiniteSetTheorems, SequenceTheorems, TLAPS

(* A job has its fields, a reason exactly if it is finished, and is        *)
(* finished once its sink was told.                                        *)
Sound(j) ==
  /\ j \in [slot : {j.slot}, prefilled : {j.prefilled}, completion : {j.completion},
             finished : BOOLEAN, notified : BOOLEAN, reason : Reason, table : {j.table}]
  /\ j.finished <=> j.reason # "unset"
  /\ j.notified => j.finished

(* The fields that say how far the request has come to its end. *)
SameEnd(j, k) == j.slot = k.slot /\ j.finished = k.finished /\ j.notified = k.notified /\ j.reason = k.reason

(* A slot without a job. *)
LEMMA NoJobSound == Sound(NoJob) /\ ~NoJob.finished /\ ~NoJob.notified /\ NoJob.reason = "unset"
BY DEF Sound, NoJob, Reason

(* stop_with() sets reason_ and finished_ and nothing else. *)
LEMMA StopSound ==
  ASSUME NEW j, Sound(j), NEW why \in Reason, why # "unset"
  PROVE  LET k == stop_with(j, why)
         IN  Sound(k) /\ k.finished /\ k.reason = why /\ k.notified = j.notified /\ k.slot = j.slot
BY DEF Sound, stop_with

(* fail() leaves a finished job alone. *)
LEMMA FailSound ==
  ASSUME NEW j, Sound(j), NEW why \in Reason, why # "unset"
  PROVE  LET k == fail(j, why)
         IN  /\ Sound(k) /\ k.finished /\ k.notified = j.notified /\ k.slot = j.slot
             /\ k.reason \in {j.reason, why}
BY StopSound DEF fail, Sound

(* finish() of a job that has its reason. *)
LEMMA FinishSound ==
  ASSUME NEW j, Sound(j), j.finished
  PROVE  LET k == finish(j)
         IN  Sound(k) /\ k.finished /\ k.notified /\ k.reason = j.reason /\ k.slot = j.slot
BY DEF Sound, finish

(* Progress leaves the end of a job alone. *)
LEMMA ProgressSound ==
  ASSUME NEW j, Sound(j), NEW n, NEW t, NEW r
  PROVE  /\ Sound([j EXCEPT !.table = t]) /\ SameEnd([j EXCEPT !.table = t], j)
         /\ Sound(take_prefill_chunk(j, n)) /\ SameEnd(take_prefill_chunk(j, n), j)
         /\ Sound(adopt_cached_prefix(r, j, n)) /\ SameEnd(adopt_cached_prefix(r, j, n), j)
BY DEF Sound, SameEnd, take_prefill_chunk, adopt_cached_prefix

(* make_job() makes an unfinished job or one that overflows the context. *)
LEMMA MakeJobSound ==
  ASSUME NEW r, NEW slot
  PROVE  LET k == make_job(r, slot)
         IN  Sound(k) /\ ~k.notified /\ k.slot = slot /\ k.reason \in {"unset", "context_overflow"}
<1>1. LET k == [NoJob EXCEPT !.slot = slot]
      IN  Sound(k) /\ ~k.notified /\ k.slot = slot /\ k.reason = "unset"
  BY DEF Sound, NoJob, Reason
<1>2. "context_overflow" \in Reason
  BY DEF Reason
<1> QED
  BY <1>1, <1>2, StopSound DEF make_job

(* accept() of a running job: it goes on, or ends for one of the reasons   *)
(* of a token; cancelled only if the flag was up.                          *)
LEMMA AcceptSound ==
  ASSUME NEW r, NEW j, Sound(j), ~j.finished, NEW outcome \in Outcome, NEW flag \in BOOLEAN
  PROVE  LET k == accept(r, j, outcome, flag)
         IN  /\ Sound(k) /\ ~k.notified /\ k.slot = j.slot
             /\ k.reason \in {"unset", "eos", "max_tokens", "stop", "cancelled"}
             /\ k.reason = "cancelled" => flag
<1> DEFINE grown == [j EXCEPT !.completion = @ + 1]
<1>1. Sound(grown) /\ SameEnd(grown, j) /\ ~j.notified /\ j.reason = "unset"
  BY DEF Sound, SameEnd
<1>2. {"eos", "max_tokens", "stop", "cancelled"} \subseteq Reason \ {"unset"}
  BY DEF Reason
<1>3. \/ accept(r, j, outcome, flag) = stop_with(j, "eos")
      \/ accept(r, j, outcome, flag) = stop_with(j, "max_tokens")
      \/ accept(r, j, outcome, flag) = stop_with(grown, "stop")
      \/ accept(r, j, outcome, flag) = stop_with(grown, "cancelled") /\ flag
      \/ accept(r, j, outcome, flag) = grown
  BY DEF accept
<1> HIDE DEF grown
<1>4. /\ ~stop_with(j, "eos").notified /\ ~stop_with(j, "max_tokens").notified
      /\ Sound(stop_with(j, "eos")) /\ Sound(stop_with(j, "max_tokens"))
      /\ stop_with(j, "eos").reason = "eos" /\ stop_with(j, "max_tokens").reason = "max_tokens"
      /\ stop_with(j, "eos").slot = j.slot /\ stop_with(j, "max_tokens").slot = j.slot
  BY <1>1, <1>2, StopSound
<1>5. /\ ~stop_with(grown, "stop").notified /\ ~stop_with(grown, "cancelled").notified
      /\ Sound(stop_with(grown, "stop")) /\ Sound(stop_with(grown, "cancelled"))
      /\ stop_with(grown, "stop").reason = "stop" /\ stop_with(grown, "cancelled").reason = "cancelled"
      /\ stop_with(grown, "stop").slot = j.slot /\ stop_with(grown, "cancelled").slot = j.slot
  BY <1>1, <1>2, StopSound DEF SameEnd
<1> QED
  BY <1>1, <1>3, <1>4, <1>5 DEF SameEnd

-----------------------------------------------------------------------------
(* A part of a list. *)
LEMMA Part ==
  ASSUME NEW S, NEW s \in Seq(S), NEW m \in 1..(Len(s) + 1), NEW n \in (m - 1)..Len(s)
  PROVE  /\ SubSeq(s, m, n) \in Seq(S) /\ Len(SubSeq(s, m, n)) = n - m + 1
         /\ DOMAIN SubSeq(s, m, n) = 1..(n - m + 1)
         /\ \A i \in 1..(n - m + 1) : SubSeq(s, m, n)[i] = s[m + i - 1]
<1>1. Len(s) \in Nat /\ m \in Int /\ n \in Int
  OBVIOUS
<1>2. \A i \in m..n : s[i] \in S
  BY <1>1
<1>3. /\ SubSeq(s, m, n) \in Seq(S)
      /\ Len(SubSeq(s, m, n)) = IF m <= n THEN n - m + 1 ELSE 0
      /\ \A i \in 1..(n - m + 1) : SubSeq(s, m, n)[i] = s[m + i - 1]
  BY <1>1, <1>2, SubSeqProperties
<1>4. Len(SubSeq(s, m, n)) = n - m + 1
  BY <1>1, <1>3
<1> QED
  BY <1>3, <1>4, LenProperties

(* A request that joins the end of a list it is not in. *)
LEMMA OnceAppend ==
  ASSUME NEW S, NEW s \in Seq(S), IsInjective(s), NEW x \in S, x \notin ToSet(s)
  PROVE  /\ Append(s, x) \in Seq(S) /\ IsInjective(Append(s, x))
         /\ ToSet(Append(s, x)) = ToSet(s) \cup {x}
<1>1. /\ Len(s) \in Nat /\ DOMAIN s = 1..Len(s)
      /\ Append(s, x) \in Seq(S) /\ DOMAIN Append(s, x) = 1..(Len(s) + 1)
  OBVIOUS
<1>2. Append(s, x)[Len(s) + 1] = x /\ \A i \in 1..Len(s) : Append(s, x)[i] = s[i]
  OBVIOUS
<1>3. 1..(Len(s) + 1) = 1..Len(s) \cup {Len(s) + 1}
  BY <1>1
<1>4. \A i \in 1..Len(s) : s[i] # x
  BY <1>1 DEF ToSet
<1>5. IsInjective(Append(s, x))
  BY <1>1, <1>2, <1>3, <1>4 DEF IsInjective
<1>6. ToSet(Append(s, x)) = ToSet(s) \cup {x}
  BY <1>1, <1>2, <1>3 DEF ToSet
<1> QED
  BY <1>1, <1>5, <1>6

(* The head of a list leaves it. *)
LEMMA OnceTail ==
  ASSUME NEW S, NEW s \in Seq(S), IsInjective(s), s # << >>
  PROVE  /\ Tail(s) \in Seq(S) /\ IsInjective(Tail(s))
         /\ ToSet(Tail(s)) = ToSet(s) \ {Head(s)} /\ Head(s) \in ToSet(s) /\ Head(s) \in S
<1>1. Len(s) \in Nat \ {0} /\ Head(s) = s[1] /\ Tail(s) \in Seq(S) /\ Len(Tail(s)) = Len(s) - 1
      /\ DOMAIN s = 1..Len(s) /\ DOMAIN Tail(s) = 1..(Len(s) - 1)
  OBVIOUS
<1>2. \A i \in 1..(Len(s) - 1) : Tail(s)[i] = s[i + 1]
  OBVIOUS
<1>3. IsInjective(Tail(s))
  BY <1>1, <1>2 DEF IsInjective
<1>4. ToSet(Tail(s)) \subseteq ToSet(s) \ {Head(s)}
  BY <1>1, <1>2 DEF ToSet, IsInjective
<1>5. ToSet(s) \ {Head(s)} \subseteq ToSet(Tail(s))
  <2> SUFFICES ASSUME NEW i \in 1..Len(s), s[i] # s[1] PROVE s[i] \in ToSet(Tail(s))
    BY <1>1 DEF ToSet
  <2>1. i - 1 \in 1..(Len(s) - 1) /\ Tail(s)[i - 1] = s[i]
    BY <1>1, <1>2
  <2> QED
    BY <1>1, <2>1 DEF ToSet
<1>6. Head(s) \in ToSet(s) /\ Head(s) \in S
  BY <1>1 DEF ToSet
<1> QED
  BY <1>1, <1>3, <1>4, <1>5, <1>6

(* The last one leaves a stack. *)
LEMMA OnceFront ==
  ASSUME NEW S, NEW s \in Seq(S), IsInjective(s), s # << >>
  PROVE  /\ Front(s) \in Seq(S) /\ IsInjective(Front(s))
         /\ ToSet(Front(s)) = ToSet(s) \ {Last(s)} /\ Last(s) \in ToSet(s) /\ Last(s) \in S
<1>0. Len(s) \in Nat \ {0} /\ DOMAIN s = 1..Len(s) /\ Last(s) = s[Len(s)] /\ Last(s) \in S
  BY DEF Last
<1>1. /\ Front(s) \in Seq(S) /\ DOMAIN Front(s) = 1..(Len(s) - 1)
      /\ \A i \in 1..(Len(s) - 1) : Front(s)[i] = s[i]
  <2>1. PICK n \in (1 - 1)..Len(s) : n = Len(s) - 1
    <3> Len(s) - 1 \in (1 - 1)..Len(s)
      BY <1>0
    <3> QED
      OBVIOUS
  <2>2. /\ SubSeq(s, 1, n) \in Seq(S) /\ DOMAIN SubSeq(s, 1, n) = 1..(n - 1 + 1)
        /\ \A i \in 1..(n - 1 + 1) : SubSeq(s, 1, n)[i] = s[1 + i - 1]
    BY <1>0, <2>1, Part
  <2>3. n - 1 + 1 = n /\ \A i \in Int : 1 + i - 1 = i
    BY <2>1
  <2>4. \A i \in 1..n : i \in Int
    OBVIOUS
  <2> QED
    BY <2>1, <2>2, <2>3, <2>4 DEF Front
<1>2. IsInjective(Front(s))
  BY <1>0, <1>1 DEF IsInjective
<1>3. ToSet(Front(s)) = ToSet(s) \ {Last(s)}
  BY <1>0, <1>1 DEF ToSet, IsInjective
<1>4. Last(s) \in ToSet(s)
  BY <1>0 DEF ToSet
<1> QED
  BY <1>0, <1>1, <1>2, <1>3, <1>4

(* Two lists with nothing in common, one behind the other. *)
LEMMA OnceConcat ==
  ASSUME NEW S, NEW s \in Seq(S), NEW t \in Seq(S), IsInjective(s), IsInjective(t),
         ToSet(s) \cap ToSet(t) = {}
  PROVE  s \o t \in Seq(S) /\ IsInjective(s \o t) /\ ToSet(s \o t) = ToSet(s) \cup ToSet(t)
<1>1. /\ s \o t \in Seq(S) /\ Len(s \o t) = Len(s) + Len(t) /\ Len(s) \in Nat /\ Len(t) \in Nat
      /\ DOMAIN s = 1..Len(s) /\ DOMAIN t = 1..Len(t) /\ DOMAIN (s \o t) = 1..(Len(s) + Len(t))
  OBVIOUS
<1>2. \A i \in 1..Len(s) : (s \o t)[i] = s[i]
  OBVIOUS
<1>3. \A i \in 1..Len(t) : (s \o t)[Len(s) + i] = t[i]
  OBVIOUS
<1>4. \A i \in DOMAIN (s \o t) : i \in 1..Len(s) \/ \E k \in 1..Len(t) : i = Len(s) + k
  <2> SUFFICES ASSUME NEW i \in DOMAIN (s \o t), i \notin 1..Len(s)
               PROVE  \E k \in 1..Len(t) : i = Len(s) + k
    OBVIOUS
  <2> i - Len(s) \in 1..Len(t) /\ i = Len(s) + (i - Len(s))
    BY <1>1
  <2> QED
    OBVIOUS
<1>5. \A i \in 1..Len(s), k \in 1..Len(t) : s[i] # t[k]
  BY <1>1 DEF ToSet
<1>6. IsInjective(s \o t)
  <2> SUFFICES ASSUME NEW i \in DOMAIN (s \o t), NEW k \in DOMAIN (s \o t), (s \o t)[i] = (s \o t)[k]
               PROVE  i = k
    BY DEF IsInjective
  <2>1. CASE i \in 1..Len(s) /\ k \in 1..Len(s)
    BY <1>1, <1>2, <2>1 DEF IsInjective
  <2>2. CASE i \in 1..Len(s) /\ k \notin 1..Len(s)
    BY <1>2, <1>3, <1>4, <1>5, <2>2
  <2>3. CASE i \notin 1..Len(s) /\ k \in 1..Len(s)
    BY <1>2, <1>3, <1>4, <1>5, <2>3
  <2>4. CASE i \notin 1..Len(s) /\ k \notin 1..Len(s)
    BY <1>1, <1>3, <1>4, <2>4 DEF IsInjective
  <2> QED
    BY <2>1, <2>2, <2>3, <2>4
<1>7. ToSet(s \o t) \subseteq ToSet(s) \cup ToSet(t)
  BY <1>1, <1>2, <1>3, <1>4 DEF ToSet
<1>8. ToSet(s) \cup ToSet(t) \subseteq ToSet(s \o t)
  <2>1. \A i \in 1..Len(s) : i \in DOMAIN (s \o t)
    BY <1>1
  <2>2. \A i \in 1..Len(t) : Len(s) + i \in DOMAIN (s \o t)
    BY <1>1
  <2>3. ToSet(s) \subseteq ToSet(s \o t)
    BY <1>1, <1>2, <2>1 DEF ToSet
  <2>4. ToSet(t) \subseteq ToSet(s \o t)
    BY <1>1, <1>3, <2>2 DEF ToSet
  <2> QED
    BY <2>3, <2>4
<1> QED
  BY <1>1, <1>6, <1>7, <1>8

(* A member of the batch leaves it. *)
LEMMA OnceRemoveAt ==
  ASSUME NEW S, NEW s \in Seq(S), IsInjective(s), NEW p \in 1..Len(s)
  PROVE  /\ RemoveAt(s, p) \in Seq(S) /\ IsInjective(RemoveAt(s, p))
         /\ ToSet(RemoveAt(s, p)) = ToSet(s) \ {s[p]} /\ s[p] \in ToSet(s) /\ s[p] \in S
<1> DEFINE a == SubSeq(s, 1, p - 1)
           b == SubSeq(s, p + 1, Len(s))
<1>1. Len(s) \in Nat /\ DOMAIN s = 1..Len(s) /\ s[p] \in S
  OBVIOUS
<1>2. /\ a \in Seq(S) /\ Len(a) = p - 1 /\ DOMAIN a = 1..(p - 1)
      /\ \A i \in 1..(p - 1) : a[i] = s[i]
  <2>1. /\ a \in Seq(S) /\ Len(a) = p - 1 - 1 + 1 /\ DOMAIN a = 1..(p - 1 - 1 + 1)
        /\ \A i \in 1..(p - 1 - 1 + 1) : a[i] = s[1 + i - 1]
    BY <1>1, Part
  <2> QED
    BY <2>1
<1>3. /\ b \in Seq(S) /\ Len(b) = Len(s) - p /\ DOMAIN b = 1..(Len(s) - p)
      /\ \A i \in 1..(Len(s) - p) : b[i] = s[p + i]
  <2>1. PICK m \in 1..(Len(s) + 1) : m = p + 1 /\ Len(s) \in (m - 1)..Len(s)
    BY <1>1
  <2>2. /\ SubSeq(s, m, Len(s)) \in Seq(S) /\ Len(SubSeq(s, m, Len(s))) = Len(s) - m + 1
        /\ DOMAIN SubSeq(s, m, Len(s)) = 1..(Len(s) - m + 1)
        /\ \A i \in 1..(Len(s) - m + 1) : SubSeq(s, m, Len(s))[i] = s[m + i - 1]
    BY <2>1, Part
  <2>3. Len(s) - m + 1 = Len(s) - p /\ \A i \in Int : m + i - 1 = p + i
    BY <1>1, <2>1
  <2>4. \A i \in 1..(Len(s) - p) : i \in Int
    OBVIOUS
  <2> QED
    BY <2>1, <2>2, <2>3, <2>4
<1> HIDE DEF a, b
<1>4. IsInjective(a)
  BY <1>1, <1>2 DEF IsInjective
<1>5. IsInjective(b)
  <2>1. \A i \in 1..(Len(s) - p) : p + i \in 1..Len(s)
    BY <1>1
  <2> SUFFICES ASSUME NEW i \in 1..(Len(s) - p), NEW k \in 1..(Len(s) - p), s[p + i] = s[p + k]
               PROVE  i = k
    BY <1>3 DEF IsInjective
  <2> p + i = p + k
    BY <1>1, <2>1 DEF IsInjective
  <2> QED
    OBVIOUS
<1>6. ToSet(a) \cap ToSet(b) = {}
  <2> SUFFICES ASSUME NEW i \in 1..(p - 1), NEW k \in 1..(Len(s) - p) PROVE a[i] # b[k]
    BY <1>2, <1>3 DEF ToSet
  <2> i \in 1..Len(s) /\ p + k \in 1..Len(s) /\ i # p + k
    BY <1>1
  <2> QED
    BY <1>1, <1>2, <1>3 DEF IsInjective
<1>7. ToSet(a) \cup ToSet(b) = ToSet(s) \ {s[p]}
  <2>1. \A i \in 1..Len(s) : i \in 1..(p - 1) \/ i = p \/ i - p \in 1..(Len(s) - p)
    BY <1>1
  <2>2. \A i \in 1..(p - 1) : i \in 1..Len(s) /\ i # p
    BY <1>1
  <2>3. \A i \in 1..(Len(s) - p) : p + i \in 1..Len(s) /\ p + i # p
    BY <1>1
  <2>4. ToSet(a) \cup ToSet(b) \subseteq ToSet(s) \ {s[p]}
    <3>1. \A i \in 1..(p - 1) : a[i] \in ToSet(s) \ {s[p]}
      BY <1>1, <1>2, <2>2 DEF ToSet, IsInjective
    <3>2. \A i \in 1..(Len(s) - p) : b[i] \in ToSet(s) \ {s[p]}
      BY <1>1, <1>3, <2>3 DEF ToSet, IsInjective
    <3> QED
      BY <1>2, <1>3, <3>1, <3>2 DEF ToSet
  <2>5. ASSUME NEW i \in 1..Len(s), s[i] # s[p] PROVE s[i] \in ToSet(a) \cup ToSet(b)
    <3>1. CASE i \in 1..(p - 1)
      BY <1>2, <3>1 DEF ToSet
    <3>2. CASE i - p \in 1..(Len(s) - p)
      <4> b[i - p] = s[i]
        BY <1>1, <1>3, <3>2
      <4> QED
        BY <1>3, <3>2 DEF ToSet
    <3> QED
      BY <2>1, <2>5, <3>1, <3>2
  <2> QED
    BY <1>1, <2>4, <2>5 DEF ToSet
<1>8. RemoveAt(s, p) = a \o b
  BY DEF RemoveAt, a, b
<1>9. a \o b \in Seq(S) /\ IsInjective(a \o b) /\ ToSet(a \o b) = ToSet(a) \cup ToSet(b)
  BY <1>2, <1>3, <1>4, <1>5, <1>6, OnceConcat
<1>10. s[p] \in ToSet(s)
  BY <1>1 DEF ToSet
<1> QED
  BY <1>1, <1>7, <1>8, <1>9, <1>10

(* Where a list has a request once, counting its places gives one. *)
LEMMA OnceCount ==
  ASSUME NEW S, NEW s \in Seq(S), IsInjective(s), NEW x
  PROVE  Cardinality({i \in 1..Len(s) : s[i] = x}) = IF x \in ToSet(s) THEN 1 ELSE 0
<1>1. DOMAIN s = 1..Len(s)
  OBVIOUS
<1>2. CASE x \in ToSet(s)
  <2> PICK p \in 1..Len(s) : s[p] = x
    BY <1>1, <1>2 DEF ToSet
  <2> {i \in 1..Len(s) : s[i] = x} = {p}
    BY <1>1 DEF IsInjective
  <2> QED
    BY <1>2, FS_Singleton
<1>3. CASE x \notin ToSet(s)
  <2> {i \in 1..Len(s) : s[i] = x} = {}
    BY <1>1, <1>3 DEF ToSet
  <2> QED
    BY <1>3, FS_EmptySet
<1> QED
  BY <1>2, <1>3

(* A list without repetitions is as long as it has members. *)
LEMMA OnceLength ==
  ASSUME NEW S, NEW s \in Seq(S), IsInjective(s)
  PROVE  IsFiniteSet(ToSet(s)) /\ Cardinality(ToSet(s)) = Len(s)
<1>1. Len(s) \in Nat /\ DOMAIN s = 1..Len(s)
  OBVIOUS
<1>2. s \in [1..Len(s) -> ToSet(s)]
  BY <1>1 DEF ToSet
<1>3. s \in Bijection(1..Len(s), ToSet(s))
  BY <1>1, <1>2 DEF Bijection, Injection, Surjection, IsInjective, ToSet
<1>4. ExistsBijection(1..Len(s), ToSet(s))
  BY <1>3 DEF ExistsBijection
<1>5. IsFiniteSet(1..Len(s)) /\ Cardinality(1..Len(s)) = Len(s)
  BY <1>1, FS_Interval
<1> QED
  BY <1>4, <1>5, FS_Bijection

(* What is sampled in a pass is each of the members at the places once. *)
LEMMA InOrderOnce ==
  ASSUME NEW batch \in Seq(Req), IsInjective(batch), NEW places \in SUBSET (1..Len(batch)),
         NEW s \in InOrder(batch, places)
  PROVE  s \in Seq(Req) /\ IsInjective(s) /\ ToSet(s) \subseteq {batch[i] : i \in places}
<1>1. Len(batch) \in Nat /\ DOMAIN batch = 1..Len(batch)
  OBVIOUS
<1>2. Cardinality(places) \in Nat
  <2>1. IsFiniteSet(1..Len(batch))
    BY <1>1, FS_Interval
  <2>2. IsFiniteSet(places)
    BY <2>1, FS_Subset
  <2> QED
    BY <2>2, FS_CardinalityType
<1>3. PICK t \in [1..Cardinality(places) -> places] :
        (\A i, k \in DOMAIN t : i < k => t[i] < t[k]) /\ s = [k \in DOMAIN t |-> batch[t[k]]]
  BY DEF InOrder
<1>4. s \in [1..Cardinality(places) -> Req] /\ \A k \in 1..Cardinality(places) : t[k] \in 1..Len(batch)
  <2>1. \A k \in 1..Cardinality(places) : t[k] \in 1..Len(batch)
    BY <1>3
  <2>2. \A k \in 1..Cardinality(places) : batch[t[k]] \in Req
    BY <1>1, <2>1
  <2>3. DOMAIN t = 1..Cardinality(places)
    BY <1>3
  <2> QED
    BY <1>3, <2>1, <2>2, <2>3
<1>5. s \in Seq(Req) /\ DOMAIN s = 1..Cardinality(places)
  BY <1>2, <1>4
<1>6. \A i, k \in 1..Cardinality(places) : s[i] = s[k] => t[i] = t[k]
  BY <1>1, <1>3, <1>4 DEF IsInjective
<1>7. \A i, k \in 1..Cardinality(places) : t[i] = t[k] => i = k
  <2> SUFFICES ASSUME NEW i \in 1..Cardinality(places), NEW k \in 1..Cardinality(places), t[i] = t[k]
               PROVE  ~(i < k) /\ ~(k < i)
    BY <1>2
  <2> t[i] \in Nat /\ t[k] \in Nat
    BY <1>1, <1>4
  <2> QED
    BY <1>3
<1>8. ToSet(s) \subseteq {batch[i] : i \in places}
  BY <1>3, <1>5 DEF ToSet
<1> QED
  BY <1>5, <1>6, <1>7, <1>8 DEF IsInjective

-----------------------------------------------------------------------------
(* The requests whose promise is open. *)
Waiting == {r \in Req : status[r] = "accepted" /\ result[r] = "none"}

(* Only an accepted request is answered. *)
Accepted == \A r \in Req : result[r] # "none" => status[r] = "accepted"

(* An answer takes its request out of the waiting ones. *)
LEMMA Delivered ==
  ASSUME SharedTypeOK, Accepted, NEW r \in Req, r \in Waiting, NEW why \in Reason, why # "unset",
         deliver(r, why), UNCHANGED status
  PROVE  /\ result' \in [Req -> (Reason \ {"unset"}) \cup {"none"}]
         /\ result'[r] = why /\ why # "none" /\ \A q \in Req : q # r => result'[q] = result[q]
         /\ Waiting' = Waiting \ {r} /\ Accepted' /\ result[r] = "none"
<1>1. result \in [Req -> (Reason \ {"unset"}) \cup {"none"}] /\ result' = [result EXCEPT ![r] = why]
  BY DEF SharedTypeOK, deliver
<1>2. why # "none"
  BY DEF Reason
<1>3. /\ result' \in [Req -> (Reason \ {"unset"}) \cup {"none"}]
      /\ result'[r] = why /\ \A q \in Req : q # r => result'[q] = result[q]
  BY <1>1
<1>4. Waiting' = Waiting \ {r}
  BY <1>2, <1>3 DEF Waiting
<1>5. Accepted'
  BY <1>3 DEF Accepted, Waiting
<1> QED
  BY <1>2, <1>3, <1>4, <1>5 DEF Waiting
=============================================================================
