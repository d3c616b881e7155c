--------------------------- MODULE StreamingProofs ---------------------------
(***************************************************************************)
(* The stop-string hold-back, the response and the terminal event are      *)
(* right for every set of stop strings, every rendering of the tokens and  *)
(* every number of restarts.                                               *)
(***************************************************************************)
EXTENDS Streaming, SequenceTheorems, TLAPS

(* Where the scheduler thread is once the push in progress has returned. *)
at == IF pc = "notify" THEN then ELSE pc

all == taken \o events

(* A sequence without a reason is generating and not notified; one whose   *)
(* finish() has run is notified.                                           *)
Control ==
  /\ at \in {"sample", "poll"} <=> reason = "unset"
  /\ reason = "unset" => ~notified
  /\ at \in {"terminal", "deliver", "done"} => notified

(* While it generates, no stop has occurred and the bytes in which one may *)
(* begin are held back.                                                    *)
HeldBack ==
  reason = "unset" =>
    /\ StopPositions(text) = {}
    /\ max_stop_len = 0 \/ emitted = 0 \/ emitted + max_stop_len <= Len(text) + 1

(* How much is emitted once the sequence has ended. *)
Ended ==
  /\ reason \in {"eos", "max_tokens", "cancelled"} => StopPositions(text) = {}
  /\ reason = "cancelled" \/ (notified /\ reason \in {"eos", "max_tokens"}) => emitted = Len(text)
  /\ reason = "stop" => IsEarliestStop(text, emitted)

(* The sink has heard the emitted bytes of this attempt, in order. *)
HeardIsEmitted ==
  /\ Len(heard) = base + emitted
  /\ \A k \in 1..emitted : heard[base + k] = text[k]

ResultIsEmitted ==
  /\ pc # "done" => result = NoResult
  /\ pc = "done" => result = [text |-> SubSeq(text, 1, emitted), reason |-> reason]

Told == at \in {"deliver", "done"} \/ (at = "finish" /\ notified)

(* The sink has been told the end once, after everything else. *)
ToldLast ==
  /\ \A i \in 1..Len(all) : all[i].terminal => i = Len(all) /\ Told
  /\ Told => all # << >> /\ all[Len(all)].terminal

IInv ==
  /\ TypeOK /\ NeverIntoStop
  /\ Control /\ HeldBack /\ Ended /\ HeardIsEmitted /\ ResultIsEmitted /\ ToldLast

-----------------------------------------------------------------------------
(* The elements of a concatenation. *)
LEMMA ConcatElements ==
  ASSUME NEW S, NEW a \in Seq(S), NEW b \in Seq(S)
  PROVE  /\ a \o b \in Seq(S) /\ Len(a \o b) = Len(a) + Len(b)
         /\ \A k \in 1..Len(a) : (a \o b)[k] = a[k]
         /\ \A k \in 1..Len(b) : (a \o b)[Len(a) + k] = b[k]
<1>1. /\ a \o b \in Seq(S) /\ Len(a \o b) = Len(a) + Len(b)
      /\ \A i \in 1..(Len(a) + Len(b)) : (a \o b)[i] = IF i <= Len(a) THEN a[i] ELSE b[i - Len(a)]
  BY ConcatProperties
<1>2. PICK m \in Nat, n \in Nat : m = Len(a) /\ n = Len(b)
  OBVIOUS
<1>3. ASSUME NEW k \in 1..n
      PROVE  (a \o b)[m + k] = b[k]
  <2>1. m + k \in 1..(m + n) /\ ~(m + k <= m) /\ (m + k) - m = k
    OBVIOUS
  <2> QED
    BY <1>1, <1>2, <2>1
<1>4. ASSUME NEW k \in 1..m
      PROVE  (a \o b)[k] = a[k]
  <2>1. k \in 1..(m + n) /\ k <= m
    OBVIOUS
  <2> QED
    BY <1>1, <1>2, <2>1
<1> QED
  BY <1>1, <1>2, <1>3, <1>4

(* No stop string is longer than max_stop_len(). *)
LEMMA MaxStopLen ==
  /\ max_stop_len \in Nat
  /\ \A s \in Stop : s \in Seq(Byte) /\ Len(s) \in Nat /\ Len(s) <= max_stop_len
<1>1. CASE Stop = {}
  BY <1>1 DEF max_stop_len
<1>2. CASE Stop # {}
  <2> DEFINE m == CHOOSE s \in Stop : \A t \in Stop : Len(t) <= Len(s)
  <2>1. m \in Stop /\ \A t \in Stop : Len(t) <= Len(m)
    BY <1>2, TextAssumption
  <2>2. \A s \in Stop : s \in Seq(Byte) /\ Len(s) \in Nat
    BY TextAssumption
  <2>3. max_stop_len = Len(m)
    BY <1>2 DEF max_stop_len
  <2> QED
    BY <2>1, <2>2, <2>3
<1> QED
  BY <1>1, <1>2

(* The hold-back of accept(): when a text without a stop grows, a stop in  *)
(* the longer text begins at most max_stop_len() - 1 bytes before the old  *)
(* end.                                                                    *)
LEMMA NewStopIsLate ==
  ASSUME NEW t \in Seq(Byte), NEW p \in Seq(Byte), StopPositions(t) = {},
         NEW q \in StopPositions(t \o p)
  PROVE  q \in Nat /\ max_stop_len > 0 /\ q + max_stop_len > Len(t)
<1>1. PICK s \in Stop : s # << >> /\ OccursAt(s, t \o p, q)
  BY DEF StopPositions
<1>2. s \in Seq(Byte) /\ Len(s) \in Nat /\ Len(s) <= max_stop_len /\ max_stop_len \in Nat
  BY MaxStopLen
<1>3. Len(s) > 0
  BY <1>1, <1>2, EmptySeq
<1>4. q \in Nat
  BY DEF StopPositions
<1>5. ASSUME q + Len(s) <= Len(t)
      PROVE  FALSE
  <2>1. \A k \in 1..Len(s) : (t \o p)[q + k] = t[q + k]
    BY <1>2, <1>4, <1>5
  <2>2. OccursAt(s, t, q)
    BY <1>1, <1>5, <2>1 DEF OccursAt
  <2>3. q \in 0..Len(t)
    BY <1>2, <1>4, <1>5
  <2> QED
    BY <1>1, <2>2, <2>3 DEF StopPositions
<1> QED
  BY <1>2, <1>3, <1>4, <1>5

(* flush_upto() hands over the bytes of t from emitted_ up to upto, and    *)
(* nothing when that is no more than it has had.                           *)
LEMMA FlushUpto ==
  ASSUME TypeOK, NEW t \in Seq(Byte), NEW upto \in 0..Len(t),
         NEW next \in {"sample", "poll", "finish", "terminal"},
         emitted <= Len(t), flush_upto(t, upto, next)
  PROVE  /\ emitted' = IF upto > emitted THEN upto ELSE emitted
         /\ emitted' \in 0..Len(t)
         /\ heard' \in Seq(Byte) /\ Len(heard') = Len(heard) + (emitted' - emitted)
         /\ \A k \in 1..Len(heard) : heard'[k] = heard[k]
         /\ \A k \in (emitted + 1)..emitted' : heard'[Len(heard) + (k - emitted)] = t[k]
         /\ events' \in Seq(Event)
         /\ events' = events \/ \E e \in Event : ~e.terminal /\ events' = Append(events, e)
         /\ at' = next /\ pc' # "done"
         /\ pc' \in {"sample", "poll", "finish", "terminal", "notify"}
         /\ then' \in {"sample", "poll", "finish", "terminal"}
<1>0. emitted \in Nat /\ upto \in Nat /\ heard \in Seq(Byte) /\ events \in Seq(Event)
      /\ then \in {"sample", "poll", "finish", "terminal"} /\ Len(t) \in Nat /\ Len(heard) \in Nat
  BY DEF TypeOK
<1>1. CASE upto > emitted
  <2> DEFINE delta == SubSeq(t, emitted + 1, upto)
  <2>1. /\ events' = Append(events, Delta(delta)) /\ pc' = "notify" /\ then' = next
        /\ emitted' = upto /\ heard' = heard \o delta
    BY <1>1 DEF flush_upto, push
  <2>2. /\ delta \in Seq(Byte) /\ Len(delta) = upto - emitted
        /\ \A k \in 1..(upto - emitted) : delta[k] = t[emitted + k]
    BY <1>0, <1>1
  <2>3. Delta(delta) \in Event /\ ~Delta(delta).terminal
    BY <2>2 DEF Delta, Event
  <2>4. /\ heard' \in Seq(Byte) /\ Len(heard') = Len(heard) + (upto - emitted)
        /\ \A k \in 1..Len(heard) : heard'[k] = heard[k]
        /\ \A j \in 1..(upto - emitted) : heard'[Len(heard) + j] = delta[j]
    <3>1. PICK d \in Seq(Byte) : d = delta
      BY <2>2
    <3>2. PICK n \in Nat : n = upto - emitted
      BY <1>0, <1>1
    <3>3. PICK h \in Seq(Byte) : h = heard
      BY <1>0
    <3>4. heard' = h \o d /\ Len(d) = n
      BY <2>1, <2>2, <3>1, <3>2, <3>3
    <3>5. /\ h \o d \in Seq(Byte) /\ Len(h \o d) = Len(h) + Len(d)
          /\ \A k \in 1..Len(h) : (h \o d)[k] = h[k]
          /\ \A k \in 1..Len(d) : (h \o d)[Len(h) + k] = d[k]
      BY <3>1, <3>3, ConcatElements
    <3> HIDE DEF delta
    <3> QED
      BY <3>1, <3>2, <3>3, <3>4, <3>5
  <2>5. ASSUME NEW k \in (emitted + 1)..upto
        PROVE  heard'[Len(heard) + (k - emitted)] = t[k]
    <3>1. k - emitted \in 1..(upto - emitted) /\ emitted + (k - emitted) = k
      BY <1>0
    <3> HIDE DEF delta
    <3> QED
      BY <2>2, <2>4, <3>1
  <2>6. at' = next
    BY <2>1 DEF at
  <2>7. events' \in Seq(Event)
    BY <1>0, <2>1, <2>3
  <2> HIDE DEF delta
  <2> QED
    BY <1>0, <1>1, <2>1, <2>3, <2>4, <2>5, <2>6, <2>7
<1>2. CASE ~(upto > emitted)
  <2>1. pc' = next /\ UNCHANGED <<then, events, emitted, heard>>
    BY <1>2 DEF flush_upto
  <2> QED
    BY <1>0, <1>2, <2>1 DEF at
<1> QED
  BY <1>1, <1>2

(* push_back() on events_ appends to all events of the stream. *)
LEMMA AllAppend ==
  ASSUME NEW s \in Seq(Event), NEW t \in Seq(Event), NEW e \in Event
  PROVE  /\ s \o t \in Seq(Event)
         /\ s \o Append(t, e) = Append(s \o t, e)
OBVIOUS

(* next() moves the first event and changes none. *)
LEMMA AllMove ==
  ASSUME NEW s \in Seq(Event), NEW t \in Seq(Event), t # << >>
  PROVE  /\ Append(s, Head(t)) \in Seq(Event) /\ Tail(t) \in Seq(Event)
         /\ Append(s, Head(t)) \o Tail(t) = s \o t
OBVIOUS

NoneTold == \A i \in 1..Len(all) : ~all[i].terminal

(* A delta, or no event at all, is not terminal. *)
LEMMA QuietEvents ==
  ASSUME TypeOK, NoneTold, taken' = taken,
         events' = events \/ \E e \in Event : ~e.terminal /\ events' = Append(events, e)
  PROVE  NoneTold'
<1>1. PICK s \in Seq(Event), t \in Seq(Event) : s = taken /\ t = events
  BY DEF TypeOK
<1>2. CASE events' = events
  BY <1>2 DEF NoneTold, all
<1>3. ASSUME NEW e \in Event, ~e.terminal, events' = Append(events, e)
      PROVE  NoneTold'
  <2>1. all' = Append(s \o t, e) /\ all = s \o t /\ s \o t \in Seq(Event)
    BY <1>1, <1>3, AllAppend DEF all
  <2>2. PICK u \in Seq(Event) : u = s \o t
    BY <2>1
  <2>3. \A i \in 1..Len(Append(u, e)) : ~Append(u, e)[i].terminal
    <3>1. \A i \in 1..Len(u) : ~u[i].terminal
      BY <2>1, <2>2 DEF NoneTold
    <3>2. ASSUME NEW i \in 1..Len(Append(u, e))
          PROVE  ~Append(u, e)[i].terminal
      <4>1. i \in 1..Len(u) \/ i = Len(u) + 1
        BY <1>3, <2>2, <3>2
      <4>2. CASE i \in 1..Len(u)
        BY <2>2, <3>1, <4>2
      <4>3. CASE i = Len(u) + 1
        BY <1>3, <2>2, <4>3
      <4> QED
        BY <4>1, <4>2, <4>3
    <3> QED
      BY <3>2
  <2> QED
    BY <2>1, <2>2, <2>3 DEF NoneTold
<1> QED
  BY <1>2, <1>3

(* A flush keeps the sink's text equal to the emitted bytes, also when the *)
(* text has just grown.                                                    *)
LEMMA FlushKeepsHeard ==
  ASSUME TypeOK, HeardIsEmitted, NEW t \in Seq(Byte), NEW upto \in 0..Len(t),
         NEW next \in {"sample", "poll", "finish", "terminal"},
         flush_upto(t, upto, next), text' = t, base' = base,
         Len(text) <= Len(t), \A k \in 1..Len(text) : t[k] = text[k]
  PROVE  HeardIsEmitted'
<1>1. PICK em \in Nat, b \in Nat : em = emitted /\ b = base
  BY DEF TypeOK
<1>2. /\ em <= Len(text) /\ em <= Len(t) /\ Len(heard) = b + em
      /\ Len(text) \in Nat /\ Len(t) \in Nat
  BY <1>1 DEF TypeOK, HeardIsEmitted
<1>3. /\ emitted' \in Nat /\ emitted' >= em
      /\ Len(heard') = Len(heard) + (emitted' - em)
      /\ \A k \in 1..Len(heard) : heard'[k] = heard[k]
      /\ \A k \in (em + 1)..emitted' : heard'[Len(heard) + (k - em)] = t[k]
  BY <1>1, <1>2, FlushUpto
<1>4. Len(heard') = base' + emitted'
  BY <1>1, <1>2, <1>3
<1>5. ASSUME NEW k \in 1..emitted'
      PROVE  heard'[base' + k] = text'[k]
  <2>1. CASE k <= em
    <3>1. b + k \in 1..Len(heard) /\ k \in 1..em /\ k \in 1..Len(text)
      BY <1>2, <1>3, <2>1
    <3>2. heard'[b + k] = heard[b + k] /\ heard[b + k] = text[k] /\ t[k] = text[k]
      BY <1>1, <1>3, <3>1 DEF HeardIsEmitted
    <3> QED
      BY <1>1, <3>2
  <2>2. CASE k > em
    <3>1. k \in (em + 1)..emitted' /\ Len(heard) + (k - em) = b + k
      BY <1>2, <1>3, <2>2
    <3> QED
      BY <1>1, <1>3, <3>1
  <2> QED
    BY <1>3, <2>1, <2>2
<1> QED
  BY <1>4, <1>5 DEF HeardIsEmitted

(* The initial state satisfies the inductive invariant. *)
LEMMA InitIInv == Init => IInv
<1> SUFFICES ASSUME Init
             PROVE  IInv
  OBVIOUS
<1> USE DEF Init
<1>1. TypeOK
  <2>1. << >> \in Seq(Byte) /\ << >> \in Seq(Event)
    OBVIOUS
  <2>2. NoResult \in [text : Seq(Byte), reason : Reason \cup {"none"}]
    BY <2>1 DEF NoResult
  <2>3. reason \in Reason
    BY DEF Reason
  <2>4. emitted \in 0..Len(text) /\ base \in 0..Len(heard)
        /\ completion \in 0..MaxTokens /\ restarts \in 0..MaxRestarts
    BY TextAssumption
  <2> QED
    BY <2>1, <2>2, <2>3, <2>4 DEF TypeOK
<1>2. StopPositions(text) = {}
  <2>1. ASSUME NEW s \in Stop, s # << >>, NEW p \in 0..Len(text), OccursAt(s, text, p)
        PROVE  FALSE
    BY <2>1, MaxStopLen, EmptySeq DEF OccursAt
  <2> QED
    BY <2>1 DEF StopPositions
<1>3. all = << >>
  BY DEF all
<1> QED
  BY <1>1, <1>2, <1>3 DEF IInv, NeverIntoStop, Control, HeldBack, Ended, HeardIsEmitted,
       ResultIsEmitted, ToldLast, Told, at

-----------------------------------------------------------------------------
(* What the HTTP thread, the client and the shutdown do leaves the         *)
(* generated text and the order of the events alone.                       *)
LEMMA ConsumerKeeps ==
  ASSUME IInv, TypeOK', UNCHANGED producer, all' = all
  PROVE  IInv'
BY DEF IInv, producer, attempt, NeverIntoStop, Control, HeldBack, Ended, HeardIsEmitted,
       ResultIsEmitted, ToldLast, Told, at

(* So the steps of the content provider keep the inductive invariant. *)
LEMMA ConsumerStep ==
  ASSUME IInv,
         \/ NextEvent \/ Wait \/ WriteDelta \/ WriteFails \/ WriteTail
         \/ SpuriousWakeup \/ HangUp \/ ShutDown \/ UNCHANGED vars
  PROVE  IInv'
<1>1. CASE NextEvent
  <2>1. PICK s \in Seq(Event), t \in Seq(Event) : s = taken /\ t = events
    BY DEF IInv, TypeOK
  <2>2. t # << >> /\ taken' = Append(s, Head(t)) /\ events' = Tail(t)
    BY <1>1, <2>1 DEF NextEvent
  <2>3. all' = all /\ taken' \in Seq(Event) /\ events' \in Seq(Event)
    BY <2>1, <2>2, AllMove DEF all
  <2>4. UNCHANGED producer
    BY <1>1 DEF NextEvent
  <2>5. TypeOK'
    BY <1>1, <2>3 DEF IInv, TypeOK, NextEvent, producer, attempt
  <2> QED
    BY <2>3, <2>4, <2>5, ConsumerKeeps
<1>2. CASE \/ Wait \/ WriteDelta \/ WriteFails \/ WriteTail
           \/ SpuriousWakeup \/ HangUp \/ ShutDown \/ UNCHANGED vars
  <2> USE DEF Wait, WriteDelta, WriteFails, WriteTail, SpuriousWakeup, HangUp, ShutDown,
              vars, consumer
  <2>1. UNCHANGED producer /\ UNCHANGED <<taken, events>>
    BY <1>2
  <2>2. cancel' \in BOOLEAN /\ hungup' \in BOOLEAN /\ shutting' \in BOOLEAN
    BY <1>2, Zenon DEF IInv, TypeOK
  <2>3. reader' \in {"next", "asleep", "write", "returned"}
    BY <1>2 DEF IInv, TypeOK
  <2>4. TypeOK'
    BY <2>1, <2>2, <2>3 DEF IInv, TypeOK, producer, attempt
  <2> QED
    BY <2>1, <2>4, ConsumerKeeps DEF all
<1> QED
  BY <1>1, <1>2

(* accept() of an end-of-generation token or beyond the limit, and fail(), *)
(* only give the reason.                                                   *)
LEMMA StopWith ==
  ASSUME IInv, NEW why \in {"eos", "max_tokens", "error", "context_overflow"},
         pc = "sample", reason' = why, pc' = "finish",
         UNCHANGED <<then, text, emitted, completion, notified, result, restarts, heard, base,
                     consumer, events, hungup, shutting>>
  PROVE  IInv'
<1>1. reason = "unset" /\ ~notified /\ ~notified'
  BY DEF IInv, Control, at
<1>2. TypeOK'
  BY DEF IInv, TypeOK, Reason, consumer
<1>3. NeverIntoStop' /\ HeardIsEmitted' /\ ResultIsEmitted'
  BY DEF IInv, NeverIntoStop, HeardIsEmitted, ResultIsEmitted
<1>4. Control' /\ HeldBack'
  BY <1>1 DEF Control, HeldBack, at
<1>5. Ended'
  BY <1>1 DEF IInv, HeldBack, Ended
<1>6. ToldLast'
  BY <1>1 DEF IInv, ToldLast, Told, at, all, consumer
<1> QED
  BY <1>2, <1>3, <1>4, <1>5, <1>6 DEF IInv

(* A preempted request starts over; the sink keeps what it has heard. *)
LEMMA PreemptStep ==
  ASSUME IInv, Preempt
  PROVE  IInv'
<1> USE DEF Preempt
<1>1. reason = "unset" /\ ~notified
  BY DEF IInv, Control, at
<1>2. TypeOK'
  <2>1. << >> \in Seq(Byte) /\ emitted' \in 0..Len(text') /\ completion' \in 0..MaxTokens
        /\ restarts' \in 0..MaxRestarts /\ base' \in 0..Len(heard')
    BY TextAssumption DEF IInv, TypeOK
  <2> QED
    BY <2>1 DEF IInv, TypeOK, consumer
<1>3. StopPositions(text') = {}
  <2>1. ASSUME NEW s \in Stop, s # << >>, NEW p \in 0..Len(text'), OccursAt(s, text', p)
        PROVE  FALSE
    BY <2>1, MaxStopLen, EmptySeq DEF OccursAt
  <2> QED
    BY <2>1 DEF StopPositions
<1>4. NeverIntoStop' /\ HeldBack' /\ Ended'
  BY <1>1, <1>3 DEF NeverIntoStop, HeldBack, Ended
<1>5. HeardIsEmitted'
  BY DEF IInv, TypeOK, HeardIsEmitted
<1>6. Control' /\ ResultIsEmitted' /\ ToldLast'
  BY <1>1 DEF IInv, Control, ResultIsEmitted, ToldLast, Told, at, all, consumer
<1> QED
  BY <1>2, <1>4, <1>5, <1>6 DEF IInv

(* What every step with a flush establishes. *)
LEMMA FlushStep ==
  ASSUME IInv, ~Told, pc # "done", NEW t \in Seq(Byte), NEW upto \in 0..Len(t),
         NEW next \in {"sample", "poll", "finish", "terminal"},
         flush_upto(t, upto, next), text' = t,
         Len(text) <= Len(t), \A k \in 1..Len(text) : t[k] = text[k],
         completion' \in 0..MaxTokens, reason' \in Reason, notified' \in BOOLEAN,
         UNCHANGED <<result, restarts, base, consumer, hungup, shutting>>
  PROVE  /\ TypeOK' /\ HeardIsEmitted' /\ ResultIsEmitted' /\ NoneTold'
         /\ at' = next
         /\ emitted' = IF upto > emitted THEN upto ELSE emitted
<1>1. TypeOK /\ HeardIsEmitted /\ ResultIsEmitted
  BY DEF IInv
<1>2. NoneTold
  BY DEF IInv, ToldLast, NoneTold
<1>3. emitted <= Len(t) /\ emitted \in Nat /\ base \in Nat /\ Len(heard) \in Nat /\ base <= Len(heard)
  BY <1>1 DEF TypeOK
<1>4. /\ emitted' = IF upto > emitted THEN upto ELSE emitted
      /\ emitted' \in 0..Len(t) /\ heard' \in Seq(Byte)
      /\ Len(heard') = Len(heard) + (emitted' - emitted)
      /\ events' \in Seq(Event)
      /\ events' = events \/ \E e \in Event : ~e.terminal /\ events' = Append(events, e)
      /\ at' = next /\ pc' # "done"
      /\ pc' \in {"sample", "poll", "finish", "terminal", "notify"}
      /\ then' \in {"sample", "poll", "finish", "terminal"}
  BY <1>1, <1>3, FlushUpto
<1>5. base' \in 0..Len(heard')
  BY <1>3, <1>4
<1>6. TypeOK'
  BY <1>1, <1>4, <1>5 DEF TypeOK, consumer
<1>7. HeardIsEmitted'
  BY <1>1, FlushKeepsHeard
<1>8. NoneTold'
  BY <1>1, <1>2, <1>4, QuietEvents DEF consumer
<1>9. ResultIsEmitted'
  BY <1>1, <1>4 DEF ResultIsEmitted
<1> QED
  BY <1>4, <1>6, <1>7, <1>8, <1>9

(* accept() of a piece: the text before the first stop, or all but the     *)
(* held-back tail, has gone to the sink.                                   *)
LEMMA AcceptPieceStep ==
  ASSUME IInv, NEW piece \in Piece, AcceptPiece(piece)
  PROVE  IInv'
<1>1. /\ TypeOK /\ reason = "unset" /\ ~notified /\ ~notified' /\ pc # "done" /\ ~Told
      /\ StopPositions(text) = {}
      /\ max_stop_len = 0 \/ emitted = 0 \/ emitted + max_stop_len <= Len(text) + 1
  BY DEF IInv, AcceptPiece, Control, HeldBack, Told, at
<1>2. PICK old \in Seq(Byte), p \in Seq(Byte) : old = text /\ p = piece
  BY <1>1, TextAssumption DEF TypeOK
<1>3. PICK t \in Seq(Byte) : t = old \o p
  <2>1. old \o p \in Seq(Byte)
    BY <1>2
  <2> QED
    BY <2>1
<1>4. Len(text) <= Len(t) /\ Len(t) \in Nat /\ \A k \in 1..Len(text) : t[k] = text[k]
  BY <1>2, <1>3
<1>5. /\ text' = t /\ completion' \in 0..MaxTokens /\ notified' \in BOOLEAN
      /\ UNCHANGED <<result, restarts, base, consumer, hungup, shutting>>
  BY <1>1, <1>2, <1>3, TextAssumption DEF AcceptPiece, TypeOK
<1>6. \A q \in StopPositions(t) : q \in Nat /\ max_stop_len > 0 /\ q + max_stop_len > Len(text)
  BY <1>1, <1>2, <1>3, NewStopIsLate
<1>7. max_stop_len \in Nat /\ emitted \in Nat /\ emitted <= Len(text) /\ Len(text) \in Nat
  BY <1>1, MaxStopLen DEF TypeOK
<1>8. \A q \in StopPositions(t) : emitted <= q
  BY <1>1, <1>6, <1>7
<1>9. ASSUME NEW first \in StopPositions(t), IsEarliestStop(t, first),
             flush_upto(t, first, "finish"), reason' = "stop"
      PROVE  IInv'
  <2>1. first \in 0..Len(t) /\ reason' \in Reason
    BY <1>9 DEF StopPositions, Reason
  <2>2. /\ TypeOK' /\ HeardIsEmitted' /\ ResultIsEmitted' /\ NoneTold'
        /\ at' = "finish"
        /\ emitted' = IF first > emitted THEN first ELSE emitted
    BY <1>1, <1>4, <1>5, <1>9, <2>1, FlushStep
  <2>3. emitted' = first
    BY <1>7, <1>8, <1>9, <2>1, <2>2
  <2>4. NeverIntoStop' /\ Ended'
    BY <1>5, <1>9, <2>3 DEF NeverIntoStop, Ended, IsEarliestStop
  <2>5. Control' /\ HeldBack' /\ ToldLast'
    BY <1>1, <1>9, <2>2 DEF Control, HeldBack, ToldLast, Told, NoneTold
  <2> QED
    BY <2>2, <2>4, <2>5 DEF IInv
<1>10. ASSUME StopPositions(t) = {}, flush_upto(t, safe_prefix(t), "poll"), UNCHANGED reason
       PROVE  IInv'
  <2>1. safe_prefix(t) \in 0..Len(t) /\ reason' \in Reason
    BY <1>1, <1>4, <1>7, <1>10 DEF safe_prefix, TypeOK
  <2>2. PICK upto \in 0..Len(t) : upto = safe_prefix(t)
    BY <2>1
  <2>3. /\ TypeOK' /\ HeardIsEmitted' /\ ResultIsEmitted' /\ NoneTold'
        /\ at' = "poll"
        /\ emitted' = IF upto > emitted THEN upto ELSE emitted
    BY <1>1, <1>4, <1>5, <1>10, <2>1, <2>2, FlushStep
  <2>4. max_stop_len = 0 \/ emitted' = 0 \/ emitted' + max_stop_len <= Len(t) + 1
    <3>1. max_stop_len = 0 \/ upto = 0 \/ upto + max_stop_len <= Len(t) + 1
      BY <1>4, <1>7, <2>2 DEF safe_prefix
    <3> QED
      BY <1>1, <1>4, <1>7, <2>2, <2>3, <3>1
  <2>5. NeverIntoStop' /\ HeldBack' /\ Ended'
    BY <1>1, <1>5, <1>10, <2>4 DEF NeverIntoStop, HeldBack, Ended
  <2>6. Control' /\ ToldLast'
    BY <1>1, <1>10, <2>3 DEF Control, ToldLast, Told, NoneTold
  <2> QED
    BY <2>3, <2>5, <2>6 DEF IInv
<1> QED
  BY <1>2, <1>3, <1>9, <1>10 DEF AcceptPiece

(* accept() ends by reading the cancel flag; a cancelled sequence hands    *)
(* over its tail.                                                          *)
LEMMA PollStep ==
  ASSUME IInv, Poll
  PROVE  IInv'
<1>1. /\ TypeOK /\ reason = "unset" /\ ~notified /\ ~notified' /\ pc = "poll" /\ ~Told
      /\ StopPositions(text) = {} /\ text' = text
      /\ UNCHANGED <<result, restarts, base, consumer, hungup, shutting, completion, notified>>
  BY DEF IInv, Poll, Control, HeldBack, Told, at
<1>2. CASE cancel
  <2>1. flush_upto(text, Len(text), "finish") /\ reason' = "cancelled"
    BY <1>2 DEF Poll
  <2>2. PICK t \in Seq(Byte) : t = text
    BY <1>1 DEF TypeOK
  <2>3. Len(t) \in 0..Len(t) /\ reason' \in Reason /\ completion' \in 0..MaxTokens
        /\ notified' \in BOOLEAN
    BY <1>1, <2>1, <2>2 DEF TypeOK, Reason
  <2>4. /\ TypeOK' /\ HeardIsEmitted' /\ ResultIsEmitted' /\ NoneTold'
        /\ at' = "finish"
        /\ emitted' = IF Len(t) > emitted THEN Len(t) ELSE emitted
    BY <1>1, <2>1, <2>2, <2>3, FlushStep
  <2>5. emitted' = Len(text')
    BY <1>1, <2>2, <2>4 DEF TypeOK
  <2>6. NeverIntoStop' /\ Ended' /\ HeldBack'
    BY <1>1, <2>1, <2>5 DEF NeverIntoStop, Ended, HeldBack
  <2>7. Control' /\ ToldLast'
    BY <1>1, <2>1, <2>4 DEF Control, ToldLast, Told, NoneTold
  <2> QED
    BY <2>4, <2>6, <2>7 DEF IInv
<1>3. CASE ~cancel
  <2>1. pc' = "sample" /\ UNCHANGED <<then, events, emitted, heard, reason>>
    BY <1>3 DEF Poll
  <2>2. TypeOK'
    BY <1>1, <2>1 DEF TypeOK, consumer
  <2> QED
    BY <1>1, <2>1, <2>2 DEF IInv, NeverIntoStop, Control, HeldBack, Ended, HeardIsEmitted,
         ResultIsEmitted, ToldLast, Told, at, all, consumer
<1> QED
  BY <1>2, <1>3

(* finish(): the first call flushes the tail of a clean finish, the second *)
(* does nothing.                                                           *)
LEMMA FinishStep ==
  ASSUME IInv, Finish
  PROVE  IInv'
<1>1. /\ TypeOK /\ pc = "finish" /\ reason # "unset" /\ notified' = TRUE /\ at = "finish"
      /\ UNCHANGED <<text, reason, result, restarts, base, consumer, hungup, shutting, completion>>
  BY DEF IInv, Finish, Control, at
<1>2. CASE ~notified /\ reason \in {"eos", "max_tokens"}
  <2>1. flush_upto(text, Len(text), "terminal") /\ ~Told
    BY <1>1, <1>2 DEF Finish, Told
  <2>2. PICK t \in Seq(Byte) : t = text
    BY <1>1 DEF TypeOK
  <2>3. Len(t) \in 0..Len(t) /\ reason' \in Reason /\ completion' \in 0..MaxTokens
        /\ notified' \in BOOLEAN
    BY <1>1, <2>2 DEF TypeOK
  <2>4. /\ TypeOK' /\ HeardIsEmitted' /\ ResultIsEmitted' /\ NoneTold'
        /\ at' = "terminal"
        /\ emitted' = IF Len(t) > emitted THEN Len(t) ELSE emitted
    BY <1>1, <2>1, <2>2, <2>3, FlushStep
  <2>5. emitted' = Len(text')
    BY <1>1, <2>2, <2>4 DEF TypeOK
  <2>6. NeverIntoStop' /\ Ended' /\ HeldBack'
    BY <1>1, <1>2, <2>5 DEF IInv, NeverIntoStop, Ended, HeldBack
  <2>7. Control' /\ ToldLast'
    BY <1>1, <2>4 DEF Control, ToldLast, Told, NoneTold
  <2> QED
    BY <2>4, <2>6, <2>7 DEF IInv
<1>3. CASE ~(~notified /\ reason \in {"eos", "max_tokens"})
  <2>1. /\ pc' = IF notified THEN "deliver" ELSE "terminal"
        /\ UNCHANGED <<then, events, emitted, heard>>
    BY <1>3 DEF Finish
  <2>2. TypeOK'
    BY <1>1, <2>1 DEF TypeOK, consumer
  <2>3. NeverIntoStop' /\ HeldBack' /\ HeardIsEmitted' /\ ResultIsEmitted'
    BY <1>1, <2>1 DEF IInv, NeverIntoStop, HeldBack, HeardIsEmitted, ResultIsEmitted
  <2>4. Ended'
    BY <1>1, <1>3, <2>1 DEF IInv, Ended
  <2>5. Control'
    BY <1>1, <2>1 DEF IInv, Control, at
  <2>6. ToldLast'
    BY <1>1, <2>1 DEF IInv, ToldLast, Told, at, all, consumer
  <2> QED
    BY <2>2, <2>3, <2>4, <2>5, <2>6 DEF IInv
<1> QED
  BY <1>2, <1>3

(* on_finish() and on_error() push the one terminal event. *)
LEMMA TellEndStep ==
  ASSUME IInv, TellEnd
  PROVE  IInv'
<1>1. /\ TypeOK /\ pc = "terminal" /\ at = "terminal" /\ notified /\ ~Told
      /\ events' = Append(events, Terminal) /\ pc' = "notify" /\ then' = "finish"
      /\ UNCHANGED <<attempt, result, restarts, heard, base, consumer, hungup, shutting>>
  BY DEF IInv, TellEnd, push, Control, Told, at
<1>2. Terminal \in Event /\ Terminal.terminal = TRUE
  BY DEF Terminal, Event
<1>3. PICK s \in Seq(Event), t \in Seq(Event) : s = taken /\ t = events
  BY <1>1 DEF TypeOK
<1>4. s \o t \in Seq(Event) /\ all = s \o t /\ all' = Append(s \o t, Terminal)
      /\ events' \in Seq(Event)
  BY <1>1, <1>2, <1>3, AllAppend DEF all, consumer
<1>5. TypeOK'
  BY <1>1, <1>4 DEF TypeOK, consumer, attempt
<1>6. NeverIntoStop' /\ HeldBack' /\ Ended' /\ HeardIsEmitted' /\ ResultIsEmitted'
  BY <1>1 DEF IInv, NeverIntoStop, HeldBack, Ended, HeardIsEmitted, ResultIsEmitted, attempt
<1>7. Control' /\ Told'
  BY <1>1 DEF IInv, Control, Told, at, attempt
<1>8. ToldLast'
  <2>1. PICK u \in Seq(Event) : u = s \o t
    BY <1>4
  <2>2. \A i \in 1..Len(u) : ~u[i].terminal
    BY <1>1, <1>4, <2>1 DEF IInv, ToldLast
  <2>3. /\ \A i \in 1..Len(u) : Append(u, Terminal)[i] = u[i]
        /\ Len(Append(u, Terminal)) = Len(u) + 1
        /\ Append(u, Terminal)[Len(u) + 1] = Terminal
        /\ Append(u, Terminal) # << >> /\ Len(u) \in Nat
    BY <1>2, <2>1
  <2>4. ASSUME NEW i \in 1..Len(Append(u, Terminal)), Append(u, Terminal)[i].terminal
        PROVE  i = Len(Append(u, Terminal))
    BY <2>2, <2>3, <2>4
  <2> QED
    BY <1>2, <1>4, <1>7, <2>1, <2>3, <2>4 DEF ToldLast
<1> QED
  BY <1>5, <1>6, <1>7, <1>8 DEF IInv

(* notify_one() and the return from push(). *)
LEMMA NotifyStep ==
  ASSUME IInv, Notify
  PROVE  IInv'
<1>1. TypeOK'
  BY DEF IInv, TypeOK, Notify, attempt
<1>2. at' = at
  BY DEF IInv, TypeOK, Notify, at
<1>3. ResultIsEmitted'
  BY DEF IInv, TypeOK, Notify, ResultIsEmitted
<1> QED
  BY <1>1, <1>2, <1>3 DEF IInv, Notify, attempt, NeverIntoStop, Control, HeldBack, Ended,
       HeardIsEmitted, ToldLast, Told, all

(* deliver() fulfils the promise with emitted_text(). *)
LEMMA DeliverStep ==
  ASSUME IInv, Deliver
  PROVE  IInv'
<1>1. SubSeq(text, 1, emitted) \in Seq(Byte)
  BY DEF IInv, TypeOK
<1>2. TypeOK'
  BY <1>1 DEF IInv, TypeOK, Deliver, attempt, consumer
<1>3. at = "deliver" /\ at' = "done"
  BY DEF Deliver, at
<1> QED
  BY <1>2, <1>3 DEF IInv, Deliver, attempt, NeverIntoStop, Control, HeldBack, Ended,
       HeardIsEmitted, ResultIsEmitted, ToldLast, Told, all, consumer

-----------------------------------------------------------------------------
(* Every step keeps the inductive invariant. *)
LEMMA NextIInv == IInv /\ [Next]_vars => IInv'
<1> SUFFICES ASSUME IInv, [Next]_vars
             PROVE  IInv'
  OBVIOUS
<1>1. CASE AcceptEog
  BY <1>1, StopWith DEF AcceptEog
<1>2. CASE AcceptNoMore
  BY <1>2, StopWith DEF AcceptNoMore
<1>3. CASE \E piece \in Piece : AcceptPiece(piece)
  BY <1>3, AcceptPieceStep
<1>4. CASE Poll
  BY <1>4, PollStep
<1>5. CASE Preempt
  BY <1>5, PreemptStep
<1>6. CASE \E why \in {"error", "context_overflow"} : Fail(why)
  BY <1>6, StopWith DEF Fail
<1>7. CASE Notify
  BY <1>7, NotifyStep
<1>8. CASE Finish
  BY <1>8, FinishStep
<1>9. CASE TellEnd
  BY <1>9, TellEndStep
<1>10. CASE Deliver
  BY <1>10, DeliverStep
<1>11. CASE \/ Provide \/ SpuriousWakeup \/ HangUp \/ ShutDown \/ Stopped \/ UNCHANGED vars
  BY <1>11, ConsumerStep DEF Provide, Stopped
<1> QED
  BY <1>1, <1>2, <1>3, <1>4, <1>5, <1>6, <1>7, <1>8, <1>9, <1>10, <1>11 DEF Next, Generate

(* What is emitted, and when, on every behaviour of a streamed request. *)
THEOREM StreamingInvariant == Spec => []IInv
<1>1. Init => IInv
  BY InitIInv
<1>2. IInv /\ [Next]_vars => IInv'
  BY NextIInv
<1> QED
  BY <1>1, <1>2, PTL DEF Spec

(* No more is ever emitted than was generated. *)
THEOREM StreamingTypes == Spec => []TypeOK
<1>1. IInv => TypeOK
  BY DEF IInv
<1> QED
  BY <1>1, StreamingInvariant, PTL

(* Withholding max_stop_len() - 1 bytes is enough for every set of stop    *)
(* strings and however the engine cuts the text into pieces: nothing is    *)
(* emitted into a region that later turns out to be inside a stop string.  *)
THEOREM HoldBackSuffices == Spec => []NeverIntoStop
<1>1. IInv => NeverIntoStop
  BY DEF IInv
<1> QED
  BY <1>1, StreamingInvariant, PTL

(* Of a text with a stop, Response is what precedes the earliest. *)
LEMMA ResponseIsCut ==
  ASSUME NEW p, TypeOK, IsEarliestStop(text, p)
  PROVE  Response = SubSeq(text, 1, p)
<1>1. p \in StopPositions(text) /\ StopPositions(text) # {}
  BY DEF IsEarliestStop
<1> DEFINE c == CHOOSE q \in StopPositions(text) : IsEarliestStop(text, q)
<1>2. c \in StopPositions(text) /\ IsEarliestStop(text, c)
  BY <1>1
<1>3. c <= p /\ p <= c /\ c \in Nat /\ p \in Nat
  BY <1>1, <1>2 DEF IsEarliestStop, StopPositions
<1>4. c = p
  BY <1>3
<1> QED
  BY <1>1, <1>4 DEF Response

(* The deltas of the attempt that finished are the buffered result, and    *)
(* that is the text up to the first stop: deliver() and the sink agree     *)
(* however the sequence ended.                                             *)
THEOREM AttemptAnswered == Spec => []AttemptIsResponse
<1>1. ASSUME IInv
      PROVE  AttemptIsResponse
  <2> SUFFICES ASSUME result # NoResult
               PROVE  /\ result.text = SubSeq(heard, base + 1, Len(heard))
                      /\ result.reason \notin {"error", "context_overflow"}
                           => result.text = Response
    BY DEF AttemptIsResponse
  <2>1. /\ TypeOK /\ HeardIsEmitted /\ Ended /\ pc = "done" /\ notified
        /\ result = [text |-> SubSeq(text, 1, emitted), reason |-> reason]
        /\ reason # "unset"
    BY <1>1 DEF IInv, ResultIsEmitted, Control, at
  <2>2. PICK h \in Seq(Byte), t \in Seq(Byte), b \in Nat, n \in Nat :
          h = heard /\ t = text /\ b = base /\ n = emitted
    BY <2>1 DEF TypeOK
  <2>3. Len(h) = b + n /\ n <= Len(t) /\ \A k \in 1..n : h[b + k] = t[k]
    BY <2>1, <2>2 DEF TypeOK, HeardIsEmitted
  <2>4. SubSeq(t, 1, n) = SubSeq(h, b + 1, b + n)
    <3>1. /\ SubSeq(t, 1, n) \in Seq(Byte) /\ Len(SubSeq(t, 1, n)) = n
          /\ \A k \in 1..n : SubSeq(t, 1, n)[k] = t[k]
      BY <2>2, <2>3
    <3>2. /\ SubSeq(h, b + 1, b + n) \in Seq(Byte) /\ Len(SubSeq(h, b + 1, b + n)) = n
          /\ \A k \in 1..n : SubSeq(h, b + 1, b + n)[k] = h[b + k]
      BY <2>2, <2>3
    <3> QED
      BY <2>3, <3>1, <3>2, SeqEqual
  <2>5. ASSUME result.reason \notin {"error", "context_overflow"}
        PROVE  result.text = Response
    <3>1. CASE reason = "stop"
      BY <2>1, <3>1, ResponseIsCut DEF Ended
    <3>2. CASE reason # "stop"
      <4>1. StopPositions(text) = {} /\ n = Len(t)
        BY <2>1, <2>2, <2>5, <3>2 DEF TypeOK, Reason, Ended
      <4>2. SubSeq(t, 1, Len(t)) = t
        BY <2>2
      <4> QED
        BY <2>1, <2>2, <4>1, <4>2 DEF Response
    <3> QED
      BY <3>1, <3>2
  <2> QED
    BY <2>1, <2>2, <2>3, <2>4, <2>5
<1> QED
  BY <1>1, StreamingInvariant, PTL

(* A stream has exactly one terminal event, and it is the last. *)
THEOREM OneTerminalEvent == Spec => []TerminalLast
<1>1. IInv => TerminalLast
  BY DEF IInv, ToldLast, Told, TerminalLast, all, at
<1> QED
  BY <1>1, StreamingInvariant, PTL
=============================================================================
