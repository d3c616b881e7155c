------------------------------ MODULE Streaming ------------------------------
(***************************************************************************)
(* One streamed request, from the sampled token to the server-sent event:  *)
(* the text side of SequenceState on the scheduler thread, StreamingSink   *)
(* with its mutex and condition variable, and the chunked content provider *)
(* of POST /generate/stream on an HTTP thread.  A byte is an element of a  *)
(* piece; a text is a sequence of bytes.  Module Jobs has the control of   *)
(* SequenceState that the schedulers need, without the text.               *)
(***************************************************************************)
EXTENDS Integers, Sequences

CONSTANTS
  Byte,         \* the bytes a text is made of
  Piece,        \* the texts engine.piece() may render a token as
  Stop,         \* spec_.stop
  MaxTokens,    \* spec_.max_tokens
  MaxRestarts   \* bound: how often the request is preempted and starts again

ASSUME TextAssumption ==
  /\ \A p \in Piece \cup Stop : p \in Seq(Byte)
  /\ Stop = {} \/ \E s \in Stop : \A t \in Stop : Len(t) <= Len(s)
  /\ MaxTokens \in Nat /\ MaxRestarts \in Nat

VARIABLES
  pc,          \* the scheduler thread
  then,        \* where it goes on after a push
  text,        \* text_: every generated byte of this attempt
  emitted,     \* emitted_: how many of them the sink has had
  completion,  \* usage_.completion_tokens
  reason,      \* reason_; finished_ is reason # "unset"
  notified,    \* notified_
  result,      \* what the promise holds, NoResult before
  restarts,    \* preemptions so far
  heard,       \* history: all on_text() deltas, concatenated
  base,        \* history: how much of heard is from earlier attempts
  reader,      \* the HTTP thread
  events,      \* StreamingSink::events_
  taken,       \* history: the events next() has returned, the last in hand
  cancel,      \* the request's cancel flag
  hungup,      \* the client has closed the connection
  shutting     \* shutting_down

attempt == <<text, emitted, completion, reason, notified>>
producer == <<pc, then, attempt, result, restarts, heard, base>>
consumer == <<reader, taken, cancel>>
vars == <<producer, consumer, events, hungup, shutting>>

NoResult == [text |-> << >>, reason |-> "none"]

Init ==
  /\ pc = "sample" /\ then = "sample"
  /\ text = << >> /\ emitted = 0 /\ completion = 0 /\ reason = "unset" /\ notified = FALSE
  /\ result = NoResult /\ restarts = 0 /\ heard = << >> /\ base = 0
  /\ reader = "next" /\ events = << >> /\ taken = << >>
  /\ cancel = FALSE /\ hungup = FALSE /\ shutting = FALSE

-----------------------------------------------------------------------------
(* Where a stop string occurs: after the first p bytes of t. *)

OccursAt(s, t, p) ==
  /\ p + Len(s) <= Len(t)
  /\ \A k \in 1..Len(s) : t[p + k] = s[k]

StopPositions(t) ==
  {p \in 0..Len(t) : \E s \in Stop : s # << >> /\ OccursAt(s, t, p)}

(* earliest_stop(), when there is one. *)
IsEarliestStop(t, p) == p \in StopPositions(t) /\ \A q \in StopPositions(t) : p <= q

max_stop_len ==
  IF Stop = {} THEN 0 ELSE Len(CHOOSE s \in Stop : \A t \in Stop : Len(t) <= Len(s))

(* Mutant of safe_prefix: one byte too few is held back. *)
SafePrefixShort(t) ==
  IF max_stop_len = 0 THEN Len(t)
  ELSE IF Len(t) >= max_stop_len - 2 THEN Len(t) - (max_stop_len - 2) ELSE 0

safe_prefix(t) ==
  IF max_stop_len = 0 THEN Len(t)
  ELSE IF Len(t) >= max_stop_len - 1 THEN Len(t) - (max_stop_len - 1) ELSE 0

-----------------------------------------------------------------------------
(* StreamingSink::push(): append under the mutex, then notify. *)

Delta(bytes) == [text |-> bytes, terminal |-> FALSE]
Terminal == [text |-> << >>, terminal |-> TRUE]

push(e, next) == events' = Append(events, e) /\ pc' = "notify" /\ then' = next

(* flush_upto() of text t, and on_text() of the delta. *)
flush_upto(t, upto, next) ==
  LET delta == SubSeq(t, emitted + 1, upto)
  IN  IF upto > emitted
      THEN /\ push(Delta(delta), next)
           /\ emitted' = upto /\ heard' = heard \o delta
      ELSE pc' = next /\ UNCHANGED <<then, events, emitted, heard>>

(* Mutant of Notify: the sleeping reader is not woken. *)
NotifyNobody ==
  /\ pc = "notify" /\ pc' = then
  /\ UNCHANGED <<then, attempt, result, restarts, heard, base, consumer, events, hungup, shutting>>

Notify ==
  /\ pc = "notify" /\ pc' = then
  /\ reader' = IF reader = "asleep" THEN "next" ELSE reader
  /\ UNCHANGED <<then, attempt, result, restarts, heard, base, taken, cancel, events, hungup, shutting>>

-----------------------------------------------------------------------------
(* SequenceState::accept() of a sampled token. *)

AcceptEog ==
  /\ pc = "sample"
  /\ reason' = "eos" /\ pc' = "finish"
  /\ UNCHANGED <<then, text, emitted, completion, notified, result, restarts, heard, base,
                 consumer, events, hungup, shutting>>

AcceptNoMore ==
  /\ pc = "sample" /\ completion >= MaxTokens
  /\ reason' = "max_tokens" /\ pc' = "finish"
  /\ UNCHANGED <<then, text, emitted, completion, notified, result, restarts, heard, base,
                 consumer, events, hungup, shutting>>

(* Up to the stop, never into or past it; without one, all but the tail    *)
(* that a stop may still begin in.                                         *)
AcceptPiece(piece) ==
  /\ pc = "sample" /\ completion < MaxTokens
  /\ text' = text \o piece /\ completion' = completion + 1
  /\ LET t == text \o piece
     IN  \/ \E at \in StopPositions(t) :
              /\ IsEarliestStop(t, at)
              /\ flush_upto(t, at, "finish") /\ reason' = "stop"
         \/ /\ StopPositions(t) = {}
            /\ flush_upto(t, safe_prefix(t), "poll") /\ UNCHANGED reason
  /\ UNCHANGED <<notified, result, restarts, base, consumer, hungup, shutting>>

(* The end of accept(): the cancel flag is read after the flush. *)
Poll ==
  /\ pc = "poll"
  /\ IF cancel
     THEN flush_upto(text, Len(text), "finish") /\ reason' = "cancelled"
     ELSE pc' = "sample" /\ UNCHANGED <<then, events, emitted, heard, reason>>
  /\ UNCHANGED <<text, completion, notified, result, restarts, base, consumer, hungup, shutting>>

(* fail(): decode() threw, or the request cannot fit. *)
Fail(why) ==
  /\ pc = "sample"
  /\ reason' = why /\ pc' = "finish"
  /\ UNCHANGED <<then, text, emitted, completion, notified, result, restarts, heard, base,
                 consumer, events, hungup, shutting>>

(* Mutant of Preempt: the new attempt goes on counting emitted bytes. *)
PreemptKeepsEmitted ==
  /\ pc = "sample" /\ restarts < MaxRestarts
  /\ text' = << >> /\ completion' = 0
  /\ restarts' = restarts + 1 /\ base' = Len(heard)
  /\ UNCHANGED <<pc, then, emitted, reason, notified, result, heard, consumer, events, hungup, shutting>>

(* preempt_one() and reclaim(): the SequenceState is dropped, the sink goes *)
(* back to pending with the request and meets a new SequenceState.          *)
Preempt ==
  /\ pc = "sample" /\ restarts < MaxRestarts
  /\ text' = << >> /\ emitted' = 0 /\ completion' = 0
  /\ restarts' = restarts + 1 /\ base' = Len(heard)
  /\ UNCHANGED <<pc, then, reason, notified, result, heard, consumer, events, hungup, shutting>>

-----------------------------------------------------------------------------
(* SequenceState::finish() is called when the sequence stops and again by  *)
(* retire(), which then delivers; the second call finds notified_ set.     *)

(* Mutants of Finish: the tail held back is never flushed, and notified_   *)
(* is not set.                                                             *)
FinishKeepsTail ==
  /\ pc = "finish" /\ notified' = TRUE
  /\ pc' = IF notified THEN "deliver" ELSE "terminal"
  /\ UNCHANGED <<then, events, emitted, heard, text, completion, reason, result, restarts, base,
                 consumer, hungup, shutting>>
FinishUnmarked ==
  /\ pc = "finish" /\ pc' = "terminal"
  /\ UNCHANGED <<then, attempt, result, restarts, heard, base, consumer, events, hungup, shutting>>

Finish ==
  /\ pc = "finish" /\ notified' = TRUE
  /\ IF ~notified /\ reason \in {"eos", "max_tokens"}
     THEN flush_upto(text, Len(text), "terminal")
     ELSE /\ pc' = IF notified THEN "deliver" ELSE "terminal"
          /\ UNCHANGED <<then, events, emitted, heard>>
  /\ UNCHANGED <<text, completion, reason, result, restarts, base, consumer, hungup, shutting>>

(* on_finish() or on_error(). *)
TellEnd ==
  /\ pc = "terminal"
  /\ push(Terminal, "finish")
  /\ UNCHANGED <<attempt, result, restarts, heard, base, consumer, hungup, shutting>>

(* deliver(): the buffered result is emitted_text(). *)
Deliver ==
  /\ pc = "deliver"
  /\ result' = [text |-> SubSeq(text, 1, emitted), reason |-> reason]
  /\ pc' = "done"
  /\ UNCHANGED <<then, attempt, restarts, heard, base, consumer, events, hungup, shutting>>

-----------------------------------------------------------------------------
(* The content provider: next(), then one write. *)

NextEvent ==
  /\ reader = "next" /\ events # << >>
  /\ taken' = Append(taken, Head(events)) /\ events' = Tail(events)
  /\ reader' = "write"
  /\ UNCHANGED <<producer, cancel, hungup, shutting>>

(* wait() releases the mutex and sleeps in one step. *)
Wait ==
  /\ reader = "next" /\ events = << >>
  /\ reader' = "asleep"
  /\ UNCHANGED <<producer, taken, cancel, events, hungup, shutting>>

SpuriousWakeup ==
  /\ reader = "asleep" /\ reader' = "next"
  /\ UNCHANGED <<producer, taken, cancel, events, hungup, shutting>>

InHand == taken[Len(taken)]

(* After a delta the provider also honours a server drain. *)
WriteDelta ==
  /\ reader = "write" /\ ~InHand.terminal
  /\ reader' = "next" /\ cancel' = (cancel \/ shutting)
  /\ UNCHANGED <<producer, taken, events, hungup, shutting>>

WriteFails ==
  /\ reader = "write" /\ ~InHand.terminal /\ hungup
  /\ reader' = "returned" /\ cancel' = TRUE
  /\ UNCHANGED <<producer, taken, events, hungup, shutting>>

WriteTail ==
  /\ reader = "write" /\ InHand.terminal
  /\ reader' = "returned"
  /\ UNCHANGED <<producer, taken, cancel, events, hungup, shutting>>

HangUp ==
  /\ ~hungup /\ hungup' = TRUE
  /\ UNCHANGED <<producer, consumer, events, shutting>>

ShutDown ==
  /\ ~shutting /\ shutting' = TRUE
  /\ UNCHANGED <<producer, consumer, events, hungup>>

-----------------------------------------------------------------------------
Generate ==
  \/ AcceptEog \/ AcceptNoMore \/ \E piece \in Piece : AcceptPiece(piece)
  \/ Poll \/ Preempt \/ \E why \in {"error", "context_overflow"} : Fail(why)
  \/ Notify \/ Finish \/ TellEnd \/ Deliver

Provide == NextEvent \/ Wait \/ WriteDelta \/ WriteFails \/ WriteTail

(* Both threads have returned. *)
Stopped == pc = "done" /\ reader = "returned" /\ UNCHANGED vars

Next == Generate \/ Provide \/ SpuriousWakeup \/ HangUp \/ ShutDown \/ Stopped

Spec == Init /\ [][Next]_vars

(* Both threads are always scheduled again; nobody owes a wakeup that no   *)
(* notify asked for, a disconnect or a shutdown.                           *)
FairSpec == Spec /\ WF_vars(Generate) /\ WF_vars(Provide)
-----------------------------------------------------------------------------
Reason == {"unset", "eos", "max_tokens", "stop", "cancelled", "context_overflow", "error"}
Event == [text : Seq(Byte), terminal : BOOLEAN]

(* The variables have their types; no more is emitted than was generated. *)
TypeOK ==
  /\ pc \in {"sample", "poll", "finish", "terminal", "notify", "deliver", "done"}
  /\ then \in {"sample", "poll", "finish", "terminal"}
  /\ text \in Seq(Byte) /\ emitted \in 0..Len(text)
  /\ completion \in 0..MaxTokens /\ restarts \in 0..MaxRestarts
  /\ reason \in Reason /\ notified \in BOOLEAN
  /\ result \in [text : Seq(Byte), reason : Reason \cup {"none"}]
  /\ heard \in Seq(Byte) /\ base \in 0..Len(heard)
  /\ reader \in {"next", "asleep", "write", "returned"}
  /\ events \in Seq(Event) /\ taken \in Seq(Event)
  /\ cancel \in BOOLEAN /\ hungup \in BOOLEAN /\ shutting \in BOOLEAN

(* sequence_state.cpp, max_stop_len: "nothing is ever emitted into a region *)
(* that later turns out to be inside a stop string": what the sink has had  *)
(* never reaches past the first byte of a stop, whatever tokens follow.     *)
NeverIntoStop == \A p \in StopPositions(text) : emitted <= p

(* What the response must be: all of the text, cut before the first stop.  *)
Response ==
  IF StopPositions(text) = {} THEN text
  ELSE SubSeq(text, 1, CHOOSE p \in StopPositions(text) : IsEarliestStop(text, p))

(* The deltas of the attempt that finished, concatenated, are the buffered *)
(* result, and unless the request failed that is the response: no byte is  *)
(* lost, repeated or left held back, however the sequence stopped.         *)
AttemptIsResponse ==
  result # NoResult =>
    /\ result.text = SubSeq(heard, base + 1, Len(heard))
    /\ result.reason \notin {"error", "context_overflow"} => result.text = Response

(* docs/architecture.md: "the streamed deltas and the buffered result" are  *)
(* "provably identical".                                                    *)
StreamedIsBuffered == result # NoResult => result.text = heard

(* streaming_sink.hpp, next(): "The terminal event is the last one a caller *)
(* will receive; there is always exactly one."                              *)
TerminalLast ==
  LET all == taken \o events
  IN  /\ \A i \in 1..Len(all) : all[i].terminal => i = Len(all)
      /\ pc \in {"deliver", "done"} => all # << >> /\ all[Len(all)].terminal

(* The handler of a streamed request returns: next() never sleeps through  *)
(* the last event, and the promise is fulfilled.                           *)
StreamEnds == <>(reader = "returned") /\ <>(result # NoResult)
=============================================================================
