-------------------------------- MODULE Jobs --------------------------------
(***************************************************************************)
(* One in-flight request: SequenceState's control and the request's block  *)
(* table, as operators on a job record.  The text is abstracted to the     *)
(* number of accepted tokens; what the engine sampled is an outcome:       *)
(* "eog", "token", or "stop" for a token that completes a stop string.     *)
(***************************************************************************)
EXTENDS BlockPool, FiniteSets

CONSTANTS
  Req,        \* the requests
  Prompt,     \* [Req -> Seq(Token)], the tokenized prompts
  MaxNew,     \* [Req -> Nat], max_tokens
  NCtxSeq,    \* caps().n_ctx_seq, 0 when the engine reports no limit
  Word        \* the values of std::uint32_t are 0 .. Word - 1

ASSUME JobAssumption ==
  /\ NCtxSeq \in Nat /\ Word \in Nat
  /\ \A r \in Req : Len(Prompt[r]) \in 1..(Word - 1) /\ MaxNew[r] \in 0..(Word - 1)

Reason ==
  {"unset", "eos", "max_tokens", "stop", "cancelled", "context_overflow", "error"}

Outcome == {"eog", "token", "stop"}

PromptLen(r) == Len(Prompt[r])

NoJob ==
  [slot |-> -1, prefilled |-> 0, completion |-> 0, finished |-> FALSE,
   notified |-> FALSE, reason |-> "unset", table |-> NewTable]

stop_with(job, why) == [job EXCEPT !.finished = TRUE, !.reason = why]

fail(job, why) == IF job.finished THEN job ELSE stop_with(job, why)

(* Mutant of finish: forgets that the sink was told. *)
FinishUnmarked(job) == [job EXCEPT !.finished = TRUE]

finish(job) == [job EXCEPT !.finished = TRUE, !.notified = TRUE]

(* The sum of two uint32_t is taken before it is widened to size_t. *)
ContextNeeded(r) == (PromptLen(r) + MaxNew[r]) % Word

make_job(r, slot) ==
  LET job == [NoJob EXCEPT !.slot = slot]
  IN  IF NCtxSeq > 0 /\ ContextNeeded(r) > NCtxSeq
      THEN stop_with(job, "context_overflow") ELSE job

prefilling(r, job) == job.prefilled < PromptLen(r)

adopt_cached_prefix(r, job, n) ==
  [job EXCEPT !.prefilled = IF n < PromptLen(r) THEN n ELSE PromptLen(r) - 1]

take_prefill_chunk(job, n) == [job EXCEPT !.prefilled = @ + n]

(* accept(): at most one token; the job is unfinished afterwards exactly   *)
(* when accept() returns true.                                             *)
accept(r, job, outcome, cancelled) ==
  LET grown == [job EXCEPT !.completion = @ + 1]
  IN  CASE outcome = "eog"              -> stop_with(job, "eos")
        [] outcome # "eog" /\ job.completion >= MaxNew[r]
                                        -> stop_with(job, "max_tokens")
        [] outcome = "stop" /\ job.completion < MaxNew[r]
                                        -> stop_with(grown, "stop")
        [] outcome = "token" /\ job.completion < MaxNew[r] /\ cancelled
                                        -> stop_with(grown, "cancelled")
        [] OTHER                        -> grown

(* The members of a batch at some places, in the order of the batch: the   *)
(* one sequence of its kind.                                               *)
InOrder(batch, places) ==
  {[k \in DOMAIN s |-> batch[s[k]]] : s \in
    {s \in [1..Cardinality(places) -> places] : \A i, k \in DOMAIN s : i < k => s[i] < s[k]}}

(* The tokens the job's blocks have to hold. *)
TokensNeeded(r, job) == PromptLen(r) + job.completion
=============================================================================
