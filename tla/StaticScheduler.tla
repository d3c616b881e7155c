--------------------------- MODULE StaticScheduler ---------------------------
(***************************************************************************)
(* Static batching: Scheduler::run_static() and run_batch().  A batch is   *)
(* formed from what has arrived, every member reserves all the blocks it   *)
(* may ever need, and the batch runs until its last member finishes.       *)
(* decode() is the llama engine's, which refuses more than n_batch tokens. *)
(***************************************************************************)
EXTENDS Clients, SequencesExt

CONSTANTS
  MaxBatch,      \* config.max_batch_size, as clamped by the constructor
  NBatch,        \* caps().n_batch
  MaxFailures    \* bound: how often decode() throws for its own reasons

ASSUME StaticAssumption ==
  MaxBatch \in Nat \ {0} /\ NBatch \in Nat \ {0} /\ MaxFailures \in Nat

VARIABLES
  pc,
  batch,     \* the requests of the batch; batch[k] has slot k - 1
  cursor,    \* the loop index over the batch
  job,       \* [Req -> job], NoJob outside the batch
  pool,
  live,      \* the slots with a sequence in the engine
  sampling,  \* sampled in this pass and not accepted yet
  failures   \* decode() failures so far

private == <<pc, batch, cursor, job, pool, live, sampling, failures>>
vars == <<shared, private>>

Init ==
  /\ NoClients
  /\ pc = "take" /\ batch = << >> /\ cursor = 1
  /\ job = [r \in Req |-> NoJob]
  /\ pool = NewPool /\ live = {} /\ sampling = << >> /\ failures = 0

Submit(r) == try_push(r) /\ UNCHANGED private
Cancel(r) == raise_cancel(r) /\ UNCHANGED private
Close == close /\ UNCHANGED private

-----------------------------------------------------------------------------
(* next_batch(): pop() the first, then try_pop() up to the batch size. *)

TakeOne ==
  /\ pc = "take" /\ Len(batch) < MaxBatch /\ pop
  /\ batch' = Append(batch, Head(queue))
  /\ UNCHANGED <<pc, cursor, job, pool, live, sampling, failures>>

TakeEnough ==
  /\ pc = "take" /\ batch # << >>
  /\ Len(batch) = MaxBatch \/ queue = << >>
  /\ pc' = "admit"
  /\ UNCHANGED <<shared, batch, cursor, job, pool, live, sampling, failures>>

TakeNothing ==
  /\ pc = "take" /\ batch = << >> /\ queue = << >> /\ closed
  /\ pc' = "done"
  /\ UNCHANGED <<shared, batch, cursor, job, pool, live, sampling, failures>>

-----------------------------------------------------------------------------
(* run_batch(): reserve, or reject what does not fit beside the others. *)

(* Mutants of Reserve: blocks for the prompt only, and for a whole context. *)
ReserveForPrompt(r) == PromptLen(r)
ReserveContext(r) == NCtxSeq

Reserve(r) == ContextNeeded(r)

AdmitOne ==
  /\ pc = "admit" /\ cursor <= Len(batch)
  /\ LET r   == batch[cursor]
         j   == make_job(r, cursor - 1)
         got == ensure_capacity(pool, j.table, Reserve(r))
     IN  /\ \/ /\ j.finished
               /\ job' = [job EXCEPT ![r] = j] /\ UNCHANGED pool
            \/ /\ ~j.finished /\ ~CanEnsure(pool, j.table, Reserve(r))
               /\ job' = [job EXCEPT ![r] = fail(j, "context_overflow")] /\ UNCHANGED pool
            \/ /\ ~j.finished /\ CanEnsure(pool, j.table, Reserve(r))
               /\ job' = [job EXCEPT ![r] = [j EXCEPT !.table = got.table]] /\ pool' = got.pool
         /\ live' = live \cup {j.slot}
  /\ cursor' = cursor + 1
  /\ UNCHANGED <<shared, pc, batch, sampling, failures>>

AdmitDone ==
  /\ pc = "admit" /\ cursor > Len(batch)
  /\ pc' = "pass" /\ cursor' = 1
  /\ UNCHANGED <<shared, batch, job, pool, live, sampling, failures>>

-----------------------------------------------------------------------------
(* Forward passes: slices of prompts until the cursor is past the batch,   *)
(* then one token of every running sequence at a time.                     *)

Running(r) == ~job[r].finished

Prefilling == cursor <= Len(batch)

(* The places of a slice of prompts that ends before place n. *)
Slice(n) == {i \in 1..Len(batch) : cursor <= i /\ i < n /\ Running(batch[i])}

TokensOf(places) == FoldFunctionOnSet(+, 0, [i \in 1..Len(batch) |-> PromptLen(batch[i])], places)

(* A slice takes prompts in order while they fit, and always one. *)
SliceEnd ==
  Max({n \in cursor..(Len(batch) + 1) : Cardinality(Slice(n)) <= 1 \/ TokensOf(Slice(n)) <= NBatch})

Plan ==
  IF Prefilling THEN [items |-> Slice(SliceEnd), tokens |-> TokensOf(Slice(SliceEnd)), next |-> SliceEnd]
  ELSE LET running == {i \in 1..Len(batch) : Running(batch[i])}
       IN  [items |-> running, tokens |-> Cardinality(running), next |-> cursor]

(* prefill_item() advances a job whatever decode() does. *)
Fed ==
  [r \in Req |-> IF Prefilling /\ \E i \in Plan.items : batch[i] = r
                 THEN take_prefill_chunk(job[r], PromptLen(r)) ELSE job[r]]

Pass ==
  /\ pc = "pass" /\ (Prefilling \/ Plan.items # {})
  /\ Plan.tokens <= NBatch
  /\ job' = Fed
  /\ sampling' \in InOrder(batch, Plan.items)
  /\ cursor' = Plan.next
  /\ pc' = "accept"
  /\ UNCHANGED <<shared, batch, pool, live, failures>>

(* Mutant of Slots: the last slot of the batch is forgotten. *)
SlotsButLast == 0..(Len(batch) - 2)

Slots == 0..(Len(batch) - 1)

(* decode() throws: the whole batch fails and every slot is released. *)
PassFails ==
  /\ pc = "pass" /\ Plan.items # {}
  /\ Plan.tokens > NBatch \/ failures < MaxFailures
  /\ job' = [r \in Req |-> IF r \in ToSet(batch) THEN finish(fail(Fed[r], "error")) ELSE job[r]]
  /\ told' = [r \in Req |-> IF r \in ToSet(batch) /\ ~job[r].notified THEN told[r] + 1 ELSE told[r]]
  /\ live' = live \ Slots
  /\ failures' = failures + 1
  /\ pc' = "deliver" /\ cursor' = 1
  /\ UNCHANGED <<queue, closed, status, cancel, result, batch, pool, sampling>>

AcceptOne(outcome) ==
  /\ pc = "accept" /\ sampling # << >>
  /\ LET r == Head(sampling)
         j == accept(r, job[r], outcome, r \in cancel)
     IN  \/ /\ j.finished
            /\ job' = [job EXCEPT ![r] = finish(j)]
            /\ told' = [told EXCEPT ![r] = @ + 1]
            /\ live' = live \ {j.slot}
         \/ /\ ~j.finished
            /\ job' = [job EXCEPT ![r] = j]
            /\ UNCHANGED <<told, live>>
  /\ sampling' = Tail(sampling)
  /\ UNCHANGED <<queue, closed, status, cancel, result, pc, batch, cursor, pool, failures>>

AcceptDone ==
  /\ pc = "accept" /\ sampling = << >>
  /\ pc' = "pass"
  /\ UNCHANGED <<shared, batch, cursor, job, pool, live, sampling, failures>>

PassesOver ==
  /\ pc = "pass" /\ ~Prefilling /\ \A r \in ToSet(batch) : ~Running(r)
  /\ pc' = "deliver" /\ cursor' = 1
  /\ UNCHANGED <<shared, batch, job, pool, live, sampling, failures>>

-----------------------------------------------------------------------------
DeliverOne ==
  /\ pc = "deliver" /\ cursor <= Len(batch)
  /\ LET r == batch[cursor]
     IN  /\ told' = [told EXCEPT ![r] = IF job[r].notified THEN @ ELSE @ + 1]
         /\ pool' = free(pool, job[r].table.blocks)
         /\ job' = [job EXCEPT ![r] = [finish(@) EXCEPT !.table = NewTable]]
         /\ deliver(r, job[r].reason)
  /\ cursor' = cursor + 1
  /\ UNCHANGED <<queue, closed, status, cancel, pc, batch, live, sampling, failures>>

DeliverDone ==
  /\ pc = "deliver" /\ cursor > Len(batch)
  /\ pc' = "take" /\ batch' = << >> /\ cursor' = 1
  /\ job' = [r \in Req |-> NoJob]
  /\ UNCHANGED <<shared, pool, live, sampling, failures>>

-----------------------------------------------------------------------------
(* The scheduler thread. *)
Run ==
  \/ TakeOne \/ TakeEnough \/ TakeNothing
  \/ AdmitOne \/ AdmitDone
  \/ Pass \/ PassFails \/ PassesOver
  \/ \E outcome \in Outcome : AcceptOne(outcome)
  \/ AcceptDone
  \/ DeliverOne \/ DeliverDone

Stopped == pc = "done" /\ UNCHANGED vars

Next ==
  \/ \E r \in Req : Submit(r) \/ Cancel(r)
  \/ Close
  \/ Run
  \/ Stopped

Spec == Init /\ [][Next]_vars

-----------------------------------------------------------------------------
(* The variables have their types. *)
TypeOK ==
  /\ SharedTypeOK
  /\ pc \in {"take", "admit", "pass", "accept", "deliver", "done"}
  /\ batch \in Seq(Req) /\ Len(batch) <= MaxBatch /\ cursor \in 1..(MaxBatch + 1)
  /\ pool \in Pool /\ live \subseteq 0..(MaxBatch - 1)
  /\ sampling \in Seq(Req)
  /\ \A r \in Req : /\ job[r].table \in Table /\ job[r].reason \in Reason
                    /\ job[r].prefilled \in 0..PromptLen(r)

(* "Static batching cannot preempt" (scheduler.cpp), so a sequence must     *)
(* never need a block it has not reserved: a running one holds blocks for   *)
(* its prompt and all it has generated, no two hold the same block, and     *)
(* between batches every block is free again, after failures too.           *)
BlocksReserved ==
  LET held(r) == ToSet(job[r].table.blocks)
  IN  /\ \A r \in ToSet(batch) : pc \in {"pass", "accept"} /\ Running(r) =>
           Len(job[r].table.blocks) >= blocks_for(TokensNeeded(r, job[r]))
      /\ \A r, q \in Req : r # q => held(r) \cap held(q) = {}
      /\ ToSet(pool.free) = BlockId \ UNION {held(r) : r \in Req}

(* The engine holds the sequence of every running member until its end, and *)
(* none of a member that ran: only those rejected at admission keep theirs. *)
SlotsHeld ==
  LET rejected == {job[r].slot : r \in {q \in ToSet(batch) : job[q].reason = "context_overflow"}}
      running  == {job[r].slot : r \in {q \in ToSet(batch) : Running(q)}}
  IN  pc \in {"pass", "accept", "deliver"} => (live \cap 0..(Len(batch) - 1)) \ rejected = running

(* The requests the context cannot hold, and those that may not fit the    *)
(* pool beside other members of a batch.                                   *)
Overflows == {r \in Req : NCtxSeq > 0 /\ ContextNeeded(r) > NCtxSeq}
Need(r) == blocks_for(ContextNeeded(r))

Crowded ==
  Overflows \cup
  {r \in Req : \E others \in SUBSET (Req \ (Overflows \cup {r})) :
     /\ Cardinality(others) < MaxBatch
     /\ Need(r) + FoldFunctionOnSet(+, 0, [q \in Req |-> Need(q)], others) > NumBlocks}

Contract == INSTANCE Service WITH
  Oversized <- Crowded,
  phase     <- [r \in Req |-> IF result[r] # "none" THEN "answered" ELSE status[r]],
  answer    <- result,
  cancelled <- cancel,
  broken    <- failures > 0

(* The static scheduler implements the service, except that a request may  *)
(* also be turned away for want of room beside its own batch; one that     *)
(* fits beside any batch never is, whatever ran or failed before it.       *)
ImplementsService == Contract!Spec
=============================================================================
