------------------------------ MODULE Scheduler ------------------------------
(***************************************************************************)
(* Continuous batching: Scheduler::run_continuous() on the scheduler       *)
(* thread, and around it the HTTP handlers that push requests into the     *)
(* queue and raise cancel flags, and the shutdown that closes the queue.   *)
(*                                                                         *)
(* One pass of the loop is: take (pop the queue into pending), admit, then *)
(* build and decode one batch, accept the sampled tokens one by one,       *)
(* retire, resolve cache exhaustion, and sweep.  Everything between two    *)
(* reads or writes of shared state (the queue, a cancel flag, a promise)   *)
(* is private to the thread; the loops are still stepped one iteration at  *)
(* a time where a property looks at what one iteration does.               *)
(***************************************************************************)
EXTENDS KvMemory, Clients

CONSTANTS
  NBatch,         \* caps().n_batch, tokens per forward pass
  PrefillChunk,   \* --prefill-chunk, 0 for none
  MaxFailures     \* bound: how often the backend's decode() throws

ASSUME SchedulerAssumption ==
  NBatch \in Nat \ {0} /\ PrefillChunk \in Nat /\ MaxFailures \in Nat

VARIABLES
  pc,
  pending,    \* taken from the queue, waiting for capacity
  active,     \* the batch, in admission order
  freeSlots,  \* the stack of free batch slots
  job,        \* [Req -> job], NoJob outside the batch
  mem,        \* blocks, prefix cache and engine (module KvMemory)
  sampling,   \* sampled in this pass and not accepted yet
  grewShort,  \* grew_short: accepted a token and could not get its block
  joined,     \* history: this pass admitted into a nonempty batch
  failures    \* decode() failures so far


private ==
  <<pc, pending, active, freeSlots, job, mem, sampling, grewShort, joined, failures>>
vars == <<shared, private>>

Init ==
  /\ NoClients
  /\ pc = "take" /\ pending = << >> /\ active = << >>
  /\ freeSlots = [i \in 1..MaxBatch |-> MaxBatch - i]
  /\ job = [r \in Req |-> NoJob]
  /\ mem = NewMemory
  /\ sampling = << >> /\ grewShort = << >>
  /\ joined = FALSE /\ failures = 0

-----------------------------------------------------------------------------
(* The HTTP threads. *)

Submit(r) == try_push(r) /\ UNCHANGED private
Cancel(r) == raise_cancel(r) /\ UNCHANGED private
Close == close /\ UNCHANGED private

-----------------------------------------------------------------------------
(* 1. Take work from the queue. *)

idle == active = << >> /\ pending = << >>
HasRoom == Len(pending) + Len(active) < MaxBatch

(* pop() or try_pop() of a nonempty queue. *)
TakeOne ==
  /\ pc = "take" /\ HasRoom /\ pop
  /\ pending' = Append(pending, Head(queue))
  /\ UNCHANGED <<pc, active, freeSlots, job, mem, sampling, grewShort, joined, failures>>

(* Mutant of TakeEnough: an idle thread polls. *)
TakeEnoughIdle ==
  /\ pc = "take"
  /\ ~HasRoom \/ queue = << >>
  /\ pc' = "admit"
  /\ joined' = FALSE
  /\ UNCHANGED <<shared, pending, active, freeSlots, job, mem, sampling, grewShort, failures>>

(* The batch is full, or try_pop() found nothing; an idle thread waits in  *)
(* pop() instead.                                                          *)
TakeEnough ==
  /\ pc = "take" /\ ~idle
  /\ ~HasRoom \/ queue = << >>
  /\ pc' = "admit"
  /\ joined' = FALSE
  /\ UNCHANGED <<shared, pending, active, freeSlots, job, mem, sampling, grewShort, failures>>

(* pop() returns nothing: the queue is closed and drained. *)
TakeNothing ==
  /\ pc = "take" /\ idle /\ queue = << >> /\ closed
  /\ pc' = "done"
  /\ UNCHANGED <<shared, pending, active, freeSlots, job, mem, sampling, grewShort, joined, failures>>

-----------------------------------------------------------------------------
(* 2. Admit what fits, the head of pending first. *)

want(r) == blocks_for(PromptLen(r))

(* Mutants of headroom: none for the newcomer, and none at all. *)
HeadroomForOthers == Len(active)
HeadroomNone == 0

headroom == IF active = << >> THEN 0 ELSE Len(active) + 1
Spare(r) == FreeBlocks(mem.pool) >= want(r) + headroom

MakeJob ==
  /\ pc = "admit" /\ pending # << >> /\ freeSlots # << >>
  /\ job' = [job EXCEPT ![Head(pending)] = make_job(Head(pending), Last(freeSlots))]
  /\ mem' = begin_sequence(mem, Last(freeSlots))
  /\ pc' = "fit"
  /\ UNCHANGED <<shared, pending, active, freeSlots, sampling, grewShort, joined, failures>>

(* Retained prefixes are given up before a request waits. *)
AdmitReclaim ==
  /\ pc = "fit" /\ ~Spare(Head(pending)) /\ Retained(mem.cache) # {}
  /\ mem' = reclaim_donor_blocks(mem)
  /\ UNCHANGED <<shared, pc, pending, active, freeSlots, job, sampling, grewShort, joined, failures>>

Reclaimed(r) == Spare(r) \/ Retained(mem.cache) = {}

(* The admitted job and memory: blocks for the whole prompt, and the       *)
(* longest cached prefix on top of them.                                   *)
Admitted(r) ==
  LET j    == job[r]
      got  == ensure_capacity(mem.pool, j.table, PromptLen(r))
      grown == [mem EXCEPT !.pool = got.pool]
      i    == IF PrefixCaching THEN find_longest(mem.cache, Prompt[r]) ELSE 0
      hit  == mem.cache.entries[i]
      with == AdoptHit(grown, j.slot, got.table, i)
  IN  IF i # 0 /\ hit.seq # j.slot
      THEN [mem |-> with.mem,
            job |-> [adopt_cached_prefix(r, j, hit.n_tokens) EXCEPT !.table = with.table]]
      ELSE [mem |-> IF i # 0 THEN [grown EXCEPT !.cache = Touch(@, i)] ELSE grown,
            job |-> [j EXCEPT !.table = got.table]]

Admit ==
  /\ pc = "fit"
  /\ LET r   == Head(pending)
         new == IF job[r].finished THEN [mem |-> mem, job |-> job[r]] ELSE Admitted(r)
     IN  /\ Reclaimed(r)
         /\ job[r].finished \/ Spare(r)
         /\ job' = [job EXCEPT ![r] = new.job]
         /\ mem' = new.mem
         /\ active' = Append(active, r)
  /\ joined' = (joined \/ active # << >>)
  /\ pending' = Tail(pending)
  /\ freeSlots' = Front(freeSlots)
  /\ pc' = "admit"
  /\ UNCHANGED <<shared, sampling, grewShort, failures>>

(* Nothing is running and still it does not fit: it never will. *)
RejectUnfittable ==
  /\ pc = "fit" /\ active = << >>
  /\ LET r == Head(pending)
     IN  /\ Reclaimed(r) /\ ~job[r].finished /\ ~Spare(r)
         /\ deliver(r, "context_overflow")
         /\ told' = [told EXCEPT ![r] = @ + 1]
         /\ mem' = release_sequence(mem, job[r].slot)
         /\ job' = [job EXCEPT ![r] = NoJob]
  /\ pending' = Tail(pending)
  /\ pc' = "admit"
  /\ UNCHANGED <<queue, closed, status, cancel, active, freeSlots, sampling, grewShort, joined, failures>>

(* Mutant of Defer: moved out of pending and not put back. *)
DeferDrops ==
  /\ pc = "fit" /\ active # << >>
  /\ LET r == Head(pending)
     IN  /\ Reclaimed(r) /\ ~job[r].finished /\ ~Spare(r)
         /\ mem' = release_sequence(mem, job[r].slot)
         /\ job' = [job EXCEPT ![r] = NoJob]
  /\ pending' = Tail(pending)
  /\ pc' = "build"
  /\ UNCHANGED <<shared, active, freeSlots, sampling, grewShort, joined, failures>>

(* It stays at the head of pending until running sequences drain. *)
Defer ==
  /\ pc = "fit" /\ active # << >>
  /\ LET r == Head(pending)
     IN  /\ Reclaimed(r) /\ ~job[r].finished /\ ~Spare(r)
         /\ mem' = release_sequence(mem, job[r].slot)
         /\ job' = [job EXCEPT ![r] = NoJob]
  /\ pc' = "build"
  /\ UNCHANGED <<shared, pending, active, freeSlots, sampling, grewShort, joined, failures>>

AdmitDone ==
  /\ pc = "admit" /\ (pending = << >> \/ freeSlots = << >>)
  /\ pc' = IF active = << >> THEN "take" ELSE "build"
  /\ UNCHANGED <<shared, pending, active, freeSlots, job, mem, sampling, grewShort, joined, failures>>

-----------------------------------------------------------------------------
(* 3. Build one mixed batch and decode it. *)

Running(r) == ~job[r].finished

(* The places of active that decode: they claim one token each first, as   *)
(* far as the budget goes.                                                 *)
Decodes ==
  LET ready == {i \in 1..Len(active) : Running(active[i]) /\ ~prefilling(active[i], job[active[i]])}
  IN  {i \in ready : Cardinality({k \in ready : k < i}) < NBatch}

chunk_cap == IF PrefillChunk = 0 THEN NBatch ELSE PrefillChunk

(* Prefills share what is left of the budget, in admission order. *)
TakeChunk(plan, r) ==
  LET take == Min({plan.budget, chunk_cap, PromptLen(r) - job[r].prefilled})
  IN  IF ~Running(r) \/ ~prefilling(r, job[r]) THEN plan
      ELSE [budget |-> plan.budget - take, take |-> [plan.take EXCEPT ![r] = take]]

Chunks ==
  FoldLeft(TakeChunk, [budget |-> NBatch - Cardinality(Decodes), take |-> [r \in Req |-> 0]], active).take

(* take_prefill_chunk() has advanced the jobs whatever decode() does. *)
Chunked == [r \in Req |-> take_prefill_chunk(job[r], Chunks[r])]

(* Mutant of Decoded: only the chunk that completes a prompt is kept. *)
DecodedLastChunk ==
  [s \in SeqId |->
     LET mine == {r \in ToSet(active) : job[r].slot = s /\ Chunks[r] > 0
                                        /\ ~prefilling(r, Chunked[r])}
     IN  IF mine = {} THEN mem.kv[s]
         ELSE LET r == CHOOSE r \in mine : TRUE
              IN  mem.kv[s] \o SubSeq(Prompt[r], job[r].prefilled + 1, job[r].prefilled + Chunks[r])]

(* The engine's KV after a decode() of the chunks. *)
Decoded ==
  [s \in SeqId |->
     LET mine == {r \in ToSet(active) : job[r].slot = s /\ Chunks[r] > 0}
     IN  IF mine = {} THEN mem.kv[s]
         ELSE LET r == CHOOSE r \in mine : TRUE
              IN  mem.kv[s] \o SubSeq(Prompt[r], job[r].prefilled + 1, job[r].prefilled + Chunks[r])]

(* The places whose chunk completes the prompt. *)
Completed ==
  {i \in 1..Len(active) : /\ Running(active[i]) /\ prefilling(active[i], job[active[i]])
                          /\ ~prefilling(active[i], Chunked[active[i]])}

HasItems == Decodes # {} \/ \E r \in Req : Chunks[r] > 0

BuildAndDecode ==
  /\ pc = "build"
  /\ job' = Chunked
  /\ mem' = [mem EXCEPT !.kv = Decoded]
  /\ \E first \in InOrder(active, Decodes), last \in InOrder(active, Completed) :
       sampling' = first \o last
  /\ pc' = "accept"
  /\ UNCHANGED <<shared, pending, active, freeSlots, grewShort, joined, failures>>

(* decode() throws: every sequence in flight fails. *)
DecodeFails ==
  /\ pc = "build" /\ HasItems /\ failures < MaxFailures
  /\ job' = [r \in Req |-> IF r \in ToSet(active) THEN fail(Chunked[r], "error") ELSE job[r]]
  /\ failures' = failures + 1
  /\ pc' = "retire"
  /\ UNCHANGED <<shared, pending, active, freeSlots, mem, sampling, grewShort, joined>>

-----------------------------------------------------------------------------
(* 4. Accept the sampled tokens, one sequence at a time. *)

AcceptOne(outcome) ==
  /\ pc = "accept" /\ sampling # << >>
  /\ LET r     == Head(sampling)
         j     == accept(r, job[r], outcome, r \in cancel)
         fits  == CanEnsure(mem.pool, j.table, TokensNeeded(r, j))
         got   == ensure_capacity(mem.pool, j.table, TokensNeeded(r, j))
     IN  \/ /\ j.finished
            /\ job' = [job EXCEPT ![r] = finish(j)]
            /\ told' = [told EXCEPT ![r] = @ + 1]
            /\ UNCHANGED <<mem, grewShort>>
         \/ /\ ~j.finished /\ fits
            /\ job' = [job EXCEPT ![r] = [j EXCEPT !.table = got.table]]
            /\ mem' = Publish([mem EXCEPT !.pool = got.pool], j.slot, got.table.blocks, Prompt[r])
            /\ UNCHANGED <<told, grewShort>>
         \/ /\ ~j.finished /\ ~fits
            /\ job' = [job EXCEPT ![r] = j]
            /\ grewShort' = Append(grewShort, r)
            /\ UNCHANGED <<told, mem>>
  /\ sampling' = Tail(sampling)
  /\ UNCHANGED <<queue, closed, status, cancel, result, pc, pending, active, freeSlots, joined, failures>>

AcceptDone ==
  /\ pc = "accept" /\ sampling = << >>
  /\ pc' = "retire"
  /\ UNCHANGED <<shared, pending, active, freeSlots, job, mem, sampling, grewShort, joined, failures>>

-----------------------------------------------------------------------------
(* 5. Retire finished sequences; the same sweep runs again after step 6. *)

(* retire() and its callees, in their order. *)
Retired(r) ==
  LET j       == job[r]
      evicted == EvictSequence(mem, j.slot)
      kept    == retain_prefix(evicted, j.slot, j.table.blocks, Prompt[r])
  IN  ReleaseSequence(kept, j.slot, j.table.blocks)

(* The first one in the batch that is finished. *)
Retire ==
  /\ pc \in {"retire", "sweep"}
  /\ \E i \in 1..Len(active) :
       LET r == active[i]
       IN  /\ ~Running(r) /\ \A k \in 1..(i - 1) : Running(active[k])
           /\ freeSlots' = Append(freeSlots, job[r].slot)
           /\ told' = [told EXCEPT ![r] = IF job[r].notified THEN @ ELSE @ + 1]
           /\ mem' = Retired(r)
           /\ deliver(r, job[r].reason)
           /\ active' = RemoveAt(active, i)
           /\ job' = [job EXCEPT ![r] = NoJob]
  /\ UNCHANGED <<queue, closed, status, cancel, pc, pending, sampling, grewShort, joined, failures>>

RetireDone ==
  /\ pc \in {"retire", "sweep"} /\ \A r \in ToSet(active) : Running(r)
  /\ pc' = IF pc = "retire" THEN "resolve" ELSE "take"
  /\ UNCHANGED <<shared, pending, active, freeSlots, job, mem, sampling, grewShort, joined, failures>>

-----------------------------------------------------------------------------
(* 6. Resolve cache exhaustion for each starved sequence in turn. *)

Needed(r) == TokensNeeded(r, job[r])

(* Mutant of TooBig: measures against the free blocks. *)
TooBigForFree(r) == blocks_for(Needed(r)) > FreeBlocks(mem.pool)

TooBig(r) == blocks_for(Needed(r)) > NumBlocks
CanGrow(r) == CanEnsure(mem.pool, job[r].table, Needed(r))

(* Mutant of ResolveGone: nobody starved is looked at. *)
ResolveSkips ==
  /\ pc = "resolve" /\ grewShort # << >>
  /\ grewShort' = Tail(grewShort)
  /\ UNCHANGED <<shared, pc, pending, active, freeSlots, job, mem, sampling, joined, failures>>

(* Already retired or preempted: the next one. *)
ResolveGone ==
  /\ pc = "resolve" /\ grewShort # << >> /\ Head(grewShort) \notin ToSet(active)
  /\ grewShort' = Tail(grewShort)
  /\ UNCHANGED <<shared, pc, pending, active, freeSlots, job, mem, sampling, joined, failures>>

Starved(r) == pc = "resolve" /\ grewShort # << >> /\ r = Head(grewShort) /\ r \in ToSet(active)

ResolveTooBig(r) ==
  /\ Starved(r) /\ TooBig(r)
  /\ job' = [job EXCEPT ![r] = finish(stop_with(@, "context_overflow"))]
  /\ told' = [told EXCEPT ![r] = @ + 1]
  /\ grewShort' = Tail(grewShort)
  /\ UNCHANGED <<queue, closed, status, cancel, result, pc, pending, active, freeSlots, mem,
                 sampling, joined, failures>>

ResolveGrows(r) ==
  /\ Starved(r) /\ ~TooBig(r) /\ CanGrow(r)
  /\ LET got == ensure_capacity(mem.pool, job[r].table, Needed(r))
     IN  /\ job' = [job EXCEPT ![r].table = got.table]
         /\ mem' = [mem EXCEPT !.pool = got.pool]
  /\ grewShort' = Tail(grewShort)
  /\ UNCHANGED <<shared, pc, pending, active, freeSlots, sampling, joined, failures>>

(* Cache yields to work. *)
ResolveReclaim(r) ==
  /\ Starved(r) /\ ~TooBig(r) /\ ~CanGrow(r) /\ Retained(mem.cache) # {}
  /\ mem' = reclaim_donor_blocks(mem)
  /\ UNCHANGED <<shared, pc, pending, active, freeSlots, job, sampling, grewShort, joined, failures>>

(* Mutant of Victims: only the back of the batch is tried. *)
VictimsAtBack(r) == {i \in {Len(active)} : Running(active[i]) /\ active[i] # r}

(* preempt_one(): the most recently admitted one that may be evicted goes  *)
(* back to the front of pending.  When there is none the loop gives up on  *)
(* the starved one; RoomIsMade says that this is never reached.            *)
Victims(r) == {i \in 1..Len(active) : Running(active[i]) /\ active[i] # r}

Preempt(r) ==
  /\ Starved(r) /\ ~TooBig(r) /\ ~CanGrow(r) /\ Retained(mem.cache) = {}
  /\ IF Victims(r) = {}
     THEN grewShort' = Tail(grewShort) /\ UNCHANGED <<mem, freeSlots, active, pending, job>>
     ELSE \E i \in Victims(r) :
          LET v == active[i]
              j == job[v]
          IN  /\ \A k \in Victims(r) : k <= i
              /\ mem' = ReleaseSequence(EvictSequence(mem, j.slot), j.slot, j.table.blocks)
              /\ freeSlots' = Append(freeSlots, j.slot)
              /\ active' = RemoveAt(active, i)
              /\ pending' = <<v>> \o pending
              /\ job' = [job EXCEPT ![v] = NoJob]
              /\ UNCHANGED grewShort
  /\ UNCHANGED <<shared, pc, sampling, joined, failures>>

ResolveDone ==
  /\ pc = "resolve" /\ grewShort = << >>
  /\ pc' = "sweep"
  /\ UNCHANGED <<shared, pending, active, freeSlots, job, mem, sampling, grewShort, joined, failures>>

-----------------------------------------------------------------------------
Resolve ==
  \/ ResolveGone
  \/ ResolveDone
  \/ \E r \in Req : \/ ResolveTooBig(r) \/ ResolveGrows(r) \/ ResolveReclaim(r)
                    \/ Preempt(r)

(* The scheduler thread. *)
Run ==
  \/ TakeOne \/ TakeEnough \/ TakeNothing
  \/ MakeJob \/ AdmitReclaim \/ Admit \/ RejectUnfittable \/ Defer \/ AdmitDone
  \/ BuildAndDecode \/ DecodeFails
  \/ \E outcome \in Outcome : AcceptOne(outcome)
  \/ AcceptDone
  \/ Retire \/ RetireDone
  \/ Resolve

(* run() has returned and nothing is left to submit. *)
Stopped == pc = "done" /\ UNCHANGED vars

Next ==
  \/ \E r \in Req : Submit(r) \/ Cancel(r)
  \/ Close
  \/ Run
  \/ Stopped

Spec == Init /\ [][Next]_vars

(* The behaviours in which no client gives up, for the runs whose question *)
(* is the memory.                                                          *)
PatientNext ==
  \/ \E r \in Req : Submit(r)
  \/ Close
  \/ Run
  \/ Stopped

PatientSpec == Init /\ [][PatientNext]_vars

(* The scheduler thread is always scheduled again; clients owe nothing. *)
FairSpec == Spec /\ WF_vars(Run)
PatientFairSpec == PatientSpec /\ WF_vars(Run)

-----------------------------------------------------------------------------
Place == {"take", "admit", "fit", "build", "accept", "retire", "resolve", "sweep", "done"}

Job ==
  [slot : Slot \cup {-1}, prefilled : Nat, completion : Nat, finished : BOOLEAN,
   notified : BOOLEAN, reason : Reason, table : Table]

(* The variables have their types. *)
TypeOK ==
  /\ SharedTypeOK
  /\ pc \in Place
  /\ pending \in Seq(Req) /\ active \in Seq(Req)
  /\ sampling \in Seq(Req) /\ grewShort \in Seq(Req)
  /\ freeSlots \in Seq(Slot)
  /\ job \in [Req -> Job]
  /\ mem.pool \in Pool
  /\ \A r \in Req : job[r].prefilled <= PromptLen(r)

(* "Once the scheduler takes a request, it owns it" (docs/architecture.md): *)
(* an accepted request is in exactly one place, once, until it is answered, *)
(* through deferral, preemption and shutdown; an answered one is nowhere.   *)
OwnedOnce == OncePerRequest(queue \o pending \o active)

(* Batch slots and donor slots are conserved: a slot is free, or in use by  *)
(* one sequence, and the engine knows exactly the sequences in use.         *)
SlotsExact ==
  LET held   == {job[r].slot : r \in ToSet(active)}
      trying == IF pc = "fit" THEN {Last(freeSlots)} ELSE {}
      donors == {mem.cache.entries[i].seq : i \in Retained(mem.cache)}
  IN  /\ IsInjective(freeSlots) /\ IsInjective(mem.cache.slots)
      /\ Cardinality(held) = Len(active)
      /\ held \cap ToSet(freeSlots) = {} /\ held \cup ToSet(freeSlots) = Slot
      /\ Cardinality(donors) = Cardinality(Retained(mem.cache))
      /\ donors \cap ToSet(mem.cache.slots) = {}
      /\ donors \cup ToSet(mem.cache.slots) = DonorSlot
      /\ {s \in SeqId : mem.kv[s] # NoKv} = held \cup trying \cup donors

(* Every refcount is the number of references the batch and the donors      *)
(* hold, and the free list is exactly the unreferenced blocks.              *)
RefcountExact ==
  \A b \in BlockId :
    LET Holds(blocks, i) == i <= Len(blocks) /\ blocks[i] = b
        inJobs   == {p \in Req \X (1..(2 * NumBlocks)) : Holds(job[p[1]].table.blocks, p[2])}
        inDonors == {p \in Retained(mem.cache) \X (1..NumBlocks) :
                       Holds(mem.cache.entries[p[1]].blocks, p[2])}
    IN  /\ mem.pool.ref[b] = Cardinality(inJobs) + Cardinality(inDonors)
        /\ (mem.pool.ref[b] = 0) = (b \in ToSet(mem.pool.free))

(* The cache never names KV that is gone or was replaced: what a hit would *)
(* copy is the KV of the tokens whose hash is the key.                     *)
CacheFresh ==
  \A i \in 1..Len(mem.cache.entries) :
    LET e == mem.cache.entries[i]
    IN  /\ mem.kv[e.seq] # NoKv
        /\ e.n_tokens <= Len(mem.kv[e.seq])
        /\ hash_prefix(mem.kv[e.seq], e.n_tokens) = e.hash
        /\ \A b \in ToSet(e.blocks) : mem.pool.ref[b] > 0

(* mock_engine.cpp: "a faithful position-indexed model of the KV cache": a *)
(* running sequence has in the engine exactly the prompt tokens it has     *)
(* prefilled, whether it computed them or copied them.                     *)
KvFaithful ==
  \A r \in ToSet(active) : Running(r) =>
    mem.kv[job[r].slot] = SubSeq(Prompt[r], 1, job[r].prefilled)

(* scheduler.cpp, admission headroom: it "guarantees the batch can always  *)
(* advance a step before pressure returns": nobody starves in a pass that  *)
(* admitted into a running batch.                                          *)
HeadroomSuffices == joined => grewShort = << >>

(* "evicting others is guaranteed to make room eventually" (scheduler.cpp): *)
(* a starved sequence that fits the pool and still cannot grow once the     *)
(* donors are gone always finds another sequence to evict.                  *)
RoomIsMade ==
  \A r \in Req : Starved(r) /\ ~TooBig(r) /\ ~CanGrow(r) /\ Retained(mem.cache) = {}
                 => Victims(r) # {}

(* When a pass ends, every running sequence has the blocks for its prompt  *)
(* and all it has generated, whatever was preempted or reclaimed for it.   *)
GrowthCovered ==
  pc \in {"sweep", "take"} => \A r \in ToSet(active) : Running(r) =>
    Len(job[r].table.blocks) >= blocks_for(Needed(r))

(* The requests that no empty pool or context can hold to the end. *)
Oversized ==
  {r \in Req : \/ NCtxSeq > 0 /\ ContextNeeded(r) > NCtxSeq
               \/ blocks_for(PromptLen(r) + MaxNew[r]) > NumBlocks}

(* scheduler.cpp, where a request is rejected with nothing running: "this   *)
(* request simply cannot fit the pool".                                     *)
RejectsOnlyOversized == \A r \in Req : result[r] = "context_overflow" => r \in Oversized

(* block_allocator.hpp, "the central invariant": a live sequence's table    *)
(* has exactly the blocks its tokens fill.                                  *)
CeilingInvariant ==
  \A r \in ToSet(active) :
    Len(job[r].table.blocks) = blocks_for(job[r].table.n_tokens)

Contract == INSTANCE Service WITH
  phase     <- [r \in Req |-> IF result[r] # "none" THEN "answered" ELSE status[r]],
  answer    <- result,
  cancelled <- cancel,
  broken    <- failures > 0

(* The scheduler implements the service: refused only at capacity or after *)
(* the close, answered once, and with a reason that is justified.          *)
ImplementsService == Contract!Spec

(* Closing the queue drains the server: run() returns. *)
Drains == closed ~> pc = "done"
=============================================================================
