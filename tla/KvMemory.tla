------------------------------ MODULE KvMemory ------------------------------
(***************************************************************************)
(* The memory the scheduler thread manages, as operators on one value:     *)
(*   pool    the block allocator (module BlockPool),                       *)
(*   cache   PrefixCache: its entries, least recently used first, and the  *)
(*           stack of free donor slots,                                    *)
(*   kv      the engine: for every sequence id the prompt tokens whose KV  *)
(*           it holds, or NoKv when the id is not registered.              *)
(* last_used is abstracted to the order of the entries: ++tick_ is a move  *)
(* to the end.                                                             *)
(***************************************************************************)
EXTENDS BlockPool, FiniteSets

CONSTANTS
  MaxBatch,        \* batch slots are the sequence ids 0 .. MaxBatch - 1
  Donors,          \* donor slots are the ids from MaxBatch on (--prefix-donors)
  PrefixCaching,   \* --no-prefix-cache unset
  NoKv,            \* the content of an unregistered sequence
  fnv1a(_)         \* the hash of a token sequence

ASSUME MemoryAssumption ==
  MaxBatch \in Nat \ {0} /\ Donors \in Nat /\ PrefixCaching \in BOOLEAN

Slot == 0..(MaxBatch - 1)
DonorSlot == MaxBatch..(MaxBatch + Donors - 1)
SeqId == Slot \cup DonorSlot

NewMemory ==
  [pool  |-> NewPool,
   cache |-> [entries |-> << >>, slots |-> [i \in 1..Donors |-> MaxBatch + Donors - i]],
   kv    |-> [s \in SeqId |-> NoKv]]

-----------------------------------------------------------------------------
(* IModelEngine: the sequences it knows and the KV behind them. *)

begin_sequence(mem, s) == [mem EXCEPT !.kv[s] = << >>]

release_sequence(mem, s) == [mem EXCEPT !.kv[s] = NoKv]

(* Mutant of copy_sequence: the whole source, not the prefix. *)
CopyWhole(mem, src, dst, n) ==
  IF n = 0 \/ src = dst \/ NoKv \in {mem.kv[src], mem.kv[dst]} THEN mem
  ELSE [mem EXCEPT !.kv[dst] = mem.kv[src]]

(* Nothing is copied from or into an unregistered sequence. *)
copy_sequence(mem, src, dst, n) ==
  IF n = 0 \/ src = dst \/ NoKv \in {mem.kv[src], mem.kv[dst]} THEN mem
  ELSE [mem EXCEPT !.kv[dst] =
          LET from == mem.kv[src]
          IN  SubSeq(from, 1, IF n < Len(from) THEN n ELSE Len(from))]

-----------------------------------------------------------------------------
(* PrefixCache.  An entry is keyed by its hash. *)

hash_prefix(tokens, n) == fnv1a(SubSeq(tokens, 1, n))

WholeBlocks(tokens) == Len(tokens) \div BlockSize

Retained(cache) == {i \in 1..Len(cache.entries) : cache.entries[i].retained}

(* The positions of the entries a lookup of the first nb blocks finds. *)
Matches(cache, tokens, nb) ==
  {i \in 1..Len(cache.entries) : /\ cache.entries[i].hash = hash_prefix(tokens, nb * BlockSize)
                                 /\ cache.entries[i].n_tokens = nb * BlockSize}

(* find_longest(): the position of the hit, 0 for a miss. *)
find_longest(cache, tokens) ==
  LET found == {nb \in 1..WholeBlocks(tokens) : Matches(cache, tokens, nb) # {}}
  IN  IF found = {} THEN 0
      ELSE CHOOSE i \in Matches(cache, tokens, Max(found)) : TRUE

Touch(cache, i) ==
  [cache EXCEPT !.entries = Append(RemoveAt(@, i), @[i])]

(* insert() and retain() both overwrite what the hash maps to. *)
insert(cache, entry) ==
  [cache EXCEPT !.entries =
     Append(SelectSeq(@, LAMBDA e : e.hash # entry.hash), entry)]

(* Mutant of PopDonorSlot: the slot stays on the stack. *)
PeekDonorSlot(cache) == cache

PopDonorSlot(cache) == [cache EXCEPT !.slots = Front(@)]

(* Mutant of evict_sequence: the entries outlive their sequence. *)
EvictNothing(cache, s) == cache

(* evict_sequence(): drop every entry that names s; a donor's slot becomes *)
(* reusable.                                                               *)
evict_sequence(cache, s) ==
  [entries |-> SelectSeq(cache.entries, LAMBDA e : e.seq # s),
   slots   |-> IF \E i \in Retained(cache) : cache.entries[i].seq = s
               THEN Append(cache.slots, s) ELSE cache.slots]

-----------------------------------------------------------------------------
(* Scheduler's donor operations. *)

(* reclaim_donor_blocks(): evict_lru_retained() and release_donor() of the *)
(* victim.  Enabled only when some entry is retained.                      *)
reclaim_donor_blocks(mem) ==
  LET v      == Min(Retained(mem.cache))
      victim == mem.cache.entries[v]
  IN  [pool  |-> free(mem.pool, victim.blocks),
       cache |-> [entries |-> RemoveAt(mem.cache.entries, v),
                  slots   |-> Append(mem.cache.slots, victim.seq)],
       kv    |-> [mem.kv EXCEPT ![victim.seq] = NoKv]]

(* retain_prefix(): copy the whole-block prefix of a retiring sequence into *)
(* a donor slot, making one by LRU eviction when none is free, and take a   *)
(* reference to its blocks.                                                 *)
Retain(mem, seq, blocks, tokens) ==
  LET n      == WholeBlocks(tokens)
      slot   == Last(mem.cache.slots)
      kept   == SubSeq(blocks, 1, n)
      copied == copy_sequence(begin_sequence(mem, slot), seq, slot, n * BlockSize)
  IN  [pool  |-> IncrefAll(mem.pool, kept),
       cache |-> insert(PopDonorSlot(mem.cache),
                        [hash |-> hash_prefix(tokens, n * BlockSize), seq |-> slot,
                         n_tokens |-> n * BlockSize, blocks |-> kept, retained |-> TRUE]),
       kv    |-> copied.kv]

retain_prefix(mem, seq, blocks, tokens) ==
  IF \/ ~PrefixCaching
     \/ Donors = 0
     \/ WholeBlocks(tokens) = 0
     \/ WholeBlocks(tokens) > Len(blocks)
  THEN mem
  ELSE LET room == IF mem.cache.slots = << >> /\ Retained(mem.cache) # {}
                   THEN reclaim_donor_blocks(mem) ELSE mem
       IN  IF room.cache.slots = << >> THEN mem
           ELSE Retain(room, seq, blocks, tokens)

(* Mutants of ReleaseSequence: the engine's sequence, or the blocks, stay. *)
ReleaseBlocksOnly(mem, seq, blocks) ==
  [pool |-> free(mem.pool, blocks), cache |-> mem.cache, kv |-> mem.kv]
ReleaseKvOnly(mem, seq, blocks) ==
  [pool |-> mem.pool, cache |-> mem.cache, kv |-> [mem.kv EXCEPT ![seq] = NoKv]]

(* The rest of retire(), and what preempt_one() does without retaining:    *)
(* the blocks and the engine's sequence are given up.                      *)
ReleaseSequence(mem, seq, blocks) ==
  [pool  |-> free(mem.pool, blocks),
   cache |-> mem.cache,
   kv    |-> [mem.kv EXCEPT ![seq] = NoKv]]

EvictSequence(mem, seq) == [mem EXCEPT !.cache = evict_sequence(@, seq)]

(* Admission of a hit: the cached KV is copied into seq and its blocks are *)
(* shared.  The result carries the table as well.                          *)
AdoptHit(mem, seq, table, i) ==
  LET hit     == mem.cache.entries[i]
      touched == [mem EXCEPT !.cache = Touch(@, i)]
      shared  == adopt_shared_prefix(mem.pool, table, hit.blocks, hit.n_tokens)
      copied  == copy_sequence(touched, hit.seq, seq, hit.n_tokens)
  IN  [mem |-> [copied EXCEPT !.pool = shared.pool], table |-> shared.table]

(* Publication of a live sequence's prompt prefix. *)
Publish(mem, seq, blocks, tokens) ==
  LET n == WholeBlocks(tokens)
  IN  IF ~PrefixCaching \/ n = 0 \/ Len(blocks) < n THEN mem
      ELSE [mem EXCEPT !.cache =
              insert(@, [hash |-> hash_prefix(tokens, n * BlockSize), seq |-> seq,
                         n_tokens |-> n * BlockSize, blocks |-> SubSeq(blocks, 1, n),
                         retained |-> FALSE])]
=============================================================================
