----------------------------- MODULE BlockPool -----------------------------
(***************************************************************************)
(* BlockAllocator and BlockTable as operators on values: a pool is the     *)
(* allocator's free list and refcounts, a table is one sequence's blocks,  *)
(* the token count they are reserved for, and how many are shared.  The    *)
(* free list is a stack whose top is the last element, as in the code.     *)
(* Each loop of the code is the fold of the operator that models its body. *)
(***************************************************************************)
EXTENDS Integers, Sequences, SequencesExt

CONSTANTS
  NumBlocks,  \* total_: blocks in the pool (--kv-blocks)
  BlockSize   \* block_size_: tokens per block, at least 1

ASSUME PoolAssumption == NumBlocks \in Nat /\ BlockSize \in Nat \ {0}

BlockId == 0..(NumBlocks - 1)
Pool == [free : Seq(BlockId), ref : [BlockId -> Nat]]
Table == [blocks : Seq(BlockId), n_tokens : Nat, shared : Nat]

(* Mutant of NewPool: ids counted from 1. *)
NewPoolFromOne ==
  [free |-> [i \in 1..NumBlocks |-> NumBlocks - i + 1], ref |-> [b \in BlockId |-> 0]]

(* BlockAllocator(): low ids are handed out first. *)
NewPool ==
  [free |-> [i \in 1..NumBlocks |-> NumBlocks - i], ref |-> [b \in BlockId |-> 0]]

NewTable == [blocks |-> << >>, n_tokens |-> 0, shared |-> 0]

FreeBlocks(pool) == Len(pool.free)

(* Mutant of blocks_for: rounds down. *)
BlocksForFloor(n) == n \div BlockSize

blocks_for(n) == (n + BlockSize - 1) \div BlockSize

(* Mutant of can_allocate: asks for one block only. *)
CanAllocateOne(pool, n) == n = 0 \/ FreeBlocks(pool) > 0

can_allocate(pool, n) == n <= FreeBlocks(pool)

-----------------------------------------------------------------------------
(* The bodies of the allocator's loops, one block each. *)

TopFree(pool) == pool.free[Len(pool.free)]

(* allocate()'s body: pop the top of the free list at refcount 1. *)
TakeBlock(pool) ==
  [free |-> SubSeq(pool.free, 1, Len(pool.free) - 1),
   ref  |-> [pool.ref EXCEPT ![TopFree(pool)] = 1]]

(* Mutant of FreeBlock: a shared block returns to the list at once. *)
FreeBlockShared(pool, b) ==
  IF pool.ref[b] = 0 THEN pool
  ELSE [free |-> Append(pool.free, b), ref |-> [pool.ref EXCEPT ![b] = @ - 1]]

(* free()'s body: drop one reference; the last one returns the block.  A   *)
(* block with no reference is left alone.                                  *)
FreeBlock(pool, b) ==
  IF pool.ref[b] = 0 THEN pool
  ELSE [free |-> IF pool.ref[b] = 1 THEN Append(pool.free, b) ELSE pool.free,
        ref  |-> [pool.ref EXCEPT ![b] = @ - 1]]

(* Mutant of incref: a share takes no reference. *)
IncrefNothing(pool, b) == pool

(* incref(): only a block that is already referenced gains a reference. *)
incref(pool, b) ==
  IF pool.ref[b] > 0
  THEN [free |-> pool.free, ref |-> [pool.ref EXCEPT ![b] = @ + 1]]
  ELSE pool

-----------------------------------------------------------------------------
(* The whole operations, as the scheduler calls them. *)

free(pool, blocks) == FoldLeft(FreeBlock, pool, blocks)

IncrefAll(pool, blocks) == FoldLeft(incref, pool, blocks)

(* BlockTable::ensure_capacity() with allocate() inside it: the shortfall  *)
(* is taken as a whole or not at all.                                      *)
Shortfall(table, n) ==
  IF blocks_for(n) > Len(table.blocks) THEN blocks_for(n) - Len(table.blocks) ELSE 0

CanEnsure(pool, table, n) == can_allocate(pool, Shortfall(table, n))

TakeInto(acc, i) ==
  [pool |-> TakeBlock(acc.pool), blocks |-> Append(acc.blocks, TopFree(acc.pool))]

ensure_capacity(pool, table, n) ==
  LET got == FoldLeft(TakeInto, [pool |-> pool, blocks |-> table.blocks],
                      [i \in 1..Shortfall(table, n) |-> i])
  IN [pool |-> got.pool, table |-> [table EXCEPT !.blocks = got.blocks, !.n_tokens = n]]

(* BlockTable::adopt_shared_prefix(): the shared blocks go behind whatever *)
(* the table already holds.                                                *)
AdoptTokens(table, n) == IF n > table.n_tokens THEN n ELSE table.n_tokens

adopt_shared_prefix(pool, table, blocks, n) ==
  [pool  |-> IncrefAll(pool, blocks),
   table |-> [blocks   |-> table.blocks \o blocks,
             n_tokens |-> AdoptTokens(table, n),
             shared   |-> Len(blocks)]]
=============================================================================
