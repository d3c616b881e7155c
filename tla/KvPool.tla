------------------------------- MODULE KvPool -------------------------------
(***************************************************************************)
(* The KV block pool as a state machine: holders (the block tables of the  *)
(* live sequences and the block lists of the retained donors) grow, adopt  *)
(* a prefix that another holder references, and release.  One loop         *)
(* iteration of the allocator is one step, so the invariants also hold in  *)
(* the middle of allocate(), of a run of incref() and of free().  The      *)
(* scheduler thread is the only caller: one operation runs at a time.      *)
(***************************************************************************)
EXTENDS BlockPool, FiniteSets

CONSTANTS
  Holders,   \* owners of block references: sequences and donor slots
  NoHolder,  \* not a holder
  MaxTokens  \* bound on the tokens a table is asked to hold

ASSUME HolderAssumption == NoHolder \notin Holders /\ MaxTokens \in Nat

VARIABLES
  pool,   \* the allocator: free list and refcounts
  table,  \* [Holders -> Table]
  op      \* the operation in progress and how far its loop has come

vars == <<pool, table, op>>

Idle == [kind |-> "idle", h |-> NoHolder, src |-> NoHolder, n |-> 0, i |-> 0]

Init ==
  /\ pool = NewPool
  /\ table = [h \in Holders |-> NewTable]
  /\ op = Idle

-----------------------------------------------------------------------------
(* ensure_capacity(n): refused as a whole when the pool is short of the    *)
(* missing blocks, otherwise the missing blocks are popped one by one.     *)
BeginGrow(h, n) ==
  /\ op.kind = "idle"
  /\ CanEnsure(pool, table[h], n)
  /\ op' = [kind |-> "grow", h |-> h, src |-> NoHolder, n |-> n, i |-> 0]
  /\ UNCHANGED <<pool, table>>

GrowStep ==
  /\ op.kind = "grow"
  /\ Len(table[op.h].blocks) < blocks_for(op.n)
  /\ pool' = TakeBlock(pool)
  /\ table' = [table EXCEPT ![op.h].blocks = Append(@, TopFree(pool))]
  /\ UNCHANGED op

EndGrow ==
  /\ op.kind = "grow"
  /\ Len(table[op.h].blocks) >= blocks_for(op.n)
  /\ table' = [table EXCEPT ![op.h] =
                 [blocks |-> @.blocks, n_tokens |-> op.n, shared |-> @.shared]]
  /\ op' = Idle
  /\ UNCHANGED pool

(* adopt_shared_prefix() and retain_prefix()'s incref loop: h takes a      *)
(* reference to the k leading blocks of src, whole blocks that src's       *)
(* tokens fill.  The callers do it once in the life of a table.            *)
BeginAdopt(h, src, k) ==
  /\ op.kind = "idle"
  /\ h # src
  /\ table[h].shared = 0
  /\ k <= Len(table[src].blocks)
  /\ k * BlockSize <= table[src].n_tokens
  /\ op' = [kind |-> "adopt", h |-> h, src |-> src, n |-> k, i |-> 1]
  /\ UNCHANGED <<pool, table>>

AdoptStep ==
  /\ op.kind = "adopt"
  /\ op.i <= op.n
  /\ pool' = incref(pool, table[op.src].blocks[op.i])
  /\ table' = [table EXCEPT ![op.h].blocks = Append(@, table[op.src].blocks[op.i])]
  /\ op' = [op EXCEPT !.i = @ + 1]

EndAdopt ==
  /\ op.kind = "adopt"
  /\ op.i > op.n
  /\ table' = [table EXCEPT ![op.h] =
                 [blocks   |-> @.blocks,
                  n_tokens |-> AdoptTokens(@, op.n * BlockSize),
                  shared   |-> op.n]]
  /\ op' = Idle
  /\ UNCHANGED pool

(* release() of a table, and release_donor()'s free(): every reference is  *)
(* dropped, first block first, then the table is cleared.                  *)
BeginFree(h) ==
  /\ op.kind = "idle"
  /\ op' = [kind |-> "free", h |-> h, src |-> NoHolder, n |-> 0, i |-> 1]
  /\ UNCHANGED <<pool, table>>

FreeStep ==
  /\ op.kind = "free"
  /\ op.i <= Len(table[op.h].blocks)
  /\ pool' = FreeBlock(pool, table[op.h].blocks[op.i])
  /\ op' = [op EXCEPT !.i = @ + 1]
  /\ UNCHANGED table

EndFree ==
  /\ op.kind = "free"
  /\ op.i > Len(table[op.h].blocks)
  /\ table' = [table EXCEPT ![op.h] = NewTable]
  /\ op' = Idle
  /\ UNCHANGED pool

Next ==
  \/ \E h \in Holders, n \in 0..MaxTokens : BeginGrow(h, n)
  \/ GrowStep
  \/ EndGrow
  \/ \E h, src \in Holders, k \in 1..MaxTokens : BeginAdopt(h, src, k)
  \/ AdoptStep
  \/ EndAdopt
  \/ \E h \in Holders : BeginFree(h)
  \/ FreeStep
  \/ EndFree

Spec == Init /\ [][Next]_vars

-----------------------------------------------------------------------------
(* Every variable has its type, and the loop counters are in range. *)
TypeOK ==
  /\ pool \in Pool
  /\ table \in [Holders -> Table]
  /\ op \in [kind : {"idle", "grow", "adopt", "free"}, h : Holders \cup {NoHolder},
             src : Holders \cup {NoHolder}, n : Nat, i : Nat]
  /\ op.kind # "idle" => op.h \in Holders

(* The first block of h's list that h still references: free() has already *)
(* dropped the ones before it.                                             *)
FirstHeld(h) == IF op.kind = "free" /\ op.h = h THEN op.i ELSE 1

(* The references to b: the places of all lists that hold it. *)
Refs(b) ==
  UNION {{<<h, i>> : i \in {j \in FirstHeld(h)..Len(table[h].blocks) :
                              table[h].blocks[j] = b}} : h \in Holders}

(* BlockAllocator's refcounts: the refcount of every block is exactly the  *)
(* number of references the sequences and the donors hold to it, at every  *)
(* iteration of every loop of allocate(), incref() and free().             *)
RefcountExact ==
  \A b \in BlockId : IsFiniteSet(Refs(b)) /\ pool.ref[b] = Cardinality(Refs(b))

(* "no block is ever handed out twice" and "every block returns to the     *)
(* free list exactly once, at refcount zero" (docs/architecture.md): the   *)
(* free list lists exactly the unreferenced blocks, each of them once.     *)
FreeListExact ==
  /\ \A b \in BlockId : pool.ref[b] = 0 <=> \E i \in 1..Len(pool.free) : pool.free[i] = b
  /\ \A i, j \in 1..Len(pool.free) : pool.free[i] = pool.free[j] => i = j

(* allocate() is all-or-nothing: once its check has passed, the loop never *)
(* reaches an empty free list.                                             *)
AllOrNothing ==
  op.kind = "grow" => blocks_for(op.n) - Len(table[op.h].blocks) <= Len(pool.free)

(* A table always has the blocks for the tokens it was granted, adoption   *)
(* of a shared prefix and release included.                                *)
CapacityCovered ==
  \A h \in Holders : Len(table[h].blocks) * BlockSize >= table[h].n_tokens
=============================================================================
