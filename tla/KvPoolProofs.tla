---------------------------- MODULE KvPoolProofs ----------------------------
(***************************************************************************)
(* The block pool's accounting is exact for every number of blocks, every  *)
(* block size and every set of holders.                                    *)
(***************************************************************************)
EXTENDS KvPool, FiniteSetTheorems, SequenceTheorems, TLAPS

(* The loop counters of the operation in progress. *)
OpInRange ==
  /\ op.kind = "adopt" => /\ op.src \in Holders /\ op.src # op.h
                          /\ op.i \in 1..(op.n + 1)
                          /\ op.n <= Len(table[op.src].blocks)
                          /\ op.i <= Len(table[op.h].blocks) + 1
  /\ op.kind = "free" => op.i \in 1..(Len(table[op.h].blocks) + 1)

IInv ==
  TypeOK /\ OpInRange /\ RefcountExact /\ FreeListExact /\ AllOrNothing /\ CapacityCovered

(* A record with the fields of a BlockTable is a table. *)
LEMMA TableRecord ==
  ASSUME NEW bs \in Seq(BlockId), NEW n \in Nat, NEW s \in Nat
  PROVE  [blocks |-> bs, n_tokens |-> n, shared |-> s] \in Table
BY DEF Table

(* blocks_for() is a natural number. *)
LEMMA BlocksForNat ==
  ASSUME NEW n \in Nat
  PROVE  blocks_for(n) \in Nat
BY PoolAssumption DEF blocks_for

(* blocks_for() rounds up. *)
LEMMA BlocksForCovers ==
  ASSUME NEW n \in Nat
  PROVE  blocks_for(n) * BlockSize >= n
<1>1. \A x \in Nat : x < (x \div BlockSize) * BlockSize + BlockSize
  BY PoolAssumption, Z3
<1>2. n + BlockSize - 1 \in Nat
  BY PoolAssumption
<1>3. n + BlockSize - 1 < blocks_for(n) * BlockSize + BlockSize
  BY <1>1, <1>2 DEF blocks_for
<1>4. blocks_for(n) * BlockSize \in Nat
  BY PoolAssumption, BlocksForNat
<1> QED
  BY <1>3, <1>4, PoolAssumption

(* A longer block list holds more tokens. *)
LEMMA MoreBlocksHoldMore ==
  ASSUME NEW j \in Nat, NEW k \in Nat, k >= j
  PROVE  j * BlockSize \in Nat /\ k * BlockSize \in Nat /\ k * BlockSize >= j * BlockSize
BY PoolAssumption, Z3

(* Popping the top of a nonempty free list takes an unreferenced block to  *)
(* refcount 1 and leaves the list exact.                                   *)
LEMMA TakeBlockExact ==
  ASSUME TypeOK, FreeListExact, Len(pool.free) > 0, pool' = TakeBlock(pool)
  PROVE  /\ TopFree(pool) \in BlockId
         /\ pool.ref[TopFree(pool)] = 0
         /\ pool' \in Pool
         /\ pool'.ref = [pool.ref EXCEPT ![TopFree(pool)] = 1]
         /\ Len(pool'.free) = Len(pool.free) - 1
         /\ FreeListExact'
<1>1. pool.free \in Seq(BlockId) /\ pool.ref \in [BlockId -> Nat]
  BY DEF TypeOK, Pool
<1>2. TopFree(pool) \in BlockId
  BY <1>1 DEF TopFree
<1>3. pool.ref[TopFree(pool)] = 0
  BY <1>1, <1>2 DEF TopFree, FreeListExact
<1>4. /\ pool'.free \in Seq(BlockId)
      /\ Len(pool'.free) = Len(pool.free) - 1
      /\ \A i \in 1..(Len(pool.free) - 1) : pool'.free[i] = pool.free[i]
  BY <1>1, SubSeqProperties DEF TakeBlock
<1>5. pool'.ref = [pool.ref EXCEPT ![TopFree(pool)] = 1] /\ pool'.ref \in [BlockId -> Nat]
  BY <1>1, <1>2 DEF TakeBlock
<1>6. pool' \in Pool
  BY <1>4, <1>5 DEF TakeBlock, Pool
<1>7. FreeListExact'
  <2> 1..Len(pool.free) = (1..Len(pool'.free)) \cup {Len(pool.free)}
    BY <1>1, <1>4
  <2>1. \A i, j \in 1..Len(pool'.free) : pool'.free[i] = pool'.free[j] => i = j
    <3>1. \A i \in 1..Len(pool'.free) : pool'.free[i] = pool.free[i]
      BY <1>4
    <3> QED
      BY <3>1 DEF FreeListExact
  <2>2. ASSUME NEW i \in 1..Len(pool'.free)
        PROVE  pool'.free[i] # TopFree(pool)
    <3>1. i \in 1..Len(pool.free) /\ Len(pool.free) \in 1..Len(pool.free) /\ i # Len(pool.free)
      BY <1>1, <1>4
    <3> QED
      BY <1>4, <3>1 DEF FreeListExact, TopFree
  <2>3. ASSUME NEW b \in BlockId, b # TopFree(pool)
        PROVE  (\E i \in 1..Len(pool'.free) : pool'.free[i] = b)
               <=> (\E i \in 1..Len(pool.free) : pool.free[i] = b)
    <3>1. \A i \in 1..Len(pool'.free) : pool'.free[i] = pool.free[i]
      BY <1>4
    <3> QED
      BY <2>3, <3>1 DEF TopFree
  <2>4. ASSUME NEW b \in BlockId
        PROVE  pool'.ref[b] = 0 <=> \E i \in 1..Len(pool'.free) : pool'.free[i] = b
    <3>1. CASE b = TopFree(pool)
      BY <1>1, <1>5, <2>2, <3>1
    <3>2. CASE b # TopFree(pool)
      BY <1>1, <1>5, <2>3, <3>2 DEF FreeListExact
    <3> QED
      BY <3>1, <3>2
  <2> QED
    BY <2>1, <2>4 DEF FreeListExact
<1> QED
  BY <1>2, <1>3, <1>4, <1>5, <1>6, <1>7

(* Dropping a reference returns the block exactly when it was the last.    *)
LEMMA FreeBlockExact ==
  ASSUME TypeOK, FreeListExact, NEW b \in BlockId, pool.ref[b] > 0,
         pool' = FreeBlock(pool, b)
  PROVE  /\ pool' \in Pool
         /\ pool'.ref = [pool.ref EXCEPT ![b] = @ - 1]
         /\ FreeListExact'
<1>1. pool.free \in Seq(BlockId) /\ pool.ref \in [BlockId -> Nat]
  BY DEF TypeOK, Pool
<1>2. pool'.ref = [pool.ref EXCEPT ![b] = @ - 1] /\ pool'.ref \in [BlockId -> Nat]
  BY <1>1 DEF FreeBlock
<1>3. CASE pool.ref[b] = 1
  <2>1. /\ pool'.free \in Seq(BlockId)
        /\ Len(pool'.free) = Len(pool.free) + 1
        /\ \A i \in 1..Len(pool.free) : pool'.free[i] = pool.free[i]
        /\ pool'.free[Len(pool.free) + 1] = b
    BY <1>1, <1>3, AppendProperties DEF FreeBlock
  <2>2. pool' \in Pool
    BY <1>2, <1>3, <2>1 DEF FreeBlock, Pool
  <2>3. \A i \in 1..Len(pool.free) : pool.free[i] # b
    BY <1>1, <1>3 DEF FreeListExact
  <2>4. 1..Len(pool'.free) = (1..Len(pool.free)) \cup {Len(pool.free) + 1}
    BY <1>1, <2>1
  <2>5. ASSUME NEW i \in 1..Len(pool'.free), NEW j \in 1..Len(pool'.free),
               pool'.free[i] = pool'.free[j]
        PROVE  i = j
    <3>1. CASE i = Len(pool.free) + 1
      BY <2>1, <2>3, <2>5, <2>4, <3>1
    <3>2. CASE j = Len(pool.free) + 1
      BY <2>1, <2>3, <2>5, <2>4, <3>2
    <3>3. CASE i \in 1..Len(pool.free) /\ j \in 1..Len(pool.free)
      BY <2>1, <2>5, <3>3 DEF FreeListExact
    <3> QED
      BY <2>4, <3>1, <3>2, <3>3
  <2>6. ASSUME NEW c \in BlockId
        PROVE  pool'.ref[c] = 0 <=> \E i \in 1..Len(pool'.free) : pool'.free[i] = c
    <3>1. CASE c = b
      BY <1>1, <1>2, <1>3, <2>1, <3>1
    <3>2. CASE c # b
      <4>1. (\E i \in 1..Len(pool'.free) : pool'.free[i] = c)
            <=> (\E i \in 1..Len(pool.free) : pool.free[i] = c)
        BY <2>1, <2>4, <3>2
      <4> QED
        BY <1>1, <1>2, <3>2, <4>1 DEF FreeListExact
    <3> QED
      BY <3>1, <3>2
  <2> QED
    BY <1>2, <2>2, <2>5, <2>6 DEF FreeListExact
<1>4. CASE pool.ref[b] # 1
  <2>1. pool'.free = pool.free
    BY <1>1, <1>4 DEF FreeBlock
  <2>2. pool' \in Pool
    BY <1>1, <1>2, <1>4 DEF FreeBlock, Pool
  <2>3. \A c \in BlockId : pool'.ref[c] = 0 <=> pool.ref[c] = 0
    BY <1>1, <1>2, <1>4
  <2> QED
    BY <1>2, <2>1, <2>2, <2>3 DEF FreeListExact
<1> QED
  BY <1>3, <1>4

(* incref() of a referenced block. *)
LEMMA IncrefExact ==
  ASSUME TypeOK, FreeListExact, NEW b \in BlockId, pool.ref[b] > 0,
         pool' = incref(pool, b)
  PROVE  /\ pool' \in Pool
         /\ pool'.ref = [pool.ref EXCEPT ![b] = @ + 1]
         /\ FreeListExact'
<1>1. pool.free \in Seq(BlockId) /\ pool.ref \in [BlockId -> Nat]
  BY DEF TypeOK, Pool
<1>2. pool' = [free |-> pool.free, ref |-> [pool.ref EXCEPT ![b] = @ + 1]]
  BY DEF incref
<1>3. /\ pool'.ref = [pool.ref EXCEPT ![b] = @ + 1]
      /\ pool'.free = pool.free
      /\ pool' \in Pool
  BY <1>1, <1>2 DEF Pool
<1>4. \A c \in BlockId : pool'.ref[c] = 0 <=> pool.ref[c] = 0
  BY <1>1, <1>3
<1> QED
  BY <1>3, <1>4 DEF FreeListExact

-----------------------------------------------------------------------------
(* A step that adds one reference to b, and none to another block, and     *)
(* counts it, keeps the refcounts exact; so does one that drops one.       *)
LEMMA GainReference ==
  ASSUME TypeOK, RefcountExact, NEW b \in BlockId, NEW r,
         r \notin Refs(b),
         Refs(b)' = Refs(b) \cup {r},
         \A c \in BlockId : c # b => Refs(c)' = Refs(c),
         pool'.ref = [pool.ref EXCEPT ![b] = @ + 1]
  PROVE  RefcountExact'
<1>1. pool.ref \in [BlockId -> Nat]
  BY DEF TypeOK, Pool
<1>2. IsFiniteSet(Refs(b)') /\ Cardinality(Refs(b)') = Cardinality(Refs(b)) + 1
  BY FS_AddElement DEF RefcountExact
<1>3. IsFiniteSet(Refs(b)') /\ pool'.ref[b] = Cardinality(Refs(b)')
  BY <1>1, <1>2 DEF RefcountExact
<1>4. ASSUME NEW c \in BlockId, c # b
      PROVE  IsFiniteSet(Refs(c)') /\ pool'.ref[c] = Cardinality(Refs(c)')
  BY <1>1, <1>4 DEF RefcountExact
<1> QED
  BY <1>3, <1>4 DEF RefcountExact

(* The counterpart of GainReference for free(): one reference fewer. *)
LEMMA DropReference ==
  ASSUME TypeOK, RefcountExact, NEW b \in BlockId, NEW r \in Refs(b),
         Refs(b)' = Refs(b) \ {r},
         \A c \in BlockId : c # b => Refs(c)' = Refs(c),
         pool'.ref = [pool.ref EXCEPT ![b] = @ - 1]
  PROVE  RefcountExact'
<1>1. pool.ref \in [BlockId -> Nat]
  BY DEF TypeOK, Pool
<1>2. IsFiniteSet(Refs(b)') /\ Cardinality(Refs(b)') = Cardinality(Refs(b)) - 1
  BY FS_RemoveElement DEF RefcountExact
<1>3. IsFiniteSet(Refs(b)') /\ pool'.ref[b] = Cardinality(Refs(b)')
  BY <1>1, <1>2 DEF RefcountExact
<1>4. ASSUME NEW c \in BlockId, c # b
      PROVE  IsFiniteSet(Refs(c)') /\ pool'.ref[c] = Cardinality(Refs(c)')
  BY <1>1, <1>4 DEF RefcountExact
<1> QED
  BY <1>3, <1>4 DEF RefcountExact

(* A step that changes neither the references nor the refcounts keeps them. *)
LEMMA KeepReferences ==
  ASSUME RefcountExact, pool' = pool, \A c \in BlockId : Refs(c)' = Refs(c)
  PROVE  RefcountExact'
BY DEF RefcountExact

(* A referenced block has a positive refcount. *)
LEMMA ReferencedIsCounted ==
  ASSUME RefcountExact, TypeOK, NEW b \in BlockId, NEW r \in Refs(b)
  PROVE  pool.ref[b] > 0
<1>1. pool.ref[b] \in Nat
  BY DEF TypeOK, Pool
<1>2. Cardinality(Refs(b)) # 0
  BY FS_EmptySet DEF RefcountExact
<1> QED
  BY <1>1, <1>2 DEF RefcountExact

(* Appending b to h's list, while no list is being freed, adds exactly one *)
(* reference, to b.                                                        *)
LEMMA AppendedBlock ==
  ASSUME TypeOK, op.kind # "free", op'.kind # "free",
         NEW h \in Holders, NEW b \in BlockId,
         table' = [table EXCEPT ![h].blocks = Append(@, b)]
  PROVE  /\ table' \in [Holders -> Table]
         /\ \A g \in Holders : g # h => table'[g] = table[g]
         /\ Len(table'[h].blocks) = Len(table[h].blocks) + 1
         /\ table'[h].n_tokens = table[h].n_tokens
         /\ \E r : r \notin Refs(b) /\ Refs(b)' = Refs(b) \cup {r}
         /\ \A c \in BlockId : c # b => Refs(c)' = Refs(c)
<1> DEFINE old == table[h].blocks
           new == table'[h].blocks
           k   == Len(old) + 1
<1>1. table[h] \in Table /\ old \in Seq(BlockId)
  BY DEF TypeOK, Table
<1>2. /\ new = Append(old, b)
      /\ table'[h] = [table[h] EXCEPT !.blocks = Append(old, b)]
      /\ \A g \in Holders : g # h => table'[g] = table[g]
  BY <1>1 DEF TypeOK, Table
<1>3. /\ new \in Seq(BlockId) /\ Len(new) = k
      /\ \A i \in 1..Len(old) : new[i] = old[i]
      /\ new[k] = b
  BY <1>1, <1>2, AppendProperties
<1>4. table'[h] \in Table /\ table'[h].n_tokens = table[h].n_tokens
  <2>1. table'[h] = [blocks   |-> Append(old, b),
                     n_tokens |-> table[h].n_tokens,
                     shared   |-> table[h].shared]
    BY <1>1, <1>2 DEF Table
  <2>2. Append(old, b) \in Seq(BlockId) /\ table[h].n_tokens \in Nat /\ table[h].shared \in Nat
    BY <1>1, <1>2, <1>3 DEF Table
  <2> HIDE DEF old
  <2>3. table'[h] \in Table
    BY <2>1, <2>2, TableRecord
  <2>4. table'[h].n_tokens = table[h].n_tokens
    BY <2>1
  <2> QED
    BY <2>3, <2>4
<1>5. table' \in [Holders -> Table]
  BY <1>2, <1>4 DEF TypeOK
<1>6. 1..Len(new) = (1..Len(old)) \cup {k} /\ k \notin 1..Len(old)
  BY <1>1, <1>3
<1>7. \A c, r : r \in Refs(c) <=>
                \E g \in Holders : \E i \in 1..Len(table[g].blocks) :
                   r = <<g, i>> /\ table[g].blocks[i] = c
  BY DEF Refs, FirstHeld
<1>8. \A c, r : r \in Refs(c)' <=>
                \E g \in Holders : \E i \in 1..Len(table'[g].blocks) :
                   r = <<g, i>> /\ table'[g].blocks[i] = c
  BY DEF Refs, FirstHeld
<1> HIDE DEF old, new, k
<1>9. <<h, k>> \notin Refs(b)
  BY <1>6, <1>7 DEF old
<1>10. ASSUME NEW c \in BlockId, NEW r
       PROVE  r \in Refs(c)' <=> r \in Refs(c) \/ (c = b /\ r = <<h, k>>)
  <2>1. ASSUME NEW g \in Holders, NEW i
        PROVE  (i \in 1..Len(table'[g].blocks) /\ table'[g].blocks[i] = c)
               <=> \/ i \in 1..Len(table[g].blocks) /\ table[g].blocks[i] = c
                   \/ g = h /\ i = k /\ c = b
    <3>1. CASE g = h
      BY <1>3, <1>6, <3>1 DEF old, new
    <3>2. CASE g # h
      BY <1>2, <3>2
    <3> QED
      BY <3>1, <3>2
  <2> QED
    BY <1>7, <1>8, <2>1
<1>11. Refs(b)' = Refs(b) \cup {<<h, k>>}
  BY <1>10
<1>12. \A c \in BlockId : c # b => Refs(c)' = Refs(c)
  BY <1>10
<1> QED
  BY <1>2, <1>3, <1>4, <1>5, <1>9, <1>11, <1>12 DEF old, new, k

-----------------------------------------------------------------------------
(* The fresh allocator and empty tables satisfy the invariant. *)
LEMMA InitIInv == Init => IInv
<1> SUFFICES ASSUME Init PROVE IInv
  OBVIOUS
<1> USE DEF Init, NewPool, NewTable, Idle
<1>1. pool.free \in Seq(BlockId) /\ Len(pool.free) = NumBlocks
  BY PoolAssumption DEF BlockId
<1>2. TypeOK
  <2>1. pool \in Pool
    BY <1>1 DEF Pool
  <2>2. table \in [Holders -> Table]
    BY DEF Table
  <2> QED
    BY <2>1, <2>2 DEF TypeOK
<1>3. RefcountExact
  <2>1. \A b \in BlockId : Refs(b) = {}
    BY DEF Refs, FirstHeld
  <2> QED
    BY <2>1, FS_EmptySet DEF RefcountExact
<1>4. FreeListExact
  <2>1. \A i \in 1..NumBlocks : pool.free[i] = NumBlocks - i
    OBVIOUS
  <2>2. ASSUME NEW b \in BlockId
        PROVE  \E i \in 1..NumBlocks : pool.free[i] = b
    <3>1. NumBlocks - b \in 1..NumBlocks /\ NumBlocks - (NumBlocks - b) = b
      BY PoolAssumption DEF BlockId
    <3> QED
      BY <2>1, <3>1
  <2>3. \A b \in BlockId : pool.ref[b] = 0
    OBVIOUS
  <2>4. \A i, j \in 1..NumBlocks : pool.free[i] = pool.free[j] => i = j
    BY <2>1, PoolAssumption
  <2> QED
    BY <1>1, <2>2, <2>3, <2>4 DEF FreeListExact
<1>5. CapacityCovered
  BY PoolAssumption DEF CapacityCovered
<1> QED
  BY <1>2, <1>3, <1>4, <1>5 DEF IInv, OpInRange, AllOrNothing

(* A longer block list still covers the same tokens. *)
LEMMA GrownIsCovered ==
  ASSUME TypeOK, CapacityCovered, NEW h \in Holders,
         \A g \in Holders : g # h => table'[g] = table[g],
         Len(table'[h].blocks) = Len(table[h].blocks) + 1,
         table'[h].n_tokens = table[h].n_tokens
  PROVE  CapacityCovered'
<1>1. table[h].blocks \in Seq(BlockId) /\ table[h].n_tokens \in Nat
  BY DEF TypeOK, Table
<1>2. Len(table[h].blocks) \in Nat /\ Len(table'[h].blocks) \in Nat
  BY <1>1
<1>3. /\ Len(table'[h].blocks) * BlockSize >= Len(table[h].blocks) * BlockSize
      /\ Len(table[h].blocks) * BlockSize \in Nat /\ Len(table'[h].blocks) * BlockSize \in Nat
  BY <1>2, MoreBlocksHoldMore
<1>4. Len(table'[h].blocks) * BlockSize >= table'[h].n_tokens
  BY <1>1, <1>3 DEF CapacityCovered
<1> QED
  BY <1>4 DEF CapacityCovered

(* One iteration of allocate(). *)
LEMMA GrowStepIInv == IInv /\ GrowStep => IInv'
<1> SUFFICES ASSUME IInv, GrowStep PROVE IInv'
  OBVIOUS
<1> USE DEF IInv
<1>1. op.kind = "grow" /\ op.h \in Holders /\ op' = op /\ op.n \in Nat
  BY DEF GrowStep, TypeOK
<1>2. table[op.h].blocks \in Seq(BlockId) /\ pool.free \in Seq(BlockId)
  BY <1>1 DEF TypeOK, Table, Pool
<1>3. Len(pool.free) > 0
  BY <1>1, <1>2, BlocksForNat DEF GrowStep, AllOrNothing
<1>4. /\ TopFree(pool) \in BlockId
      /\ pool.ref[TopFree(pool)] = 0
      /\ pool' \in Pool
      /\ pool'.ref = [pool.ref EXCEPT ![TopFree(pool)] = 1]
      /\ Len(pool'.free) = Len(pool.free) - 1
      /\ FreeListExact'
  BY <1>3, TakeBlockExact DEF GrowStep
<1>5. PICK h \in Holders, b \in BlockId : h = op.h /\ b = TopFree(pool)
  BY <1>1, <1>4
<1>6. table' = [table EXCEPT ![h].blocks = Append(@, b)]
  BY <1>5 DEF GrowStep
<1>7. /\ table' \in [Holders -> Table]
      /\ \A g \in Holders : g # h => table'[g] = table[g]
      /\ Len(table'[h].blocks) = Len(table[h].blocks) + 1
      /\ table'[h].n_tokens = table[h].n_tokens
      /\ \E r : r \notin Refs(b) /\ Refs(b)' = Refs(b) \cup {r}
      /\ \A c \in BlockId : c # b => Refs(c)' = Refs(c)
  BY <1>1, <1>6, AppendedBlock
<1>8. TypeOK'
  BY <1>1, <1>4, <1>7 DEF TypeOK
<1>9. RefcountExact'
  <2>1. pool'.ref = [pool.ref EXCEPT ![b] = @ + 1]
    BY <1>4, <1>5
  <2> QED
    BY <1>7, <2>1, GainReference
<1>10. AllOrNothing'
  <2>1. blocks_for(op.n) \in Nat
    BY <1>1, BlocksForNat
  <2>2. PICK k \in Nat, f \in Nat : k = Len(table[h].blocks) /\ f = Len(pool.free)
    BY <1>2, <1>5
  <2>3. blocks_for(op.n) - k <= f
    BY <1>1, <1>5, <2>2 DEF AllOrNothing
  <2>4. blocks_for(op.n) - (k + 1) <= f - 1
    BY <2>1, <2>2, <2>3
  <2>5. op'.n = op.n /\ op'.h = h /\ Len(table'[h].blocks) = k + 1 /\ Len(pool'.free) = f - 1
    BY <1>1, <1>4, <1>5, <1>7, <2>2
  <2> QED
    BY <2>4, <2>5 DEF AllOrNothing
<1>11. CapacityCovered'
  BY <1>7, GrownIsCovered
<1> QED
  BY <1>1, <1>4, <1>8, <1>9, <1>10, <1>11 DEF OpInRange

(* One iteration of adopt_shared_prefix(): the source's own reference      *)
(* keeps the block alive, so incref() always counts.                       *)
LEMMA AdoptStepIInv == IInv /\ AdoptStep => IInv'
<1> SUFFICES ASSUME IInv, AdoptStep PROVE IInv'
  OBVIOUS
<1> USE DEF IInv
<1>1. /\ op.kind = "adopt" /\ op.h \in Holders /\ op.src \in Holders /\ op.src # op.h
      /\ op.i \in 1..Len(table[op.src].blocks)
      /\ op.i \in Nat /\ op.n \in Nat /\ op.i <= op.n
  BY DEF AdoptStep, TypeOK, OpInRange
<1>2. table[op.src].blocks \in Seq(BlockId) /\ table[op.h].blocks \in Seq(BlockId)
  BY <1>1 DEF TypeOK, Table
<1>3. PICK h \in Holders, b \in BlockId : h = op.h /\ b = table[op.src].blocks[op.i]
  BY <1>1, <1>2
<1>4. <<op.src, op.i>> \in Refs(b)
  BY <1>1, <1>3 DEF Refs, FirstHeld
<1>5. pool.ref[b] > 0
  BY <1>4, ReferencedIsCounted
<1>6. pool' \in Pool /\ pool'.ref = [pool.ref EXCEPT ![b] = @ + 1] /\ FreeListExact'
  BY <1>3, <1>5, IncrefExact DEF AdoptStep
<1>7. op' = [op EXCEPT !.i = @ + 1] /\ table' = [table EXCEPT ![h].blocks = Append(@, b)]
  BY <1>3 DEF AdoptStep
<1>8. /\ op'.kind = "adopt" /\ op'.h = op.h /\ op'.src = op.src
      /\ op'.n = op.n /\ op'.i = op.i + 1
  BY <1>1, <1>7 DEF TypeOK
<1>9. /\ table' \in [Holders -> Table]
      /\ \A g \in Holders : g # h => table'[g] = table[g]
      /\ Len(table'[h].blocks) = Len(table[h].blocks) + 1
      /\ table'[h].n_tokens = table[h].n_tokens
      /\ \E r : r \notin Refs(b) /\ Refs(b)' = Refs(b) \cup {r}
      /\ \A c \in BlockId : c # b => Refs(c)' = Refs(c)
  BY <1>1, <1>7, <1>8, AppendedBlock
<1>10. TypeOK'
  BY <1>6, <1>7, <1>9 DEF TypeOK
<1>11. RefcountExact'
  BY <1>6, <1>9, GainReference
<1>12. CapacityCovered'
  BY <1>9, GrownIsCovered
<1>13. OpInRange'
  <2>1. table'[op'.src] = table[op.src] /\ op'.h = h
    BY <1>1, <1>3, <1>8, <1>9
  <2>2. Len(table[h].blocks) \in Nat /\ Len(table[op.src].blocks) \in Nat
    BY <1>2, <1>3
  <2>3. op.i <= Len(table[h].blocks) + 1 /\ op.n <= Len(table[op.src].blocks)
    BY <1>1, <1>3 DEF OpInRange
  <2>4. op'.i \in 1..(op'.n + 1)
    BY <1>1, <1>8
  <2>5. op'.i <= Len(table'[op'.h].blocks) + 1
    BY <1>1, <1>8, <1>9, <2>1, <2>2, <2>3
  <2>6. op'.src \in Holders /\ op'.src # op'.h /\ op'.n <= Len(table'[op'.src].blocks)
    BY <1>1, <1>8, <2>1, <2>3
  <2> QED
    BY <1>8, <2>4, <2>5, <2>6 DEF OpInRange
<1> QED
  BY <1>6, <1>8, <1>10, <1>11, <1>12, <1>13 DEF AllOrNothing

(* One iteration of free(): the freed place is a reference, so free()      *)
(* never meets the refcount 0 it would skip.                               *)
LEMMA FreeStepIInv == IInv /\ FreeStep => IInv'
<1> SUFFICES ASSUME IInv, FreeStep PROVE IInv'
  OBVIOUS
<1> USE DEF IInv
<1>1. /\ op.kind = "free" /\ op.h \in Holders /\ op.i \in Nat
      /\ op.i \in 1..Len(table[op.h].blocks)
  BY DEF FreeStep, TypeOK, OpInRange
<1>2. table[op.h].blocks \in Seq(BlockId)
  BY <1>1 DEF TypeOK, Table
<1>3. PICK h \in Holders, i \in Nat, b \in BlockId :
        h = op.h /\ i = op.i /\ b = table[op.h].blocks[op.i]
  BY <1>1, <1>2
<1>4. op' = [op EXCEPT !.i = @ + 1] /\ table' = table
  BY DEF FreeStep
<1>5. op'.kind = "free" /\ op'.h = h /\ op'.i = i + 1 /\ op'.src = op.src /\ op'.n = op.n
  BY <1>1, <1>3, <1>4 DEF TypeOK
<1>6. \A c, r : r \in Refs(c) <=>
        \E g \in Holders : \E j \in (IF g = h THEN i ELSE 1)..Len(table[g].blocks) :
           r = <<g, j>> /\ table[g].blocks[j] = c
  BY <1>1, <1>3 DEF Refs, FirstHeld
<1>7. \A c, r : r \in Refs(c)' <=>
        \E g \in Holders : \E j \in (IF g = h THEN i + 1 ELSE 1)..Len(table[g].blocks) :
           r = <<g, j>> /\ table[g].blocks[j] = c
  BY <1>4, <1>5 DEF Refs, FirstHeld
<1>8. /\ i..Len(table[h].blocks) = ((i + 1)..Len(table[h].blocks)) \cup {i}
      /\ i \notin (i + 1)..Len(table[h].blocks)
  BY <1>1, <1>2, <1>3
<1>9. <<h, i>> \in Refs(b)
  BY <1>3, <1>6, <1>8
<1>10. ASSUME NEW c, NEW r
       PROVE  r \in Refs(c)' <=> r \in Refs(c) /\ r # <<h, i>>
  BY <1>6, <1>7, <1>8
<1>11. Refs(b)' = Refs(b) \ {<<h, i>>}
  BY <1>10
<1>12. ASSUME NEW c \in BlockId, c # b
       PROVE  Refs(c)' = Refs(c)
  <2>1. <<h, i>> \notin Refs(c)
    BY <1>3, <1>6, <1>12
  <2> QED
    BY <1>10, <2>1
<1>13. pool.ref[b] > 0
  BY <1>9, ReferencedIsCounted
<1>14. pool' \in Pool /\ pool'.ref = [pool.ref EXCEPT ![b] = @ - 1] /\ FreeListExact'
  BY <1>3, <1>13, FreeBlockExact DEF FreeStep
<1>15. RefcountExact'
  BY <1>9, <1>11, <1>12, <1>14, DropReference
<1>16. TypeOK'
  BY <1>4, <1>14 DEF TypeOK
<1>17. OpInRange'
  BY <1>1, <1>2, <1>3, <1>4, <1>5 DEF OpInRange
<1> QED
  BY <1>4, <1>5, <1>14, <1>15, <1>16, <1>17 DEF AllOrNothing, CapacityCovered

(* The first step of an operation moves no block. *)
LEMMA BeginIInv ==
  ASSUME IInv, NEW h \in Holders,
         \/ \E n \in 0..MaxTokens : BeginGrow(h, n)
         \/ \E src \in Holders, k \in 1..MaxTokens : BeginAdopt(h, src, k)
         \/ BeginFree(h)
  PROVE  IInv'
<1> USE DEF IInv
<1>1. pool' = pool /\ table' = table /\ op.kind = "idle"
  BY DEF BeginGrow, BeginAdopt, BeginFree
<1>2. /\ op' \in [kind : {"idle", "grow", "adopt", "free"}, h : Holders \cup {NoHolder},
                  src : Holders \cup {NoHolder}, n : Nat, i : Nat]
      /\ op'.h = h
      /\ op'.kind = "free" => op'.i = 1
      /\ op'.kind = "grow" => op'.n \in Nat /\ CanEnsure(pool, table[h], op'.n)
      /\ op'.kind = "adopt" => /\ op'.src \in Holders /\ op'.src # h
                               /\ op'.i = 1 /\ op'.n \in Nat
                               /\ op'.n <= Len(table[op'.src].blocks)
  BY HolderAssumption DEF BeginGrow, BeginAdopt, BeginFree
<1>3. table[h].blocks \in Seq(BlockId) /\ pool.free \in Seq(BlockId)
  BY DEF TypeOK, Table, Pool
<1>4. TypeOK'
  BY <1>1, <1>2 DEF TypeOK
<1>5. OpInRange'
  BY <1>1, <1>2, <1>3 DEF OpInRange
<1>6. \A c \in BlockId : Refs(c)' = Refs(c)
  <2>1. \A g \in Holders : FirstHeld(g)' = 1 /\ FirstHeld(g) = 1
    BY <1>1, <1>2 DEF FirstHeld
  <2> QED
    BY <1>1, <2>1 DEF Refs
<1>7. RefcountExact'
  BY <1>1, <1>6, KeepReferences
<1>8. AllOrNothing'
  <2>1. ASSUME op'.kind = "grow"
        PROVE  blocks_for(op'.n) - Len(table[h].blocks) <= Len(pool.free)
    <3>1. blocks_for(op'.n) \in Nat
      BY <1>2, <2>1, BlocksForNat
    <3> QED
      BY <1>2, <1>3, <2>1, <3>1 DEF CanEnsure, can_allocate, Shortfall, FreeBlocks
  <2> QED
    BY <1>1, <1>2, <2>1 DEF AllOrNothing
<1> QED
  BY <1>1, <1>4, <1>5, <1>7, <1>8 DEF FreeListExact, CapacityCovered

(* The last step of an operation touches the table's token counts, or      *)
(* clears a list all of whose references are already dropped.              *)
LEMMA EndIInv ==
  ASSUME IInv, EndGrow \/ EndAdopt \/ EndFree
  PROVE  IInv'
<1> USE DEF IInv
<1>1. pool' = pool /\ op' = Idle /\ op.h \in Holders /\ op.n \in Nat
  BY DEF EndGrow, EndAdopt, EndFree, TypeOK
<1>2. /\ op'.kind = "idle"
      /\ op' \in [kind : {"idle", "grow", "adopt", "free"}, h : Holders \cup {NoHolder},
                  src : Holders \cup {NoHolder}, n : Nat, i : Nat]
  BY <1>1 DEF Idle
<1>3. PICK h \in Holders : h = op.h
  BY <1>1
<1>4. table[h] \in Table /\ table[h].blocks \in Seq(BlockId) /\ table[h].n_tokens \in Nat
  BY DEF TypeOK, Table
<1>5. \A g \in Holders : g # h => table'[g] = table[g]
  BY <1>3 DEF EndGrow, EndAdopt, EndFree, TypeOK
<1>6. \A c, r : r \in Refs(c)' <=>
        \E g \in Holders : \E j \in 1..Len(table'[g].blocks) :
           r = <<g, j>> /\ table'[g].blocks[j] = c
  BY <1>2 DEF Refs, FirstHeld
<1>7. SUFFICES /\ table' \in [Holders -> Table]
               /\ Len(table'[h].blocks) * BlockSize >= table'[h].n_tokens
               /\ \A c \in BlockId : Refs(c)' = Refs(c)
  <2>1. RefcountExact'
    BY <1>1, <1>7, KeepReferences
  <2>2. CapacityCovered'
    BY <1>5, <1>7 DEF CapacityCovered
  <2>3. TypeOK'
    BY <1>1, <1>2, <1>7 DEF TypeOK
  <2> QED
    BY <1>1, <1>2, <2>1, <2>2, <2>3 DEF FreeListExact, OpInRange, AllOrNothing
<1>8. CASE op.kind # "free"
  <2>1. PICK n \in Nat, s \in Nat :
          /\ table' = [table EXCEPT ![h] = [blocks |-> table[h].blocks, n_tokens |-> n, shared |-> s]]
          /\ Len(table[h].blocks) * BlockSize >= n
    <3>1. CASE EndGrow
      <4>1. table' = [table EXCEPT ![h] = [blocks |-> table[h].blocks, n_tokens |-> op.n,
                                           shared |-> table[h].shared]]
        BY <1>3, <3>1 DEF EndGrow, TypeOK
      <4>2. blocks_for(op.n) \in Nat /\ blocks_for(op.n) * BlockSize >= op.n
        BY <1>1, BlocksForNat, BlocksForCovers
      <4>3. /\ Len(table[h].blocks) * BlockSize >= blocks_for(op.n) * BlockSize
            /\ Len(table[h].blocks) * BlockSize \in Nat /\ blocks_for(op.n) * BlockSize \in Nat
        BY <1>3, <1>4, <3>1, <4>2, MoreBlocksHoldMore DEF EndGrow
      <4>4. Len(table[h].blocks) * BlockSize >= op.n
        BY <1>1, <4>2, <4>3
      <4>5. table[h].shared \in Nat
        BY <1>4 DEF Table
      <4> QED
        BY <1>1, <4>1, <4>4, <4>5
    <3>2. CASE EndAdopt
      <4> DEFINE n == AdoptTokens(table[h], op.n * BlockSize)
      <4>1. table' = [table EXCEPT ![h] = [blocks |-> table[h].blocks, n_tokens |-> n,
                                           shared |-> op.n]]
        BY <1>3, <3>2 DEF EndAdopt, TypeOK
      <4>2. Len(table[h].blocks) >= op.n
        <5>1. op.kind = "adopt" /\ op.i > op.n /\ op.i \in Nat
          BY <3>2 DEF EndAdopt, TypeOK
        <5>2. op.i <= Len(table[h].blocks) + 1
          BY <1>3, <5>1 DEF OpInRange
        <5> QED
          BY <1>1, <1>4, <5>1, <5>2
      <4>3. op.n * BlockSize \in Nat /\ Len(table[h].blocks) * BlockSize >= op.n * BlockSize
        <5>1. PICK k \in Nat, m \in Nat : k = Len(table[h].blocks) /\ m = op.n
          BY <1>1, <1>4
        <5>2. k >= m
          BY <4>2, <5>1
        <5>3. m * BlockSize \in Nat /\ k * BlockSize >= m * BlockSize
          BY <5>2, MoreBlocksHoldMore
        <5> QED
          BY <5>1, <5>3
      <4>4. n \in Nat /\ Len(table[h].blocks) * BlockSize >= n
        <5>1. Len(table[h].blocks) * BlockSize >= table[h].n_tokens
          BY DEF CapacityCovered
        <5>2. n = op.n * BlockSize \/ n = table[h].n_tokens
          BY DEF AdoptTokens
        <5> QED
          BY <1>4, <4>3, <5>1, <5>2
      <4> QED
        BY <1>1, <4>1, <4>4
    <3> QED
      BY <1>8, <3>1, <3>2 DEF EndFree
  <2>2. table'[h] = [blocks |-> table[h].blocks, n_tokens |-> n, shared |-> s]
    BY <2>1 DEF TypeOK
  <2>3. table'[h] \in Table /\ table'[h].blocks = table[h].blocks /\ table'[h].n_tokens = n
    <3>1. [blocks |-> table[h].blocks, n_tokens |-> n, shared |-> s] \in Table
      BY <1>4, TableRecord
    <3> QED
      BY <2>2, <3>1
  <2>4. table' \in [Holders -> Table]
    BY <2>1, <2>2, <2>3 DEF TypeOK
  <2>5. \A g \in Holders : table'[g].blocks = table[g].blocks /\ FirstHeld(g) = 1
    BY <1>5, <1>8, <2>3 DEF FirstHeld
  <2>6. \A c, r : r \in Refs(c) <=>
          \E g \in Holders : \E j \in 1..Len(table[g].blocks) :
             r = <<g, j>> /\ table[g].blocks[j] = c
    BY <1>8 DEF Refs, FirstHeld
  <2>7. \A c \in BlockId : Refs(c)' = Refs(c)
    <3>1. ASSUME NEW c, NEW r PROVE r \in Refs(c)' <=> r \in Refs(c)
      BY <1>6, <2>5, <2>6
    <3> QED
      BY <3>1
  <2> QED
    BY <2>1, <2>3, <2>4, <2>7
<1>9. CASE op.kind = "free"
  <2>1. EndFree /\ op.i > Len(table[h].blocks) /\ op.i \in Nat
    BY <1>3, <1>9 DEF EndGrow, EndAdopt, EndFree, TypeOK
  <2>2. table'[h] = NewTable /\ table' = [table EXCEPT ![h] = NewTable]
    BY <1>3, <2>1 DEF EndFree, TypeOK
  <2>3. NewTable \in Table /\ NewTable.blocks = << >> /\ NewTable.n_tokens = 0
    BY DEF NewTable, Table
  <2>4. Len(NewTable.blocks) * BlockSize >= NewTable.n_tokens
    BY <2>3, PoolAssumption
  <2>5. table' \in [Holders -> Table]
    BY <2>2, <2>3 DEF TypeOK
  <2>6. \A c, r : r \in Refs(c) <=>
          \E g \in Holders : \E j \in (IF g = h THEN op.i ELSE 1)..Len(table[g].blocks) :
             r = <<g, j>> /\ table[g].blocks[j] = c
    BY <1>3, <1>9 DEF Refs, FirstHeld
  <2>7. op.i..Len(table[h].blocks) = {} /\ 1..Len(table'[h].blocks) = {}
    BY <1>4, <2>1, <2>2, <2>3
  <2>8. \A c \in BlockId : Refs(c)' = Refs(c)
    <3>1. ASSUME NEW c, NEW r PROVE r \in Refs(c)' <=> r \in Refs(c)
      BY <1>5, <1>6, <2>6, <2>7
    <3> QED
      BY <3>1
  <2> QED
    BY <2>2, <2>3, <2>4, <2>5, <2>8
<1> QED
  BY <1>8, <1>9

(* Every step of every operation preserves the invariant. *)
LEMMA NextIInv == IInv /\ [Next]_vars => IInv'
<1> SUFFICES ASSUME IInv, [Next]_vars PROVE IInv'
  OBVIOUS
<1>1. CASE \E h \in Holders, n \in 0..MaxTokens : BeginGrow(h, n)
  BY <1>1, BeginIInv
<1>2. CASE \E h, src \in Holders, k \in 1..MaxTokens : BeginAdopt(h, src, k)
  BY <1>2, BeginIInv
<1>3. CASE \E h \in Holders : BeginFree(h)
  BY <1>3, BeginIInv
<1>4. CASE GrowStep
  BY <1>4, GrowStepIInv
<1>5. CASE AdoptStep
  BY <1>5, AdoptStepIInv
<1>6. CASE FreeStep
  BY <1>6, FreeStepIInv
<1>7. CASE EndGrow \/ EndAdopt \/ EndFree
  BY <1>7, EndIInv
<1>8. CASE UNCHANGED vars
  <2>1. pool' = pool /\ table' = table /\ op' = op
    BY <1>8 DEF vars
  <2>2. \A c \in BlockId : Refs(c)' = Refs(c)
    BY <2>1 DEF Refs, FirstHeld
  <2>3. RefcountExact'
    BY <2>1, <2>2, KeepReferences DEF IInv
  <2>4. TypeOK' /\ OpInRange'
    BY <2>1 DEF IInv, TypeOK, OpInRange
  <2>5. FreeListExact' /\ AllOrNothing' /\ CapacityCovered'
    BY <2>1 DEF IInv, FreeListExact, AllOrNothing, CapacityCovered
  <2> QED
    BY <2>3, <2>4, <2>5 DEF IInv
<1> QED
  BY <1>1, <1>2, <1>3, <1>4, <1>5, <1>6, <1>7, <1>8 DEF Next

-----------------------------------------------------------------------------
(* BlockAllocator, BlockTable: the inductive invariant holds throughout.   *)
THEOREM IInvHolds == Spec => []IInv
BY InitIInv, NextIInv, PTL DEF Spec

(* The variables keep their types. *)
THEOREM TypeCorrect == Spec => []TypeOK
BY IInvHolds, PTL DEF IInv

(* Every refcount is the number of references held, in the middle of       *)
(* allocate(), of an adoption and of free() as well as between them.       *)
THEOREM RefcountsAreExact == Spec => []RefcountExact
BY IInvHolds, PTL DEF IInv

(* The free list is duplicate-free and lists exactly the unreferenced      *)
(* blocks: allocate()'s assertion, and no block handed out twice.          *)
THEOREM FreeListIsExact == Spec => []FreeListExact
BY IInvHolds, PTL DEF IInv

(* allocate()'s loop never pops an empty free list. *)
THEOREM AllocateIsAllOrNothing == Spec => []AllOrNothing
BY IInvHolds, PTL DEF IInv

(* A table always has the blocks for the tokens it was granted. *)
THEOREM CapacityIsCovered == Spec => []CapacityCovered
BY IInvHolds, PTL DEF IInv
=============================================================================
