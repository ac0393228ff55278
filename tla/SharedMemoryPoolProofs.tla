----------------------- MODULE SharedMemoryPoolProofs -----------------------
(***************************************************************************)
(* The invariants of the pool for every number of blocks, block size, set  *)
(* of contents and bound on ids.  None of them is inductive alone: the     *)
(* free count is exact after a free only if the freed blocks were all in   *)
(* the bitmap, which takes BlocksBelongToTheirMemory; that no block leaks  *)
(* through Compact takes the exact ranks of the owned blocks, and so on.   *)
(* Together they are (IInv), and PoolObjectProofs shows method by method   *)
(* that they are kept.  With what the blocks spell they make the pool an   *)
(* implementation of the abstract store, and the tables that status and    *)
(* info print agree.                                                       *)
(***************************************************************************)
EXTENDS PoolReport, PoolObjectProofs

IInv ==
  /\ Consistent(smp)
  /\ LiveId \subseteq Ids
  /\ smp.next_memory_id_counter <= MaxId + 1

(* The update that frees and allocates again, in UPDATE, smm_update and    *)
(* the console.                                                            *)
LEMMA FreeThenAllocateKeepsIInv ==
  ASSUME IInv, NEW id \in LiveId, NEW c \in Contents, FreeThenAllocate(id, c)
  PROVE  IInv'
<1> DEFINE freed == FreeByMemoryId(smp, id)
<1>1. /\ Consistent(freed) /\ DOMAIN freed.memory_info = LiveId \ {id}
      /\ freed.next_memory_id_counter = smp.next_memory_id_counter
  BY FreeConsistent DEF IInv, LiveId
<1>2. id \in Nat \ {0} /\ id < smp.next_memory_id_counter
  BY DEF IInv, LiveId, Consistent, HasPoolType, HandsOutFreshIds
<1>3. DescriptionOf(smp, id) \in Descriptions \cup {NoDescription}
  BY DescriptionKept DEF IInv, LiveId
<1>4. smp' = AllocateBlock(freed, id, DescriptionOf(smp, id), c)
  BY DEF FreeThenAllocate
<1>5. id \notin DOMAIN freed.memory_info /\ id < freed.next_memory_id_counter
  BY <1>1, <1>2
<1> HIDE DEF freed
<1>6. /\ Consistent(smp') /\ smp'.next_memory_id_counter = smp.next_memory_id_counter
      /\ LiveId' \in {LiveId \ {id}, (LiveId \ {id}) \cup {id}}
  <2> DEFINE desc == DescriptionOf(smp, id)
             q == AllocateBlock(freed, id, desc, c)
  <2>1. desc \in Descriptions \cup {NoDescription}
    BY <1>3
  <2> HIDE DEF desc
  <2>2. /\ Consistent(q) /\ q.next_memory_id_counter = freed.next_memory_id_counter
        /\ DOMAIN q.memory_info \in {DOMAIN freed.memory_info, DOMAIN freed.memory_info \cup {id}}
    BY <1>1, <1>2, <1>5, <2>1, AllocateConsistent
  <2>3. smp' = q
    BY <1>4 DEF desc
  <2> HIDE DEF q
  <2> QED
    BY <1>1, <2>2, <2>3 DEF LiveId
<1> QED
  BY <1>6 DEF IInv

(* IInv holds initially and every action keeps it. *)
THEOREM PoolStaysConsistent == Spec => []IInv
<1>1. Init => IInv
  <2>1. ResetPool.next_memory_id_counter = 1 /\ DOMAIN ResetPool.memory_info = {}
    BY DEF ResetPool
  <2> QED
    BY <2>1, ResetConsistent, MaxIdAssumption DEF Init, IInv, LiveId
<1>2. IInv /\ [Next]_smp => IInv'
  <2> SUFFICES ASSUME IInv, [Next]_smp PROVE IInv'
    OBVIOUS
  <2>0. Consistent(smp) /\ LiveId \subseteq Ids /\ smp.next_memory_id_counter <= MaxId + 1
    BY DEF IInv
  <2>1. ASSUME NEW d \in Descriptions, NEW c \in Contents, Alloc(d, c) PROVE IInv'
    <3> DEFINE p == GenerateNextMemoryId(smp)
               id == smp.next_memory_id_counter
    <3>1. /\ Consistent(p) /\ DOMAIN p.memory_info = LiveId /\ p.next_memory_id_counter = id + 1
          /\ id \in Nat \ {0} /\ id \notin LiveId
      BY <2>0, GenerateConsistent DEF LiveId
    <3>2. smp' = AllocateBlock(p, id, d, c) /\ id <= MaxId
      BY <2>1 DEF Alloc
    <3> HIDE DEF p, id
    <3>3. id < p.next_memory_id_counter /\ d \in Descriptions \cup {NoDescription}
      BY <3>1
    <3>4. id \notin DOMAIN p.memory_info
      BY <3>1
    <3>5. /\ Consistent(smp') /\ smp'.next_memory_id_counter = id + 1
          /\ LiveId' \in {LiveId, LiveId \cup {id}}
      BY <3>1, <3>2, <3>3, <3>4, AllocateConsistent DEF LiveId
    <3>6. id \in Ids /\ id + 1 <= MaxId + 1
      BY <3>1, <3>2, MaxIdAssumption DEF Ids
    <3> QED
      BY <2>0, <3>5, <3>6 DEF IInv, Ids
  <2>2. ASSUME NEW id \in LiveId, Free(id) PROVE IInv'
    BY <2>0, <2>2, FreeConsistent DEF Free, IInv, LiveId, Ids
  <2>3. ASSUME NEW id \in LiveId, NEW c \in Contents, FreeThenAllocate(id, c) PROVE IInv'
    BY <2>3, FreeThenAllocateKeepsIInv
  <2>4. ASSUME NEW id \in LiveId, NEW c \in Contents, ConsoleUpdate(id, c) PROVE IInv'
    <3>1. CASE c.size > smp.memory_info[id].second * kBlockSize
      BY <2>4, <3>1, FreeThenAllocateKeepsIInv DEF ConsoleUpdate
    <3>2. CASE ~(c.size > smp.memory_info[id].second * kBlockSize)
      <4>1. smp.memory_info[id].second \in Nat /\ kBlockSize \in Nat /\ c.size \in Nat
        <5>1. smp.memory_info[id] \in Entries
          BY <2>0 DEF LiveId, Consistent, HasPoolType
        <5> QED
          BY <5>1, SpanFacts, PoolAssumption DEF Contents
      <4>2. c.size > 0 /\ c.size <= smp.memory_info[id].second * kBlockSize
        BY <2>4, <3>2, <4>1 DEF ConsoleUpdate
      <4>3. smp' = OverwriteInPlace(smp, id, c)
        BY <2>4, <3>2 DEF ConsoleUpdate
      <4> QED
        BY <2>0, <4>2, <4>3, OverwriteConsistent DEF IInv, LiveId, Ids
    <3> QED
      BY <3>1, <3>2
  <2>5. CASE CompactPool
    BY <2>0, <2>5, CompactConsistent DEF CompactPool, IInv, LiveId, Ids
  <2>6. CASE ResetAll
    <3>1. ResetPool.next_memory_id_counter = 1 /\ DOMAIN ResetPool.memory_info = {}
      BY DEF ResetPool
    <3> QED
      BY <2>6, <3>1, ResetConsistent, MaxIdAssumption DEF ResetAll, IInv, LiveId
  <2>7. CASE UNCHANGED smp
    BY <2>0, <2>7 DEF IInv, LiveId, Ids
  <2> QED
    BY <2>1, <2>2, <2>3, <2>4, <2>5, <2>6, <2>7 DEF Next
<1> QED
  BY <1>1, <1>2, PTL DEF Spec

(* The fields of the pool stay within their ranges, the counters included. *)
THEOREM PoolTypeCorrect == Spec => []TypeOK
<1>1. IInv => TypeOK
  BY DEF IInv, TypeOK, Consistent
<1> QED
  BY <1>1, PoolStaysConsistent, PTL

(* Every block of a memory is marked used and carries the memory's id. *)
THEOREM MemoriesOwnTheirBlocks == Spec => []BlocksBelongToTheirMemory
<1>1. IInv => BlocksBelongToTheirMemory
  BY DEF IInv, BlocksBelongToTheirMemory, Consistent
<1> QED
  BY <1>1, PoolStaysConsistent, PTL

(* Every block marked used, in the bitmap or in its metadata, belongs to a *)
(* memory that can be freed.                                               *)
THEOREM PoolLeaksNoBlock == Spec => []NoBlockLeaks
<1>1. IInv => NoBlockLeaks
  BY DEF IInv, NoBlockLeaks, Consistent
<1> QED
  BY <1>1, PoolStaysConsistent, PTL

(* The free count the allocator trusts is exact after every command. *)
THEOREM PoolCountsFreeBlocks == Spec => []FreeCountExact
<1>1. IInv => FreeCountExact
  BY DEF IInv, FreeCountExact, Consistent
<1> QED
  BY <1>1, PoolStaysConsistent, PTL

(* All blocks of a memory carry its description after every command. *)
THEOREM MemoriesKeepOneDescription == Spec => []OneDescription
<1>1. IInv => OneDescription
  BY DEF IInv, OneDescription, Consistent
<1> QED
  BY <1>1, PoolStaysConsistent, PTL

(* The next id to hand out is not in use. *)
THEOREM PoolHandsOutFreshIds == Spec => []NextIdIsFresh
<1>1. IInv => NextIdIsFresh
  BY DEF IInv, NextIdIsFresh, Consistent
<1> QED
  BY <1>1, PoolStaysConsistent, PTL

(* Whatever the pool's history, an allocation succeeds exactly when its    *)
(* content needs no more blocks than are free, and so does an update that  *)
(* frees and allocates again.                                              *)
THEOREM FragmentationNeverRefuses == Spec => OnlyLackOfBlocksRefuses
<1>1. ASSUME IInv, NEW d \in Descriptions, NEW c \in Contents, Alloc(d, c)
      PROVE  smp.next_memory_id_counter \in LiveId' <=> FitsIn(c, smp.free_block_count)
  <2> DEFINE p == GenerateNextMemoryId(smp)
             id == smp.next_memory_id_counter
  <2>1. Consistent(p) /\ id \notin DOMAIN p.memory_info
    BY <1>1, GenerateConsistent DEF IInv
  <2>2. p.free_block_count = smp.free_block_count
    BY <1>1, PoolFields DEF IInv, Consistent, HasPoolType, GenerateNextMemoryId
  <2>3. smp' = AllocateBlock(p, id, d, c)
    BY <1>1 DEF Alloc
  <2> HIDE DEF p, id
  <2>4. id \in DOMAIN AllocateBlock(p, id, d, c).memory_info <=> FitsIn(c, p.free_block_count)
    BY <2>1, AllocateSucceeds DEF FitsIn
  <2> QED
    BY <2>2, <2>3, <2>4 DEF id, LiveId
<1>2. ASSUME IInv, NEW id \in LiveId, NEW c \in Contents, FreeThenAllocate(id, c)
      PROVE  id \in LiveId' <=> FitsIn(c, smp.free_block_count + smp.memory_info[id].second)
  <2> DEFINE p == FreeByMemoryId(smp, id)
             desc == DescriptionOf(smp, id)
  <2>1. Consistent(p) /\ id \notin DOMAIN p.memory_info
    BY <1>2, FreeConsistent DEF IInv, LiveId
  <2>2. p.free_block_count = smp.free_block_count + smp.memory_info[id].second
    <3>1. HasPoolType(smp)
      BY <1>2 DEF IInv, Consistent
    <3> QED
      BY <3>1, PoolFields DEF HasPoolType, FreeByMemoryId
  <2>3. smp' = AllocateBlock(p, id, desc, c)
    BY <1>2 DEF FreeThenAllocate
  <2> HIDE DEF p, desc
  <2>4. id \in DOMAIN AllocateBlock(p, id, desc, c).memory_info <=> FitsIn(c, p.free_block_count)
    BY <2>1, AllocateSucceeds DEF FitsIn
  <2> QED
    BY <2>2, <2>3, <2>4 DEF LiveId
<1> DEFINE Right ==
             /\ \A d \in Descriptions, c \in Contents :
                  Alloc(d, c) => (smp.next_memory_id_counter \in LiveId'
                                    <=> FitsIn(c, smp.free_block_count))
             /\ \A id \in LiveId, c \in Contents :
                  FreeThenAllocate(id, c) =>
                    (id \in LiveId'
                       <=> FitsIn(c, smp.free_block_count + smp.memory_info[id].second))
<1>3. IInv /\ [Next]_smp => [Right]_smp
  <2>1. ASSUME IInv PROVE Right
    BY <1>1, <1>2, <2>1
  <2> HIDE DEF Right
  <2> QED
    BY <2>1
<1> QED
  BY <1>3, PoolStaysConsistent, PTL DEF Spec, OnlyLackOfBlocksRefuses

(* After a compact command the free blocks are one run. *)
THEOREM CompactionLeavesOneRun == Spec => CompactLeavesOneRun
<1>1. IInv /\ [Next]_smp =>
        [CompactPool => GetMaxContinuousFreeBlocks(smp') = smp'.free_block_count]_smp
  BY CompactLongestRun DEF IInv, CompactPool
<1> QED
  BY <1>1, PoolStaysConsistent, PTL DEF Spec, CompactLeavesOneRun

(***************************************************************************)
(* The pool implements the abstract store.                                 *)
(***************************************************************************)
StoreInv == IInv /\ Spells(smp)

(* What the store holds of smp is View(smp). *)
LEMMA StoreMapIsView ==
  ASSUME HasPoolType(smp), Spells(smp)
  PROVE  StoreMap = View(smp)
<1>1. ASSUME NEW id \in LiveId PROVE ContentRead(id) = Spelled(smp, id)
  <2>1. GetMemoryContentAsString(smp, id) = Text(Spelled(smp, id))
    BY ReadsText DEF LiveId, Text, TextOf
  <2> QED
    BY <2>1 DEF ContentRead, Spelled
<1> QED
  BY <1>1 DEF StoreMap, View, Line, LiveId

(* The store's sizes are those the pool computes. *)
LEMMA SameSizes ==
  ASSUME NEW c \in Contents
  PROVE  /\ Abstract!Needed(c) = RequiredBlocks(c)
         /\ Abstract!Touched(c) = CeilBlocks(c)
         /\ \A n : Abstract!Fits(c, n) <=> FitsIn(c, n)
<1>1. c.size \in Nat /\ kBlockSize \in Nat \ {0}
  BY PoolAssumption DEF Contents
<1>2. Abstract!Needed(c) = RequiredBlocks(c)
  BY <1>1, DivSucc DEF Abstract!Needed, RequiredBlocks
<1>3. Abstract!Touched(c) = CeilBlocks(c)
  BY DEF Abstract!Touched, CeilBlocks
<1> QED
  BY <1>2, <1>3 DEF Abstract!Fits, FitsIn

(* A new pool is an empty store. *)
LEMMA InitRefines == Init => StoreInv /\ Abstract!Init
<1> SUFFICES ASSUME Init PROVE StoreInv /\ Abstract!Init
  OBVIOUS
<1>1. /\ smp.next_memory_id_counter = 1 /\ DOMAIN smp.memory_info = {}
      /\ smp.free_block_count = kBlockCount
  BY DEF Init, ResetPool
<1>2. IInv
  BY <1>1, ResetConsistent, MaxIdAssumption DEF Init, IInv, LiveId
<1>3. Spells(smp)
  BY <1>1 DEF Spells
<1>4. StoreMap = [x \in {} |-> {}]
  BY <1>1 DEF StoreMap, LiveId
<1> QED
  BY <1>1, <1>2, <1>3, <1>4 DEF StoreInv, Abstract!Init

(* alloc: stored, or refused and only an id used up. *)
LEMMA AllocRefines ==
  ASSUME StoreInv, NEW d \in Descriptions, NEW c \in Contents, Alloc(d, c), StoreMap = View(smp)
  PROVE  /\ Spells(smp')
         /\ StoreMap' = View(smp') => Abstract!Store(d, c) \/ Abstract!Refuse(c)
<1> DEFINE id == smp.next_memory_id_counter
           q == AllocateBlock(GenerateNextMemoryId(smp), id, d, c)
<1>1. Consistent(smp) /\ Spells(smp) /\ id <= MaxId /\ smp' = q
  BY DEF StoreInv, IInv, Alloc
<1>2. /\ Spells(q) /\ q.next_memory_id_counter = id + 1
      /\ FitsIn(c, smp.free_block_count) =>
           /\ View(q) = Added(View(smp), id, Item(d, c, RequiredBlocks(c)))
           /\ q.free_block_count = smp.free_block_count - RequiredBlocks(c)
      /\ ~FitsIn(c, smp.free_block_count) =>
           View(q) = View(smp) /\ q.free_block_count = smp.free_block_count
  BY <1>1, TakeIdView DEF FitsIn, Fitting
<1> HIDE DEF q
<1>3. /\ Abstract!Needed(c) = RequiredBlocks(c)
      /\ Abstract!Fits(c, smp.free_block_count) <=> FitsIn(c, smp.free_block_count)
  BY SameSizes
<1>4. ASSUME StoreMap' = View(smp') PROVE Abstract!Store(d, c) \/ Abstract!Refuse(c)
  <2>1. CASE FitsIn(c, smp.free_block_count)
    BY <1>1, <1>2, <1>3, <1>4, <2>1
       DEF Abstract!Store, Abstract!With, Abstract!Entry, Added, Item
  <2>2. CASE ~FitsIn(c, smp.free_block_count)
    BY <1>1, <1>2, <1>3, <1>4, <2>2 DEF Abstract!Refuse
  <2> QED
    BY <2>1, <2>2
<1> QED
  BY <1>1, <1>2, <1>4

(* free: the memory is gone, the others stay. *)
LEMMA FreeRefines ==
  ASSUME StoreInv, NEW id \in LiveId, Free(id), StoreMap = View(smp)
  PROVE  Spells(smp') /\ (StoreMap' = View(smp') => Abstract!Remove(id))
<1> DEFINE q == FreeByMemoryId(smp, id)
<1>0. Consistent(smp) /\ Spells(smp) /\ id \in DOMAIN smp.memory_info /\ smp' = q
  BY DEF StoreInv, IInv, LiveId, Free
<1>1. /\ Spells(q) /\ View(q) = Removed(View(smp), id)
      /\ q.free_block_count = smp.free_block_count + smp.memory_info[id].second
      /\ q.next_memory_id_counter = smp.next_memory_id_counter
  BY <1>0, FreeView, FreeConsistent
<1>2. View(smp)[id].blocks = smp.memory_info[id].second
  BY <1>0 DEF View, Line
<1> HIDE DEF q
<1> QED
  BY <1>0, <1>1, <1>2 DEF Abstract!Remove, Abstract!Without, Removed

(* The update that frees and allocates again: replaced, or lost. *)
LEMMA FreeThenAllocateRefines ==
  ASSUME StoreInv, NEW id \in LiveId, NEW c \in Contents, FreeThenAllocate(id, c),
         StoreMap = View(smp)
  PROVE  Spells(smp') /\ (StoreMap' = View(smp') => Abstract!Replace(id, c))
<1> DEFINE q == AllocateBlock(FreeByMemoryId(smp, id), id, DescriptionOf(smp, id), c)
           room == smp.free_block_count + smp.memory_info[id].second
<1>1. Consistent(smp) /\ Spells(smp) /\ id \in DOMAIN smp.memory_info /\ smp' = q
  BY DEF StoreInv, IInv, LiveId, FreeThenAllocate
<1>2. /\ Spells(q) /\ q.next_memory_id_counter = smp.next_memory_id_counter
      /\ FitsIn(c, room) =>
           /\ View(q) = Added(View(smp), id,
                              Item(View(smp)[id].description, c, RequiredBlocks(c)))
           /\ q.free_block_count = room - RequiredBlocks(c)
      /\ ~FitsIn(c, room) => View(q) = Removed(View(smp), id) /\ q.free_block_count = room
  BY <1>1, ReplaceView DEF FitsIn
<1> HIDE DEF q
<1>3. /\ Abstract!Needed(c) = RequiredBlocks(c)
      /\ \A m : Abstract!Fits(c, m) <=> FitsIn(c, m)
  BY SameSizes
<1>4. smp.free_block_count + View(smp)[id].blocks = room
  BY <1>1 DEF View, Line
<1> HIDE DEF room
<1>5. ASSUME StoreMap' = View(smp') PROVE Abstract!Replace(id, c)
  <2>1. CASE FitsIn(c, room)
    BY <1>1, <1>2, <1>3, <1>4, <1>5, <2>1
       DEF Abstract!Replace, Abstract!With, Abstract!Entry, Added, Item
  <2>2. CASE ~FitsIn(c, room)
    BY <1>1, <1>2, <1>3, <1>4, <1>5, <2>2 DEF Abstract!Replace, Abstract!Without, Removed
  <2> QED
    BY <2>1, <2>2
<1> QED
  BY <1>1, <1>2, <1>5

(* The console's update, in place or not. *)
LEMMA ConsoleUpdateRefines ==
  ASSUME StoreInv, NEW id \in LiveId, NEW c \in Contents, ConsoleUpdate(id, c),
         StoreMap = View(smp)
  PROVE  /\ Spells(smp')
         /\ StoreMap' = View(smp') => Abstract!Replace(id, c) \/ Abstract!Overwrite(id, c)
<1>1. CASE FreeThenAllocate(id, c)
  BY <1>1, FreeThenAllocateRefines
<1>2. CASE ~(c.size > smp.memory_info[id].second * kBlockSize) /\ smp' = OverwriteInPlace(smp, id, c)
  <2> DEFINE q == OverwriteInPlace(smp, id, c)
  <2>0. Consistent(smp) /\ Spells(smp) /\ id \in DOMAIN smp.memory_info /\ c.size > 0
    BY DEF StoreInv, IInv, LiveId, ConsoleUpdate
  <2>1. c.size <= smp.memory_info[id].second * kBlockSize
    <3>0. smp.memory_info[id] \in Entries
      BY <2>0 DEF Consistent, HasPoolType
    <3>1. smp.memory_info[id].second \in Nat /\ kBlockSize \in Nat /\ c.size \in Nat
      <4>1. c.size \in Nat /\ kBlockSize \in Nat
        BY PoolAssumption DEF Contents
      <4> QED
        BY <3>0, <4>1, SpanFacts
    <3>2. smp.memory_info[id].second * kBlockSize \in Nat
      BY <3>1
    <3> QED
      BY <1>2, <3>1, <3>2
  <2>2. /\ Spells(q)
        /\ View(q) = Added(View(smp), id, Item(View(smp)[id].description, c, CeilBlocks(c)))
        /\ q.free_block_count
             = smp.free_block_count + (smp.memory_info[id].second - CeilBlocks(c))
        /\ q.next_memory_id_counter = smp.next_memory_id_counter
    <3>1. q.next_memory_id_counter = smp.next_memory_id_counter
      BY <2>0, <2>1, OverwriteConsistent
    <3> QED
      BY <2>0, <2>1, <3>1, OverwriteView
  <2>3. View(smp)[id].blocks = smp.memory_info[id].second
    BY <2>0 DEF View, Line
  <2>4. Abstract!Touched(c) = CeilBlocks(c)
    BY SameSizes
  <2>5. smp' = q
    BY <1>2
  <2> HIDE DEF q
  <2> QED
    BY <2>0, <2>1, <2>2, <2>3, <2>4, <2>5
       DEF Abstract!Overwrite, Abstract!With, Abstract!Entry, Added, Item
<1> QED
  BY <1>1, <1>2 DEF ConsoleUpdate

(* Each command is a step of the store, or none. *)
LEMMA StepRefines ==
  StoreInv /\ IInv' /\ [Next]_smp => StoreInv' /\ [Abstract!Next]_(Abstract!vars)
<1> SUFFICES ASSUME StoreInv, IInv', [Next]_smp
             PROVE  StoreInv' /\ [Abstract!Next]_(Abstract!vars)
  OBVIOUS
<1>0. HasPoolType(smp) /\ Spells(smp) /\ HasPoolType(smp')
  BY DEF StoreInv, IInv, Consistent
<1>1. StoreMap = View(smp) /\ DOMAIN StoreMap = LiveId
  BY <1>0, StoreMapIsView DEF StoreMap
<1>2. Spells(smp') => StoreMap' = View(smp')
  <2>1. (HasPoolType(smp) /\ Spells(smp) => StoreMap = View(smp))'
    BY StoreMapIsView, PTL
  <2> QED
    BY <1>0, <2>1
<1>3. CASE \E d \in Descriptions, c \in Contents : Alloc(d, c)
  BY <1>1, <1>2, <1>3, AllocRefines DEF StoreInv, Abstract!Next
<1>4. CASE \E id \in LiveId : Free(id)
  BY <1>1, <1>2, <1>4, FreeRefines DEF StoreInv, Abstract!Next
<1>5. CASE \E id \in LiveId, c \in Contents : FreeThenAllocate(id, c)
  BY <1>1, <1>2, <1>5, FreeThenAllocateRefines DEF StoreInv, Abstract!Next
<1>6. CASE \E id \in LiveId, c \in Contents : ConsoleUpdate(id, c)
  BY <1>1, <1>2, <1>6, ConsoleUpdateRefines DEF StoreInv, Abstract!Next
<1>7. CASE CompactPool
  <2>1. /\ Spells(smp') /\ View(smp') = View(smp)
        /\ smp'.free_block_count = smp.free_block_count
        /\ smp'.next_memory_id_counter = smp.next_memory_id_counter
    BY <1>7, CompactView, CompactPacks, CompactConsistent DEF CompactPool, StoreInv, IInv
  <2> QED
    BY <1>1, <1>2, <2>1 DEF StoreInv, Abstract!vars
<1>8. CASE ResetAll
  <2>1. /\ smp'.next_memory_id_counter = 1 /\ DOMAIN smp'.memory_info = {}
        /\ smp'.free_block_count = kBlockCount
    BY <1>8 DEF ResetAll, ResetPool
  <2>2. Spells(smp')
    BY <2>1 DEF Spells
  <2>3. StoreMap' = [x \in {} |-> {}]
    BY <2>1 DEF StoreMap, LiveId
  <2> QED
    BY <2>1, <2>2, <2>3 DEF StoreInv, Abstract!Clear, Abstract!Next
<1>9. CASE UNCHANGED smp
  BY <1>9 DEF StoreInv, StoreMap, LiveId, ContentRead, Abstract!vars
<1> QED
  BY <1>3, <1>4, <1>5, <1>6, <1>7, <1>8, <1>9 DEF Next

LEMMA StoreInvariant == Spec => []StoreInv
<1>1. StoreInv /\ IInv' /\ [Next]_smp => StoreInv'
  BY StepRefines
<1>2. Init => StoreInv
  BY InitRefines
<1> QED
  BY <1>1, <1>2, PoolStaysConsistent, PTL DEF Spec

(* The pool implements the abstract store: what clients see through any    *)
(* history of commands is a map from ids to the contents last written.     *)
THEOREM PoolImplementsStore == Spec => ImplementsStore
<1>1. Init => Abstract!Init
  BY InitRefines
<1> QED
  BY <1>1, StepRefines, StoreInvariant, PoolStaysConsistent, PTL
     DEF Spec, ImplementsStore, Abstract!Spec

(***************************************************************************)
(* What status and info report.                                            *)
(***************************************************************************)
(* The free blocks lie in more than one fragment exactly when no run has   *)
(* all of them.  Two fragments have a used block between them; and with    *)
(* one fragment there is no used block behind its first and before its     *)
(* last block, or the first free block after it would begin another.       *)
LEMMA FragmentsAreRuns ==
  ASSUME Consistent(smp)
  PROVE  NeedsCompact <=> GetMaxContinuousFreeBlocks(smp) < smp.free_block_count
<1> DEFINE used   == smp.used_map
           free   == Blocks \ used
           starts == {b \in free : b = 0 \/ b - 1 \in used}
           n      == smp.free_block_count
           L      == GetMaxContinuousFreeBlocks(smp)
<1>1. /\ used \in SUBSET Blocks /\ IsFiniteSet(free) /\ n = Cardinality(free)
      /\ n \in 0 .. kBlockCount /\ kBlockCount \in Nat \ {0} /\ Blocks \subseteq Nat
  <2>1. /\ used \in SUBSET Blocks /\ n \in 0 .. kBlockCount
        /\ n = kBlockCount - Cardinality(used)
    BY DEF Consistent, HasPoolType, CountsFreeBlocks
  <2>2. IsFiniteSet(Blocks) /\ Cardinality(Blocks) = kBlockCount
    BY BlocksFinite
  <2>3. Blocks \cap used = used
    BY <2>1
  <2>4. Cardinality(free) = kBlockCount - Cardinality(used) /\ IsFiniteSet(free)
    BY ONLY <2>2, <2>3, FS_Difference
  <2>5. kBlockCount \in Nat \ {0} /\ Blocks \subseteq Nat
    BY PoolAssumption DEF Blocks
  <2> QED
    BY ONLY <2>1, <2>4, <2>5
<1>2. starts \in SUBSET free /\ IsFiniteSet(starts) /\ Cardinality(starts) \in Nat
  <2>1. starts \in SUBSET free
    OBVIOUS
  <2> HIDE DEF starts, free
  <2> QED
    BY ONLY <1>1, <2>1, FS_Subset, FS_CardinalityType
<1>3. NeedsCompact <=> Cardinality(starts) > 1
  BY DEF NeedsCompact, FreeFragments
<1>4. /\ L \in 0 .. kBlockCount
      /\ \E i \in 0 .. kBlockCount - L : i .. (i + L - 1) \cap used = {}
      /\ \A m \in 0 .. kBlockCount : \A i \in 0 .. kBlockCount - m :
           i .. (i + m - 1) \cap used = {} => m <= L
  BY LongestFreeRun
<1> HIDE DEF L, n
(* A run of all free blocks has every fragment in it. *)
<1>5. ASSUME Cardinality(starts) > 1 PROVE L < n
  <2>1. PICK a \in starts, b \in starts : a < b
    <3>1. PICK a \in starts : TRUE
      <4>1. starts # {}
        BY <1>5, FS_EmptySet
      <4> QED
        BY <4>1
    <3>2. PICK b \in starts : b # a
      <4>1. Cardinality({a}) = 1
        BY FS_Singleton
      <4>2. starts # {a}
        BY <1>2, <1>5, <4>1
      <4> QED
        BY <3>1, <4>2
    <3>3. a \in Nat /\ b \in Nat
      BY <1>1
    <3> QED
      BY <3>1, <3>2, <3>3
  <2>2. PICK i \in 0 .. kBlockCount - L : i .. (i + L - 1) \cap used = {}
    BY <1>4
  <2> DEFINE run == i .. (i + L - 1)
  <2>3. i \in Nat /\ L \in Nat /\ i + L <= kBlockCount
    BY <1>1, <1>4
  <2>4. run \in SUBSET free
    BY <1>1, <2>2, <2>3 DEF Blocks
  <2>5. Cardinality(run) = L
    BY <2>3, FS_Interval
  <2>6. L <= n /\ (L = n => run = free)
    <3> HIDE DEF run, free
    <3> QED
      BY <1>1, <2>4, <2>5, FS_Subset
  <2>7. run # free
    <3>1. b # 0 /\ b - 1 \in used /\ a \in free /\ b \in free /\ a \in Nat /\ b \in Nat
      BY <1>1, <2>1
    <3>2. a <= b - 1 /\ b - 1 < b
      BY <2>1, <3>1
    <3>3. a \in run /\ b \in run => b - 1 \in run
      BY <2>3, <3>1, <3>2
    <3> QED
      BY <2>2, <3>1, <3>3
  <2> QED
    BY <1>1, <2>3, <2>6, <2>7
(* With one fragment, its first and its last block and those between are   *)
(* a run.                                                                  *)
<1>6. ASSUME ~(Cardinality(starts) > 1) PROVE ~(L < n)
  <2>1. CASE free = {}
    <3>1. n = 0
      BY <1>1, <2>1, FS_EmptySet
    <3> QED
      BY <1>4, <3>1
  <2>2. CASE free # {}
    <3> DEFINE lo == Min(free)
               hi == Max(free)
    <3>1. lo \in free /\ \A y \in free : lo <= y
      BY <2>2, LeastBlock
    <3>2. hi \in free /\ \A y \in free : y <= hi
      <4>1. free \in SUBSET Nat /\ \A x \in free : x <= kBlockCount
        BY <1>1 DEF Blocks
      <4> HIDE DEF free
      <4> QED
        BY <1>1, <2>2, <4>1, GreatestOfBounded
    <3> HIDE DEF lo, hi
    <3>3. lo \in Nat /\ hi \in Nat /\ lo <= hi /\ hi < kBlockCount
      BY <1>1, <3>1, <3>2 DEF Blocks
    <3>4. lo \in starts
      <4>1. lo # 0 => lo - 1 \in Blocks /\ lo - 1 \notin free
        BY <1>1, <3>1, <3>3 DEF Blocks
      <4> QED
        BY <3>1, <4>1
    <3>5. \A b \in starts : b = lo
      <4>1. ASSUME NEW b \in starts, b # lo PROVE FALSE
        <5>1. Cardinality({lo, b}) = 2 /\ IsFiniteSet({lo, b})
          <6>1. {lo, b} = {lo} \cup {b} /\ b \notin {lo}
            BY <4>1
          <6>2. IsFiniteSet({lo}) /\ Cardinality({lo}) = 1
            BY FS_Singleton
          <6> QED
            BY <6>1, <6>2, FS_AddElement
        <5>2. {lo, b} \in SUBSET starts
          BY <3>4
        <5>3. Cardinality({lo, b}) <= Cardinality(starts)
          <6> HIDE DEF starts
          <6> QED
            BY <1>2, <5>2, FS_Subset
        <5> QED
          BY <1>2, <1>6, <5>1, <5>3
      <4> QED
        BY <4>1
    <3>6. lo .. hi = free
      <4> DEFINE gaps == {x \in lo .. hi : x \notin free}
      <4>1. ASSUME gaps # {} PROVE FALSE
        <5> DEFINE y == Max(gaps)
        <5>1. y \in gaps /\ \A x \in gaps : x <= y
          <6>1. gaps \in SUBSET Nat /\ \A x \in gaps : x <= hi
            BY <3>3
          <6> HIDE DEF gaps
          <6> QED
            BY <3>3, <4>1, <6>1, GreatestOfBounded
        <5> HIDE DEF y
        <5>2. y \in Nat /\ lo <= y /\ y < hi
          BY <3>1, <3>2, <3>3, <5>1
        <5>3. y + 1 \in lo .. hi /\ y + 1 \notin gaps
          BY <3>3, <5>1, <5>2
        <5>4. y + 1 \in free
          BY <5>3
        <5>5. y \in used
          BY <1>1, <3>3, <5>1, <5>2 DEF Blocks
        <5>6. y + 1 \in starts
          BY <5>2, <5>4, <5>5
        <5> QED
          BY <3>3, <3>5, <5>2, <5>6
      <4>2. \A x \in free : x \in lo .. hi
        BY <1>1, <3>1, <3>2, <3>3
      <4> QED
        BY <4>1, <4>2
    <3>7. n = hi - lo + 1
      <4>1. Cardinality(lo .. hi) = hi - lo + 1
        BY <3>3, FS_Interval
      <4> QED
        BY <1>1, <3>6, <4>1
    <3>8. lo + n - 1 = hi /\ n \in 0 .. kBlockCount /\ lo \in 0 .. kBlockCount - n
      BY <1>1, <3>3, <3>7
    <3>9. lo .. (lo + n - 1) \cap used = {}
      BY <3>6, <3>8
    <3>10. n <= L
      BY <1>4, <3>8, <3>9
    <3> QED
      BY <1>1, <1>4, <3>10
  <2> QED
    BY <2>1, <2>2
<1> QED
  BY <1>3, <1>5, <1>6 DEF L, n

(* The least block of a memory is its first one. *)
LEMMA FirstOfSpan ==
  ASSUME NEW e \in Entries
  PROVE  Min(Span(e)) = e.first
<1>1. e.first \in Span(e) /\ \A b \in Span(e) : e.first <= b
  BY SpanFacts
<1>2. \A b \in Span(e) : b \in Int
  BY SpanFacts
<1> DEFINE S == Span(e)
<1> HIDE DEF S
<1>3. e.first \in S /\ (\A b \in S : e.first <= b) /\ \A b \in S : b \in Int
  BY <1>1, <1>2 DEF S
<1>4. \A x \in S : (\A y \in S : x <= y) => x = e.first
  BY <1>3
<1>5. (CHOOSE x \in S : \A y \in S : x <= y) = e.first
  BY <1>3, <1>4
<1> QED
  BY <1>5 DEF Min, S

(* A memory is shown with the bytes of the content stored in it. *)
LEMMA BytesShown ==
  ASSUME Consistent(smp), Spells(smp), NEW id \in LiveId
  PROVE  Bytes(id) = Spelled(smp, id).size
<1> DEFINE c == Spelled(smp, id)
           e == smp.memory_info[id]
<1>1. c \in Contents /\ c.size <= e.second * kBlockSize
  BY DEF Spells, LiveId
<1>2. GetMemoryContentAsString(smp, id) = TextOf(c)
  BY ReadsText DEF LiveId, Consistent
<1>3. e.second \in Nat /\ e.second <= kBlockCount /\ kBlockCount \in Nat /\ kBlockSize \in Nat
      /\ c.size \in Nat
  <2>1. e \in Entries
    BY DEF Consistent, HasPoolType, LiveId
  <2>2. c.size \in Nat
    BY <1>1, PoolAssumption DEF Contents
  <2> QED
    BY <2>1, <2>2, PoolAssumption DEF Entries
<1> HIDE DEF c, e
<1>4. c.size <= kBlockCount * kBlockSize
  <2>1. e.second * kBlockSize <= kBlockCount * kBlockSize
    BY <1>3
  <2>2. e.second * kBlockSize \in Nat /\ kBlockCount * kBlockSize \in Nat
    BY <1>3
  <2> QED
    BY <1>1, <1>3, <2>1, <2>2
<1> QED
  BY <1>1, <1>2, <1>4, BytesAddUp DEF Bytes, c

(* The blocks with a row in the block table are those the bitmap has, each *)
(* the row of the memory that owns it.                                     *)
Row(b) == [block |-> b, memory_id |-> smp.meta[b].memory_id,
           description |-> smp.meta[b].description]

LEMMA RowsAreUsedBlocks ==
  ASSUME Consistent(smp)
  PROVE  /\ BlockRows = {Row(b) : b \in smp.used_map}
         /\ \A b \in smp.used_map : \E id \in LiveId :
              b \in Span(smp.memory_info[id]) /\ smp.meta[b].memory_id = id
         /\ \A id \in LiveId : \A b \in Span(smp.memory_info[id]) :
              /\ b \in smp.used_map /\ smp.meta[b].memory_id = id
              /\ smp.meta[b].description = DescriptionOf(smp, id)
<1>1. /\ HasPoolType(smp) /\ OwnsItsBlocks(smp) /\ LeaksNoBlock(smp) /\ DescribesEvenly(smp)
  BY DEF Consistent
<1>2. \A b \in smp.used_map : \E id \in LiveId :
        b \in Span(smp.memory_info[id]) /\ smp.meta[b].memory_id = id
  BY <1>1 DEF LeaksNoBlock, Owned, OwnsItsBlocks, LiveId
<1>3. \A id \in LiveId : \A b \in Span(smp.memory_info[id]) :
        /\ b \in smp.used_map /\ smp.meta[b].used /\ smp.meta[b].memory_id = id
        /\ smp.meta[b].description = DescriptionOf(smp, id)
  BY <1>1 DEF OwnsItsBlocks, DescribesEvenly, LiveId
<1>4. \A b \in Blocks : b \in smp.used_map <=> smp.meta[b].used /\ smp.meta[b].memory_id # 0
  BY <1>1, <1>2, <1>3 DEF LeaksNoBlock, HasPoolType, LiveId
<1>5. {x \in Blocks : smp.meta[x].used /\ smp.meta[x].memory_id # 0} = smp.used_map
  BY <1>1, <1>4 DEF HasPoolType
<1>6. BlockRows = {Row(b) : b \in smp.used_map}
  BY <1>5 DEF BlockRows, Row
<1> QED
  BY <1>2, <1>3, <1>6

(* info advises a compaction exactly when one would make a longer free run. *)
THEOREM AdviceIsSound == Spec => []AdviceIsRight
<1>1. IInv => AdviceIsRight
  <2> SUFFICES ASSUME IInv PROVE AdviceIsRight
    OBVIOUS
  <2>0. Consistent(smp)
    BY DEF IInv
  <2>1. NeedsCompact <=> GetMaxContinuousFreeBlocks(smp) < smp.free_block_count
    BY <2>0, FragmentsAreRuns
  <2>2. GetMaxContinuousFreeBlocks(Compact(smp)) = smp.free_block_count
    BY <2>0, CompactLongestRun, CompactPacks
  <2>3. GetMaxContinuousFreeBlocks(smp) \in Nat /\ smp.free_block_count \in Nat
    <3>1. kBlockCount \in Nat /\ smp.free_block_count \in 0 .. kBlockCount
      BY <2>0, PoolAssumption DEF Consistent, HasPoolType
    <3>2. GetMaxContinuousFreeBlocks(smp) \in 0 .. kBlockCount
      BY LongestFreeRun
    <3> QED
      BY <3>1, <3>2
  <2>4. "fragmentation" \in Warnings <=> NeedsCompact /\ smp.free_block_count > 0
    BY DEF Warnings
  <2> QED
    BY <2>1, <2>2, <2>3, <2>4 DEF AdviceIsRight
<1> QED
  BY <1>1, PoolStaysConsistent, PTL

(* The tables of status and the figures of info are of one pool.           *)
THEOREM ReportsAreOfOnePool == Spec => []ReportsAgree
<1>1. StoreInv => ReportsAgree
  <2> SUFFICES ASSUME StoreInv PROVE ReportsAgree
    OBVIOUS
  <2>0. /\ Consistent(smp) /\ Spells(smp) /\ HasPoolType(smp) /\ OwnsItsBlocks(smp)
        /\ LeaksNoBlock(smp) /\ CountsFreeBlocks(smp)
    BY DEF StoreInv, IInv, Consistent
  <2>1. /\ BlockRows = {Row(b) : b \in smp.used_map}
        /\ \A b \in smp.used_map : \E id \in LiveId :
             b \in Span(smp.memory_info[id]) /\ smp.meta[b].memory_id = id
        /\ \A id \in LiveId : \A b \in Span(smp.memory_info[id]) :
             /\ b \in smp.used_map /\ smp.meta[b].memory_id = id
             /\ smp.meta[b].description = DescriptionOf(smp, id)
    BY <2>0, RowsAreUsedBlocks
  <2>2. \A b : /\ Row(b).block = b /\ Row(b).memory_id = smp.meta[b].memory_id
               /\ Row(b).description = smp.meta[b].description
    BY DEF Row
  <2>3. ASSUME NEW r \in MemoryRows
        PROVE  /\ r.range = {q.block : q \in {x \in BlockRows : x.memory_id = r.memory_id
                                                          /\ x.description = r.description}}
               /\ r.bytes = smp.pool[Min(r.range)].of.size
    <3>1. PICK id \in LiveId :
            r = [memory_id |-> id, description |-> DescriptionOf(smp, id), bytes |-> Bytes(id),
                 range |-> Span(smp.memory_info[id])]
      BY DEF MemoryRows
    <3>2. /\ r.memory_id = id /\ r.description = DescriptionOf(smp, id)
          /\ r.bytes = Bytes(id) /\ r.range = Span(smp.memory_info[id])
      BY <3>1
    <3> DEFINE mine == {x \in BlockRows : x.memory_id = id /\ x.description = DescriptionOf(smp, id)}
    <3>3. \A b \in Span(smp.memory_info[id]) : Row(b) \in mine
      BY <2>1, <2>2
    <3>4. \A x \in mine : x.block \in Span(smp.memory_info[id])
      BY <2>1, <2>2
    <3>5. {q.block : q \in mine} = Span(smp.memory_info[id])
      <4> HIDE DEF mine
      <4> QED
        BY <2>2, <3>3, <3>4
    <3>6. Min(r.range) = smp.memory_info[id].first
      BY <2>0, <3>2, FirstOfSpan DEF HasPoolType, LiveId
    <3>7. r.bytes = smp.pool[Min(r.range)].of.size
      BY <2>0, <3>2, <3>6, BytesShown DEF Spelled
    <3> QED
      BY <3>2, <3>5, <3>7
  <2>4. \A q \in BlockRows : q.memory_id \in LiveId
    BY <2>1, <2>2
  <2>5. MemoryStatistics.totalMemoryBlocks = UsedBlocks
    BY <2>0, EntriesAddUp DEF MemoryStatistics, UsedBlocks, LiveId
  <2>6. Cardinality(BlockRows) = UsedBlocks
    <3>1. IsFiniteSet(smp.used_map)
      BY <2>0, BlocksFinite DEF HasPoolType
    <3>2. [b \in smp.used_map |-> Row(b)] \in Bijection(smp.used_map, BlockRows)
      BY <2>1, <2>2 DEF Bijection, Injection, IsInjective, Surjection
    <3>3. Cardinality(BlockRows) = Cardinality(smp.used_map)
      BY <3>1, <3>2, FS_Bijection DEF ExistsBijection
    <3>4. kBlockCount - smp.free_block_count = Cardinality(smp.used_map)
      <4>1. Cardinality(smp.used_map) \in Nat
        BY <3>1, FS_CardinalityType
      <4> QED
        BY <2>0, <4>1, PoolAssumption DEF CountsFreeBlocks
    <3> QED
      BY <3>3, <3>4 DEF UsedBlocks
  <2> QED
    BY <2>3, <2>4, <2>5, <2>6 DEF ReportsAgree
<1> QED
  BY <1>1, StoreInvariant, PTL
=============================================================================
