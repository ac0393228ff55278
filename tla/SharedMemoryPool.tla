-------------------------- MODULE SharedMemoryPool --------------------------
(***************************************************************************)
(* One pool `smp' and the operations its users perform on it one at a      *)
(* time: the commands of the console (server/command/commands.cpp), the    *)
(* requests of a client (server/network/tcp_server.cpp), or the smm_*      *)
(* calls of one thread of a program (core/api/smm_api.cpp).  Every action  *)
(* is one whole command.  The class has no lock, so commands of several    *)
(* threads may also overlap; this module is about those that do not.       *)
(***************************************************************************)
EXTENDS PoolObject

CONSTANT MaxId              \* bound: ids handed out between two resets

ASSUME MaxIdAssumption == MaxId \in Nat \ {0}

VARIABLE smp

Ids    == 1 .. MaxId
LiveId == DOMAIN smp.memory_info

-----------------------------------------------------------------------------
Init == smp = ResetPool

(* alloc / ALLOC / smm_alloc: an id is taken before the allocation is      *)
(* tried, so a refused request uses one up.  The console allocates the     *)
(* content of a file, which may be empty.                                  *)
Alloc(d, c) ==
  /\ smp.next_memory_id_counter <= MaxId
  /\ smp' = AllocateBlock(GenerateNextMemoryId(smp), smp.next_memory_id_counter, d, c)

(* free, delete / DELETE / smm_free *)
Free(id) == smp' = FreeByMemoryId(smp, id)

(* UPDATE / smm_update: free, then allocate under the old id and           *)
(* description.  UPDATE accepts an empty content, smm_update does not.     *)
FreeThenAllocate(id, c) ==
  smp' = AllocateBlock(FreeByMemoryId(smp, id), id, DescriptionOf(smp, id), c)

(* The console's update: in place when the content fits the blocks the     *)
(* memory has, else as UPDATE does.  An empty content is refused.          *)
ConsoleUpdate(id, c) ==
  /\ c.size > 0
  /\ IF c.size > smp.memory_info[id].second * kBlockSize
     THEN FreeThenAllocate(id, c)
     ELSE smp' = OverwriteInPlace(smp, id, c)

CompactPool == smp' = Compact(smp)

ResetAll == smp' = ResetPool

Next ==
  \/ \E d \in Descriptions, c \in Contents : Alloc(d, c)
  \/ \E id \in LiveId : Free(id)
  \/ \E id \in LiveId, c \in Contents : FreeThenAllocate(id, c)
  \/ \E id \in LiveId, c \in Contents : ConsoleUpdate(id, c)
  \/ CompactPool
  \/ ResetAll

Spec == Init /\ [][Next]_smp

-----------------------------------------------------------------------------
(* The type invariant: every field of the object stays within its range.   *)
(* In particular the two counters never wrap below zero or run past the    *)
(* pool.                                                                   *)
TypeOK ==
  /\ HasPoolType(smp)
  /\ LiveId \subseteq Ids
  /\ smp.next_memory_id_counter <= MaxId + 1

(* Every block of a memory lies in the pool, is marked used in the bitmap, *)
(* and carries the memory's id: two memories never share a block, whatever *)
(* the mix of allocations, in-place updates, compactions and frees         *)
(* (the three tables of the class are maintained separately).              *)
BlocksBelongToTheirMemory == OwnsItsBlocks(smp)

(* No block leaks: a block marked used, in the bitmap or in its metadata,  *)
(* is a block of some memory, so freeing every memory empties the pool.    *)
NoBlockLeaks == LeaksNoBlock(smp)

(* The counter that allocation trusts (free_block_count, maintained by     *)
(* increments in four methods) is the number of clear bits.                *)
FreeCountExact == CountsFreeBlocks(smp)

(* All blocks of a memory carry one description: the description shown and *)
(* kept by an update, which is read off its first block, is the one the    *)
(* memory was allocated with even after blocks were moved or given back.   *)
OneDescription == DescribesEvenly(smp)

(* The ids in use are below the counter, so the next id is fresh; and the  *)
(* time map, a separate table, has exactly the live ids.                   *)
NextIdIsFresh == HandsOutFreshIds(smp)

-----------------------------------------------------------------------------
(* The pool implements the abstract store: an entry's content is the one   *)
(* its blocks spell, its description the one on its first block.           *)
Text(c) == {<<i, Chunk(c, i)>> : i \in {j \in 0 .. kBlockCount - 1 : j * kBlockSize < c.size}}

ContentRead(id) ==
  LET c == smp.pool[smp.memory_info[id].first].of
  IN  IF GetMemoryContentAsString(smp, id) = Text(c) THEN c ELSE NoContent

StoreMap ==
  [id \in LiveId |-> [description |-> DescriptionOf(smp, id),
                      content     |-> ContentRead(id),
                      blocks      |-> smp.memory_info[id].second]]

Abstract == INSTANCE MemoryStore WITH
              store  <- StoreMap,
              free   <- smp.free_block_count,
              nextId <- smp.next_memory_id_counter

(* What clients see, through any history of operations, is the abstract    *)
(* store: contents and descriptions survive other clients' operations and  *)
(* compactions unchanged, and no id is handed out twice between resets.    *)
ImplementsStore == Abstract!Spec

(* Fragmentation never makes a request fail: an allocation, or an update   *)
(* that frees and allocates again, succeeds exactly when its content needs *)
(* no more blocks than are free, although the search for a run looks only  *)
(* behind next_search_pos and only compaction can make a run.              *)
FitsIn(c, n) == c.size > 0 /\ RequiredBlocks(c) <= n

OnlyLackOfBlocksRefuses ==
  [][/\ \A d \in Descriptions, c \in Contents :
          Alloc(d, c) => (smp.next_memory_id_counter \in LiveId'
                            <=> FitsIn(c, smp.free_block_count))
     /\ \A id \in LiveId, c \in Contents :
          FreeThenAllocate(id, c) =>
            (id \in LiveId'
               <=> FitsIn(c, smp.free_block_count + smp.memory_info[id].second))]_smp

(* After a compact command all free blocks form one run (doc.md: after     *)
(* compact all used blocks are contiguous, with no gaps), so status then   *)
(* reports the longest free run equal to the free blocks.                  *)
CompactLeavesOneRun ==
  [][CompactPool => GetMaxContinuousFreeBlocks(smp') = smp'.free_block_count]_smp

-----------------------------------------------------------------------------
(* Three things comments and documents say of the allocator that its code  *)
(* does not do.                                                            *)

(* shared_memory_pool.cpp:340: after compaction, not finding room "should  *)
(* in theory not happen".                                                  *)
CompactionMakesRoom ==
  [][\A d \in Descriptions, c \in Contents :
       Alloc(d, c) /\ ~Rejected(smp, c) => smp.next_memory_id_counter \in LiveId']_smp

(* shared_memory_pool.cpp:322, README.md:135: the number of blocks is the  *)
(* size rounded up to whole blocks.                                        *)
BlocksAreRoundedUp ==
  \A id \in LiveId : smp.memory_info[id].second = CeilBlocks(ContentRead(id))

(* shared_memory_pool.cpp:334, README.md:113: an allocation compacts when  *)
(* there is no contiguous run of free blocks for it; as long as there is   *)
(* one, the other memories stay where they are.                            *)
CompactsOnlyWithoutRun ==
  [][\A d \in Descriptions, c \in Contents :
       Alloc(d, c) /\ GetMaxContinuousFreeBlocks(smp) >= RequiredBlocks(c)
         => \A id \in LiveId : smp'.memory_info[id] = smp.memory_info[id]]_smp
=============================================================================
