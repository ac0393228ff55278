----------------------------- MODULE PoolReport -----------------------------
(***************************************************************************)
(* What the console's status and info commands compute from the pool.      *)
(* They read the class's tables side by side: the block counter, the       *)
(* bitmap, the entries, the metadata and the bytes.                        *)
(***************************************************************************)
EXTENDS SharedMemoryPool

(* status --memory: a row for each entry, its range and the bytes of its   *)
(* content, counted by reading it.                                         *)
BytesOfBlocks(id) == smp.memory_info[id].second * kBlockSize
Bytes(id) ==
  MapThenSumSet(LAMBDA piece : Filled(piece[2]), GetMemoryContentAsString(smp, id))

MemoryRows ==
  {[memory_id   |-> id,
    description |-> DescriptionOf(smp, id),
    bytes       |-> Bytes(id),
    range       |-> Span(smp.memory_info[id])] : id \in LiveId}

(* status --block: a row for each block whose metadata is used and has an  *)
(* id.                                                                     *)
BlockRows ==
  {[block       |-> b,
    memory_id   |-> smp.meta[b].memory_id,
    description |-> smp.meta[b].description] :
     b \in {x \in Blocks : smp.meta[x].used /\ smp.meta[x].memory_id # 0}}

-----------------------------------------------------------------------------
(* info, section by section. *)
UsedBlocks == kBlockCount - smp.free_block_count

(* The loop over the bitmap counts the free blocks that follow a used one. *)
EveryFreeBlock == Cardinality(Blocks \ smp.used_map)
FreeFragments  ==
  Cardinality({b \in Blocks \ smp.used_map : b = 0 \/ b - 1 \in smp.used_map})

NeedsCompact == FreeFragments > 1

MemoryStatistics ==
  LET counts == {smp.memory_info[id].second : id \in LiveId}
  IN  [memoryCount       |-> Cardinality(LiveId),
       totalMemoryBlocks |-> MapThenSumSet(LAMBDA id : smp.memory_info[id].second, LiveId),
       maxMemoryBlocks   |-> Max(counts \cup {0}),
       minMemoryBlocks   |-> IF counts = {} THEN 0 ELSE Min(counts)]

(* The warnings at the end: usage above 90%, and free blocks in fragments. *)
Warnings ==
  (IF UsedBlocks * 10 > kBlockCount * 9 THEN {"usage"} ELSE {}) \cup
  (IF NeedsCompact /\ smp.free_block_count > 0 THEN {"fragmentation"} ELSE {})

-----------------------------------------------------------------------------
(* The two tables of status and the figures of info are of one pool,       *)
(* although each is read off a different table of the class: the blocks    *)
(* of a memory's range are exactly the blocks listed with its id and its   *)
(* description, the blocks of all memories add up to the used ones, and    *)
(* the bytes shown for a memory are the size of the content last stored in *)
(* it (README.md:159), whatever its blocks held before.                    *)
ReportsAgree ==
  /\ \A r \in MemoryRows :
       r.range = {q.block : q \in {x \in BlockRows : x.memory_id = r.memory_id
                                                     /\ x.description = r.description}}
  /\ \A r \in MemoryRows : r.bytes = smp.pool[Min(r.range)].of.size
  /\ \A q \in BlockRows : q.memory_id \in LiveId
  /\ MemoryStatistics.totalMemoryBlocks = UsedBlocks
  /\ Cardinality(BlockRows) = UsedBlocks

(* info advises a compaction exactly when one would help: when the longest *)
(* free run is shorter than all free blocks together.                      *)
AdviceIsRight ==
  /\ NeedsCompact <=> GetMaxContinuousFreeBlocks(smp) < smp.free_block_count
  /\ "fragmentation" \in Warnings
       <=> GetMaxContinuousFreeBlocks(Compact(smp)) > GetMaxContinuousFreeBlocks(smp)
=============================================================================
