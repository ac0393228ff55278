----------------------------- MODULE PoolObject -----------------------------
(***************************************************************************)
(* The SharedMemoryPool object of core/shared_memory_pool and its methods, *)
(* as operators from one value of the object to the next.  The object is a *)
(* record whose fields are the class's members (trailing underscores       *)
(* dropped):                                                               *)
(*                                                                         *)
(*   used_map                   the set of blocks whose bit is set         *)
(*   meta                       block -> [used, memory_id, description]    *)
(*   free_block_count           the counter, NOT derived from used_map     *)
(*   memory_info                id -> [first, second]: start block, count  *)
(*   memory_last_modified_time  the ids that have a time stamp             *)
(*   next_memory_id_counter     the number of the next id to hand out      *)
(*   next_search_pos            where the next-fit search starts           *)
(*   pool                       block -> the bytes of the block            *)
(*                                                                         *)
(* A memory id is the number its base-62 text encodes; 0 is the empty      *)
(* string of a cleared BlockMeta.  Contents have no NUL byte.              *)
(***************************************************************************)
EXTENDS Integers, FiniteSets, FiniteSetsExt, Functions

CONSTANTS kBlockCount,      \* blocks of the pool
          kBlockSize,       \* bytes of a block
          Data,             \* what tells the texts of two contents apart
          Sizes,            \* sizes of contents, in bytes
          NoData,           \* the data of zeroed blocks
          Descriptions,     \* descriptions of memories
          NoDescription     \* the description of a cleared block

ASSUME PoolAssumption ==
  /\ kBlockCount \in Nat \ {0}
  /\ kBlockSize \in Nat \ {0}
  /\ Sizes \subseteq Nat
  /\ NoData \notin Data

-----------------------------------------------------------------------------
Blocks == 0 .. kBlockCount - 1

Contents  == [data : Data, size : Sizes]
NoContent == [data |-> NoData, size |-> 0]

(* The bytes of a block: the part-th kBlockSize bytes of a content, padded *)
(* with zeros.  Filled is the number of bytes before the first zero.          *)
Chunk(c, i) == [of |-> c, part |-> i]
Chunks      == [of : Contents \cup {NoContent}, part : 0 .. kBlockCount]
ZeroChunk   == Chunk(NoContent, 0)
Filled(k) ==
  LET rest == k.of.size - k.part * kBlockSize
  IN  IF rest >= kBlockSize THEN kBlockSize ELSE IF rest > 0 THEN rest ELSE 0

BlockMeta == [used |-> FALSE, memory_id |-> 0, description |-> NoDescription]

Span(e)  == e.first .. (e.first + e.second - 1)
Owned(p) == UNION {Span(p.memory_info[id]) : id \in DOMAIN p.memory_info}

-----------------------------------------------------------------------------
(* Reset, which Init calls on a new object. *)
ResetPool ==
  [used_map                  |-> {},
   meta                      |-> [b \in Blocks |-> BlockMeta],
   free_block_count          |-> kBlockCount,
   memory_info               |-> [id \in {} |-> [first |-> 0, second |-> 0]],
   memory_last_modified_time |-> {},
   next_memory_id_counter    |-> 1,
   next_search_pos           |-> 0,
   pool                      |-> [b \in Blocks |-> ZeroChunk]]

(* GenerateNextMemoryId returns the counter and increments it. *)
ReuseMemoryId(p)        == p
GenerateNextMemoryId(p) == [p EXCEPT !.next_memory_id_counter = @ + 1]

-----------------------------------------------------------------------------
(* Next-fit search: the first run of n free blocks at or after             *)
(* next_search_pos.  It does not wrap around.  Module NextFitScan has the  *)
(* loop itself.                                                            *)
NotFound == -1

FreeRuns(p, n) ==
  {i \in p.next_search_pos .. kBlockCount - n :
     i .. (i + n - 1) \cap p.used_map = {}}

FindContinuousFreeBlock(p, n) ==
  IF n > p.free_block_count \/ FreeRuns(p, n) = {}
  THEN NotFound
  ELSE Min(FreeRuns(p, n))

-----------------------------------------------------------------------------
(* Compact moves the entries, in the order of their start blocks, block by *)
(* block to the front: the owned block with r owned blocks before it       *)
(* becomes block r.  Module CompactLoop has the loop itself.               *)
Rank(S, b) == Cardinality({x \in S : x < b})
Nth(S, r)  == CHOOSE b \in S : Rank(S, b) = r

FreePos(p) == Cardinality(Owned(p))
Packed(p)  == 0 .. FreePos(p) - 1

KeptMeta(p)  == p.meta
MovedMeta(p) ==
  LET owned  == Owned(p)
      packed == Packed(p)
  IN  [b \in Blocks |-> IF b \in packed THEN p.meta[Nth(owned, b)]
                        ELSE IF b \in owned THEN BlockMeta ELSE p.meta[b]]

KeptData(p)  == p.pool
MovedData(p) ==
  LET owned  == Owned(p)
      packed == Packed(p)
  IN  [b \in Blocks |-> IF b \in packed THEN p.pool[Nth(owned, b)] ELSE p.pool[b]]

BitsOfSourcesKept(p) == p.used_map \cup Packed(p)
MovedBits(p)         == (p.used_map \ Owned(p)) \cup Packed(p)

StaleEntry(p, e) == e
MovedEntry(p, e) == [e EXCEPT !.first = Rank(Owned(p), @)]

Compact(p) ==
  [p EXCEPT
     !.pool             = MovedData(p),
     !.meta             = MovedMeta(p),
     !.used_map         = MovedBits(p),
     !.memory_info      = [id \in DOMAIN @ |-> MovedEntry(p, p.memory_info[id])],
     !.free_block_count = kBlockCount - FreePos(p),
     !.next_search_pos  = FreePos(p)]

-----------------------------------------------------------------------------
(* AllocateBlock asks for one block more than a content of a whole number  *)
(* of blocks fills.                                                        *)
RequiredBlocks(c) == (c.size + kBlockSize) \div kBlockSize

(* The loop that writes data and metadata, and the entry it records. *)
Place(p, start, id, desc, c) ==
  LET e == [first |-> start, second |-> RequiredBlocks(c)]
  IN  [p EXCEPT
         !.pool     = [b \in Blocks |->
                         IF b \in Span(e) THEN Chunk(c, b - start) ELSE p.pool[b]],
         !.meta     = [b \in Blocks |->
                         IF b \in Span(e)
                         THEN [used |-> TRUE, memory_id |-> id, description |-> desc]
                         ELSE p.meta[b]],
         !.used_map = @ \cup Span(e),
         !.free_block_count = @ - e.second,
         !.memory_info = [x \in DOMAIN @ \cup {id} |->
                            IF x = id THEN e ELSE p.memory_info[x]],
         !.memory_last_modified_time = @ \cup {id},
         !.next_search_pos = start + e.second]

(* AllocateBlock: rejects an empty content and one larger than all the     *)
(* free bytes; compacts when the search fails, and searches again.         *)
Rejected(p, c) == c.size = 0 \/ c.size > p.free_block_count * kBlockSize

SearchedOnce(p, n) == p
Searched(p, n) ==
  IF FindContinuousFreeBlock(p, n) = NotFound THEN Compact(p) ELSE p

AllocateBlock(p, id, desc, c) ==
  LET q     == Searched(p, RequiredBlocks(c))
      start == FindContinuousFreeBlock(q, RequiredBlocks(c))
  IN  IF Rejected(p, c) THEN p
      ELSE IF start = NotFound THEN q
      ELSE Place(q, start, id, desc, c)

-----------------------------------------------------------------------------
NotErased(f, id) == f
Erased(f, id)    == Restrict(f, DOMAIN f \ {id})

(* FreeByMemoryId: the bytes of the blocks stay what they were. *)
FreeByMemoryId(p, id) ==
  LET e == p.memory_info[id]
  IN  [p EXCEPT
         !.used_map = @ \ Span(e),
         !.meta     = [b \in Blocks |-> IF b \in Span(e) THEN BlockMeta ELSE p.meta[b]],
         !.memory_info = Erased(@, id),
         !.memory_last_modified_time = @ \ {id},
         !.free_block_count = @ + e.second,
         !.next_search_pos  = IF e.first < @ THEN e.first ELSE @]

(* The console's in-place update overwrites the first blocks and, if the   *)
(* new content needs fewer than the memory has, gives the others back;     *)
(* next_search_pos is left alone.                                          *)
CeilBlocks(c) == (c.size + kBlockSize - 1) \div kBlockSize

CountForgotten(p, id, n) == [p EXCEPT !.memory_info[id].second = n]

UpdateMemoryBlockCount(p, id, n) ==
  [p EXCEPT !.memory_info[id].second = n,
            !.free_block_count = @ + (p.memory_info[id].second - n),
            !.memory_last_modified_time = @ \cup {id}]

ClearBlockMeta(p, S) ==
  [p EXCEPT !.used_map = @ \ S,
            !.meta = [b \in Blocks |-> IF b \in S THEN BlockMeta ELSE p.meta[b]]]

LastBlockForgotten(e, n) == e.first + n .. e.first + e.second - 2
GivenBack(e, n)          == e.first + n .. e.first + e.second - 1

OverwriteInPlace(p, id, c) ==
  LET e       == p.memory_info[id]
      n       == CeilBlocks(c)
      written == [p EXCEPT !.pool =
                    [b \in Blocks |->
                       IF b \in e.first .. e.first + n - 1
                       THEN Chunk(c, b - e.first) ELSE p.pool[b]]]
  IN  ClearBlockMeta(UpdateMemoryBlockCount(written, id, n), GivenBack(e, n))

-----------------------------------------------------------------------------
(* What a reader gets: the blocks of the entry up to the first zero byte,  *)
(* each with its position in the text.                                     *)
GetMemoryContentAsString(p, id) ==
  LET e        == p.memory_info[id]
      block(i) == p.pool[e.first + i]
      reached  == {i \in 0 .. e.second - 1 :
                     \A j \in 0 .. i - 1 : Filled(block(j)) = kBlockSize}
  IN  {<<i, block(i)>> : i \in {j \in reached : Filled(block(j)) > 0}}

(* The longest run of free blocks, which status and info report. *)
GetMaxContinuousFreeBlocks(p) ==
  Max({n \in 0 .. kBlockCount :
         \E i \in 0 .. kBlockCount - n : i .. (i + n - 1) \cap p.used_map = {}})

-----------------------------------------------------------------------------
(* What the methods, called one at a time, keep true of an object.         *)
Entries == [first : Blocks, second : 1 .. kBlockCount]
Metas   == [used : BOOLEAN, memory_id : Nat,
            description : Descriptions \cup {NoDescription}]

HasPoolType(p) ==
  /\ DOMAIN p = DOMAIN ResetPool
  /\ p.used_map \subseteq Blocks
  /\ p.meta \in [Blocks -> Metas]
  /\ p.free_block_count \in 0 .. kBlockCount
  /\ DOMAIN p.memory_info \subseteq Nat \ {0}
  /\ p.memory_info \in [DOMAIN p.memory_info -> Entries]
  /\ p.memory_last_modified_time \subseteq Nat
  /\ p.next_memory_id_counter \in Nat \ {0}
  /\ p.next_search_pos \in 0 .. kBlockCount
  /\ p.pool \in [Blocks -> Chunks]

OwnsItsBlocks(p) ==
  \A id \in DOMAIN p.memory_info :
    /\ Span(p.memory_info[id]) \subseteq p.used_map
    /\ \A b \in Span(p.memory_info[id]) : p.meta[b].used /\ p.meta[b].memory_id = id

LeaksNoBlock(p) ==
  /\ p.used_map \subseteq Owned(p)
  /\ \A b \in Blocks : p.meta[b].used => b \in p.used_map

CountsFreeBlocks(p) ==
  p.free_block_count = kBlockCount - Cardinality(p.used_map)

DescriptionOf(p, id) == p.meta[p.memory_info[id].first].description

DescribesEvenly(p) ==
  \A id \in DOMAIN p.memory_info : \A b \in Span(p.memory_info[id]) :
    p.meta[b].description = DescriptionOf(p, id)

HandsOutFreshIds(p) ==
  /\ \A id \in DOMAIN p.memory_info : id < p.next_memory_id_counter
  /\ p.memory_last_modified_time = DOMAIN p.memory_info

Consistent(p) ==
  /\ HasPoolType(p)
  /\ OwnsItsBlocks(p)
  /\ LeaksNoBlock(p)
  /\ CountsFreeBlocks(p)
  /\ DescribesEvenly(p)
  /\ HandsOutFreshIds(p)
=============================================================================
