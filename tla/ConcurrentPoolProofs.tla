------------------------ MODULE ConcurrentPoolProofs ------------------------
(***************************************************************************)
(* One writer and any number of readers: the pool between two requests is  *)
(* a pool of module SharedMemoryPool, and a READ is right unless a change  *)
(* of the map or of its own memory overlaps it.  What fails with a second  *)
(* writer is in the run of MemoriesAreDisjoint.                            *)
(***************************************************************************)
EXTENDS ConcurrentPool, PoolObjectProofs

OneWriter == \A t, u \in Writers : t = u

-----------------------------------------------------------------------------
(* How far a request r, begun on the pool b, has come.  What is freed and  *)
(* the id taken, AllocateBlock starts from Base and writes to Room, the    *)
(* same pool or the compacted one.                                         *)
Base(r, b) == IF r.op = "ALLOC" THEN GenerateNextMemoryId(b) ELSE FreeByMemoryId(b, r.id)
Room(r, b) == Searched(Base(r, b), RequiredBlocks(r.content))

Names(r, b) == r.id \in DOMAIN b.memory_info

Replaces(r, b) ==
  /\ r.op = "UPDATE" /\ r.content \in Contents
  /\ Names(r, b) /\ r.description = DescriptionOf(b, r.id)

Adds(r, b) ==
  /\ r.op = "ALLOC" /\ r.content \in Contents /\ r.description \in Descriptions
  /\ b.next_memory_id_counter <= MaxId

Allocates(r, b) ==
  \/ Replaces(r, b)
  \/ Adds(r, b) /\ r.id = b.next_memory_id_counter

Frees(r, b) ==
  /\ Replaces(r, b) \/ (r.op = "DELETE" /\ Names(r, b))
  /\ r.start = b.memory_info[r.id].first /\ r.n = b.memory_info[r.id].second

Places(r, b) ==
  /\ Allocates(r, b) /\ ~Rejected(Base(r, b), r.content)
  /\ r.n = RequiredBlocks(r.content)
  /\ r.start = FindContinuousFreeBlock(Room(r, b), r.n) /\ r.start # NotFound

(* The first k blocks of the request's run. *)
FirstOnes(r, k) == r.start .. r.start + k - 1

(* The entry is erased, the blocks are not yet counted. *)
EntryErased(r, b) ==
  [ClearBlockMeta(b, FirstOnes(r, r.n)) EXCEPT
     !.memory_info = Erased(@, r.id),
     !.memory_last_modified_time = @ \ {r.id}]

(* k blocks are written, and m of them are counted. *)
PartPlaced(r, q, k, m) ==
  [q EXCEPT
     !.pool     = [b \in Blocks |-> IF b \in FirstOnes(r, k)
                                    THEN Chunk(r.content, b - r.start) ELSE q.pool[b]],
     !.meta     = [b \in Blocks |-> IF b \in FirstOnes(r, k)
                                    THEN [used |-> TRUE, memory_id |-> r.id,
                                          description |-> r.description]
                                    ELSE q.meta[b]],
     !.used_map = @ \cup FirstOnes(r, k),
     !.free_block_count = @ - m,
     !.next_search_pos  = r.start + r.n]

ReadSteps   == {"find entry", "read entry", "read bytes", "find again", "header entry",
                "header", "find time", "read time"}
BeforeWrite == {"take id", "count id", "look up", "fetch entry", "describe", "find",
                "list", "row"} \cup ReadSteps

(* p is the pool at the step the request is about to take. *)
Underway(r, b, p) ==
  /\ r.at \in BeforeWrite \cup {"idle", "clear block", "erase", "read count", "give back",
                                "check size", "search", "write block", "count block", "record"}
  /\ r.at \in BeforeWrite => p = b
  /\ r.at \in {"take id", "count id"} => Adds(r, b)
  /\ r.at = "count id" => r.id = b.next_memory_id_counter
  /\ r.at \in {"look up", "fetch entry", "describe"} => r.op = "UPDATE" /\ r.content \in Contents
  /\ r.at \in {"fetch entry", "describe", "row"} => Names(r, b)
  /\ r.at = "describe" => r.start = b.memory_info[r.id].first
  /\ r.at = "find" => Replaces(r, b) \/ r.op = "DELETE"
  /\ r.at \in {"clear block", "erase", "read count", "give back"} => Frees(r, b)
  /\ r.at \in {"clear block", "write block", "count block"} => r.i \in 0 .. r.n - 1
  /\ r.at = "clear block" => p = ClearBlockMeta(b, FirstOnes(r, r.i))
  /\ r.at = "erase" => p = ClearBlockMeta(b, FirstOnes(r, r.n))
  /\ r.at \in {"read count", "give back"} => p = EntryErased(r, b)
  /\ r.at = "give back" => r.seen = p.free_block_count
  /\ r.at \in {"check size", "search"} => Allocates(r, b) /\ p = Base(r, b)
  /\ r.at = "search" => ~Rejected(Base(r, b), r.content)
  /\ r.at \in {"write block", "count block", "record"} => Places(r, b)
  /\ r.at = "write block" => p = PartPlaced(r, Room(r, b), r.i, r.i)
  /\ r.at = "count block" => /\ p = PartPlaced(r, Room(r, b), r.i + 1, r.i)
                             /\ r.seen = p.free_block_count
  /\ r.at = "record" => p = PartPlaced(r, Room(r, b), r.n, r.n)

(* What a request may have done to the pool when it ends. *)
Performed(b, q) ==
  \/ \E d \in Descriptions, c \in Contents :
       /\ b.next_memory_id_counter <= MaxId
       /\ q = AllocateBlock(GenerateNextMemoryId(b), b.next_memory_id_counter, d, c)
  \/ \E id \in DOMAIN b.memory_info : q = FreeByMemoryId(b, id)
  \/ \E id \in DOMAIN b.memory_info, c \in Contents :
       q = AllocateBlock(FreeByMemoryId(b, id), id, DescriptionOf(b, id), c)

Sound(p) == Consistent(p) /\ p = [f \in DOMAIN ResetPool |-> p[f]]

ThreadsTyped ==
  /\ th = [t \in Threads |-> th[t]]
  /\ \A t \in Threads : DOMAIN th[t] = DOMAIN Idle

OneWriterInv ==
  /\ ThreadsTyped
  /\ \A t \in Readers : th[t].at \in ReadSteps \cup {"idle", "lost"}
  /\ \A t \in Writers : Underway(th[t], before, smp) /\ t \notin dangling
  /\ Sound(Committed)

-----------------------------------------------------------------------------
(* The fields make the object. *)
LEMMA SamePool ==
  ASSUME NEW p, p = [f \in DOMAIN ResetPool |-> p[f]],
         NEW q, q = [f \in DOMAIN ResetPool |-> q[f]],
         p.used_map = q.used_map, p.meta = q.meta, p.free_block_count = q.free_block_count,
         p.memory_info = q.memory_info,
         p.memory_last_modified_time = q.memory_last_modified_time,
         p.next_memory_id_counter = q.next_memory_id_counter,
         p.next_search_pos = q.next_search_pos, p.pool = q.pool
  PROVE  p = q
<1>1. \A f \in DOMAIN ResetPool : p[f] = q[f]
  BY PoolFields
<1> QED
  BY <1>1

LEMMA ClearFields ==
  ASSUME NEW p, DOMAIN p = DOMAIN ResetPool, NEW S
  PROVE  LET q == ClearBlockMeta(p, S)
         IN  /\ q = [f \in DOMAIN ResetPool |-> q[f]]
             /\ q.used_map = p.used_map \ S
             /\ q.meta = [b \in Blocks |-> IF b \in S THEN BlockMeta ELSE p.meta[b]]
             /\ q.free_block_count = p.free_block_count /\ q.memory_info = p.memory_info
             /\ q.memory_last_modified_time = p.memory_last_modified_time
             /\ q.next_memory_id_counter = p.next_memory_id_counter
             /\ q.next_search_pos = p.next_search_pos /\ q.pool = p.pool
  BY PoolFields DEF ClearBlockMeta

(* The loop of FreeByMemoryId: the blocks cleared one by one are cleared.  *)
LEMMA ClearMore ==
  ASSUME NEW p, DOMAIN p = DOMAIN ResetPool, NEW S, NEW T
  PROVE  ClearBlockMeta(ClearBlockMeta(p, S), T) = ClearBlockMeta(p, S \cup T)
<1> DEFINE q == ClearBlockMeta(p, S)
           u == ClearBlockMeta(q, T)
           v == ClearBlockMeta(p, S \cup T)
<1>1. /\ q = [f \in DOMAIN ResetPool |-> q[f]]
      /\ q.used_map = p.used_map \ S
      /\ q.meta = [b \in Blocks |-> IF b \in S THEN BlockMeta ELSE p.meta[b]]
      /\ q.free_block_count = p.free_block_count /\ q.memory_info = p.memory_info
      /\ q.memory_last_modified_time = p.memory_last_modified_time
      /\ q.next_memory_id_counter = p.next_memory_id_counter
      /\ q.next_search_pos = p.next_search_pos /\ q.pool = p.pool
  BY ClearFields
<1> HIDE DEF q
<1>2. /\ u = [f \in DOMAIN ResetPool |-> u[f]]
      /\ u.used_map = q.used_map \ T
      /\ u.meta = [b \in Blocks |-> IF b \in T THEN BlockMeta ELSE q.meta[b]]
      /\ u.free_block_count = q.free_block_count /\ u.memory_info = q.memory_info
      /\ u.memory_last_modified_time = q.memory_last_modified_time
      /\ u.next_memory_id_counter = q.next_memory_id_counter
      /\ u.next_search_pos = q.next_search_pos /\ u.pool = q.pool
  BY <1>1, ClearFields
<1>3. /\ v = [f \in DOMAIN ResetPool |-> v[f]]
      /\ v.used_map = p.used_map \ (S \cup T)
      /\ v.meta = [b \in Blocks |-> IF b \in S \cup T THEN BlockMeta ELSE p.meta[b]]
      /\ v.free_block_count = p.free_block_count /\ v.memory_info = p.memory_info
      /\ v.memory_last_modified_time = p.memory_last_modified_time
      /\ v.next_memory_id_counter = p.next_memory_id_counter
      /\ v.next_search_pos = p.next_search_pos /\ v.pool = p.pool
  BY ClearFields
<1> HIDE DEF u, v
<1>4. u.used_map = v.used_map
  BY <1>1, <1>2, <1>3
<1>5. u.meta = v.meta
  BY <1>1, <1>2, <1>3
<1>6. u = v
  BY <1>1, <1>2, <1>3, <1>4, <1>5, SamePool
<1> QED
  BY <1>6 DEF u, v, q

(* Its steps together. *)
LEMMA FreedInSteps ==
  ASSUME NEW b, Consistent(b), NEW r, Frees(r, b)
  PROVE  LET p == EntryErased(r, b)
         IN  [p EXCEPT !.free_block_count = p.free_block_count + r.n,
                       !.next_search_pos  = IF r.start < @ THEN r.start ELSE @]
               = FreeByMemoryId(b, r.id)
<1> DEFINE S == FirstOnes(r, r.n)
           c == ClearBlockMeta(b, S)
           p == EntryErased(r, b)
           u == [p EXCEPT !.free_block_count = p.free_block_count + r.n,
                          !.next_search_pos  = IF r.start < @ THEN r.start ELSE @]
           v == FreeByMemoryId(b, r.id)
           e == b.memory_info[r.id]
<1>1. HasPoolType(b) /\ r.id \in DOMAIN b.memory_info /\ DOMAIN b = DOMAIN ResetPool
  BY DEF Consistent, HasPoolType, Frees, Replaces, Names
<1>2. S = Span(e) /\ r.start = e.first /\ r.n = e.second
  BY DEF Frees, FirstOnes, Span
<1>3. /\ DOMAIN v = DOMAIN b
      /\ v.used_map = b.used_map \ Span(e)
      /\ v.meta = [x \in Blocks |-> IF x \in Span(e) THEN BlockMeta ELSE b.meta[x]]
      /\ v.memory_info = [x \in DOMAIN b.memory_info \ {r.id} |-> b.memory_info[x]]
      /\ v.memory_last_modified_time = b.memory_last_modified_time \ {r.id}
      /\ v.free_block_count = b.free_block_count + e.second
      /\ v.next_memory_id_counter = b.next_memory_id_counter
      /\ v.next_search_pos = IF e.first < b.next_search_pos THEN e.first ELSE b.next_search_pos
      /\ v.pool = b.pool
  BY <1>1, FreeFields
<1>4. v = [f \in DOMAIN ResetPool |-> v[f]]
  BY <1>1 DEF FreeByMemoryId
<1>5. /\ c = [f \in DOMAIN ResetPool |-> c[f]]
      /\ c.used_map = b.used_map \ S
      /\ c.meta = [x \in Blocks |-> IF x \in S THEN BlockMeta ELSE b.meta[x]]
      /\ c.free_block_count = b.free_block_count /\ c.memory_info = b.memory_info
      /\ c.memory_last_modified_time = b.memory_last_modified_time
      /\ c.next_memory_id_counter = b.next_memory_id_counter
      /\ c.next_search_pos = b.next_search_pos /\ c.pool = b.pool
  BY <1>1, ClearFields
<1>6. p = [c EXCEPT !.memory_info = [x \in DOMAIN c.memory_info \ {r.id} |-> c.memory_info[x]],
                    !.memory_last_modified_time = c.memory_last_modified_time \ {r.id}]
  BY DEF EntryErased, Erased, Restrict
<1> HIDE DEF c, S, v
<1>7. /\ DOMAIN p = DOMAIN ResetPool
      /\ p.used_map = c.used_map /\ p.meta = c.meta /\ p.pool = c.pool
      /\ p.free_block_count = c.free_block_count /\ p.next_search_pos = c.next_search_pos
      /\ p.next_memory_id_counter = c.next_memory_id_counter
      /\ p.memory_info = [x \in DOMAIN c.memory_info \ {r.id} |-> c.memory_info[x]]
      /\ p.memory_last_modified_time = c.memory_last_modified_time \ {r.id}
  BY <1>5, <1>6, PoolFields
<1> HIDE DEF p
<1>8. /\ u = [f \in DOMAIN ResetPool |-> u[f]]
      /\ u.used_map = p.used_map /\ u.meta = p.meta /\ u.pool = p.pool
      /\ u.free_block_count = p.free_block_count + r.n
      /\ u.next_search_pos = IF r.start < p.next_search_pos THEN r.start ELSE p.next_search_pos
      /\ u.next_memory_id_counter = p.next_memory_id_counter
      /\ u.memory_info = p.memory_info
      /\ u.memory_last_modified_time = p.memory_last_modified_time
  BY <1>7, PoolFields
<1> HIDE DEF u
<1> HIDE DEF e
<1>9. u.used_map = v.used_map /\ u.meta = v.meta /\ u.memory_info = v.memory_info
  BY <1>2, <1>3, <1>5, <1>7, <1>8
<1>10. /\ u.free_block_count = v.free_block_count /\ u.next_search_pos = v.next_search_pos
       /\ u.next_memory_id_counter = v.next_memory_id_counter /\ u.pool = v.pool
       /\ u.memory_last_modified_time = v.memory_last_modified_time
  BY <1>2, <1>3, <1>5, <1>7, <1>8
<1>11. u = v
  BY <1>4, <1>8, <1>9, <1>10, SamePool
<1> QED
  BY <1>11 DEF u, v, p

-----------------------------------------------------------------------------
LEMMA PartFields ==
  ASSUME NEW q, DOMAIN q = DOMAIN ResetPool, NEW r, NEW k, NEW m
  PROVE  LET p == PartPlaced(r, q, k, m)
         IN  /\ p = [f \in DOMAIN ResetPool |-> p[f]]
             /\ p.pool = [b \in Blocks |-> IF b \in FirstOnes(r, k)
                                           THEN Chunk(r.content, b - r.start) ELSE q.pool[b]]
             /\ p.meta = [b \in Blocks |-> IF b \in FirstOnes(r, k)
                                           THEN [used |-> TRUE, memory_id |-> r.id,
                                                 description |-> r.description]
                                           ELSE q.meta[b]]
             /\ p.used_map = q.used_map \cup FirstOnes(r, k)
             /\ p.free_block_count = q.free_block_count - m
             /\ p.memory_info = q.memory_info
             /\ p.memory_last_modified_time = q.memory_last_modified_time
             /\ p.next_memory_id_counter = q.next_memory_id_counter
             /\ p.next_search_pos = r.start + r.n
  BY PoolFields DEF PartPlaced

(* The loop of AllocateBlock begins, *)
LEMMA NothingPlaced ==
  ASSUME NEW q, HasPoolType(q), NEW r, r.start \in Nat
  PROVE  [q EXCEPT !.next_search_pos = r.start + r.n] = PartPlaced(r, q, 0, 0)
<1> DEFINE u == [q EXCEPT !.next_search_pos = r.start + r.n]
           v == PartPlaced(r, q, 0, 0)
<1>1. /\ DOMAIN q = DOMAIN ResetPool /\ q.free_block_count \in Nat
      /\ q.pool = [b \in Blocks |-> q.pool[b]] /\ q.meta = [b \in Blocks |-> q.meta[b]]
  BY PoolAssumption DEF HasPoolType
<1>2. FirstOnes(r, 0) = {}
  BY DEF FirstOnes
<1>3. /\ v = [f \in DOMAIN ResetPool |-> v[f]]
      /\ v.pool = [b \in Blocks |-> IF b \in FirstOnes(r, 0)
                                    THEN Chunk(r.content, b - r.start) ELSE q.pool[b]]
      /\ v.meta = [b \in Blocks |-> IF b \in FirstOnes(r, 0)
                                    THEN [used |-> TRUE, memory_id |-> r.id,
                                          description |-> r.description]
                                    ELSE q.meta[b]]
      /\ v.used_map = q.used_map \cup FirstOnes(r, 0)
      /\ v.free_block_count = q.free_block_count - 0
      /\ v.memory_info = q.memory_info
      /\ v.memory_last_modified_time = q.memory_last_modified_time
      /\ v.next_memory_id_counter = q.next_memory_id_counter
      /\ v.next_search_pos = r.start + r.n
  BY <1>1, PartFields
<1>4. /\ u = [f \in DOMAIN ResetPool |-> u[f]]
      /\ u.pool = q.pool /\ u.meta = q.meta /\ u.used_map = q.used_map
      /\ u.free_block_count = q.free_block_count /\ u.memory_info = q.memory_info
      /\ u.memory_last_modified_time = q.memory_last_modified_time
      /\ u.next_memory_id_counter = q.next_memory_id_counter
      /\ u.next_search_pos = r.start + r.n
  BY <1>1, PoolFields
<1> HIDE DEF u, v
<1>5. u.pool = v.pool
  BY <1>1, <1>2, <1>3, <1>4
<1>6. u.meta = v.meta
  BY <1>1, <1>2, <1>3, <1>4
<1>7. u.used_map = v.used_map
  BY <1>2, <1>3, <1>4
<1>9. u.free_block_count = v.free_block_count
  BY <1>1, <1>3, <1>4
<1>8. u = v
  BY <1>3, <1>4, <1>5, <1>6, <1>7, <1>9, SamePool
<1> QED
  BY <1>8 DEF u, v

(* writes a block, *)
LEMMA BlockPlaced ==
  ASSUME NEW q, HasPoolType(q), NEW r, r.start \in Nat, NEW k \in Nat,
         NEW b \in Blocks, b = r.start + k, NEW p, p = PartPlaced(r, q, k, k),
         NEW u, u = [f \in DOMAIN ResetPool |-> u[f]],
         u.pool = [p.pool EXCEPT ![b] = Chunk(r.content, k)],
         u.meta = [p.meta EXCEPT ![b] = [used |-> TRUE, memory_id |-> r.id,
                                         description |-> r.description]],
         u.used_map = p.used_map \cup {b},
         u.free_block_count = p.free_block_count, u.memory_info = p.memory_info,
         u.memory_last_modified_time = p.memory_last_modified_time,
         u.next_memory_id_counter = p.next_memory_id_counter,
         u.next_search_pos = p.next_search_pos
  PROVE  u = PartPlaced(r, q, k + 1, k)
<1> DEFINE mine == [used |-> TRUE, memory_id |-> r.id, description |-> r.description]
           v == PartPlaced(r, q, k + 1, k)
<1>1. DOMAIN q = DOMAIN ResetPool
  BY DEF HasPoolType
<1>2. /\ \A x : x \in FirstOnes(r, k + 1) <=> x \in FirstOnes(r, k) \/ x = b
      /\ b \notin FirstOnes(r, k) /\ b - r.start = k
  BY DEF FirstOnes
<1>3. /\ p = [f \in DOMAIN ResetPool |-> p[f]]
      /\ p.pool = [x \in Blocks |-> IF x \in FirstOnes(r, k)
                                    THEN Chunk(r.content, x - r.start) ELSE q.pool[x]]
      /\ p.meta = [x \in Blocks |-> IF x \in FirstOnes(r, k) THEN mine ELSE q.meta[x]]
      /\ p.used_map = q.used_map \cup FirstOnes(r, k)
      /\ p.free_block_count = q.free_block_count - k
      /\ p.memory_info = q.memory_info
      /\ p.memory_last_modified_time = q.memory_last_modified_time
      /\ p.next_memory_id_counter = q.next_memory_id_counter
      /\ p.next_search_pos = r.start + r.n
  BY <1>1, PartFields
<1>4. /\ v = [f \in DOMAIN ResetPool |-> v[f]]
      /\ v.pool = [x \in Blocks |-> IF x \in FirstOnes(r, k + 1)
                                    THEN Chunk(r.content, x - r.start) ELSE q.pool[x]]
      /\ v.meta = [x \in Blocks |-> IF x \in FirstOnes(r, k + 1) THEN mine ELSE q.meta[x]]
      /\ v.used_map = q.used_map \cup FirstOnes(r, k + 1)
      /\ v.free_block_count = q.free_block_count - k
      /\ v.memory_info = q.memory_info
      /\ v.memory_last_modified_time = q.memory_last_modified_time
      /\ v.next_memory_id_counter = q.next_memory_id_counter
      /\ v.next_search_pos = r.start + r.n
  BY <1>1, PartFields
<1>5. u.meta = [p.meta EXCEPT ![b] = mine]
  OBVIOUS
<1> HIDE DEF v, mine
<1>6. u.pool = v.pool
  <2>1. p.pool = [x \in Blocks |-> p.pool[x]]
    BY <1>3
  <2>2. [p.pool EXCEPT ![b] = Chunk(r.content, k)]
          = [x \in Blocks |-> IF x = b THEN Chunk(r.content, k) ELSE p.pool[x]]
    BY <2>1
  <2>3. ASSUME NEW x \in Blocks
        PROVE  (IF x = b THEN Chunk(r.content, k) ELSE p.pool[x])
                 = IF x \in FirstOnes(r, k + 1) THEN Chunk(r.content, x - r.start) ELSE q.pool[x]
    BY <1>2, <1>3
  <2> QED
    BY <1>4, <2>2, <2>3
<1>7. u.meta = v.meta
  <2>1. p.meta = [x \in Blocks |-> p.meta[x]]
    BY <1>3
  <2>2. [p.meta EXCEPT ![b] = mine] = [x \in Blocks |-> IF x = b THEN mine ELSE p.meta[x]]
    BY <2>1
  <2>3. ASSUME NEW x \in Blocks
        PROVE  (IF x = b THEN mine ELSE p.meta[x])
                 = IF x \in FirstOnes(r, k + 1) THEN mine ELSE q.meta[x]
    BY <1>2, <1>3
  <2> QED
    BY <1>4, <1>5, <2>2, <2>3
<1>8. u.used_map = v.used_map
  BY <1>2, <1>3, <1>4
<1>9. u = v
  BY <1>3, <1>4, <1>6, <1>7, <1>8, SamePool
<1> QED
  BY <1>9 DEF v

(* counts it, *)
LEMMA BlockCounted ==
  ASSUME NEW q, HasPoolType(q), NEW r, NEW k \in Nat
  PROVE  LET p == PartPlaced(r, q, k + 1, k)
         IN  [p EXCEPT !.free_block_count = p.free_block_count - 1]
               = PartPlaced(r, q, k + 1, k + 1)
<1> DEFINE p == PartPlaced(r, q, k + 1, k)
           v == PartPlaced(r, q, k + 1, k + 1)
<1>1. DOMAIN q = DOMAIN ResetPool /\ q.free_block_count \in Nat
  BY PoolAssumption DEF HasPoolType
<1>2. v = [p EXCEPT !.free_block_count = q.free_block_count - (k + 1)]
  BY <1>1, PoolFields DEF PartPlaced
<1>3. p.free_block_count = q.free_block_count - k
  BY <1>1, PoolFields DEF PartPlaced
<1>4. p.free_block_count - 1 = q.free_block_count - (k + 1)
  BY <1>1, <1>3
<1> QED
  BY <1>2, <1>4

(* and has placed the whole content when the entry is recorded. *)
LEMMA PlacedInSteps ==
  ASSUME NEW q, HasPoolType(q), NEW r, r.n = RequiredBlocks(r.content)
  PROVE  LET p == PartPlaced(r, q, r.n, r.n)
             e == [first |-> r.start, second |-> r.n]
         IN  [p EXCEPT !.memory_info = [x \in DOMAIN @ \cup {r.id} |->
                                          IF x = r.id THEN e ELSE p.memory_info[x]],
                       !.memory_last_modified_time = @ \cup {r.id}]
               = Place(q, r.start, r.id, r.description, r.content)
<1> DEFINE p == PartPlaced(r, q, r.n, r.n)
           e == [first |-> r.start, second |-> r.n]
           u == [p EXCEPT !.memory_info = [x \in DOMAIN @ \cup {r.id} |->
                                             IF x = r.id THEN e ELSE p.memory_info[x]],
                          !.memory_last_modified_time = @ \cup {r.id}]
           v == Place(q, r.start, r.id, r.description, r.content)
           mine == [used |-> TRUE, memory_id |-> r.id, description |-> r.description]
<1>1. DOMAIN q = DOMAIN ResetPool
  BY DEF HasPoolType
<1>2. Span(e) = FirstOnes(r, r.n) /\ e.second = r.n
  BY DEF Span, FirstOnes
<1>3. /\ p = [f \in DOMAIN ResetPool |-> p[f]]
      /\ p.pool = [x \in Blocks |-> IF x \in FirstOnes(r, r.n)
                                    THEN Chunk(r.content, x - r.start) ELSE q.pool[x]]
      /\ p.meta = [x \in Blocks |-> IF x \in FirstOnes(r, r.n) THEN mine ELSE q.meta[x]]
      /\ p.used_map = q.used_map \cup FirstOnes(r, r.n)
      /\ p.free_block_count = q.free_block_count - r.n
      /\ p.memory_info = q.memory_info
      /\ p.memory_last_modified_time = q.memory_last_modified_time
      /\ p.next_memory_id_counter = q.next_memory_id_counter
      /\ p.next_search_pos = r.start + r.n
  BY <1>1, PartFields
<1>4. v = [q EXCEPT
             !.pool     = [x \in Blocks |-> IF x \in Span(e)
                                            THEN Chunk(r.content, x - r.start) ELSE q.pool[x]],
             !.meta     = [x \in Blocks |-> IF x \in Span(e) THEN mine ELSE q.meta[x]],
             !.used_map = q.used_map \cup Span(e),
             !.free_block_count = q.free_block_count - e.second,
             !.memory_info = [x \in DOMAIN q.memory_info \cup {r.id} |->
                                IF x = r.id THEN e ELSE q.memory_info[x]],
             !.memory_last_modified_time = q.memory_last_modified_time \cup {r.id},
             !.next_search_pos = r.start + e.second]
  BY DEF Place
<1> HIDE DEF p, v, mine, e
<1>5. /\ v = [f \in DOMAIN ResetPool |-> v[f]]
      /\ v.pool = [x \in Blocks |-> IF x \in Span(e)
                                    THEN Chunk(r.content, x - r.start) ELSE q.pool[x]]
      /\ v.meta = [x \in Blocks |-> IF x \in Span(e) THEN mine ELSE q.meta[x]]
      /\ v.used_map = q.used_map \cup Span(e)
      /\ v.free_block_count = q.free_block_count - e.second
      /\ v.memory_info = [x \in DOMAIN q.memory_info \cup {r.id} |->
                            IF x = r.id THEN e ELSE q.memory_info[x]]
      /\ v.memory_last_modified_time = q.memory_last_modified_time \cup {r.id}
      /\ v.next_memory_id_counter = q.next_memory_id_counter
      /\ v.next_search_pos = r.start + e.second
  BY <1>1, <1>4, PoolFields
<1>6. /\ u = [f \in DOMAIN ResetPool |-> u[f]]
      /\ u.pool = p.pool /\ u.meta = p.meta /\ u.used_map = p.used_map
      /\ u.free_block_count = p.free_block_count
      /\ u.memory_info = [x \in DOMAIN p.memory_info \cup {r.id} |->
                            IF x = r.id THEN e ELSE p.memory_info[x]]
      /\ u.memory_last_modified_time = p.memory_last_modified_time \cup {r.id}
      /\ u.next_memory_id_counter = p.next_memory_id_counter
      /\ u.next_search_pos = p.next_search_pos
  BY <1>3, PoolFields
<1> HIDE DEF u
<1>7. u.pool = v.pool
  BY <1>2, <1>3, <1>5, <1>6
<1>8. u.meta = v.meta
  BY <1>2, <1>3, <1>5, <1>6
<1>9. u.used_map = v.used_map
  BY <1>2, <1>3, <1>5, <1>6
<1>12. u.memory_info = v.memory_info
  <2>1. p.memory_info = q.memory_info
    BY <1>3
  <2> QED
    BY <1>5, <1>6, <2>1
<1>10. /\ u.free_block_count = v.free_block_count /\ u.next_search_pos = v.next_search_pos
       /\ u.next_memory_id_counter = v.next_memory_id_counter
       /\ u.memory_last_modified_time = v.memory_last_modified_time
  BY <1>2, <1>3, <1>5, <1>6
<1>11. u = v
  BY <1>5, <1>6, <1>7, <1>8, <1>9, <1>10, <1>12, SamePool
<1> QED
  BY <1>11 DEF u, v, p, e

-----------------------------------------------------------------------------
(* What a step does to the local variables of its thread. *)
SameCall(s, r) == /\ s.op = r.op /\ s.id = r.id /\ s.content = r.content
                  /\ s.description = r.description
SameRun(s, r)  == s.start = r.start /\ s.n = r.n

LEMMA ContinueFacts ==
  ASSUME ThreadsTyped, NEW t \in Threads, NEW r, DOMAIN r = DOMAIN Idle, NEW step,
         Continue(t, r, step)
  PROVE  /\ ThreadsTyped'
         /\ \A u \in Threads \ {t} : th'[u] = th[u]
         /\ th'[t].at = step
         /\ step # "idle" => SameCall(th'[t], r) /\ SameRun(th'[t], r)
                               /\ th'[t].i = r.i /\ th'[t].seen = r.seen
                               /\ th'[t].text = r.text
<1>1. DOMAIN Idle = {"at", "op", "id", "content", "description", "start", "n", "i", "seen", "text"}
      /\ Idle.at = "idle"
  BY DEF Idle
<1> DEFINE s == IF step = "idle" THEN Idle ELSE [r EXCEPT !.at = step]
<1>2. DOMAIN s = DOMAIN Idle /\ s.at = step
  BY <1>1
<1>3. step # "idle" => /\ SameCall(s, r) /\ SameRun(s, r) /\ s.i = r.i /\ s.seen = r.seen
                       /\ s.text = r.text
  BY <1>1 DEF SameCall, SameRun
<1>4. th' = [th EXCEPT ![t] = s]
  BY DEF Continue
<1> HIDE DEF s
<1>5. th' = [u \in Threads |-> IF u = t THEN s ELSE th[u]]
  BY <1>4 DEF ThreadsTyped
<1>6. ThreadsTyped'
  BY <1>2, <1>5 DEF ThreadsTyped
<1> QED
  BY <1>2, <1>3, <1>5, <1>6

LEMMA GoesOn ==
  ASSUME ThreadsTyped, NEW t \in Threads, NEW r, DOMAIN r = DOMAIN Idle, NEW step,
         Continue(t, r, step), step # "idle"
  PROVE  /\ th'[t].at = step /\ SameCall(th'[t], r) /\ SameRun(th'[t], r)
         /\ th'[t].i = r.i /\ th'[t].seen = r.seen
  BY ContinueFacts

LEMMA SameRequest ==
  ASSUME NEW r, NEW s, SameCall(s, r), NEW b
  PROVE  /\ Base(s, b) = Base(r, b) /\ Room(s, b) = Room(r, b)
         /\ Names(s, b) <=> Names(r, b)
         /\ Replaces(s, b) <=> Replaces(r, b)
         /\ Adds(s, b) <=> Adds(r, b)
         /\ Allocates(s, b) <=> Allocates(r, b)
         /\ SameRun(s, r) =>
              /\ Frees(s, b) <=> Frees(r, b)
              /\ Places(s, b) <=> Places(r, b)
              /\ EntryErased(s, b) = EntryErased(r, b)
              /\ \A k : FirstOnes(s, k) = FirstOnes(r, k)
              /\ \A q, k, m : PartPlaced(s, q, k, m) = PartPlaced(r, q, k, m)
<1>1. Base(s, b) = Base(r, b) /\ Room(s, b) = Room(r, b)
  BY DEF Base, Room, SameCall
<1>2. /\ Names(s, b) <=> Names(r, b)
      /\ Replaces(s, b) <=> Replaces(r, b)
      /\ Adds(s, b) <=> Adds(r, b)
  BY DEF Names, Replaces, Adds, SameCall
<1>3. Allocates(s, b) <=> Allocates(r, b)
  BY <1>2 DEF Allocates, SameCall
<1>4. ASSUME SameRun(s, r)
      PROVE  /\ Frees(s, b) <=> Frees(r, b)
             /\ Places(s, b) <=> Places(r, b)
             /\ EntryErased(s, b) = EntryErased(r, b)
             /\ \A k : FirstOnes(s, k) = FirstOnes(r, k)
             /\ \A q, k, m : PartPlaced(s, q, k, m) = PartPlaced(r, q, k, m)
  <2>1. \A k : FirstOnes(s, k) = FirstOnes(r, k)
    BY <1>4 DEF FirstOnes, SameRun
  <2>2. Frees(s, b) <=> Frees(r, b)
    BY <1>2, <1>4 DEF Frees, SameCall, SameRun
  <2>3. Places(s, b) <=> Places(r, b)
    BY <1>1, <1>3, <1>4 DEF Places, SameCall, SameRun
  <2>4. EntryErased(s, b) = EntryErased(r, b)
    BY <1>4, <2>1 DEF EntryErased, SameCall, SameRun
  <2>5. ASSUME NEW q, NEW k, NEW m PROVE PartPlaced(s, q, k, m) = PartPlaced(r, q, k, m)
    <3>1. FirstOnes(s, k) = FirstOnes(r, k) /\ s.start = r.start /\ s.n = r.n /\ s.id = r.id
          /\ s.content = r.content /\ s.description = r.description
      BY <1>4, <2>1 DEF SameCall, SameRun
    <3> QED
      BY <3>1, Zenon DEF PartPlaced
  <2> QED
    BY <2>1, <2>2, <2>3, <2>4, <2>5
<1> QED
  BY <1>1, <1>2, <1>3, <1>4

(* What AllocateBlock starts from is consistent, has no memory of the id   *)
(* in it, and leads to the result of the whole request.                    *)
LEMMA BaseConsistent ==
  ASSUME NEW b, Consistent(b), NEW r, Allocates(r, b)
  PROVE  /\ Consistent(Base(r, b)) /\ Consistent(Room(r, b))
         /\ r.op \in {"ALLOC", "UPDATE"} /\ r.content \in Contents
         /\ Performed(b, AllocateBlock(Base(r, b), r.id, r.description, r.content))
<1>1. Consistent(Base(r, b))
  BY GenerateConsistent, FreeConsistent DEF Base, Allocates, Replaces, Adds, Names
<1>2. Consistent(Room(r, b))
  BY <1>1, CompactConsistent DEF Room, Searched
<1>3. CASE Replaces(r, b)
  BY <1>1, <1>2, <1>3 DEF Replaces, Names, Base, Performed
<1>4. CASE Adds(r, b) /\ r.id = b.next_memory_id_counter
  BY <1>1, <1>2, <1>4 DEF Adds, Base, Performed
<1> QED
  BY <1>3, <1>4 DEF Allocates

-----------------------------------------------------------------------------
(* A writer's step leaves the pool where the next step expects it; when it *)
(* is the last one, the whole request has been performed.                  *)
Advances(t) ==
  /\ Underway(th[t], before, smp)'
  /\ th'[t].at = "idle" => smp' = before \/ Performed(before, smp')

Ready(t) ==
  /\ ThreadsTyped /\ t \in Threads /\ t \notin dangling
  /\ Underway(th[t], before, smp) /\ Sound(before)

(* A set of numbers has a least one. *)
LEMMA LeastNumber ==
  ASSUME NEW S \in SUBSET Nat, S # {}
  PROVE  Min(S) \in S
<1>1. PICK x \in S : TRUE
  OBVIOUS
<1> DEFINE T == {k \in 0 .. x : x - k \in S}
<1>2. T \in SUBSET Nat /\ 0 \in T /\ x \in Nat /\ \A k \in T : k <= x /\ x - k \in S
  OBVIOUS
<1>3. \A y \in S : y <= x => x - y \in T /\ x - (x - y) = y
  OBVIOUS
<1> HIDE DEF T
<1>4. Max(T) \in T /\ \A k \in T : k <= Max(T)
  BY <1>2, GreatestOfBounded
<1>5. ASSUME NEW y \in S PROVE x - Max(T) <= y
  <2>1. y \in Nat /\ x \in Nat /\ Max(T) \in Nat
    BY <1>2, <1>4
  <2>2. y <= x => x - y <= Max(T)
    BY <1>3, <1>4
  <2> QED
    BY <2>1, <2>2
<1> QED
  BY <1>2, <1>4, <1>5 DEF Min

(* The steps of a READ. *)
Reading(t) ==
  \/ FindEntry(t) \/ ReadEntry(t) \/ ReadBytes(t) \/ FindAgain(t)
  \/ HeaderEntry(t) \/ ReadHeader(t) \/ FindTime(t) \/ ReadTime(t)

(* They leave the pool alone and lead to a step of a READ, to its end, or, *)
(* behind a dangling iterator, to nowhere.                                 *)
LEMMA ReadOn ==
  ASSUME ThreadsTyped, NEW t \in Threads, Reading(t)
  PROVE  /\ smp' = smp /\ before' = before /\ th[t].at \in ReadSteps
         /\ \E q, step : /\ DOMAIN q = DOMAIN Idle /\ Continue(t, q, step)
                         /\ step \in ReadSteps \cup {"idle", "lost"}
                         /\ step = "lost" => t \in dangling
                         /\ step # "idle" => q.id = th[t].id
<1> DEFINE r == th[t]
<1>1. DOMAIN r = DOMAIN Idle
  BY DEF ThreadsTyped
<1>2. DOMAIN Idle = {"at", "op", "id", "content", "description", "start", "n", "i", "seen", "text"}
  BY DEF Idle
<1> DEFINE copied(x) == [r EXCEPT !.start = 0, !.n = 0, !.text = x]
           headed(x) == [r EXCEPT !.description = x, !.start = 0, !.n = 0]
<1>3. /\ DOMAIN WithEntry(t) = DOMAIN Idle /\ WithEntry(t).id = r.id
      /\ \A x : DOMAIN copied(x) = DOMAIN Idle /\ copied(x).id = r.id
      /\ \A x : DOMAIN headed(x) = DOMAIN Idle /\ headed(x).id = r.id
  BY <1>1, <1>2 DEF WithEntry
<1>4. smp' = smp /\ before' = before /\ r.at \in ReadSteps
  BY DEF Reading, FindEntry, ReadEntry, ReadBytes, FindAgain, HeaderEntry, ReadHeader, FindTime,
         ReadTime, FindThen, Dereference, At, ReadSteps
<1>5. CASE FindEntry(t) \/ FindAgain(t) \/ FindTime(t)
  <2>1. \E step \in ReadSteps \cup {"idle"} : Continue(t, r, step)
    BY <1>5 DEF FindEntry, FindAgain, FindTime, FindThen, Goto, ReadSteps
  <2> QED
    BY <1>1, <1>4, <2>1 DEF ReadSteps
<1>6. CASE ReadEntry(t) \/ HeaderEntry(t) \/ ReadTime(t)
  <2>1. \/ t \in dangling /\ Continue(t, r, "lost")
        \/ \E step \in ReadSteps \cup {"idle"} :
             Continue(t, r, step) \/ Continue(t, WithEntry(t), step)
    BY <1>6 DEF ReadEntry, HeaderEntry, ReadTime, Dereference, Goto, ReadSteps
  <2> QED
    BY <1>1, <1>3, <1>4, <2>1 DEF ReadSteps
<1>7. CASE ReadBytes(t) \/ ReadHeader(t)
  <2>1. \/ \E x : \E step \in {"find again", "idle"} : Continue(t, copied(x), step)
        \/ \E x : Continue(t, headed(x), "find time")
    <3>1. CASE ReadBytes(t)
      BY <3>1 DEF ReadBytes
    <3>2. CASE ReadHeader(t)
      BY <3>2 DEF ReadHeader
    <3> QED
      BY <1>7, <3>1, <3>2
  <2> HIDE DEF copied, headed
  <2> QED
    BY <1>3, <1>4, <2>1 DEF ReadSteps
<1> QED
  BY <1>5, <1>6, <1>7 DEF Reading

LEMMA EndOfRequest ==
  ASSUME NEW r, r.at = "idle", NEW b, NEW p
  PROVE  Underway(r, b, p)
  BY DEF Underway, BeforeWrite, ReadSteps

(* The steps that come before the first write, and the readers' steps.     *)
LEMMA ReadingSteps ==
  ASSUME NEW t, Ready(t),
         \/ TakeId(t) \/ LookUp(t) \/ FetchEntry(t) \/ Describe(t) \/ Find(t)
         \/ Reading(t) \/ List(t) \/ Row(t)
  PROVE  Advances(t)
<1> DEFINE r == th[t]
           s == th'[t]
<1>1. /\ ThreadsTyped /\ t \in Threads /\ DOMAIN r = DOMAIN Idle
      /\ Underway(r, before, smp) /\ Consistent(before)
  BY DEF Ready, ThreadsTyped, Sound
<1>2. DOMAIN Idle = {"at", "op", "id", "content", "description", "start", "n", "i", "seen", "text"}
  BY DEF Idle
<1>3. smp' = smp /\ before' = before /\ r.at \in BeforeWrite
  BY <1>1, ReadOn DEF TakeId, LookUp, FetchEntry, Describe, Find, List, Row, At, BeforeWrite
<1>4. smp = before
  BY <1>1, <1>3 DEF Underway
<1>5. SUFFICES ASSUME s.at # "idle" PROVE Underway(s, before, before)
  BY <1>3, <1>4, EndOfRequest DEF Advances
<1>6. CASE TakeId(t)
  <2> DEFINE q == [r EXCEPT !.id = before.next_memory_id_counter]
  <2>1. Continue(t, q, "count id") /\ r.at = "take id"
    BY <1>4, <1>6 DEF TakeId, At
  <2>2. /\ DOMAIN q = DOMAIN Idle /\ q.id = before.next_memory_id_counter
        /\ q.op = r.op /\ q.content = r.content /\ q.description = r.description
    BY <1>1, <1>2
  <2> HIDE DEF q
  <2>3. s.at = "count id" /\ SameCall(s, q)
    BY <1>1, <2>1, <2>2, ContinueFacts
  <2>4. Adds(r, before)
    BY <1>1, <2>1 DEF Underway
  <2>5. Adds(s, before) /\ s.id = before.next_memory_id_counter
    BY <2>2, <2>3, <2>4 DEF Adds, SameCall
  <2> QED
    BY <2>3, <2>5 DEF Underway, BeforeWrite
<1>7. CASE LookUp(t)
  <2>1. /\ r.at = "look up"
        /\ Continue(t, r, IF r.id \in LiveIds THEN "fetch entry" ELSE "idle")
    BY <1>7 DEF LookUp, At, Goto
  <2>2. r.id \in LiveIds /\ s.at = "fetch entry" /\ SameCall(s, r)
    BY <1>1, <1>5, <2>1, ContinueFacts
  <2>3. r.op = "UPDATE" /\ r.content \in Contents
    BY <1>1, <2>1 DEF Underway
  <2> QED
    BY <1>4, <2>2, <2>3 DEF Underway, BeforeWrite, SameCall, Names, LiveIds
<1>8. CASE FetchEntry(t)
  <2>1. r.at = "fetch entry"
    BY <1>8 DEF FetchEntry, At
  <2>2. Names(r, before) /\ r.op = "UPDATE" /\ r.content \in Contents
    BY <1>1, <2>1 DEF Underway
  <2> DEFINE q == [r EXCEPT !.start = before.memory_info[r.id].first]
  <2>3. Continue(t, q, "describe")
    BY <1>4, <1>8, <2>2 DEF FetchEntry, Names, LiveIds
  <2>4. DOMAIN q = DOMAIN Idle /\ SameCall(q, r) /\ q.start = before.memory_info[r.id].first
    BY <1>1, <1>2 DEF SameCall
  <2> HIDE DEF q
  <2>5. s.at = "describe" /\ SameCall(s, q) /\ s.start = q.start
    BY <1>1, <2>3, <2>4, ContinueFacts DEF SameRun
  <2> QED
    BY <2>2, <2>4, <2>5 DEF Underway, BeforeWrite, SameCall, Names
<1>9. CASE Describe(t)
  <2>1. r.at = "describe"
    BY <1>9 DEF Describe, At
  <2>2. /\ Names(r, before) /\ r.op = "UPDATE" /\ r.content \in Contents
        /\ r.start = before.memory_info[r.id].first
    BY <1>1, <2>1 DEF Underway
  <2> DEFINE q == [r EXCEPT !.description = before.meta[r.start].description]
  <2>3. Continue(t, q, "find")
    BY <1>4, <1>9 DEF Describe
  <2>4. /\ DOMAIN q = DOMAIN Idle /\ q.op = r.op /\ q.id = r.id /\ q.content = r.content
        /\ q.description = before.meta[r.start].description
    BY <1>1, <1>2
  <2> HIDE DEF q
  <2>5. s.at = "find" /\ SameCall(s, q)
    BY <1>1, <2>3, <2>4, ContinueFacts
  <2>6. Replaces(s, before)
    BY <2>2, <2>4, <2>5 DEF Replaces, SameCall, Names, DescriptionOf
  <2> QED
    BY <2>5, <2>6 DEF Underway, BeforeWrite
<1>10. CASE Find(t)
  <2>1. r.at = "find"
    BY <1>10 DEF Find, At
  <2>2. Replaces(r, before) \/ r.op = "DELETE"
    BY <1>1, <2>1 DEF Underway
  <2>3. Names(r, before)
    <3>1. CASE r.id \notin LiveIds
      <4>1. AfterFree(t) = "idle"
        BY <1>4, <2>2, <3>1 DEF AfterFree, Replaces, Names, LiveIds
      <4>2. Continue(t, r, "idle")
        BY <1>10, <3>1, <4>1 DEF Find, Goto
      <4> QED
        BY <1>1, <1>5, <4>2, ContinueFacts
    <3> QED
      BY <1>4, <3>1 DEF Names, LiveIds
  <2> DEFINE e == before.memory_info[r.id]
             q == [r EXCEPT !.start = e.first, !.n = e.second, !.i = 0]
  <2>4. Continue(t, q, "clear block")
    BY <1>4, <1>10, <2>3 DEF Find, WithEntry, Names, LiveIds
  <2>5. /\ DOMAIN q = DOMAIN Idle /\ SameCall(q, r)
        /\ q.start = e.first /\ q.n = e.second /\ q.i = 0
    BY <1>1, <1>2 DEF SameCall
  <2> HIDE DEF q
  <2>13. DOMAIN q = DOMAIN Idle
    BY <2>5
  <2>12. s.at = "clear block" /\ SameCall(s, q) /\ SameRun(s, q) /\ s.i = q.i
    BY <1>1, <2>4, <2>13, GoesOn
  <2>6. s.at = "clear block" /\ SameCall(s, q) /\ SameRun(s, q) /\ s.i = 0
    BY <2>5, <2>12
  <2>7. Frees(s, before)
    BY <2>2, <2>3, <2>5, <2>6 DEF Frees, Replaces, Names, SameCall, SameRun
  <2>8. e \in Entries /\ HasPoolType(before)
    BY <1>1, <2>3 DEF Consistent, HasPoolType, Names
  <2>9. s.n >= 1 /\ s.n \in Nat /\ s.start \in Nat
    BY <2>5, <2>6, <2>8, SpanFacts DEF SameRun
  <2>10. s.i \in 0 .. s.n - 1 /\ FirstOnes(s, s.i) = {}
    <3>1. s.start .. s.start + 0 - 1 = {}
      BY <2>9
    <3>2. FirstOnes(s, 0) = {}
      BY <3>1 DEF FirstOnes
    <3>3. 0 \in 0 .. s.n - 1
      BY <2>9
    <3> QED
      BY <2>6, <3>2, <3>3
  <2>11. before = ClearBlockMeta(before, {})
    <3> DEFINE u == ClearBlockMeta(before, {})
    <3>1. /\ before = [f \in DOMAIN ResetPool |-> before[f]]
          /\ DOMAIN before = DOMAIN ResetPool
          /\ before.meta = [b \in Blocks |-> before.meta[b]]
      BY <2>8 DEF HasPoolType, Ready, Sound
    <3>2. /\ u = [f \in DOMAIN ResetPool |-> u[f]]
          /\ u.used_map = before.used_map \ {}
          /\ u.meta = [b \in Blocks |-> IF b \in {} THEN BlockMeta ELSE before.meta[b]]
          /\ u.free_block_count = before.free_block_count /\ u.memory_info = before.memory_info
          /\ u.memory_last_modified_time = before.memory_last_modified_time
          /\ u.next_memory_id_counter = before.next_memory_id_counter
          /\ u.next_search_pos = before.next_search_pos /\ u.pool = before.pool
      BY <3>1, ClearFields
    <3> HIDE DEF u
    <3>3. u.meta = before.meta
      BY <3>1, <3>2
    <3>4. u.used_map = before.used_map
      BY <3>2
    <3>5. before = u
      BY <3>1, <3>2, <3>3, <3>4, SamePool
    <3> QED
      BY <3>5 DEF u
  <2> QED
    BY <2>6, <2>7, <2>10, <2>11 DEF Underway, BeforeWrite
<1>11. CASE Reading(t)
  <2>1. PICK q, step : /\ DOMAIN q = DOMAIN Idle /\ Continue(t, q, step)
                       /\ step \in ReadSteps \cup {"idle", "lost"}
                       /\ step = "lost" => t \in dangling
    BY <1>1, <1>11, ReadOn
  <2>2. s.at \in ReadSteps
    BY <1>1, <1>5, <2>1, ContinueFacts DEF Ready
  <2> QED
    BY <2>2 DEF Underway, BeforeWrite, ReadSteps
<1>12. CASE List(t) \/ Row(t)
  <2>1. PICK ids : ids \subseteq LiveIds /\ ToFirst(t, ids)
    <3>1. r.at = "row" => Names(r, before)
      BY <1>1 DEF Underway
    <3> QED
      BY <1>4, <1>12, <3>1 DEF List, Row, At, Names, LiveIds
  <2> DEFINE q == [r EXCEPT !.id = Min(ids)]
  <2>2. ids # {} /\ Continue(t, q, "row")
    BY <1>1, <1>5, <2>1, ContinueFacts DEF ToFirst, Goto
  <2>3. DOMAIN q = DOMAIN Idle /\ q.id = Min(ids)
    BY <1>1, <1>2
  <2> HIDE DEF q
  <2>4. s.at = "row" /\ s.id = Min(ids)
    BY <1>1, <2>2, <2>3, ContinueFacts DEF SameCall
  <2>5. Min(ids) \in ids
    BY <1>1, <1>4, <2>1, <2>2, LeastNumber DEF Consistent, HasPoolType, LiveIds
  <2> QED
    BY <1>4, <2>1, <2>4, <2>5 DEF Underway, BeforeWrite, Names, LiveIds
<1> QED
  BY <1>6, <1>7, <1>8, <1>9, <1>10, <1>11, <1>12

(* The steps of FreeByMemoryId that write. *)
LEMMA FreeingSteps ==
  ASSUME NEW t, Ready(t), ClearBlock(t) \/ Erase(t) \/ ReadCount(t) \/ GiveBack(t)
  PROVE  Advances(t) /\ before' = before
<1> DEFINE r == th[t]
           s == th'[t]
<1>1. /\ ThreadsTyped /\ t \in Threads /\ DOMAIN r = DOMAIN Idle
      /\ Underway(r, before, smp) /\ Consistent(before)
  BY DEF Ready, ThreadsTyped, Sound
<1>2. DOMAIN Idle = {"at", "op", "id", "content", "description", "start", "n", "i", "seen", "text"}
  BY DEF Idle
<1>3. before' = before /\ r.at \in {"clear block", "erase", "read count", "give back"}
  BY DEF ClearBlock, Erase, ReadCount, GiveBack, At
<1>4. Frees(r, before)
  BY <1>1, <1>3 DEF Underway
<1>5. HasPoolType(before) /\ Names(r, before) /\ DOMAIN before = DOMAIN ResetPool
  BY <1>1, <1>4 DEF Consistent, HasPoolType, Frees, Replaces
<1>6. r.n \in Nat /\ r.n >= 1 /\ r.start \in Nat
  <2>1. before.memory_info[r.id] \in Entries
    BY <1>5 DEF HasPoolType, Names
  <2> QED
    BY <1>4, <2>1, SpanFacts DEF Frees
<1>7. CASE ClearBlock(t)
  <2>1. r.at = "clear block"
    BY <1>7 DEF ClearBlock, At
  <2>2. r.i \in 0 .. r.n - 1 /\ smp = ClearBlockMeta(before, FirstOnes(r, r.i))
    BY <1>1, <2>1 DEF Underway
  <2>3. smp' = ClearBlockMeta(before, FirstOnes(r, r.i + 1))
    <3>1. FirstOnes(r, r.i) \cup {r.start + r.i} = FirstOnes(r, r.i + 1)
      BY <1>6, <2>2, SMTT(30) DEF FirstOnes
    <3>2. smp' = ClearBlockMeta(smp, {r.start + r.i})
      BY <1>7 DEF ClearBlock
    <3> QED
      BY <1>5, <2>2, <3>1, <3>2, ClearMore
  <2> DEFINE q == [r EXCEPT !.i = r.i + 1]
             step == IF r.i + 1 < r.n THEN "clear block" ELSE "erase"
  <2>4. Continue(t, q, step)
    BY <1>7 DEF ClearBlock, NextBlock, More
  <2>5. DOMAIN q = DOMAIN Idle /\ SameCall(q, r) /\ SameRun(q, r) /\ q.i = r.i + 1
    BY <1>1, <1>2 DEF SameCall, SameRun
  <2>6. step # "idle"
    OBVIOUS
  <2> HIDE DEF q, step
  <2>7. s.at = step /\ SameCall(s, q) /\ SameRun(s, q) /\ s.i = q.i
    BY <1>1, <2>4, <2>5, <2>6, GoesOn
  <2>8. SameCall(s, r) /\ SameRun(s, r) /\ s.i = r.i + 1
    BY <2>5, <2>7 DEF SameCall, SameRun
  <2>9. Frees(s, before) /\ s.n = r.n /\ \A k : FirstOnes(s, k) = FirstOnes(r, k)
    BY <1>4, <2>8, SameRequest DEF SameRun
  <2>10. CASE r.i + 1 < r.n
    <3>0. r.i + 1 \in 0 .. r.n - 1
      BY <1>6, <2>2, <2>10
    <3>1. s.at = "clear block" /\ s.i \in 0 .. s.n - 1
      BY <2>7, <2>8, <2>9, <2>10, <3>0 DEF step
    <3> QED
      BY <1>3, <2>3, <2>8, <2>9, <3>1 DEF Advances, Underway, BeforeWrite, ReadSteps
  <2>11. CASE ~(r.i + 1 < r.n)
    <3>1. s.at = "erase" /\ r.i + 1 = s.n
      BY <1>6, <2>2, <2>7, <2>9, <2>11 DEF step
    <3> QED
      BY <1>3, <2>3, <2>9, <3>1 DEF Advances, Underway, BeforeWrite, ReadSteps
  <2> QED
    BY <1>3, <2>10, <2>11
<1>8. CASE Erase(t)
  <2>1. r.at = "erase" /\ Continue(t, r, "read count")
    BY <1>8 DEF Erase, At, Goto
  <2>2. smp = ClearBlockMeta(before, FirstOnes(r, r.n))
    BY <1>1, <2>1 DEF Underway
  <2>3. smp' = EntryErased(r, before)
    BY <1>8, <2>2 DEF Erase, EntryErased
  <2>4. s.at = "read count" /\ SameCall(s, r) /\ SameRun(s, r)
    BY <1>1, <2>1, GoesOn
  <2>5. Frees(s, before) /\ EntryErased(s, before) = EntryErased(r, before)
    BY <1>4, <2>4, SameRequest
  <2> QED
    BY <1>3, <2>3, <2>4, <2>5 DEF Advances, Underway, BeforeWrite, ReadSteps
<1>9. CASE ReadCount(t)
  <2> DEFINE q == [r EXCEPT !.seen = smp.free_block_count]
  <2>1. r.at = "read count" /\ Continue(t, q, "give back") /\ smp' = smp
    BY <1>9 DEF ReadCount, At
  <2>2. smp = EntryErased(r, before)
    BY <1>1, <2>1 DEF Underway
  <2>3. /\ DOMAIN q = DOMAIN Idle /\ SameCall(q, r) /\ SameRun(q, r)
        /\ q.seen = smp.free_block_count
    BY <1>1, <1>2 DEF SameCall, SameRun
  <2> HIDE DEF q
  <2>4. s.at = "give back" /\ SameCall(s, q) /\ SameRun(s, q) /\ s.seen = q.seen
    BY <1>1, <2>1, <2>3, GoesOn
  <2>5. SameCall(s, r) /\ SameRun(s, r) /\ s.seen = smp'.free_block_count
    BY <2>1, <2>3, <2>4 DEF SameCall, SameRun
  <2>6. Frees(s, before) /\ EntryErased(s, before) = EntryErased(r, before)
    BY <1>4, <2>5, SameRequest
  <2> QED
    BY <1>3, <2>1, <2>2, <2>4, <2>5, <2>6 DEF Advances, Underway, BeforeWrite, ReadSteps
<1>10. CASE GiveBack(t)
  <2>1. r.at = "give back" /\ Continue(t, r, AfterFree(t))
    BY <1>10 DEF GiveBack, At, Goto
  <2>2. smp = EntryErased(r, before) /\ r.seen = smp.free_block_count
    BY <1>1, <2>1 DEF Underway
  <2>3. smp' = FreeByMemoryId(before, r.id)
    <3>1. smp' = [smp EXCEPT !.free_block_count = smp.free_block_count + r.n,
                             !.next_search_pos  = IF r.start < @ THEN r.start ELSE @]
      BY <1>10, <2>2 DEF GiveBack
    <3> QED
      BY <1>1, <1>4, <2>2, <3>1, FreedInSteps
  <2>4. CASE r.op = "UPDATE"
    <3>0. Continue(t, r, "check size")
      BY <2>1, <2>4 DEF AfterFree
    <3>1. s.at = "check size" /\ SameCall(s, r)
      BY <1>1, <3>0, GoesOn
    <3>2. Replaces(r, before)
      BY <1>4, <2>4 DEF Frees
    <3>3. Allocates(s, before) /\ Base(s, before) = FreeByMemoryId(before, r.id)
      <4>1. Allocates(r, before) /\ Base(r, before) = FreeByMemoryId(before, r.id)
        BY <2>4, <3>2 DEF Allocates, Base
      <4> QED
        BY <3>1, <4>1, SameRequest
    <3> QED
      BY <1>3, <2>3, <3>1, <3>3 DEF Advances, Underway, BeforeWrite, ReadSteps
  <2>5. CASE r.op # "UPDATE"
    <3>1. s.at = "idle"
      BY <1>1, <2>1, <2>5, ContinueFacts DEF AfterFree
    <3>2. Performed(before, smp')
      BY <1>5, <2>3 DEF Performed, Names
    <3> QED
      BY <1>3, <3>1, <3>2, EndOfRequest DEF Advances
  <2> QED
    BY <1>3, <2>4, <2>5
<1> QED
  BY <1>7, <1>8, <1>9, <1>10

(* The steps of GenerateNextMemoryId and AllocateBlock that write. *)
LEMMA AllocatingSteps ==
  ASSUME NEW t, Ready(t),
         CountId(t) \/ CheckSize(t) \/ Search(t) \/ WriteBlock(t) \/ CountBlock(t) \/ Record(t)
  PROVE  Advances(t) /\ before' = before
<1> DEFINE r == th[t]
           s == th'[t]
           result == AllocateBlock(Base(r, before), r.id, r.description, r.content)
<1>1. /\ ThreadsTyped /\ t \in Threads /\ DOMAIN r = DOMAIN Idle
      /\ Underway(r, before, smp) /\ Consistent(before)
  BY DEF Ready, ThreadsTyped, Sound
<1>2. DOMAIN Idle = {"at", "op", "id", "content", "description", "start", "n", "i", "seen", "text"}
  BY DEF Idle
<1>3. before' = before
  BY DEF CountId, CheckSize, Search, WriteBlock, CountBlock, Record
<1>4. CASE CountId(t)
  <2>1. r.at = "count id" /\ Continue(t, r, "check size") /\ smp' = GenerateNextMemoryId(smp)
    BY <1>4 DEF CountId, At, Goto
  <2>2. Adds(r, before) /\ r.id = before.next_memory_id_counter /\ smp = before
    BY <1>1, <2>1 DEF Underway, BeforeWrite
  <2>3. Allocates(r, before) /\ Base(r, before) = GenerateNextMemoryId(before)
    BY <2>2 DEF Allocates, Base, Adds
  <2>4. s.at = "check size" /\ SameCall(s, r)
    BY <1>1, <2>1, GoesOn
  <2>5. Allocates(s, before) /\ Base(s, before) = Base(r, before)
    BY <2>3, <2>4, SameRequest
  <2> QED
    BY <1>3, <2>1, <2>2, <2>3, <2>4, <2>5 DEF Advances, Underway, BeforeWrite, ReadSteps
<1>5. CASE CheckSize(t)
  <2>1. /\ r.at = "check size" /\ smp' = smp
        /\ Continue(t, r, IF Rejected(smp, r.content) THEN "idle" ELSE "search")
    BY <1>5 DEF CheckSize, At, Goto
  <2>2. Allocates(r, before) /\ smp = Base(r, before)
    BY <1>1, <2>1 DEF Underway
  <2>3. CASE Rejected(smp, r.content)
    <3>1. s.at = "idle"
      BY <1>1, <2>1, <2>3, ContinueFacts
    <3>2. result = smp
      BY <2>2, <2>3 DEF AllocateBlock
    <3>3. Performed(before, smp')
      BY <1>1, <2>1, <2>2, <3>2, BaseConsistent
    <3> QED
      BY <1>3, <3>1, <3>3, EndOfRequest DEF Advances
  <2>4. CASE ~Rejected(smp, r.content)
    <3>1. s.at = "search" /\ SameCall(s, r)
      BY <1>1, <2>1, <2>4, GoesOn
    <3>2. Allocates(s, before) /\ Base(s, before) = Base(r, before) /\ s.content = r.content
      BY <2>2, <3>1, SameRequest DEF SameCall
    <3> QED
      BY <1>3, <2>1, <2>2, <2>4, <3>1, <3>2 DEF Advances, Underway, BeforeWrite, ReadSteps
  <2> QED
    BY <1>3, <2>3, <2>4
<1>6. CASE Search(t)
  <2> DEFINE n == RequiredBlocks(r.content)
             room == Room(r, before)
             start == FindContinuousFreeBlock(room, n)
  <2>1. r.at = "search"
    BY <1>6 DEF Search, At
  <2>2. Allocates(r, before) /\ smp = Base(r, before) /\ ~Rejected(smp, r.content)
    BY <1>1, <2>1 DEF Underway
  <2>3. Searched(smp, n) = room
    BY <2>2 DEF Room
  <2>4. Consistent(room) /\ HasPoolType(room) /\ n \in Nat \ {0} /\ Performed(before, result)
    BY <1>1, <2>2, BaseConsistent, RequiredAtLeastOne DEF Consistent
  <2>5. result = IF start = NotFound THEN room
                 ELSE Place(room, start, r.id, r.description, r.content)
    BY <2>2, <2>3 DEF AllocateBlock
  <2>6. CASE start = NotFound
    <3>1. smp' = room /\ Continue(t, r, "idle")
      BY <1>6, <2>3, <2>6 DEF Search, Goto
    <3>2. s.at = "idle"
      BY <1>1, <3>1, ContinueFacts
    <3> QED
      BY <1>3, <2>4, <2>5, <2>6, <3>1, <3>2, EndOfRequest DEF Advances
  <2>7. CASE start # NotFound
    <3> DEFINE q == [r EXCEPT !.start = start, !.n = n, !.i = 0]
    <3>1. /\ smp' = [room EXCEPT !.next_search_pos = start + n]
          /\ Continue(t, q, "write block")
      BY <1>6, <2>3, <2>7 DEF Search
    <3>2. start \in Nat
      BY <2>4, <2>7, FoundRun, PoolAssumption DEF Blocks
    <3>3. /\ DOMAIN q = DOMAIN Idle /\ SameCall(q, r)
          /\ q.start = start /\ q.n = n /\ q.i = 0
      BY <1>1, <1>2 DEF SameCall
    <3> HIDE DEF q, start, n
    <3>4. /\ s.at = "write block" /\ SameCall(s, q) /\ SameRun(s, q) /\ s.i = q.i
      BY <1>1, <3>1, <3>3, GoesOn
    <3>5. SameCall(s, r) /\ s.start = start /\ s.n = n /\ s.i = 0
      BY <3>3, <3>4 DEF SameCall, SameRun
    <3>6. /\ Allocates(s, before) /\ Base(s, before) = Base(r, before)
          /\ Room(s, before) = room /\ s.content = r.content
      BY <2>2, <3>5, SameRequest DEF SameCall
    <3>7. Places(s, before)
      BY <2>2, <2>7, <3>5, <3>6 DEF Places, start, n
    <3>8. s.i \in 0 .. s.n - 1
      BY <2>4, <3>5
    <3>9. smp' = PartPlaced(s, Room(s, before), s.i, s.i)
      BY <2>4, <3>1, <3>2, <3>5, <3>6, NothingPlaced
    <3> QED
      BY <1>3, <3>4, <3>7, <3>8, <3>9 DEF Advances, Underway, BeforeWrite, ReadSteps
  <2> QED
    BY <1>3, <2>6, <2>7
<1>7. ASSUME r.at \in {"write block", "count block", "record"}
      PROVE  LET q == Room(r, before)
             IN  /\ Places(r, before) /\ Consistent(q) /\ HasPoolType(q)
                 /\ r.n \in Nat \ {0} /\ r.start \in Nat
                 /\ \A k \in 0 .. r.n - 1 : r.start + k \in Blocks
                 /\ result = Place(q, r.start, r.id, r.description, r.content)
                 /\ Performed(before, result)
  <2> DEFINE q == Room(r, before)
  <2>1. Places(r, before)
    BY <1>1, <1>7 DEF Underway
  <2>2. /\ Allocates(r, before) /\ ~Rejected(Base(r, before), r.content)
        /\ r.n = RequiredBlocks(r.content)
        /\ r.start = FindContinuousFreeBlock(q, r.n) /\ r.start # NotFound
    BY <2>1 DEF Places
  <2>3. Consistent(q) /\ HasPoolType(q) /\ r.n \in Nat \ {0} /\ Performed(before, result)
    BY <1>1, <2>2, BaseConsistent, RequiredAtLeastOne DEF Consistent
  <2>4. r.start \in Blocks /\ r.start + r.n <= kBlockCount
    BY <2>2, <2>3, FoundRun
  <2>5. r.start \in Nat /\ \A k \in 0 .. r.n - 1 : r.start + k \in Blocks
    BY <2>3, <2>4, PoolAssumption DEF Blocks
  <2>6. result = Place(q, r.start, r.id, r.description, r.content)
    BY <2>2 DEF AllocateBlock, Room
  <2> QED
    BY <2>1, <2>3, <2>5, <2>6
<1>8. CASE WriteBlock(t)
  <2> DEFINE room == Room(r, before)
             q == [r EXCEPT !.seen = smp.free_block_count]
  <2>1. r.at = "write block" /\ Continue(t, q, "count block")
    BY <1>8 DEF WriteBlock, At
  <2>2. r.i \in 0 .. r.n - 1 /\ smp = PartPlaced(r, room, r.i, r.i)
    BY <1>1, <2>1 DEF Underway
  <2>3. /\ Places(r, before) /\ HasPoolType(room) /\ r.start \in Nat
        /\ r.n \in Nat /\ r.start + r.i \in Blocks /\ r.i \in Nat
    <3>1. /\ Places(r, before) /\ HasPoolType(room) /\ r.start \in Nat
          /\ r.n \in Nat /\ \A k \in 0 .. r.n - 1 : r.start + k \in Blocks
      BY <1>7, <2>1
    <3> HIDE DEF room, r
    <3>2. r.i \in Nat
      BY <2>2, <3>1
    <3> QED
      BY <2>2, <3>1, <3>2
  <2>4. smp' = [smp EXCEPT !.pool[r.start + r.i] = Chunk(r.content, r.i),
                           !.meta[r.start + r.i] = [used |-> TRUE, memory_id |-> r.id,
                                                    description |-> r.description],
                           !.used_map = @ \cup {r.start + r.i}]
    BY <1>8 DEF WriteBlock
  <2> HIDE DEF room
  <2>5. smp' = PartPlaced(r, room, r.i + 1, r.i)
    <3> DEFINE b == r.start + r.i
    <3>1. smp = PartPlaced(r, room, r.i, r.i) /\ b \in Blocks /\ b = r.start + r.i
      BY <2>2, <2>3
    <3> HIDE DEF b
    <3>2. DOMAIN smp = DOMAIN ResetPool
      BY <2>3, <3>1 DEF HasPoolType, PartPlaced
    <3>3. /\ smp' = [f \in DOMAIN ResetPool |-> smp'[f]]
          /\ smp'.pool = [smp.pool EXCEPT ![b] = Chunk(r.content, r.i)]
          /\ smp'.meta = [smp.meta EXCEPT ![b] = [used |-> TRUE, memory_id |-> r.id,
                                                  description |-> r.description]]
          /\ smp'.used_map = smp.used_map \cup {b}
          /\ smp'.free_block_count = smp.free_block_count /\ smp'.memory_info = smp.memory_info
          /\ smp'.memory_last_modified_time = smp.memory_last_modified_time
          /\ smp'.next_memory_id_counter = smp.next_memory_id_counter
          /\ smp'.next_search_pos = smp.next_search_pos
      BY <2>4, <3>2, PoolFields DEF b
    <3> QED
      BY <2>3, <3>1, <3>3, BlockPlaced
  <2>6. smp'.free_block_count = smp.free_block_count
    <3>1. DOMAIN room = DOMAIN ResetPool
      BY <2>3 DEF HasPoolType
    <3>2. /\ PartPlaced(r, room, r.i + 1, r.i).free_block_count = room.free_block_count - r.i
          /\ PartPlaced(r, room, r.i, r.i).free_block_count = room.free_block_count - r.i
      BY <3>1, PoolFields DEF PartPlaced
    <3> QED
      BY <2>2, <2>5, <3>2
  <2>7. /\ DOMAIN q = DOMAIN Idle /\ SameCall(q, r) /\ SameRun(q, r)
        /\ q.i = r.i /\ q.seen = smp.free_block_count
    BY <1>1, <1>2 DEF SameCall, SameRun
  <2> HIDE DEF q, room
  <2>8. /\ s.at = "count block" /\ SameCall(s, q) /\ SameRun(s, q)
        /\ s.i = q.i /\ s.seen = q.seen
    BY <1>1, <2>1, <2>7, GoesOn
  <2>9. /\ SameCall(s, r) /\ SameRun(s, r) /\ s.n = r.n
        /\ s.i = r.i /\ s.seen = smp'.free_block_count
    BY <2>6, <2>7, <2>8 DEF SameCall, SameRun
  <2>10. /\ Places(s, before) /\ Room(s, before) = room
         /\ PartPlaced(s, room, r.i + 1, r.i) = PartPlaced(r, room, r.i + 1, r.i)
    BY <2>3, <2>9, SameRequest DEF room
  <2> QED
    BY <1>3, <2>2, <2>5, <2>8, <2>9, <2>10 DEF Advances, Underway, BeforeWrite, ReadSteps
<1>9. CASE CountBlock(t)
  <2> DEFINE room == Room(r, before)
             q == [r EXCEPT !.i = r.i + 1]
             step == IF r.i + 1 < r.n THEN "write block" ELSE "record"
  <2>1. r.at = "count block" /\ Continue(t, q, step)
    BY <1>9 DEF CountBlock, At, NextBlock, More
  <2>2. /\ r.i \in 0 .. r.n - 1 /\ smp = PartPlaced(r, room, r.i + 1, r.i)
        /\ r.seen = smp.free_block_count
    BY <1>1, <2>1 DEF Underway
  <2>3. Places(r, before) /\ HasPoolType(room) /\ r.n \in Nat /\ r.i \in Nat
    <3>1. Places(r, before) /\ HasPoolType(room) /\ r.n \in Nat
      BY <1>7, <2>1
    <3> QED
      BY <2>2, <3>1
  <2>4. smp' = PartPlaced(r, room, r.i + 1, r.i + 1)
    <3>1. smp' = [smp EXCEPT !.free_block_count = smp.free_block_count - 1]
      BY <1>9, <2>2 DEF CountBlock
    <3> QED
      BY <2>2, <2>3, <3>1, BlockCounted
  <2>5. DOMAIN q = DOMAIN Idle /\ SameCall(q, r) /\ SameRun(q, r) /\ q.i = r.i + 1
    BY <1>1, <1>2 DEF SameCall, SameRun
  <2>6. step # "idle"
    OBVIOUS
  <2> HIDE DEF q, room, step
  <2>7. s.at = step /\ SameCall(s, q) /\ SameRun(s, q) /\ s.i = q.i
    BY <1>1, <2>1, <2>5, <2>6, GoesOn
  <2>8. SameCall(s, r) /\ SameRun(s, r) /\ s.i = r.i + 1 /\ s.n = r.n
    BY <2>5, <2>7 DEF SameCall, SameRun
  <2>9. /\ Places(s, before) /\ Room(s, before) = room
        /\ PartPlaced(s, room, r.i + 1, r.i + 1) = PartPlaced(r, room, r.i + 1, r.i + 1)
    BY <2>3, <2>8, SameRequest DEF room
  <2>10. CASE r.i + 1 < r.n
    <3>0. r.i + 1 \in 0 .. r.n - 1
      BY <2>3, <2>10
    <3>1. s.at = "write block" /\ s.i \in 0 .. s.n - 1
      BY <2>7, <2>8, <2>10, <3>0 DEF step
    <3> QED
      BY <1>3, <2>4, <2>8, <2>9, <3>1 DEF Advances, Underway, BeforeWrite, ReadSteps
  <2>11. CASE ~(r.i + 1 < r.n)
    <3>1. s.at = "record" /\ r.i + 1 = s.n
      BY <2>2, <2>3, <2>7, <2>8, <2>11 DEF step
    <3> QED
      BY <1>3, <2>4, <2>9, <3>1 DEF Advances, Underway, BeforeWrite, ReadSteps
  <2> QED
    BY <1>3, <2>10, <2>11
<1>10. CASE Record(t)
  <2> DEFINE room == Room(r, before)
  <2>1. r.at = "record" /\ Continue(t, r, "idle")
    BY <1>10 DEF Record, At, Goto
  <2>2. smp = PartPlaced(r, room, r.n, r.n)
    BY <1>1, <2>1 DEF Underway
  <2>3. /\ Places(r, before) /\ HasPoolType(room) /\ Performed(before, result)
        /\ result = Place(room, r.start, r.id, r.description, r.content)
    BY <1>7, <2>1
  <2>4. smp' = [smp EXCEPT
                  !.memory_info = [x \in DOMAIN @ \cup {r.id} |->
                                     IF x = r.id THEN [first |-> r.start, second |-> r.n]
                                     ELSE smp.memory_info[x]],
                  !.memory_last_modified_time = @ \cup {r.id}]
    BY <1>10 DEF Record
  <2> HIDE DEF room, result
  <2>5. smp' = result
    <3> DEFINE p == PartPlaced(r, room, r.n, r.n)
               e == [first |-> r.start, second |-> r.n]
    <3>1. [p EXCEPT !.memory_info = [x \in DOMAIN @ \cup {r.id} |->
                                       IF x = r.id THEN e ELSE p.memory_info[x]],
                    !.memory_last_modified_time = @ \cup {r.id}]
            = Place(room, r.start, r.id, r.description, r.content)
      BY <2>3, PlacedInSteps DEF Places
    <3>2. smp = p
      BY <2>2
    <3> HIDE DEF p
    <3> QED
      BY <2>3, <2>4, <3>1, <3>2
  <2>6. s.at = "idle"
    BY <1>1, <2>1, ContinueFacts
  <2> QED
    BY <1>3, <2>3, <2>5, <2>6, EndOfRequest DEF Advances
<1> QED
  BY <1>4, <1>5, <1>6, <1>8, <1>9, <1>10

-----------------------------------------------------------------------------
(* A step changes the local variables of its own thread only. *)
LEMMA StepIsLocal ==
  ASSUME ThreadsTyped, NEW t \in Threads, Step(t)
  PROVE  /\ ThreadsTyped' /\ before' = before
         /\ \A u \in Threads \ {t} : th'[u] = th[u]
<1> DEFINE r == th[t]
<1>1. DOMAIN r = DOMAIN Idle
  BY DEF ThreadsTyped
<1>2. /\ \A x : DOMAIN [r EXCEPT !.id = x] = DOMAIN Idle
      /\ \A x : DOMAIN [r EXCEPT !.start = x] = DOMAIN Idle
      /\ \A x : DOMAIN [r EXCEPT !.description = x] = DOMAIN Idle
      /\ \A x : DOMAIN [r EXCEPT !.i = x] = DOMAIN Idle
      /\ \A x : DOMAIN [r EXCEPT !.seen = x] = DOMAIN Idle
      /\ \A x : DOMAIN [r EXCEPT !.text = x] = DOMAIN Idle
      /\ \A x, y, z : DOMAIN [r EXCEPT !.start = x, !.n = y, !.i = z] = DOMAIN Idle
  BY <1>1
<1>3. ASSUME NEW ids, ToFirst(t, ids)
      PROVE  \E q, step : DOMAIN q = DOMAIN Idle /\ Continue(t, q, step)
  BY <1>1, <1>2, <1>3 DEF ToFirst, Goto
<1>4. \E q, step : DOMAIN q = DOMAIN Idle /\ Continue(t, q, step)
  <2>1. CASE TakeId(t) \/ CountId(t) \/ LookUp(t)
    BY <1>1, <1>2, <2>1 DEF TakeId, CountId, LookUp, Goto
  <2>2. CASE FetchEntry(t) \/ Describe(t)
    BY <1>1, <1>2, <2>2 DEF FetchEntry, Describe, Goto
  <2>3. CASE Find(t)
    BY <1>1, <1>2, <2>3 DEF Find, WithEntry, Goto
  <2>4. CASE ClearBlock(t) \/ CountBlock(t)
    BY <1>1, <1>2, <2>4 DEF ClearBlock, CountBlock, NextBlock
  <2>5. CASE Erase(t) \/ GiveBack(t) \/ CheckSize(t) \/ Record(t)
    BY <1>1, <2>5 DEF Erase, GiveBack, CheckSize, Record, Goto
  <2>6. CASE ReadCount(t) \/ WriteBlock(t)
    BY <1>1, <1>2, <2>6 DEF ReadCount, WriteBlock
  <2>7. CASE Search(t)
    BY <1>1, <1>2, <2>7 DEF Search, Goto
  <2>8. CASE Reading(t)
    BY <2>8, ReadOn
  <2>9. CASE List(t) \/ Row(t)
    <3>1. CASE List(t)
      BY <1>3, <3>1 DEF List
    <3>2. CASE Row(t)
      <4>1. (\E ids : ToFirst(t, ids)) \/ Goto(t, "lost")
        BY <3>2 DEF Row
      <4> QED
        BY <1>1, <1>3, <4>1 DEF Goto
    <3> QED
      BY <2>9, <3>1, <3>2
  <2> QED
    BY <2>1, <2>2, <2>3, <2>4, <2>5, <2>6, <2>7, <2>8, <2>9 DEF Step, Reading
<1>5. before' = before
  BY ReadOn DEF Step, Reading, TakeId, CountId, LookUp, FetchEntry, Describe, Find, ClearBlock,
                Erase, ReadCount, GiveBack, CheckSize, Search, WriteBlock, CountBlock, Record,
                List, Row
<1> QED
  BY <1>4, <1>5, ContinueFacts

LEMMA WriterSteps ==
  ASSUME NEW t, Ready(t), Step(t)
  PROVE  Advances(t)
  BY ReadingSteps, FreeingSteps, AllocatingSteps DEF Step, Reading

(* A reader's step changes nothing but the reader. *)
LEMMA ReaderSteps ==
  ASSUME ThreadsTyped, NEW t \in Threads, th[t].at \in ReadSteps \cup {"idle", "lost"}, Step(t)
  PROVE  /\ Reading(t) /\ smp' = smp /\ th'[t].at \in ReadSteps \cup {"idle", "lost"}
         /\ th'[t].at = "lost" => t \in dangling
<1>1. Reading(t)
  BY DEF Step, Reading, ReadSteps, At, TakeId, CountId, LookUp, FetchEntry, Describe, Find,
         ClearBlock, Erase, ReadCount, GiveBack, CheckSize, Search, WriteBlock, CountBlock,
         Record, List, Row
<1> QED
  BY <1>1, ReadOn, ContinueFacts

(* A request that begins. *)
LEMMA RequestIsReady ==
  ASSUME NEW r \in Writes \cup Lists \cup Reads, NEW b,
         r.op = "ALLOC" => b.next_memory_id_counter <= MaxId
  PROVE  /\ DOMAIN r = DOMAIN Idle /\ [r EXCEPT !.at = r.at] = r
         /\ Underway(r, b, b) /\ r.at # "idle"
<1>1. ASSUME NEW op, NEW step, NEW ids, NEW contents, NEW descriptions,
             r \in Steps(op, step, ids, contents, descriptions)
      PROVE  [r EXCEPT !.at = r.at] = r
  BY <1>1 DEF Steps
<1>2. [r EXCEPT !.at = r.at] = r
  BY <1>1 DEF Writes, Lists, Reads
<1> DEFINE Some  == {c \in Contents : c.size > 0}
           names == 1 .. MaxId
<1>3. Some \subseteq Contents
  OBVIOUS
<1> HIDE DEF Some, names
<1>4. CASE r \in Steps("ALLOC", "take id", {0}, Some, Descriptions)
  <2>1. /\ DOMAIN r = DOMAIN Idle /\ r.op = "ALLOC" /\ r.at = "take id"
        /\ r.content \in Some /\ r.description \in Descriptions
    BY <1>4 DEF Steps, Idle
  <2>2. r.content \in Contents
    BY <1>3, <2>1
  <2> QED
    BY <1>2, <2>1, <2>2 DEF Underway, BeforeWrite, Adds
<1>5. CASE r \in Steps("UPDATE", "look up", names, Contents, {NoDescription})
  <2>1. /\ DOMAIN r = DOMAIN Idle /\ r.op = "UPDATE" /\ r.at = "look up"
        /\ r.content \in Contents
    BY <1>5 DEF Steps, Idle
  <2> QED
    BY <1>2, <2>1 DEF Underway, BeforeWrite
<1>6. CASE r \in Steps("DELETE", "find", names, {NoContent}, {NoDescription})
  <2>1. DOMAIN r = DOMAIN Idle /\ r.op = "DELETE" /\ r.at = "find"
    BY <1>6 DEF Steps, Idle
  <2> QED
    BY <1>2, <2>1 DEF Underway, BeforeWrite
<1>7. CASE r \in Lists
  <2>1. DOMAIN r = DOMAIN Idle /\ r.at = "list"
    BY <1>7 DEF Lists, Steps, Idle
  <2> QED
    BY <1>2, <2>1 DEF Underway, BeforeWrite
<1>8. CASE r \in Reads
  <2>1. DOMAIN r = DOMAIN Idle /\ r.at = "find entry"
    <3>1. r \in Steps("READ", "find entry", names, {NoContent}, {NoDescription})
      BY <1>8, Zenon DEF Reads, names
    <3> QED
      BY <3>1 DEF Steps, Idle
  <2> QED
    BY <1>2, <2>1 DEF Underway, BeforeWrite, ReadSteps
<1> QED
  BY <1>4, <1>5, <1>6, <1>7, <1>8, Zenon DEF Writes, Some, names

(* What a request leaves is as sound as what it began with. *)
LEMMA PerformedSound ==
  ASSUME NEW b, Sound(b), NEW q, Performed(b, q)
  PROVE  Sound(q)
<1>1. Consistent(b) /\ DOMAIN b = DOMAIN ResetPool
  BY DEF Sound, Consistent, HasPoolType
<1>2. Consistent(q)
  <2>1. ASSUME NEW d \in Descriptions, NEW c \in Contents,
               q = AllocateBlock(GenerateNextMemoryId(b), b.next_memory_id_counter, d, c)
        PROVE  Consistent(q)
    BY <1>1, <2>1, TakeIdAndAllocate
  <2>2. ASSUME NEW id \in DOMAIN b.memory_info, q = FreeByMemoryId(b, id)
        PROVE  Consistent(q)
    BY <1>1, <2>2, FreeConsistent
  <2>3. ASSUME NEW id \in DOMAIN b.memory_info, NEW c \in Contents,
               q = AllocateBlock(FreeByMemoryId(b, id), id, DescriptionOf(b, id), c)
        PROVE  Consistent(q)
    BY <1>1, <2>3, FreeAndAllocate
  <2> QED
    BY <2>1, <2>2, <2>3 DEF Performed
<1>3. DOMAIN q = DOMAIN ResetPool
  BY <1>2 DEF Consistent, HasPoolType
<1>4. ASSUME NEW p, p = [f \in DOMAIN p |-> p[f]], NEW x, NEW d, NEW c
      PROVE  AllocateBlock(p, x, d, c) = [f \in DOMAIN AllocateBlock(p, x, d, c) |->
                                            AllocateBlock(p, x, d, c)[f]]
  <2> DEFINE a == AllocateBlock(p, x, d, c)
             room == Searched(p, RequiredBlocks(c))
             start == FindContinuousFreeBlock(room, RequiredBlocks(c))
  <2>1. a \in {p, room, Place(room, start, x, d, c)}
    BY DEF AllocateBlock
  <2>2. room = [f \in DOMAIN room |-> room[f]]
    BY <1>4 DEF Searched, Compact
  <2> HIDE DEF room, start
  <2>3. Place(room, start, x, d, c) = [f \in DOMAIN Place(room, start, x, d, c) |->
                                         Place(room, start, x, d, c)[f]]
    BY DEF Place
  <2> HIDE DEF a
  <2>4. a = [f \in DOMAIN a |-> a[f]]
    BY <1>4, <2>1, <2>2, <2>3
  <2> QED
    BY <2>4 DEF a
<1>5. ASSUME NEW x
      PROVE  FreeByMemoryId(b, x) = [f \in DOMAIN FreeByMemoryId(b, x) |-> FreeByMemoryId(b, x)[f]]
  BY DEF FreeByMemoryId
<1>6. GenerateNextMemoryId(b) = [f \in DOMAIN GenerateNextMemoryId(b) |-> GenerateNextMemoryId(b)[f]]
  BY DEF GenerateNextMemoryId
<1>7. q = [f \in DOMAIN q |-> q[f]]
  BY <1>4, <1>5, <1>6 DEF Performed
<1> QED
  BY <1>2, <1>3, <1>7 DEF Sound

-----------------------------------------------------------------------------
(* The methods module SharedMemoryPool calls are those of PoolObject. *)
LEMMA SameMethods ==
  /\ Pool!ResetPool = ResetPool
  /\ \A p : Pool!GenerateNextMemoryId(p) = GenerateNextMemoryId(p)
  /\ \A p, x : Pool!DescriptionOf(p, x) = DescriptionOf(p, x)
  /\ \A p, x : Pool!FreeByMemoryId(p, x) = FreeByMemoryId(p, x)
  /\ \A p, x, d, c : Pool!AllocateBlock(p, x, d, c) = AllocateBlock(p, x, d, c)
  /\ Pool!Contents = Contents
<1>1. Pool!Blocks = Blocks /\ Pool!BlockMeta = BlockMeta /\ Pool!ZeroChunk = ZeroChunk
  BY DEF Pool!Blocks, Blocks, Pool!BlockMeta, BlockMeta, Pool!ZeroChunk, ZeroChunk,
         Pool!Chunk, Chunk, Pool!NoContent, NoContent
<1>2. Pool!ResetPool = ResetPool
  BY <1>1 DEF Pool!ResetPool, ResetPool
<1>3. \A p : Pool!GenerateNextMemoryId(p) = GenerateNextMemoryId(p)
  BY DEF Pool!GenerateNextMemoryId, GenerateNextMemoryId
<1>4. \A p, x : Pool!DescriptionOf(p, x) = DescriptionOf(p, x)
  BY DEF Pool!DescriptionOf, DescriptionOf
<1>5. \A p, x : Pool!FreeByMemoryId(p, x) = FreeByMemoryId(p, x)
  BY DEF Pool!FreeByMemoryId, FreeByMemoryId, Pool!Erased, Erased, Pool!Restrict, Restrict,
         Pool!Span, Span, Pool!Blocks, Blocks, Pool!BlockMeta, BlockMeta
<1>7. \A p : Pool!Compact(p) = Compact(p)
  BY DEF Pool!Compact, Compact, Pool!MovedData, MovedData, Pool!MovedMeta, MovedMeta,
         Pool!MovedBits, MovedBits, Pool!MovedEntry, MovedEntry, Pool!FreePos, FreePos,
         Pool!Packed, Packed, Pool!Nth, Nth, Pool!Rank, Rank, Pool!Owned, Owned, Pool!Span, Span,
         Pool!Cardinality, Cardinality, Pool!Blocks, Blocks, Pool!BlockMeta, BlockMeta
<1>8. \A p, n : Pool!FindContinuousFreeBlock(p, n) = FindContinuousFreeBlock(p, n)
  BY DEF Pool!FindContinuousFreeBlock, FindContinuousFreeBlock, Pool!FreeRuns, FreeRuns,
         Pool!NotFound, NotFound, Pool!Min, Min
<1>9. \A c : Pool!RequiredBlocks(c) = RequiredBlocks(c)
  BY DEF Pool!RequiredBlocks, RequiredBlocks
<1>10. \A p, start, x, d, c : Pool!Place(p, start, x, d, c) = Place(p, start, x, d, c)
  BY DEF Pool!Place, Place, Pool!RequiredBlocks, RequiredBlocks, Pool!Span, Span,
         Pool!Blocks, Blocks, Pool!Chunk, Chunk
<1>11. \A p, n : Pool!Searched(p, n) = Searched(p, n)
  BY <1>7, <1>8 DEF Pool!Searched, Searched, Pool!NotFound, NotFound
<1>12. \A p, c : Pool!Rejected(p, c) <=> Rejected(p, c)
  BY DEF Pool!Rejected, Rejected
<1>13. \A p, x, d, c : Pool!AllocateBlock(p, x, d, c) = AllocateBlock(p, x, d, c)
  BY <1>8, <1>9, <1>10, <1>11, <1>12 DEF Pool!AllocateBlock, AllocateBlock, Pool!NotFound, NotFound
<1>14. Pool!Contents = Contents
  BY DEF Pool!Contents, Contents
<1> QED
  BY <1>2, <1>3, <1>4, <1>5, <1>13, <1>14

(* So what a request does is a command of that module. *)
LEMMA PerformedIsACommand ==
  ASSUME Performed(Committed, Committed')
  PROVE  Pool!Next
<1>1. CASE \E d \in Descriptions, c \in Contents :
             /\ Committed.next_memory_id_counter <= MaxId
             /\ Committed' = AllocateBlock(GenerateNextMemoryId(Committed),
                                           Committed.next_memory_id_counter, d, c)
  BY <1>1, SameMethods DEF Pool!Next, Pool!Alloc
<1>2. CASE \E x \in DOMAIN Committed.memory_info : Committed' = FreeByMemoryId(Committed, x)
  BY <1>2, SameMethods DEF Pool!Next, Pool!Free, Pool!LiveId
<1>3. CASE \E x \in DOMAIN Committed.memory_info, c \in Contents :
             Committed' = AllocateBlock(FreeByMemoryId(Committed, x), x,
                                        DescriptionOf(Committed, x), c)
  BY <1>3, SameMethods DEF Pool!Next, Pool!FreeThenAllocate, Pool!LiveId
<1> QED
  BY <1>1, <1>2, <1>3 DEF Performed

-----------------------------------------------------------------------------
LEMMA CommittedIs ==
  ASSUME OneWriter, NEW t \in Writers
  PROVE  /\ Committed = IF th[t].at = "idle" THEN smp ELSE before
         /\ Committed' = IF th'[t].at = "idle" THEN smp' ELSE before'
  BY DEF OneWriter, Committed, At

LEMMA OneWriterInitially ==
  ASSUME Init
  PROVE  OneWriterInv /\ Committed = ResetPool
<1>1. th = [t \in Threads |-> Idle] /\ Idle.at = "idle"
  BY DEF Init, Idle
<1>2. \A t \in Threads : th[t] = Idle /\ th[t].at = "idle"
  BY <1>1
<1>3. ThreadsTyped
  BY <1>1, <1>2 DEF ThreadsTyped
<1>4. Writers \subseteq Threads /\ Readers \subseteq Threads
  BY DEF Threads
<1>5. Committed = ResetPool
  BY <1>2, <1>4 DEF Init, Committed, At
<1>6. Sound(ResetPool)
  BY ResetConsistent DEF Sound, ResetPool
<1> QED
  <2>1. \A t \in Writers : Underway(th[t], before, smp) /\ t \notin dangling
    BY <1>2, <1>4, EndOfRequest DEF Init
  <2> QED
    BY <1>2, <1>3, <1>4, <1>5, <1>6, <2>1 DEF OneWriterInv

(* No action is enabled for a thread that has nothing to do but Begin.     *)
LEMMA IdleTakesNoStep ==
  ASSUME NEW t, Step(t)
  PROVE  th[t].at # "idle"
  BY DEF Step, At, TakeId, CountId, LookUp, FetchEntry, Describe, Find, ClearBlock, Erase,
         ReadCount, GiveBack, CheckSize, Search, WriteBlock, CountBlock, Record, FindEntry,
         ReadEntry, ReadBytes, FindAgain, HeaderEntry, ReadHeader, FindTime, ReadTime, List, Row

(* What a step that changes the pool leads to; none comes to hold an       *)
(* iterator.                                                               *)
LEMMA AfterAChange ==
  ASSUME ThreadsTyped, NEW t \in Threads, Step(t), smp' # smp
  PROVE  /\ ~HoldsIterator(th'[t])
         /\ th'[t].at = "idle" => GiveBack(t) \/ Search(t) \/ Record(t)
<1> DEFINE r == th[t]
           Far == {"check size", "clear block", "erase", "read count", "write block",
                   "count block", "record"}
<1>1. /\ DOMAIN r = DOMAIN Idle
      /\ \A x : DOMAIN [r EXCEPT !.seen = x] = DOMAIN Idle
      /\ \A x : DOMAIN [r EXCEPT !.i = x] = DOMAIN Idle
      /\ \A x, y : DOMAIN [r EXCEPT !.start = x, !.n = y, !.i = 0] = DOMAIN Idle
  BY DEF ThreadsTyped
<1>2. CASE CountId(t) \/ Erase(t)
  <2>1. \E step \in Far : Continue(t, r, step)
    BY <1>2 DEF CountId, Erase, Goto
  <2> QED
    BY <1>1, <2>1, ContinueFacts DEF HoldsIterator
<1>3. CASE GiveBack(t) \/ Record(t)
  <2>1. \E step \in Far \cup {"idle"} : Continue(t, r, step)
    BY <1>3 DEF GiveBack, Record, Goto, AfterFree
  <2> QED
    BY <1>1, <1>3, <2>1, ContinueFacts DEF HoldsIterator
<1>4. CASE ClearBlock(t) \/ CountBlock(t) \/ WriteBlock(t)
  <2>1. \E q : DOMAIN q = DOMAIN Idle /\ \E step \in Far : Continue(t, q, step)
    <3>1. CASE ClearBlock(t) \/ CountBlock(t)
      BY <1>1, <3>1 DEF ClearBlock, CountBlock, NextBlock, More
    <3>2. CASE WriteBlock(t)
      BY <1>1, <3>2 DEF WriteBlock
    <3> QED
      BY <1>4, <3>1, <3>2
  <2> QED
    BY <2>1, ContinueFacts DEF HoldsIterator
<1>5. CASE Search(t)
  <2>1. \E q : DOMAIN q = DOMAIN Idle /\ \E step \in Far \cup {"idle"} : Continue(t, q, step)
    BY <1>1, <1>5 DEF Search, Goto
  <2> QED
    BY <1>5, <2>1, ContinueFacts DEF HoldsIterator
<1>6. CountId(t) \/ Erase(t) \/ GiveBack(t) \/ Record(t) \/ ClearBlock(t) \/ CountBlock(t)
        \/ WriteBlock(t) \/ Search(t)
  BY ReadOn DEF Step, Reading, TakeId, LookUp, FetchEntry, Describe, Find, ReadCount, CheckSize,
                List, Row
<1> QED
  BY <1>2, <1>3, <1>4, <1>5, <1>6

(* The steps, by who takes them. *)
WriterStep(t) == t \in Writers /\ Step(t)
ReaderStep(t) == t \in Readers /\ Reading(t)
Request(t)    == \E r \in Writes \cup Lists \cup Reads : Begin(t, r)
ReadRequest(t) == t \in Readers /\ \E r \in Reads : Begin(t, r)

LEMMA Roles ==
  /\ Writers \subseteq Threads /\ Readers \subseteq Threads
  /\ \A t \in Threads : t \in Writers \/ t \in Readers
  /\ \A t \in Writers, u \in Readers : t # u
  BY ThreadsAssumption DEF Threads

LEMMA WhoMoves ==
  ASSUME OneWriterInv, Next
  PROVE  /\ Invalidate /\ Disturb
         /\ \/ \E t \in Writers : WriterStep(t) \/ Request(t)
            \/ \E t \in Readers : ReaderStep(t) \/ ReadRequest(t)
<1>1. ASSUME NEW t \in Readers, Step(t) PROVE ReaderStep(t)
  BY <1>1, Roles, ReaderSteps DEF OneWriterInv, ReaderStep
<1>2. ASSUME NEW t \in Threads, Takes(t)
      PROVE  /\ Invalidate /\ Disturb
             /\ (t \in Writers /\ WriterStep(t)) \/ (t \in Readers /\ ReaderStep(t))
  BY <1>1, <1>2, Roles DEF Takes, WriterStep
<1>3. ASSUME NEW t \in Threads, NEW r \in Reads, Begins(t, r)
      PROVE  /\ Invalidate /\ Disturb
             /\ (t \in Writers /\ Request(t)) \/ (t \in Readers /\ ReadRequest(t))
  BY <1>3, Roles DEF Begins, Request, ReadRequest
<1>4. ASSUME NEW t \in Writers, NEW r \in Writes \cup Lists, Begins(t, r)
      PROVE  Invalidate /\ Disturb /\ Request(t)
  BY <1>4 DEF Begins, Request
<1> QED
  BY <1>2, <1>3, <1>4 DEF Next

LEMMA StartOfRequest ==
  ASSUME ThreadsTyped, NEW t \in Threads, NEW r \in Writes \cup Lists \cup Reads, Begin(t, r)
  PROVE  /\ th[t].at = "idle" /\ smp' = smp
         /\ ThreadsTyped' /\ th'[t] = r /\ r.at # "idle" /\ Underway(r, smp, smp)
         /\ \A u \in Threads \ {t} : th'[u] = th[u]
<1>1. /\ th[t].at = "idle" /\ smp' = smp /\ Continue(t, r, r.at)
      /\ r.op = "ALLOC" => smp.next_memory_id_counter <= MaxId
  BY DEF Begin, At
<1>2. /\ DOMAIN r = DOMAIN Idle /\ Underway(r, smp, smp) /\ r.at # "idle"
      /\ [r EXCEPT !.at = r.at] = r
  BY <1>1, RequestIsReady
<1>3. ThreadsTyped' /\ \A u \in Threads \ {t} : th'[u] = th[u]
  BY <1>1, <1>2, ContinueFacts
<1>4. th' = [th EXCEPT ![t] = r]
  BY <1>1, <1>2 DEF Continue
<1>5. th'[t] = r
  BY <1>4 DEF ThreadsTyped
<1> QED
  BY <1>1, <1>2, <1>3, <1>5

(* The writer's step. *)
LEMMA WriterMoves ==
  ASSUME OneWriter, OneWriterInv, NEW t \in Writers, WriterStep(t), Invalidate
  PROVE  /\ OneWriterInv' /\ (Committed' = Committed \/ Performed(Committed, Committed'))
         /\ Committed = before /\ before' = before /\ Ready(t) /\ Advances(t)
         /\ \A u \in Threads \ {t} : th'[u] = th[u]
<1>1. /\ ThreadsTyped /\ Sound(Committed)
      /\ \A u \in Readers : th[u].at \in ReadSteps \cup {"idle", "lost"}
      /\ \A u \in Writers : Underway(th[u], before, smp) /\ u \notin dangling
      /\ t \in Threads /\ Step(t)
  BY Roles DEF OneWriterInv, WriterStep
<1>2. th[t].at # "idle" /\ Committed = before
  BY <1>1, IdleTakesNoStep, CommittedIs
<1>3. Ready(t)
  BY <1>1, <1>2 DEF Ready
<1>4. /\ ThreadsTyped' /\ before' = before
      /\ \A u \in Threads \ {t} : th'[u] = th[u]
  BY <1>1, StepIsLocal
<1>5. Advances(t)
  BY <1>1, <1>3, WriterSteps
<1>6. Committed' = IF th'[t].at = "idle" THEN smp' ELSE before'
  BY CommittedIs
<1>7. Committed' = Committed \/ Performed(Committed, Committed')
  BY <1>2, <1>4, <1>5, <1>6 DEF Advances
<1>8. Sound(Committed')
  BY <1>1, <1>7, PerformedSound
<1>9. \A u \in Readers : th'[u].at \in ReadSteps \cup {"idle", "lost"}
  BY <1>1, <1>4, Roles
<1>10. \A u \in Writers : u = t
  BY DEF OneWriter
<1>11. \A u \in Writers : Underway(th[u], before, smp)'
  BY <1>5, <1>10 DEF Advances
<1>12. \A u \in Writers : u \notin dangling'
  <2>1. ASSUME t \in dangling' PROVE FALSE
    <3>1. HoldsIterator(th'[t]) /\ th[t].id \in LiveIds \ LiveIds'
      BY <1>1, <2>1 DEF Invalidate
    <3>2. smp' # smp
      BY <3>1 DEF LiveIds
    <3> QED
      BY <1>1, <3>1, <3>2, AfterAChange
  <2> QED
    BY <1>10, <2>1
<1> QED
  BY <1>2, <1>3, <1>4, <1>5, <1>7, <1>8, <1>9, <1>11, <1>12 DEF OneWriterInv, Sound, Consistent

(* The writer begins. *)
LEMMA WriterBegins ==
  ASSUME OneWriter, OneWriterInv, NEW t \in Writers, Request(t), Invalidate
  PROVE  /\ OneWriterInv' /\ Committed' = Committed /\ smp' = smp
         /\ \A u \in Threads \ {t} : th'[u] = th[u]
<1>1. /\ ThreadsTyped /\ Sound(Committed) /\ t \in Threads
      /\ \A u \in Readers : th[u].at \in ReadSteps \cup {"idle", "lost"}
      /\ \A u \in Writers : u \notin dangling /\ u = t
  BY Roles DEF OneWriterInv, OneWriter
<1>2. PICK r \in Writes \cup Lists \cup Reads : Begin(t, r)
  BY DEF Request
<1>3. /\ th[t].at = "idle" /\ smp' = smp
      /\ ThreadsTyped' /\ th'[t] = r /\ r.at # "idle" /\ Underway(r, smp, smp)
      /\ \A u \in Threads \ {t} : th'[u] = th[u]
  BY <1>1, <1>2, StartOfRequest
<1>4. before' = smp
  BY <1>2 DEF Begin
<1>5. Committed' = Committed
  BY <1>3, <1>4, CommittedIs
<1>6. \A u \in Writers : Underway(th'[u], before', smp')
  BY <1>1, <1>3, <1>4
<1>7. \A u \in Readers : th'[u].at \in ReadSteps \cup {"idle", "lost"}
  BY <1>1, <1>3, Roles
<1>8. \A u \in Writers : u \notin dangling'
  BY <1>1, <1>3, Roles DEF Invalidate, LiveIds
<1> QED
  BY <1>1, <1>3, <1>5, <1>6, <1>7, <1>8 DEF OneWriterInv, Sound, Consistent

(* A reader's step, or the first of its request. *)
LEMMA ReaderMoves ==
  ASSUME OneWriterInv, NEW t \in Readers, ReaderStep(t) \/ ReadRequest(t), Invalidate
  PROVE  /\ OneWriterInv' /\ Committed' = Committed /\ smp' = smp
         /\ \A u \in Threads \ {t} : th'[u] = th[u]
<1>1. /\ ThreadsTyped /\ Sound(Committed) /\ t \in Threads
      /\ \A u \in Readers : th[u].at \in ReadSteps \cup {"idle", "lost"}
      /\ \A u \in Writers : Underway(th[u], before, smp) /\ u \notin dangling
  BY Roles DEF OneWriterInv
<1>2. /\ smp' = smp /\ before' = before /\ ThreadsTyped'
      /\ th'[t].at \in ReadSteps \cup {"idle", "lost"}
      /\ \A u \in Threads \ {t} : th'[u] = th[u]
  <2>1. CASE ReaderStep(t)
    BY <1>1, <2>1, ReadOn, ContinueFacts DEF ReaderStep
  <2>2. CASE ReadRequest(t)
    <3>1. PICK r \in Reads : Begin(t, r)
      BY <2>2 DEF ReadRequest
    <3>2. r \in Writes \cup Lists \cup Reads
      BY <3>1
    <3>3. /\ smp' = smp /\ ThreadsTyped' /\ th'[t] = r
          /\ \A u \in Threads \ {t} : th'[u] = th[u]
      BY <1>1, <3>1, <3>2, StartOfRequest
    <3>4. before' = before
      BY <3>1, Roles DEF Begin
    <3>5. r.at = "find entry"
      BY <3>1 DEF Reads, Steps
    <3> QED
      BY <3>3, <3>4, <3>5 DEF ReadSteps
  <2> QED
    BY <2>1, <2>2
<1>3. \A u \in Writers : th'[u] = th[u]
  BY <1>2, Roles
<1>4. Committed' = Committed
  BY <1>2, <1>3 DEF Committed, At
<1>5. \A u \in Readers : th'[u].at \in ReadSteps \cup {"idle", "lost"}
  BY <1>1, <1>2, Roles
<1>6. \A u \in Writers : Underway(th'[u], before', smp') /\ u \notin dangling'
  <2>1. \A u \in Writers : u \notin dangling'
    BY <1>1, <1>2, Roles DEF Invalidate, LiveIds
  <2> QED
    BY <1>1, <1>2, <1>3, <2>1
<1> QED
  BY <1>1, <1>2, <1>4, <1>5, <1>6 DEF OneWriterInv, Sound, Consistent

LEMMA OneWriterStep ==
  ASSUME OneWriter, OneWriterInv, [Next]_vars
  PROVE  OneWriterInv' /\ (Committed' = Committed \/ Performed(Committed, Committed'))
<1>1. CASE Next
  BY <1>1, WhoMoves, WriterMoves, WriterBegins, ReaderMoves
<1>2. CASE UNCHANGED vars
  <2>1. smp' = smp /\ th' = th /\ before' = before /\ dangling' = dangling
    BY <1>2 DEF vars
  <2>2. Committed' = Committed
    BY <2>1 DEF Committed, At
  <2> QED
    BY <2>1, <2>2 DEF OneWriterInv, ThreadsTyped, Sound, Consistent
<1> QED
  BY <1>1, <1>2

-----------------------------------------------------------------------------
(* The pool stays where the writer's step expects it. *)
THEOREM OneWriterStaysInvariant ==
  ASSUME OneWriter
  PROVE  Spec => []OneWriterInv
<1>1. Init => OneWriterInv
  BY OneWriterInitially
<1>2. OneWriterInv /\ [Next]_vars => OneWriterInv'
  BY OneWriterStep
<1> QED
  BY <1>1, <1>2, PTL DEF Spec

(* The requests of the one writer, taken step by step among any number of  *)
(* readers, are the commands of module SharedMemoryPool, taken at once.    *)
THEOREM OneWriterImplementsPool ==
  ASSUME OneWriter
  PROVE  Spec => ImplementsPool
<1>1. Init => Pool!Init
  BY OneWriterInitially, SameMethods DEF Pool!Init
<1>2. OneWriterInv /\ [Next]_vars => [Pool!Next]_Committed
  BY OneWriterStep, PerformedIsACommand
<1> QED
  BY <1>1, <1>2, OneWriterStaysInvariant, PTL DEF Spec, ImplementsPool, Pool!Spec

(***************************************************************************)
(* What a READ gets meanwhile.                                             *)
(***************************************************************************)
(* Memory x is in p what it is in q, wherever its blocks are. *)
Keeps(p, q, x) ==
  /\ x \in DOMAIN p.memory_info <=> x \in DOMAIN q.memory_info
  /\ x \in DOMAIN q.memory_info =>
       LET d == p.memory_info[x]
           e == q.memory_info[x]
       IN  /\ d.second = e.second
           /\ \A k \in 0 .. e.second - 1 : p.pool[d.first + k] = q.pool[e.first + k]
           /\ p.meta[d.first].description = q.meta[e.first].description

LEMMA KeepsIsEquivalence ==
  /\ \A p, x : Keeps(p, p, x)
  /\ \A p, q, x : Keeps(p, q, x) => Keeps(q, p, x)
  /\ \A p, q, r, x : Keeps(p, q, x) /\ Keeps(q, r, x) => Keeps(p, r, x)
  BY DEF Keeps

(* Such a memory reads the same. *)
LEMMA KeptIsRead ==
  ASSUME NEW p, NEW q, HasPoolType(q), NEW x, Keeps(p, q, x), x \in DOMAIN q.memory_info
  PROVE  /\ GetMemoryContentAsString(p, x) = GetMemoryContentAsString(q, x)
         /\ DescriptionOf(p, x) = DescriptionOf(q, x)
<1> DEFINE d == p.memory_info[x]
           e == q.memory_info[x]
           inP == {i \in 0 .. d.second - 1 :
                     \A j \in 0 .. i - 1 : Filled(p.pool[d.first + j]) = kBlockSize}
           inQ == {i \in 0 .. e.second - 1 :
                     \A j \in 0 .. i - 1 : Filled(q.pool[e.first + j]) = kBlockSize}
           textP == {<<i, p.pool[d.first + i]>> :
                       i \in {j \in inP : Filled(p.pool[d.first + j]) > 0}}
           textQ == {<<i, q.pool[e.first + i]>> :
                       i \in {j \in inQ : Filled(q.pool[e.first + j]) > 0}}
<1>1. d.second = e.second /\ \A k \in 0 .. e.second - 1 : p.pool[d.first + k] = q.pool[e.first + k]
  BY DEF Keeps
<1>2. \A i \in 0 .. e.second - 1 : \A j \in 0 .. i - 1 : j \in 0 .. e.second - 1
  <2>1. e.second \in Nat
    BY SpanFacts DEF HasPoolType
  <2> QED
    BY <2>1
<1> HIDE DEF d, e
<1>3. inP = inQ
  BY <1>1, <1>2
<1>4. \A i \in inQ : p.pool[d.first + i] = q.pool[e.first + i]
  BY <1>1
<1> HIDE DEF inP, inQ
<1>5. textP = textQ
  BY <1>3, <1>4
<1>6. GetMemoryContentAsString(p, x) = textP /\ GetMemoryContentAsString(q, x) = textQ
  BY Zenon DEF GetMemoryContentAsString, textP, textQ, inP, inQ, d, e
<1> QED
  BY <1>5, <1>6 DEF Keeps, DescriptionOf

(* Compaction moves memories as they are. *)
LEMMA CompactKeeps ==
  ASSUME NEW p, Consistent(p), NEW x
  PROVE  Keeps(Compact(p), p, x)
<1> DEFINE q == Compact(p)
<1>0. HasPoolType(p) /\ OwnsItsBlocks(p) /\ LeaksNoBlock(p) /\ CountsFreeBlocks(p)
  BY DEF Consistent
<1>1. /\ DOMAIN q.memory_info = DOMAIN p.memory_info
      /\ \A id \in DOMAIN p.memory_info : DescriptionOf(q, id) = DescriptionOf(p, id)
  BY CompactConsistent
<1>2. /\ q.pool = MovedData(p)
      /\ q.memory_info = [id \in DOMAIN p.memory_info |-> MovedEntry(p, p.memory_info[id])]
  BY <1>0, CompactFields
<1> HIDE DEF q
<1>3. \A d \in Packed(p) : q.pool[d] = p.pool[Nth(Owned(p), d)]
  <2>1. FreePos(p) \in 0 .. kBlockCount
    BY <1>0, UsedIsOwned
  <2>2. \A d \in Packed(p) : d \in Blocks
    BY <2>1, PoolAssumption DEF Packed, Blocks
  <2> QED
    BY <1>2, <2>2 DEF MovedData
<1>4. ASSUME x \in DOMAIN p.memory_info
      PROVE  /\ q.memory_info[x].second = p.memory_info[x].second
             /\ \A k \in 0 .. p.memory_info[x].second - 1 :
                  q.pool[q.memory_info[x].first + k] = p.pool[p.memory_info[x].first + k]
  <2> DEFINE e == p.memory_info[x]
             m == MovedEntry(p, e)
  <2>1. q.memory_info[x] = m
    BY <1>2, <1>4
  <2>2. /\ m.second = e.second
        /\ \A k \in 0 .. e.second - 1 :
             m.first + k \in Packed(p) /\ Nth(Owned(p), m.first + k) = e.first + k
    BY <1>0, <1>4, MovedRun
  <2> HIDE DEF e, m
  <2>3. \A k \in 0 .. e.second - 1 : q.pool[m.first + k] = p.pool[e.first + k]
    BY <1>3, <2>2
  <2> QED
    BY <2>1, <2>2, <2>3 DEF e
<1> QED
  BY <1>1, <1>4 DEF Keeps, DescriptionOf, q

(* A memory whose blocks are not touched is kept. *)
LEMMA UntouchedIsKept ==
  ASSUME NEW p, NEW q, HasPoolType(q), NEW x,
         x \in DOMAIN p.memory_info <=> x \in DOMAIN q.memory_info,
         x \in DOMAIN q.memory_info =>
           /\ p.memory_info[x] = q.memory_info[x]
           /\ \A b \in Span(q.memory_info[x]) : p.pool[b] = q.pool[b] /\ p.meta[b] = q.meta[b]
  PROVE  Keeps(p, q, x)
<1>1. x \in DOMAIN q.memory_info =>
        /\ q.memory_info[x].first \in Span(q.memory_info[x])
        /\ \A k \in 0 .. q.memory_info[x].second - 1 :
             q.memory_info[x].first + k \in Span(q.memory_info[x])
  BY SpanFacts DEF HasPoolType
<1> QED
  BY <1>1 DEF Keeps

(* Nor does a request for another memory touch it, at any step. *)
LEMMA FreeingKeeps ==
  ASSUME NEW b, Consistent(b), NEW r, Frees(r, b), NEW x, x # r.id,
         NEW k \in 0 .. r.n, NEW p,
         p = ClearBlockMeta(b, FirstOnes(r, k)) \/ p = EntryErased(r, b)
  PROVE  Keeps(p, b, x)
<1> DEFINE e == b.memory_info[r.id]
           c(j) == ClearBlockMeta(b, FirstOnes(r, j))
<1>1. /\ HasPoolType(b) /\ OwnsItsBlocks(b) /\ DOMAIN b = DOMAIN ResetPool
      /\ b.used_map \subseteq Blocks /\ r.id \in DOMAIN b.memory_info /\ e \in Entries
  BY DEF Consistent, HasPoolType, Frees, Replaces, Names
<1>2. e.first = r.start /\ e.second = r.n /\ r.n \in Nat /\ r.start \in Nat
  BY <1>1, SpanFacts DEF Frees
<1>3. \A j \in 0 .. r.n : \A y \in FirstOnes(r, j) : y \in Span(e)
  BY <1>2 DEF FirstOnes, Span
<1>4. x \in DOMAIN b.memory_info =>
        \A y \in Span(b.memory_info[x]) : y \in Blocks /\ y \notin Span(e)
  BY <1>1, SpansAreDisjoint DEF OwnsItsBlocks
<1>5. ASSUME NEW j \in 0 .. r.n
      PROVE  /\ DOMAIN c(j) = DOMAIN ResetPool
             /\ c(j).memory_info = b.memory_info /\ c(j).pool = b.pool
             /\ c(j).meta = [y \in Blocks |-> IF y \in FirstOnes(r, j) THEN BlockMeta ELSE b.meta[y]]
  BY <1>1, ClearFields
<1> HIDE DEF c, e
<1>6. ASSUME NEW j \in 0 .. r.n, x \in DOMAIN b.memory_info, NEW y \in Span(b.memory_info[x])
      PROVE  c(j).meta[y] = b.meta[y] /\ c(j).pool[y] = b.pool[y]
  BY <1>3, <1>4, <1>5, <1>6
<1>7. CASE p = c(k)
  BY <1>1, <1>5, <1>6, <1>7, UntouchedIsKept
<1>8. CASE p = EntryErased(r, b)
  <2>1. /\ p.memory_info = Erased(b.memory_info, r.id)
        /\ p.pool = c(r.n).pool /\ p.meta = c(r.n).meta
    <3>1. p = [c(r.n) EXCEPT !.memory_info = Erased(@, r.id),
                             !.memory_last_modified_time = @ \ {r.id}]
      BY <1>8 DEF EntryErased, c
    <3>2. r.n \in 0 .. r.n
      BY <1>2
    <3>3. DOMAIN c(r.n) = DOMAIN ResetPool /\ c(r.n).memory_info = b.memory_info
      BY <1>5, <3>2
    <3> QED
      BY <3>1, <3>3, PoolFields
  <2>2. /\ DOMAIN p.memory_info = DOMAIN b.memory_info \ {r.id}
        /\ \A y \in DOMAIN b.memory_info \ {r.id} : p.memory_info[y] = b.memory_info[y]
    BY <2>1 DEF Erased, Restrict
  <2>3. r.n \in 0 .. r.n
    BY <1>2
  <2> QED
    BY <1>1, <1>6, <2>1, <2>2, <2>3, UntouchedIsKept
<1> QED
  BY <1>7, <1>8 DEF c

LEMMA BaseKeeps ==
  ASSUME NEW b, Consistent(b), NEW r, Allocates(r, b), NEW x, ~Changes(r, x)
  PROVE  Keeps(Base(r, b), b, x) /\ Keeps(Room(r, b), b, x)
<1>1. HasPoolType(b) /\ OwnsItsBlocks(b) /\ b.used_map \subseteq Blocks
  BY DEF Consistent, HasPoolType
<1>2. Keeps(Base(r, b), b, x)
  <2>1. CASE Adds(r, b)
    <3>1. /\ Base(r, b).memory_info = b.memory_info /\ Base(r, b).pool = b.pool
          /\ Base(r, b).meta = b.meta
      BY <1>1, <2>1, PoolFields DEF Base, Adds, GenerateNextMemoryId, HasPoolType
    <3> QED
      BY <3>1 DEF Keeps
  <2>2. CASE Replaces(r, b)
    <3> DEFINE q == FreeByMemoryId(b, r.id)
    <3>1. Base(r, b) = q /\ r.id \in DOMAIN b.memory_info /\ x # r.id
      BY <2>2 DEF Base, Replaces, Names, Changes
    <3>2. /\ q.meta = [y \in Blocks |-> IF y \in Span(b.memory_info[r.id]) THEN BlockMeta
                                        ELSE b.meta[y]]
          /\ q.memory_info = [y \in DOMAIN b.memory_info \ {r.id} |-> b.memory_info[y]]
          /\ q.pool = b.pool
      BY <1>1, <3>1, FreeFields
    <3> HIDE DEF q
    <3>3. x \in DOMAIN b.memory_info =>
            \A y \in Span(b.memory_info[x]) : y \in Blocks /\ y \notin Span(b.memory_info[r.id])
      BY <1>1, <3>1, SpansAreDisjoint DEF OwnsItsBlocks
    <3> QED
      BY <1>1, <3>1, <3>2, <3>3, UntouchedIsKept
  <2> QED
    BY <2>1, <2>2 DEF Allocates
<1>3. Keeps(Room(r, b), Base(r, b), x)
  BY BaseConsistent, CompactKeeps, KeepsIsEquivalence DEF Room, Searched
<1> QED
  BY <1>2, <1>3, KeepsIsEquivalence

LEMMA PlacingKeeps ==
  ASSUME NEW b, Consistent(b), NEW r, Places(r, b), NEW x, ~Changes(r, x),
         NEW k \in 0 .. r.n, NEW m
  PROVE  Keeps(PartPlaced(r, Room(r, b), k, m), b, x)
<1> DEFINE q == Room(r, b)
           p == PartPlaced(r, q, k, m)
<1>1. /\ Consistent(q) /\ HasPoolType(q) /\ OwnsItsBlocks(q) /\ DOMAIN q = DOMAIN ResetPool
      /\ q.used_map \subseteq Blocks
  BY BaseConsistent DEF Places, Consistent, HasPoolType
<1>2. r.n \in Nat \ {0} /\ r.start = FindContinuousFreeBlock(q, r.n) /\ r.start # NotFound
  BY BaseConsistent, RequiredAtLeastOne DEF Places
<1> HIDE DEF q
<1>3. /\ r.start \in Nat
      /\ \A y \in r.start .. (r.start + r.n - 1) : y \notin q.used_map
  BY <1>1, <1>2, FoundRun, PoolAssumption DEF Blocks
<1>4. \A y \in FirstOnes(r, k) : y \notin q.used_map
  BY <1>2, <1>3 DEF FirstOnes
<1>5. /\ p.pool = [y \in Blocks |-> IF y \in FirstOnes(r, k)
                                    THEN Chunk(r.content, y - r.start) ELSE q.pool[y]]
      /\ p.meta = [y \in Blocks |-> IF y \in FirstOnes(r, k)
                                    THEN [used |-> TRUE, memory_id |-> r.id,
                                          description |-> r.description]
                                    ELSE q.meta[y]]
      /\ p.memory_info = q.memory_info
  BY <1>1, PartFields
<1>6. x \in DOMAIN q.memory_info =>
        \A y \in Span(q.memory_info[x]) : y \in Blocks /\ y \in q.used_map
  BY <1>1 DEF OwnsItsBlocks
<1> HIDE DEF p
<1>7. Keeps(p, q, x)
  BY <1>1, <1>4, <1>5, <1>6, UntouchedIsKept
<1>8. Keeps(q, b, x)
  BY BaseKeeps DEF Places, q
<1> QED
  BY <1>7, <1>8, KeepsIsEquivalence DEF p, q

LEMMA UnderwayKeeps ==
  ASSUME NEW b, Consistent(b), NEW r, NEW p, Underway(r, b, p), r.at # "idle",
         NEW x, ~Changes(r, x)
  PROVE  Keeps(p, b, x)
<1>1. CASE r.at \in BeforeWrite
  BY <1>1, KeepsIsEquivalence DEF Underway
<1>2. CASE r.at \in {"clear block", "erase", "read count", "give back"}
  <2>1. Frees(r, b)
    BY <1>2 DEF Underway
  <2>2. x # r.id
    BY <2>1 DEF Frees, Replaces, Changes
  <2>3. r.n \in Nat /\ r.n >= 1
    <3>1. b.memory_info[r.id] \in Entries
      BY <2>1 DEF Consistent, HasPoolType, Frees, Replaces, Names
    <3> QED
      BY <2>1, <3>1, SpanFacts DEF Frees
  <2>4. CASE r.at = "clear block"
    <3>1. r.i \in 0 .. r.n - 1 /\ p = ClearBlockMeta(b, FirstOnes(r, r.i))
      BY <2>4 DEF Underway
    <3>2. r.i \in 0 .. r.n
      BY <2>3, <3>1
    <3> QED
      BY <2>1, <2>2, <3>1, <3>2, FreeingKeeps
  <2>5. CASE r.at # "clear block"
    <3>1. p = ClearBlockMeta(b, FirstOnes(r, r.n)) \/ p = EntryErased(r, b)
      BY <1>2, <2>5 DEF Underway
    <3>2. r.n \in 0 .. r.n
      BY <2>3
    <3> QED
      BY <2>1, <2>2, <3>1, <3>2, FreeingKeeps
  <2> QED
    BY <2>4, <2>5
<1>3. CASE r.at \in {"check size", "search"}
  BY <1>3, BaseKeeps DEF Underway
<1>4. CASE r.at \in {"write block", "count block", "record"}
  <2>1. Places(r, b)
    BY <1>4 DEF Underway
  <2>2. r.n \in Nat \ {0}
    BY <2>1, BaseConsistent, RequiredAtLeastOne DEF Places
  <2>3. \E k \in 0 .. r.n : \E m : p = PartPlaced(r, Room(r, b), k, m)
    <3>1. CASE r.at = "record"
      <4>1. p = PartPlaced(r, Room(r, b), r.n, r.n) /\ r.n \in 0 .. r.n
        BY <2>2, <3>1 DEF Underway
      <4> QED
        BY <4>1
    <3>2. CASE r.at # "record"
      <4>1. r.i \in 0 .. r.n - 1 /\ \E m : \/ p = PartPlaced(r, Room(r, b), r.i, m)
                                           \/ p = PartPlaced(r, Room(r, b), r.i + 1, m)
        BY <1>4, <3>2 DEF Underway
      <4>2. r.i \in 0 .. r.n /\ r.i + 1 \in 0 .. r.n
        BY <2>2, <4>1
      <4> QED
        BY <4>1, <4>2
    <3> QED
      BY <3>1, <3>2
  <2> QED
    BY <2>1, <2>3, PlacingKeeps
<1> QED
  BY <1>1, <1>2, <1>3, <1>4 DEF Underway

(* The last step of a request keeps every memory, unless it changes        *)
(* memory_info.                                                            *)
LEMMA EndKeeps ==
  ASSUME NEW t, Ready(t), Step(t), th'[t].at = "idle", smp'.memory_info = smp.memory_info, NEW x
  PROVE  Keeps(smp', smp, x)
<1>1. /\ ThreadsTyped /\ t \in Threads /\ Underway(th[t], before, smp) /\ Consistent(before)
  BY DEF Ready, Sound
<1>2. CASE smp' = smp
  BY <1>2, KeepsIsEquivalence
<1>3. CASE GiveBack(t)
  <2>1. Frees(th[t], before) /\ smp = EntryErased(th[t], before)
    BY <1>1, <1>3 DEF GiveBack, At, Underway
  <2>2. DOMAIN smp = DOMAIN ResetPool
    <3>1. DOMAIN before = DOMAIN ResetPool
      BY <1>1 DEF Consistent, HasPoolType
    <3> DEFINE c == ClearBlockMeta(before, FirstOnes(th[t], th[t].n))
    <3>2. DOMAIN c = DOMAIN ResetPool
      BY <3>1 DEF ClearBlockMeta
    <3>3. smp = [c EXCEPT !.memory_info = Erased(@, th[t].id),
                          !.memory_last_modified_time = @ \ {th[t].id}]
      BY <2>1 DEF EntryErased
    <3> HIDE DEF c
    <3> QED
      BY <3>2, <3>3
  <2>3. smp'.pool = smp.pool /\ smp'.meta = smp.meta
    BY <1>3, <2>2, PoolFields DEF GiveBack
  <2> QED
    BY <2>3 DEF Keeps
<1>4. CASE Record(t)
  <2>1. Places(th[t], before) /\ smp = PartPlaced(th[t], Room(th[t], before), th[t].n, th[t].n)
    BY <1>1, <1>4 DEF Record, At, Underway
  <2>2. DOMAIN smp = DOMAIN ResetPool
    <3>1. DOMAIN Room(th[t], before) = DOMAIN ResetPool
      BY <1>1, <2>1, BaseConsistent DEF Places, Consistent, HasPoolType
    <3> QED
      BY <2>1, <3>1 DEF PartPlaced
  <2>3. smp'.pool = smp.pool /\ smp'.meta = smp.meta
    BY <1>4, <2>2, PoolFields DEF Record
  <2> QED
    BY <2>3 DEF Keeps
<1>5. CASE Search(t)
  <2>1. Allocates(th[t], before) /\ smp = Base(th[t], before)
    BY <1>1, <1>5 DEF Search, At, Underway
  <2>2. Consistent(smp)
    BY <1>1, <2>1, BaseConsistent
  <2> DEFINE n == RequiredBlocks(th[t].content)
             q == Searched(smp, n)
             start == FindContinuousFreeBlock(q, n)
             run == [th[t] EXCEPT !.start = start, !.n = n, !.i = 0]
  <2>3. smp' = q \/ Continue(t, run, "write block")
    BY <1>5 DEF Search
  <2>4. DOMAIN run = DOMAIN Idle
    BY <1>1 DEF ThreadsTyped
  <2> HIDE DEF run, q
  <2>5. ASSUME Continue(t, run, "write block") PROVE FALSE
    <3>1. th'[t].at = "write block"
      BY <1>1, <2>4, <2>5, ContinueFacts
    <3> QED
      BY <3>1
  <2>6. smp' = q
    BY <2>3, <2>5
  <2> QED
    BY <2>2, <2>6, CompactKeeps, KeepsIsEquivalence DEF q, Searched
<1> QED
  BY <1>1, <1>2, <1>3, <1>4, <1>5, AfterAChange

(* So the writer keeps what it does not update or delete. *)
LEMMA WriterKeeps ==
  ASSUME OneWriter, OneWriterInv, NEW t \in Writers, WriterStep(t), Invalidate,
         smp'.memory_info = smp.memory_info, NEW x, ~Changes(th'[t], x),
         Keeps(smp, Committed, x)
  PROVE  Keeps(smp', smp, x) /\ Keeps(smp', Committed', x)
<1>1. /\ Committed = before /\ before' = before /\ Ready(t) /\ Advances(t)
      /\ Sound(Committed')
  BY WriterMoves DEF OneWriterInv, Sound, Consistent
<1>2. Committed' = IF th'[t].at = "idle" THEN smp' ELSE before'
  BY CommittedIs
<1>3. CASE th'[t].at = "idle"
  BY <1>1, <1>2, <1>3, EndKeeps, KeepsIsEquivalence DEF WriterStep
<1>4. CASE th'[t].at # "idle"
  <2>1. Underway(th'[t], before', smp') /\ Consistent(before')
    BY <1>1, <1>2, <1>4 DEF Advances, Sound
  <2>2. Keeps(smp', before', x)
    BY <1>4, <2>1, UnderwayKeeps
  <2> QED
    BY <1>1, <1>2, <1>4, <2>2, KeepsIsEquivalence
<1> QED
  BY <1>3, <1>4

(* Where a READ that nothing has disturbed stands. *)
FarRead == {"find time", "read time"}

Undisturbed(t) ==
  LET r == th[t]
  IN  /\ r.at \in ReadSteps /\ t \notin dangling
      /\ r.at # "find entry" => r.id \in LiveIds
      /\ r.at \in {"read bytes", "header"} =>
           r.start = smp.memory_info[r.id].first /\ r.n = smp.memory_info[r.id].second
      /\ r.text # {} => r.id \in LiveIds /\ r.text = GetMemoryContentAsString(smp, r.id)
      /\ r.at \in FarRead => r.description = DescriptionOf(smp, r.id)

QuietInv ==
  \A t \in Readers : t \notin disturbed /\ th[t].at # "idle" =>
    Undisturbed(t) /\ Keeps(smp, Committed, th[t].id)

(* Its own steps, *)
LEMMA UndisturbedGoesOn ==
  ASSUME ThreadsTyped, NEW t \in Threads, Undisturbed(t), Reading(t), Invalidate,
         th'[t].at # "idle"
  PROVE  Undisturbed(t)' /\ th'[t].id = th[t].id
<1> DEFINE r == th[t]
           s == th'[t]
<1>1. DOMAIN r = DOMAIN Idle /\ smp' = smp
  BY ReadOn DEF ThreadsTyped
<1>2. DOMAIN Idle = {"at", "op", "id", "content", "description", "start", "n", "i", "seen", "text"}
  BY DEF Idle
<1>3. t \notin dangling /\ t \notin dangling'
  BY <1>1 DEF Undisturbed, Invalidate, LiveIds
<1>4. ASSUME NEW q, DOMAIN q = DOMAIN Idle, NEW step, Continue(t, q, step)
      PROVE  /\ s.at = step
             /\ s.id = q.id /\ s.start = q.start /\ s.n = q.n /\ s.text = q.text
             /\ s.description = q.description
  BY <1>4, ContinueFacts DEF SameCall, SameRun
<1> DEFINE read   == [r EXCEPT !.start = smp.memory_info[r.id].first,
                               !.n     = smp.memory_info[r.id].second, !.i = 0]
           entry  == [first |-> r.start, second |-> r.n]
           text   == GetMemoryContentAsString(
                       [smp EXCEPT !.memory_info = [id \in {0} |-> entry]], 0)
           copied == [r EXCEPT !.start = 0, !.n = 0, !.text = text]
           headed == [r EXCEPT !.description = smp.meta[r.start].description, !.start = 0, !.n = 0]
<1>5. /\ DOMAIN read = DOMAIN Idle /\ read.id = r.id /\ read.text = r.text
      /\ read.start = smp.memory_info[r.id].first /\ read.n = smp.memory_info[r.id].second
      /\ DOMAIN copied = DOMAIN Idle /\ copied.id = r.id /\ copied.text = text
      /\ DOMAIN headed = DOMAIN Idle /\ headed.id = r.id /\ headed.text = r.text
      /\ headed.description = smp.meta[r.start].description
  BY <1>1, <1>2
<1>6. LiveIds' = LiveIds /\ \A x : DescriptionOf(smp', x) = DescriptionOf(smp, x)
  BY <1>1 DEF LiveIds
<1>7. CASE FindEntry(t) \/ FindAgain(t) \/ FindTime(t)
  <2>1. \/ r.at = "find entry" /\ r.id \in LiveIds /\ Continue(t, r, "read entry")
        \/ r.at = "find again" /\ Continue(t, r, "header entry")
        \/ r.at = "find time" /\ Continue(t, r, "read time")
    BY <1>1, <1>4, <1>7 DEF FindEntry, FindAgain, FindTime, FindThen, Goto, At
  <2>2. \/ r.at = "find entry" /\ r.id \in LiveIds /\ s.at = "read entry"
        \/ r.at = "find again" /\ s.at = "header entry"
        \/ r.at = "find time" /\ s.at = "read time"
    BY <1>1, <1>4, <2>1
  <2>3. s.id = r.id /\ s.text = r.text /\ s.description = r.description
    BY <1>1, <1>4, <2>1
  <2> QED
    BY <1>1, <1>3, <1>6, <2>2, <2>3 DEF Undisturbed, ReadSteps, FarRead
<1>8. CASE ReadEntry(t) \/ HeaderEntry(t)
  <2>1. \/ r.at = "read entry" /\ Continue(t, read, "read bytes")
        \/ r.at = "header entry" /\ Continue(t, read, "header")
    BY <1>3, <1>8 DEF ReadEntry, HeaderEntry, Dereference, WithEntry, At
  <2> HIDE DEF read
  <2>2. \/ r.at = "read entry" /\ s.at = "read bytes"
        \/ r.at = "header entry" /\ s.at = "header"
    BY <1>4, <1>5, <2>1
  <2>3. s.id = r.id /\ s.text = r.text /\ s.start = read.start /\ s.n = read.n
    BY <1>4, <1>5, <2>1
  <2> QED
    BY <1>1, <1>3, <1>5, <1>6, <2>2, <2>3 DEF Undisturbed, ReadSteps, FarRead
<1>9. CASE ReadBytes(t)
  <2>1. r.at = "read bytes" /\ Continue(t, copied, IF text = {} THEN "idle" ELSE "find again")
    BY <1>9 DEF ReadBytes, At
  <2>2. /\ r.id \in LiveIds
        /\ entry.first = smp.memory_info[r.id].first /\ entry.second = smp.memory_info[r.id].second
    BY <2>1 DEF Undisturbed
  <2>3. text = GetMemoryContentAsString(smp, r.id)
    <3> DEFINE p == [smp EXCEPT !.memory_info = [id \in {0} |-> entry]]
    <3>1. p.pool = smp.pool /\ p.memory_info[0] = entry
      OBVIOUS
    <3>2. text = GetMemoryContentAsString(p, 0)
      OBVIOUS
    <3> HIDE DEF p, entry, text
    <3>3. GetMemoryContentAsString(p, 0) = GetMemoryContentAsString(smp, r.id)
      BY <2>2, <3>1, Zenon DEF GetMemoryContentAsString
    <3> QED
      BY <3>2, <3>3
  <2> HIDE DEF copied, text
  <2>4. s.at = "find again" /\ s.id = r.id /\ s.text = text
    BY <1>4, <1>5, <2>1
  <2> QED
    BY <1>1, <1>3, <1>6, <2>2, <2>3, <2>4 DEF Undisturbed, ReadSteps, FarRead
<1>10. CASE ReadHeader(t)
  <2>1. r.at = "header" /\ Continue(t, headed, "find time")
    BY <1>10 DEF ReadHeader, At
  <2>2. r.id \in LiveIds /\ r.start = smp.memory_info[r.id].first
    BY <2>1 DEF Undisturbed
  <2> HIDE DEF headed
  <2>3. /\ s.at = "find time" /\ s.id = r.id /\ s.text = r.text
        /\ s.description = smp.meta[r.start].description
    BY <1>4, <1>5, <2>1
  <2> QED
    BY <1>1, <1>3, <1>6, <2>2, <2>3 DEF Undisturbed, ReadSteps, FarRead, DescriptionOf
<1>11. CASE ReadTime(t)
  <2>1. Continue(t, r, "idle")
    BY <1>3, <1>11 DEF ReadTime, Dereference
  <2> QED
    BY <1>1, <1>4, <2>1
<1> QED
  BY <1>7, <1>8, <1>9, <1>10, <1>11 DEF Reading

(* steps of others that keep its memory, *)
LEMMA UndisturbedStays ==
  ASSUME NEW t \in Readers, Undisturbed(t), th'[t] = th[t], Invalidate,
         smp'.memory_info = smp.memory_info, HasPoolType(Committed),
         Keeps(smp, Committed, th[t].id), Keeps(smp', smp, th[t].id)
  PROVE  Undisturbed(t)'
<1> DEFINE x == th[t].id
<1>1. LiveIds' = LiveIds
  BY DEF LiveIds
<1>2. t \notin dangling'
  BY <1>1, Roles DEF Undisturbed, Invalidate
<1>3. Keeps(smp', Committed, x)
  BY KeepsIsEquivalence
<1>4. ASSUME x \in LiveIds
      PROVE  /\ GetMemoryContentAsString(smp', x) = GetMemoryContentAsString(smp, x)
             /\ DescriptionOf(smp', x) = DescriptionOf(smp, x)
  <2>1. x \in DOMAIN Committed.memory_info
    BY <1>4 DEF Keeps, LiveIds
  <2> QED
    BY <1>3, <2>1, KeptIsRead
<1> QED
  BY <1>1, <1>2, <1>4 DEF Undisturbed, FarRead

(* and its beginning. *)
LEMMA QuietStart ==
  ASSUME OneWriterInv, NEW t \in Readers, ReadRequest(t), Invalidate,
         \A u \in Writers : ~Changes(th'[u], th'[t].id)
  PROVE  Undisturbed(t)' /\ Keeps(smp', Committed', th'[t].id)
<1>1. PICK r \in Reads : Begin(t, r)
  BY DEF ReadRequest
<1>2. r \in Writes \cup Lists \cup Reads /\ t \in Threads /\ ThreadsTyped
  BY <1>1, Roles DEF OneWriterInv
<1>3. th'[t] = r /\ smp' = smp /\ \A u \in Threads \ {t} : th'[u] = th[u]
  BY <1>1, <1>2, StartOfRequest
<1>4. r.at = "find entry" /\ r.text = {}
  BY <1>1 DEF Reads, Steps
<1>5. t \notin dangling'
  BY <1>3, <1>4 DEF Invalidate, HoldsIterator
<1>6. Undisturbed(t)'
  BY <1>3, <1>4, <1>5 DEF Undisturbed, ReadSteps, FarRead
<1>7. Keeps(smp, Committed, r.id)
  <2>1. CASE \A u \in Writers : At(u, "idle")
    BY <2>1, KeepsIsEquivalence DEF Committed
  <2>2. CASE ~\A u \in Writers : At(u, "idle")
    <3>1. PICK u \in Writers : th[u].at # "idle"
      BY <2>2 DEF At
    <3>2. th'[u] = th[u] /\ ~Changes(th[u], r.id)
      BY <1>3, Roles
    <3>3. Committed = before
      BY <2>2 DEF Committed
    <3>4. Underway(th[u], before, smp) /\ Consistent(before)
      BY <3>3 DEF OneWriterInv, Sound
    <3> QED
      BY <3>1, <3>2, <3>3, <3>4, UnderwayKeeps
  <2> QED
    BY <2>1, <2>2
<1>8. Committed' = Committed
  BY ReaderMoves
<1> QED
  BY <1>3, <1>6, <1>7, <1>8

LEMMA QuietStep ==
  ASSUME OneWriter, OneWriterInv, QuietInv, [Next]_vars
  PROVE  QuietInv'
<1>1. CASE UNCHANGED vars
  <2>1. /\ smp' = smp /\ th' = th /\ before' = before /\ dangling' = dangling
        /\ disturbed' = disturbed
    BY <1>1 DEF vars
  <2>2. Committed' = Committed /\ LiveIds' = LiveIds
    BY <2>1 DEF Committed, At, LiveIds
  <2> QED
    BY <2>1, <2>2 DEF QuietInv, Undisturbed
<1>2. CASE Next
  <2> SUFFICES ASSUME NEW t \in Readers, t \notin disturbed', th'[t].at # "idle"
               PROVE  Undisturbed(t)' /\ Keeps(smp', Committed', th'[t].id)
    BY DEF QuietInv
  <2>1. /\ Invalidate /\ t \in Threads /\ ThreadsTyped /\ HasPoolType(Committed)
        /\ t \notin disturbed /\ smp'.memory_info = smp.memory_info
        /\ \A u \in Writers : ~Changes(th'[u], th'[t].id)
    BY <1>2, WhoMoves, Roles DEF Disturb, OneWriterInv, Sound, Consistent
  <2>2. ASSUME th'[t] = th[t]
        PROVE  Undisturbed(t) /\ Keeps(smp, Committed, th[t].id)
    BY <2>1, <2>2 DEF QuietInv
  <2>3. ASSUME th'[t] = th[t], smp' = smp, Committed' = Committed
        PROVE  Undisturbed(t)' /\ Keeps(smp', Committed', th'[t].id)
    BY <2>1, <2>2, <2>3, UndisturbedStays, KeepsIsEquivalence
  <2>4. ASSUME NEW u \in Writers, WriterStep(u)
        PROVE  Undisturbed(t)' /\ Keeps(smp', Committed', th'[t].id)
    <3>1. th'[t] = th[t]
      BY <1>2, <2>1, <2>4, WriterMoves, Roles
    <3>2. Undisturbed(t) /\ Keeps(smp, Committed, th[t].id)
      BY <2>2, <3>1
    <3>3. ~Changes(th'[u], th[t].id)
      BY <2>1, <3>1
    <3>4. Keeps(smp', smp, th[t].id) /\ Keeps(smp', Committed', th[t].id)
      BY <2>1, <2>4, <3>2, <3>3, WriterKeeps
    <3> QED
      BY <2>1, <3>1, <3>2, <3>4, UndisturbedStays
  <2>5. ASSUME NEW u \in Writers, Request(u)
        PROVE  Undisturbed(t)' /\ Keeps(smp', Committed', th'[t].id)
    BY <2>1, <2>3, <2>5, WriterBegins, Roles
  <2>6. ASSUME NEW u \in Readers, u # t, ReaderStep(u) \/ ReadRequest(u)
        PROVE  Undisturbed(t)' /\ Keeps(smp', Committed', th'[t].id)
    BY <2>1, <2>3, <2>6, ReaderMoves
  <2>7. CASE ReaderStep(t)
    <3>1. th[t].at # "idle" /\ Reading(t)
      BY <2>1, <2>7, ReadOn DEF ReaderStep, ReadSteps
    <3>2. Undisturbed(t) /\ Keeps(smp, Committed, th[t].id)
      BY <2>1, <3>1 DEF QuietInv
    <3>3. smp' = smp /\ Committed' = Committed
      BY <2>1, <2>7, ReaderMoves
    <3> QED
      BY <2>1, <3>1, <3>2, <3>3, UndisturbedGoesOn
  <2>8. CASE ReadRequest(t)
    BY <2>1, <2>8, QuietStart
  <2> QED
    BY <1>2, <2>4, <2>5, <2>6, <2>7, <2>8, WhoMoves
<1> QED
  BY <1>1, <1>2

(* The invariant says of every reader what the property says. *)
LEMMA QuietIsRight ==
  ASSUME OneWriterInv, QuietInv
  PROVE  QuietReadsAreRight
<1> SUFFICES ASSUME NEW t \in Readers, t \notin disturbed, th[t].at # "idle"
             PROVE  LET id == th[t].id
                    IN  /\ ~At(t, "lost")
                        /\ id \in LiveIds <=> id \in DOMAIN Committed.memory_info
                        /\ id \in LiveIds => GetMemoryContentAsString(smp, id)
                                               = GetMemoryContentAsString(Committed, id)
                        /\ th[t].text # {} =>
                             th[t].text = GetMemoryContentAsString(Committed, id)
                        /\ th[t].at \in FarRead =>
                             th[t].description = DescriptionOf(Committed, id)
  BY DEF QuietReadsAreRight, At, FarRead
<1>1. /\ Undisturbed(t) /\ Keeps(smp, Committed, th[t].id) /\ HasPoolType(Committed)
  BY DEF QuietInv, OneWriterInv, Sound, Consistent
<1>2. ~At(t, "lost")
  BY <1>1 DEF Undisturbed, ReadSteps, At
<1>3. th[t].id \in LiveIds <=> th[t].id \in DOMAIN Committed.memory_info
  BY <1>1 DEF Keeps, LiveIds
<1>4. th[t].id \in LiveIds =>
        /\ GetMemoryContentAsString(smp, th[t].id)
             = GetMemoryContentAsString(Committed, th[t].id)
        /\ DescriptionOf(smp, th[t].id) = DescriptionOf(Committed, th[t].id)
  BY <1>1, <1>3, KeptIsRead
<1>5. th[t].at \in FarRead => th[t].id \in LiveIds /\ th[t].description = DescriptionOf(smp, th[t].id)
  BY <1>1 DEF Undisturbed, FarRead
<1> QED
  BY <1>1, <1>2, <1>3, <1>4, <1>5 DEF Undisturbed

(* A READ that no change of memory_info overlaps, and no UPDATE or DELETE  *)
(* of its id, is not lost and answers with the content and the description *)
(* stored under its id, for any number of readers beside one writer.       *)
THEOREM QuietReadsStayRight ==
  ASSUME OneWriter
  PROVE  Spec => []QuietReadsAreRight
<1>1. Init => QuietInv
  BY Roles DEF Init, QuietInv, Idle
<1>2. OneWriterInv /\ QuietInv /\ [Next]_vars => QuietInv'
  BY QuietStep
<1>3. OneWriterInv /\ QuietInv => QuietReadsAreRight
  BY QuietIsRight
<1> QED
  BY <1>1, <1>2, <1>3, OneWriterStaysInvariant, PTL DEF Spec
=============================================================================
