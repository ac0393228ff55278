-------------------------- MODULE PoolObjectProofs --------------------------
(***************************************************************************)
(* Every method of the pool, called on a consistent object, leaves a       *)
(* consistent object, for every number of blocks, block size, content,     *)
(* description and id; what readers get of it then; and what a Load of a   *)
(* saved object brings back.  The lemmas come in this order: positions in  *)
(* a set of blocks (for Compact), objects and the blocks they own,         *)
(* Compact, the other operations with the arithmetic they need, the        *)
(* contents of memories, and loading.                                      *)
(***************************************************************************)
EXTENDS PoolFile, FiniteSetTheorems, WellFoundedInduction, TLAPS

(* Blocks is finite, and so is each set of blocks. *)
LEMMA BlocksFinite ==
  /\ IsFiniteSet(Blocks)
  /\ Cardinality(Blocks) = kBlockCount
  /\ \A S \in SUBSET Blocks : IsFiniteSet(S) /\ Cardinality(S) \in 0 .. kBlockCount
<1>1. kBlockCount \in Nat /\ kBlockCount - 1 \in Int /\ ~(0 > kBlockCount - 1)
  BY PoolAssumption
<1>2. IsFiniteSet(Blocks) /\ Cardinality(Blocks) = kBlockCount
  BY <1>1, FS_Interval DEF Blocks
<1> QED
  BY <1>1, <1>2, FS_Subset, FS_CardinalityType

(***************************************************************************)
(* Rank and Nth: the blocks of a set S in ascending order.                 *)
(***************************************************************************)
(* A rank counts blocks of S, so it is at most Cardinality(S). *)
LEMMA RankBelow ==
  ASSUME NEW S \in SUBSET Blocks, NEW b \in S
  PROVE  Rank(S, b) \in 0 .. Cardinality(S) - 1
<1> DEFINE L == {x \in S : x < b}
<1>1. IsFiniteSet(S) /\ IsFiniteSet(L) /\ Cardinality(L) \in Nat
  BY BlocksFinite, FS_CardinalityType
<1>2. b \notin L
  BY DEF Blocks
<1>3. Cardinality(L \cup {b}) = Cardinality(L) + 1
  BY <1>1, <1>2, FS_AddElement
<1>4. L \cup {b} \in SUBSET S
  OBVIOUS
<1>5. Cardinality(L \cup {b}) <= Cardinality(S) /\ Cardinality(S) \in Nat
  BY <1>1, <1>4, FS_Subset, FS_CardinalityType
<1> QED
  BY <1>1, <1>3, <1>5 DEF Rank

(* The rank grows with the block. *)
LEMMA RankIncreases ==
  ASSUME NEW S \in SUBSET Blocks, NEW a \in S, NEW b \in S, a < b
  PROVE  Rank(S, a) < Rank(S, b)
<1> DEFINE La == {y \in S : y < a}
           Lb == {y \in S : y < b}
<1>1. IsFiniteSet(La) /\ IsFiniteSet(Lb) /\ Cardinality(La) \in Nat
  BY BlocksFinite, FS_CardinalityType
<1>2. a \notin La
  BY DEF Blocks
<1>3. Cardinality(La \cup {a}) = Cardinality(La) + 1
  BY <1>1, <1>2, FS_AddElement
<1>4. \A y \in S : y \in Int
  BY PoolAssumption DEF Blocks
<1>5. La \cup {a} \in SUBSET Lb
  <2>1. \A y \in La : y \in S /\ y < b
    BY <1>4
  <2>2. a \in S /\ a < b
    OBVIOUS
  <2> QED
    BY <2>1, <2>2
<1>6. Cardinality(La \cup {a}) <= Cardinality(Lb) /\ Cardinality(Lb) \in Nat
  BY <1>1, <1>5, FS_Subset, FS_CardinalityType
<1> QED
  BY <1>1, <1>3, <1>6 DEF Rank

(* Every position below Cardinality(S) is the rank of exactly one block.   *)
LEMMA RankOnto ==
  ASSUME NEW S \in SUBSET Blocks, NEW r \in 0 .. Cardinality(S) - 1
  PROVE  Nth(S, r) \in S /\ Rank(S, Nth(S, r)) = r
<1> DEFINE f == [b \in S |-> Rank(S, b)]
           T == 0 .. Cardinality(S) - 1
<1>1. Cardinality(S) \in Nat
  BY BlocksFinite
<1>2. IsFiniteSet(T) /\ Cardinality(T) = Cardinality(S)
  BY <1>1, FS_Interval
<1>3. f \in [S -> T]
  BY RankBelow
<1>4. ASSUME NEW a \in DOMAIN f, NEW b \in DOMAIN f, f[a] = f[b] PROVE a = b
  <2>1. a \in S /\ b \in S /\ a \in Int /\ b \in Int /\ Rank(S, a) = Rank(S, b)
    BY <1>4 DEF Blocks
  <2>2. Rank(S, a) \in Int /\ Rank(S, b) \in Int
    BY <2>1, RankBelow
  <2> QED
    BY <2>1, <2>2, RankIncreases
<1>5. f \in Injection(S, T)
  BY <1>3, <1>4 DEF Injection, IsInjective
<1>6. f \in Surjection(S, T)
  BY <1>2, <1>5, FS_Injection
<1>7. \E b \in S : Rank(S, b) = r
  BY <1>6 DEF Surjection
<1> QED
  BY <1>7 DEF Nth

(* Nth is the inverse of Rank: each block of S is found again by its rank. *)
LEMMA NthOfRank ==
  ASSUME NEW S \in SUBSET Blocks, NEW b \in S
  PROVE  Nth(S, Rank(S, b)) = b
<1>1. Rank(S, b) \in 0 .. Cardinality(S) - 1
  BY RankBelow
<1> DEFINE a == Nth(S, Rank(S, b))
<1>2. a \in S /\ Rank(S, a) = Rank(S, b)
  BY <1>1, RankOnto
<1>3. a \in Int /\ b \in Int
  <2>1. \A y \in S : y \in Int
    BY PoolAssumption DEF Blocks
  <2> QED
    BY <1>2, <2>1
<1>4. Rank(S, a) \in Int /\ ~(a < b) /\ ~(b < a)
  BY <1>1, <1>2, <1>3, RankIncreases, BlocksFinite
<1> QED
  BY <1>3, <1>4

(* A run of blocks of S keeps its shape: its ranks are a run as well.      *)
LEMMA RankOfRun ==
  ASSUME NEW S \in SUBSET Blocks, NEW a \in Blocks, NEW k \in Nat,
         a .. (a + k) \subseteq S
  PROVE  Rank(S, a + k) = Rank(S, a) + k
<1> DEFINE L == {y \in S : y < a}
           R == a .. (a + k - 1)
           U == {y \in S : y < a + k}
<1>1. a \in Int /\ a + k \in Int /\ a + k - 1 \in Int /\ \A y \in S : y \in Int
  BY PoolAssumption DEF Blocks
<1>2. U = L \cup R
  <2>1. \A y \in U : y \in L \cup R
    BY <1>1
  <2>2. \A y \in L : y \in U
    BY <1>1
  <2>3. \A y \in R : y \in U
    BY <1>1
  <2> QED
    BY <2>1, <2>2, <2>3
<1>3. L \cap R = {}
  BY <1>1
<1>4. IsFiniteSet(L) /\ Cardinality(L) \in Nat
  BY BlocksFinite, FS_CardinalityType
<1>5. IsFiniteSet(R) /\ Cardinality(R) = k
  BY <1>1, FS_Interval
<1>6. Cardinality(U) = Cardinality(L) + Cardinality(R) - Cardinality(L \cap R)
  BY <1>2, <1>4, <1>5, FS_Union
<1>7. Cardinality(L \cap R) = 0
  BY <1>3, FS_EmptySet
<1> QED
  BY <1>4, <1>5, <1>6, <1>7 DEF Rank

(***************************************************************************)
(* Objects and the blocks they own.                                        *)
(***************************************************************************)
(* The fields of an object. *)
LEMMA PoolFields ==
  DOMAIN ResetPool =
    {"used_map", "meta", "free_block_count", "memory_info",
     "memory_last_modified_time", "next_memory_id_counter", "next_search_pos", "pool"}
  BY DEF ResetPool

(* The span of an entry starts at its first block. *)
LEMMA SpanFacts ==
  ASSUME NEW e \in Entries
  PROVE  /\ e.first \in Nat /\ e.second \in Nat /\ e.second >= 1
         /\ e.first \in Span(e)
         /\ \A b : b \in Span(e) <=> b \in Int /\ e.first <= b /\ b < e.first + e.second
  BY PoolAssumption DEF Entries, Span, Blocks

(* The bitmap of a consistent object is exactly the blocks its memories    *)
(* own, and the free count that of the others.                             *)
LEMMA UsedIsOwned ==
  ASSUME NEW p, HasPoolType(p), OwnsItsBlocks(p), LeaksNoBlock(p), CountsFreeBlocks(p)
  PROVE  /\ p.used_map = Owned(p)
         /\ Owned(p) \in SUBSET Blocks
         /\ FreePos(p) \in 0 .. kBlockCount
         /\ p.free_block_count = kBlockCount - FreePos(p)
<1>1. p.used_map = Owned(p)
  BY DEF OwnsItsBlocks, LeaksNoBlock, Owned
<1>2. Owned(p) \in SUBSET Blocks
  BY <1>1 DEF HasPoolType
<1>3. FreePos(p) \in 0 .. kBlockCount
  BY <1>2, BlocksFinite DEF FreePos
<1> QED
  BY <1>1, <1>2, <1>3 DEF FreePos, CountsFreeBlocks

(* Two memories of an object share no block. *)
LEMMA SpansAreDisjoint ==
  ASSUME NEW p, OwnsItsBlocks(p),
         NEW x \in DOMAIN p.memory_info, NEW y \in DOMAIN p.memory_info,
         NEW b \in Span(p.memory_info[x]), b \in Span(p.memory_info[y])
  PROVE  x = y
  BY DEF OwnsItsBlocks

(* What Compact assigns to each field. *)
LEMMA CompactFields ==
  ASSUME NEW p, HasPoolType(p)
  PROVE  /\ DOMAIN Compact(p) = DOMAIN p
         /\ Compact(p).used_map = MovedBits(p)
         /\ Compact(p).meta = MovedMeta(p)
         /\ Compact(p).free_block_count = kBlockCount - FreePos(p)
         /\ Compact(p).memory_info = [id \in DOMAIN p.memory_info |->
                                        MovedEntry(p, p.memory_info[id])]
         /\ Compact(p).memory_last_modified_time = p.memory_last_modified_time
         /\ Compact(p).next_memory_id_counter = p.next_memory_id_counter
         /\ Compact(p).next_search_pos = FreePos(p)
         /\ Compact(p).pool = MovedData(p)
  BY PoolFields DEF HasPoolType, Compact

(* Compaction moves each memory as a whole: block e.first + k of the       *)
(* memory goes to block Rank(e.first) + k.                                 *)
LEMMA MovedRun ==
  ASSUME NEW p, HasPoolType(p), OwnsItsBlocks(p), LeaksNoBlock(p), CountsFreeBlocks(p),
         NEW id \in DOMAIN p.memory_info
  PROVE  LET e == p.memory_info[id]
             m == MovedEntry(p, e)
         IN  /\ m \in Entries /\ m.second = e.second
             /\ \A b \in Span(e) : Rank(Owned(p), b) \in Span(m)
             /\ \A d \in Span(m) : d \in Packed(p) /\ Nth(Owned(p), d) \in Span(e)
             /\ Nth(Owned(p), m.first) = e.first
             /\ \A k \in 0 .. e.second - 1 :
                  m.first + k \in Packed(p) /\ Nth(Owned(p), m.first + k) = e.first + k
<1> DEFINE e == p.memory_info[id]
           m == MovedEntry(p, e)
           S == Owned(p)
<1>1. e \in Entries
  BY DEF HasPoolType
<1>2. S \in SUBSET Blocks /\ FreePos(p) \in 0 .. kBlockCount
  BY UsedIsOwned
<1>3. \A b \in Span(e) : b \in S
  BY DEF Owned
<1>4. m.first = Rank(S, e.first) /\ m.second = e.second /\ m = [first |-> m.first, second |-> m.second]
  BY <1>1 DEF MovedEntry, Entries
<1>5. ASSUME NEW k \in 0 .. e.second - 1
      PROVE  /\ e.first + k \in Span(e)
             /\ Rank(S, e.first + k) = m.first + k
             /\ Nth(S, m.first + k) = e.first + k
             /\ m.first + k \in Packed(p)
  <2>1. e.first + k \in Span(e) /\ e.first \in Blocks /\ k \in Nat
    BY <1>1, SpanFacts DEF Entries
  <2>2. \A b \in e.first .. (e.first + k) : b \in Span(e)
    BY <1>1, <2>1, SpanFacts
  <2>3. e.first .. (e.first + k) \subseteq S
    BY <1>3, <2>2
  <2>4. Rank(S, e.first + k) = Rank(S, e.first) + k
    BY <1>2, <2>1, <2>3, RankOfRun
  <2>5. e.first + k \in S
    BY <1>3, <2>1
  <2>6. Nth(S, Rank(S, e.first + k)) = e.first + k
    BY <1>2, <2>5, NthOfRank
  <2>7. Rank(S, e.first + k) \in 0 .. Cardinality(S) - 1
    BY <1>2, <2>5, RankBelow
  <2> QED
    BY <1>4, <2>1, <2>4, <2>6, <2>7 DEF Packed, FreePos
<1>6. e.first \in Nat /\ e.second \in Nat /\ e.second >= 1
  BY <1>1, SpanFacts
<1>7. m.first \in Packed(p) /\ Nth(S, m.first) = e.first
  <2>1. 0 \in 0 .. e.second - 1
    BY <1>6
  <2>2. e.first \in S
    BY <1>1, <1>3, SpanFacts
  <2>3. m.first \in 0 .. Cardinality(S) - 1
    BY <1>2, <1>4, <2>2, RankBelow
  <2> QED
    BY <1>2, <1>4, <2>2, <2>3, NthOfRank DEF Packed, FreePos
<1>8. m \in Entries
  BY <1>1, <1>2, <1>4, <1>7, PoolAssumption DEF Entries, Packed, Blocks
<1>9. ASSUME NEW b \in Span(e) PROVE Rank(S, b) \in Span(m)
  <2>1. b \in Int /\ e.first <= b /\ b < e.first + e.second
    BY <1>1, SpanFacts
  <2>2. PICK k \in 0 .. e.second - 1 : b = e.first + k
    <3>1. b - e.first \in 0 .. e.second - 1 /\ b = e.first + (b - e.first)
      BY <1>6, <2>1
    <3> QED
      BY <3>1
  <2>3. Rank(S, b) = m.first + k
    BY <1>5, <2>2
  <2>4. m.first \in Int
    BY <1>8, SpanFacts
  <2> QED
    BY <1>4, <1>6, <1>8, <2>2, <2>3, <2>4, SpanFacts
<1>10. ASSUME NEW d \in Span(m) PROVE d \in Packed(p) /\ Nth(S, d) \in Span(e)
  <2>1. d \in Int /\ m.first <= d /\ d < m.first + m.second /\ m.first \in Int
    BY <1>8, SpanFacts
  <2>2. PICK k \in 0 .. e.second - 1 : d = m.first + k
    <3>1. d - m.first \in 0 .. e.second - 1 /\ d = m.first + (d - m.first)
      BY <1>4, <1>6, <2>1
    <3> QED
      BY <3>1
  <2> QED
    BY <1>5, <2>2
<1> QED
  BY <1>4, <1>5, <1>7, <1>8, <1>9, <1>10

(* Compact keeps an object consistent, its ids and its id counter. *)
LEMMA CompactConsistent ==
  ASSUME NEW p, Consistent(p)
  PROVE  /\ Consistent(Compact(p))
         /\ DOMAIN Compact(p).memory_info = DOMAIN p.memory_info
         /\ Compact(p).next_memory_id_counter = p.next_memory_id_counter
         /\ \A id \in DOMAIN p.memory_info : DescriptionOf(Compact(p), id) = DescriptionOf(p, id)
<1> DEFINE q == Compact(p)
           S == Owned(p)
<1>0. /\ HasPoolType(p) /\ OwnsItsBlocks(p) /\ LeaksNoBlock(p) /\ CountsFreeBlocks(p)
      /\ DescribesEvenly(p) /\ HandsOutFreshIds(p)
  BY DEF Consistent
<1>F. /\ DOMAIN q = DOMAIN p
      /\ q.used_map = MovedBits(p)
      /\ q.meta = MovedMeta(p)
      /\ q.free_block_count = kBlockCount - FreePos(p)
      /\ q.memory_info = [id \in DOMAIN p.memory_info |-> MovedEntry(p, p.memory_info[id])]
      /\ q.memory_last_modified_time = p.memory_last_modified_time
      /\ q.next_memory_id_counter = p.next_memory_id_counter
      /\ q.next_search_pos = FreePos(p)
      /\ q.pool = MovedData(p)
  BY <1>0, CompactFields
<1> HIDE DEF q
<1>1. /\ p.used_map = S /\ S \in SUBSET Blocks
      /\ FreePos(p) \in 0 .. kBlockCount /\ FreePos(p) = Cardinality(S)
  BY <1>0, UsedIsOwned DEF FreePos
<1>2. q.used_map = Packed(p) /\ \A b \in Packed(p) : b \in Blocks
  <2>1. q.used_map = Packed(p)
    BY <1>1, <1>F DEF MovedBits
  <2> QED
    BY <1>1, <2>1, PoolAssumption DEF Packed, Blocks
<1>3. DOMAIN q.memory_info = DOMAIN p.memory_info
  BY <1>0, <1>F
<1>4. \A id \in DOMAIN p.memory_info : q.memory_info[id] = MovedEntry(p, p.memory_info[id])
  BY <1>0, <1>F
<1>5. \A d \in Packed(p) : q.meta[d] = p.meta[Nth(S, d)] /\ Nth(S, d) \in S /\ Rank(S, Nth(S, d)) = d
  <2>1. \A d \in Packed(p) : Nth(S, d) \in S /\ Rank(S, Nth(S, d)) = d
    BY <1>1, RankOnto DEF Packed
  <2> QED
    BY <1>0, <1>2, <2>1, <1>F DEF MovedMeta
<1>6. HasPoolType(q)
  <2>1. DOMAIN q = DOMAIN ResetPool /\ q.used_map \subseteq Blocks
    BY <1>0, <1>2, <1>F DEF HasPoolType
  <2>2. q.meta \in [Blocks -> Metas]
    <3>1. BlockMeta \in Metas
      BY DEF BlockMeta, Metas
    <3>2. \A b \in Packed(p) : p.meta[Nth(S, b)] \in Metas
      BY <1>0, <1>1, <1>5 DEF HasPoolType
    <3> QED
      BY <1>0, <3>1, <3>2, <1>F DEF MovedMeta, HasPoolType
  <2>3. q.pool \in [Blocks -> Chunks]
    <3>1. \A b \in Packed(p) : p.pool[Nth(S, b)] \in Chunks
      BY <1>0, <1>1, <1>5 DEF HasPoolType
    <3> QED
      BY <1>0, <3>1, <1>F DEF MovedData, HasPoolType
  <2>4. q.free_block_count \in 0 .. kBlockCount /\ q.next_search_pos \in 0 .. kBlockCount
    BY <1>0, <1>1, PoolAssumption, <1>F
  <2>5. q.memory_info \in [DOMAIN q.memory_info -> Entries]
    BY <1>0, MovedRun, <1>F
  <2> QED
    BY <1>0, <1>3, <2>1, <2>2, <2>3, <2>4, <2>5, <1>F DEF HasPoolType
<1>7. ASSUME NEW id \in DOMAIN p.memory_info, NEW d \in Span(q.memory_info[id])
      PROVE  d \in Packed(p) /\ q.meta[d] = p.meta[Nth(S, d)] /\ Nth(S, d) \in Span(p.memory_info[id])
  BY <1>0, <1>4, <1>5, MovedRun
<1>8. OwnsItsBlocks(q)
  BY <1>0, <1>2, <1>3, <1>7 DEF OwnsItsBlocks
<1>9. \A id \in DOMAIN p.memory_info : DescriptionOf(q, id) = DescriptionOf(p, id)
  <2> SUFFICES ASSUME NEW id \in DOMAIN p.memory_info
               PROVE  DescriptionOf(q, id) = DescriptionOf(p, id)
    OBVIOUS
  <2>1. q.memory_info[id] \in Entries
    BY <1>3, <1>6 DEF HasPoolType
  <2>2. q.memory_info[id].first \in Span(q.memory_info[id])
    BY <2>1, SpanFacts
  <2>3. Nth(S, q.memory_info[id].first) = p.memory_info[id].first
    BY <1>0, <1>4, MovedRun
  <2> QED
    BY <1>7, <2>2, <2>3 DEF DescriptionOf
<1>10. DescribesEvenly(q)
  BY <1>0, <1>3, <1>7, <1>9 DEF DescribesEvenly
<1>11. LeaksNoBlock(q)
  <2>1. ASSUME NEW d \in Packed(p) PROVE d \in Owned(q)
    <3>0. \A b \in S : \E id \in DOMAIN p.memory_info : b \in Span(p.memory_info[id])
      BY DEF Owned
    <3>1. PICK id \in DOMAIN p.memory_info : Nth(S, d) \in Span(p.memory_info[id])
      BY <1>5, <3>0
    <3>2. Rank(S, Nth(S, d)) \in Span(MovedEntry(p, p.memory_info[id]))
      BY <1>0, <3>1, MovedRun
    <3>3. d \in Span(q.memory_info[id])
      BY <1>4, <1>5, <3>2
    <3> QED
      BY <1>3, <3>3 DEF Owned
  <2>2. ASSUME NEW b \in Blocks, b \notin Packed(p) PROVE ~ q.meta[b].used
    <3>1. b \notin S => ~ p.meta[b].used
      BY <1>0, <1>1 DEF LeaksNoBlock
    <3>2. q.meta[b] = IF b \in S THEN BlockMeta ELSE p.meta[b]
      BY <1>0, <2>2, <1>F DEF MovedMeta
    <3> QED
      BY <3>1, <3>2 DEF BlockMeta
  <2> QED
    BY <1>2, <2>1, <2>2 DEF LeaksNoBlock
<1>12. CountsFreeBlocks(q)
  <2>1. Cardinality(Packed(p)) = FreePos(p)
    <3> DEFINE last == FreePos(p) - 1
    <3>1. FreePos(p) \in Nat /\ 0 \in Int /\ last \in Int
      BY <1>1
    <3>2. Packed(p) = 0 .. last
      BY DEF Packed
    <3>3. Cardinality(0 .. last) = IF 0 > last THEN 0 ELSE last - 0 + 1
      <4> HIDE DEF last
      <4> QED
        BY <3>1, FS_Interval
    <3> QED
      BY <3>1, <3>2, <3>3
  <2> QED
    BY <1>0, <1>2, <2>1, <1>F DEF CountsFreeBlocks
<1>13. HandsOutFreshIds(q)
  BY <1>0, <1>3, <1>F DEF HandsOutFreshIds
<1> QED
  BY <1>0, <1>3, <1>6, <1>8, <1>9, <1>10, <1>11, <1>12, <1>13, <1>F DEF q, Consistent

(***************************************************************************)
(* The operations.                                                         *)
(***************************************************************************)
(* A reset object is consistent. *)
LEMMA ResetConsistent == Consistent(ResetPool)
<1> DEFINE q == ResetPool
<1>1. /\ q.used_map = {} /\ q.meta = [b \in Blocks |-> BlockMeta]
      /\ q.free_block_count = kBlockCount /\ DOMAIN q.memory_info = {}
      /\ q.memory_last_modified_time = {} /\ q.next_memory_id_counter = 1
      /\ q.next_search_pos = 0 /\ q.pool = [b \in Blocks |-> ZeroChunk]
  BY DEF ResetPool
<1>2. q.memory_info \in [DOMAIN q.memory_info -> Entries]
  BY DEF ResetPool
<1> HIDE DEF q
<1>3. HasPoolType(q)
  <2>1. BlockMeta \in Metas
    BY DEF BlockMeta, Metas
  <2>2. ZeroChunk \in Chunks
    BY PoolAssumption DEF ZeroChunk, Chunk, Chunks
  <2>3. DOMAIN q = DOMAIN ResetPool
    BY DEF q
  <2> QED
    BY <1>1, <1>2, <2>1, <2>2, <2>3, PoolAssumption DEF HasPoolType
<1>4. OwnsItsBlocks(q) /\ DescribesEvenly(q) /\ HandsOutFreshIds(q)
  BY <1>1 DEF OwnsItsBlocks, DescribesEvenly, HandsOutFreshIds
<1>5. LeaksNoBlock(q)
  BY <1>1 DEF LeaksNoBlock, BlockMeta
<1>6. CountsFreeBlocks(q)
  BY <1>1, FS_EmptySet, PoolAssumption DEF CountsFreeBlocks
<1> QED
  BY <1>3, <1>4, <1>5, <1>6 DEF q, Consistent

(* GenerateNextMemoryId keeps an object consistent and makes the old       *)
(* counter an unused id.                                                   *)
LEMMA GenerateConsistent ==
  ASSUME NEW p, Consistent(p)
  PROVE  /\ Consistent(GenerateNextMemoryId(p))
         /\ GenerateNextMemoryId(p).memory_info = p.memory_info
         /\ GenerateNextMemoryId(p).next_memory_id_counter = p.next_memory_id_counter + 1
         /\ p.next_memory_id_counter \in Nat \ {0}
         /\ p.next_memory_id_counter \notin DOMAIN p.memory_info
<1> DEFINE q == GenerateNextMemoryId(p)
<1>0. /\ HasPoolType(p) /\ OwnsItsBlocks(p) /\ LeaksNoBlock(p) /\ CountsFreeBlocks(p)
      /\ DescribesEvenly(p) /\ HandsOutFreshIds(p)
  BY DEF Consistent
<1>F. /\ DOMAIN q = DOMAIN p
      /\ q.used_map = p.used_map /\ q.meta = p.meta /\ q.memory_info = p.memory_info
      /\ q.free_block_count = p.free_block_count /\ q.pool = p.pool
      /\ q.memory_last_modified_time = p.memory_last_modified_time
      /\ q.next_search_pos = p.next_search_pos
      /\ q.next_memory_id_counter = p.next_memory_id_counter + 1
  BY <1>0, PoolFields DEF HasPoolType, GenerateNextMemoryId
<1> HIDE DEF q
<1>1. HasPoolType(q)
  BY <1>0, <1>F DEF HasPoolType
<1>2. OwnsItsBlocks(q) /\ CountsFreeBlocks(q) /\ DescribesEvenly(q)
  BY <1>0, <1>F DEF OwnsItsBlocks, CountsFreeBlocks, DescribesEvenly, DescriptionOf
<1>3. LeaksNoBlock(q)
  BY <1>0, <1>F DEF LeaksNoBlock, Owned
<1>4. HandsOutFreshIds(q)
  BY <1>0, <1>F DEF HandsOutFreshIds, HasPoolType
<1>5. p.next_memory_id_counter \in Nat \ {0} /\ p.next_memory_id_counter \notin DOMAIN p.memory_info
  BY <1>0 DEF HandsOutFreshIds, HasPoolType
<1> QED
  BY <1>1, <1>2, <1>3, <1>4, <1>5, <1>F DEF q, Consistent

(* The description an update keeps is one of a memory or of a cleared block. *)
LEMMA DescriptionKept ==
  ASSUME NEW p, Consistent(p), NEW id \in DOMAIN p.memory_info
  PROVE  DescriptionOf(p, id) \in Descriptions \cup {NoDescription}
<1>1. p.memory_info[id].first \in Blocks
  BY DEF Consistent, HasPoolType, Entries
<1>2. p.meta[p.memory_info[id].first] \in Metas
  BY <1>1 DEF Consistent, HasPoolType
<1> QED
  BY <1>2 DEF DescriptionOf, Metas

(* A nonempty set of blocks has a least one, so Min picks it. *)
LEMMA LeastBlock ==
  ASSUME NEW S \in SUBSET Blocks, S /= {}
  PROVE  Min(S) \in S /\ \A y \in S : Min(S) <= y
<1> DEFINE m == Nth(S, 0)
           L == {x \in S : x < m}
<1>1. IsFiniteSet(S) /\ Cardinality(S) \in Nat /\ Cardinality(S) /= 0
  BY BlocksFinite, FS_EmptySet
<1>2. m \in S /\ Rank(S, m) = 0
  BY <1>1, RankOnto
<1>3. IsFiniteSet(L) /\ Cardinality(L) = 0
  BY <1>1, <1>2, FS_Subset DEF Rank
<1>4. L = {}
  BY <1>3, FS_EmptySet
<1>5. \A y \in S : y \in Int
  BY PoolAssumption DEF Blocks
<1>6. \A y \in S : m <= y
  BY <1>2, <1>4, <1>5
<1> QED
  BY <1>2, <1>6 DEF Min

(* What a successful search returns is the start of n free blocks. *)
LEMMA FoundRun ==
  ASSUME NEW p, HasPoolType(p), NEW n \in Nat \ {0},
         FindContinuousFreeBlock(p, n) /= NotFound
  PROVE  LET s == FindContinuousFreeBlock(p, n)
         IN  /\ s \in Blocks /\ s + n <= kBlockCount
             /\ s .. (s + n - 1) \cap p.used_map = {}
             /\ n <= p.free_block_count
<1>1. FreeRuns(p, n) /= {} /\ n <= p.free_block_count
  BY DEF FindContinuousFreeBlock, HasPoolType
<1>2. \A s \in FreeRuns(p, n) :
        s \in Nat /\ s \in Blocks /\ s + n <= kBlockCount /\ s .. (s + n - 1) \cap p.used_map = {}
  BY PoolAssumption DEF FreeRuns, HasPoolType, Blocks
<1>3. Min(FreeRuns(p, n)) \in FreeRuns(p, n)
  BY <1>1, <1>2, LeastBlock
<1> QED
  BY <1>1, <1>2, <1>3 DEF FindContinuousFreeBlock

(* Contents take at least one block; an in-place update no more than the   *)
(* memory has.                                                             *)
LEMMA DivLower ==
  ASSUME NEW a \in Nat, NEW b \in Nat \ {0}
  PROVE  (a + b) \div b \in Nat /\ (a + b) \div b >= 1
  OBVIOUS

(* An allocation asks for at least one block. *)
LEMMA RequiredAtLeastOne ==
  ASSUME NEW c \in Contents
  PROVE  RequiredBlocks(c) \in Nat \ {0}
<1>1. c.size \in Nat /\ kBlockSize \in Nat \ {0}
  BY PoolAssumption DEF Contents
<1>2. (c.size + kBlockSize) \div kBlockSize \in Nat /\ (c.size + kBlockSize) \div kBlockSize >= 1
  BY <1>1, DivLower, Zenon
<1> QED
  BY <1>2 DEF RequiredBlocks

(* A quotient is below m when the dividend is below m divisors. *)
LEMMA DivUpper ==
  ASSUME NEW a \in Nat \ {0}, NEW b \in Nat \ {0}, NEW m \in Nat \ {0}, a <= m * b
  PROVE  (a + b - 1) \div b \in 1 .. m
<1> DEFINE q == (a + b - 1) \div b
<1>1. q \in Nat /\ q * b <= a + b - 1 /\ a + b - 1 < (q + 1) * b
  OBVIOUS
<1>2. q >= 1
  BY <1>1
<1>3. ASSUME q > m PROVE FALSE
  <2>1. q * b >= (m + 1) * b
    BY <1>1, <1>3
  <2>2. (m + 1) * b = m * b + b
    OBVIOUS
  <2> QED
    BY <1>1, <2>1, <2>2
<1> QED
  BY <1>1, <1>2, <1>3

(* A content that fits the blocks of an entry touches 1 to e.second of them. *)
LEMMA CeilFits ==
  ASSUME NEW c \in Contents, NEW m \in Nat \ {0}, c.size > 0, c.size <= m * kBlockSize
  PROVE  CeilBlocks(c) \in 1 .. m
<1>1. c.size \in Nat /\ kBlockSize \in Nat \ {0}
  BY PoolAssumption DEF Contents
<1>2. c.size \in Nat \ {0}
  BY <1>1
<1> QED
  BY <1>1, <1>2, DivUpper, Zenon DEF CeilBlocks

(* What FreeByMemoryId assigns to each field. *)
LEMMA FreeFields ==
  ASSUME NEW p, HasPoolType(p), NEW id \in DOMAIN p.memory_info
  PROVE  LET q == FreeByMemoryId(p, id)
             e == p.memory_info[id]
         IN  /\ DOMAIN q = DOMAIN p
             /\ q.used_map = p.used_map \ Span(e)
             /\ q.meta = [b \in Blocks |-> IF b \in Span(e) THEN BlockMeta ELSE p.meta[b]]
             /\ q.memory_info = [x \in DOMAIN p.memory_info \ {id} |-> p.memory_info[x]]
             /\ q.memory_last_modified_time = p.memory_last_modified_time \ {id}
             /\ q.free_block_count = p.free_block_count + e.second
             /\ q.next_memory_id_counter = p.next_memory_id_counter
             /\ q.next_search_pos = IF e.first < p.next_search_pos THEN e.first ELSE p.next_search_pos
             /\ q.pool = p.pool
  BY PoolFields DEF HasPoolType, FreeByMemoryId, Erased, Restrict

(* A span inside the bitmap, taken out of it. *)
LEMMA SpanCardinality ==
  ASSUME NEW e \in Entries, Span(e) \subseteq Blocks
  PROVE  IsFiniteSet(Span(e)) /\ Cardinality(Span(e)) = e.second
<1> DEFINE last == e.first + e.second - 1
<1>1. e.first \in Int /\ e.second \in Int /\ e.second >= 1 /\ last \in Int
  BY SpanFacts
<1>2. Span(e) = e.first .. last
  BY DEF Span
<1>3. /\ IsFiniteSet(e.first .. last)
      /\ Cardinality(e.first .. last) = IF e.first > last THEN 0 ELSE last - e.first + 1
  <2> HIDE DEF last
  <2> QED
    BY <1>1, FS_Interval
<1> QED
  BY <1>1, <1>2, <1>3

(* FreeByMemoryId keeps an object consistent and removes just the id. *)
LEMMA FreeConsistent ==
  ASSUME NEW p, Consistent(p), NEW id \in DOMAIN p.memory_info
  PROVE  /\ Consistent(FreeByMemoryId(p, id))
         /\ DOMAIN FreeByMemoryId(p, id).memory_info = DOMAIN p.memory_info \ {id}
         /\ FreeByMemoryId(p, id).next_memory_id_counter = p.next_memory_id_counter
<1> DEFINE q == FreeByMemoryId(p, id)
           e == p.memory_info[id]
<1>0. /\ HasPoolType(p) /\ OwnsItsBlocks(p) /\ LeaksNoBlock(p) /\ CountsFreeBlocks(p)
      /\ DescribesEvenly(p) /\ HandsOutFreshIds(p)
  BY DEF Consistent
<1>F. /\ DOMAIN q = DOMAIN p
      /\ q.used_map = p.used_map \ Span(e)
      /\ q.meta = [b \in Blocks |-> IF b \in Span(e) THEN BlockMeta ELSE p.meta[b]]
      /\ q.memory_info = [x \in DOMAIN p.memory_info \ {id} |-> p.memory_info[x]]
      /\ q.memory_last_modified_time = p.memory_last_modified_time \ {id}
      /\ q.free_block_count = p.free_block_count + e.second
      /\ q.next_memory_id_counter = p.next_memory_id_counter
      /\ q.next_search_pos = IF e.first < p.next_search_pos THEN e.first ELSE p.next_search_pos
      /\ q.pool = p.pool
  BY <1>0, FreeFields
<1> HIDE DEF q
<1>1. e \in Entries /\ Span(e) \subseteq p.used_map /\ p.used_map \subseteq Blocks
  BY <1>0 DEF HasPoolType, OwnsItsBlocks
<1>2. q.free_block_count = kBlockCount - Cardinality(q.used_map) /\ q.free_block_count \in 0 .. kBlockCount
  <2>1. Cardinality(Span(e)) = e.second /\ IsFiniteSet(Span(e))
    BY <1>1, SpanCardinality
  <2>2. IsFiniteSet(p.used_map) /\ Cardinality(p.used_map) \in Nat
    BY <1>1, BlocksFinite
  <2>3. Cardinality(p.used_map \ Span(e)) = Cardinality(p.used_map) - Cardinality(p.used_map \cap Span(e))
    BY <2>2, FS_Difference
  <2>4. p.used_map \cap Span(e) = Span(e)
    BY <1>1
  <2>7. Cardinality(q.used_map) = Cardinality(p.used_map) - e.second
    BY <1>F, <2>1, <2>3, <2>4
  <2>5. Cardinality(q.used_map) \in 0 .. kBlockCount
    BY <1>1, <1>F, BlocksFinite
  <2>6. e.second \in Int /\ p.free_block_count = kBlockCount - Cardinality(p.used_map)
    BY <1>0, <1>1, SpanFacts DEF CountsFreeBlocks
  <2> QED
    BY <1>F, <2>2, <2>7, <2>5, <2>6, PoolAssumption
<1>3. HasPoolType(q)
  <2>1. BlockMeta \in Metas
    BY DEF BlockMeta, Metas
  <2>2. q.next_search_pos \in 0 .. kBlockCount
    BY <1>0, <1>1, <1>F, PoolAssumption DEF HasPoolType, Entries, Blocks
  <2>3. q.memory_info \in [DOMAIN q.memory_info -> Entries]
    BY <1>0, <1>F DEF HasPoolType
  <2>4. q.meta \in [Blocks -> Metas]
    BY <1>0, <1>F, <2>1 DEF HasPoolType
  <2> QED
    BY <1>0, <1>2, <1>F, <2>2, <2>3, <2>4 DEF HasPoolType
<1>4. ASSUME NEW x \in DOMAIN q.memory_info
      PROVE  /\ x \in DOMAIN p.memory_info /\ q.memory_info[x] = p.memory_info[x]
             /\ \A b \in Span(p.memory_info[x]) :
                  b \in Blocks /\ b \notin Span(e) /\ q.meta[b] = p.meta[b]
  <2>1. x \in DOMAIN p.memory_info /\ x /= id /\ q.memory_info[x] = p.memory_info[x]
    BY <1>F
  <2>2. \A b \in Span(p.memory_info[x]) : b \in Blocks /\ b \notin Span(e)
    BY <1>0, <1>1, <2>1, SpansAreDisjoint DEF OwnsItsBlocks
  <2> QED
    BY <1>F, <2>1, <2>2
<1>5. OwnsItsBlocks(q)
  <2> SUFFICES ASSUME NEW x \in DOMAIN q.memory_info, NEW b \in Span(q.memory_info[x])
               PROVE  b \in q.used_map /\ q.meta[b].used /\ q.meta[b].memory_id = x
    BY DEF OwnsItsBlocks
  <2>1. x \in DOMAIN p.memory_info /\ b \in Span(p.memory_info[x])
    BY <1>4
  <2>2. b \in p.used_map /\ p.meta[b].used /\ p.meta[b].memory_id = x
    BY <1>0, <2>1 DEF OwnsItsBlocks
  <2>3. b \notin Span(e) /\ q.meta[b] = p.meta[b]
    BY <1>4, <2>1
  <2> QED
    BY <1>F, <2>2, <2>3
<1>6. LeaksNoBlock(q)
  <2>1. ASSUME NEW b \in q.used_map PROVE b \in Owned(q)
    <3>1. PICK x \in DOMAIN p.memory_info : b \in Span(p.memory_info[x])
      BY <1>0, <1>F DEF LeaksNoBlock, Owned
    <3>2. x /= id
      BY <1>F, <3>1
    <3> QED
      BY <1>F, <3>1, <3>2 DEF Owned
  <2>2. ASSUME NEW b \in Blocks, q.meta[b].used PROVE b \in q.used_map
    BY <1>0, <1>F, <2>2 DEF LeaksNoBlock, BlockMeta
  <2> QED
    BY <2>1, <2>2 DEF LeaksNoBlock
<1>7. DescribesEvenly(q)
  <2> SUFFICES ASSUME NEW x \in DOMAIN q.memory_info, NEW b \in Span(q.memory_info[x])
               PROVE  q.meta[b].description = DescriptionOf(q, x)
    BY DEF DescribesEvenly
  <2>1. q.memory_info[x].first \in Span(q.memory_info[x])
    BY <1>3, SpanFacts DEF HasPoolType
  <2> QED
    BY <1>0, <1>4, <2>1 DEF DescribesEvenly, DescriptionOf
<1>8. HandsOutFreshIds(q)
  BY <1>0, <1>F DEF HandsOutFreshIds
<1> QED
  BY <1>2, <1>3, <1>5, <1>6, <1>7, <1>8, <1>F DEF q, Consistent, CountsFreeBlocks

(* Writing a content into a run of free blocks that the search found. *)
LEMMA PlaceConsistent ==
  ASSUME NEW p, Consistent(p), NEW c \in Contents,
         NEW id \in Nat \ {0}, id \notin DOMAIN p.memory_info, id < p.next_memory_id_counter,
         NEW desc \in Descriptions \cup {NoDescription},
         NEW start, start = FindContinuousFreeBlock(p, RequiredBlocks(c)), start /= NotFound
  PROVE  /\ Consistent(Place(p, start, id, desc, c))
         /\ DOMAIN Place(p, start, id, desc, c).memory_info = DOMAIN p.memory_info \cup {id}
         /\ Place(p, start, id, desc, c).next_memory_id_counter = p.next_memory_id_counter
<1> DEFINE q == Place(p, start, id, desc, c)
           n == RequiredBlocks(c)
           e == [first |-> start, second |-> n]
           mine == [used |-> TRUE, memory_id |-> id, description |-> desc]
<1>0. /\ HasPoolType(p) /\ OwnsItsBlocks(p) /\ LeaksNoBlock(p) /\ CountsFreeBlocks(p)
      /\ DescribesEvenly(p) /\ HandsOutFreshIds(p)
  BY DEF Consistent
<1>F. /\ DOMAIN q = DOMAIN p
      /\ q.used_map = p.used_map \cup Span(e)
      /\ q.meta = [b \in Blocks |-> IF b \in Span(e) THEN mine ELSE p.meta[b]]
      /\ q.memory_info = [x \in DOMAIN p.memory_info \cup {id} |->
                            IF x = id THEN e ELSE p.memory_info[x]]
      /\ q.memory_last_modified_time = p.memory_last_modified_time \cup {id}
      /\ q.free_block_count = p.free_block_count - n
      /\ q.next_memory_id_counter = p.next_memory_id_counter
      /\ q.next_search_pos = start + n
      /\ q.pool = [b \in Blocks |-> IF b \in Span(e) THEN Chunk(c, b - start) ELSE p.pool[b]]
  BY <1>0, PoolFields DEF HasPoolType, Place
<1>1. n \in Nat \ {0}
  BY RequiredAtLeastOne
<1>2. /\ start \in Blocks /\ start + n <= kBlockCount
      /\ start .. (start + n - 1) \cap p.used_map = {}
      /\ n <= p.free_block_count
  BY <1>0, <1>1, FoundRun
<1> HIDE DEF q, n
<1>3. /\ start \in Nat /\ p.used_map \subseteq Blocks
      /\ p.free_block_count \in Nat /\ p.free_block_count <= kBlockCount
  BY <1>0, <1>2, PoolAssumption DEF Blocks, HasPoolType
<1>4. e \in Entries /\ e.first = start /\ e.second = n
  BY <1>1, <1>2, <1>3, PoolAssumption DEF Entries
<1>5. \A b \in Span(e) : b \in Blocks /\ b \notin p.used_map /\ b - start \in 0 .. kBlockCount
  BY <1>1, <1>2, <1>3, PoolAssumption DEF Span, Blocks
<1>6. q.free_block_count = kBlockCount - Cardinality(q.used_map) /\ q.free_block_count \in 0 .. kBlockCount
  <2>1. Cardinality(Span(e)) = n /\ IsFiniteSet(Span(e))
    BY <1>4, <1>5, SpanCardinality
  <2>2. IsFiniteSet(p.used_map) /\ Cardinality(p.used_map) \in Nat
    BY <1>3, BlocksFinite
  <2>3. Cardinality(p.used_map \cup Span(e))
          = Cardinality(p.used_map) + Cardinality(Span(e)) - Cardinality(p.used_map \cap Span(e))
    BY <2>1, <2>2, FS_Union
  <2>4. p.used_map \cap Span(e) = {}
    BY <1>5
  <2>5. Cardinality(p.used_map \cap Span(e)) = 0
    BY <2>4, FS_EmptySet
  <2>6. Cardinality(q.used_map) = Cardinality(p.used_map) + n
    BY <1>1, <1>F, <2>1, <2>2, <2>3, <2>5
  <2>7. p.free_block_count = kBlockCount - Cardinality(p.used_map)
    BY <1>0 DEF CountsFreeBlocks
  <2> QED
    BY <1>1, <1>2, <1>3, <1>F, <2>2, <2>6, <2>7, PoolAssumption
<1>7. HasPoolType(q)
  <2>1. mine \in Metas
    BY DEF Metas
  <2>2. q.meta \in [Blocks -> Metas]
    BY <1>0, <1>F, <2>1 DEF HasPoolType
  <2>3. q.pool \in [Blocks -> Chunks]
    <3>1. \A b \in Span(e) : Chunk(c, b - start) \in Chunks
      BY <1>5 DEF Chunk, Chunks
    <3> QED
      BY <1>0, <1>F, <3>1 DEF HasPoolType
  <2>4. q.memory_info \in [DOMAIN q.memory_info -> Entries] /\ DOMAIN q.memory_info \subseteq Nat \ {0}
    BY <1>0, <1>4, <1>F DEF HasPoolType
  <2>5. q.next_search_pos \in 0 .. kBlockCount
    BY <1>1, <1>2, <1>3, <1>F, PoolAssumption
  <2>6. q.used_map \subseteq Blocks
    BY <1>3, <1>5, <1>F
  <2>7. q.memory_last_modified_time \subseteq Nat /\ q.next_memory_id_counter \in Nat \ {0} /\ DOMAIN q = DOMAIN ResetPool
    BY <1>0, <1>F DEF HasPoolType
  <2> QED
    BY <1>6, <2>2, <2>3, <2>4, <2>5, <2>6, <2>7 DEF HasPoolType
<1>8. ASSUME NEW x \in DOMAIN p.memory_info
      PROVE  /\ x \in DOMAIN q.memory_info /\ x /= id /\ q.memory_info[x] = p.memory_info[x]
             /\ \A b \in Span(p.memory_info[x]) :
                  b \in Blocks /\ b \in p.used_map /\ b \notin Span(e) /\ q.meta[b] = p.meta[b]
  <2>1. x \in DOMAIN q.memory_info /\ x /= id /\ q.memory_info[x] = p.memory_info[x]
    BY <1>F
  <2>2. \A b \in Span(p.memory_info[x]) : b \in p.used_map
    BY <1>0 DEF OwnsItsBlocks
  <2> QED
    BY <1>3, <1>5, <1>F, <2>1, <2>2
<1>9. /\ DOMAIN q.memory_info = DOMAIN p.memory_info \cup {id} /\ q.memory_info[id] = e
      /\ \A b \in Span(e) : b \in q.used_map /\ q.meta[b] = mine
  BY <1>5, <1>F
<1>10. OwnsItsBlocks(q)
  <2> SUFFICES ASSUME NEW x \in DOMAIN q.memory_info, NEW b \in Span(q.memory_info[x])
               PROVE  b \in q.used_map /\ q.meta[b].used /\ q.meta[b].memory_id = x
    BY DEF OwnsItsBlocks
  <2>1. CASE x = id
    BY <1>9, <2>1
  <2>2. CASE x \in DOMAIN p.memory_info
    <3>1. b \in Span(p.memory_info[x])
      BY <1>8, <2>2
    <3>2. b \in p.used_map /\ q.meta[b] = p.meta[b]
      BY <1>8, <2>2, <3>1
    <3>3. p.meta[b].used /\ p.meta[b].memory_id = x
      BY <1>0, <2>2, <3>1 DEF OwnsItsBlocks
    <3> QED
      BY <1>F, <3>2, <3>3
  <2> QED
    BY <1>9, <2>1, <2>2
<1>11. LeaksNoBlock(q)
  <2>1. ASSUME NEW b \in q.used_map PROVE b \in Owned(q)
    <3>1. CASE b \in Span(e)
      BY <1>9, <3>1 DEF Owned
    <3>2. CASE b \in p.used_map
      <4>1. PICK x \in DOMAIN p.memory_info : b \in Span(p.memory_info[x])
        BY <1>0, <3>2 DEF LeaksNoBlock, Owned
      <4> QED
        BY <1>8, <4>1 DEF Owned
    <3> QED
      BY <1>F, <3>1, <3>2
  <2>2. ASSUME NEW b \in Blocks, q.meta[b].used PROVE b \in q.used_map
    BY <1>0, <1>F, <2>2 DEF LeaksNoBlock
  <2> QED
    BY <2>1, <2>2 DEF LeaksNoBlock
<1>12. DescribesEvenly(q)
  <2> SUFFICES ASSUME NEW x \in DOMAIN q.memory_info, NEW b \in Span(q.memory_info[x])
               PROVE  q.meta[b].description = q.meta[q.memory_info[x].first].description
    BY DEF DescribesEvenly, DescriptionOf
  <2>1. q.memory_info[x].first \in Span(q.memory_info[x])
    BY <1>7, SpanFacts DEF HasPoolType
  <2>2. CASE x = id
    BY <1>9, <2>1, <2>2
  <2>3. CASE x \in DOMAIN p.memory_info
    BY <1>0, <1>8, <2>1, <2>3 DEF DescribesEvenly, DescriptionOf
  <2> QED
    BY <1>9, <2>2, <2>3
<1>13. HandsOutFreshIds(q)
  BY <1>0, <1>F DEF HandsOutFreshIds
<1> QED
  BY <1>6, <1>7, <1>9, <1>10, <1>11, <1>12, <1>13, <1>F DEF q, Consistent, CountsFreeBlocks

(* The console's in-place update. *)
LEMMA OverwriteConsistent ==
  ASSUME NEW p, Consistent(p), NEW id \in DOMAIN p.memory_info, NEW c \in Contents,
         c.size > 0, c.size <= p.memory_info[id].second * kBlockSize
  PROVE  /\ Consistent(OverwriteInPlace(p, id, c))
         /\ DOMAIN OverwriteInPlace(p, id, c).memory_info = DOMAIN p.memory_info
         /\ OverwriteInPlace(p, id, c).next_memory_id_counter = p.next_memory_id_counter
<1> DEFINE q == OverwriteInPlace(p, id, c)
           e == p.memory_info[id]
           n == CeilBlocks(c)
           m == [e EXCEPT !.second = n]
           T == GivenBack(e, n)
<1>0. /\ HasPoolType(p) /\ OwnsItsBlocks(p) /\ LeaksNoBlock(p) /\ CountsFreeBlocks(p)
      /\ DescribesEvenly(p) /\ HandsOutFreshIds(p)
  BY DEF Consistent
<1>F. /\ DOMAIN q = DOMAIN p
      /\ q.used_map = p.used_map \ T
      /\ q.meta = [b \in Blocks |-> IF b \in T THEN BlockMeta ELSE p.meta[b]]
      /\ q.memory_info = [p.memory_info EXCEPT ![id] = m]
      /\ q.memory_last_modified_time = p.memory_last_modified_time \cup {id}
      /\ q.free_block_count = p.free_block_count + (e.second - n)
      /\ q.next_memory_id_counter = p.next_memory_id_counter
      /\ q.next_search_pos = p.next_search_pos
      /\ q.pool = [b \in Blocks |-> IF b \in e.first .. e.first + n - 1
                                    THEN Chunk(c, b - e.first) ELSE p.pool[b]]
  BY <1>0, PoolFields DEF HasPoolType, OverwriteInPlace, UpdateMemoryBlockCount, ClearBlockMeta
<1> HIDE DEF q
<1>1. /\ e \in Entries /\ e.first \in Nat /\ e.second \in Nat \ {0} /\ e.first \in Blocks
      /\ \A b \in Span(e) : b \in p.used_map /\ b \in Blocks
  <2>1. e \in Entries
    BY <1>0 DEF HasPoolType
  <2> QED
    BY <1>0, <2>1, SpanFacts DEF HasPoolType, OwnsItsBlocks, Entries
<1>2. n \in 1 .. e.second
  BY <1>1, CeilFits
<1> HIDE DEF n
<1>3. m \in Entries /\ m.first = e.first /\ m.second = n
  <2>1. e \in [first : Blocks, second : 1 .. kBlockCount]
    BY <1>1 DEF Entries
  <2>2. m = [first |-> e.first, second |-> n]
    BY <2>1
  <2>3. n \in 1 .. kBlockCount
    BY <1>2, <2>1, PoolAssumption
  <2> QED
    BY <1>1, <2>2, <2>3 DEF Entries
<1>4. /\ \A b \in Span(m) : b \in Span(e) /\ b \notin T
      /\ \A b \in T : b \in Span(e)
      /\ \A b \in Span(e) : b \in T \/ b \in Span(m)
  BY <1>1, <1>2, <1>3 DEF Span, GivenBack
<1>5. q.free_block_count = kBlockCount - Cardinality(q.used_map) /\ q.free_block_count \in 0 .. kBlockCount
  <2>1. Cardinality(T) = e.second - n
    <3> DEFINE lo == e.first + n
               hi == e.first + e.second - 1
    <3>1. T = lo .. hi
      BY DEF GivenBack
    <3>2. lo \in Int /\ hi \in Int
      BY <1>1, <1>2
    <3>3. Cardinality(lo .. hi) = IF lo > hi THEN 0 ELSE hi - lo + 1
      <4> HIDE DEF lo, hi
      <4> QED
        BY <3>2, FS_Interval
    <3> QED
      BY <1>1, <1>2, <3>1, <3>3
  <2>2. IsFiniteSet(p.used_map) /\ Cardinality(p.used_map) \in Nat
    BY <1>0, BlocksFinite DEF HasPoolType
  <2>3. Cardinality(p.used_map \ T) = Cardinality(p.used_map) - Cardinality(p.used_map \cap T)
    BY <2>2, FS_Difference
  <2>4. p.used_map \cap T = T
    BY <1>1, <1>4
  <2>5. Cardinality(q.used_map) = Cardinality(p.used_map) - (e.second - n)
    BY <1>F, <2>1, <2>3, <2>4
  <2>6. Cardinality(q.used_map) \in 0 .. kBlockCount
    BY <1>0, <1>F, BlocksFinite DEF HasPoolType
  <2>7. p.free_block_count = kBlockCount - Cardinality(p.used_map)
    BY <1>0 DEF CountsFreeBlocks
  <2> QED
    BY <1>1, <1>2, <1>F, <2>2, <2>5, <2>6, <2>7, PoolAssumption
<1>6. HasPoolType(q)
  <2>1. BlockMeta \in Metas
    BY DEF BlockMeta, Metas
  <2>2. q.meta \in [Blocks -> Metas]
    BY <1>0, <1>F, <2>1 DEF HasPoolType
  <2>3. q.pool \in [Blocks -> Chunks]
    <3>1. \A b \in e.first .. e.first + n - 1 : b \in Blocks => Chunk(c, b - e.first) \in Chunks
      BY <1>1, <1>2, PoolAssumption DEF Chunk, Chunks, Blocks
    <3> QED
      BY <1>0, <1>F, <3>1 DEF HasPoolType
  <2>4. /\ q.memory_info \in [DOMAIN q.memory_info -> Entries]
        /\ DOMAIN q.memory_info \subseteq Nat \ {0}
    BY <1>0, <1>3, <1>F DEF HasPoolType
  <2>5. q.memory_last_modified_time \subseteq Nat
    BY <1>0, <1>F DEF HasPoolType
  <2> QED
    BY <1>0, <1>5, <1>F, <2>2, <2>3, <2>4, <2>5 DEF HasPoolType
<1>7. DOMAIN q.memory_info = DOMAIN p.memory_info /\ q.memory_info[id] = m
  BY <1>0, <1>F DEF HasPoolType
<1>8. ASSUME NEW x \in DOMAIN p.memory_info, NEW b \in Span(q.memory_info[x])
      PROVE  /\ b \in Span(p.memory_info[x]) /\ b \in Blocks /\ b \in p.used_map
             /\ b \notin T /\ q.meta[b] = p.meta[b]
  <2>1. b \in Span(p.memory_info[x])
    BY <1>0, <1>4, <1>7, <1>F DEF HasPoolType
  <2>2. b \in p.used_map /\ b \in Blocks
    BY <1>0, <2>1 DEF OwnsItsBlocks, HasPoolType
  <2>3. b \notin T
    <3>1. CASE x = id
      BY <1>4, <1>7, <3>1
    <3>2. CASE x /= id
      BY <1>0, <1>4, <2>1, <3>2, SpansAreDisjoint
    <3> QED
      BY <3>1, <3>2
  <2> QED
    BY <1>F, <2>1, <2>2, <2>3
<1>9. \A x \in DOMAIN p.memory_info : q.memory_info[x].first = p.memory_info[x].first
  BY <1>0, <1>3, <1>F DEF HasPoolType
<1>10. OwnsItsBlocks(q)
  <2> SUFFICES ASSUME NEW x \in DOMAIN q.memory_info, NEW b \in Span(q.memory_info[x])
               PROVE  b \in q.used_map /\ q.meta[b].used /\ q.meta[b].memory_id = x
    BY DEF OwnsItsBlocks
  <2>1. p.meta[b].used /\ p.meta[b].memory_id = x
    BY <1>0, <1>7, <1>8 DEF OwnsItsBlocks
  <2> QED
    BY <1>7, <1>8, <1>F, <2>1
<1>11. LeaksNoBlock(q)
  <2>1. ASSUME NEW b \in q.used_map PROVE b \in Owned(q)
    <3>1. PICK x \in DOMAIN p.memory_info : b \in Span(p.memory_info[x])
      BY <1>0, <1>F DEF LeaksNoBlock, Owned
    <3>2. b \in Span(q.memory_info[x])
      BY <1>0, <1>4, <1>7, <1>F, <3>1 DEF HasPoolType
    <3> QED
      BY <1>7, <3>2 DEF Owned
  <2>2. ASSUME NEW b \in Blocks, q.meta[b].used PROVE b \in q.used_map
    BY <1>0, <1>F, <2>2 DEF LeaksNoBlock, BlockMeta
  <2> QED
    BY <2>1, <2>2 DEF LeaksNoBlock
<1>12. DescribesEvenly(q)
  <2> SUFFICES ASSUME NEW x \in DOMAIN q.memory_info, NEW b \in Span(q.memory_info[x])
               PROVE  q.meta[b].description = q.meta[q.memory_info[x].first].description
    BY DEF DescribesEvenly, DescriptionOf
  <2>1. q.memory_info[x].first \in Span(q.memory_info[x])
    BY <1>6, SpanFacts DEF HasPoolType
  <2>2. \A d \in Span(q.memory_info[x]) :
          q.meta[d].description = p.meta[p.memory_info[x].first].description
    BY <1>0, <1>7, <1>8 DEF DescribesEvenly, DescriptionOf
  <2> QED
    BY <2>1, <2>2
<1>13. HandsOutFreshIds(q)
  BY <1>0, <1>7, <1>F DEF HandsOutFreshIds
<1> QED
  BY <1>5, <1>6, <1>7, <1>10, <1>11, <1>12, <1>13, <1>F DEF q, Consistent, CountsFreeBlocks

(* AllocateBlock, whether it places the content, gives up or compacts on   *)
(* the way, for an id that is not in use.                                  *)
LEMMA AllocateConsistent ==
  ASSUME NEW p, Consistent(p), NEW c \in Contents,
         NEW id \in Nat \ {0}, id \notin DOMAIN p.memory_info, id < p.next_memory_id_counter,
         NEW desc \in Descriptions \cup {NoDescription}
  PROVE  /\ Consistent(AllocateBlock(p, id, desc, c))
         /\ DOMAIN AllocateBlock(p, id, desc, c).memory_info \in
              {DOMAIN p.memory_info, DOMAIN p.memory_info \cup {id}}
         /\ AllocateBlock(p, id, desc, c).next_memory_id_counter = p.next_memory_id_counter
<1> DEFINE n == RequiredBlocks(c)
           q == Searched(p, n)
           start == FindContinuousFreeBlock(q, n)
<1>1. /\ Consistent(q) /\ DOMAIN q.memory_info = DOMAIN p.memory_info
      /\ q.next_memory_id_counter = p.next_memory_id_counter
  BY CompactConsistent DEF Searched
<1>2. CASE Rejected(p, c)
  BY <1>2 DEF AllocateBlock
<1>3. CASE ~Rejected(p, c) /\ start = NotFound
  BY <1>1, <1>3 DEF AllocateBlock
<1>4. CASE ~Rejected(p, c) /\ start /= NotFound
  <2>1. AllocateBlock(p, id, desc, c) = Place(q, start, id, desc, c)
    BY <1>4 DEF AllocateBlock
  <2> HIDE DEF q
  <2>2. /\ Consistent(Place(q, start, id, desc, c))
        /\ DOMAIN Place(q, start, id, desc, c).memory_info = DOMAIN q.memory_info \cup {id}
        /\ Place(q, start, id, desc, c).next_memory_id_counter = q.next_memory_id_counter
    BY <1>1, <1>4, PlaceConsistent
  <2> QED
    BY <1>1, <2>1, <2>2
<1> QED
  BY <1>2, <1>3, <1>4

(***************************************************************************)
(* Room.                                                                   *)
(***************************************************************************)
(* After Compact the used blocks are the first FreePos(p), the search      *)
(* starts behind them, and the free count is what it was.                  *)
LEMMA CompactPacks ==
  ASSUME NEW p, Consistent(p)
  PROVE  LET q == Compact(p)
         IN  /\ q.next_search_pos \in 0 .. kBlockCount
             /\ q.used_map = 0 .. q.next_search_pos - 1
             /\ q.free_block_count = kBlockCount - q.next_search_pos
             /\ q.free_block_count = p.free_block_count
<1>1. HasPoolType(p) /\ OwnsItsBlocks(p) /\ LeaksNoBlock(p) /\ CountsFreeBlocks(p)
  BY DEF Consistent
<1>2. /\ p.used_map = Owned(p) /\ FreePos(p) \in 0 .. kBlockCount
      /\ p.free_block_count = kBlockCount - FreePos(p)
  BY <1>1, UsedIsOwned
<1>3. MovedBits(p) = Packed(p)
  BY <1>2 DEF MovedBits
<1> QED
  BY <1>1, <1>2, <1>3, CompactFields DEF Packed

(* So a search after Compact finds every number of blocks that are free. *)
LEMMA CompactMakesARun ==
  ASSUME NEW p, Consistent(p), NEW n \in Nat \ {0}, n <= p.free_block_count
  PROVE  FindContinuousFreeBlock(Compact(p), n) /= NotFound
<1> DEFINE q == Compact(p)
           f == q.next_search_pos
<1>1. /\ f \in 0 .. kBlockCount /\ q.used_map = 0 .. f - 1
      /\ q.free_block_count = kBlockCount - f /\ q.free_block_count = p.free_block_count
  BY CompactPacks
<1>2. HasPoolType(q)
  BY CompactConsistent DEF Consistent
<1> HIDE DEF q
<1>3. f \in FreeRuns(q, n)
  <2>1. f \in f .. kBlockCount - n
    BY <1>1, PoolAssumption
  <2>2. f .. (f + n - 1) \cap (0 .. f - 1) = {}
    BY <1>1, PoolAssumption
  <2> QED
    BY <1>1, <2>1, <2>2 DEF FreeRuns
<1>4. \A s \in FreeRuns(q, n) : s \in Blocks /\ s >= 0
  BY <1>2, PoolAssumption DEF FreeRuns, HasPoolType, Blocks
<1>5. Min(FreeRuns(q, n)) \in FreeRuns(q, n)
  BY <1>3, <1>4, LeastBlock
<1>6. ~(n > q.free_block_count)
  BY <1>1, PoolAssumption
<1>7. FindContinuousFreeBlock(q, n) = Min(FreeRuns(q, n))
  BY <1>3, <1>6 DEF FindContinuousFreeBlock
<1>8. Min(FreeRuns(q, n)) /= NotFound
  BY <1>4, <1>5 DEF NotFound
<1> QED
  BY <1>7, <1>8 DEF q

(* A content that needs no more blocks than m is smaller than m blocks. *)
LEMMA DivStrict ==
  ASSUME NEW a \in Nat, NEW b \in Nat \ {0}, NEW m \in Nat, (a + b) \div b <= m
  PROVE  a < m * b
<1> DEFINE q == (a + b) \div b
<1>1. q \in Nat /\ q * b <= a + b /\ a + b < (q + 1) * b
  OBVIOUS
<1> HIDE DEF q
<1>2. (q + 1) * b = q * b + b
  BY <1>1
<1>3. a < q * b
  BY <1>1, <1>2
<1>4. q <= m
  BY DEF q
<1>5. q * b <= m * b
  BY <1>1, <1>4
<1>6. q * b \in Nat /\ m * b \in Nat
  BY <1>1
<1> QED
  BY <1>3, <1>5, <1>6

(* AllocateBlock succeeds exactly when the content is not empty and needs  *)
(* no more blocks than are free, wherever they are.                        *)
LEMMA AllocateSucceeds ==
  ASSUME NEW p, Consistent(p), NEW id, id \notin DOMAIN p.memory_info, NEW desc, NEW c \in Contents
  PROVE  id \in DOMAIN AllocateBlock(p, id, desc, c).memory_info
           <=> c.size > 0 /\ RequiredBlocks(c) <= p.free_block_count
<1> DEFINE n == RequiredBlocks(c)
           q == Searched(p, n)
           start == FindContinuousFreeBlock(q, n)
<1>1. n \in Nat \ {0}
  BY RequiredAtLeastOne
<1>2. p.free_block_count \in Nat /\ c.size \in Nat /\ kBlockSize \in Nat \ {0}
  <2>1. p.free_block_count \in Nat
    BY PoolAssumption DEF Consistent, HasPoolType
  <2> QED
    BY <2>1, PoolAssumption DEF Contents
<1>3. DOMAIN q.memory_info = DOMAIN p.memory_info /\ q.free_block_count = p.free_block_count
  BY CompactConsistent, CompactPacks DEF Searched
<1>4. CASE Rejected(p, c)
  <2>1. AllocateBlock(p, id, desc, c) = p
    BY <1>4 DEF AllocateBlock
  <2>2. ~(c.size > 0 /\ n <= p.free_block_count)
    <3>1. SUFFICES ASSUME c.size > 0, n <= p.free_block_count PROVE FALSE
      OBVIOUS
    <3>2. c.size < p.free_block_count * kBlockSize
      BY <1>2, <3>1, DivStrict, Zenon DEF RequiredBlocks
    <3>3. c.size > p.free_block_count * kBlockSize
      BY <1>2, <1>4, <3>1 DEF Rejected
    <3>4. p.free_block_count * kBlockSize \in Nat
      BY <1>2
    <3> QED
      BY <1>2, <3>2, <3>3, <3>4
  <2> QED
    BY <2>1, <2>2
<1>5. CASE ~Rejected(p, c) /\ ~(n <= p.free_block_count)
  <2>1. start = NotFound
    BY <1>1, <1>2, <1>3, <1>5 DEF FindContinuousFreeBlock
  <2>2. AllocateBlock(p, id, desc, c) = q
    BY <1>5, <2>1 DEF AllocateBlock
  <2> QED
    BY <1>3, <1>5, <2>2
<1>6. CASE ~Rejected(p, c) /\ n <= p.free_block_count
  <2>1. start /= NotFound
    BY <1>1, <1>6, CompactMakesARun DEF Searched
  <2>2. AllocateBlock(p, id, desc, c) = Place(q, start, id, desc, c)
    BY <1>6, <2>1 DEF AllocateBlock
  <2>3. c.size > 0
    BY <1>2, <1>6 DEF Rejected
  <2>4. HasPoolType(q)
    BY CompactConsistent DEF Searched, Consistent
  <2> HIDE DEF q, start
  <2>5. id \in DOMAIN Place(q, start, id, desc, c).memory_info
    BY <2>4, PoolFields DEF HasPoolType, Place
  <2> QED
    BY <1>6, <2>2, <2>3, <2>5
<1> QED
  BY <1>4, <1>5, <1>6

(* After Compact the longest free run is all of the free blocks. *)
LEMMA CompactLongestRun ==
  ASSUME NEW p, Consistent(p)
  PROVE  GetMaxContinuousFreeBlocks(Compact(p)) = Compact(p).free_block_count
<1> DEFINE q == Compact(p)
           f == q.next_search_pos
           lengths == {n \in 0 .. kBlockCount :
                         \E i \in 0 .. kBlockCount - n : i .. (i + n - 1) \cap q.used_map = {}}
<1>1. /\ f \in 0 .. kBlockCount /\ q.used_map = 0 .. f - 1
      /\ q.free_block_count = kBlockCount - f
  BY CompactPacks
<1> HIDE DEF q
<1>2. kBlockCount \in Nat \ {0} /\ f \in Nat /\ f <= kBlockCount
  BY <1>1, PoolAssumption
<1>3. kBlockCount - f \in lengths
  <2> DEFINE n == kBlockCount - f
  <2>1. n \in 0 .. kBlockCount /\ f \in 0 .. kBlockCount - n
    BY <1>2
  <2>2. f .. (f + n - 1) \cap (0 .. f - 1) = {}
    BY <1>2
  <2> QED
    BY <1>1, <2>1, <2>2
<1>4. ASSUME NEW n \in lengths PROVE n <= kBlockCount - f
  <2>1. n \in 0 .. kBlockCount
    OBVIOUS
  <2>2. PICK i \in 0 .. kBlockCount - n : i .. (i + n - 1) \cap q.used_map = {}
    OBVIOUS
  <2>3. CASE n = 0
    BY <1>2, <2>3
  <2>4. CASE n > 0
    <3>1. i \in i .. (i + n - 1)
      BY <2>1, <2>2, <2>4
    <3>2. i \notin 0 .. f - 1
      BY <1>1, <2>2, <3>1
    <3>3. i >= f
      BY <1>2, <2>1, <2>2, <3>2
    <3> QED
      BY <1>2, <2>1, <2>2, <3>3
  <2> QED
    BY <2>1, <2>3, <2>4
<1>5. \A n \in lengths : n \in Int
  OBVIOUS
<1>6. kBlockCount - f \in Int
  BY <1>2
<1> HIDE DEF lengths
<1>7. \A m \in lengths : (\A n \in lengths : m >= n) => m = kBlockCount - f
  BY <1>3, <1>4, <1>5, <1>6
<1>8. \A n \in lengths : kBlockCount - f >= n
  BY <1>4, <1>5, <1>6
<1>9. (CHOOSE m \in lengths : \A n \in lengths : m >= n) = kBlockCount - f
  BY <1>3, <1>7, <1>8
<1>10. Max(lengths) = kBlockCount - f
  BY <1>9 DEF Max
<1> QED
  BY <1>1, <1>10 DEF q, lengths, GetMaxContinuousFreeBlocks

(***************************************************************************)
(* What readers get.                                                       *)
(***************************************************************************)
(* The content of a memory is read off its blocks one by one, up to the    *)
(* first zero byte.  That this gives back the content takes that the k-th  *)
(* block of the memory holds the k-th part of it, that the blocks are      *)
(* enough for it, and that a block behind its end is empty.                *)
Spelled(p, id)  == p.pool[p.memory_info[id].first].of

Spells(p) ==
  \A id \in DOMAIN p.memory_info :
    /\ Spelled(p, id) \in Contents
    /\ Spelled(p, id).size <= p.memory_info[id].second * kBlockSize
    /\ \A k \in 0 .. p.memory_info[id].second - 1 :
         p.pool[p.memory_info[id].first + k] = Chunk(Spelled(p, id), k)

(* What the store then holds of an object. *)
Line(p, id) == [description |-> DescriptionOf(p, id), content |-> Spelled(p, id),
                blocks |-> p.memory_info[id].second]
View(p)     == [id \in DOMAIN p.memory_info |-> Line(p, id)]

Item(d, c, n) == [description |-> d, content |-> c, blocks |-> n]
Added(f, id, e) == [x \in DOMAIN f \cup {id} |-> IF x = id THEN e ELSE f[x]]
Removed(f, id)  == [x \in DOMAIN f \ {id} |-> f[x]]

(* The blocks a content is read as, and whether there is room for it. *)
TextOf(c) == {<<i, Chunk(c, i)>> : i \in {j \in 0 .. kBlockCount - 1 : j * kBlockSize < c.size}}
Fitting(p, c) == c.size > 0 /\ RequiredBlocks(c) <= p.free_block_count

(***************************************************************************)
(* Arithmetic.                                                             *)
(***************************************************************************)
(* One more divisor, one more in the quotient. *)
LEMMA DivSucc ==
  ASSUME NEW a \in Nat, NEW b \in Nat \ {0}
  PROVE  (a + b) \div b = a \div b + 1
<1> DEFINE q == a \div b
           r == (a + b) \div b
<1>1. q \in Nat /\ q * b <= a /\ a < (q + 1) * b
  OBVIOUS
<1>2. r \in Nat /\ r * b <= a + b /\ a + b < (r + 1) * b
  OBVIOUS
<1> HIDE DEF q, r
<1>3. (q + 1) * b = q * b + b /\ (r + 1) * b = r * b + b
  BY <1>1, <1>2
<1>4. r * b < (q + 2) * b /\ (q + 1) * b < (r + 1) * b
  <2>1. (q + 2) * b = q * b + b + b
    BY <1>1
  <2>2. q * b \in Nat /\ r * b \in Nat
    BY <1>1, <1>2
  <2> QED
    BY <1>1, <1>2, <1>3, <2>1, <2>2
<1>5. ASSUME NEW x \in Nat, NEW y \in Nat, x * b < y * b PROVE x < y
  <2>1. y <= x => y * b <= x * b
    OBVIOUS
  <2>2. x * b \in Nat /\ y * b \in Nat
    OBVIOUS
  <2> QED
    BY <1>5, <2>1, <2>2
<1>6. r < q + 2 /\ q + 1 < r + 1
  <2>1. q + 2 \in Nat /\ q + 1 \in Nat /\ r + 1 \in Nat
    BY <1>1, <1>2
  <2> QED
    BY <1>2, <1>4, <1>5, <2>1
<1>7. r = q + 1
  BY <1>1, <1>2, <1>6
<1> QED
  BY <1>7 DEF q, r

(* A part of a content that comes before one that is not empty is full. *)
LEMMA PartsBeforeAreFull ==
  ASSUME NEW c \in Contents, NEW i \in Nat, NEW j \in Nat, j < i
  PROVE  /\ Filled(Chunk(c, i)) > 0 <=> i * kBlockSize < c.size
         /\ Filled(Chunk(c, i)) > 0 => Filled(Chunk(c, j)) = kBlockSize
<1>1. c.size \in Nat /\ kBlockSize \in Nat \ {0}
  BY PoolAssumption DEF Contents
<1>2. Chunk(c, i).of = c /\ Chunk(c, i).part = i /\ Chunk(c, j).of = c /\ Chunk(c, j).part = j
  BY DEF Chunk
<1>3. i * kBlockSize \in Nat /\ j * kBlockSize \in Nat
  BY <1>1
<1>4. Filled(Chunk(c, i)) > 0 <=> i * kBlockSize < c.size
  BY <1>1, <1>2, <1>3 DEF Filled
<1>5. j * kBlockSize + kBlockSize <= i * kBlockSize
  <2>1. (j + 1) * kBlockSize = j * kBlockSize + kBlockSize
    BY <1>1
  <2>2. j + 1 <= i
    OBVIOUS
  <2>3. (j + 1) * kBlockSize <= i * kBlockSize
    BY <1>1, <2>2
  <2> QED
    BY <2>1, <2>3
<1>6. i * kBlockSize < c.size => Filled(Chunk(c, j)) = kBlockSize
  BY <1>1, <1>2, <1>3, <1>5 DEF Filled
<1> QED
  BY <1>4, <1>6

(***************************************************************************)
(* Reading.                                                                *)
(***************************************************************************)
(* The reader returns exactly the text of the content.  Blocks behind the  *)
(* text are empty, and none in it is.                                      *)
LEMMA ReadsText ==
  ASSUME NEW p, HasPoolType(p), Spells(p), NEW id \in DOMAIN p.memory_info
  PROVE  GetMemoryContentAsString(p, id) = TextOf(Spelled(p, id))
<1> DEFINE e == p.memory_info[id]
           c == Spelled(p, id)
           reached == {i \in 0 .. e.second - 1 :
                         \A j \in 0 .. i - 1 : Filled(p.pool[e.first + j]) = kBlockSize}
           read == {i \in reached : Filled(p.pool[e.first + i]) > 0}
           text == {i \in 0 .. kBlockCount - 1 : i * kBlockSize < c.size}
<1>1. e \in Entries /\ e.second \in Nat /\ e.second <= kBlockCount /\ kBlockCount \in Nat
  BY PoolAssumption DEF HasPoolType, Entries
<1>2. /\ c \in Contents /\ c.size <= e.second * kBlockSize
      /\ \A k \in 0 .. e.second - 1 : p.pool[e.first + k] = Chunk(c, k)
  BY DEF Spells
<1>3. c.size \in Nat /\ kBlockSize \in Nat \ {0}
  BY <1>2, PoolAssumption DEF Contents
<1> HIDE DEF c, e
<1>4. ASSUME NEW i \in Nat, i * kBlockSize < c.size PROVE i < e.second
  <2>1. i >= e.second => i * kBlockSize >= e.second * kBlockSize
    BY <1>1, <1>3
  <2>2. i * kBlockSize \in Nat /\ e.second * kBlockSize \in Nat
    BY <1>1, <1>3
  <2> QED
    BY <1>1, <1>2, <1>3, <1>4, <2>1, <2>2
<1>5. ASSUME NEW i \in 0 .. e.second - 1
      PROVE  i \in read <=> i * kBlockSize < c.size
  <2>1. Filled(Chunk(c, i)) > 0 <=> i * kBlockSize < c.size
    <3>1. i + 1 \in Nat /\ i \in Nat
      BY <1>1
    <3>2. CASE i = 0
      <4>1. /\ Chunk(c, 0).of = c /\ Chunk(c, 0).part = 0 /\ 0 * kBlockSize = 0
        BY <1>3 DEF Chunk
      <4> QED
        BY <1>3, <3>2, <4>1 DEF Filled
    <3>3. CASE i # 0
      <4>1. 0 \in Nat /\ 0 < i
        BY <3>1, <3>3
      <4> QED
        BY <1>2, <3>1, <4>1, PartsBeforeAreFull
    <3> QED
      BY <3>2, <3>3
  <2>2. p.pool[e.first + i] = Chunk(c, i)
    BY <1>2
  <2>3. ASSUME i * kBlockSize < c.size, NEW j \in 0 .. i - 1
        PROVE  Filled(p.pool[e.first + j]) = kBlockSize
    <3>1. j \in Nat /\ i \in Nat /\ j < i /\ j \in 0 .. e.second - 1
      BY <1>1
    <3>2. Filled(Chunk(c, j)) = kBlockSize
      BY <1>2, <2>1, <2>3, <3>1, PartsBeforeAreFull
    <3> QED
      BY <1>2, <3>1, <3>2
  <2> QED
    BY <2>1, <2>2, <2>3
<1>6. \A i : i \in read <=> i \in text
  <2>1. \A i \in read : i \in 0 .. e.second - 1
    OBVIOUS
  <2>2. \A i \in 0 .. e.second - 1 : i \in 0 .. kBlockCount - 1
    BY <1>1
  <2>3. \A i \in text : i \in 0 .. e.second - 1
    BY <1>1, <1>4
  <2> HIDE DEF read
  <2> QED
    BY <1>5, <2>1, <2>2, <2>3
<1>7. \A i \in read : p.pool[e.first + i] = Chunk(c, i)
  BY <1>2
<1>8. {<<i, p.pool[e.first + i]>> : i \in read} = {<<i, Chunk(c, i)>> : i \in text}
  <2> HIDE DEF read, text
  <2> QED
    BY <1>6, <1>7
<1> QED
  BY <1>8 DEF e, GetMemoryContentAsString, TextOf, c

(***************************************************************************)
(* The methods.                                                            *)
(***************************************************************************)
(* What Spells says of the block a memory begins with. *)
LEMMA FirstPart ==
  ASSUME NEW p, HasPoolType(p), NEW id \in DOMAIN p.memory_info, NEW c,
         \A k \in 0 .. p.memory_info[id].second - 1 :
           p.pool[p.memory_info[id].first + k] = Chunk(c, k)
  PROVE  Spelled(p, id) = c
<1>1. p.memory_info[id] \in Entries
  BY DEF HasPoolType
<1>2. 0 \in 0 .. p.memory_info[id].second - 1 /\ p.memory_info[id].first + 0 = p.memory_info[id].first
  BY <1>1, SpanFacts
<1>3. p.pool[p.memory_info[id].first] = Chunk(c, 0)
  BY <1>2
<1> QED
  BY <1>3 DEF Spelled, Chunk

(* Compact: every memory takes its parts along, in their order. *)
LEMMA CompactView ==
  ASSUME NEW p, Consistent(p), Spells(p)
  PROVE  Spells(Compact(p)) /\ View(Compact(p)) = View(p)
<1> DEFINE q == Compact(p)
<1>0. HasPoolType(p) /\ OwnsItsBlocks(p) /\ LeaksNoBlock(p) /\ CountsFreeBlocks(p)
  BY DEF Consistent
<1>1. /\ HasPoolType(q) /\ DOMAIN q.memory_info = DOMAIN p.memory_info
      /\ \A id \in DOMAIN p.memory_info : DescriptionOf(q, id) = DescriptionOf(p, id)
  BY CompactConsistent DEF Consistent
<1>2. /\ q.pool = MovedData(p)
      /\ \A id \in DOMAIN p.memory_info : q.memory_info[id] = MovedEntry(p, p.memory_info[id])
  <2>1. /\ q.pool = MovedData(p)
        /\ q.memory_info = [id \in DOMAIN p.memory_info |-> MovedEntry(p, p.memory_info[id])]
    BY <1>0, CompactFields
  <2> HIDE DEF q
  <2> QED
    BY <2>1
<1> HIDE DEF q
<1>3. \A d \in Packed(p) : q.pool[d] = p.pool[Nth(Owned(p), d)]
  <2>1. FreePos(p) \in 0 .. kBlockCount
    BY <1>0, UsedIsOwned
  <2>2. \A d \in Packed(p) : d \in Blocks
    BY <2>1, PoolAssumption DEF Packed, Blocks
  <2> QED
    BY <1>2, <2>2 DEF MovedData
<1>4. ASSUME NEW id \in DOMAIN p.memory_info
      PROVE  /\ q.memory_info[id].second = p.memory_info[id].second
             /\ \A k \in 0 .. p.memory_info[id].second - 1 :
                  q.pool[q.memory_info[id].first + k] = p.pool[p.memory_info[id].first + k]
  <2> DEFINE e == p.memory_info[id]
             m == q.memory_info[id]
  <2>1. m.second = e.second
    BY <1>0, <1>2, MovedRun
  <2>2. \A k \in 0 .. e.second - 1 :
          m.first + k \in Packed(p) /\ Nth(Owned(p), m.first + k) = e.first + k
    BY <1>0, <1>2, MovedRun
  <2> HIDE DEF e, m
  <2>3. \A k \in 0 .. e.second - 1 : q.pool[m.first + k] = p.pool[e.first + k]
    BY <1>3, <2>2
  <2> QED
    BY <2>1, <2>3 DEF e, m
<1>5. ASSUME NEW id \in DOMAIN p.memory_info
      PROVE  /\ \A k \in 0 .. q.memory_info[id].second - 1 :
                  q.pool[q.memory_info[id].first + k] = Chunk(Spelled(p, id), k)
             /\ Spelled(q, id) = Spelled(p, id)
  <2>1. \A k \in 0 .. q.memory_info[id].second - 1 :
          q.pool[q.memory_info[id].first + k] = Chunk(Spelled(p, id), k)
    BY <1>4 DEF Spells
  <2> QED
    BY <1>1, <2>1, FirstPart
<1>6. Spells(q)
  BY <1>1, <1>4, <1>5 DEF Spells
<1>7. View(q) = View(p)
  BY <1>1, <1>4, <1>5 DEF View, Line
<1> QED
  BY <1>6, <1>7 DEF q

(* FreeByMemoryId: the other memories stay. *)
LEMMA FreeView ==
  ASSUME NEW p, Consistent(p), Spells(p), NEW id \in DOMAIN p.memory_info
  PROVE  LET q == FreeByMemoryId(p, id)
         IN  /\ Spells(q)
             /\ View(q) = Removed(View(p), id)
             /\ q.free_block_count = p.free_block_count + p.memory_info[id].second
<1> DEFINE q == FreeByMemoryId(p, id)
           e == p.memory_info[id]
<1>0. HasPoolType(p) /\ OwnsItsBlocks(p)
  BY DEF Consistent
<1>F. /\ q.meta = [b \in Blocks |-> IF b \in Span(e) THEN BlockMeta ELSE p.meta[b]]
      /\ q.memory_info = [x \in DOMAIN p.memory_info \ {id} |-> p.memory_info[x]]
      /\ q.free_block_count = p.free_block_count + e.second
      /\ q.pool = p.pool
  BY <1>0, FreeFields
<1> HIDE DEF q
<1>1. Spells(q)
  <2>1. /\ \A x \in DOMAIN q.memory_info : x \in DOMAIN p.memory_info /\ q.memory_info[x] = p.memory_info[x]
        /\ q.pool = p.pool
    BY <1>F
  <2> QED
    BY <2>1 DEF Spells, Spelled
<1>2. ASSUME NEW x \in DOMAIN p.memory_info, x # id
      PROVE  Line(q, x) = Line(p, x)
  <2>1. p.memory_info[x] \in Entries /\ p.memory_info[x].first \in Blocks
    BY <1>0 DEF HasPoolType, Entries
  <2>2. p.memory_info[x].first \notin Span(e)
    <3>1. p.memory_info[x].first \in Span(p.memory_info[x])
      BY <2>1, SpanFacts
    <3> QED
      BY <1>0, <1>2, <3>1, SpansAreDisjoint
  <2>3. /\ q.memory_info[x] = p.memory_info[x] /\ q.pool = p.pool
        /\ q.meta[p.memory_info[x].first] = p.meta[p.memory_info[x].first]
    BY <1>2, <1>F, <2>1, <2>2
  <2> QED
    BY <2>3 DEF Line, DescriptionOf, Spelled
<1>3. View(q) = Removed(View(p), id)
  BY <1>2, <1>F DEF View, Removed
<1> QED
  BY <1>1, <1>3, <1>F DEF q

(* Writing a content into free blocks. *)
LEMMA PlaceView ==
  ASSUME NEW p, Consistent(p), Spells(p), NEW c \in Contents,
         NEW id \in Nat \ {0}, id \notin DOMAIN p.memory_info, id < p.next_memory_id_counter,
         NEW desc \in Descriptions \cup {NoDescription},
         NEW start, start = FindContinuousFreeBlock(p, RequiredBlocks(c)), start /= NotFound
  PROVE  LET q == Place(p, start, id, desc, c)
         IN  /\ Spells(q)
             /\ View(q) = Added(View(p), id, Item(desc, c, RequiredBlocks(c)))
             /\ q.free_block_count = p.free_block_count - RequiredBlocks(c)
<1> DEFINE q == Place(p, start, id, desc, c)
           n == RequiredBlocks(c)
           e == [first |-> start, second |-> n]
           mine == [used |-> TRUE, memory_id |-> id, description |-> desc]
<1>0. HasPoolType(p) /\ OwnsItsBlocks(p) /\ p.used_map \subseteq Blocks
  BY DEF Consistent, HasPoolType
<1>F. /\ q.meta = [b \in Blocks |-> IF b \in Span(e) THEN mine ELSE p.meta[b]]
      /\ q.memory_info = [x \in DOMAIN p.memory_info \cup {id} |->
                            IF x = id THEN e ELSE p.memory_info[x]]
      /\ q.free_block_count = p.free_block_count - n
      /\ q.pool = [b \in Blocks |-> IF b \in Span(e) THEN Chunk(c, b - start) ELSE p.pool[b]]
  BY <1>0, PoolFields DEF HasPoolType, Place
<1>T. HasPoolType(q)
  BY PlaceConsistent DEF Consistent
<1>1. n \in Nat \ {0}
  BY RequiredAtLeastOne
<1>2. /\ start \in Blocks /\ start \in Nat /\ start + n <= kBlockCount
      /\ \A b \in start .. (start + n - 1) : b \notin p.used_map
  BY <1>0, <1>1, FoundRun, PoolAssumption DEF Blocks
<1>S. c.size <= n * kBlockSize
  <2>1. c.size \in Nat /\ kBlockSize \in Nat \ {0} /\ n = (c.size + kBlockSize) \div kBlockSize
    BY PoolAssumption DEF Contents, RequiredBlocks
  <2>2. n <= n /\ n \in Nat
    BY <1>1
  <2> HIDE DEF n
  <2>3. c.size < n * kBlockSize
    BY <2>1, <2>2, DivStrict
  <2>4. n * kBlockSize \in Nat
    BY <2>1, <2>2
  <2> QED
    BY <2>1, <2>3, <2>4
<1> HIDE DEF q, n
<1>3. e \in Entries /\ e.first = start /\ e.second = n /\ start \in Span(e)
  BY <1>1, <1>2, PoolAssumption DEF Entries, Span
<1>4. \A k \in 0 .. n - 1 : start + k \in Span(e) /\ start + k \in Blocks /\ (start + k) - start = k
  BY <1>1, <1>2, PoolAssumption DEF Span, Blocks
<1>5. \A k \in 0 .. n - 1 : q.pool[start + k] = Chunk(c, k)
  <2> TAKE k \in 0 .. n - 1
  <2>1. q.pool[start + k] = Chunk(c, (start + k) - start)
    BY <1>4, <1>F
  <2> QED
    BY <1>4, <2>1
<1>6. id \in DOMAIN q.memory_info /\ q.memory_info[id] = e /\ Spelled(q, id) = c
  <2>1. id \in DOMAIN q.memory_info /\ q.memory_info[id] = e
    BY <1>F
  <2>2. \A k \in 0 .. q.memory_info[id].second - 1 :
          q.pool[q.memory_info[id].first + k] = Chunk(c, k)
    BY <1>3, <1>5, <2>1
  <2>3. Spelled(q, id) = c
    BY <1>T, <2>1, <2>2, FirstPart
  <2> QED
    BY <2>1, <2>3
<1>7. ASSUME NEW x \in DOMAIN p.memory_info
      PROVE  /\ x # id /\ q.memory_info[x] = p.memory_info[x]
             /\ \A b \in Span(p.memory_info[x]) : q.pool[b] = p.pool[b] /\ q.meta[b] = p.meta[b]
  <2>1. x # id /\ q.memory_info[x] = p.memory_info[x]
    BY <1>F
  <2>2. \A b \in Span(p.memory_info[x]) : b \in Blocks /\ b \in p.used_map
    BY <1>0 DEF OwnsItsBlocks
  <2>3. \A b \in Span(e) : b \notin p.used_map
    BY <1>2, <1>3 DEF Span
  <2> QED
    BY <1>F, <2>1, <2>2, <2>3
<1>8. ASSUME NEW x \in DOMAIN p.memory_info
      PROVE  /\ p.memory_info[x].first \in Span(p.memory_info[x])
             /\ \A k \in 0 .. p.memory_info[x].second - 1 :
                  p.memory_info[x].first + k \in Span(p.memory_info[x])
  <2>1. p.memory_info[x] \in Entries
    BY <1>0 DEF HasPoolType
  <2> QED
    BY <2>1, SpanFacts
<1>9. ASSUME NEW x \in DOMAIN p.memory_info
      PROVE  Spelled(q, x) = Spelled(p, x) /\ Line(q, x) = Line(p, x)
  BY <1>7, <1>8 DEF Spelled, Line, DescriptionOf
<1>10. Spells(q)
  <2>1. ASSUME NEW x \in DOMAIN p.memory_info
        PROVE  /\ Spelled(q, x) \in Contents
               /\ Spelled(q, x).size <= q.memory_info[x].second * kBlockSize
               /\ \A k \in 0 .. q.memory_info[x].second - 1 :
                    q.pool[q.memory_info[x].first + k] = Chunk(Spelled(q, x), k)
    <3>1. \A k \in 0 .. p.memory_info[x].second - 1 :
            q.pool[p.memory_info[x].first + k] = p.pool[p.memory_info[x].first + k]
      BY <1>7, <1>8
    <3> QED
      BY <1>7, <1>9, <3>1 DEF Spells
  <2>2. DOMAIN q.memory_info = DOMAIN p.memory_info \cup {id}
    BY <1>F
  <2> QED
    BY <1>3, <1>5, <1>6, <1>S, <2>1, <2>2 DEF Spells
<1>11. Line(q, id) = Item(desc, c, n)
  <2>1. q.meta[start] = mine
    BY <1>2, <1>3, <1>F
  <2> QED
    BY <1>3, <1>6, <2>1 DEF Line, DescriptionOf, Item
<1>12. View(q) = Added(View(p), id, Item(desc, c, n))
  <2>1. DOMAIN q.memory_info = DOMAIN p.memory_info \cup {id}
    BY <1>F
  <2> QED
    BY <1>7, <1>9, <1>11, <2>1 DEF View, Added
<1> QED
  BY <1>10, <1>12, <1>F DEF q, n

(* AllocateBlock, with the compaction it may do on the way: the content is *)
(* in the store if it fits, and else nothing has changed there.            *)
LEMMA AllocateView ==
  ASSUME NEW p, Consistent(p), Spells(p), NEW c \in Contents,
         NEW id \in Nat \ {0}, id \notin DOMAIN p.memory_info, id < p.next_memory_id_counter,
         NEW desc \in Descriptions \cup {NoDescription}
  PROVE  LET q == AllocateBlock(p, id, desc, c)
         IN  /\ Spells(q)
             /\ Fitting(p, c) =>
                  /\ View(q) = Added(View(p), id, Item(desc, c, RequiredBlocks(c)))
                  /\ q.free_block_count = p.free_block_count - RequiredBlocks(c)
             /\ ~Fitting(p, c) =>
                  View(q) = View(p) /\ q.free_block_count = p.free_block_count
<1> DEFINE n == RequiredBlocks(c)
           r == Searched(p, n)
           start == FindContinuousFreeBlock(r, n)
           q == AllocateBlock(p, id, desc, c)
<1>1. /\ Consistent(r) /\ Spells(r) /\ View(r) = View(p)
      /\ DOMAIN r.memory_info = DOMAIN p.memory_info
      /\ r.next_memory_id_counter = p.next_memory_id_counter
      /\ r.free_block_count = p.free_block_count
  BY CompactConsistent, CompactView, CompactPacks DEF Searched
<1>2. id \in DOMAIN q.memory_info <=> Fitting(p, c)
  BY AllocateSucceeds DEF Fitting
<1>3. CASE q = p \/ q = r
  <2>1. ~Fitting(p, c)
    BY <1>1, <1>2, <1>3
  <2>2. Spells(q) /\ View(q) = View(p) /\ q.free_block_count = p.free_block_count
    <3> HIDE DEF q, r
    <3> QED
      BY <1>1, <1>3
  <2> QED
    BY <2>1, <2>2
<1>4. CASE start # NotFound /\ q = Place(r, start, id, desc, c)
  <2> HIDE DEF r, q
  <2>1. /\ Spells(Place(r, start, id, desc, c))
        /\ View(Place(r, start, id, desc, c)) =
             Added(View(r), id, Item(desc, c, RequiredBlocks(c)))
        /\ Place(r, start, id, desc, c).free_block_count = r.free_block_count - RequiredBlocks(c)
    BY <1>1, <1>4, PlaceView
  <2>2. id \in DOMAIN Place(r, start, id, desc, c).memory_info
    BY <1>1, <1>4, PlaceConsistent
  <2>3. Fitting(p, c)
    BY <1>2, <1>4, <2>2
  <2> QED
    BY <1>1, <1>4, <2>1, <2>3 DEF q
<1>5. \/ q = p \/ q = r
      \/ start # NotFound /\ q = Place(r, start, id, desc, c)
  BY DEF AllocateBlock
<1> QED
  BY <1>3, <1>4, <1>5

(* The blocks a content touches are enough for it. *)
LEMMA DivCeil ==
  ASSUME NEW a \in Nat, NEW b \in Nat \ {0}
  PROVE  a <= ((a + b - 1) \div b) * b
<1> DEFINE q == (a + b - 1) \div b
<1>1. a + b - 1 \in Nat
  OBVIOUS
<1>2. q \in Nat /\ a + b - 1 < (q + 1) * b
  BY <1>1
<1> HIDE DEF q
<1>3. (q + 1) * b = q * b + b /\ q * b \in Nat
  BY <1>2
<1> QED
  BY <1>2, <1>3 DEF q

(* The console's in-place update: the blocks given back were behind the    *)
(* new text, and the description is read off the block that stays first.   *)
LEMMA OverwriteView ==
  ASSUME NEW p, Consistent(p), Spells(p), NEW id \in DOMAIN p.memory_info, NEW c \in Contents,
         c.size > 0, c.size <= p.memory_info[id].second * kBlockSize
  PROVE  LET q == OverwriteInPlace(p, id, c)
         IN  /\ Spells(q)
             /\ View(q) = Added(View(p), id, Item(View(p)[id].description, c, CeilBlocks(c)))
             /\ q.free_block_count = p.free_block_count + (p.memory_info[id].second - CeilBlocks(c))
<1> DEFINE q == OverwriteInPlace(p, id, c)
           e == p.memory_info[id]
           n == CeilBlocks(c)
           T == GivenBack(e, n)
           new == e.first .. e.first + n - 1
<1>0. HasPoolType(p) /\ OwnsItsBlocks(p) /\ p.used_map \subseteq Blocks
  BY DEF Consistent, HasPoolType
<1>F. /\ q.meta = [b \in Blocks |-> IF b \in T THEN BlockMeta ELSE p.meta[b]]
      /\ q.memory_info = [p.memory_info EXCEPT ![id].second = n]
      /\ q.free_block_count = p.free_block_count + (e.second - n)
      /\ q.pool = [b \in Blocks |-> IF b \in new THEN Chunk(c, b - e.first) ELSE p.pool[b]]
  BY <1>0, PoolFields DEF HasPoolType, OverwriteInPlace, UpdateMemoryBlockCount, ClearBlockMeta
<1>T. HasPoolType(q)
  BY OverwriteConsistent DEF Consistent
<1> HIDE DEF q
<1>1. e \in Entries /\ e.first \in Nat /\ e.second \in Nat \ {0} /\ e.first \in Blocks
  <2>1. e \in Entries
    BY <1>0 DEF HasPoolType
  <2> QED
    BY <2>1, SpanFacts DEF Entries
<1>2. n \in 1 .. e.second
  BY <1>1, CeilFits
<1>S. c.size <= n * kBlockSize
  BY DivCeil, PoolAssumption DEF CeilBlocks, Contents
<1> HIDE DEF n
<1>3. \A b \in Span(e) : b \in Blocks
  BY <1>0 DEF OwnsItsBlocks
<1>4. \A k \in 0 .. n - 1 : e.first + k \in new /\ e.first + k \in Blocks /\ (e.first + k) - e.first = k
  <2>1. \A k \in 0 .. n - 1 : e.first + k \in Span(e)
    BY <1>1, <1>2 DEF Span
  <2> QED
    BY <1>1, <1>2, <1>3, <2>1
<1>5. \A k \in 0 .. n - 1 : q.pool[e.first + k] = Chunk(c, k)
  <2> TAKE k \in 0 .. n - 1
  <2>1. q.pool[e.first + k] = Chunk(c, (e.first + k) - e.first)
    BY <1>4, <1>F
  <2> QED
    BY <1>4, <2>1
<1>6. /\ DOMAIN q.memory_info = DOMAIN p.memory_info
      /\ q.memory_info[id].first = e.first /\ q.memory_info[id].second = n
      /\ \A x \in DOMAIN p.memory_info : x # id => q.memory_info[x] = p.memory_info[x]
  <2>1. e \in [first : Blocks, second : 1 .. kBlockCount]
    BY <1>1 DEF Entries
  <2> QED
    BY <1>0, <1>F, <2>1 DEF HasPoolType
<1>7. Spelled(q, id) = c
  <2>1. \A k \in 0 .. q.memory_info[id].second - 1 :
          q.pool[q.memory_info[id].first + k] = Chunk(c, k)
    BY <1>5, <1>6
  <2> QED
    BY <1>T, <1>6, <2>1, FirstPart
<1>8. ASSUME NEW x \in DOMAIN p.memory_info, x # id
      PROVE  /\ \A k \in 0 .. p.memory_info[x].second - 1 :
                  q.pool[p.memory_info[x].first + k] = p.pool[p.memory_info[x].first + k]
             /\ Line(q, x) = Line(p, x) /\ Spelled(q, x) = Spelled(p, x)
  <2> DEFINE f == p.memory_info[x]
  <2>1. f \in Entries
    BY <1>0 DEF HasPoolType
  <2>2. f.first \in Span(f) /\ \A k \in 0 .. f.second - 1 : f.first + k \in Span(f)
    BY <2>1, SpanFacts
  <2>3. \A b \in Span(f) : b \in Blocks /\ b \notin Span(e)
    BY <1>0, <1>8, SpansAreDisjoint DEF OwnsItsBlocks
  <2>4. \A b \in Span(f) : b \notin new /\ b \notin T
    <3>1. \A b \in new : b \in Span(e)
      BY <1>1, <1>2 DEF Span
    <3>2. \A b \in T : b \in Span(e)
      BY <1>1, <1>2 DEF Span, GivenBack
    <3> QED
      BY <2>3, <3>1, <3>2
  <2>5. \A b \in Span(f) : q.pool[b] = p.pool[b] /\ q.meta[b] = p.meta[b]
    BY <1>F, <2>3, <2>4
  <2> QED
    BY <1>6, <1>8, <2>2, <2>5 DEF Line, DescriptionOf, Spelled
<1>9. Spells(q)
  <2>1. ASSUME NEW x \in DOMAIN p.memory_info, x # id
        PROVE  /\ Spelled(q, x) \in Contents
               /\ Spelled(q, x).size <= q.memory_info[x].second * kBlockSize
               /\ \A k \in 0 .. q.memory_info[x].second - 1 :
                    q.pool[q.memory_info[x].first + k] = Chunk(Spelled(q, x), k)
    BY <1>6, <1>8, <2>1 DEF Spells
  <2> QED
    BY <1>5, <1>6, <1>7, <1>S, <2>1 DEF Spells
<1>10. Line(q, id) = Item(View(p)[id].description, c, n)
  <2>1. e.first \notin T
    BY <1>1, <1>2 DEF GivenBack
  <2>2. q.meta[e.first] = p.meta[e.first]
    BY <1>1, <1>F, <2>1
  <2>3. View(p)[id].description = p.meta[e.first].description
    BY DEF View, Line, DescriptionOf
  <2> QED
    BY <1>6, <1>7, <2>2, <2>3 DEF Line, DescriptionOf, Item
<1>11. View(q) = Added(View(p), id, Item(View(p)[id].description, c, n))
  BY <1>6, <1>8, <1>10 DEF View, Added
<1> QED
  BY <1>9, <1>11, <1>F DEF q, n

(* Taking an id, then allocating under it. *)
LEMMA TakeIdView ==
  ASSUME NEW p, Consistent(p), Spells(p), NEW d \in Descriptions, NEW c \in Contents
  PROVE  LET x == p.next_memory_id_counter
             q == AllocateBlock(GenerateNextMemoryId(p), x, d, c)
         IN  /\ Spells(q) /\ q.next_memory_id_counter = x + 1
             /\ Fitting(p, c) =>
                  /\ View(q) = Added(View(p), x, Item(d, c, RequiredBlocks(c)))
                  /\ q.free_block_count = p.free_block_count - RequiredBlocks(c)
             /\ ~Fitting(p, c) =>
                  View(q) = View(p) /\ q.free_block_count = p.free_block_count
<1> DEFINE x == p.next_memory_id_counter
           r == GenerateNextMemoryId(p)
           q == AllocateBlock(r, x, d, c)
<1>1. /\ Consistent(r) /\ r.memory_info = p.memory_info
      /\ r.next_memory_id_counter = x + 1 /\ x \in Nat \ {0} /\ x \notin DOMAIN p.memory_info
  BY GenerateConsistent
<1>2. r.free_block_count = p.free_block_count /\ r.pool = p.pool /\ r.meta = p.meta
  BY PoolFields DEF Consistent, HasPoolType, GenerateNextMemoryId
<1> HIDE DEF r, x
<1>3. Spells(r) /\ View(r) = View(p) /\ (Fitting(r, c) <=> Fitting(p, c))
  BY <1>1, <1>2 DEF Spells, Spelled, View, Line, DescriptionOf, Fitting
<1>4. /\ x \in Nat \ {0} /\ x < r.next_memory_id_counter /\ x \notin DOMAIN r.memory_info
      /\ d \in Descriptions \cup {NoDescription}
  BY <1>1
<1>5. q.next_memory_id_counter = x + 1
  BY <1>1, <1>4, AllocateConsistent
<1>6. /\ Spells(q)
      /\ Fitting(r, c) =>
           /\ View(q) = Added(View(r), x, Item(d, c, RequiredBlocks(c)))
           /\ q.free_block_count = r.free_block_count - RequiredBlocks(c)
      /\ ~Fitting(r, c) =>
           View(q) = View(r) /\ q.free_block_count = r.free_block_count
  BY <1>1, <1>3, <1>4, AllocateView
<1> HIDE DEF q
<1> QED
  BY <1>2, <1>3, <1>5, <1>6 DEF q, r, x

(* Freeing a memory, then allocating under its id and description: there   *)
(* is as much room as the free blocks and its own.                         *)
LEMMA ReplaceView ==
  ASSUME NEW p, Consistent(p), Spells(p), NEW x \in DOMAIN p.memory_info, NEW c \in Contents
  PROVE  LET q    == AllocateBlock(FreeByMemoryId(p, x), x, DescriptionOf(p, x), c)
             room == p.free_block_count + p.memory_info[x].second
             fits == c.size > 0 /\ RequiredBlocks(c) <= room
         IN  /\ Spells(q) /\ q.next_memory_id_counter = p.next_memory_id_counter
             /\ fits =>
                  /\ View(q) = Added(View(p), x, Item(View(p)[x].description, c, RequiredBlocks(c)))
                  /\ q.free_block_count = room - RequiredBlocks(c)
             /\ ~fits => View(q) = Removed(View(p), x) /\ q.free_block_count = room
<1> DEFINE r == FreeByMemoryId(p, x)
           d == DescriptionOf(p, x)
           q == AllocateBlock(r, x, d, c)
           room == p.free_block_count + p.memory_info[x].second
<1>1. /\ Consistent(r) /\ DOMAIN r.memory_info = DOMAIN p.memory_info \ {x}
      /\ r.next_memory_id_counter = p.next_memory_id_counter
      /\ Spells(r) /\ View(r) = Removed(View(p), x)
      /\ r.free_block_count = room
  BY FreeView, FreeConsistent
<1>2. x \in Nat \ {0} /\ x < p.next_memory_id_counter
  BY DEF Consistent, HasPoolType, HandsOutFreshIds
<1>3. d \in Descriptions \cup {NoDescription}
  BY DescriptionKept
<1>4. View(p)[x].description = d /\ DOMAIN View(p) = DOMAIN p.memory_info
  BY DEF View, Line
<1> HIDE DEF r, d, room
<1>5. x \notin DOMAIN r.memory_info /\ x < r.next_memory_id_counter
  BY <1>1, <1>2
<1>6. q.next_memory_id_counter = p.next_memory_id_counter
  BY <1>1, <1>2, <1>3, <1>5, AllocateConsistent
<1>7. /\ Spells(q)
      /\ Fitting(r, c) =>
           /\ View(q) = Added(View(r), x, Item(d, c, RequiredBlocks(c)))
           /\ q.free_block_count = r.free_block_count - RequiredBlocks(c)
      /\ ~Fitting(r, c) =>
           View(q) = View(r) /\ q.free_block_count = r.free_block_count
  BY <1>1, <1>2, <1>3, <1>5, AllocateView
<1> HIDE DEF q
<1>8. Added(View(r), x, Item(d, c, RequiredBlocks(c)))
        = Added(View(p), x, Item(d, c, RequiredBlocks(c)))
  BY <1>1, <1>4 DEF Added, Removed
<1>9. Fitting(r, c) <=> c.size > 0 /\ RequiredBlocks(c) <= room
  BY <1>1 DEF Fitting
<1> QED
  BY <1>1, <1>4, <1>6, <1>7, <1>8, <1>9 DEF q, r, d, room

(***************************************************************************)
(* Sums.                                                                   *)
(***************************************************************************)
(* The function that adds F up over the subsets of S. *)
AddsUp(h, F, S) ==
  h = [s \in SUBSET S |-> IF s = {} THEN 0
                          ELSE F[CHOOSE x \in s : TRUE] + h[s \ {CHOOSE x \in s : TRUE}]]

Covered(B, s) == UNION {B[x] : x \in s}

(* Two finite sets that do not overlap. *)
LEMMA DisjointUnion ==
  ASSUME NEW X, NEW Y, IsFiniteSet(X), IsFiniteSet(Y), X \cap Y = {}
  PROVE  Cardinality(X \cup Y) = Cardinality(X) + Cardinality(Y)
<1>1. Cardinality(X \cup Y) = Cardinality(X) + Cardinality(Y) - Cardinality(X \cap Y)
  BY FS_Union
<1>2. Cardinality(X) \in Nat /\ Cardinality(Y) \in Nat /\ Cardinality(X \cap Y) = 0
  BY FS_CardinalityType, FS_EmptySet
<1> QED
  BY <1>1, <1>2

(* F added up over a finite set, where F counts sets that do not overlap. *)
LEMMA DisjointSum ==
  ASSUME NEW S, IsFiniteSet(S), NEW F, NEW B,
         \A x \in S : IsFiniteSet(B[x]) /\ F[x] = Cardinality(B[x]),
         \A x, y \in S : x # y => B[x] \cap B[y] = {}
  PROVE  /\ \E h : AddsUp(h, F, S)
         /\ \A h : AddsUp(h, F, S) => h[S] = Cardinality(Covered(B, S))
<1> DEFINE g == [s \in SUBSET S |-> Cardinality(Covered(B, s))]
<1>1. ASSUME NEW s \in SUBSET S, s # {}
      PROVE  LET x == CHOOSE x \in s : TRUE
             IN  /\ x \in s
                 /\ s \ {x} \in SUBSET S /\ s \ {x} # s
                 /\ Cardinality(Covered(B, s)) = F[x] + Cardinality(Covered(B, s \ {x}))
  <2> DEFINE x == CHOOSE x \in s : TRUE
             r == s \ {x}
  <2>1. x \in s /\ x \in S
    BY <1>1
  <2> HIDE DEF x
  <2>2. Covered(B, s) = B[x] \cup Covered(B, r)
    BY <2>1 DEF Covered
  <2>3. B[x] \cap Covered(B, r) = {}
    BY <2>1 DEF Covered
  <2>4. IsFiniteSet(B[x]) /\ IsFiniteSet(Covered(B, r))
    <3>1. IsFiniteSet(r)
      BY FS_Subset
    <3>2. IsFiniteSet({B[y] : y \in r})
      <4>1. [y \in r |-> B[y]] \in Surjection(r, {B[y] : y \in r})
        BY DEF Surjection
      <4> QED
        BY ONLY <3>1, <4>1, FS_Surjection
    <3>3. \A T \in {B[y] : y \in r} : IsFiniteSet(T)
      OBVIOUS
    <3>4. IsFiniteSet(UNION {B[y] : y \in r})
      BY ONLY <3>2, <3>3, FS_UNION
    <3> QED
      BY <2>1, <3>4 DEF Covered
  <2>5. Cardinality(Covered(B, s)) = Cardinality(B[x]) + Cardinality(Covered(B, r))
    <3> HIDE DEF r
    <3> QED
      BY ONLY <2>2, <2>3, <2>4, DisjointUnion
  <2> QED
    BY <2>1, <2>5 DEF x
<1>2. Cardinality(Covered(B, {})) = 0
  <2>1. Covered(B, {}) = {}
    BY DEF Covered
  <2> QED
    BY <2>1, FS_EmptySet
<1>3. AddsUp(g, F, S)
  <2> DEFINE sum(s) == IF s = {} THEN 0
                       ELSE F[CHOOSE x \in s : TRUE] + g[s \ {CHOOSE x \in s : TRUE}]
  <2>1. ASSUME NEW s \in SUBSET S PROVE g[s] = sum(s)
    <3>1. CASE s = {}
      BY <1>2, <3>1
    <3>2. CASE s # {}
      BY <1>1, <3>2
    <3> QED
      BY <3>1, <3>2
  <2>2. g = [s \in SUBSET S |-> g[s]]
    OBVIOUS
  <2> HIDE DEF g
  <2>3. g = [s \in SUBSET S |-> sum(s)]
    <3> HIDE DEF sum
    <3> QED
      BY <2>1, <2>2
  <2> QED
    BY <2>3, Zenon DEF AddsUp
<1>4. ASSUME NEW h, AddsUp(h, F, S), NEW s \in SUBSET S, h[s] # g[s] PROVE FALSE
  <2> DEFINE T == {u \in SUBSET S : h[u] # g[u]}
  <2>1. T \subseteq FiniteSubsetsOf(S) /\ T # {}
    <3>1. FiniteSubsetsOf(S) = SUBSET S
      BY FS_FiniteSubsetsOfFinite
    <3> QED
      BY <1>4, <3>1
  <2>2. PICK u \in T : \A v \in T : ~(<<v, u>> \in StrictSubsetOrdering(S))
    <3> HIDE DEF T
    <3> QED
      BY ONLY <2>1, WFMin, FS_StrictSubsetOrderingWellFounded
  <2>3. u # {}
    BY <1>2, <1>4 DEF AddsUp
  <2> DEFINE x == CHOOSE x \in u : TRUE
             r == u \ {x}
  <2>4. x \in u /\ r \in SUBSET S /\ r # u
    BY <2>3
  <2>5. g[u] = F[x] + g[r] /\ h[u] = F[x] + h[r]
    BY <1>1, <1>4, <2>3, <2>4 DEF AddsUp
  <2>6. r \in T
    BY <2>2, <2>4, <2>5
  <2>7. <<r, u>> \in StrictSubsetOrdering(S)
    BY <2>4 DEF StrictSubsetOrdering
  <2> QED
    BY <2>2, <2>6, <2>7
<1>5. S \in SUBSET S
  OBVIOUS
<1> QED
  BY <1>3, <1>4, <1>5

(* The blocks of all memories add up to the used ones. *)
BlockCounts(p) == [x \in DOMAIN p.memory_info |-> p.memory_info[x].second]

LEMMA BlockCountsAddUp ==
  ASSUME NEW p, Consistent(p)
  PROVE  /\ \E h : AddsUp(h, BlockCounts(p), DOMAIN p.memory_info)
         /\ \A h : AddsUp(h, BlockCounts(p), DOMAIN p.memory_info) =>
                  h[DOMAIN p.memory_info] = kBlockCount - p.free_block_count
<1> DEFINE S == DOMAIN p.memory_info
           m == p.memory_info
           F == BlockCounts(p)
           B == [x \in S |-> Span(m[x])]
<1>0. /\ HasPoolType(p) /\ OwnsItsBlocks(p) /\ LeaksNoBlock(p) /\ CountsFreeBlocks(p)
      /\ HandsOutFreshIds(p)
  BY DEF Consistent
<1>1. \A x \in S : F[x] = m[x].second
  BY DEF BlockCounts
<1>2. IsFiniteSet(S)
  <2>1. S \in SUBSET Nat /\ p.next_memory_id_counter \in Nat
    BY <1>0 DEF HasPoolType
  <2>2. \A x \in S : x <= p.next_memory_id_counter
    BY <1>0, <2>1 DEF HandsOutFreshIds
  <2> HIDE DEF S
  <2> QED
    BY <2>1, <2>2, FS_BoundedSetOfNaturals
<1>3. \A x \in S : IsFiniteSet(B[x]) /\ F[x] = Cardinality(B[x])
  <2>1. \A x \in S : m[x] \in Entries /\ Span(m[x]) \subseteq Blocks
    BY <1>0 DEF HasPoolType, OwnsItsBlocks
  <2> HIDE DEF F
  <2> QED
    BY <1>1, <2>1, SpanCardinality
<1>4. \A x, y \in S : x # y => B[x] \cap B[y] = {}
  <2>1. \A x, y \in S : \A b : b \in Span(m[x]) /\ b \in Span(m[y]) => x = y
    BY <1>0, SpansAreDisjoint
  <2> QED
    BY <2>1
<1>5. Covered(B, S) = Owned(p)
  BY DEF Covered, Owned
<1>6. Cardinality(Owned(p)) = kBlockCount - p.free_block_count
  BY <1>0, UsedIsOwned, PoolAssumption DEF FreePos
<1> HIDE DEF F, B, S, m
<1>7. /\ \E h : AddsUp(h, F, S)
      /\ \A h : AddsUp(h, F, S) => h[S] = Cardinality(Covered(B, S))
  BY <1>2, <1>3, <1>4, DisjointSum
<1> QED
  BY <1>5, <1>6, <1>7 DEF S, F

(* Added up over the entries, as info does. *)
LEMMA EntriesAddUp ==
  ASSUME NEW p, Consistent(p)
  PROVE  MapThenSumSet(LAMBDA id : p.memory_info[id].second, DOMAIN p.memory_info)
           = kBlockCount - p.free_block_count
<1> DEFINE S == DOMAIN p.memory_info
           F == BlockCounts(p)
           P(iter) == iter = [s \in SUBSET S |->
                                IF s = {} THEN 0
                                ELSE p.memory_info[CHOOSE x \in s : TRUE].second
                                       + iter[s \ {CHOOSE x \in s : TRUE}]]
<1>1. \A iter : P(iter) <=> AddsUp(iter, F, S)
  <2> TAKE iter
  <2> DEFINE direct(s) == IF s = {} THEN 0 ELSE p.memory_info[CHOOSE x \in s : TRUE].second
                                                 + iter[s \ {CHOOSE x \in s : TRUE}]
             viaF(s) == IF s = {} THEN 0 ELSE F[CHOOSE x \in s : TRUE]
                                                + iter[s \ {CHOOSE x \in s : TRUE}]
  <2>1. \A s \in SUBSET S : s # {} => (CHOOSE x \in s : TRUE) \in S
    OBVIOUS
  <2>2. \A s \in SUBSET S : direct(s) = viaF(s)
    BY <2>1 DEF BlockCounts
  <2> HIDE DEF direct, viaF
  <2>3. [s \in SUBSET S |-> direct(s)] = [s \in SUBSET S |-> viaF(s)]
    BY <2>2
  <2> QED
    BY <2>3 DEF direct, viaF, AddsUp
<1>2. MapThenSumSet(LAMBDA id : p.memory_info[id].second, S) = (CHOOSE iter : P(iter))[S]
  BY DEF MapThenSumSet, MapThenFoldSet
<1>3. DOMAIN p.memory_info = S
  BY DEF View
<1> HIDE DEF P, F, S
<1>4. /\ \E h : AddsUp(h, F, S)
      /\ \A h : AddsUp(h, F, S) => h[S] = kBlockCount - p.free_block_count
  BY BlockCountsAddUp DEF F, S
<1>5. P(CHOOSE iter : P(iter))
  BY <1>1, <1>4, Zenon
<1> QED
  BY <1>1, <1>2, <1>3, <1>4, <1>5

(* Added up over what the store holds of the object. *)
LEMMA ViewAddsUp ==
  ASSUME NEW p, Consistent(p)
  PROVE  MapThenSumSet(LAMBDA id : View(p)[id].blocks, DOMAIN View(p))
           = kBlockCount - p.free_block_count
<1> DEFINE S == DOMAIN p.memory_info
           F == BlockCounts(p)
           P(iter) == iter = [s \in SUBSET S |->
                                IF s = {} THEN 0
                                ELSE View(p)[CHOOSE x \in s : TRUE].blocks
                                       + iter[s \ {CHOOSE x \in s : TRUE}]]
<1>1. \A iter : P(iter) <=> AddsUp(iter, F, S)
  <2> TAKE iter
  <2> DEFINE direct(s) == IF s = {} THEN 0 ELSE View(p)[CHOOSE x \in s : TRUE].blocks
                                                 + iter[s \ {CHOOSE x \in s : TRUE}]
             viaF(s) == IF s = {} THEN 0 ELSE F[CHOOSE x \in s : TRUE]
                                                + iter[s \ {CHOOSE x \in s : TRUE}]
  <2>1. \A s \in SUBSET S : s # {} => (CHOOSE x \in s : TRUE) \in S
    OBVIOUS
  <2>2. \A s \in SUBSET S : direct(s) = viaF(s)
    BY <2>1 DEF BlockCounts, View, Line
  <2> HIDE DEF direct, viaF
  <2>3. [s \in SUBSET S |-> direct(s)] = [s \in SUBSET S |-> viaF(s)]
    BY <2>2
  <2> QED
    BY <2>3 DEF direct, viaF, AddsUp
<1>2. MapThenSumSet(LAMBDA id : View(p)[id].blocks, S) = (CHOOSE iter : P(iter))[S]
  BY DEF MapThenSumSet, MapThenFoldSet
<1>3. DOMAIN View(p) = S
  BY DEF View
<1> HIDE DEF P, F, S
<1>4. /\ \E h : AddsUp(h, F, S)
      /\ \A h : AddsUp(h, F, S) => h[S] = kBlockCount - p.free_block_count
  BY BlockCountsAddUp DEF F, S
<1>5. P(CHOOSE iter : P(iter))
  BY <1>1, <1>4, Zenon
<1> QED
  BY <1>1, <1>2, <1>3, <1>4, <1>5

(* The bytes of the blocks a content is read as add up to its size. *)
LEMMA BytesAddUp ==
  ASSUME NEW c \in Contents, c.size <= kBlockCount * kBlockSize
  PROVE  MapThenSumSet(LAMBDA piece : Filled(piece[2]), TextOf(c)) = c.size
<1> DEFINE S == TextOf(c)
           F == [x \in S |-> Filled(x[2])]
           bytes(i) == {k \in 0 .. c.size - 1 : i * kBlockSize <= k /\ k < (i + 1) * kBlockSize}
           B == [x \in S |-> bytes(x[1])]
           I == {j \in 0 .. kBlockCount - 1 : j * kBlockSize < c.size}
           P(iter) == iter = [s \in SUBSET S |->
                                IF s = {} THEN 0
                                ELSE Filled((CHOOSE x \in s : TRUE)[2])
                                       + iter[s \ {CHOOSE x \in s : TRUE}]]
<1>0. c.size \in Nat /\ kBlockSize \in Nat \ {0} /\ kBlockCount \in Nat
  BY PoolAssumption DEF Contents
<1>1. \A iter : P(iter) <=> AddsUp(iter, F, S)
  <2> TAKE iter
  <2> HIDE DEF S
  <2> DEFINE direct(s) == IF s = {} THEN 0 ELSE Filled((CHOOSE x \in s : TRUE)[2])
                                                 + iter[s \ {CHOOSE x \in s : TRUE}]
             viaF(s) == IF s = {} THEN 0 ELSE F[CHOOSE x \in s : TRUE]
                                                + iter[s \ {CHOOSE x \in s : TRUE}]
  <2>1. \A s \in SUBSET S : s # {} => (CHOOSE x \in s : TRUE) \in S
    OBVIOUS
  <2>2. \A s \in SUBSET S : direct(s) = viaF(s)
    BY <2>1
  <2> HIDE DEF direct, viaF
  <2>3. [s \in SUBSET S |-> direct(s)] = [s \in SUBSET S |-> viaF(s)]
    BY <2>2
  <2> QED
    BY <2>3 DEF direct, viaF, AddsUp
<1>2. MapThenSumSet(LAMBDA piece : Filled(piece[2]), S) = (CHOOSE iter : P(iter))[S]
  BY DEF MapThenSumSet, MapThenFoldSet
<1>3. \A x : x \in S <=> \E i \in I : x = <<i, Chunk(c, i)>>
  BY DEF TextOf
<1>4. IsFiniteSet(S)
  <2>1. IsFiniteSet(0 .. kBlockCount - 1)
    BY <1>0, FS_Interval
  <2>2. I \in SUBSET (0 .. kBlockCount - 1)
    OBVIOUS
  <2>3. IsFiniteSet(I)
    BY ONLY <2>1, <2>2, FS_Subset
  <2>4. [i \in I |-> <<i, Chunk(c, i)>>] \in Surjection(I, S)
    <3> HIDE DEF S, I
    <3> QED
      BY <1>3 DEF Surjection
  <2> QED
    BY ONLY <2>3, <2>4, FS_Surjection
<1>5. ASSUME NEW i \in I
      PROVE  IsFiniteSet(bytes(i)) /\ Filled(Chunk(c, i)) = Cardinality(bytes(i))
  <2> DEFINE lo == i * kBlockSize
             hi == lo + Filled(Chunk(c, i)) - 1
  <2>1. lo \in Nat /\ lo < c.size /\ (i + 1) * kBlockSize = lo + kBlockSize
    BY <1>0
  <2>2. /\ Chunk(c, i).of = c /\ Chunk(c, i).part = i
    BY DEF Chunk
  <2>3. Filled(Chunk(c, i)) = IF c.size - lo >= kBlockSize THEN kBlockSize ELSE c.size - lo
    BY <1>0, <2>1, <2>2 DEF Filled
  <2> HIDE DEF lo
  <2>4. Filled(Chunk(c, i)) \in Nat \ {0} /\ hi \in Nat /\ lo <= hi
    BY <1>0, <2>1, <2>3
  <2>5. \A k \in Int : k \in bytes(i) <=> lo <= k /\ k <= hi
    BY <1>0, <2>1, <2>3 DEF lo
  <2>6. bytes(i) = lo .. hi
    <3>1. \A k \in bytes(i) : k \in Int
      OBVIOUS
    <3>2. \A k \in lo .. hi : k \in Int
      OBVIOUS
    <3> HIDE DEF hi
    <3> QED
      BY <2>1, <2>4, <2>5, <3>1, <3>2
  <2>7. IsFiniteSet(lo .. hi) /\ Cardinality(lo .. hi) = hi - lo + 1
    <3> HIDE DEF hi
    <3>1. lo \in Int /\ hi \in Int /\ ~(lo > hi)
      BY <2>1, <2>4
    <3> QED
      BY ONLY <3>1, FS_Interval
  <2>8. hi - lo + 1 = Filled(Chunk(c, i))
    BY <2>1, <2>4
  <2> HIDE DEF hi
  <2> QED
    BY <2>6, <2>7, <2>8
<1>6. \A x \in S : IsFiniteSet(B[x]) /\ F[x] = Cardinality(B[x])
  <2> TAKE x \in S
  <2>1. PICK i \in I : x = <<i, Chunk(c, i)>>
    BY <1>3
  <2>2. B[x] = bytes(i) /\ F[x] = Filled(Chunk(c, i))
    BY <2>1
  <2> QED
    BY <1>5, <2>2
<1>7. ASSUME NEW i \in I, NEW j \in I, i < j PROVE bytes(i) \cap bytes(j) = {}
  <2>1. (i + 1) * kBlockSize <= j * kBlockSize
    BY <1>0, <1>7
  <2>2. (i + 1) * kBlockSize \in Nat /\ j * kBlockSize \in Nat
    BY <1>0
  <2> QED
    BY <1>0, <2>1, <2>2
<1>8. \A x, y \in S : x # y => B[x] \cap B[y] = {}
  <2> SUFFICES ASSUME NEW x \in S, NEW y \in S, x # y PROVE B[x] \cap B[y] = {}
    OBVIOUS
  <2>1. PICK i \in I : x = <<i, Chunk(c, i)>>
    BY <1>3
  <2>2. PICK j \in I : y = <<j, Chunk(c, j)>>
    BY <1>3
  <2>3. B[x] = bytes(i) /\ B[y] = bytes(j)
    BY <2>1, <2>2
  <2>4. i < j \/ j < i
    BY <2>1, <2>2
  <2> QED
    BY <1>7, <2>3, <2>4
<1>9. Covered(B, S) = 0 .. c.size - 1
  <2>1. ASSUME NEW k \in 0 .. c.size - 1 PROVE \E i \in I : k \in bytes(i)
    <3> DEFINE i == k \div kBlockSize
    <3>1. i \in Nat /\ i * kBlockSize <= k /\ k < (i + 1) * kBlockSize
      BY <1>0
    <3> HIDE DEF i
    <3>2. i * kBlockSize \in Nat /\ kBlockCount * kBlockSize \in Nat
      BY <1>0, <3>1
    <3>3. i >= kBlockCount => i * kBlockSize >= kBlockCount * kBlockSize
      BY <1>0, <3>1
    <3>4. i < kBlockCount /\ i * kBlockSize < c.size
      BY <1>0, <3>1, <3>2, <3>3
    <3> QED
      BY <1>0, <3>1, <3>4
  <2>2. \A i \in I : <<i, Chunk(c, i)>> \in S /\ <<i, Chunk(c, i)>>[1] = i
    BY <1>3
  <2>3. \A x \in S : B[x] \subseteq 0 .. c.size - 1
    OBVIOUS
  <2>4. \A k \in 0 .. c.size - 1 : \E x \in S : k \in B[x]
    BY <2>1, <2>2
  <2> HIDE DEF B, S
  <2> QED
    BY <2>3, <2>4 DEF Covered
<1>10. Cardinality(0 .. c.size - 1) = c.size
  BY <1>0, FS_Interval
<1> HIDE DEF P, F, B, S
<1>11. /\ \E h : AddsUp(h, F, S)
       /\ \A h : AddsUp(h, F, S) => h[S] = Cardinality(Covered(B, S))
  BY <1>4, <1>6, <1>8, DisjointSum
<1>12. P(CHOOSE iter : P(iter))
  BY <1>1, <1>11, Zenon
<1> QED
  BY <1>1, <1>2, <1>9, <1>10, <1>11, <1>12 DEF S

(***************************************************************************)
(* Metadata that is in use or cleared.                                     *)
(***************************************************************************)
(* The metadata of a block that is not in use is cleared.  The file does   *)
(* not hold the metadata of such blocks, so this is why what is read is    *)
(* what was saved; it also holds of what a short file leaves.              *)
Tidy(p) ==
  /\ p.meta = [b \in Blocks |-> p.meta[b]]
  /\ \A b \in Blocks : ~p.meta[b].used => p.meta[b] = BlockMeta

(* A reset object. *)
LEMMA ResetTidy == Tidy(ResetPool)
  BY DEF Tidy, ResetPool, BlockMeta

(* Compaction. *)
LEMMA CompactTidy ==
  ASSUME NEW p, Consistent(p), Tidy(p)
  PROVE  Tidy(Compact(p))
<1> DEFINE q == Compact(p)
<1>1. HasPoolType(p) /\ OwnsItsBlocks(p) /\ LeaksNoBlock(p) /\ CountsFreeBlocks(p)
  BY DEF Consistent
<1>2. q.meta = MovedMeta(p)
  BY <1>1, CompactFields
<1>3. \A d \in Packed(p) : Nth(Owned(p), d) \in Blocks
  <2>1. Owned(p) \in SUBSET Blocks
    BY <1>1, UsedIsOwned
  <2> QED
    BY <2>1, RankOnto DEF Packed, FreePos
<1>4. \A b \in Blocks : ~MovedMeta(p)[b].used => MovedMeta(p)[b] = BlockMeta
  BY <1>3 DEF MovedMeta, Tidy
<1> QED
  BY <1>2, <1>4 DEF Tidy, MovedMeta

(* Freeing. *)
LEMMA FreeTidy ==
  ASSUME NEW p, Consistent(p), Tidy(p), NEW x \in DOMAIN p.memory_info
  PROVE  Tidy(FreeByMemoryId(p, x))
<1>1. HasPoolType(p)
  BY DEF Consistent
<1>2. FreeByMemoryId(p, x).meta =
        [b \in Blocks |-> IF b \in Span(p.memory_info[x]) THEN BlockMeta ELSE p.meta[b]]
  BY <1>1, FreeFields, ZenonT(30)
<1> QED
  BY <1>2 DEF Tidy

(* An allocation, with or without a compaction. *)
LEMMA AllocateTidy ==
  ASSUME NEW p, Consistent(p), Tidy(p), NEW x, NEW d, NEW c
  PROVE  Tidy(AllocateBlock(p, x, d, c))
<1> DEFINE q == Searched(p, RequiredBlocks(c))
           start == FindContinuousFreeBlock(q, RequiredBlocks(c))
           e == [first |-> start, second |-> RequiredBlocks(c)]
<1>1. Tidy(q) /\ HasPoolType(q)
  BY CompactTidy, CompactConsistent DEF Searched, Consistent
<1>2. AllocateBlock(p, x, d, c) \in {p, q, Place(q, start, x, d, c)}
  BY DEF AllocateBlock
<1> HIDE DEF q
<1>3. Place(q, start, x, d, c).meta =
        [b \in Blocks |-> IF b \in Span(e) THEN [used |-> TRUE, memory_id |-> x, description |-> d]
                          ELSE q.meta[b]]
  BY <1>1, PoolFields DEF Place, HasPoolType
<1>4. Tidy(Place(q, start, x, d, c))
  BY <1>1, <1>3 DEF Tidy
<1> QED
  BY <1>1, <1>2, <1>4

(* The update in place. *)
LEMMA OverwriteTidy ==
  ASSUME NEW p, Consistent(p), Tidy(p), NEW x \in DOMAIN p.memory_info, NEW c
  PROVE  Tidy(OverwriteInPlace(p, x, c))
<1> DEFINE T == GivenBack(p.memory_info[x], CeilBlocks(c))
<1>1. HasPoolType(p)
  BY DEF Consistent
<1>2. OverwriteInPlace(p, x, c).meta = [b \in Blocks |-> IF b \in T THEN BlockMeta ELSE p.meta[b]]
  BY <1>1, PoolFields DEF HasPoolType, OverwriteInPlace, UpdateMemoryBlockCount, ClearBlockMeta
<1> QED
  BY <1>2 DEF Tidy

(***************************************************************************)
(* The two commands of several calls.                                      *)
(***************************************************************************)
(* Taking an id, then allocating under it. *)
LEMMA TakeIdAndAllocate ==
  ASSUME NEW p, Consistent(p), NEW d \in Descriptions, NEW c \in Contents
  PROVE  LET x == p.next_memory_id_counter
             q == AllocateBlock(GenerateNextMemoryId(p), x, d, c)
         IN  /\ Consistent(q) /\ (Tidy(p) => Tidy(q))
             /\ DOMAIN q.memory_info \in {DOMAIN p.memory_info, DOMAIN p.memory_info \cup {x}}
             /\ q.next_memory_id_counter = p.next_memory_id_counter + 1
<1> DEFINE x == p.next_memory_id_counter
           r == GenerateNextMemoryId(p)
           q == AllocateBlock(r, x, d, c)
<1>1. /\ Consistent(r) /\ r.memory_info = p.memory_info
      /\ r.next_memory_id_counter = x + 1 /\ x \in Nat \ {0} /\ x \notin DOMAIN p.memory_info
  BY GenerateConsistent
<1>2. Tidy(p) => Tidy(r)
  <2>1. r.meta = p.meta
    BY PoolFields DEF Consistent, HasPoolType, GenerateNextMemoryId
  <2> QED
    BY <2>1 DEF Tidy
<1> HIDE DEF r, x
<1>3. x \in Nat \ {0} /\ x < r.next_memory_id_counter /\ x \notin DOMAIN r.memory_info
  BY <1>1
<1>4. d \in Descriptions \cup {NoDescription}
  OBVIOUS
<1>5. /\ Consistent(q) /\ q.next_memory_id_counter = r.next_memory_id_counter
      /\ DOMAIN q.memory_info \in {DOMAIN r.memory_info, DOMAIN r.memory_info \cup {x}}
  BY <1>1, <1>3, <1>4, AllocateConsistent
<1>6. Tidy(p) => Tidy(q)
  BY <1>1, <1>2, AllocateTidy
<1> HIDE DEF q
<1> QED
  BY <1>1, <1>5, <1>6 DEF q, r, x

(* Freeing a memory, then allocating under its id and description. *)
LEMMA FreeAndAllocate ==
  ASSUME NEW p, Consistent(p), NEW x \in DOMAIN p.memory_info, NEW c \in Contents
  PROVE  LET q == AllocateBlock(FreeByMemoryId(p, x), x, DescriptionOf(p, x), c)
         IN  /\ Consistent(q) /\ (Tidy(p) => Tidy(q))
             /\ DOMAIN q.memory_info \in {DOMAIN p.memory_info, DOMAIN p.memory_info \ {x}}
             /\ q.next_memory_id_counter = p.next_memory_id_counter
<1> DEFINE d == DescriptionOf(p, x)
           r == FreeByMemoryId(p, x)
           q == AllocateBlock(r, x, d, c)
<1>1. /\ Consistent(r) /\ DOMAIN r.memory_info = DOMAIN p.memory_info \ {x}
      /\ r.next_memory_id_counter = p.next_memory_id_counter /\ (Tidy(p) => Tidy(r))
  BY FreeConsistent, FreeTidy
<1>2. x \in Nat \ {0} /\ x < p.next_memory_id_counter
  BY DEF Consistent, HasPoolType, HandsOutFreshIds
<1>3. d \in Descriptions \cup {NoDescription}
  BY DescriptionKept
<1> HIDE DEF r, d
<1>4. x \notin DOMAIN r.memory_info /\ x < r.next_memory_id_counter
  BY <1>1, <1>2
<1>5. /\ Consistent(q) /\ q.next_memory_id_counter = r.next_memory_id_counter
      /\ DOMAIN q.memory_info \in {DOMAIN r.memory_info, DOMAIN r.memory_info \cup {x}}
  BY <1>1, <1>2, <1>3, <1>4, AllocateConsistent
<1>6. Tidy(p) => Tidy(q)
  BY <1>1, AllocateTidy
<1> HIDE DEF q
<1>7. DOMAIN r.memory_info \cup {x} = DOMAIN p.memory_info
  BY <1>1
<1> QED
  BY <1>1, <1>5, <1>6, <1>7 DEF q, r, d

(***************************************************************************)
(* Loading.                                                                *)
(***************************************************************************)
(* A file with all sections. *)
AllSections(f) == DOMAIN f.sections = UpTo(Len(Order)) /\ ~f.torn

(* The first n sections of a Save are n. *)
LEMMA SectionCount ==
  ASSUME NEW n \in 0 .. Len(Order)
  PROVE  IsFiniteSet(UpTo(n)) /\ Cardinality(UpTo(n)) = n
<1> DEFINE f == [i \in 1 .. n |-> Order[i]]
<1>1. n \in Nat /\ n <= 7
  BY DEF Order
<1>2. \A i, j \in 1 .. 7 : Order[i] = Order[j] => i = j
  BY DEF Order
<1>3. f \in Bijection(1 .. n, UpTo(n))
  <2>1. f \in [1 .. n -> UpTo(n)]
    <3>1. \A i \in 1 .. n : Order[i] \in UpTo(n)
      BY Zenon DEF UpTo
    <3> QED
      BY <3>1
  <2>2. \A i, j \in 1 .. n : f[i] = f[j] => i = j
    <3>1. \A i \in 1 .. n : i \in 1 .. 7 /\ f[i] = Order[i]
      BY <1>1
    <3> QED
      BY <1>2, <3>1
  <2>3. \A t \in UpTo(n) : \E i \in 1 .. n : f[i] = t
    BY DEF UpTo
  <2> QED
    BY <2>1, <2>2, <2>3 DEF Bijection, Injection, IsInjective, Surjection
<1>4. IsFiniteSet(1 .. n) /\ Cardinality(1 .. n) = n
  BY <1>1, FS_Interval
<1> QED
  BY <1>3, <1>4, FS_Bijection DEF ExistsBijection

(* Whatever Load reads of the metadata is tidy. *)
LEMMA MetadataReadTidy ==
  ASSUME NEW f, NEW m \in MetadataRead(f)
  PROVE  /\ m = [b \in Blocks |-> m[b]]
         /\ \A b \in Blocks : ~m[b].used => m[b] = BlockMeta
<1> DEFINE asRead(w, n) == [b \in Blocks |-> IF b < n /\ w[b].used THEN w[b] ELSE BlockMeta]
<1>1. \/ \E n : m = asRead(f.sections.metadata, n)
      \/ m = [b \in Blocks |-> BlockMeta]
  BY DEF MetadataRead
<1>2. \A w, n : \A b \in Blocks : ~asRead(w, n)[b].used => asRead(w, n)[b] = BlockMeta
  OBVIOUS
<1> QED
  BY <1>1, <1>2

(* So is every object Load leaves. *)
LEMMA ReadTidy ==
  ASSUME NEW f, NEW q \in ReadThrough(f) \cup ReadUntilThrow(f) \cup ReadShifted(f)
  PROVE  Tidy(q) /\ Tidy(InitializeMemoryIdCounter(q)) /\ DOMAIN q = DOMAIN ResetPool
<1>1. \A m, bits : /\ WithMetadata(f, m, bits).meta = m
                   /\ DOMAIN WithMetadata(f, m, bits) = DOMAIN ResetPool
  BY PoolFields DEF WithMetadata
<1>2. \A p, info, times, pos, data : DOMAIN p = DOMAIN ResetPool =>
        LET r == WithTables(p, info, times, pos, data)
        IN  r.meta = p.meta /\ DOMAIN r = DOMAIN p
  BY PoolFields DEF WithTables
<1>3. CASE q \in ReadThrough(f) \/ q \in ReadShifted(f)
  <2>1. ASSUME q \in ReadThrough(f)
        PROVE  \E m \in MetadataRead(f) : q.meta = m /\ DOMAIN q = DOMAIN ResetPool
    <3>1. PICK m \in MetadataRead(f), bits \in BitmapRead(f), info \in MemoryInfoRead(f),
               times \in TimeMapRead(f), data \in PoolDataRead(f) :
            q = WithTables(WithMetadata(f, m, bits), info, times, SearchPosRead(f, m), data)
      BY <2>1 DEF ReadThrough
    <3> QED
      BY <1>1, <1>2, <3>1
  <2>2. ASSUME q \in ReadShifted(f)
        PROVE  \E m \in MetadataRead(f) : q.meta = m /\ DOMAIN q = DOMAIN ResetPool
    <3>1. PICK m \in MetadataRead(f), pos \in 0 .. kBlockCount :
            q = WithTables(WithMetadata(f, m, f.sections.used_map), f.sections.memory_info,
                           f.sections.time_map, pos,
                           [b \in Blocks |-> Straddling(f.sections.pool_data, b)])
      BY <2>2 DEF ReadShifted
    <3> QED
      BY <1>1, <1>2, <3>1
  <2>3. PICK m \in MetadataRead(f) : q.meta = m /\ DOMAIN q = DOMAIN ResetPool
    BY <1>3, <2>1, <2>2
  <2> QED
    BY <2>3, MetadataReadTidy, PoolFields DEF Tidy, InitializeMemoryIdCounter
<1>4. CASE q \in ReadUntilThrow(f) /\ q # ResetPool
  <2>1. PICK m \in MetadataRead(f) : q.meta = m /\ DOMAIN q = DOMAIN ResetPool
    BY <1>1, <1>4, PoolFields DEF ReadUntilThrow
  <2> QED
    BY <2>1, MetadataReadTidy, PoolFields DEF Tidy, InitializeMemoryIdCounter
<1>5. CASE q = ResetPool
  BY <1>5, ResetTidy, PoolFields DEF Tidy, InitializeMemoryIdCounter
<1> QED
  BY <1>3, <1>4, <1>5

LEMMA LoadTidy ==
  ASSUME NEW f, NEW p, Tidy(p), NEW o \in Load(f, p)
  PROVE  Tidy(o.smp)
  BY ReadTidy DEF Load, Outcome

(* Load returns true of a whole file only, false of none.  *)
LEMMA LoadOutcome ==
  ASSUME NEW f, NEW p, NEW o \in Load(f, p)
  PROVE  /\ o.ok \in BOOLEAN
         /\ o.ok => /\ AllSections(f)
                    /\ \E q \in ReadThrough(f) : o.smp = InitializeMemoryIdCounter(q)
         /\ DOMAIN f.sections = {} => o.smp = p
         /\ AllSections(f) => o.ok
<1>1. Len(Order) = 7 /\ 7 \in 0 .. Len(Order)
  BY DEF Order
<1>2. DOMAIN f.sections = {} => Length(f) = 0
  BY FS_EmptySet DEF Length
<1>3. AllSections(f) => Length(f) # 0 /\ ~Cut(f, "header")
  BY <1>1, SectionCount DEF AllSections, Length, Cut
<1>4. AllSections(f) =>
        \E q \in ReadThrough(f) : o = Outcome(TRUE, InitializeMemoryIdCounter(q))
  BY <1>3, Zenon DEF Load, AllSections
<1>5. ~AllSections(f) => \E q : o = Outcome(FALSE, q)
  BY DEF Load, AllSections
<1>6. DOMAIN f.sections = {} => o = Outcome(FALSE, p)
  BY <1>2 DEF Load
<1>7. CASE AllSections(f)
  <2>1. PICK q \in ReadThrough(f) : o = Outcome(TRUE, InitializeMemoryIdCounter(q))
    BY <1>4, <1>7
  <2>2. DOMAIN f.sections # {}
    BY <1>2, <1>3, <1>7
  <2> QED
    BY <1>7, <2>1, <2>2 DEF Outcome
<1>8. CASE ~AllSections(f)
  <2>1. PICK q : o = Outcome(FALSE, q)
    BY <1>5, <1>8
  <2>2. ~o.ok /\ o.ok \in BOOLEAN
    BY <2>1 DEF Outcome
  <2>3. DOMAIN f.sections = {} => o.smp = p
    BY <1>6 DEF Outcome
  <2> QED
    BY <1>8, <2>2, <2>3
<1> QED
  BY <1>7, <1>8

(* A set of numbers with an upper bound has a greatest: one with a minimal *)
(* set of numbers of S above it.                                           *)
LEMMA GreatestOfBounded ==
  ASSUME NEW S \in SUBSET Nat, S # {}, NEW n \in Nat, \A x \in S : x <= n
  PROVE  Max(S) \in S /\ \A x \in S : x <= Max(S)
<1> DEFINE above(x) == {y \in S : y > x}
           T == {above(x) : x \in S}
<1>1. IsFiniteSet(S)
  BY FS_BoundedSetOfNaturals
<1>2. T \subseteq FiniteSubsetsOf(S) /\ T # {}
  <2>1. \A x \in S : above(x) \in SUBSET S
    OBVIOUS
  <2>2. FiniteSubsetsOf(S) = SUBSET S
    BY <1>1, FS_FiniteSubsetsOfFinite
  <2>3. \A U \in T : \E x \in S : U = above(x)
    OBVIOUS
  <2>4. T # {}
    OBVIOUS
  <2> HIDE DEF T
  <2>5. \A U \in T : U \in SUBSET S
    BY <2>1, <2>3
  <2> QED
    BY <2>2, <2>4, <2>5
<1>3. PICK U \in T : \A V \in T : ~(<<V, U>> \in StrictSubsetOrdering(S))
  <2> HIDE DEF T
  <2> QED
    BY ONLY <1>2, WFMin, FS_StrictSubsetOrderingWellFounded
<1>4. PICK m \in S : U = above(m)
  OBVIOUS
<1>5. ASSUME NEW y \in S, y > m PROVE FALSE
  <2>1. m \in Nat /\ \A z \in S : z \in Nat
    OBVIOUS
  <2>2. ASSUME NEW z \in S, z > y PROVE z > m
    BY <1>5, <2>1, <2>2
  <2>3. y > m /\ ~(y > y)
    BY <1>5, <2>1
  <2>4. above(y) \subseteq above(m) /\ y \in above(m) /\ y \notin above(y)
    BY <2>2, <2>3
  <2>5. <<above(y), above(m)>> \in StrictSubsetOrdering(S)
    BY <2>4 DEF StrictSubsetOrdering
  <2> QED
    BY <1>3, <1>4, <2>5
<1>6. \A x \in S : x <= m
  BY <1>5
<1> QED
  BY <1>6 DEF Max

(* What GetMaxContinuousFreeBlocks returns is the length of a free run, and *)
(* no free run is longer.                                                  *)
LEMMA LongestFreeRun ==
  ASSUME NEW p
  PROVE  LET L == GetMaxContinuousFreeBlocks(p)
         IN  /\ L \in 0 .. kBlockCount
             /\ \E i \in 0 .. kBlockCount - L : i .. (i + L - 1) \cap p.used_map = {}
             /\ \A n \in 0 .. kBlockCount : \A i \in 0 .. kBlockCount - n :
                  i .. (i + n - 1) \cap p.used_map = {} => n <= L
<1> DEFINE S == {n \in 0 .. kBlockCount :
                   \E i \in 0 .. kBlockCount - n : i .. (i + n - 1) \cap p.used_map = {}}
<1>1. kBlockCount \in Nat
  BY PoolAssumption
<1>2. 0 \in S
  <2>1. 0 \in 0 .. kBlockCount /\ 0 \in 0 .. kBlockCount - 0 /\ 0 .. (0 + 0 - 1) = {}
    BY <1>1
  <2> QED
    BY <2>1
<1>3. S \in SUBSET Nat /\ S # {} /\ \A x \in S : x <= kBlockCount
  BY <1>1, <1>2
<1> HIDE DEF S
<1>4. Max(S) \in S /\ \A x \in S : x <= Max(S)
  BY <1>1, <1>3, GreatestOfBounded
<1>5. GetMaxContinuousFreeBlocks(p) = Max(S)
  BY DEF GetMaxContinuousFreeBlocks, S
<1> DEFINE L == Max(S)
<1> HIDE DEF L
<1>6. L \in S /\ \A x \in S : x <= L
  BY <1>4 DEF L
<1> QED
  BY <1>5, <1>6 DEF S, L

(* What Load reads of a whole Save of p, table by table. *)
LEMMA ReadWhole ==
  ASSUME NEW p, Tidy(p), NEW f, AllSections(f),
         \A s \in DOMAIN f.sections : f.sections[s] = Written(p)[s],
         NEW q \in ReadThrough(f)
  PROVE  /\ DOMAIN q = DOMAIN ResetPool
         /\ q.used_map = MarkedUsed(p) /\ q.meta = p.meta
         /\ q.free_block_count = Cardinality(Blocks \ MarkedUsed(p))
         /\ q.memory_info = p.memory_info
         /\ q.memory_last_modified_time = p.memory_last_modified_time
         /\ q.next_search_pos = p.next_search_pos
         /\ q.pool = p.pool
<1>1. DOMAIN f.sections = {"header", "metadata", "used_map", "memory_info", "time_map",
                           "next_search_pos", "pool_data"}
  BY DEF AllSections, UpTo, Order
<1>2. /\ Has(f, "header") /\ f.sections["header"] = Header(p)
      /\ Has(f, "metadata") /\ f.sections["metadata"] = p.meta
      /\ Has(f, "used_map") /\ f.sections["used_map"] = MarkedUsed(p)
      /\ Has(f, "memory_info") /\ f.sections["memory_info"] = p.memory_info
      /\ Has(f, "time_map") /\ f.sections["time_map"] = p.memory_last_modified_time
      /\ Has(f, "next_search_pos") /\ f.sections["next_search_pos"] = p.next_search_pos
      /\ Has(f, "pool_data") /\ f.sections["pool_data"] = p.pool
  BY <1>1 DEF Has, Cut, AllSections, Written, SearchPosition
<1>3. HeaderRead(f).free_block_count = Cardinality(Blocks \ MarkedUsed(p))
  BY <1>2 DEF HeaderRead, Header
<1>4. MetadataRead(f) = {p.meta}
  <2>1. kBlockCount \in Nat /\ \A b \in Blocks : b < kBlockCount
    BY PoolAssumption DEF Blocks
  <2>2. [b \in Blocks |-> IF b < kBlockCount /\ p.meta[b].used THEN p.meta[b] ELSE BlockMeta]
          = p.meta
    BY <2>1 DEF Tidy
  <2> QED
    BY <1>2, <2>2 DEF MetadataRead
<1>5. /\ BitmapRead(f) = {MarkedUsed(p)} /\ MemoryInfoRead(f) = {p.memory_info}
      /\ TimeMapRead(f) = {p.memory_last_modified_time} /\ PoolDataRead(f) = {p.pool}
      /\ SearchPosRead(f, p.meta) = p.next_search_pos
  BY <1>2 DEF BitmapRead, MemoryInfoRead, TimeMapRead, PoolDataRead, SearchPosRead
<1>6. q = WithTables(WithMetadata(f, p.meta, MarkedUsed(p)), p.memory_info,
                     p.memory_last_modified_time, p.next_search_pos, p.pool)
  BY <1>4, <1>5 DEF ReadThrough
<1> QED
  BY <1>3, <1>6, PoolFields DEF WithTables, WithMetadata

(* What a Load of it leaves is p, but for the id counter. *)
LeastFreshId(p) == Max(DOMAIN p.memory_info \cup {0}) + 1

LEMMA ReloadFields ==
  ASSUME NEW p, Tidy(p), Consistent(p), NEW f, AllSections(f),
         \A s \in DOMAIN f.sections : f.sections[s] = Written(p)[s],
         NEW q \in ReadThrough(f)
  PROVE  LET r == InitializeMemoryIdCounter(q)
         IN  /\ DOMAIN r = DOMAIN p
             /\ r.used_map = p.used_map /\ r.meta = p.meta
             /\ r.free_block_count = p.free_block_count /\ r.memory_info = p.memory_info
             /\ r.memory_last_modified_time = p.memory_last_modified_time
             /\ r.next_search_pos = p.next_search_pos /\ r.pool = p.pool
             /\ r.next_memory_id_counter = LeastFreshId(p)
             /\ LeastFreshId(p) \in Nat \ {0}
             /\ \A x \in DOMAIN p.memory_info : x < LeastFreshId(p)
<1> DEFINE r == InitializeMemoryIdCounter(q)
           S == DOMAIN p.memory_info \cup {0}
<1>1. /\ HasPoolType(p) /\ OwnsItsBlocks(p) /\ LeaksNoBlock(p) /\ CountsFreeBlocks(p)
      /\ DescribesEvenly(p) /\ HandsOutFreshIds(p)
  BY DEF Consistent
<1>2. MarkedUsed(p) = p.used_map
  <2>1. \A b \in p.used_map : p.meta[b].used
    BY <1>1 DEF LeaksNoBlock, OwnsItsBlocks, Owned
  <2> QED
    BY <1>1, <2>1 DEF LeaksNoBlock, MarkedUsed, HasPoolType
<1>3. /\ IsFiniteSet(Blocks) /\ Cardinality(Blocks) = kBlockCount
      /\ Cardinality(Blocks \ p.used_map) = kBlockCount - Cardinality(p.used_map)
  <2>1. IsFiniteSet(Blocks) /\ Cardinality(Blocks) = kBlockCount
    BY BlocksFinite
  <2>2. Blocks \cap p.used_map = p.used_map
    BY <1>1 DEF HasPoolType
  <2> QED
    BY <2>1, <2>2, FS_Difference
<1>4. /\ DOMAIN q = DOMAIN p
      /\ q.used_map = p.used_map /\ q.meta = p.meta
      /\ q.free_block_count = p.free_block_count /\ q.memory_info = p.memory_info
      /\ q.memory_last_modified_time = p.memory_last_modified_time
      /\ q.next_search_pos = p.next_search_pos /\ q.pool = p.pool
  <2>1. DOMAIN p = DOMAIN ResetPool /\ p.free_block_count = kBlockCount - Cardinality(p.used_map)
    BY <1>1 DEF HasPoolType, CountsFreeBlocks
  <2> QED
    BY <1>2, <1>3, <2>1, ReadWhole
<1>5. Max(S) \in Nat /\ \A x \in S : x <= Max(S)
  <2>1. S \in SUBSET Nat /\ S # {}
    BY <1>1 DEF HasPoolType
  <2>2. p.next_memory_id_counter \in Nat /\ \A x \in S : x <= p.next_memory_id_counter
    BY <1>1 DEF HasPoolType, HandsOutFreshIds
  <2> HIDE DEF S
  <2> QED
    BY <2>1, <2>2, GreatestOfBounded
<1>6. /\ DOMAIN r = DOMAIN p
      /\ r.used_map = p.used_map /\ r.meta = p.meta
      /\ r.free_block_count = p.free_block_count /\ r.memory_info = p.memory_info
      /\ r.memory_last_modified_time = p.memory_last_modified_time
      /\ r.next_search_pos = p.next_search_pos /\ r.pool = p.pool
      /\ r.next_memory_id_counter = Max(S) + 1
  <2>1. DOMAIN q = DOMAIN ResetPool
    BY <1>1, <1>4 DEF HasPoolType
  <2> HIDE DEF S
  <2>2. r = [q EXCEPT !.next_memory_id_counter = Max(S) + 1]
    BY <1>4 DEF InitializeMemoryIdCounter, S
  <2> HIDE DEF r
  <2> QED
    BY <1>4, <2>1, <2>2, PoolFields
<1>7. \A x \in DOMAIN p.memory_info : x < Max(S) + 1
  <2>1. \A x \in DOMAIN p.memory_info : x \in S /\ x \in Nat
    BY <1>1 DEF HasPoolType
  <2> HIDE DEF S
  <2> QED
    BY <1>5, <2>1
<1>8. LeastFreshId(p) = Max(S) + 1
  BY DEF LeastFreshId
<1> HIDE DEF r, S
<1> QED
  BY <1>5, <1>6, <1>7, <1>8 DEF r

(* So it is consistent, as p was. *)
LEMMA ReloadConsistent ==
  ASSUME NEW p, Tidy(p), Consistent(p), NEW f, AllSections(f),
         \A s \in DOMAIN f.sections : f.sections[s] = Written(p)[s],
         NEW q \in ReadThrough(f)
  PROVE  Consistent(InitializeMemoryIdCounter(q))
<1> DEFINE r == InitializeMemoryIdCounter(q)
<1>1. /\ HasPoolType(p) /\ OwnsItsBlocks(p) /\ LeaksNoBlock(p) /\ CountsFreeBlocks(p)
      /\ DescribesEvenly(p) /\ HandsOutFreshIds(p)
  BY DEF Consistent
<1>2. /\ DOMAIN r = DOMAIN p
      /\ r.used_map = p.used_map /\ r.meta = p.meta
      /\ r.free_block_count = p.free_block_count /\ r.memory_info = p.memory_info
      /\ r.memory_last_modified_time = p.memory_last_modified_time
      /\ r.next_search_pos = p.next_search_pos /\ r.pool = p.pool
      /\ r.next_memory_id_counter \in Nat \ {0}
      /\ \A x \in DOMAIN p.memory_info : x < r.next_memory_id_counter
  BY ReloadFields
<1> HIDE DEF r
<1>3. HasPoolType(r)
  BY <1>1, <1>2 DEF HasPoolType
<1>4. OwnsItsBlocks(r) /\ CountsFreeBlocks(r) /\ DescribesEvenly(r)
  BY <1>1, <1>2 DEF OwnsItsBlocks, CountsFreeBlocks, DescribesEvenly, DescriptionOf
<1>5. LeaksNoBlock(r)
  BY <1>1, <1>2 DEF LeaksNoBlock, Owned
<1>6. HandsOutFreshIds(r)
  BY <1>1, <1>2 DEF HandsOutFreshIds
<1> QED
  BY <1>3, <1>4, <1>5, <1>6 DEF r, Consistent

(* And its memories are those of p. *)
LEMMA ReloadView ==
  ASSUME NEW p, Tidy(p), Consistent(p), Spells(p), NEW f, AllSections(f),
         \A s \in DOMAIN f.sections : f.sections[s] = Written(p)[s],
         NEW q \in ReadThrough(f)
  PROVE  LET r == InitializeMemoryIdCounter(q)
         IN  /\ Spells(r) /\ View(r) = View(p)
             /\ r.free_block_count = p.free_block_count
             /\ r.next_memory_id_counter = LeastFreshId(p)
<1> DEFINE r == InitializeMemoryIdCounter(q)
<1>1. /\ r.meta = p.meta /\ r.memory_info = p.memory_info /\ r.pool = p.pool
      /\ r.free_block_count = p.free_block_count
      /\ r.next_memory_id_counter = LeastFreshId(p)
  BY ReloadFields
<1> HIDE DEF r
<1> QED
  BY <1>1 DEF r, Spells, Spelled, View, Line, DescriptionOf

(* There is something to read in a whole file. *)
LEMMA WholeFileIsRead ==
  ASSUME NEW f, AllSections(f), NEW p
  PROVE  \E o : o \in Load(f, p)
<1>1. DOMAIN f.sections = {"header", "metadata", "used_map", "memory_info", "time_map",
                           "next_search_pos", "pool_data"}
  BY DEF AllSections, UpTo, Order
<1>2. /\ Has(f, "metadata") /\ Has(f, "used_map") /\ Has(f, "memory_info")
      /\ Has(f, "time_map") /\ Has(f, "pool_data")
  BY <1>1 DEF Has, Cut, AllSections
<1>3. /\ \E m : m \in MetadataRead(f)
      /\ \E bits : bits \in BitmapRead(f)
      /\ \E info : info \in MemoryInfoRead(f)
      /\ \E times : times \in TimeMapRead(f)
      /\ \E data : data \in PoolDataRead(f)
  <2>1. \E m : MetadataRead(f) = {m}
    BY <1>2 DEF MetadataRead
  <2>2. /\ BitmapRead(f) = {f.sections.used_map} /\ MemoryInfoRead(f) = {f.sections.memory_info}
        /\ TimeMapRead(f) = {f.sections.time_map} /\ PoolDataRead(f) = {f.sections.pool_data}
    BY <1>2 DEF BitmapRead, MemoryInfoRead, TimeMapRead, PoolDataRead
  <2> QED
    BY <2>1, <2>2
<1>4. PICK q : q \in ReadThrough(f)
  <2>1. PICK m \in MetadataRead(f), bits \in BitmapRead(f), info \in MemoryInfoRead(f),
             times \in TimeMapRead(f), data \in PoolDataRead(f) : TRUE
    BY <1>3
  <2>2. WithTables(WithMetadata(f, m, bits), info, times, SearchPosRead(f, m), data)
          \in ReadThrough(f)
    BY DEF ReadThrough
  <2> QED
    BY <2>2
<1>5. Length(f) # 0 /\ ~Cut(f, "header")
  <2>1. Len(Order) = 7 /\ 7 \in 0 .. Len(Order)
    BY DEF Order
  <2> QED
    BY <2>1, SectionCount DEF AllSections, Length, Cut
<1>6. Outcome(TRUE, InitializeMemoryIdCounter(q)) \in Load(f, p)
  BY <1>4, <1>5, Zenon DEF Load, AllSections
<1> QED
  BY <1>6
=============================================================================
