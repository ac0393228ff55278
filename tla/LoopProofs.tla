----------------------------- MODULE LoopProofs -----------------------------
(***************************************************************************)
(* The two methods of the pool that are more than a formula, the search    *)
(* for a run and Compact: their loops compute the operators PoolObject has *)
(* for them, and lose nothing on the way, for every pool, bitmap, search   *)
(* position, block count and layout of memories.  The modules of the two   *)
(* loops share no variable.                                                *)
(***************************************************************************)
EXTENDS NextFitScan, CompactLoop, PoolObjectProofs

(***************************************************************************)
(* FindContinuousFreeBlock.                                                *)
(***************************************************************************)
(* NothingSkipped says what has been ruled out so far; for it to survive a *)
(* step, and to give the result at the end, one also has to know where i   *)
(* and runEnd stand (the run measured starts at a free block i, and it     *)
(* ends at runEnd because that block is used or the end of the pool), that *)
(* the argument passed the test against the free count, and that pos has   *)
(* not moved yet.                                                          *)
Scanning == at \in {"outer", "inner", "test"}

Standing ==
  /\ Scanning => /\ n <= p.free_block_count
                 /\ p.next_search_pos <= i
  /\ at \in {"inner", "test"} => i < kBlockCount /\ i <= runEnd
  /\ at = "test" => runEnd = kBlockCount \/ runEnd \in p.used_map
  /\ at /= "done" => pos = p.next_search_pos /\ result = NotFound

ScanInv == TypeOK /\ Standing /\ NothingSkipped /\ ScanFindsFirstFit

(* A run of free blocks starts at or after the search position, ends in    *)
(* the pool, and has no used block in it.                                  *)
LEMMA RunFacts ==
  ASSUME TypeOK, NEW k \in FreeRuns(p, n)
  PROVE  /\ k \in Nat /\ p.next_search_pos <= k /\ k + n <= kBlockCount
         /\ \A b \in p.used_map : b < k \/ k + n <= b
<1>1. n \in Nat \ {0} /\ p.next_search_pos \in Nat /\ kBlockCount \in Nat
  BY PoolAssumption DEF TypeOK
<1>2. k \in p.next_search_pos .. kBlockCount - n /\ k .. (k + n - 1) \cap p.used_map = {}
  BY DEF FreeRuns
<1>3. \A b \in p.used_map : b \in Int
  BY PoolAssumption DEF TypeOK, Blocks
<1> QED
  BY <1>1, <1>2, <1>3

(* A free run that no other one precedes is what the search returns. *)
LEMMA FirstRun ==
  ASSUME NEW q, NEW m, NEW k \in FreeRuns(q, m),
         \A x \in FreeRuns(q, m) : k <= x, ~(m > q.free_block_count),
         \A x \in FreeRuns(q, m) : x \in Int
  PROVE  FindContinuousFreeBlock(q, m) = k
<1>1. \E y \in FreeRuns(q, m) : \A x \in FreeRuns(q, m) : y <= x
  OBVIOUS
<1>2. Min(FreeRuns(q, m)) = k
  BY <1>1 DEF Min
<1> QED
  BY <1>2 DEF FindContinuousFreeBlock

(* ScanInv holds whenever the search is called on an object whose free     *)
(* count is that of its bitmap, and every step of the loops keeps it.      *)
THEOREM ScanStaysCorrect == ScanSpec => []ScanInv
<1>1. ScanInit => ScanInv
  <2> SUFFICES ASSUME ScanInit PROVE ScanInv
    OBVIOUS
  <2>1. PICK used \in SUBSET Blocks, from \in 0 .. kBlockCount :
          p = [ResetPool EXCEPT !.used_map = used,
                                !.free_block_count = kBlockCount - Cardinality(used),
                                !.next_search_pos = from]
    BY DEF ScanInit
  <2>2. /\ p.used_map = used /\ p.next_search_pos = from
        /\ p.free_block_count = kBlockCount - Cardinality(used)
    BY <2>1 DEF ResetPool
  <2>3. Cardinality(used) \in 0 .. kBlockCount
    BY BlocksFinite
  <2>4. TypeOK
    BY <2>2, <2>3, PoolAssumption DEF ScanInit, TypeOK
  <2>5. Standing /\ NothingSkipped /\ ScanFindsFirstFit
    BY DEF ScanInit, Standing, Scanning, NothingSkipped, ScanFindsFirstFit
  <2> QED
    BY <2>4, <2>5 DEF ScanInv
<1>2. ScanInv /\ [ScanNext]_scanVars => ScanInv'
  <2> SUFFICES ASSUME ScanInv, [ScanNext]_scanVars PROVE ScanInv'
    OBVIOUS
  <2>0. TypeOK /\ Standing /\ NothingSkipped /\ ScanFindsFirstFit
    BY DEF ScanInv
  <2>N. kBlockCount \in Nat \ {0} /\ \A b \in p.used_map : b \in Nat /\ b < kBlockCount
    BY <2>0, PoolAssumption DEF TypeOK, Blocks
  <2>R. \A k \in FreeRuns(p, n) : /\ k \in Nat /\ p.next_search_pos <= k /\ k + n <= kBlockCount
                                  /\ \A b \in p.used_map : b < k \/ k + n <= b
    BY <2>0, RunFacts
  <2>S. ASSUME p' = p, n' = n PROVE FreeRuns(p, n)' = FreeRuns(p, n)
    BY <2>S DEF FreeRuns
  <2>1. CASE Enter
    <3>1. CASE n > p.free_block_count /\ Return(NotFound)
      <4>1. FindContinuousFreeBlock(p, n) = NotFound
        BY <3>1 DEF FindContinuousFreeBlock
      <4>2. TypeOK' /\ Standing' /\ NothingSkipped'
        BY <2>0, <2>1, <3>1 DEF Enter, Return, TypeOK, Standing, Scanning, NothingSkipped
      <4>3. ScanFindsFirstFit'
        BY <2>0, <2>1, <3>1, <4>1 DEF Enter, Return, Standing, ScanFindsFirstFit, NotFound, FindContinuousFreeBlock, FreeRuns
      <4> QED
        BY <4>2, <4>3 DEF ScanInv
    <3>2. CASE n <= p.free_block_count /\ i' = pos /\ at' = "outer" /\ UNCHANGED <<p, n, runEnd, result>>
      <4>1. pos' = pos /\ pos = p.next_search_pos /\ result = NotFound
        BY <2>0, <2>1 DEF Enter, Standing
      <4>2. TypeOK' /\ Standing' /\ ScanFindsFirstFit'
        BY <2>0, <3>2, <4>1 DEF TypeOK, Standing, Scanning, ScanFindsFirstFit
      <4>3. NothingSkipped'
        BY <3>2, <4>1, <2>R, <2>S DEF NothingSkipped
      <4> QED
        BY <4>2, <4>3 DEF ScanInv
    <3> QED
      BY <2>1, <3>1, <3>2 DEF Enter
  <2>2. CASE Outer
    <3>0. pos' = pos /\ at = "outer" /\ n \in Nat \ {0} /\ i \in Nat /\ n <= p.free_block_count
          /\ p.free_block_count \in Nat /\ p.next_search_pos \in Nat
          /\ p.next_search_pos <= i /\ pos = p.next_search_pos /\ result = NotFound
          /\ \A k \in FreeRuns(p, n) : k >= i
      BY <2>0, <2>2, PoolAssumption DEF Outer, TypeOK, Standing, Scanning, NothingSkipped
    <3>1. CASE i >= kBlockCount /\ Return(NotFound)
      <4>1. FreeRuns(p, n) = {}
        BY <2>N, <2>R, <3>0, <3>1
      <4>2. FindContinuousFreeBlock(p, n)' = NotFound /\ FreeRuns(p, n)' = {}
        BY <3>1, <4>1, <2>S DEF Return, FindContinuousFreeBlock
      <4>3. TypeOK' /\ Standing' /\ NothingSkipped'
        BY <2>0, <3>0, <3>1 DEF Return, TypeOK, Standing, Scanning, NothingSkipped
      <4>4. ScanFindsFirstFit'
        BY <3>0, <3>1, <4>2 DEF Return, ScanFindsFirstFit
      <4> QED
        BY <4>3, <4>4 DEF ScanInv
    <3>2. CASE i < kBlockCount /\ i \in p.used_map /\ i' = i + 1 /\ UNCHANGED <<p, n, runEnd, at, result>>
      <4>1. TypeOK' /\ Standing' /\ ScanFindsFirstFit'
        BY <2>0, <2>N, <3>0, <3>2 DEF TypeOK, Standing, Scanning, ScanFindsFirstFit
      <4>2. \A k \in FreeRuns(p, n) : k >= i + 1
        BY <2>R, <3>0, <3>2
      <4>3. NothingSkipped'
        BY <2>S, <3>0, <3>2, <4>2 DEF NothingSkipped
      <4> QED
        BY <4>1, <4>3 DEF ScanInv
    <3>3. CASE i < kBlockCount /\ i \notin p.used_map /\ runEnd' = i /\ at' = "inner"
               /\ UNCHANGED <<p, n, i, result>>
      <4>1. TypeOK' /\ Standing' /\ ScanFindsFirstFit'
        BY <2>0, <2>N, <3>0, <3>3 DEF TypeOK, Standing, Scanning, ScanFindsFirstFit
      <4>2. i .. (i - 1) = {}
        BY <3>0
      <4>3. NothingSkipped'
        BY <2>S, <3>0, <3>3, <4>2 DEF NothingSkipped
      <4> QED
        BY <4>1, <4>3 DEF ScanInv
    <3> QED
      BY <2>2, <3>1, <3>2, <3>3 DEF Outer, RunStart
  <2>3. CASE Inner
    <3>0. UNCHANGED <<p, n, pos, i, result>> /\ at = "inner"
          /\ i \in Nat /\ runEnd \in Nat /\ i <= runEnd /\ runEnd <= kBlockCount
      BY <2>0, <2>3, PoolAssumption DEF Inner, TypeOK, Standing
    <3>1. CASE RunGrows
      <4>1. runEnd' = runEnd + 1 /\ at' = at /\ runEnd < kBlockCount /\ runEnd \notin p.used_map
        BY <2>3, <3>1 DEF Inner, RunGrows
      <4>2. TypeOK' /\ Standing' /\ ScanFindsFirstFit'
        BY <2>0, <2>N, <3>0, <4>1 DEF TypeOK, Standing, Scanning, ScanFindsFirstFit
      <4>3. \A b \in i .. (runEnd' - 1) : b \in i .. (runEnd - 1) \/ b = runEnd
        BY <3>0, <4>1
      <4>4. NothingSkipped'
        BY <2>0, <2>S, <3>0, <4>1, <4>3 DEF NothingSkipped
      <4> QED
        BY <4>2, <4>4 DEF ScanInv
    <3>2. CASE ~RunGrows
      <4>1. runEnd' = runEnd /\ at' = "test" /\ (runEnd = kBlockCount \/ runEnd \in p.used_map)
        BY <2>3, <2>N, <3>0, <3>2 DEF Inner, RunGrows
      <4>2. TypeOK' /\ Standing' /\ ScanFindsFirstFit'
        BY <2>0, <3>0, <4>1 DEF TypeOK, Standing, Scanning, ScanFindsFirstFit
      <4>3. NothingSkipped'
        BY <2>0, <2>S, <3>0, <4>1 DEF NothingSkipped
      <4> QED
        BY <4>2, <4>3 DEF ScanInv
    <3> QED
      BY <3>1, <3>2
  <2>4. CASE AfterRun
    <3>0. at = "test" /\ i \in Nat /\ runEnd \in Nat /\ i <= runEnd /\ runEnd <= kBlockCount /\ n \in Nat \ {0}
          /\ p.next_search_pos \in Nat /\ p.next_search_pos <= i /\ i < kBlockCount
          /\ n <= p.free_block_count /\ p.free_block_count \in Nat /\ p.free_block_count <= kBlockCount
          /\ pos = p.next_search_pos /\ result = NotFound
          /\ (runEnd = kBlockCount \/ runEnd \in p.used_map)
      BY <2>0, <2>4, PoolAssumption DEF AfterRun, TypeOK, Standing, Scanning
    <3>1. /\ \A k \in FreeRuns(p, n) : k >= i
          /\ i .. (runEnd - 1) \cap p.used_map = {}
      BY <2>0, <3>0 DEF NothingSkipped
    <3>2. CASE LongEnough /\ pos' = PosAfterRun /\ Return(i)
      <4>1. runEnd - i >= n /\ pos' = i + n /\ result' = i /\ at' = "done" /\ UNCHANGED <<p, n, i, runEnd>>
        BY <3>2 DEF LongEnough, PosAfterRun, Return
      <4>2. i \in FreeRuns(p, n)
        BY <3>0, <3>1, <4>1, <2>N DEF FreeRuns
      <4>3. FindContinuousFreeBlock(p, n) = i
        BY <2>R, <3>0, <3>1, <4>2, FirstRun
      <4>4. FindContinuousFreeBlock(p, n)' = FindContinuousFreeBlock(p, n)
        BY <4>1 DEF FindContinuousFreeBlock, FreeRuns
      <4>5. TypeOK' /\ Standing' /\ NothingSkipped'
        BY <2>0, <2>N, <3>0, <4>1 DEF TypeOK, Standing, Scanning, NothingSkipped, Blocks
      <4>6. ScanFindsFirstFit'
        BY <3>0, <4>1, <4>3, <4>4 DEF ScanFindsFirstFit, NotFound
      <4> QED
        BY <4>5, <4>6 DEF ScanInv
    <3>3. CASE ~LongEnough /\ i' = (runEnd - 1) + 1 /\ at' = "outer" /\ UNCHANGED <<p, n, pos, runEnd, result>>
      <4>1. runEnd - i < n /\ i' = runEnd
        BY <3>0, <3>3 DEF LongEnough
      <4>2. \A k \in FreeRuns(p, n) : k >= runEnd
        BY <2>R, <3>0, <3>1, <4>1
      <4>3. TypeOK' /\ Standing' /\ ScanFindsFirstFit'
        BY <2>0, <3>0, <3>3, <4>1 DEF TypeOK, Standing, Scanning, ScanFindsFirstFit
      <4>4. NothingSkipped'
        BY <2>S, <3>3, <4>1, <4>2 DEF NothingSkipped
      <4> QED
        BY <4>3, <4>4 DEF ScanInv
    <3> QED
      BY <2>4, <3>2, <3>3 DEF AfterRun
  <2>5. CASE UNCHANGED scanVars
    BY <2>0, <2>5 DEF scanVars, ScanInv, TypeOK, Standing, Scanning, NothingSkipped,
       ScanFindsFirstFit, FindContinuousFreeBlock, FreeRuns
  <2> QED
    BY <2>1, <2>2, <2>3, <2>4, <2>5 DEF ScanNext
<1> QED
  BY <1>1, <1>2, PTL DEF ScanSpec

(* The loop variables, the result and the search position stay where they  *)
(* belong: the bitmap is never tested outside its blocks.                  *)
THEOREM ScanTypeCorrect == ScanSpec => []TypeOK
<1>1. ScanInv => TypeOK
  BY DEF ScanInv
<1> QED
  BY <1>1, ScanStaysCorrect, PTL

(* No run that is long enough is ever skipped. *)
THEOREM ScanSkipsNothing == ScanSpec => []NothingSkipped
<1>1. ScanInv => NothingSkipped
  BY DEF ScanInv
<1> QED
  BY <1>1, ScanStaysCorrect, PTL

(* The loops return the first fit at or after the search position, and     *)
(* leave the search position behind the run they return.                   *)
THEOREM ScanReturnsFirstFit == ScanSpec => []ScanFindsFirstFit
<1>1. ScanInv => ScanFindsFirstFit
  BY DEF ScanInv
<1> QED
  BY <1>1, ScanStaysCorrect, PTL

(***************************************************************************)
(* Compact.                                                                *)
(***************************************************************************)
(* What the proofs use of the object the loops start with. *)
EntryIn(o, x) == o.memory_info[x]

WellLaid(o) ==
  /\ o = [f \in DOMAIN ResetPool |-> o[f]]
  /\ o.pool = [b \in Blocks |-> o.pool[b]]
  /\ o.meta = [b \in Blocks |-> o.meta[b]]
  /\ o.memory_info \in [DOMAIN o.memory_info -> Entries]
  /\ \A x \in DOMAIN o.memory_info : Span(EntryIn(o, x)) \subseteq Blocks
  /\ \A x, y \in DOMAIN o.memory_info : \A b \in Span(EntryIn(o, x)) :
       b \in Span(EntryIn(o, y)) => x = y
  /\ o.used_map = Owned(o)

(* The object with its w owned blocks of lowest position moved, and the    *)
(* entries in D updated.  Every state of the loops is one of these.        *)
PoolAt(o, w) ==
  [b \in Blocks |-> IF b < w THEN o.pool[Nth(Owned(o), b)] ELSE o.pool[b]]
MetaAt(o, w) ==
  [b \in Blocks |-> IF b < w THEN o.meta[Nth(Owned(o), b)]
                    ELSE IF b \in Owned(o) /\ Rank(Owned(o), b) < w THEN BlockMeta
                    ELSE o.meta[b]]
BitsAt(o, w) == (0 .. w - 1) \cup {b \in Owned(o) : Rank(Owned(o), b) >= w}
EntriesAt(o, D) ==
  [x \in DOMAIN o.memory_info |->
     IF x \in D THEN MovedEntry(o, o.memory_info[x]) ELSE o.memory_info[x]]

Partly(o, w, D) ==
  [o EXCEPT !.pool        = PoolAt(o, w),
            !.meta        = MetaAt(o, w),
            !.used_map    = BitsAt(o, w),
            !.memory_info = EntriesAt(o, D)]

(* D holds the entries that lie before all the others, and Behind(o, D)    *)
(* their blocks.                                                           *)
Ahead(o, D) ==
  /\ D \subseteq DOMAIN o.memory_info
  /\ \A x \in D : \A y \in DOMAIN o.memory_info \ D :
       EntryIn(o, x).first + EntryIn(o, x).second <= EntryIn(o, y).first

Behind(o, D) == UNION {Span(EntryIn(o, x)) : x \in D}

(* The entries the loops are through with, and the blocks they have moved. *)
Done     == DOMAIN start.memory_info \ (todo \cup IF pc = "move" THEN {id} ELSE {})
MovedNow == IF pc = "move" THEN freePos + j ELSE freePos

Places ==
  /\ pc \in {"next", "move", "done"}
  /\ todo \subseteq DOMAIN start.memory_info
  /\ pc = "move" => id \in DOMAIN start.memory_info \ todo /\ j \in 0 .. Count(id)
  /\ pc = "done" => todo = {}

InFront ==
  /\ Ahead(start, Done)
  /\ pc = "move" => \A y \in todo : FirstOf(id) <= FirstOf(y)
  /\ freePos = Cardinality(Behind(start, Done))

HalfWay ==
  smp = IF pc = "done" THEN Compact(start) ELSE Partly(start, MovedNow, Done)

LoopInv == WellLaid(start) /\ Places /\ InFront /\ HalfWay /\ BitsConserved

(***************************************************************************)
(* Layouts.                                                                *)
(***************************************************************************)
(* Every block of a memory is a block its pool owns. *)
LEMMA OwnedFacts ==
  ASSUME NEW o, WellLaid(o)
  PROVE  /\ Owned(o) \in SUBSET Blocks
         /\ IsFiniteSet(Owned(o)) /\ Cardinality(Owned(o)) \in 0 .. kBlockCount
         /\ \A x \in DOMAIN o.memory_info : Span(EntryIn(o, x)) \subseteq Owned(o)
         /\ \A b \in Owned(o) : \E x \in DOMAIN o.memory_info : b \in Span(EntryIn(o, x))
<1>1. Owned(o) \in SUBSET Blocks
  BY DEF WellLaid, Owned, EntryIn
<1> QED
  BY <1>1, BlocksFinite DEF Owned, EntryIn

(* Every layout the loops start with is one the lemmas speak of. *)
LEMMA LayoutsAreWellLaid ==
  ASSUME NEW info \in Layouts
  PROVE  WellLaid(PoolWith(info))
<1> DEFINE o == PoolWith(info)
<1>1. PICK S \in SUBSET CompactIds :
        /\ info \in [S -> {e \in Entries : Span(e) \subseteq Blocks}]
        /\ \A x, y \in S : x /= y => Span(info[x]) \cap Span(info[y]) = {}
  BY DEF Layouts
<1>2. o.memory_info = info /\ o.used_map = UNION {Span(info[x]) : x \in DOMAIN info}
  BY DEF PoolWith
<1>3. o = [f \in DOMAIN ResetPool |-> o[f]]
  BY DEF PoolWith, ResetPool
<1>4. o.pool = [b \in Blocks |-> o.pool[b]] /\ o.meta = [b \in Blocks |-> o.meta[b]]
  BY DEF PoolWith
<1> HIDE DEF o
<1>5. o.used_map = Owned(o)
  BY <1>2 DEF Owned
<1>6. o.memory_info \in [DOMAIN o.memory_info -> Entries]
  BY <1>1, <1>2
<1>7. \A x \in DOMAIN o.memory_info : Span(EntryIn(o, x)) \subseteq Blocks
  BY <1>1, <1>2 DEF EntryIn
<1>8. \A x, y \in DOMAIN o.memory_info : \A b \in Span(EntryIn(o, x)) :
        b \in Span(EntryIn(o, y)) => x = y
  BY <1>1, <1>2 DEF EntryIn
<1> QED
  BY <1>3, <1>4, <1>5, <1>6, <1>7, <1>8 DEF WellLaid, o

(* Block k of entry x, and its place among the owned blocks. *)
LEMMA EntryRank ==
  ASSUME NEW o, WellLaid(o), NEW x \in DOMAIN o.memory_info,
         NEW k \in 0 .. EntryIn(o, x).second - 1
  PROVE  LET b == EntryIn(o, x).first + k
         IN  /\ b \in Span(EntryIn(o, x)) /\ b \in Owned(o)
             /\ Rank(Owned(o), b) = Rank(Owned(o), EntryIn(o, x).first) + k
             /\ Nth(Owned(o), Rank(Owned(o), EntryIn(o, x).first) + k) = b
<1> DEFINE e == EntryIn(o, x)
           b == e.first + k
           S == Owned(o)
<1>1. e \in Entries
  BY DEF WellLaid, EntryIn
<1>2. S \in SUBSET Blocks /\ Span(e) \subseteq S
  BY OwnedFacts
<1>3. e.first \in Blocks /\ k \in Nat /\ e.first \in Nat
  BY <1>1, SpanFacts DEF Entries
<1>4. b \in Span(e) /\ \A c \in e.first .. b : c \in Span(e)
  BY <1>1, <1>3, SpanFacts
<1>5. Rank(S, b) = Rank(S, e.first) + k
  <2>1. e.first .. (e.first + k) \subseteq S
    BY <1>2, <1>4
  <2> QED
    BY <1>2, <1>3, <2>1, RankOfRun
<1>6. Nth(S, Rank(S, b)) = b
  BY <1>2, <1>4, NthOfRank
<1> QED
  BY <1>2, <1>4, <1>5, <1>6

(* No block moves back: its rank is at most its position. *)
LEMMA RankAtMost ==
  ASSUME NEW S \in SUBSET Blocks, NEW b \in Blocks
  PROVE  Rank(S, b) \in Nat /\ Rank(S, b) <= b
<1> DEFINE L == {y \in S : y < b}
<1>1. b \in Nat /\ b - 1 \in Int
  BY PoolAssumption DEF Blocks
<1>2. \A y \in L : y \in 0 .. b - 1
  BY <1>1, PoolAssumption DEF Blocks
<1>3. IsFiniteSet(0 .. b - 1) /\ Cardinality(0 .. b - 1) = b
  BY <1>1, FS_Interval
<1>4. IsFiniteSet(L) /\ Cardinality(L) <= b /\ Cardinality(L) \in Nat
  BY <1>2, <1>3, FS_Subset, FS_CardinalityType
<1> QED
  BY <1>4 DEF Rank

(***************************************************************************)
(* Entries that lie in front.                                              *)
(***************************************************************************)
(* The blocks of the entries in front are those of lowest rank. *)
LEMMA BehindRanks ==
  ASSUME NEW o, WellLaid(o), NEW D, Ahead(o, D)
  PROVE  /\ Behind(o, D) \in SUBSET Owned(o) /\ IsFiniteSet(Behind(o, D))
         /\ Cardinality(Behind(o, D)) \in Nat
         /\ \A b \in Behind(o, D) : Rank(Owned(o), b) < Cardinality(Behind(o, D))
         /\ \A b \in Owned(o) \ Behind(o, D) : Rank(Owned(o), b) >= Cardinality(Behind(o, D))
<1> DEFINE S == Owned(o)
           B == Behind(o, D)
<1>1. S \in SUBSET Blocks /\ IsFiniteSet(S) /\ \A b \in S : b \in Int
  BY OwnedFacts, PoolAssumption DEF Blocks
<1>2. B \in SUBSET S
  BY OwnedFacts DEF Behind, Ahead
<1>3. IsFiniteSet(B) /\ Cardinality(B) \in Nat
  BY <1>1, <1>2, FS_Subset, FS_CardinalityType
<1>4. ASSUME NEW b \in B, NEW y \in S, y \notin B PROVE b < y
  <2>1. PICK x \in D : b \in Span(EntryIn(o, x))
    BY DEF Behind
  <2>2. PICK z \in DOMAIN o.memory_info : y \in Span(EntryIn(o, z))
    BY OwnedFacts
  <2>3. z \notin D
    BY <1>4, <2>2 DEF Behind
  <2>4. EntryIn(o, x).first + EntryIn(o, x).second <= EntryIn(o, z).first
    BY <2>2, <2>3 DEF Ahead
  <2>5. EntryIn(o, x) \in Entries /\ EntryIn(o, z) \in Entries
    BY <2>2 DEF WellLaid, EntryIn, Ahead
  <2> QED
    BY <2>1, <2>2, <2>4, <2>5, SpanFacts
<1>5. ASSUME NEW b \in B PROVE Rank(S, b) < Cardinality(B)
  <2> DEFINE L == {y \in S : y < b}
  <2>1. L \subseteq B \ {b}
    <3>1. \A y \in L : y \in B /\ y /= b
      <4> SUFFICES ASSUME NEW y \in L PROVE y \in B /\ y /= b
        OBVIOUS
      <4>1. y \in S /\ y < b /\ b \in Int /\ y \in Int
        BY <1>1, <1>2
      <4> QED
        BY <1>4, <4>1
    <3> QED
      BY <3>1
  <2>2. IsFiniteSet(B \ {b}) /\ Cardinality(B \ {b}) = Cardinality(B) - 1
    BY <1>3, FS_RemoveElement
  <2>3. Cardinality(L) <= Cardinality(B) - 1 /\ IsFiniteSet(L) /\ Cardinality(L) \in Nat
    BY <2>1, <2>2, FS_Subset, FS_CardinalityType
  <2> QED
    BY <1>3, <2>3 DEF Rank
<1>6. ASSUME NEW b \in S, b \notin B PROVE Rank(S, b) >= Cardinality(B)
  <2> DEFINE L == {y \in S : y < b}
  <2>1. \A y \in B : y \in L
    BY <1>2, <1>4, <1>6
  <2>2. IsFiniteSet(L) /\ Cardinality(L) \in Nat
    BY <1>1, FS_Subset, FS_CardinalityType
  <2>3. Cardinality(B) <= Cardinality(L)
    BY <2>1, <2>2, FS_Subset
  <2> QED
    BY <1>3, <2>2, <2>3 DEF Rank
<1> QED
  BY <1>2, <1>3, <1>5, <1>6

(* The first entry that is not in front goes right behind those that are,  *)
(* and is then in front itself.                                            *)
LEMMA NextInLine ==
  ASSUME NEW o, WellLaid(o), NEW D, Ahead(o, D),
         NEW x \in DOMAIN o.memory_info \ D,
         \A y \in DOMAIN o.memory_info \ D : EntryIn(o, x).first <= EntryIn(o, y).first
  PROVE  /\ Rank(Owned(o), EntryIn(o, x).first) = Cardinality(Behind(o, D))
         /\ Ahead(o, D \cup {x})
         /\ Cardinality(Behind(o, D \cup {x})) =
              Cardinality(Behind(o, D)) + EntryIn(o, x).second
<1> DEFINE S == Owned(o)
           B == Behind(o, D)
           e == EntryIn(o, x)
<1>1. e \in Entries /\ \A y \in DOMAIN o.memory_info : EntryIn(o, y) \in Entries
  BY DEF WellLaid, EntryIn
<1>2. e.first \in Nat /\ e.second \in Nat /\ e.second >= 1 /\ e.first \in Span(e)
  BY <1>1, SpanFacts
<1>3. /\ B \in SUBSET S /\ IsFiniteSet(B) /\ Cardinality(B) \in Nat
      /\ S \in SUBSET Blocks /\ \A b \in S : b \in Int
  BY BehindRanks, OwnedFacts, PoolAssumption DEF Blocks
<1>4. \A b \in Span(e) : b \in S /\ b \notin B
  <2> SUFFICES ASSUME NEW b \in Span(e) PROVE b \in S /\ b \notin B
    OBVIOUS
  <2>1. b \in S
    BY OwnedFacts
  <2>2. ASSUME NEW y \in D, b \in Span(EntryIn(o, y)) PROVE FALSE
    BY <2>2 DEF WellLaid, Ahead
  <2> QED
    BY <2>1, <2>2 DEF Behind
<1>5. ASSUME NEW y \in DOMAIN o.memory_info, y \notin D, y /= x
      PROVE  e.first + e.second <= EntryIn(o, y).first
  <2> DEFINE a == EntryIn(o, y).first
  <2>1. e.first <= a /\ a \in Nat /\ a \in Span(EntryIn(o, y))
    BY <1>1, <1>5, SpanFacts
  <2>2. a \notin Span(e)
    BY <1>5, <2>1 DEF WellLaid
  <2> QED
    BY <1>1, <1>2, <2>1, <2>2, SpanFacts
<1>6. Rank(S, e.first) = Cardinality(B)
  <2> DEFINE L == {y \in S : y < e.first}
  <2>1. ASSUME NEW b \in B PROVE b < e.first
    <3>1. PICK z \in D : b \in Span(EntryIn(o, z))
      BY DEF Behind
    <3>2. EntryIn(o, z).first + EntryIn(o, z).second <= e.first
      BY DEF Ahead
    <3> QED
      BY <1>1, <1>2, <3>1, <3>2, SpanFacts DEF Ahead
  <2>2. ASSUME NEW b \in S, b < e.first PROVE b \in B
    <3>1. PICK z \in DOMAIN o.memory_info : b \in Span(EntryIn(o, z))
      BY OwnedFacts
    <3>2. z \in D
      <4>1. EntryIn(o, z).first <= b /\ b \in Int /\ EntryIn(o, z).first \in Nat
        BY <1>1, <3>1, SpanFacts
      <4> QED
        BY <1>2, <2>2, <4>1
    <3> QED
      BY <3>1, <3>2 DEF Behind
  <2>3. L = B
    BY <1>3, <2>1, <2>2
  <2> QED
    BY <2>3 DEF Rank
<1>7. Ahead(o, D \cup {x})
  <2>1. D \cup {x} \subseteq DOMAIN o.memory_info
    BY DEF Ahead
  <2>2. ASSUME NEW z \in D \cup {x}, NEW y \in DOMAIN o.memory_info \ (D \cup {x})
        PROVE  EntryIn(o, z).first + EntryIn(o, z).second <= EntryIn(o, y).first
    BY <1>5 DEF Ahead
  <2> QED
    BY <2>1, <2>2 DEF Ahead
<1>8. Cardinality(Behind(o, D \cup {x})) = Cardinality(B) + e.second
  <2>1. Behind(o, D \cup {x}) = B \cup Span(e)
    BY DEF Behind
  <2>2. IsFiniteSet(Span(e)) /\ Cardinality(Span(e)) = e.second
    <3>1. Span(e) \subseteq Blocks
      BY DEF WellLaid
    <3> QED
      BY <1>1, <3>1, SpanCardinality
  <2>3. B \cap Span(e) = {}
    BY <1>4
  <2>4. Cardinality(B \cup Span(e)) = Cardinality(B) + Cardinality(Span(e)) - Cardinality(B \cap Span(e))
    BY <1>3, <2>2, FS_Union
  <2>5. Cardinality(B \cap Span(e)) = 0
    BY <2>3, FS_EmptySet
  <2>6. Cardinality(B \cup Span(e)) = Cardinality(B) + e.second
    <3> HIDE DEF B, e
    <3> QED
      BY <1>2, <1>3, <2>2, <2>4, <2>5
  <2> QED
    BY <2>1, <2>6
<1> QED
  BY <1>6, <1>7, <1>8

(***************************************************************************)
(* One block.                                                              *)
(***************************************************************************)
(* Which bits are set after w moves. *)
LEMMA BitsAtFacts ==
  ASSUME NEW o, WellLaid(o), NEW src \in Owned(o), NEW w, w = Rank(Owned(o), src)
  PROVE  /\ w \in Blocks /\ w \in Nat /\ w <= src /\ Nth(Owned(o), w) = src
         /\ \A b \in Owned(o) : Rank(Owned(o), b) \in Nat
         /\ \A b \in Owned(o) : Rank(Owned(o), b) = w <=> b = src
         /\ \A b \in Owned(o) : b \in Blocks /\ b \in Nat /\ Rank(Owned(o), b) <= b
<1> DEFINE S == Owned(o)
<1>1. S \in SUBSET Blocks
  BY OwnedFacts
<1>2. \A b \in S : b \in Blocks /\ b \in Nat /\ Rank(S, b) <= b /\ Rank(S, b) \in Nat
  BY <1>1, RankAtMost, PoolAssumption DEF Blocks
<1>3. \A b \in S : Nth(S, Rank(S, b)) = b
  BY <1>1, NthOfRank
<1>4. w \in Blocks
  BY <1>2, PoolAssumption DEF Blocks
<1> QED
  BY <1>2, <1>3, <1>4

(* A block that is in its place already: nothing to do. *)
LEMMA BlockStays ==
  ASSUME NEW o, WellLaid(o), NEW src \in Owned(o), src = Rank(Owned(o), src)
  PROVE  /\ PoolAt(o, src + 1) = PoolAt(o, src)
         /\ MetaAt(o, src + 1) = MetaAt(o, src)
         /\ BitsAt(o, src + 1) = BitsAt(o, src)
<1> DEFINE S == Owned(o)
<1>1. /\ src \in Nat /\ Nth(S, src) = src
      /\ \A b \in S : Rank(S, b) \in Nat /\ (Rank(S, b) = src <=> b = src)
      /\ \A b \in S : b \in Nat
  BY BitsAtFacts
<1>2. \A b \in Blocks : b \in Nat
  BY PoolAssumption DEF Blocks
<1>3. \A b \in Blocks : b < src + 1 <=> b < src \/ b = src
  BY <1>1, <1>2
<1>4. PoolAt(o, src + 1) = PoolAt(o, src)
  BY <1>1, <1>3 DEF PoolAt
<1>5. \A b \in S : Rank(S, b) < src + 1 <=> Rank(S, b) < src \/ b = src
  BY <1>1
<1>6. MetaAt(o, src + 1) = MetaAt(o, src)
  <2>1. ASSUME NEW b \in Blocks PROVE MetaAt(o, src + 1)[b] = MetaAt(o, src)[b]
    BY <1>1, <1>3, <1>5 DEF MetaAt
  <2> QED
    BY <2>1 DEF MetaAt
<1>7. BitsAt(o, src + 1) = BitsAt(o, src)
  <2>1. ASSUME NEW b \in BitsAt(o, src + 1) PROVE b \in BitsAt(o, src)
    BY <1>1 DEF BitsAt
  <2>2. ASSUME NEW b \in BitsAt(o, src) PROVE b \in BitsAt(o, src + 1)
    BY <1>1 DEF BitsAt
  <2> QED
    BY <2>1, <2>2
<1> QED
  BY <1>4, <1>6, <1>7

(* A block that moves: data and metadata are copied to a place that holds  *)
(* nothing still to be read, and the block it leaves is not in use.        *)
LEMMA BlockMoves ==
  ASSUME NEW o, WellLaid(o), NEW src \in Owned(o), NEW w,
         w = Rank(Owned(o), src), src /= w
  PROVE  /\ PoolAt(o, w + 1) = [PoolAt(o, w) EXCEPT ![w] = PoolAt(o, w)[src]]
         /\ MetaAt(o, w + 1) = [MetaAt(o, w) EXCEPT ![w] = MetaAt(o, w)[src], ![src] = BlockMeta]
         /\ BitsAt(o, w + 1) = (BitsAt(o, w) \cup {w}) \ {src}
         /\ w \notin BitsAt(o, w) /\ src \in BitsAt(o, w)
<1> DEFINE S == Owned(o)
<1>1. /\ w \in Blocks /\ w \in Nat /\ w < src /\ Nth(S, w) = src /\ src \in Blocks /\ src \in Nat
      /\ \A b \in S : Rank(S, b) \in Nat /\ (Rank(S, b) = w <=> b = src)
      /\ \A b \in S : b \in Nat /\ Rank(S, b) <= b
  BY BitsAtFacts
<1>2. \A b \in Blocks : b \in Nat
  BY PoolAssumption DEF Blocks
<1>3. \A b \in Blocks : b < w + 1 <=> b < w \/ b = w
  BY <1>1, <1>2
<1>4. \A b \in S : Rank(S, b) < w + 1 <=> Rank(S, b) < w \/ b = src
  BY <1>1
<1>5. PoolAt(o, w)[src] = o.pool[src] /\ MetaAt(o, w)[src] = o.meta[src]
  <2>1. ~(src < w) /\ ~(Rank(S, src) < w)
    BY <1>1
  <2> QED
    BY <1>1, <2>1 DEF PoolAt, MetaAt
<1>6. PoolAt(o, w + 1) = [PoolAt(o, w) EXCEPT ![w] = o.pool[src]]
  <2>1. ASSUME NEW b \in Blocks
        PROVE  PoolAt(o, w + 1)[b] = IF b = w THEN o.pool[src] ELSE PoolAt(o, w)[b]
    BY <1>1, <1>3 DEF PoolAt
  <2> QED
    BY <2>1 DEF PoolAt
<1>7. MetaAt(o, w + 1) = [MetaAt(o, w) EXCEPT ![w] = o.meta[src], ![src] = BlockMeta]
  <2>1. ASSUME NEW b \in Blocks
        PROVE  MetaAt(o, w + 1)[b] = IF b = src THEN BlockMeta
                                     ELSE IF b = w THEN o.meta[src] ELSE MetaAt(o, w)[b]
    <3>1. CASE b = src
      BY <1>1, <1>3, <1>4, <3>1 DEF MetaAt
    <3>2. CASE b = w
      BY <1>1, <1>3, <3>2 DEF MetaAt
    <3>3. CASE b /= src /\ b /= w
      BY <1>3, <1>4, <3>3 DEF MetaAt
    <3> QED
      BY <3>1, <3>2, <3>3
  <2> QED
    BY <1>1, <2>1 DEF MetaAt
<1>8. BitsAt(o, w + 1) = (BitsAt(o, w) \cup {w}) \ {src}
  <2>1. ASSUME NEW b \in BitsAt(o, w + 1) PROVE b \in BitsAt(o, w) \cup {w} /\ b /= src
    BY <1>1 DEF BitsAt
  <2>2. ASSUME NEW b \in BitsAt(o, w) \cup {w}, b /= src PROVE b \in BitsAt(o, w + 1)
    BY <1>1, <2>2 DEF BitsAt
  <2> QED
    BY <2>1, <2>2
<1>9. w \notin BitsAt(o, w) /\ src \in BitsAt(o, w)
  BY <1>1 DEF BitsAt
<1> QED
  BY <1>5, <1>6, <1>7, <1>8, <1>9

(* No block moved is the object at the start. *)
LEMMA NothingMoved ==
  ASSUME NEW o, WellLaid(o)
  PROVE  Partly(o, 0, {}) = o
<1>1. \A b \in Owned(o) : Rank(Owned(o), b) \in Nat
  BY OwnedFacts, RankAtMost
<1>2. \A b \in Blocks : b \in Nat /\ ~(b < 0)
  BY PoolAssumption DEF Blocks
<1>3. PoolAt(o, 0) = o.pool
  BY <1>2 DEF PoolAt, WellLaid
<1>4. MetaAt(o, 0) = o.meta
  <2>1. \A b \in Blocks : MetaAt(o, 0)[b] = o.meta[b]
    BY <1>1, <1>2 DEF MetaAt
  <2> QED
    BY <2>1 DEF MetaAt, WellLaid
<1>5. BitsAt(o, 0) = o.used_map
  BY <1>1 DEF BitsAt, WellLaid
<1>6. EntriesAt(o, {}) = o.memory_info
  BY DEF EntriesAt, WellLaid
<1> QED
  BY <1>3, <1>4, <1>5, <1>6 DEF Partly, WellLaid

(* All blocks moved, and the two counters set, is Compact. *)
LEMMA AllMoved ==
  ASSUME NEW o, WellLaid(o)
  PROVE  [Partly(o, FreePos(o), DOMAIN o.memory_info) EXCEPT
            !.free_block_count = kBlockCount - FreePos(o),
            !.next_search_pos  = FreePos(o)] = Compact(o)
<1> DEFINE S == Owned(o)
<1>1. S \in SUBSET Blocks /\ FreePos(o) \in Nat /\ FreePos(o) = Cardinality(S)
  BY OwnedFacts DEF FreePos
<1>2. \A b \in S : Rank(S, b) < FreePos(o) /\ Rank(S, b) \in Nat
  BY <1>1, RankBelow, RankAtMost
<1>3. \A b \in Blocks : b \in Packed(o) <=> b < FreePos(o)
  BY <1>1, PoolAssumption DEF Packed, Blocks
<1>4. PoolAt(o, FreePos(o)) = MovedData(o)
  BY <1>3 DEF PoolAt, MovedData
<1>5. MetaAt(o, FreePos(o)) = MovedMeta(o)
  BY <1>2, <1>3 DEF MetaAt, MovedMeta
<1>6. BitsAt(o, FreePos(o)) = MovedBits(o)
  <2>1. o.used_map \ S = {}
    BY DEF WellLaid
  <2>2. {b \in S : Rank(S, b) >= FreePos(o)} = {}
    BY <1>1, <1>2
  <2> QED
    BY <2>1, <2>2 DEF BitsAt, MovedBits, Packed
<1>7. EntriesAt(o, DOMAIN o.memory_info) =
        [x \in DOMAIN o.memory_info |-> MovedEntry(o, o.memory_info[x])]
  BY DEF EntriesAt
<1> QED
  BY <1>4, <1>5, <1>6, <1>7 DEF Partly, Compact, WellLaid

(***************************************************************************)
(* The loops.                                                              *)
(***************************************************************************)
(* The start. *)
LEMMA LoopInvInit == Init => LoopInv
<1> SUFFICES ASSUME Init PROVE LoopInv
  OBVIOUS
<1>1. PICK info \in Layouts : start = PoolWith(info)
  BY DEF Init
<1>2. WellLaid(start)
  BY <1>1, LayoutsAreWellLaid
<1>3. Done = {} /\ MovedNow = 0 /\ pc = "next" /\ todo = DOMAIN start.memory_info
  BY DEF Init, Done, MovedNow
<1>4. Places
  BY <1>3 DEF Places
<1>5. InFront
  <2>1. Behind(start, Done) = {}
    BY <1>3 DEF Behind
  <2> QED
    BY <1>3, <2>1, FS_EmptySet DEF InFront, Ahead, Init
<1>6. HalfWay
  BY <1>2, <1>3, NothingMoved DEF HalfWay, Init
<1>7. BitsConserved
  BY DEF BitsConserved, Init
<1> QED
  BY <1>2, <1>4, <1>5, <1>6, <1>7 DEF LoopInv

(* Choosing the next entry moves nothing; the entry's place is freePos. *)
LEMMA NextEntryKeeps ==
  ASSUME LoopInv, NextEntry
  PROVE  LoopInv'
<1>1. /\ pc = "next" /\ id' \in todo /\ \A y \in todo : FirstOf(id') <= FirstOf(y)
      /\ todo' = todo \ {id'} /\ j' = 0 /\ pc' = "move"
      /\ start' = start /\ smp' = smp /\ freePos' = freePos
  BY DEF NextEntry, LowestStart
<1>2. /\ WellLaid(start) /\ Places /\ InFront /\ HalfWay /\ BitsConserved
      /\ todo \subseteq DOMAIN start.memory_info
  BY DEF LoopInv, Places
<1>3. Done' = Done
  BY <1>1, <1>2 DEF Done
<1>4. WellLaid(start)'
  BY <1>1, <1>2 DEF WellLaid
<1>5. Count(id') \in Nat
  BY <1>1, <1>2, SpanFacts DEF WellLaid, Count
<1>6. Places'
  BY <1>1, <1>2, <1>5 DEF Places, Count
<1>7. InFront'
  BY <1>1, <1>2, <1>3 DEF InFront, FirstOf
<1>8. MovedNow' = MovedNow
  <2>1. freePos \in Nat
    BY <1>2, BehindRanks DEF InFront
  <2> QED
    BY <1>1, <2>1 DEF MovedNow
<1>9. HalfWay'
  BY <1>1, <1>2, <1>3, <1>8 DEF HalfWay
<1>10. BitsConserved'
  BY <1>1, <1>2 DEF BitsConserved
<1> QED
  BY <1>4, <1>6, <1>7, <1>9, <1>10 DEF LoopInv

(* While an entry is moved: it is the first of those not in front, its     *)
(* place is freePos, and its next block is the next owned block.           *)
LEMMA Moving ==
  ASSUME LoopInv, pc = "move"
  PROVE  /\ WellLaid(start) /\ Ahead(start, Done)
         /\ id \in DOMAIN start.memory_info \ Done
         /\ \A y \in DOMAIN start.memory_info \ Done : FirstOf(id) <= FirstOf(y)
         /\ freePos \in Nat /\ freePos = Cardinality(Behind(start, Done))
         /\ freePos = Target(id)
         /\ j \in 0 .. Count(id) /\ Count(id) \in Nat /\ FirstOf(id) \in Nat
         /\ MovedNow = freePos + j
         /\ smp = Partly(start, freePos + j, Done)
<1>1. /\ WellLaid(start) /\ Ahead(start, Done) /\ freePos = Cardinality(Behind(start, Done))
      /\ \A y \in todo : FirstOf(id) <= FirstOf(y)
      /\ id \in DOMAIN start.memory_info \ todo /\ j \in 0 .. Count(id)
      /\ MovedNow = freePos + j
      /\ smp = Partly(start, freePos + j, Done)
  BY DEF LoopInv, InFront, Places, HalfWay, MovedNow
<1>2. DOMAIN start.memory_info \ Done \subseteq todo \cup {id} /\ id \notin Done
  BY DEF Done
<1>3. start.memory_info[id] \in Entries
  BY <1>1 DEF WellLaid
<1>4. Count(id) \in Nat /\ FirstOf(id) \in Nat
  BY <1>3, SpanFacts DEF Count, FirstOf
<1>5. \A y \in DOMAIN start.memory_info \ Done : FirstOf(id) <= FirstOf(y)
  BY <1>1, <1>2, <1>4
<1>6. freePos = Target(id)
  BY <1>1, <1>2, <1>5, NextInLine DEF Target, FirstOf, EntryIn
<1>7. freePos \in Nat
  BY <1>1, BehindRanks
<1> QED
  BY <1>1, <1>2, <1>4, <1>5, <1>6, <1>7

(* Moving one block. *)
LEMMA MoveBlockKeeps ==
  ASSUME LoopInv, MoveBlock
  PROVE  LoopInv'
<1> DEFINE src == FirstOf(id) + j
           w   == freePos + j
           S   == Owned(start)
<1>1. /\ pc = "move" /\ j < Count(id) /\ j' = j + 1
      /\ start' = start /\ todo' = todo /\ id' = id /\ freePos' = freePos /\ pc' = pc
      /\ smp' = IF src = w THEN smp
                ELSE [smp EXCEPT
                        !.pool[w] = smp.pool[src],
                        !.meta = [@ EXCEPT ![w] = smp.meta[src], ![src] = BlockMeta],
                        !.used_map = (@ \cup {w}) \ {src}]
  BY DEF MoveBlock, FirstToLast, NextBlock, BitsAfter
<1>2. /\ WellLaid(start) /\ id \in DOMAIN start.memory_info
      /\ freePos \in Nat /\ freePos = Rank(S, FirstOf(id))
      /\ j \in 0 .. Count(id) /\ Count(id) \in Nat
      /\ smp = Partly(start, w, Done)
  BY <1>1, Moving DEF Target
<1>3. j \in 0 .. Count(id) - 1 /\ j + 1 \in 0 .. Count(id)
  BY <1>1, <1>2
<1>4. src \in S /\ Rank(S, src) = w
  BY <1>2, <1>3, EntryRank DEF EntryIn, Count, FirstOf
<1>5. Done' = Done /\ MovedNow' = w + 1
  BY <1>1, <1>2 DEF Done, MovedNow
<1>6. WellLaid(start)' /\ Places' /\ InFront'
  <2>1. WellLaid(start)'
    BY <1>1, <1>2 DEF WellLaid
  <2>2. Places'
    BY <1>1, <1>3 DEF LoopInv, Places, Count
  <2>3. InFront'
    BY <1>1, <1>5 DEF LoopInv, InFront, FirstOf
  <2> QED
    BY <2>1, <2>2, <2>3
<1>7. /\ smp.pool = PoolAt(start, w) /\ smp.meta = MetaAt(start, w)
      /\ smp.used_map = BitsAt(start, w) /\ smp.memory_info = EntriesAt(start, Done)
      /\ DOMAIN smp = DOMAIN ResetPool
  BY <1>2 DEF Partly, WellLaid, ResetPool
<1>8. smp' = Partly(start, w + 1, Done)
  <2>1. CASE src = w
    <3>1. /\ PoolAt(start, w + 1) = PoolAt(start, w)
          /\ MetaAt(start, w + 1) = MetaAt(start, w)
          /\ BitsAt(start, w + 1) = BitsAt(start, w)
      <4> HIDE DEF src, w
      <4> QED
        BY <1>2, <1>4, <2>1, BlockStays
    <3>2. smp' = smp
      BY <1>1, <2>1
    <3> QED
      BY <1>2, <3>1, <3>2 DEF Partly
  <2>2. CASE src /= w
    <3>1. /\ PoolAt(start, w + 1) = [PoolAt(start, w) EXCEPT ![w] = PoolAt(start, w)[src]]
          /\ MetaAt(start, w + 1) =
                [MetaAt(start, w) EXCEPT ![w] = MetaAt(start, w)[src], ![src] = BlockMeta]
          /\ BitsAt(start, w + 1) = (BitsAt(start, w) \cup {w}) \ {src}
      BY <1>2, <1>4, <2>2, BlockMoves
    <3>2. smp' = [smp EXCEPT !.pool     = PoolAt(start, w + 1),
                             !.meta     = MetaAt(start, w + 1),
                             !.used_map = BitsAt(start, w + 1)]
      BY <1>1, <1>7, <2>2, <3>1 DEF ResetPool
    <3> QED
      BY <1>2, <3>2 DEF Partly, WellLaid, ResetPool
  <2> QED
    BY <2>1, <2>2
<1>9. HalfWay'
  BY <1>1, <1>5, <1>8 DEF HalfWay
<1>10. BitsConserved'
  <2>1. CASE src = w
    <3>1. smp' = smp /\ start' = start
      BY <1>1, <2>1
    <3> QED
      BY <3>1 DEF LoopInv, BitsConserved
  <2>2. CASE src /= w
    <3>1. w \notin smp.used_map /\ src \in smp.used_map
      <4>1. w \notin BitsAt(start, w) /\ src \in BitsAt(start, w)
        <5> HIDE DEF src, w
        <5> QED
          BY <1>2, <1>4, <2>2, BlockMoves
      <4> QED
        BY <1>7, <4>1
    <3>2. smp'.used_map = (smp.used_map \cup {w}) \ {src}
      BY <1>1, <1>7, <2>2 DEF ResetPool
    <3>3. IsFiniteSet(smp.used_map)
      <4>1. IsFiniteSet(0 .. w - 1)
        BY <1>2, FS_Interval
      <4>2. IsFiniteSet({b \in S : Rank(S, b) >= w})
        BY <1>2, OwnedFacts, FS_Subset
      <4>3. smp.used_map = (0 .. w - 1) \cup {b \in S : Rank(S, b) >= w}
        BY <1>7 DEF BitsAt
      <4>4. IsFiniteSet((0 .. w - 1) \cup {b \in S : Rank(S, b) >= w})
        BY <4>1, <4>2, FS_Union
      <4> QED
        BY <4>3, <4>4
    <3>4. Cardinality(smp'.used_map) = Cardinality(smp.used_map)
      <4>1. /\ IsFiniteSet(smp.used_map \cup {w})
            /\ Cardinality(smp.used_map \cup {w}) = Cardinality(smp.used_map) + 1
        BY <3>1, <3>3, FS_AddElement
      <4>2. src \in smp.used_map \cup {w}
        BY <3>1
      <4>3. Cardinality((smp.used_map \cup {w}) \ {src}) = Cardinality(smp.used_map \cup {w}) - 1
        BY <4>1, <4>2, FS_RemoveElement
      <4>4. Cardinality(smp.used_map) \in Nat
        BY <3>3, FS_CardinalityType
      <4> QED
        BY <3>2, <4>1, <4>3, <4>4
    <3> QED
      BY <1>1, <3>4 DEF LoopInv, BitsConserved
  <2> QED
    BY <2>1, <2>2
<1> QED
  BY <1>6, <1>9, <1>10 DEF LoopInv

(* The end of an entry: the entry now says where its blocks are. *)
LEMMA EndEntryKeeps ==
  ASSUME LoopInv, EndEntry
  PROVE  LoopInv'
<1>1. /\ pc = "move" /\ j = Count(id) /\ pc' = "next"
      /\ start' = start /\ todo' = todo /\ freePos' = freePos + Count(id)
      /\ smp' = [smp EXCEPT !.memory_info[id].first = freePos]
  BY DEF EndEntry, NextFreePos
<1>2. /\ WellLaid(start) /\ Ahead(start, Done)
      /\ id \in DOMAIN start.memory_info \ Done
      /\ \A y \in DOMAIN start.memory_info \ Done : FirstOf(id) <= FirstOf(y)
      /\ freePos \in Nat /\ freePos = Cardinality(Behind(start, Done)) /\ freePos = Target(id)
      /\ smp = Partly(start, freePos + Count(id), Done)
  BY <1>1, Moving
<1>3. Places
  BY DEF LoopInv
<1>4. Done' = Done \cup {id}
  BY <1>1, <1>2, <1>3 DEF Done, Places
<1>5. /\ Ahead(start, Done \cup {id})
      /\ Cardinality(Behind(start, Done \cup {id})) = freePos + Count(id)
  <2>1. \A y \in DOMAIN start.memory_info \ Done : EntryIn(start, id).first <= EntryIn(start, y).first
    BY <1>2 DEF FirstOf, EntryIn
  <2>2. WellLaid(start) /\ Ahead(start, Done) /\ id \in DOMAIN start.memory_info \ Done
    BY <1>2
  <2>3. /\ Ahead(start, Done \cup {id})
        /\ Cardinality(Behind(start, Done \cup {id})) =
             Cardinality(Behind(start, Done)) + EntryIn(start, id).second
    BY <2>1, <2>2, NextInLine
  <2>4. EntryIn(start, id).second = Count(id)
    BY DEF EntryIn, Count
  <2> QED
    BY <1>2, <2>3, <2>4
<1>6. WellLaid(start)' /\ Places' /\ InFront'
  <2>1. WellLaid(start)'
    BY <1>1, <1>2 DEF WellLaid
  <2>2. Places'
    BY <1>1, <1>3 DEF Places
  <2>3. InFront'
    BY <1>1, <1>4, <1>5 DEF InFront
  <2> QED
    BY <2>1, <2>2, <2>3
<1>7. /\ smp.memory_info = EntriesAt(start, Done) /\ smp.used_map = BitsAt(start, freePos + Count(id))
      /\ DOMAIN smp = DOMAIN ResetPool
  BY <1>2 DEF Partly, WellLaid, ResetPool
<1>8. [EntriesAt(start, Done) EXCEPT ![id].first = freePos] = EntriesAt(start, Done \cup {id})
  <2> DEFINE old == EntriesAt(start, Done)
             new == EntriesAt(start, Done \cup {id})
  <2>1. old[id] = start.memory_info[id] /\ new[id] = [start.memory_info[id] EXCEPT !.first = freePos]
    BY <1>2 DEF EntriesAt, MovedEntry, Target, FirstOf
  <2>2. \A x \in DOMAIN start.memory_info : x /= id => new[x] = old[x]
    BY DEF EntriesAt
  <2>3. old = [x \in DOMAIN start.memory_info |-> old[x]]
        /\ new = [x \in DOMAIN start.memory_info |-> new[x]]
    BY DEF EntriesAt
  <2> HIDE DEF old, new
  <2>4. [old EXCEPT ![id].first = freePos] = [old EXCEPT ![id] = new[id]]
    BY <2>1
  <2>5. [old EXCEPT ![id] = new[id]] = new
    BY <1>2, <2>2, <2>3
  <2> QED
    BY <2>4, <2>5 DEF old, new
<1>9. smp' = Partly(start, freePos + Count(id), Done \cup {id})
  <2>1. smp' = [smp EXCEPT !.memory_info = EntriesAt(start, Done \cup {id})]
    BY <1>1, <1>7, <1>8
  <2> QED
    BY <1>2, <2>1 DEF Partly, WellLaid, ResetPool
<1>10. HalfWay'
  BY <1>1, <1>4, <1>9 DEF HalfWay, MovedNow
<1>11. BitsConserved'
  <2>1. smp'.used_map = smp.used_map
    BY <1>1, <1>7 DEF ResetPool
  <2> QED
    BY <1>1, <2>1 DEF LoopInv, BitsConserved
<1> QED
  BY <1>6, <1>10, <1>11 DEF LoopInv

(* Between two entries everything in front was moved; if no entry is left, *)
(* that is everything.                                                     *)
LEMMA AllInFront ==
  ASSUME LoopInv, pc /= "move", todo = {}
  PROVE  freePos = FreePos(start) /\ Done = DOMAIN start.memory_info /\ MovedNow = freePos
<1>1. Done = DOMAIN start.memory_info /\ MovedNow = freePos
  BY DEF Done, MovedNow
<1>2. Behind(start, Done) = Owned(start)
  BY <1>1 DEF Behind, Owned, EntryIn
<1> QED
  BY <1>1, <1>2 DEF LoopInv, InFront, FreePos

(* The end. *)
LEMMA FinishKeeps ==
  ASSUME LoopInv, Finish
  PROVE  LoopInv'
<1>1. /\ pc = "next" /\ todo = {} /\ pc' = "done"
      /\ start' = start /\ todo' = todo /\ freePos' = freePos
      /\ smp' = [smp EXCEPT !.free_block_count = kBlockCount - freePos,
                            !.next_search_pos  = freePos]
  BY DEF Finish
<1>2. WellLaid(start) /\ freePos = FreePos(start) /\ Done = DOMAIN start.memory_info
      /\ smp = Partly(start, freePos, Done)
  BY <1>1, AllInFront DEF LoopInv, HalfWay
<1>3. Done' = Done
  BY <1>1 DEF Done
<1>4. WellLaid(start)' /\ Places' /\ InFront'
  <2>1. WellLaid(start)'
    BY <1>1, <1>2 DEF WellLaid
  <2>2. Places'
    BY <1>1 DEF LoopInv, Places
  <2>3. InFront'
    BY <1>1, <1>3 DEF LoopInv, InFront
  <2> QED
    BY <2>1, <2>2, <2>3
<1>5. smp' = Compact(start)
  BY <1>1, <1>2, AllMoved
<1>6. HalfWay'
  BY <1>1, <1>5 DEF HalfWay
<1>7. BitsConserved'
  <2>1. DOMAIN smp = DOMAIN ResetPool
    BY <1>2 DEF Partly, WellLaid
  <2>2. smp'.used_map = smp.used_map
    BY <1>1, <2>1 DEF ResetPool
  <2> QED
    BY <1>1, <2>2 DEF LoopInv, BitsConserved
<1> QED
  BY <1>4, <1>6, <1>7 DEF LoopInv

(* Compact's loops stay within what LoopInv says: at every moment the      *)
(* object is the one at the start with its lowest blocks moved.            *)
THEOREM LoopStaysOrdered == Spec => []LoopInv
<1>1. LoopInv /\ [Next]_vars => LoopInv'
  <2> SUFFICES ASSUME LoopInv, [Next]_vars PROVE LoopInv'
    OBVIOUS
  <2>1. CASE NextEntry
    BY <2>1, NextEntryKeeps
  <2>2. CASE MoveBlock
    BY <2>2, MoveBlockKeeps
  <2>3. CASE EndEntry
    BY <2>3, EndEntryKeeps
  <2>4. CASE Finish
    BY <2>4, FinishKeeps
  <2>5. CASE UNCHANGED vars
    BY <2>5 DEF vars, LoopInv, WellLaid, Places, InFront, HalfWay, BitsConserved, Done, MovedNow,
                Count, FirstOf
  <2> QED
    BY <2>1, <2>2, <2>3, <2>4, <2>5 DEF Next
<1> QED
  BY <1>1, LoopInvInit, PTL DEF Spec

(* What the loops of Compact leave behind is Compact(start), for every     *)
(* pool and every layout.                                                  *)
THEOREM CompactLoopIsCompact == Spec => []LoopComputesCompact
<1>1. LoopInv => LoopComputesCompact
  BY DEF LoopInv, HalfWay, LoopComputesCompact
<1> QED
  BY <1>1, LoopStaysOrdered, PTL

(* No move of Compact's loops changes how many bits are set. *)
THEOREM LoopConservesBits == Spec => []BitsConserved
<1>1. LoopInv => BitsConserved
  BY DEF LoopInv
<1> QED
  BY <1>1, LoopStaysOrdered, PTL

(* Where a block is in an object that is partly moved. *)
LEMMA FoundInPartly ==
  ASSUME NEW o, WellLaid(o), NEW w \in Nat, NEW D,
         NEW x \in DOMAIN o.memory_info, NEW k \in 0 .. EntryIn(o, x).second - 1
  PROVE  LET src == EntryIn(o, x).first + k
             dst == Rank(Owned(o), EntryIn(o, x).first) + k
             b   == IF dst < w THEN dst ELSE src
         IN  /\ Partly(o, w, D).pool[b] = o.pool[src]
             /\ Partly(o, w, D).meta[b] = o.meta[src]
             /\ b \in Partly(o, w, D).used_map
<1> DEFINE src == EntryIn(o, x).first + k
           dst == Rank(Owned(o), EntryIn(o, x).first) + k
<1>1. src \in Owned(o) /\ Rank(Owned(o), src) = dst /\ Nth(Owned(o), dst) = src
  BY EntryRank
<1>2. dst \in Blocks /\ dst \in Nat /\ dst <= src /\ src \in Blocks /\ src \in Nat
  BY <1>1, BitsAtFacts
<1>3. /\ Partly(o, w, D).pool = PoolAt(o, w) /\ Partly(o, w, D).meta = MetaAt(o, w)
      /\ Partly(o, w, D).used_map = BitsAt(o, w)
  BY DEF Partly, WellLaid, ResetPool
<1> HIDE DEF src, dst
<1>4. CASE dst < w
  <2>1. PoolAt(o, w)[dst] = o.pool[src] /\ MetaAt(o, w)[dst] = o.meta[src] /\ dst \in BitsAt(o, w)
    BY <1>1, <1>2, <1>4 DEF PoolAt, MetaAt, BitsAt
  <2> QED
    BY <1>3, <1>4, <2>1 DEF src, dst
<1>5. CASE ~(dst < w)
  <2>1. ~(src < w)
    BY <1>2, <1>5
  <2>2. PoolAt(o, w)[src] = o.pool[src] /\ MetaAt(o, w)[src] = o.meta[src] /\ src \in BitsAt(o, w)
    BY <1>1, <1>2, <1>5, <2>1 DEF PoolAt, MetaAt, BitsAt
  <2> QED
    BY <1>3, <1>5, <2>2 DEF src, dst
<1> QED
  BY <1>4, <1>5

(* The entries that are through have all their blocks among those moved,   *)
(* the entry being moved its first j, and the others none.                 *)
LEMMA MovedBelow ==
  ASSUME LoopInv, NEW x \in DOMAIN start.memory_info, NEW k \in 0 .. Count(x) - 1
  PROVE  Moved(x, k) <=> Target(x) + k < MovedNow
<1> DEFINE S == Owned(start)
           c == Cardinality(Behind(start, Done))
<1>1. WellLaid(start) /\ Ahead(start, Done) /\ freePos = c /\ Places
  BY DEF LoopInv, InFront
<1>2. EntryIn(start, x).first = FirstOf(x) /\ EntryIn(start, x).second = Count(x)
  BY DEF EntryIn, FirstOf, Count
<1>3. /\ FirstOf(x) + k \in Span(EntryIn(start, x)) /\ FirstOf(x) + k \in S
      /\ Rank(S, FirstOf(x) + k) = Target(x) + k
  BY <1>1, <1>2, EntryRank DEF Target
<1>4. c \in Nat
  BY <1>1, BehindRanks
<1>5. Target(x) + k \in Nat
  BY <1>1, <1>3, BitsAtFacts
<1>6. k \in Nat
  <2>1. start.memory_info[x] \in Entries
    BY <1>1 DEF WellLaid
  <2> QED
    BY <2>1, SpanFacts DEF Count
<1>7. CASE x \in Done
  <2>1. FirstOf(x) + k \in Behind(start, Done)
    BY <1>3, <1>7 DEF Behind
  <2>2. Target(x) + k < c
    BY <1>1, <1>3, <2>1, BehindRanks
  <2>3. Target(x) + k < MovedNow
    <3>1. pc = "move" => j \in Nat
      BY Moving
    <3> QED
      BY <1>1, <1>4, <1>5, <2>2, <3>1 DEF MovedNow
  <2>4. x \notin todo /\ (pc = "move" => x /= id)
    BY <1>7 DEF Done
  <2> QED
    BY <2>3, <2>4 DEF Moved
<1>8. CASE pc = "move" /\ x = id
  <2>1. freePos = Target(x) /\ MovedNow = freePos + j /\ j \in Nat /\ freePos \in Nat
    BY <1>8, Moving
  <2>2. x \notin todo
    BY <1>1, <1>8 DEF Places
  <2> QED
    BY <1>6, <1>8, <2>1, <2>2 DEF Moved
<1>9. CASE x \in todo /\ ~(pc = "move" /\ x = id)
  <2>1. ~ Moved(x, k)
    BY <1>9 DEF Moved
  <2>2. x \notin Done
    BY <1>9 DEF Done
  <2>3. FirstOf(x) + k \notin Behind(start, Done)
    BY <1>1, <1>3, <2>2 DEF Behind, WellLaid, Ahead
  <2>4. Target(x) + k >= c
    BY <1>1, <1>3, <2>3, BehindRanks
  <2>5. CASE pc /= "move"
    BY <1>1, <1>4, <1>5, <2>1, <2>4, <2>5 DEF MovedNow
  <2>6. CASE pc = "move"
    <3>1. /\ id \in DOMAIN start.memory_info \ Done /\ freePos \in Nat
          /\ \A y \in DOMAIN start.memory_info \ Done : FirstOf(id) <= FirstOf(y)
          /\ j \in 0 .. Count(id) /\ Count(id) \in Nat /\ MovedNow = freePos + j
      BY <2>6, Moving
    <3>2. EntryIn(start, id).first = FirstOf(id) /\ EntryIn(start, id).second = Count(id)
      BY DEF EntryIn, FirstOf, Count
    <3>3. \A y \in DOMAIN start.memory_info \ Done :
            EntryIn(start, id).first <= EntryIn(start, y).first
      BY <3>1 DEF EntryIn, FirstOf
    <3>4. /\ Ahead(start, Done \cup {id})
          /\ Cardinality(Behind(start, Done \cup {id})) = c + Count(id)
      BY <1>1, <3>1, <3>2, <3>3, NextInLine
    <3>5. FirstOf(x) + k \notin Behind(start, Done \cup {id})
      BY <1>1, <1>3, <1>9, <2>2, <2>6, <3>1 DEF Behind, WellLaid, Ahead
    <3>6. Target(x) + k >= c + Count(id)
      BY <1>1, <1>3, <3>4, <3>5, BehindRanks
    <3> QED
      BY <1>1, <1>4, <1>5, <2>1, <3>1, <3>6
  <2> QED
    BY <2>5, <2>6
<1> QED
  BY <1>7, <1>8, <1>9 DEF Done

(* Compact's loops lose no block: after every single move each block of    *)
(* every memory is whole, at its old place or at its new one.              *)
THEOREM LoopLosesNoBlock == Spec => []NoBlockLost
<1>1. LoopInv => NoBlockLost
  <2> SUFFICES ASSUME LoopInv, NEW x \in DOMAIN start.memory_info, NEW k \in 0 .. Count(x) - 1
               PROVE  LET b == Whereabouts(x, k)
                      IN  /\ smp.pool[b] = start.pool[FirstOf(x) + k]
                          /\ smp.meta[b] = start.meta[FirstOf(x) + k]
                          /\ b \in smp.used_map
    BY DEF NoBlockLost
  <2>1. WellLaid(start) /\ Places
    BY DEF LoopInv
  <2>2. EntryIn(start, x).first = FirstOf(x) /\ EntryIn(start, x).second = Count(x)
    BY DEF EntryIn, FirstOf, Count
  <2>3. PICK D :
          /\ smp.pool = Partly(start, MovedNow, D).pool
          /\ smp.meta = Partly(start, MovedNow, D).meta
          /\ smp.used_map = Partly(start, MovedNow, D).used_map
    <3>1. CASE pc = "done"
      <4>1. MovedNow = FreePos(start) /\ smp = Compact(start)
        BY <2>1, <3>1, AllInFront DEF LoopInv, Places, HalfWay
      <4> DEFINE q == Partly(start, FreePos(start), DOMAIN start.memory_info)
      <4>2. smp = [q EXCEPT !.free_block_count = kBlockCount - FreePos(start),
                            !.next_search_pos  = FreePos(start)]
        BY <2>1, <4>1, AllMoved
      <4>3. DOMAIN q = DOMAIN ResetPool
        BY <2>1 DEF Partly, WellLaid
      <4>4. smp.pool = q.pool /\ smp.meta = q.meta /\ smp.used_map = q.used_map
        <5> HIDE DEF q
        <5> QED
          BY <4>2, <4>3 DEF ResetPool
      <4> QED
        BY <4>1, <4>4
    <3>2. CASE pc /= "done"
      BY <3>2 DEF LoopInv, HalfWay
    <3> QED
      BY <3>1, <3>2
  <2>4. MovedNow \in Nat
    <3>1. freePos \in Nat
      BY BehindRanks DEF LoopInv, InFront
    <3>2. pc = "move" => j \in Nat
      BY Moving
    <3> QED
      BY <3>1, <3>2 DEF MovedNow
  <2>5. Whereabouts(x, k) = IF Target(x) + k < MovedNow THEN Target(x) + k ELSE FirstOf(x) + k
    BY MovedBelow DEF Whereabouts
  <2> QED
    BY <2>1, <2>2, <2>3, <2>4, <2>5, FoundInPartly DEF Target
<1> QED
  BY <1>1, LoopStaysOrdered, PTL
=============================================================================
