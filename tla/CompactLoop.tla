---------------------------- MODULE CompactLoop -----------------------------
(***************************************************************************)
(* The loops of Compact, one block per step.  The copies overlap: an entry *)
(* of several blocks that moves by less than its length writes onto blocks *)
(* it has yet to read, and frees blocks it has just written, so the result *)
(* hangs on the order of the moves.  PoolObject has it as one operator.    *)
(***************************************************************************)
EXTENDS PoolObject

CONSTANT CompactIds         \* the ids of the memories in the pool

ASSUME CompactIdsAssumption == CompactIds \subseteq Nat \ {0}

VARIABLES start,    \* the object when Compact is called; never changes
          smp,      \* the object
          todo,     \* the entries of sortedEntries not yet begun
          id,       \* the entry being moved
          j,        \* its block to move next
          freePos,
          pc

vars == <<start, smp, todo, id, j, freePos, pc>>

-----------------------------------------------------------------------------
(* The objects Compact may meet: any set of disjoint entries, in any order *)
(* of ids, each block marked, described and filled as its own.             *)
Layouts ==
  UNION {{info \in [S -> {e \in Entries : Span(e) \subseteq Blocks}] :
            \A x, y \in S : x /= y => Span(info[x]) \cap Span(info[y]) = {}} :
         S \in SUBSET CompactIds}

OwnerIn(info, b) == CHOOSE x \in DOMAIN info : b \in Span(info[x])

PoolWith(info) ==
  LET used == UNION {Span(info[x]) : x \in DOMAIN info}
      text(x) == [data |-> x, size |-> info[x].second * kBlockSize]
  IN  [used_map                  |-> used,
       meta                      |-> [b \in Blocks |->
         IF b \in used
         THEN [used |-> TRUE, memory_id |-> OwnerIn(info, b), description |-> OwnerIn(info, b)]
         ELSE BlockMeta],
       free_block_count          |-> kBlockCount - Cardinality(used),
       memory_info               |-> info,
       memory_last_modified_time |-> DOMAIN info,
       next_memory_id_counter    |-> 1 + Cardinality(CompactIds),
       next_search_pos           |-> 0,
       pool                      |-> [b \in Blocks |->
         IF b \in used
         THEN Chunk(text(OwnerIn(info, b)), b - info[OwnerIn(info, b)].first)
         ELSE ZeroChunk]]

Init ==
  /\ start \in {PoolWith(info) : info \in Layouts}
  /\ smp = start
  /\ todo = DOMAIN start.memory_info
  /\ id = 0 /\ j = 0 /\ freePos = 0
  /\ pc = "next"

-----------------------------------------------------------------------------
(* sortedEntries is a copy of memory_info taken before anything moves,     *)
(* sorted by start block.                                                  *)
FirstOf(x) == start.memory_info[x].first
Count(x)   == start.memory_info[x].second

LowestId(S)    == {x \in S : \A y \in S : x <= y}
LowestStart(S) == {x \in S : \A y \in S : FirstOf(x) <= FirstOf(y)}

NextEntry ==
  /\ pc = "next" /\ todo /= {}
  /\ id' \in LowestStart(todo)
  /\ todo' = todo \ {id'}
  /\ j' = 0
  /\ pc' = "move"
  /\ UNCHANGED <<start, smp, freePos>>

(* Data, metadata and bits of one block; the blocks of an entry are moved  *)
(* in ascending order.                                                     *)
LastToFirst(x, k) == Count(x) - 1 - k
FirstToLast(x, k) == k

SameBlock(k) == k
NextBlock(k) == k + 1

SourceBitKept(bits, src, dst) == bits \cup {dst}
BitsAfter(bits, src, dst)     == (bits \cup {dst}) \ {src}

MoveBlock ==
  /\ pc = "move" /\ j < Count(id)
  /\ LET src == FirstOf(id) + FirstToLast(id, j)
         dst == freePos + FirstToLast(id, j)
     IN  smp' = IF src = dst THEN smp
                ELSE [smp EXCEPT
                        !.pool[dst] = smp.pool[src],
                        !.meta = [@ EXCEPT ![dst] = smp.meta[src], ![src] = BlockMeta],
                        !.used_map = BitsAfter(@, src, dst)]
  /\ j' = NextBlock(j)
  /\ UNCHANGED <<start, todo, id, freePos, pc>>

NextFreePos(x) == freePos + Count(x)

EndEntry ==
  /\ pc = "move" /\ j = Count(id)
  /\ smp' = [smp EXCEPT !.memory_info[id].first = freePos]
  /\ freePos' = NextFreePos(id)
  /\ pc' = "next"
  /\ UNCHANGED <<start, todo, id, j>>

Finish ==
  /\ pc = "next" /\ todo = {}
  /\ smp' = [smp EXCEPT !.free_block_count = kBlockCount - freePos,
                        !.next_search_pos  = freePos]
  /\ pc' = "done"
  /\ UNCHANGED <<start, todo, id, j, freePos>>

Next == NextEntry \/ MoveBlock \/ EndEntry \/ Finish

Spec == Init /\ [][Next]_vars /\ WF_vars(Next)

-----------------------------------------------------------------------------
(* Where block k of entry x is now: at its destination once it was moved.  *)
Moved(x, k)       == x \notin todo /\ (x /= id \/ pc /= "move" \/ k < j)
Target(x)         == Rank(Owned(start), FirstOf(x))
Whereabouts(x, k) == IF Moved(x, k) THEN Target(x) + k ELSE FirstOf(x) + k

(* After every single move each block of every memory is still there, with *)
(* its bytes and its metadata, at its old place or at its new one: a copy  *)
(* never lands on a block that is still to be read, and clearing a source  *)
(* never clears a block that has been written.                             *)
NoBlockLost ==
  \A x \in DOMAIN start.memory_info : \A k \in 0 .. Count(x) - 1 :
    LET b == Whereabouts(x, k)
    IN  /\ smp.pool[b] = start.pool[FirstOf(x) + k]
        /\ smp.meta[b] = start.meta[FirstOf(x) + k]
        /\ b \in smp.used_map

(* The bitmap has as many bits set after each move as before the first.    *)
BitsConserved == Cardinality(smp.used_map) = Cardinality(start.used_map)

(* What the loops leave behind is Compact(start), the result every other   *)
(* module works with.                                                      *)
LoopComputesCompact == pc = "done" => smp = Compact(start)

LoopTerminates == <>(pc = "done")
=============================================================================
