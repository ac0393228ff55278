---------------------------- MODULE NextFitScan -----------------------------
(***************************************************************************)
(* The two nested loops of FindContinuousFreeBlock, one test of the bitmap *)
(* per step.  Module PoolObject has their result as one operator; here the *)
(* loops are shown to compute it.                                          *)
(***************************************************************************)
EXTENDS PoolObject

VARIABLES p,        \* the object the search is called on; its fields stay
          n,        \* blockCount, the argument
          pos,      \* next_search_pos, which a successful search moves
          i,        \* the outer loop's i
          runEnd,   \* the inner loop's j
          at, result

scanVars == <<p, n, pos, i, runEnd, at, result>>

-----------------------------------------------------------------------------
ScanInit ==
  /\ \E used \in SUBSET Blocks, start \in 0 .. kBlockCount :
       p = [ResetPool EXCEPT !.used_map = used,
                             !.free_block_count = kBlockCount - Cardinality(used),
                             !.next_search_pos = start]
  /\ n \in 1 .. kBlockCount + 1
  /\ pos = p.next_search_pos
  /\ i = 0 /\ runEnd = 0
  /\ at = "enter"
  /\ result = NotFound

Return(r) == at' = "done" /\ result' = r /\ UNCHANGED <<p, n, i, runEnd>>

Enter ==
  /\ at = "enter"
  /\ \/ /\ n > p.free_block_count
        /\ Return(NotFound)
     \/ /\ n <= p.free_block_count
        /\ i' = pos /\ at' = "outer"
        /\ UNCHANGED <<p, n, runEnd, result>>
  /\ UNCHANGED pos

(* for (i ...) { if (used_map[i]) continue; j = i; *)
StaleStart == runEnd
RunStart   == i

Outer ==
  /\ at = "outer"
  /\ \/ /\ i >= kBlockCount
        /\ Return(NotFound)
     \/ /\ i < kBlockCount /\ i \in p.used_map
        /\ i' = i + 1
        /\ UNCHANGED <<p, n, runEnd, at, result>>
     \/ /\ i < kBlockCount /\ i \notin p.used_map
        /\ runEnd' = RunStart /\ at' = "inner"
        /\ UNCHANGED <<p, n, i, result>>
  /\ UNCHANGED pos

(* while (j < kBlockCount && !used_map[j]) ++j; *)
GrowsToCount == runEnd <= kBlockCount /\ runEnd \notin p.used_map
RunGrows     == runEnd < kBlockCount /\ runEnd \notin p.used_map

Inner ==
  /\ at = "inner"
  /\ IF RunGrows
     THEN runEnd' = runEnd + 1 /\ UNCHANGED at
     ELSE at' = "test" /\ UNCHANGED runEnd
  /\ UNCHANGED <<p, n, pos, i, result>>

(* The run i .. j-1 is taken if it is long enough, else skipped; the for   *)
(* loop's ++i makes up for the -1.                                         *)
LongEnoughBarOne == runEnd - i > n
LongEnough       == runEnd - i >= n

PosOfRun    == i
PosAfterRun == i + n

AfterRun ==
  /\ at = "test"
  /\ \/ /\ LongEnough
        /\ pos' = PosAfterRun
        /\ Return(i)
     \/ /\ ~LongEnough
        /\ i' = (runEnd - 1) + 1 /\ at' = "outer"
        /\ UNCHANGED <<p, n, pos, runEnd, result>>

ScanNext == Enter \/ Outer \/ Inner \/ AfterRun

ScanSpec == ScanInit /\ [][ScanNext]_scanVars /\ WF_scanVars(ScanNext)

-----------------------------------------------------------------------------
TypeOK ==
  /\ p.used_map \subseteq Blocks
  /\ p.free_block_count \in 0 .. kBlockCount
  /\ p.next_search_pos \in 0 .. kBlockCount
  /\ n \in Nat \ {0}
  /\ pos \in 0 .. kBlockCount
  /\ i \in 0 .. kBlockCount /\ runEnd \in 0 .. kBlockCount
  /\ at \in {"enter", "outer", "inner", "test", "done"}
  /\ result \in {NotFound} \cup Blocks

(* No run that is long enough is skipped: none starts between the search   *)
(* position and i, and the blocks i .. j-1 of the run being measured are   *)
(* free, even where the run itself started before the search position.     *)
NothingSkipped ==
  /\ at \in {"outer", "inner", "test"} =>
       \A k \in FreeRuns(p, n) : k >= i
  /\ at \in {"inner", "test"} => i .. (runEnd - 1) \cap p.used_map = {}

(* What the loops return, and where they leave next_search_pos, is the     *)
(* first fit at or after next_search_pos.                                  *)
ScanFindsFirstFit ==
  at = "done" =>
    /\ result = FindContinuousFreeBlock(p, n)
    /\ pos = IF result = NotFound THEN p.next_search_pos ELSE result + n

(* The nested loops with their hand-made jump (i = j - 1) terminate. *)
ScanTerminates == <>(at = "done")
=============================================================================
