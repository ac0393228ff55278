------------------------- MODULE PersistenceProofs --------------------------
(***************************************************************************)
(* What a Load brings back, for every pool and every history of commands,  *)
(* Saves whole and cut short, restarts and loads in place; and the program *)
(* with its file as an implementation of the durable store.                *)
(***************************************************************************)
EXTENDS Persistence, PoolObjectProofs

(* The sections in the file are those of the last Save. *)
FileIsOfLastSave ==
  \A s \in DOMAIN file.sections : file.sections[s] = Written(lastSave)[s]

Saving == phase = "saving" => lastSave = smp

(* They are the first few of a Save. *)
Growing == \E n \in 0 .. Len(Order) : DOMAIN file.sections = UpTo(n)

SavesInv ==
  /\ DOMAIN file = DOMAIN NoFile
  /\ Growing /\ FileIsOfLastSave
  /\ Tidy(smp) /\ Tidy(lastSave)
  /\ Saving

(* Up to the first cut the file is none, or all of a consistent object, or *)
(* being written.                                                          *)
WholeFile ==
  \/ DOMAIN file.sections = {} /\ ~file.exists
  \/ AllSections(file) /\ file.exists

UpToFirstCut ==
  /\ phase \in {"serving", "saving", "down"}
  /\ Consistent(smp) /\ Consistent(lastSave)
  /\ loaded # "failed"
  /\ phase # "saving" => WholeFile
  /\ phase = "saving" => ~file.torn /\ file.exists

DurableInv == SavesInv /\ (~cut => UpToFirstCut)

(***************************************************************************)
(* Commands.                                                               *)
(***************************************************************************)
(* The methods module SharedMemoryPool calls are those of PoolObject. *)
LEMMA SameMethods ==
  /\ Pool!ResetPool = ResetPool
  /\ \A p : Pool!GenerateNextMemoryId(p) = GenerateNextMemoryId(p)
  /\ \A p, x : Pool!DescriptionOf(p, x) = DescriptionOf(p, x)
  /\ \A p, x : Pool!FreeByMemoryId(p, x) = FreeByMemoryId(p, x)
  /\ \A p, x, c : Pool!OverwriteInPlace(p, x, c) = OverwriteInPlace(p, x, c)
  /\ \A p : Pool!Compact(p) = Compact(p)
  /\ \A p, x, d, c : Pool!AllocateBlock(p, x, d, c) = AllocateBlock(p, x, d, c)
  /\ Pool!Contents = Contents
<1>1. Pool!Blocks = Blocks /\ Pool!BlockMeta = BlockMeta /\ Pool!ZeroChunk = ZeroChunk
  BY DEF Pool!Blocks, Blocks, Pool!BlockMeta, BlockMeta, Pool!ZeroChunk, ZeroChunk,
         Pool!Chunk, Chunk, Pool!NoContent, NoContent
<1>2. Pool!ResetPool = ResetPool
  BY <1>1 DEF Pool!ResetPool, ResetPool
<1>3. \A p : Pool!GenerateNextMemoryId(p) = GenerateNextMemoryId(p)
  BY DEF Pool!GenerateNextMemoryId, GenerateNextMemoryId
<1>4. \A p, x : Pool!DescriptionOf(p, x) = DescriptionOf(p, x)
  BY DEF Pool!DescriptionOf, DescriptionOf
<1>5. \A p, x : Pool!FreeByMemoryId(p, x) = FreeByMemoryId(p, x)
  BY DEF Pool!FreeByMemoryId, FreeByMemoryId, Pool!Erased, Erased, Pool!Restrict, Restrict,
         Pool!Span, Span, Pool!Blocks, Blocks, Pool!BlockMeta, BlockMeta
<1>6. \A p, x, c : Pool!OverwriteInPlace(p, x, c) = OverwriteInPlace(p, x, c)
  BY DEF Pool!OverwriteInPlace, OverwriteInPlace, Pool!CeilBlocks, CeilBlocks,
         Pool!UpdateMemoryBlockCount, UpdateMemoryBlockCount, Pool!ClearBlockMeta, ClearBlockMeta,
         Pool!GivenBack, GivenBack, Pool!Blocks, Blocks, Pool!BlockMeta, BlockMeta,
         Pool!Chunk, Chunk
<1>7. \A p : Pool!Compact(p) = Compact(p)
  BY DEF Pool!Compact, Compact, Pool!MovedData, MovedData, Pool!MovedMeta, MovedMeta,
         Pool!MovedBits, MovedBits, Pool!MovedEntry, MovedEntry, Pool!FreePos, FreePos,
         Pool!Packed, Packed, Pool!Nth, Nth, Pool!Rank, Rank, Pool!Owned, Owned, Pool!Span, Span,
         Pool!Cardinality, Cardinality, Pool!Blocks, Blocks, Pool!BlockMeta, BlockMeta
<1>8. \A p, n : Pool!FindContinuousFreeBlock(p, n) = FindContinuousFreeBlock(p, n)
  BY DEF Pool!FindContinuousFreeBlock, FindContinuousFreeBlock, Pool!FreeRuns, FreeRuns,
         Pool!NotFound, NotFound, Pool!Min, Min
<1>9. \A c : Pool!RequiredBlocks(c) = RequiredBlocks(c)
  BY DEF Pool!RequiredBlocks, RequiredBlocks
<1>10. \A p, start, x, d, c : Pool!Place(p, start, x, d, c) = Place(p, start, x, d, c)
  BY DEF Pool!Place, Place, Pool!RequiredBlocks, RequiredBlocks, Pool!Span, Span,
         Pool!Blocks, Blocks, Pool!Chunk, Chunk
<1>11. \A p, n : Pool!Searched(p, n) = Searched(p, n)
  BY <1>7, <1>8 DEF Pool!Searched, Searched, Pool!NotFound, NotFound
<1>12. \A p, c : Pool!Rejected(p, c) <=> Rejected(p, c)
  BY DEF Pool!Rejected, Rejected
<1>13. \A p, x, d, c : Pool!AllocateBlock(p, x, d, c) = AllocateBlock(p, x, d, c)
  BY <1>8, <1>9, <1>10, <1>11, <1>12 DEF Pool!AllocateBlock, AllocateBlock, Pool!NotFound, NotFound
<1>14. Pool!Contents = Contents
  BY DEF Pool!Contents, Contents
<1> QED
  BY <1>2, <1>3, <1>4, <1>5, <1>6, <1>7, <1>13, <1>14

(* So these are the commands. *)
LEMMA Commands ==
  ASSUME Pool!Next
  PROVE  \/ \E d \in Descriptions, c \in Contents :
               /\ smp.next_memory_id_counter <= MaxId
               /\ smp' = AllocateBlock(GenerateNextMemoryId(smp), smp.next_memory_id_counter, d, c)
         \/ \E x \in DOMAIN smp.memory_info : smp' = FreeByMemoryId(smp, x)
         \/ \E x \in DOMAIN smp.memory_info, c \in Contents :
               smp' = AllocateBlock(FreeByMemoryId(smp, x), x, DescriptionOf(smp, x), c)
         \/ \E x \in DOMAIN smp.memory_info, c \in Contents :
               /\ c.size > 0 /\ ~(c.size > smp.memory_info[x].second * kBlockSize)
               /\ smp' = OverwriteInPlace(smp, x, c)
         \/ smp' = Compact(smp)
         \/ smp' = ResetPool
<1>1. ASSUME NEW d \in Descriptions, NEW c \in Pool!Contents, Pool!Alloc(d, c)
      PROVE  /\ smp.next_memory_id_counter <= MaxId
             /\ smp' = AllocateBlock(GenerateNextMemoryId(smp), smp.next_memory_id_counter, d, c)
  BY <1>1, SameMethods DEF Pool!Alloc
<1>2. ASSUME NEW x \in DOMAIN smp.memory_info, Pool!Free(x) PROVE smp' = FreeByMemoryId(smp, x)
  BY <1>2, SameMethods DEF Pool!Free
<1>3. ASSUME NEW x \in DOMAIN smp.memory_info, NEW c \in Pool!Contents, Pool!FreeThenAllocate(x, c)
      PROVE  smp' = AllocateBlock(FreeByMemoryId(smp, x), x, DescriptionOf(smp, x), c)
  BY <1>3, SameMethods DEF Pool!FreeThenAllocate
<1>4. ASSUME NEW x \in DOMAIN smp.memory_info, NEW c \in Pool!Contents, Pool!ConsoleUpdate(x, c),
             ~(c.size > smp.memory_info[x].second * kBlockSize)
      PROVE  c.size > 0 /\ smp' = OverwriteInPlace(smp, x, c)
  BY <1>4, SameMethods DEF Pool!ConsoleUpdate
<1>5. ASSUME NEW x \in DOMAIN smp.memory_info, NEW c \in Pool!Contents, Pool!ConsoleUpdate(x, c),
             c.size > smp.memory_info[x].second * kBlockSize
      PROVE  Pool!FreeThenAllocate(x, c)
  BY <1>5 DEF Pool!ConsoleUpdate
<1>6. Pool!CompactPool => smp' = Compact(smp)
  BY SameMethods DEF Pool!CompactPool
<1>7. Pool!ResetAll => smp' = ResetPool
  BY SameMethods DEF Pool!ResetAll
<1>8. Pool!Contents = Contents /\ Pool!LiveId = DOMAIN smp.memory_info
  BY SameMethods DEF Pool!LiveId
<1>9. CASE \E d \in Descriptions, c \in Contents : Pool!Alloc(d, c)
  BY <1>1, <1>8, <1>9
<1>10. CASE \E x \in DOMAIN smp.memory_info : Pool!Free(x)
  BY <1>2, <1>10
<1>11. CASE \E x \in DOMAIN smp.memory_info, c \in Contents : Pool!FreeThenAllocate(x, c)
  BY <1>3, <1>8, <1>11
<1>12. CASE \E x \in DOMAIN smp.memory_info, c \in Contents : Pool!ConsoleUpdate(x, c)
  BY <1>3, <1>4, <1>5, <1>8, <1>12
<1> QED
  BY <1>6, <1>7, <1>8, <1>9, <1>10, <1>11, <1>12 DEF Pool!Next

(* Every command keeps the tables consistent and tidy. *)
LEMMA CommandKeeps ==
  ASSUME Consistent(smp), Tidy(smp), Pool!Next
  PROVE  Consistent(smp') /\ Tidy(smp')
<1>1. ASSUME NEW d \in Descriptions, NEW c \in Contents,
             smp' = AllocateBlock(GenerateNextMemoryId(smp), smp.next_memory_id_counter, d, c)
      PROVE  Consistent(smp') /\ Tidy(smp')
  BY <1>1, TakeIdAndAllocate
<1>2. ASSUME NEW x \in DOMAIN smp.memory_info, smp' = FreeByMemoryId(smp, x)
      PROVE  Consistent(smp') /\ Tidy(smp')
  BY <1>2, FreeConsistent, FreeTidy
<1>3. ASSUME NEW x \in DOMAIN smp.memory_info, NEW c \in Contents,
             smp' = AllocateBlock(FreeByMemoryId(smp, x), x, DescriptionOf(smp, x), c)
      PROVE  Consistent(smp') /\ Tidy(smp')
  BY <1>3, FreeAndAllocate
<1>4. ASSUME NEW x \in DOMAIN smp.memory_info, NEW c \in Contents,
             c.size > 0, ~(c.size > smp.memory_info[x].second * kBlockSize),
             smp' = OverwriteInPlace(smp, x, c)
      PROVE  Consistent(smp') /\ Tidy(smp')
  <2>1. smp.memory_info[x].second \in Nat
    BY PoolAssumption DEF Consistent, HasPoolType, Entries
  <2>2. c.size \in Nat /\ kBlockSize \in Nat
    BY PoolAssumption DEF Contents
  <2>3. c.size <= smp.memory_info[x].second * kBlockSize
    BY <1>4, <2>1, <2>2
  <2> QED
    BY <1>4, <2>3, OverwriteConsistent, OverwriteTidy
<1>5. CASE smp' = Compact(smp)
  BY <1>5, CompactConsistent, CompactTidy
<1>6. CASE smp' = ResetPool
  BY <1>6, ResetConsistent, ResetTidy
<1> QED
  BY <1>1, <1>2, <1>3, <1>4, <1>5, <1>6, Commands

(***************************************************************************)
(* The invariants.                                                         *)
(***************************************************************************)
LEMMA InitDurable == Init => DurableInv
<1> SUFFICES ASSUME Init PROVE DurableInv
  OBVIOUS
<1>1. UpTo(0) = {} /\ 0 \in 0 .. Len(Order)
  BY DEF UpTo, Order
<1>2. file = NoFile /\ DOMAIN NoFile.sections = {} /\ ~NoFile.exists
  BY DEF Init, NoFile
<1>3. Tidy(smp) /\ Tidy(lastSave) /\ Consistent(smp) /\ Consistent(lastSave)
  BY ResetTidy, ResetConsistent DEF Init
<1>4. phase = "serving" /\ loaded = "none"
  BY DEF Init
<1> QED
  BY <1>1, <1>2, <1>3, <1>4 DEF DurableInv, SavesInv, UpToFirstCut, Growing, FileIsOfLastSave,
                                Saving, WholeFile

(* How many sections the file has. *)
LEMMA SectionsSoFar ==
  ASSUME Growing
  PROVE  Length(file) \in 0 .. Len(Order) /\ DOMAIN file.sections = UpTo(Length(file))
  BY SectionCount DEF Growing, Length

(* A Load keeps what holds of the objects. *)
LEMMA LoadKeeps ==
  ASSUME DurableInv, phase # "saving", NEW p, Tidy(p), ~cut => Consistent(p),
         LoadInto(p)
  PROVE  /\ Tidy(smp')
         /\ ~cut => Consistent(smp') /\ loaded' # "failed"
<1>1. PICK o \in Load(file, p) : smp' = o.smp /\ loaded' = Verdict(o.ok)
  BY DEF LoadInto
<1>2. Tidy(smp')
  BY <1>1, LoadTidy
<1>3. ASSUME ~cut PROVE Consistent(smp') /\ loaded' # "failed"
  <2>1. Tidy(lastSave) /\ Consistent(lastSave) /\ WholeFile
    BY <1>3 DEF DurableInv, SavesInv, UpToFirstCut
  <2>2. CASE DOMAIN file.sections = {} /\ ~file.exists
    <3>1. smp' = p /\ loaded' # "failed"
      BY <1>1, <2>2, LoadOutcome DEF Verdict
    <3> QED
      BY <1>3, <3>1
  <2>3. CASE AllSections(file)
    <3>1. o.ok /\ \E q \in ReadThrough(file) : smp' = InitializeMemoryIdCounter(q)
      BY <1>1, <2>3, LoadOutcome
    <3>2. loaded' = "ok"
      BY <1>1, <3>1 DEF Verdict
    <3>3. \A s \in DOMAIN file.sections : file.sections[s] = Written(lastSave)[s]
      BY DEF DurableInv, SavesInv, FileIsOfLastSave
    <3> QED
      BY <2>1, <2>3, <3>1, <3>2, <3>3, ReloadConsistent
  <2> QED
    BY <2>1, <2>2, <2>3 DEF WholeFile
<1> QED
  BY <1>2, <1>3

LEMMA NextDurable == DurableInv /\ [Next]_vars => DurableInv'
<1> SUFFICES ASSUME DurableInv, [Next]_vars PROVE DurableInv'
  OBVIOUS
<1>0. SavesInv /\ (~cut => UpToFirstCut)
  BY DEF DurableInv
<1>1. ASSUME UNCHANGED <<file, lastSave>>, Tidy(smp'), phase # "saving", phase' # "saving"
      PROVE  SavesInv'
  BY <1>0, <1>1 DEF SavesInv, Growing, FileIsOfLastSave, Saving, Tidy
<1>2. ASSUME UNCHANGED <<file, lastSave, cut>>, phase # "saving", phase' \in {"serving", "down"},
             ~cut => Consistent(smp') /\ loaded' # "failed"
      PROVE  ~cut' => UpToFirstCut'
  BY <1>0, <1>2 DEF UpToFirstCut, WholeFile, AllSections, Consistent
<1>3. CASE Command
  <2>1. /\ phase = "serving" /\ phase' = phase /\ Consistent(smp) /\ Pool!Next
        /\ UNCHANGED <<file, lastSave, cut, loaded>>
    BY <1>3 DEF Command
  <2>2. Consistent(smp') /\ Tidy(smp')
    BY <1>0, <2>1, CommandKeeps DEF SavesInv
  <2>3. ~cut => loaded' # "failed"
    BY <1>0, <2>1 DEF UpToFirstCut
  <2> QED
    BY <1>1, <1>2, <2>1, <2>2, <2>3 DEF DurableInv
<1>4. CASE BeginSave
  <2>1. /\ phase = "serving" /\ phase' = "saving" /\ file' = EmptyFile /\ lastSave' = smp
        /\ UNCHANGED <<smp, loaded, cut>>
    BY <1>4 DEF BeginSave
  <2>2. /\ DOMAIN EmptyFile = DOMAIN NoFile /\ DOMAIN EmptyFile.sections = {}
        /\ ~EmptyFile.torn /\ EmptyFile.exists
    BY DEF EmptyFile, NoFile
  <2>3. UpTo(0) = {} /\ 0 \in 0 .. Len(Order)
    BY DEF UpTo, Order
  <2>4. Growing' /\ FileIsOfLastSave' /\ Saving'
    BY <2>1, <2>2, <2>3 DEF Growing, FileIsOfLastSave, Saving
  <2>5. SavesInv'
    BY <1>0, <2>1, <2>2, <2>4 DEF SavesInv, Tidy
  <2>6. ~cut' => UpToFirstCut'
    BY <1>0, <2>1, <2>2 DEF UpToFirstCut
  <2> QED
    BY <2>5, <2>6 DEF DurableInv
<1>5. CASE OpenFails
  <2>1. /\ phase = "serving" /\ phase' \in {"serving", "down"}
        /\ UNCHANGED <<smp, file, loaded, lastSave, cut>>
    BY <1>5 DEF OpenFails, AfterSave
  <2>2. Tidy(smp') /\ (~cut => Consistent(smp') /\ loaded' # "failed")
    BY <1>0, <2>1 DEF SavesInv, UpToFirstCut, Tidy
  <2> QED
    BY <1>1, <1>2, <2>1, <2>2 DEF DurableInv
<1>6. CASE WriteSection
  <2> DEFINE n == Length(file)
             next == NextSection(file)
             written == [s \in DOMAIN file.sections \cup {next} |->
                           IF s \in DOMAIN file.sections THEN file.sections[s]
                           ELSE Written(smp)[s]]
  <2>1. /\ phase = "saving" /\ phase' = phase /\ n < Len(Order)
        /\ file' = [file EXCEPT !.sections = written]
        /\ UNCHANGED <<smp, loaded, lastSave, cut>>
    BY <1>6 DEF WriteSection
  <2>2. DOMAIN file = {"exists", "sections", "torn"}
    BY <1>0 DEF SavesInv, NoFile
  <2>3. n \in 0 .. Len(Order) /\ DOMAIN file.sections = UpTo(n)
    BY <1>0, SectionsSoFar DEF SavesInv
  <2>4. n + 1 \in 0 .. Len(Order) /\ UpTo(n) \cup {next} = UpTo(n + 1)
    <3>1. n \in Nat /\ n < 7 /\ Len(Order) = 7
      BY <2>1, <2>3 DEF Order
    <3>2. next = Order[n + 1]
      BY DEF NextSection
    <3>3. 1 .. n + 1 = (1 .. n) \cup {n + 1}
      BY <3>1
    <3> HIDE DEF n, next
    <3> QED
      BY <3>1, <3>2, <3>3 DEF UpTo
  <2> HIDE DEF n, next
  <2>5. DOMAIN written = UpTo(n + 1)
    BY <2>3, <2>4
  <2>6. lastSave = smp
    BY <1>0, <2>1 DEF SavesInv, Saving
  <2>7. \A s \in DOMAIN written : written[s] = Written(lastSave)[s]
    BY <1>0, <2>6 DEF SavesInv, FileIsOfLastSave
  <2> HIDE DEF written
  <2>8. /\ DOMAIN file' = DOMAIN file /\ file'.sections = written
        /\ file'.torn = file.torn /\ file'.exists = file.exists
    BY <2>1, <2>2
  <2>9. Growing' /\ FileIsOfLastSave' /\ Saving'
    BY <2>1, <2>4, <2>5, <2>6, <2>7, <2>8 DEF Growing, FileIsOfLastSave, Saving
  <2>10. SavesInv'
    BY <1>0, <2>1, <2>8, <2>9 DEF SavesInv, Tidy
  <2>11. ~cut' => UpToFirstCut'
    BY <1>0, <2>1, <2>8 DEF UpToFirstCut
  <2> QED
    BY <2>10, <2>11 DEF DurableInv
<1>7. CASE EndSave
  <2>1. /\ phase = "saving" /\ phase' \in {"serving", "down"} /\ Length(file) = Len(Order)
        /\ UNCHANGED <<smp, file, loaded, lastSave, cut>>
    BY <1>7 DEF EndSave, AfterSave
  <2>2. DOMAIN file.sections = UpTo(Len(Order))
    BY <1>0, <2>1, SectionsSoFar DEF SavesInv
  <2>3. SavesInv'
    BY <1>0, <2>1 DEF SavesInv, Growing, FileIsOfLastSave, Saving, Tidy
  <2>4. ~cut' => UpToFirstCut'
    BY <1>0, <2>1, <2>2 DEF UpToFirstCut, WholeFile, AllSections
  <2> QED
    BY <2>3, <2>4 DEF DurableInv
<1>8. CASE CutSave
  <2>1. /\ phase = "saving" /\ phase' \in {"serving", "down"} /\ cut' = TRUE
        /\ UNCHANGED <<smp, loaded, lastSave>>
    BY <1>8 DEF CutSave, AfterSave
  <2>2. PICK n \in 0 .. Length(file), torn \in BOOLEAN : file' = Truncated(file, n, torn)
    BY <1>8 DEF CutSave
  <2>3. DOMAIN file = {"exists", "sections", "torn"}
    BY <1>0 DEF SavesInv, NoFile
  <2>4. /\ DOMAIN file' = DOMAIN file
        /\ file'.sections = [s \in UpTo(n) |-> file.sections[s]]
    BY <2>2, <2>3 DEF Truncated, Restrict
  <2>5. n \in 0 .. Len(Order) /\ UpTo(n) \subseteq DOMAIN file.sections
    <3>1. Length(file) \in 0 .. Len(Order) /\ DOMAIN file.sections = UpTo(Length(file))
      BY <1>0, SectionsSoFar DEF SavesInv
    <3>2. Len(Order) \in Nat
      BY DEF Order
    <3>3. n \in 0 .. Len(Order) /\ 1 .. n \subseteq 1 .. Length(file)
      BY <3>1, <3>2
    <3> QED
      BY <3>1, <3>3 DEF UpTo
  <2>6. Growing' /\ FileIsOfLastSave' /\ Saving'
    BY <1>0, <2>1, <2>4, <2>5 DEF SavesInv, Growing, FileIsOfLastSave, Saving
  <2> QED
    BY <1>0, <2>1, <2>4, <2>6 DEF DurableInv, SavesInv, Tidy
<1>9. CASE Die
  <2>1. /\ phase = "serving" /\ phase' = "down"
        /\ UNCHANGED <<smp, file, loaded, lastSave, cut>>
    BY <1>9 DEF Die
  <2>2. Tidy(smp') /\ (~cut => Consistent(smp') /\ loaded' # "failed")
    BY <1>0, <2>1 DEF SavesInv, UpToFirstCut, Tidy
  <2> QED
    BY <1>1, <1>2, <2>1, <2>2 DEF DurableInv
<1>10. CASE Start
  <2>1. /\ phase = "down" /\ phase' = "serving" /\ LoadInto(ResetPool)
        /\ UNCHANGED <<file, lastSave, cut>>
    BY <1>10 DEF Start
  <2>2. Tidy(smp') /\ (~cut => Consistent(smp') /\ loaded' # "failed")
    BY <2>1, LoadKeeps, ResetTidy, ResetConsistent
  <2> QED
    BY <1>1, <1>2, <2>1, <2>2 DEF DurableInv
<1>11. CASE LoadInPlace
  <2>1. /\ phase = "serving" /\ phase' = phase /\ LoadInto(smp)
        /\ UNCHANGED <<file, lastSave, cut>>
    BY <1>11 DEF LoadInPlace
  <2>2. Tidy(smp) /\ (~cut => Consistent(smp))
    BY <1>0 DEF SavesInv, UpToFirstCut
  <2>3. Tidy(smp') /\ (~cut => Consistent(smp') /\ loaded' # "failed")
    BY <2>1, <2>2, LoadKeeps
  <2> QED
    BY <1>1, <1>2, <2>1, <2>3 DEF DurableInv
<1>12. CASE UNCHANGED vars
  BY <1>0, <1>12 DEF vars, DurableInv, SavesInv, Growing, FileIsOfLastSave, Saving, Tidy,
                     UpToFirstCut, WholeFile, AllSections
<1> QED
  BY <1>3, <1>4, <1>5, <1>6, <1>7, <1>8, <1>9, <1>10, <1>11, <1>12 DEF Next

LEMMA DurableInvariant == Spec => []DurableInv
  BY InitDurable, NextDurable, PTL DEF Spec

(***************************************************************************)
(* The program and its file are a durable store.                           *)
(***************************************************************************)
(* What the file stands for, or the Save under way. *)
Kept == IF phase = "saving" THEN smp ELSE IF file.exists THEN lastSave ELSE ResetPool

StoreDurableInv == DurableInv /\ (~cut => Spells(smp) /\ Spells(lastSave))

(* What the store holds of an object is its view. *)
LEMMA StoredIsView ==
  ASSUME NEW p, HasPoolType(p), Spells(p)
  PROVE  Stored(p) = View(p)
<1> DEFINE content(id) ==
             IF GetMemoryContentAsString(p, id) = TextOf(Spelled(p, id))
             THEN Spelled(p, id) ELSE NoContent
<1>1. Stored(p) = [id \in DOMAIN p.memory_info |->
                     [description |-> DescriptionOf(p, id), content |-> content(id),
                      blocks |-> p.memory_info[id].second]]
  BY DEF Stored, Spelled, TextOf
<1>2. \A id \in DOMAIN p.memory_info : content(id) = Spelled(p, id)
  BY ReadsText
<1> HIDE DEF content
<1> QED
  BY <1>1, <1>2 DEF View, Line

(* The sizes of contents, and the sums, are those the pool computes. *)
LEMMA DurableSizes ==
  ASSUME NEW c \in Contents
  PROVE  /\ Durable!Mem!Needed(c) = RequiredBlocks(c)
         /\ Durable!Mem!Touched(c) = CeilBlocks(c)
         /\ \A n : Durable!Mem!Fits(c, n) <=> c.size > 0 /\ RequiredBlocks(c) <= n
<1>1. c.size \in Nat /\ kBlockSize \in Nat \ {0}
  BY PoolAssumption DEF Contents
<1>2. Durable!Mem!Needed(c) = RequiredBlocks(c)
  BY <1>1, DivSucc DEF Durable!Mem!Needed, RequiredBlocks
<1>3. Durable!Mem!Touched(c) = CeilBlocks(c)
  BY DEF Durable!Mem!Touched, CeilBlocks
<1> QED
  BY <1>2, <1>3 DEF Durable!Mem!Fits

LEMMA DurableCounts ==
  ASSUME NEW p, Consistent(p)
  PROVE  /\ Durable!Room(View(p)) = p.free_block_count
         /\ Durable!LeastFresh(View(p)) = LeastFreshId(p)
<1>1. Durable!Room(View(p)) = p.free_block_count
  <2>1. MapThenSumSet(LAMBDA id : View(p)[id].blocks, DOMAIN View(p))
          = kBlockCount - p.free_block_count
    BY ViewAddsUp
  <2>2. Durable!Room(View(p))
          = kBlockCount - MapThenSumSet(LAMBDA id : View(p)[id].blocks, DOMAIN View(p))
    BY DEF Durable!Room, Durable!MapThenSumSet, Durable!MapThenFoldSet,
           MapThenSumSet, MapThenFoldSet
  <2>3. kBlockCount \in Nat /\ p.free_block_count \in Nat
    BY PoolAssumption DEF Consistent, HasPoolType
  <2> HIDE DEF View
  <2> QED
    BY <2>1, <2>2, <2>3
<1>2. DOMAIN View(p) = DOMAIN p.memory_info
  BY DEF View
<1>3. Durable!LeastFresh(View(p)) = LeastFreshId(p)
  BY <1>2 DEF Durable!LeastFresh, Durable!Max, LeastFreshId, Max
<1> QED
  BY <1>1, <1>3

(* What a Load of the file leaves in an object. *)
LEMMA LoadsKept ==
  ASSUME StoreDurableInv, ~cut, phase # "saving", file.exists, NEW p, NEW o \in Load(file, p)
  PROVE  /\ HasPoolType(o.smp) /\ Spells(o.smp) /\ View(o.smp) = View(Kept)
         /\ o.smp.free_block_count = Kept.free_block_count
         /\ o.smp.next_memory_id_counter = LeastFreshId(Kept)
<1>1. /\ AllSections(file) /\ Kept = lastSave
      /\ Tidy(lastSave) /\ Consistent(lastSave) /\ Spells(lastSave)
      /\ \A s \in DOMAIN file.sections : file.sections[s] = Written(lastSave)[s]
  BY DEF StoreDurableInv, DurableInv, SavesInv, UpToFirstCut, WholeFile, FileIsOfLastSave, Kept
<1>2. PICK q \in ReadThrough(file) : o.smp = InitializeMemoryIdCounter(q)
  BY <1>1, LoadOutcome
<1>3. Consistent(o.smp)
  BY <1>1, <1>2, ReloadConsistent
<1>4. /\ Spells(o.smp) /\ View(o.smp) = View(lastSave)
      /\ o.smp.free_block_count = lastSave.free_block_count
      /\ o.smp.next_memory_id_counter = LeastFreshId(lastSave)
  BY <1>1, <1>2, ReloadView
<1> QED
  BY <1>1, <1>3, <1>4 DEF Consistent

(* And in a new one, where there is none. *)
LEMMA ResetView ==
  /\ HasPoolType(ResetPool) /\ Spells(ResetPool) /\ View(ResetPool) = [x \in {} |-> {}]
  /\ ResetPool.free_block_count = kBlockCount
  /\ ResetPool.next_memory_id_counter = 1 /\ LeastFreshId(ResetPool) = 1
<1>1. /\ ResetPool.next_memory_id_counter = 1 /\ DOMAIN ResetPool.memory_info = {}
      /\ ResetPool.free_block_count = kBlockCount
  BY DEF ResetPool
<1>2. LeastFreshId(ResetPool) = 1
  <2>1. {0} \in SUBSET Nat /\ {0} # {} /\ \A x \in {0} : x <= 0
    OBVIOUS
  <2>2. Max({0}) \in {0}
    BY <2>1, GreatestOfBounded
  <2>3. DOMAIN ResetPool.memory_info \cup {0} = {0}
    BY <1>1
  <2> QED
    BY <2>2, <2>3 DEF LeastFreshId
<1>3. HasPoolType(ResetPool)
  BY ResetConsistent DEF Consistent
<1> QED
  BY <1>1, <1>2, <1>3 DEF Spells, View

(* The variables of the durable store. *)
LEMMA MappedState ==
  StoreDurableInv /\ ~cut =>
    /\ Consistent(Kept) /\ Spells(Kept)
    /\ Stored(OnDisk) = View(Kept)
    /\ phase = "down" => /\ Stored(Served) = View(Kept)
                         /\ Served.free_block_count = Kept.free_block_count
                         /\ Served.next_memory_id_counter = LeastFreshId(Kept)
    /\ phase # "down" => Stored(Served) = View(smp) /\ Served = smp
<1> SUFFICES ASSUME StoreDurableInv, ~cut
             PROVE  /\ Consistent(Kept) /\ Spells(Kept)
                    /\ Stored(OnDisk) = View(Kept)
                    /\ phase = "down" => /\ Stored(Served) = View(Kept)
                                         /\ Served.free_block_count = Kept.free_block_count
                                         /\ Served.next_memory_id_counter = LeastFreshId(Kept)
                    /\ phase # "down" => Stored(Served) = View(smp) /\ Served = smp
  OBVIOUS
<1>1. /\ Consistent(smp) /\ Consistent(lastSave) /\ Spells(smp) /\ Spells(lastSave)
      /\ HasPoolType(smp)
  BY DEF StoreDurableInv, DurableInv, UpToFirstCut, Consistent
<1>2. Consistent(Kept) /\ Spells(Kept)
  BY <1>1, ResetConsistent, ResetView DEF Kept
<1>3. Stored(smp) = View(smp)
  BY <1>1, StoredIsView
<1>4. CASE phase = "saving"
  BY <1>2, <1>3, <1>4 DEF OnDisk, Served, Kept
<1>5. CASE phase # "saving"
  <2> DEFINE disk == OnDisk
  <2>1. /\ HasPoolType(disk) /\ Spells(disk) /\ View(disk) = View(Kept)
        /\ disk.free_block_count = Kept.free_block_count
        /\ disk.next_memory_id_counter = LeastFreshId(Kept)
    <3>1. CASE file.exists
      <4>1. AllSections(file)
        BY <1>5, <3>1 DEF StoreDurableInv, DurableInv, UpToFirstCut, WholeFile
      <4>2. PICK o \in Load(file, ResetPool) : OnDisk = o.smp
        <5>1. \E o : o \in Load(file, ResetPool)
          BY <4>1, WholeFileIsRead
        <5>2. (CHOOSE o \in Load(file, ResetPool) : TRUE) \in Load(file, ResetPool)
          BY <5>1
        <5> QED
          BY <1>5, <3>1, <5>2 DEF OnDisk
      <4> QED
        BY <1>5, <3>1, <4>2, LoadsKept
    <3>2. CASE ~file.exists
      <4>1. OnDisk = ResetPool /\ Kept = ResetPool
        BY <1>5, <3>2 DEF OnDisk, Kept
      <4> QED
        BY <4>1, ResetView
    <3> QED
      BY <3>1, <3>2
  <2>2. Stored(disk) = View(Kept)
    BY <2>1, StoredIsView
  <2>3. Served = IF phase = "down" THEN disk ELSE smp
    BY DEF Served
  <2> HIDE DEF disk
  <2>4. OnDisk = disk
    BY DEF disk
  <2> QED
    BY <1>2, <1>3, <2>1, <2>2, <2>3, <2>4
<1> QED
  BY <1>4, <1>5

(* A command is a step of the store, or none. *)
LEMMA CommandRefines ==
  ASSUME Consistent(smp), Spells(smp), Pool!Next, Stored(Served) = View(smp), Served = smp,
         Served' = smp'
  PROVE  /\ Spells(smp')
         /\ Stored(Served)' = View(smp') =>
              \/ Durable!Mem!Next
              \/ UNCHANGED <<Stored(Served), Served.free_block_count,
                             Served.next_memory_id_counter>>
<1> DEFINE Shown == Stored(Served)' = View(smp')
           Same  == UNCHANGED <<Stored(Served), Served.free_block_count,
                                Served.next_memory_id_counter>>
<1>1. ASSUME NEW d \in Descriptions, NEW c \in Contents, smp.next_memory_id_counter <= MaxId,
             smp' = AllocateBlock(GenerateNextMemoryId(smp), smp.next_memory_id_counter, d, c)
      PROVE  Spells(smp') /\ (Shown => Durable!Mem!Store(d, c) \/ Durable!Mem!Refuse(c))
  <2> DEFINE x == smp.next_memory_id_counter
  <2>1. /\ Spells(smp') /\ smp'.next_memory_id_counter = x + 1
        /\ Fitting(smp, c) =>
             /\ View(smp') = Added(View(smp), x, Item(d, c, RequiredBlocks(c)))
             /\ smp'.free_block_count = smp.free_block_count - RequiredBlocks(c)
        /\ ~Fitting(smp, c) =>
             View(smp') = View(smp) /\ smp'.free_block_count = smp.free_block_count
    BY <1>1, TakeIdView
  <2>2. /\ Durable!Mem!Needed(c) = RequiredBlocks(c)
        /\ Durable!Mem!Fits(c, smp.free_block_count) <=> Fitting(smp, c)
    BY DurableSizes DEF Fitting
  <2>3. ASSUME Shown, Fitting(smp, c) PROVE Durable!Mem!Store(d, c)
    BY <1>1, <2>1, <2>2, <2>3
       DEF Durable!Mem!Store, Durable!Mem!With, Durable!Mem!Entry, Added, Item
  <2>4. ASSUME Shown, ~Fitting(smp, c) PROVE Durable!Mem!Refuse(c)
    BY <1>1, <2>1, <2>2, <2>4 DEF Durable!Mem!Refuse
  <2> QED
    BY <2>1, <2>3, <2>4
<1>2. ASSUME NEW x \in DOMAIN smp.memory_info, smp' = FreeByMemoryId(smp, x)
      PROVE  Spells(smp') /\ (Shown => Durable!Mem!Remove(x))
  <2>1. /\ Spells(smp') /\ View(smp') = Removed(View(smp), x)
        /\ smp'.free_block_count = smp.free_block_count + smp.memory_info[x].second
        /\ smp'.next_memory_id_counter = smp.next_memory_id_counter
    BY <1>2, FreeView, FreeConsistent
  <2>2. View(smp)[x].blocks = smp.memory_info[x].second
    BY DEF View, Line
  <2> QED
    BY <2>1, <2>2 DEF Durable!Mem!Remove, Durable!Mem!Without, Removed
<1>3. ASSUME NEW x \in DOMAIN smp.memory_info, NEW c \in Contents,
             smp' = AllocateBlock(FreeByMemoryId(smp, x), x, DescriptionOf(smp, x), c)
      PROVE  Spells(smp') /\ (Shown => Durable!Mem!Replace(x, c))
  <2> DEFINE room == smp.free_block_count + smp.memory_info[x].second
             fits == c.size > 0 /\ RequiredBlocks(c) <= room
  <2>1. /\ Spells(smp') /\ smp'.next_memory_id_counter = smp.next_memory_id_counter
        /\ fits =>
             /\ View(smp') = Added(View(smp), x,
                                   Item(View(smp)[x].description, c, RequiredBlocks(c)))
             /\ smp'.free_block_count = room - RequiredBlocks(c)
        /\ ~fits => View(smp') = Removed(View(smp), x) /\ smp'.free_block_count = room
    BY <1>3, ReplaceView
  <2>2. Durable!Mem!Needed(c) = RequiredBlocks(c) /\ (Durable!Mem!Fits(c, room) <=> fits)
    BY DurableSizes
  <2>3. smp.free_block_count + View(smp)[x].blocks = room
    BY DEF View, Line
  <2> HIDE DEF room, fits
  <2>4. ASSUME Shown, fits PROVE Durable!Mem!Replace(x, c)
    BY <2>1, <2>2, <2>3, <2>4
       DEF Durable!Mem!Replace, Durable!Mem!With, Durable!Mem!Entry, Added, Item
  <2>5. ASSUME Shown, ~fits PROVE Durable!Mem!Replace(x, c)
    BY <2>1, <2>2, <2>3, <2>5 DEF Durable!Mem!Replace, Durable!Mem!Without, Removed
  <2> QED
    BY <2>1, <2>4, <2>5
<1>4. ASSUME NEW x \in DOMAIN smp.memory_info, NEW c \in Contents,
             c.size > 0, ~(c.size > smp.memory_info[x].second * kBlockSize),
             smp' = OverwriteInPlace(smp, x, c)
      PROVE  Spells(smp') /\ (Shown => Durable!Mem!Overwrite(x, c))
  <2>1. c.size <= smp.memory_info[x].second * kBlockSize
    <3>1. smp.memory_info[x].second \in Nat /\ c.size \in Nat /\ kBlockSize \in Nat
      <4>1. smp.memory_info[x] \in Entries
        BY DEF Consistent, HasPoolType
      <4>2. c.size \in Nat /\ kBlockSize \in Nat
        BY PoolAssumption DEF Contents
      <4> QED
        BY <4>1, <4>2, SpanFacts
    <3>2. smp.memory_info[x].second * kBlockSize \in Nat
      BY <3>1
    <3> QED
      BY <1>4, <3>1, <3>2
  <2>2. /\ Spells(smp') /\ smp'.next_memory_id_counter = smp.next_memory_id_counter
        /\ View(smp') = Added(View(smp), x, Item(View(smp)[x].description, c, CeilBlocks(c)))
        /\ smp'.free_block_count
             = smp.free_block_count + (smp.memory_info[x].second - CeilBlocks(c))
    BY <1>4, <2>1, OverwriteView, OverwriteConsistent
  <2>3. View(smp)[x].blocks = smp.memory_info[x].second /\ Durable!Mem!Touched(c) = CeilBlocks(c)
    BY DurableSizes DEF View, Line
  <2> QED
    BY <1>4, <2>1, <2>2, <2>3
       DEF Durable!Mem!Overwrite, Durable!Mem!With, Durable!Mem!Entry, Added, Item
<1>5. ASSUME smp' = Compact(smp) PROVE Spells(smp') /\ (Shown => Same)
  <2>1. /\ Spells(smp') /\ View(smp') = View(smp)
        /\ smp'.free_block_count = smp.free_block_count
        /\ smp'.next_memory_id_counter = smp.next_memory_id_counter
    BY <1>5, CompactView, CompactPacks, CompactConsistent
  <2> QED
    BY <2>1
<1>6. ASSUME smp' = ResetPool PROVE Spells(smp') /\ (Shown => Durable!Mem!Clear)
  BY <1>6, ResetView DEF Durable!Mem!Clear
<1> HIDE DEF Shown, Same
<1>7. DOMAIN Stored(Served) = DOMAIN smp.memory_info
  BY DEF View
<1>8. Spells(smp')
  BY <1>1, <1>2, <1>3, <1>4, <1>5, <1>6, Commands
<1>9. Shown => Durable!Mem!Next \/ Same
  BY <1>1, <1>2, <1>3, <1>4, <1>5, <1>6, <1>7, Commands DEF Durable!Mem!Next
<1> QED
  BY <1>8, <1>9 DEF Shown, Same

(* Every step but one that cuts a Save is a step of the durable store. *)
LEMMA StepIsDurable ==
  StoreDurableInv /\ DurableInv' /\ [Next]_vars =>
    StoreDurableInv' /\ (~cut' => [Durable!Next]_(Durable!vars))
<1> SUFFICES ASSUME StoreDurableInv, DurableInv', [Next]_vars, ~cut'
             PROVE  Spells(smp') /\ Spells(lastSave') /\ [Durable!Next]_(Durable!vars)
  BY DEF StoreDurableInv
<1>0. ~cut
  BY DEF Next, vars, Command, BeginSave, OpenFails, WriteSection, EndSave, CutSave, Die, Start,
         LoadInPlace
<1>1. /\ Consistent(smp) /\ Spells(smp) /\ Spells(lastSave)
      /\ phase \in {"serving", "saving", "down"} /\ (phase = "saving" => lastSave = smp)
      /\ (phase = "saving" => file.exists)
  BY <1>0 DEF StoreDurableInv, DurableInv, UpToFirstCut, SavesInv, Saving
<1>2. /\ Consistent(Kept) /\ Spells(Kept)
      /\ Stored(OnDisk) = View(Kept)
      /\ phase = "down" => /\ Stored(Served) = View(Kept)
                           /\ Served.free_block_count = Kept.free_block_count
                           /\ Served.next_memory_id_counter = LeastFreshId(Kept)
      /\ phase # "down" => Stored(Served) = View(smp) /\ Served = smp
  BY <1>0, MappedState
<1>3. ASSUME Spells(smp'), Spells(lastSave')
      PROVE  /\ Stored(OnDisk)' = View(Kept')
             /\ phase' = "down" => /\ Stored(Served)' = View(Kept')
                                   /\ Served'.free_block_count = Kept'.free_block_count
                                   /\ Served'.next_memory_id_counter = LeastFreshId(Kept')
             /\ phase' # "down" => Stored(Served)' = View(smp') /\ Served' = smp'
  <2>1. StoreDurableInv'
    BY <1>3 DEF StoreDurableInv
  <2>2. (StoreDurableInv /\ ~cut =>
           /\ Consistent(Kept) /\ Spells(Kept)
           /\ Stored(OnDisk) = View(Kept)
           /\ phase = "down" => /\ Stored(Served) = View(Kept)
                                /\ Served.free_block_count = Kept.free_block_count
                                /\ Served.next_memory_id_counter = LeastFreshId(Kept)
           /\ phase # "down" => Stored(Served) = View(smp) /\ Served = smp)'
    BY MappedState, PTL
  <2> QED
    BY <2>1, <2>2
<1>4. /\ Durable!Room(View(Kept)) = Kept.free_block_count
      /\ Durable!LeastFresh(View(Kept)) = LeastFreshId(Kept)
      /\ Durable!LeastFresh(View(smp)) = LeastFreshId(smp)
  BY <1>1, <1>2, DurableCounts
<1>5. CASE Command
  <2>1. /\ phase = "serving" /\ phase' = "serving" /\ Pool!Next
        /\ UNCHANGED <<file, lastSave>> /\ Kept' = Kept
    BY <1>5 DEF Command, Kept
  <2>2. Served = smp /\ Stored(Served) = View(smp)
    BY <1>2, <2>1
  <2>3. Served' = smp'
    BY <2>1 DEF Served
  <2>4. /\ Spells(smp')
        /\ Stored(Served)' = View(smp') =>
             \/ Durable!Mem!Next
             \/ UNCHANGED <<Stored(Served), Served.free_block_count,
                            Served.next_memory_id_counter>>
    BY <1>1, <2>1, <2>2, <2>3, CommandRefines
  <2>5. /\ Spells(lastSave') /\ Stored(Served)' = View(smp')
        /\ Stored(OnDisk)' = Stored(OnDisk)
    BY <1>1, <1>2, <1>3, <2>1, <2>4
  <2> QED
    BY <2>4, <2>5 DEF Durable!Next, Durable!Serve, Durable!vars
<1>6. CASE BeginSave
  <2>1. /\ phase = "serving" /\ phase' = "saving" /\ lastSave' = smp /\ smp' = smp
        /\ Kept' = smp'
    BY <1>6 DEF BeginSave, Kept
  <2> QED
    BY <1>1, <1>2, <1>3, <2>1 DEF Durable!Next, Durable!Save
<1>7. CASE phase = "serving" /\ phase' = "down" /\ UNCHANGED <<smp, file, lastSave>>
  <2>1. Kept' = Kept
    BY <1>7 DEF Kept
  <2> QED
    BY <1>1, <1>2, <1>3, <1>4, <1>7, <2>1 DEF Durable!Next, Durable!Reload
<1>8. CASE phase \in {"serving", "saving"} /\ phase' = phase /\ UNCHANGED <<smp, lastSave>>
           /\ (phase # "saving" => UNCHANGED file)
  <2>1. Kept' = Kept
    BY <1>8 DEF Kept
  <2> QED
    BY <1>1, <1>2, <1>3, <1>8, <2>1 DEF Durable!vars
<1>9. CASE EndSave
  <2>1. /\ phase = "saving" /\ phase' \in {"serving", "down"}
        /\ UNCHANGED <<smp, file, lastSave>>
    BY <1>9 DEF EndSave, AfterSave
  <2>2. Kept = smp /\ Kept' = smp
    BY <1>1, <2>1 DEF Kept
  <2>3. CASE phase' = "serving"
    BY <1>1, <1>2, <1>3, <2>1, <2>2, <2>3 DEF Durable!vars
  <2>4. CASE phase' = "down"
    BY <1>1, <1>2, <1>3, <1>4, <2>1, <2>2, <2>4 DEF Durable!Next, Durable!SaveAndStop
  <2> QED
    BY <2>1, <2>3, <2>4
<1>10. ASSUME NEW p, Spells(p), LoadInto(p), phase \in {"serving", "down"}, phase' = "serving",
              UNCHANGED <<file, lastSave>>,
              phase = "down" => p = ResetPool,
              phase = "serving" => p = smp
       PROVE  Spells(smp') /\ Spells(lastSave') /\ [Durable!Next]_(Durable!vars)
  <2>1. PICK o \in Load(file, p) : smp' = o.smp
    BY <1>10 DEF LoadInto
  <2>2. Kept' = Kept /\ Spells(lastSave')
    BY <1>1, <1>10 DEF Kept
  <2>3. CASE file.exists
    <3>1. /\ Spells(smp') /\ View(smp') = View(Kept)
          /\ smp'.free_block_count = Kept.free_block_count
          /\ smp'.next_memory_id_counter = LeastFreshId(Kept)
      BY <1>0, <1>10, <2>1, <2>3, LoadsKept
    <3>2. CASE phase = "down"
      BY <1>2, <1>3, <1>10, <2>2, <3>1, <3>2 DEF Durable!vars
    <3>3. CASE phase = "serving"
      BY <1>2, <1>3, <1>4, <1>10, <2>2, <3>1, <3>3 DEF Durable!Next, Durable!Reload
    <3> QED
      BY <1>10, <3>2, <3>3
  <2>4. CASE ~file.exists
    <3>1. DOMAIN file.sections = {} /\ Kept = ResetPool
      BY <1>0, <1>10, <2>4 DEF StoreDurableInv, DurableInv, UpToFirstCut, WholeFile, Kept
    <3>2. smp' = p
      BY <2>1, <3>1, LoadOutcome
    <3>3. CASE phase = "down"
      BY <1>2, <1>3, <1>10, <2>2, <3>1, <3>2, <3>3, ResetView DEF Durable!vars
    <3>4. CASE phase = "serving"
      BY <1>2, <1>3, <1>10, <2>2, <3>2, <3>4 DEF Durable!vars
    <3> QED
      BY <1>10, <3>3, <3>4
  <2> QED
    BY <2>3, <2>4
<1>11. OpenFails => /\ phase = "serving" /\ phase' \in {"serving", "down"}
                    /\ UNCHANGED <<smp, file, lastSave>>
  BY DEF OpenFails, AfterSave
<1>12. Die => phase = "serving" /\ phase' = "down" /\ UNCHANGED <<smp, file, lastSave>>
  BY DEF Die
<1>13. WriteSection => phase = "saving" /\ phase' = phase /\ UNCHANGED <<smp, lastSave>>
  BY DEF WriteSection
<1>14. CASE Start
  BY <1>10, <1>14, ResetView DEF Start
<1>15. CASE LoadInPlace
  BY <1>1, <1>10, <1>15 DEF LoadInPlace
<1>16. CASE UNCHANGED vars
  <2>1. Kept' = Kept /\ UNCHANGED <<smp, file, phase, lastSave>>
    BY <1>16 DEF vars, Kept
  <2> QED
    BY <1>1, <1>2, <1>3, <2>1 DEF Durable!vars
<1>17. ~CutSave
  BY DEF CutSave
<1> QED
  BY <1>5, <1>6, <1>7, <1>8, <1>9, <1>11, <1>12, <1>13, <1>14, <1>15, <1>16, <1>17 DEF Next

LEMMA StoreDurableInvariant == Spec => []StoreDurableInv
<1>1. Init => StoreDurableInv
  BY InitDurable, ResetView DEF Init, StoreDurableInv
<1>2. StoreDurableInv /\ DurableInv' /\ [Next]_vars => StoreDurableInv'
  BY StepIsDurable
<1> QED
  BY <1>1, <1>2, DurableInvariant, PTL DEF Spec

(***************************************************************************)
(* The theorems.                                                           *)
(***************************************************************************)
(* Up to the first Save that is cut short no start fails to load a file    *)
(* there is, and the tables of the object served agree, through every      *)
(* command, save, death, start and load in place.                          *)
THEOREM ServedStaysConsistent == Spec => []ServedPoolIsConsistent
<1>1. DurableInv => ServedPoolIsConsistent
  BY DEF DurableInv, UpToFirstCut, ServedPoolIsConsistent
<1> QED
  BY <1>1, DurableInvariant, PTL

(* Whatever was cut short, a Load that reports success has restored the    *)
(* memories of the last Save.                                              *)
THEOREM OnlySavesAreLoaded == Spec => LoadedIsTheSave
<1>1. ASSUME DurableInv, loaded' = "ok", Start \/ LoadInPlace
      PROVE  SameMemories(smp', lastSave)
  <2>1. PICK p : LoadInto(p)
    BY <1>1 DEF Start, LoadInPlace
  <2>2. PICK o \in Load(file, p) : smp' = o.smp /\ loaded' = Verdict(o.ok)
    BY <2>1 DEF LoadInto
  <2>3. o.ok
    BY <1>1, <2>2, LoadOutcome DEF Verdict
  <2>4. AllSections(file)
    BY <2>2, <2>3, LoadOutcome
  <2>5. PICK q \in ReadThrough(file) : smp' = InitializeMemoryIdCounter(q)
    BY <2>2, <2>3, LoadOutcome
  <2>6. /\ Tidy(lastSave)
        /\ \A s \in DOMAIN file.sections : file.sections[s] = Written(lastSave)[s]
    BY <1>1 DEF DurableInv, SavesInv, FileIsOfLastSave
  <2>7. SameMemories(q, lastSave) /\ DOMAIN q = DOMAIN ResetPool
    <3>1. /\ q.meta = lastSave.meta /\ q.memory_info = lastSave.memory_info
          /\ q.memory_last_modified_time = lastSave.memory_last_modified_time
          /\ q.next_search_pos = lastSave.next_search_pos /\ q.pool = lastSave.pool
          /\ DOMAIN q = DOMAIN ResetPool
      BY <2>4, <2>6, ReadWhole, ZenonT(30)
    <3> QED
      BY <3>1 DEF SameMemories
  <2>8. SameMemories(InitializeMemoryIdCounter(q), q)
    <3> DEFINE k == Max(DOMAIN q.memory_info \cup {0}) + 1
               r == InitializeMemoryIdCounter(q)
    <3>1. r = [q EXCEPT !.next_memory_id_counter = k]
      BY DEF InitializeMemoryIdCounter
    <3>2. DOMAIN q =
            {"used_map", "meta", "free_block_count", "memory_info",
             "memory_last_modified_time", "next_memory_id_counter", "next_search_pos", "pool"}
      BY <2>7, PoolFields
    <3> HIDE DEF k, r
    <3>3. /\ r.memory_info = q.memory_info /\ r.meta = q.meta
          /\ r.pool = q.pool /\ r.next_search_pos = q.next_search_pos
          /\ r.memory_last_modified_time = q.memory_last_modified_time
      BY ONLY <3>1, <3>2
    <3>4. SameMemories(r, q)
      BY <3>3 DEF SameMemories
    <3> QED
      BY <3>4 DEF r
  <2> QED
    BY <2>5, <2>7, <2>8 DEF SameMemories
<1>2. DurableInv /\ [Next]_vars =>
        [loaded' = "ok" /\ (Start \/ LoadInPlace) => SameMemories(smp', lastSave)]_vars
  BY <1>1
<1> QED
  BY <1>2, DurableInvariant, PTL DEF Spec, LoadedIsTheSave
(* Up to the first Save that is cut short, the program and its file are a  *)
(* durable store: a command is a step of the pool's store, a Save that     *)
(* ends keeps a copy of it, and a death, a start or a load in place brings *)
(* that copy back, with the least id counter that is fresh for it.         *)
THEOREM ProgramIsDurableStore == Spec => ImplementsDurableStore
<1>1. Init => Durable!Init
  <2> SUFFICES ASSUME Init PROVE Durable!Init
    OBVIOUS
  <2>1. smp = ResetPool /\ file = NoFile /\ phase = "serving" /\ ~NoFile.exists
    BY DEF Init, NoFile
  <2>2. Served = ResetPool /\ OnDisk = ResetPool
    BY <2>1 DEF Served, OnDisk
  <2>3. Stored(ResetPool) = [x \in {} |-> {}]
    BY ResetView, StoredIsView
  <2> QED
    BY <2>2, <2>3, ResetView DEF Durable!Init, Durable!Mem!Init
<1>2. StoreDurableInv /\ DurableInv' /\ [Next]_vars => [~cut' => [Durable!Next]_(Durable!vars)]_vars
  BY StepIsDurable
<1> QED
  BY <1>1, <1>2, DurableInvariant, StoreDurableInvariant, PTL DEF Spec, ImplementsDurableStore
=============================================================================
