------------------------------ MODULE PoolFile ------------------------------
(***************************************************************************)
(* memory_pool.dat: the sections Persistence::Save writes for a pool, and  *)
(* what Persistence::Load makes of a file that has all of them, the first  *)
(* few of them, or part of one.  A file is a record:                       *)
(*                                                                         *)
(*   exists    whether there is a file to open                             *)
(*   sections  section name -> what was written for it                     *)
(*   torn      the last of the sections is cut short                       *)
(***************************************************************************)
EXTENDS PoolObject, Sequences

Order == <<"header", "metadata", "used_map", "memory_info", "time_map",
           "next_search_pos", "pool_data">>

(* What Save writes.  The free blocks and the bitmap are taken from the    *)
(* metadata, not from the counter and the bitmap of the object.            *)
MarkedUsed(p) == {b \in Blocks : p.meta[b].used}

CountsMarked(p) == [free_block_count  |-> Cardinality(MarkedUsed(p)),
                    memory_info_count |-> Cardinality(DOMAIN p.memory_info)]
Header(p) == [free_block_count  |-> Cardinality(Blocks \ MarkedUsed(p)),
              memory_info_count |-> Cardinality(DOMAIN p.memory_info)]

SearchFromZero(p) == 0
SearchPosition(p) == p.next_search_pos

Written(p) == [header          |-> Header(p),
               metadata        |-> p.meta,
               used_map        |-> MarkedUsed(p),
               memory_info     |-> p.memory_info,
               time_map        |-> p.memory_last_modified_time,
               next_search_pos |-> SearchPosition(p),
               pool_data       |-> p.pool]

NoFile    == [exists |-> FALSE, sections |-> [s \in {} |-> 0], torn |-> FALSE]
EmptyFile == [NoFile EXCEPT !.exists = TRUE]

UpTo(n)        == {Order[i] : i \in 1 .. n}
FileOf(p)      == [exists |-> TRUE, sections |-> Written(p), torn |-> FALSE]
Length(f)      == Cardinality(DOMAIN f.sections)
Truncated(f, n, torn) == [f EXCEPT !.sections = Restrict(@, UpTo(n)), !.torn = torn]

(* A file of the format before next_search_pos was added to it. *)
WithoutSearchPos(f) ==
  [f EXCEPT !.sections = Restrict(@, DOMAIN @ \ {"next_search_pos"})]

-----------------------------------------------------------------------------
(* Reading.  A read past the end sets the stream's fail bit, so all later  *)
(* reads fail too and leave their variables as they were: zero where the   *)
(* code initialises them, indeterminate where it does not.                 *)
Cut(f, s) == f.torn /\ s = Order[Length(f)]
Has(f, s) == s \in DOMAIN f.sections /\ ~Cut(f, s)

(* The lengths before texts and the counts of the two maps are not         *)
(* initialised.  An indeterminate length either makes a container throw or *)
(* adds an entry under a text of NUL bytes (NulKey), with indeterminate    *)
(* numbers; a count left at zero adds none.  Bound: one block anywhere in   *)
(* or just past the pool.                                                  *)
NulKey        == 0
Indeterminate == [first : 0 .. kBlockCount, second : {1}]

FirstEntries(m, n) == {id \in DOMAIN m : Cardinality({x \in DOMAIN m : x < id}) < n}

HeaderRead(f) ==
  IF Has(f, "header") THEN f.sections.header
  ELSE [free_block_count |-> 0, memory_info_count |-> 0]

MetadataRead(f) ==
  LET asRead(m, n) == [b \in Blocks |-> IF b < n /\ m[b].used THEN m[b] ELSE BlockMeta]
  IN  IF Has(f, "metadata") THEN {asRead(f.sections.metadata, kBlockCount)}
      ELSE IF Cut(f, "metadata") THEN {asRead(f.sections.metadata, n) : n \in Blocks}
      ELSE {[b \in Blocks |-> BlockMeta]}

BitmapRead(f) ==
  IF Has(f, "used_map") THEN {f.sections.used_map}
  ELSE IF Cut(f, "used_map") THEN {f.sections.used_map \cap 0 .. n - 1 : n \in Blocks}
  ELSE {{}}

EntriesMissing(f) == ~Has(f, "memory_info") /\ HeaderRead(f).memory_info_count > 0

MemoryInfoRead(f) ==
  LET garbled(m, ids, e) == [x \in ids \cup {NulKey} |-> IF x = NulKey THEN e ELSE m[x]]
  IN  IF Has(f, "memory_info") THEN {f.sections.memory_info}
      ELSE IF ~EntriesMissing(f) THEN {ResetPool.memory_info}
      ELSE IF Cut(f, "memory_info")
           THEN {garbled(f.sections.memory_info,
                         FirstEntries(f.sections.memory_info, n - 1), e) :
                   n \in 1 .. HeaderRead(f).memory_info_count, e \in Indeterminate}
           ELSE {garbled(<<>>, {}, e) : e \in Indeterminate}

TimeMapRead(f) ==
  IF Has(f, "time_map") THEN {f.sections.time_map}
  ELSE {{}, {NulKey}} \cup
       (IF Cut(f, "time_map") THEN {S \cup {NulKey} : S \in SUBSET f.sections.time_map}
        ELSE {})

PoolDataRead(f) ==
  IF Has(f, "pool_data") THEN {f.sections.pool_data}
  ELSE IF Cut(f, "pool_data")
       THEN {[b \in Blocks |-> IF b < n THEN f.sections.pool_data[b] ELSE ZeroChunk] :
               n \in Blocks}
       ELSE {[b \in Blocks |-> ZeroChunk]}

FirstUnused(m) ==
  IF \A b \in Blocks : m[b].used THEN 0 ELSE Min({b \in Blocks : ~m[b].used})

-----------------------------------------------------------------------------
KeepMemoryIdCounter(p) == p
InitializeMemoryIdCounter(p) ==
  [p EXCEPT !.next_memory_id_counter = Max(DOMAIN p.memory_info \cup {0}) + 1]

(* The object as the loop over the metadata leaves it. *)
WithMetadata(f, m, bits) ==
  [ResetPool EXCEPT !.used_map = bits, !.meta = m,
                    !.free_block_count = HeaderRead(f).free_block_count]

WithTables(p, info, times, pos, data) ==
  [p EXCEPT !.memory_info = info, !.memory_last_modified_time = times,
            !.next_search_pos = pos, !.pool = data]

SearchPosRead(f, m) ==
  IF Has(f, "next_search_pos") THEN f.sections.next_search_pos ELSE FirstUnused(m)

ReadThrough(f) ==
  {WithTables(WithMetadata(f, m, bits), info, times, SearchPosRead(f, m), data) :
     m \in MetadataRead(f), bits \in BitmapRead(f), info \in MemoryInfoRead(f),
     times \in TimeMapRead(f), data \in PoolDataRead(f)}

(* Where a container throws, the sections before it have been stored. *)
ReadUntilThrow(f) ==
  (IF Has(f, "metadata") THEN {} ELSE {ResetPool})
  \cup (IF ~EntriesMissing(f) THEN {}
        ELSE {WithMetadata(f, m, bits) : m \in MetadataRead(f), bits \in BitmapRead(f)})
  \cup (IF Has(f, "time_map") THEN {}
        ELSE {[WithMetadata(f, m, bits) EXCEPT !.memory_info = info] :
                m \in MetadataRead(f), bits \in BitmapRead(f), info \in MemoryInfoRead(f)})

(* In a file without the search position its place is taken by the first   *)
(* bytes of the pool data (bound: a position up to the end of the pool),   *)
(* and the rest fills the pool shifted, one read short: each block gets    *)
(* bytes of two, which are of no content.                                  *)
Straddling(data, b) ==
  LET next == IF b + 1 \in Blocks THEN data[b + 1] ELSE ZeroChunk
  IN  [of |-> [NoContent EXCEPT !.data = <<data[b], next>>], part |-> 0]

ReadShifted(f) ==
  {WithTables(WithMetadata(f, m, f.sections.used_map), f.sections.memory_info,
              f.sections.time_map, pos,
              [b \in Blocks |-> Straddling(f.sections.pool_data, b)]) :
     m \in MetadataRead(f), pos \in 0 .. kBlockCount}

(* Load(smp, filename): what it returns and what it leaves in the object p *)
(* it is given.                                                            *)
Outcome(ok, p) == [ok |-> ok, smp |-> p]

Load(f, p) ==
  LET unread   == {Outcome(FALSE, p)}
      short    == {Outcome(FALSE, q) : q \in ReadThrough(f) \cup ReadUntilThrow(f)}
      complete == {Outcome(TRUE, InitializeMemoryIdCounter(q)) : q \in ReadThrough(f)}
      shifted  == {Outcome(FALSE, q) : q \in ReadShifted(f)}
  IN  IF Length(f) = 0 THEN unread
      ELSE IF Cut(f, "header") THEN unread \cup short
      ELSE IF DOMAIN f.sections = UpTo(Len(Order)) /\ ~f.torn THEN complete
      ELSE IF Has(f, "pool_data") THEN shifted
      ELSE short
=============================================================================
