--------------------------- MODULE ConcurrentPool ---------------------------
(***************************************************************************)
(* TCPServer::ProcessRequest as the handler threads run it.  They share    *)
(* one SharedMemoryPool and take no lock, so a request is a sequence of    *)
(* steps, each a read or a write of the shared object, and the steps of    *)
(* two threads alternate.  A search, a compaction and a lookup in a map    *)
(* are one step here: they too could be interrupted, and every error the   *)
(* finer steps would show is of a kind the others show already.            *)
(***************************************************************************)
EXTENDS PoolObject

CONSTANTS Writers,    \* connections that send any request
          Readers,    \* connections that only send READ
          MaxId

ASSUME ThreadsAssumption == Writers \cap Readers = {} /\ MaxId \in Nat \ {0}

VARIABLES smp,
          th,       \* the threads: the step each is about to take, its
                    \* request and its local variables
          dangling, \* the threads whose iterator is to an erased entry
          before,   \* history: the pool when the last writer's request began
          disturbed \* history: the readers whose READ overlapped a change of
                    \* memory_info, or an UPDATE or DELETE of its id

vars == <<smp, th, dangling, before, disturbed>>

Threads == Writers \cup Readers

LiveIds == DOMAIN smp.memory_info

Idle == [at |-> "idle", op |-> "none", id |-> 0, content |-> NoContent,
         description |-> NoDescription, start |-> 0, n |-> 0, i |-> 0, seen |-> 0, text |-> {}]

(* The requests, each with its first step. *)
Steps(op, step, ids, contents, descriptions) ==
  [at : {step}, op : {op}, id : ids, content : contents, description : descriptions,
   start : {0}, n : {0}, i : {0}, seen : {0}, text : {{}}]

Reads  == Steps("READ", "find entry", 1 .. MaxId, {NoContent}, {NoDescription})
Writes == Steps("ALLOC", "take id", {0}, {c \in Contents : c.size > 0}, Descriptions)
            \cup Steps("UPDATE", "look up", 1 .. MaxId, Contents, {NoDescription})
            \cup Steps("DELETE", "find", 1 .. MaxId, {NoContent}, {NoDescription})
Lists  == Steps("STATUS", "list", {0}, {NoContent}, {NoDescription})

Init ==
  /\ smp = ResetPool /\ before = ResetPool
  /\ th = [t \in Threads |-> Idle]
  /\ dangling = {} /\ disturbed = {}

-----------------------------------------------------------------------------
At(t, step) == th[t].at = step

(* The thread goes on with these local variables at this step. *)
Continue(t, locals, step) ==
  th' = [th EXCEPT ![t] = IF step = "idle" THEN Idle ELSE [locals EXCEPT !.at = step]]
Goto(t, step) == Continue(t, th[t], step)

(* After the old blocks were freed UPDATE allocates; DELETE is done. *)
AfterFree(t) == IF th[t].op = "UPDATE" THEN "check size" ELSE "idle"

Begin(t, r) ==
  /\ At(t, "idle")
  /\ r.op = "ALLOC" => smp.next_memory_id_counter <= MaxId
  /\ Continue(t, r, r.at)
  /\ before' = IF t \in Writers THEN smp ELSE before
  /\ UNCHANGED smp

(* The id is read off the counter; then the counter is incremented. *)
TakeId(t) ==
  /\ At(t, "take id")
  /\ Continue(t, [th[t] EXCEPT !.id = smp.next_memory_id_counter], "count id")
  /\ UNCHANGED <<smp, before>>

CountId(t) ==
  /\ At(t, "count id")
  /\ smp' = GenerateNextMemoryId(smp)
  /\ Goto(t, "check size")
  /\ UNCHANGED before

-----------------------------------------------------------------------------
(* UPDATE looks the id up, and then fetches the entry.  If the entry has   *)
(* been erased in between, the iterator is end() and is dereferenced: the  *)
(* thread is "lost".                                                       *)
LookUp(t) ==
  /\ At(t, "look up")
  /\ Goto(t, IF th[t].id \in LiveIds THEN "fetch entry" ELSE "idle")
  /\ UNCHANGED <<smp, before>>

FetchEntry(t) ==
  /\ At(t, "fetch entry")
  /\ IF th[t].id \in LiveIds
     THEN Continue(t, [th[t] EXCEPT !.start = smp.memory_info[th[t].id].first], "describe")
     ELSE Goto(t, "lost")
  /\ UNCHANGED <<smp, before>>

Describe(t) ==
  /\ At(t, "describe")
  /\ Continue(t, [th[t] EXCEPT !.description = smp.meta[th[t].start].description], "find")
  /\ UNCHANGED <<smp, before>>

-----------------------------------------------------------------------------
(* FreeByMemoryId, for UPDATE and DELETE. *)
WithEntry(t) == [th[t] EXCEPT !.start = smp.memory_info[th[t].id].first,
                              !.n     = smp.memory_info[th[t].id].second,
                              !.i     = 0]

Find(t) ==
  /\ At(t, "find")
  /\ IF th[t].id \in LiveIds
     THEN Continue(t, WithEntry(t), "clear block")
     ELSE Goto(t, AfterFree(t))
  /\ UNCHANGED <<smp, before>>

NextBlock(t) == [th[t] EXCEPT !.i = @ + 1]
More(t, step, afterwards) == IF th[t].i + 1 < th[t].n THEN step ELSE afterwards

ClearBlock(t) ==
  /\ At(t, "clear block")
  /\ smp' = ClearBlockMeta(smp, {th[t].start + th[t].i})
  /\ Continue(t, NextBlock(t), More(t, "clear block", "erase"))
  /\ UNCHANGED before

Erase(t) ==
  /\ At(t, "erase")
  /\ smp' = [smp EXCEPT !.memory_info = Erased(@, th[t].id),
                        !.memory_last_modified_time = @ \ {th[t].id}]
  /\ Goto(t, "read count")
  /\ UNCHANGED before

(* free_block_count += count is a load and a store. *)
ReadCount(t) ==
  /\ At(t, "read count")
  /\ Continue(t, [th[t] EXCEPT !.seen = smp.free_block_count], "give back")
  /\ UNCHANGED <<smp, before>>

GiveBackKeepsSearchPos(t) ==
  /\ At(t, "give back")
  /\ smp' = [smp EXCEPT !.free_block_count = th[t].seen + th[t].n]
  /\ Goto(t, AfterFree(t))
  /\ UNCHANGED before

GiveBack(t) ==
  /\ At(t, "give back")
  /\ smp' = [smp EXCEPT
               !.free_block_count = th[t].seen + th[t].n,
               !.next_search_pos  = IF th[t].start < @ THEN th[t].start ELSE @]
  /\ Goto(t, AfterFree(t))
  /\ UNCHANGED before

-----------------------------------------------------------------------------
(* AllocateBlock, for ALLOC and UPDATE. *)
CheckSize(t) ==
  /\ At(t, "check size")
  /\ Goto(t, IF Rejected(smp, th[t].content) THEN "idle" ELSE "search")
  /\ UNCHANGED <<smp, before>>

Search(t) ==
  LET n     == RequiredBlocks(th[t].content)
      q     == Searched(smp, n)
      start == FindContinuousFreeBlock(q, n)
  IN  /\ At(t, "search")
      /\ IF start = NotFound
         THEN smp' = q /\ Goto(t, "idle")
         ELSE /\ smp' = [q EXCEPT !.next_search_pos = start + n]
              /\ Continue(t, [th[t] EXCEPT !.start = start, !.n = n, !.i = 0], "write block")
      /\ UNCHANGED before

(* The bytes, the metadata and the bit of a block; then the counter. *)
WriteBlock(t) ==
  LET b == th[t].start + th[t].i
  IN  /\ At(t, "write block")
      /\ smp' = [smp EXCEPT !.pool[b] = Chunk(th[t].content, th[t].i),
                            !.meta[b] = [used |-> TRUE, memory_id |-> th[t].id,
                                         description |-> th[t].description],
                            !.used_map = @ \cup {b}]
      /\ Continue(t, [th[t] EXCEPT !.seen = smp.free_block_count], "count block")
      /\ UNCHANGED before

CountBlock(t) ==
  /\ At(t, "count block")
  /\ smp' = [smp EXCEPT !.free_block_count = th[t].seen - 1]
  /\ Continue(t, NextBlock(t), More(t, "write block", "record"))
  /\ UNCHANGED before

Record(t) ==
  LET e == [first |-> th[t].start, second |-> th[t].n]
  IN  /\ At(t, "record")
      /\ smp' = [smp EXCEPT
                   !.memory_info = [x \in DOMAIN @ \cup {th[t].id} |->
                                      IF x = th[t].id THEN e ELSE smp.memory_info[x]],
                   !.memory_last_modified_time = @ \cup {th[t].id}]
      /\ Goto(t, "idle")
      /\ UNCHANGED before

-----------------------------------------------------------------------------
(* READ finds the entry, reads it, and then the bytes it pointed to.  For  *)
(* the header it finds and reads the entry a second time, the metadata of  *)
(* its first block and the time.  An entry erased between the find and the *)
(* read leaves the thread "lost".                                          *)
FindThen(t, found, absent) ==
  /\ Goto(t, IF th[t].id \in LiveIds THEN found ELSE absent)
  /\ UNCHANGED <<smp, before>>

Dereference(t, locals, step) ==
  /\ IF t \in dangling THEN Goto(t, "lost") ELSE Continue(t, locals, step)
  /\ UNCHANGED <<smp, before>>

FindEntry(t) == At(t, "find entry") /\ FindThen(t, "read entry", "idle")
ReadEntry(t) == At(t, "read entry") /\ Dereference(t, WithEntry(t), "read bytes")

ReadBytes(t) ==
  LET entry == [first |-> th[t].start, second |-> th[t].n]
      text  == GetMemoryContentAsString([smp EXCEPT !.memory_info = [id \in {0} |-> entry]], 0)
  IN  /\ At(t, "read bytes")
      /\ Continue(t, [th[t] EXCEPT !.start = 0, !.n = 0, !.text = text],
                  IF text = {} THEN "idle" ELSE "find again")
      /\ UNCHANGED <<smp, before>>

(* A content whose entry is gone is sent without a header. *)
FindAgain(t)   == At(t, "find again") /\ FindThen(t, "header entry", "idle")

HeaderEntrySwapped(t) ==
  /\ At(t, "header entry")
  /\ Dereference(t, [th[t] EXCEPT !.start = smp.memory_info[th[t].id].second,
                                  !.n     = smp.memory_info[th[t].id].first], "header")

HeaderEntry(t) == At(t, "header entry") /\ Dereference(t, WithEntry(t), "header")

ReadHeader(t) ==
  /\ At(t, "header")
  /\ Continue(t, [th[t] EXCEPT !.description = smp.meta[th[t].start].description,
                               !.start = 0, !.n = 0], "find time")
  /\ UNCHANGED <<smp, before>>

FindTime(t) == At(t, "find time") /\ FindThen(t, "read time", "idle")
ReadTime(t) == At(t, "read time") /\ Dereference(t, th[t], "idle")

-----------------------------------------------------------------------------
(* STATUS walks over memory_info; if the entry it stands on is erased, it  *)
(* is lost.                                                                *)
ToFirst(t, ids) ==
  IF ids = {} THEN Goto(t, "idle") ELSE Continue(t, [th[t] EXCEPT !.id = Min(ids)], "row")

List(t) ==
  /\ At(t, "list")
  /\ ToFirst(t, LiveIds)
  /\ UNCHANGED <<smp, before>>

RowAgain(t) ==
  /\ At(t, "row")
  /\ ToFirst(t, {id \in LiveIds : id >= th[t].id})
  /\ UNCHANGED <<smp, before>>

Row(t) ==
  /\ At(t, "row")
  /\ IF th[t].id \in LiveIds
     THEN ToFirst(t, {id \in LiveIds : id > th[t].id})
     ELSE Goto(t, "lost")
  /\ UNCHANGED <<smp, before>>

-----------------------------------------------------------------------------
Step(t) ==
  \/ TakeId(t) \/ CountId(t)
  \/ LookUp(t) \/ FetchEntry(t) \/ Describe(t)
  \/ Find(t) \/ ClearBlock(t) \/ Erase(t) \/ ReadCount(t) \/ GiveBack(t)
  \/ CheckSize(t) \/ Search(t) \/ WriteBlock(t) \/ CountBlock(t) \/ Record(t)
  \/ FindEntry(t) \/ ReadEntry(t) \/ ReadBytes(t)
  \/ FindAgain(t) \/ HeaderEntry(t) \/ ReadHeader(t) \/ FindTime(t) \/ ReadTime(t)
  \/ List(t) \/ Row(t)

(* The erase of an entry invalidates the iterators to it, and an entry     *)
(* inserted later under the same id does not make them valid again.        *)
HoldsIterator(r) == r.at \in {"read entry", "header entry", "read time"}

Invalidate ==
  dangling' = {t \in Threads : /\ HoldsIterator(th'[t])
                               /\ t \in dangling \/ th[t].id \in LiveIds \ LiveIds'}

Changes(r, id) == r.op \in {"UPDATE", "DELETE"} /\ r.id = id

Disturb ==
  disturbed' = {t \in Readers : /\ th'[t].at # "idle"
                                /\ \/ t \in disturbed
                                   \/ smp'.memory_info # smp.memory_info
                                   \/ \E u \in Writers : Changes(th'[u], th'[t].id)}

Takes(t)     == Step(t) /\ Invalidate /\ Disturb
Begins(t, r) == Begin(t, r) /\ Invalidate /\ Disturb

Next ==
  \/ \E t \in Threads : Takes(t)
  \/ \E t \in Writers, r \in Writes \cup Lists : Begins(t, r)
  \/ \E t \in Threads, r \in Reads : Begins(t, r)

Spec     == Init /\ [][Next]_vars
FairSpec == Spec /\ \A t \in Threads : WF_vars(Takes(t))

-----------------------------------------------------------------------------
(* With a single writer a request, step by step, does to the pool what the *)
(* command of module SharedMemoryPool does at once: the pool between two   *)
(* requests is a pool of that specification, readers or none.              *)
Committed == IF \A t \in Writers : At(t, "idle") THEN smp ELSE before

Pool == INSTANCE SharedMemoryPool WITH smp <- Committed

ImplementsPool == Pool!Spec

(* Every request is answered, for no step waits for another thread, unless *)
(* a thread follows a dangling iterator: of a program that has done that   *)
(* nothing is claimed any more.                                            *)
EveryRequestAnswered ==
  \A t \in Threads : ~At(t, "idle") ~> At(t, "idle") \/ \E u \in Threads : At(u, "lost")

(* What a READ may rely on while another connection writes: if no step     *)
(* that adds, erases or moves an entry overlapped it and no UPDATE or      *)
(* DELETE of its id was under way, it is not lost, finds its entry and the *)
(* content last stored in it, and sends that content under its own         *)
(* description, whatever blocks the other connection was writing or        *)
(* clearing meanwhile.                                                     *)
QuietReadsAreRight ==
  \A t \in {r \in Readers \ disturbed : ~At(r, "idle")} :
    LET id == th[t].id
    IN  /\ ~At(t, "lost")
        /\ id \in LiveIds <=> id \in DOMAIN Committed.memory_info
        /\ id \in LiveIds => GetMemoryContentAsString(smp, id)
                               = GetMemoryContentAsString(Committed, id)
        /\ th[t].text # {} => th[t].text = GetMemoryContentAsString(Committed, id)
        /\ th[t].at \in {"find time", "read time"} =>
             th[t].description = DescriptionOf(Committed, id)

-----------------------------------------------------------------------------
(* README.md:192 promises several clients at a time.  With two writers,    *)
(* what fails of what module SharedMemoryPool shows for one (NoLostThread  *)
(* and ReadsWholeContent fail with one writer and one reader as well):     *)

(* The memories of two clients never share a block. *)
MemoriesAreDisjoint ==
  \A id, other \in LiveIds :
    id # other => Span(smp.memory_info[id]) \cap Span(smp.memory_info[other]) = {}

(* README_TCP.md:989: an id names one memory.  Two ALLOC requests under    *)
(* way never have the same one.                                            *)
Numbered(t) == th[t].op = "ALLOC" /\ th[t].id # 0

IdsAreUnique ==
  \A t, u \in Writers : t # u /\ Numbered(t) /\ Numbered(u) => th[t].id # th[u].id

(* No thread follows an iterator to an entry that another erased. *)
NoLostThread == \A t \in Threads : ~At(t, "lost")

(* A READ returns a content as it was sent, not pieces of two. *)
ReadsWholeContent ==
  \A t \in Threads :
    At(t, "find again") => \E c \in Contents : th[t].text = Pool!Text(c)
=============================================================================
