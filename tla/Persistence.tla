---------------------------- MODULE Persistence -----------------------------
(***************************************************************************)
(* A program that serves a pool `smp', saves it to memory_pool.dat and     *)
(* loads it again: the server (main.cpp: Load at start, Save at exit) and  *)
(* programs that call smm_save and smm_load.  Save is cut into its         *)
(* sections, so that the program can die, or the disk fill up, between any *)
(* two of them and within one.  No command overlaps a Save here; module    *)
(* TCPServer is about the exits that allow it.                             *)
(***************************************************************************)
EXTENDS PoolFile

CONSTANT MaxId

VARIABLES smp,      \* the object in memory
          file,     \* memory_pool.dat
          phase,    \* "serving", "saving" or "down"
          leave,    \* whether the program exits after the Save under way
          loaded,   \* the last Load: "none", "new", "ok" or "failed"
          lastSave, \* history: the object as the last Save began
          cut       \* history: whether a Save was ever cut short

vars == <<smp, file, phase, leave, loaded, lastSave, cut>>

Pool == INSTANCE SharedMemoryPool

Init ==
  /\ smp = ResetPool
  /\ file = NoFile
  /\ phase = "serving"
  /\ leave = FALSE
  /\ loaded = "none"
  /\ lastSave = ResetPool
  /\ cut = FALSE

-----------------------------------------------------------------------------
(* A console command, request or smm_* call.  On an object whose tables    *)
(* disagree, which a failed Load can leave, the effect of the methods is   *)
(* outside the model.                                                      *)
Command ==
  /\ phase = "serving"
  /\ Consistent(smp)
  /\ Pool!Next
  /\ UNCHANGED <<file, phase, leave, loaded, lastSave, cut>>

(* After a Save that is over, or that failed, the server's exits leave the *)
(* program and smm_save returns to its caller.                             *)
AfterSave(exits) == IF exits THEN "down" ELSE "serving"

(* The stream is opened: the file is truncated before anything is written. *)
BeginSave ==
  /\ phase = "serving"
  /\ phase' = "saving"
  /\ leave' \in BOOLEAN
  /\ file' = EmptyFile
  /\ lastSave' = smp
  /\ UNCHANGED <<smp, loaded, cut>>

(* The file cannot be opened: Save returns false and leaves it alone. *)
OpenFails ==
  /\ phase = "serving"
  /\ phase' \in {AfterSave(exits) : exits \in BOOLEAN}
  /\ UNCHANGED <<smp, file, leave, loaded, lastSave, cut>>

NextSection(f) == Order[Length(f) + 1]

WriteSection ==
  /\ phase = "saving"
  /\ Length(file) < Len(Order)
  /\ file' = [file EXCEPT !.sections = [s \in DOMAIN @ \cup {NextSection(file)} |->
                IF s \in DOMAIN @ THEN @[s] ELSE Written(smp)[s]]]
  /\ UNCHANGED <<smp, phase, leave, loaded, lastSave, cut>>

EndSaveEarly ==
  /\ phase = "saving"
  /\ Length(file) + 1 >= Len(Order)
  /\ phase' = AfterSave(leave)
  /\ leave' = FALSE
  /\ UNCHANGED <<smp, file, loaded, lastSave, cut>>

EndSave ==
  /\ phase = "saving"
  /\ Length(file) = Len(Order)
  /\ phase' = AfterSave(leave)
  /\ leave' = FALSE
  /\ UNCHANGED <<smp, file, loaded, lastSave, cut>>

(* The program dies in the middle of Save, or a write fails (Save then     *)
(* returns false).  What the stream had buffered is lost.                  *)
CutSave ==
  /\ phase = "saving"
  /\ \E n \in 0 .. Length(file), torn \in BOOLEAN :
       /\ torn => n > 0
       /\ n = Len(Order) => torn
       /\ file' = Truncated(file, n, torn)
  /\ phase' \in {"down", AfterSave(leave)}
  /\ leave' = FALSE
  /\ cut' = TRUE
  /\ UNCHANGED <<smp, loaded, lastSave>>

(* The program dies without saving. *)
Die ==
  /\ phase = "serving"
  /\ phase' = "down"
  /\ UNCHANGED <<smp, file, leave, loaded, lastSave, cut>>

-----------------------------------------------------------------------------
(* main: Init, then Load from the default file.  When Load returns false   *)
(* main reports a new pool and serves whatever the object holds.           *)
Verdict(ok) == IF ok THEN "ok" ELSE IF file.exists THEN "failed" ELSE "new"

LoadInto(p) ==
  \E o \in Load(file, p) : smp' = o.smp /\ loaded' = Verdict(o.ok)

Start ==
  /\ phase = "down"
  /\ LoadInto(ResetPool)
  /\ phase' = "serving"
  /\ UNCHANGED <<file, leave, lastSave, cut>>

(* smm_load on an object in use. *)
LoadInPlace ==
  /\ phase = "serving"
  /\ LoadInto(smp)
  /\ UNCHANGED <<file, phase, leave, lastSave, cut>>

-----------------------------------------------------------------------------
Next == Command \/ BeginSave \/ OpenFails \/ WriteSection \/ EndSave \/ CutSave
          \/ Die \/ Start \/ LoadInPlace

Spec == Init /\ [][Next]_vars

-----------------------------------------------------------------------------
(* A Load reports success only for the complete file of the last Save, and *)
(* then the memories are the saved ones: a Save that failed or was cut     *)
(* short is never taken for one that ended, and no section is written from *)
(* one table and read into another.  (The bitmap and the free counter are  *)
(* rebuilt from the metadata, the id counter from the ids.)                *)
SameMemories(p, q) ==
  /\ p.memory_info = q.memory_info
  /\ p.meta = q.meta
  /\ p.pool = q.pool
  /\ p.memory_last_modified_time = q.memory_last_modified_time
  /\ p.next_search_pos = q.next_search_pos

LoadedIsTheSave ==
  [][loaded' = "ok" /\ (Start \/ LoadInPlace) => SameMemories(smp', lastSave)]_vars

(* As long as no Save was cut short, the tables of the object agree        *)
(* whatever was saved, loaded and lost: in particular the free counter,    *)
(* which the file takes from the metadata, and the id counter, which it    *)
(* does not hold at all, fit the tables that were loaded.  And no start    *)
(* fails to load a file there is.                                          *)
ServedPoolIsConsistent == ~cut => loaded # "failed" /\ Consistent(smp)

(* The server and its file implement the durable store, as long as no Save *)
(* is cut short (every step up to the first cut is one of the store's).    *)
(* Down, the store is the one the next start will serve.                   *)
Stored(p) ==
  [id \in DOMAIN p.memory_info |->
     LET c == p.pool[p.memory_info[id].first].of
     IN  [description |-> DescriptionOf(p, id),
          content     |-> IF GetMemoryContentAsString(p, id) =
                               {<<i, Chunk(c, i)>> :
                                  i \in {j \in 0 .. kBlockCount - 1 : j * kBlockSize < c.size}}
                          THEN c ELSE NoContent,
          blocks      |-> p.memory_info[id].second]]

OnDisk == IF phase = "saving" THEN smp
          ELSE IF file.exists
          THEN (CHOOSE o \in Load(file, ResetPool) : TRUE).smp ELSE ResetPool
Served == IF phase = "down" THEN OnDisk ELSE smp

Durable == INSTANCE DurableStore WITH
             store  <- Stored(Served),
             free   <- Served.free_block_count,
             nextId <- Served.next_memory_id_counter,
             saved  <- Stored(OnDisk)

ImplementsDurableStore ==
  Durable!Init /\ [][~cut' => [Durable!Next]_(Durable!vars)]_vars

-----------------------------------------------------------------------------
(* Three things the documents say of loading that the code does not do.    *)

(* doc.md:761, main.cpp:251: a damaged file is detected and a new pool is  *)
(* used.                                                                   *)
DamagedFileGivesNewPool ==
  [][Start /\ loaded' = "failed" => smp' = ResetPool]_vars

(* shared_memory_pool.cpp:190: after loading, the id counter is above all  *)
(* ids that exist.                                                         *)
CounterAboveLoadedIds ==
  \A id \in DOMAIN smp.memory_info : id < smp.next_memory_id_counter

(* README.md:181: a file that lacks next_search_pos_ is loaded, with the   *)
(* first free block as the position.                                       *)
OldFilesLoad ==
  phase = "serving" /\ file.exists /\ ~file.torn /\ Length(file) = Len(Order) =>
    \A o \in Load(WithoutSearchPos(file), ResetPool) : o.ok
=============================================================================
