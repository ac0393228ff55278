------------------------------- MODULE SmmApi -------------------------------
(***************************************************************************)
(* The C API: a registry of pools behind handles, called by the threads of *)
(* one program.  A handle is the address of its pool.  Every call but      *)
(* create and destroy looks its handle up under the registry's lock,       *)
(* releases the lock, and only then enters the pool: three steps, between  *)
(* which other threads call.                                               *)
(*                                                                         *)
(* No lock keeps two calls out of one pool.  A call that overlaps no other *)
(* one with which it conflicts is its effect, taken at once.  The first    *)
(* conflict, or use of what is no longer a pool, is recorded in `outside'. *)
(* The program's behaviour is undefined from there on, and the model ends. *)
(* (Module ConcurrentPool follows overlapping calls into the pool.)        *)
(***************************************************************************)
EXTENDS PoolFile

CONSTANTS Handles,     \* the addresses a pool can be at
          NULL,
          Callers,     \* the threads of the program
          MaxId        \* bound: ids handed out by a pool

ASSUME ApiAssumption == NULL \notin Handles /\ MaxId \in Nat \ {0}

VARIABLES
  g_pools,       \* the registered handles and the pools at them
  g_last_error,  \* thread_local
  th,            \* each thread's call under way
  file,          \* the file of smm_save and smm_load
  book,          \* history: what the callers know of each pool's memories
  fileBook,      \* history: the book of the pool that was saved
  outside        \* history: "no", or how the program's behaviour became undefined

vars == <<g_pools, g_last_error, th, file, book, fileBook, outside>>

Live == DOMAIN g_pools

(* A thread is in no call, between GetPool and the pool, or in the pool,   *)
(* where it only reads, changes it, or reads it or fills it with the file. *)
Modes == {"reads", "changes", "saves", "loads"}
Idle  == [at |-> "idle", handle |-> NULL]

(* The ids the callers were told, those they were not told because their   *)
(* buffer was too small, and whether the pool is none that a failed load   *)
(* left half filled.                                                       *)
NewBook   == [known |-> {}, untold |-> {}, sound |-> TRUE]
Told(b, id)     == [b EXCEPT !.known = @ \cup {id}]
NotTold(b, id)  == [b EXCEPT !.untold = @ \cup {id}]
Gone(b, id)     == [b EXCEPT !.known = @ \ {id}, !.untold = @ \ {id}]
Spoilt(b)       == [b EXCEPT !.sound = FALSE]

Without(f, h)  == Restrict(f, DOMAIN f \ {h})
With(f, h, p)  == [x \in DOMAIN f \cup {h} |-> IF x = h THEN p ELSE f[x]]

(* There may be a file of the former format. *)
FormerFile == WithoutSearchPos(FileOf(ResetPool))

Init ==
  /\ g_pools = Without(<<>>, 0) /\ book = Without(<<>>, 0)
  /\ g_last_error = [t \in Callers |-> "SUCCESS"]
  /\ th = [t \in Callers |-> Idle]
  /\ file \in {NoFile, FormerFile} /\ fileBook = NewBook
  /\ outside = "no"

-----------------------------------------------------------------------------
SetError(t, code) == g_last_error' = [g_last_error EXCEPT ![t] = code]

Return(t, code) ==
  /\ SetError(t, code)
  /\ th' = [th EXCEPT ![t] = Idle]

InPool(u, h) == th[u].at \in Modes /\ th[u].handle = h
Others(t)    == Callers \ {t}

(* smm_create_pool: Init can fail. *)
smm_create_pool(t) ==
  /\ th[t].at = "idle"
  /\ \/ \E h \in Handles \ Live :
          /\ g_pools' = With(g_pools, h, ResetPool)
          /\ book' = With(book, h, NewBook)
          /\ Return(t, "SUCCESS")
     \/ Return(t, "OUT_OF_MEMORY") /\ UNCHANGED <<g_pools, book>>
  /\ UNCHANGED <<file, fileBook, outside>>

(* smm_destroy_pool deletes the pool and its entry under the lock, which   *)
(* those that are in the pool do not hold.                                 *)
smm_destroy_pool(t, h) ==
  /\ th[t].at = "idle"
  /\ Return(t, IF h = NULL THEN "INVALID_PARAM"
               ELSE IF h \in Live THEN "SUCCESS" ELSE "INVALID_HANDLE")
  /\ g_pools' = Without(g_pools, h)
  /\ book' = Without(book, h)
  /\ outside' = IF h \in Live /\ (\E u \in Others(t) : InPool(u, h)) THEN "deleted" ELSE "no"
  /\ UNCHANGED <<file, fileBook>>

GetPool(t, h) ==
  /\ th[t].at = "idle"
  /\ IF h \in Live
     THEN /\ th' = [th EXCEPT ![t] = [at |-> "looked up", handle |-> h]]
          /\ UNCHANGED g_last_error
     ELSE Return(t, "INVALID_HANDLE")
  /\ UNCHANGED <<g_pools, book, file, fileBook, outside>>

(* The arguments are checked between the two. *)
NullArgument(t) ==
  /\ th[t].at = "looked up"
  /\ Return(t, "INVALID_PARAM")
  /\ UNCHANGED <<g_pools, book, file, fileBook, outside>>

(* Two calls conflict in a pool if one of them changes it, and on the file *)
(* if one of them writes it.                                               *)
PoolConflict(a, b) == {a, b} \cap {"changes", "loads"} # {}
FileConflict(a, b) == {a, b} \in {{"saves"}, {"saves", "loads"}}

Enter(t, mode) ==
  /\ th[t].at = "looked up"
  /\ th' = [th EXCEPT ![t].at = mode]
  /\ LET h == th[t].handle
     IN  outside' =
           IF h \notin Live THEN "deleted"
           ELSE IF \E u \in Others(t) : InPool(u, h) /\ PoolConflict(th[u].at, mode) THEN "race"
           ELSE IF \E u \in Others(t) : FileConflict(th[u].at, mode) THEN "file"
           ELSE "no"
  /\ UNCHANGED <<g_pools, g_last_error, book, file, fileBook>>

-----------------------------------------------------------------------------
(* The calls, in the pool. *)
In(t, mode) == th[t].at = mode
Smp(t)      == g_pools[th[t].handle]
Book(t)     == book[th[t].handle]
Ids(t)      == DOMAIN Smp(t).memory_info

Leaves(t, p, b, code) ==
  /\ g_pools' = With(g_pools, th[t].handle, p)
  /\ book' = With(book, th[t].handle, b)
  /\ Return(t, code)

Answers(t, code) ==
  /\ Return(t, code)
  /\ UNCHANGED <<g_pools, book, file, fileBook, outside>>

(* The methods that trust the tables to agree.  What they make of a pool   *)
(* that a failed load left half filled is not followed.                    *)
Trusts(t, mode) == In(t, mode) /\ Book(t).sound

TrustsHalfLoaded(t) ==
  /\ \E mode \in {"reads", "changes", "saves"} : In(t, mode)
  /\ ~Book(t).sound
  /\ outside' = "half loaded"
  /\ UNCHANGED <<g_pools, g_last_error, th, book, file, fileBook>>

smm_reset_pool(t) ==
  /\ In(t, "changes")
  /\ Leaves(t, ResetPool, NewBook, "SUCCESS")
  /\ UNCHANGED <<file, fileBook, outside>>

(* What AllocateBlock returns, and how the calls tell that it failed. *)
StartOf(q, id)     == IF id \in DOMAIN q.memory_info THEN q.memory_info[id].first ELSE -1
FailedOrFirst(res) == res <= 0
Failed(res)        == res < 0

(* The id is copied to the caller's buffer only after the allocation: if   *)
(* the buffer is too small the memory stays, and the caller has no id.     *)
smm_alloc(t, d, c, bigEnough) ==
  LET id == Smp(t).next_memory_id_counter
      q  == AllocateBlock(GenerateNextMemoryId(Smp(t)), id, d, c)
  IN  /\ Trusts(t, "changes")
      /\ c.size > 0 /\ id <= MaxId
      /\ IF Failed(StartOf(q, id)) THEN Leaves(t, q, Book(t), "OUT_OF_MEMORY")
         ELSE IF bigEnough THEN Leaves(t, q, Told(Book(t), id), "SUCCESS")
         ELSE Leaves(t, q, NotTold(Book(t), id), "INVALID_PARAM")
      /\ UNCHANGED <<file, fileBook, outside>>

smm_free(t, id) ==
  /\ Trusts(t, "changes")
  /\ IF id \in Ids(t)
     THEN Leaves(t, FreeByMemoryId(Smp(t), id), Gone(Book(t), id), "SUCCESS")
     ELSE Leaves(t, Smp(t), Book(t), "NOT_FOUND")
  /\ UNCHANGED <<file, fileBook, outside>>

(* The old content is freed before the new one is allocated. *)
smm_update(t, id, c) ==
  LET q == AllocateBlock(FreeByMemoryId(Smp(t), id), id, DescriptionOf(Smp(t), id), c)
  IN  /\ Trusts(t, "changes")
      /\ c.size > 0
      /\ IF id \notin Ids(t) THEN Leaves(t, Smp(t), Book(t), "NOT_FOUND")
         ELSE IF Failed(StartOf(q, id))
         THEN Leaves(t, q, Gone(Book(t), id), "OUT_OF_MEMORY")
         ELSE Leaves(t, q, Book(t), "SUCCESS")
      /\ UNCHANGED <<file, fileBook, outside>>

(* smm_read and smm_get_memory_info fill the caller's buffer. *)
smm_read(t, id) ==
  /\ Trusts(t, "reads")
  /\ Answers(t, IF id \in Ids(t) THEN "SUCCESS" ELSE "NOT_FOUND")

smm_get_memory_info(t, id) == [data_size |-> Smp(t).memory_info[id].second * kBlockSize]

(* Two counters are read, and no table. *)
smm_get_status(t) == In(t, "reads") /\ Answers(t, "SUCCESS")

smm_compact(t) ==
  /\ Trusts(t, "changes")
  /\ Leaves(t, Compact(Smp(t)), Book(t), "SUCCESS")
  /\ UNCHANGED <<file, fileBook, outside>>

-----------------------------------------------------------------------------
(* What a Save that fails leaves of the file: the old one if it could not  *)
(* be opened, else the first sections of the new one, the last of them     *)
(* perhaps in part.  The result is SUCCESS if only what the stream still   *)
(* had buffered was lost, when the file was closed.                        *)
CutShort(f) ==
  {Truncated(f, n, TRUE) : n \in 1 .. Len(Order)}
  \cup {Truncated(f, n, FALSE) : n \in 0 .. Len(Order) - 1}

smm_save(t) ==
  /\ Trusts(t, "saves")
  /\ \/ file' = FileOf(Smp(t)) /\ fileBook' = Book(t) /\ Return(t, "SUCCESS")
     \/ /\ file' \in CutShort(FileOf(Smp(t))) /\ UNCHANGED fileBook
        /\ \E code \in {"SUCCESS", "IO_FAILED"} : Return(t, code)
     \/ UNCHANGED <<file, fileBook>> /\ Return(t, "IO_FAILED")
  /\ UNCHANGED <<g_pools, book, outside>>

(* A Load that fails has filled the pool as far as it read, unless it read *)
(* nothing.                                                                *)
smm_load(t) ==
  /\ In(t, "loads")
  /\ \E o \in Load(file, Smp(t)) :
       IF o.ok THEN Leaves(t, o.smp, fileBook, "SUCCESS")
       ELSE Leaves(t, o.smp, IF o.smp = Smp(t) THEN Book(t) ELSE Spoilt(Book(t)), "IO_FAILED")
  /\ UNCHANGED <<file, fileBook, outside>>

-----------------------------------------------------------------------------
Call(t) ==
  \/ smm_create_pool(t)
  \/ \E h \in Handles \cup {NULL} : smm_destroy_pool(t, h) \/ GetPool(t, h)
  \/ NullArgument(t) \/ \E mode \in Modes : Enter(t, mode)
  \/ TrustsHalfLoaded(t) \/ smm_reset_pool(t)
  \/ \E d \in Descriptions, c \in Contents, bigEnough \in BOOLEAN : smm_alloc(t, d, c, bigEnough)
  \/ \E id \in 1 .. MaxId : smm_free(t, id) \/ smm_read(t, id)
  \/ \E id \in 1 .. MaxId, c \in Contents : smm_update(t, id, c)
  \/ smm_get_status(t) \/ smm_compact(t) \/ smm_save(t) \/ smm_load(t)

(* Nothing is said of a program whose behaviour has become undefined. *)
Undefined == outside # "no" /\ UNCHANGED vars

Next == (outside = "no" /\ \E t \in Callers : Call(t)) \/ Undefined

Spec == Init /\ [][Next]_vars

-----------------------------------------------------------------------------
(* As long as no calls conflicted and no deleted or half loaded pool was   *)
(* used, the tables of every pool agree but those a failed load has just   *)
(* half filled: a failed save and the short file it leaves, a load of the  *)
(* file of another pool into one in use, and a reset or load that repairs  *)
(* a half loaded one, leave none behind.                                   *)
PoolsAreConsistent ==
  outside = "no" => \A h \in Live : book[h].sound => Consistent(g_pools[h])

(* Under the same conditions the return codes tell the callers exactly     *)
(* which memories there are: the calls that failed left none, bar those    *)
(* that found the caller's buffer too small, and took none, bar updates    *)
(* that were refused.  A save and a load carry both along.                 *)
MemoriesAreReachable ==
  outside = "no" =>
    \A h \in Live : book[h].sound =>
      DOMAIN g_pools[h].memory_info = book[h].known \cup book[h].untold

-----------------------------------------------------------------------------
(* What comments say of the API that its code does not do.                 *)

(* smm_api.cpp:19: the mutex makes the handles safe to use by several      *)
(* threads.                                                                *)
NoUseOfDeletedPool == outside # "deleted"
CallsDoNotConflict == outside \notin {"race", "file"}

(* smm_api.h:32: data_size is the actual size of the data. *)
DataSizeIsActual ==
  \A t \in Callers : outside = "no" /\ Trusts(t, "reads") =>
    \A id \in Ids(t) :
      smm_get_memory_info(t, id).data_size = Smp(t).pool[Smp(t).memory_info[id].first].of.size
=============================================================================
