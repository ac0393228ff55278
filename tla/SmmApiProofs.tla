---------------------------- MODULE SmmApiProofs ----------------------------
(***************************************************************************)
(* The registry of the C API, for every number of threads, handles and     *)
(* pools: until calls conflict, or a deleted or half loaded pool is used,  *)
(* every other registered pool stays consistent, and the return codes      *)
(* account for every memory in it.  A load replaces a pool by what another *)
(* one may have saved, so the invariant follows the saved pool and its     *)
(* book into the file and out of it again, and tells the whole files from  *)
(* those of a failed save or of the former format, which only half load.   *)
(***************************************************************************)
EXTENDS SmmApi, PoolObjectProofs

(* A pool and what its callers know of it. *)
BookFields == {"known", "untold", "sound"}

Good(p, b) ==
  /\ Consistent(p) /\ Tidy(p)
  /\ DOMAIN b = BookFields
  /\ DOMAIN p.memory_info = b.known \cup b.untold

Entry(p, b) == DOMAIN b = BookFields /\ (b.sound => Good(p, b))

RegistryInv ==
  /\ DOMAIN book = Live
  /\ \A h \in Live : Entry(g_pools[h], book[h])

(* No thread is in a pool that is not there. *)
CallersInv ==
  /\ DOMAIN th = Callers
  /\ outside = "no" => \A t \in Callers : th[t].at \in Modes => th[t].handle \in Live

(* A file with all sections is all of a pool that was. *)
FileInv == AllSections(file) => \E p : file = FileOf(p) /\ Good(p, fileBook)

ApiInv == RegistryInv /\ CallersInv /\ FileInv

(* A call that leaves a pool and a book that fit each other. *)
LEMMA LeavesGood ==
  ASSUME RegistryInv, CallersInv, outside = "no", outside' = outside,
         NEW t \in Callers, th[t].at \in Modes,
         NEW p, NEW b, Entry(p, b), NEW code, Leaves(t, p, b, code)
  PROVE  RegistryInv' /\ CallersInv'
<1> DEFINE k == th[t].handle
<1>1. k \in Live
  BY DEF CallersInv
<1>2. /\ DOMAIN g_pools' = Live \cup {k} /\ DOMAIN book' = Live \cup {k}
      /\ \A h \in Live : g_pools'[h] = IF h = k THEN p ELSE g_pools[h]
      /\ \A h \in Live : book'[h] = IF h = k THEN b ELSE book[h]
  BY <1>1 DEF Leaves, With, RegistryInv, Live
<1>3. th' = [th EXCEPT ![t] = Idle] /\ Idle.at = "idle" /\ "idle" \notin Modes
  BY DEF Leaves, Return, Idle, Modes
<1> HIDE DEF k
<1>4. RegistryInv'
  BY <1>1, <1>2 DEF RegistryInv, Live
<1>5. CallersInv'
  BY <1>1, <1>2, <1>3 DEF CallersInv, Live
<1> QED
  BY <1>4, <1>5

(* A call that answers. *)
LEMMA ReturnsKeep ==
  ASSUME RegistryInv, CallersInv, outside = "no", outside' = outside,
         UNCHANGED <<g_pools, book>>, NEW t \in Callers, NEW code, Return(t, code)
  PROVE  RegistryInv' /\ CallersInv'
<1>1. th' = [th EXCEPT ![t] = Idle] /\ Idle.at = "idle" /\ "idle" \notin Modes
  BY DEF Return, Idle, Modes
<1> QED
  BY <1>1 DEF RegistryInv, CallersInv, Live

(* What a pool looks like to the call that uses it. *)
LEMMA UsedIsGood ==
  ASSUME RegistryInv, CallersInv, outside = "no", NEW t \in Callers, th[t].at \in Modes
  PROVE  Entry(Smp(t), Book(t)) /\ (Book(t).sound => Good(Smp(t), Book(t)))
<1>1. th[t].handle \in Live
  BY DEF CallersInv
<1> QED
  BY <1>1 DEF RegistryInv, Smp, Book, Entry

LEMMA TrustedIsGood ==
  ASSUME RegistryInv, CallersInv, outside = "no", NEW t \in Callers, NEW mode \in Modes,
         Trusts(t, mode)
  PROVE  th[t].at \in Modes /\ Good(Smp(t), Book(t))
  BY UsedIsGood DEF Trusts, In

(* A new pool. *)
LEMMA NewIsGood == Good(ResetPool, NewBook)
<1>1. DOMAIN ResetPool.memory_info = {} /\ DOMAIN NewBook = BookFields
  BY DEF ResetPool, NewBook, BookFields
<1>2. NewBook.known = {} /\ NewBook.untold = {}
  BY DEF NewBook
<1> QED
  BY <1>1, <1>2, ResetConsistent, ResetTidy DEF Good

LEMMA GoodEntry ==
  ASSUME NEW p, NEW b, Good(p, b)
  PROVE  Entry(p, b)
  BY DEF Good, Entry

(* What the callers learn from a call. *)
LEMMA Learnt ==
  ASSUME NEW b, DOMAIN b = BookFields, NEW id
  PROVE  /\ DOMAIN Told(b, id) = BookFields
         /\ Told(b, id).known = b.known \cup {id} /\ Told(b, id).untold = b.untold
         /\ DOMAIN NotTold(b, id) = BookFields
         /\ NotTold(b, id).known = b.known /\ NotTold(b, id).untold = b.untold \cup {id}
         /\ DOMAIN Gone(b, id) = BookFields
         /\ Gone(b, id).known = b.known \ {id} /\ Gone(b, id).untold = b.untold \ {id}
         /\ DOMAIN Spoilt(b) = BookFields /\ Spoilt(b).sound = FALSE
  BY DEF Told, NotTold, Gone, Spoilt, BookFields

(* It fits a pool that gained the memory, or lost it. *)
LEMMA LearnsOf ==
  ASSUME NEW b, DOMAIN b = BookFields, NEW id, NEW q, Consistent(q), Tidy(q)
  PROVE  /\ DOMAIN q.memory_info = (b.known \cup b.untold) \cup {id} =>
              Good(q, Told(b, id)) /\ Good(q, NotTold(b, id))
         /\ DOMAIN q.memory_info = (b.known \cup b.untold) \ {id} => Good(q, Gone(b, id))
<1> DEFINE told == Told(b, id)
           not  == NotTold(b, id)
           gone == Gone(b, id)
<1>1. /\ DOMAIN told = BookFields /\ DOMAIN not = BookFields /\ DOMAIN gone = BookFields
      /\ told.known = b.known \cup {id} /\ told.untold = b.untold
      /\ not.known = b.known /\ not.untold = b.untold \cup {id}
      /\ gone.known = b.known \ {id} /\ gone.untold = b.untold \ {id}
  BY Learnt
<1> HIDE DEF told, not, gone
<1>2. /\ told.known \cup told.untold = (b.known \cup b.untold) \cup {id}
      /\ not.known \cup not.untold = (b.known \cup b.untold) \cup {id}
      /\ gone.known \cup gone.untold = (b.known \cup b.untold) \ {id}
  BY <1>1
<1>3. /\ DOMAIN q.memory_info = (b.known \cup b.untold) \cup {id} => Good(q, told) /\ Good(q, not)
      /\ DOMAIN q.memory_info = (b.known \cup b.untold) \ {id} => Good(q, gone)
  BY <1>1, <1>2 DEF Good
<1> QED
  BY <1>3 DEF told, not, gone

(* AllocateBlock's result is negative exactly if there is no memory.       *)
LEMMA FailedIsAbsent ==
  ASSUME NEW p, Consistent(p), NEW id
  PROVE  Failed(StartOf(p, id)) <=> id \notin DOMAIN p.memory_info
<1>1. CASE id \in DOMAIN p.memory_info
  <2>1. p.memory_info[id].first \in Nat
    BY <1>1 DEF Consistent, HasPoolType, Entries, Blocks
  <2> QED
    BY <1>1, <2>1 DEF Failed, StartOf
<1>2. CASE id \notin DOMAIN p.memory_info
  BY <1>2 DEF Failed, StartOf
<1> QED
  BY <1>1, <1>2

(* smm_alloc: the id is in the book as soon as the memory is in the pool,  *)
(* as told or as untold.                                                   *)
LEMMA AllocKeeps ==
  ASSUME RegistryInv, CallersInv, outside = "no", NEW t \in Callers, NEW d \in Descriptions,
         NEW c \in Contents, NEW bigEnough \in BOOLEAN, smm_alloc(t, d, c, bigEnough)
  PROVE  RegistryInv' /\ CallersInv'
<1> DEFINE id == Smp(t).next_memory_id_counter
           q  == AllocateBlock(GenerateNextMemoryId(Smp(t)), id, d, c)
           b  == Book(t)
<1>1. th[t].at \in Modes /\ Good(Smp(t), b)
  BY TrustedIsGood DEF smm_alloc, Modes
<1>2. /\ Consistent(q) /\ Tidy(q)
      /\ DOMAIN q.memory_info \in {DOMAIN Smp(t).memory_info, DOMAIN Smp(t).memory_info \cup {id}}
  BY <1>1, TakeIdAndAllocate DEF Good
<1>3. Failed(StartOf(q, id)) <=> id \notin DOMAIN q.memory_info
  BY <1>2, FailedIsAbsent
<1>4. /\ outside' = outside
      /\ \/ Failed(StartOf(q, id)) /\ Leaves(t, q, b, "OUT_OF_MEMORY")
         \/ ~Failed(StartOf(q, id)) /\ Leaves(t, q, Told(b, id), "SUCCESS")
         \/ ~Failed(StartOf(q, id)) /\ Leaves(t, q, NotTold(b, id), "INVALID_PARAM")
  BY DEF smm_alloc
<1> HIDE DEF id, q, b
<1>5. DOMAIN b = BookFields /\ DOMAIN Smp(t).memory_info = b.known \cup b.untold
  BY <1>1 DEF Good
<1>6. CASE id \notin DOMAIN q.memory_info
  <2>1. DOMAIN q.memory_info = DOMAIN Smp(t).memory_info
    BY <1>2, <1>6
  <2>2. Good(q, b)
    BY <1>2, <1>5, <2>1 DEF Good
  <2> QED
    BY <1>1, <1>3, <1>4, <1>6, <2>2, GoodEntry, LeavesGood
<1>7. CASE id \in DOMAIN q.memory_info
  <2>1. DOMAIN q.memory_info = DOMAIN Smp(t).memory_info \cup {id}
    BY <1>2, <1>7
  <2>2. Good(q, Told(b, id)) /\ Good(q, NotTold(b, id))
    BY <1>2, <1>5, <2>1, LearnsOf
  <2> QED
    BY <1>1, <1>3, <1>4, <1>7, <2>2, GoodEntry, LeavesGood
<1> QED
  BY <1>6, <1>7

(* smm_free and smm_update: no new id. *)
LEMMA FreeKeeps ==
  ASSUME RegistryInv, CallersInv, outside = "no", NEW t \in Callers, NEW id, smm_free(t, id)
  PROVE  RegistryInv' /\ CallersInv'
<1>1. th[t].at \in Modes /\ Good(Smp(t), Book(t)) /\ outside' = outside
  BY TrustedIsGood DEF smm_free, Modes
<1>2. CASE id \in Ids(t)
  <2> DEFINE q == FreeByMemoryId(Smp(t), id)
  <2>1. Consistent(q) /\ Tidy(q) /\ DOMAIN q.memory_info = DOMAIN Smp(t).memory_info \ {id}
    BY <1>1, <1>2, FreeConsistent, FreeTidy DEF Good, Ids
  <2>2. Leaves(t, q, Gone(Book(t), id), "SUCCESS")
    BY <1>2 DEF smm_free
  <2> HIDE DEF q
  <2>3. Good(q, Gone(Book(t), id))
    BY <1>1, <2>1, LearnsOf DEF Good
  <2> QED
    BY <1>1, <2>2, <2>3, GoodEntry, LeavesGood
<1>3. CASE id \notin Ids(t)
  BY <1>1, <1>3, GoodEntry, LeavesGood DEF smm_free
<1> QED
  BY <1>2, <1>3

LEMMA UpdateKeeps ==
  ASSUME RegistryInv, CallersInv, outside = "no", NEW t \in Callers, NEW id,
         NEW c \in Contents, smm_update(t, id, c)
  PROVE  RegistryInv' /\ CallersInv'
<1>1. th[t].at \in Modes /\ Good(Smp(t), Book(t)) /\ outside' = outside
  BY TrustedIsGood DEF smm_update, Modes
<1>2. CASE id \in Ids(t)
  <2> DEFINE q == AllocateBlock(FreeByMemoryId(Smp(t), id), id, DescriptionOf(Smp(t), id), c)
  <2>1. /\ Consistent(q) /\ Tidy(q)
        /\ DOMAIN q.memory_info \in {DOMAIN Smp(t).memory_info, DOMAIN Smp(t).memory_info \ {id}}
    BY <1>1, <1>2, FreeAndAllocate DEF Good, Ids
  <2>2. \/ Failed(StartOf(q, id)) /\ Leaves(t, q, Gone(Book(t), id), "OUT_OF_MEMORY")
        \/ ~Failed(StartOf(q, id)) /\ Leaves(t, q, Book(t), "SUCCESS")
    BY <1>2 DEF smm_update
  <2>3. Failed(StartOf(q, id)) <=> id \notin DOMAIN q.memory_info
    BY <2>1, FailedIsAbsent
  <2>4. id \in DOMAIN Smp(t).memory_info
    BY <1>2 DEF Ids
  <2> HIDE DEF q
  <2>5. CASE id \in DOMAIN q.memory_info
    <3>1. DOMAIN q.memory_info = DOMAIN Smp(t).memory_info
      BY <2>1, <2>5
    <3>2. Good(q, Book(t))
      BY <1>1, <2>1, <3>1 DEF Good
    <3> QED
      BY <1>1, <2>2, <2>3, <2>5, <3>2, GoodEntry, LeavesGood
  <2>6. CASE id \notin DOMAIN q.memory_info
    <3>1. DOMAIN q.memory_info = DOMAIN Smp(t).memory_info \ {id}
      BY <2>1, <2>4, <2>6
    <3>2. /\ DOMAIN Book(t) = BookFields
          /\ DOMAIN q.memory_info = (Book(t).known \cup Book(t).untold) \ {id}
      BY <1>1, <3>1 DEF Good
    <3>3. Good(q, Gone(Book(t), id))
      BY <2>1, <3>2, LearnsOf
    <3> QED
      BY <1>1, <2>2, <2>3, <2>6, <3>3, GoodEntry, LeavesGood
  <2> QED
    BY <2>5, <2>6
<1>3. CASE id \notin Ids(t)
  BY <1>1, <1>3, GoodEntry, LeavesGood DEF smm_update
<1> QED
  BY <1>2, <1>3

(* No section but the seven, and a whole Save has them all. *)
LEMMA SevenSections ==
  /\ Len(Order) = 7 /\ Order[7] = "pool_data" /\ \A i \in 1 .. 6 : Order[i] # "pool_data"
  /\ UpTo(Len(Order)) = {"header", "metadata", "used_map", "memory_info", "time_map",
                         "next_search_pos", "pool_data"}
  /\ \A p : DOMAIN Written(p) = UpTo(Len(Order))
<1>1. UpTo(Len(Order)) = {"header", "metadata", "used_map", "memory_info", "time_map",
                         "next_search_pos", "pool_data"}
  BY DEF UpTo, Order
<1>2. \A p : DOMAIN Written(p) = {"header", "metadata", "used_map", "memory_info", "time_map",
                                  "next_search_pos", "pool_data"}
  BY DEF Written
<1> QED
  BY <1>1, <1>2 DEF Order

(* What a failed save leaves is never taken for a whole file, ... *)
LEMMA CutIsNotWhole ==
  ASSUME NEW p, NEW f \in CutShort(FileOf(p))
  PROVE  ~AllSections(f)
<1> DEFINE w == FileOf(p)
<1>1. \/ \E n \in 1 .. Len(Order) : f = Truncated(w, n, TRUE)
      \/ \E n \in 0 .. Len(Order) - 1 : f = Truncated(w, n, FALSE)
  BY DEF CutShort
<1>2. DOMAIN w = {"exists", "sections", "torn"}
  BY DEF FileOf
<1> HIDE DEF w
<1>3. ASSUME NEW n, f = Truncated(w, n, TRUE) PROVE ~AllSections(f)
  BY <1>2, <1>3 DEF Truncated, AllSections
<1>4. ASSUME NEW n \in 0 .. Len(Order) - 1, f = Truncated(w, n, FALSE) PROVE ~AllSections(f)
  <2>1. DOMAIN f.sections = UpTo(n)
    BY <1>2, <1>4 DEF Truncated, Restrict
  <2>2. "pool_data" \notin UpTo(n)
    BY <1>4, SevenSections DEF UpTo
  <2> QED
    BY <2>1, <2>2, SevenSections DEF AllSections
<1> QED
  BY <1>1, <1>3, <1>4

(* ... nor is a file of the former format. *)
LEMMA FormerIsNotWhole == ~AllSections(FormerFile) /\ ~AllSections(NoFile)
<1>1. "next_search_pos" \notin DOMAIN FormerFile.sections
  BY DEF FormerFile, WithoutSearchPos, FileOf, Restrict
<1>2. "next_search_pos" \notin DOMAIN NoFile.sections
  BY DEF NoFile
<1> QED
  BY <1>1, <1>2, SevenSections DEF AllSections

(* smm_load: a whole file replaces pool and book by those that were saved; *)
(* another one leaves the pool alone, or half filled.                      *)
LEMMA LoadKeeps ==
  ASSUME ApiInv, outside = "no", NEW t \in Callers, smm_load(t)
  PROVE  RegistryInv' /\ CallersInv'
<1>1. /\ RegistryInv /\ CallersInv /\ FileInv
      /\ th[t].at \in Modes /\ outside' = outside
  BY DEF smm_load, ApiInv, In, Modes
<1>2. Entry(Smp(t), Book(t))
  BY <1>1, UsedIsGood
<1>3. PICK o \in Load(file, Smp(t)) :
        IF o.ok THEN Leaves(t, o.smp, fileBook, "SUCCESS")
        ELSE Leaves(t, o.smp, IF o.smp = Smp(t) THEN Book(t) ELSE Spoilt(Book(t)), "IO_FAILED")
  BY DEF smm_load
<1>4. CASE ~o.ok
  <2>1. CASE o.smp = Smp(t)
    BY <1>1, <1>2, <1>3, <1>4, <2>1, LeavesGood
  <2>2. CASE o.smp # Smp(t)
    <3>1. Entry(o.smp, Spoilt(Book(t)))
      BY <1>2, Learnt DEF Entry
    <3> QED
      BY <1>1, <1>3, <1>4, <2>2, <3>1, LeavesGood
  <2> QED
    BY <2>1, <2>2
<1>5. CASE o.ok
  <2>1. AllSections(file) /\ \E q \in ReadThrough(file) : o.smp = InitializeMemoryIdCounter(q)
    BY <1>3, <1>5, LoadOutcome
  <2>2. PICK p : file = FileOf(p) /\ Good(p, fileBook)
    BY <1>1, <2>1 DEF FileInv
  <2>3. PICK q \in ReadThrough(file) : o.smp = InitializeMemoryIdCounter(q)
    BY <2>1
  <2>4. Tidy(p) /\ Consistent(p) /\ \A s \in DOMAIN file.sections : file.sections[s] = Written(p)[s]
    BY <2>2 DEF Good, FileOf
  <2>5. Consistent(o.smp) /\ Tidy(o.smp)
    BY <2>1, <2>3, <2>4, ReloadConsistent, ReadTidy
  <2>6. o.smp.memory_info = p.memory_info
    <3>1. q.memory_info = p.memory_info /\ DOMAIN q = DOMAIN ResetPool
      BY <2>1, <2>4, ReadWhole
    <3> QED
      BY <2>3, <3>1, PoolFields DEF InitializeMemoryIdCounter
  <2>7. Good(o.smp, fileBook)
    BY <2>2, <2>5, <2>6 DEF Good
  <2> QED
    BY <1>1, <1>3, <1>5, <2>7, GoodEntry, LeavesGood
<1> QED
  BY <1>4, <1>5

(* smm_save: a whole new file is of a pool that was not half loaded.       *)
LEMMA SaveKeeps ==
  ASSUME ApiInv, outside = "no", NEW t \in Callers, smm_save(t)
  PROVE  RegistryInv' /\ CallersInv' /\ FileInv'
<1>1. /\ RegistryInv /\ CallersInv /\ FileInv /\ outside' = outside
      /\ UNCHANGED <<g_pools, book>> /\ \E code : Return(t, code)
  BY DEF smm_save, ApiInv
<1>2. Good(Smp(t), Book(t))
  BY <1>1, TrustedIsGood DEF smm_save, Modes
<1>3. \/ file' = FileOf(Smp(t)) /\ fileBook' = Book(t)
      \/ file' \in CutShort(FileOf(Smp(t)))
      \/ UNCHANGED <<file, fileBook>>
  BY DEF smm_save
<1>4. ASSUME file' = FileOf(Smp(t)), fileBook' = Book(t) PROVE FileInv'
  BY <1>2, <1>4 DEF FileInv
<1>5. ASSUME file' \in CutShort(FileOf(Smp(t))) PROVE FileInv'
  BY <1>5, CutIsNotWhole DEF FileInv
<1>6. ASSUME UNCHANGED <<file, fileBook>> PROVE FileInv'
  BY <1>1, <1>6 DEF FileInv
<1> QED
  BY <1>1, <1>3, <1>4, <1>5, <1>6, ReturnsKeep

(* The calls that do not enter a pool. *)
LEMMA CreateKeeps ==
  ASSUME RegistryInv, CallersInv, outside = "no", NEW t \in Callers, smm_create_pool(t)
  PROVE  RegistryInv' /\ CallersInv'
<1>1. outside' = outside /\ \E code : Return(t, code)
  BY DEF smm_create_pool
<1>2. CASE UNCHANGED <<g_pools, book>>
  BY <1>1, <1>2, ReturnsKeep
<1>3. ASSUME NEW k \in Handles \ Live, g_pools' = With(g_pools, k, ResetPool),
             book' = With(book, k, NewBook)
      PROVE  RegistryInv' /\ CallersInv'
  <2>1. Entry(ResetPool, NewBook)
    BY NewIsGood, GoodEntry
  <2>2. /\ DOMAIN g_pools' = Live \cup {k} /\ DOMAIN book' = Live \cup {k}
        /\ \A h \in Live : g_pools'[h] = g_pools[h] /\ book'[h] = book[h]
        /\ g_pools'[k] = ResetPool /\ book'[k] = NewBook
    BY <1>3 DEF With, Live, RegistryInv
  <2>3. RegistryInv'
    BY <2>1, <2>2 DEF RegistryInv, Live
  <2>4. th' = [th EXCEPT ![t] = Idle] /\ Idle.at = "idle" /\ "idle" \notin Modes
    BY <1>1 DEF Return, Idle, Modes
  <2>5. CallersInv'
    BY <1>1, <2>2, <2>4 DEF CallersInv, Live
  <2> QED
    BY <2>3, <2>5
<1> QED
  BY <1>2, <1>3 DEF smm_create_pool

(* While nothing is said to be undefined nobody was in the deleted pool.   *)
LEMMA DestroyKeeps ==
  ASSUME RegistryInv, CallersInv, outside = "no", NEW t \in Callers, NEW h,
         smm_destroy_pool(t, h)
  PROVE  RegistryInv' /\ CallersInv'
<1>1. /\ g_pools' = Without(g_pools, h) /\ book' = Without(book, h)
      /\ outside' = IF h \in Live /\ (\E u \in Others(t) : InPool(u, h))
                    THEN "deleted" ELSE "no"
      /\ th' = [th EXCEPT ![t] = Idle] /\ Idle.at = "idle" /\ "idle" \notin Modes
  BY DEF smm_destroy_pool, Return, Idle, Modes
<1>2. /\ DOMAIN g_pools' = Live \ {h} /\ DOMAIN book' = Live \ {h}
      /\ \A x \in Live \ {h} : g_pools'[x] = g_pools[x] /\ book'[x] = book[x]
  BY <1>1 DEF Without, Restrict, Live, RegistryInv
<1>3. RegistryInv'
  BY <1>2 DEF RegistryInv, Live
<1>4. ASSUME outside' = "no", NEW u \in Callers, th'[u].at \in Modes
      PROVE  th'[u].handle \in Live'
  <2>1. u # t /\ th'[u] = th[u] /\ th[u].handle \in Live
    BY <1>1, <1>4 DEF CallersInv
  <2>2. th[u].handle # h
    BY <1>1, <1>4, <2>1 DEF Others, InPool
  <2> QED
    BY <1>2, <2>1, <2>2 DEF Live
<1>5. CallersInv'
  BY <1>1, <1>4 DEF CallersInv
<1> QED
  BY <1>3, <1>5

LEMMA GetPoolKeeps ==
  ASSUME RegistryInv, CallersInv, outside = "no", NEW t \in Callers, NEW h, GetPool(t, h)
  PROVE  RegistryInv' /\ CallersInv'
<1>1. UNCHANGED <<g_pools, book, outside>>
  BY DEF GetPool
<1>2. \/ th' = [th EXCEPT ![t] = [at |-> "looked up", handle |-> h]]
      \/ \E code : Return(t, code)
  BY DEF GetPool
<1>3. CASE th' = [th EXCEPT ![t] = [at |-> "looked up", handle |-> h]]
  <2>1. "looked up" \notin Modes
    BY DEF Modes
  <2>2. CallersInv'
    BY <1>1, <1>3, <2>1 DEF CallersInv, Live
  <2> QED
    BY <1>1, <2>2 DEF RegistryInv, Live
<1> QED
  BY <1>1, <1>2, <1>3, ReturnsKeep

LEMMA EnterKeeps ==
  ASSUME RegistryInv, CallersInv, outside = "no", NEW t \in Callers, NEW mode, Enter(t, mode)
  PROVE  RegistryInv' /\ CallersInv'
<1>1. /\ UNCHANGED <<g_pools, book>> /\ th' = [th EXCEPT ![t].at = mode]
      /\ outside' = "no" => th[t].handle \in Live
  BY DEF Enter
<1>2. CallersInv'
  BY <1>1 DEF CallersInv, Live
<1> QED
  BY <1>1, <1>2 DEF RegistryInv, Live

(* Every step keeps the invariant. *)
LEMMA NextKeeps == ApiInv /\ [Next]_vars => ApiInv'
<1> SUFFICES ASSUME ApiInv, [Next]_vars PROVE ApiInv'
  OBVIOUS
<1>0. RegistryInv /\ CallersInv /\ FileInv
  BY DEF ApiInv
<1>1. CASE UNCHANGED vars
  BY <1>0, <1>1 DEF vars, ApiInv, RegistryInv, CallersInv, FileInv, Live
<1>2. CASE outside = "no" /\ \E t \in Callers : Call(t)
  <2>0. PICK t \in Callers : Call(t)
    BY <1>2
  <2>1. ASSUME UNCHANGED <<file, fileBook>>, RegistryInv', CallersInv' PROVE ApiInv'
    BY <1>0, <2>1 DEF FileInv, ApiInv
  <2>2. CASE smm_create_pool(t)
    BY <1>0, <1>2, <2>1, <2>2, CreateKeeps DEF smm_create_pool
  <2>3. ASSUME NEW h, smm_destroy_pool(t, h) PROVE ApiInv'
    BY <1>0, <1>2, <2>1, <2>3, DestroyKeeps DEF smm_destroy_pool
  <2>4. ASSUME NEW h, GetPool(t, h) PROVE ApiInv'
    BY <1>0, <1>2, <2>1, <2>4, GetPoolKeeps DEF GetPool
  <2>5. ASSUME NEW mode, Enter(t, mode) PROVE ApiInv'
    BY <1>0, <1>2, <2>1, <2>5, EnterKeeps DEF Enter
  <2>6. CASE NullArgument(t) \/ smm_get_status(t) \/ \E id \in 1 .. MaxId : smm_read(t, id)
    <3>1. UNCHANGED <<g_pools, book, file, fileBook, outside>> /\ \E code : Return(t, code)
      BY <2>6 DEF NullArgument, smm_get_status, smm_read, Answers
    <3> QED
      BY <1>0, <1>2, <2>1, <3>1, ReturnsKeep
  <2>7. CASE TrustsHalfLoaded(t)
    <3>1. UNCHANGED <<g_pools, book, th, file, fileBook>> /\ outside' # "no"
      BY <2>7 DEF TrustsHalfLoaded
    <3> QED
      BY <1>0, <2>1, <3>1 DEF RegistryInv, CallersInv, Live
  <2>8. CASE smm_reset_pool(t)
    BY <1>0, <1>2, <2>1, <2>8, NewIsGood, GoodEntry, LeavesGood DEF smm_reset_pool, In, Modes
  <2>9. ASSUME NEW d \in Descriptions, NEW c \in Contents, NEW bigEnough \in BOOLEAN,
               smm_alloc(t, d, c, bigEnough)
        PROVE  ApiInv'
    BY <1>0, <1>2, <2>1, <2>9, AllocKeeps DEF smm_alloc
  <2>10. ASSUME NEW id, smm_free(t, id) PROVE ApiInv'
    BY <1>0, <1>2, <2>1, <2>10, FreeKeeps DEF smm_free
  <2>11. ASSUME NEW id, NEW c \in Contents, smm_update(t, id, c) PROVE ApiInv'
    BY <1>0, <1>2, <2>1, <2>11, UpdateKeeps DEF smm_update
  <2>12. CASE smm_compact(t)
    <3>1. th[t].at \in Modes /\ Good(Smp(t), Book(t)) /\ outside' = outside
      BY <1>0, <1>2, <2>12, TrustedIsGood DEF smm_compact, Modes
    <3>2. Good(Compact(Smp(t)), Book(t))
      BY <3>1, CompactConsistent, CompactTidy DEF Good
    <3> QED
      BY <1>0, <1>2, <2>1, <2>12, <3>1, <3>2, GoodEntry, LeavesGood DEF smm_compact
  <2>13. CASE smm_save(t)
    BY <1>2, <2>13, SaveKeeps DEF ApiInv
  <2>14. CASE smm_load(t)
    BY <1>0, <1>2, <2>1, <2>14, LoadKeeps DEF smm_load
  <2> QED
    BY <2>0, <2>2, <2>3, <2>4, <2>5, <2>6, <2>7, <2>8, <2>9, <2>10, <2>11, <2>12, <2>13, <2>14
       DEF Call
<1> QED
  BY <1>1, <1>2 DEF Next, Undefined

LEMMA InitApi == Init => ApiInv
<1> SUFFICES ASSUME Init PROVE ApiInv
  OBVIOUS
<1>1. DOMAIN g_pools = {} /\ DOMAIN book = {}
  BY DEF Init, Without, Restrict
<1>2. DOMAIN th = Callers /\ \A t \in Callers : th[t].at \notin Modes
  BY DEF Init, Idle, Modes
<1>3. FileInv
  BY FormerIsNotWhole DEF Init, FileInv
<1> QED
  BY <1>1, <1>2, <1>3 DEF ApiInv, RegistryInv, CallersInv, Live

LEMMA ApiInvariant == Spec => []ApiInv
  BY InitApi, NextKeeps, PTL DEF Spec

(* Until calls conflict, or a deleted or half loaded pool is used, every   *)
(* registered pool that no failed load left half filled is consistent:     *)
(* also after a load of the file of another pool, after saves that failed  *)
(* at any section, and after the reset or load that repairs a pool.        *)
THEOREM RegisteredPoolsAreConsistent == Spec => []PoolsAreConsistent
<1>1. ApiInv => PoolsAreConsistent
  BY DEF ApiInv, RegistryInv, Entry, Good, PoolsAreConsistent
<1> QED
  BY <1>1, ApiInvariant, PTL

(* As long, the memories of such a pool are exactly those the return codes *)
(* tell of: the ids that were handed out and not freed, lost in an update  *)
(* that was refused, reset or replaced by a load, and the ids of the       *)
(* allocations that found the caller's buffer too small.                   *)
THEOREM EveryMemoryIsReachable == Spec => []MemoriesAreReachable
<1>1. ApiInv => MemoriesAreReachable
  BY DEF ApiInv, RegistryInv, Entry, Good, MemoriesAreReachable
<1> QED
  BY <1>1, ApiInvariant, PTL
=============================================================================
