# A TLA+ development of the Shared Memory Management System

The system keeps one pool of fixed-size blocks in memory and lets clients store
texts in it under generated ids: from the server's console, over TCP (a Python
client, a C++ client, an SDK), or, linked into a program, through a C API. The
pool is saved to a file and loaded from it. This directory holds TLA+ modules
that model the program, the TLC configurations that check them on small
instances, and TLAPS proofs of what matters most for every instance. Sources are
named relative to `src/`.

Check a run with `tlc -config <cfg> <module>` (the pairs are listed in
`PROJECT.json`) and the proofs of a module with `tlapm <module>.tla`.

## 1. The system

| Component | State it keeps | Operations | Interacts with |
|---|---|---|---|
| Pool, `core/shared_memory_pool/` | bytes, block metadata, bitmap, free counter, id -> (start, count) map, id -> time map, id counter, next-fit position | Init, Reset, AllocateBlock (search, compaction, write), FreeByMemoryId, Compact, UpdateMemoryBlockCount, ClearBlockMeta, GenerateNextMemoryId, setters for Load, readers | called directly, with no lock, by everything below |
| Console, `server/command/commands.cpp` | none of its own | alloc, read, free/delete, update, compact, reset, exec, status, info | the pool, on the main thread |
| TCP server, `server/network/tcp_server.cpp` | listening socket, list of client threads and its lock, running flag | Start, accept, HandleClient, ProcessRequest (ALLOC, UPDATE, DELETE, READ, STATUS), Stop | one thread per client, all on the one pool |
| Wire protocol, `server/network/protocol.cpp` | none | framing of requests and responses | server and clients |
| Persistence, `core/persistence/` | the file | Save, Load, section by section | the pool; called by `main.cpp` and the C API |
| Server main, `server/main.cpp` | pool, server, which exit is under way | start-up with Load, console loop, quit, end of input, signal handler, cleanup | all of the above |
| C API, `core/api/smm_api.cpp` | handle registry (with a mutex), last error per thread | smm_create_pool ... smm_destroy_pool | a pool per handle; the mutex covers only the look-up |
| Clients, `sdk/src/client_sdk.cpp`, `client/client.py` | a socket, what is unread on it | connect, one request and its response, commands | the TCP server |

What is hard in each, and what makes it correct:

* **Pool.** Six tables hold overlapping information and are updated separately by
  different methods; Compact copies blocks over each other; allocation relies on
  the free counter before it looks at the bitmap. Correct when the tables agree
  after every command, no block is shared or leaked, every content reads back as
  it was last written, and fragmentation alone never makes a request fail.
* **Console, TCP handlers, C API.** Updates are a free followed by an allocation,
  which can fail in between; the console has a second, in-place kind of update with
  its own accounting; typed lines are split at blanks and put together again; files
  run files. Correct when they keep what the pool needs and when what is typed is
  what is stored.
* **TCP server and main.** Client threads, the console and a signal handler share
  the pool without a lock; Stop joins threads that may be blocked in recv; three
  exit paths save. Correct when requests have the effect of some order of them, when
  stopping ends, and when what is saved is everything.
* **Persistence.** Save truncates the only file before it writes; Load fills the
  pool as it reads. Correct when a restart finds the pool of the last save, or an
  empty one, and never takes half of one for a whole.
* **Clients.** Requests and responses are matched by order alone. Correct when a
  response is never taken for the answer to another request, and calls return.

`PROJECT.json` lists each component with what is modelled of it, and under
"hazards" the places where the code can go wrong in a way a test would hardly
reach, with the properties about each.

## 2. Modules

| Module | Models | From |
|---|---|---|
| `PoolObject` | the object, and each method as an operator from one value of it to the next; no variables | `shared_memory_pool.h/.cpp`, the in-place part of the console's update |
| `SharedMemoryPool` | one pool and the commands on it, each a whole handler | `commands.cpp`, `tcp_server.cpp`, `smm_api.cpp` |
| `MemoryStore` | abstract: the store clients see | what the above promise |
| `PoolReport` | what status and info compute, each off other tables | `commands.cpp` |
| `NextFitScan` | the two nested loops of FindContinuousFreeBlock, a step per test | `shared_memory_pool.cpp` |
| `CompactLoop` | the loops of Compact, a step per block moved | `shared_memory_pool.cpp` |
| `PoolFile` | the sections of the file; what Load makes of a whole, short, torn or old one | `persistence.cpp` |
| `Persistence` | a program that serves, saves, dies, restarts and loads | `persistence.cpp`, `main.cpp`, smm_save/smm_load |
| `DurableStore` | abstract: a store and its saved copy | what the above promise |
| `TCPServer` | main, the acceptor, the handlers and the signal thread; the three exits | `tcp_server.cpp`, `main.cpp` |
| `ConcurrentPool` | the five requests cut into their reads and writes of the shared object | `tcp_server.cpp`, `shared_memory_pool.cpp` |
| `ClientSession` | a client object, its byte streams and the server's thread | `client_sdk.cpp`, `client.py`, `tcp_server.cpp`, `protocol.cpp` |
| `SmmApi` | the registry of pools and the calls of several threads | `smm_api.cpp` |
| `Words`, `CommandLine` | what alloc and update make of the line typed | `commands.cpp` |
| `ClientCommands` | a client's command, its packet, and the server's parsing of it | `client_sdk.cpp`, `client.py`, `protocol.cpp`, `tcp_server.cpp` |
| `MemoryId` | base-62 texts of ids, their widths, the counter computed back from them | `shared_memory_pool.cpp` |
| `ConsoleExec` | the console's loop, files that run files, the password of reset | `main.cpp`, `commands.cpp` |
| `MCSharedMemoryPool`, `MCSmmApi`, `MCTexts` | constants and symmetry for TLC; the three text modules side by side | |
| `PoolObjectProofs`, `LoopProofs`, `SharedMemoryPoolProofs`, `ConcurrentPoolProofs`, `PersistenceProofs`, `SmmApiProofs`, `NetworkProofs`, `TextsProofs` | theorems (section 5) | |

How they compose: `SharedMemoryPool` is built on `PoolObject`, and `Persistence`
instantiates it for the commands of the program it models; `ConcurrentPool`
instantiates it as the specification it implements; `SmmApi` has one object per
handle and shares `PoolFile` with `Persistence`. `NextFitScan` and
`CompactLoop` justify the two operators `PoolObject` gives as one expression each.
`TCPServer` reduces the pool to the number of its changes: what counts there is
which changes a Save holds and which calls it overlaps.

### Conventions

* The object is a record with the class's members as fields. A memory id is the
  number its base-62 text encodes (module `MemoryId` is about that encoding); 0 is
  the empty string of a cleared block.
* A content is a record of its data (a model value) and its size in bytes. A block
  holds part k of a content, which determines its bytes: the k-th `kBlockSize` bytes,
  padded with zeros. Reading stops at the first zero byte, so contents are taken to
  have none; a block of a freed memory keeps its bytes, as in the code, and a
  reader that ran on into one would show in `ImplementsStore`.
* Time stamps are kept as the set of ids that have one.
* Undefined behaviour is a choice where its outcomes can be told: a length or count
  that Load reads past the end of the file is indeterminate. Where they cannot, the
  model stops: a thread of `ConcurrentPool` that follows an iterator to an erased entry
  is `lost`, and the whole of `SmmApi` ends with the first conflict of two calls or
  use of what is no longer a pool, recorded in `outside`.
* Bounds are constants named `Max...`, and each is a guard of the one action it
  limits; `MaxId` caps the id counter, which a reset starts again.

### Actions and code

* `SharedMemoryPool!Alloc` - the console's alloc, ALLOC, smm_alloc. The id is taken
  first, so a refused request uses one. AllocateBlock rejects, searches, compacts and
  searches again, and writes; the compaction stays when the request then fails.
  `Free` - free and delete, DELETE, smm_free. `FreeThenAllocate` - UPDATE, smm_update,
  the console's update of a content that does not fit: the freed memory stays freed
  when the allocation fails. `ConsoleUpdate` - in place when the content fits.
  `CompactPool`, `ResetAll` - compact and reset, smm_compact and smm_reset_pool.
  Commands on an id that does not exist, and refused parameters, change nothing and
  are stuttering steps.
* `Persistence` - `BeginSave` opens and truncates; `WriteSection` writes one of the
  seven; `EndSave`, `CutSave` (a death or a failed write, anywhere, with what was
  buffered lost) and `OpenFails` end it. `Start` is main's Load into a new object and
  `LoadInPlace` smm_load into one in use. A Load is one step: nothing runs next to it.
* `ConcurrentPool` - `Begin` takes a request; `TakeId`/`CountId` are the read and
  the write of the id counter; `LookUp`, `FetchEntry`, `Describe`, `Find`,
  `ClearBlock`, `Erase`, `ReadCount`, `GiveBack` an UPDATE's or DELETE's free;
  `CheckSize`, `Search`, `WriteBlock`, `CountBlock`, `Record` an AllocateBlock;
  `FindEntry`, `ReadEntry`, `ReadBytes` a READ's content and `FindAgain`, `HeaderEntry`,
  `ReadHeader`, `FindTime`, `ReadTime` its header: three times an entry is found in one
  step and followed in another. `Invalidate` says, at each step, whose iterators an
  erase has made dangling. `List`, `Row` are a STATUS. Searching and compacting are a
  step each.
* `TCPServer` - main between its commands and its exits; `Stop` step by step with the
  lock on the thread list and the joins; the acceptor up to the hand-over of a
  connection; a handler's loop, receive, call and response; `Signal`, which may come at
  any time, and the destructor at the end.
* `ClientSession` - a response is three pieces that arrive when they like. `Call`
  sends; `SdkReadsHeader`, `PythonReadsHeader`, `ReadsData`, `FindsEndOfStream`,
  `TimesOut` are what the receiving code does with what has come. A call that does not
  start at a header (after a header in pieces, a response over 1 MB, a timeout inside
  one) is sent like any other, and `ReadsGarbageHeader` and `ReadsGarbageData` take
  bytes off the stream for it: it may fail on them, or return what they look like.
* `SmmApi` - every call on a pool is three steps: the look-up under the lock
  (`GetPool`), the entry into the pool without it (`Enter`, or `NullArgument`), and the
  effect. In between other threads call. Two calls in one pool, of which one changes it,
  or two on the file, of which one writes it, conflict. A save may leave a short file
  (`CutShort`), and a load of a short or a former-format file fills the pool as far as
  it reads and fails; the model follows such a half loaded pool until it is reset,
  loaded again, destroyed or used. Creation and destruction are one step each.

## 3. Runs

| Run | Question | Bounds |
|---|---|---|
| `layout` | Do the pool's tables agree after any history of commands, do clients see the abstract store, and do status and info agree with each other? | 5 blocks of 2 bytes; two data; contents of 0, 1 and 4 bytes; 3 ids between resets |
| `compaction_makes_room` | A comment's claim, violated (section 6) | 4 blocks of 2 bytes |
| `next_fit_scan` | Do the search loops compute the first fit, and end? | every bitmap of 6 blocks, every position, 1 to 7 blocks asked for |
| `compact_loop` | Do the overlapping moves of Compact lose nothing, compute `Compact`, and end? | every placement of up to 3 memories in 6 blocks |
| `persistence_faults` | What comes back after saves that are cut anywhere, deaths, restarts and loads in place? | 2 blocks of 2 bytes, contents of 1 and 2 bytes, 2 ids |
| `server_exits` | Do quit, the end of the input and Ctrl+C stop requests, save everything and end? | 1 client, 2 requests, 1 command |
| `one_writer` | Are one writer's requests, step by step, the commands of `SharedMemoryPool`, when is a READ next to them right, and are requests answered? | 3 blocks; 1 writer, 1 reader; 2 ids |
| `memories_are_disjoint` | The same with two writers, violated (section 6) | 3 blocks, 2 writers |
| `sessions` | When is an answer another request's, and do calls return? | either client, 3 calls, 2 connections |
| `api_threads` | Do pools stay consistent and memories reachable while threads use, destroy, save and load them, and saves and loads fail? | 2 blocks, contents of 1 and 5 bytes (5 never fit), 2 threads, 1 handle, 2 ids; no file or one of the former format at first |
| `texts` | Do texts and ids arrive as they were given? | descriptions of up to 3 and contents of up to 4 glyphs at the console; texts of up to 2 and 3 given to a client; 80 ids in base 2 |
| `exec_files` | Do nested files mean their lines, and end? | all contents of 2 files and the console, 2 lines each, nested 2 deep |

**Why the bounds are enough.** Sizes 0, 1 and 4 are an empty content, part of a
block and whole blocks; with the block a content of whole blocks takes extra, they
ask for 1 and 3 blocks. Five blocks hold memories with gaps between, memories whose
moves overlap their old place (three blocks moving by one), and a pool with no free
block. Three ids are three memories at once: a middle one to free. Six blocks in the
loop modules give a run before, at and after the search position, and three memories
in any order of ids (the sort by position must not be by id). In `persistence_faults`
an id freed before a save and handed out again after the load, a save of an empty and
of a full pool, and two saves of different objects one cut after the other all occur;
the length of the file is that of the code. In `server_exits` one client is enough to
be waiting in recv, inside the pool, accepted and not yet handed over, or connected too late,
and the run's second request comes during a save. In `one_writer` the reader can meet
each step of an UPDATE's free and allocation. Three calls over two connections are
enough for a late answer, the call that reads it and one after. Base 2 reaches each
of the three widths of ids within 80 numbers. That the interesting cases occur is
shown by the mutants of `PROJECT.json`: each property of a passing run is violated,
under the run's own bounds, by a small change of one definition (an entry left behind
by Compact, a search position written as zero, a Save that ends one section early, a
hand-over that keeps the lock, a response sent twice).

What they show:

* **Pool** (`layout`, `next_fit_scan`, `compact_loop`). No command, in any order,
  leaves two tables disagreeing; in particular the in-place update's accounting (a
  counter in one method, bits in another) is right. Contents and descriptions survive
  every other command, compactions included (`ImplementsStore`). The abstract store
  also says what is *not* promised: an update whose new content does not fit loses
  the memory, and so does an UPDATE with an empty content. A request fails exactly
  when it needs more blocks than are free, counting the extra one, never because of
  fragmentation (`OnlyLackOfBlocksRefuses`). After compact the longest free run is
  all of the free space. What status and info print, computed off five tables, agrees
  (`ReportsAgree`), and their warnings advise the right thing (`AdviceIsRight`).
* **Persistence** (`persistence_faults`). Whatever was cut, failed or lost, a Load
  that reports success has restored the last Save (`LoadedIsTheSave`). Up to the first
  cut the object served is consistent although the file does not hold the bitmap's
  counter and the id counter as such (`ServedPoolIsConsistent`), and program and file
  are a store that is saved and reloaded as one (`ImplementsDurableStore`), where ids
  are fresh only among the memories that exist: after a reload, ids of memories
  freed before it are handed out again.
* **Server** (`server_exits`). Once a Stop has gone through no request runs, not
  even of a connection accepted on the way (`NoRequestAfterStop`). Quit saves every
  change. The end of the input does if no client sent a request, and Ctrl+C if the
  console was idle (`ExitSavesEverything`); else they lose changes (section 6). Quit
  ends the program, if clients send or close (`QuitEnds`).
* **Requests** (`one_writer`). With one connection that writes, next to readers, its
  requests are the commands of `SharedMemoryPool` (`ImplementsPool`). A READ is right,
  content and description, if no step that adds, erases or moves an entry overlaps it
  and no UPDATE or DELETE of its id is under way, whatever blocks are being cleared or
  written meanwhile (`QuietReadsAreRight`). One that is overlapped may follow a
  dangling iterator, and then nothing is claimed any more; until then every
  request is answered (`EveryRequestAnswered`).
* **Clients** (`sessions`). On a connection whose calls all left off at the end of a
  response, an answer is the own one as long as no call timed out, and never is after
  one did: the client stays one answer behind (`AnswersMatchInStep`). A call that
  leaves off elsewhere puts the connection out of step, and later calls may return
  anything (section 6). Calls return: client.py's always, even on a dead network, the
  SDK's while it is in step and the server answers or closes (`CallsReturn`).
* **C API** (`api_threads`). Until two calls conflict, or a deleted or half loaded pool
  is used, every pool that no failed load left half filled is consistent
  (`PoolsAreConsistent`), and its memories are exactly those the return codes told of,
  counting apart those whose id the caller's buffer was too small for
  (`MemoriesAreReachable`). That holds through failed saves, loads of another pool's
  file into one in use, and the resets and loads that repair a half loaded pool. The
  code excludes none of the conditions (section 6).
* **Texts** (`texts`, `exec_files`). Plain texts (no quote, no path, single blanks)
  are stored as typed; a client's texts arrive whole, the lengths before them fit;
  the text of a new id is that of no live memory, across the width steps and after
  the counter is computed back from the texts. Lines of files are executed in order, and
  the console ends unless a file runs itself.

**Refinement.** `SharedMemoryPool` implements `MemoryStore`; `Persistence`
implements `DurableStore` up to the first Save that is cut short; `ConcurrentPool`
with one writer implements `SharedMemoryPool`, where the pool between two requests is
the mapped object. `NextFitScan` and `CompactLoop` end with the values of the
operators of `PoolObject`. All four are checked here and proved in section 5; so a
client's requests to a server with one writer are, step by step, operations of the
abstract store.

## 4. Fairness and deadlock

* `NextFitScan`, `CompactLoop`, `ConsoleExec`: weak fairness of the next step: a
  thread inside a loop keeps running.
* `ConcurrentPool`: weak fairness of each thread's steps. No step waits for
  another thread, so scheduling is all that is needed.
* `TCPServer`: weak fairness of each thread while the process is up (the system
  schedules them), and that a connected client sends or closes at some time
  (`ClientsAct`). The second is not the code's to give: `IdleSpec` leaves it out, and
  `QuitSaves` fails then (section 6). Nobody must type a command, and no client must
  connect.
* `ClientSession`: the client's own steps for both clients (client.py's include its
  timeout); delivery and the server's thread only for the SDK, which has no timeout: the
  network delivers, and the server answers a request or closes. `CallsReturn` promises
  nothing of an SDK out of step, which may wait for bytes nobody sends.

The other modules state safety only. Deadlock is checked where the system runs on
(`SharedMemoryPool`, `Persistence`, `ConcurrentPool`, and with a step that stutters at
their end `TCPServer` and `SmmApi`). It is not checked where behaviours end: the loop
modules, `ConsoleExec`, `MCTexts`, and `ClientSession` at its bound of calls.

## 5. Proofs

For every number of blocks, block size, set of contents and descriptions, number of
clients, requests, calls, threads, handles and connections, bound on ids, and for texts
of every length, every base of ids and number of values of a byte, under the
assumptions named in the modules (`PoolAssumption`: at least one block of at least one
byte, sizes are natural numbers, zeroed bytes are nobody's data; `MaxIdAssumption`,
`CompactIdsAssumption`, `ThreadsAssumption`, `ServerAssumption`, `SessionAssumption`,
`TextsAssumption` for their constants). One theorem module has a hypothesis beside
them, `OneWriter` of `ConcurrentPoolProofs`; what fails without it is in section 6.

* `PoolObjectProofs` has a lemma per method: on a consistent object it leaves a
  consistent one. The longest is `CompactConsistent`. It rests on facts about
  positions in a set of blocks: ranks are below the cardinality, increase, are onto
  and have `Nth` as inverse (`RankBelow`, `RankIncreases`, `RankOnto`, `NthOfRank`),
  and a run of owned blocks goes to a run (`RankOfRun`, `MovedRun`). It also has the
  sums: the spans of the memories are disjoint, so sums over memories and over blocks
  agree (`DisjointSum`, `EntriesAddUp`, `ViewAddsUp`); what readers get of a memory
  (`ReadsText`); and the object that Load makes of a saved one.
* `LoopProofs`: the two loops compute the operators that all other proofs use.
  For the search the invariant adds where the loop variables stand: the run measured
  starts at a free block at or after the search position and ends at a used block or
  the end of the pool. So a run that is too short cannot be part of one that is long
  enough, and i may jump to its end. For `Compact` it says that at every moment
  the object is the one at the start with its lowest w owned blocks moved, w being the
  number of copies so far: entries are done in the order of their blocks, those done
  lie in front, and the rank of the block next to be moved is the loop's `freePos`. A
  move copies to that rank, which is no higher than the source, so it lands on a block
  that is free or was moved already.
* `SharedMemoryPoolProofs` proves the six invariants of the pool for `Spec`. None is
  inductive by itself. The free count stays exact through a free only if all freed
  blocks were marked, which is `OwnsItsBlocks`; through Compact only if the marked
  blocks are exactly the owned ones, which also takes `LeaksNoBlock`; and an allocation
  stays within the pool because the search trusts an exact count. The inductive
  invariant `IInv` is their conjunction, with the ids below the bound. From it follow
  two action properties. `OnlyLackOfBlocksRefuses`: Compact packs the used blocks to
  the front and puts the search position right behind them, so the search that follows
  finds any number of blocks that are free, although it does not wrap around.
  `CompactLeavesOneRun` by the same packing.
  Then the pool implements the abstract store. A content is read off a memory's
  blocks one by one up to the first zero byte. The proof adds to `IInv` that the k-th
  block of a memory holds the k-th part of one content and that the blocks are enough
  for it (`Spells`), and shows per command that this stays true of the memories it does
  not name, moves included. Last, the displays: `AdviceIsRight`, since info counts the
  free blocks that begin a run, and the longest run is all free blocks exactly when
  there is one such block at most; and `ReportsAgree`, whose sums are those of
  `PoolObjectProofs`.
* `ConcurrentPoolProofs`, for one writer and any number of readers. `Underway`
  says for every step of a request what the pool is, given the pool `before` it began:
  while it frees, `before` with the first i of the memory's blocks cleared, then with
  the entry erased, then with the count given back; while it writes, the pool that the
  search left, with i blocks placed and i or i + 1 counted. The lemmas
  `FreedInSteps` and `PlacedInSteps` say that the last of these is what the whole
  method computes; `WriterSteps` that each step leads from one to the next;
  `ReaderSteps` that READs change nothing. Between requests the pool is then the result
  of a command on a consistent object (`Performed`), which makes it consistent
  again, and the iterator that UPDATE and STATUS follow is to an entry of `before` that
  nobody else can have erased. Readers have no such luck: the writer erases what they
  have found. `disturbed` records which of them it may have harmed, and for the others
  the proof of `QuietReadsAreRight` shows that the entry they found is still that of
  the pool before the request and after it, and that the blocks the writer clears
  or writes belong to another memory.
* `PersistenceProofs` proves what a Load brings back. The file is always the first
  few sections of the last Save (`FileIsOfLastSave`, `Growing`), possibly torn, so
  Load reports success only of all of them; and it then reads that Save's metadata only
  because that of blocks not in use was cleared (`Tidy`), for the file holds none of it.
  Up to the first cut, `UpToFirstCut` adds that both objects are consistent
  and that the file is none, or whole, or being written. The free counter fits since
  the marked blocks are the used ones, the id counter since a bounded set of
  ids has a greatest (`GreatestOfBounded`).
  With `Spells` of both objects (`StoreDurableInv`) the program implements the
  durable store. `Kept` is what the store's saved copy is mapped to: the object
  being saved from `BeginSave` on, the last Save while the file is there, else the new
  object. That the two free figures of the store fit is the sum over the memories'
  spans; that the id handed out next is the least fresh one after a Load takes the
  rebuilt counter (`LeastFreshId`).
* `SmmApiProofs` proves both invariants of the C API. The file links pools:
  smm_load puts under a handle what another handle may have saved, and with it what
  callers know of its ids. So the invariant (`ApiInv`) follows pool and book into the
  file and out of it: each registered pool that is not half loaded is consistent and
  agrees with its book (`Good`), and so do the pool and the book a whole file was saved
  from (`FileInv`). A file cut short is not whole whatever it holds (`CutIsNotWhole`), so
  a Load of it fails. `CallersInv` says that while nothing is outside, a thread that is
  in a pool is in a registered one.
* `NetworkProofs` has both ends of the network; the two modules it extends share
  no variable. For the server it proves that no request is in the pool after a Stop. The
  invariant relates the list of threads, the handlers and running_: running_ is set
  once, before any connection is accepted, and stays off after a Stop; a handler that
  has not ended is on the list that Stop joins; and one put there after the Stop has
  yet to test running_. On top of it `ExitInv` follows an exit: it has a Stop behind it,
  or no request ever came, before it saves; from then on no client is in the pool and
  main is past its commands (`NoCalls`), so the Save holds the last change, nothing
  overlaps it, and no change comes after it.
  For the client it proves `AnswersMatchInStep`. The invariant (`InOrder`) is about
  connections in step: the wire holds whole responses. If no call timed out, one request
  at most is under way, and it is the call's own (`OnTime`). After a timeout the requests
  given up are still under way, so that something older than the call's own is always in
  front of it (`Behind`): each call sends one request and reads one response at most.
* `TextsProofs` proves the four invariants of the text modules, whose operators are
  recursive functions and folds. The library's theorems on recursion and induction take
  an operator as parameter, which the provers cannot instantiate, so each recursion is
  unfolded by hand. A value that fits it is built step by step (`DigitsExist`,
  `FoldExists`, `FlattenedInSteps`), two that fit are the same because there is no
  least place where they differ (`LeastNumber`), and the library's Min and Max are the
  least and the greatest (`MinIsLeast`, `MaxIsGreatest`).
  * Ids. `DecodeBase62` takes a text digit by digit from its end (`DecodesInSteps`), a
    number's digits are those of its quotient and its remainder (`DigitsOfUnfolds`,
    `DecodesOneMore`), and zeros in front change nothing, so the decoder inverts the
    encoder (`DecoderInvertsEncoder`) and two numbers never have one text, whatever
    their widths. The invariant (`IdsBelowCounter`) says that each key is the text of a
    number below the counter, or a damaged one, which decodes to 0; a reload keeps it
    because the counter it computes is above every number it can read off the keys.
  * Client commands. A length below the fourth power of the values of a byte is read as
    it was written (`LengthIsRead`). No client sends one that is not: the SDK's line
    bounds the data, since two different words of it do not overlap (`SentFits`). That
    is what `TextsAssumption` asks of the bounds; with 256 values it asks for lines of
    less than 2^32 bytes. The first NUL is then where the client put it, as the first
    text has none, and `Split` of a line of words without blanks gives those words back.
  * The console. `Split` is defined by the places where words begin and end, and the
    words of two lines with a blank between them are those of the one and then those of
    the other (`WordsOfSpaced`). A plain text in quotes is its words with single blanks
    between; its first word begins with the quote, only its last ends in one, and no
    later word begins with "@" (`Argument`, `WordsOfArgument`). So the scan for a path
    passes over the description, the scan for the closing quote stops at the argument's
    last token, and joining the tokens gives the text back. No word of a plain text in
    quotes is an opening quote that stands alone, which the scan for the description's
    end would take for that end.

Only model-checked:

* `FilesMeanTheirLines`: the lines a file means are a recursive operator, which a
  module with proofs cannot use.
* Liveness (`ScanTerminates`, `LoopTerminates`, `QuitEnds`, `EveryRequestAnswered`,
  `CallsReturn`, `AcyclicFilesEnd`): out of the proof system's reach.
* What two writers break: TLC finds the traces (section 6).

## 6. Divergences

Where code and words differ the models keep what the code does. Two are runs that
TLC finds violated:

* `CompactionMakesRoom`, `shared_memory_pool.cpp:340`: the comment says that failing
  to find room after the compaction should not happen in theory. It happens for a
  content that fills the free blocks exactly: the free-space test accepts it, and line
  323 asks for one block more. In the trace 2 bytes take 2 of 4 blocks of 2 bytes, and
  4 bytes then find no room in the 2 that are free.
* `MemoriesAreDisjoint`, `tcp_server.cpp:300`: the documents ask for thread safety
  (`server/network/README_TCP.md:990`). Two connections that allocate at once are given
  the same blocks.

The others are stated as definitions in the modules named here, and TLC shows a trace
for each when it is named in a configuration of the module (`QuitSaves` under
`IdleSpec`; those of `ConcurrentPool` with two writers, of which `NoLostThread` and
`ReadsWholeContent` fail with one writer and one reader already):

| Property | Where | The words | The code |
|---|---|---|---|
| `SharedMemoryPool!BlocksAreRoundedUp` | `shared_memory_pool.cpp:322` | the number of blocks is rounded up (also `README.md:135`) | one more for whole blocks |
| `SharedMemoryPool!CompactsOnlyWithoutRun` | `shared_memory_pool.cpp:334` | compacts when there is no contiguous run (also `README.md:113`) | also when the run lies before the next-fit position |
| `Persistence!DamagedFileGivesNewPool` | `main.cpp:250` | a damaged file is detected and a new pool is used (`doc.md:761`) | the sections read so far stay, and are served |
| `Persistence!CounterAboveLoadedIds` | `persistence.cpp:243` | the counter is made greater than all ids (`shared_memory_pool.cpp:190`) | only if every read was good; else it is 1 and ids are handed out twice |
| `Persistence!OldFilesLoad` | `persistence.cpp:222` | a file without next_search_pos_ loads (`README.md:181`) | the pool's first bytes are taken for it, the data is shifted and the load fails |
| `MemoryId!HundredthIsC8` | `shared_memory_pool.cpp:170` | the hundredth id is memory_001C8 (`doc.md:758`) | it is memory_0001C |
| `TCPServer!QuitSaves` | `tcp_server.cpp:187` | quit saves (`README.md:177`) | Stop comes first, and joins threads that wait in recv for silent clients |
| `TCPServer!EndOfInputSavesEverything` | `main.cpp:294` | Ctrl+Z saves (`README.md:178`) | it saves while the server still serves |
| `TCPServer!SignalSavesEverything` | `main.cpp:34` | Ctrl+C saves (`README.md:178`) | it saves in the middle of main's command or Save |
| `TCPServer!EndsGracefully` | `tcp_server.cpp:162` | a graceful exit (`README.md:173`) | a connection handed over after Stop cleared the list is joined by nobody, and the list's destructor terminates |
| `ConcurrentPool!IdsAreUnique` | `tcp_server.cpp:297` | ids are unique (`README_TCP.md:989`) | the counter is read and incremented without a lock |
| `ConcurrentPool!NoLostThread` | `shared_memory_pool.cpp:460`, `tcp_server.cpp:343` | pool operations are thread safe (`README_TCP.md:990`) | READ, and with two writers UPDATE, uses an iterator that a DELETE has made dangling |
| `ConcurrentPool!ReadsWholeContent` | `tcp_server.cpp:404` | the same | READ copies blocks being freed or written |
| `SmmApi!NoUseOfDeletedPool` | `smm_api.cpp:36` | handles are protected by a mutex, for threads (`smm_api.cpp:19`) | the lock is released before the pool is used |
| `SmmApi!CallsDoNotConflict` | `smm_api.cpp:36` | the same | two calls change one pool at a time, or save the file and load it |
| `SmmApi!DataSizeIsActual` | `smm_api.cpp:349` | data_size is the actual size (`smm_api.h:32`) | it is the blocks times the block size |
| `ClientSession!AnswersMatch` | `client.py:125` | receives the response to the request (`client.py:85`) | after a timeout the next call reads the late answer; out of step, what it takes for one |
| `ClientSession!PiecesAreCollected` | `client.py:107` | receive in a loop until complete (`README_TCP.md:995`) | recv(5) is called once |
| `ClientSession!SdkReportsErrors` | `client_sdk.cpp:392` | true on success, false on failure (`client_sdk.h:49`) | true whatever the response code |
| `ClientSession!SdkHandsOverResponses` | `client_sdk.cpp:373` | returns true in any case (`client_sdk.cpp:390`) | false for a response over 1 MB, which stays unread, and for what later calls make of it |
| `ClientSession!IsConnectedIsCurrent` | `client_sdk.cpp:125` | says whether connected (`client_sdk.h:41`) | no error resets it, and Connect then does nothing |
| `CommandLine!StoresWhatIsQuoted` | `commands.cpp:123` | alloc stores the quoted content (`README.md:129`) | runs of blanks become one |
| `CommandLine!OnlyPathsAreOpened` | `commands.cpp:640` | a content that begins with @ is a path (`doc.md:673`) | so is a word inside the quotes |
| `CommandLine!BareDescriptionsAreTaken` | `commands.cpp:627` | alloc with a bare description succeeds (`README.md:356`) | it is refused |
| `ClientCommands!QuotedTextsArrive` | `client_sdk.cpp:166` | quoted texts of several words (`sdk/README.md:490`) | cut at the first blank |
| `ClientCommands!AllocReturnsTheId` | `client.py:144` | returns the memory id (`client.py:137`) | returns the whole text of the response |

## 7. Not modelled

* Output: column widths, formatting of times and numbers, help, error texts
  (`smm_get_error_string`), discovery of the local and public IP addresses.
* Code without a caller: `SetMeta`, `FreeByBlockId`, `MakeUserID`, `ParseUserID`,
  `SerializeRequest`, `DeserializeResponse`. Build files, samples, SDK examples.
* Contents with NUL bytes in the pool's modules: AllocateBlock stores them, and every
  reader stops at the first.
* Failures of the allocator beyond smm_create_pool's (exceptions through the C API). The stack
  that a file running itself uses up is the bound `MaxDepth`.
* The search and the compaction are one step each in `ConcurrentPool`; what they
  show when interrupted is of the kinds that the other steps show already. A program
  that overlaps a Load with other calls is outside the models, and so is the effect of
  methods on an object whose tables disagree, which a failed Load can leave:
  `Persistence` offers no command on it, except saving it, and `SmmApi` ends with the
  first use. `SmmApi` also ends with the first conflict of two calls.
* A request that client.py's sendall sends in part before it times out.
* The bytes of a response: a client out of step may read anything off them.

## 8. Plan

Done, in this order: the pool, its loops, the abstract store and its refinement;
persistence with its faults; concurrent requests; the server's threads and exits; the
clients; the C API; the texts and ids; the console's exec; the proofs of section 5.

Left: a finer search and compaction in `ConcurrentPool`, with the loop variables of
`NextFitScan` and `CompactLoop` as the thread's own, which `LoopProofs` prepares.
