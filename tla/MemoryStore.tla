---------------------------- MODULE MemoryStore -----------------------------
(***************************************************************************)
(* What the pool promises its users, without blocks, positions or          *)
(* compaction: a map from ids to described contents, in a space of         *)
(* kBlockCount blocks of which `free' are not in use.  A content is stored *)
(* only if that many blocks are free, wherever they are; ids are handed    *)
(* out in order and never twice between two resets; and a content is read  *)
(* back as it was last written until its memory is freed.  Which request a *)
(* step answers is not part of the state, so that no request is refused    *)
(* while enough blocks are free is a property of the pool's actions        *)
(* (OnlyLackOfBlocksRefuses in SharedMemoryPool).                          *)
(*                                                                         *)
(* What it does NOT promise is that an update keeps the old content when   *)
(* the new one does not fit: the memory is then gone (Replace).            *)
(***************************************************************************)
EXTENDS Integers

CONSTANTS kBlockCount, kBlockSize, Contents, Descriptions, MaxId

VARIABLES store,    \* id -> [description, content, blocks]
          free,     \* blocks not in use
          nextId    \* the next id to hand out

vars == <<store, free, nextId>>

Entry(d, c, n) == [description |-> d, content |-> c, blocks |-> n]
With(id, e)    == [x \in DOMAIN store \cup {id} |-> IF x = id THEN e ELSE store[x]]
Without(id)    == [x \in DOMAIN store \ {id} |-> store[x]]

(* A new content takes one block more than its whole blocks; a content     *)
(* written over an old one takes just the blocks it touches.               *)
Needed(c)  == c.size \div kBlockSize + 1
Touched(c) == (c.size + kBlockSize - 1) \div kBlockSize
Fits(c, n) == c.size > 0 /\ Needed(c) <= n

-----------------------------------------------------------------------------
Init == store = [x \in {} |-> {}] /\ free = kBlockCount /\ nextId = 1

Store(d, c) ==
  /\ nextId <= MaxId
  /\ nextId' = nextId + 1
  /\ Fits(c, free)
  /\ free' = free - Needed(c)
  /\ store' = With(nextId, Entry(d, c, Needed(c)))

Refuse(c) ==
  /\ nextId <= MaxId
  /\ nextId' = nextId + 1
  /\ ~Fits(c, free)
  /\ UNCHANGED <<free, store>>

Remove(id) ==
  /\ UNCHANGED nextId
  /\ free' = free + store[id].blocks
  /\ store' = Without(id)

(* Replace: the old content is given up before the new one is stored. *)
Replace(id, c) ==
  LET room == free + store[id].blocks
  IN  /\ UNCHANGED nextId
      /\ \/ /\ Fits(c, room)
            /\ free' = room - Needed(c)
            /\ store' = With(id, Entry(store[id].description, c, Needed(c)))
         \/ /\ ~Fits(c, room)
            /\ free' = room
            /\ store' = Without(id)

Overwrite(id, c) ==
  /\ UNCHANGED nextId
  /\ 0 < c.size /\ c.size <= store[id].blocks * kBlockSize
  /\ free' = free + (store[id].blocks - Touched(c))
  /\ store' = With(id, Entry(store[id].description, c, Touched(c)))

Clear == nextId' = 1 /\ free' = kBlockCount /\ store' = [x \in {} |-> {}]

Next ==
  \/ \E d \in Descriptions, c \in Contents : Store(d, c)
  \/ \E c \in Contents : Refuse(c)
  \/ \E id \in DOMAIN store : Remove(id)
  \/ \E id \in DOMAIN store, c \in Contents : Replace(id, c) \/ Overwrite(id, c)
  \/ Clear

Spec == Init /\ [][Next]_vars
=============================================================================
