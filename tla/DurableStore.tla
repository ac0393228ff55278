---------------------------- MODULE DurableStore ----------------------------
(***************************************************************************)
(* What a pool and its file promise together as long as no Save is cut     *)
(* short: the store of MemoryStore, and the store as it was last saved.    *)
(* A program that stops without saving comes back with the saved store.    *)
(* Ids are fresh among the memories that exist, no more: after a reload    *)
(* ids of memories freed before it are handed out again.                   *)
(***************************************************************************)
EXTENDS Integers, FiniteSetsExt

CONSTANTS kBlockCount, kBlockSize, Contents, Descriptions, MaxId

VARIABLES store, free, nextId, saved

Mem == INSTANCE MemoryStore

vars == <<store, free, nextId, saved>>

Room(s)       == kBlockCount - MapThenSumSet(LAMBDA id : s[id].blocks, DOMAIN s)
LeastFresh(s) == Max(DOMAIN s \cup {0}) + 1

Init == Mem!Init /\ saved = store

Serve == Mem!Next /\ UNCHANGED saved

Save == saved' = store /\ UNCHANGED <<store, free, nextId>>

SaveAndStop ==
  /\ saved' = store
  /\ nextId' = LeastFresh(store)
  /\ UNCHANGED <<store, free>>

Reload ==
  /\ store' = saved
  /\ free' = Room(saved)
  /\ nextId' = LeastFresh(saved)
  /\ UNCHANGED saved

Next == Serve \/ Save \/ SaveAndStop \/ Reload

Spec == Init /\ [][Next]_vars
=============================================================================
