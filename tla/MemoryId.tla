------------------------------ MODULE MemoryId ------------------------------
(***************************************************************************)
(* The texts of memory ids: "memory_" and the id's number in base 62,      *)
(* padded to 5, 6 or 7 digits.  The texts are the keys of memory_info and  *)
(* all that a saved pool says of the numbers: after a Load the counter is  *)
(* computed back from them.  The other modules take an id to be its        *)
(* number; here a text is the sequence of its digits.                      *)
(***************************************************************************)
EXTENDS Integers, FiniteSets, FiniteSetsExt, Sequences, SequencesExt, Functions

CONSTANTS Base,        \* 62; runs about the width steps take a smaller one
          MinLength,   \* 5, the digits of the first ids
          MaxCounter,  \* bound: the numbers handed out
          MaxLive      \* bound: the memories there are at once

VARIABLES next_memory_id_counter,
          live     \* the texts that are keys of memory_info

vars == <<next_memory_id_counter, live>>

-----------------------------------------------------------------------------
(* A character that is no digit, as in the key a damaged file can give. *)
NoDigit == Base
Foreign == <<NoDigit>>

(* The loop prepends num % 62 and goes on with num / 62. *)
DigitsOf[num \in Nat] ==
  IF num < Base THEN <<num>> ELSE DigitsOf[num \div Base] \o <<num % Base>>

ZerosBehind(digits, minLength) ==
  digits \o [i \in 1 .. (minLength - Len(digits)) |-> 0]
Padded(digits, minLength) ==
  [i \in 1 .. (minLength - Len(digits)) |-> 0] \o digits

EncodeBase62(num, minLength) == Padded(DigitsOf[num], minLength)

(* From the last character to the first; an invalid character gives 0. *)
DecodeReversed(text) ==
  IF NoDigit \in Range(text) THEN 0
  ELSE FoldRight(LAMBDA digit, acc : acc * Base + digit, text, 0)
DecodeBase62(text) ==
  LET step(acc, digit) == [result |-> acc.result + digit * acc.base, base |-> acc.base * Base]
  IN  IF NoDigit \in Range(text) THEN 0
      ELSE FoldRight(LAMBDA digit, acc : step(acc, digit), text, [result |-> 0, base |-> 1]).result

Length(num) ==
  LET above == num \div Base ^ MinLength    \* num >= Base ^ MinLength, and so on
  IN  MinLength + (IF above >= 1 THEN 1 ELSE 0) + (IF above >= Base THEN 1 ELSE 0)

GenerateNextMemoryId(counter) == EncodeBase62(counter, Length(counter))

(* Texts that decode to 0 are skipped, except the text "0" itself. *)
LargestId(texts) == Max({DecodeBase62(t) : t \in texts} \cup {0})
InitializeMemoryIdCounter(texts) == LargestId(texts) + 1

-----------------------------------------------------------------------------
Init == next_memory_id_counter = 1 /\ live = {}

Alloc ==
  /\ next_memory_id_counter <= MaxCounter
  /\ Cardinality(live) < MaxLive
  /\ live' = live \cup {GenerateNextMemoryId(next_memory_id_counter)}
  /\ next_memory_id_counter' = next_memory_id_counter + 1

Free(t) ==
  /\ live' = live \ {t}
  /\ UNCHANGED next_memory_id_counter

(* A Save and a Load: the counter is lost and computed from the texts. *)
Reload ==
  /\ next_memory_id_counter' = InitializeMemoryIdCounter(live)
  /\ UNCHANGED live

(* The same with a file whose entries had been damaged before (PoolFile). *)
ReloadDamaged ==
  /\ Cardinality(live) < MaxLive
  /\ live' = live \cup {Foreign}
  /\ next_memory_id_counter' = InitializeMemoryIdCounter(live')

Next == Alloc \/ (\E t \in live : Free(t)) \/ Reload \/ ReloadDamaged

Spec == Init /\ [][Next]_vars

-----------------------------------------------------------------------------
(* The text handed out next is not the key of a memory that exists: the    *)
(* widths and the padding never give two numbers the same text, and the    *)
(* counter computed after a reload is above every number in use, because   *)
(* the decoder inverts the encoder on every width.                         *)
NextTextIsFresh ==
  /\ GenerateNextMemoryId(next_memory_id_counter) \notin live
  /\ \A t \in live \ {Foreign} : GenerateNextMemoryId(DecodeBase62(t)) = t

(* doc.md:758: memory_001C8 is the hundredth id. *)
HundredthIsC8 ==
  next_memory_id_counter = 100 =>
    GenerateNextMemoryId(next_memory_id_counter) = <<0, 0, 1, 38, 8>>
=============================================================================
