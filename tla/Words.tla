------------------------------- MODULE Words --------------------------------
(***************************************************************************)
(* Texts as sequences of glyphs, and how the console and the SDK cut a     *)
(* line into words.                                                        *)
(***************************************************************************)
EXTENDS Integers, FiniteSets, FiniteSetsExt, Sequences, SequencesExt

Blank  == " "
Quote  == "\""

Quoted(text) == <<Quote>> \o text \o <<Quote>>

(* Where the words of a line begin, the one after k - 1 others, and where  *)
(* the word ends that begins at i.                                         *)
Starts(line)     == {i \in DOMAIN line : line[i] # Blank /\ (i = 1 \/ line[i - 1] = Blank)}
StartOf(line, k) == CHOOSE i \in Starts(line) : Cardinality({j \in Starts(line) : j <= i}) = k
EndOf(line, i)   == Min({j \in i .. Len(line) : j = Len(line) \/ line[j + 1] = Blank})

(* The tokens of a line, never empty. *)
Split(line) ==
  [k \in 1 .. Cardinality(Starts(line)) |->
     SubSeq(line, StartOf(line, k), EndOf(line, StartOf(line, k)))]
=============================================================================
