------------------------------- MODULE MCTexts -------------------------------
(***************************************************************************)
(* The modules about texts, checked in one run: a behaviour is one of the  *)
(* console's command line, of a client's command, or of the ids' texts,    *)
(* and leaves the variables of the other two alone.                        *)
(***************************************************************************)
EXTENDS Integers

CONSTANTS MaxDescription, MaxContent,                 \* of CommandLine
          MaxFirst, MaxSecond, ByteValues, MaxData,   \* of ClientCommands
          Base, MinLength, MaxCounter, MaxLive        \* of MemoryId

(* The longest line of the SDK is shorter than the lengths a packet can    *)
(* state: 2^32 bytes, when a byte has its 256 values.                      *)
ASSUME TextsAssumption ==
  /\ {MaxDescription, MaxContent, MaxFirst, MaxSecond, MaxData, MaxCounter, MaxLive} \subseteq Nat
  /\ ByteValues \in Nat \ {0, 1}
  /\ MaxFirst + MaxSecond + 7 < (ByteValues * ByteValues) * (ByteValues * ByteValues)
  /\ Base \in Nat \ {0, 1} /\ MinLength \in Nat \ {0}

VARIABLES part,                                \* which of the three it is
          line, result,                        \* of CommandLine
          typed, request, outcome, returned,   \* of ClientCommands
          next_memory_id_counter, live         \* of MemoryId

Console == INSTANCE CommandLine WITH typed <- line
Client  == INSTANCE ClientCommands
Ids     == INSTANCE MemoryId

consoleVars == <<line, result>>
clientVars  == <<typed, request, outcome, returned>>
idVars      == <<next_memory_id_counter, live>>

NoConsole == line = 0 /\ result = 0
NoClient  == typed = 0 /\ request = 0 /\ outcome = 0 /\ returned = 0
NoIds     == next_memory_id_counter = 0 /\ live = 0

Init ==
  \/ part = "console" /\ Console!Init /\ NoClient /\ NoIds
  \/ part = "client"  /\ Client!Init /\ NoConsole /\ NoIds
  \/ part = "ids"     /\ Ids!Init /\ NoConsole /\ NoClient

Next ==
  /\ UNCHANGED part
  /\ \/ part = "console" /\ Console!Next /\ UNCHANGED <<clientVars, idVars>>
     \/ part = "client"  /\ Client!Next /\ UNCHANGED <<consoleVars, idVars>>
     \/ part = "ids"     /\ Ids!Next /\ UNCHANGED <<consoleVars, clientVars>>

Spec == Init /\ [][Next]_<<part, consoleVars, clientVars, idVars>>

-----------------------------------------------------------------------------
(* Plain texts and quoted paths are taken as they were typed, although     *)
(* three scans of the tokens decide where a content begins.                *)
PlainTextsAreTaken == part = "console" => Console!PlainTextsAreTaken

(* The texts given to client.py, and words given to the SDK, arrive.       *)
TextsArrive == part = "client" => Client!TextsArrive

(* No length is misread, no request is cut short or left waiting.          *)
NothingIsCut == part = "client" => Client!NothingIsCut

(* The text of the next id is not the key of a memory that exists.         *)
NextTextIsFresh == part = "ids" => Ids!NextTextIsFresh
=============================================================================
