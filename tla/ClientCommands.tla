--------------------------- MODULE ClientCommands ---------------------------
(***************************************************************************)
(* One command of a client, from the texts the user gives to what the      *)
(* server does with them: the SDK parses a line that is typed, client.py   *)
(* has a method with arguments; both join the texts with a NUL, put the    *)
(* length before them, and the server takes them apart again.              *)
(***************************************************************************)
EXTENDS Words

CONSTANTS MaxFirst, MaxSecond,   \* bounds: glyphs of the two texts
          ByteValues,            \* 256; small in the runs
          MaxData                \* 1 MB: the longest data the server accepts

VARIABLES typed,     \* the client, the command and its texts
          request,   \* the packet on its way to the server
          outcome,   \* what the server does
          returned   \* what the method of client.py returns

vars == <<typed, request, outcome, returned>>

Nul    == "\\0"
Id     == "memory_00001"
Glyphs == {"a", Blank, Quote, Nul}
Texts(n) == UNION {[1 .. k -> Glyphs] : k \in 0 .. n}

Without(glyph, text) == \A i \in DOMAIN text : text[i] # glyph

NoRequest == [cmd |-> "none", length |-> <<>>, data |-> <<>>]
Takes(does, first, second) == [does |-> does, first |-> first, second |-> second]
Refuses == Takes("refuse", <<>>, <<>>)   \* an error is answered
Drops   == Takes("drop", <<>>, <<>>)     \* the connection is closed
Waits   == Takes("wait", <<>>, <<>>)     \* for more data
Nothing == Takes("nothing", <<>>, <<>>)

(* read stands for read and for delete: the id alone.                      *)
Init ==
  /\ typed \in [client : {"sdk", "python"}, cmd : {"alloc", "update", "read"},
                first : Texts(MaxFirst), second : Texts(MaxSecond)]
  /\ typed.client = "sdk" => Without(Nul, typed.first \o typed.second)
  /\ request = NoRequest
  /\ outcome = Nothing
  /\ returned = <<>>

-----------------------------------------------------------------------------
(* The clients.  The SDK takes the second and third word of the line, and  *)
(* the quotes off a word that has them at both ends (off an id it does     *)
(* not).                                                                   *)
Unquoted(word) ==
  IF Head(word) = Quote /\ Last(word) = Quote THEN SubSeq(word, 2, Len(word) - 1) ELSE word

Line ==
  CASE typed.cmd = "alloc"  ->
         <<"alloc", Blank>> \o Quoted(typed.first) \o <<Blank>> \o Quoted(typed.second)
    [] typed.cmd = "update" ->
         <<"update", Blank>> \o typed.first \o <<Blank>> \o Quoted(typed.second)
    [] typed.cmd = "read"   -> <<"read", Blank>> \o typed.first

Needed == IF typed.cmd = "read" THEN 2 ELSE 3

SdkData(words) ==
  CASE typed.cmd = "alloc"  -> Unquoted(words[2]) \o <<Nul>> \o Unquoted(words[3])
    [] typed.cmd = "update" -> words[2] \o <<Nul>> \o Unquoted(words[3])
    [] typed.cmd = "read"   -> words[2]

PythonData ==
  IF typed.cmd = "read" THEN typed.first ELSE typed.first \o <<Nul>> \o typed.second

(* The packet: the command, the length in four bytes, the highest first,   *)
(* and the data.                                                           *)
Bytes(n) ==
  LET high == n \div (ByteValues * ByteValues)   \* n >> 16
  IN  <<(high \div ByteValues) % ByteValues, high % ByteValues,
        (n \div ByteValues) % ByteValues, n % ByteValues>>
Packet(data) == [cmd |-> typed.cmd, length |-> Bytes(Len(data)), data |-> data]

Send ==
  /\ request = NoRequest /\ outcome = Nothing
  /\ IF typed.client = "python"
     THEN request' = Packet(PythonData) /\ UNCHANGED outcome
     ELSE LET words == Split(Line)
          IN  IF Len(words) < Needed
              THEN outcome' = Refuses /\ UNCHANGED request
              ELSE request' = Packet(SdkData(words)) /\ UNCHANGED outcome
  /\ UNCHANGED <<typed, returned>>

-----------------------------------------------------------------------------
(* The server: ReceiveRequest, and the parsing in ProcessRequest. *)
LowestFirst(bytes) == FoldRight(LAMBDA byte, acc : acc * ByteValues + byte, bytes, 0)
LengthOf(bytes)    == FoldLeft(LAMBDA acc, byte : acc * ByteValues + byte, 0, bytes)

LastNul(data)  == Max({i \in DOMAIN data : data[i] = Nul} \cup {1})
FirstNul(data) == Min({i \in DOMAIN data : data[i] = Nul} \cup {Len(data) + 1})

Processed(cmd, data) ==
  LET cut    == FirstNul(data)
      first  == SubSeq(data, 1, cut - 1)
      second == SubSeq(data, cut + 1, Len(data))
  IN  IF data = <<>> THEN Refuses
      ELSE IF cmd = "read" THEN Takes("read", data, <<>>)
      ELSE IF cut \in {1, Len(data) + 1} \/ (cmd = "alloc" /\ second = <<>>) THEN Refuses
      ELSE Takes(cmd, first, second)

Received(r) ==
  LET n == LengthOf(r.length)
  IN  IF n > MaxData THEN Drops
      ELSE IF n > Len(r.data) THEN Waits
      ELSE Processed(r.cmd, SubSeq(r.data, 1, n))

(* The text the server answers to an alloc, which client.py's alloc        *)
(* returns as it is.  (An id the pool does not know is an error too.)      *)
AllocResponse(description) ==
  <<"Allocation successful. Memory ID: ", Id, "\nDescription: ">> \o description
    \o <<"\nContent stored at block 0\n">>

ReceiveRequest ==
  /\ request # NoRequest /\ outcome = Nothing
  /\ outcome' = Received(request)
  /\ returned' = IF typed.client = "python" /\ outcome'.does = "alloc"
                 THEN AllocResponse(outcome'.first) ELSE <<>>
  /\ UNCHANGED <<typed, request>>

Next == Send \/ ReceiveRequest

Spec == Init /\ [][Next]_vars

-----------------------------------------------------------------------------
(* What client.py sends arrives: whatever blanks, quotes and NULs are in   *)
(* the content, the server takes the description and the content apart     *)
(* where the client joined them.  Through the SDK, single words arrive,    *)
(* also those that hold or are a quote.                                    *)
Texted == typed.first # <<>> /\ typed.second # <<>> /\ Len(typed.first \o typed.second) < MaxData

TextsArrive ==
  /\ outcome # Nothing /\ Texted
  /\ \/ typed.client = "python" /\ typed.cmd # "read" /\ Without(Nul, typed.first)
     \/ typed.client = "sdk" /\ typed.cmd = "alloc" /\ Without(Blank, typed.first \o typed.second)
  => outcome = Takes(typed.cmd, typed.first, typed.second)

(* Whatever the server takes is all of what the client sent: no length is  *)
(* misread, and no request is cut short or left waiting.                   *)
NothingIsCut ==
  /\ outcome.does \notin {"wait"}
  /\ outcome.does \in {"alloc", "update"} =>
       outcome.first \o <<Nul>> \o outcome.second = request.data
  /\ outcome.does = "read" => outcome.first = request.data

-----------------------------------------------------------------------------
(* Two things the documents say of the clients' commands that the code     *)
(* does not do.                                                            *)

(* sdk/README.md:490: the texts between the quotes may have several words. *)
QuotedTextsArrive ==
  /\ outcome.does = "alloc" /\ typed.client = "sdk"
  /\ Without(Quote, typed.first \o typed.second)
  => outcome = Takes("alloc", typed.first, typed.second)

(* client.py:137: alloc returns the memory id. *)
AllocReturnsTheId == returned # <<>> => returned = <<Id>>
=============================================================================
