---------------------------- MODULE CommandLine ----------------------------
(***************************************************************************)
(* What the console's alloc and update make of the line that is typed.     *)
(* The line is split at blanks first; quoted texts and paths are then put  *)
(* together again from the tokens.  A line is a sequence of glyphs: a      *)
(* letter, a blank, "@", a quote, or the ending ".txt" as one glyph.       *)
(***************************************************************************)
EXTENDS Words

CONSTANTS MaxDescription, MaxContent   \* bounds: glyphs between the quotes

VARIABLES typed,   \* the command, its two texts, and how they are written
          result   \* what the command does with the line

vars == <<typed, result>>

At     == "@"
Suffix == ".txt"
Glyphs == {"a", Blank, At, Suffix}

Texts(n) == UNION {[1 .. k -> Glyphs] : k \in 0 .. n}

-----------------------------------------------------------------------------
(* The tokens joined by single blanks up to the first one from the k-th on *)
(* that ends in a quote, without that quote; up to the last one, if none.  *)
Joined(tokens, k) ==
  LET closing == {i \in k .. Len(tokens) : Last(tokens[i]) = Quote}
      last    == IF closing = {} THEN Len(tokens) ELSE Min(closing)
      text    == FlattenSeq([i \in 1 .. last |->
                   IF i = 1 THEN tokens[1] ELSE <<Blank>> \o tokens[i]])
  IN  IF closing = {} THEN text ELSE Front(text)

ParseQuotedString(tokens) ==
  IF tokens = <<>> \/ Head(tokens)[1] # Quote THEN <<>>
  ELSE Tail(Joined(tokens, IF Len(Head(tokens)) > 1 THEN 1 ELSE 2))

From(tokens, k) == SubSeq(tokens, k, Len(tokens))

IsFilePath(content) ==
  content # <<>> /\ (Head(content) = At \/ Last(content) = Suffix)

ExtractFilePath(content) ==
  IF Head(content) # At THEN content
  ELSE LET path == Tail(content)
       IN  IF Len(path) >= 2 /\ Head(path) = Quote /\ Last(path) = Quote
           THEN Tail(Front(path)) ELSE path

-----------------------------------------------------------------------------
(* The content argument of alloc.  A token that begins with "@", wherever  *)
(* it stands after the second, is taken for a path.                        *)
PathArgument(tokens) ==
  LET first == Head(tokens)
  IN  IF Len(first) < 2 \/ first[2] # Quote THEN first
      ELSE IF Last(first) = Quote /\ Len(first) > 3
      THEN <<At>> \o SubSeq(first, 3, Len(first) - 1)
      ELSE <<At>> \o SubSeq(Joined(tokens, 2), 3, Len(Joined(tokens, 2)))

(* Else the content begins behind the token that ends the description: the *)
(* first token with a quote at its end, even if it is the opening quote.   *)
ContentIsThirdToken(tokens) == ParseQuotedString(From(tokens, 3))
TextArgument(tokens) ==
  LET opened(i) == \E j \in 2 .. i : tokens[j][1] = Quote
      ends      == {i \in 2 .. Len(tokens) : opened(i) /\ Last(tokens[i]) = Quote}
      begins    == IF ends = {} THEN 3 ELSE Min(ends) + 1
  IN  ParseQuotedString(From(tokens, begins))

PathFromContentOn(tokens) == TextArgument(tokens)
ContentArgument(tokens) ==
  LET paths == {i \in 3 .. Len(tokens) : tokens[i][1] = At}
  IN  IF paths # {} THEN PathArgument(From(tokens, Min(paths))) ELSE TextArgument(tokens)

(* alloc: refused, or the description with the text or with the path whose *)
(* file is read.  ReadFileContent refuses a path that does not end in .txt *)
(* (the other reasons for which it fails lie with the file).               *)
Refused == [does |-> "refuse", description |-> <<>>, content |-> <<>>]
Stores(description, text) == [does |-> "store", description |-> description, content |-> text]
Reads(description, path)  == [does |-> "read file", description |-> description, content |-> path]

Alloc(line) ==
  LET tokens      == Split(line)
      description == ParseQuotedString(From(tokens, 2))
      content     == ContentArgument(tokens)
      path        == ExtractFilePath(content)
  IN  IF Len(tokens) < 3 \/ description = <<>> \/ content = <<>> THEN Refused
      ELSE IF ~IsFilePath(content) THEN Stores(description, content)
      ELSE IF path # <<>> /\ Last(path) = Suffix THEN Reads(description, path)
      ELSE Refused

(* update <memory_id> "<content>" *)
Update(line) ==
  LET tokens  == Split(line)
      content == ParseQuotedString(From(tokens, 3))
  IN  IF Len(tokens) < 3 \/ content = <<>> THEN Refused ELSE Stores(<<>>, content)

-----------------------------------------------------------------------------
(* The lines that are typed: both arguments in quotes, or the second an    *)
(* "@" and a path in quotes, or the first without its quotes.              *)
Forms == {"alloc text", "alloc path", "alloc bare", "update"}

Line(t) ==
  CASE t.form = "alloc text" ->
         <<"alloc", Blank>> \o Quoted(t.description) \o <<Blank>> \o Quoted(t.content)
    [] t.form = "alloc path" ->
         <<"alloc", Blank>> \o Quoted(t.description) \o <<Blank, At>> \o Quoted(t.content)
    [] t.form = "alloc bare" ->
         <<"alloc", Blank>> \o t.description \o <<Blank>> \o Quoted(t.content)
    [] t.form = "update" -> <<"update", Blank, "a", Blank>> \o Quoted(t.content)

Nothing == [does |-> "nothing", description |-> <<>>, content |-> <<>>]

Init ==
  /\ typed \in [form : Forms, description : Texts(MaxDescription), content : Texts(MaxContent)]
  /\ result = Nothing

HandleCommand ==
  /\ result = Nothing
  /\ result' = IF typed.form = "update" THEN Update(Line(typed)) ELSE Alloc(Line(typed))
  /\ UNCHANGED typed

Next == HandleCommand

Spec == Init /\ [][Next]_vars

-----------------------------------------------------------------------------
Handled(form) == result # Nothing /\ typed.form = form

(* A text whose words are separated by single blanks, none before or after *)
(* them, and no word that begins with "@" (but the first).                 *)
Plain(text) ==
  /\ text # <<>> /\ Head(text) # Blank /\ Last(text) # Blank
  /\ \A i \in 1 .. Len(text) - 1 : text[i] = Blank => text[i + 1] \notin {Blank, At}

(* Plain texts reach the pool as they were typed: the three scans of the   *)
(* tokens (for the description, for an "@", for the end of the             *)
(* description) agree on where the content begins.  And a path in quotes   *)
(* is opened as it was typed, however many words the description has.      *)
PlainTextsAreTaken ==
  /\ Handled("alloc text") /\ Plain(typed.description) /\ Plain(typed.content)
       /\ Head(typed.content) # At /\ Last(typed.content) # Suffix
     => result = Stores(typed.description, typed.content)
  /\ Handled("alloc path") /\ Plain(typed.description) /\ Plain(typed.content)
       /\ Last(typed.content) = Suffix
     => result = Reads(typed.description, typed.content)

-----------------------------------------------------------------------------
(* Three things the documents say of the commands that the code does not   *)
(* do.                                                                     *)

(* README.md:129: alloc "<description>" "<content>" allocates the content  *)
(* with the description: what is stored is what stands in the quotes.      *)
StoresWhatIsQuoted ==
  Handled("alloc text") /\ result.does = "store"
    => result = Stores(typed.description, typed.content)

(* doc.md:673: a content is a path if it begins with "@" or ends in .txt.  *)
OnlyPathsAreOpened ==
  Handled("alloc text") /\ result.does = "read file" => IsFilePath(typed.content)

(* README.md:356: a description of one word needs no quotes. *)
BareDescriptionsAreTaken ==
  Handled("alloc bare") /\ typed.description = <<"a">> /\ Plain(typed.content) /\ ~IsFilePath(typed.content)
    => result.does = "store"
=============================================================================
