---------------------------- MODULE ConsoleExec ----------------------------
(***************************************************************************)
(* The console's loop and the command exec, which runs the lines of a file *)
(* as commands.  exec calls the command handler for each line, so a file   *)
(* can run other files, or itself.  A reset reads its password from the    *)
(* console, also when it stands in a file.                                 *)
(***************************************************************************)
EXTENDS Integers, FiniteSets, Sequences

CONSTANTS Files,       \* the names of the files there are
          MaxScript,   \* bound: lines of a file
          MaxInput,    \* bound: lines typed at the console
          MaxDepth     \* bound: files running at once before the stack is full

ASSUME ExecAssumption ==
  /\ MaxScript \in Nat /\ MaxInput \in Nat /\ MaxDepth \in Nat
  /\ Cardinality(Files) <= MaxDepth

VARIABLES script,  \* file -> its lines
          input,   \* what is still to be read from the console
          stack,   \* the files being run, the innermost last: the lines left
          done,    \* history: the commands that changed the pool
          state    \* of the program

vars == <<script, input, stack, done, state>>

(* A line is a command that changes the pool ("alloc", for any of them),   *)
(* quit, reset, the exec of a file, written as its name, or it does        *)
(* nothing: blank lines, comments, unknown commands, files that are not    *)
(* there.  Of those, the password on its own stands for all.               *)
Lines == {"alloc", "quit", "reset", "confirm_reset"} \cup Files

Scripts(n) == UNION {[1 .. k -> Lines] : k \in 0 .. n}

Init ==
  /\ script \in [Files -> Scripts(MaxScript)]
  /\ input \in Scripts(MaxInput)
  /\ stack = <<>>
  /\ done = <<>>
  /\ state = "prompt"

-----------------------------------------------------------------------------
(* HandleCommand, called for a line of the console (from = "prompt") or of *)
(* a file, with the console's lines `rest' still to come and the files     *)
(* `frames' running.  quit is not a command of it.                         *)
Does(command, rest) ==
  /\ done' = Append(done, command)
  /\ input' = rest

Ignored(rest) == input' = rest /\ UNCHANGED done

Reset(rest) ==
  IF rest # <<>> /\ Head(rest) = "confirm_reset" THEN Does("reset", Tail(rest))
  ELSE Ignored(IF rest = <<>> THEN rest ELSE Tail(rest))

(* Back to the loop of the innermost file, or to the prompt. *)
Return(frames) ==
  /\ stack' = frames
  /\ state' = IF frames = <<>> THEN "prompt" ELSE "running"

Exec(f, rest, frames) ==
  /\ IF Len(frames) = MaxDepth
     THEN state' = "overflow" /\ stack' = frames
     ELSE state' = "running" /\ stack' = Append(frames, script[f])
  /\ Ignored(rest)

HandleCommand(line, rest, frames) ==
  \/ line \in Files /\ Exec(line, rest, frames)
  \/ /\ line \notin Files
     /\ \/ line = "alloc" /\ Does(line, rest)
        \/ line = "reset" /\ Reset(rest)
        \/ line \notin {"alloc", "reset"} /\ Ignored(rest)
     /\ Return(frames)

-----------------------------------------------------------------------------
(* The loop of main: the end of the input or a quit ends the program.      *)
Prompt ==
  /\ state = "prompt"
  /\ IF input = <<>> \/ Head(input) = "quit"
     THEN /\ state' = "ended"
          /\ input' = IF input = <<>> THEN input ELSE Tail(input)
          /\ UNCHANGED <<stack, done>>
     ELSE HandleCommand(Head(input), Tail(input), <<>>)
  /\ UNCHANGED script

(* The loop of exec: the next line of the innermost file. *)
Outer == SubSeq(stack, 1, Len(stack) - 1)
Left  == stack[Len(stack)]

AtTheEnd == IF Left = <<>> THEN TRUE ELSE Head(Left) = "quit"

FromTheStart == stack
AfterLine    == Append(Outer, Tail(Left))

NextLine ==
  /\ state = "running" /\ ~AtTheEnd
  /\ HandleCommand(Head(Left), input, AfterLine)
  /\ UNCHANGED script

(* The end of the file, or a quit in it: back to who executed the file. *)
QuitEndsAllFiles == <<>>
Caller           == Outer

Finish ==
  /\ state = "running" /\ AtTheEnd
  /\ Return(Caller)
  /\ UNCHANGED <<script, input, done>>

Next == Prompt \/ NextLine \/ Finish

Spec == Init /\ [][Next]_vars /\ WF_vars(Next)

-----------------------------------------------------------------------------
(* No file runs itself, directly or through others. *)
Calls(f) == {g \in Files : \E i \in DOMAIN script[f] : script[f][i] = g}
Reached[n \in Nat] ==
  IF n = 0 THEN [f \in Files |-> Calls(f)]
  ELSE LET nearer == Reached[n - 1]
       IN  [f \in Files |-> nearer[f] \cup UNION {Calls(h) : h \in nearer[f]}]
Acyclic ==
  LET reached == Reached[Cardinality(Files)]
  IN  \A h \in Files : h \notin reached[h]

(* What the lines of a console and of its files mean, by the structure of  *)
(* the files instead of a stack: s.done so far, s.input still unread.      *)
RECURSIVE Meaning(_, _), MeaningOfAll(_, _)
Meaning(s, line) ==
  IF line \in Files THEN MeaningOfAll(s, script[line])
  ELSE IF line = "alloc" THEN [s EXCEPT !.done = Append(@, line)]
  ELSE IF line # "reset" \/ s.input = <<>> THEN s
  ELSE IF Head(s.input) # "confirm_reset" THEN [s EXCEPT !.input = Tail(@)]
  ELSE [input |-> Tail(s.input), done |-> Append(s.done, "reset")]
MeaningOfAll(s, lines) ==
  IF lines = <<>> \/ Head(lines) = "quit" THEN s
  ELSE MeaningOfAll(Meaning(s, Head(lines)), Tail(lines))

RECURSIVE MeaningOfInput(_)
MeaningOfInput(s) ==
  IF s.input = <<>> \/ Head(s.input) = "quit" THEN s
  ELSE MeaningOfInput(Meaning([s EXCEPT !.input = Tail(@)], Head(s.input)))

RECURSIVE MeaningOfStack(_, _)
MeaningOfStack(s, frames) ==
  IF frames = <<>> THEN MeaningOfInput(s)
  ELSE MeaningOfStack(MeaningOfAll(s, frames[Len(frames)]), SubSeq(frames, 1, Len(frames) - 1))

ToCome ==
  IF state = "ended" THEN done
  ELSE MeaningOfStack([input |-> input, done |-> done], stack).done

(* The program does what the lines mean from wherever it is: running the   *)
(* rest of the open files, innermost first, and then the rest of the input *)
(* adds to `done' what is to come.  The commands of nested files come in   *)
(* the order in which they stand, a quit in a file (README.md:187) stops   *)
(* that file and no other and not the program, and a reset takes the next  *)
(* line of the console, not of its file.                                   *)
FilesMeanTheirLines == [][Acyclic => ToCome' = ToCome]_vars

(* However files run each other, the prompt comes back and the program     *)
(* ends, unless a file runs itself.                                        *)
AcyclicFilesEnd == Acyclic => <>(state = "ended")
=============================================================================
