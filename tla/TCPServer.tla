------------------------------ MODULE TCPServer ------------------------------
(***************************************************************************)
(* The threads of the server and the ways it ends.  main reads the console *)
(* and ends by quit or at the end of its input; the acceptor runs          *)
(* TCPServer::Start; every accepted connection has a handler thread; and   *)
(* Ctrl+C makes the system run SignalHandler in a thread of its own.  The  *)
(* pool is its number of changes: what matters is which of them a Save     *)
(* holds, and which calls it overlaps.                                     *)
(***************************************************************************)
EXTENDS Integers, FiniteSets

CONSTANTS Clients,       \* the connections there can be
          NoClient,
          MaxRequests,   \* bound: the requests of one client
          MaxCommands    \* bound: the console commands

ASSUME ServerAssumption ==
  /\ IsFiniteSet(Clients)
  /\ NoClient \notin Clients
  /\ Clients \cap {"main"} = {}
  /\ MaxRequests \in Nat /\ MaxCommands \in Nat

VARIABLES
  process,    \* "up", or how it ended: "returned", "terminated", "signalled"
  pc,         \* where main and the signal thread are
  exit,       \* why main leaves its loop: "none", "quit", "end of input", or
              \* "early quit" when the server was not running at the time
  cleared,    \* whether main has set g_tcp_server and g_smp to null
  running,    \* running_
  listening,  \* whether listenSocket_ is listening
  acceptor,   \* where the acceptor is
  accepted,   \* the connection it has just accepted
  handler,    \* where each connection's thread is
  threads,    \* clientThreads_: the connections whose threads are joinable
  mutex,      \* the holder of threadsMutex_
  ends,       \* the clients' ends: "away", "open", "closed"
  unread,     \* the requests a connection holds
  sent,       \* the requests a client has sent, up to MaxRequests
  commands,   \* the console commands so far, up to MaxCommands
  changes,    \* the changes made to the pool
  inCall,     \* the threads that are inside one of its methods
  saving,     \* the threads inside Persistence::Save, and what they write
  file,       \* memory_pool.dat: its changes, and whether it is a whole pool
  stopped     \* history: the calls of Stop that went through to its end

outside    == <<ends, unread, sent>>
saves      == <<saving, file>>
pool       == <<changes, inCall, commands>>
serverVars == <<running, listening, threads, mutex, stopped>>
acceptVars == <<acceptor, accepted, handler>>
mainVars   == <<process, pc, exit, cleared>>
vars == <<mainVars, serverVars, acceptVars, outside, pool, saves>>

Callers == {"main", "signal"}
Free == "nobody"

Init ==
  /\ process = "up" /\ exit = "none" /\ cleared = FALSE
  /\ pc = [main |-> "console", signal |-> "none"]
  /\ running = FALSE /\ listening = FALSE
  /\ acceptor = "starting" /\ accepted = NoClient
  /\ handler = [c \in Clients |-> "none"]
  /\ threads = {} /\ mutex = Free /\ stopped = {}
  /\ ends = [c \in Clients |-> "away"]
  /\ unread = [c \in Clients |-> 0] /\ sent = [c \in Clients |-> 0]
  /\ commands = 0 /\ changes = 0 /\ inCall = {}
  /\ saving = [t \in {} |-> [version |-> 0, clean |-> TRUE]]
  /\ file = [version |-> 0, whole |-> TRUE]

Goto(t, place) == pc' = [pc EXCEPT ![t] = place]

-----------------------------------------------------------------------------
(* Calls into the pool.  They take no lock: a Save that overlaps one       *)
(* writes neither the pool before the call nor the pool after it.          *)
BeginCall(t) ==
  /\ inCall' = inCall \cup {t}
  /\ saving' = [s \in DOMAIN saving |-> [saving[s] EXCEPT !.clean = FALSE]]
  /\ UNCHANGED file

EndCall(t) ==
  /\ inCall' = inCall \ {t}
  /\ changes' \in {changes, changes + 1}

(* Two Saves at a time truncate and write the same file. *)
BeginSave(t) ==
  /\ pc[t] = "save"
  /\ Goto(t, "saving")
  /\ saving' = [s \in DOMAIN saving \cup {t} |->
                  [version |-> IF s = t THEN changes ELSE saving[s].version,
                   clean   |-> inCall = {} /\ DOMAIN saving = {}]]
  /\ file' = [file EXCEPT !.whole = FALSE]
  /\ UNCHANGED <<process, exit, cleared, serverVars, acceptVars, outside, pool>>

AfterSave(t) == IF t = "main" THEN "cleanup" ELSE "exit"

EndSave(t) ==
  /\ pc[t] = "saving"
  /\ Goto(t, AfterSave(t))
  /\ file' = [version |-> saving[t].version, whole |-> saving[t].clean]
  /\ saving' = [s \in DOMAIN saving \ {t} |-> saving[s]]
  /\ UNCHANGED <<process, exit, cleared, serverVars, acceptVars, outside, pool>>

-----------------------------------------------------------------------------
(* TCPServer::Stop, called by main (quit, and the destructor when main     *)
(* returns) and by SignalHandler.                                          *)
AfterStop(t) == IF t = "main" /\ cleared THEN "gone" ELSE "save"
Calls        == {"quit", "destructor", "signal"}
CallOf(t)    == IF t = "signal" THEN "signal" ELSE IF cleared THEN "destructor" ELSE "quit"

StopCheck(t) ==
  /\ pc[t] = "stop"
  /\ Goto(t, IF running THEN "stop flag" ELSE AfterStop(t))
  /\ UNCHANGED <<process, exit, cleared, serverVars, acceptVars, outside, pool, saves>>

StopFlag(t) ==
  /\ pc[t] = "stop flag"
  /\ running' = FALSE
  /\ Goto(t, "stop close")
  /\ UNCHANGED <<process, exit, cleared, listening, threads, mutex, stopped,
                 acceptVars, outside, pool, saves>>

StopClose(t) ==
  /\ pc[t] = "stop close"
  /\ listening' = FALSE
  /\ Goto(t, "stop lock")
  /\ UNCHANGED <<process, exit, cleared, running, threads, mutex, stopped,
                 acceptVars, outside, pool, saves>>

StopLock(t) ==
  /\ pc[t] = "stop lock" /\ mutex = Free
  /\ mutex' = t
  /\ Goto(t, "stop join")
  /\ UNCHANGED <<process, exit, cleared, running, listening, threads, stopped,
                 acceptVars, outside, pool, saves>>

StopWithoutJoin(t) ==
  /\ pc[t] = "stop join"
  /\ threads' = {} /\ mutex' = Free
  /\ stopped' = stopped \cup {CallOf(t)}
  /\ Goto(t, AfterStop(t))
  /\ UNCHANGED <<process, exit, cleared, running, listening, acceptVars, outside, pool, saves>>

(* The joins, the clear and the unlock. *)
StopJoin(t) ==
  /\ pc[t] = "stop join"
  /\ \A c \in threads : handler[c] = "ended"
  /\ threads' = {} /\ mutex' = Free
  /\ stopped' = stopped \cup {CallOf(t)}
  /\ Goto(t, AfterStop(t))
  /\ UNCHANGED <<process, exit, cleared, running, listening, acceptVars, outside, pool, saves>>

Stop(t) == StopCheck(t) \/ StopFlag(t) \/ StopClose(t) \/ StopLock(t) \/ StopJoin(t)

-----------------------------------------------------------------------------
(* main *)
Console ==
  /\ pc.main = "console" /\ commands < MaxCommands
  /\ commands' = commands + 1
  /\ Goto("main", "command")
  /\ BeginCall("main")
  /\ UNCHANGED <<process, exit, cleared, serverVars, acceptVars, outside, changes>>

ConsoleReturns ==
  /\ pc.main = "command"
  /\ Goto("main", "console")
  /\ EndCall("main")
  /\ UNCHANGED <<process, exit, cleared, serverVars, acceptVars, outside, commands, saves>>

QuitNow == IF running THEN "quit" ELSE "early quit"

QuitSavesFirst ==
  /\ pc.main = "console"
  /\ exit' = QuitNow
  /\ Goto("main", "save")
  /\ UNCHANGED <<process, cleared, serverVars, acceptVars, outside, pool, saves>>

Quit ==
  /\ pc.main = "console"
  /\ exit' = QuitNow
  /\ Goto("main", "stop")
  /\ UNCHANGED <<process, cleared, serverVars, acceptVars, outside, pool, saves>>

(* Ctrl+Z or a closed input: getline fails. *)
EndOfInput ==
  /\ pc.main = "console"
  /\ exit' = "end of input"
  /\ Goto("main", "save")
  /\ UNCHANGED <<process, cleared, serverVars, acceptVars, outside, pool, saves>>

(* The globals are cleared; then ~TCPServer calls Stop. *)
Cleanup ==
  /\ pc.main = "cleanup"
  /\ cleared' = TRUE
  /\ Goto("main", "stop")
  /\ UNCHANGED <<process, exit, serverVars, acceptVars, outside, pool, saves>>

(* The members of the server are destroyed.  A vector that still holds a   *)
(* joinable thread makes its destructor call std::terminate.               *)
Return ==
  /\ pc.main = "gone"
  /\ process' = IF threads = {} THEN "returned" ELSE "terminated"
  /\ UNCHANGED <<pc, exit, cleared, serverVars, acceptVars, outside, pool, saves>>

(* SignalHandler tests the two globals as it goes. *)
Signal ==
  /\ pc.signal = "none"
  /\ Goto("signal", IF cleared THEN "exit" ELSE "stop")
  /\ UNCHANGED <<process, exit, cleared, serverVars, acceptVars, outside, pool, saves>>

SignalFindsNoPool ==
  /\ pc.signal = "save" /\ cleared
  /\ Goto("signal", "exit")
  /\ UNCHANGED <<process, exit, cleared, serverVars, acceptVars, outside, pool, saves>>

SignalExits ==
  /\ pc.signal = "exit"
  /\ process' = "signalled"
  /\ UNCHANGED <<pc, exit, cleared, serverVars, acceptVars, outside, pool, saves>>

-----------------------------------------------------------------------------
(* The acceptor: Start *)
StartFails ==
  /\ acceptor = "starting"
  /\ acceptor' = "ended"
  /\ UNCHANGED <<mainVars, serverVars, accepted, handler, outside, pool, saves>>

Listen ==
  /\ acceptor = "starting"
  /\ listening' = TRUE
  /\ acceptor' = "listening"
  /\ UNCHANGED <<mainVars, running, threads, mutex, stopped, accepted, handler, outside, pool, saves>>

SetRunning ==
  /\ acceptor = "listening"
  /\ running' = TRUE
  /\ acceptor' = "loop"
  /\ UNCHANGED <<mainVars, listening, threads, mutex, stopped, accepted, handler, outside, pool, saves>>

AcceptLoop ==
  /\ acceptor = "loop"
  /\ acceptor' = IF running THEN "accept" ELSE "ended"
  /\ UNCHANGED <<mainVars, serverVars, accepted, handler, outside, pool, saves>>

AcceptFails ==
  /\ acceptor = "accept" /\ ~listening
  /\ acceptor' = "loop"
  /\ UNCHANGED <<mainVars, serverVars, accepted, handler, outside, pool, saves>>

Accept(c) ==
  /\ acceptor = "accept" /\ listening
  /\ ends[c] # "away" /\ handler[c] = "none"
  /\ accepted' = c
  /\ acceptor' = "accepted"
  /\ UNCHANGED <<mainVars, serverVars, handler, outside, pool, saves>>

HandOverKeepsLock ==
  /\ acceptor = "accepted" /\ mutex = Free
  /\ mutex' = "acceptor"
  /\ threads' = threads \cup {accepted}
  /\ handler' = [handler EXCEPT ![accepted] = "loop"]
  /\ accepted' = NoClient
  /\ acceptor' = "loop"
  /\ UNCHANGED <<mainVars, running, listening, stopped, outside, pool, saves>>

(* Under the lock, the thread is made and put into the vector. *)
HandOver ==
  /\ acceptor = "accepted" /\ mutex = Free
  /\ threads' = threads \cup {accepted}
  /\ handler' = [handler EXCEPT ![accepted] = "loop"]
  /\ accepted' = NoClient
  /\ acceptor' = "loop"
  /\ UNCHANGED <<mainVars, running, listening, mutex, stopped, outside, pool, saves>>

Acceptor == StartFails \/ Listen \/ SetRunning \/ AcceptLoop \/ AcceptFails
              \/ (\E c \in Clients : Accept(c)) \/ HandOver

-----------------------------------------------------------------------------
(* A handler thread: HandleClient *)
At(c, place) == handler' = [handler EXCEPT ![c] = place]

HandlerLoop(c) ==
  /\ handler[c] = "loop"
  /\ At(c, IF running THEN "receive" ELSE "ended")
  /\ UNCHANGED <<mainVars, serverVars, acceptor, accepted, outside, pool, saves>>

(* A request has been received: ProcessRequest calls the pool. *)
Receive(c) ==
  /\ handler[c] = "receive" /\ unread[c] > 0
  /\ unread' = [unread EXCEPT ![c] = @ - 1]
  /\ At(c, "call")
  /\ BeginCall(c)
  /\ UNCHANGED <<mainVars, serverVars, acceptor, accepted, ends, sent, changes, commands>>

(* The connection is closed, or the request is too long or malformed. *)
ReceiveFails(c) ==
  /\ handler[c] = "receive"
  /\ unread[c] > 0 \/ ends[c] = "closed"
  /\ At(c, "ended")
  /\ UNCHANGED <<mainVars, serverVars, acceptor, accepted, outside, pool, saves>>

CallReturns(c) ==
  /\ handler[c] = "call"
  /\ At(c, "respond")
  /\ EndCall(c)
  /\ UNCHANGED <<mainVars, serverVars, acceptor, accepted, outside, commands, saves>>

Respond(c) ==
  /\ handler[c] = "respond"
  /\ At(c, "loop")
  /\ UNCHANGED <<mainVars, serverVars, acceptor, accepted, outside, pool, saves>>

RespondFails(c) ==
  /\ handler[c] = "respond" /\ ends[c] = "closed"
  /\ At(c, "ended")
  /\ UNCHANGED <<mainVars, serverVars, acceptor, accepted, outside, pool, saves>>

Handler(c) == HandlerLoop(c) \/ Receive(c) \/ ReceiveFails(c) \/ CallReturns(c)
                \/ Respond(c) \/ RespondFails(c)

-----------------------------------------------------------------------------
(* The clients *)
Arrive(c) ==
  /\ ends[c] = "away" /\ listening
  /\ ends' = [ends EXCEPT ![c] = "open"]
  /\ UNCHANGED <<mainVars, serverVars, acceptVars, unread, sent, pool, saves>>

Send(c) ==
  /\ ends[c] = "open" /\ sent[c] < MaxRequests
  /\ sent' = [sent EXCEPT ![c] = @ + 1]
  /\ unread' = [unread EXCEPT ![c] = @ + 1]
  /\ UNCHANGED <<mainVars, serverVars, acceptVars, ends, pool, saves>>

Close(c) ==
  /\ ends[c] = "open"
  /\ ends' = [ends EXCEPT ![c] = "closed"]
  /\ UNCHANGED <<mainVars, serverVars, acceptVars, unread, sent, pool, saves>>

-----------------------------------------------------------------------------
Main == Stop("main") \/ BeginSave("main") \/ EndSave("main") \/ ConsoleReturns
          \/ Cleanup \/ Return
SignalThread == Stop("signal") \/ (~cleared /\ BeginSave("signal")) \/ EndSave("signal")
                  \/ SignalFindsNoPool \/ SignalExits
User == Console \/ Quit \/ EndOfInput \/ Signal
Client(c) == Arrive(c) \/ Send(c) \/ Close(c)

Ended == process # "up" /\ UNCHANGED vars

Next ==
  \/ process = "up" /\ (Main \/ SignalThread \/ User \/ Acceptor)
  \/ process = "up" /\ \E c \in Clients : Handler(c) \/ Client(c)
  \/ Ended

Spec == Init /\ [][Next]_vars

(* The system schedules every thread.  Nobody must type a command.         *)
ThreadsRun ==
  /\ WF_vars(process = "up" /\ Main)
  /\ WF_vars(process = "up" /\ SignalThread)
  /\ WF_vars(process = "up" /\ Acceptor)
  /\ \A c \in Clients : WF_vars(process = "up" /\ Handler(c))

(* A client with a connection sends something or closes it at some time.   *)
ClientsAct == \A c \in Clients : WF_vars(process = "up" /\ (Send(c) \/ Close(c)))

FairSpec == Spec /\ ThreadsRun /\ ClientsAct
IdleSpec == Spec /\ ThreadsRun

-----------------------------------------------------------------------------
(* Once a Stop has gone through to its end, no client's request is inside  *)
(* the pool, now or later: a connection accepted too late to be joined     *)
(* finds running_ off before it reads a request.                           *)
NoRequestAfterStop == stopped # {} => inCall \cap Clients = {}

(* What is saved is everything: no change comes after the Save began, and  *)
(* none is half applied in it.  On quit, if the server was running and no  *)
(* Ctrl+C interferes; on any way out of main's loop, if no client sent a   *)
(* request; and on Ctrl+C while the console is idle, if its Stop was the   *)
(* one that ran.  The end of the input with requests under way and Ctrl+C  *)
(* inside a command lose changes.                                          *)
MainAlone   == process \in {"returned", "terminated"} /\ pc.signal = "none"
SignalAlone == process = "signalled" /\ exit = "none" /\ commands = 0 /\ "signal" \in stopped

ExitSavesEverything ==
  \/ MainAlone /\ (exit = "quit" \/ \A c \in Clients : sent[c] = 0)
  \/ SignalAlone
  => file = [version |-> changes, whole |-> TRUE]

(* Once the user has typed quit the program ends, if every client sends or *)
(* closes some time: the acceptor does not stay in accept, the handlers    *)
(* end, and the lock of the thread list is free.                           *)
QuitEnds == exit \in {"quit", "early quit"} ~> process # "up"

-----------------------------------------------------------------------------
(* What the README says of the exits, and the code does not always do.     *)

(* README.md:177: quit saves.  Stop joins the handlers, and a handler      *)
(* waits in recv as long as its client neither sends nor closes.           *)
QuitSaves == exit = "quit" ~> pc.main \in {"cleanup", "gone"} \/ process # "up"

(* README.md:178: the end of the input (Ctrl+Z) saves.  It saves while the *)
(* server still serves.                                                    *)
EndOfInputSavesEverything ==
  process = "returned" /\ exit = "end of input" /\ pc.signal = "none" =>
    file = [version |-> changes, whole |-> TRUE]

(* README.md:178: Ctrl+C saves.  It saves in the middle of whatever main   *)
(* is doing.                                                               *)
SignalSavesEverything ==
  process = "signalled" => file = [version |-> changes, whole |-> TRUE]

(* README.md:173: the program ends gracefully. *)
EndsGracefully == process # "terminated"
=============================================================================
