----------------------------- MODULE NetworkProofs -----------------------------
(***************************************************************************)
(* Proofs about the two ends of the network: the server's threads, and a   *)
(* client with its connection.  The two modules share no variable.         *)
(***************************************************************************)
EXTENDS TCPServer, ClientSession, SequenceTheorems, TLAPS

(***************************************************************************)
(* Stopping the server, for any number of connections, requests and        *)
(* commands: once a Stop has gone through, no request of a client is in    *)
(* the pool or will be; and quit has saved all changes.                    *)
(***************************************************************************)
(* NoRequestAfterStop by itself says nothing of the handlers that are      *)
(* about to call the pool.  What keeps them from it: running_ is set once, *)
(* before any connection is accepted, and stays off after a Stop; every    *)
(* handler that has not ended is on the list Stop joins, unless Stop has   *)
(* been; and one that was made after that has yet to test running_.        *)
Started  == acceptor \in {"loop", "accept", "accepted", "ended"}
Stopping == {"stop close", "stop lock", "stop join"}

Places ==
  /\ DOMAIN pc = Callers
  /\ DOMAIN handler = Clients
  /\ \A c \in Clients : handler[c] \in {"none", "loop", "receive", "call", "respond", "ended"}
  /\ acceptor = "accepted" => accepted \in Clients /\ handler[accepted] = "none"

RunsOnce ==
  /\ running \/ stopped # {} => Started
  /\ \A t \in Callers : pc[t] \in Stopping \cup {"stop flag"} => Started
  /\ \A t \in Callers : pc[t] \in Stopping => ~running
  /\ stopped # {} => ~running

HandlersListed ==
  /\ \A c \in Clients : handler[c] \in {"loop", "receive", "call", "respond"} => c \in threads
  /\ \A c \in Clients : c \in inCall => handler[c] = "call"

NoneServes == stopped # {} => \A c \in Clients : handler[c] \in {"none", "loop", "ended"}

StopInv == Places /\ RunsOnce /\ HandlersListed /\ NoneServes

(* The start: nothing runs. *)
LEMMA StopInvInit == Init => StopInv
BY DEF Init, StopInv, Places, RunsOnce, HandlersListed, NoneServes, Started, Stopping, Callers

(* A step of Stop, taken by main or by the signal thread. *)
LEMMA StopKeepsInv ==
  ASSUME StopInv, NEW t \in Callers, Stop(t)
  PROVE  StopInv'
<1>0. Places /\ RunsOnce /\ HandlersListed /\ NoneServes
  BY DEF StopInv
<1>1. CASE StopCheck(t)
  <2>1. /\ pc' = [pc EXCEPT ![t] = IF running THEN "stop flag" ELSE AfterStop(t)]
        /\ UNCHANGED <<running, threads, stopped, acceptor, accepted, handler, inCall>>
    BY <1>1 DEF StopCheck, Goto, serverVars, acceptVars, pool
  <2>2. AfterStop(t) \notin Stopping \cup {"stop flag"}
    BY DEF AfterStop, Stopping
  <2> QED
    BY <1>0, <2>1, <2>2 DEF StopInv, Places, RunsOnce, HandlersListed, NoneServes, Started, Stopping
<1>2. CASE StopFlag(t)
  <2>1. /\ pc[t] = "stop flag" /\ pc' = [pc EXCEPT ![t] = "stop close"] /\ running' = FALSE
        /\ UNCHANGED <<threads, stopped, acceptor, accepted, handler, inCall>>
    BY <1>2 DEF StopFlag, Goto, acceptVars, pool
  <2> QED
    BY <1>0, <2>1 DEF StopInv, Places, RunsOnce, HandlersListed, NoneServes, Started, Stopping
<1>3. CASE StopClose(t) \/ StopLock(t)
  <2>1. /\ pc[t] \in {"stop close", "stop lock"}
        /\ \/ pc' = [pc EXCEPT ![t] = "stop lock"]
           \/ pc' = [pc EXCEPT ![t] = "stop join"]
        /\ UNCHANGED <<running, threads, stopped, acceptor, accepted, handler, inCall>>
    BY <1>3 DEF StopClose, StopLock, Goto, acceptVars, pool
  <2> QED
    BY <1>0, <2>1 DEF StopInv, Places, RunsOnce, HandlersListed, NoneServes, Started, Stopping
<1>4. CASE StopJoin(t)
  <2>1. /\ pc[t] = "stop join" /\ pc' = [pc EXCEPT ![t] = AfterStop(t)]
        /\ \A c \in threads : handler[c] = "ended"
        /\ threads' = {} /\ stopped' = stopped \cup {CallOf(t)}
        /\ UNCHANGED <<running, acceptor, accepted, handler, inCall>>
    BY <1>4 DEF StopJoin, Goto, acceptVars, pool
  <2>2. AfterStop(t) \notin Stopping \cup {"stop flag"}
    BY DEF AfterStop, Stopping
  <2>3. \A c \in Clients : handler[c] \in {"none", "ended"}
    BY <1>0, <2>1 DEF Places, HandlersListed
  <2>4. Places' /\ RunsOnce'
    BY <1>0, <2>1, <2>2 DEF Places, RunsOnce, Started, Stopping
  <2>5. HandlersListed' /\ NoneServes'
    BY <1>0, <2>1, <2>3 DEF HandlersListed, NoneServes
  <2> QED
    BY <2>4, <2>5 DEF StopInv
<1> QED
  BY <1>1, <1>2, <1>3, <1>4 DEF Stop

(* The other steps of main, of the signal thread and of the user: they     *)
(* neither touch the server nor enter Stop beyond its first test.          *)
LEMMA MainKeepsInv ==
  ASSUME StopInv, NEW t \in Callers,
         \/ BeginSave(t) \/ EndSave(t) \/ Console \/ ConsoleReturns \/ Quit \/ EndOfInput
         \/ Cleanup \/ Return \/ Signal \/ SignalFindsNoPool \/ SignalExits
  PROVE  StopInv'
<1>0. Places /\ RunsOnce /\ HandlersListed /\ NoneServes
  BY DEF StopInv
<1>1. UNCHANGED <<running, threads, stopped, acceptor, accepted, handler>>
  BY DEF BeginSave, EndSave, Console, ConsoleReturns, Quit, EndOfInput, Cleanup, Return, Signal,
     SignalFindsNoPool, SignalExits, serverVars, acceptVars
<1>2. inCall' \cap Clients \subseteq inCall
  BY ServerAssumption DEF BeginSave, EndSave, Console, ConsoleReturns, Quit, EndOfInput, Cleanup,
     Return, Signal, SignalFindsNoPool, SignalExits, BeginCall, EndCall, pool
<1>3. \/ UNCHANGED pc
      \/ \E s \in Callers, place \in {"saving", "cleanup", "exit", "command", "console", "stop", "save"} :
           pc' = [pc EXCEPT ![s] = place]
  BY DEF BeginSave, EndSave, Console, ConsoleReturns, Quit, EndOfInput, Cleanup, Return, Signal,
     SignalFindsNoPool, SignalExits, Goto, AfterSave, Callers
<1>4. Places' /\ HandlersListed' /\ NoneServes'
  BY <1>0, <1>1, <1>2, <1>3 DEF Places, HandlersListed, NoneServes
<1>5. RunsOnce'
  BY <1>0, <1>1, <1>3 DEF Places, RunsOnce, Started, Stopping
<1> QED
  BY <1>4, <1>5 DEF StopInv

(* The acceptor.  The connection it hands over goes onto the list. *)
LEMMA AcceptorKeepsInv ==
  ASSUME StopInv, Acceptor
  PROVE  StopInv'
<1>0. Places /\ RunsOnce /\ HandlersListed /\ NoneServes
  BY DEF StopInv
<1>1. pc' = pc /\ inCall' = inCall /\ stopped' = stopped
  BY DEF Acceptor, StartFails, Listen, SetRunning, AcceptLoop, AcceptFails, Accept, HandOver,
     mainVars, serverVars, pool
<1>2. CASE HandOver
  <2>1. /\ acceptor = "accepted" /\ acceptor' = "loop" /\ running' = running
        /\ threads' = threads \cup {accepted}
        /\ handler' = [handler EXCEPT ![accepted] = "loop"]
    BY <1>2 DEF HandOver
  <2> QED
    BY <1>0, <1>1, <2>1 DEF StopInv, Places, RunsOnce, HandlersListed, NoneServes, Started
<1>3. CASE \E c \in Clients : Accept(c)
  <2>1. PICK c \in Clients : Accept(c)
    BY <1>3
  <2>2. /\ acceptor = "accept" /\ acceptor' = "accepted" /\ accepted' = c /\ handler[c] = "none"
        /\ UNCHANGED <<running, threads, handler>>
    BY <2>1 DEF Accept, serverVars
  <2> QED
    BY <1>0, <1>1, <2>2 DEF StopInv, Places, RunsOnce, HandlersListed, NoneServes, Started
<1>4. CASE SetRunning
  <2>1. acceptor = "listening" /\ acceptor' = "loop" /\ UNCHANGED <<threads, handler>>
    BY <1>4 DEF SetRunning
  <2>2. stopped = {} /\ \A t \in Callers : pc[t] \notin Stopping \cup {"stop flag"}
    BY <1>0, <2>1 DEF RunsOnce, Started
  <2> QED
    BY <1>0, <1>1, <2>1, <2>2 DEF StopInv, Places, RunsOnce, HandlersListed, NoneServes, Started, Stopping
<1>5. CASE StartFails \/ Listen \/ AcceptLoop \/ AcceptFails
  <2>1. /\ acceptor' \in {"ended", "listening", "accept", "loop"}
        /\ Started => Started'
        /\ UNCHANGED <<running, threads, handler>>
    BY <1>5 DEF StartFails, Listen, AcceptLoop, AcceptFails, serverVars, Started
  <2> QED
    BY <1>0, <1>1, <2>1 DEF StopInv, Places, RunsOnce, HandlersListed, NoneServes
<1> QED
  BY <1>2, <1>3, <1>4, <1>5 DEF Acceptor

(* A handler thread.  It tests running_ before it receives a request. *)
LEMMA HandlerKeepsInv ==
  ASSUME StopInv, NEW c \in Clients, Handler(c)
  PROVE  StopInv'
<1>0. Places /\ RunsOnce /\ HandlersListed /\ NoneServes
  BY DEF StopInv
<1>1. UNCHANGED <<pc, running, threads, stopped, acceptor, accepted>>
  BY DEF Handler, HandlerLoop, Receive, ReceiveFails, CallReturns, Respond, RespondFails,
     mainVars, serverVars
<1>2. RunsOnce'
  BY <1>0, <1>1 DEF RunsOnce, Started
<1>3. CASE HandlerLoop(c)
  <2>1. /\ handler[c] = "loop" /\ inCall' = inCall
        /\ handler' = [handler EXCEPT ![c] = IF running THEN "receive" ELSE "ended"]
    BY <1>3 DEF HandlerLoop, At, pool
  <2> QED
    BY <1>0, <1>1, <1>2, <2>1 DEF StopInv, Places, RunsOnce, HandlersListed, NoneServes
<1>4. CASE Receive(c)
  <2>1. /\ handler[c] = "receive" /\ inCall' = inCall \cup {c}
        /\ handler' = [handler EXCEPT ![c] = "call"]
    BY <1>4 DEF Receive, At, BeginCall
  <2> QED
    BY <1>0, <1>1, <1>2, <2>1 DEF StopInv, Places, HandlersListed, NoneServes
<1>5. CASE CallReturns(c)
  <2>1. /\ handler[c] = "call" /\ inCall' = inCall \ {c}
        /\ handler' = [handler EXCEPT ![c] = "respond"]
    BY <1>5 DEF CallReturns, At, EndCall
  <2> QED
    BY <1>0, <1>1, <1>2, <2>1 DEF StopInv, Places, HandlersListed, NoneServes
<1>6. CASE ReceiveFails(c) \/ Respond(c) \/ RespondFails(c)
  <2>1. /\ handler[c] \in {"receive", "respond"} /\ inCall' = inCall
        /\ \/ handler' = [handler EXCEPT ![c] = "loop"]
           \/ handler' = [handler EXCEPT ![c] = "ended"]
    BY <1>6 DEF ReceiveFails, Respond, RespondFails, At, pool
  <2> QED
    BY <1>0, <1>1, <1>2, <2>1 DEF StopInv, Places, HandlersListed, NoneServes
<1> QED
  BY <1>3, <1>4, <1>5, <1>6 DEF Handler

(* Every step keeps the invariant; the clients and the end of the process  *)
(* do not touch it.                                                        *)
THEOREM StopStaysInvariant == Spec => []StopInv
<1>1. StopInv /\ [Next]_vars => StopInv'
  <2> SUFFICES ASSUME StopInv, [Next]_vars PROVE StopInv'
    OBVIOUS
  <2>1. CASE Main \/ SignalThread \/ User
    BY <2>1, StopKeepsInv, MainKeepsInv DEF Main, SignalThread, User, Callers
  <2>2. CASE Acceptor
    BY <2>2, AcceptorKeepsInv
  <2>3. CASE \E c \in Clients : Handler(c)
    BY <2>3, HandlerKeepsInv
  <2>4. CASE \/ \E c \in Clients : Client(c)
             \/ UNCHANGED vars
    <3>1. UNCHANGED <<pc, running, threads, stopped, acceptor, accepted, handler, inCall>>
      BY <2>4 DEF Client, Arrive, Send, Close, vars, mainVars, serverVars, acceptVars, pool
    <3> QED
      BY <3>1 DEF StopInv, Places, RunsOnce, HandlersListed, NoneServes, Started, Stopping
  <2> QED
    BY <2>1, <2>2, <2>3, <2>4 DEF Next, Ended
<1> QED
  BY <1>1, StopInvInit, PTL DEF Spec

(* Once a Stop has gone through to its end, no client's request is inside  *)
(* the pool, now or later, also not one of a connection that was accepted  *)
(* while Stop ran.                                                         *)
THEOREM StopEndsRequests == Spec => []NoRequestAfterStop
<1>1. StopInv => NoRequestAfterStop
  BY DEF StopInv, HandlersListed, NoneServes, NoRequestAfterStop
<1> QED
  BY <1>1, StopStaysInvariant, PTL

-----------------------------------------------------------------------------
(* What is in the file at the end.  ExitSavesEverything looks at the end   *)
(* of the process only; on the way there: where main and the signal thread *)
(* can be, who is inside the pool or a Save, that no request means no      *)
(* call, that quit goes through a whole Stop before it saves, and what a   *)
(* Save that nothing overlaps holds.                                       *)
Stops     == Stopping \cup {"stop", "stop flag"}
AtConsole == {"console", "command"}

ExitOrder ==
  /\ pc["main"] \in AtConsole \cup Stops \cup {"save", "saving", "cleanup", "gone"}
  /\ pc["signal"] \in Stops \cup {"none", "save", "saving", "exit"}
  /\ exit = "none" <=> pc["main"] \in AtConsole
  /\ cleared => pc["main"] \in Stops \cup {"gone"}
  /\ pc["main"] = "gone" => cleared
  /\ commands \in Nat /\ (pc["main"] = "command" => commands > 0)
  /\ process \in {"returned", "terminated"} => pc["main"] = "gone"
  /\ process = "signalled" => pc["signal"] = "exit"
  /\ "signal" \in stopped => pc["signal"] \in {"save", "saving", "exit"}

CallsAndSaves ==
  /\ inCall \subseteq Clients \cup {"main"}
  /\ "main" \in inCall => pc["main"] = "command"
  /\ DOMAIN saving = {t \in Callers : pc[t] = "saving"}

Requests ==
  /\ DOMAIN sent = Clients /\ DOMAIN unread = Clients
  /\ \A c \in Clients : sent[c] \in Nat
  /\ \A c \in Clients : sent[c] = 0 => unread[c] = 0 /\ handler[c] # "call"

QuitStops ==
  exit = "quit" /\ pc["signal"] = "none" =>
    \/ ~cleared /\ pc["main"] \in {"stop", "stop flag"} /\ running
    \/ ~cleared /\ pc["main"] \in Stopping
    \/ stopped # {}

NoRequests   == \A c \in Clients : sent[c] = 0
Whole        == file = [version |-> changes, whole |-> TRUE]
CleanSave(t) == saving[t] = [version |-> changes, clean |-> TRUE]

MainExits   == pc["signal"] = "none" /\ exit # "none" /\ (exit = "quit" \/ NoRequests)
SignalExit  == exit = "none" /\ commands = 0 /\ "signal" \in stopped

MainSaves ==
  MainExits => /\ pc["main"] = "saving" => CleanSave("main")
               /\ pc["main"] = "cleanup" \/ cleared => Whole
SignalSaves ==
  SignalExit => /\ pc["signal"] = "saving" => CleanSave("signal")
                /\ pc["signal"] = "exit" => Whole

ExitInv == ExitOrder /\ CallsAndSaves /\ Requests /\ QuitStops /\ MainSaves /\ SignalSaves

(* The start. *)
LEMMA ExitInvInit == Init => ExitInv
<1> SUFFICES ASSUME Init PROVE ExitInv
  OBVIOUS
<1>1. /\ pc["main"] = "console" /\ pc["signal"] = "none" /\ exit = "none" /\ cleared = FALSE
      /\ commands = 0 /\ process = "up" /\ stopped = {} /\ inCall = {} /\ DOMAIN saving = {}
      /\ sent = [c \in Clients |-> 0] /\ unread = [c \in Clients |-> 0]
      /\ handler = [c \in Clients |-> "none"]
  BY DEF Init
<1>2. ExitOrder /\ CallsAndSaves
  BY <1>1 DEF ExitOrder, CallsAndSaves, AtConsole, Callers
<1>3. Requests /\ QuitStops /\ MainSaves /\ SignalSaves
  BY <1>1 DEF Requests, QuitStops, MainSaves, SignalSaves, MainExits, SignalExit
<1> QED
  BY <1>2, <1>3 DEF ExitInv

(* From the moment either of them saves on, no client calls the pool. *)
LEMMA NoCalls ==
  ASSUME StopInv, ExitInv,
         \/ MainExits /\ (pc["main"] \in {"save", "saving", "cleanup"} \/ cleared)
         \/ SignalExit
  PROVE  /\ inCall = {}
         /\ \A c \in Clients : handler[c] # "call" /\ (handler[c] = "receive" => unread[c] = 0)
<1>1. ExitOrder /\ CallsAndSaves /\ Requests /\ QuitStops
  BY DEF ExitInv
<1>2. HandlersListed /\ NoneServes
  BY DEF StopInv
<1>3. stopped # {} \/ NoRequests
  <2>1. CASE SignalExit
    BY <2>1 DEF SignalExit
  <2>2. CASE MainExits /\ exit = "quit" /\ (pc["main"] \in {"save", "saving", "cleanup"} \/ cleared)
    BY <1>1, <2>2 DEF MainExits, QuitStops, Stopping
  <2> QED
    BY <2>1, <2>2 DEF MainExits
<1>4. \A c \in Clients : handler[c] # "call" /\ (handler[c] = "receive" => unread[c] = 0)
  BY <1>1, <1>2, <1>3 DEF NoneServes, NoRequests, Requests
<1>5. "main" \notin inCall
  <2>1. CASE SignalExit
    BY <1>1, <2>1 DEF SignalExit, ExitOrder, CallsAndSaves
  <2>2. CASE MainExits
    BY <1>1, <2>2 DEF MainExits, ExitOrder, CallsAndSaves, AtConsole
  <2> QED
    BY <2>1, <2>2
<1>6. \A c \in Clients : c \notin inCall
  BY <1>2, <1>4 DEF HandlersListed
<1> QED
  BY <1>1, <1>4, <1>5, <1>6 DEF CallsAndSaves

(* A step of Stop: it neither calls the pool nor saves. *)
LEMMA StopKeepsExitInv ==
  ASSUME StopInv, ExitInv, NEW t \in Callers, Stop(t)
  PROVE  ExitInv'
<1>0. ExitOrder /\ CallsAndSaves /\ Requests /\ QuitStops /\ MainSaves /\ SignalSaves
  BY DEF ExitInv
<1>1. DOMAIN pc = Callers /\ Callers = {"main", "signal"}
  BY DEF StopInv, Places, Callers
<1>2. UNCHANGED <<process, exit, cleared, handler, sent, unread, commands, changes, inCall, saving, file>>
  BY DEF Stop, StopCheck, StopFlag, StopClose, StopLock, StopJoin, acceptVars, outside, pool, saves
<1>3. /\ pc[t] \in Stops
      /\ \/ pc[t] = "stop" /\ running /\ pc' = [pc EXCEPT ![t] = "stop flag"]
            /\ UNCHANGED <<running, stopped>>
         \/ pc[t] = "stop" /\ ~running /\ pc' = [pc EXCEPT ![t] = AfterStop(t)]
            /\ UNCHANGED <<running, stopped>>
         \/ pc[t] = "stop flag" /\ pc' = [pc EXCEPT ![t] = "stop close"] /\ UNCHANGED stopped
         \/ pc[t] \in Stopping /\ (\E place \in Stopping : pc' = [pc EXCEPT ![t] = place])
            /\ UNCHANGED <<running, stopped>>
         \/ pc[t] \in Stopping /\ pc' = [pc EXCEPT ![t] = AfterStop(t)]
            /\ stopped' = stopped \cup {CallOf(t)}
  BY DEF Stop, StopCheck, StopFlag, StopClose, StopLock, StopJoin, Goto, Stops, Stopping, serverVars
<1>4. /\ AfterStop("main") = IF cleared THEN "gone" ELSE "save"
      /\ AfterStop("signal") = "save"
      /\ CallOf("main") # "signal"
  BY DEF AfterStop, CallOf
<1>5. /\ stopped \subseteq stopped'
      /\ t = "main" /\ "signal" \in stopped' => "signal" \in stopped
  BY <1>3, <1>4
<1>6. CallsAndSaves' /\ Requests'
  <2>1. pc'[t] # "saving" /\ pc[t] \notin {"saving", "command"}
    BY <1>1, <1>3, <1>4 DEF Stops, Stopping
  <2>2. \A u \in Callers : u # t => pc'[u] = pc[u]
    BY <1>1, <1>3
  <2>3. {u \in Callers : pc'[u] = "saving"} = {u \in Callers : pc[u] = "saving"}
    BY <2>1, <2>2
  <2>4. "main" \in inCall => pc'["main"] = "command"
    BY <1>0, <1>1, <2>1, <2>2 DEF CallsAndSaves
  <2> QED
    BY <1>0, <1>2, <2>3, <2>4 DEF CallsAndSaves, Requests, Callers
<1>7. CASE t = "main"
  <2>1. pc["main"] \in Stops /\ pc'["signal"] = pc["signal"] /\ exit # "none"
    BY <1>0, <1>1, <1>3, <1>7 DEF ExitOrder, Stops, Stopping, AtConsole
  <2>2. pc'["main"] \in Stops \cup (IF cleared THEN {"gone"} ELSE {"save"})
    BY <1>1, <1>3, <1>4, <1>7 DEF Stops, Stopping
  <2>3. ExitOrder'
    BY <1>0, <1>2, <1>5, <1>7, <2>1, <2>2 DEF ExitOrder, Stops, Stopping, AtConsole
  <2>4. QuitStops'
    <3> SUFFICES ASSUME exit = "quit", pc["signal"] = "none", stopped = {}
                 PROVE  QuitStops'
      BY <1>2, <1>5, <2>1 DEF QuitStops
    <3>1. /\ ~cleared
          /\ \/ pc["main"] \in {"stop", "stop flag"} /\ running
             \/ pc["main"] \in Stopping
      BY <1>0 DEF QuitStops
    <3>2. CASE pc["main"] = "stop" /\ running
      <4>1. pc'["main"] = "stop flag" /\ running'
        BY <1>1, <1>3, <1>7, <3>2 DEF Stopping
      <4> QED
        BY <1>2, <3>1, <4>1 DEF QuitStops
    <3>3. CASE pc["main"] = "stop flag"
      <4>1. pc'["main"] = "stop close"
        BY <1>1, <1>3, <1>7, <3>3 DEF Stopping
      <4> QED
        BY <1>2, <3>1, <4>1 DEF QuitStops, Stopping
    <3>4. CASE pc["main"] \in Stopping
      <4>1. pc'["main"] \in Stopping \/ stopped' # {}
        BY <1>1, <1>3, <1>7, <3>4 DEF Stopping
      <4> QED
        BY <1>2, <3>1, <4>1 DEF QuitStops
    <3> QED
      BY <3>1, <3>2, <3>3, <3>4
  <2>5. MainSaves'
    BY <1>0, <1>2, <2>1, <2>2
       DEF MainSaves, MainExits, Whole, CleanSave, NoRequests, Stops, Stopping
  <2>6. SignalSaves'
    BY <1>2, <2>1 DEF SignalSaves, SignalExit
  <2> QED
    BY <1>6, <2>3, <2>4, <2>5, <2>6 DEF ExitInv
<1>8. CASE t = "signal"
  <2>1. pc["signal"] \in Stops /\ pc'["signal"] \in Stops \cup {"save"} /\ pc'["main"] = pc["main"]
    BY <1>1, <1>3, <1>4, <1>8 DEF Stops, Stopping
  <2>2. "signal" \in stopped' => pc'["signal"] = "save"
    BY <1>0, <1>1, <1>3, <1>4, <1>8, <2>1 DEF ExitOrder, Stops, Stopping
  <2>3. ExitOrder'
    BY <1>0, <1>2, <2>1, <2>2 DEF ExitOrder, Stops, Stopping, AtConsole
  <2>4. QuitStops' /\ MainSaves'
    BY <2>1 DEF QuitStops, MainSaves, MainExits, Stops, Stopping
  <2>5. SignalSaves'
    BY <2>1 DEF SignalSaves, Stops, Stopping
  <2> QED
    BY <1>6, <2>3, <2>4, <2>5 DEF ExitInv
<1> QED
  BY <1>1, <1>7, <1>8

(* A Save: it holds all changes, if nothing can overlap it. *)
LEMMA SaveKeepsExitInv ==
  ASSUME StopInv, ExitInv, NEW t \in Callers, BeginSave(t) \/ EndSave(t)
  PROVE  ExitInv'
<1>0. ExitOrder /\ CallsAndSaves /\ Requests /\ QuitStops /\ MainSaves /\ SignalSaves
  BY DEF ExitInv
<1>1. DOMAIN pc = Callers /\ Callers = {"main", "signal"}
  BY DEF StopInv, Places, Callers
<1>2. UNCHANGED <<process, exit, cleared, running, stopped, handler, sent, unread, commands, changes, inCall>>
  BY DEF BeginSave, EndSave, serverVars, acceptVars, outside, pool
<1>3. /\ pc[t] \in {"save", "saving"}
      /\ pc' = [pc EXCEPT ![t] = IF pc[t] = "save" THEN "saving" ELSE AfterSave(t)]
      /\ AfterSave("main") = "cleanup" /\ AfterSave("signal") = "exit"
  BY DEF BeginSave, EndSave, Goto, AfterSave
<1>4. pc'[t] \in {"saving", "cleanup", "exit"} /\ \A u \in Callers : u # t => pc'[u] = pc[u]
  BY <1>1, <1>3
<1>5. DOMAIN saving' = {u \in Callers : pc'[u] = "saving"}
  <2>1. CASE BeginSave(t)
    <3>1. DOMAIN saving' = DOMAIN saving \cup {t} /\ pc'[t] = "saving"
      BY <1>1, <2>1 DEF BeginSave, Goto
    <3> QED
      BY <1>0, <1>4, <3>1 DEF CallsAndSaves
  <2>2. CASE EndSave(t)
    <3>1. DOMAIN saving' = DOMAIN saving \ {t} /\ pc'[t] # "saving"
      BY <1>1, <1>3, <2>2 DEF EndSave
    <3> QED
      BY <1>0, <1>4, <3>1 DEF CallsAndSaves
  <2> QED
    BY <2>1, <2>2
<1>6. CallsAndSaves' /\ Requests'
  <2>1. "main" \in inCall => pc'["main"] = "command"
    BY <1>0, <1>1, <1>3, <1>4 DEF CallsAndSaves
  <2>2. Callers' = Callers
    BY DEF Callers
  <2> QED
    BY <1>0, <1>2, <1>5, <2>1, <2>2 DEF CallsAndSaves, Requests
<1>7. ASSUME BeginSave(t), inCall = {}, DOMAIN saving = {} PROVE CleanSave(t)'
  BY <1>2, <1>7 DEF BeginSave, CleanSave
<1>8. ASSUME EndSave(t), CleanSave(t) PROVE Whole'
  <2>1. /\ file' = [version |-> saving[t].version, whole |-> saving[t].clean]
        /\ saving[t] = [version |-> changes, clean |-> TRUE]
    BY <1>8 DEF EndSave, CleanSave
  <2> QED
    BY <1>2, <2>1 DEF Whole
<1>9. CASE t = "main"
  <2>1. /\ pc["main"] \in {"save", "saving"} /\ pc'["signal"] = pc["signal"]
        /\ pc'["main"] \in {"saving", "cleanup"}
        /\ exit # "none" /\ ~cleared
    BY <1>0, <1>1, <1>3, <1>9 DEF ExitOrder, Stops, Stopping, AtConsole
  <2>2. ExitOrder'
    BY <1>0, <1>2, <2>1 DEF ExitOrder, AtConsole
  <2>3. QuitStops'
    BY <1>0, <1>2, <2>1 DEF QuitStops, Stopping
  <2>4. MainSaves'
    <3> SUFFICES ASSUME MainExits'
                 PROVE  /\ pc'["main"] = "saving" => CleanSave("main")'
                        /\ pc'["main"] = "cleanup" => Whole'
      BY <1>2, <2>1 DEF MainSaves
    <3>1. MainExits
      BY <1>2, <2>1 DEF MainExits, NoRequests
    <3>2. ASSUME pc'["main"] = "saving" PROVE CleanSave("main")'
      <4>1. BeginSave(t) /\ pc["main"] = "save"
        BY <1>1, <1>3, <1>9, <3>2 DEF EndSave, BeginSave
      <4>2. inCall = {}
        BY <2>1, <3>1, NoCalls
      <4>3. DOMAIN saving = {}
        BY <1>0, <1>1, <3>1, <4>1 DEF CallsAndSaves, MainExits
      <4> QED
        BY <1>7, <1>9, <4>1, <4>2, <4>3
    <3>3. ASSUME pc'["main"] = "cleanup" PROVE Whole'
      <4>1. EndSave(t) /\ pc["main"] = "saving"
        BY <1>1, <1>3, <1>9, <3>3 DEF EndSave, BeginSave
      <4>2. CleanSave("main")
        BY <1>0, <3>1, <4>1 DEF MainSaves
      <4> QED
        BY <1>8, <1>9, <4>1, <4>2
    <3> QED
      BY <3>2, <3>3
  <2>5. SignalSaves'
    BY <1>2, <2>1 DEF SignalSaves, SignalExit
  <2> QED
    BY <1>6, <2>2, <2>3, <2>4, <2>5 DEF ExitInv
<1>10. CASE t = "signal"
  <2>1. /\ pc["signal"] \in {"save", "saving"} /\ pc'["main"] = pc["main"]
        /\ pc'["signal"] \in {"saving", "exit"}
    BY <1>1, <1>3, <1>10
  <2>2. ExitOrder'
    BY <1>0, <1>2, <2>1 DEF ExitOrder, AtConsole
  <2>3. QuitStops' /\ MainSaves'
    BY <2>1 DEF QuitStops, MainSaves, MainExits
  <2>4. SignalSaves'
    <3> SUFFICES ASSUME SignalExit'
                 PROVE  /\ pc'["signal"] = "saving" => CleanSave("signal")'
                        /\ pc'["signal"] = "exit" => Whole'
      BY DEF SignalSaves
    <3>1. SignalExit
      BY <1>2 DEF SignalExit
    <3>2. ASSUME pc'["signal"] = "saving" PROVE CleanSave("signal")'
      <4>1. BeginSave(t) /\ pc["signal"] = "save"
        BY <1>1, <1>3, <1>10, <3>2 DEF EndSave, BeginSave
      <4>2. inCall = {}
        BY <3>1, NoCalls
      <4>3. DOMAIN saving = {}
        BY <1>0, <1>1, <3>1, <4>1 DEF CallsAndSaves, SignalExit, ExitOrder, AtConsole
      <4> QED
        BY <1>7, <1>10, <4>1, <4>2, <4>3
    <3>3. ASSUME pc'["signal"] = "exit" PROVE Whole'
      <4>1. EndSave(t) /\ pc["signal"] = "saving"
        BY <1>1, <1>3, <1>10, <3>3 DEF EndSave, BeginSave
      <4>2. CleanSave("signal")
        BY <1>0, <3>1, <4>1 DEF SignalSaves
      <4> QED
        BY <1>8, <1>10, <4>1, <4>2
    <3> QED
      BY <3>2, <3>3
  <2> QED
    BY <1>6, <2>2, <2>3, <2>4 DEF ExitInv
<1> QED
  BY <1>1, <1>9, <1>10

(* The other steps of main, of the signal thread and of the user. *)
LEMMA MainKeepsExitInv ==
  ASSUME StopInv, ExitInv,
         \/ Console \/ ConsoleReturns \/ Quit \/ EndOfInput
         \/ Cleanup \/ Return \/ Signal \/ SignalFindsNoPool \/ SignalExits
  PROVE  ExitInv'
<1>0. ExitOrder /\ CallsAndSaves /\ Requests /\ QuitStops /\ MainSaves /\ SignalSaves
  BY DEF ExitInv
<1>1. DOMAIN pc = Callers /\ Callers = {"main", "signal"} /\ Callers' = Callers
  BY DEF StopInv, Places, Callers
<1>2. UNCHANGED <<running, stopped, handler, sent, unread, file>>
  BY DEF Console, ConsoleReturns, Quit, EndOfInput, Cleanup, Return, Signal, SignalFindsNoPool,
         SignalExits, BeginCall, serverVars, acceptVars, outside, saves
<1>3. Requests'
  BY <1>0, <1>2 DEF Requests
<1>4. CASE Console
  <2>1. /\ pc["main"] = "console" /\ pc' = [pc EXCEPT !["main"] = "command"]
        /\ commands' = commands + 1 /\ inCall' = inCall \cup {"main"}
        /\ DOMAIN saving' = DOMAIN saving
        /\ UNCHANGED <<process, exit, cleared>>
    BY <1>4 DEF Console, Goto, BeginCall
  <2>2. /\ pc'["main"] = "command" /\ pc'["signal"] = pc["signal"] /\ exit = "none"
        /\ commands' \in Nat /\ commands' > 0
    BY <1>0, <1>1, <2>1 DEF ExitOrder, AtConsole
  <2>3. ExitOrder'
    BY <1>0, <1>2, <2>1, <2>2 DEF ExitOrder, Stops, Stopping, AtConsole
  <2>4. CallsAndSaves'
    BY <1>0, <1>1, <2>1, <2>2 DEF CallsAndSaves
  <2>5. QuitStops' /\ MainSaves' /\ SignalSaves'
    BY <2>1, <2>2 DEF QuitStops, MainSaves, MainExits, SignalSaves, SignalExit
  <2> QED
    BY <1>3, <2>3, <2>4, <2>5 DEF ExitInv
<1>5. CASE ConsoleReturns
  <2>1. /\ pc["main"] = "command" /\ pc' = [pc EXCEPT !["main"] = "console"]
        /\ inCall' = inCall \ {"main"}
        /\ UNCHANGED <<process, exit, cleared, commands, saving>>
    BY <1>5 DEF ConsoleReturns, Goto, EndCall, saves
  <2>2. /\ pc'["main"] = "console" /\ pc'["signal"] = pc["signal"] /\ exit = "none"
        /\ commands \in Nat /\ commands > 0
    BY <1>0, <1>1, <2>1 DEF ExitOrder, AtConsole
  <2>3. ExitOrder'
    BY <1>0, <1>2, <2>1, <2>2 DEF ExitOrder, Stops, Stopping, AtConsole
  <2>4. CallsAndSaves'
    BY <1>0, <1>1, <2>1, <2>2 DEF CallsAndSaves
  <2>5. QuitStops' /\ MainSaves' /\ SignalSaves'
    BY <2>1, <2>2 DEF QuitStops, MainSaves, MainExits, SignalSaves, SignalExit
  <2> QED
    BY <1>3, <2>3, <2>4, <2>5 DEF ExitInv
<1>6. CASE Quit \/ EndOfInput
  <2>1. /\ pc["main"] = "console"
        /\ \/ exit' \in {"quit", "early quit"} /\ pc' = [pc EXCEPT !["main"] = "stop"]
              /\ (exit' = "quit" => running)
           \/ exit' = "end of input" /\ pc' = [pc EXCEPT !["main"] = "save"]
        /\ UNCHANGED <<process, cleared, commands, inCall, saving>>
    BY <1>6 DEF Quit, EndOfInput, QuitNow, Goto, pool, saves
  <2>2. /\ pc'["main"] \in {"stop", "save"} /\ pc'["signal"] = pc["signal"]
        /\ exit' # "none" /\ ~cleared
        /\ exit' = "quit" => pc'["main"] = "stop" /\ running
    BY <1>0, <1>1, <2>1 DEF ExitOrder, Stops, Stopping
  <2>3. ExitOrder'
    BY <1>0, <1>2, <2>1, <2>2 DEF ExitOrder, Stops, Stopping, AtConsole
  <2>4. CallsAndSaves'
    BY <1>0, <1>1, <2>1, <2>2 DEF CallsAndSaves
  <2>5. QuitStops' /\ MainSaves' /\ SignalSaves'
    BY <1>2, <2>1, <2>2 DEF QuitStops, MainSaves, MainExits, SignalSaves, SignalExit
  <2> QED
    BY <1>3, <2>3, <2>4, <2>5 DEF ExitInv
<1>7. CASE Cleanup
  <2>1. /\ pc["main"] = "cleanup" /\ pc' = [pc EXCEPT !["main"] = "stop"] /\ cleared' = TRUE
        /\ UNCHANGED <<process, exit, commands, changes, inCall, saving>>
    BY <1>7 DEF Cleanup, Goto, pool, saves
  <2>2. pc'["main"] = "stop" /\ pc'["signal"] = pc["signal"] /\ exit # "none"
    BY <1>0, <1>1, <2>1 DEF ExitOrder, AtConsole
  <2>3. ExitOrder'
    BY <1>0, <1>2, <2>1, <2>2 DEF ExitOrder, Stops, Stopping, AtConsole
  <2>4. CallsAndSaves'
    BY <1>0, <1>1, <2>1, <2>2 DEF CallsAndSaves
  <2>5. QuitStops' /\ MainSaves' /\ SignalSaves'
    BY <1>0, <1>2, <2>1, <2>2
       DEF QuitStops, MainSaves, MainExits, SignalSaves, SignalExit, NoRequests, Whole, Stopping
  <2> QED
    BY <1>3, <2>3, <2>4, <2>5 DEF ExitInv
<1>8. CASE Signal \/ SignalFindsNoPool
  <2>1. /\ pc["signal"] \in {"none", "save"}
        /\ pc["signal"] = "save" => cleared
        /\ pc' = [pc EXCEPT !["signal"] = IF cleared THEN "exit" ELSE "stop"]
        /\ UNCHANGED <<process, exit, cleared, commands, inCall, saving>>
    BY <1>8 DEF Signal, SignalFindsNoPool, Goto, pool, saves
  <2>2. /\ pc'["signal"] \in {"exit", "stop"} /\ pc'["main"] = pc["main"]
        /\ pc'["signal"] = "exit" => exit # "none"
        /\ "signal" \in stopped => pc'["signal"] = "exit"
    BY <1>0, <1>1, <2>1 DEF ExitOrder, Stops, Stopping, AtConsole
  <2>3. ExitOrder'
    BY <1>0, <1>2, <2>1, <2>2 DEF ExitOrder, Stops, AtConsole
  <2>4. CallsAndSaves'
    BY <1>0, <1>1, <2>1, <2>2 DEF CallsAndSaves
  <2>5. QuitStops' /\ MainSaves' /\ SignalSaves'
    BY <2>1, <2>2 DEF QuitStops, MainSaves, MainExits, SignalSaves, SignalExit
  <2> QED
    BY <1>3, <2>3, <2>4, <2>5 DEF ExitInv
<1>9. CASE Return \/ SignalExits
  <2>1. /\ UNCHANGED <<pc, exit, cleared, commands, changes, inCall, saving>>
        /\ \/ process' \in {"returned", "terminated"} /\ pc["main"] = "gone"
           \/ process' = "signalled" /\ pc["signal"] = "exit"
    BY <1>9 DEF Return, SignalExits, pool, saves
  <2>2. ExitOrder' /\ CallsAndSaves'
    BY <1>0, <1>1, <1>2, <2>1 DEF ExitOrder, CallsAndSaves
  <2>3. QuitStops' /\ MainSaves' /\ SignalSaves'
    BY <1>0, <1>2, <2>1
       DEF QuitStops, MainSaves, MainExits, SignalSaves, SignalExit, NoRequests, Whole, CleanSave
  <2> QED
    BY <1>3, <2>2, <2>3 DEF ExitInv
<1> QED
  BY <1>4, <1>5, <1>6, <1>7, <1>8, <1>9

(* The acceptor and the clients make no call. *)
LEMMA OthersKeepExitInv ==
  ASSUME StopInv, ExitInv, Acceptor \/ (\E c \in Clients : Client(c)) \/ UNCHANGED vars
  PROVE  ExitInv'
<1>0. ExitOrder /\ CallsAndSaves /\ Requests /\ QuitStops /\ MainSaves /\ SignalSaves
  BY DEF ExitInv
<1>1. /\ UNCHANGED <<process, pc, exit, cleared, stopped, commands, changes, inCall, saving, file>>
      /\ running => running'
  BY DEF Acceptor, StartFails, Listen, SetRunning, AcceptLoop, AcceptFails, Accept, HandOver,
         Client, Arrive, Send, Close, vars, mainVars, serverVars, pool, saves
<1>2. ExitOrder' /\ CallsAndSaves' /\ QuitStops' /\ SignalSaves'
  BY <1>0, <1>1
     DEF ExitOrder, CallsAndSaves, QuitStops, SignalSaves, SignalExit, Whole, CleanSave, Callers
<1>3. Requests' /\ (NoRequests' => NoRequests)
  <2>1. CASE \E c \in Clients : Send(c)
    <3>1. PICK c \in Clients : Send(c)
      BY <2>1
    <3>2. /\ sent' = [sent EXCEPT ![c] = @ + 1] /\ unread' = [unread EXCEPT ![c] = @ + 1]
          /\ handler' = handler
      BY <3>1 DEF Send, acceptVars
    <3>3. sent[c] \in Nat /\ sent'[c] = sent[c] + 1 /\ \A d \in Clients : d # c => sent'[d] = sent[d]
      BY <1>0, <3>2 DEF Requests
    <3>4. sent'[c] \in Nat /\ sent'[c] # 0
      BY <3>3
    <3> QED
      BY <1>0, <3>2, <3>3, <3>4 DEF Requests, NoRequests
  <2>2. CASE Acceptor \/ (\E c \in Clients : Arrive(c) \/ Close(c)) \/ UNCHANGED vars
    <3>1. UNCHANGED <<sent, unread>>
      BY <2>2 DEF Acceptor, StartFails, Listen, SetRunning, AcceptLoop, AcceptFails, Accept,
                  HandOver, Arrive, Close, vars, outside
    <3>2. UNCHANGED handler \/ \E c : handler' = [handler EXCEPT ![c] = "loop"]
      BY <2>2 DEF Acceptor, StartFails, Listen, SetRunning, AcceptLoop, AcceptFails, Accept,
                  HandOver, Arrive, Close, vars, acceptVars
    <3>3. DOMAIN handler = Clients
      BY DEF StopInv, Places
    <3> QED
      BY <1>0, <3>1, <3>2, <3>3 DEF Requests, NoRequests
  <2> QED
    BY <2>1, <2>2 DEF Client
<1>4. MainSaves'
  BY <1>0, <1>1, <1>3 DEF MainSaves, MainExits, Whole, CleanSave
<1> QED
  BY <1>2, <1>3, <1>4 DEF ExitInv

(* A handler thread calls the pool; where a Save has to hold everything    *)
(* there is no request it could call it for.                               *)
LEMMA HandlerKeepsExitInv ==
  ASSUME StopInv, ExitInv, NEW c \in Clients, Handler(c)
  PROVE  ExitInv'
<1>0. ExitOrder /\ CallsAndSaves /\ Requests /\ QuitStops /\ MainSaves /\ SignalSaves
  BY DEF ExitInv
<1>1. UNCHANGED <<process, pc, exit, cleared, running, stopped, sent, commands, file>>
  BY DEF Handler, HandlerLoop, Receive, ReceiveFails, CallReturns, Respond, RespondFails,
         mainVars, serverVars, outside, pool, saves, BeginCall
<1>2. ExitOrder' /\ QuitStops'
  BY <1>0, <1>1 DEF ExitOrder, QuitStops
<1>3. c \notin {"main"}
  BY ServerAssumption
<1>4. DOMAIN handler = Clients
  BY DEF StopInv, Places
<1>5. CASE Receive(c)
  <2>1. /\ handler[c] = "receive" /\ unread[c] > 0
        /\ handler' = [handler EXCEPT ![c] = "call"] /\ unread' = [unread EXCEPT ![c] = @ - 1]
        /\ inCall' = inCall \cup {c} /\ DOMAIN saving' = DOMAIN saving
    BY <1>5 DEF Receive, At, BeginCall
  <2>2. unread[c] # 0 /\ sent[c] # 0
    BY <1>0, <2>1 DEF Requests
  <2>3. Requests'
    BY <1>0, <1>1, <1>4, <2>1, <2>2 DEF Requests
  <2>4. CallsAndSaves'
    BY <1>0, <1>1, <1>3, <2>1 DEF CallsAndSaves, Callers
  <2>5. ~SignalExit /\ ~(MainExits /\ (pc["main"] \in {"save", "saving", "cleanup"} \/ cleared))
    BY <2>1, <2>2, NoCalls
  <2>6. MainSaves' /\ SignalSaves'
    BY <1>1, <2>5 DEF MainSaves, MainExits, SignalSaves, SignalExit, NoRequests
  <2> QED
    BY <1>2, <2>3, <2>4, <2>6 DEF ExitInv
<1>6. CASE CallReturns(c)
  <2>1. /\ handler[c] = "call" /\ handler' = [handler EXCEPT ![c] = "respond"]
        /\ inCall' = inCall \ {c} /\ UNCHANGED <<unread, saving>>
    BY <1>6 DEF CallReturns, At, EndCall, outside, saves
  <2>2. Requests' /\ CallsAndSaves'
    BY <1>0, <1>1, <1>4, <2>1 DEF Requests, CallsAndSaves, Callers
  <2>3. ~SignalExit /\ ~(MainExits /\ (pc["main"] \in {"save", "saving", "cleanup"} \/ cleared))
    BY <2>1, NoCalls
  <2>4. MainSaves' /\ SignalSaves'
    BY <1>1, <2>3 DEF MainSaves, MainExits, SignalSaves, SignalExit, NoRequests
  <2> QED
    BY <1>2, <2>2, <2>4 DEF ExitInv
<1>7. CASE HandlerLoop(c) \/ ReceiveFails(c) \/ Respond(c) \/ RespondFails(c)
  <2>1. /\ \E place \in {"receive", "ended", "loop"} : handler' = [handler EXCEPT ![c] = place]
        /\ UNCHANGED <<unread, changes, inCall, saving>>
    BY <1>7 DEF HandlerLoop, ReceiveFails, Respond, RespondFails, At, outside, pool, saves
  <2>2. Requests' /\ CallsAndSaves'
    BY <1>0, <1>1, <1>4, <2>1 DEF Requests, CallsAndSaves, Callers
  <2>3. MainSaves' /\ SignalSaves'
    BY <1>0, <1>1, <2>1
       DEF MainSaves, MainExits, SignalSaves, SignalExit, NoRequests, Whole, CleanSave
  <2> QED
    BY <1>2, <2>2, <2>3 DEF ExitInv
<1> QED
  BY <1>5, <1>6, <1>7 DEF Handler

(* Every step keeps it. *)
THEOREM ExitStaysInvariant == Spec => []ExitInv
<1>1. StopInv /\ ExitInv /\ [Next]_vars => ExitInv'
  <2> SUFFICES ASSUME StopInv, ExitInv, [Next]_vars PROVE ExitInv'
    OBVIOUS
  <2>1. CASE Main \/ SignalThread \/ User
    BY <2>1, StopKeepsExitInv, SaveKeepsExitInv, MainKeepsExitInv
       DEF Main, SignalThread, User, Callers
  <2>2. CASE Acceptor \/ (\E c \in Clients : Client(c)) \/ UNCHANGED vars
    BY <2>2, OthersKeepExitInv
  <2>3. CASE \E c \in Clients : Handler(c)
    BY <2>3, HandlerKeepsExitInv
  <2> QED
    BY <2>1, <2>2, <2>3 DEF Next, Ended
<1> QED
  BY <1>1, ExitInvInit, StopStaysInvariant, PTL DEF Spec

(* What is saved is everything: on quit, if the server was running and no  *)
(* Ctrl+C interferes; on any way out of main's loop, if no client sent a   *)
(* request; and on Ctrl+C while the console is idle, if its Stop ran.  An  *)
(* end of input with requests under way, and Ctrl+C inside a command, are  *)
(* not among them: they lose changes.                                      *)
THEOREM ExitsSaveEverything == Spec => []ExitSavesEverything
<1>1. ExitInv => ExitSavesEverything
  <2> SUFFICES ASSUME ExitInv,
                      \/ MainAlone /\ (exit = "quit" \/ \A c \in Clients : sent[c] = 0)
                      \/ SignalAlone
               PROVE  Whole
    BY DEF ExitSavesEverything, Whole
  <2>0. ExitOrder /\ MainSaves /\ SignalSaves
    BY DEF ExitInv
  <2>1. CASE MainAlone /\ (exit = "quit" \/ \A c \in Clients : sent[c] = 0)
    <3>1. pc["main"] = "gone" /\ pc["signal"] = "none" /\ cleared /\ exit # "none"
      BY <2>0, <2>1 DEF MainAlone, ExitOrder, AtConsole
    <3> QED
      BY <2>0, <2>1, <3>1 DEF MainSaves, MainExits, NoRequests
  <2>2. CASE SignalAlone
    BY <2>0, <2>2 DEF SignalAlone, ExitOrder, SignalSaves, SignalExit
  <2> QED
    BY <2>1, <2>2
<1> QED
  BY <1>1, ExitStaysInvariant, PTL

(***************************************************************************)
(* What a client may conclude from a response, for any number of calls and *)
(* of connections.                                                         *)
(***************************************************************************)
(* A response carries no number; that it answers the call which reads it   *)
(* rests on there being one request under way at most: it is in one place, *)
(* on its way, at the server or as a response on the wire, and nothing     *)
(* else is anywhere (OnTime).  After a call gave up, something older than  *)
(* the request of the call under way is always in front of it (Behind),    *)
(* because the requests that were given up are still under way.  A closed  *)
(* connection processes nothing, so that there only the wire counts.       *)
Pieces       == [part : {"head", "rest", "data", "torn"}, req : Nat, code : Codes, big : BOOLEAN]
RequestsMade == [req : Nat, big : BOOLEAN]
OnWire       == 1 .. Len(wire)

Shape ==
  /\ calls \in Nat /\ links \in Nat
  /\ at \in {"idle", "header", "data", "garbage"}
  /\ at # "idle" => link # "none"
  /\ at = "garbage" => ~inStep
  /\ wire \in Seq(Pieces) /\ requests \in Seq(RequestsMade) /\ server \in RequestsMade
  /\ delivered \in Nat /\ delivered <= Len(wire)

(* Only what was asked for is anywhere. *)
Asked ==
  /\ \A k \in OnWire : wire[k].req <= calls
  /\ server.req <= calls
  /\ \A k \in 1 .. Len(requests) : requests[k].req \in 1 .. calls

(* The wire holds whole responses, but for the header that has been read. *)
WholeResponses ==
  /\ wire # <<>> => wire[1].part = IF at = "data" THEN "data" ELSE "head"
  /\ at = "data" => wire # <<>>
  /\ \A k \in OnWire : wire[k].part = "head" =>
       /\ k + 2 \in OnWire /\ wire[k + 1].part = "rest" /\ wire[k + 2].part = "data"
       /\ wire[k + 2].req = wire[k].req
  /\ \A k \in OnWire : wire[k].part = "data" /\ k + 1 \in OnWire => wire[k + 1].part = "head"

NoneAtServer == link = "open" => requests = <<>> /\ server = NoRequest

OwnAtServer ==
  link = "open" =>
    \/ Len(requests) = 1 /\ requests[1].req = calls /\ server = NoRequest
    \/ requests = <<>> /\ server # NoRequest /\ server.req = calls

OwnOnWire(n) == Len(wire) = n /\ wire[1].req = calls

OnTime ==
  /\ at = "idle"   => wire = <<>> /\ NoneAtServer
  /\ at = "header" => (wire = <<>> /\ OwnAtServer) \/ (OwnOnWire(3) /\ NoneAtServer)
  /\ at = "data"   => OwnOnWire(1) /\ NoneAtServer

(* What comes first was asked for before. *)
Stale ==
  /\ wire # <<>> => wire[1].req < calls
  /\ wire = <<>> /\ link = "open" =>
       \/ server # NoRequest /\ server.req < calls
       \/ server = NoRequest /\ requests # <<>> /\ requests[1].req < calls

OwnIsUnderWay ==
  \/ \E k \in OnWire : wire[k].part = "data" /\ wire[k].req = calls
  \/ server # NoRequest /\ server.req = calls
  \/ \E k \in 1 .. Len(requests) : requests[k].req = calls

Behind ==
  /\ at = "idle" /\ link = "open" => wire # <<>> \/ server # NoRequest \/ requests # <<>>
  /\ at # "idle" => Stale /\ (link = "open" => OwnIsUnderWay)

InOrder == inStep /\ link # "none" => WholeResponses /\ (IF late THEN Behind ELSE OnTime)

SessionInv == Shape /\ Asked /\ InOrder /\ AnswersMatchInStep

(* What is left of the wire after n of its pieces were read. *)
LEMMA RestOfWire ==
  ASSUME Shape, NEW n \in Nat, n <= delivered, Read(n)
  PROVE  /\ wire' \in Seq(Pieces) /\ delivered' \in Nat /\ delivered' <= Len(wire')
         /\ Len(wire') = Len(wire) - n
         /\ \A k \in 1 .. Len(wire) - n : wire'[k] = wire[k + n]
<1>1. /\ wire \in Seq(Pieces) /\ Len(wire) \in Nat /\ delivered \in Nat /\ delivered <= Len(wire)
      /\ wire' = SubSeq(wire, n + 1, Len(wire)) /\ delivered' = delivered - n
  BY LenProperties DEF Shape, Read
<1>2. \A k \in n + 1 .. Len(wire) : wire[k] \in Pieces
  BY <1>1, ElementOfSeq
<1>3. n + 1 \in Int /\ Len(wire) \in Int
  BY <1>1
<1>4. /\ wire' \in Seq(Pieces)
      /\ Len(wire') = IF n + 1 <= Len(wire) THEN Len(wire) - (n + 1) + 1 ELSE 0
      /\ \A k \in 1 .. Len(wire) - (n + 1) + 1 : wire'[k] = wire[n + 1 + k - 1]
  BY <1>1, <1>2, <1>3, SubSeqProperties
<1>5. Len(wire') = Len(wire) - n
  BY <1>1, <1>4
<1>6. \A k \in 1 .. Len(wire) - n : wire'[k] = wire[k + n]
  <2> TAKE k \in 1 .. Len(wire) - n
  <2>1. k \in 1 .. Len(wire) - (n + 1) + 1 /\ n + 1 + k - 1 = k + n
    BY <1>1
  <2> QED
    BY <1>4, <2>1
<1> QED
  BY <1>1, <1>4, <1>5, <1>6

(* They were asked for as well. *)
LEMMA RestIsAsked ==
  ASSUME Shape, Asked, NEW n \in Nat, n <= delivered, Read(n), UNCHANGED <<calls, requests, server>>
  PROVE  Asked'
<1>1. Len(wire') = Len(wire) - n /\ \A k \in 1 .. Len(wire) - n : wire'[k] = wire[k + n]
  BY RestOfWire
<1>2. \A k \in 1 .. Len(wire) - n : k + n \in OnWire
  BY LenProperties DEF Shape, OnWire
<1> QED
  BY <1>1, <1>2 DEF Asked, OnWire

(* Nor do bytes taken from somewhere in them bring anything new. *)
LEMMA SomeRead ==
  ASSUME Shape, Asked, ReadSome, UNCHANGED <<calls, requests, server>>
  PROVE  /\ wire' \in Seq(Pieces) /\ delivered' \in Nat /\ delivered' <= Len(wire')
         /\ Asked'
<1>1. PICK n \in 0 .. delivered :
        \/ n > 0 /\ Read(n)
        \/ /\ n < delivered
           /\ wire' = <<Torn>> \o SubSeq(wire, n + 2, Len(wire)) /\ delivered' = delivered - n
  BY DEF ReadSome
<1>2. n \in Nat /\ n <= delivered /\ delivered \in Nat /\ delivered <= Len(wire) /\ Len(wire) \in Nat
  BY LenProperties DEF Shape
<1>3. CASE Read(n)
  BY <1>2, <1>3, RestOfWire, RestIsAsked
<1>4. CASE /\ n < delivered
           /\ wire' = <<Torn>> \o SubSeq(wire, n + 2, Len(wire)) /\ delivered' = delivered - n
  <2> DEFINE s == SubSeq(wire, n + 2, Len(wire))
  <2>1. \A k \in n + 2 .. Len(wire) : wire[k] \in Pieces
    BY <1>2, ElementOfSeq DEF Shape
  <2>2. n + 2 \in Int /\ Len(wire) \in Int /\ n + 2 <= Len(wire) + 1
    BY <1>2, <1>4
  <2>3. /\ s \in Seq(Pieces)
        /\ Len(s) = IF n + 2 <= Len(wire) THEN Len(wire) - (n + 2) + 1 ELSE 0
        /\ \A k \in 1 .. Len(wire) - (n + 2) + 1 : s[k] = wire[n + 2 + k - 1]
    BY <2>1, <2>2, SubSeqProperties
  <2>4. Len(s) = Len(wire) - n - 1
    BY <1>2, <2>2, <2>3
  <2>5. \A k \in 1 .. Len(s) : s[k].req <= calls
    <3> TAKE k \in 1 .. Len(s)
    <3>1. k \in 1 .. Len(wire) - (n + 2) + 1 /\ n + 2 + k - 1 \in OnWire
      BY <1>2, <2>4 DEF OnWire
    <3> QED
      BY <2>3, <3>1 DEF Asked
  <2>6. <<Torn>> \in Seq(Pieces) /\ Len(<<Torn>>) = 1 /\ <<Torn>>[1].req = 0
    BY DEF Torn, Piece, Pieces, Codes
  <2> HIDE DEF s
  <2>7. /\ wire' \in Seq(Pieces) /\ Len(wire') = Len(s) + 1
        /\ \A k \in 1 .. Len(s) + 1 : wire'[k] = IF k <= 1 THEN <<Torn>>[k] ELSE s[k - 1]
    <3>1. wire' = <<Torn>> \o s
      BY <1>4 DEF s
    <3>2. Len(s) \in Nat
      BY <2>3, LenProperties
    <3> QED
      BY <2>3, <2>6, <3>1, <3>2, ConcatProperties
  <2>8. ASSUME NEW k \in 1 .. Len(wire') PROVE wire'[k].req <= calls
    <3>1. CASE k = 1
      BY <2>4, <2>6, <2>7, <3>1, <1>2, <1>4 DEF Shape
    <3>2. CASE k # 1
      <4>1. k - 1 \in 1 .. Len(s) /\ ~(k <= 1) /\ k \in 1 .. Len(s) + 1
        BY <1>2, <1>4, <2>4, <2>7, <3>2
      <4> QED
        BY <2>5, <2>7, <4>1
    <3> QED
      BY <3>1, <3>2
  <2>9. Asked'
    BY <2>8 DEF Asked, OnWire
  <2> QED
    BY <1>2, <1>4, <2>4, <2>7, <2>9
<1> QED
  BY <1>1, <1>3, <1>4

(* A new object, with nothing under way. *)
LEMMA NewSession == SessionInit => SessionInv
BY DEF SessionInit, SessionInv, Shape, Asked, OnWire, InOrder, AnswersMatchInStep, Result, RequestsMade,
       Pieces, NoRequest

(* Connect, Disconnect and the sending of a request. *)
LEMMA UseKeepsInv == ASSUME SessionInv, Use PROVE SessionInv'
<1>0. Shape /\ Asked /\ InOrder /\ AnswersMatchInStep
  BY DEF SessionInv
<1>1. CASE Connect
  <2>1. /\ at = "idle" /\ at' = at /\ wire' = <<>> /\ requests' = <<>> /\ server' = NoRequest
        /\ late' = FALSE /\ delivered' = 0 /\ links' = links + 1
        /\ UNCHANGED <<calls, result>>
    BY <1>1 DEF Connect
  <2>2. Shape' /\ Asked'
    BY <1>0, <2>1 DEF Shape, Asked, OnWire, NoRequest, RequestsMade
  <2>3. InOrder'
    BY <2>1 DEF InOrder, WholeResponses, OnWire, OnTime, NoneAtServer
  <2>4. AnswersMatchInStep'
    BY <1>0, <2>1 DEF AnswersMatchInStep
  <2> QED
    BY <2>2, <2>3, <2>4 DEF SessionInv
<1>2. CASE Disconnect
  <2>1. /\ at = "idle" /\ link' = "none"
        /\ UNCHANGED <<links, requests, server, wire, delivered, calls, at, result, inStep, late>>
    BY <1>2 DEF Disconnect, client
  <2> QED
    BY <1>0, <2>1 DEF SessionInv, Shape, Asked, OnWire, InOrder, AnswersMatchInStep
<1>3. CASE \E big \in BOOLEAN : Call(big)
  <2>1. PICK big \in BOOLEAN : Call(big)
    BY <1>3
  <2> DEFINE r == [req |-> calls + 1, big |-> big]
  <2>2. /\ at = "idle" /\ at' = "header" /\ calls' = calls + 1 /\ link # "none"
        /\ requests' = Append(requests, r)
        /\ UNCHANGED <<kind, link, links, server, wire, delivered, result, inStep, late>>
    BY <2>1 DEF Call, IsConnected
  <2>3. r \in RequestsMade /\ r.req = calls' /\ calls \in Nat
    BY <1>0, <2>2 DEF Shape, RequestsMade
  <2> HIDE DEF r
  <2>4. /\ requests' \in Seq(RequestsMade) /\ Len(requests') = Len(requests) + 1
        /\ Len(requests) \in Nat
        /\ \A k \in 1 .. Len(requests) : requests'[k] = requests[k]
        /\ requests'[Len(requests) + 1] = r
    BY <1>0, <2>2, <2>3, AppendProperties, LenProperties DEF Shape
  <2>5. Shape'
    BY <1>0, <2>2, <2>3, <2>4 DEF Shape
  <2>6. Asked'
    <3>1. /\ \A k \in OnWire : wire[k].req \in Nat
          /\ server.req \in Nat
          /\ \A k \in 1 .. Len(requests) : requests[k].req \in Nat
      <4>1. \A k \in OnWire : wire[k] \in Pieces
        BY <1>0, ElementOfSeq DEF Shape, OnWire
      <4>2. \A k \in 1 .. Len(requests) : requests[k] \in RequestsMade
        BY <1>0, ElementOfSeq DEF Shape
      <4> QED
        BY <1>0, <4>1, <4>2 DEF Shape, Pieces, RequestsMade
    <3>2. /\ \A k \in OnWire : wire[k].req <= calls + 1
          /\ server.req <= calls + 1
      BY <1>0, <2>3, <3>1 DEF Asked
    <3>3. ASSUME NEW k \in 1 .. Len(requests') PROVE requests'[k].req \in 1 .. calls + 1
      <4>1. k \in 1 .. Len(requests) \/ k = Len(requests) + 1
        BY <2>4
      <4> QED
        BY <1>0, <2>2, <2>3, <2>4, <3>1, <4>1 DEF Asked
    <3> QED
      BY <2>2, <3>2, <3>3 DEF Asked, OnWire
  <2>7. InOrder'
    <3> SUFFICES ASSUME inStep PROVE WholeResponses' /\ (IF late THEN Behind' ELSE OnTime')
      BY <2>2 DEF InOrder
    <3>1. WholeResponses /\ (IF late THEN Behind ELSE OnTime)
      BY <1>0, <2>2 DEF InOrder
    <3>2. WholeResponses'
      BY <2>2, <3>1 DEF WholeResponses, OnWire
    <3>3. requests = <<>> => Len(requests') = 1 /\ requests'[1].req = calls'
      BY <2>3, <2>4
    <3>4. CASE ~late
      <4>1. wire = <<>> /\ NoneAtServer
        BY <2>2, <3>1, <3>4 DEF OnTime
      <4>2. OwnAtServer'
        BY <2>2, <3>3, <4>1 DEF NoneAtServer, OwnAtServer
      <4>3. at' = "header" /\ wire' = <<>>
        BY <2>2, <4>1
      <4> QED
        BY <2>2, <3>2, <3>4, <4>2, <4>3 DEF OnTime
    <3>5. CASE late
      <4>1. \E k \in 1 .. Len(requests') : requests'[k].req = calls'
        BY <2>3, <2>4
      <4>2. wire # <<>> => wire[1].req < calls'
        <5>1. wire # <<>> => 1 \in OnWire /\ wire[1] \in Pieces
          BY <1>0, ElementOfSeq DEF Shape, OnWire
        <5> QED
          BY <1>0, <2>2, <2>3, <5>1 DEF Asked, Pieces
      <4>3. server # NoRequest => server.req < calls'
        BY <1>0, <2>2, <2>3 DEF Asked, Shape, RequestsMade
      <4>4. requests # <<>> => requests' # <<>> /\ requests'[1].req < calls'
        <5>1. requests # <<>> => 1 \in 1 .. Len(requests) /\ requests[1] \in RequestsMade
          BY <1>0, ElementOfSeq DEF Shape
        <5> QED
          BY <1>0, <2>2, <2>3, <2>4, <5>1 DEF Asked, RequestsMade
      <4>5. Stale'
        BY <2>2, <3>1, <3>5, <4>2, <4>3, <4>4 DEF Stale, Behind
      <4>6. OwnIsUnderWay'
        BY <4>1 DEF OwnIsUnderWay
      <4>7. at' = "header"
        BY <2>2
      <4>8. Behind'
        BY <4>5, <4>6, <4>7 DEF Behind
      <4> QED
        BY <3>2, <3>5, <4>8
    <3> QED
      BY <3>2, <3>4, <3>5
  <2>8. AnswersMatchInStep'
    BY <1>0, <2>2 DEF AnswersMatchInStep
  <2> QED
    BY <2>5, <2>6, <2>7, <2>8 DEF SessionInv
<1> QED
  BY <1>1, <1>2, <1>3 DEF Use

(* A call that fails returns no answer. *)
LEMMA FailureKeepsInv ==
  ASSUME NEW cause, Finish(Fails(cause)), Shape', Asked', InOrder'
  PROVE  SessionInv'
<1>1. result'.answer = 0
  BY DEF Finish, Fails, Result
<1> QED
  BY <1>1 DEF SessionInv, AnswersMatchInStep

(* While the client is in step it is not reading garbage, and what it      *)
(* leaves off in front of is known.                                        *)
LEMMA InStepIsAligned ==
  ASSUME SessionInv, inStep, at # "idle"
  PROVE  /\ WholeResponses /\ (IF late THEN Behind ELSE OnTime)
         /\ at = "header" => Aligned
         /\ at = "data"   => ~Aligned
         /\ at # "garbage"
<1>1. WholeResponses /\ (IF late THEN Behind ELSE OnTime) /\ at # "garbage" /\ wire \in Seq(Pieces)
  BY DEF SessionInv, InOrder, Shape
<1>2. wire # <<>> => Head(wire) = wire[1]
  BY <1>1
<1> QED
  BY <1>1, <1>2 DEF WholeResponses, Aligned

(* The header.  A whole one leaves its data on the wire. *)
LEMMA HeaderKeepsInv ==
  ASSUME SessionInv, SdkReadsHeader \/ PythonReadsHeader
  PROVE  SessionInv'
<1>0. Shape /\ Asked /\ InOrder /\ AnswersMatchInStep
  BY DEF SessionInv
<1>1. /\ at = "header" /\ delivered \in Nat /\ delivered > 0
      /\ UNCHANGED <<kind, link, links, requests, server, calls, late>>
  <2>1. /\ at = "header" /\ (delivered >= 2 \/ delivered > 0)
        /\ UNCHANGED <<kind, link, links, requests, server, calls, late>>
    BY Zenon DEF SdkReadsHeader, PythonReadsHeader
  <2>2. delivered \in Nat /\ (delivered >= 2 => delivered > 0)
    BY <1>0 DEF Shape
  <2> QED
    BY <2>1, <2>2
<1>2. inStep => /\ WholeResponses /\ (IF late THEN Behind ELSE OnTime)
                /\ Len(wire) \in Nat /\ Len(wire) >= 3
                /\ wire[2].part = "rest" /\ wire[3].part = "data" /\ wire[3].req = wire[1].req
  <2> SUFFICES ASSUME inStep
               PROVE  /\ WholeResponses /\ (IF late THEN Behind ELSE OnTime)
                      /\ Len(wire) \in Nat /\ Len(wire) >= 3
                      /\ wire[2].part = "rest" /\ wire[3].part = "data" /\ wire[3].req = wire[1].req
    OBVIOUS
  <2>1. WholeResponses /\ (IF late THEN Behind ELSE OnTime)
    BY <1>1, InStepIsAligned
  <2>2. Len(wire) \in Nat /\ Len(wire) >= 1 /\ wire # <<>>
    BY <1>0, <1>1, LenProperties DEF Shape
  <2>3. 1 \in OnWire /\ wire[1].part = "head" /\ 1 + 2 = 3 /\ 1 + 1 = 2
    BY <1>1, <2>1, <2>2 DEF WholeResponses, OnWire
  <2>4. /\ 1 + 2 \in OnWire /\ wire[1 + 1].part = "rest" /\ wire[1 + 2].part = "data"
        /\ wire[1 + 2].req = wire[1].req
    BY <2>1, <2>3, Zenon DEF WholeResponses
  <2>5. 3 \in OnWire /\ wire[2].part = "rest" /\ wire[3].part = "data" /\ wire[3].req = wire[1].req
    BY <2>3, <2>4
  <2> QED
    BY <2>1, <2>2, <2>5 DEF OnWire
<1>3. ASSUME NEW n \in {1, 2}, n <= delivered, Read(n)
      PROVE  /\ wire' \in Seq(Pieces) /\ delivered' \in Nat /\ delivered' <= Len(wire')
             /\ Len(wire') = Len(wire) - n
             /\ \A k \in 1 .. Len(wire) - n : wire'[k] = wire[k + n]
             /\ Asked'
             /\ inStep => ~Aligned'
  <2>1. n \in Nat
    OBVIOUS
  <2>2. /\ wire' \in Seq(Pieces) /\ delivered' \in Nat /\ delivered' <= Len(wire')
        /\ Len(wire') = Len(wire) - n
        /\ \A k \in 1 .. Len(wire) - n : wire'[k] = wire[k + n]
    BY <1>0, <1>3, <2>1, RestOfWire
  <2>3. Asked'
    BY <1>0, <1>1, <1>3, <2>1, RestIsAsked
  <2>4. ASSUME inStep PROVE ~Aligned'
    <3>1. 1 \in 1 .. Len(wire) - n /\ Len(wire') >= 1
      BY <1>2, <2>2, <2>4
    <3>2. wire'[1] = wire[1 + n] /\ wire' # <<>>
      BY <2>2, <3>1
    <3>3. wire'[1].part # "head"
      BY <1>2, <2>4, <3>2
    <3>4. Head(wire') = wire'[1]
      BY <2>2, <3>2
    <3> QED
      BY <3>2, <3>3, <3>4 DEF Aligned
  <2> QED
    BY <2>2, <2>3, <2>4
<1>4. ASSUME NEW n \in {1, 2}, n <= delivered, Read(n), NEW cause, Finish(Fails(cause))
      PROVE  SessionInv'
  <2>1. Shape' /\ ~inStep'
    BY <1>0, <1>1, <1>3, <1>4 DEF Shape, Finish
  <2>2. InOrder'
    BY <2>1 DEF InOrder
  <2> QED
    BY <1>3, <1>4, <2>1, <2>2, FailureKeepsInv
<1>5. CASE Read(2) /\ 2 <= delivered /\ at' = "data" /\ UNCHANGED <<result, inStep>>
  <2>1. /\ wire' \in Seq(Pieces) /\ delivered' \in Nat /\ delivered' <= Len(wire')
        /\ Len(wire') = Len(wire) - 2
        /\ \A k \in 1 .. Len(wire) - 2 : wire'[k] = wire[k + 2]
        /\ Asked'
    BY <1>3, <1>5
  <2>2. Shape'
    BY <1>0, <1>1, <1>5, <2>1 DEF Shape
  <2>3. AnswersMatchInStep'
    BY <1>0, <1>5 DEF AnswersMatchInStep
  <2>4. ASSUME inStep, link # "none" PROVE WholeResponses' /\ (IF late THEN Behind' ELSE OnTime')
    <3>1. /\ 1 \in OnWire' /\ wire'[1] = wire[3] /\ wire' # <<>> /\ Len(wire) \in Nat
          /\ \A k \in OnWire' : k + 2 \in OnWire /\ k \in Nat /\ wire'[k] = wire[k + 2]
      BY <1>2, <2>1, <2>4 DEF OnWire
    <3>2. WholeResponses'
      <4>1. wire'[1].part = "data"
        BY <1>2, <2>4, <3>1
      <4>2. ASSUME NEW k \in OnWire', wire'[k].part = "head"
            PROVE  /\ k + 2 \in OnWire' /\ wire'[k + 1].part = "rest" /\ wire'[k + 2].part = "data"
                   /\ wire'[k + 2].req = wire'[k].req
        <5> DEFINE j == k + 2
        <5>1. j \in OnWire /\ wire[j].part = "head" /\ j \in Nat /\ wire'[k] = wire[j]
          BY <3>1, <4>2
        <5> HIDE DEF j
        <5>2. /\ j + 2 \in OnWire /\ wire[j + 1].part = "rest" /\ wire[j + 2].part = "data"
              /\ wire[j + 2].req = wire[j].req
          BY <1>2, <2>4, <5>1, Zenon DEF WholeResponses
        <5>3. /\ k + 1 \in OnWire' /\ k + 2 \in OnWire'
              /\ k + 1 + 2 = j + 1 /\ k + 2 + 2 = j + 2
          BY <2>1, <3>1, <5>2, <5>1 DEF OnWire, j
        <5>4. wire'[k + 1] = wire[j + 1] /\ wire'[k + 2] = wire[j + 2]
          BY <3>1, <5>3
        <5> QED
          BY <5>1, <5>2, <5>3, <5>4
      <4>3. ASSUME NEW k \in OnWire', wire'[k].part = "data", k + 1 \in OnWire'
            PROVE  wire'[k + 1].part = "head"
        <5>1. /\ k + 2 \in OnWire /\ wire[k + 2].part = "data" /\ k + 2 + 1 \in OnWire
              /\ wire'[k + 1] = wire[k + 2 + 1]
          <6>1. k + 1 + 2 = k + 2 + 1
            BY <3>1
          <6> QED
            BY <3>1, <4>3, <6>1
        <5> QED
          BY <1>2, <2>4, <5>1, Zenon DEF WholeResponses
      <4> QED
        BY <1>5, <3>1, <4>1, <4>2, <4>3 DEF WholeResponses
    <3>3. CASE ~late
      <4>1. OwnOnWire(3) /\ NoneAtServer
        BY <1>1, <1>2, <2>4, <3>3 DEF OnTime
      <4>2. wire'[1].req = calls /\ Len(wire') = 1
        BY <1>2, <2>1, <2>4, <3>1, <4>1 DEF OwnOnWire
      <4> QED
        BY <1>1, <1>5, <3>2, <3>3, <4>1, <4>2 DEF OnTime, OwnOnWire, NoneAtServer
    <3>4. CASE late
      <4>1. Stale /\ (link = "open" => OwnIsUnderWay)
        BY <1>1, <1>2, <2>4, <3>4 DEF Behind
      <4>2. Stale'
        BY <1>1, <1>2, <2>4, <3>1, <4>1 DEF Stale
      <4>3. ASSUME NEW k \in OnWire, wire[k].part = "data", wire[k].req = calls
            PROVE  \E j \in OnWire' : wire'[j].part = "data" /\ wire'[j].req = calls
        <5>1. k # 1 /\ k # 2
          BY <1>1, <1>2, <2>4, <4>3 DEF WholeResponses
        <5>2. k - 2 \in OnWire' /\ k - 2 + 2 = k
          BY <1>2, <2>1, <2>4, <5>1 DEF OnWire
        <5>3. wire'[k - 2] = wire[k]
          BY <3>1, <5>2
        <5> QED
          BY <4>3, <5>2, <5>3
      <4>4. link = "open" => OwnIsUnderWay'
        BY <1>1, <4>1, <4>3 DEF OwnIsUnderWay
      <4> QED
        BY <1>1, <1>5, <3>2, <3>4, <4>2, <4>4 DEF Behind
    <3> QED
      BY <3>2, <3>3, <3>4
  <2>5. InOrder'
    BY <1>1, <1>5, <2>4 DEF InOrder
  <2> QED
    BY <2>1, <2>2, <2>3, <2>5 DEF SessionInv
<1>6. CASE SdkReadsHeader
  <2>1. \/ Finish(Fails("too long")) /\ Read(2) /\ 2 <= delivered
        \/ Read(2) /\ 2 <= delivered /\ at' = "data" /\ UNCHANGED <<result, inStep>>
    BY <1>1, <1>6 DEF SdkReadsHeader
  <2> QED
    BY <1>4, <1>5, <2>1
<1>7. CASE PythonReadsHeader
  <2>1. \/ Finish(Fails("short header")) /\ Read(1)
        \/ Read(2) /\ 2 <= delivered /\ at' = "data" /\ UNCHANGED <<result, inStep>>
    <3>1. delivered = 1 \/ 2 <= delivered
      BY <1>1
    <3> QED
      BY <1>7, <3>1, Zenon DEF PythonReadsHeader
  <2>2. 1 <= delivered
    BY <1>1
  <2> QED
    BY <1>4, <1>5, <2>1, <2>2
<1> QED
  BY <1>6, <1>7

(* The data: what is returned is the answer to the call, or to an earlier  *)
(* one if a call gave up.                                                  *)
LEMMA DataKeepsInv == ASSUME SessionInv, ReadsData PROVE SessionInv'
<1>0. Shape /\ Asked /\ InOrder /\ AnswersMatchInStep
  BY DEF SessionInv
<1>1. /\ at = "data" /\ at' = "idle" /\ link # "none" /\ delivered \in Nat /\ delivered > 0
      /\ Read(1) /\ result' = Returns(Succeeds(wire[1].code), wire[1])
      /\ inStep' => inStep
      /\ UNCHANGED <<kind, link, links, requests, server, calls, late>>
  BY <1>0 DEF ReadsData, Finish, Shape
<1>2. /\ wire' \in Seq(Pieces) /\ delivered' \in Nat /\ delivered' <= Len(wire')
      /\ Len(wire') = Len(wire) - 1 /\ Asked'
      /\ \A k \in 1 .. Len(wire) - 1 : wire'[k] = wire[k + 1]
      /\ Len(wire) \in Nat /\ Len(wire) >= 1
  <2>1. 1 \in Nat /\ 1 <= delivered
    BY <1>1
  <2> QED
    BY <1>0, <1>1, <2>1, RestOfWire, RestIsAsked, LenProperties DEF Shape
<1>3. Shape'
  BY <1>0, <1>1, <1>2 DEF Shape
<1>4. ASSUME inStep
      PROVE  /\ WholeResponses /\ (late => Behind) /\ (~late => OnTime)
             /\ late => wire[1].req < calls
             /\ ~late => wire[1].req = calls
  <2>1. WholeResponses /\ (IF late THEN Behind ELSE OnTime)
    BY <1>1, <1>4, InStepIsAligned
  <2>2. wire # <<>>
    BY <1>1, <2>1 DEF WholeResponses
  <2> QED
    BY <1>1, <2>1, <2>2 DEF Behind, Stale, OnTime, OwnOnWire
<1>5. ASSUME inStep PROVE WholeResponses'
  <2>1. \A k \in OnWire' : k + 1 \in OnWire /\ k \in Nat /\ wire'[k] = wire[k + 1]
    BY <1>2 DEF OnWire
  <2>2. 1 \in OnWire /\ wire[1].part = "data"
    BY <1>1, <1>2, <1>4, <1>5 DEF WholeResponses, OnWire
  <2>3. wire' # <<>> => wire'[1].part = "head"
    <3>1. wire' # <<>> => 1 \in OnWire'
      BY <1>2, EmptySeq DEF OnWire
    <3>2. 1 \in OnWire' => 1 + 1 \in OnWire /\ wire'[1] = wire[1 + 1]
      BY <2>1
    <3> QED
      BY <1>4, <1>5, <2>2, <3>1, <3>2, Zenon DEF WholeResponses
  <2>4. ASSUME NEW k \in OnWire', wire'[k].part = "head"
        PROVE  /\ k + 2 \in OnWire' /\ wire'[k + 1].part = "rest" /\ wire'[k + 2].part = "data"
               /\ wire'[k + 2].req = wire'[k].req
    <3> DEFINE j == k + 1
    <3>1. j \in OnWire /\ wire[j].part = "head" /\ j \in Nat /\ k \in Nat /\ wire'[k] = wire[j]
      BY <2>1, <2>4
    <3>2. j + 1 = k + 1 + 1 /\ j + 2 = k + 2 + 1
      BY <3>1
    <3> HIDE DEF j
    <3>3. /\ j + 2 \in OnWire /\ wire[j + 1].part = "rest" /\ wire[j + 2].part = "data"
          /\ wire[j + 2].req = wire[j].req
      BY <1>4, <1>5, <3>1, Zenon DEF WholeResponses
    <3>4. k + 1 \in OnWire' /\ k + 2 \in OnWire'
      BY <1>2, <3>1, <3>2, <3>3 DEF OnWire
    <3>5. wire'[k + 1] = wire[j + 1] /\ wire'[k + 2] = wire[j + 2]
      BY <2>1, <3>2, <3>4
    <3> QED
      BY <3>1, <3>3, <3>4, <3>5
  <2>5. ASSUME NEW k \in OnWire', wire'[k].part = "data", k + 1 \in OnWire'
        PROVE  wire'[k + 1].part = "head"
    <3>1. /\ k + 1 \in OnWire /\ wire[k + 1].part = "data" /\ k + 1 + 1 \in OnWire
          /\ wire'[k + 1] = wire[k + 1 + 1]
      BY <2>1, <2>5
    <3> QED
      BY <1>4, <1>5, <3>1, Zenon DEF WholeResponses
  <2> QED
    BY <1>1, <2>3, <2>4, <2>5 DEF WholeResponses
<1>6. ASSUME inStep, ~late PROVE OnTime'
  <2>1. OwnOnWire(1) /\ NoneAtServer
    BY <1>1, <1>4, <1>6 DEF OnTime
  <2>2. wire' = <<>>
    BY <1>2, <2>1, EmptySeq DEF OwnOnWire
  <2> QED
    BY <1>1, <2>1, <2>2 DEF OnTime, NoneAtServer
<1>7. ASSUME inStep, late PROVE Behind'
  <2>1. link = "open" => OwnIsUnderWay
    BY <1>1, <1>4, <1>7 DEF Behind
  <2>2. ASSUME NEW k \in OnWire, wire[k].req = calls PROVE wire' # <<>>
    <3>1. k # 1 /\ calls \in Nat
      BY <1>0, <1>4, <1>7, <2>2 DEF Shape
    <3>2. Len(wire') >= 1
      BY <1>2, <3>1 DEF OnWire
    <3> QED
      BY <3>2
  <2>3. \A k \in 1 .. Len(requests) : requests # <<>>
    OBVIOUS
  <2> QED
    BY <1>1, <2>1, <2>2, <2>3 DEF Behind, OwnIsUnderWay
<1>8. InOrder'
  BY <1>1, <1>5, <1>6, <1>7 DEF InOrder
<1>9. AnswersMatchInStep'
  <2>1. /\ result'.req = calls /\ result'.inTime = ~late /\ result'.inStep = inStep
        /\ result'.answer = wire[1].req
    BY <1>1 DEF Returns, Result
  <2>2. calls \in Nat /\ (late \in BOOLEAN => (~late) \in BOOLEAN)
    BY <1>0 DEF Shape
  <2>3. inStep /\ late => wire[1].req # calls
    BY <1>4, <2>2
  <2> QED
    BY <1>4, <2>1, <2>3 DEF AnswersMatchInStep
<1> QED
  BY <1>2, <1>3, <1>8, <1>9 DEF SessionInv

(* Garbage is read only out of step. *)
LEMMA GarbageKeepsInv ==
  ASSUME SessionInv, ReadsGarbageHeader \/ ReadsGarbageData
  PROVE  SessionInv'
<1>0. Shape /\ Asked /\ InOrder /\ AnswersMatchInStep
  BY DEF SessionInv
<1>1. /\ at # "idle" /\ link # "none" /\ delivered > 0
      /\ ReadSome \/ Read(delivered)
      /\ UNCHANGED <<kind, link, links, requests, server, calls, late>>
      /\ \/ \E cause : Finish(Fails(cause))
         \/ ReturnsGarbage
         \/ at' = "garbage" /\ UNCHANGED <<result, inStep>>
  BY <1>0 DEF ReadsGarbageHeader, ReadsGarbageData, Shape
<1>2. ~inStep
  BY InStepIsAligned DEF ReadsGarbageHeader, ReadsGarbageData, OutOfStep
<1>3. wire' \in Seq(Pieces) /\ delivered' \in Nat /\ delivered' <= Len(wire') /\ Asked'
  <2>1. CASE ReadSome
    BY <1>0, <1>1, <2>1, SomeRead
  <2>2. CASE Read(delivered)
    <3>1. delivered \in Nat /\ delivered <= delivered
      BY <1>0 DEF Shape
    <3> QED
      BY <1>0, <1>1, <2>2, <3>1, RestOfWire, RestIsAsked
  <2> QED
    BY <1>1, <2>1, <2>2
<1>4. /\ ~inStep' /\ at' \in {"idle", "garbage"}
      /\ result' = result \/ result'.answer = 0 \/ ~result'.inStep
  <2>1. CASE \E cause : Finish(Fails(cause))
    <3>1. at' = "idle" /\ inStep' = (inStep /\ Aligned') /\ result'.answer = 0
      BY <2>1 DEF Finish, Fails, Result
    <3> QED
      BY <1>2, <3>1
  <2>2. CASE ReturnsGarbage
    <3>1. at' = "idle" /\ inStep' = (inStep /\ Aligned') /\ result'.inStep = inStep
      BY <2>2 DEF ReturnsGarbage, Finish, Result
    <3> QED
      BY <1>2, <3>1
  <2>3. CASE at' = "garbage" /\ UNCHANGED <<result, inStep>>
    BY <1>2, <2>3
  <2> QED
    BY <1>1, <2>1, <2>2, <2>3
<1>5. Shape'
  BY <1>0, <1>1, <1>3, <1>4 DEF Shape
<1> QED
  BY <1>0, <1>3, <1>4, <1>5 DEF SessionInv, InOrder, AnswersMatchInStep

(* The ways a call ends without an answer. *)
LEMMA GivingUpKeepsInv ==
  ASSUME SessionInv, FindsEndOfStream \/ TimesOut
  PROVE  SessionInv'
<1>0. Shape /\ Asked /\ InOrder /\ AnswersMatchInStep
  BY DEF SessionInv
<1>1. CASE FindsEndOfStream
  <2>1. /\ at' = "idle" /\ Finish(Fails("closed")) /\ link = "closed" /\ Read(delivered)
        /\ delivered = Len(wire)
        /\ UNCHANGED <<kind, link, links, requests, server, calls, late>>
    BY <1>1 DEF FindsEndOfStream, Finish, EndOfStream
  <2>2. delivered \in Nat /\ delivered <= delivered
    BY <1>0 DEF Shape
  <2>3. /\ wire' \in Seq(Pieces) /\ delivered' \in Nat /\ delivered' <= Len(wire')
        /\ Len(wire') = Len(wire) - delivered /\ Asked'
    BY <1>0, <2>1, <2>2, RestOfWire, RestIsAsked
  <2>4. wire' = <<>>
    BY <2>1, <2>2, <2>3, EmptySeq
  <2>5. Shape'
    BY <1>0, <2>1, <2>3 DEF Shape
  <2>6. InOrder'
    BY <2>1, <2>4 DEF InOrder, WholeResponses, OnWire, Behind, OnTime, NoneAtServer
  <2> QED
    BY <2>1, <2>3, <2>5, <2>6, FailureKeepsInv
<1>2. CASE TimesOut
  <2>1. /\ at # "idle" /\ at' = "idle" /\ Finish(Fails("timeout")) /\ late' = TRUE
        /\ inStep' = (inStep /\ Aligned')
        /\ UNCHANGED <<kind, link, links, requests, server, wire, delivered, calls>>
    BY <1>2 DEF TimesOut, Finish, transport
  <2>2. Shape' /\ Asked'
    BY <1>0, <2>1 DEF Shape, Asked, OnWire
  <2>3. ASSUME inStep', link # "none" PROVE WholeResponses' /\ Behind'
    <3>1. inStep /\ Aligned
      BY <2>1, <2>3 DEF Aligned
    <3>2. at = "header" /\ WholeResponses /\ (IF late THEN Behind ELSE OnTime)
      BY <1>0, <2>1, <3>1, InStepIsAligned DEF Shape
    <3>3. WholeResponses'
      BY <2>1, <3>2 DEF WholeResponses, OnWire
    <3>4. link = "open" => wire # <<>> \/ server # NoRequest \/ requests # <<>>
      <4>1. CASE late
        <5>1. \A k \in OnWire : wire # <<>>
          BY DEF OnWire
        <5>2. \A k \in 1 .. Len(requests) : requests # <<>>
          OBVIOUS
        <5> QED
          BY <2>1, <3>2, <4>1, <5>1, <5>2 DEF Behind, OwnIsUnderWay
      <4>2. CASE ~late
        BY <3>2, <4>2 DEF OnTime, OwnAtServer, OwnOnWire
      <4> QED
        BY <4>1, <4>2
    <3> QED
      BY <2>1, <3>3, <3>4 DEF Behind
  <2>4. InOrder'
    BY <2>1, <2>3 DEF InOrder
  <2> QED
    BY <2>1, <2>2, <2>4, FailureKeepsInv
<1> QED
  BY <1>1, <1>2

(* The network and the server: the request moves on, and becomes a         *)
(* response.                                                               *)
LEMMA ServerKeepsInv ==
  ASSUME SessionInv, Deliver \/ ServerStep \/ ServerCloses
  PROVE  SessionInv'
<1>0. Shape /\ Asked /\ InOrder /\ AnswersMatchInStep
  BY DEF SessionInv
<1>C. UNCHANGED <<calls, at, result, inStep, late>> /\ UNCHANGED <<kind, links>>
  BY DEF Deliver, ServerStep, ReceiveRequest, SendResponse, ServerCloses, client
<1>A. AnswersMatchInStep'
  BY <1>0, <1>C DEF AnswersMatchInStep
<1>1. CASE Deliver
  <2>1. /\ delivered' = delivered + 1 /\ delivered < Len(wire)
        /\ UNCHANGED <<link, requests, server, wire>>
    BY <1>1 DEF Deliver
  <2>2. Shape' /\ Asked'
    BY <1>0, <1>C, <2>1, LenProperties DEF Shape, Asked, OnWire
  <2>3. InOrder'
    BY <1>0, <1>C, <2>1 DEF InOrder, WholeResponses, OnWire, OnTime, NoneAtServer, OwnAtServer, OwnOnWire,
                            Behind, Stale, OwnIsUnderWay
  <2> QED
    BY <1>A, <2>2, <2>3 DEF SessionInv
<1>2. CASE ServerCloses
  <2>1. link # "none" /\ link' = "closed" /\ server' = NoRequest /\ UNCHANGED <<requests, wire, delivered>>
    BY <1>2 DEF ServerCloses
  <2>2. Shape' /\ Asked'
    BY <1>0, <1>C, <2>1 DEF Shape, Asked, OnWire, NoRequest, RequestsMade
  <2>3. InOrder'
    BY <1>0, <1>C, <2>1 DEF InOrder, WholeResponses, OnWire, OnTime, NoneAtServer, OwnAtServer, OwnOnWire,
                            Behind, Stale
  <2> QED
    BY <1>A, <2>2, <2>3 DEF SessionInv
<1>3. CASE ReceiveRequest
  <2>1. /\ link = "open" /\ requests # <<>> /\ requests' = Tail(requests) /\ server = NoRequest
        /\ \/ link' = "closed" /\ server' = server
           \/ link' = link /\ server' = Head(requests)
        /\ UNCHANGED <<wire, delivered>>
    BY <1>3 DEF ReceiveRequest
  <2>2. /\ Head(requests) \in RequestsMade /\ requests' \in Seq(RequestsMade)
        /\ Len(requests') = Len(requests) - 1 /\ Len(requests) \in Nat
        /\ \A k \in 1 .. Len(requests) - 1 : requests'[k] = requests[k + 1]
    BY <1>0, <2>1, HeadTailProperties, LenProperties DEF Shape
  <2>3. Shape'
    BY <1>0, <1>C, <2>1, <2>2 DEF Shape
  <2>4. /\ Head(requests) = requests[1] /\ 1 \in 1 .. Len(requests)
        /\ Head(requests) # NoRequest /\ calls \in Nat
    <3>1. Head(requests) = requests[1] /\ 1 \in 1 .. Len(requests) /\ calls \in Nat
      BY <1>0, <2>1, <2>2, EmptySeq DEF Shape
    <3>2. requests[1].req >= 1
      BY <1>0, <3>1 DEF Asked
    <3> QED
      BY <3>1, <3>2 DEF NoRequest
  <2>5. Asked'
    <3>1. ASSUME NEW k \in 1 .. Len(requests') PROVE requests'[k].req \in 1 .. calls
      <4>1. k \in 1 .. Len(requests) - 1 /\ k + 1 \in 1 .. Len(requests)
        BY <2>2
      <4> QED
        BY <1>0, <2>2, <4>1 DEF Asked
    <3>2. requests[1].req <= calls
      BY <1>0, <2>4 DEF Asked
    <3>3. server'.req <= calls
      BY <1>0, <2>1, <2>4, <3>2 DEF Asked
    <3> QED
      BY <1>0, <1>C, <2>1, <3>1, <3>3 DEF Asked, OnWire
  <2>6. ASSUME inStep PROVE WholeResponses' /\ (IF late THEN Behind' ELSE OnTime')
    <3>1. WholeResponses /\ (IF late THEN Behind ELSE OnTime)
      BY <1>0, <2>1, <2>6 DEF InOrder
    <3>2. WholeResponses'
      BY <1>C, <2>1, <3>1 DEF WholeResponses, OnWire
    <3>3. CASE ~late
      <4>1. at = "header" /\ wire = <<>> /\ Len(requests) = 1 /\ requests[1].req = calls
        BY <1>0, <2>1, <2>6, <3>1, <3>3 DEF OnTime, NoneAtServer, OwnAtServer, Shape
      <4>2. requests' = <<>>
        BY <2>2, <4>1, EmptySeq
      <4> QED
        BY <1>C, <2>1, <2>4, <3>2, <3>3, <4>1, <4>2 DEF OnTime, OwnAtServer
    <3>4. CASE late
      <4>1. at # "idle" => Stale'
        BY <1>C, <2>1, <2>4, <3>1, <3>4 DEF Behind, Stale
      <4>2. ASSUME NEW k \in 1 .. Len(requests), requests[k].req = calls, link' = "open"
            PROVE  \/ server' # NoRequest /\ server'.req = calls
                   \/ \E j \in 1 .. Len(requests') : requests'[j].req = calls
        <5>1. CASE k = 1
          BY <2>1, <2>4, <4>2, <5>1
        <5>2. CASE k # 1
          <6>1. k - 1 \in 1 .. Len(requests') /\ k - 1 \in 1 .. Len(requests) - 1 /\ k - 1 + 1 = k
            BY <2>2, <5>2
          <6> QED
            BY <2>2, <4>2, <6>1
        <5> QED
          BY <5>1, <5>2
      <4>3. at # "idle" /\ link' = "open" => OwnIsUnderWay'
        BY <1>C, <2>1, <3>1, <3>4, <4>2 DEF Behind, OwnIsUnderWay, OnWire
      <4>4. link' = "open" => server' # NoRequest
        BY <2>1, <2>4
      <4> QED
        BY <1>C, <3>2, <3>4, <4>1, <4>3, <4>4 DEF Behind
    <3> QED
      BY <3>2, <3>3, <3>4
  <2>7. InOrder'
    BY <1>C, <2>6 DEF InOrder
  <2> QED
    BY <1>A, <2>3, <2>5, <2>7 DEF SessionInv
<1>4. CASE \E code \in Codes, big \in BOOLEAN : SendResponse(code, big)
  <2>1. PICK code \in Codes, big \in BOOLEAN : SendResponse(code, big)
    BY <1>4
  <2> DEFINE r == Response(server.req, code, big)
  <2>2. /\ link = "open" /\ server # NoRequest /\ server' = NoRequest
        /\ wire' = wire \o r
        /\ UNCHANGED <<link, requests, delivered>>
    BY <2>1 DEF SendResponse
  <2>3. /\ r \in Seq(Pieces) /\ Len(r) = 3
        /\ \A k \in 1 .. 3 : r[k].req = server.req
        /\ r[1].part = "head" /\ r[2].part = "rest" /\ r[3].part = "data"
    BY <1>0 DEF Shape, RequestsMade, Response, Piece, Pieces
  <2> HIDE DEF r
  <2> DEFINE n == Len(wire)
  <2>4. /\ wire' \in Seq(Pieces) /\ Len(wire') = n + 3 /\ n \in Nat
        /\ \A k \in 1 .. n + 3 : wire'[k] = IF k <= n THEN wire[k] ELSE r[k - n]
    <3>1. wire \in Seq(Pieces) /\ n \in Nat
      BY <1>0, LenProperties DEF Shape
    <3>2. /\ wire \o r \in Seq(Pieces) /\ Len(wire \o r) = n + Len(r)
          /\ \A k \in 1 .. n + Len(r) : (wire \o r)[k] = IF k <= n THEN wire[k] ELSE r[k - n]
      BY <2>3, <3>1, ConcatProperties
    <3> QED
      BY <2>2, <2>3, <3>1, <3>2
  <2>5. Shape'
    BY <1>0, <1>C, <2>2, <2>4 DEF Shape, NoRequest, RequestsMade
  <2>6. /\ \A k \in OnWire : k \in OnWire' /\ wire'[k] = wire[k]
        /\ \A k \in OnWire' : k \in OnWire \/ k \in {n + 1, n + 2, n + 3}
        /\ n + 1 \in OnWire' /\ n + 2 \in OnWire' /\ n + 3 \in OnWire'
        /\ wire'[n + 1] = r[1] /\ wire'[n + 2] = r[2] /\ wire'[n + 3] = r[3]
    <3>1. n + 1 - n = 1 /\ n + 2 - n = 2 /\ n + 3 - n = 3
      BY <2>4
    <3>2. ASSUME NEW j \in {1, 2, 3} PROVE n + j \in OnWire' /\ wire'[n + j] = r[n + j - n]
      BY <2>4, <3>2 DEF OnWire
    <3>3. /\ \A k \in OnWire : k \in OnWire' /\ wire'[k] = wire[k]
          /\ \A k \in OnWire' : k \in OnWire \/ k \in {n + 1, n + 2, n + 3}
      BY <2>4 DEF OnWire
    <3> QED
      BY <3>1, <3>2, <3>3
  <2>7. Asked'
    <3>1. ASSUME NEW k \in OnWire' PROVE wire'[k].req <= calls
      <4>1. CASE k \in OnWire
        BY <1>0, <2>6, <4>1 DEF Asked
      <4>2. CASE k \in {n + 1, n + 2, n + 3}
        BY <1>0, <2>3, <2>6, <4>2 DEF Asked
      <4> QED
        BY <2>6, <4>1, <4>2
    <3>2. server'.req <= calls
      BY <1>0, <2>2 DEF Shape, NoRequest
    <3> QED
      BY <1>0, <1>C, <2>2, <3>1, <3>2 DEF Asked
  <2>8. ASSUME inStep PROVE WholeResponses' /\ (IF late THEN Behind' ELSE OnTime')
    <3>1. WholeResponses /\ (IF late THEN Behind ELSE OnTime)
      BY <1>0, <2>2, <2>8 DEF InOrder
    <3>2. /\ wire # <<>> => 1 \in OnWire /\ wire'[1] = wire[1]
          /\ wire = <<>> => n = 0 /\ wire'[1] = r[1]
          /\ wire' # <<>>
      <4>1. wire # <<>> => 1 \in OnWire
        BY <1>0, <2>4, EmptySeq DEF Shape, OnWire
      <4>2. wire = <<>> => n = 0 /\ n + 1 = 1
        BY <2>4
      <4>3. wire' # <<>>
        BY <2>4
      <4> QED
        BY <2>6, <4>1, <4>2, <4>3
    <3>3. WholeResponses'
      <4>1. wire'[1].part = IF at = "data" THEN "data" ELSE "head"
        BY <2>3, <3>1, <3>2 DEF WholeResponses
      <4>2. ASSUME NEW k \in OnWire', wire'[k].part = "head"
            PROVE  /\ k + 2 \in OnWire' /\ wire'[k + 1].part = "rest" /\ wire'[k + 2].part = "data"
                   /\ wire'[k + 2].req = wire'[k].req
        <5>1. CASE k \in OnWire
          <6>1. /\ k + 2 \in OnWire /\ wire[k + 1].part = "rest" /\ wire[k + 2].part = "data"
                /\ wire[k + 2].req = wire[k].req
            BY <2>6, <3>1, <4>2, <5>1, Zenon DEF WholeResponses
          <6>2. k + 1 \in OnWire
            BY <2>4, <5>1, <6>1 DEF OnWire
          <6> QED
            BY <2>6, <5>1, <6>1, <6>2
        <5>2. CASE k \in {n + 1, n + 2, n + 3}
          <6>1. k = n + 1
            BY <2>3, <2>6, <4>2, <5>2
          <6>2. k + 1 = n + 2 /\ k + 2 = n + 3
            BY <2>4, <6>1
          <6> QED
            BY <2>3, <2>6, <6>1, <6>2
        <5> QED
          BY <2>6, <5>1, <5>2
      <4>3. ASSUME NEW k \in OnWire', wire'[k].part = "data", k + 1 \in OnWire'
            PROVE  wire'[k + 1].part = "head"
        <5>1. CASE k + 1 \in OnWire
          <6>1. k \in OnWire
            BY <2>4, <4>3, <5>1 DEF OnWire
          <6> QED
            BY <2>6, <3>1, <4>3, <5>1, <6>1, Zenon DEF WholeResponses
        <5>2. CASE k + 1 = n + 1
          BY <2>3, <2>6, <5>2
        <5>3. CASE k + 1 \in {n + 2, n + 3}
          <6>1. k = n + 1 \/ k = n + 2
            BY <2>4, <4>3, <5>3 DEF OnWire
          <6> QED
            BY <2>3, <2>6, <4>3, <6>1
        <5> QED
          BY <2>6, <4>3, <5>1, <5>2, <5>3
      <4> QED
        BY <1>C, <3>2, <4>1, <4>2, <4>3 DEF WholeResponses
    <3>4. CASE ~late
      <4>1. at = "header" /\ wire = <<>> /\ requests = <<>> /\ server.req = calls
        BY <1>0, <2>2, <2>8, <3>1, <3>4 DEF OnTime, NoneAtServer, OwnAtServer, Shape
      <4>2. Len(wire') = 3 /\ wire'[1].req = calls
        BY <2>3, <2>4, <3>2, <4>1
      <4> QED
        BY <1>C, <2>2, <3>3, <3>4, <4>1, <4>2 DEF OnTime, OwnOnWire, NoneAtServer
    <3>5. CASE late
      <4>1. at # "idle" => Stale'
        BY <1>C, <2>2, <2>3, <3>1, <3>2, <3>5 DEF Behind, Stale
      <4>2. at # "idle" => OwnIsUnderWay'
        <5>1. at # "idle" => OwnIsUnderWay
          BY <2>2, <3>1, <3>5 DEF Behind
        <5>2. server.req = calls => wire'[n + 3].part = "data" /\ wire'[n + 3].req = calls
          BY <2>3, <2>6
        <5> QED
          BY <1>C, <2>2, <2>6, <5>1, <5>2 DEF OwnIsUnderWay
      <4> QED
        BY <1>C, <3>2, <3>3, <3>5, <4>1, <4>2 DEF Behind
    <3> QED
      BY <3>3, <3>4, <3>5
  <2>9. InOrder'
    BY <1>C, <2>8 DEF InOrder
  <2> QED
    BY <1>A, <2>5, <2>7, <2>9 DEF SessionInv
<1> QED
  BY <1>1, <1>2, <1>3, <1>4 DEF ServerStep

(* SessionInv holds throughout. *)
THEOREM SessionStaysInOrder == SessionSpec => []SessionInv
<1>1. SessionInv /\ [SessionNext]_sessionVars => SessionInv'
  <2> SUFFICES ASSUME SessionInv, [SessionNext]_sessionVars PROVE SessionInv'
    OBVIOUS
  <2>1. CASE Use
    BY <2>1, UseKeepsInv
  <2>2. CASE ClientStep
    BY <2>2, HeaderKeepsInv, DataKeepsInv, GarbageKeepsInv, GivingUpKeepsInv DEF ClientStep
  <2>3. CASE Deliver \/ ServerStep \/ ServerCloses
    BY <2>3, ServerKeepsInv
  <2>4. CASE UNCHANGED sessionVars
    BY <2>4 DEF sessionVars, transport, client, SessionInv, Shape, Asked, OnWire, InOrder,
       WholeResponses, OnTime, NoneAtServer, OwnAtServer, OwnOnWire, Behind, Stale, OwnIsUnderWay,
       AnswersMatchInStep
  <2> QED
    BY <2>1, <2>2, <2>3, <2>4 DEF SessionNext
<1> QED
  BY <1>1, NewSession, PTL DEF SessionSpec

(* While the calls on a connection left off at the end of a response, an   *)
(* answer is that to the call's own request exactly if no call gave up.    *)
THEOREM AnswersAreOwn == SessionSpec => []AnswersMatchInStep
<1>1. SessionInv => AnswersMatchInStep
  BY DEF SessionInv
<1> QED
  BY <1>1, SessionStaysInOrder, PTL
================================================================================
