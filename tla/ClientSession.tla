---------------------------- MODULE ClientSession ----------------------------
(***************************************************************************)
(* A client object, of the C++ SDK or of client.py, and the server's       *)
(* thread for its connection.  TCP keeps the order of the bytes and not    *)
(* their division: a response is sent as the first bytes of its header,    *)
(* the rest of the header and its data, and each may arrive when it likes. *)
(* Nothing in a response says which request it answers; the clients rely   *)
(* on having read everything that came before it.                          *)
(***************************************************************************)
EXTENDS Integers, Sequences

CONSTANTS MaxCalls,   \* bound: the calls that send a request
          MaxLinks    \* bound: the connections

ASSUME SessionAssumption == MaxCalls \in Nat /\ MaxLinks \in Nat

VARIABLES
  kind,       \* which client it is, "sdk" or "python"; it never changes
  link,       \* "none" (the object is not connected), "open", or "closed"
              \* (the server has closed, the object still holds the socket)
  links,      \* the connections so far
  requests,   \* the requests on their way to the server
  server,     \* the request the server is processing, or NoRequest
  wire,       \* the response bytes sent and not read by the client
  delivered,  \* how many pieces of them have arrived
  calls,      \* the calls so far; the number of the last request
  at,         \* where the call under way is: "idle", "header", "data", or
              \* "garbage" (data whose length was read out of step)
  result,     \* what the last call returned
  inStep,     \* history: whether every call on this connection left off at
              \* the end of a response
  late        \* history: whether a call on this connection gave up waiting

transport   == <<kind, link, links, requests, server, wire, delivered>>
client      == <<calls, at, result, inStep, late>>
sessionVars == <<transport, client>>

NoRequest == [req |-> 0, big |-> FALSE]
Codes     == {"SUCCESS", "ERROR"}

(* Data of more than 1 MB is big.                                          *)
Piece(part, req, code, big) == [part |-> part, req |-> req, code |-> code, big |-> big]
Response(req, code, big) ==
  <<Piece("head", req, code, big), Piece("rest", req, code, big), Piece("data", req, code, big)>>

Result(ok, answer, code, cause) ==
  [req |-> calls, on |-> links, inTime |-> ~late, inStep |-> inStep,
   ok |-> ok, answer |-> answer, code |-> code, cause |-> cause]
Fails(cause)      == Result(FALSE, 0, "ERROR", cause)
Returns(ok, data) == Result(ok, data.req, data.code, "none")

(* The answer of a client that read other bytes than those of a response.  *)
Garbage == -1

SessionInit ==
  /\ kind \in {"sdk", "python"}
  /\ link = "none" /\ links = 0
  /\ requests = <<>> /\ server = NoRequest
  /\ wire = <<>> /\ delivered = 0
  /\ calls = 0 /\ at = "idle" /\ inStep = TRUE /\ late = FALSE
  /\ result = Result(TRUE, 0, "SUCCESS", "none")

-----------------------------------------------------------------------------
(* Connect: nothing happens if the object thinks it is connected; a        *)
(* connect that fails leaves it not connected.                             *)
IsConnected == link # "none"

Connect ==
  /\ at = "idle" /\ ~IsConnected /\ links < MaxLinks
  /\ link' = "open" /\ links' = links + 1
  /\ requests' = <<>> /\ server' = NoRequest
  /\ wire' = <<>> /\ delivered' = 0
  /\ inStep' = TRUE /\ late' = FALSE
  /\ UNCHANGED <<kind, calls, at, result>>

Disconnect ==
  /\ at = "idle" /\ IsConnected
  /\ link' = "none"
  /\ UNCHANGED <<kind, links, requests, server, wire, delivered, client>>

(* A command of the SDK or a method of client.py, with its request sent.   *)
(* On a closed connection the send may still succeed.                      *)
Call(big) ==
  /\ at = "idle" /\ IsConnected /\ calls < MaxCalls
  /\ calls' = calls + 1
  /\ at' = "header"
  /\ requests' = Append(requests, [req |-> calls + 1, big |-> big])
  /\ UNCHANGED <<kind, link, links, server, wire, delivered, result, inStep, late>>

(* Whether the next byte to read is the first of a response. *)
Aligned == wire # <<>> => Head(wire).part = "head"

Finish(r) == at' = "idle" /\ result' = r /\ inStep' = (inStep /\ Aligned')
Read(n)   == wire' = SubSeq(wire, n + 1, Len(wire)) /\ delivered' = delivered - n

(* Some of the bytes that have arrived are read.  How many bytes a piece   *)
(* has is left open, and so is where in a piece the reading stops.         *)
Torn == Piece("torn", 0, "ERROR", FALSE)

ReadSome ==
  \E n \in 0 .. delivered :
    \/ n > 0 /\ Read(n)
    \/ /\ n < delivered
       /\ wire' = <<Torn>> \o SubSeq(wire, n + 2, Len(wire))
       /\ delivered' = delivered - n

(* Nothing more will come: recv returns 0. *)
EndOfStream == link = "closed" /\ delivered = Len(wire)

-----------------------------------------------------------------------------
(* The header.  The SDK reads until it has five bytes, client.py calls     *)
(* recv(5) once and raises if it got fewer.                                *)
SdkReadsHeader ==
  /\ kind = "sdk" /\ at = "header" /\ Aligned /\ delivered >= 2
  /\ Read(2)
  /\ IF wire[1].big
     THEN Finish(Fails("too long"))
     ELSE at' = "data" /\ UNCHANGED <<result, inStep>>
  /\ UNCHANGED <<kind, link, links, requests, server, calls, late>>

PythonReadsHeader ==
  /\ kind = "python" /\ at = "header" /\ Aligned /\ delivered > 0
  /\ IF delivered = 1
     THEN Read(1) /\ Finish(Fails("short header"))
     ELSE Read(2) /\ at' = "data" /\ UNCHANGED <<result, inStep>>
  /\ UNCHANGED <<kind, link, links, requests, server, calls, late>>

(* The data, read in a loop by both.  The SDK returns true whatever the    *)
(* code; the methods of client.py return None or False unless it is        *)
(* SUCCESS.                                                                *)
Succeeds(code) == kind = "sdk" \/ code = "SUCCESS"

ReadsData ==
  /\ at = "data" /\ delivered > 0
  /\ Read(1)
  /\ Finish(Returns(Succeeds(wire[1].code), wire[1]))
  /\ UNCHANGED <<kind, link, links, requests, server, calls, late>>

(* Out of step, a client takes whatever bytes come next for a header.  It  *)
(* may fail on them (a length beyond 1 MB, a code that is none, fewer than *)
(* five bytes); or they name a code, and a length that may be 0.           *)
ReturnsGarbage ==
  \E code \in Codes : Finish(Result(Succeeds(code), Garbage, code, "none"))

OutOfStep == at = "garbage" \/ (at = "header" /\ ~Aligned)

ReadsGarbageHeader ==
  /\ at = "header" /\ OutOfStep /\ delivered > 0
  /\ ReadSome
  /\ \/ Finish(Fails("out of step"))
     \/ ReturnsGarbage
     \/ at' = "garbage" /\ UNCHANGED <<result, inStep>>
  /\ UNCHANGED <<kind, link, links, requests, server, calls, late>>

ReadsGarbageData ==
  /\ at = "garbage" /\ delivered > 0
  /\ \/ ReadSome /\ ReturnsGarbage
     \/ Read(delivered) /\ UNCHANGED <<at, result, inStep>>
  /\ UNCHANGED <<kind, link, links, requests, server, calls, late>>

(* The bytes that were missing never come. *)
FindsEndOfStream ==
  /\ at # "idle" /\ EndOfStream
  /\ OutOfStep \/ delivered < (IF kind = "sdk" /\ at = "header" THEN 2 ELSE 1)
  /\ Read(delivered)
  /\ Finish(Fails("closed"))
  /\ UNCHANGED <<kind, link, links, requests, server, calls, late>>

(* client.py sets a timeout of 10 seconds on its socket; when it passes    *)
(* the call raises and the socket stays connected.                         *)
TimesOut ==
  /\ kind = "python"
  /\ at # "idle" /\ delivered = 0
  /\ UNCHANGED <<transport, calls>>
  /\ Finish(Fails("timeout"))
  /\ late' = TRUE

ClientStep == SdkReadsHeader \/ PythonReadsHeader \/ ReadsData
                \/ ReadsGarbageHeader \/ ReadsGarbageData \/ FindsEndOfStream \/ TimesOut

-----------------------------------------------------------------------------
(* The network delivers a piece. *)
Deliver ==
  /\ IsConnected /\ delivered < Len(wire)
  /\ delivered' = delivered + 1
  /\ UNCHANGED <<kind, link, links, requests, server, wire, client>>

(* The server's thread reads a whole request; one of more than 1 MB makes  *)
(* it close the connection.                                                *)
ReceiveStopsAtBig ==
  /\ link = "open" /\ server = NoRequest /\ requests # <<>>
  /\ ~Head(requests).big
  /\ requests' = Tail(requests) /\ server' = Head(requests)
  /\ UNCHANGED <<kind, link, links, wire, delivered, client>>

ReceiveRequest ==
  /\ link = "open" /\ server = NoRequest /\ requests # <<>>
  /\ requests' = Tail(requests)
  /\ IF Head(requests).big
     THEN link' = "closed" /\ UNCHANGED server
     ELSE server' = Head(requests) /\ UNCHANGED link
  /\ UNCHANGED <<kind, links, wire, delivered, client>>

(* It processes the request and sends the response, whose data can exceed  *)
(* 1 MB (READ of a memory of 1 MB).                                        *)
SendResponseTwice(code, big) ==
  /\ link = "open" /\ server # NoRequest
  /\ wire' = wire \o Response(server.req, code, big) \o Response(server.req, code, big)
  /\ server' = NoRequest
  /\ UNCHANGED <<kind, link, links, requests, delivered, client>>

SendResponse(code, big) ==
  /\ link = "open" /\ server # NoRequest
  /\ wire' = wire \o Response(server.req, code, big)
  /\ server' = NoRequest
  /\ UNCHANGED <<kind, link, links, requests, delivered, client>>

(* The server stops. *)
ServerCloses ==
  /\ link = "open"
  /\ link' = "closed"
  /\ server' = NoRequest
  /\ UNCHANGED <<kind, links, requests, wire, delivered, client>>

ServerStep == ReceiveRequest \/ \E code \in Codes, big \in BOOLEAN : SendResponse(code, big)

-----------------------------------------------------------------------------
(* StartInteractiveCLI is one such use: Connect, a call per line, and      *)
(* Disconnect at the end.                                                  *)
Use == Connect \/ Disconnect \/ \E big \in BOOLEAN : Call(big)

SessionNext == Use \/ ClientStep \/ Deliver \/ ServerStep \/ ServerCloses

SessionSpec == SessionInit /\ [][SessionNext]_sessionVars

(* For client.py its own progress is enough; a client without a timeout    *)
(* relies on the network and on the server, whose thread is scheduled.     *)
ClientRuns == WF_sessionVars(ClientStep)
ServerRuns == WF_sessionVars(kind = "sdk" /\ Deliver) /\ WF_sessionVars(kind = "sdk" /\ ServerStep)

FairSessionSpec == SessionSpec /\ ClientRuns /\ ServerRuns

-----------------------------------------------------------------------------
(* While the calls on a connection left off at the end of a response, an   *)
(* answer is the answer to the call's own request exactly if no call has   *)
(* given up waiting: after a timeout it never is.                          *)
AnswersMatchInStep ==
  result.answer # 0 /\ result.inStep => (result.answer = result.req <=> result.inTime)

(* Every call returns, whatever the server answers and even if it stops,   *)
(* unless the SDK is out of step; that of client.py returns in any case.   *)
CallsReturn == at # "idle" /\ (kind = "python" \/ inStep) ~> at = "idle"

-----------------------------------------------------------------------------
(* What documents say of the clients that their code does not do.          *)

(* client.py:85: a call sends a request and receives the response to it.   *)
(* After a timeout the next call receives the late one, and out of step it *)
(* receives what it takes for one.                                         *)
AnswersMatch == result.answer # 0 => result.answer = result.req

(* README_TCP.md:995: data may arrive in several pieces, and is received   *)
(* in a loop until it is complete.                                         *)
PiecesAreCollected == result.cause # "short header"

(* client_sdk.h:49: the command returns true on success, false on failure. *)
SdkReportsErrors == result.ok => result.code = "SUCCESS"

(* client_sdk.cpp:390: whether it reports success or failure, a response   *)
(* of the server is handed to the caller with true.                        *)
SdkHandsOverResponses == result.cause \notin {"too long", "out of step"}

(* client_sdk.h:41: IsConnected says whether the object is connected.  It  *)
(* is still true, and Connect does nothing, after a call that found the    *)
(* connection closed.                                                      *)
IsConnectedIsCurrent == result.cause = "closed" /\ result.on = links => ~IsConnected
=============================================================================
