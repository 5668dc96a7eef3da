------------------------------ MODULE MGBASocket ------------------------------
(***************************************************************************)
(* The connection to the emulator: liveplay/emulator/socket_client.py,     *)
(* liveplay/emulator/mgba.py and the Lua server that mGBA runs.            *)
(*                                                                         *)
(* A message is two pieces on the wire, the second of which completes its  *)
(* delimiter; a recv returns some of the pieces on their way.  Commands    *)
(* and events are numbered.                                                *)
(***************************************************************************)
EXTENDS Integers, Sequences

CONSTANTS MaxCalls,     \* bound on the commands sent
          MaxEvents,    \* bound on the hotkeys pressed
          MaxAttempts,  \* _CONNECT_ATTEMPTS
          RecvPieces,   \* most pieces of one recv (_RECV_SIZE)
          Timeouts      \* the choices of connect: is event_timeout set?

ASSUME SocketAssumption ==
  /\ MaxCalls \in Nat /\ MaxEvents \in Nat /\ MaxAttempts \in Nat /\ RecvPieces \in Nat \ {0}
  /\ Timeouts \subseteq BOOLEAN

VARIABLES client,    \* "down", "idle", "call", "wait", or "closed" for good
          timed,     \* the socket has a timeout
          tries,     \* failed connection attempts
          reads,     \* the outstanding command is one of _send_data
          buf,       \* buf of the running _recv_until_end
          server,    \* "off", "listen", "served" (Lua's client is set) or, with
                     \* complete commands in its buffer, "drain"
          broken,    \* the server has closed the connection
          srvBuf,    \* Lua's buffer
          toServer, toClient,  \* pieces on their way
          issued, executed,    \* numbers of the latest command sent, and done
          pushed,    \* number of the latest event
          delivered, \* events returned by recv_event
          got,       \* what the latest call returned
          skewed     \* a command was outstanding with something else unread

clientVars == <<client, timed, tries, reads, buf, delivered, got>>
serverVars == <<server, broken, srvBuf, executed, pushed>>
vars == <<clientVars, serverVars, toServer, toClient, issued, skewed>>

Result(kind, n) == [kind |-> kind, n |-> n]
Nothing == Result("none", 0)

(* ------------------------------ the wire ------------------------------- *)
Piece(m, end) == [msg |-> m, end |-> end]
Wire(m) == <<Piece(m, FALSE), Piece(m, TRUE)>>
Msg(kind, n) == [kind |-> kind, n |-> n]
Ends(s) == {i \in 1 .. Len(s) : s[i].end}
FirstEnd(s) == CHOOSE i \in Ends(s) : \A j \in Ends(s) : i <= j
LastEnd(s) == IF Ends(s) = {} THEN 0 ELSE CHOOSE i \in Ends(s) : \A j \in Ends(s) : j <= i

(* Mistake: the bytes behind the delimiter are returned with the message,  *)
(* as the latest of the messages in the buffer.                            *)
LatestMessage(s) ==
  LET e == LastEnd(s) IN IF e > 1 /\ ~s[e - 1].end THEN s[e].msg ELSE Msg("JUNK", 0)

(* The text up to the first delimiter.  A text whose beginning was lost    *)
(* has no prefix.                                                          *)
MessageOf(s) == IF FirstEnd(s) = 1 THEN Msg("JUNK", 0) ELSE s[FirstEnd(s)].msg

Init ==
  /\ client = "down" /\ timed = FALSE /\ tries = 0 /\ reads = FALSE /\ buf = <<>>
  /\ server = "off" /\ broken = FALSE /\ srvBuf = <<>>
  /\ toServer = <<>> /\ toClient = <<>>
  /\ issued = 0 /\ executed = 0 /\ pushed = 0 /\ delivered = 0
  /\ got = Nothing /\ skewed = FALSE

(* ------------------------------ lifecycle ------------------------------ *)
(* The with block of MGBAProcess ends: every exception but the timeout of  *)
(* recv_event leads here.                                                  *)
close ==
  /\ client' = "closed" /\ buf' = <<>>
  /\ server' = "off" /\ srvBuf' = <<>> /\ toServer' = <<>> /\ toClient' = <<>>
  /\ UNCHANGED <<timed, tries, reads, broken, issued, executed, pushed, delivered, got, skewed>>

(* The script binds its port some time after start has launched mGBA.      *)
Bind == /\ server = "off" /\ client = "down"
        /\ server' = "listen"
        /\ UNCHANGED <<clientVars, broken, srvBuf, executed, pushed, toServer, toClient, issued, skewed>>

(* _connect_socket: an attempt, and a pause after a failed one.            *)
Connect == /\ client = "down" /\ tries < MaxAttempts /\ server = "listen"
           /\ client' = "idle"
           /\ timed' \in Timeouts
           /\ UNCHANGED <<tries, reads, buf, delivered, got, serverVars, toServer, toClient, issued, skewed>>
ConnectFails == /\ client = "down" /\ tries < MaxAttempts /\ server = "off"
                /\ tries' = tries + 1
                /\ UNCHANGED <<client, timed, reads, buf, delivered, got,
                               serverVars, toServer, toClient, issued, skewed>>
ConnectGivesUp == client = "down" /\ tries = MaxAttempts /\ close
Quit == client = "idle" /\ close

(* ------------------------------- client -------------------------------- *)
(* _raw_send up to its sendall.                                            *)
Send(data) ==
  /\ client = "idle" /\ ~broken /\ issued < MaxCalls
  /\ client' = "call" /\ reads' = data /\ buf' = <<>>
  /\ issued' = issued + 1
  /\ toServer' = toServer \o Wire(Msg("COMMAND", issued + 1))
  /\ skewed' = (skewed \/ toClient # <<>>)
  /\ UNCHANGED <<timed, tries, delivered, got, serverVars, toClient>>
SendFails == client = "idle" /\ broken /\ close

recv_event ==
  /\ client = "idle"
  /\ client' = "wait" /\ buf' = <<>>
  /\ UNCHANGED <<timed, tries, reads, delivered, got, serverVars, toServer, toClient, issued, skewed>>

(* One recv of _recv_until_end, which takes n pieces.                      *)
Arrived(n) == SubSeq(toClient, 1, n)
Rest(n) == SubSeq(toClient, n + 1, Len(toClient))
RecvSizes == {n \in 1 .. RecvPieces : n <= Len(toClient)}

RecvMore ==
  /\ client \in {"call", "wait"}
  /\ \E n \in RecvSizes :
       /\ Ends(buf \o Arrived(n)) = {}
       /\ buf' = buf \o Arrived(n)
       /\ toClient' = Rest(n)
  /\ UNCHANGED <<client, timed, tries, reads, delivered, got, serverVars, toServer, issued, skewed>>

Return(n, result) ==
  /\ client' = "idle" /\ buf' = <<>> /\ got' = result
  /\ toClient' = Rest(n)
  /\ UNCHANGED <<timed, tries, reads, serverVars, toServer, issued, skewed>>

(* _check_response rejects errors only; _send_data wants a success.        *)
Accepts(m) == IF reads THEN m.kind = "SUCCESS" ELSE m.kind # "ERROR"
ResultOf(m) == CASE m.kind = "EVENT" -> Result("event", m.n)
                 [] m.kind = "JUNK"  -> Result("junk", 0)
                 [] OTHER            -> Result("reply", m.n)

(* Mistake: an event met while waiting for an answer is skipped, with the  *)
(* bytes that came behind it.                                              *)
RecvSkippingEvents ==
  /\ client = "call"
  /\ \E n \in RecvSizes :
       /\ Ends(buf \o Arrived(n)) # {}
       /\ LET m == MessageOf(buf \o Arrived(n))
          IN  CASE m.kind = "EVENT" ->
                     /\ buf' = <<>> /\ toClient' = Rest(n)
                     /\ UNCHANGED <<client, timed, tries, reads, delivered, got, serverVars,
                                    toServer, issued, skewed>>
                [] m.kind # "EVENT" /\ Accepts(m) -> Return(n, ResultOf(m)) /\ UNCHANGED delivered
                [] OTHER -> close

RecvResponse ==
  /\ client = "call"
  /\ \E n \in RecvSizes :
       /\ Ends(buf \o Arrived(n)) # {}
       /\ LET m == MessageOf(buf \o Arrived(n))
          IN  IF Accepts(m) THEN Return(n, ResultOf(m)) /\ UNCHANGED delivered ELSE close
RecvEvent ==
  /\ client = "wait"
  /\ \E n \in RecvSizes :
       /\ Ends(buf \o Arrived(n)) # {}
       /\ LET m == MessageOf(buf \o Arrived(n))
          IN  IF m.kind = "EVENT" THEN Return(n, ResultOf(m)) /\ delivered' = delivered + 1
              ELSE close

(* socket.timeout: recv_event answers None; from a command it ends the     *)
(* program.  Bytes of a message that has begun are lost in both cases.     *)
EventTimeout == client = "wait" /\ timed /\ toClient = <<>> /\ Return(0, Nothing) /\ UNCHANGED delivered
(* Mistake: a command that timed out counts as answered.                   *)
TimeoutReturns ==
  client = "call" /\ timed /\ toClient = <<>> /\ Return(0, Nothing) /\ UNCHANGED delivered
CommandTimeout == client = "call" /\ timed /\ toClient = <<>> /\ close
RecvClosed == client \in {"call", "wait"} /\ broken /\ toClient = <<>> /\ close

(* ----------------------------- Lua server ------------------------------ *)
Accept == /\ server = "listen" /\ client \notin {"down", "closed"} /\ ~broken
          /\ server' = "served" /\ srvBuf' = <<>>
          /\ UNCHANGED <<clientVars, broken, executed, pushed, toServer, toClient, issued, skewed>>

(* A frame appends what has arrived to the buffer; what is complete there  *)
(* is handled before the frame ends.                                       *)
AfterMessage(s) == SubSeq(s, FirstEnd(s) + 1, Len(s))
InFrame(s) == IF Ends(s) = {} THEN "served" ELSE "drain"

FrameReceive ==
  /\ server = "served"
  /\ \E n \in 1 .. Len(toServer) :
       /\ srvBuf' = srvBuf \o SubSeq(toServer, 1, n)
       /\ toServer' = SubSeq(toServer, n + 1, Len(toServer))
  /\ server' = InFrame(srvBuf')
  /\ UNCHANGED <<clientVars, broken, executed, pushed, toClient, issued, skewed>>

(* The oldest command in the buffer is done and answered.                  *)
handle_command ==
  /\ server = "drain"
  /\ srvBuf' = AfterMessage(srvBuf)
  /\ server' = InFrame(srvBuf')
  /\ executed' = srvBuf[FirstEnd(srvBuf)].msg.n
  /\ \E kind \in {"SUCCESS", "ERROR"} : toClient' = toClient \o Wire(Msg(kind, executed'))
  /\ UNCHANGED <<clientVars, broken, pushed, toServer, issued, skewed>>

(* A hotkey of the user.                                                   *)
Key == /\ server = "served" /\ pushed < MaxEvents
       /\ pushed' = pushed + 1
       /\ toClient' = toClient \o Wire(Msg("EVENT", pushed + 1))
       /\ skewed' = (skewed \/ client = "call")
       /\ UNCHANGED <<clientVars, server, broken, srvBuf, executed, toServer, issued>>

(* A failed receive, or a Lua error, before or after a command has had its *)
(* effect.  What was on its way may be lost.                               *)
reset_connection ==
  /\ server' = "listen" /\ broken' = TRUE /\ srvBuf' = <<>> /\ toServer' = <<>>
  /\ UNCHANGED <<clientVars, pushed, issued, skewed>>

ReceiveFails ==
  /\ server \in {"served", "drain"}
  /\ reset_connection
  /\ toClient' \in {toClient, <<>>}
  /\ UNCHANGED executed

FrameError ==
  /\ server = "drain"
  /\ reset_connection
  /\ executed' = srvBuf[FirstEnd(srvBuf)].msg.n
  /\ UNCHANGED toClient

ClientRecv == RecvMore \/ RecvResponse \/ RecvEvent \/ EventTimeout \/ CommandTimeout \/ RecvClosed

Next ==
  \/ Bind \/ Connect \/ ConnectFails \/ ConnectGivesUp \/ Quit
  \/ \E data \in BOOLEAN : Send(data)
  \/ SendFails \/ recv_event
  \/ RecvMore \/ RecvResponse \/ RecvEvent \/ EventTimeout \/ CommandTimeout \/ RecvClosed
  \/ Accept \/ FrameReceive \/ handle_command \/ Key \/ ReceiveFails \/ FrameError

(* The client sits in recv, and the emulator keeps running frames.         *)
Spec == Init /\ [][Next]_vars /\ WF_vars(ClientRecv) /\ WF_vars(Accept)
        /\ WF_vars(FrameReceive) /\ WF_vars(handle_command)

(* ----------------------------- properties ------------------------------ *)
(* The state of the abstract link: an event is unread until the piece that *)
(* ends it has left the connection.  Events leave it from the front.       *)
EventEnds(s) == {i \in Ends(s) : s[i].msg.kind = "EVENT"}
FirstEvent(s) == CHOOSE i \in EventEnds(s) : \A j \in EventEnds(s) : i <= j
Oldest(s, last) == IF EventEnds(s) = {} THEN last + 1 ELSE s[FirstEvent(s)].msg.n
From(n, last) == [i \in 1 .. last + 1 - n |-> n + i - 1]
Unread == From(Oldest(toClient, pushed), pushed)
Link == INSTANCE EmulatorLink WITH unread <- Unread

(* The byte-level connection implements the abstract link: unless an event *)
(* was unread while a command was outstanding, a command of the client     *)
(* returns its own answer and after the emulator has done it; commands are *)
(* done once and in order, events are delivered at most once and in order. *)
LinkImplemented == Link!Spec

(* However events and answers interleave, the client (_raw_send) is never  *)
(* ahead of the emulator by more than one command for each event that      *)
(* recv_event did not return.                                              *)
BoundedRunAhead == issued - executed <= 1 + pushed - delivered

(* Every command returns or raises, even after answers were dropped behind *)
(* an event; with a timeout so does recv_event.                            *)
CallsReturn == /\ (client = "call") ~> (client # "call")
               /\ (client = "wait" /\ timed) ~> (client # "wait")

(* ------------------------ the inductive invariant ---------------------- *)
Kinds == {"SUCCESS", "ERROR", "EVENT"}
Pieces(kinds) == [msg : [kind : kinds, n : Nat], end : BOOLEAN]

TypeOK ==
  /\ client \in {"down", "idle", "call", "wait", "closed"}
  /\ timed \in BOOLEAN /\ tries \in 0 .. MaxAttempts /\ reads \in BOOLEAN
  /\ server \in {"off", "listen", "served", "drain"} /\ broken \in BOOLEAN
  /\ srvBuf \in Seq(Pieces({"COMMAND"})) /\ toServer \in Seq(Pieces({"COMMAND"}))
  /\ toClient \in Seq(Pieces(Kinds)) /\ buf \in Seq(Pieces(Kinds)) /\ Ends(buf) = {}
  /\ issued \in Nat /\ executed \in 0 .. issued
  /\ pushed \in Nat /\ delivered \in Nat
  /\ skewed \in BOOLEAN

(* A server with a client has an open connection; broken or closed, it has *)
(* nothing left to do.                                                     *)
Connected ==
  /\ server \in {"served", "drain"} => ~broken /\ client \notin {"down", "closed"}
  /\ broken \/ client = "closed" => srvBuf = <<>> /\ toServer = <<>>
  /\ server \in {"off", "listen"} => srvBuf = <<>>
  /\ client \in {"down", "closed"} => toClient = <<>>
  /\ client = "down" => issued = executed /\ ~broken
  /\ server = "drain" => Ends(srvBuf) # {}

(* Lua's buffer and the way to it hold the commands sent and not done.     *)
Commands(s, done, sent) ==
  /\ Len(s) = 2 * (sent - done)
  /\ \A k \in 1 .. sent - done : /\ s[2 * k - 1] = Piece(Msg("COMMAND", done + k), FALSE)
                                /\ s[2 * k] = Piece(Msg("COMMAND", done + k), TRUE)
CommandsInOrder == ~broken /\ client # "closed" => Commands(srvBuf \o toServer, executed, issued)

(* On the way back the pieces alternate, and the last one ends a message.  *)
Alternates(s) ==
  /\ s # <<>> => s[Len(s)].end
  /\ \A i \in 1 .. Len(s) - 1 : s[i].end <=> ~s[i + 1].end
  /\ \A i \in Ends(s) : \E m \in 0 .. Len(s) : Len(s) - i = 2 * m
EventsInOrder(s, last) ==
  /\ \A i \in EventEnds(s) : s[i].msg.n <= last
  /\ \A i, j \in EventEnds(s) : i < j => s[i].msg.n < s[j].msg.n

WayBack == Alternates(toClient) /\ EventsInOrder(toClient, pushed)

(* Answers and events on the way: one for each command done and event, but *)
(* for those that the client's calls consumed.                             *)
Open == IF client \in {"call", "closed"} THEN 1 ELSE 0
Balance == 2 * (issued - Open + delivered) + Len(toClient) <= 2 * (executed + pushed)

(* As long as nothing was skewed, a command finds its own answer.          *)
OwnAnswer(m) == \/ buf = <<>> /\ toClient = Wire(m)
                \/ buf = <<Piece(m, FALSE)>> /\ toClient = <<Piece(m, TRUE)>>
Calling == \/ broken /\ toClient = <<>>
           \/ executed = issued - 1 /\ buf = <<>> /\ toClient = <<>>
           \/ executed = issued /\ \E kind \in {"SUCCESS", "ERROR"} : OwnAnswer(Msg(kind, issued))
Resting == /\ broken \/ executed = issued
           /\ \A i \in 1 .. Len(toClient) : toClient[i].msg.kind = "EVENT"
InStep == ~skewed => /\ client = "call" => Calling
                     /\ client \in {"idle", "wait"} => Resting

SocketInv == /\ TypeOK /\ Connected /\ CommandsInOrder
             /\ WayBack /\ Balance /\ InStep
=============================================================================
