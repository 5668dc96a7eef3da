----------------------------- MODULE EmulatorLink -----------------------------
(***************************************************************************)
(* What the play loop takes the emulator connection to be: commands that   *)
(* return when the emulator has done them, and events that are delivered   *)
(* in order.  Events share the connection with the answers, so the promise *)
(* ends (skewed) once a command is outstanding while an event is unread.   *)
(* MGBASocket, the byte-level client and server, implements it.            *)
(***************************************************************************)
EXTENDS Integers, Sequences

VARIABLES client,    \* "down", "idle", "call", "wait" or "closed"
          issued,    \* commands sent
          executed,  \* commands the emulator has done
          pushed,    \* events the emulator has sent
          unread,    \* events sent and neither delivered nor lost
          delivered, \* number of events recv_event returned
          got,       \* what the latest call returned
          skewed     \* a command has been outstanding while an event was unread

vars == <<client, issued, executed, pushed, unread, delivered, got, skewed>>

Result(kind, n) == [kind |-> kind, n |-> n]
Nothing == Result("none", 0)
Results == [kind : {"none", "reply", "event", "junk"}, n : Nat]

(* Unread events are lost from the front: the connection is a stream.      *)
Behind(s, t) == \E k \in 0 .. Len(s) : t = SubSeq(s, k + 1, Len(s))

Init == /\ client = "down" /\ issued = 0 /\ executed = 0 /\ pushed = 0
        /\ unread = <<>> /\ delivered = 0 /\ got = Nothing /\ skewed = FALSE

Connect == /\ client = "down" /\ client' = "idle"
           /\ UNCHANGED <<issued, executed, pushed, unread, delivered, got, skewed>>

Call == /\ client = "idle" /\ client' = "call"
        /\ issued' = issued + 1
        /\ skewed' = (skewed \/ unread # <<>>)
        /\ UNCHANGED <<executed, pushed, unread, delivered, got>>

(* Commands are done once, in the order they were sent.                    *)
Execute == /\ executed' \in executed + 1 .. issued
           /\ UNCHANGED <<client, issued, pushed, unread, delivered, got, skewed>>

(* The promise: a command that returns has been done, and its answer is    *)
(* its own.                                                                *)
Reply == /\ client = "call" /\ ~skewed /\ executed = issued
         /\ client' = "idle"
         /\ got' = Result("reply", issued)
         /\ UNCHANGED <<issued, executed, pushed, unread, delivered, skewed>>

(* Without it a command returns on any message.                            *)
Misreply == /\ client = "call" /\ skewed
            /\ client' = "idle"
            /\ got' \in Results
            /\ Behind(unread, unread')
            /\ UNCHANGED <<issued, executed, pushed, delivered, skewed>>

Wait == /\ client = "idle" /\ client' = "wait"
        /\ UNCHANGED <<issued, executed, pushed, unread, delivered, got, skewed>>

(* The oldest unread event is delivered; events that came with it may be   *)
(* lost.                                                                   *)
Event == /\ client = "wait" /\ unread # <<>>
         /\ client' = "idle"
         /\ got' = Result("event", Head(unread))
         /\ delivered' = delivered + 1
         /\ Behind(Tail(unread), unread')
         /\ UNCHANGED <<issued, executed, pushed, skewed>>

NoEvent == /\ client = "wait" /\ client' = "idle"
           /\ got' = Nothing
           /\ UNCHANGED <<issued, executed, pushed, unread, delivered, skewed>>

Push == /\ client \notin {"down", "closed"}
        /\ pushed' = pushed + 1
        /\ unread' = Append(unread, pushed + 1)
        /\ skewed' = (skewed \/ client = "call")
        /\ UNCHANGED <<client, issued, executed, delivered, got>>

(* The connection breaks, or the program ends.                             *)
Lose == /\ Behind(unread, unread')
        /\ UNCHANGED <<client, issued, executed, pushed, delivered, got, skewed>>
Close == /\ client # "closed" /\ client' = "closed"
         /\ unread' = <<>>
         /\ UNCHANGED <<issued, executed, pushed, delivered, got, skewed>>

Next == \/ Connect \/ Call \/ Execute \/ Reply \/ Misreply \/ Wait
        \/ Event \/ NoEvent \/ Push \/ Lose \/ Close

Spec == Init /\ [][Next]_vars
=============================================================================
