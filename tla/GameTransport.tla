---------------------------- MODULE GameTransport ----------------------------
(* The admin server's end of the connection (LibDddAdminTransport): a worker  *)
(* that accepts one game server after another and dispatches its messages to  *)
(* the handlers bound to them, and any number of threads in SendMessage.      *)
(*                                                                            *)
(* They share the field `sock`, which the worker replaces and nobody guards.  *)
(* A sender reads it twice, for the object it locks and for the socket it     *)
(* sends on, and a long Send is written in parts, here two. What arrives is   *)
(* the halves of packets, a header and its payload. The game's end of a       *)
(* connection may close it, or vanish without a word (a power cut): that is   *)
(* noticed only by writing to it. The next connection is made when the game's *)
(* end of the one before is gone, as DddNetClient does.                       *)
EXTENDS Naturals, Sequences, Functions

CONSTANTS
    Senders,     \* threads that call SendMessage
    Endpoints,   \* GamePacketEndpoint
    NoEndpoint,
    MaxConns,    \* bound: connections
    MaxHalves,   \* bound: headers and payloads from the game
    MaxSends     \* bound: calls of SendMessage

ASSUME TransportAssumption ==
    /\ NoEndpoint \notin Endpoints
    /\ MaxConns \in Nat /\ MaxHalves \in Nat /\ MaxSends \in Nat

Conns == 1 .. MaxConns
NoSocket == 0 \* null

VARIABLES
    sock,      \* the field
    closed,    \* connections the worker has no open socket of any more
    accepted,  \* connections taken from the listen queue
    connected, \* the field of the property Connected
    told,      \* what OnStatusChanged was invoked with
    pc,        \* where the worker is
    bindings,  \* endpoints with a handler
    binding,   \* the one that Bind is adding
    late,      \* a handler was added after Listen
    game,      \* the game's end of each connection
    sent,      \* the packets of which it has brought the header
    arrived,   \* how many halves it has brought
    read,      \* how many of these the worker has read
    looked,    \* the packets it has looked a handler up for, and what became of them
    outbound,  \* what was written to each connection
    spc,       \* where each sender is
    lock,      \* the object it has locked or waits for
    target,    \* the socket it sends on
    sends      \* how many calls there have been

workerVars == <<sock, closed, accepted, connected, told, pc, read, looked>>
bindVars == <<bindings, binding, late>>
gameVars == <<sent, arrived>>
senderVars == <<spc, lock, target, sends>>
vars == <<workerVars, bindVars, game, gameVars, outbound, senderVars>>

Forms == {"good", "incompatible", "garbled"} \* garbled: FromBuffer throws
Packets == [endpoint : Endpoints, form : Forms]
Made(c) == game[c] # "none"
PacketOf(c, half) == sent[c][(half + 1) \div 2]
Current == PacketOf(sock, read[sock])

Init ==
    /\ sock = NoSocket /\ closed = {} /\ accepted = 0
    /\ connected = FALSE /\ told = <<>>
    /\ pc = "new"
    /\ bindings = {} /\ binding = NoEndpoint /\ late = FALSE
    /\ game = [c \in Conns |-> "none"]
    /\ sent = [c \in Conns |-> <<>>]
    /\ arrived = [c \in Conns |-> 0]
    /\ read = [c \in Conns |-> 0]
    /\ looked = [c \in Conns |-> <<>>]
    /\ outbound = [c \in Conns |-> <<>>]
    /\ spc = [t \in Senders |-> "idle"]
    /\ lock = [t \in Senders |-> NoSocket]
    /\ target = [t \in Senders |-> NoSocket]
    /\ sends = 0

-----------------------------------------------------------------------------
(* The program's calls of Bind and Listen.                                    *)

\* Dictionary.Add takes its time, and the worker may read meanwhile.
Bind(e) ==
    /\ binding = NoEndpoint
    /\ e \notin bindings
    /\ binding' = e
    /\ late' = (late \/ pc # "new")
    /\ UNCHANGED <<workerVars, bindings, game, gameVars, outbound, senderVars>>

BindReturns ==
    /\ binding # NoEndpoint
    /\ bindings' = bindings \cup {binding}
    /\ binding' = NoEndpoint
    /\ UNCHANGED <<workerVars, late, game, gameVars, outbound, senderVars>>

Listen ==
    /\ pc = "new"
    /\ binding = NoEndpoint
    /\ pc' = "accept"
    /\ UNCHANGED <<sock, closed, accepted, connected, told, read, looked, bindVars,
                   game, gameVars, outbound, senderVars>>

-----------------------------------------------------------------------------
(* The worker.                                                                *)

NotWorker == UNCHANGED <<bindVars, game, gameVars, outbound, senderVars>>

\* Mistake: the setter does not look for a change.
SetConnectedAlways(value) ==
    /\ connected' = value
    /\ told' = Append(told, value)

SetConnected(value) ==
    /\ connected' = value
    /\ told' = IF value = connected THEN told ELSE Append(told, value)

Accept ==
    /\ pc = "accept"
    /\ accepted < MaxConns /\ Made(accepted + 1)
    /\ accepted' = accepted + 1
    /\ sock' = accepted'
    /\ pc' = "accepted"
    /\ UNCHANGED <<closed, connected, told, read, looked>>
    /\ NotWorker

\* The connection is gone before it is accepted.
AcceptThrows ==
    /\ pc = "accept"
    /\ accepted < MaxConns /\ game[accepted + 1] \in {"closed", "reset"}
    /\ accepted' = accepted + 1
    /\ closed' = closed \cup {accepted'}
    /\ pc' = "caught"
    /\ UNCHANGED <<sock, connected, told, read, looked>>
    /\ NotWorker

\* If a handler of OnStatusChanged throws, the connection is given up.
Up ==
    /\ pc = "accepted"
    /\ SetConnected(TRUE)
    /\ pc' \in {"header", "caught"}
    /\ UNCHANGED <<sock, closed, accepted, read, looked>>
    /\ NotWorker

\* ReadNetBytes has all it wants of one half.
ReadHalf ==
    /\ read[sock] < arrived[sock]
    /\ read' = [read EXCEPT ![sock] = @ + 1]
    /\ UNCHANGED <<sock, closed, accepted, connected, told, looked>>
    /\ NotWorker

\* Mistake: an incompatible header ends the call without an exception.
ReadHeaderReturns ==
    /\ pc = "header"
    /\ ReadHalf
    /\ pc' = IF PacketOf(sock, read'[sock]).form = "incompatible"
             THEN "header" ELSE "payload"

\* DecodePacketHeader and the check of the versions.
ReadHeader ==
    /\ pc = "header"
    /\ ReadHalf
    /\ pc' = IF PacketOf(sock, read'[sock]).form = "incompatible"
             THEN "caught" ELSE "payload"

\* FromBuffer.
ReadPayload ==
    /\ pc = "payload"
    /\ ReadHalf
    /\ pc' = IF PacketOf(sock, read'[sock]).form = "garbled"
             THEN "caught" ELSE "look_up"

\* Mistake: no bytes are taken for an unfinished read.
ReadOnlyReset ==
    /\ pc \in {"header", "payload"}
    /\ game[sock] = "reset"
    /\ pc' = "caught"
    /\ UNCHANGED <<sock, closed, accepted, connected, told, read, looked>>
    /\ NotWorker

\* The end of the stream, or a reset.
ReadThrows ==
    /\ pc \in {"header", "payload"}
    /\ \/ game[sock] = "closed" /\ read[sock] = arrived[sock]
       \/ game[sock] = "reset"
    /\ pc' = "caught"
    /\ UNCHANGED <<sock, closed, accepted, connected, told, read, looked>>
    /\ NotWorker

\* Mistake: an exception of the handler is not caught here.
DispatchUncaught(found) ==
    /\ looked' = [looked EXCEPT ![sock] = Append(@, [packet |-> Current, found |-> found])]
    /\ pc' \in {"header"} \cup (IF found THEN {"caught"} ELSE {})

\* The handler runs, if there is one; its exceptions are caught.
Dispatch(found) ==
    /\ looked' = [looked EXCEPT ![sock] = Append(@, [packet |-> Current, found |-> found])]
    /\ pc' = "header"

LookUp ==
    /\ pc = "look_up"
    /\ binding = NoEndpoint
    /\ Dispatch(Current.endpoint \in bindings)
    /\ UNCHANGED <<sock, closed, accepted, connected, told, read>>
    /\ NotWorker

\* TryGetValue while Add changes the dictionary: it may miss a handler that is
\* there, find the one that is being added, or throw.
LookUpDuringBind ==
    /\ pc = "look_up"
    /\ binding # NoEndpoint
    /\ \/ \E found \in BOOLEAN :
            /\ found => Current.endpoint \in bindings \cup {binding}
            /\ Dispatch(found)
       \/ pc' = "caught" /\ UNCHANGED looked
    /\ UNCHANGED <<sock, closed, accepted, connected, told, read>>
    /\ NotWorker

Down ==
    /\ pc = "caught"
    /\ SetConnected(FALSE)
    /\ pc' = "close"
    /\ UNCHANGED <<sock, closed, accepted, read, looked>>
    /\ NotWorker

\* Mistake: the socket is not closed.
Forget ==
    /\ pc = "close"
    /\ sock' = NoSocket
    /\ pc' = "accept"
    /\ UNCHANGED <<closed, accepted, connected, told, read, looked>>
    /\ NotWorker

Close ==
    /\ pc = "close"
    /\ closed' = closed \cup ({sock} \ {NoSocket})
    /\ sock' = NoSocket
    /\ pc' = "accept"
    /\ UNCHANGED <<accepted, connected, told, read, looked>>
    /\ NotWorker

Worker ==
    \/ Accept \/ AcceptThrows \/ Up \/ ReadHeader \/ ReadPayload \/ ReadThrows
    \/ LookUp \/ LookUpDuringBind \/ Down \/ Close

-----------------------------------------------------------------------------
(* SendMessage.                                                               *)

\* The first look at the field; a null there throws.
SendMessage(t) ==
    /\ spc[t] = "idle"
    /\ sends < MaxSends
    /\ sends' = sends + 1
    /\ sock # NoSocket
    /\ lock' = [lock EXCEPT ![t] = sock]
    /\ spc' = [spc EXCEPT ![t] = "enter"]
    /\ UNCHANGED <<workerVars, bindVars, game, gameVars, outbound, target>>

Holds(t) == spc[t] \in {"send", "sending"}

\* Mistake: the lock is taken by several.
EnterUnlocked(t) ==
    /\ spc[t] = "enter"
    /\ spc' = [spc EXCEPT ![t] = "send"]
    /\ UNCHANGED <<workerVars, bindVars, game, gameVars, outbound, lock, target, sends>>

Enter(t) ==
    /\ spc[t] = "enter"
    /\ \A u \in Senders : Holds(u) => lock[u] # lock[t]
    /\ spc' = [spc EXCEPT ![t] = "send"]
    /\ UNCHANGED <<workerVars, bindVars, game, gameVars, outbound, lock, target, sends>>

Usable(c) == c # NoSocket /\ c \notin closed /\ game[c] # "reset"

\* A vanished peer acknowledges nothing.
Write(t, c, part) ==
    /\ outbound' = [outbound EXCEPT ![c] =
                      Append(@, [thread |-> t, part |-> part, lock |-> lock[t]])]
    /\ game' = IF game[c] = "vanished" THEN [game EXCEPT ![c] = "unacked"] ELSE game
    /\ UNCHANGED <<workerVars, bindVars, gameVars, sends>>

\* The second look at the field.
SendFirst(t) ==
    /\ spc[t] = "send"
    /\ Usable(sock)
    /\ Write(t, sock, 1)
    /\ target' = [target EXCEPT ![t] = sock]
    /\ spc' = [spc EXCEPT ![t] = "sending"]
    /\ UNCHANGED lock

SendRest(t) ==
    /\ spc[t] = "sending"
    /\ Usable(target[t])
    /\ Write(t, target[t], 2)
    /\ spc' = [spc EXCEPT ![t] = "idle"]
    /\ target' = [target EXCEPT ![t] = NoSocket]
    /\ lock' = [lock EXCEPT ![t] = NoSocket]

\* Mistake: the exception leaves the lock taken.
SendThrowsLocked(t) ==
    /\ spc[t] = "send" /\ ~Usable(sock)
    /\ spc' = [spc EXCEPT ![t] = "stuck"]
    /\ UNCHANGED <<workerVars, bindVars, game, gameVars, outbound, lock, target, sends>>

\* The caller gets an exception; the lock is given back.
SendThrows(t) ==
    /\ \/ spc[t] = "send" /\ ~Usable(sock)
       \/ spc[t] = "sending" /\ ~Usable(target[t])
    /\ spc' = [spc EXCEPT ![t] = "idle"]
    /\ target' = [target EXCEPT ![t] = NoSocket]
    /\ lock' = [lock EXCEPT ![t] = NoSocket]
    /\ UNCHANGED <<workerVars, bindVars, game, gameVars, outbound, sends>>

Sending(t) == SendFirst(t) \/ SendRest(t) \/ SendThrows(t)

-----------------------------------------------------------------------------
(* The game's end of the connections, and the network.                        *)

Gone(c) == game[c] \in {"closed", "vanished", "unacked", "reset"}

NotGame == UNCHANGED <<workerVars, bindVars, outbound, senderVars>>

GameConnects(c) ==
    /\ ~Made(c)
    /\ c > 1 => Gone(c - 1)
    /\ game' = [game EXCEPT ![c] = "up"]
    /\ UNCHANGED gameVars
    /\ NotGame

\* The header of a new packet, or the payload of the last one.
Arrive(c) ==
    /\ game[c] = "up"
    /\ FoldFunction(+, 0, arrived) < MaxHalves
    /\ \/ /\ arrived[c] = 2 * Len(sent[c])
          /\ \E packet \in Packets : sent' = [sent EXCEPT ![c] = Append(@, packet)]
       \/ /\ arrived[c] < 2 * Len(sent[c])
          /\ UNCHANGED sent
    /\ arrived' = [arrived EXCEPT ![c] = @ + 1]
    /\ UNCHANGED game
    /\ NotGame

GameLeaves(c) ==
    /\ game[c] = "up"
    /\ \E how \in {"closed", "vanished"} : game' = [game EXCEPT ![c] = how]
    /\ UNCHANGED gameVars
    /\ NotGame

\* The answer to what is written to a closed connection, or none for too long.
Reset(c) ==
    /\ game[c] \in {"closed", "unacked"}
    /\ game' = [game EXCEPT ![c] = "reset"]
    /\ UNCHANGED gameVars
    /\ NotGame

-----------------------------------------------------------------------------

Program == \/ \E e \in Endpoints : Bind(e)
           \/ BindReturns \/ Listen

Send == \E t \in Senders : SendMessage(t) \/ Enter(t) \/ Sending(t)

Game == \E c \in Conns : \/ GameConnects(c) \/ Arrive(c) \/ GameLeaves(c) \/ Reset(c)

Next == Program \/ Worker \/ Send \/ Game

Spec == Init /\ [][Next]_vars

\* The threads run, a handler returns, TCP gives up on what is not acknowledged,
\* and a lock that is free again and again is got in the end.
FairSpec ==
    /\ Spec
    /\ WF_vars(Worker)
    /\ \A t \in Senders : SF_vars(Enter(t)) /\ WF_vars(Sending(t))
    /\ \A c \in Conns : WF_vars(Reset(c) /\ game[c] = "unacked")

-----------------------------------------------------------------------------
(* Properties.                                                                *)

GameStates == {"none", "up", "closed", "vanished", "unacked", "reset"}
Chunks == [thread : Senders, part : {1, 2}, lock : Conns]

\* The worker serves the last connection it accepted and has closed all others,
\* and no one reads more than has arrived.
TypeOK ==
    /\ pc \in {"new", "accept", "accepted", "header", "payload", "look_up",
               "caught", "close"}
    /\ accepted \in 0 .. MaxConns
    /\ sock \in {NoSocket, accepted}
    /\ pc \in {"accepted", "header", "payload", "look_up"} => sock # NoSocket
    /\ pc \in {"new", "accept"} => sock = NoSocket
    /\ closed = (1 .. accepted) \ {sock}
    /\ connected \in BOOLEAN /\ told \in Seq(BOOLEAN) /\ late \in BOOLEAN
    /\ bindings \subseteq Endpoints /\ binding \in Endpoints \cup {NoEndpoint}
    /\ game \in [Conns -> GameStates]
    /\ sent \in [Conns -> Seq(Packets)]
    /\ arrived \in [Conns -> Nat] /\ read \in [Conns -> Nat]
    /\ \A c \in Conns : read[c] <= arrived[c] /\ arrived[c] <= 2 * Len(sent[c])
    /\ looked \in [Conns -> Seq([packet : Packets, found : BOOLEAN])]
    /\ outbound \in [Conns -> Seq(Chunks)]
    /\ spc \in [Senders -> {"idle", "enter", "send", "sending"}]
    /\ lock \in [Senders -> Conns \cup {NoSocket}]
    /\ target \in [Senders -> Conns \cup {NoSocket}]
    /\ sends \in 0 .. MaxSends

\* The messages of a connection are dispatched in the order in which the game
\* wrote them, each once, whatever came of the connections around it; one behind
\* a header or payload that was refused never is (GameTransport.cs:113-150).
DispatchInOrder ==
    \A c \in Conns : \A i \in 1 .. Len(looked[c]) :
        /\ i <= Len(sent[c])
        /\ looked[c][i].packet = sent[c][i]
        /\ \A j \in 1 .. i : sent[c][j].form = "good"

\* OnStatusChanged tells UP and DOWN by turns, and the last one told is UP when
\* messages are dispatched and DOWN when the worker waits (GameTransport.cs:40-51).
StatusExact ==
    /\ \A i \in 1 .. Len(told) : told[i] = (i % 2 = 1)
    /\ connected = (Len(told) % 2 = 1)
    /\ pc \in {"header", "payload", "look_up"} => connected
    /\ pc \in {"new", "accept", "close"} => ~connected

\* Packets are whole and one behind the other on a connection, up to where it
\* broke, as long as no one writes to it under the lock of an earlier one
\* (GameTransport.cs:66-67).
Whole(s) ==
    \A i \in 2 .. Len(s) :
        /\ s[i].part = 2 <=> s[i - 1].part = 1
        /\ s[i].part = 2 => s[i].thread = s[i - 1].thread

OwnLock(c) == \A i \in 1 .. Len(outbound[c]) : outbound[c][i].lock = c

PacketsWhole == \A c \in Conns : OwnLock(c) => Whole(outbound[c])

\* When all handlers are bound before Listen, the worker calls the one that is
\* bound for each message, and gives up no connection that is up and of which it
\* has read only good messages, whatever a handler throws (GameTransport.cs:53-56
\* and 130-149).
HealthyKept ==
    ~late => \A c \in Conns :
        /\ \A i \in 1 .. Len(looked[c]) :
              looked[c][i].found = (looked[c][i].packet.endpoint \in bindings)
        /\ c \in closed /\ game[c] = "up" /\ read[c] > 0
              => PacketOf(c, read[c]).form # "good"

\* A game server that waits in the listen queue is accepted, unless the worker
\* holds a connection that has vanished and to which nobody writes: it waits in
\* Receive for ever (GameTransport.cs:82-110 and 180).
Held == sock # NoSocket /\ game[sock] = "vanished"

Served ==
    \A c \in Conns : Made(c) /\ pc # "new" ~> accepted >= c \/ Held

\* Every call of SendMessage returns, whether it sends or throws.
SendReturns == \A t \in Senders : spc[t] # "idle" ~> spc[t] = "idle"
=============================================================================
