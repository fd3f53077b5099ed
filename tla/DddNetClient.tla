---------------------------- MODULE DddNetClient ---------------------------
(* ddd_net/client.cpp: the connection to the admin server. The game's main    *)
(* thread leaves encoded packets in queue and takes received ones from        *)
(* queue_incoming; the worker thread connects, logs in, sends and receives,   *)
(* and starts again when the connection fails.                                *)
(*                                                                            *)
(* A call of DddNetQueue is one step here: DddNetQueue implements the         *)
(* bounded queue of BoundedFifo, whose calls take effect at one instant. A    *)
(* packet is its identity and what the client's checks can tell of it; on the *)
(* wire it is two chunks of header, so that a header can arrive in part, and  *)
(* one of payload when it has any.                                            *)
EXTENDS Naturals, Sequences, FiniteSets

CONSTANTS
    QueueSize,   \* queue_count, of both queues
    MaxOut,      \* bound: packets the main thread offers
    MaxIn,       \* bound: packets the admin server starts to send
    MaxDrops     \* bound: connections that fail by themselves

ASSUME QueueSizeAssumption == QueueSize \in Nat \ {0}
ASSUME BoundsAssumption == MaxOut \in Nat /\ MaxIn \in Nat /\ MaxDrops \in Nat

VARIABLES
    pc,             \* where the worker is
    connected,      \* the worker's flag
    queue,          \* packets to send
    queue_incoming, \* packets received
    buffer,         \* the worker's payload and payload_len: the packet it holds
    missing,        \* chunks receive_full_buffer still waits for
    link,           \* the socket: "none", "up" or "down"
    wire,           \* chunks the server sent that have not arrived
    inbox,          \* chunks that have arrived and are not yet read
    sent,           \* what was sent on this connection, in order
    accepted,       \* what enqueue took since the last clear, in order
    handled,        \* the last request handed to the plugin
    heap,           \* the packet buffers malloc gave and someone is to free
    out,            \* how many packets the main thread has offered
    in,             \* how many packets the server has started
    drops           \* how many connections have failed by themselves

workerVars == <<connected, buffer, missing>>
outVars == <<queue, accepted>>
inVars == <<queue_incoming, handled>>
netVars == <<link, wire, inbox>>
boundVars == <<out, in, drops>>
vars == <<pc, workerVars, outVars, inVars, netVars, sent, heap, boundVars>>

-----------------------------------------------------------------------------
(* Packets.                                                                   *)

\* What receive_packet_raw makes of a packet from the server: request and empty
\* pass (empty has no payload), rejected fails a check on its header.
Kinds == {"request", "empty", "rejected"}

Outgoing(i) == [dir |-> "out", id |-> i, kind |-> "request"]
Incoming(i, k) == [dir |-> "in", id |-> i, kind |-> k]

Login == Outgoing(0)
NoPacket == Incoming(0, "empty")

Chunk(p, part) == [packet |-> p, part |-> part]

Payload(p) == IF p.kind = "empty" THEN <<>> ELSE <<Chunk(p, "payload")>>

\* The byte stream of one packet.
Chunks(p) == <<Chunk(p, "start"), Chunk(p, "header")>> \o Payload(p)

Elements(s) == {s[i] : i \in 1 .. Len(s)}

-----------------------------------------------------------------------------

Init ==
    /\ pc = "startup"
    /\ connected = FALSE
    /\ queue = <<>>
    /\ queue_incoming = <<>>
    /\ buffer = NoPacket
    /\ missing = 0
    /\ link = "none"
    /\ wire = <<>>
    /\ inbox = <<>>
    /\ sent = <<>>
    /\ accepted = <<>>
    /\ handled = 0
    /\ heap = {}
    /\ out = 0
    /\ in = 0
    /\ drops = 0

-----------------------------------------------------------------------------
(* The main thread.                                                           *)

\* encode_packet's malloc, then the queue; a full queue frees the packet.
EnqueueOutgoing ==
    /\ out < MaxOut
    /\ out' = out + 1
    /\ IF Len(queue) < QueueSize
       THEN /\ queue' = Append(queue, Outgoing(out'))
            /\ accepted' = Append(accepted, Outgoing(out'))
            /\ heap' = heap \cup {Outgoing(out')}
       ELSE UNCHANGED <<outVars, heap>>
    /\ UNCHANGED <<pc, workerVars, inVars, netVars, sent, in, drops>>

\* Mistake: a packet that deserialize refuses goes back to the end of the queue.
DequeueIncomingRetries ==
    /\ queue_incoming # <<>>
    /\ \/ /\ handled' = Head(queue_incoming).id
          /\ queue_incoming' = Tail(queue_incoming)
          /\ heap' = heap \ {Head(queue_incoming)}
       \/ /\ queue_incoming' = Append(Tail(queue_incoming), Head(queue_incoming))
          /\ UNCHANGED <<handled, heap>>
    /\ UNCHANGED <<pc, workerVars, outVars, netVars, sent, boundVars>>

\* dequeue_incoming: what deserialize refuses is freed and not handled. Nor is a
\* packet for which it throws for want of memory; that one's buffer is lost.
DequeueIncoming ==
    /\ queue_incoming # <<>>
    /\ queue_incoming' = Tail(queue_incoming)
    /\ heap' = heap \ {Head(queue_incoming)}
    /\ handled' \in {handled, Head(queue_incoming).id}
    /\ UNCHANGED <<pc, workerVars, outVars, netVars, sent, boundVars>>

MainThread == EnqueueOutgoing \/ DequeueIncoming

-----------------------------------------------------------------------------
(* The worker.                                                                *)

\* A step that changes nothing but the worker's place.
Goto(place) ==
    /\ pc' = place
    /\ UNCHANGED <<workerVars, outVars, inVars, netVars, sent, heap, boundVars>>

\* WSAStartup and getaddrinfo, once; a failure ends the thread.
Startup ==
    /\ pc = "startup"
    /\ Goto("socket") \/ Goto("dead")

OpenSocket ==
    /\ pc = "socket"
    /\ Goto("connect") \/ Goto("dead")

Connect ==
    /\ pc = "connect"
    /\ pc' = "clear"
    /\ link' = "up" /\ wire' = <<>> /\ inbox' = <<>>
    /\ sent' = <<>>
    /\ UNCHANGED <<workerVars, outVars, inVars, heap, boundVars>>

ConnectFails ==
    /\ pc = "connect"
    /\ Goto("close")

\* Mistake: the queue is not cleared.
ClearNothing ==
    /\ pc = "clear"
    /\ pc' = "announce"
    /\ accepted' = <<>>
    /\ UNCHANGED <<workerVars, queue, inVars, netVars, sent, heap, boundVars>>

\* queue.clear(): what was meant for an earlier connection is freed.
Clear ==
    /\ pc = "clear"
    /\ pc' = "announce"
    /\ queue' = <<>>
    /\ accepted' = <<>>
    /\ heap' = heap \ Elements(queue)
    /\ UNCHANGED <<workerVars, inVars, netVars, sent, boundVars>>

\* connected = true and on_net_connected, which the plugin leaves empty.
Announce ==
    /\ pc = "announce"
    /\ pc' = "login"
    /\ connected' = TRUE
    /\ UNCHANGED <<buffer, missing, outVars, inVars, netVars, sent, heap, boundVars>>

\* send on the socket: it may fail once the link is down.
Send(p) ==
    \/ /\ sent' = Append(sent, p)
       /\ UNCHANGED connected
    \/ /\ link = "down"
       /\ connected' = FALSE
       /\ UNCHANGED sent

\* Mistake: the login is queued like any other packet.
SendLoginQueued ==
    /\ pc = "login"
    /\ pc' = "loop"
    /\ queue' = Append(queue, Login)
    /\ heap' = heap \cup {Login}
    /\ UNCHANGED <<workerVars, accepted, inVars, netVars, sent, boundVars>>

\* send_outgoing_sync, which frees its packet either way.
SendLogin ==
    /\ pc = "login"
    /\ pc' = "loop"
    /\ Send(Login)
    /\ UNCHANGED <<buffer, missing, outVars, inVars, netVars, heap, boundVars>>

\* encode_packet throws for want of memory: the worker ends, connected or not.
SendLoginThrows ==
    /\ pc = "login"
    /\ Goto("dead")

\* The head of the loop: out of it, or a packet to send.
TakeOutgoing ==
    /\ pc = "loop"
    /\ connected
    /\ queue # <<>>
    /\ pc' = "send"
    /\ buffer' = Head(queue)
    /\ queue' = Tail(queue)
    /\ UNCHANGED <<connected, missing, accepted, inVars, netVars, sent, heap, boundVars>>

\* dequeue timed out, or a wake-up found nothing.
TakeNothing ==
    /\ pc = "loop"
    /\ connected
    /\ queue = <<>>
    /\ Goto("select")

LeaveLoop ==
    /\ pc = "loop"
    /\ ~connected
    /\ Goto("close")

SendOutgoing ==
    /\ pc = "send"
    /\ Send(buffer)
    /\ heap' = heap \ {buffer}
    /\ buffer' = NoPacket
    /\ pc' = IF connected' THEN "select" ELSE "loop"
    /\ UNCHANGED <<missing, outVars, inVars, netVars, boundVars>>

\* Something to read: data, or the end of the stream.
Readable == inbox # <<>> \/ link = "down"

SelectReady ==
    /\ pc = "select"
    /\ Readable
    /\ pc' = "header"
    /\ missing' = 2
    /\ UNCHANGED <<connected, buffer, outVars, inVars, netVars, sent, heap, boundVars>>

\* Mistake: select is called again until there is data.
SelectRetries ==
    /\ pc = "select"
    /\ ~Readable
    /\ Goto("select")

SelectTimesOut ==
    /\ pc = "select"
    /\ ~Readable
    /\ Goto("loop")

\* select's error: it drops the connection.
SelectFails ==
    /\ pc = "select"
    /\ link = "down"
    /\ pc' = "loop"
    /\ connected' = FALSE
    /\ UNCHANGED <<buffer, missing, outVars, inVars, netVars, sent, heap, boundVars>>

\* recv returns some of what has arrived. It blocks while there is nothing: the
\* socket has no receive timeout.
Receive ==
    /\ pc \in {"header", "payload"}
    /\ missing > 0
    /\ inbox # <<>>
    /\ missing' = missing - 1
    /\ inbox' = Tail(inbox)
    /\ buffer' = IF pc = "header" THEN Head(inbox).packet ELSE buffer
    /\ UNCHANGED <<pc, connected, outVars, inVars, link, wire, sent, heap, boundVars>>

\* recv returns 0 or an error: the packet so far is freed.
ReceiveEnds ==
    /\ pc \in {"header", "payload"}
    /\ missing > 0
    /\ inbox = <<>>
    /\ link = "down"
    /\ pc' = "loop"
    /\ missing' = 0
    /\ heap' = IF pc = "payload" THEN heap \ {buffer} ELSE heap
    /\ buffer' = NoPacket
    /\ UNCHANGED <<outVars, inVars, netVars, sent, boundVars>>

\* Mistake: the connection is kept.
ReceiveFailsConnected == ReceiveEnds /\ UNCHANGED connected

ReceiveFails == ReceiveEnds /\ connected' = FALSE

HeaderComplete == pc = "header" /\ missing = 0

\* The length and the two versions are right: malloc and on to the payload.
HeaderAccepted ==
    /\ HeaderComplete
    /\ buffer.kind # "rejected"
    /\ pc' = "payload"
    /\ missing' = Len(Payload(buffer))
    /\ heap' = heap \cup {buffer}
    /\ UNCHANGED <<connected, buffer, outVars, inVars, netVars, sent, boundVars>>

\* Mistake: the packet is dropped but not the connection.
HeaderRejectedConnected ==
    /\ HeaderComplete
    /\ buffer.kind = "rejected"
    /\ pc' = "loop"
    /\ buffer' = NoPacket
    /\ UNCHANGED <<connected, missing, outVars, inVars, netVars, sent, heap, boundVars>>

\* A header that fails a check drops the connection: its payload is still in
\* the stream.
HeaderRejected ==
    /\ HeaderComplete
    /\ buffer.kind = "rejected"
    /\ pc' = "loop"
    /\ connected' = FALSE
    /\ buffer' = NoPacket
    /\ UNCHANGED <<missing, outVars, inVars, netVars, sent, heap, boundVars>>

\* malloc fails for the packet: the exception ends the worker, with connected
\* still set and the socket open.
HeaderThrows ==
    /\ HeaderComplete
    /\ buffer.kind # "rejected"
    /\ pc' = "dead"
    /\ buffer' = NoPacket
    /\ UNCHANGED <<connected, missing, outVars, inVars, netVars, sent, heap, boundVars>>

\* A whole packet goes into queue_incoming if it has room.
Push(hasRoom) ==
    /\ pc = "payload"
    /\ missing = 0
    /\ pc' = "loop"
    /\ buffer' = NoPacket
    /\ queue_incoming' = IF hasRoom THEN Append(queue_incoming, buffer) ELSE queue_incoming
    /\ UNCHANGED <<connected, missing, outVars, handled, netVars, sent, boundVars>>

\* Mistake: the packet a full queue_incoming refused is not freed.
PushIncomingLeaks == Push(Len(queue_incoming) < QueueSize) /\ UNCHANGED heap

\* Mistake: room is tested for with <=.
PushIncomingOver ==
    LET hasRoom == Len(queue_incoming) <= QueueSize
    IN Push(hasRoom) /\ heap' = IF hasRoom THEN heap ELSE heap \ {buffer}

\* A packet for which there is none is freed.
PushIncoming ==
    LET hasRoom == Len(queue_incoming) < QueueSize
    IN Push(hasRoom) /\ heap' = IF hasRoom THEN heap ELSE heap \ {buffer}

\* closesocket, on_net_disconnected (empty) and the sleep before the next try.
Close ==
    /\ pc = "close"
    /\ pc' = "socket"
    /\ connected' = FALSE
    /\ link' = "none" /\ wire' = <<>> /\ inbox' = <<>>
    /\ UNCHANGED <<buffer, missing, outVars, inVars, sent, heap, boundVars>>

Worker ==
    \/ Startup \/ OpenSocket \/ Connect \/ ConnectFails
    \/ Clear \/ Announce \/ SendLogin \/ SendLoginThrows
    \/ TakeOutgoing \/ TakeNothing \/ LeaveLoop \/ SendOutgoing
    \/ SelectReady \/ SelectTimesOut \/ SelectFails
    \/ Receive \/ ReceiveFails \/ HeaderAccepted \/ HeaderRejected \/ HeaderThrows
    \/ PushIncoming \/ Close

-----------------------------------------------------------------------------
(* The admin server and the network between.                                  *)

ServerSends ==
    /\ link = "up"
    /\ in < MaxIn
    /\ in' = in + 1
    /\ \E k \in Kinds : wire' = wire \o Chunks(Incoming(in', k))
    /\ UNCHANGED <<pc, workerVars, outVars, inVars, link, inbox, sent, heap, out, drops>>

Arrive ==
    /\ link = "up"
    /\ wire # <<>>
    /\ inbox' = Append(inbox, Head(wire))
    /\ wire' = Tail(wire)
    /\ UNCHANGED <<pc, workerVars, outVars, inVars, link, sent, heap, boundVars>>

\* A close leaves what has arrived to be read, a reset does not.
Drop ==
    /\ link = "up"
    /\ drops < MaxDrops
    /\ drops' = drops + 1
    /\ link' = "down"
    /\ wire' = <<>>
    /\ inbox' \in {inbox, <<>>}
    /\ UNCHANGED <<pc, workerVars, outVars, inVars, sent, heap, out, in>>

Network == ServerSends \/ Arrive \/ Drop

Next == MainThread \/ Worker \/ Network

Spec == Init /\ [][Next]_vars

\* The worker runs, and a server tried again and again is reached in the end.
WorkerFairness == WF_vars(Worker) /\ SF_vars(Connect)

WorkerSpec == Spec /\ WorkerFairness

\* Moreover what the server sent arrives while the connection lasts.
FairSpec == WorkerSpec /\ WF_vars(Arrive)

-----------------------------------------------------------------------------
(* Properties.                                                                *)

Packets == {Login} \cup {Outgoing(i) : i \in 1 .. MaxOut} \cup {NoPacket}
              \cup {Incoming(i, k) : i \in 1 .. MaxIn, k \in Kinds}

StreamChunks == {Chunk(p, part) : p \in Packets, part \in {"start", "header", "payload"}}

Places == {"startup", "socket", "connect", "clear", "announce", "login", "loop", "send",
           "select", "header", "payload", "close", "dead"}

\* The fields of DddNetClient and the worker's locals; both queues keep to
\* queue_count items.
TypeOK ==
    /\ pc \in Places
    /\ connected \in BOOLEAN
    /\ queue \in Seq(Packets) /\ Len(queue) <= QueueSize
    /\ queue_incoming \in Seq(Packets) /\ Len(queue_incoming) <= QueueSize
    /\ buffer \in Packets
    /\ missing \in 0 .. 2
    /\ link \in {"none", "up", "down"}
    /\ wire \in Seq(StreamChunks) /\ inbox \in Seq(StreamChunks)
    /\ sent \in Seq(Packets) /\ accepted \in Seq(Packets) /\ handled \in 0 .. MaxIn
    /\ heap \subseteq Packets
    /\ out \in 0 .. MaxOut /\ in \in 0 .. MaxIn /\ drops \in 0 .. MaxDrops

InHand == IF pc = "send" THEN <<buffer>> ELSE <<>>

\* On a connection the server is sent the login and then, each once and in
\* order, the packets offered since the queue was cleared for this connection:
\* nothing of an earlier one, nothing lost but what a full queue refused
\* (client.cpp:246-279).
OutgoingInOrder ==
    connected => sent \o InHand \o queue
                     = IF sent = <<>> THEN accepted ELSE <<Login>> \o accepted

\* The login is the first thing sent, and sent once, although the main thread
\* fills the queue meanwhile (client.cpp:246-261).
LoginFirst == \A i \in 1 .. Len(sent) : sent[i] = Login <=> i = 1

\* What is still to come of the packet being read.
Rest ==
    CASE pc = "header" /\ missing = 1 -> Tail(Chunks(buffer))
      [] HeaderComplete \/ (pc = "payload" /\ missing = 1) -> Payload(buffer)
      [] OTHER -> <<>>

\* The worker knows where in the byte stream it is: what it reads next is the
\* rest of the packet it is reading, or the start of one. The header's checks
\* alone would not notice a stream read out of step (client.cpp:124-212).
Framing ==
    connected /\ pc # "dead" /\ inbox # <<>> =>
        IF Rest = <<>> THEN Head(inbox).part = "start" ELSE Head(inbox) = Head(Rest)

\* Requests reach the plugin in the order the server sent them, each at most
\* once, across all connections (client.cpp:59-78 and 281-288).
RequestsInOrder ==
    \A i \in 1 .. Len(queue_incoming) :
        /\ handled < queue_incoming[i].id
        /\ \A j \in 1 .. i - 1 : queue_incoming[j].id < queue_incoming[i].id

OwnedByWorker == IF pc \in {"send", "payload"} THEN {buffer} ELSE {}

\* Every packet buffer has one owner, a queue or the worker, which will free
\* it: none is forgotten, and none is owned that was freed already
\* (client.cpp:51-56, 64-73, 278, 284-287, 188-203).
BufferOwnership ==
    /\ heap = Elements(queue) \cup Elements(queue_incoming) \cup OwnedByWorker
    /\ Cardinality(heap) = Len(queue) + Len(queue_incoming) + Cardinality(OwnedByWorker)

\* A connection that fails is noticed and replaced, unless the worker has ended.
Recovers == link = "down" ~> link = "up" \/ pc = "dead"

\* A packet does not stay in the queue of a connection: it is sent, or the
\* connection ends.
QueueDrains ==
    \A i \in 1 .. MaxOut :
        connected /\ Outgoing(i) \in Elements(queue)
            ~> Outgoing(i) \in Elements(sent) \/ ~connected \/ pc = "dead"

Receiving == pc \in {"select", "header", "payload"}

\* "waits until either it's recieved, we time out, or there's an error"
\* (client.cpp:144): receive_packet_raw returns whatever the server does.
ReceiveReturns == Receiving ~> ~Receiving
=============================================================================
