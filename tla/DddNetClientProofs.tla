------------------------- MODULE DddNetClientProofs ------------------------
(* Proofs about DddNetClient, for queues of any size and without the bounds   *)
(* that make TLC's instances finite mattering.                                *)
EXTENDS DddNetClient, FiniteSetTheorems, SequenceTheorems, TLAPS

-----------------------------------------------------------------------------
(* Sequences.                                                                 *)

LEMMA AppendLast ==
    ASSUME NEW S, NEW s \in Seq(S), NEW t \in Seq(S), NEW e \in S
    PROVE  s \o Append(t, e) = Append(s \o t, e)
  <1>1. Append(t, e) = t \o <<e>> /\ <<e>> \in Seq(S) /\ s \o t \in Seq(S)
    BY AppendIsConcat, ConcatProperties
  <1>2. Append(s \o t, e) = (s \o t) \o <<e>>
    BY <1>1, AppendIsConcat
  <1> QED  BY <1>1, <1>2, ConcatAssociative

LEMMA AppendFirst ==
    ASSUME NEW S, NEW s \in Seq(S), NEW t \in Seq(S), NEW e \in S
    PROVE  Append(s, e) \o t = (s \o <<e>>) \o t
  BY AppendIsConcat

LEMMA HeadThenTail ==
    ASSUME NEW S, NEW s \in Seq(S), s # <<>>
    PROVE  /\ Head(s) \in S /\ Tail(s) \in Seq(S)
           /\ <<Head(s)>> \o Tail(s) = s
  <1>1. /\ Head(s) \in S /\ Tail(s) \in Seq(S) /\ Len(Tail(s)) = Len(s) - 1
        /\ \A i \in 1 .. Len(Tail(s)) : Tail(s)[i] = s[i + 1]
        /\ Len(s) \in Nat \ {0}
    BY HeadTailProperties, EmptySeq
  <1>2. <<Head(s)>> \in Seq(S) /\ Len(<<Head(s)>>) = 1 /\ <<Head(s)>>[1] = s[1]
    BY <1>1
  <1> DEFINE again == <<Head(s)>> \o Tail(s)
  <1>3. /\ again \in Seq(S) /\ Len(again) = Len(s)
        /\ \A i \in 1 .. Len(s) :
              again[i] = IF i <= 1 THEN <<Head(s)>>[i] ELSE Tail(s)[i - 1]
    BY <1>1, <1>2, ConcatProperties
  <1>4. ASSUME NEW i \in 1 .. Len(s)
        PROVE  again[i] = s[i]
    <2>1. CASE i = 1
      BY <1>1, <1>2, <1>3, <2>1
    <2>2. CASE i > 1
      <3>1. i - 1 \in 1 .. Len(Tail(s)) /\ (i - 1) + 1 = i
        BY <1>1, <2>2
      <3>2. Tail(s)[i - 1] = s[i]
        BY <1>1, <3>1
      <3> QED  BY <1>1, <1>3, <2>2, <3>2
    <2> QED  BY <2>1, <2>2
  <1> HIDE DEF again
  <1>5. again = s
    BY <1>3, <1>4, SeqEqual
  <1> QED  BY <1>1, <1>5 DEF again

-----------------------------------------------------------------------------
(* The order of what is sent.                                                 *)

Offered == {Outgoing(i) : i \in 1 .. MaxOut}

\* Where the worker can be while the connection counts as made.
Connected == {"login", "loop", "send", "select", "header", "payload", "dead"}

QueueTypes ==
    /\ queue \in Seq(Offered)
    /\ accepted \in Seq(Offered)
    /\ sent \in Seq(Offered \cup {Login})
    /\ pc = "send" => buffer \in Offered
    /\ out \in Nat

\* Nothing is sent before the login, and the queue is that of this connection
\* from its clear on.
Session ==
    /\ connected => pc \in Connected
    /\ pc \in {"clear", "announce", "login"} => sent = <<>>
    /\ pc = "announce" => queue = accepted
    /\ connected /\ pc \notin {"login", "dead"} => sent # <<>>
    /\ pc \in {"send", "select", "header", "payload"} => connected

IInv == QueueTypes /\ Session /\ OutgoingInOrder /\ LoginFirst

LEMMA OfferedNotLogin ==
    \A p \in Offered : p # Login
  BY DEF Offered, Login, Outgoing

\* The steps that neither connect, clear, send, nor touch the queue.
Quiet ==
    \/ Startup \/ OpenSocket \/ ConnectFails \/ SendLoginThrows \/ TakeNothing
    \/ LeaveLoop \/ SelectReady \/ SelectTimesOut \/ SelectFails \/ Receive
    \/ ReceiveFails \/ HeaderAccepted \/ HeaderRejected \/ HeaderThrows
    \/ PushIncoming \/ Close
    \/ DequeueIncoming \/ Network

LEMMA NextCases ==
    ASSUME [Next]_vars
    PROVE  \/ EnqueueOutgoing \/ Connect \/ Clear \/ Announce \/ SendLogin
           \/ TakeOutgoing \/ SendOutgoing \/ Quiet \/ UNCHANGED vars
  BY DEF Next, MainThread, Worker, Quiet

\* What a quiet step may do as far as the order is concerned.
LEMMA QuietStep ==
    ASSUME Session, Quiet
    PROVE  /\ UNCHANGED <<queue, accepted, sent, out>>
           /\ pc # "send" \/ (pc' = pc /\ buffer' = buffer)
           /\ pc' = "send" => pc = "send"
           /\ connected' => connected
           /\ connected' => pc' \in Connected
           /\ pc' \in {"clear", "announce", "login"} => pc' = pc
           /\ connected' /\ pc' \notin {"login", "dead"} =>
                 pc \notin {"login", "dead"}
           /\ pc' \in {"send", "select", "header", "payload"} => connected'
  <1> USE DEF Session, Connected, Goto, workerVars, outVars, inVars, netVars, boundVars,
              HeaderComplete
  <1>1. CASE Startup \/ OpenSocket \/ ConnectFails \/ SendLoginThrows \/ TakeNothing
               \/ LeaveLoop
    BY <1>1 DEF Startup, OpenSocket, ConnectFails, SendLoginThrows, TakeNothing, LeaveLoop
  <1>2. CASE SelectReady \/ SelectTimesOut \/ SelectFails \/ Receive \/ ReceiveFails
    BY <1>2 DEF SelectReady, SelectTimesOut, SelectFails, Receive, ReceiveFails,
                ReceiveEnds
  <1>3. CASE HeaderAccepted \/ HeaderRejected \/ HeaderThrows \/ PushIncoming
               \/ Close
    BY <1>3 DEF HeaderAccepted, HeaderRejected, HeaderThrows, PushIncoming, Push,
                Close
  <1>4. CASE DequeueIncoming \/ Network
    BY <1>4 DEF DequeueIncoming, Network, ServerSends, Arrive, Drop
  <1> QED  BY <1>1, <1>2, <1>3, <1>4 DEF Quiet

LEMMA EnqueueStep ==
    ASSUME IInv, EnqueueOutgoing
    PROVE  IInv'
  <1> DEFINE p == Outgoing(out + 1)
  <1>1. /\ p \in Offered /\ out + 1 \in Nat
        /\ UNCHANGED <<sent, pc, buffer, connected>> /\ out' = out + 1
    <2>1. out + 1 \in 1 .. MaxOut
      BY BoundsAssumption DEF IInv, QueueTypes, EnqueueOutgoing
    <2> QED  BY <2>1 DEF EnqueueOutgoing, workerVars, outVars, Offered
  <1>2. CASE Len(queue) < QueueSize
    <2>1. queue' = Append(queue, p) /\ accepted' = Append(accepted, p)
      BY <1>1, <1>2 DEF EnqueueOutgoing
    <2>2. QueueTypes'
      BY <1>1, <2>1, AppendProperties DEF IInv, QueueTypes
    <2>3. Session'
      BY <1>1, <2>1 DEF IInv, Session
    <2>4. OutgoingInOrder'
      <3> SUFFICES ASSUME connected
                   PROVE  sent \o InHand \o Append(queue, p)
                            = IF sent = <<>> THEN Append(accepted, p)
                              ELSE <<Login>> \o Append(accepted, p)
        BY <1>1, <2>1 DEF OutgoingInOrder, InHand
      <3> DEFINE S == Offered \cup {Login}
      <3>1. /\ sent \o InHand \in Seq(S) /\ queue \in Seq(S) /\ accepted \in Seq(S)
            /\ p \in S /\ <<Login>> \in Seq(S)
        <4>1. /\ sent \in Seq(S) /\ queue \in Seq(S) /\ accepted \in Seq(S)
              /\ InHand \in Seq(S) /\ p \in S /\ <<Login>> \in Seq(S)
          <5>1. InHand \in Seq(S)
            <6>1. CASE pc = "send"
              BY <6>1 DEF InHand, IInv, QueueTypes
            <6>2. CASE pc # "send"
              BY <6>2 DEF InHand
            <6> QED  BY <6>1, <6>2
          <5>2. sent \in Seq(S) /\ queue \in Seq(S) /\ accepted \in Seq(S)
            BY DEF IInv, QueueTypes
          <5> QED  BY <1>1, <5>1, <5>2
        <4> QED  BY <4>1, ConcatProperties
      <3>2. sent \o InHand \o Append(queue, p) = Append(sent \o InHand \o queue, p)
        BY <3>1, AppendLast
      <3>3. <<Login>> \o Append(accepted, p) = Append(<<Login>> \o accepted, p)
        BY <3>1, AppendLast
      <3> QED  BY <3>2, <3>3 DEF IInv, OutgoingInOrder
    <2>5. LoginFirst'
      BY <1>1 DEF IInv, LoginFirst
    <2> QED  BY <2>2, <2>3, <2>4, <2>5 DEF IInv
  <1>3. CASE ~(Len(queue) < QueueSize)
    <2>1. UNCHANGED <<queue, accepted>>
      BY <1>3 DEF EnqueueOutgoing, outVars
    <2> QED
      BY <1>1, <2>1 DEF IInv, QueueTypes, Session, OutgoingInOrder, InHand, LoginFirst
  <1> QED  BY <1>2, <1>3

LEMMA TakeStep ==
    ASSUME IInv, TakeOutgoing
    PROVE  IInv'
  <1>1. /\ pc = "loop" /\ pc' = "send" /\ connected /\ connected' /\ queue # <<>>
        /\ buffer' = Head(queue) /\ queue' = Tail(queue)
        /\ UNCHANGED <<sent, accepted, out>>
    BY DEF TakeOutgoing, boundVars
  <1>2. /\ Head(queue) \in Offered /\ Tail(queue) \in Seq(Offered)
        /\ <<Head(queue)>> \o Tail(queue) = queue
    BY <1>1, HeadThenTail DEF IInv, QueueTypes
  <1>3. QueueTypes'
    BY <1>1, <1>2 DEF IInv, QueueTypes
  <1>4. Session'
    BY <1>1 DEF IInv, Session, Connected
  <1>5. OutgoingInOrder'
    <2> DEFINE S == Offered \cup {Login}
    <2>1. /\ sent \in Seq(S) /\ queue \in Seq(S) /\ <<Head(queue)>> \in Seq(S)
          /\ Tail(queue) \in Seq(S)
      BY <1>2 DEF IInv, QueueTypes
    <2>2. (sent \o <<Head(queue)>>) \o Tail(queue) = sent \o queue
      BY <1>2, <2>1, ConcatAssociative
    <2>3. sent \o <<>> = sent
      BY <2>1, ConcatEmptySeq
    <2>4. sent \o queue = IF sent = <<>> THEN accepted ELSE <<Login>> \o accepted
      BY <1>1, <2>3 DEF IInv, OutgoingInOrder, InHand
    <2> QED  BY <1>1, <2>2, <2>4 DEF OutgoingInOrder, InHand
  <1>6. LoginFirst'
    BY <1>1 DEF IInv, LoginFirst
  <1> QED  BY <1>3, <1>4, <1>5, <1>6 DEF IInv

LEMMA SendStep ==
    ASSUME IInv, SendOutgoing
    PROVE  IInv'
  <1> DEFINE S == Offered \cup {Login}
  <1>1. /\ pc = "send" /\ pc' \in {"select", "loop"}
        /\ pc' = "select" => connected'
        /\ UNCHANGED <<queue, accepted, out>>
        /\ connected' => connected /\ sent' = Append(sent, buffer)
        /\ sent' = sent \/ sent' = Append(sent, buffer)
        /\ sent' = sent => ~connected' \/ sent = Append(sent, buffer)
    BY DEF SendOutgoing, Send, outVars, boundVars
  <1>2. buffer \in Offered /\ buffer # Login /\ sent \in Seq(S)
    BY <1>1, OfferedNotLogin DEF IInv, QueueTypes
  <1>3. QueueTypes'
    <2>1. Append(sent, buffer) \in Seq(S)
      BY <1>2, AppendProperties
    <2> QED  BY <1>1, <1>2, <2>1 DEF IInv, QueueTypes
  <1>4. Session'
    BY <1>1, <1>2, AppendProperties DEF IInv, Session, Connected
  <1>5. OutgoingInOrder'
    <2> SUFFICES ASSUME connected'
                 PROVE  sent' \o <<>> \o queue
                          = IF sent' = <<>> THEN accepted ELSE <<Login>> \o accepted
      BY <1>1 DEF OutgoingInOrder, InHand
    <2>1. connected /\ sent' = Append(sent, buffer) /\ sent # <<>>
      BY <1>1 DEF IInv, Session
    <2>2. sent' # <<>> /\ sent' \in Seq(S) /\ queue \in Seq(S)
      BY <1>2, <2>1, AppendProperties DEF IInv, QueueTypes
    <2>3. sent' \o <<>> = sent'
      BY <2>2, ConcatEmptySeq
    <2>4. sent' \o queue = (sent \o <<buffer>>) \o queue
      BY <1>2, <2>1, AppendIsConcat
    <2>5. (sent \o <<buffer>>) \o queue = <<Login>> \o accepted
      BY <1>1, <2>1 DEF IInv, OutgoingInOrder, InHand
    <2> QED  BY <2>2, <2>3, <2>4, <2>5
  <1>6. LoginFirst'
    <2>1. CASE sent' = sent
      BY <2>1 DEF IInv, LoginFirst
    <2>2. CASE sent' # sent /\ sent' = Append(sent, buffer)
      <3>1. connected
        BY <1>1 DEF IInv, Session
      <3>2. sent # <<>> /\ Len(sent) \in Nat \ {0}
        BY <1>1, <1>2, <3>1, EmptySeq DEF IInv, Session
      <3>3. /\ Len(sent') = Len(sent) + 1
            /\ \A i \in 1 .. Len(sent) : sent'[i] = sent[i]
            /\ sent'[Len(sent) + 1] = buffer
        BY <1>2, <2>2, AppendProperties
      <3> QED  BY <1>2, <3>2, <3>3 DEF IInv, LoginFirst
    <2> QED  BY <1>1, <2>1, <2>2
  <1> QED  BY <1>3, <1>4, <1>5, <1>6 DEF IInv

LEMMA LoginStep ==
    ASSUME IInv, SendLogin
    PROVE  IInv'
  <1>1. /\ pc = "login" /\ pc' = "loop" /\ UNCHANGED <<queue, accepted, out, buffer>>
        /\ sent = <<>>
        /\ \/ sent' = Append(sent, Login) /\ connected' = connected
           \/ sent' = sent /\ connected' = FALSE
    BY DEF IInv, Session, SendLogin, Send, outVars, boundVars
  <1>2. CASE sent' = Append(sent, Login) /\ connected' = connected
    <2>1. sent' = <<Login>> /\ sent' # <<>>
      BY <1>1, <1>2
    <2>2. QueueTypes'
      BY <1>1, <2>1 DEF IInv, QueueTypes
    <2>3. Session'
      BY <1>1, <1>2, <2>1 DEF IInv, Session, Connected
    <2>4. OutgoingInOrder'
      <3> SUFFICES ASSUME connected'
                   PROVE  <<Login>> \o <<>> \o queue = <<Login>> \o accepted
        BY <1>1, <2>1 DEF OutgoingInOrder, InHand
      <3>1. <<Login>> \in Seq(Offered \cup {Login}) /\ <<>> \in Seq(Offered)
        OBVIOUS
      <3>2. <<Login>> \o <<>> = <<Login>> /\ <<>> \o <<>> = <<>>
        BY <3>1, ConcatEmptySeq
      <3>3. <<>> \o queue = queue
        BY ConcatEmptySeq DEF IInv, QueueTypes
      <3>4. queue = accepted
        BY <1>1, <1>2, <3>2, <3>3 DEF IInv, OutgoingInOrder, InHand
      <3> QED  BY <3>2, <3>4
    <2>5. LoginFirst'
      BY <2>1 DEF LoginFirst
    <2> QED  BY <2>2, <2>3, <2>4, <2>5 DEF IInv
  <1>3. CASE sent' = sent /\ connected' = FALSE
    BY <1>1, <1>3
       DEF IInv, QueueTypes, Session, OutgoingInOrder, LoginFirst, Connected
  <1> QED  BY <1>1, <1>2, <1>3

\* Connecting, clearing and announcing: the queue of the new connection.
LEMMA SetupStep ==
    ASSUME IInv, Connect \/ Clear \/ Announce
    PROVE  IInv'
  <1> USE DEF IInv, QueueTypes, Session, OutgoingInOrder, LoginFirst, Connected, workerVars,
              outVars, boundVars
  <1>1. CASE Connect
    <2>1. /\ pc = "connect" /\ pc' = "clear" /\ sent' = <<>>
          /\ UNCHANGED <<queue, accepted, out, buffer, connected>>
      BY <1>1 DEF Connect
    <2>2. ~connected
      BY <2>1
    <2>3. LoginFirst'
      BY <2>1
    <2> QED  BY <2>1, <2>2, <2>3
  <1>2. CASE Clear
    <2>1. /\ pc = "clear" /\ pc' = "announce" /\ sent = <<>> /\ queue' = <<>>
          /\ accepted' = <<>> /\ UNCHANGED <<sent, out, buffer, connected>>
      BY <1>2 DEF Clear
    <2>2. ~connected
      BY <2>1
    <2> QED  BY <2>1, <2>2
  <1>3. CASE Announce
    <2>1. /\ pc = "announce" /\ pc' = "login" /\ sent = <<>> /\ queue = accepted
          /\ UNCHANGED <<queue, accepted, sent, out, buffer>>
      BY <1>3 DEF Announce
    <2>2. <<>> \o <<>> \o queue = queue
      <3>1. <<>> \o <<>> = <<>>
        <4>1. <<>> \in Seq(Offered)
          OBVIOUS
        <4> QED  BY <4>1, ConcatEmptySeq
      <3> QED  BY <3>1, ConcatEmptySeq
    <2>3. OutgoingInOrder'
      BY <2>1, <2>2 DEF InHand
    <2> QED  BY <2>1, <2>3
  <1> QED  BY <1>1, <1>2, <1>3

LEMMA QuietPreserves ==
    ASSUME IInv, Quiet
    PROVE  IInv'
  <1>1. /\ UNCHANGED <<queue, accepted, sent, out>>
        /\ pc # "send" \/ (pc' = pc /\ buffer' = buffer)
        /\ pc' = "send" => pc = "send"
        /\ connected' => connected
        /\ connected' => pc' \in Connected
        /\ pc' \in {"clear", "announce", "login"} => pc' = pc
        /\ connected' /\ pc' \notin {"login", "dead"} => pc \notin {"login", "dead"}
        /\ pc' \in {"send", "select", "header", "payload"} => connected'
    BY QuietStep DEF IInv
  <1>2. InHand' = InHand
    BY <1>1 DEF InHand
  <1>3. QueueTypes'
    BY <1>1 DEF IInv, QueueTypes
  <1>4. Session'
    BY <1>1 DEF IInv, Session
  <1>5. OutgoingInOrder'
    BY <1>1, <1>2 DEF IInv, OutgoingInOrder
  <1>6. LoginFirst'
    BY <1>1 DEF IInv, LoginFirst
  <1> QED  BY <1>3, <1>4, <1>5, <1>6 DEF IInv

LEMMA Initial == Init => IInv
  BY DEF Init, IInv, QueueTypes, Session, OutgoingInOrder, LoginFirst

LEMMA Inductive == IInv /\ [Next]_vars => IInv'
  <1> SUFFICES ASSUME IInv, [Next]_vars
               PROVE  IInv'
    OBVIOUS
  <1>1. CASE UNCHANGED vars
    BY <1>1 DEF vars, workerVars, outVars, boundVars, IInv, QueueTypes, Session,
                OutgoingInOrder, InHand, LoginFirst
  <1> QED
    BY <1>1, NextCases, EnqueueStep, TakeStep, SendStep, LoginStep, SetupStep,
       QuietPreserves

LEMMA AlwaysIInv == Spec => []IInv
  BY Initial, Inductive, PTL DEF Spec

\* What a connection sends is the login and then the packets offered since the
\* queue was cleared for it, each once and in order, for queues of any size and
\* whatever the network does (client.cpp:246-279).
THEOREM OutgoingOrder == Spec => []OutgoingInOrder
  BY AlwaysIInv, PTL DEF IInv

\* Every connection starts with the login, sent once (client.cpp:246-261).
THEOREM LoginBeforeAll == Spec => []LoginFirst
  BY AlwaysIInv, PTL DEF IInv

-----------------------------------------------------------------------------
(* The types.                                                                 *)

Requests == {Incoming(i, k) : i \in 1 .. MaxIn, k \in Kinds}
Parts == {"start", "header", "payload"}
InChunks == {Chunk(p, part) : p \in Requests, part \in Parts}

\* The worker holds a packet from the server, or the first chunk of one.
Busy == pc = "payload" \/ (pc = "header" /\ missing \in 0 .. 1)

WorkerTypes ==
    /\ pc \in Places /\ connected \in BOOLEAN
    /\ buffer \in Offered \cup Requests \cup {NoPacket}
    /\ missing \in 0 .. 2
    /\ pc = "send" => buffer \in Offered
    /\ pc = "payload" => missing \in 0 .. Len(Payload(buffer))
    /\ pc \notin {"header", "payload"} => missing = 0
    /\ Busy => buffer \in Requests

NetTypes ==
    /\ link \in {"none", "up", "down"}
    /\ inbox \in Seq(InChunks) /\ wire \in Seq(InChunks)
    /\ link # "up" => wire = <<>>
    /\ in \in 0 .. MaxIn /\ drops \in 0 .. MaxDrops

QueuesTypes ==
    /\ queue \in Seq(Offered) /\ Len(queue) <= QueueSize
    /\ queue_incoming \in Seq(Requests) /\ Len(queue_incoming) <= QueueSize
    /\ handled \in 0 .. MaxIn /\ out \in 0 .. MaxOut

Types == WorkerTypes /\ NetTypes /\ QueuesTypes

LEMMA RequestFields ==
    ASSUME NEW p \in Requests
    PROVE  p.dir = "in" /\ p.id \in 1 .. MaxIn /\ p.kind \in Kinds
BY DEF Requests, Incoming

LEMMA ChunkFields ==
    ASSUME NEW c \in InChunks PROVE c.packet \in Requests /\ c.part \in Parts
BY DEF InChunks, Chunk

LEMMA ConcatTwo ==
    ASSUME NEW S, NEW s \in Seq(S), NEW t \in Seq(S), Len(s) = 2
    PROVE  /\ s \o t \in Seq(S) /\ Len(s \o t) = 2 + Len(t)
           /\ \A i \in 1 .. 2 + Len(t) : (s \o t)[i] = IF i <= 2 THEN s[i] ELSE t[i - 2]
<1>1. /\ s \o t \in Seq(S) /\ Len(s \o t) = Len(s) + Len(t)
      /\ \A i \in 1 .. Len(s) + Len(t) :
            (s \o t)[i] = IF i <= Len(s) THEN s[i] ELSE t[i - Len(s)]
  BY ConcatProperties
<1> QED
  BY <1>1, Zenon

\* The two or three chunks of a packet.
LEMMA ChunksOf ==
    ASSUME NEW p \in Requests
    PROVE  /\ Payload(p) \in Seq(InChunks)
           /\ Len(Payload(p)) = IF p.kind = "empty" THEN 0 ELSE 1
           /\ p.kind # "empty" => Payload(p)[1] = Chunk(p, "payload")
           /\ Chunks(p) \in Seq(InChunks)
           /\ Len(Chunks(p)) = IF p.kind = "empty" THEN 2 ELSE 3
           /\ Chunks(p)[1] = Chunk(p, "start") /\ Chunks(p)[2] = Chunk(p, "header")
           /\ p.kind # "empty" => Chunks(p)[3] = Chunk(p, "payload")
<1>1. \A part \in Parts : Chunk(p, part) \in InChunks
  BY DEF InChunks
<1>2. /\ Payload(p) \in Seq(InChunks)
      /\ Len(Payload(p)) = IF p.kind = "empty" THEN 0 ELSE 1
      /\ p.kind # "empty" => Payload(p)[1] = Chunk(p, "payload")
  BY <1>1 DEF Payload, Parts
<1> DEFINE head == <<Chunk(p, "start"), Chunk(p, "header")>>
<1>3. /\ head \in Seq(InChunks) /\ Len(head) = 2
      /\ head[1] = Chunk(p, "start") /\ head[2] = Chunk(p, "header")
  BY <1>1 DEF Parts
<1> HIDE DEF head
<1>4. Chunks(p) = head \o Payload(p)
  BY DEF Chunks, head
<1>5. Len(Payload(p)) \in 0 .. 1
  BY <1>2
<1>6. /\ Chunks(p) \in Seq(InChunks) /\ Len(Chunks(p)) = 2 + Len(Payload(p))
      /\ \A i \in 1 .. 2 + Len(Payload(p)) :
            Chunks(p)[i] = IF i <= 2 THEN head[i] ELSE Payload(p)[i - 2]
  <2> DEFINE rest == Payload(p)
  <2> HIDE DEF rest
  <2>1. rest \in Seq(InChunks) /\ Len(rest) \in Nat /\ rest = Payload(p)
    BY <1>2 DEF rest
  <2>2. /\ head \o rest \in Seq(InChunks) /\ Len(head \o rest) = 2 + Len(rest)
        /\ \A i \in 1 .. 2 + Len(rest) :
              (head \o rest)[i] = IF i <= 2 THEN head[i] ELSE rest[i - 2]
    BY <1>3, <2>1, ConcatTwo
  <2> QED
    BY <1>4, <2>1, <2>2
<1>7. Chunks(p)[1] = head[1] /\ Chunks(p)[2] = head[2]
  BY <1>5, <1>6
<1>8. p.kind # "empty" => Chunks(p)[3] = Payload(p)[1]
  BY <1>2, <1>6
<1>9. Len(Chunks(p)) = IF p.kind = "empty" THEN 2 ELSE 3
  BY <1>2, <1>6
<1> QED
  BY <1>2, <1>3, <1>6, <1>7, <1>8, <1>9

LEMMA OfferedFields == \A p \in Offered : p.dir = "out" /\ p.id \in 1 .. MaxOut
BY DEF Offered, Outgoing

\* What keeps the worker's types: the steps of the worker that take a packet.
LEMMA WorkerTypesStep == ASSUME Types, [Next]_vars PROVE WorkerTypes'
<1> USE DEF WorkerTypes, Busy
<1>1. CASE UNCHANGED <<pc, workerVars>>
  BY <1>1 DEF Types, workerVars
<1>2. ASSUME UNCHANGED <<buffer, missing>>, pc \notin {"header", "payload"},
             pc' \in Places \ {"send", "header", "payload"}, connected' \in BOOLEAN
      PROVE  WorkerTypes'
  BY <1>2 DEF Types
<1>3. CASE Startup \/ OpenSocket \/ ConnectFails \/ SendLoginThrows \/ TakeNothing
              \/ LeaveLoop \/ SelectTimesOut
  BY <1>2, <1>3 DEF Startup, OpenSocket, ConnectFails, SendLoginThrows, TakeNothing, LeaveLoop,
                    SelectTimesOut, Goto, workerVars, Places, Types
<1>4. CASE Connect \/ Clear \/ Announce \/ SendLogin \/ SelectFails \/ Close
  BY <1>2, <1>4 DEF Connect, Clear, Announce, SendLogin, Send, SelectFails, Close,
                    workerVars, Places, Types
<1>5. CASE TakeOutgoing
  <2>1. Head(queue) \in Offered
    BY <1>5, HeadTailProperties DEF TakeOutgoing, Types, QueuesTypes
  <2> QED
    BY <1>5, <2>1 DEF TakeOutgoing, Types, Places
<1>6. CASE SendOutgoing
  BY <1>6 DEF SendOutgoing, Send, Types, Places
<1>7. CASE SelectReady
  BY <1>7 DEF SelectReady, Types, Places
<1>8. CASE Receive
  <2>1. Head(inbox).packet \in Requests
    BY <1>8, ChunkFields, HeadTailProperties DEF Receive, Types, NetTypes
  <2>2. CASE pc = "header"
    BY <1>8, <2>1, <2>2 DEF Receive, Types
  <2>3. CASE pc = "payload"
    BY <1>8, <2>3, ChunksOf DEF Receive, Types
  <2> QED
    BY <1>8, <2>2, <2>3 DEF Receive
<1>9. CASE ReceiveFails \/ HeaderRejected \/ HeaderThrows \/ PushIncoming
  <2>1. /\ missing' = 0 /\ buffer' = NoPacket /\ pc' \in {"loop", "dead"}
    BY <1>9 DEF ReceiveFails, ReceiveEnds, HeaderRejected, HeaderThrows, HeaderComplete,
                PushIncoming, Push
  <2>2. connected' \in BOOLEAN
    BY <1>9 DEF ReceiveFails, HeaderRejected, HeaderThrows, PushIncoming, Push, Types
  <2> QED
    BY <2>1, <2>2 DEF Places
<1>10. CASE HeaderAccepted
  <2>1. buffer \in Requests
    BY <1>10 DEF HeaderAccepted, HeaderComplete, Types
  <2>2. Len(Payload(buffer)) \in 0 .. 1
    BY <2>1, ChunksOf
  <2> QED
    BY <1>10, <2>1, <2>2 DEF HeaderAccepted, HeaderComplete, Types, Places
<1> QED
  BY <1>1, <1>3, <1>4, <1>5, <1>6, <1>7, <1>8, <1>9, <1>10
  DEF Next, MainThread, Worker, Network, EnqueueOutgoing, DequeueIncoming, ServerSends, Arrive,
      Drop, vars

LEMMA NetTypesStep == ASSUME Types, [Next]_vars PROVE NetTypes'
<1> USE DEF NetTypes
<1>1. CASE UNCHANGED <<netVars, in, drops>>
  BY <1>1 DEF Types, netVars
<1>2. CASE Connect \/ Close
  <2>1. /\ link' \in {"up", "none"} /\ wire' = <<>> /\ inbox' = <<>>
        /\ UNCHANGED <<in, drops>>
    BY <1>2 DEF Connect, Close, boundVars
  <2> QED
    BY <2>1 DEF Types
<1>3. CASE Receive
  BY <1>3, HeadTailProperties DEF Receive, boundVars, Types
<1>4. CASE ServerSends
  <2>1. PICK k \in Kinds : wire' = wire \o Chunks(Incoming(in + 1, k))
    BY <1>4 DEF ServerSends
  <2>2. Incoming(in + 1, k) \in Requests /\ in + 1 \in 0 .. MaxIn
    BY <1>4, BoundsAssumption DEF ServerSends, Requests, Types
  <2>3. wire' \in Seq(InChunks)
    BY <2>1, <2>2, ChunksOf, ConcatProperties DEF Types
  <2> QED
    BY <1>4, <2>2, <2>3 DEF ServerSends, Types
<1>5. CASE Arrive
  <2>1. Head(wire) \in InChunks /\ Tail(wire) \in Seq(InChunks)
    BY <1>5, HeadTailProperties DEF Arrive, Types
  <2> QED
    BY <1>5, <2>1, AppendProperties DEF Arrive, Types, boundVars
<1>6. CASE Drop
  <2>1. /\ link' = "down" /\ wire' = <<>> /\ inbox' \in {inbox, <<>>} /\ in' = in
        /\ drops < MaxDrops /\ drops' = drops + 1
    BY <1>6 DEF Drop
  <2>2. drops' \in 0 .. MaxDrops
    <3>1. drops \in 0 .. MaxDrops
      BY DEF Types
    <3> QED
      BY <2>1, <3>1, BoundsAssumption
  <2>3. inbox' \in Seq(InChunks)
    <3>1. inbox \in Seq(InChunks) /\ <<>> \in Seq(InChunks)
      BY DEF Types
    <3> QED
      BY <2>1, <3>1, Zenon
  <2>4. link' = "down" /\ wire' = <<>> /\ wire' \in Seq(InChunks) /\ in' \in 0 .. MaxIn
    BY <2>1 DEF Types
  <2> QED
    BY <2>2, <2>3, <2>4
<1> QED
  BY <1>1, <1>2, <1>3, <1>4, <1>5, <1>6
  DEF Next, MainThread, Worker, Network, EnqueueOutgoing, DequeueIncoming, Goto, Startup,
      OpenSocket, ConnectFails, Clear, Announce, SendLogin, SendLoginThrows, TakeOutgoing,
      TakeNothing, LeaveLoop, SendOutgoing, SelectReady, SelectTimesOut, SelectFails,
      ReceiveFails, ReceiveEnds, HeaderAccepted, HeaderRejected, HeaderThrows, PushIncoming,
      Push, boundVars, vars

LEMMA QueuesTypesStep == ASSUME Types, [Next]_vars PROVE QueuesTypes'
<1> USE DEF QueuesTypes
<1>1. CASE UNCHANGED <<queue, queue_incoming, handled, out>>
  BY <1>1 DEF Types
<1>2. CASE EnqueueOutgoing
  <2>1. Outgoing(out + 1) \in Offered /\ out + 1 \in 0 .. MaxOut
    BY <1>2, BoundsAssumption DEF EnqueueOutgoing, Types, Offered
  <2>2. UNCHANGED <<queue_incoming, handled>> /\ out' = out + 1
    BY <1>2 DEF EnqueueOutgoing, inVars
  <2>3. CASE Len(queue) < QueueSize
    <3>1. queue' = Append(queue, Outgoing(out + 1))
      BY <1>2, <2>3 DEF EnqueueOutgoing
    <3> QED
      BY <2>1, <2>2, <2>3, <3>1, AppendProperties, QueueSizeAssumption DEF Types
  <2>4. CASE ~(Len(queue) < QueueSize)
    BY <1>2, <2>1, <2>2, <2>4 DEF EnqueueOutgoing, Types, outVars
  <2> QED
    BY <2>3, <2>4
<1>3. CASE DequeueIncoming
  <2>1. /\ Head(queue_incoming) \in Requests /\ Tail(queue_incoming) \in Seq(Requests)
        /\ Len(Tail(queue_incoming)) = Len(queue_incoming) - 1
    BY <1>3, HeadTailProperties DEF DequeueIncoming, Types
  <2>2. Head(queue_incoming).id \in 1 .. MaxIn
    BY <2>1, RequestFields
  <2> QED
    BY <1>3, <2>1, <2>2, QueueSizeAssumption DEF DequeueIncoming, Types, outVars, boundVars
<1>4. CASE Clear
  BY <1>4, QueueSizeAssumption DEF Clear, Types, inVars, boundVars
<1>5. CASE TakeOutgoing
  <2>1. /\ Tail(queue) \in Seq(Offered) /\ Len(Tail(queue)) = Len(queue) - 1
    BY <1>5, HeadTailProperties DEF TakeOutgoing, Types
  <2> QED
    BY <1>5, <2>1, QueueSizeAssumption DEF TakeOutgoing, Types, inVars, boundVars
<1>6. CASE PushIncoming
  <2>1. buffer \in Requests /\ UNCHANGED <<queue, handled, out>>
    BY <1>6 DEF PushIncoming, Push, Types, WorkerTypes, Busy, outVars, boundVars
  <2>2. CASE Len(queue_incoming) < QueueSize
    <3>1. queue_incoming' = Append(queue_incoming, buffer)
      BY <1>6, <2>2 DEF PushIncoming, Push
    <3> QED
      BY <2>1, <2>2, <3>1, AppendProperties, QueueSizeAssumption DEF Types
  <2>3. CASE ~(Len(queue_incoming) < QueueSize)
    BY <1>1, <1>6, <2>1, <2>3 DEF PushIncoming, Push
  <2> QED
    BY <2>2, <2>3
<1> QED
  BY <1>1, <1>2, <1>3, <1>4, <1>5, <1>6
  DEF Next, MainThread, Worker, Network, Goto, Startup, ServerSends, Arrive, Drop,
      OpenSocket, Connect, ConnectFails, Announce, SendLogin, SendLoginThrows, Close,
      TakeNothing, LeaveLoop, SendOutgoing, SelectReady, SelectTimesOut, SelectFails, Receive,
      ReceiveFails, ReceiveEnds, HeaderAccepted, HeaderRejected, HeaderThrows,
      outVars, inVars, boundVars, vars

-----------------------------------------------------------------------------
(* The byte stream from the server: what has arrived and what has not.        *)

Stream == inbox \o wire

\* What chunk b may follow chunk a.
Follows(a, b) ==
    CASE a.part = "start" -> b = Chunk(a.packet, "header")
      [] a.part = "header" /\ a.packet.kind # "empty" -> b = Chunk(a.packet, "payload")
      [] OTHER -> b.part = "start" /\ b.packet.id > a.packet.id

Linked(s) == \A i \in 1 .. Len(s) - 1 : Follows(s[i], s[i + 1])

\* Chunk a is the last of its packet.
Ends(a) == a.part = "payload" \/ (a.part = "header" /\ a.packet.kind = "empty")

StreamInv ==
    /\ Linked(Stream)
    /\ \A i \in 1 .. Len(Stream) : Stream[i].packet.id <= in
    /\ link = "up" /\ Stream # <<>> => Ends(Stream[Len(Stream)])

LEMMA LinkedConcat ==
    ASSUME NEW s \in Seq(InChunks), NEW t \in Seq(InChunks), Linked(s), Linked(t),
           s # <<>> /\ t # <<>> => Follows(s[Len(s)], t[1])
    PROVE  Linked(s \o t)
<1> SUFFICES ASSUME NEW i \in 1 .. Len(s) + Len(t) - 1
             PROVE  Follows((s \o t)[i], (s \o t)[i + 1])
  BY ConcatProperties DEF Linked
<1>1. Len(s) \in Nat /\ Len(t) \in Nat
  OBVIOUS
<1>2. \A j \in 1 .. Len(s) + Len(t) :
          (s \o t)[j] = IF j <= Len(s) THEN s[j] ELSE t[j - Len(s)]
  BY ConcatProperties
<1>3. CASE i < Len(s)
  <2>1. i \in 1 .. Len(s) - 1 /\ (s \o t)[i] = s[i] /\ (s \o t)[i + 1] = s[i + 1]
    BY <1>1, <1>2, <1>3
  <2> QED
    BY <2>1 DEF Linked
<1>4. CASE i = Len(s)
  <2>1. /\ (s \o t)[i] = s[Len(s)] /\ (s \o t)[i + 1] = t[1]
        /\ Len(s) > 0 /\ Len(t) > 0
    BY <1>1, <1>2, <1>4
  <2> QED
    BY <2>1
<1>5. CASE i > Len(s)
  <2> DEFINE j == i - Len(s)
  <2>1. j \in 1 .. Len(t) - 1 /\ (s \o t)[i] = t[j] /\ (s \o t)[i + 1] = t[j + 1]
    BY <1>1, <1>2, <1>5
  <2> HIDE DEF j
  <2> QED
    BY <2>1 DEF Linked
<1> QED
  BY <1>1, <1>3, <1>4, <1>5

LEMMA LinkedTail ==
    ASSUME NEW s \in Seq(InChunks), s # <<>>, Linked(s)
    PROVE  /\ Linked(Tail(s)) /\ Head(s) = s[1]
           /\ Tail(s) # <<>> => Follows(Head(s), Head(Tail(s)))
           /\ Tail(s) # <<>> => Tail(s)[Len(Tail(s))] = s[Len(s)]
           /\ Tail(s) = <<>> => Head(s) = s[Len(s)]
<1>1. /\ Head(s) = s[1] /\ Tail(s) \in Seq(InChunks) /\ Len(Tail(s)) = Len(s) - 1
      /\ \A i \in 1 .. Len(Tail(s)) : Tail(s)[i] = s[i + 1]
      /\ Len(s) \in Nat \ {0}
  BY HeadTailProperties, EmptySeq
<1>2. Linked(Tail(s))
  <2> SUFFICES ASSUME NEW i \in 1 .. Len(s) - 2 PROVE Follows(Tail(s)[i], Tail(s)[i + 1])
    BY <1>1 DEF Linked
  <2>1. Tail(s)[i] = s[i + 1] /\ Tail(s)[i + 1] = s[i + 1 + 1] /\ i + 1 \in 1 .. Len(s) - 1
    BY <1>1
  <2> QED
    BY <2>1 DEF Linked
<1>3. ASSUME Tail(s) # <<>>
      PROVE  Follows(Head(s), Head(Tail(s))) /\ Tail(s)[Len(Tail(s))] = s[Len(s)]
  <2>1. Len(s) >= 2 /\ Head(Tail(s)) = s[1 + 1]
    BY <1>1, <1>3
  <2>2. 1 \in 1 .. Len(s) - 1
    BY <1>1, <2>1
  <2>3. Follows(s[1], s[1 + 1])
    BY <2>2 DEF Linked
  <2> QED
    BY <1>1, <2>1, <2>3
<1>4. Tail(s) = <<>> => Len(s) = 1
  <2>1. Tail(s) = <<>> => Len(Tail(s)) = 0
    BY EmptySeq
  <2> QED
    BY <1>1, <2>1
<1> QED
  BY <1>1, <1>2, <1>3, <1>4

LEMMA ChunksLinked ==
    ASSUME NEW p \in Requests
    PROVE  /\ Linked(Chunks(p)) /\ Chunks(p) # <<>> /\ Ends(Chunks(p)[Len(Chunks(p))])
           /\ \A i \in 1 .. Len(Chunks(p)) : Chunks(p)[i].packet = p
<1>1. /\ Len(Chunks(p)) = IF p.kind = "empty" THEN 2 ELSE 3
      /\ Chunks(p)[1] = Chunk(p, "start") /\ Chunks(p)[2] = Chunk(p, "header")
      /\ p.kind # "empty" => Chunks(p)[3] = Chunk(p, "payload")
  BY ChunksOf
<1>2. /\ Follows(Chunk(p, "start"), Chunk(p, "header"))
      /\ p.kind # "empty" => Follows(Chunk(p, "header"), Chunk(p, "payload"))
  BY DEF Follows, Chunk
<1>3. /\ p.kind = "empty" => Ends(Chunk(p, "header"))
      /\ Ends(Chunk(p, "payload"))
      /\ \A part : Chunk(p, part).packet = p
  BY DEF Ends, Chunk
<1>4. Chunks(p) # <<>>
  BY <1>1, ChunksOf
<1>5. CASE p.kind = "empty"
  <2>1. \A i \in 1 .. 2 : i = 1 \/ i = 2
    OBVIOUS
  <2>2. \A i \in 1 .. 1 : i = 1
    OBVIOUS
  <2> QED
    BY <1>1, <1>2, <1>3, <1>4, <1>5, <2>1, <2>2 DEF Linked
<1>6. CASE p.kind # "empty"
  <2>1. \A i \in 1 .. 3 : i = 1 \/ i = 2 \/ i = 3
    OBVIOUS
  <2>2. \A i \in 1 .. 2 : i = 1 \/ i = 2
    OBVIOUS
  <2> QED
    BY <1>1, <1>2, <1>3, <1>4, <1>6, <2>1, <2>2 DEF Linked
<1> QED
  BY <1>5, <1>6

\* What a step may do to the stream.
SameStream == Stream' = Stream /\ UNCHANGED <<link, in>>
StreamRead == Receive /\ Stream # <<>> /\ Head(inbox) = Head(Stream)
                 /\ Stream' = Tail(Stream) /\ UNCHANGED <<link, in>>
StreamSent == /\ link = "up" /\ link' = "up" /\ in' = in + 1
              /\ \E k \in Kinds : /\ Incoming(in + 1, k) \in Requests
                                  /\ Stream' = Stream \o Chunks(Incoming(in + 1, k))
              /\ UNCHANGED <<pc, workerVars, queue_incoming, handled>>
StreamCut == /\ link' = "down" /\ in' = in
             /\ \/ Stream' = <<>>
                \/ /\ Stream # <<>> => Head(Stream') = Head(Stream)
                   /\ Len(Stream') <= Len(Stream)
                   /\ \A i \in 1 .. Len(Stream') : Stream'[i] = Stream[i]
             /\ UNCHANGED <<pc, workerVars, queue_incoming, handled>>
StreamEmptied == (Connect \/ Close) /\ Stream' = <<>> /\ UNCHANGED in

LEMMA StreamIsSeq == ASSUME Types PROVE Stream \in Seq(InChunks)
BY ConcatProperties DEF Types, NetTypes, Stream

LEMMA ReceiveReads == ASSUME Types, Receive PROVE StreamRead
<1>0. inbox \in Seq(InChunks) /\ wire \in Seq(InChunks)
  BY DEF Types, NetTypes
<1>1. inbox # <<>> /\ inbox' = Tail(inbox) /\ UNCHANGED <<link, wire, in>>
  BY DEF Receive, boundVars
<1>2. /\ Head(inbox) = inbox[1] /\ Tail(inbox) \in Seq(InChunks)
      /\ Len(Tail(inbox)) = Len(inbox) - 1 /\ Len(inbox) \in Nat \ {0}
      /\ \A i \in 1 .. Len(Tail(inbox)) : Tail(inbox)[i] = inbox[i + 1]
  BY <1>0, <1>1, HeadTailProperties, EmptySeq
<1>3. /\ Stream \in Seq(InChunks) /\ Len(Stream) = Len(inbox) + Len(wire)
      /\ \A i \in 1 .. Len(inbox) + Len(wire) :
            Stream[i] = IF i <= Len(inbox) THEN inbox[i] ELSE wire[i - Len(inbox)]
      /\ Len(wire) \in Nat
  BY <1>0, ConcatProperties, LenProperties DEF Stream
<1>4. /\ Stream' \in Seq(InChunks) /\ Len(Stream') = Len(inbox) - 1 + Len(wire)
      /\ \A i \in 1 .. Len(inbox) - 1 + Len(wire) :
            Stream'[i] = IF i <= Len(inbox) - 1 THEN Tail(inbox)[i]
                         ELSE wire[i - (Len(inbox) - 1)]
  <2>1. Stream' = Tail(inbox) \o wire
    BY <1>1 DEF Stream
  <2> QED
    BY <1>0, <1>2, <2>1, ConcatProperties
<1>5. Len(Stream) > 0 /\ Stream # <<>> /\ Head(Stream) = Stream[1] /\ Stream[1] = inbox[1]
  BY <1>2, <1>3
<1>6. /\ Tail(Stream) \in Seq(InChunks) /\ Len(Tail(Stream)) = Len(Stream) - 1
      /\ \A i \in 1 .. Len(Tail(Stream)) : Tail(Stream)[i] = Stream[i + 1]
  BY <1>3, <1>5, HeadTailProperties
<1>7. ASSUME NEW i \in 1 .. Len(Stream') PROVE Stream'[i] = Tail(Stream)[i]
  <2>1. i \in Nat /\ i >= 1 /\ i <= Len(inbox) - 1 + Len(wire)
    BY <1>2, <1>3, <1>4
  <2>2. Tail(Stream)[i] = Stream[i + 1]
    BY <1>2, <1>3, <1>6, <2>1
  <2>3. CASE i <= Len(inbox) - 1
    BY <1>2, <1>3, <1>4, <2>1, <2>2, <2>3
  <2>4. CASE i > Len(inbox) - 1
    <3>1. /\ Stream'[i] = wire[i - (Len(inbox) - 1)]
          /\ Stream[i + 1] = wire[(i + 1) - Len(inbox)]
      BY <1>2, <1>3, <1>4, <2>1, <2>4
    <3>2. i - (Len(inbox) - 1) = (i + 1) - Len(inbox)
      BY <1>2, <2>1
    <3> QED
      BY <2>2, <3>1, <3>2
  <2>5. i <= Len(inbox) - 1 \/ i > Len(inbox) - 1
    <3>1. Len(inbox) \in Nat
      BY <1>0, LenProperties
    <3> QED
      BY <2>1, <3>1
  <2> QED
    BY <2>3, <2>4, <2>5
<1>8. Stream' = Tail(Stream)
  <2>1. Len(Stream') = Len(Tail(Stream))
    BY <1>2, <1>3, <1>4, <1>6
  <2> QED
    BY <1>4, <1>6, <1>7, <2>1, SeqEqual
<1> QED
  BY <1>1, <1>2, <1>5, <1>8 DEF StreamRead

LEMMA StreamStep ==
    ASSUME Types, [Next]_vars
    PROVE  SameStream \/ StreamRead \/ StreamSent \/ StreamCut \/ StreamEmptied
<1>0. inbox \in Seq(InChunks) /\ wire \in Seq(InChunks)
  BY DEF Types, NetTypes
<1>1. CASE UNCHANGED <<netVars, in>>
  BY <1>1 DEF SameStream, Stream, netVars
<1>2. CASE Connect \/ Close
  <2>1. inbox' = <<>> /\ wire' = <<>> /\ UNCHANGED in
    BY <1>2 DEF Connect, Close, boundVars
  <2>2. <<>> \o <<>> = <<>>
    BY ConcatEmptySeq, EmptySeq
  <2> QED
    BY <1>2, <2>1, <2>2 DEF StreamEmptied, Stream
<1>3. CASE Receive
  BY <1>3, ReceiveReads
<1>4. CASE ServerSends
  <2>1. PICK k \in Kinds : wire' = wire \o Chunks(Incoming(in + 1, k))
    BY <1>4 DEF ServerSends
  <2>2. Incoming(in + 1, k) \in Requests
    <3>1. in \in 0 .. MaxIn /\ in < MaxIn
      BY <1>4 DEF ServerSends, Types, NetTypes
    <3>2. in + 1 \in 1 .. MaxIn
      BY <3>1, BoundsAssumption
    <3> QED
      BY <3>2 DEF Requests
  <2>3. Stream' = Stream \o Chunks(Incoming(in + 1, k))
    <3>1. Chunks(Incoming(in + 1, k)) \in Seq(InChunks)
      BY <2>2, ChunksOf
    <3>2. Stream' = inbox \o (wire \o Chunks(Incoming(in + 1, k)))
      BY <1>4, <2>1 DEF ServerSends, Stream
    <3> QED
      BY <1>0, <3>1, <3>2, ConcatAssociative DEF Stream
  <2> QED
    BY <1>4, <2>2, <2>3 DEF ServerSends, StreamSent, inVars
<1>5. CASE Arrive
  <2>1. /\ wire # <<>> /\ inbox' = Append(inbox, Head(wire)) /\ wire' = Tail(wire)
        /\ UNCHANGED <<link, in>>
    BY <1>5 DEF Arrive, boundVars
  <2>2. /\ Head(wire) \in InChunks /\ Tail(wire) \in Seq(InChunks)
        /\ <<Head(wire)>> \o Tail(wire) = wire
    BY <1>0, <2>1, HeadThenTail
  <2>3. <<Head(wire)>> \in Seq(InChunks)
    BY <2>2
  <2>4. Append(inbox, Head(wire)) \o Tail(wire) = inbox \o (<<Head(wire)>> \o Tail(wire))
    BY <1>0, <2>2, <2>3, AppendIsConcat, ConcatAssociative
  <2> QED
    BY <2>1, <2>2, <2>4 DEF SameStream, Stream
<1>6. CASE Drop
  <2>1. /\ link' = "down" /\ wire' = <<>> /\ (inbox' = inbox \/ inbox' = <<>>) /\ in' = in
        /\ UNCHANGED <<pc, workerVars, queue_incoming, handled>>
    BY <1>6 DEF Drop, inVars
  <2>2. CASE inbox' = <<>>
    <3>1. <<>> \o <<>> = <<>>
      BY ConcatEmptySeq, EmptySeq
    <3> QED
      BY <2>1, <2>2, <3>1 DEF StreamCut, Stream
  <2>3. CASE inbox' = inbox /\ inbox # <<>>
    <3>1. Stream' = inbox
      BY <1>0, <2>1, <2>3, ConcatEmptySeq DEF Stream
    <3>2. /\ Stream \in Seq(InChunks) /\ Len(Stream) = Len(inbox) + Len(wire)
          /\ \A i \in 1 .. Len(inbox) + Len(wire) :
                Stream[i] = IF i <= Len(inbox) THEN inbox[i] ELSE wire[i - Len(inbox)]
          /\ Len(inbox) \in Nat \ {0} /\ Len(wire) \in Nat
      BY <1>0, <2>3, ConcatProperties, LenProperties, EmptySeq DEF Stream
    <3>3. \A i \in 1 .. Len(inbox) : Stream[i] = inbox[i]
      BY <3>2
    <3>4. Head(Stream) = Head(inbox)
      BY <1>0, <2>3, <3>2, <3>3, HeadTailProperties
    <3> QED
      BY <2>1, <3>1, <3>2, <3>3, <3>4 DEF StreamCut
  <2> QED
    BY <2>1, <2>2, <2>3
<1> QED
  BY <1>1, <1>2, <1>3, <1>4, <1>5, <1>6
  DEF Next, MainThread, Worker, Network, EnqueueOutgoing, DequeueIncoming, Goto, Startup,
      OpenSocket, ConnectFails, Clear, Announce, SendLogin, SendLoginThrows, TakeOutgoing,
      TakeNothing, LeaveLoop, SendOutgoing, SelectReady, SelectTimesOut, SelectFails,
      ReceiveFails, ReceiveEnds, HeaderAccepted, HeaderRejected, HeaderThrows, PushIncoming,
      Push, netVars, boundVars, vars

LEMMA StreamInvStep == ASSUME Types, StreamInv, [Next]_vars PROVE StreamInv'
<1>0. Stream \in Seq(InChunks) /\ Len(Stream) \in Nat
  BY StreamIsSeq, LenProperties
<1>1. CASE SameStream
  BY <1>1 DEF SameStream, StreamInv
<1>2. CASE StreamRead
  <2>1. Stream # <<>> /\ Stream' = Tail(Stream) /\ UNCHANGED <<link, in>>
    BY <1>2 DEF StreamRead
  <2>2. /\ Linked(Tail(Stream))
        /\ Tail(Stream) # <<>> => Tail(Stream)[Len(Tail(Stream))] = Stream[Len(Stream)]
    BY <1>0, <2>1, LinkedTail DEF StreamInv
  <2>3. \A i \in 1 .. Len(Tail(Stream)) : Tail(Stream)[i].packet.id <= in
    <3>1. /\ Len(Tail(Stream)) = Len(Stream) - 1
          /\ \A i \in 1 .. Len(Tail(Stream)) : Tail(Stream)[i] = Stream[i + 1]
      BY <1>0, <2>1, HeadTailProperties
    <3>2. \A i \in 1 .. Len(Tail(Stream)) : i + 1 \in 1 .. Len(Stream)
      BY <1>0, <3>1
    <3> QED
      BY <3>1, <3>2 DEF StreamInv
  <2> QED
    BY <2>1, <2>2, <2>3 DEF StreamInv
<1>3. CASE StreamSent
  <2>1. PICK k \in Kinds : /\ Incoming(in + 1, k) \in Requests
                           /\ Stream' = Stream \o Chunks(Incoming(in + 1, k))
    BY <1>3 DEF StreamSent
  <2>2. link = "up" /\ in' = in + 1 /\ in \in Nat
    BY <1>3, BoundsAssumption DEF StreamSent, Types, NetTypes
  <2>3. PICK t : t = Chunks(Incoming(in + 1, k))
    OBVIOUS
  <2>4. /\ t \in Seq(InChunks) /\ Len(t) \in Nat \ {0} /\ t[1].part = "start"
        /\ Linked(t) /\ t # <<>> /\ Ends(t[Len(t)])
        /\ \A i \in 1 .. Len(t) : t[i].packet.id = in + 1
    <3>1. /\ t \in Seq(InChunks) /\ t[1] = Chunk(Incoming(in + 1, k), "start")
          /\ t # <<>> /\ Linked(t) /\ Ends(t[Len(t)])
          /\ \A i \in 1 .. Len(t) : t[i].packet = Incoming(in + 1, k)
      BY <2>1, <2>3, ChunksOf, ChunksLinked
    <3>2. Incoming(in + 1, k).id = in + 1 /\ Chunk(Incoming(in + 1, k), "start").part = "start"
      BY DEF Incoming, Chunk
    <3> QED
      BY <3>1, <3>2, EmptySeq
  <2>5. ASSUME Stream # <<>> PROVE Follows(Stream[Len(Stream)], t[1])
    <3>1. Len(Stream) \in 1 .. Len(Stream)
      BY <1>0, <2>5, EmptySeq
    <3>2. Ends(Stream[Len(Stream)]) /\ Stream[Len(Stream)].packet.id <= in
      BY <2>2, <2>5, <3>1 DEF StreamInv
    <3>3. t[1].packet.id = in + 1
      BY <2>4
    <3>4. Stream[Len(Stream)].packet.id \in Nat
      BY <1>0, <3>1, ChunkFields, RequestFields, BoundsAssumption
    <3> QED
      BY <2>2, <2>4, <3>2, <3>3, <3>4 DEF Follows, Ends
  <2>6. Linked(Stream')
    BY <1>0, <2>1, <2>3, <2>4, <2>5, LinkedConcat DEF StreamInv
  <2>7. /\ Len(Stream') = Len(Stream) + Len(t)
        /\ \A i \in 1 .. Len(Stream) + Len(t) :
              Stream'[i] = IF i <= Len(Stream) THEN Stream[i] ELSE t[i - Len(Stream)]
    BY <1>0, <2>1, <2>3, <2>4, ConcatProperties
  <2>8. ASSUME NEW i \in 1 .. Len(Stream') PROVE Stream'[i].packet.id <= in + 1
    <3>1. CASE i <= Len(Stream)
      <4>1. i \in 1 .. Len(Stream) /\ Stream'[i] = Stream[i]
        BY <1>0, <2>4, <2>7, <3>1
      <4>2. Stream[i].packet.id <= in /\ Stream[i].packet.id \in Nat
        BY <1>0, <4>1, ChunkFields, RequestFields, BoundsAssumption DEF StreamInv
      <4> QED
        BY <2>2, <4>1, <4>2
    <3>2. CASE i > Len(Stream)
      <4>1. i - Len(Stream) \in 1 .. Len(t) /\ Stream'[i] = t[i - Len(Stream)]
        BY <1>0, <2>4, <2>7, <3>2
      <4> QED
        BY <2>2, <2>4, <4>1
    <3> QED
      BY <1>0, <3>1, <3>2
  <2>9. Stream'[Len(Stream')] = t[Len(t)]
    BY <1>0, <2>4, <2>7
  <2> QED
    BY <2>2, <2>4, <2>6, <2>8, <2>9 DEF StreamInv
<1>4. CASE StreamCut
  <2>1. link' = "down" /\ in' = in
    BY <1>4 DEF StreamCut
  <2>2. CASE Stream' = <<>>
    <3>1. Len(Stream') = 0
      BY <2>2, EmptySeq
    <3> QED
      BY <2>1, <2>2, <3>1 DEF StreamInv, Linked
  <2>3. CASE /\ Len(Stream') <= Len(Stream)
             /\ \A i \in 1 .. Len(Stream') : Stream'[i] = Stream[i]
    <3>0. Len(Stream') \in Nat
      <4>1. Types'
        BY WorkerTypesStep, NetTypesStep, QueuesTypesStep DEF Types
      <4>2. Stream' \in Seq(InChunks)
        BY <4>1, ConcatProperties DEF Types, NetTypes, Stream
      <4> QED
        BY <4>2, LenProperties
    <3>1. \A i \in 1 .. Len(Stream') - 1 :
              /\ i \in 1 .. Len(Stream) - 1 /\ i + 1 \in 1 .. Len(Stream')
              /\ i \in 1 .. Len(Stream')
      BY <1>0, <2>3, <3>0
    <3>2. Linked(Stream')
      BY <2>3, <3>1 DEF StreamInv, Linked
    <3>3. \A i \in 1 .. Len(Stream') : i \in 1 .. Len(Stream)
      BY <1>0, <2>3, <3>0
    <3> QED
      BY <2>1, <2>3, <3>2, <3>3 DEF StreamInv
  <2> QED
    BY <1>4, <2>2, <2>3 DEF StreamCut
<1>5. CASE StreamEmptied
  <2>1. Stream' = <<>> /\ Len(Stream') = 0
    BY <1>5, EmptySeq DEF StreamEmptied
  <2> QED
    BY <2>1 DEF StreamInv, Linked
<1> QED
  BY <1>1, <1>2, <1>3, <1>4, <1>5, StreamStep

-----------------------------------------------------------------------------
(* Where in the stream the worker is, and the order of the requests.          *)

\* The worker will still read of the connection there is.
Reading == pc \in {"clear", "announce"} \/ (connected /\ pc # "dead")

\* The part of a packet that the worker reads next.
Due ==
    CASE pc = "header" /\ missing = 1 -> "header"
      [] \/ HeaderComplete /\ buffer.kind # "empty"
         \/ pc = "payload" /\ missing = 1 -> "payload"
      [] OTHER -> "start"

\* The newest request that the plugin has or will have, and that of the worker.
Newest == IF queue_incoming = <<>> THEN handled ELSE queue_incoming[Len(queue_incoming)].id
Latest == IF Busy THEN buffer.id ELSE Newest

AtHead ==
    IF Due = "start" THEN Head(Stream).part = "start" /\ Head(Stream).packet.id > Latest
                     ELSE Head(Stream) = Chunk(buffer, Due)

HeadInv ==
    Reading => /\ Stream # <<>> => AtHead
               /\ link = "up" /\ Due # "start" => Stream # <<>>

OrderInv ==
    /\ RequestsInOrder
    /\ Newest <= in
    /\ Busy => Newest < buffer.id /\ buffer.id <= in

FramingInv == Types /\ StreamInv /\ HeadInv /\ OrderInv

LEMMA NewestInOrder ==
    ASSUME Types, OrderInv
    PROVE  /\ handled \in Nat /\ handled <= Newest /\ Newest \in Nat
           /\ \A i \in 1 .. Len(queue_incoming) : queue_incoming[i].id <= Newest
<1>1. handled \in Nat /\ Len(queue_incoming) \in Nat /\ queue_incoming \in Seq(Requests)
  BY BoundsAssumption, LenProperties DEF Types, QueuesTypes
<1>2. \A i \in 1 .. Len(queue_incoming) : queue_incoming[i].id \in Nat
  BY <1>1, RequestFields, BoundsAssumption
<1>3. CASE queue_incoming = <<>>
  <2>1. Len(queue_incoming) = 0
    BY <1>3, EmptySeq
  <2> QED
    BY <1>1, <1>3, <2>1 DEF Newest
<1>4. CASE queue_incoming # <<>>
  <2> DEFINE n == Len(queue_incoming)
  <2>1. n \in 1 .. n /\ n \in Nat
    BY <1>1, <1>4, EmptySeq
  <2>2. handled < queue_incoming[n].id
    BY <2>1 DEF OrderInv, RequestsInOrder
  <2>3. ASSUME NEW i \in 1 .. n PROVE queue_incoming[i].id <= queue_incoming[n].id
    <3>1. i = n \/ i \in 1 .. n - 1
      BY <2>1
    <3> QED
      BY <1>2, <2>1, <3>1 DEF OrderInv, RequestsInOrder
  <2> QED
    BY <1>1, <1>2, <1>4, <2>1, <2>2, <2>3 DEF Newest
<1> QED
  BY <1>3, <1>4

LEMMA DequeueOrder ==
    ASSUME Types, OrderInv, DequeueIncoming
    PROVE  RequestsInOrder' /\ Newest' <= Newest /\ Newest' \in Nat
<1> DEFINE q == queue_incoming
           n == Len(q)
<1>1. /\ q # <<>> /\ queue_incoming' = Tail(q)
      /\ handled' = handled \/ handled' = Head(q).id
  BY DEF DequeueIncoming
<1>2. /\ q \in Seq(Requests) /\ n \in Nat \ {0}
      /\ Head(q) = q[1] /\ Tail(q) \in Seq(Requests) /\ Len(Tail(q)) = n - 1
      /\ \A i \in 1 .. Len(Tail(q)) : Tail(q)[i] = q[i + 1]
  BY <1>1, HeadTailProperties, EmptySeq DEF Types, QueuesTypes
<1>3. \A i \in 1 .. n : q[i].id \in Nat
  BY <1>2, RequestFields, BoundsAssumption
<1>4. /\ handled \in Nat /\ handled < q[1].id /\ handled' \in Nat /\ handled' <= q[1].id
      /\ q[1].id \in Nat
  <2>1. 1 \in 1 .. n
    BY <1>2
  <2>2. handled < q[1].id /\ q[1].id \in Nat
    BY <1>3, <2>1 DEF OrderInv, RequestsInOrder
  <2> QED
    BY <1>1, <1>2, <2>2, NewestInOrder
<1>5. \A i, j \in 1 .. n : j < i => q[j].id < q[i].id
  <2> SUFFICES ASSUME NEW i \in 1 .. n, NEW j \in 1 .. n, j < i PROVE q[j].id < q[i].id
    OBVIOUS
  <2>1. j \in 1 .. i - 1
    BY <1>2
  <2> QED
    BY <2>1 DEF OrderInv, RequestsInOrder
<1>6. RequestsInOrder'
  <2> SUFFICES ASSUME NEW i \in 1 .. n - 1
               PROVE  /\ handled' < Tail(q)[i].id
                      /\ \A j \in 1 .. i - 1 : Tail(q)[j].id < Tail(q)[i].id
    BY <1>1, <1>2 DEF RequestsInOrder
  <2>1. i + 1 \in 1 .. n /\ 1 \in 1 .. n /\ 1 < i + 1 /\ Tail(q)[i] = q[i + 1]
    BY <1>2
  <2>2. q[1].id < q[i + 1].id /\ q[i + 1].id \in Nat
    BY <1>3, <1>5, <2>1
  <2>3. ASSUME NEW j \in 1 .. i - 1 PROVE Tail(q)[j].id < Tail(q)[i].id
    <3>1. j + 1 \in 1 .. n /\ j + 1 < i + 1 /\ Tail(q)[j] = q[j + 1]
      BY <1>2
    <3> QED
      BY <1>5, <2>1, <3>1
  <2> QED
    BY <1>4, <2>1, <2>2, <2>3
<1>7. CASE Tail(q) = <<>>
  <2>1. n = 1
    <3>1. Len(Tail(q)) = 0
      BY <1>7, EmptySeq
    <3>2. n \in Nat /\ Len(Tail(q)) = n - 1
      BY <1>2
    <3> HIDE DEF n
    <3> QED
      BY <3>1, <3>2
  <2>2. Newest = q[1].id /\ Newest' = handled'
    BY <1>1, <1>7, <2>1 DEF Newest
  <2> QED
    BY <1>4, <1>6, <2>2
<1>8. CASE Tail(q) # <<>>
  <2>1. n - 1 \in 1 .. n - 1
    BY <1>2, <1>8, EmptySeq
  <2>2. Tail(q)[n - 1] = q[n]
    <3>1. Tail(q)[n - 1] = q[(n - 1) + 1]
      BY <1>2, <2>1
    <3>2. (n - 1) + 1 = n
      BY <1>2
    <3> QED
      BY <3>1, <3>2
  <2>3. Newest' = q[n].id /\ Newest = q[n].id
    BY <1>1, <1>2, <1>8, <2>2 DEF Newest
  <2>4. q[n].id \in Nat
    BY <1>2, <1>3
  <2> QED
    BY <1>6, <2>3, <2>4
<1> QED
  BY <1>7, <1>8

LEMMA PushOrder ==
    ASSUME Types, OrderInv, PushIncoming
    PROVE  /\ RequestsInOrder' /\ Newest' \in Nat /\ Newest' <= buffer.id
           /\ Latest = buffer.id
<1> DEFINE q == queue_incoming
           n == Len(q)
<1>1. Busy /\ handled' = handled
  BY DEF PushIncoming, Push, Busy
<1>2. /\ buffer \in Requests /\ buffer.id \in Nat /\ Newest < buffer.id /\ Newest \in Nat
      /\ q \in Seq(Requests) /\ n \in Nat
  BY <1>1, NewestInOrder, RequestFields, BoundsAssumption
  DEF OrderInv, Types, WorkerTypes, QueuesTypes
<1>3. CASE queue_incoming' = q
  BY <1>1, <1>2, <1>3 DEF OrderInv, RequestsInOrder, Newest, Latest
<1>4. CASE queue_incoming' = Append(q, buffer)
  <2> DEFINE t == Append(q, buffer)
  <2>1. /\ Len(t) = n + 1 /\ t[n + 1] = buffer /\ t # <<>>
        /\ \A i \in 1 .. n : t[i] = q[i]
    BY <1>2, AppendProperties
  <2>2. Newest' = buffer.id
    BY <1>4, <2>1 DEF Newest
  <2>3. \A i \in 1 .. n : q[i].id < buffer.id
    <3>1. ASSUME NEW i \in 1 .. n PROVE q[i].id \in Nat /\ q[i].id <= Newest
      BY <1>2, NewestInOrder, RequestFields, BoundsAssumption
    <3> QED
      BY <1>2, <3>1
  <2>4. handled < buffer.id
    BY <1>2, NewestInOrder
  <2> HIDE DEF t, n
  <2>5. RequestsInOrder'
    <3> SUFFICES ASSUME NEW i \in 1 .. n + 1
                 PROVE  handled < t[i].id /\ \A j \in 1 .. i - 1 : t[j].id < t[i].id
      BY <1>1, <1>4, <2>1 DEF RequestsInOrder, t
    <3>1. CASE i = n + 1
      <4>1. \A j \in 1 .. i - 1 : j \in 1 .. n
        BY <1>2, <3>1
      <4> QED
        BY <2>1, <2>3, <2>4, <3>1, <4>1
    <3>2. CASE i # n + 1
      <4>1. i \in 1 .. n /\ \A j \in 1 .. i - 1 : j \in 1 .. n
        BY <1>2, <3>2
      <4> QED
        BY <2>1, <4>1 DEF OrderInv, RequestsInOrder, n
    <3> QED
      BY <3>1, <3>2
  <2> QED
    BY <1>1, <1>2, <2>2, <2>5 DEF Latest
<1> QED
  BY <1>3, <1>4 DEF PushIncoming, Push

\* The first chunk of a packet that the worker takes.
LEMMA StartOrder ==
    ASSUME FramingInv, IInv, StreamRead, pc = "header", missing = 2
    PROVE  /\ Head(Stream).part = "start" /\ buffer' = Head(Stream).packet
           /\ Newest < buffer'.id /\ buffer'.id <= in /\ Due' = "header" /\ Due = "start"
<1>1. /\ Stream # <<>> /\ buffer' = Head(Stream).packet /\ missing' = 1 /\ pc' = "header"
  BY DEF StreamRead, Receive
<1>2. Reading /\ Due = "start" /\ Due' = "header" /\ Latest = Newest
  <2>1. connected
    BY DEF IInv, Session
  <2> QED
    BY <1>1, <2>1 DEF Reading, Due, HeaderComplete, Latest, Busy
<1>3. Head(Stream).part = "start" /\ Head(Stream).packet.id > Newest
  BY <1>1, <1>2 DEF FramingInv, HeadInv, AtHead
<1>4. Head(Stream).packet.id <= in
  <2>1. Head(Stream) = Stream[1] /\ 1 \in 1 .. Len(Stream)
    BY <1>1, StreamIsSeq, HeadTailProperties, EmptySeq DEF FramingInv
  <2> QED
    BY <2>1 DEF FramingInv, StreamInv
<1>5. Head(Stream).packet.id \in Nat /\ Newest \in Nat
  <2>1. Head(Stream) \in InChunks
    BY <1>1, StreamIsSeq, HeadTailProperties DEF FramingInv
  <2> QED
    BY <2>1, ChunkFields, RequestFields, BoundsAssumption, NewestInOrder DEF FramingInv
<1> QED
  BY <1>1, <1>2, <1>3, <1>4, <1>5

LEMMA TypesStep == ASSUME Types, [Next]_vars PROVE Types'
BY WorkerTypesStep, NetTypesStep, QueuesTypesStep DEF Types

\* The chunks after it.
LEMMA LaterChunk ==
    ASSUME FramingInv, IInv, StreamRead, ~(pc = "header" /\ missing = 2)
    PROVE  /\ Due \in {"header", "payload"} /\ Head(Stream) = Chunk(buffer, Due)
           /\ buffer' = buffer /\ Busy /\ UNCHANGED <<pc, connected>>
           /\ missing = 1 /\ missing' = 0 /\ buffer \in Requests /\ Reading
<1>1. /\ pc \in {"header", "payload"} /\ missing > 0 /\ missing' = missing - 1
      /\ Stream # <<>> /\ UNCHANGED <<pc, connected>>
      /\ buffer' = IF pc = "header" THEN Head(Stream).packet ELSE buffer
  BY DEF StreamRead, Receive
<1>2. missing = 1 /\ Busy /\ buffer \in Requests
  <2>1. missing \in 0 .. 2 /\ (Busy => buffer \in Requests)
    BY DEF FramingInv, Types, WorkerTypes
  <2>2. CASE pc = "header"
    BY <1>1, <2>1, <2>2 DEF Busy
  <2>3. CASE pc = "payload"
    <3>1. Busy
      BY <2>3 DEF Busy
    <3>2. Len(Payload(buffer)) \in 0 .. 1
      BY <2>1, <3>1, ChunksOf
    <3>3. missing \in 0 .. Len(Payload(buffer))
      BY <2>3 DEF FramingInv, Types, WorkerTypes
    <3>4. missing = 1
      <4>1. ASSUME NEW n \in 0 .. 1, NEW m \in 0 .. n, m > 0 PROVE m = 1
        BY <4>1
      <4> QED
        BY <1>1, <3>2, <3>3, <4>1
    <3> QED
      BY <2>1, <3>1, <3>4
  <2> QED
    BY <1>1, <2>2, <2>3
<1>3. connected /\ Reading
  BY <1>1 DEF IInv, Session, Reading
<1>4. Due = pc
  BY <1>1, <1>2 DEF Due, HeaderComplete
<1>5. Head(Stream) = Chunk(buffer, pc)
  BY <1>1, <1>3, <1>4 DEF FramingInv, HeadInv, AtHead
<1>6. buffer' = buffer
  BY <1>1, <1>5 DEF Chunk
<1> QED
  BY <1>1, <1>2, <1>3, <1>4, <1>5, <1>6

\* The steps that read nothing of the stream leave the worker where it was in it.
LEMMA SamePlace ==
    ASSUME Types, [Next]_vars, ~Receive, ~Connect, ~DequeueIncoming, ~PushIncoming
    PROVE  /\ UNCHANGED <<queue_incoming, handled>>
           /\ Busy' => Busy /\ buffer' = buffer
           /\ Reading' => /\ Reading /\ Due' = Due /\ (Busy' <=> Busy)
                          /\ Due # "start" => buffer' = buffer
<1> USE DEF Busy, Reading, Due, HeaderComplete, workerVars, inVars, outVars
<1>1. CASE UNCHANGED <<pc, workerVars, queue_incoming, handled>>
  BY <1>1
<1>2. ASSUME UNCHANGED <<queue_incoming, handled>>,
             pc \notin {"header", "payload"}, pc' \notin {"header", "payload"},
             Reading' => Reading
      PROVE  /\ UNCHANGED <<queue_incoming, handled>>
             /\ ~Busy /\ ~Busy' /\ Due = "start" /\ Due' = "start"
  BY <1>2
<1>3. CASE Startup \/ OpenSocket \/ ConnectFails \/ SendLoginThrows \/ TakeNothing
              \/ LeaveLoop \/ SelectTimesOut
  BY <1>2, <1>3 DEF Startup, OpenSocket, ConnectFails, SendLoginThrows, TakeNothing, LeaveLoop,
                    SelectTimesOut, Goto
<1>4. CASE Clear \/ Announce \/ SendLogin \/ SelectFails \/ Close \/ TakeOutgoing \/ SendOutgoing
  BY <1>2, <1>4 DEF Clear, Announce, SendLogin, Send, SelectFails, Close, TakeOutgoing,
                    SendOutgoing
<1>5. CASE SelectReady
  BY <1>5 DEF SelectReady
<1>6. CASE ReceiveFails \/ HeaderRejected \/ HeaderThrows
  BY <1>6 DEF ReceiveFails, ReceiveEnds, HeaderRejected, HeaderThrows
<1>7. CASE HeaderAccepted
  <2>1. /\ pc = "header" /\ missing = 0 /\ pc' = "payload" /\ missing' = Len(Payload(buffer))
        /\ UNCHANGED <<connected, buffer, queue_incoming, handled>>
    BY <1>7 DEF HeaderAccepted
  <2>2. Len(Payload(buffer)) = IF buffer.kind = "empty" THEN 0 ELSE 1
    <3>1. buffer \in Requests
      BY <2>1 DEF Types, WorkerTypes
    <3> QED
      BY <3>1, ChunksOf
  <2>3. CASE buffer.kind = "empty"
    BY <2>1, <2>2, <2>3
  <2>4. CASE buffer.kind # "empty"
    BY <2>1, <2>2, <2>4
  <2> QED
    BY <2>3, <2>4
<1>8. CASE EnqueueOutgoing \/ Network \/ UNCHANGED vars
  BY <1>1, <1>8 DEF EnqueueOutgoing, Network, ServerSends, Arrive, Drop, vars
<1> QED
  BY <1>3, <1>4, <1>5, <1>6, <1>7, <1>8 DEF Next, MainThread, Worker

LEMMA RequestId ==
    ASSUME FramingInv PROVE in \in Nat /\ Newest \in Nat /\ Latest \in Nat
<1>1. Busy => buffer.id \in Nat
  BY RequestFields, BoundsAssumption DEF FramingInv, Types, WorkerTypes
<1> QED
  BY <1>1, NewestInOrder, BoundsAssumption DEF FramingInv, Types, NetTypes, Latest

LEMMA OrderStep == ASSUME FramingInv, IInv, [Next]_vars PROVE OrderInv'
<1>0. in \in Nat /\ in' \in Nat /\ in' >= in /\ Newest \in Nat
  <2>1. in' \in {in, in + 1}
    BY StreamStep DEF FramingInv, SameStream, StreamRead, StreamSent, StreamCut, StreamEmptied
  <2> QED
    BY <2>1, RequestId
<1>1. CASE Receive
  <2>1. StreamRead
    BY <1>1, ReceiveReads DEF FramingInv
  <2>2. UNCHANGED <<queue_incoming, handled, in>>
    BY <1>1 DEF Receive, inVars, boundVars
  <2>3. RequestsInOrder' /\ Newest' = Newest
    BY <2>2 DEF FramingInv, OrderInv, RequestsInOrder, Newest
  <2>4. Newest < buffer'.id /\ buffer'.id <= in
    BY <2>1, StartOrder, LaterChunk DEF FramingInv, OrderInv
  <2> QED
    BY <2>2, <2>3, <2>4 DEF FramingInv, OrderInv
<1>2. CASE DequeueIncoming
  <2>1. UNCHANGED <<pc, missing, buffer, in>>
    BY <1>2 DEF DequeueIncoming, workerVars, boundVars
  <2>2. RequestsInOrder' /\ Newest' <= Newest /\ Newest' \in Nat
    BY <1>2, DequeueOrder DEF FramingInv
  <2>3. Busy' <=> Busy
    BY <2>1 DEF Busy
  <2>4. Busy => buffer.id \in Nat
    BY RequestFields, BoundsAssumption DEF FramingInv, Types, WorkerTypes
  <2> QED
    BY <1>0, <2>1, <2>2, <2>3, <2>4 DEF FramingInv, OrderInv
<1>3. CASE PushIncoming
  <2>1. pc' = "loop" /\ in' = in /\ Busy
    BY <1>3 DEF PushIncoming, Push, boundVars, Busy
  <2>2. RequestsInOrder' /\ Newest' \in Nat /\ Newest' <= buffer.id /\ buffer.id <= in
    BY <1>3, <2>1, PushOrder DEF FramingInv, OrderInv
  <2>3. buffer.id \in Nat
    BY <2>1, RequestFields, BoundsAssumption DEF FramingInv, Types, WorkerTypes
  <2> QED
    BY <1>0, <2>1, <2>2, <2>3 DEF OrderInv, Busy
<1>4. CASE ~Receive /\ ~DequeueIncoming /\ ~PushIncoming
  <2>1. /\ UNCHANGED <<queue_incoming, handled>>
        /\ Busy' => Busy /\ buffer' = buffer
    <3>1. Connect => ~Busy' /\ UNCHANGED <<queue_incoming, handled>>
      BY DEF Connect, Busy, inVars
    <3> QED
      BY <1>4, <3>1, SamePlace DEF FramingInv
  <2>2. RequestsInOrder' /\ Newest' = Newest
    BY <2>1 DEF FramingInv, OrderInv, RequestsInOrder, Newest
  <2>3. Busy => buffer.id \in Nat
    BY RequestFields, BoundsAssumption DEF FramingInv, Types, WorkerTypes
  <2> QED
    BY <1>0, <2>1, <2>2, <2>3 DEF FramingInv, OrderInv
<1> QED
  BY <1>1, <1>2, <1>3, <1>4

\* The worker stays where it is in the stream if nothing is taken from its head.
LEMMA HeadStays ==
    ASSUME FramingInv, Reading' => Reading, Reading' => Due' = Due,
           Reading' /\ Due # "start" => buffer' = buffer,
           Latest' \in Nat, Latest' <= Latest \/ Due # "start" \/ ~Reading',
           Stream' # <<>> => Stream # <<>> /\ Head(Stream') = Head(Stream),
           link' = "up" => link = "up" /\ Stream' = Stream
    PROVE  HeadInv'
<1> SUFFICES ASSUME Reading'
             PROVE  /\ Stream' # <<>> => AtHead'
                    /\ link' = "up" /\ Due' # "start" => Stream' # <<>>
  BY DEF HeadInv
<1>1. Reading /\ (Stream # <<>> => AtHead) /\ (link = "up" /\ Due # "start" => Stream # <<>>)
  BY DEF FramingInv, HeadInv
<1>2. ASSUME Stream' # <<>> PROVE AtHead'
  <2>1. AtHead /\ Head(Stream') = Head(Stream)
    BY <1>1, <1>2
  <2>2. CASE Due # "start"
    BY <1>1, <2>1, <2>2 DEF AtHead
  <2>3. CASE Due = "start"
    <3>1. Head(Stream).part = "start" /\ Head(Stream).packet.id > Latest
      BY <2>1, <2>3 DEF AtHead
    <3>2. Head(Stream).packet.id \in Nat /\ Latest \in Nat
      <4>1. Head(Stream) \in InChunks
        BY <1>2, StreamIsSeq, HeadTailProperties DEF FramingInv
      <4> QED
        BY <4>1, ChunkFields, RequestFields, BoundsAssumption, RequestId
    <3>3. Head(Stream).packet.id > Latest'
      BY <2>3, <3>1, <3>2
    <3> QED
      BY <2>1, <2>3, <3>1, <3>3 DEF AtHead
  <2> QED
    BY <2>2, <2>3
<1> QED
  BY <1>1, <1>2

LEMMA LatestIsNat == ASSUME Types' PROVE Latest' \in Nat
<1>1. Busy' => buffer'.id \in Nat
  BY RequestFields, BoundsAssumption DEF Types, WorkerTypes
<1>2. handled' \in Nat /\ queue_incoming' \in Seq(Requests)
  BY BoundsAssumption DEF Types, QueuesTypes
<1>3. queue_incoming' # <<>> => queue_incoming'[Len(queue_incoming')].id \in Nat
  <2> SUFFICES ASSUME queue_incoming' # <<>>
               PROVE  queue_incoming'[Len(queue_incoming')].id \in Nat
    OBVIOUS
  <2>1. queue_incoming'[Len(queue_incoming')] \in Requests
    BY <1>2, EmptySeq
  <2> QED
    BY <2>1, RequestFields, BoundsAssumption
<1> QED
  BY <1>1, <1>2, <1>3 DEF Latest, Newest

LEMMA ReadHead == ASSUME FramingInv, IInv, Receive PROVE HeadInv'
<1>1. StreamRead
  BY ReceiveReads DEF FramingInv
<1>2. /\ Stream # <<>> /\ Stream' = Tail(Stream) /\ Stream \in Seq(InChunks)
      /\ UNCHANGED <<pc, connected, link, queue_incoming, handled>>
      /\ Linked(Stream) /\ (link = "up" => Ends(Stream[Len(Stream)]))
  BY <1>1, StreamIsSeq DEF StreamRead, Receive, inVars, FramingInv, StreamInv
<1>3. /\ Tail(Stream) # <<>> => Follows(Head(Stream), Head(Tail(Stream)))
      /\ Tail(Stream) = <<>> => Head(Stream) = Stream[Len(Stream)]
  BY <1>2, LinkedTail
<1>4. CASE pc = "header" /\ missing = 2
  <2>1. Head(Stream).part = "start" /\ buffer' = Head(Stream).packet /\ Due' = "header"
    BY <1>1, <1>4, StartOrder
  <2>2. Tail(Stream) # <<>> => Head(Tail(Stream)) = Chunk(buffer', "header")
    BY <1>3, <2>1 DEF Follows
  <2>3. link = "up" => Tail(Stream) # <<>>
    BY <1>2, <1>3, <2>1 DEF Ends
  <2> QED
    BY <1>2, <2>1, <2>2, <2>3 DEF HeadInv, AtHead
<1>5. CASE ~(pc = "header" /\ missing = 2)
  <2>1. /\ Due \in {"header", "payload"} /\ Head(Stream) = Chunk(buffer, Due)
        /\ buffer' = buffer /\ Busy /\ missing = 1 /\ missing' = 0
    BY <1>1, <1>5, LaterChunk
  <2>2. Due = pc /\ Head(Stream).part = pc /\ Head(Stream).packet = buffer
    BY <2>1 DEF Due, HeaderComplete, Busy, Chunk
  <2>3. Latest' = buffer.id
    BY <1>2, <2>1 DEF Busy, Latest
  <2>4. CASE pc = "header" /\ buffer.kind # "empty"
    <3>1. Due' = "payload"
      <4>1. pc' = "header" /\ missing' = 0 /\ buffer'.kind # "empty"
        BY <1>2, <2>1, <2>4
      <4> QED
        BY <4>1 DEF Due, HeaderComplete
    <3>2. Tail(Stream) # <<>> => Head(Tail(Stream)) = Chunk(buffer, "payload")
      BY <1>3, <2>2, <2>4 DEF Follows
    <3>3. link = "up" => Tail(Stream) # <<>>
      BY <1>2, <1>3, <2>2, <2>4 DEF Ends
    <3> QED
      BY <1>2, <2>1, <3>1, <3>2, <3>3 DEF HeadInv, AtHead
  <2>5. CASE pc = "payload" \/ buffer.kind = "empty"
    <3>1. Due' = "start"
      BY <1>2, <2>1, <2>2, <2>5 DEF Due, HeaderComplete
    <3>2. Tail(Stream) # <<>> => /\ Head(Tail(Stream)).part = "start"
                                 /\ Head(Tail(Stream)).packet.id > buffer.id
      BY <1>3, <2>1, <2>2, <2>5 DEF Follows
    <3> QED
      BY <1>2, <2>3, <3>1, <3>2 DEF HeadInv, AtHead
  <2> QED
    BY <2>1, <2>2, <2>4, <2>5
<1> QED
  BY <1>4, <1>5

LEMMA SentHead == ASSUME FramingInv, StreamSent PROVE HeadInv'
<1>1. PICK k \in Kinds : /\ Incoming(in + 1, k) \in Requests
                         /\ Stream' = Stream \o Chunks(Incoming(in + 1, k))
  BY DEF StreamSent
<1>2. PICK t : t = Chunks(Incoming(in + 1, k))
  OBVIOUS
<1>3. link = "up" /\ UNCHANGED <<pc, connected, buffer, missing, queue_incoming, handled>>
  BY DEF StreamSent, workerVars
<1>4. Reading' = Reading /\ Due' = Due /\ Latest' = Latest
  BY <1>3 DEF Reading, Due, HeaderComplete, Latest, Busy, Newest
<1>5. t \in Seq(InChunks) /\ t # <<>> /\ t[1] = Chunk(Incoming(in + 1, k), "start")
  BY <1>1, <1>2, ChunksOf, ChunksLinked
<1>6. Stream \in Seq(InChunks) /\ Len(Stream) \in Nat /\ Len(t) \in Nat \ {0}
  BY <1>5, StreamIsSeq, LenProperties, EmptySeq DEF FramingInv
<1>7. /\ Stream' \in Seq(InChunks) /\ Len(Stream') = Len(Stream) + Len(t)
      /\ \A i \in 1 .. Len(Stream) + Len(t) :
            Stream'[i] = IF i <= Len(Stream) THEN Stream[i] ELSE t[i - Len(Stream)]
  BY <1>1, <1>2, <1>5, <1>6, ConcatProperties
<1>8. Stream' # <<>> /\ Head(Stream') = Stream'[1]
  BY <1>6, <1>7, EmptySeq, HeadTailProperties
<1>9. CASE Stream # <<>>
  <2>1. Len(Stream) >= 1 /\ Head(Stream) = Stream[1]
    BY <1>6, <1>9, EmptySeq, HeadTailProperties
  <2>2. Head(Stream') = Head(Stream)
    BY <1>6, <1>7, <1>8, <2>1
  <2> QED
    BY <1>3, <1>4, <1>8, <1>9, <2>2 DEF FramingInv, HeadInv, AtHead
<1>10. CASE Stream = <<>>
  <2>1. Len(Stream) = 0
    BY <1>10, EmptySeq
  <2>2. Head(Stream') = t[1]
    BY <1>6, <1>7, <1>8, <2>1
  <2>3. Reading => Due = "start"
    BY <1>3, <1>10 DEF FramingInv, HeadInv
  <2>4. Latest <= in /\ in \in Nat /\ Latest \in Nat
    BY RequestId DEF FramingInv, OrderInv, Latest
  <2>5. Head(Stream').part = "start" /\ Head(Stream').packet.id = in + 1
    BY <1>5, <2>2 DEF Chunk, Incoming
  <2>6. Head(Stream').packet.id > Latest
    BY <2>4, <2>5
  <2> QED
    BY <1>4, <1>8, <2>3, <2>5, <2>6 DEF HeadInv, AtHead
<1> QED
  BY <1>9, <1>10

LEMMA HeadStep == ASSUME FramingInv, IInv, [Next]_vars PROVE HeadInv'
<1>0. Latest' \in Nat /\ Latest \in Nat
  BY TypesStep, LatestIsNat, RequestId DEF FramingInv
<1>1. CASE Receive
  BY <1>1, ReadHead
<1>2. CASE StreamSent
  BY <1>2, SentHead
<1>3. CASE Connect
  <2>1. Stream' = <<>>
    BY <1>3, ConcatEmptySeq, EmptySeq DEF Connect, Stream
  <2>2. Due' = "start"
    BY <1>3 DEF Connect, Due, HeaderComplete
  <2> QED
    BY <2>1, <2>2 DEF HeadInv
<1>4. CASE StreamCut
  <2>1. /\ link' = "down" /\ UNCHANGED <<pc, connected, buffer, missing, queue_incoming, handled>>
        /\ Stream' # <<>> => Stream # <<>> /\ Head(Stream') = Head(Stream)
    <3>1. ASSUME Stream' # <<>>, Len(Stream') <= Len(Stream) PROVE Stream # <<>>
      <4>1. Stream' \in Seq(InChunks) /\ Len(Stream') \in Nat \ {0}
        <5>1. Types'
          BY TypesStep DEF FramingInv
        <5>2. Stream' \in Seq(InChunks)
          BY <5>1, ConcatProperties DEF Types, NetTypes, Stream
        <5> QED
          BY <3>1, <5>2, EmptySeq
      <4>2. Len(<<>>) = 0
        BY EmptySeq
      <4> QED
        BY <3>1, <4>1, <4>2
    <3> QED
      BY <1>4, <3>1 DEF StreamCut, workerVars
  <2>2. Reading' = Reading /\ Due' = Due /\ Latest' = Latest
    BY <2>1 DEF Reading, Due, HeaderComplete, Latest, Busy, Newest
  <2> QED
    BY <1>0, <2>1, <2>2, HeadStays
<1>5. CASE DequeueIncoming
  <2>1. UNCHANGED <<pc, connected, buffer, missing, inbox, wire, link>>
    BY <1>5 DEF DequeueIncoming, workerVars, netVars
  <2>2. Reading' = Reading /\ Due' = Due /\ Stream' = Stream /\ (Busy' <=> Busy)
    BY <2>1 DEF Reading, Due, HeaderComplete, Busy, Stream
  <2>3. Latest' <= Latest
    <3>1. Newest' <= Newest
      BY <1>5, DequeueOrder DEF FramingInv
    <3> QED
      BY <1>0, <2>1, <2>2, <3>1 DEF Latest
  <2> QED
    BY <1>0, <2>1, <2>2, <2>3, HeadStays
<1>6. CASE PushIncoming
  <2>1. /\ pc = "payload" /\ missing = 0 /\ pc' = "loop"
        /\ UNCHANGED <<connected, missing, inbox, wire, link>>
    BY <1>6 DEF PushIncoming, Push, netVars
  <2>2. Reading' = Reading /\ Due' = "start" /\ Due = "start" /\ Stream' = Stream
    BY <2>1 DEF Reading, Due, HeaderComplete, Stream
  <2>3. Latest' <= Latest
    <3>1. Newest' <= buffer.id /\ Latest = buffer.id
      BY <1>6, PushOrder DEF FramingInv
    <3> QED
      BY <2>1, <3>1 DEF Latest, Busy
  <2> QED
    BY <1>0, <2>1, <2>2, <2>3, HeadStays
<1>7. CASE /\ ~Receive /\ ~Connect /\ ~DequeueIncoming /\ ~PushIncoming
           /\ SameStream \/ Close
  <2>1. /\ UNCHANGED <<queue_incoming, handled>>
        /\ Busy' => Busy /\ buffer' = buffer
        /\ Reading' => /\ Reading /\ Due' = Due /\ (Busy' <=> Busy)
                       /\ Due # "start" => buffer' = buffer
    BY <1>7, SamePlace DEF FramingInv
  <2>2. CASE Close
    BY <2>2 DEF Close, Reading, HeadInv
  <2>3. CASE SameStream
    <3>1. Reading' => Latest' = Latest
      BY <2>1 DEF Latest, Newest
    <3>2. Reading' => Latest' <= Latest
      BY <1>0, <3>1
    <3> QED
      BY <1>0, <2>1, <2>3, <3>2, HeadStays DEF SameStream
  <2> QED
    BY <1>7, <2>2, <2>3
<1> QED
  <2>1. StreamRead => Receive
    BY DEF StreamRead
  <2>2. StreamEmptied => Connect \/ Close
    BY DEF StreamEmptied
  <2> QED
    BY <1>1, <1>2, <1>3, <1>4, <1>5, <1>6, <1>7, <2>1, <2>2, StreamStep DEF FramingInv

-----------------------------------------------------------------------------
(* The theorems on what is received.                                          *)

LEMMA FramingInit == Init => FramingInv
<1> SUFFICES ASSUME Init PROVE FramingInv
  OBVIOUS
<1>1. Types
  <2>1. WorkerTypes
    <3>1. connected \in BOOLEAN
      BY Zenon DEF Init
    <3>2. pc = "startup" /\ missing = 0 /\ buffer = NoPacket
      BY DEF Init
    <3> QED
      BY <3>1, <3>2 DEF WorkerTypes, Places, Busy
  <2>2. NetTypes
    BY BoundsAssumption DEF Init, NetTypes
  <2>3. QueuesTypes
    BY BoundsAssumption, QueueSizeAssumption DEF Init, QueuesTypes
  <2> QED
    BY <2>1, <2>2, <2>3 DEF Types
<1>2. Stream = <<>> /\ Len(Stream) = 0
  BY ConcatEmptySeq, EmptySeq DEF Init, Stream
<1>3. StreamInv /\ HeadInv
  BY <1>2 DEF Init, StreamInv, Linked, HeadInv, Reading
<1>4. OrderInv
  BY DEF Init, OrderInv, RequestsInOrder, Newest, Busy
<1> QED
  BY <1>1, <1>3, <1>4 DEF FramingInv

LEMMA FramingHolds == Spec => []FramingInv
<1>1. FramingInv /\ IInv /\ [Next]_vars => FramingInv'
  BY TypesStep, StreamInvStep, HeadStep, OrderStep DEF FramingInv
<1> QED
  BY <1>1, FramingInit, AlwaysIInv, PTL DEF Spec

\* Where the client is in the stream of bytes: what it reads next is the rest of
\* the packet it is reading or the start of one, on every connection and however
\* the packets are cut on the way (client.cpp:124-212).
THEOREM FramingCorrect == Spec => []Framing
<1>1. FramingInv => Framing
  <2> SUFFICES ASSUME FramingInv, connected, pc # "dead", inbox # <<>>
               PROVE  IF Rest = <<>> THEN Head(inbox).part = "start"
                                     ELSE Head(inbox) = Head(Rest)
    BY DEF Framing
  <2>1. Stream # <<>> /\ Head(Stream) = Head(inbox)
    <3>1. /\ inbox \in Seq(InChunks) /\ wire \in Seq(InChunks)
          /\ Len(inbox) \in Nat \ {0} /\ Len(wire) \in Nat
      BY EmptySeq, LenProperties DEF FramingInv, Types, NetTypes
    <3>2. /\ Stream \in Seq(InChunks) /\ Len(Stream) = Len(inbox) + Len(wire)
          /\ Stream[1] = inbox[1]
      BY <3>1, ConcatProperties DEF Stream
    <3>3. Stream # <<>>
      BY <3>1, <3>2, EmptySeq
    <3> QED
      BY <3>1, <3>2, <3>3, HeadTailProperties
  <2>2. AtHead
    BY <2>1 DEF FramingInv, HeadInv, Reading
  <2>3. Busy => buffer \in Requests
    BY DEF FramingInv, Types, WorkerTypes
  <2>4. CASE pc = "header" /\ missing = 1
    <3>1. Due = "header" /\ Rest = Tail(Chunks(buffer)) /\ buffer \in Requests
      BY <2>3, <2>4 DEF Due, Rest, Busy, HeaderComplete
    <3>2. /\ Chunks(buffer) \in Seq(InChunks) /\ Len(Chunks(buffer)) \in {2, 3}
          /\ Chunks(buffer)[2] = Chunk(buffer, "header")
      BY <3>1, ChunksOf
    <3>3. Rest \in Seq(InChunks) /\ Len(Rest) \in {1, 2} /\ Rest[1] = Chunk(buffer, "header")
      <4>1. Chunks(buffer) # <<>>
        BY <3>2, EmptySeq
      <4>2. /\ Rest \in Seq(InChunks) /\ Len(Rest) = Len(Chunks(buffer)) - 1
            /\ \A i \in 1 .. Len(Rest) : Rest[i] = Chunks(buffer)[i + 1]
        BY <3>1, <3>2, <4>1, HeadTailProperties
      <4>3. Len(Rest) \in {1, 2} /\ 1 \in 1 .. Len(Rest)
        BY <3>2, <4>2
      <4> QED
        BY <3>2, <4>2, <4>3
    <3>4. Rest # <<>> /\ Head(Rest) = Chunk(buffer, "header")
      BY <3>3, EmptySeq, HeadTailProperties
    <3> QED
      BY <2>1, <2>2, <3>1, <3>4 DEF AtHead
  <2>5. CASE HeaderComplete \/ (pc = "payload" /\ missing = 1)
    <3>1. Rest = Payload(buffer) /\ buffer \in Requests
      BY <2>3, <2>5 DEF Rest, Busy, HeaderComplete
    <3>2. CASE buffer.kind = "empty"
      <4>1. Rest = <<>> /\ pc = "header"
        <5>1. Len(Payload(buffer)) = 0
          BY <3>1, <3>2, ChunksOf
        <5>2. pc = "payload" => missing \in 0 .. 0
          BY <5>1 DEF FramingInv, Types, WorkerTypes
        <5> QED
          BY <2>5, <3>1, <3>2, <5>2 DEF Payload, HeaderComplete
      <4>2. Due = "start"
        BY <2>5, <3>2, <4>1 DEF Due, HeaderComplete
      <4> QED
        BY <2>1, <2>2, <4>1, <4>2 DEF AtHead
    <3>3. CASE buffer.kind # "empty"
      <4>1. Due = "payload"
        BY <2>5, <3>3 DEF Due, HeaderComplete
      <4>2. Rest = <<Chunk(buffer, "payload")>>
        BY <3>1, <3>3 DEF Payload
      <4> QED
        BY <2>1, <2>2, <4>1, <4>2 DEF AtHead
    <3> QED
      BY <3>2, <3>3
  <2>6. CASE /\ ~(pc = "header" /\ missing = 1)
             /\ ~(HeaderComplete \/ (pc = "payload" /\ missing = 1))
    BY <2>1, <2>2, <2>6 DEF Rest, Due, AtHead
  <2> QED
    BY <2>4, <2>5, <2>6
<1> QED
  BY <1>1, FramingHolds, PTL

\* The requests that wait for the plugin are in the order in which the server
\* sent them and newer than the last one handled, over any number of connections.
THEOREM RequestsCorrect == Spec => []RequestsInOrder
<1>1. FramingInv => RequestsInOrder
  BY DEF FramingInv, OrderInv
<1> QED
  BY <1>1, FramingHolds, PTL

-----------------------------------------------------------------------------
(* The owners of the packet buffers.                                          *)

Rising(s) == \A i \in 1 .. Len(s) : \A j \in 1 .. i - 1 : s[j].id < s[i].id

LEMMA ElementsSame == ASSUME NEW s, NEW t, s = t PROVE Elements(s) = Elements(t)
OBVIOUS

LEMMA NoElements == Elements(<<>>) = {}
BY DEF Elements

LEMMA ElementsAppend ==
    ASSUME NEW S, NEW s \in Seq(S), NEW e \in S
    PROVE  Elements(Append(s, e)) = Elements(s) \cup {e}
<1>1. /\ Len(s) \in Nat /\ Len(Append(s, e)) = Len(s) + 1
      /\ \A i \in 1 .. Len(s) : Append(s, e)[i] = s[i]
      /\ Append(s, e)[Len(s) + 1] = e
  BY AppendProperties, LenProperties
<1>2. \A i : i \in 1 .. Len(s) + 1 <=> i \in 1 .. Len(s) \/ i = Len(s) + 1
  BY <1>1
<1>3. ASSUME NEW x PROVE x \in Elements(Append(s, e)) <=> x \in Elements(s) \/ x = e
  BY <1>1, <1>2 DEF Elements
<1> QED
  BY <1>3

LEMMA ElementsHead ==
    ASSUME NEW S, NEW s \in Seq(S), s # <<>>
    PROVE  Elements(s) = {Head(s)} \cup Elements(Tail(s))
<1>1. /\ Len(s) \in Nat \ {0} /\ Head(s) = s[1] /\ Len(Tail(s)) = Len(s) - 1
      /\ \A i \in 1 .. Len(Tail(s)) : Tail(s)[i] = s[i + 1]
  BY EmptySeq, LenProperties, HeadTailProperties
<1>2. ASSUME NEW x \in Elements(s) PROVE x \in {Head(s)} \cup Elements(Tail(s))
  <2>1. PICK i \in 1 .. Len(s) : x = s[i]
    BY DEF Elements
  <2>2. CASE i = 1
    BY <1>1, <2>1, <2>2
  <2>3. CASE i # 1
    <3>1. i - 1 \in 1 .. Len(Tail(s)) /\ (i - 1) + 1 = i
      BY <1>1, <2>3
    <3>2. Tail(s)[i - 1] = x
      BY <1>1, <2>1, <3>1
    <3> QED
      BY <3>1, <3>2 DEF Elements
  <2> QED
    BY <2>2, <2>3
<1>3. Head(s) \in Elements(s)
  <2>1. 1 \in 1 .. Len(s)
    BY <1>1
  <2> QED
    BY <1>1, <2>1 DEF Elements
<1>4. ASSUME NEW x \in Elements(Tail(s)) PROVE x \in Elements(s)
  <2>1. PICK i \in 1 .. Len(Tail(s)) : x = Tail(s)[i]
    BY DEF Elements
  <2>2. i + 1 \in 1 .. Len(s) /\ x = s[i + 1]
    BY <1>1, <2>1
  <2> QED
    BY <2>2 DEF Elements
<1> QED
  BY <1>2, <1>3, <1>4

\* The head of a rising sequence is not in its tail, which rises too.
LEMMA RisingTail ==
    ASSUME NEW S, NEW s \in Seq(S), s # <<>>, Rising(s), \A x \in S : x.id \in Nat
    PROVE  /\ Rising(Tail(s)) /\ Head(s) \notin Elements(Tail(s))
           /\ \A i \in 1 .. Len(Tail(s)) : Head(s).id < Tail(s)[i].id
<1>1. /\ Len(s) \in Nat \ {0} /\ Head(s) = s[1] /\ Len(Tail(s)) = Len(s) - 1
      /\ \A i \in 1 .. Len(Tail(s)) : Tail(s)[i] = s[i + 1]
  BY EmptySeq, LenProperties, HeadTailProperties
<1>2. ASSUME NEW i \in 1 .. Len(Tail(s)), NEW j \in 1 .. i - 1
      PROVE  Tail(s)[j].id < Tail(s)[i].id
  <2>1. i + 1 \in 1 .. Len(s) /\ j + 1 \in 1 .. (i + 1) - 1 /\ j \in 1 .. Len(Tail(s))
    BY <1>1
  <2> QED
    BY <1>1, <2>1 DEF Rising
<1>3. ASSUME NEW i \in 1 .. Len(Tail(s)) PROVE Head(s).id < Tail(s)[i].id
  <2>1. i + 1 \in 1 .. Len(s) /\ 1 \in 1 .. (i + 1) - 1
    BY <1>1
  <2> QED
    BY <1>1, <2>1 DEF Rising
<1>4. Head(s).id \in Nat
  BY HeadTailProperties
<1> QED
  BY <1>2, <1>3, <1>4 DEF Rising, Elements

LEMMA RisingAppend ==
    ASSUME NEW S, NEW s \in Seq(S), NEW e \in S, Rising(s),
           \A i \in 1 .. Len(s) : s[i].id < e.id
    PROVE  Rising(Append(s, e))
<1>1. /\ Len(s) \in Nat /\ Len(Append(s, e)) = Len(s) + 1
      /\ \A i \in 1 .. Len(s) : Append(s, e)[i] = s[i]
      /\ Append(s, e)[Len(s) + 1] = e
  BY AppendProperties, LenProperties
<1>2. ASSUME NEW i \in 1 .. Len(s) + 1, NEW j \in 1 .. i - 1
      PROVE  Append(s, e)[j].id < Append(s, e)[i].id
  <2>1. j \in 1 .. Len(s) /\ Append(s, e)[j] = s[j]
    BY <1>1
  <2>2. CASE i = Len(s) + 1
    BY <1>1, <2>1, <2>2
  <2>3. CASE i # Len(s) + 1
    <3>1. i \in 1 .. Len(s) /\ Append(s, e)[i] = s[i]
      BY <1>1, <2>3
    <3> QED
      BY <2>1, <3>1 DEF Rising
  <2> QED
    BY <2>2, <2>3
<1> QED
  BY <1>1, <1>2 DEF Rising

\* A rising sequence holds as many packets as it is long.
LEMMA RisingCardinality ==
    ASSUME NEW S, NEW s \in Seq(S), Rising(s), \A x \in S : x.id \in Nat
    PROVE  IsFiniteSet(Elements(s)) /\ Cardinality(Elements(s)) = Len(s)
<1>1. Len(s) \in Nat /\ \A i \in 1 .. Len(s) : s[i] \in S
  BY LenProperties
<1>2. ASSUME NEW i \in 1 .. Len(s), NEW j \in 1 .. Len(s), s[i] = s[j] PROVE i = j
  <2>1. s[i].id \in Nat /\ s[j].id \in Nat /\ s[i].id = s[j].id
    BY <1>1, <1>2
  <2>2. i \notin 1 .. j - 1 /\ j \notin 1 .. i - 1
    BY <2>1 DEF Rising
  <2> QED
    BY <1>1, <2>2
<1> DEFINE f == [i \in 1 .. Len(s) |-> s[i]]
<1>3. f \in Bijection(1 .. Len(s), Elements(s))
  <2>1. f \in [1 .. Len(s) -> Elements(s)]
    BY DEF Elements
  <2>2. \A i, j \in 1 .. Len(s) : f[i] = f[j] => i = j
    BY <1>2
  <2>3. \A x \in Elements(s) : \E i \in 1 .. Len(s) : f[i] = x
    BY DEF Elements
  <2> QED
    BY <2>1, <2>2, <2>3, Zenon DEF Bijection, Injection, Surjection, IsInjective
<1> HIDE DEF f
<1>4. IsFiniteSet(1 .. Len(s)) /\ Cardinality(1 .. Len(s)) = Len(s)
  <2>1. Cardinality(1 .. Len(s)) = IF 1 > Len(s) THEN 0 ELSE Len(s) - 1 + 1
    BY <1>1, FS_Interval
  <2>2. IsFiniteSet(1 .. Len(s))
    BY <1>1, FS_Interval
  <2> QED
    BY <1>1, <2>1, <2>2
<1> QED
  BY <1>3, <1>4, FS_Bijection DEF ExistsBijection
OutgoingRises ==
    /\ Rising(queue)
    /\ \A i \in 1 .. Len(queue) : queue[i].id <= out
    /\ pc = "send" => /\ buffer.id <= out
                      /\ \A i \in 1 .. Len(queue) : buffer.id < queue[i].id

Owned == Elements(queue) \cup Elements(queue_incoming) \cup OwnedByWorker

OwnerInv == OutgoingRises /\ heap = Owned

\* The packets of the two queues and that of the worker are different ones.
LEMMA OwnersDiffer ==
    ASSUME FramingInv, OutgoingRises
    PROVE  /\ Elements(queue) \subseteq Offered /\ Elements(queue_incoming) \subseteq Requests
           /\ Offered \cap Requests = {}
           /\ OwnedByWorker \cap (Elements(queue) \cup Elements(queue_incoming)) = {}
           /\ pc = "send" => buffer \in Offered
           /\ pc = "payload" => buffer \in Requests
<1>1. queue \in Seq(Offered) /\ queue_incoming \in Seq(Requests)
  BY DEF FramingInv, Types, QueuesTypes
<1>2. /\ Elements(queue) \subseteq Offered
      /\ Elements(queue_incoming) \subseteq Requests
  BY <1>1, LenProperties DEF Elements
<1>3. Offered \cap Requests = {}
  BY OfferedFields, RequestFields
<1>4. (pc = "send" => buffer \in Offered) /\ (pc = "payload" => buffer \in Requests)
  BY DEF FramingInv, Types, WorkerTypes, Busy
<1>5. ASSUME pc = "send" PROVE buffer \notin Elements(queue)
  <2>1. buffer.id \in Nat
    BY <1>4, <1>5, OfferedFields, BoundsAssumption
  <2> QED
    BY <1>5, <2>1 DEF OutgoingRises, Elements
<1>6. ASSUME pc = "payload" PROVE buffer \notin Elements(queue_incoming)
  <2>1. /\ Newest < buffer.id /\ Newest \in Nat /\ buffer.id \in Nat
        /\ \A i \in 1 .. Len(queue_incoming) : queue_incoming[i].id <= Newest
    BY <1>4, <1>6, NewestInOrder, RequestFields, BoundsAssumption
    DEF FramingInv, OrderInv, Busy
  <2> QED
    BY <2>1 DEF Elements
<1> QED
  BY <1>2, <1>3, <1>4, <1>5, <1>6 DEF OwnedByWorker

LEMMA OutgoingIds == \A p \in Offered : p.id \in Nat
BY OfferedFields, BoundsAssumption

LEMMA IncomingIds == \A p \in Requests : p.id \in Nat
BY RequestFields, BoundsAssumption

\* What a step may do to the packets that are to be sent.
LEMMA OutgoingRisesStep ==
    ASSUME FramingInv, OutgoingRises, [Next]_vars
    PROVE  OutgoingRises'
<1>1. queue \in Seq(Offered) /\ Len(queue) \in Nat /\ out \in Nat
  BY LenProperties, BoundsAssumption DEF FramingInv, Types, QueuesTypes
<1>2. CASE EnqueueOutgoing
  <2>1. out' = out + 1 /\ pc' = pc /\ buffer' = buffer
    BY <1>2 DEF EnqueueOutgoing, workerVars
  <2>2. CASE queue' = queue
    <3>1. \A i \in 1 .. Len(queue) : queue[i].id \in Nat
      BY <1>1, LenProperties, OutgoingIds
    <3>2. pc = "send" => buffer.id \in Nat
      BY OutgoingIds DEF FramingInv, Types, WorkerTypes
    <3> QED
      BY <1>1, <2>1, <2>2, <3>1, <3>2 DEF OutgoingRises, Rising
  <2>3. CASE queue' = Append(queue, Outgoing(out'))
    <3>1. Outgoing(out') \in Offered /\ Outgoing(out').id = out + 1
      BY <1>1, <1>2, <2>1, BoundsAssumption DEF EnqueueOutgoing, Offered, Outgoing
    <3>2. \A i \in 1 .. Len(queue) : queue[i].id \in Nat
      BY <1>1, LenProperties, OutgoingIds
    <3>3. \A i \in 1 .. Len(queue) : queue[i].id < Outgoing(out').id
      BY <1>1, <3>1, <3>2 DEF OutgoingRises
    <3>4. Rising(Append(queue, Outgoing(out')))
      BY <1>1, <3>1, <3>3, RisingAppend DEF OutgoingRises
    <3>5. /\ Len(queue') = Len(queue) + 1 /\ queue'[Len(queue) + 1] = Outgoing(out')
          /\ \A i \in 1 .. Len(queue) : queue'[i] = queue[i]
      BY <1>1, <2>3, <3>1, AppendProperties
    <3>6. \A i \in 1 .. Len(queue') : i \in 1 .. Len(queue) \/ i = Len(queue) + 1
      BY <1>1, <3>5
    <3>7. \A i \in 1 .. Len(queue') : queue'[i].id <= out'
      BY <1>1, <2>1, <3>1, <3>2, <3>5, <3>6 DEF OutgoingRises
    <3>8. ASSUME pc = "send"
          PROVE  buffer.id <= out' /\ \A i \in 1 .. Len(queue') : buffer.id < queue'[i].id
      <4>1. buffer.id \in Nat /\ buffer.id <= out
        BY <3>8, OutgoingIds DEF FramingInv, Types, WorkerTypes, OutgoingRises
      <4> QED
        BY <1>1, <2>1, <3>1, <3>5, <3>6, <3>8, <4>1 DEF OutgoingRises
    <3>9. Rising(queue)'
      BY <2>3, <3>4 DEF Rising
    <3> QED
      BY <2>1, <3>7, <3>8, <3>9 DEF OutgoingRises
  <2> QED
    BY <1>2, <2>2, <2>3 DEF EnqueueOutgoing, outVars
<1>3. CASE TakeOutgoing
  <2>1. /\ queue # <<>> /\ buffer' = Head(queue) /\ queue' = Tail(queue) /\ pc' = "send"
        /\ out' = out
    BY <1>3 DEF TakeOutgoing, boundVars
  <2>2. /\ Rising(Tail(queue))
        /\ \A i \in 1 .. Len(Tail(queue)) : Head(queue).id < Tail(queue)[i].id
    BY <1>1, <2>1, RisingTail, OutgoingIds DEF OutgoingRises
  <2>3. /\ Len(queue) \in Nat \ {0} /\ Head(queue) = queue[1]
        /\ Len(Tail(queue)) = Len(queue) - 1
        /\ \A i \in 1 .. Len(Tail(queue)) : Tail(queue)[i] = queue[i + 1]
    BY <1>1, <2>1, EmptySeq, HeadTailProperties
  <2>4. Head(queue).id <= out
    <3>1. 1 \in 1 .. Len(queue)
      BY <2>3
    <3> QED
      BY <2>3, <3>1 DEF OutgoingRises
  <2>5. \A i \in 1 .. Len(Tail(queue)) : Tail(queue)[i].id <= out
    <3>1. \A i \in 1 .. Len(Tail(queue)) : i + 1 \in 1 .. Len(queue)
      BY <2>3
    <3> QED
      BY <2>3, <3>1 DEF OutgoingRises
  <2>6. Rising(queue)'
    BY <2>1, <2>2 DEF Rising
  <2> QED
    BY <2>1, <2>2, <2>4, <2>5, <2>6 DEF OutgoingRises
<1>4. CASE Clear
  <2>1. queue' = <<>> /\ Len(queue') = 0 /\ pc' = "announce"
    BY <1>4, EmptySeq DEF Clear
  <2> QED
    BY <2>1 DEF OutgoingRises, Rising
<1>5. CASE /\ queue' = queue /\ out' = out
           /\ pc' = "send" => pc = "send" /\ buffer' = buffer
  BY <1>5 DEF OutgoingRises, Rising
<1>6. \/ EnqueueOutgoing \/ TakeOutgoing \/ Clear
      \/ /\ queue' = queue /\ out' = out
         /\ pc' = "send" => pc = "send" /\ buffer' = buffer
  BY DEF Next, MainThread, Worker, Network, Startup, OpenSocket, Connect, ConnectFails,
         Announce, SendLogin, SendLoginThrows, TakeNothing, LeaveLoop, SendOutgoing,
         SelectReady, SelectTimesOut, SelectFails, Receive, ReceiveFails, ReceiveEnds,
         HeaderAccepted, HeaderRejected, HeaderThrows, PushIncoming, Push, Close,
         DequeueIncoming, ServerSends, Arrive, Drop, Goto, HeaderComplete,
         vars, workerVars, outVars, inVars, netVars, boundVars
<1> QED
  BY <1>2, <1>3, <1>4, <1>5, <1>6
\* A step that moves a packet from one owner to the next, or frees it, does the
\* same to the heap.
LEMMA OwnerStep ==
    ASSUME FramingInv, OwnerInv, [Next]_vars
    PROVE  heap' = Owned'
<1>1. /\ queue \in Seq(Offered) /\ queue_incoming \in Seq(Requests)
      /\ heap = Elements(queue) \cup Elements(queue_incoming) \cup OwnedByWorker
      /\ Elements(queue) \subseteq Offered /\ Elements(queue_incoming) \subseteq Requests
      /\ Offered \cap Requests = {}
      /\ OwnedByWorker \cap (Elements(queue) \cup Elements(queue_incoming)) = {}
  BY OwnersDiffer DEF OwnerInv, Owned, FramingInv, Types, QueuesTypes
<1>2. CASE EnqueueOutgoing
  <2>1. queue_incoming' = queue_incoming /\ pc' = pc /\ buffer' = buffer /\ out' = out + 1
    BY <1>2 DEF EnqueueOutgoing, inVars, workerVars
  <2>2. Elements(queue_incoming)' = Elements(queue_incoming) /\ OwnedByWorker' = OwnedByWorker
    BY <2>1 DEF Elements, OwnedByWorker
  <2>3. CASE queue' = queue /\ heap' = heap
    BY <1>1, <2>2, <2>3 DEF Owned, Elements
  <2>4. CASE /\ queue' = Append(queue, Outgoing(out'))
             /\ heap' = heap \cup {Outgoing(out')}
    <3>1. Outgoing(out') \in Offered
      <4>1. out \in Nat /\ out < MaxOut /\ out' = out + 1
        BY <1>2, BoundsAssumption DEF EnqueueOutgoing, FramingInv, Types, QueuesTypes
      <4>2. out' \in 1 .. MaxOut
        BY <4>1, BoundsAssumption
      <4> QED
        BY <4>2 DEF Offered
    <3>2. Elements(queue)' = Elements(queue) \cup {Outgoing(out')}
      BY <1>1, <2>4, <3>1, ElementsAppend DEF Elements
    <3> QED
      BY <1>1, <2>2, <2>4, <3>2 DEF Owned
  <2> QED
    BY <1>2, <2>3, <2>4 DEF EnqueueOutgoing, outVars
<1>3. CASE DequeueIncoming
  <2>1. /\ queue_incoming # <<>> /\ queue_incoming' = Tail(queue_incoming)
        /\ heap' = heap \ {Head(queue_incoming)}
        /\ queue' = queue /\ pc' = pc /\ buffer' = buffer
    BY <1>3 DEF DequeueIncoming, outVars, workerVars
  <2>2. Elements(queue)' = Elements(queue) /\ OwnedByWorker' = OwnedByWorker
    BY <2>1 DEF Elements, OwnedByWorker
  <2>3. Elements(queue_incoming) = {Head(queue_incoming)} \cup Elements(Tail(queue_incoming))
    BY <1>1, <2>1, ElementsHead
  <2>4. Head(queue_incoming) \notin Elements(Tail(queue_incoming))
    <3>1. Rising(queue_incoming)
      BY DEF FramingInv, OrderInv, RequestsInOrder, Rising
    <3> QED
      BY <1>1, <2>1, <3>1, RisingTail, IncomingIds
  <2>5. Elements(queue_incoming)' = Elements(Tail(queue_incoming))
    BY <2>1 DEF Elements
  <2> QED
    BY <1>1, <2>1, <2>2, <2>3, <2>4, <2>5 DEF Owned
<1>4. CASE Clear
  <2>1. /\ queue' = <<>> /\ heap' = heap \ Elements(queue)
        /\ queue_incoming' = queue_incoming /\ pc = "clear" /\ pc' = "announce"
    BY <1>4 DEF Clear, inVars
  <2>2. /\ Elements(queue)' = {} /\ Elements(queue_incoming)' = Elements(queue_incoming)
        /\ OwnedByWorker = {} /\ OwnedByWorker' = {}
    <3>1. Elements(queue)' = {}
      BY <2>1, NoElements DEF Elements
    <3> QED
      BY <2>1, <3>1 DEF Elements, OwnedByWorker
  <2> QED
    BY <1>1, <2>1, <2>2 DEF Owned
<1>5. CASE TakeOutgoing
  <2>1. /\ queue # <<>> /\ buffer' = Head(queue) /\ queue' = Tail(queue)
        /\ pc = "loop" /\ pc' = "send" /\ heap' = heap /\ queue_incoming' = queue_incoming
    BY <1>5 DEF TakeOutgoing, inVars
  <2>2. Elements(queue) = {Head(queue)} \cup Elements(Tail(queue))
    BY <1>1, <2>1, ElementsHead
  <2>3. /\ Elements(queue)' = Elements(Tail(queue))
        /\ Elements(queue_incoming)' = Elements(queue_incoming)
        /\ OwnedByWorker = {} /\ OwnedByWorker' = {Head(queue)}
    BY <2>1 DEF Elements, OwnedByWorker
  <2> QED
    BY <1>1, <2>1, <2>2, <2>3 DEF Owned
<1>6. CASE SendOutgoing \/ ReceiveFails
  <2>1. /\ queue' = queue /\ queue_incoming' = queue_incoming
        /\ pc' \notin {"send", "payload"}
        /\ pc \in {"send", "payload", "header"}
        /\ heap' = IF pc = "header" THEN heap ELSE heap \ {buffer}
    BY <1>6 DEF SendOutgoing, ReceiveFails, ReceiveEnds, outVars, inVars
  <2>2. /\ Elements(queue)' = Elements(queue)
        /\ Elements(queue_incoming)' = Elements(queue_incoming)
        /\ OwnedByWorker = (IF pc = "header" THEN {} ELSE {buffer}) /\ OwnedByWorker' = {}
    BY <2>1 DEF Elements, OwnedByWorker
  <2> QED
    BY <1>1, <2>1, <2>2 DEF Owned
<1>7. CASE HeaderAccepted
  <2>1. /\ queue' = queue /\ queue_incoming' = queue_incoming /\ buffer' = buffer
        /\ pc = "header" /\ pc' = "payload" /\ heap' = heap \cup {buffer}
    BY <1>7 DEF HeaderAccepted, HeaderComplete, outVars, inVars
  <2>2. /\ Elements(queue)' = Elements(queue)
        /\ Elements(queue_incoming)' = Elements(queue_incoming)
        /\ OwnedByWorker = {} /\ OwnedByWorker' = {buffer}
    BY <2>1 DEF Elements, OwnedByWorker
  <2> QED
    BY <1>1, <2>1, <2>2 DEF Owned
<1>8. CASE PushIncoming
  <2>1. queue' = queue /\ pc = "payload" /\ pc' = "loop"
    BY <1>8 DEF PushIncoming, Push, outVars
  <2>2. /\ Elements(queue)' = Elements(queue)
        /\ OwnedByWorker = {buffer} /\ OwnedByWorker' = {}
    BY <2>1 DEF Elements, OwnedByWorker
  <2>3. CASE queue_incoming' = Append(queue_incoming, buffer) /\ heap' = heap
    <3>1. buffer \in Requests
      BY <2>1, OwnersDiffer DEF OwnerInv
    <3>2. Elements(queue_incoming)' = Elements(queue_incoming) \cup {buffer}
      BY <1>1, <2>3, <3>1, ElementsAppend DEF Elements
    <3> QED
      BY <1>1, <2>2, <2>3, <3>2 DEF Owned
  <2>4. CASE queue_incoming' = queue_incoming /\ heap' = heap \ {buffer}
    <3>1. Elements(queue_incoming)' = Elements(queue_incoming)
      BY <2>4 DEF Elements
    <3> QED
      BY <1>1, <2>2, <2>4, <3>1 DEF Owned
  <2> QED
    BY <1>8, <2>3, <2>4 DEF PushIncoming, Push
<1>9. CASE /\ queue' = queue /\ queue_incoming' = queue_incoming /\ heap' = heap
           /\ \/ pc \notin {"send", "payload"} /\ pc' \notin {"send", "payload"}
              \/ pc' = pc /\ buffer' = buffer
  <2>1. OwnedByWorker' = OwnedByWorker
    BY <1>9 DEF OwnedByWorker
  <2>2. /\ Elements(queue)' = Elements(queue)
        /\ Elements(queue_incoming)' = Elements(queue_incoming)
    BY <1>9 DEF Elements
  <2> QED
    BY <1>1, <1>9, <2>1, <2>2 DEF Owned
<1>10. \/ EnqueueOutgoing \/ DequeueIncoming \/ Clear \/ TakeOutgoing \/ SendOutgoing
       \/ ReceiveFails \/ HeaderAccepted \/ PushIncoming
       \/ /\ queue' = queue /\ queue_incoming' = queue_incoming /\ heap' = heap
          /\ \/ pc \notin {"send", "payload"} /\ pc' \notin {"send", "payload"}
             \/ pc' = pc /\ buffer' = buffer
  BY DEF Next, MainThread, Worker, Network, Startup, OpenSocket, Connect, ConnectFails,
         Announce, SendLogin, SendLoginThrows, TakeNothing, LeaveLoop,
         SelectReady, SelectTimesOut, SelectFails, Receive,
         HeaderRejected, HeaderThrows, Close,
         ServerSends, Arrive, Drop, Goto, HeaderComplete,
         vars, workerVars, outVars, inVars, netVars, boundVars
<1> QED
  BY <1>2, <1>3, <1>4, <1>5, <1>6, <1>7, <1>8, <1>9, <1>10

LEMMA OwnerInit == Init => OwnerInv
<1> SUFFICES ASSUME Init PROVE OwnerInv
  OBVIOUS
<1>1. /\ queue = <<>> /\ queue_incoming = <<>> /\ heap = {} /\ pc = "startup"
      /\ Len(queue) = 0
  BY EmptySeq DEF Init
<1>2. OutgoingRises
  BY <1>1 DEF OutgoingRises, Rising
<1>3. Owned = {}
  BY <1>1, NoElements DEF Owned, OwnedByWorker
<1> QED
  BY <1>1, <1>2, <1>3 DEF OwnerInv

LEMMA OwnerHolds == Spec => []OwnerInv
<1>1. FramingInv /\ OwnerInv /\ [Next]_vars => OwnerInv'
  BY OwnerStep, OutgoingRisesStep DEF OwnerInv
<1> QED
  BY <1>1, OwnerInit, FramingHolds, PTL DEF Spec

\* Every packet buffer has one owner that will free it, and no two owners hold
\* the same one (client.cpp:51-56, 64-73, 188-203, 278-287).
THEOREM OwnershipCorrect == Spec => []BufferOwnership
<1>1. FramingInv /\ OwnerInv => BufferOwnership
  <2> SUFFICES ASSUME FramingInv, OwnerInv PROVE BufferOwnership
    OBVIOUS
  <2> DEFINE E == Elements(queue)
             F == Elements(queue_incoming)
             G == OwnedByWorker
  <2>1. queue \in Seq(Offered) /\ queue_incoming \in Seq(Requests)
    BY DEF FramingInv, Types, QueuesTypes
  <2>2. E \cap F = {} /\ (E \cup F) \cap G = {} /\ heap = (E \cup F) \cup G
    BY OwnersDiffer DEF OwnerInv, Owned
  <2>3. IsFiniteSet(E) /\ Cardinality(E) = Len(queue)
    BY <2>1, RisingCardinality, OutgoingIds DEF OwnerInv, OutgoingRises
  <2>4. IsFiniteSet(F) /\ Cardinality(F) = Len(queue_incoming)
    <3>1. Rising(queue_incoming)
      BY DEF FramingInv, OrderInv, RequestsInOrder, Rising
    <3> QED
      BY <2>1, <3>1, RisingCardinality, IncomingIds
  <2>5. IsFiniteSet(G) /\ Cardinality(G) \in Nat
    <3>1. G = {} \/ G = {buffer}
      BY DEF OwnedByWorker
    <3> HIDE DEF G
    <3>2. CASE G = {}
      <4>1. IsFiniteSet({}) /\ Cardinality({}) = 0
        BY FS_EmptySet
      <4> QED
        BY <3>2, <4>1
    <3>3. CASE G = {buffer}
      <4>1. IsFiniteSet({buffer}) /\ Cardinality({buffer}) = 1
        BY FS_Singleton, Zenon
      <4> QED
        BY <3>3, <4>1
    <3> QED
      BY <3>1, <3>2, <3>3
  <2> HIDE DEF E, F, G
  <2>6. IsFiniteSet(E \cup F) /\ Cardinality(E \cup F) = Len(queue) + Len(queue_incoming)
    <3>1. /\ IsFiniteSet(E \cup F)
          /\ Cardinality(E \cup F) = Cardinality(E) + Cardinality(F) - Cardinality({})
      BY <2>2, <2>3, <2>4, FS_Union
    <3> QED
      BY <2>1, <2>3, <2>4, <3>1, FS_EmptySet, LenProperties
  <2>7. Cardinality(heap) = Len(queue) + Len(queue_incoming) + Cardinality(G)
    <3>1. Cardinality(heap) = Cardinality(E \cup F) + Cardinality(G) - Cardinality({})
      BY <2>2, <2>5, <2>6, FS_Union
    <3> QED
      BY <2>1, <2>5, <2>6, <3>1, FS_EmptySet, LenProperties
  <2> QED
    BY <2>2, <2>7 DEF BufferOwnership, E, F, G
<1> QED
  BY <1>1, FramingHolds, OwnerHolds, PTL

LEMMA SeqIn == ASSUME NEW S, NEW T, S \subseteq T, NEW s \in Seq(S) PROVE s \in Seq(T)
OBVIOUS

\* The fields of DddNetClient and the worker's locals have their types, and
\* neither queue grows beyond queue_count (client.cpp:17-28).
THEOREM TypeCorrect == Spec => []TypeOK
<1>1. FramingInv /\ OwnerInv /\ IInv => TypeOK
  <2> SUFFICES ASSUME FramingInv, OwnerInv, IInv PROVE TypeOK
    OBVIOUS
  <2>1. Offered \subseteq Packets /\ Requests \subseteq Packets /\ {Login, NoPacket} \subseteq Packets
    BY DEF Offered, Requests, Packets
  <2>2. InChunks \subseteq StreamChunks
    BY <2>1 DEF InChunks, StreamChunks, Parts
  <2>3. queue \in Seq(Packets) /\ queue_incoming \in Seq(Packets)
    BY <2>1, SeqIn DEF FramingInv, Types, QueuesTypes
  <2>4. wire \in Seq(StreamChunks) /\ inbox \in Seq(StreamChunks)
    BY <2>2, SeqIn DEF FramingInv, Types, NetTypes
  <2>5. sent \in Seq(Packets) /\ accepted \in Seq(Packets)
    <3>1. Offered \cup {Login} \subseteq Packets
      BY <2>1
    <3> QED
      BY <2>1, <3>1, SeqIn DEF IInv, QueueTypes
  <2>6. buffer \in Packets
    BY <2>1 DEF FramingInv, Types, WorkerTypes
  <2>7. heap \subseteq Packets
    <3>1. OwnedByWorker \subseteq Packets
      BY <2>6 DEF OwnedByWorker
    <3> QED
      BY <2>1, <3>1, OwnersDiffer DEF OwnerInv, Owned
  <2>8. /\ pc \in Places /\ missing \in 0 .. 2 /\ link \in {"none", "up", "down"}
        /\ Len(queue) <= QueueSize /\ Len(queue_incoming) <= QueueSize
        /\ handled \in 0 .. MaxIn /\ out \in 0 .. MaxOut
        /\ in \in 0 .. MaxIn /\ drops \in 0 .. MaxDrops
    BY DEF FramingInv, Types, WorkerTypes, NetTypes, QueuesTypes
  <2>9. connected \in BOOLEAN
    BY DEF FramingInv, Types, WorkerTypes
  <2> QED
    BY <2>3, <2>4, <2>5, <2>6, <2>7, <2>8, <2>9, Zenon DEF TypeOK
<1> QED
  BY <1>1, FramingHolds, OwnerHolds, AlwaysIInv, PTL
=============================================================================
