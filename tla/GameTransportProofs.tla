------------------------- MODULE GameTransportProofs -------------------------
(* That GameTransport keeps its types, that the worker dispatches in order,   *)
(* tells its status exactly and keeps healthy connections, and that senders   *)
(* do not mix their packets, for any number of them, of handlers and of       *)
(* connections.                                                               *)
EXTENDS GameTransport, TLAPS

LEMMA Constants ==
    /\ NoEndpoint \notin Endpoints
    /\ MaxConns \in Nat /\ MaxHalves \in Nat /\ MaxSends \in Nat
    /\ NoSocket \notin Conns
BY TransportAssumption DEF Conns, NoSocket

-----------------------------------------------------------------------------
(* The types.                                                                 *)

WorkerOK ==
    /\ pc \in {"new", "accept", "accepted", "header", "payload", "look_up",
               "caught", "close"}
    /\ accepted \in 0 .. MaxConns
    /\ sock \in {NoSocket, accepted}
    /\ pc \in {"accepted", "header", "payload", "look_up"} => sock # NoSocket
    /\ pc \in {"new", "accept"} => sock = NoSocket
    /\ closed = (1 .. accepted) \ {sock}

StatusOK == connected \in BOOLEAN /\ told \in Seq(BOOLEAN)

BindOK ==
    /\ late \in BOOLEAN
    /\ bindings \subseteq Endpoints /\ binding \in Endpoints \cup {NoEndpoint}

GameOK ==
    /\ game \in [Conns -> GameStates]
    /\ sent \in [Conns -> Seq(Packets)]
    /\ arrived \in [Conns -> Nat] /\ read \in [Conns -> Nat]
    /\ \A c \in Conns : /\ read[c] <= arrived[c] /\ arrived[c] <= 2 * Len(sent[c])
                        /\ ~Made(c) => arrived[c] = 0

SenderOK ==
    /\ outbound \in [Conns -> Seq(Chunks)]
    /\ spc \in [Senders -> {"idle", "enter", "send", "sending"}]
    /\ lock \in [Senders -> Conns \cup {NoSocket}]
    /\ target \in [Senders -> Conns \cup {NoSocket}]
    /\ \A t \in Senders : /\ spc[t] # "idle" => lock[t] \in Conns
                          /\ spc[t] = "sending" => target[t] \in Conns
    /\ sends \in 0 .. MaxSends

LEMMA WorkerStep == ASSUME WorkerOK, [Next]_vars PROVE WorkerOK'
<1> USE DEF WorkerOK
<1>1. CASE Accept
  BY <1>1, Constants DEF Accept, NoSocket
<1>2. CASE AcceptThrows
  BY <1>2, Constants DEF AcceptThrows, NoSocket
<1>3. CASE Up \/ Down
  BY <1>3 DEF Up, Down
<1>4. CASE ReadHeader \/ ReadPayload
  BY <1>4 DEF ReadHeader, ReadPayload, ReadHalf
<1>5. CASE ReadThrows \/ LookUp \/ LookUpDuringBind
  BY <1>5 DEF ReadThrows, LookUp, LookUpDuringBind, Dispatch
<1>6. CASE Close
  BY <1>6, Constants DEF Close, NoSocket
<1>7. CASE Listen
  BY <1>7 DEF Listen
<1>8. CASE UNCHANGED workerVars
  BY <1>8 DEF workerVars
<1>9. CASE (\E e \in Endpoints : Bind(e)) \/ BindReturns
  BY <1>8, <1>9 DEF Bind, BindReturns
<1>10. CASE Send
  BY <1>8, <1>10 DEF Send, SendMessage, Enter, Sending, SendFirst, SendRest, SendThrows, Write
<1>11. CASE Game \/ UNCHANGED vars
  BY <1>8, <1>11 DEF Game, GameConnects, Arrive, GameLeaves, Reset, NotGame, vars
<1> QED
  BY <1>1, <1>2, <1>3, <1>4, <1>5, <1>6, <1>7, <1>9, <1>10, <1>11
  DEF Next, Program, Worker

LEMMA SockIsConn == ASSUME WorkerOK, sock # NoSocket PROVE sock \in Conns /\ sock = accepted
BY Constants DEF WorkerOK, Conns, NoSocket

LEMMA StatusStep == ASSUME StatusOK, [Next]_vars PROVE StatusOK'
<1> USE DEF StatusOK
<1>1. ASSUME NEW value \in BOOLEAN, SetConnected(value) PROVE StatusOK'
  <2>1. Append(told, value) \in Seq(BOOLEAN)
    OBVIOUS
  <2> QED
    BY <1>1, <2>1 DEF SetConnected
<1>2. CASE UNCHANGED <<connected, told>>
  BY <1>2
<1> QED
  BY <1>1, <1>2
  DEF Next, Program, Worker, Send, Game, Bind, BindReturns, Listen, Accept, AcceptThrows,
      ReadHeader, ReadPayload, ReadHalf, ReadThrows, LookUp, LookUpDuringBind, Dispatch, Close,
      SendMessage, Enter, Sending, SendFirst, SendRest, SendThrows, Write,
      GameConnects, Arrive, GameLeaves, Reset, NotWorker, NotGame, workerVars, vars, Up, Down

LEMMA BindStep == ASSUME BindOK, [Next]_vars PROVE BindOK'
<1> USE DEF BindOK
<1>1. CASE \E e \in Endpoints : Bind(e)
  BY <1>1 DEF Bind
<1>2. CASE BindReturns
  BY <1>2 DEF BindReturns
<1>3. CASE UNCHANGED bindVars
  BY <1>3 DEF bindVars
<1> QED
  BY <1>1, <1>2, <1>3
  DEF Next, Program, Worker, Send, Game, Listen, Accept, AcceptThrows, Up, Down,
      ReadHeader, ReadPayload, ReadHalf, ReadThrows, LookUp, LookUpDuringBind, Dispatch, Close,
      SendMessage, Enter, Sending, SendFirst, SendRest, SendThrows, Write,
      GameConnects, Arrive, GameLeaves, Reset, NotWorker, NotGame, bindVars, vars

LEMMA GameStep == ASSUME WorkerOK, GameOK, [Next]_vars PROVE GameOK'
<1> USE DEF GameOK
<1>1. CASE ReadHeader \/ ReadPayload
  <2>1. sock \in Conns /\ ReadHalf
    BY <1>1, SockIsConn DEF ReadHeader, ReadPayload, WorkerOK
  <2>2. UNCHANGED <<game, sent, arrived>>
    BY <2>1 DEF ReadHalf, NotWorker, gameVars
  <2> QED
    BY <2>1, <2>2 DEF ReadHalf, Made
<1>2. ASSUME NEW c \in Conns, GameConnects(c) PROVE GameOK'
  BY <1>2 DEF GameConnects, GameStates, NotGame, workerVars, gameVars, Made
<1>3. ASSUME NEW c \in Conns, Arrive(c) PROVE GameOK'
  <2>1. /\ game[c] = "up" /\ arrived' = [arrived EXCEPT ![c] = @ + 1]
        /\ UNCHANGED <<game, read>>
    BY <1>3 DEF Arrive, NotGame, workerVars
  <2>2. CASE /\ arrived[c] = 2 * Len(sent[c])
             /\ \E packet \in Packets : sent' = [sent EXCEPT ![c] = Append(@, packet)]
    BY <2>1, <2>2 DEF Made
  <2>3. CASE arrived[c] < 2 * Len(sent[c]) /\ UNCHANGED sent
    BY <2>1, <2>3 DEF Made
  <2> QED
    BY <1>3, <2>2, <2>3 DEF Arrive
<1>4. ASSUME NEW c \in Conns, GameLeaves(c) \/ Reset(c) PROVE GameOK'
  BY <1>4 DEF GameLeaves, Reset, GameStates, NotGame, workerVars, gameVars, Made
<1>5. ASSUME NEW t \in Senders, SendFirst(t) \/ SendRest(t) PROVE GameOK'
  <2>1. UNCHANGED <<sent, arrived, read>>
    BY <1>5 DEF SendFirst, SendRest, Write, workerVars, gameVars
  <2>2. PICK c : game' = IF game[c] = "vanished" THEN [game EXCEPT ![c] = "unacked"] ELSE game
    BY <1>5 DEF SendFirst, SendRest, Write
  <2>3. CASE game[c] = "vanished" /\ game' = [game EXCEPT ![c] = "unacked"]
    BY <2>1, <2>3 DEF GameStates, Made
  <2>4. CASE game' = game
    BY <2>1, <2>4 DEF Made
  <2> QED
    BY <2>2, <2>3, <2>4
<1>6. CASE UNCHANGED <<game, sent, arrived, read>>
  BY <1>6 DEF Made
<1> QED
  BY <1>1, <1>2, <1>3, <1>4, <1>5, <1>6
  DEF Next, Program, Worker, Send, Game, Bind, BindReturns, Listen, Accept, AcceptThrows, Up,
      Down, ReadThrows, LookUp, LookUpDuringBind, Dispatch, Close, SendMessage, Enter, Sending,
      SendThrows, NotWorker, workerVars, gameVars, vars

LEMMA SenderStep == ASSUME WorkerOK, SenderOK, [Next]_vars PROVE SenderOK'
<1> USE DEF SenderOK
<1>1. ASSUME NEW t \in Senders, SendMessage(t) PROVE SenderOK'
  BY <1>1, SockIsConn, Constants DEF SendMessage
<1>2. ASSUME NEW t \in Senders, Enter(t) PROVE SenderOK'
  BY <1>2 DEF Enter
<1>3. ASSUME NEW t \in Senders, SendFirst(t) PROVE SenderOK'
  <2>1. sock \in Conns /\ lock[t] \in Conns
    BY <1>3, SockIsConn DEF SendFirst, Usable
  <2>2. [thread |-> t, part |-> 1, lock |-> lock[t]] \in Chunks
    BY <2>1 DEF Chunks
  <2> QED
    BY <1>3, <2>1, <2>2 DEF SendFirst, Write
<1>4. ASSUME NEW t \in Senders, SendRest(t) PROVE SenderOK'
  <2>1. target[t] \in Conns /\ lock[t] \in Conns
    BY <1>4 DEF SendRest
  <2>2. [thread |-> t, part |-> 2, lock |-> lock[t]] \in Chunks
    BY <2>1 DEF Chunks
  <2> QED
    BY <1>4, <2>1, <2>2 DEF SendRest, Write
<1>5. ASSUME NEW t \in Senders, SendThrows(t) PROVE SenderOK'
  BY <1>5 DEF SendThrows
<1>6. CASE UNCHANGED <<outbound, senderVars>>
  BY <1>6 DEF senderVars
<1> QED
  BY <1>1, <1>2, <1>3, <1>4, <1>5, <1>6
  DEF Next, Program, Worker, Send, Game, Bind, BindReturns, Listen, Accept, AcceptThrows, Up,
      Down, ReadHeader, ReadPayload, ReadHalf, ReadThrows, LookUp, LookUpDuringBind, Dispatch,
      Close, Sending, GameConnects, Arrive, GameLeaves, Reset, NotWorker, NotGame, vars

-----------------------------------------------------------------------------
(* How far the worker has read of a connection follows from where it is and   *)
(* how many messages of it have been dispatched.                              *)

Position(p, c) ==
    LET done == Len(looked[c])
        next == sent[c][done + 1].form
    IN  /\ p = "accepted" => read[c] = 0 /\ done = 0
        /\ p = "header" => read[c] = 2 * done
        /\ p = "payload" => read[c] = 2 * done + 1 /\ next # "incompatible"
        /\ p = "look_up" => read[c] = 2 * done + 2 /\ next = "good"

Entries == [packet : Packets, found : BOOLEAN]

LookedOK ==
    /\ looked \in [Conns -> Seq(Entries)]
    /\ \A c \in Conns : c > accepted => read[c] = 0 /\ looked[c] = <<>>

ProgressOK == LookedOK /\ (sock # NoSocket => Position(pc, sock)) /\ DispatchInOrder

\* Both halves of a packet belong to it.
LEMMA Halves ==
    \A k \in Nat : (2 * k + 1 + 1) \div 2 = k + 1 /\ (2 * k + 2 + 1) \div 2 = k + 1
OBVIOUS

LEMMA AcceptedIsNat ==
    ASSUME WorkerOK PROVE accepted \in Nat /\ \A c \in Conns : c \in Nat
BY Constants DEF WorkerOK, Conns

LEMMA LookedIsFinite == ASSUME LookedOK, NEW c \in Conns PROVE Len(looked[c]) \in Nat
BY DEF LookedOK

LEMMA DispatchProgress ==
    ASSUME WorkerOK, GameOK, ProgressOK, pc = "look_up",
           NEW found \in BOOLEAN, Dispatch(found),
           UNCHANGED <<sock, accepted, read, sent>>
    PROVE  ProgressOK'
<1> DEFINE k == Len(looked[sock]) + 1
           entry == [packet |-> sent[sock][k], found |-> found]
<1>1. sock \in Conns /\ sock = accepted /\ sock # NoSocket
  BY SockIsConn DEF WorkerOK
<1>2. /\ Len(looked[sock]) \in Nat /\ k \in Nat \ {0}
      /\ read[sock] = 2 * k /\ sent[sock][k].form = "good"
  BY <1>1, LookedIsFinite DEF ProgressOK, Position
<1>3. k <= Len(sent[sock]) /\ sent[sock] \in Seq(Packets)
  BY <1>1, <1>2 DEF GameOK
<1>4. Current = sent[sock][k] /\ Current \in Packets
  <2>1. read[sock] = 2 * Len(looked[sock]) + 2
    BY <1>2
  <2>2. (read[sock] + 1) \div 2 = k
    BY <1>2, <2>1, Halves
  <2>3. sent[sock][k] \in Packets
    BY <1>2, <1>3
  <2> QED
    BY <2>2, <2>3 DEF Current, PacketOf
<1>5. looked' = [looked EXCEPT ![sock] = Append(@, entry)] /\ pc' = "header"
  BY <1>4 DEF Dispatch
<1>6. /\ looked'[sock] = Append(looked[sock], entry)
      /\ \A c \in Conns : c # sock => looked'[c] = looked[c]
      /\ looked' \in [Conns -> Seq(Entries)]
  <2>1. entry \in Entries
    BY <1>4 DEF Entries
  <2>2. Append(looked[sock], entry) \in Seq(Entries)
    BY <1>1, <2>1 DEF ProgressOK, LookedOK
  <2>. HIDE DEF entry
  <2> QED
    BY <1>1, <1>5, <2>2 DEF ProgressOK, LookedOK
<1>7. LookedOK'
  BY <1>1, <1>6, AcceptedIsNat DEF ProgressOK, LookedOK
<1>8. Position(pc, sock)'
  BY <1>1, <1>2, <1>5, <1>6 DEF Position, ProgressOK, LookedOK
<1>9. DispatchInOrder'
  <2> SUFFICES ASSUME NEW c \in Conns, NEW i \in 1 .. Len(looked'[c])
               PROVE  /\ i <= Len(sent[c])
                      /\ looked'[c][i].packet = sent[c][i]
                      /\ \A j \in 1 .. i : sent[c][j].form = "good"
    BY DEF DispatchInOrder
  <2>1. CASE c # sock
    BY <1>6, <2>1 DEF ProgressOK, DispatchInOrder
  <2>2. CASE c = sock /\ i < k
    <3>1. i \in 1 .. Len(looked[c]) /\ looked'[c][i] = looked[c][i]
      <4>1. /\ Len(looked'[sock]) = k /\ i \in 1 .. k /\ i \in Int
            /\ looked[sock] \in Seq(Entries)
        BY <1>1, <1>2, <1>6, <2>2 DEF ProgressOK, LookedOK
      <4>2. i \in 1 .. Len(looked[sock])
        BY <1>2, <2>2, <4>1
      <4> HIDE DEF entry
      <4> QED
        BY <1>6, <2>2, <4>1, <4>2
    <3> QED
      BY <3>1 DEF ProgressOK, DispatchInOrder
  <2>3. CASE c = sock /\ i = k
    <3>1. \A j \in 1 .. k - 1 : sent[c][j].form = "good"
      BY <1>1, <1>2, <2>3 DEF ProgressOK, DispatchInOrder, LookedOK
    <3> QED
      BY <1>1, <1>2, <1>3, <1>6, <2>3, <3>1 DEF ProgressOK, LookedOK
  <2> QED
    BY <1>1, <1>2, <1>6, <2>1, <2>2, <2>3 DEF ProgressOK, LookedOK
<1> QED
  BY <1>7, <1>8, <1>9 DEF ProgressOK

LEMMA ReadProgress ==
    ASSUME WorkerOK, GameOK, ProgressOK, ReadHeader \/ ReadPayload
    PROVE  ProgressOK'
<1> DEFINE k == Len(looked[sock])
<1>1. /\ sock \in Conns /\ sock = accepted /\ sock # NoSocket
      /\ UNCHANGED <<sock, accepted, looked, sent>>
  BY SockIsConn DEF WorkerOK, ReadHeader, ReadPayload, ReadHalf, NotWorker, gameVars
<1>2. k \in Nat
  BY <1>1, LookedIsFinite DEF ProgressOK
<1>3. read' = [read EXCEPT ![sock] = read[sock] + 1] /\ read'[sock] = read[sock] + 1
  BY <1>1 DEF ReadHeader, ReadPayload, ReadHalf, GameOK
<1>4. LookedOK'
  BY <1>1, <1>3, AcceptedIsNat DEF ProgressOK, LookedOK, GameOK
<1>5. DispatchInOrder'
  BY <1>1 DEF ProgressOK, DispatchInOrder
<1>6. CASE ReadHeader
  <2>1. read'[sock] = 2 * k + 1
    BY <1>1, <1>3, <1>6 DEF ReadHeader, ProgressOK, Position
  <2>2. PacketOf(sock, read'[sock]) = sent[sock][k + 1]
    BY <1>2, <2>1, Halves DEF PacketOf
  <2>3. Position(pc, sock)'
    BY <1>1, <1>2, <1>6, <2>1, <2>2 DEF ReadHeader, Position
  <2> QED
    BY <1>4, <1>5, <2>3 DEF ProgressOK
<1>7. CASE ReadPayload
  <2>1. read'[sock] = 2 * k + 2 /\ sent[sock][k + 1].form # "incompatible"
    BY <1>1, <1>2, <1>3, <1>7 DEF ReadPayload, ProgressOK, Position
  <2>2. PacketOf(sock, read'[sock]) = sent[sock][k + 1]
    BY <1>2, <2>1, Halves DEF PacketOf
  <2>3. sent[sock][k + 1] \in Packets
    <3>1. k + 1 <= Len(sent[sock])
      <4>1. read[sock] = 2 * k + 1 /\ read[sock] < arrived[sock]
        BY <1>1, <1>7 DEF ReadPayload, ReadHalf, ProgressOK, Position
      <4> QED
        BY <1>1, <1>2, <4>1 DEF GameOK
    <3> QED
      BY <1>1, <1>2, <3>1 DEF GameOK
  <2>4. sent[sock][k + 1].form # "garbled" => sent[sock][k + 1].form = "good"
    BY <2>1, <2>3 DEF Packets, Forms
  <2>5. Position(pc, sock)'
    BY <1>1, <1>2, <1>7, <2>1, <2>2, <2>4 DEF ReadPayload, Position
  <2> QED
    BY <1>4, <1>5, <2>5 DEF ProgressOK
<1> QED
  BY <1>6, <1>7

LEMMA ArriveProgress ==
    ASSUME WorkerOK, GameOK, ProgressOK, NEW c \in Conns, Arrive(c)
    PROVE  ProgressOK'
<1>1. UNCHANGED <<sock, accepted, pc, read, looked>>
  BY DEF Arrive, NotGame, workerVars
<1>2. \A d \in Conns : /\ Len(sent[d]) \in Nat /\ Len(sent'[d]) >= Len(sent[d])
                       /\ Len(sent'[d]) \in Nat
                       /\ \A i \in 1 .. Len(sent[d]) : sent'[d][i] = sent[d][i]
  <2>1. CASE \E packet \in Packets : sent' = [sent EXCEPT ![c] = Append(@, packet)]
    BY <2>1 DEF GameOK
  <2>2. CASE sent' = sent
    BY <2>2 DEF GameOK
  <2> QED
    BY <2>1, <2>2 DEF Arrive
<1>3. LookedOK'
  BY <1>1 DEF ProgressOK, LookedOK
<1>4. DispatchInOrder'
  <2> SUFFICES ASSUME NEW d \in Conns, NEW i \in 1 .. Len(looked[d])
               PROVE  /\ i <= Len(sent'[d])
                      /\ looked[d][i].packet = sent'[d][i]
                      /\ \A j \in 1 .. i : sent'[d][j].form = "good"
    BY <1>1 DEF DispatchInOrder
  <2>1. /\ i <= Len(sent[d]) /\ looked[d][i].packet = sent[d][i]
        /\ \A j \in 1 .. i : sent[d][j].form = "good"
    BY DEF ProgressOK, DispatchInOrder
  <2>2. i \in Nat /\ i >= 1
    BY LookedIsFinite DEF ProgressOK
  <2> QED
    BY <1>2, <2>1, <2>2
<1>5. ASSUME sock # NoSocket PROVE Position(pc, sock)'
  <2>1. sock \in Conns /\ Len(looked[sock]) \in Nat
    BY <1>5, SockIsConn, LookedIsFinite DEF ProgressOK
  <2>2. pc \in {"payload", "look_up"} => Len(looked[sock]) + 1 <= Len(sent[sock])
    <3>1. read[sock] <= 2 * Len(sent[sock])
      BY <2>1 DEF GameOK
    <3> QED
      BY <1>2, <1>5, <2>1, <3>1 DEF ProgressOK, Position
  <2>3. pc \in {"payload", "look_up"} =>
            sent'[sock][Len(looked[sock]) + 1] = sent[sock][Len(looked[sock]) + 1]
    BY <1>2, <2>1, <2>2
  <2> QED
    BY <1>1, <1>5, <2>3 DEF ProgressOK, Position
<1> QED
  BY <1>1, <1>3, <1>4, <1>5 DEF ProgressOK

LEMMA ProgressStep ==
    ASSUME WorkerOK, GameOK, ProgressOK, [Next]_vars PROVE ProgressOK'
<1>1. CASE Accept
  <2>1. /\ accepted' = accepted + 1 /\ accepted' \in Conns /\ sock' = accepted'
        /\ UNCHANGED <<read, looked, sent>> /\ pc' = "accepted"
    BY <1>1, Constants DEF Accept, WorkerOK, Conns, NotWorker, gameVars
  <2>2. read[accepted'] = 0 /\ Len(looked[accepted']) = 0
    BY <2>1 DEF ProgressOK, LookedOK, Conns, WorkerOK
  <2>3. LookedOK'
    BY <2>1, AcceptedIsNat DEF ProgressOK, LookedOK
  <2> QED
    BY <2>1, <2>2, <2>3 DEF ProgressOK, Position, DispatchInOrder
<1>2. CASE AcceptThrows
  <2>1. /\ accepted' = accepted + 1 /\ sock' = NoSocket
        /\ UNCHANGED <<read, looked, sent>>
    BY <1>2 DEF AcceptThrows, WorkerOK, NotWorker, gameVars
  <2>2. LookedOK'
    BY <2>1, AcceptedIsNat DEF ProgressOK, LookedOK
  <2> QED
    BY <2>1, <2>2 DEF ProgressOK, DispatchInOrder
<1>3. ASSUME UNCHANGED <<accepted, read, looked, sent>>,
             sock' # NoSocket => sock' = sock /\ Position(pc', sock)
      PROVE  ProgressOK'
  BY <1>3 DEF ProgressOK, LookedOK, Position, DispatchInOrder
<1>4. CASE Up
  <2>1. sock \in Conns /\ sock # NoSocket
    BY <1>4, SockIsConn DEF Up, WorkerOK
  <2>2. Position(pc', sock)
    BY <1>4, <2>1 DEF Up, Position, ProgressOK
  <2> QED
    BY <1>3, <1>4, <2>2 DEF Up, NotWorker, gameVars
<1>5. CASE ReadThrows \/ Down \/ Close \/ Listen
  <2>1. pc' \in {"caught", "close", "accept"} /\ UNCHANGED <<accepted, read, looked, sent>>
    BY <1>5 DEF ReadThrows, Down, Close, Listen, NotWorker, gameVars
  <2>2. sock' \in {sock, NoSocket} /\ Position(pc', sock)
    BY <1>5, <2>1 DEF ReadThrows, Down, Close, Listen, Position
  <2> QED
    BY <1>3, <2>1, <2>2
<1>6. CASE ReadHeader \/ ReadPayload
  BY <1>6, ReadProgress
<1>7. CASE LookUp
  <2>1. /\ pc = "look_up" /\ UNCHANGED <<sock, accepted, read, sent>>
        /\ \E found \in BOOLEAN : Dispatch(found)
    <3>1. (Current.endpoint \in bindings) \in BOOLEAN
      OBVIOUS
    <3>2. /\ pc = "look_up" /\ UNCHANGED <<sock, accepted, read, sent>>
          /\ Dispatch(Current.endpoint \in bindings)
      BY <1>7, Zenon DEF LookUp, NotWorker, gameVars
    <3> QED
      BY <3>1, <3>2, Zenon
  <2> QED
    BY <2>1, DispatchProgress
<1>8. CASE LookUpDuringBind
  <2>1. /\ pc = "look_up" /\ UNCHANGED <<sock, accepted, read, sent>>
        /\ \/ \E found \in BOOLEAN : Dispatch(found)
           \/ pc' = "caught" /\ UNCHANGED looked
    BY <1>8 DEF LookUpDuringBind, NotWorker, gameVars
  <2>2. CASE \E found \in BOOLEAN : Dispatch(found)
    BY <2>1, <2>2, DispatchProgress
  <2>3. CASE pc' = "caught" /\ UNCHANGED looked
    <3>1. Position(pc', sock)
      BY <2>3 DEF Position
    <3> QED
      BY <1>3, <2>1, <2>3, <3>1
  <2> QED
    BY <2>1, <2>2, <2>3
<1>9. ASSUME NEW c \in Conns, Arrive(c) PROVE ProgressOK'
  BY <1>9, ArriveProgress
<1>10. CASE UNCHANGED <<sock, accepted, pc, read, looked, sent>>
  BY <1>3, <1>10 DEF ProgressOK
<1> QED
  BY <1>1, <1>2, <1>4, <1>5, <1>6, <1>7, <1>8, <1>9, <1>10
  DEF Next, Program, Worker, Send, Game, Bind, BindReturns, SendMessage, Enter, Sending,
      SendFirst, SendRest, SendThrows, Write, GameConnects, GameLeaves, Reset, NotGame,
      workerVars, gameVars, vars

-----------------------------------------------------------------------------
(* The theorems on the worker.                                                *)

TypeInv == WorkerOK /\ StatusOK /\ BindOK /\ GameOK /\ SenderOK

LEMMA InitTypes == Init => TypeInv /\ ProgressOK
<1> SUFFICES ASSUME Init PROVE TypeInv /\ ProgressOK
  OBVIOUS
<1>1. WorkerOK /\ StatusOK /\ BindOK
  <2>1. WorkerOK
    BY Constants DEF Init, WorkerOK, NoSocket
  <2>2. StatusOK
    <3>1. connected \in BOOLEAN /\ told = <<>>
      BY Zenon DEF Init
    <3>2. told \in Seq(BOOLEAN)
      BY <3>1
    <3> QED
      BY <3>1, <3>2, Zenon DEF StatusOK
  <2>3. BindOK
    BY DEF Init, BindOK
  <2> QED
    BY <2>1, <2>2, <2>3
<1>2. GameOK
  BY DEF Init, GameOK, GameStates, Made
<1>3. SenderOK
  BY Constants DEF Init, SenderOK
<1>4. ProgressOK
  BY DEF Init, ProgressOK, LookedOK, DispatchInOrder
<1> QED
  BY <1>1, <1>2, <1>3, <1>4 DEF TypeInv

LEMMA StepTypes == TypeInv /\ ProgressOK /\ [Next]_vars => (TypeInv /\ ProgressOK)'
BY WorkerStep, StatusStep, BindStep, GameStep, SenderStep, ProgressStep DEF TypeInv

LEMMA TypesHold == Spec => [](TypeInv /\ ProgressOK)
BY InitTypes, StepTypes, PTL DEF Spec

\* The variables keep their types, the worker keeps only its last connection
\* open, and nothing is read that has not arrived.
THEOREM TypeCorrect == Spec => []TypeOK
<1>1. TypeInv /\ ProgressOK => TypeOK
  BY DEF TypeInv, WorkerOK, StatusOK, BindOK, GameOK, SenderOK, ProgressOK, LookedOK, Entries,
         TypeOK
<1> QED
  BY <1>1, TypesHold, PTL

\* The messages of each connection are dispatched in the order in which they
\* were written, each once, and none behind one that was refused.
THEOREM DispatchCorrect == Spec => []DispatchInOrder
<1>1. TypeInv /\ ProgressOK => DispatchInOrder
  BY DEF ProgressOK
<1> QED
  BY <1>1, TypesHold, PTL

\* Only where the worker has caught an exception is it open what was told last.
StatusInv == StatusExact /\ (pc \in {"new", "accept", "accepted", "close"} => ~connected)

LEMMA TurnsAppend ==
    ASSUME NEW s \in Seq(BOOLEAN), \A i \in 1 .. Len(s) : s[i] = (i % 2 = 1),
           NEW value \in BOOLEAN, value # (Len(s) % 2 = 1)
    PROVE  LET t == Append(s, value)
           IN  /\ \A i \in 1 .. Len(t) : t[i] = (i % 2 = 1)
               /\ value = (Len(t) % 2 = 1)
<1> DEFINE n == Len(s)
<1>1. n \in Nat /\ Len(Append(s, value)) = n + 1
  OBVIOUS
<1>2. value = ((n + 1) % 2 = 1)
  BY <1>1
<1>3. ASSUME NEW i \in 1 .. n + 1 PROVE Append(s, value)[i] = (i % 2 = 1)
  <2>1. CASE i = n + 1
    BY <1>1, <1>2, <2>1
  <2>2. CASE i # n + 1
    <3>1. i \in 1 .. n
      BY <1>1, <2>2
    <3> QED
      BY <1>1, <3>1
  <2> QED
    BY <2>1, <2>2
<1> QED
  BY <1>1, <1>2, <1>3

LEMMA TurnsKept ==
    ASSUME StatusOK, StatusInv, NEW value \in BOOLEAN, SetConnected(value)
    PROVE  /\ \A i \in 1 .. Len(told') : told'[i] = (i % 2 = 1)
           /\ connected' = (Len(told') % 2 = 1)
           /\ connected' = value
<1>1. CASE value = connected
  BY <1>1 DEF SetConnected, StatusInv, StatusExact
<1>2. CASE value # connected
  <2>1. told' = Append(told, value) /\ connected' = value
    BY <1>2 DEF SetConnected
  <2>2. value # (Len(told) % 2 = 1)
    BY <1>2 DEF StatusInv, StatusExact, StatusOK
  <2> QED
    BY <2>1, <2>2, TurnsAppend DEF StatusInv, StatusExact, StatusOK
<1> QED
  BY <1>1, <1>2

LEMMA StatusKept == ASSUME StatusOK, StatusInv, [Next]_vars PROVE StatusInv'
<1>1. CASE Up
  <2>1. SetConnected(TRUE) /\ pc' \in {"header", "caught"}
    BY <1>1 DEF Up
  <2> QED
    BY <2>1, TurnsKept DEF StatusInv, StatusExact
<1>2. CASE Down
  <2>1. SetConnected(FALSE) /\ pc' = "close"
    BY <1>2 DEF Down
  <2> QED
    BY <2>1, TurnsKept DEF StatusInv, StatusExact
<1>3. ASSUME UNCHANGED <<connected, told>>,
             \/ pc' \in {pc, "caught"}
             \/ pc \in {"header", "payload", "look_up"} /\ pc' \in {"header", "payload", "look_up"}
             \/ pc \in {"new", "accept", "accepted", "close"} /\ pc' \in {"accept", "accepted"}
      PROVE  StatusInv'
  BY <1>3 DEF StatusInv, StatusExact
<1>4. CASE Accept \/ AcceptThrows \/ Close \/ Listen
  BY <1>3, <1>4 DEF Accept, AcceptThrows, Close, Listen
<1>5. CASE ReadHeader \/ ReadPayload
  BY <1>3, <1>5 DEF ReadHeader, ReadPayload, ReadHalf
<1>6. CASE ReadThrows \/ LookUp \/ LookUpDuringBind
  BY <1>3, <1>6 DEF ReadThrows, LookUp, LookUpDuringBind, Dispatch
<1>7. CASE UNCHANGED <<connected, told, pc>>
  BY <1>3, <1>7
<1> QED
  BY <1>1, <1>2, <1>4, <1>5, <1>6, <1>7
  DEF Next, Program, Worker, Send, Game, Bind, BindReturns, SendMessage, Enter, Sending,
      SendFirst, SendRest, SendThrows, Write, GameConnects, Arrive, GameLeaves, Reset, NotGame,
      workerVars, vars

\* OnStatusChanged tells UP and DOWN by turns, and the last one told is the truth
\* whenever a message is dispatched and whenever the worker waits to accept.
THEOREM StatusCorrect == Spec => []StatusExact
<1>1. Init => StatusInv
  <2> SUFFICES ASSUME Init PROVE StatusInv
    OBVIOUS
  <2>1. told = <<>> /\ connected = FALSE /\ pc = "new"
    BY Zenon DEF Init
  <2>2. Len(told) = 0 /\ ~(Len(told) % 2 = 1)
    BY <2>1
  <2>3. connected = (Len(told) % 2 = 1)
    BY <2>1, <2>2
  <2>4. \A i \in 1 .. Len(told) : told[i] = (i % 2 = 1)
    BY <2>2
  <2>5. ~connected
    BY <2>1
  <2> QED
    BY <2>1, <2>3, <2>4, <2>5 DEF StatusInv, StatusExact
<1>2. TypeInv /\ StatusInv /\ [Next]_vars => StatusInv'
  BY StatusKept DEF TypeInv
<1>3. StatusInv => StatusExact
  BY DEF StatusInv
<1> QED
  BY <1>1, <1>2, <1>3, TypesHold, PTL DEF Spec

-----------------------------------------------------------------------------
(* What becomes of a healthy connection.                                      *)

\* A connection that is not to be given up.
Healthy(c) == game[c] = "up" /\ read[c] > 0 /\ PacketOf(c, read[c]).form = "good"

HandlersOK ==
    \A c \in Conns : \A i \in 1 .. Len(looked[c]) :
        looked[c][i].found = (looked[c][i].packet.endpoint \in bindings)

KeptInv ==
    /\ pc = "new" => accepted = 0
    /\ ~late =>
        /\ pc # "new" => binding = NoEndpoint
        /\ HandlersOK
        /\ pc \in {"caught", "close"} /\ sock # NoSocket => ~Healthy(sock)
        /\ \A c \in closed : ~Healthy(c)

LEMMA ClosedAreConns == ASSUME WorkerOK PROVE closed \subseteq Conns
BY Constants DEF WorkerOK, Conns

\* Only by reading the worker can make a connection healthy.
LEMMA HealthyOnlyByReading ==
    ASSUME GameOK, NEW c \in Conns, Program \/ Send \/ Game \/ UNCHANGED vars, Healthy(c)'
    PROVE  Healthy(c)
<1>1. ASSUME UNCHANGED <<read, sent>>, game'[c] = "up" => game[c] = "up"
      PROVE  Healthy(c)
  BY <1>1 DEF Healthy, PacketOf
<1>2. CASE Program \/ UNCHANGED vars
  BY <1>1, <1>2 DEF Program, Bind, BindReturns, Listen, workerVars, gameVars, vars
<1>3. CASE Send
  <2>1. UNCHANGED <<read, sent>>
    BY <1>3 DEF Send, SendMessage, Enter, Sending, SendFirst, SendRest, SendThrows, Write,
                workerVars, gameVars
  <2>2. \/ game' = game
        \/ \E d : game[d] = "vanished" /\ game' = [game EXCEPT ![d] = "unacked"]
    BY <1>3 DEF Send, SendMessage, Enter, Sending, SendFirst, SendRest, SendThrows, Write
  <2>3. game'[c] = "up" => game[c] = "up"
    BY <2>2 DEF GameOK
  <2> QED
    BY <1>1, <2>1, <2>3
<1>4. ASSUME NEW d \in Conns, GameConnects(d) PROVE Healthy(c)
  <2>1. UNCHANGED <<read, sent>> /\ ~Made(d) /\ game' = [game EXCEPT ![d] = "up"]
    BY <1>4 DEF GameConnects, NotGame, workerVars, gameVars
  <2>2. read[d] = 0
    BY <2>1 DEF GameOK
  <2>3. c # d
    BY <2>1, <2>2 DEF Healthy
  <2> QED
    BY <1>1, <2>1, <2>3 DEF GameOK
<1>5. ASSUME NEW d \in Conns, Arrive(d) PROVE Healthy(c)
  <2>1. /\ UNCHANGED <<game, read>>
        /\ \/ \E packet \in Packets : sent' = [sent EXCEPT ![d] = Append(@, packet)]
           \/ sent' = sent
    BY <1>5 DEF Arrive, NotGame, workerVars
  <2> DEFINE k == (read[c] + 1) \div 2
  <2>2. k \in 1 .. Len(sent[c])
    <3>1. read[c] \in Nat /\ Len(sent[c]) \in Nat /\ read[c] <= 2 * Len(sent[c]) /\ read[c] > 0
      BY <2>1 DEF GameOK, Healthy
    <3> QED
      BY <3>1
  <2>3. sent'[c][k] = sent[c][k]
    <3>1. ASSUME NEW packet \in Packets, sent' = [sent EXCEPT ![d] = Append(@, packet)]
          PROVE  sent'[c][k] = sent[c][k]
      <4> HIDE DEF k
      <4> QED
        BY <2>2, <3>1 DEF GameOK
    <3> QED
      BY <2>1, <3>1
  <2> QED
    BY <2>1, <2>3 DEF Healthy, PacketOf
<1>6. ASSUME NEW d \in Conns, GameLeaves(d) \/ Reset(d) PROVE Healthy(c)
  BY <1>1, <1>6 DEF GameLeaves, Reset, NotGame, workerVars, gameVars, GameOK
<1> QED
  BY <1>2, <1>3, <1>4, <1>5, <1>6 DEF Game

LEMMA LookUpKept ==
    ASSUME WorkerOK, GameOK, ProgressOK, KeptInv, LookUp PROVE KeptInv'
<1>1. /\ pc = "look_up" /\ pc' = "header" /\ Dispatch(Current.endpoint \in bindings)
      /\ UNCHANGED <<late, binding, bindings, closed, game, read, sent, sock, accepted>>
  BY Zenon DEF LookUp, Dispatch, NotWorker, bindVars, gameVars
<1>2. sock \in Conns
  BY <1>1, SockIsConn DEF WorkerOK
<1>3. ASSUME ~late PROVE HandlersOK'
  <2> DEFINE entry == [packet |-> Current, found |-> Current.endpoint \in bindings]
  <2>1. looked' = [looked EXCEPT ![sock] = Append(@, entry)]
    BY <1>1 DEF Dispatch
  <2>2. entry.found = (entry.packet.endpoint \in bindings)
    OBVIOUS
  <2> HIDE DEF entry
  <2> SUFFICES ASSUME NEW c \in Conns, NEW i \in 1 .. Len(looked'[c])
               PROVE  looked'[c][i].found = (looked'[c][i].packet.endpoint \in bindings)
    BY <1>1 DEF HandlersOK
  <2>3. \/ i \in 1 .. Len(looked[c]) /\ looked'[c][i] = looked[c][i]
        \/ looked'[c][i] = entry
    BY <1>2, <2>1 DEF ProgressOK, LookedOK
  <2> QED
    BY <1>3, <2>2, <2>3 DEF KeptInv, HandlersOK
<1>4. \A c : Healthy(c)' = Healthy(c)
  BY <1>1 DEF Healthy, PacketOf
<1> QED
  BY <1>1, <1>3, <1>4 DEF KeptInv

LEMMA WorkerKept ==
    ASSUME WorkerOK, GameOK, ProgressOK, KeptInv, Worker PROVE KeptInv'
<1> USE DEF KeptInv
<1>0. UNCHANGED <<late, binding, bindings, game, sent>>
  BY DEF Worker, Accept, AcceptThrows, Up, ReadHeader, ReadPayload, ReadHalf, ReadThrows,
         LookUp, LookUpDuringBind, Down, Close, NotWorker, bindVars, gameVars
<1>1. ASSUME UNCHANGED <<read, looked>> PROVE HandlersOK' = HandlersOK /\ \A c : Healthy(c)' = Healthy(c)
  BY <1>0, <1>1 DEF HandlersOK, Healthy, PacketOf
<1>2. CASE Accept
  BY <1>0, <1>1, <1>2 DEF Accept
<1>3. CASE AcceptThrows
  <2>1. ~Healthy(accepted + 1) /\ sock = NoSocket
    BY <1>3 DEF AcceptThrows, Healthy, WorkerOK
  <2> QED
    BY <1>0, <1>1, <1>3, <2>1 DEF AcceptThrows
<1>4. CASE Up
  <2>1. ~Healthy(sock)
    BY <1>4, SockIsConn DEF Up, ProgressOK, Position, Healthy, WorkerOK
  <2> QED
    BY <1>0, <1>1, <1>4, <2>1 DEF Up
<1>5. CASE ReadHeader \/ ReadPayload
  <2>1. /\ sock \in Conns /\ sock \notin closed
        /\ read' = [read EXCEPT ![sock] = @ + 1]
        /\ UNCHANGED <<sock, closed, accepted, looked>>
        /\ pc # "new" /\ pc' # "new" /\ pc' # "close"
        /\ pc' = "caught" => PacketOf(sock, read'[sock]).form # "good"
    BY <1>5, SockIsConn DEF ReadHeader, ReadPayload, ReadHalf, WorkerOK
  <2>2. pc' = "caught" => ~Healthy(sock)'
    BY <1>0, <2>1 DEF Healthy, PacketOf
  <2>3. \A c \in closed : Healthy(c)' = Healthy(c)
    BY <1>0, <2>1, ClosedAreConns DEF Healthy, PacketOf, GameOK
  <2>4. HandlersOK' = HandlersOK
    BY <1>0, <2>1 DEF HandlersOK
  <2> QED
    BY <1>0, <2>1, <2>2, <2>3, <2>4
<1>6. CASE ReadThrows
  <2>1. ~Healthy(sock)
    BY <1>6 DEF ReadThrows, Healthy
  <2> QED
    BY <1>0, <1>1, <1>6, <2>1 DEF ReadThrows
<1>7. CASE LookUp
  BY <1>7, LookUpKept
<1>8. CASE LookUpDuringBind
  <2>1. late /\ pc' # "new"
    BY <1>8 DEF LookUpDuringBind, Dispatch
  <2> QED
    BY <1>0, <2>1
<1>9. CASE Down \/ Close
  <2>1. /\ pc \in {"caught", "close"} /\ pc' # "new" /\ UNCHANGED <<read, looked, accepted>>
        /\ sock' \in {sock, NoSocket}
        /\ closed' \subseteq closed \cup ({sock} \ {NoSocket})
        /\ pc' \in {"close", "accept"}
    BY <1>9 DEF Down, Close
  <2> QED
    BY <1>0, <1>1, <2>1
<1> QED
  BY <1>2, <1>3, <1>4, <1>5, <1>6, <1>7, <1>8, <1>9 DEF Worker

LEMMA KeptStep ==
    ASSUME WorkerOK, GameOK, ProgressOK, KeptInv, [Next]_vars PROVE KeptInv'
<1> USE DEF KeptInv
<1>1. CASE Worker
  BY <1>1, WorkerKept
<1>2. CASE Program \/ Send \/ Game \/ UNCHANGED vars
  <2>1. UNCHANGED <<sock, closed, accepted, looked>>
    BY <1>2 DEF Program, Bind, BindReturns, Listen, Send, SendMessage, Enter, Sending, SendFirst,
                SendRest, SendThrows, Write, Game, GameConnects, Arrive, GameLeaves, Reset,
                NotGame, workerVars, vars
  <2>2. /\ \A c \in closed : Healthy(c)' => Healthy(c)
        /\ sock # NoSocket => (Healthy(sock)' => Healthy(sock))
    <3>1. \A c \in Conns : Healthy(c)' => Healthy(c)
      BY <1>2, HealthyOnlyByReading
    <3> HIDE DEF KeptInv
    <3> QED
      BY <2>1, <3>1, SockIsConn, ClosedAreConns
  <2>3. CASE \E e \in Endpoints : Bind(e)
    <3>1. /\ UNCHANGED <<pc, bindings>>
          /\ late' = (late \/ pc # "new")
      BY <2>3 DEF Bind, workerVars
    <3> QED
      BY <2>1, <2>2, <3>1 DEF HandlersOK
  <2>4. CASE BindReturns
    <3>1. /\ UNCHANGED <<pc, late>> /\ binding # NoEndpoint /\ binding' = NoEndpoint
      BY <2>4 DEF BindReturns, workerVars
    <3>2. pc = "new" => HandlersOK'
      BY <2>1, AcceptedIsNat, Constants DEF ProgressOK, LookedOK, HandlersOK, Conns
    <3> QED
      BY <2>1, <2>2, <3>1, <3>2
  <2>5. CASE Listen
    <3>1. pc = "new" /\ binding = NoEndpoint /\ pc' = "accept" /\ UNCHANGED bindVars
      BY <2>5 DEF Listen
    <3> QED
      BY <2>1, <2>2, <3>1 DEF HandlersOK, bindVars
  <2>6. CASE Send \/ Game \/ UNCHANGED vars
    <3>1. UNCHANGED <<pc, late, binding, bindings>>
      BY <2>6 DEF Send, SendMessage, Enter, Sending, SendFirst, SendRest, SendThrows, Write,
                  Game, GameConnects, Arrive, GameLeaves, Reset, NotGame, workerVars, bindVars,
                  vars
    <3> QED
      BY <2>1, <2>2, <3>1 DEF HandlersOK
  <2> QED
    BY <1>2, <2>3, <2>4, <2>5, <2>6 DEF Program
<1> QED
  BY <1>1, <1>2 DEF Next

\* When all handlers are bound before Listen, each message finds the handler that
\* is bound for it, and no connection is given up that is up and of which only
\* good messages have been read.
THEOREM HealthyCorrect == Spec => []HealthyKept
<1>1. Init => KeptInv
  BY Constants DEF Init, KeptInv, HandlersOK
<1>2. TypeInv /\ ProgressOK /\ KeptInv /\ [Next]_vars => KeptInv'
  BY KeptStep DEF TypeInv
<1>3. KeptInv => HealthyKept
  BY DEF KeptInv, HandlersOK, Healthy, HealthyKept
<1> QED
  BY <1>1, <1>2, <1>3, TypesHold, PTL DEF Spec

-----------------------------------------------------------------------------
(* The packets of the senders.                                                *)

Exclusive ==
    \A t, u \in Senders : t # u /\ Holds(t) /\ Holds(u) => lock[t] # lock[u]

\* The thread in the middle of a packet of connection c, under its lock.
Writing(t, c) == spc[t] = "sending" /\ lock[t] = c /\ target[t] = c

Broken(c) == c \in closed \/ game[c] = "reset"

\* A packet begun is one that is being written, or there will be no other.
Begun(c) ==
    LET s == outbound[c] IN
    /\ Len(s) > 0 /\ s[Len(s)].part = 1
          => Broken(c) \/ \E t \in Senders : Writing(t, c) /\ s[Len(s)].thread = t
    /\ \A t \in Senders :
          Writing(t, c) => Len(s) > 0 /\ s[Len(s)].part = 1 /\ s[Len(s)].thread = t

PacketsInv ==
    Exclusive /\ \A c \in Conns : OwnLock(c) => Whole(outbound[c]) /\ Begun(c)

LEMMA BrokenForGood ==
    ASSUME TypeInv, [Next]_vars, NEW c \in Conns, Broken(c) PROVE Broken(c)'
<1>1. closed \subseteq closed'
  BY DEF Next, Program, Worker, Send, Game, Bind, BindReturns, Listen, Accept, AcceptThrows, Up,
         Down, ReadHeader, ReadPayload, ReadHalf, ReadThrows, LookUp, LookUpDuringBind, Dispatch,
         Close, SendMessage, Enter, Sending, SendFirst, SendRest, SendThrows, Write,
         GameConnects, Arrive, GameLeaves, Reset, NotGame, workerVars, vars
<1>2. ASSUME game[c] = "reset" PROVE game'[c] = "reset"
  <2>1. ASSUME NEW d, NEW state, game' = [game EXCEPT ![d] = state], game[d] # "reset"
        PROVE  game'[c] = "reset"
    BY <1>2, <2>1 DEF TypeInv, GameOK
  <2>2. CASE Program \/ Worker \/ UNCHANGED vars
    BY <1>2, <2>2
    DEF Program, Worker, Bind, BindReturns, Listen, Accept, AcceptThrows, Up, Down, ReadHeader,
        ReadPayload, ReadHalf, ReadThrows, LookUp, LookUpDuringBind, Close, NotWorker, vars
  <2>3. CASE Send
    <3>1. \/ game' = game
          \/ \E d : game[d] = "vanished" /\ game' = [game EXCEPT ![d] = "unacked"]
      BY <2>3 DEF Send, SendMessage, Enter, Sending, SendFirst, SendRest, SendThrows, Write
    <3> QED
      BY <1>2, <2>1, <3>1
  <2>4. CASE Game
    <3>1. \/ game' = game
          \/ \E d, state : game[d] # "reset" /\ game' = [game EXCEPT ![d] = state]
      BY <2>4 DEF Game, GameConnects, Arrive, GameLeaves, Reset, Made
    <3> QED
      BY <1>2, <2>1, <3>1
  <2> QED
    BY <2>2, <2>3, <2>4 DEF Next
<1> QED
  BY <1>1, <1>2 DEF Broken

\* One more part on connection c, under its own lock.
LEMMA WholeAppend ==
    ASSUME NEW s \in Seq(Chunks), Whole(s), NEW chunk \in Chunks,
           Len(s) > 0 => (chunk.part = 2 <=> s[Len(s)].part = 1),
           chunk.part = 2 => Len(s) > 0 /\ chunk.thread = s[Len(s)].thread
    PROVE  Whole(Append(s, chunk))
<1> SUFFICES ASSUME NEW i \in 2 .. Len(s) + 1
             PROVE  LET r == Append(s, chunk)
                    IN  /\ r[i].part = 2 <=> r[i - 1].part = 1
                        /\ r[i].part = 2 => r[i].thread = r[i - 1].thread
  BY DEF Whole
<1>1. CASE i = Len(s) + 1
  <2>1. Append(s, chunk)[i] = chunk /\ Append(s, chunk)[i - 1] = s[Len(s)] /\ Len(s) > 0
    BY <1>1
  <2> QED
    BY <2>1
<1>2. CASE i # Len(s) + 1
  <2>1. i \in 2 .. Len(s) /\ Append(s, chunk)[i] = s[i] /\ Append(s, chunk)[i - 1] = s[i - 1]
    BY <1>2
  <2> QED
    BY <2>1 DEF Whole
<1> QED
  BY <1>1, <1>2

LEMMA WriteKept ==
    ASSUME TypeInv, PacketsInv, [Next]_vars,
           NEW t \in Senders, SendFirst(t) \/ SendRest(t)
    PROVE  PacketsInv'
<1>0. PICK c \in Conns : /\ c = IF spc[t] = "send" THEN sock ELSE target[t]
                        /\ Usable(c)
  <2>1. SendFirst(t) => spc[t] = "send" /\ sock \in Conns /\ Usable(sock)
    BY SockIsConn DEF SendFirst, Usable, TypeInv
  <2>2. SendRest(t) => spc[t] = "sending" /\ target[t] \in Conns /\ Usable(target[t])
    BY DEF SendRest, TypeInv, SenderOK
  <2> QED
    BY <2>1, <2>2
<1> DEFINE part == IF spc[t] = "send" THEN 1 ELSE 2
           chunk == [thread |-> t, part |-> part, lock |-> lock[t]]
<1>1. /\ c \notin closed /\ game[c] # "reset"
      /\ Holds(t) /\ lock[t] \in Conns
  BY <1>0 DEF SendFirst, SendRest, Usable, Holds, TypeInv, SenderOK
<1>2. outbound' = [outbound EXCEPT ![c] = Append(@, chunk)] /\ chunk \in Chunks
  BY <1>0, <1>1 DEF SendFirst, SendRest, Write, Chunks
<1>3. /\ outbound[c] \in Seq(Chunks) /\ outbound'[c] = Append(outbound[c], chunk)
      /\ \A d \in Conns : d # c => outbound'[d] = outbound[d]
  BY <1>1, <1>2 DEF TypeInv, SenderOK
<1>4. \A u \in Senders : u # t => /\ spc'[u] = spc[u] /\ lock'[u] = lock[u]
                                  /\ target'[u] = target[u]
  BY DEF SendFirst, SendRest, TypeInv, SenderOK
<1>5. \/ /\ spc[t] = "send" /\ spc'[t] = "sending" /\ lock'[t] = lock[t] /\ target'[t] = c
      \/ /\ spc[t] = "sending" /\ spc'[t] = "idle" /\ target[t] = c
  BY <1>0 DEF SendFirst, SendRest, TypeInv, SenderOK
<1>6. Exclusive'
  BY <1>4, <1>5 DEF PacketsInv, Exclusive, Holds
<1> HIDE DEF part
<1>7. ASSUME NEW d \in Conns, d # c, OwnLock(d)' PROVE Whole(outbound'[d]) /\ Begun(d)'
  <2>1. OwnLock(d) /\ outbound'[d] = outbound[d] /\ Whole(outbound[d]) /\ Begun(d)
    BY <1>3, <1>7 DEF OwnLock, PacketsInv
  <2>2. \A u \in Senders : Writing(u, d)' <=> Writing(u, d)
    BY <1>4, <1>5, <1>7 DEF Writing
  <2>3. Broken(d) => Broken(d)'
    BY BrokenForGood
  <2> QED
    BY <2>1, <2>2, <2>3 DEF Begun
<1>8. ASSUME OwnLock(c)' PROVE Whole(outbound'[c]) /\ Begun(c)'
  <2> DEFINE s == outbound[c]
             n == Len(s)
  <2>1. n \in Nat /\ Len(outbound'[c]) = n + 1 /\ outbound'[c][n + 1] = chunk
    BY <1>3
  <2>2. OwnLock(c) /\ lock[t] = c
    <3>1. \A i \in 1 .. n : outbound'[c][i] = s[i]
      BY <1>3
    <3>2. \A i \in 1 .. n + 1 : outbound'[c][i].lock = c
      BY <1>8, <2>1 DEF OwnLock
    <3> QED
      BY <1>1, <2>1, <3>1, <3>2 DEF OwnLock
  <2>3. Whole(s) /\ Begun(c)
    BY <1>1, <2>2 DEF PacketsInv
  <2>4. \A u \in Senders : u # t => ~Writing(u, c) /\ ~Writing(u, c)'
    BY <1>1, <1>4, <2>2 DEF PacketsInv, Exclusive, Holds, Writing
  <2>5. ~Broken(c)
    BY <1>1 DEF Broken
  <2>6. CASE spc[t] = "send"
    <3>1. chunk.part = 1 /\ chunk.thread = t
      BY <2>6 DEF part
    <3>2. n > 0 => s[n].part # 1
      BY <2>3, <2>4, <2>5, <2>6 DEF Begun, Writing
    <3>3. Whole(outbound'[c])
      BY <1>2, <1>3, <2>3, <3>1, <3>2, WholeAppend
    <3>4. Writing(t, c)'
      BY <1>5, <2>2, <2>6 DEF Writing
    <3>5. Begun(c)'
      BY <2>1, <2>4, <3>1, <3>4 DEF Begun
    <3> QED
      BY <3>3, <3>5
  <2>7. CASE spc[t] = "sending"
    <3>1. chunk.part = 2 /\ chunk.thread = t
      BY <2>7 DEF part
    <3>2. Writing(t, c)
      BY <1>5, <2>2, <2>7 DEF Writing
    <3>3. n > 0 /\ s[n].part = 1 /\ s[n].thread = t
      BY <2>3, <3>2 DEF Begun
    <3>4. Whole(outbound'[c])
      BY <1>2, <1>3, <2>3, <3>1, <3>3, WholeAppend
    <3>5. ~Writing(t, c)'
      BY <1>5, <2>7 DEF Writing
    <3>6. Begun(c)'
      BY <2>1, <2>4, <3>1, <3>5 DEF Begun
    <3> QED
      BY <3>4, <3>6
  <2> QED
    BY <1>5, <2>6, <2>7
<1> QED
  BY <1>6, <1>7, <1>8 DEF PacketsInv

LEMMA PacketsStep == ASSUME TypeInv, PacketsInv, [Next]_vars PROVE PacketsInv'
<1>1. ASSUME UNCHANGED outbound, Exclusive',
             \A c \in Conns, t \in Senders :
                 /\ Writing(t, c)' => Writing(t, c)
                 /\ Writing(t, c) => Writing(t, c)' \/ Broken(c)
      PROVE  PacketsInv'
  <2> SUFFICES ASSUME NEW c \in Conns, OwnLock(c)' PROVE Whole(outbound'[c]) /\ Begun(c)'
    BY <1>1 DEF PacketsInv
  <2>1. OwnLock(c)
    BY <1>1 DEF OwnLock
  <2>2. Whole(outbound[c]) /\ Begun(c)
    BY <2>1 DEF PacketsInv
  <2>3. Broken(c) => Broken(c)'
    BY BrokenForGood
  <2> QED
    BY <1>1, <2>2, <2>3 DEF Begun
<1>2. ASSUME NEW t \in Senders, SendMessage(t) \/ Enter(t) \/ SendThrows(t) PROVE PacketsInv'
  <2>1. /\ UNCHANGED outbound
        /\ \A u \in Senders : u # t => /\ spc'[u] = spc[u] /\ lock'[u] = lock[u]
                                       /\ target'[u] = target[u]
    BY <1>2 DEF SendMessage, Enter, SendThrows, TypeInv, SenderOK
  <2>2. spc'[t] # "sending"
    BY <1>2 DEF SendMessage, Enter, SendThrows, TypeInv, SenderOK
  <2>3. Exclusive'
    <3>1. CASE SendMessage(t) \/ SendThrows(t)
      <4>1. ~Holds(t)'
        BY <3>1 DEF SendMessage, SendThrows, Holds, TypeInv, SenderOK
      <4> QED
        BY <2>1, <4>1 DEF PacketsInv, Exclusive, Holds
    <3>2. CASE Enter(t)
      <4>1. /\ UNCHANGED lock
            /\ \A u \in Senders : Holds(u) => lock[u] # lock[t]
        BY <3>2 DEF Enter
      <4> QED
        BY <2>1, <4>1 DEF PacketsInv, Exclusive, Holds
    <3> QED
      BY <1>2, <3>1, <3>2
  <2>4. ASSUME NEW c \in Conns, Writing(t, c) PROVE Broken(c)
    <3>1. SendThrows(t) /\ ~Usable(target[t]) /\ target[t] = c
      BY <1>2, <2>4 DEF SendMessage, Enter, SendThrows, Writing
    <3> QED
      BY <3>1, Constants DEF Usable, Broken
  <2>5. \A c \in Conns, u \in Senders : u # t => (Writing(u, c)' <=> Writing(u, c))
    BY <2>1 DEF Writing
  <2>6. \A c \in Conns : ~Writing(t, c)'
    BY <2>2 DEF Writing
  <2> QED
    BY <1>1, <2>1, <2>3, <2>4, <2>5, <2>6
<1>3. CASE UNCHANGED <<outbound, spc, lock, target>>
  <2>1. Exclusive'
    BY <1>3 DEF PacketsInv, Exclusive, Holds
  <2>2. \A c, t : Writing(t, c)' <=> Writing(t, c)
    BY <1>3 DEF Writing
  <2> QED
    BY <1>1, <1>3, <2>1, <2>2
<1> QED
  BY <1>2, <1>3, WriteKept
  DEF Next, Program, Worker, Send, Game, Bind, BindReturns, Listen, Accept, AcceptThrows, Up,
      Down, ReadHeader, ReadPayload, ReadHalf, ReadThrows, LookUp, LookUpDuringBind, Dispatch,
      Close, Sending, GameConnects, Arrive, GameLeaves, Reset, NotWorker, NotGame,
      senderVars, vars

\* On a connection that nobody writes to under the lock of an earlier one, each
\* packet is written whole before the next begins, up to where it broke.
THEOREM PacketsCorrect == Spec => []PacketsWhole
<1>1. Init => PacketsInv
  BY DEF Init, PacketsInv, Exclusive, Holds, Whole, Begun, Writing
<1>2. TypeInv /\ PacketsInv /\ [Next]_vars => PacketsInv'
  BY PacketsStep
<1>3. PacketsInv => PacketsWhole
  BY DEF PacketsInv, PacketsWhole
<1> QED
  BY <1>1, <1>2, <1>3, TypesHold, PTL DEF Spec
=============================================================================
