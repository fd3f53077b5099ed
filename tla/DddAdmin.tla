------------------------------ MODULE DddAdmin ------------------------------
(* The plugin between the game and the admin server: what it does in the      *)
(* callbacks of DddAbsCore, the packets it queues, and the picture of the     *)
(* game that the server gets from them.                                       *)
(*                                                                            *)
(* The main thread's steps are those of DddAbsCore, each with the packet its  *)
(* callback queues; at most one, for the worker may empty the queue between   *)
(* any two. DddNetClient is here what the plugin can tell of it: two bounded  *)
(* queues that lose what they have no room for, connections that come and go, *)
(* and a clear of the outgoing queue, not of the incoming one, for each. The  *)
(* server is outside the repository: it asks for CONNECTION_INIT on every     *)
(* connection, for other things when it likes, and applies what it receives.  *)
EXTENDS Naturals, Sequences, FiniteSets

CONSTANTS
    MAX_PLAYER_SLOTS, WatchCount, FRAMES_PER_WATCH, \* see DddAbsCore
    People, NoOne, Maps, NoMap, Values, MaxEvents,
    MAX_QUEUE_SIZE, \* items of each of the client's queues
    NoValue,        \* a value the server was not told
    NoChannel,      \* slots whose network channel the engine may fail to give
    MaxSessions,    \* bound: connections
    MaxExtras       \* bound: lines of chat, packets of statistics, and requests
                    \* other than CONNECTION_INIT

VARIABLES
    client, value, running, events, players, initialized, previous, watch_timer,
    level_active, level_name, pc, visit, \* DddAbsCore's
    task,           \* where on_tick is
    announce,       \* the slots send_init_message has yet to announce
    queue,          \* packets to the server
    queue_incoming, \* requests from it
    connected,      \* there is a connection
    asked,          \* the server has asked for CONNECTION_INIT on it
    mirror,         \* the server's picture of the game, from this connection
    picture,        \* the one it will have when it has all that is queued
    lost,           \* how packets since the last CONNECTION_INIT were not queued
    sessions, extras \* how many there have been

Core == INSTANCE DddAbsCore

ASSUME AdminAssumption ==
    /\ Core!CoreAssumption
    /\ MAX_QUEUE_SIZE \in Nat
    /\ NoValue \notin Values
    /\ NoChannel \subseteq Nat
    /\ MaxSessions \in Nat /\ MaxExtras \in Nat

coreVars == <<client, value, running, events, players, initialized, previous,
              level_active, level_name, watch_timer, pc, visit>>
taskVars == <<task, announce>>
outVars == <<queue, picture, lost>>
netVars == <<queue_incoming, connected, asked, mirror>>
boundVars == <<sessions, extras>>
vars == <<coreVars, taskVars, outVars, netVars, boundVars>>

Slots == Core!Slots
Watches == Core!Watches

-----------------------------------------------------------------------------
(* Packets and the server's picture.                                          *)

InitMsg(map) == [kind |-> "init", map |-> map]
ConnectMsg(s) == [kind |-> "connect", slot |-> s, person |-> client[s]]
DisconnectMsg(s) == [kind |-> "disconnect", slot |-> s]
UpdateMsg(s, w) == [kind |-> "update", slot |-> s, watch |-> w, value |-> value[s][w]]
ChatMsg(s) == [kind |-> "chat", slot |-> s]
MapStartMsg(map) == [kind |-> "map_start", map |-> map]
MapEndMsg == [kind |-> "map_end"]
StatMsg == [kind |-> "stat"]
AckMsg == [kind |-> "ack"]

InitRequest == [kind |-> "init"]
KickRequest(s, p) == [kind |-> "kick", slot |-> s, person |-> p]
CommandRequest == [kind |-> "command"]
UnansweredRequest == [kind |-> "unanswered"]

Blank(synced, map) ==
    [synced |-> synced,
     map    |-> map,
     player |-> [s \in Slots |-> NoOne],
     value  |-> [s \in Slots |-> [w \in Watches |-> NoValue]]]

\* What the server makes of a packet. CONNECTION_INIT starts the picture anew.
Apply(m, p) ==
    CASE p.kind = "init" -> Blank(TRUE, p.map)
      [] p.kind = "connect" -> [m EXCEPT !.player[p.slot] = p.person]
      [] p.kind = "disconnect" ->
            [m EXCEPT !.player[p.slot] = NoOne,
                      !.value[p.slot] = [w \in Watches |-> NoValue]]
      [] p.kind = "update" -> [m EXCEPT !.value[p.slot][p.watch] = p.value]
      [] p.kind = "map_start" -> [m EXCEPT !.map = p.map]
      [] p.kind = "map_end" -> [m EXCEPT !.map = NoMap]
      [] OTHER -> m

-----------------------------------------------------------------------------

Init ==
    /\ Core!Init
    /\ task = "stats"
    /\ announce = {}
    /\ queue = <<>>
    /\ queue_incoming = <<>>
    /\ connected = FALSE
    /\ asked = FALSE
    /\ mirror = Blank(FALSE, NoMap)
    /\ picture = mirror
    /\ lost = {}
    /\ sessions = 0
    /\ extras = 0

Queued(p) ==
    /\ queue' = Append(queue, p)
    /\ picture' = Apply(picture, p)
    /\ lost' = IF p.kind = "init" THEN {} ELSE lost

NotQueued(how) ==
    /\ lost' = lost \cup {how}
    /\ UNCHANGED <<queue, picture>>

\* Mistake: room is tested for with <=.
EnqueueOver(p) ==
    IF Len(queue) <= MAX_QUEUE_SIZE THEN Queued(p) ELSE NotQueued("full")

\* enqueue_outgoing: a full queue drops the packet, and nobody is told.
Enqueue(p) ==
    IF Len(queue) < MAX_QUEUE_SIZE THEN Queued(p) ELSE NotQueued("full")

\* get_net_channel throws for the player instead.
Throw(s) == s \in NoChannel /\ NotQueued("channel")

Quiet == UNCHANGED outVars

Extra == extras < MaxExtras /\ extras' = extras + 1

-----------------------------------------------------------------------------
(* The hooks, with the callbacks they make.                                   *)

\* The engine's doings that call nothing back.
Unheard ==
    /\ \/ \E s \in Slots, p \in People : Core!Join(s, p)
       \/ \E s \in Slots, w \in Watches, v \in Values : Core!ValueChanges(s, w, v)
       \/ Core!LevelShutdownAgain
    /\ Quiet
    /\ UNCHANGED <<taskVars, netVars, boundVars>>

\* The steps of server_tick that call nothing back.
Tick ==
    /\ \/ Core!ServerTick
       \/ \E s \in Slots, w \in Watches : Core!UpdateUnchanged(s, w)
       \/ Core!SweepDone
    /\ Quiet
    /\ UNCHANGED <<taskVars, netVars, boundVars>>

OnPlayerConnect(s) ==
    /\ Core!PlayerConnect(s)
    /\ Enqueue(ConnectMsg(s)) \/ Throw(s)
    /\ UNCHANGED <<taskVars, netVars, boundVars>>

\* Mistake: a leaving bot is not ignored.
BotDisconnectTold(s) ==
    /\ Core!BotDisconnect(s)
    /\ Enqueue(DisconnectMsg(s))
    /\ UNCHANGED <<taskVars, netVars, boundVars>>

OnBotDisconnect(s) ==
    /\ Core!BotDisconnect(s)
    /\ Quiet
    /\ UNCHANGED <<taskVars, netVars, boundVars>>

\* Mistake: the player is destroyed before the callback, whose get_index throws.
DestroyedFirst(s) ==
    /\ Core!PlayerDisconnect(s)
    /\ Quiet
    /\ UNCHANGED <<taskVars, netVars, boundVars>>

OnPlayerDisconnect(s) ==
    /\ Core!PlayerDisconnect(s)
    /\ Enqueue(DisconnectMsg(s))
    /\ UNCHANGED <<taskVars, netVars, boundVars>>

OnLevelInit(m) ==
    /\ Core!LevelInit(m)
    /\ Enqueue(MapStartMsg(m))
    /\ UNCHANGED <<taskVars, netVars, boundVars>>

OnLevelShutdown ==
    /\ Core!LevelShutdown
    /\ Enqueue(MapEndMsg)
    /\ UNCHANGED <<taskVars, netVars, boundVars>>

\* ddd_hook_watch::on_value_changed.
OnValueChanged(s, w) ==
    /\ Core!UpdateChanged(s, w)
    /\ Enqueue(UpdateMsg(s, w))
    /\ UNCHANGED <<taskVars, netVars, boundVars>>

\* ddd_hook_chat::on_command, for a player find_player_by_index knows.
OnChat(s) ==
    /\ pc = "engine"
    /\ players[s]
    /\ Extra
    /\ Enqueue(ChatMsg(s))
    /\ UNCHANGED <<coreVars, taskVars, netVars, sessions>>

-----------------------------------------------------------------------------
(* on_tick: statistics if a minute has passed, then one request.              *)

\* In on_tick, at this point of it.
At(place) == pc = "on_tick" /\ task = place

ReportStat ==
    /\ At("stats")
    /\ Extra
    /\ task' = "dequeue"
    /\ Enqueue(StatMsg)
    /\ UNCHANGED <<coreVars, announce, netVars, sessions>>

\* dequeue_incoming finds this request.
Dequeue(request) ==
    /\ pc = "on_tick"
    /\ task \in {"stats", "dequeue"}
    /\ queue_incoming # <<>>
    /\ request = Head(queue_incoming)
    /\ queue_incoming' = Tail(queue_incoming)
    /\ UNCHANGED <<connected, asked, mirror, boundVars>>

DequeueNothing ==
    /\ pc = "on_tick"
    /\ task \in {"stats", "dequeue"}
    /\ queue_incoming = <<>>
    /\ task' = "return"
    /\ Quiet
    /\ UNCHANGED <<coreVars, announce, netVars, boundVars>>

\* send_init_message.
SendInit ==
    /\ Dequeue(InitRequest)
    /\ task' = "announce"
    /\ announce' = Core!ValidSlots
    /\ Enqueue(InitMsg(level_name))
    /\ UNCHANGED coreVars

AnnounceNext(s) ==
    /\ At("announce")
    /\ s \in announce
    /\ \A t \in announce : s <= t
    /\ UNCHANGED <<coreVars, netVars, boundVars>>

\* Mistake: the cursor moves on before the player is read.
AnnounceSkips(s) ==
    /\ AnnounceNext(s)
    /\ announce' = announce \ {s, s + 1}
    /\ UNCHANGED task
    /\ Enqueue(ConnectMsg(s))

Announce(s) ==
    /\ AnnounceNext(s)
    /\ announce' = announce \ {s}
    /\ UNCHANGED task
    /\ Enqueue(ConnectMsg(s))

\* The exception ends on_tick's try: no more players, no reset_watches.
AnnounceThrows(s) ==
    /\ AnnounceNext(s)
    /\ announce' = {}
    /\ task' = "return"
    /\ Throw(s)

\* Mistake: the watches are not reset.
AnnouncedUnreset ==
    /\ At("announce")
    /\ announce = {}
    /\ task' = "return"
    /\ Quiet
    /\ UNCHANGED <<coreVars, announce, netVars, boundVars>>

Announced ==
    /\ At("announce")
    /\ announce = {}
    /\ Core!ResetWatches
    /\ task' = "return"
    /\ Quiet
    /\ UNCHANGED <<announce, netVars, boundVars>>

\* Mistake: the Steam ID is not compared.
KickAnyone(s) ==
    /\ \E p \in People : Dequeue(KickRequest(s, p))
    /\ Core!Kick(s)
    /\ Enqueue(DisconnectMsg(s))
    /\ task' = "ack"
    /\ UNCHANGED announce

\* handle_kick of the player the server means. The engine disconnects the client
\* at once, so on_player_disconnect runs inside it.
KickPlayer(s) ==
    /\ Dequeue(KickRequest(s, client[s]))
    /\ Core!Kick(s)
    /\ Enqueue(DisconnectMsg(s))
    /\ task' = "ack"
    /\ UNCHANGED announce

\* get_client throws: no kick and no answer.
KickThrows(s) ==
    /\ Dequeue(KickRequest(s, client[s]))
    /\ players[s] /\ s \in NoChannel
    /\ task' = "return"
    /\ Quiet
    /\ UNCHANGED <<coreVars, announce>>

\* Results 1 and 2: no such player, or not the one with that Steam ID.
KickRefused(s) ==
    /\ \E p \in People : Dequeue(KickRequest(s, p)) /\ (players[s] => client[s] # p)
    /\ task' = "ack"
    /\ Quiet
    /\ UNCHANGED <<coreVars, announce>>

\* MAP_CHANGE, SERVER_COMMAND, SERVER_CVAR_QUERY and _SET: what they do to the
\* game is the engine's, later.
HandleCommand ==
    /\ Dequeue(CommandRequest)
    /\ task' = "ack"
    /\ Quiet
    /\ UNCHANGED <<coreVars, announce>>

\* A request without the values it needs gets no answer, nor does one for a page
\* of cvars: put_msg_array throws for it.
HandleUnanswered ==
    /\ Dequeue(UnansweredRequest)
    /\ task' = "return"
    /\ Quiet
    /\ UNCHANGED <<coreVars, announce>>

SendAck ==
    /\ At("ack")
    /\ task' = "return"
    /\ Enqueue(AckMsg)
    /\ UNCHANGED <<coreVars, announce, netVars, boundVars>>

Return ==
    /\ At("return")
    /\ Core!EndTick
    /\ task' = "stats"
    /\ Quiet
    /\ UNCHANGED <<announce, netVars, boundVars>>

-----------------------------------------------------------------------------
(* The client's worker and the server.                                        *)

Connect ==
    /\ ~connected
    /\ sessions < MaxSessions
    /\ sessions' = sessions + 1
    /\ connected' = TRUE
    /\ queue' = <<>>
    /\ asked' = FALSE
    /\ mirror' = Blank(FALSE, NoMap)
    /\ picture' = mirror'
    /\ lost' = {}
    /\ UNCHANGED <<coreVars, taskVars, queue_incoming, extras>>

\* Whatever the reason; a packet in transit is lost with the connection.
Disconnect ==
    /\ connected
    /\ connected' = FALSE
    /\ UNCHANGED <<coreVars, taskVars, outVars, queue_incoming, asked, mirror, boundVars>>

Deliver ==
    /\ connected
    /\ queue # <<>>
    /\ mirror' = Apply(mirror, Head(queue))
    /\ queue' = Tail(queue)
    /\ UNCHANGED <<coreVars, taskVars, picture, lost, queue_incoming, connected, asked,
                   boundVars>>

\* A request arrives; queue_incoming drops it when it is full.
Arrive(request) ==
    /\ connected
    /\ queue_incoming' = IF Len(queue_incoming) < MAX_QUEUE_SIZE
                         THEN Append(queue_incoming, request) ELSE queue_incoming
    /\ UNCHANGED <<coreVars, taskVars, outVars, connected, mirror, sessions>>

ServerAsksInit ==
    /\ ~asked
    /\ Arrive(InitRequest)
    /\ asked' = TRUE
    /\ UNCHANGED extras

\* A kick is for a player the server sees.
ServerAsks ==
    /\ Extra
    /\ \/ \E s \in Slots : /\ mirror.player[s] # NoOne
                           /\ Arrive(KickRequest(s, mirror.player[s]))
       \/ Arrive(CommandRequest)
       \/ Arrive(UnansweredRequest)
    /\ UNCHANGED asked

-----------------------------------------------------------------------------

Hooks ==
    \/ Unheard
    \/ \E s \in Slots : \/ OnPlayerConnect(s) \/ OnPlayerDisconnect(s)
                        \/ OnBotDisconnect(s) \/ OnChat(s)
    \/ \E m \in Maps : OnLevelInit(m)
    \/ OnLevelShutdown

Sweep == \E s \in Slots, w \in Watches : OnValueChanged(s, w)

OnTick ==
    \/ ReportStat \/ DequeueNothing
    \/ SendInit \/ Announced \/ \E s \in Slots : Announce(s) \/ AnnounceThrows(s)
    \/ \E s \in Slots : KickPlayer(s) \/ KickThrows(s) \/ KickRefused(s)
    \/ HandleCommand \/ HandleUnanswered \/ SendAck \/ Return

Network == Connect \/ Disconnect \/ Deliver \/ ServerAsksInit \/ ServerAsks

Next == Hooks \/ Tick \/ Sweep \/ OnTick \/ Network

Spec == Init /\ [][Next]_vars

\* The game ticks while a level runs, and the worker sends while connected.
FairSpec == Spec /\ WF_vars(Tick \/ Sweep \/ OnTick) /\ WF_vars(Deliver)

-----------------------------------------------------------------------------
(* Properties.                                                                *)

Requests ==
    {InitRequest, CommandRequest, UnansweredRequest}
        \cup {KickRequest(s, p) : s \in Slots, p \in People}

Pictures ==
    [synced : BOOLEAN, map : Maps \cup {NoMap}, player : [Slots -> People \cup {NoOne}],
     value : [Slots -> [Watches -> Values \cup {NoValue}]]]

\* Where the plugin is in on_tick, the two queues and the server's picture; who
\* is still to be announced is valid, and there is no one outside on_tick.
TypeOK ==
    /\ task \in {"stats", "dequeue", "announce", "ack", "return"}
    /\ pc # "on_tick" => task = "stats"
    /\ announce \subseteq Core!ValidSlots
    /\ task # "announce" => announce = {}
    /\ Len(queue) <= MAX_QUEUE_SIZE
    /\ Len(queue_incoming) <= MAX_QUEUE_SIZE
    /\ \A i \in 1 .. Len(queue_incoming) : queue_incoming[i] \in Requests
    /\ connected \in BOOLEAN /\ asked \in BOOLEAN /\ lost \subseteq {"full", "channel"}
    /\ mirror \in Pictures /\ picture \in Pictures
    /\ sessions \in 0 .. MaxSessions /\ extras \in 0 .. MaxExtras

\* The server can rely on its picture once all that is queued has reached it.
Synced == picture.synced /\ lost = {}

\* The players the server has been told of on this connection, or will have
\* been: while they are announced, those already announced.
PlayersKnown ==
    [s \in Slots |-> IF players[s] /\ s \notin announce THEN client[s] ELSE NoOne]

\* On a connection on which the plugin has answered CONNECTION_INIT and every
\* packet since found room, what was sent and what is queued add up to the
\* players that are in the game, whenever the connection was made and whatever
\* was still to be handled from the one before (plugin.cpp:131-149 and 174-193,
\* core.cpp:65-107).
PlayersExact == Synced => picture.player = PlayersKnown

\* Likewise the watched values: a watch that will keep silent, because nothing
\* changed since it told of it, has told this connection's server
\* (watch.cpp:31-61, plugin.cpp:191-192).
ValuesExact ==
    Synced /\ task # "announce" =>
        \A s \in Slots, w \in Watches :
            initialized[s][w] => picture.value[s][w] = previous[s][w]

\* Likewise the level, of which a second shutdown tells nothing
\* (core.cpp:109-142, plugin.cpp:151-164 and 182).
LevelExact == Synced => picture.map = IF level_active THEN level_name ELSE NoMap

\* And when a player's missing network channel has kept packets from being made,
\* even from on_tick's middle, what the server thinks may lack someone or some
\* value, but nothing of it is false (player.cpp:66-72, plugin.cpp:126-141).
NothingFalse ==
    picture.synced /\ "full" \notin lost => \A s \in Slots :
        /\ picture.player[s] \in {NoOne, PlayersKnown[s]}
        /\ \A w \in Watches : picture.value[s][w] \in {NoValue, previous[s][w]}

\* News of a player comes after its PLAYER_CONNECT and before its
\* PLAYER_DISCONNECT: nothing is said of a slot the server thinks empty
\* (core.cpp:83-91, cvar.cpp:54-62).
NewsOfPlayers ==
    [][ \A s \in Slots :
          /\ Synced /\ queue' # queue /\ Len(queue') > Len(queue)
          /\ LET p == queue'[Len(queue')] IN
                p.kind \in {"disconnect", "update", "chat"} /\ p.slot = s
          => picture.player[s] # NoOne ]_vars

\* on_tick makes no one leave but the player that the request it took means: not
\* whoever has taken the slot since, be it that the request is of an earlier
\* connection (plugin.cpp:195-233).
KicksTheOneMeant ==
    [][ \A s \in Slots :
          pc = "on_tick" /\ client[s] # NoOne /\ client'[s] = NoOne =>
              /\ Head(queue_incoming) = KickRequest(s, client[s])
              /\ task' = "ack" ]_vars

\* A value that lasts gets to a server that has had its CONNECTION_INIT, unless
\* the player leaves, the level or the connection ends, or a packet finds no room.
Lasting(s, w, v) ==
    connected /\ Synced /\ running /\ players[s] /\ value[s][w] = v

ServerSees ==
    \A s \in Slots, w \in Watches, v \in Values :
        Lasting(s, w, v) ~> mirror.value[s][w] = v \/ ~Lasting(s, w, v)

\* "Reset watches so they get resent" (plugin.cpp:191): when the server has had
\* the answer to CONNECTION_INIT with its players, the next sweep sends it
\* every value they have.
WatchesResent ==
    mirror.synced /\ At("stats") /\ watch_timer = 0 =>
        \A s \in Slots, w \in Watches :
            players[s] /\ mirror.player[s] # NoOne
                => picture.value[s][w] = value[s][w]
=============================================================================
