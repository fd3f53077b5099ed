--------------------------- MODULE DddAdminProofs ---------------------------
(* That DddAdmin implements DddAbsCore, and what its packets add up to, for   *)
(* any number of slots, watches and packets in the queue. What is known of    *)
(* the core comes from DddAbsCoreProofs, through the implementation.          *)
EXTENDS DddAdmin, SequenceTheorems, TLAPS

CoreProofs == INSTANCE DddAbsCoreProofs

LEMMA CoreConstants == Core!CoreAssumption
BY AdminAssumption

-----------------------------------------------------------------------------
(* The core's steps.                                                          *)

\* The plugin's actions are the core's, each with what a callback does, or leave
\* the core as it is.
LEMMA StepOfCore == ASSUME [Next]_vars PROVE [Core!Next]_(Core!coreVars)
<1>1. CASE Hooks
  BY <1>1 DEF Hooks, Unheard, OnPlayerConnect, OnPlayerDisconnect, OnBotDisconnect, OnChat,
     OnLevelInit, OnLevelShutdown, Slots, Core!Next, Core!Engine, coreVars,
     Core!coreVars, Core!engineVars, Core!watchVars, Core!levelVars, Core!tickVars, Watches
<1>2. CASE Tick \/ Sweep
  BY <1>2 DEF Tick, Sweep, OnValueChanged, Slots, Watches, Core!Next, Core!Sweep
<1>3. CASE OnTick
  BY <1>3 DEF OnTick, ReportStat, DequeueNothing, SendInit, Announced, Announce,
     AnnounceThrows, AnnounceNext, KickPlayer, KickThrows, KickRefused, HandleCommand,
     HandleUnanswered, SendAck, Return, Slots, Core!Next, Core!OnTick, coreVars,
     Core!coreVars, Core!engineVars, Core!watchVars, Core!levelVars, Core!tickVars
<1>4. CASE Network \/ UNCHANGED vars
  BY <1>4 DEF Network, Connect, Disconnect, Deliver, ServerAsksInit, ServerAsks, Arrive,
     Extra, vars, coreVars,
     Core!coreVars, Core!engineVars, Core!watchVars, Core!levelVars, Core!tickVars
<1> QED
  BY <1>1, <1>2, <1>3, <1>4 DEF Next

\* The plugin, whatever its callbacks do, is a DddAbsCore.
THEOREM ImplementsCore == Spec => Core!Spec
<1>1. Init => Core!Init
  BY DEF Init
<1>2. [Next]_vars => [Core!Next]_(Core!coreVars)
  BY StepOfCore
<1> QED
  BY <1>1, <1>2, PTL DEF Spec, Core!Spec

-----------------------------------------------------------------------------
(* What is known of the core. An instance of a definition has to be expanded  *)
(* on both sides to be seen to be the same.                                   *)

CoreInv ==
    /\ Core!TypeOK
    /\ \A s \in Slots : players[s] => client[s] # NoOne
    /\ visit \subseteq Core!ValidSlots \X Watches

LEMMA SameInit == Core!Init => CoreProofs!Init
BY DEF Core!Init, CoreProofs!Init, Core!Slots, CoreProofs!Slots, Core!Watches,
   CoreProofs!Watches

LEMMA SameStep ==
    ASSUME [Core!Next]_(Core!coreVars) PROVE [CoreProofs!Next]_(CoreProofs!coreVars)
BY DEF Core!Join, CoreProofs!Join, Core!ValueChanges, CoreProofs!ValueChanges,
     Core!PlayerConnect, CoreProofs!PlayerConnect, Core!PlayerDisconnect,
     CoreProofs!PlayerDisconnect, Core!RemovePlayer, CoreProofs!RemovePlayer,
     Core!BotDisconnect, CoreProofs!BotDisconnect, Core!LevelInit,
     CoreProofs!LevelInit, Core!LevelShutdown, CoreProofs!LevelShutdown,
     Core!LevelShutdownAgain, CoreProofs!LevelShutdownAgain, Core!ServerTick,
     CoreProofs!ServerTick, Core!AtWatch, CoreProofs!AtWatch, Core!Changed,
     CoreProofs!Changed, Core!UpdateChanged, CoreProofs!UpdateChanged,
     Core!UpdateUnchanged, CoreProofs!UpdateUnchanged, Core!SweepDone,
     CoreProofs!SweepDone, Core!ResetWatches, CoreProofs!ResetWatches,
     Core!Kick, CoreProofs!Kick, Core!EndTick, CoreProofs!EndTick,
     Core!EngineEvent, CoreProofs!EngineEvent, Core!ValidSlots,
     CoreProofs!ValidSlots, Core!Slots, CoreProofs!Slots, Core!Watches,
     CoreProofs!Watches, Core!Next, CoreProofs!Next, Core!Engine,
     CoreProofs!Engine, Core!Sweep, CoreProofs!Sweep, Core!OnTick,
     CoreProofs!OnTick, Core!coreVars, CoreProofs!coreVars, Core!engineVars,
     CoreProofs!engineVars, Core!watchVars, CoreProofs!watchVars,
     Core!levelVars, CoreProofs!levelVars, Core!tickVars, CoreProofs!tickVars

LEMMA SameInv == CoreProofs!IInv => CoreInv
BY DEF CoreInv, Slots, Watches, Core!TypeOK, Core!ValidSlots, Core!Slots, Core!Watches,
   CoreProofs!IInv, CoreProofs!TypeOK, CoreProofs!PlayersIn, CoreProofs!SweepHalf,
   CoreProofs!ValidSlots, CoreProofs!Slots, CoreProofs!Watches

LEMMA CoreInvariance == Spec => []CoreInv
<1>1. CoreProofs!Spec => []CoreProofs!IInv
  BY CoreProofs!Invariance, CoreConstants
<1> QED
  BY <1>1, ImplementsCore, SameInit, SameStep, SameInv, PTL DEF Core!Spec, CoreProofs!Spec

-----------------------------------------------------------------------------
(* The types.                                                                 *)

Packets ==
    [kind : {"init", "map_start"}, map : Maps \cup {NoMap}]
        \cup [kind : {"connect"}, slot : Slots, person : People \cup {NoOne}]
        \cup [kind : {"disconnect", "chat"}, slot : Slots]
        \cup [kind : {"update"}, slot : Slots, watch : Watches, value : Values]
        \cup [kind : {"map_end", "stat", "ack"}]

TaskOK ==
    /\ task \in {"stats", "dequeue", "announce", "ack", "return"}
    /\ pc # "on_tick" => task = "stats"
    /\ announce \subseteq Core!ValidSlots
    /\ task # "announce" => announce = {}

OutOK ==
    /\ queue \in Seq(Packets) /\ Len(queue) <= MAX_QUEUE_SIZE
    /\ picture \in Pictures
    /\ lost \subseteq {"full", "channel"}

NetOK ==
    /\ queue_incoming \in Seq(Requests) /\ Len(queue_incoming) <= MAX_QUEUE_SIZE
    /\ connected \in BOOLEAN /\ asked \in BOOLEAN
    /\ mirror \in Pictures

BoundOK == sessions \in 0 .. MaxSessions /\ extras \in 0 .. MaxExtras

TypeInv == TaskOK /\ OutOK /\ NetOK /\ BoundOK

LEMMA BlankTyped ==
    ASSUME NEW synced \in BOOLEAN, NEW map \in Maps \cup {NoMap}
    PROVE  Blank(synced, map) \in Pictures
BY DEF Blank, Pictures

\* Whatever packet the server applies, it has a picture again.
LEMMA ApplyTyped ==
    ASSUME NEW m \in Pictures, NEW p \in Packets PROVE Apply(m, p) \in Pictures
<1>1. CASE p \in [kind : {"init", "map_start"}, map : Maps \cup {NoMap}]
  <2>1. CASE p.kind = "init"
    BY <1>1, <2>1, BlankTyped DEF Apply
  <2>2. CASE p.kind = "map_start"
    BY <1>1, <2>2 DEF Apply, Pictures
  <2> QED
    BY <1>1, <2>1, <2>2
<1>2. CASE p \in [kind : {"connect"}, slot : Slots, person : People \cup {NoOne}]
  BY <1>2 DEF Apply, Pictures
<1>3. CASE p \in [kind : {"disconnect", "chat"}, slot : Slots]
  BY <1>3 DEF Apply, Pictures
<1>4. CASE p \in [kind : {"update"}, slot : Slots, watch : Watches, value : Values]
  BY <1>4 DEF Apply, Pictures
<1>5. CASE p \in [kind : {"map_end", "stat", "ack"}]
  BY <1>5 DEF Apply, Pictures
<1> QED
  BY <1>1, <1>2, <1>3, <1>4, <1>5 DEF Packets

LEMMA EnqueueTyped ==
    ASSUME OutOK, NEW p \in Packets, Enqueue(p) PROVE OutOK'
<1>1. Len(queue) \in Nat /\ MAX_QUEUE_SIZE \in Nat
  BY AdminAssumption DEF OutOK
<1>2. CASE Len(queue) < MAX_QUEUE_SIZE
  <2>1. queue' \in Seq(Packets) /\ Len(queue') <= MAX_QUEUE_SIZE
    BY <1>1, <1>2 DEF OutOK, Enqueue, Queued
  <2> QED
    BY <1>2, <2>1, ApplyTyped DEF OutOK, Enqueue, Queued
<1>3. CASE ~(Len(queue) < MAX_QUEUE_SIZE)
  BY <1>3 DEF OutOK, Enqueue, NotQueued
<1> QED
  BY <1>2, <1>3

LEMMA MessagesTyped ==
    ASSUME CoreInv
    PROVE  /\ InitMsg(level_name) \in Packets
           /\ MapEndMsg \in Packets /\ StatMsg \in Packets /\ AckMsg \in Packets
           /\ \A m \in Maps : MapStartMsg(m) \in Packets
           /\ \A s \in Slots : /\ ConnectMsg(s) \in Packets
                               /\ DisconnectMsg(s) \in Packets
                               /\ ChatMsg(s) \in Packets
                               /\ \A w \in Watches : UpdateMsg(s, w) \in Packets
<1>1. /\ client \in [Slots -> People \cup {NoOne}]
      /\ value \in [Slots -> [Watches -> Values]]
      /\ level_name \in Maps \cup {NoMap}
  BY DEF CoreInv, Core!TypeOK, Slots, Watches
<1> QED
  BY <1>1 DEF Packets, InitMsg, MapEndMsg, StatMsg, AckMsg, MapStartMsg, ConnectMsg,
     DisconnectMsg, ChatMsg, UpdateMsg

LEMMA OutStep == ASSUME CoreInv, TypeInv, [Next]_vars PROVE OutOK'
<1>1. \A p \in Packets : Enqueue(p) => OutOK'
  BY EnqueueTyped DEF TypeInv
<1>2. \A s : Throw(s) => OutOK'
  BY DEF Throw, NotQueued, TypeInv, OutOK
<1>3. UNCHANGED outVars => OutOK'
  BY DEF outVars, TypeInv, OutOK
<1>4. CASE Hooks
  BY <1>1, <1>2, <1>3, <1>4, MessagesTyped DEF Hooks, Unheard, OnPlayerConnect,
     OnPlayerDisconnect, OnBotDisconnect, OnChat, OnLevelInit, OnLevelShutdown, Quiet
<1>5. CASE Tick \/ Sweep
  BY <1>1, <1>3, <1>5, MessagesTyped DEF Tick, Sweep, OnValueChanged, Quiet
<1>6. CASE OnTick
  BY <1>1, <1>2, <1>3, <1>6, MessagesTyped DEF OnTick, ReportStat, DequeueNothing, SendInit,
     Announced, Announce, AnnounceThrows, KickPlayer, KickThrows, KickRefused,
     HandleCommand, HandleUnanswered, SendAck, Return, Quiet
<1>7. CASE Connect
  <2>1. picture' \in Pictures
    BY <1>7, BlankTyped DEF Connect
  <2>2. <<>> \in Seq(Packets) /\ Len(<<>>) = 0 /\ MAX_QUEUE_SIZE >= 0
    BY AdminAssumption
  <2> QED
    BY <1>7, <2>1, <2>2 DEF Connect, OutOK
<1>8. CASE Deliver
  BY <1>8, AdminAssumption DEF Deliver, TypeInv, OutOK
<1>9. CASE Disconnect \/ ServerAsksInit \/ ServerAsks \/ UNCHANGED vars
  BY <1>3, <1>9 DEF Disconnect, ServerAsksInit, ServerAsks, Arrive, vars, outVars
<1> QED
  BY <1>4, <1>5, <1>6, <1>7, <1>8, <1>9 DEF Next, Network

LEMMA NetStep == ASSUME CoreInv, TypeInv, [Next]_vars PROVE NetOK'
<1>1. UNCHANGED netVars => NetOK'
  BY DEF netVars, TypeInv, NetOK
<1>2. \A request : Dequeue(request) => NetOK'
  <2> SUFFICES ASSUME NEW request, Dequeue(request) PROVE NetOK'
    OBVIOUS
  <2>1. /\ Tail(queue_incoming) \in Seq(Requests)
        /\ Len(Tail(queue_incoming)) = Len(queue_incoming) - 1
        /\ Len(queue_incoming) \in Nat /\ MAX_QUEUE_SIZE \in Nat
    BY AdminAssumption, HeadTailProperties DEF Dequeue, TypeInv, NetOK
  <2> QED
    BY <2>1 DEF Dequeue, TypeInv, NetOK
<1>3. \A request \in Requests : Arrive(request) /\ asked' \in BOOLEAN => NetOK'
  <2> SUFFICES ASSUME NEW request \in Requests, Arrive(request), asked' \in BOOLEAN
               PROVE  NetOK'
    OBVIOUS
  <2>1. Len(queue_incoming) \in Nat /\ MAX_QUEUE_SIZE \in Nat
    BY AdminAssumption DEF TypeInv, NetOK
  <2> QED
    BY <2>1 DEF Arrive, TypeInv, NetOK
<1>4. CASE Hooks \/ Tick \/ Sweep
  BY <1>1, <1>4 DEF Hooks, Unheard, OnPlayerConnect, OnPlayerDisconnect, OnBotDisconnect,
     OnChat, OnLevelInit, OnLevelShutdown, Tick, Sweep, OnValueChanged
<1>5. CASE OnTick
  BY <1>1, <1>2, <1>5 DEF OnTick, ReportStat, DequeueNothing, SendInit, Announced, Announce,
     AnnounceThrows, AnnounceNext, KickPlayer, KickThrows, KickRefused, HandleCommand,
     HandleUnanswered, SendAck, Return
<1>6. CASE Connect
  BY <1>6, BlankTyped DEF Connect, TypeInv, NetOK
<1>7. CASE Disconnect
  BY <1>7 DEF Disconnect, TypeInv, NetOK
<1>8. CASE Deliver
  <2>1. Head(queue) \in Packets
    BY <1>8 DEF Deliver, TypeInv, OutOK
  <2> QED
    BY <1>8, <2>1, ApplyTyped DEF Deliver, TypeInv, NetOK
<1>9. CASE ServerAsksInit
  BY <1>3, <1>9 DEF ServerAsksInit, Requests
<1>10. CASE ServerAsks
  <2>1. /\ CommandRequest \in Requests /\ UnansweredRequest \in Requests
        /\ \A s \in Slots : mirror.player[s] # NoOne
                              => KickRequest(s, mirror.player[s]) \in Requests
    BY DEF Requests, TypeInv, NetOK, Pictures
  <2> QED
    BY <1>3, <1>10, <2>1 DEF ServerAsks, TypeInv, NetOK
<1> QED
  BY <1>1, <1>4, <1>5, <1>6, <1>7, <1>8, <1>9, <1>10 DEF Next, Network, vars

\* No player leaves while there are others to be announced.
LEMMA TaskStep == ASSUME CoreInv, CoreInv', TypeInv, [Next]_vars PROVE TaskOK'
<1> USE DEF TypeInv, TaskOK
<1>1. UNCHANGED taskVars /\ pc # "on_tick" => TaskOK'
  <2> SUFFICES ASSUME UNCHANGED taskVars, pc # "on_tick" PROVE TaskOK'
    OBVIOUS
  <2> QED
    BY DEF taskVars
<1>2. CASE Hooks
  <2>1. pc # "on_tick" /\ UNCHANGED taskVars
    BY <1>2 DEF Hooks, Unheard, OnPlayerConnect, OnPlayerDisconnect, OnBotDisconnect, OnChat,
       OnLevelInit, OnLevelShutdown, Core!Join, Core!ValueChanges, Core!LevelShutdownAgain,
       Core!PlayerConnect, Core!PlayerDisconnect, Core!BotDisconnect, Core!LevelInit,
       Core!LevelShutdown, Core!EngineEvent
  <2> QED
    BY <1>1, <2>1
<1>3. CASE Tick \/ Sweep
  <2>1. pc # "on_tick" /\ UNCHANGED taskVars
    BY <1>3 DEF Tick, Sweep, OnValueChanged, Core!ServerTick, Core!UpdateUnchanged,
       Core!UpdateChanged, Core!SweepDone, Core!AtWatch
  <2> QED
    BY <1>1, <2>1
<1>4. CASE OnTick
  <2>1. CASE SendInit
    BY <2>1 DEF SendInit, Dequeue, coreVars, Core!ValidSlots, Core!Slots
  <2>2. CASE \E s \in Slots : Announce(s) \/ AnnounceThrows(s)
    BY <2>2 DEF Announce, AnnounceThrows, AnnounceNext, At, coreVars, Core!ValidSlots,
       Core!Slots
  <2>3. CASE Announced
    BY <2>3 DEF Announced, At, Core!ResetWatches, Core!tickVars
  <2>4. CASE \E s \in Slots : KickPlayer(s)
    BY <2>4 DEF KickPlayer, Dequeue, Core!Kick, Core!RemovePlayer, Core!tickVars
  <2>5. CASE \/ ReportStat \/ DequeueNothing \/ HandleCommand \/ HandleUnanswered \/ SendAck
             \/ \E s \in Slots : KickThrows(s) \/ KickRefused(s)
    BY <2>5 DEF ReportStat, DequeueNothing, HandleCommand, HandleUnanswered, SendAck,
       KickThrows, KickRefused, Dequeue, At, coreVars
  <2>6. CASE Return
    BY <2>6 DEF Return, At, Core!EndTick
  <2> QED
    BY <1>4, <2>1, <2>2, <2>3, <2>4, <2>5, <2>6 DEF OnTick
<1>5. CASE Network \/ UNCHANGED vars
  BY <1>5 DEF Network, Connect, Disconnect, Deliver, ServerAsksInit, ServerAsks, Arrive,
     vars, coreVars, taskVars, Core!ValidSlots, Core!Slots
<1> QED
  BY <1>2, <1>3, <1>4, <1>5 DEF Next

LEMMA BoundStep == ASSUME TypeInv, [Next]_vars PROVE BoundOK'
<1>1. CASE Hooks \/ Tick \/ Sweep
  BY <1>1, AdminAssumption DEF Hooks, Unheard, OnPlayerConnect, OnPlayerDisconnect,
     OnBotDisconnect, OnChat, OnLevelInit, OnLevelShutdown, Tick, Sweep, OnValueChanged,
     Extra, boundVars, TypeInv, BoundOK
<1>2. CASE OnTick
  BY <1>2, AdminAssumption DEF OnTick, ReportStat, DequeueNothing, SendInit, Announced,
     Announce, AnnounceThrows, AnnounceNext, KickPlayer, KickThrows, KickRefused,
     HandleCommand, HandleUnanswered, SendAck, Return, Dequeue, Extra, boundVars, TypeInv,
     BoundOK
<1>3. CASE Connect
  BY <1>3, AdminAssumption DEF Connect, TypeInv, BoundOK
<1>4. CASE ServerAsks
  <2>1. UNCHANGED sessions /\ Extra
    BY <1>4 DEF ServerAsks, Arrive
  <2> QED
    BY <2>1, AdminAssumption DEF Extra, TypeInv, BoundOK
<1>5. CASE Disconnect \/ Deliver \/ ServerAsksInit \/ UNCHANGED vars
  BY <1>5 DEF Disconnect, Deliver, ServerAsksInit, Arrive, vars, boundVars, TypeInv, BoundOK
<1> QED
  BY <1>1, <1>2, <1>3, <1>4, <1>5 DEF Next, Network

LEMMA InitTypeInv == ASSUME Init PROVE TypeInv
<1>1. TaskOK
  BY DEF Init, TaskOK
<1>2. OutOK /\ NetOK
  <2>1. mirror \in Pictures /\ picture \in Pictures
    BY BlankTyped DEF Init
  <2>2. <<>> \in Seq(Packets) /\ <<>> \in Seq(Requests) /\ Len(<<>>) = 0
    OBVIOUS
  <2>3. MAX_QUEUE_SIZE >= 0
    BY AdminAssumption
  <2>4. OutOK
    BY <2>1, <2>2, <2>3 DEF Init, OutOK
  <2>5. NetOK
    BY <2>1, <2>2, <2>3 DEF Init, NetOK
  <2> QED
    BY <2>4, <2>5
<1>3. BoundOK
  BY AdminAssumption DEF Init, BoundOK
<1> QED
  BY <1>1, <1>2, <1>3 DEF TypeInv

LEMMA TypeInvariance == Spec => []TypeInv
<1>1. Init => TypeInv
  BY InitTypeInv
<1>2. CoreInv /\ CoreInv' /\ TypeInv /\ [Next]_vars => TypeInv'
  BY OutStep, NetStep, TaskStep, BoundStep DEF TypeInv
<1> QED
  BY <1>1, <1>2, CoreInvariance, PTL DEF Spec

\* Both queues keep to their size, whoever is to be announced is a valid player,
\* and the server's picture is one of the game, whatever arrives and when.
THEOREM TypeCorrect == Spec => []TypeOK
<1>1. TypeInv => TypeOK
  BY DEF TypeInv, TaskOK, OutOK, NetOK, BoundOK, TypeOK
<1> QED
  BY <1>1, TypeInvariance, PTL

-----------------------------------------------------------------------------
(* What a packet changes in the picture.                                      *)

LEMMA ApplyEffect ==
    ASSUME NEW m \in Pictures, NEW p \in Packets
    PROVE  /\ p.kind # "init" => Apply(m, p).synced = m.synced
           /\ p.kind \notin {"init", "map_start", "map_end"} => Apply(m, p).map = m.map
           /\ p.kind \notin {"init", "connect", "disconnect"}
                 => Apply(m, p).player = m.player
           /\ p.kind \notin {"init", "disconnect", "update"}
                 => Apply(m, p).value = m.value
BY DEF Apply, Pictures

LEMMA KindOf ==
    /\ \A map : InitMsg(map).kind = "init"
    /\ \A s : /\ ConnectMsg(s).kind = "connect" /\ DisconnectMsg(s).kind = "disconnect"
              /\ ChatMsg(s).kind = "chat"
              /\ \A w : UpdateMsg(s, w).kind = "update"
    /\ \A map : MapStartMsg(map).kind = "map_start"
    /\ MapEndMsg.kind = "map_end" /\ StatMsg.kind = "stat" /\ AckMsg.kind = "ack"
BY DEF InitMsg, ConnectMsg, DisconnectMsg, ChatMsg, UpdateMsg, MapStartMsg, MapEndMsg,
   StatMsg, AckMsg

LEMMA ApplyInit ==
    ASSUME NEW m, NEW map PROVE Apply(m, InitMsg(map)) = Blank(TRUE, map)
BY DEF Apply, InitMsg

LEMMA ApplyMap ==
    ASSUME NEW m \in Pictures, NEW map
    PROVE  /\ Apply(m, MapStartMsg(map)).map = map
           /\ Apply(m, MapEndMsg).map = NoMap
BY DEF Apply, MapStartMsg, MapEndMsg, Pictures

LEMMA ApplyConnect ==
    ASSUME NEW m \in Pictures, NEW s \in Slots
    PROVE  Apply(m, ConnectMsg(s)).player = [m.player EXCEPT ![s] = client[s]]
BY DEF Apply, ConnectMsg, Pictures

LEMMA ApplyDisconnect ==
    ASSUME NEW m \in Pictures, NEW s \in Slots
    PROVE  /\ Apply(m, DisconnectMsg(s)).player = [m.player EXCEPT ![s] = NoOne]
           /\ Apply(m, DisconnectMsg(s)).value
                 = [m.value EXCEPT ![s] = [w \in Watches |-> NoValue]]
BY DEF Apply, DisconnectMsg, Pictures

LEMMA ApplyUpdate ==
    ASSUME NEW m \in Pictures, NEW s \in Slots, NEW w \in Watches
    PROVE  Apply(m, UpdateMsg(s, w)).value = [m.value EXCEPT ![s][w] = value[s][w]]
BY DEF Apply, UpdateMsg, Pictures

\* A picture that can be relied on after a packet had room for it, and could be
\* before.
LEMMA EnqueuedSynced ==
    ASSUME OutOK, NEW p \in Packets, Enqueue(p), Synced'
    PROVE  picture' = Apply(picture, p) /\ (p.kind # "init" => Synced)
<1>1. Queued(p)
  BY DEF Enqueue, NotQueued, Synced
<1> QED
  BY <1>1, ApplyEffect DEF Queued, Synced, OutOK

LEMMA ThrownUnsynced == ASSUME NEW s, Throw(s) PROVE ~Synced'
BY DEF Throw, NotQueued, Synced

LEMMA QuietSynced ==
    ASSUME UNCHANGED outVars PROVE (Synced' => Synced) /\ picture' = picture
BY DEF outVars, Synced

LEMMA ConnectUnsynced == ASSUME Connect PROVE ~Synced' /\ ~picture'.synced
BY DEF Connect, Synced, Blank

-----------------------------------------------------------------------------
(* The level.                                                                 *)

\* Within a tick a level runs, and one that runs unannounced began before the
\* plugin.
LevelKnown ==
    /\ pc # "engine" => running
    /\ running /\ ~level_active => level_name = NoMap

LEMMA LevelKnownStep == ASSUME LevelKnown, [Next]_vars PROVE LevelKnown'
<1> USE DEF LevelKnown
<1>1. CASE [Core!Next]_(Core!coreVars)
  <2>1. CASE Core!Engine
    BY <2>1 DEF Core!Engine, Core!Join, Core!ValueChanges, Core!LevelShutdownAgain,
       Core!PlayerConnect, Core!PlayerDisconnect, Core!RemovePlayer, Core!BotDisconnect,
       Core!LevelInit, Core!LevelShutdown, Core!EngineEvent, Core!engineVars,
       Core!levelVars, Core!tickVars
  <2>2. CASE Core!ServerTick \/ Core!Sweep \/ Core!OnTick \/ Core!EndTick
    BY <2>2 DEF Core!ServerTick, Core!Sweep, Core!UpdateChanged, Core!UpdateUnchanged,
       Core!AtWatch, Core!SweepDone, Core!OnTick, Core!ResetWatches, Core!Kick,
       Core!RemovePlayer, Core!EndTick, Core!engineVars, Core!levelVars, Core!tickVars
  <2>3. CASE UNCHANGED Core!coreVars
    BY <2>3 DEF Core!coreVars, Core!engineVars, Core!levelVars, Core!tickVars
  <2> QED
    BY <1>1, <2>1, <2>2, <2>3 DEF Core!Next
<1> QED
  BY <1>1, StepOfCore

LEMMA LevelExactStep ==
    ASSUME CoreInv, TypeInv, LevelKnown, LevelExact, [Next]_vars PROVE LevelExact'
<1> SUFFICES ASSUME Synced'
             PROVE  picture'.map = IF level_active' THEN level_name' ELSE NoMap
  BY DEF LevelExact
<1> USE DEF TypeInv, LevelExact
<1>1. \A p \in Packets :
         /\ Enqueue(p) /\ UNCHANGED <<level_active, level_name>>
         /\ p.kind \notin {"init", "map_start", "map_end"}
         => picture'.map = IF level_active' THEN level_name' ELSE NoMap
  BY EnqueuedSynced, ApplyEffect DEF OutOK
<1>2. UNCHANGED outVars /\ UNCHANGED <<level_active, level_name>>
         => picture'.map = IF level_active' THEN level_name' ELSE NoMap
  BY QuietSynced
<1>3. CASE Hooks
  <2>1. CASE Unheard
    BY <1>2, <2>1 DEF Unheard, Quiet, Core!Join, Core!ValueChanges, Core!LevelShutdownAgain,
       Core!levelVars
  <2>2. CASE \E s \in Slots : \/ OnPlayerConnect(s) \/ OnPlayerDisconnect(s)
                              \/ OnBotDisconnect(s) \/ OnChat(s)
    BY <1>1, <1>2, <2>2, MessagesTyped, KindOf, ThrownUnsynced
    DEF OnPlayerConnect, OnPlayerDisconnect, OnBotDisconnect, OnChat, Quiet, coreVars,
        Core!PlayerConnect, Core!PlayerDisconnect, Core!RemovePlayer, Core!BotDisconnect,
        Core!levelVars
  <2>3. ASSUME NEW m \in Maps, OnLevelInit(m)
        PROVE  picture'.map = IF level_active' THEN level_name' ELSE NoMap
    BY <2>3, MessagesTyped, EnqueuedSynced, ApplyMap DEF OnLevelInit, Core!LevelInit, OutOK
  <2>4. CASE OnLevelShutdown
    BY <2>4, MessagesTyped, EnqueuedSynced, ApplyMap
    DEF OnLevelShutdown, Core!LevelShutdown, OutOK
  <2> QED
    BY <1>3, <2>1, <2>2, <2>3, <2>4 DEF Hooks
<1>4. CASE Tick \/ Sweep
  BY <1>1, <1>2, <1>4, MessagesTyped, KindOf
  DEF Tick, Sweep, OnValueChanged, Quiet, Core!ServerTick, Core!UpdateUnchanged,
      Core!UpdateChanged, Core!SweepDone, Core!levelVars
<1>5. CASE SendInit
  <2>1. picture' = Blank(TRUE, level_name)
    BY <1>5, MessagesTyped, EnqueuedSynced, ApplyInit DEF SendInit
  <2>2. UNCHANGED <<level_active, level_name>> /\ running
    BY <1>5 DEF SendInit, Dequeue, coreVars, LevelKnown
  <2> QED
    BY <2>1, <2>2 DEF Blank, LevelKnown
<1>6. CASE OnTick /\ ~SendInit
  BY <1>1, <1>2, <1>6, MessagesTyped, KindOf, ThrownUnsynced
  DEF OnTick, ReportStat, DequeueNothing, Announced, Announce, AnnounceThrows, AnnounceNext,
      KickPlayer, KickThrows, KickRefused, HandleCommand, HandleUnanswered, SendAck, Return,
      Quiet, coreVars, Core!ResetWatches, Core!Kick, Core!RemovePlayer, Core!EndTick,
      Core!levelVars
<1>7. CASE Network
  <2>1. UNCHANGED <<level_active, level_name>>
    BY <1>7 DEF Network, Connect, Disconnect, Deliver, ServerAsksInit, ServerAsks, Arrive,
       coreVars
  <2>2. ~Connect /\ UNCHANGED <<picture, lost>>
    BY <1>7, ConnectUnsynced DEF Network, Disconnect, Deliver, ServerAsksInit, ServerAsks,
       Arrive, outVars
  <2> QED
    BY <2>1, <2>2 DEF Synced
<1>8. CASE UNCHANGED vars
  BY <1>2, <1>8 DEF vars, coreVars
<1> QED
  BY <1>3, <1>4, <1>5, <1>6, <1>7, <1>8 DEF Next

\* What the server is told of levels adds up to the level that runs.
THEOREM LevelCorrect == Spec => []LevelExact
<1>1. Init => LevelKnown /\ LevelExact
  BY DEF Init, Core!Init, LevelKnown, LevelExact, Synced, Blank
<1>2. CoreInv /\ TypeInv /\ LevelKnown /\ LevelExact /\ [Next]_vars
        => LevelKnown' /\ LevelExact'
  BY LevelKnownStep, LevelExactStep
<1> QED
  BY <1>1, <1>2, CoreInvariance, TypeInvariance, PTL DEF Spec

-----------------------------------------------------------------------------
(* The players.                                                               *)

PlayersHalf == Synced => \A s \in Slots : picture.player[s] = PlayersKnown[s]

LEMMA KnownPlayer ==
    ASSUME NEW s \in Slots
    PROVE  /\ PlayersKnown[s] = IF players[s] /\ s \notin announce THEN client[s] ELSE NoOne
           /\ PlayersKnown'[s]
                 = IF players'[s] /\ s \notin announce' THEN client'[s] ELSE NoOne
BY DEF PlayersKnown, Slots, Core!Slots

LEMMA PlayersHalfStep ==
    ASSUME CoreInv, TypeInv, PlayersHalf, [Next]_vars PROVE PlayersHalf'
<1> SUFFICES ASSUME Synced', NEW t \in Slots PROVE picture'.player[t] = PlayersKnown'[t]
  BY DEF PlayersHalf, Slots, Core!Slots
<1>1. /\ client \in [Slots -> People \cup {NoOne}]
      /\ players \in [Slots -> BOOLEAN]
      /\ players[t] => client[t] # NoOne
      /\ picture \in Pictures /\ picture.player \in [Slots -> People \cup {NoOne}]
      /\ pc # "on_tick" => announce = {}
      /\ task # "announce" => announce = {}
      /\ announce \subseteq {s \in Slots : players[s]}
  BY DEF CoreInv, Core!TypeOK, TypeInv, TaskOK, OutOK, Pictures, Core!ValidSlots, Slots
<1>2. UNCHANGED <<client, players, announce>>
        => PlayersKnown'[t] = PlayersKnown[t]
  BY KnownPlayer
<1>3. \A p \in Packets :
         /\ Enqueue(p) /\ UNCHANGED <<client, players, announce>>
         /\ p.kind \notin {"init", "connect", "disconnect"}
         => picture'.player[t] = PlayersKnown'[t]
  BY <1>1, <1>2, EnqueuedSynced, ApplyEffect DEF TypeInv, PlayersHalf
<1>4. UNCHANGED outVars /\ UNCHANGED <<client, players, announce>>
        => picture'.player[t] = PlayersKnown'[t]
  BY <1>2, QuietSynced DEF PlayersHalf
<1>5. ASSUME NEW s \in Slots, Core!RemovePlayer(s), Enqueue(DisconnectMsg(s)),
             UNCHANGED announce
      PROVE  picture'.player[t] = PlayersKnown'[t]
  <2>1. Synced /\ picture'.player = [picture.player EXCEPT ![s] = NoOne]
    <3>1. DisconnectMsg(s) \in Packets /\ DisconnectMsg(s).kind # "init"
      BY MessagesTyped, KindOf
    <3>2. Synced /\ picture' = Apply(picture, DisconnectMsg(s))
      BY <1>5, <3>1, EnqueuedSynced DEF TypeInv
    <3> QED
      BY <1>1, <3>2, ApplyDisconnect
  <2>2. client' = [client EXCEPT ![s] = NoOne] /\ players' = [players EXCEPT ![s] = FALSE]
    BY <1>5 DEF Core!RemovePlayer
  <2> QED
    BY <1>1, <1>5, <2>1, <2>2, KnownPlayer DEF PlayersHalf
<1>6. ASSUME NEW s \in Slots, Enqueue(ConnectMsg(s)), UNCHANGED client,
             players' = [players EXCEPT ![s] = TRUE], announce' = announce \ {s}
      PROVE  picture'.player[t] = PlayersKnown'[t]
  <2>1. Synced /\ picture'.player = [picture.player EXCEPT ![s] = client[s]]
    BY <1>1, <1>6, MessagesTyped, KindOf, EnqueuedSynced, ApplyConnect DEF TypeInv
  <2> QED
    BY <1>1, <1>6, <2>1, KnownPlayer DEF PlayersHalf
<1>7. CASE Unheard
  <2>1. UNCHANGED <<outVars, players, announce>>
    BY <1>7 DEF Unheard, Quiet, taskVars, Core!Join, Core!ValueChanges,
       Core!LevelShutdownAgain
  <2>2. client'[t] # client[t] => ~players[t]
    BY <1>1, <1>7 DEF Unheard, Core!Join, Core!ValueChanges, Core!LevelShutdownAgain
  <2> QED
    BY <2>1, <2>2, QuietSynced, KnownPlayer DEF PlayersHalf
<1>8. ASSUME NEW s \in Slots, OnPlayerConnect(s)
      PROVE  picture'.player[t] = PlayersKnown'[t]
  BY <1>1, <1>6, <1>8, ThrownUnsynced
  DEF OnPlayerConnect, Core!PlayerConnect, Core!EngineEvent, Core!engineVars, taskVars
<1>9. ASSUME NEW s \in Slots, OnPlayerDisconnect(s)
      PROVE  picture'.player[t] = PlayersKnown'[t]
  BY <1>5, <1>9 DEF OnPlayerDisconnect, Core!PlayerDisconnect, taskVars
<1>10. ASSUME NEW s \in Slots, OnBotDisconnect(s)
       PROVE  picture'.player[t] = PlayersKnown'[t]
  <2>1. UNCHANGED <<outVars, players, announce>>
    BY <1>10 DEF OnBotDisconnect, Quiet, taskVars, Core!BotDisconnect
  <2>2. client'[t] # client[t] => ~players[t]
    BY <1>1, <1>10 DEF OnBotDisconnect, Core!BotDisconnect
  <2> QED
    BY <2>1, <2>2, QuietSynced, KnownPlayer DEF PlayersHalf
<1>11. CASE (\E s \in Slots : OnChat(s)) \/ (\E m \in Maps : OnLevelInit(m)) \/ OnLevelShutdown
  BY <1>3, <1>11, MessagesTyped, KindOf
  DEF OnChat, OnLevelInit, OnLevelShutdown, coreVars, taskVars, Core!LevelInit,
      Core!LevelShutdown
<1>12. CASE Tick \/ Sweep
  BY <1>3, <1>4, <1>12, MessagesTyped, KindOf
  DEF Tick, Sweep, OnValueChanged, Quiet, taskVars, Core!ServerTick, Core!UpdateUnchanged,
      Core!UpdateChanged, Core!SweepDone, Core!engineVars
<1>13. CASE SendInit
  <2>1. picture' = Blank(TRUE, level_name)
    BY <1>13, MessagesTyped, EnqueuedSynced, ApplyInit DEF SendInit, TypeInv
  <2>2. players' = players /\ announce' = {s \in Slots : players[s]}
    BY <1>13 DEF SendInit, coreVars, Core!ValidSlots, Slots
  <2> QED
    BY <2>1, <2>2, KnownPlayer DEF Blank
<1>14. ASSUME NEW s \in Slots, Announce(s) PROVE picture'.player[t] = PlayersKnown'[t]
  <2>1. players' = [players EXCEPT ![s] = TRUE] /\ UNCHANGED client
    BY <1>1, <1>14 DEF Announce, AnnounceNext, coreVars
  <2> QED
    BY <1>6, <1>14, <2>1 DEF Announce
<1>15. ASSUME NEW s \in Slots, KickPlayer(s) PROVE picture'.player[t] = PlayersKnown'[t]
  BY <1>5, <1>15 DEF KickPlayer, Core!Kick
<1>16. CASE \/ ReportStat \/ DequeueNothing \/ Announced \/ HandleCommand \/ HandleUnanswered
            \/ SendAck \/ Return
            \/ \E s \in Slots : AnnounceThrows(s) \/ KickThrows(s) \/ KickRefused(s)
  BY <1>3, <1>4, <1>16, MessagesTyped, KindOf, ThrownUnsynced
  DEF ReportStat, DequeueNothing, Announced, AnnounceThrows, KickThrows, KickRefused,
      HandleCommand, HandleUnanswered, SendAck, Return, Quiet, coreVars, Core!ResetWatches,
      Core!EndTick, Core!engineVars
<1>17. CASE Network
  <2>1. ~Connect
    BY ConnectUnsynced
  <2>2. UNCHANGED <<client, players, announce, picture, lost>>
    BY <1>17, <2>1 DEF Network, Disconnect, Deliver, ServerAsksInit, ServerAsks, Arrive,
       coreVars, taskVars, outVars
  <2> QED
    BY <1>2, <2>2 DEF Synced, PlayersHalf
<1>18. CASE UNCHANGED vars
  BY <1>4, <1>18 DEF vars, coreVars, taskVars
<1> QED
  BY <1>7, <1>8, <1>9, <1>10, <1>11, <1>12, <1>13, <1>14, <1>15, <1>16, <1>17, <1>18
  DEF Next, Hooks, OnTick

LEMMA PlayersInvariance == Spec => []PlayersHalf
<1>1. Init => PlayersHalf
  BY DEF Init, PlayersHalf, Synced, Blank
<1>2. CoreInv /\ TypeInv /\ PlayersHalf /\ [Next]_vars => PlayersHalf'
  BY PlayersHalfStep
<1> QED
  BY <1>1, <1>2, CoreInvariance, TypeInvariance, PTL DEF Spec

\* The packets queued on a connection add up to the players in the game.
THEOREM PlayersCorrect == Spec => []PlayersExact
<1>1. TypeInv /\ PlayersHalf => PlayersExact
  <2> SUFFICES ASSUME TypeInv, PlayersHalf, Synced PROVE picture.player = PlayersKnown
    BY DEF PlayersExact
  <2>1. picture.player \in [Slots -> People \cup {NoOne}]
    BY DEF TypeInv, OutOK, Pictures
  <2>2. PlayersKnown = [s \in Slots |-> PlayersKnown[s]]
    BY DEF PlayersKnown
  <2> QED
    BY <2>1, <2>2 DEF PlayersHalf
<1> QED
  BY <1>1, TypeInvariance, PlayersInvariance, PTL

-----------------------------------------------------------------------------
(* The watched values.                                                        *)

LEMMA ExceptElsewhere ==
    ASSUME NEW V, NEW f \in [Slots -> [Watches -> V]], NEW s \in Slots, NEW w \in Watches,
           NEW v, NEW t \in Slots, NEW x \in Watches, t # s \/ x # w,
           NEW g, g = [f EXCEPT ![s][w] = v]
    PROVE  g[t][x] = f[t][x]
<1>1. CASE t # s
  BY <1>1
<1>2. CASE t = s
  BY <1>2
<1> QED
  BY <1>1, <1>2

LEMMA ValuesExactStep ==
    ASSUME CoreInv, TypeInv, ValuesExact, [Next]_vars PROVE ValuesExact'
<1> SUFFICES ASSUME Synced', task' # "announce", NEW t \in Slots, NEW x \in Watches,
                    initialized'[t][x]
             PROVE  picture'.value[t][x] = previous'[t][x]
  BY DEF ValuesExact, Slots, Core!Slots, Watches, Core!Watches
<1>1. /\ initialized \in [Slots -> [Watches -> BOOLEAN]]
      /\ previous \in [Slots -> [Watches -> Values]]
      /\ picture \in Pictures
      /\ picture.value \in [Slots -> [Watches -> Values \cup {NoValue}]]
      /\ pc # "on_tick" => task # "announce"
  BY DEF CoreInv, Core!TypeOK, TypeInv, TaskOK, OutOK, Pictures, Slots, Watches
<1>2. Synced /\ task # "announce" /\ initialized[t][x]
        => picture.value[t][x] = previous[t][x]
  BY DEF ValuesExact
<1>3. \A p \in Packets :
         /\ Enqueue(p) /\ UNCHANGED <<initialized, previous>> /\ task # "announce"
         /\ p.kind \notin {"init", "disconnect", "update"}
         => picture'.value[t][x] = previous'[t][x]
  BY <1>1, <1>2, EnqueuedSynced, ApplyEffect DEF TypeInv
<1>4. /\ UNCHANGED outVars /\ UNCHANGED <<initialized, previous>> /\ task # "announce"
      => picture'.value[t][x] = previous'[t][x]
  BY <1>2, QuietSynced
<1>5. ASSUME NEW s \in Slots, Core!RemovePlayer(s), Enqueue(DisconnectMsg(s)),
             task # "announce"
      PROVE  picture'.value[t][x] = previous'[t][x]
  <2>1. DisconnectMsg(s) \in Packets /\ DisconnectMsg(s).kind # "init"
    BY MessagesTyped, KindOf
  <2>2. Synced /\ picture' = Apply(picture, DisconnectMsg(s))
    BY <1>5, <2>1, EnqueuedSynced DEF TypeInv
  <2>3. t # s /\ UNCHANGED previous /\ initialized'[t] = initialized[t]
    BY <1>1, <1>5 DEF Core!RemovePlayer, Watches
  <2> QED
    <3>1. picture'.value = [picture.value EXCEPT ![s] = [w \in Watches |-> NoValue]]
      BY <1>1, <2>2, ApplyDisconnect
    <3>2. picture'.value[t] = picture.value[t]
      BY <1>1, <2>3, <3>1
    <3> QED
      BY <1>2, <1>5, <2>2, <2>3, <3>2
<1>6. CASE Hooks
  <2>1. task # "announce" /\ UNCHANGED task
    BY <1>1, <1>6 DEF Hooks, Unheard, OnPlayerConnect, OnPlayerDisconnect, OnBotDisconnect,
       OnChat, OnLevelInit, OnLevelShutdown, taskVars, Core!Join, Core!ValueChanges,
       Core!LevelShutdownAgain, Core!PlayerConnect, Core!PlayerDisconnect,
       Core!BotDisconnect, Core!LevelInit, Core!LevelShutdown, Core!EngineEvent
  <2>2. CASE \E s \in Slots : OnPlayerDisconnect(s)
    BY <1>5, <2>1, <2>2 DEF OnPlayerDisconnect, Core!PlayerDisconnect
  <2>3. CASE Unheard \/ \E s \in Slots : OnBotDisconnect(s)
    BY <1>4, <2>1, <2>3 DEF Unheard, OnBotDisconnect, Quiet, Core!Join, Core!ValueChanges,
       Core!LevelShutdownAgain, Core!BotDisconnect, Core!watchVars
  <2>4. CASE \/ \E s \in Slots : OnPlayerConnect(s) \/ OnChat(s)
             \/ \E m \in Maps : OnLevelInit(m)
             \/ OnLevelShutdown
    BY <1>3, <2>1, <2>4, MessagesTyped, KindOf, ThrownUnsynced
    DEF OnPlayerConnect, OnChat, OnLevelInit, OnLevelShutdown, coreVars, Core!PlayerConnect,
        Core!LevelInit, Core!LevelShutdown, Core!watchVars
  <2> QED
    BY <1>6, <2>2, <2>3, <2>4 DEF Hooks
<1>7. CASE Tick
  BY <1>4, <1>7 DEF Tick, Quiet, taskVars, Core!ServerTick, Core!UpdateUnchanged,
     Core!SweepDone, Core!watchVars
<1>8. ASSUME NEW s \in Slots, NEW w \in Watches, OnValueChanged(s, w)
      PROVE  picture'.value[t][x] = previous'[t][x]
  <2>1. UpdateMsg(s, w) \in Packets /\ UpdateMsg(s, w).kind # "init"
    BY MessagesTyped, KindOf
  <2>2. /\ Synced /\ picture' = Apply(picture, UpdateMsg(s, w))
        /\ task # "announce"
    BY <1>8, <2>1, EnqueuedSynced DEF OnValueChanged, TypeInv, taskVars
  <2>3. /\ previous' = [previous EXCEPT ![s][w] = value[s][w]]
        /\ initialized' = [initialized EXCEPT ![s][w] = TRUE]
    BY <1>8 DEF OnValueChanged, Core!UpdateChanged
  <2>4. picture'.value = [picture.value EXCEPT ![s][w] = value[s][w]]
    BY <1>1, <2>2, ApplyUpdate
  <2>5. CASE t = s /\ x = w
    BY <1>1, <2>3, <2>4, <2>5
  <2>6. CASE ~(t = s /\ x = w)
    <3>1. previous'[t][x] = previous[t][x]
      BY <1>1, <2>3, <2>6, ExceptElsewhere
    <3>2. initialized'[t][x] = initialized[t][x]
      BY <1>1, <2>3, <2>6, ExceptElsewhere
    <3>3. picture'.value[t][x] = picture.value[t][x]
      BY <1>1, <2>4, <2>6, ExceptElsewhere
    <3> QED
      BY <1>2, <2>2, <3>1, <3>2, <3>3
  <2> QED
    BY <2>5, <2>6
<1>9. CASE Announced
  BY <1>9 DEF Announced, Core!ResetWatches, Slots, Watches
<1>10. ASSUME NEW s \in Slots, KickPlayer(s) PROVE picture'.value[t][x] = previous'[t][x]
  BY <1>5, <1>10 DEF KickPlayer, Dequeue, Core!Kick
<1>11. CASE SendInit \/ \E s \in Slots : Announce(s) \/ AnnounceThrows(s)
  BY <1>11, ThrownUnsynced DEF SendInit, Announce, AnnounceThrows, AnnounceNext, At
<1>12. CASE \/ ReportStat \/ DequeueNothing \/ HandleCommand \/ HandleUnanswered \/ SendAck
            \/ Return \/ \E s \in Slots : KickThrows(s) \/ KickRefused(s)
  BY <1>3, <1>4, <1>12, MessagesTyped, KindOf
  DEF ReportStat, DequeueNothing, KickThrows, KickRefused, HandleCommand, HandleUnanswered,
      SendAck, Return, Dequeue, At, Quiet, coreVars, Core!EndTick, Core!watchVars
<1>13. CASE Network
  <2>1. ~Connect
    BY ConnectUnsynced
  <2>2. UNCHANGED <<initialized, previous, task, picture, lost>>
    BY <1>13, <2>1 DEF Network, Disconnect, Deliver, ServerAsksInit, ServerAsks, Arrive,
       coreVars, taskVars, outVars
  <2> QED
    BY <1>2, <2>2 DEF Synced
<1>14. CASE UNCHANGED vars
  BY <1>4, <1>14 DEF vars, coreVars, taskVars
<1> QED
  BY <1>6, <1>7, <1>8, <1>9, <1>10, <1>11, <1>12, <1>13, <1>14 DEF Next, Sweep, OnTick

\* A watch that will keep silent has told this connection's server, whatever
\* resets, kicks and reconnections there were.
THEOREM ValuesCorrect == Spec => []ValuesExact
<1>1. Init => ValuesExact
  BY DEF Init, ValuesExact, Synced, Blank
<1>2. CoreInv /\ TypeInv /\ ValuesExact /\ [Next]_vars => ValuesExact'
  BY ValuesExactStep
<1> QED
  BY <1>1, <1>2, CoreInvariance, TypeInvariance, PTL DEF Spec

-----------------------------------------------------------------------------
(* What a step may do.                                                        *)

LEMMA GrowsByEnqueue ==
    ASSUME OutOK, NEW p \in Packets, Enqueue(p), Len(queue') > Len(queue)
    PROVE  queue'[Len(queue')] = p
BY DEF OutOK, Enqueue, Queued, NotQueued

\* News of a slot is queued only if the packets before it have put a player there.
THEOREM NewsCorrect == Spec => NewsOfPlayers
<1> DEFINE News(s) ==
      /\ Synced /\ queue' # queue /\ Len(queue') > Len(queue)
      /\ LET p == queue'[Len(queue')] IN
            p.kind \in {"disconnect", "update", "chat"} /\ p.slot = s
<1>1. ASSUME CoreInv, TypeInv, PlayersHalf, Next, NEW s \in Slots, News(s)
      PROVE  picture.player[s] # NoOne
  <2>1. SUFFICES players[s] /\ s \notin announce
    BY <1>1, KnownPlayer DEF CoreInv, PlayersHalf
  <2>2. /\ pc # "on_tick" => announce = {}
        /\ task # "announce" => announce = {}
    BY <1>1 DEF TypeInv, TaskOK
  <2>3. \A p \in Packets : Enqueue(p) => p.kind \in {"disconnect", "update", "chat"} /\ p.slot = s
    BY <1>1, GrowsByEnqueue DEF TypeInv
  <2>4. ~(UNCHANGED outVars) /\ \A u : ~Throw(u)
    BY <1>1 DEF outVars, Throw, NotQueued
  <2>5. CASE Hooks
    <3>1. CASE \E u \in Slots : OnPlayerDisconnect(u)
      BY <1>1, <2>2, <2>3, <3>1, MessagesTyped
      DEF OnPlayerDisconnect, Core!PlayerDisconnect, Core!RemovePlayer, Core!EngineEvent,
          DisconnectMsg
    <3>2. CASE \E u \in Slots : OnChat(u)
      BY <1>1, <2>2, <2>3, <3>2, MessagesTyped DEF OnChat, ChatMsg
    <3>3. CASE \/ Unheard \/ OnLevelShutdown \/ \E m \in Maps : OnLevelInit(m)
               \/ \E u \in Slots : OnPlayerConnect(u) \/ OnBotDisconnect(u)
      BY <1>1, <2>3, <2>4, <3>3, MessagesTyped, KindOf
      DEF Unheard, OnLevelShutdown, OnLevelInit, OnPlayerConnect, OnBotDisconnect, Quiet
    <3> QED
      BY <2>5, <3>1, <3>2, <3>3 DEF Hooks
  <2>6. CASE Tick
    BY <2>4, <2>6 DEF Tick, Quiet
  <2>7. CASE Sweep
    <3>1. PICK u \in Slots, w \in Watches : OnValueChanged(u, w)
      BY <2>7 DEF Sweep
    <3>2. u = s
      BY <1>1, <2>3, <3>1, MessagesTyped DEF OnValueChanged, UpdateMsg
    <3>3. pc = "sweep" /\ <<s, w>> \in visit
      BY <3>1, <3>2 DEF OnValueChanged, Core!UpdateChanged, Core!AtWatch
    <3> QED
      BY <1>1, <2>2, <3>3 DEF CoreInv, Core!ValidSlots
  <2>8. CASE OnTick
    <3>1. CASE \E u \in Slots : KickPlayer(u)
      BY <1>1, <2>2, <2>3, <3>1, MessagesTyped
      DEF KickPlayer, Dequeue, Core!Kick, Core!RemovePlayer, DisconnectMsg
    <3>2. CASE \/ ReportStat \/ SendInit \/ SendAck \/ \E u \in Slots : Announce(u)
      BY <1>1, <2>3, <3>2, MessagesTyped, KindOf DEF ReportStat, SendInit, SendAck, Announce
    <3>3. CASE \/ DequeueNothing \/ Announced \/ HandleCommand \/ HandleUnanswered \/ Return
               \/ \E u \in Slots : AnnounceThrows(u) \/ KickThrows(u) \/ KickRefused(u)
      BY <2>4, <3>3 DEF DequeueNothing, Announced, HandleCommand, HandleUnanswered, Return,
         AnnounceThrows, KickThrows, KickRefused, Quiet
    <3> QED
      BY <2>8, <3>1, <3>2, <3>3 DEF OnTick
  <2>9. CASE Network
    <3>1. Len(queue) \in Nat /\ (queue # <<>> => Len(Tail(queue)) = Len(queue) - 1)
      BY <1>1, HeadTailProperties DEF TypeInv, OutOK
    <3>2. Connect => Len(queue') = 0
      BY DEF Connect
    <3> QED
      BY <1>1, <2>4, <2>9, <3>1, <3>2 DEF Network, Disconnect, Deliver, ServerAsksInit,
         ServerAsks, Arrive
  <2> QED
    BY <1>1, <2>5, <2>6, <2>7, <2>8, <2>9 DEF Next
<1>2. CoreInv /\ TypeInv /\ PlayersHalf /\ [Next]_vars
        => [\A s \in Slots : News(s) => picture.player[s] # NoOne]_vars
  BY <1>1
<1> QED
  BY <1>2, CoreInvariance, TypeInvariance, PlayersInvariance, PTL DEF Spec, NewsOfPlayers

\* While on_tick runs, the only player who leaves is the one whom the request it
\* handles names by slot and Steam ID.
THEOREM KickCorrect == Spec => KicksTheOneMeant
<1>1. ASSUME Next, NEW s \in Slots, pc = "on_tick", client[s] # NoOne, client'[s] = NoOne
      PROVE  Head(queue_incoming) = KickRequest(s, client[s]) /\ task' = "ack"
  <2>1. CASE Hooks \/ Tick \/ Sweep
    BY <1>1, <2>1 DEF Hooks, Tick, Sweep, Unheard, OnPlayerConnect, OnPlayerDisconnect,
       OnBotDisconnect, OnChat, OnLevelInit, OnLevelShutdown, OnValueChanged, Core!Join,
       Core!ValueChanges, Core!LevelShutdownAgain, Core!PlayerConnect,
       Core!PlayerDisconnect, Core!BotDisconnect, Core!LevelInit, Core!LevelShutdown,
       Core!EngineEvent, Core!ServerTick, Core!UpdateUnchanged, Core!UpdateChanged,
       Core!AtWatch, Core!SweepDone
  <2>2. ASSUME NEW u \in Slots, KickPlayer(u)
        PROVE  Head(queue_incoming) = KickRequest(s, client[s]) /\ task' = "ack"
    <3>1. client' = [client EXCEPT ![u] = NoOne]
      BY <2>2 DEF KickPlayer, Core!Kick, Core!RemovePlayer
    <3>2. u = s
      BY <1>1, <3>1
    <3> QED
      BY <2>2, <3>2 DEF KickPlayer, Dequeue
  <2>3. CASE OnTick /\ ~(\E u \in Slots : KickPlayer(u))
    BY <1>1, <2>3 DEF OnTick, ReportStat, DequeueNothing, SendInit, Announced, Announce,
       AnnounceThrows, AnnounceNext, KickThrows, KickRefused, HandleCommand,
       HandleUnanswered, SendAck, Return, coreVars, Core!ResetWatches, Core!EndTick,
       Core!engineVars
  <2>4. CASE Network
    BY <1>1, <2>4 DEF Network, Connect, Disconnect, Deliver, ServerAsksInit, ServerAsks,
       Arrive, coreVars
  <2> QED
    BY <1>1, <2>1, <2>2, <2>3, <2>4 DEF Next, OnTick
<1>2. [Next]_vars =>
        [ \A s \in Slots :
            pc = "on_tick" /\ client[s] # NoOne /\ client'[s] = NoOne =>
                /\ Head(queue_incoming) = KickRequest(s, client[s])
                /\ task' = "ack" ]_vars
  BY <1>1
<1> QED
  BY <1>2, PTL DEF Spec, KicksTheOneMeant

-----------------------------------------------------------------------------
(* When network channels are missing.                                         *)

\* No packet since the last CONNECTION_INIT found a full queue.
Roomy == picture.synced /\ "full" \notin lost

LEMMA EnqueuedRoomy ==
    ASSUME OutOK, NEW p \in Packets, Enqueue(p), Roomy'
    PROVE  picture' = Apply(picture, p) /\ (p.kind # "init" => Roomy)
<1>1. Queued(p)
  BY DEF Enqueue, NotQueued, Roomy
<1> QED
  BY <1>1, ApplyEffect DEF Queued, Roomy, OutOK

LEMMA UnchangedRoomy ==
    ASSUME UNCHANGED outVars \/ \E s : Throw(s), Roomy'
    PROVE  Roomy /\ picture' = picture
BY DEF outVars, Throw, NotQueued, Roomy

\* Nothing false is known of this slot.
NoneFalse(s) ==
    /\ picture.player[s] \in {NoOne, PlayersKnown[s]}
    /\ \A w \in Watches : picture.value[s][w] \in {NoValue, previous[s][w]}

LEMMA NothingFalseStep ==
    ASSUME CoreInv, TypeInv, NothingFalse, [Next]_vars PROVE NothingFalse'
<1> SUFFICES ASSUME Roomy', NEW t \in Slots PROVE NoneFalse(t)'
  BY DEF NothingFalse, NoneFalse, Roomy, Slots, Core!Slots, Watches, Core!Watches
<1>1. /\ client \in [Slots -> People \cup {NoOne}]
      /\ players \in [Slots -> BOOLEAN]
      /\ previous \in [Slots -> [Watches -> Values]]
      /\ players[t] => client[t] # NoOne
      /\ picture \in Pictures /\ picture.player \in [Slots -> People \cup {NoOne}]
      /\ picture.value \in [Slots -> [Watches -> Values \cup {NoValue}]]
      /\ pc # "on_tick" => announce = {}
      /\ task # "announce" => announce = {}
      /\ announce \subseteq {s \in Slots : players[s]}
  BY DEF CoreInv, Core!TypeOK, TypeInv, TaskOK, OutOK, Pictures, Core!ValidSlots, Slots,
     Watches
<1>2. Roomy => NoneFalse(t)
  BY DEF NothingFalse, Roomy, NoneFalse
\* A step that leaves the picture, or at least this slot's, keeps what is known.
<1>3. /\ Roomy /\ UNCHANGED previous
      /\ picture'.player = picture.player /\ picture'.value = picture.value
      /\ PlayersKnown[t] \in {NoOne, PlayersKnown'[t]}
      => NoneFalse(t)'
  BY <1>2 DEF NoneFalse, Watches, Core!Watches
<1>4. UNCHANGED <<client, players, announce>> => PlayersKnown'[t] = PlayersKnown[t]
  BY KnownPlayer
<1>5. \A p \in Packets :
         /\ Enqueue(p) /\ UNCHANGED <<client, players, announce, previous>>
         /\ p.kind \notin {"init", "connect", "disconnect", "update"}
         => NoneFalse(t)'
  BY <1>1, <1>3, <1>4, EnqueuedRoomy, ApplyEffect DEF TypeInv
<1>6. /\ UNCHANGED outVars \/ \E s : Throw(s)
      /\ UNCHANGED previous /\ PlayersKnown[t] \in {NoOne, PlayersKnown'[t]}
      => NoneFalse(t)'
  BY <1>3, UnchangedRoomy
<1>7. ASSUME NEW s \in Slots, Core!RemovePlayer(s), Enqueue(DisconnectMsg(s)),
             UNCHANGED announce
      PROVE  NoneFalse(t)'
  <2>1. DisconnectMsg(s) \in Packets /\ DisconnectMsg(s).kind # "init"
    BY MessagesTyped, KindOf
  <2>2. Roomy /\ picture' = Apply(picture, DisconnectMsg(s))
    BY <1>7, <2>1, EnqueuedRoomy DEF TypeInv
  <2>3. /\ picture'.player = [picture.player EXCEPT ![s] = NoOne]
        /\ picture'.value = [picture.value EXCEPT ![s] = [w \in Watches |-> NoValue]]
    BY <1>1, <2>2, ApplyDisconnect
  <2>4. /\ client' = [client EXCEPT ![s] = NoOne] /\ players' = [players EXCEPT ![s] = FALSE]
        /\ UNCHANGED previous
    BY <1>7 DEF Core!RemovePlayer
  <2>5. CASE t = s
    BY <1>1, <2>3, <2>5 DEF NoneFalse, Watches, Core!Watches
  <2>6. CASE t # s
    <3>1. PlayersKnown'[t] = PlayersKnown[t]
      BY <1>1, <1>7, <2>4, <2>6, KnownPlayer
    <3>2. picture'.player[t] = picture.player[t] /\ picture'.value[t] = picture.value[t]
      BY <1>1, <2>3, <2>6
    <3> QED
      BY <1>2, <2>2, <2>4, <3>1, <3>2 DEF NoneFalse, Watches, Core!Watches
  <2> QED
    BY <2>5, <2>6
<1>8. ASSUME NEW s \in Slots, Enqueue(ConnectMsg(s)) \/ Throw(s), UNCHANGED <<client, previous>>,
             players' = [players EXCEPT ![s] = TRUE], announce' = announce \ {s}
      PROVE  NoneFalse(t)'
  <2>1. PlayersKnown[t] \in {NoOne, PlayersKnown'[t]} /\ PlayersKnown'[s] = client[s]
    BY <1>1, <1>8, KnownPlayer
  <2>2. CASE Throw(s)
    BY <1>6, <1>8, <2>1, <2>2
  <2>3. CASE Enqueue(ConnectMsg(s))
    <3>1. ConnectMsg(s) \in Packets /\ ConnectMsg(s).kind = "connect"
      BY MessagesTyped, KindOf
    <3>2. Roomy /\ picture' = Apply(picture, ConnectMsg(s))
      BY <2>3, <3>1, EnqueuedRoomy DEF TypeInv
    <3>3. /\ picture'.player = [picture.player EXCEPT ![s] = client[s]]
          /\ picture'.value = picture.value
      BY <1>1, <3>1, <3>2, ApplyConnect, ApplyEffect
    <3> QED
      BY <1>1, <1>2, <1>8, <2>1, <3>2, <3>3 DEF NoneFalse, Watches, Core!Watches
  <2> QED
    BY <1>8, <2>2, <2>3
<1>9. CASE Unheard
  <2>1. UNCHANGED <<outVars, players, announce, previous>>
    BY <1>9 DEF Unheard, Quiet, taskVars, Core!Join, Core!ValueChanges,
       Core!LevelShutdownAgain, Core!watchVars
  <2>2. client'[t] # client[t] => ~players[t]
    BY <1>1, <1>9 DEF Unheard, Core!Join, Core!ValueChanges, Core!LevelShutdownAgain
  <2> QED
    BY <1>6, <2>1, <2>2, KnownPlayer
<1>10. ASSUME NEW s \in Slots, OnPlayerConnect(s) PROVE NoneFalse(t)'
  BY <1>1, <1>8, <1>10
  DEF OnPlayerConnect, Core!PlayerConnect, Core!EngineEvent, Core!engineVars, Core!watchVars,
      taskVars
<1>11. ASSUME NEW s \in Slots, OnPlayerDisconnect(s) PROVE NoneFalse(t)'
  BY <1>7, <1>11 DEF OnPlayerDisconnect, Core!PlayerDisconnect, taskVars
<1>12. ASSUME NEW s \in Slots, OnBotDisconnect(s) PROVE NoneFalse(t)'
  <2>1. UNCHANGED <<outVars, players, announce, previous>>
    BY <1>12 DEF OnBotDisconnect, Quiet, taskVars, Core!BotDisconnect, Core!watchVars
  <2>2. client'[t] # client[t] => ~players[t]
    BY <1>1, <1>12 DEF OnBotDisconnect, Core!BotDisconnect
  <2> QED
    BY <1>6, <2>1, <2>2, KnownPlayer
<1>13. CASE (\E s \in Slots : OnChat(s)) \/ (\E m \in Maps : OnLevelInit(m)) \/ OnLevelShutdown
  BY <1>5, <1>13, MessagesTyped, KindOf
  DEF OnChat, OnLevelInit, OnLevelShutdown, coreVars, taskVars, Core!LevelInit,
      Core!LevelShutdown, Core!watchVars
<1>14. CASE Tick
  BY <1>4, <1>6, <1>14
  DEF Tick, Quiet, taskVars, Core!ServerTick, Core!UpdateUnchanged, Core!SweepDone,
      Core!engineVars, Core!watchVars
<1>15. ASSUME NEW s \in Slots, NEW w \in Watches, OnValueChanged(s, w) PROVE NoneFalse(t)'
  <2>1. UpdateMsg(s, w) \in Packets /\ UpdateMsg(s, w).kind = "update"
    BY MessagesTyped, KindOf
  <2>2. Roomy /\ picture' = Apply(picture, UpdateMsg(s, w))
    BY <1>15, <2>1, EnqueuedRoomy DEF OnValueChanged, TypeInv
  <2>3. /\ picture'.value = [picture.value EXCEPT ![s][w] = value[s][w]]
        /\ picture'.player = picture.player
    <3>1. picture'.value = [picture.value EXCEPT ![s][w] = value[s][w]]
      BY <1>1, <2>2, ApplyUpdate
    <3>2. picture'.player = picture.player
      BY <1>1, <2>1, <2>2, ApplyEffect
    <3> QED
      BY <3>1, <3>2
  <2>4. previous' = [previous EXCEPT ![s][w] = value[s][w]] /\ PlayersKnown'[t] = PlayersKnown[t]
    BY <1>4, <1>15 DEF OnValueChanged, taskVars, Core!UpdateChanged, Core!engineVars
  <2>5. ASSUME NEW x \in Watches PROVE picture'.value[t][x] \in {NoValue, previous'[t][x]}
    <3>1. CASE t = s /\ x = w
      BY <1>1, <2>3, <2>4, <3>1
    <3>2. CASE t # s \/ x # w
      <4>1. previous'[t][x] = previous[t][x]
        BY <1>1, <2>4, <3>2, ExceptElsewhere
      <4>2. picture'.value[t][x] = picture.value[t][x]
        BY <1>1, <2>3, <3>2, ExceptElsewhere
      <4> QED
        BY <1>2, <2>2, <4>1, <4>2 DEF NoneFalse
    <3> QED
      BY <3>1, <3>2
  <2> QED
    BY <1>2, <2>2, <2>3, <2>4, <2>5 DEF NoneFalse, Watches, Core!Watches
<1>16. CASE SendInit
  <2>1. picture' = Blank(TRUE, level_name)
    BY <1>16, MessagesTyped, EnqueuedRoomy, ApplyInit DEF SendInit, TypeInv
  <2> QED
    BY <2>1 DEF Blank, NoneFalse, Slots, Watches, Core!Watches
<1>17. ASSUME NEW s \in Slots, Announce(s) PROVE NoneFalse(t)'
  <2>1. players' = [players EXCEPT ![s] = TRUE] /\ UNCHANGED <<client, previous>>
    BY <1>1, <1>17 DEF Announce, AnnounceNext, coreVars
  <2> QED
    BY <1>8, <1>17, <2>1 DEF Announce
<1>18. ASSUME NEW s \in Slots, AnnounceThrows(s) PROVE NoneFalse(t)'
  <2>1. UNCHANGED <<client, players, previous>> /\ announce' = {}
    BY <1>18 DEF AnnounceThrows, AnnounceNext, coreVars
  <2>2. PlayersKnown[t] \in {NoOne, PlayersKnown'[t]}
    BY <2>1, KnownPlayer
  <2> QED
    BY <1>6, <1>18, <2>1, <2>2 DEF AnnounceThrows
<1>19. ASSUME NEW s \in Slots, KickPlayer(s) PROVE NoneFalse(t)'
  BY <1>7, <1>19 DEF KickPlayer, Core!Kick
<1>20. CASE \/ DequeueNothing \/ Announced \/ HandleCommand \/ HandleUnanswered \/ Return
            \/ \E s \in Slots : KickThrows(s) \/ KickRefused(s)
  BY <1>4, <1>6, <1>20
  DEF DequeueNothing, Announced, KickThrows, KickRefused, HandleCommand, HandleUnanswered,
      Return, Quiet, coreVars, Core!ResetWatches, Core!EndTick, Core!engineVars, Core!watchVars
<1>21. CASE ReportStat \/ SendAck
  BY <1>5, <1>21, MessagesTyped, KindOf DEF ReportStat, SendAck, coreVars
<1>22. CASE Network
  <2>1. ~Connect
    BY ConnectUnsynced DEF Roomy
  <2>2. UNCHANGED <<client, players, announce, previous, picture, lost>>
    BY <1>22, <2>1 DEF Network, Disconnect, Deliver, ServerAsksInit, ServerAsks, Arrive,
       coreVars, taskVars, outVars
  <2> QED
    BY <1>3, <1>4, <2>2 DEF Roomy
<1>23. CASE UNCHANGED vars
  BY <1>4, <1>6, <1>23 DEF vars, coreVars, taskVars
<1> QED
  BY <1>9, <1>10, <1>11, <1>12, <1>13, <1>14, <1>15, <1>16, <1>17, <1>18, <1>19, <1>20, <1>21,
     <1>22, <1>23
  DEF Next, Hooks, Sweep, OnTick

\* However many packets are never made for want of a network channel, nothing the
\* server is told turns false.
THEOREM NothingFalseCorrect == Spec => []NothingFalse
<1>1. Init => NothingFalse
  BY DEF Init, NothingFalse, Blank
<1>2. CoreInv /\ TypeInv /\ NothingFalse /\ [Next]_vars => NothingFalse'
  BY NothingFalseStep
<1> QED
  BY <1>1, <1>2, CoreInvariance, TypeInvariance, PTL DEF Spec
=============================================================================
