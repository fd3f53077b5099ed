----------------------------- MODULE DddAbsCore -----------------------------
(* ddd_abstraction: the game's players and the watches on their properties,   *)
(* fed by the engine's hooks on the game's main thread.                       *)
(*                                                                            *)
(* Everything here runs on that one thread, so a hook is one step, except     *)
(* server_tick: its sweep calls back once per changed property and its        *)
(* on_tick may call the core again. What the plugin does in a callback is     *)
(* DddAdmin's: it adds to these actions what the callbacks do. Alone, the     *)
(* core lets on_tick reset the watches and kick players as it likes.          *)
EXTENDS Naturals, FiniteSets

CONSTANTS
    MAX_PLAYER_SLOTS, \* length of players
    WatchCount,       \* watches_count, fixed once Load is done
    FRAMES_PER_WATCH, \* ticks between sweeps
    People,           \* who may be on the game server
    NoOne,            \* an empty slot
    Maps,             \* names of levels
    NoMap,            \* level_name before the first level
    Values,           \* values of a watched property
    MaxEvents         \* bound: events of the engine other than ticks

ASSUME CoreAssumption ==
    /\ MAX_PLAYER_SLOTS \in Nat /\ WatchCount \in Nat /\ FRAMES_PER_WATCH \in Nat
    /\ NoOne \notin People
    /\ NoMap \notin Maps
    /\ Values # {}
    /\ MaxEvents \in Nat

VARIABLES
    client,       \* the engine's: who is in each slot
    value,        \* the engine's: the watched properties of each slot's entity
    running,      \* the engine's: a level runs, so there are ticks
    events,       \* how many events there have been
    players,      \* players[s]: the slot is valid
    initialized,  \* initialized[s][w]: watch w has told of the slot's value
    previous,     \* previous[s][w]: the value it told last
    watch_timer,  \* ticks since the last sweep
    level_active, \* a level has been announced and its end has not
    level_name,   \* the last level announced
    pc,           \* where the main thread is: "engine", "sweep" or "on_tick"
    visit         \* the slots and watches the sweep has yet to visit

engineVars == <<client, value, running>>
watchVars == <<initialized, previous>>
levelVars == <<level_active, level_name>>
tickVars == <<watch_timer, pc, visit>>
coreVars == <<engineVars, events, players, watchVars, levelVars, tickVars>>

\* The slots enumerate_players goes through, in that order.
Slots == 0 .. MAX_PLAYER_SLOTS - 1

Watches == 1 .. WatchCount

\* previous is malloc's, so it starts with anything. The plugin may be loaded
\* while a level runs, with people in it: the core has then been told of no
\* level and no player.
Init ==
    /\ client \in [Slots -> People \cup {NoOne}]
    /\ \A s, t \in Slots : client[s] = client[t] => s = t \/ client[s] = NoOne
    /\ value \in [Slots -> [Watches -> Values]]
    /\ running \in BOOLEAN
    /\ running \/ \A s \in Slots : client[s] = NoOne
    /\ events = 0
    /\ players = [s \in Slots |-> FALSE]
    /\ initialized = [s \in Slots |-> [w \in Watches |-> FALSE]]
    /\ previous \in [Slots -> [Watches -> Values]]
    /\ watch_timer = 0
    /\ level_active = FALSE
    /\ level_name = NoMap
    /\ pc = "engine"
    /\ visit = {}

-----------------------------------------------------------------------------
(* The engine between two ticks.                                              *)

EngineEvent ==
    /\ pc = "engine"
    /\ events < MaxEvents
    /\ events' = events + 1

\* A client takes a free slot. Until ClientFullyConnect, which a bot never gets
\* to, the core does not hear of it.
Join(s, p) ==
    /\ EngineEvent
    /\ client[s] = NoOne
    /\ \A t \in Slots : client[t] # p
    /\ client' = [client EXCEPT ![s] = p]
    /\ \E properties \in [Watches -> Values] : value' = [value EXCEPT ![s] = properties]
    /\ UNCHANGED <<running, players, watchVars, levelVars, tickVars>>

ValueChanges(s, w, v) ==
    /\ EngineEvent
    /\ client[s] # NoOne
    /\ v # value[s][w]
    /\ value' = [value EXCEPT ![s][w] = v]
    /\ UNCHANGED <<client, running, players, watchVars, levelVars, tickVars>>

\* player_connect. The engine fully connects a client again on a new level.
PlayerConnect(s) ==
    /\ EngineEvent
    /\ client[s] # NoOne
    /\ players' = [players EXCEPT ![s] = TRUE]
    /\ UNCHANGED <<engineVars, watchVars, levelVars, tickVars>>

\* Mistake: the watches are not cleared.
RemovePlayerWatched(s) ==
    /\ players[s]
    /\ client' = [client EXCEPT ![s] = NoOne]
    /\ players' = [players EXCEPT ![s] = FALSE]
    /\ UNCHANGED <<value, running, initialized, previous, levelVars, tickVars>>

\* player_disconnect for a player, past the callback.
RemovePlayer(s) ==
    /\ players[s]
    /\ client' = [client EXCEPT ![s] = NoOne]
    /\ players' = [players EXCEPT ![s] = FALSE]
    /\ initialized' = [initialized EXCEPT ![s] = [w \in Watches |-> FALSE]]
    /\ UNCHANGED <<value, running, previous, levelVars, tickVars>>

PlayerDisconnect(s) == EngineEvent /\ RemovePlayer(s)

\* player_disconnect for a slot that is not valid: "this is a bot".
BotDisconnect(s) ==
    /\ EngineEvent
    /\ client[s] # NoOne
    /\ ~players[s]
    /\ client' = [client EXCEPT ![s] = NoOne]
    /\ UNCHANGED <<value, running, players, watchVars, levelVars, tickVars>>

\* Mistake: the name is not copied.
LevelInitUnnamed(m) ==
    /\ EngineEvent
    /\ running' = TRUE
    /\ level_active' = TRUE
    /\ UNCHANGED <<client, value, players, watchVars, level_name, tickVars>>

LevelInit(m) ==
    /\ EngineEvent
    /\ running' = TRUE
    /\ level_active' = TRUE
    /\ level_name' = m
    /\ UNCHANGED <<client, value, players, watchVars, tickVars>>

\* The level's first shutdown. It keeps level_name.
LevelShutdown ==
    /\ EngineEvent
    /\ level_active
    /\ running' = FALSE
    /\ level_active' = FALSE
    /\ UNCHANGED <<client, value, players, watchVars, level_name, tickVars>>

\* Another one, or that of a level which began before the plugin.
LevelShutdownAgain ==
    /\ EngineEvent
    /\ ~level_active
    /\ running' = FALSE
    /\ UNCHANGED <<client, value, players, watchVars, levelVars, tickVars>>

-----------------------------------------------------------------------------
(* server_tick.                                                               *)

\* The slots that enumerate_players yields.
ValidSlots == {s \in Slots : players[s]}

\* Mistake: the timer is not reset for a sweep.
ServerTickNoReset ==
    /\ pc = "engine"
    /\ running
    /\ watch_timer' = watch_timer + 1
    /\ IF watch_timer >= FRAMES_PER_WATCH
       THEN pc' = "sweep" /\ visit' = ValidSlots \X Watches
       ELSE pc' = "on_tick" /\ UNCHANGED visit
    /\ UNCHANGED <<engineVars, events, players, watchVars, levelVars>>

\* Mistake: the timer is reset on every tick.
ServerTickRestarts ==
    /\ pc = "engine"
    /\ running
    /\ watch_timer' = 0
    /\ IF watch_timer + 1 > FRAMES_PER_WATCH
       THEN pc' = "sweep" /\ visit' = ValidSlots \X Watches
       ELSE pc' = "on_tick" /\ UNCHANGED visit
    /\ UNCHANGED <<engineVars, events, players, watchVars, levelVars>>

ServerTick ==
    /\ pc = "engine"
    /\ running
    /\ IF watch_timer >= FRAMES_PER_WATCH
       THEN /\ watch_timer' = 0
            /\ pc' = "sweep"
            /\ visit' = ValidSlots \X Watches
       ELSE /\ watch_timer' = watch_timer + 1
            /\ pc' = "on_tick"
            /\ UNCHANGED visit
    /\ UNCHANGED <<engineVars, events, players, watchVars, levelVars>>

\* The watch the sweep is at: player by player, and for a player watch by watch.
AtWatch(s, w) ==
    /\ pc = "sweep"
    /\ <<s, w>> \in visit
    /\ \A next \in visit : s < next[1] \/ (s = next[1] /\ w <= next[2])

\* Mistake: a slot that was never told of is not a change.
ChangedSinceTold(s, w) == initialized[s][w] /\ previous[s][w] # value[s][w]

Changed(s, w) == ~initialized[s][w] \/ previous[s][w] # value[s][w]

\* DddAbsWatch::update, past the callback.
UpdateChanged(s, w) ==
    /\ AtWatch(s, w)
    /\ Changed(s, w)
    /\ previous' = [previous EXCEPT ![s][w] = value[s][w]]
    /\ initialized' = [initialized EXCEPT ![s][w] = TRUE]
    /\ visit' = visit \ {<<s, w>>}
    /\ UNCHANGED <<engineVars, events, players, levelVars, watch_timer, pc>>

UpdateUnchanged(s, w) ==
    /\ AtWatch(s, w)
    /\ ~Changed(s, w)
    /\ visit' = visit \ {<<s, w>>}
    /\ UNCHANGED <<engineVars, events, players, watchVars, levelVars, watch_timer, pc>>

SweepDone ==
    /\ pc = "sweep"
    /\ visit = {}
    /\ pc' = "on_tick"
    /\ UNCHANGED <<engineVars, events, players, watchVars, levelVars, watch_timer, visit>>

\* What on_tick may call: reset_watches, and kick, in which the engine calls
\* player_disconnect before it returns.
ResetWatches ==
    /\ pc = "on_tick"
    /\ initialized' = [s \in Slots |-> [w \in Watches |-> FALSE]]
    /\ UNCHANGED <<engineVars, events, players, previous, levelVars, tickVars>>

Kick(s) ==
    /\ pc = "on_tick"
    /\ RemovePlayer(s)
    /\ UNCHANGED events

\* on_tick returns, or its exception is caught.
EndTick ==
    /\ pc = "on_tick"
    /\ pc' = "engine"
    /\ UNCHANGED <<engineVars, events, players, watchVars, levelVars, watch_timer, visit>>

-----------------------------------------------------------------------------

Engine ==
    \/ \E s \in Slots, p \in People : Join(s, p)
    \/ \E s \in Slots, w \in Watches, v \in Values : ValueChanges(s, w, v)
    \/ \E s \in Slots : PlayerConnect(s) \/ PlayerDisconnect(s) \/ BotDisconnect(s)
    \/ \E m \in Maps : LevelInit(m)
    \/ LevelShutdown
    \/ LevelShutdownAgain

Sweep ==
    \/ \E s \in Slots, w \in Watches : UpdateChanged(s, w) \/ UpdateUnchanged(s, w)
    \/ SweepDone

OnTick == ResetWatches \/ \E s \in Slots : Kick(s)

Next == Engine \/ ServerTick \/ Sweep \/ OnTick \/ EndTick

Spec == Init /\ [][Next]_coreVars

\* The engine ticks while a level runs, and a tick comes to its end.
Fairness == WF_coreVars(ServerTick) /\ WF_coreVars(Sweep) /\ WF_coreVars(EndTick)

FairSpec == Spec /\ Fairness

-----------------------------------------------------------------------------
(* Properties.                                                                *)

\* The fields of DddAbsCore, DddAbsPlayer and DddAbsWatch, and the engine's;
\* watch_timer never passes FRAMES_PER_WATCH, and there is something to visit
\* only in a sweep.
TypeOK ==
    /\ client \in [Slots -> People \cup {NoOne}]
    /\ value \in [Slots -> [Watches -> Values]]
    /\ running \in BOOLEAN
    /\ events \in 0 .. MaxEvents
    /\ players \in [Slots -> BOOLEAN]
    /\ initialized \in [Slots -> [Watches -> BOOLEAN]]
    /\ previous \in [Slots -> [Watches -> Values]]
    /\ watch_timer \in 0 .. FRAMES_PER_WATCH
    /\ level_active \in BOOLEAN
    /\ level_name \in Maps \cup {NoMap}
    /\ pc \in {"engine", "sweep", "on_tick"}
    /\ visit \subseteq Slots \X Watches
    /\ visit # {} => pc = "sweep"

\* What a watch has told is of the player now in the slot: nobody inherits the
\* values of whoever had the slot before, however they left
\* (core.cpp:83-107, watch.cpp:31-56).
WatchesOfPlayers ==
    \A s \in Slots, w \in Watches : initialized[s][w] => players[s] /\ client[s] # NoOne

\* After a sweep every watch has told the value its player has now, whatever
\* previous held when it was allocated (core.cpp:47-54, watch.cpp:31-52).
Current(s, w) == initialized[s][w] /\ previous[s][w] = value[s][w]

SweptAll == \A s \in ValidSlots, w \in Watches : Current(s, w)

SweepTellsAll == [][pc = "sweep" /\ pc' = "on_tick" => SweptAll]_coreVars

\* A value that lasts while its player stays and the level runs is told, although
\* a tick between may reset the watches.
ValueTold ==
    \A s \in Slots, w \in Watches, v \in Values :
        players[s] /\ value[s][w] = v
            ~> \/ initialized[s][w] /\ previous[s][w] = v
               \/ ~players[s] \/ value[s][w] # v \/ ~running
=============================================================================
