-------------------------- MODULE DddAbsCoreProofs --------------------------
(* That DddAbsCore keeps its types, that a watch has told of nobody but the   *)
(* player now in the slot, and that a sweep tells everything, for any number  *)
(* of slots, watches, people and values.                                      *)
EXTENDS DddAbsCore, TLAPS

\* A valid slot has a client in it.
PlayersIn == \A s \in Slots : players[s] => client[s] # NoOne

\* The part of WatchesOfPlayers that a step needs.
ToldValid == \A s \in Slots, w \in Watches : initialized[s][w] => players[s]

\* Within a sweep every watch of every player is either still to be visited or
\* has told the current value: nothing changes under the sweep.
SweepHalf ==
    /\ visit \subseteq ValidSlots \X Watches
    /\ pc = "sweep" =>
        \A s \in Slots, w \in Watches : players[s] => <<s, w>> \in visit \/ Current(s, w)

IInv == TypeOK /\ PlayersIn /\ ToldValid /\ SweepHalf

-----------------------------------------------------------------------------
(* The initial states.                                                        *)

LEMMA InitIInv == ASSUME Init PROVE IInv
<1> USE DEF Init
<1>1. client \in [Slots -> People \cup {NoOne}]
  OBVIOUS
<1>2. /\ players \in [Slots -> BOOLEAN]
      /\ initialized \in [Slots -> [Watches -> BOOLEAN]]
  OBVIOUS
<1>3. events \in 0 .. MaxEvents /\ watch_timer \in 0 .. FRAMES_PER_WATCH
  BY CoreAssumption
<1>4. TypeOK
  BY <1>1, <1>2, <1>3 DEF TypeOK
<1>5. PlayersIn /\ ToldValid /\ SweepHalf
  BY DEF PlayersIn, ToldValid, SweepHalf
<1> QED
  BY <1>4, <1>5 DEF IInv

-----------------------------------------------------------------------------
(* The steps between two ticks. None happens in a sweep.                      *)

LEMMA JoinIInv ==
    ASSUME IInv, NEW s \in Slots, NEW p \in People, Join(s, p) PROVE IInv'
<1> USE DEF Join, EngineEvent, watchVars, levelVars, tickVars
<1>1. TypeOK'
  BY CoreAssumption DEF IInv, TypeOK
<1>2. PlayersIn'
  BY CoreAssumption DEF IInv, TypeOK, PlayersIn
<1>3. ToldValid' /\ SweepHalf'
  BY DEF IInv, TypeOK, ToldValid, SweepHalf, ValidSlots
<1> QED
  BY <1>1, <1>2, <1>3 DEF IInv

LEMMA ValueChangesIInv ==
    ASSUME IInv, NEW s \in Slots, NEW w \in Watches, NEW v \in Values,
           ValueChanges(s, w, v)
    PROVE  IInv'
<1> USE DEF ValueChanges, EngineEvent, watchVars, levelVars, tickVars
<1>1. TypeOK'
  BY CoreAssumption DEF IInv, TypeOK
<1>2. PlayersIn' /\ ToldValid' /\ SweepHalf'
  BY DEF IInv, TypeOK, PlayersIn, ToldValid, SweepHalf, ValidSlots
<1> QED
  BY <1>1, <1>2 DEF IInv

LEMMA PlayerConnectIInv ==
    ASSUME IInv, NEW s \in Slots, PlayerConnect(s) PROVE IInv'
<1> USE DEF PlayerConnect, EngineEvent, engineVars, watchVars, levelVars, tickVars
<1>1. TypeOK'
  BY CoreAssumption DEF IInv, TypeOK
<1>2. PlayersIn' /\ ToldValid' /\ SweepHalf'
  BY DEF IInv, TypeOK, PlayersIn, ToldValid, SweepHalf, ValidSlots
<1> QED
  BY <1>1, <1>2 DEF IInv

\* A player leaves, by itself or by a kick.
LEMMA RemovePlayerIInv ==
    ASSUME IInv, NEW s \in Slots, RemovePlayer(s), pc # "sweep",
           events' \in 0 .. MaxEvents
    PROVE  IInv'
<1> USE DEF RemovePlayer, levelVars, tickVars
<1>1. TypeOK'
  BY CoreAssumption DEF IInv, TypeOK
<1>2. PlayersIn'
  BY DEF IInv, TypeOK, PlayersIn
<1>3. ToldValid'
  BY DEF IInv, TypeOK, ToldValid
<1>4. SweepHalf'
  BY DEF IInv, TypeOK, SweepHalf
<1> QED
  BY <1>1, <1>2, <1>3, <1>4 DEF IInv

LEMMA BotDisconnectIInv ==
    ASSUME IInv, NEW s \in Slots, BotDisconnect(s) PROVE IInv'
<1> USE DEF BotDisconnect, EngineEvent, watchVars, levelVars, tickVars
<1>1. TypeOK'
  BY CoreAssumption DEF IInv, TypeOK
<1>2. PlayersIn' /\ ToldValid' /\ SweepHalf'
  BY DEF IInv, TypeOK, PlayersIn, ToldValid, SweepHalf, ValidSlots
<1> QED
  BY <1>1, <1>2 DEF IInv

LEMMA LevelInitIInv == ASSUME IInv, NEW m \in Maps, LevelInit(m) PROVE IInv'
<1> USE DEF LevelInit, EngineEvent, watchVars, tickVars
<1>1. TypeOK'
  BY CoreAssumption DEF IInv, TypeOK
<1>2. PlayersIn' /\ ToldValid' /\ SweepHalf'
  BY DEF IInv, TypeOK, PlayersIn, ToldValid, SweepHalf, ValidSlots
<1> QED
  BY <1>1, <1>2 DEF IInv

LEMMA LevelShutdownIInv ==
    ASSUME IInv, LevelShutdown \/ LevelShutdownAgain PROVE IInv'
<1> USE DEF LevelShutdown, LevelShutdownAgain, EngineEvent, watchVars, levelVars, tickVars
<1>1. running' \in BOOLEAN /\ level_active' \in BOOLEAN
  BY DEF IInv, TypeOK
<1>2. events' \in 0 .. MaxEvents
  BY CoreAssumption DEF IInv, TypeOK
<1>3. UNCHANGED <<client, value, players, watchVars, level_name, tickVars>>
  OBVIOUS
<1>4. TypeOK'
  BY <1>1, <1>2, <1>3 DEF IInv, TypeOK
<1>5. PlayersIn' /\ ToldValid' /\ SweepHalf'
  BY <1>3 DEF IInv, TypeOK, PlayersIn, ToldValid, SweepHalf, ValidSlots
<1> QED
  BY <1>4, <1>5 DEF IInv

-----------------------------------------------------------------------------
(* The steps of a tick.                                                       *)

LEMMA ServerTickIInv == ASSUME IInv, ServerTick PROVE IInv'
<1> USE DEF ServerTick, engineVars, watchVars, levelVars
<1>1. TypeOK'
  BY CoreAssumption DEF IInv, TypeOK, ValidSlots
<1>2. PlayersIn' /\ ToldValid'
  BY DEF IInv, PlayersIn, ToldValid
<1>3. SweepHalf'
  <2>1. CASE watch_timer >= FRAMES_PER_WATCH
    BY <2>1 DEF SweepHalf, ValidSlots
  <2>2. CASE ~(watch_timer >= FRAMES_PER_WATCH)
    BY <2>2 DEF IInv, TypeOK, SweepHalf
  <2> QED
    BY <2>1, <2>2
<1> QED
  BY <1>1, <1>2, <1>3 DEF IInv

LEMMA UpdateChangedIInv ==
    ASSUME IInv, NEW s \in Slots, NEW w \in Watches, UpdateChanged(s, w) PROVE IInv'
<1> USE DEF UpdateChanged, AtWatch, engineVars, levelVars
<1>1. TypeOK'
  BY CoreAssumption DEF IInv, TypeOK
<1>2. PlayersIn'
  BY DEF IInv, PlayersIn
<1>3. players[s]
  BY DEF IInv, SweepHalf, ValidSlots
<1>4. ToldValid'
  BY <1>3 DEF IInv, TypeOK, ToldValid
<1>5. SweepHalf'
  BY DEF IInv, TypeOK, SweepHalf, ValidSlots, Current
<1> QED
  BY <1>1, <1>2, <1>4, <1>5 DEF IInv

LEMMA UpdateUnchangedIInv ==
    ASSUME IInv, NEW s \in Slots, NEW w \in Watches, UpdateUnchanged(s, w) PROVE IInv'
<1> USE DEF UpdateUnchanged, AtWatch, engineVars, watchVars, levelVars
<1>1. TypeOK'
  BY CoreAssumption DEF IInv, TypeOK
<1>2. PlayersIn' /\ ToldValid'
  BY DEF IInv, PlayersIn, ToldValid
<1>3. SweepHalf'
  BY DEF IInv, TypeOK, SweepHalf, ValidSlots, Current, Changed
<1> QED
  BY <1>1, <1>2, <1>3 DEF IInv

LEMMA SweepDoneIInv == ASSUME IInv, SweepDone PROVE IInv'
<1> USE DEF SweepDone, engineVars, watchVars, levelVars
<1>1. TypeOK'
  BY DEF IInv, TypeOK
<1>2. PlayersIn' /\ ToldValid' /\ SweepHalf'
  BY DEF IInv, PlayersIn, ToldValid, SweepHalf, ValidSlots
<1> QED
  BY <1>1, <1>2 DEF IInv

LEMMA ResetWatchesIInv == ASSUME IInv, ResetWatches PROVE IInv'
<1> USE DEF ResetWatches, engineVars, levelVars, tickVars
<1>1. TypeOK'
  BY DEF IInv, TypeOK
<1>2. PlayersIn' /\ ToldValid'
  BY DEF IInv, PlayersIn, ToldValid
<1>3. SweepHalf'
  BY DEF IInv, SweepHalf, ValidSlots
<1> QED
  BY <1>1, <1>2, <1>3 DEF IInv

LEMMA EndTickIInv == ASSUME IInv, EndTick PROVE IInv'
<1> USE DEF EndTick, engineVars, watchVars, levelVars
<1>1. TypeOK'
  BY DEF IInv, TypeOK
<1>2. PlayersIn' /\ ToldValid' /\ SweepHalf'
  BY DEF IInv, PlayersIn, ToldValid, SweepHalf, ValidSlots
<1> QED
  BY <1>1, <1>2 DEF IInv

-----------------------------------------------------------------------------
(* The theorems.                                                              *)

LEMMA NextIInv == ASSUME IInv, [Next]_coreVars PROVE IInv'
<1>1. CASE Engine
  <2>1. ASSUME NEW s \in Slots, PlayerDisconnect(s) PROVE IInv'
    BY <2>1, RemovePlayerIInv, CoreAssumption
    DEF PlayerDisconnect, EngineEvent, IInv, TypeOK
  <2> QED
    BY <1>1, <2>1, JoinIInv, ValueChangesIInv, PlayerConnectIInv, BotDisconnectIInv,
       LevelInitIInv, LevelShutdownIInv DEF Engine
<1>2. CASE Sweep
  BY <1>2, UpdateChangedIInv, UpdateUnchangedIInv, SweepDoneIInv DEF Sweep
<1>3. ASSUME NEW s \in Slots, Kick(s) PROVE IInv'
  BY <1>3, RemovePlayerIInv DEF Kick, IInv, TypeOK
<1>4. CASE UNCHANGED coreVars
  BY <1>4 DEF coreVars, engineVars, watchVars, levelVars, tickVars, IInv, TypeOK,
     PlayersIn, ToldValid, SweepHalf, ValidSlots, Current
<1> QED
  BY <1>1, <1>2, <1>3, <1>4, ServerTickIInv, ResetWatchesIInv, EndTickIInv
  DEF Next, OnTick

LEMMA Invariance == Spec => []IInv
<1>1. Init => IInv
  BY InitIInv
<1>2. IInv /\ [Next]_coreVars => IInv'
  BY NextIInv
<1> QED
  BY <1>1, <1>2, PTL DEF Spec

\* The core keeps its types: in particular watch_timer is reset in time, and
\* the sweep's cursor stays within the slots and watches there are.
THEOREM TypeCorrect == Spec => []TypeOK
BY Invariance, PTL DEF IInv

\* Nobody inherits what a watch told of whoever had the slot before.
THEOREM WatchesCorrect == Spec => []WatchesOfPlayers
<1>1. IInv => WatchesOfPlayers
  BY DEF IInv, PlayersIn, ToldValid, WatchesOfPlayers
<1> QED
  BY <1>1, Invariance, PTL

\* At the end of a sweep every watch of every player has told the value the
\* player has.
THEOREM SweepCorrect == Spec => SweepTellsAll
<1>1. ASSUME IInv, Next, pc = "sweep", pc' = "on_tick" PROVE SweptAll
  <2>1. SweepDone
    BY <1>1 DEF Next, Engine, Join, ValueChanges, PlayerConnect, PlayerDisconnect,
       BotDisconnect, LevelInit, LevelShutdown, LevelShutdownAgain, EngineEvent,
       ServerTick, Sweep, UpdateChanged, UpdateUnchanged, OnTick, ResetWatches, Kick,
       EndTick
  <2> QED
    BY <1>1, <2>1 DEF SweepDone, IInv, SweepHalf, SweptAll, ValidSlots
<1>2. IInv /\ [Next]_coreVars => [pc = "sweep" /\ pc' = "on_tick" => SweptAll]_coreVars
  BY <1>1
<1> QED
  BY <1>2, Invariance, PTL DEF Spec, SweepTellsAll
=============================================================================
