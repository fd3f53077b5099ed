----------------------------- MODULE DddPlugin -----------------------------
(* ddd_admin before and beside the traffic of DddAdmin: what Load does, step  *)
(* by step and as far as it gets, and the requests about console variables.   *)
(*                                                                            *)
(* All of it runs on the game's main thread. The configuration is chosen byte *)
(* by byte as it is read, the engine's tables of networked properties when    *)
(* they are first looked at.                                                  *)
EXTENDS Integers, Sequences, FiniteSets, SequencesExt

CONSTANTS
    FieldSizes,       \* the sizes of server_ip, server_port and server_psk
    Watched,          \* the properties to watch, one for each callback, in order
    MAX_WATCH_SLOTS,
    Schemas,          \* the tables CDDDPlayer's properties may be in, see Find
    Registries,       \* the lists of commands and variables there may be
    Values,           \* values of a variable
    CVAR_PAGE_LENGTH

\* A table is a sequence of properties, each with its offset in the table and
\* the number of the table nested in it, or 0. Tables are numbered from the
\* class's own, 1, inwards; there is none if there is no such class.
Inwards(schema) ==
    /\ Len(schema) \in Nat
    /\ \A t \in 1 .. Len(schema) :
          /\ Len(schema[t]) \in Nat
          /\ \A n \in 1 .. Len(schema[t]) :
                /\ schema[t][n].offset \in Nat
                /\ schema[t][n].table \in {0} \cup (t + 1 .. Len(schema))

IsList(list) == list \in Seq(Range(list))

ASSUME PluginAssumption ==
    /\ FieldSizes \in Seq(Nat \ {0}) /\ FieldSizes # <<>>
    /\ IsList(Watched)
    /\ MAX_WATCH_SLOTS \in Nat /\ Len(Watched) <= MAX_WATCH_SLOTS
    /\ \A schema \in Schemas : Inwards(schema)
    /\ \A list \in Registries : IsList(list)
    /\ CVAR_PAGE_LENGTH \in Nat \ {0}

VARIABLES
    pc,       \* where Load is
    text,     \* what has been read of the configuration file
    config,   \* ddd_admin_config_t
    field,    \* the one that is being read
    i,        \* ddd_read_line's
    tables,   \* the engine's
    cvars,    \* the engine's list of commands and variables
    hooks,    \* what the engine calls the plugin for
    watches,
    worker,   \* the client's worker runs
    answer    \* what the last request was answered with

configVars == <<text, config, field, i>>
engineVars == <<tables, cvars>>
pluginVars == <<hooks, watches, worker>>
vars == <<pc, configVars, engineVars, pluginVars, answer>>

Fields == 1 .. Len(FieldSizes)
CoreHooks == {"Think", "ClientFullyConnect", "ClientDisconnect", "LevelInit", "LevelShutdown"}
ChatCommands == {"say", "say_team"}
NUL == "nul"
NoAnswer == "none"
Empty == [found |-> FALSE]

\* The plugin is a global object, so its configuration starts as zeros.
Init ==
    /\ pc = "config"
    /\ text = <<>>
    /\ config = [f \in Fields |-> [n \in 0 .. FieldSizes[f] - 1 |-> NUL]]
    /\ field = 1
    /\ i = 0
    /\ tables = <<>>
    /\ cvars \in Registries
    /\ hooks = {}
    /\ watches = <<>>
    /\ worker = FALSE
    /\ answer = NoAnswer

-----------------------------------------------------------------------------
(* Load.                                                                      *)

Goto(place) ==
    /\ pc' = place
    /\ UNCHANGED <<configVars, engineVars, pluginVars, answer>>

\* One turn of ddd_read_line's loop.
Read(byte) ==
    /\ pc = "config"
    /\ i < FieldSizes[field] - 1
    /\ text' = Append(text, byte)
    /\ UNCHANGED <<engineVars, pluginVars, answer>>

ReadCharacter ==
    /\ Read("x")
    /\ config' = [config EXCEPT ![field][i] = "x"]
    /\ i' = i + 1
    /\ UNCHANGED <<pc, field>>

\* Mistake: it is taken for a character.
ReadReturnKept ==
    /\ Read("cr")
    /\ config' = [config EXCEPT ![field][i] = "cr"]
    /\ i' = i + 1
    /\ UNCHANGED <<pc, field>>

\* A carriage return is not stored, but its place is not used again.
ReadReturn ==
    /\ Read("cr")
    /\ i' = i + 1
    /\ UNCHANGED <<pc, config, field>>

ReadNewline ==
    /\ Read("lf")
    /\ config' = [config EXCEPT ![field][i] = NUL]
    /\ i' = 0
    /\ field' = IF field + 1 \in Fields THEN field + 1 ELSE field
    /\ pc' = IF field + 1 \in Fields THEN pc ELSE "interfaces"

\* No file, its end within a line, or a line that is too long.
ConfigFails ==
    /\ pc = "config"
    /\ Goto("refused")

AddHooks ==
    /\ hooks' = CoreHooks
    /\ tables' \in Schemas
    /\ UNCHANGED <<configVars, cvars, watches, worker, answer>>

\* Mistake: the hooks are there before the interfaces are known to be.
InitInterfacesLate ==
    /\ pc = "interfaces"
    /\ pc' \in {"watches", "refused"}
    /\ AddHooks

\* dddabs_init. One interface that is missing ends Load.
InitInterfaces ==
    /\ pc = "interfaces"
    /\ \/ pc' = "watches" /\ AddHooks
       \/ Goto("refused")

NotFound == -1

\* Where a turn of find_watch_property's loop over table t ends it: the property
\* is the one that is asked for, or that one is in the table nested in it, as
\* found says.
Hits(found, query, t) ==
    {n \in 1 .. Len(tables[t]) :
        LET prop == tables[t][n]
        IN prop.name = query \/ (prop.table # 0 /\ found[prop.table] # NotFound)}

First(places) == CHOOSE n \in places : \A m \in places : n <= m

\* Mistake: the offset is that in the innermost table.
FindInInner(found, query, t) ==
    LET prop == tables[t][First(Hits(found, query, t))]
    IN IF Hits(found, query, t) = {} THEN NotFound
       ELSE IF prop.name = query THEN prop.offset ELSE found[prop.table]

\* find_watch_property with a table: the property's offset from it.
FindIn(found, query, t) ==
    LET prop == tables[t][First(Hits(found, query, t))]
    IN IF Hits(found, query, t) = {} THEN NotFound
       ELSE IF prop.name = query THEN prop.offset ELSE prop.offset + found[prop.table]

\* find_watch_property with the class.
Find(query) ==
    LET found[t \in 1 .. Len(tables)] == FindIn(found, query, t)
    IN IF Len(tables) = 0 THEN NotFound ELSE found[1]

\* from_property.
Watch(property) == [property |-> property, offset |-> Find(property)]

\* create_property_watch; nobody looks at what it returns.
CreateWatch(created, property) ==
    IF Len(created) < MAX_WATCH_SLOTS /\ Find(property) # NotFound
    THEN Append(created, Watch(property))
    ELSE created

\* The calls of create_property_watch, one for each name.
AllWatches ==
    LET created[n \in 0 .. Len(Watched)] ==
          IF n = 0 THEN watches ELSE CreateWatch(created[n - 1], Watched[n])
    IN created[Len(Watched)]

CreateWatches ==
    /\ pc = "watches"
    /\ pc' = "chat"
    /\ watches' = AllWatches
    /\ UNCHANGED <<configVars, engineVars, hooks, worker, answer>>

Named(name, command) ==
    {n \in DOMAIN cvars : cvars[n].name = name /\ cvars[n].command = command}

\* find_cvar and hook for both commands; one that is missing is only logged.
HookChat ==
    /\ pc = "chat"
    /\ pc' = "online"
    /\ hooks' = hooks \cup {name \in ChatCommands : Named(name, TRUE) # {}}
    /\ UNCHANGED <<configVars, engineVars, watches, worker, answer>>

\* client->init.
GoOnline ==
    /\ pc = "online"
    /\ pc' = "loaded"
    /\ worker' = TRUE
    /\ UNCHANGED <<configVars, engineVars, hooks, watches, answer>>

-----------------------------------------------------------------------------
(* The requests about commands and variables.                                 *)

\* serialize_convar; flags, limits and the forms of a value count as one value.
Serialized(cvar) ==
    IF cvar.command THEN [found |-> TRUE, name |-> cvar.name]
    ELSE [found |-> TRUE, name |-> cvar.name, value |-> cvar.value]

Listed(cvar, flags) == (IF cvar.command THEN "commands" ELSE "variables") \in flags

\* Mistake: what is not listed counts as skipped.
PageTurnSkipsAll(page, flags, cvar) ==
    CASE page.offset > 0 -> [page EXCEPT !.offset = @ - 1]
      [] page.offset <= 0 /\ ~Listed(cvar, flags) -> page
      [] OTHER -> IF Len(page.results) < CVAR_PAGE_LENGTH
                  THEN [page EXCEPT !.results = Append(@, Serialized(cvar))]
                  ELSE [page EXCEPT !.remaining = @ + 1]

\* One turn of the loop of handle_cvar_page_command.
PageTurn(page, flags, cvar) ==
    CASE ~Listed(cvar, flags) -> page
      [] Listed(cvar, flags) /\ page.offset > 0 -> [page EXCEPT !.offset = @ - 1]
      [] OTHER -> IF Len(page.results) < CVAR_PAGE_LENGTH
                  THEN [page EXCEPT !.results = Append(@, Serialized(cvar))]
                  ELSE [page EXCEPT !.remaining = @ + 1]

NewPage(skip) == [offset |-> skip, results |-> <<>>, remaining |-> 0]

Page(flags, skip) ==
    LET page[n \in 0 .. Len(cvars)] ==
          IF n = 0 THEN NewPage(skip) ELSE PageTurn(page[n - 1], flags, cvars[n])
    IN page[Len(cvars)]

Flags == SUBSET {"commands", "variables"}

Request == pc = "loaded" /\ UNCHANGED <<pc, configVars, tables, pluginVars>>

\* put_msg_array throws for a page with something on it: there is no answer,
\* and the messages in results are lost.
HandlePage ==
    /\ Request
    /\ \E flags \in Flags, skip \in -1 .. Len(cvars) :
          LET page == Page(flags, skip)
          IN answer' = IF page.results = <<>> THEN page ELSE NoAnswer
    /\ UNCHANGED cvars

Names == ChatCommands \cup {"variable"}

HandleQuery(name) ==
    /\ Request
    /\ \/ \E n \in DOMAIN cvars : cvars[n].name = name /\ answer' = Serialized(cvars[n])
       \/ Named(name, TRUE) \cup Named(name, FALSE) = {} /\ answer' = Empty
    /\ UNCHANGED cvars

\* A variable's value may be given as an integer, a float or a string; of
\* several, each is set in that order.
HandleSet(name) ==
    /\ Request
    /\ \/ \E n \in Named(name, FALSE), given \in BoundedSeq(Values, 3) :
            /\ cvars' = [cvars EXCEPT ![n].value =
                            IF given = <<>> THEN @ ELSE given[Len(given)]]
            /\ answer' = Serialized(cvars'[n])
       \/ Named(name, FALSE) = {} /\ answer' = Empty /\ UNCHANGED cvars

-----------------------------------------------------------------------------

Load ==
    \/ ReadCharacter \/ ReadReturn \/ ReadNewline \/ ConfigFails
    \/ InitInterfaces \/ CreateWatches \/ HookChat \/ GoOnline

Next == Load \/ HandlePage \/ \E name \in Names : HandleQuery(name) \/ HandleSet(name)

Spec == Init /\ [][Next]_vars

-----------------------------------------------------------------------------
(* Properties.                                                                *)

\* The n-th line of what was read, without its end.
Newlines == {n \in 1 .. Len(text) : text[n] = "lf"}
LineEnd(f) == CHOOSE n \in Newlines : Cardinality({m \in Newlines : m <= n}) = f
LineStart(f) == IF f = 1 THEN 1 ELSE LineEnd(f - 1) + 1

\* A string in memory, and a line, up to what ends them.
UpTo(s, ends) ==
    LET stops == {n \in 1 .. Len(s) : s[n] \in ends}
    IN IF stops = {} THEN s
       ELSE SubSeq(s, 1, First(stops) - 1)

StringIn(f) == UpTo([n \in 1 .. FieldSizes[f] |-> config[f][n - 1]], {NUL})

\* Each field is the line of its number, whether lines end in LF or in CRLF, and
\* ends within its array, also when the line fills it (config.cpp:4-21).
ConfigRead ==
    pc \notin {"config", "refused"} => \A f \in Fields :
        /\ StringIn(f) = UpTo(SubSeq(text, LineStart(f), LineEnd(f) - 1), {"cr"})
        /\ Len(StringIn(f)) < FieldSizes[f]

\* A Load that is refused leaves nothing behind that would call the plugin after
\* Metamod has unloaded it, and the worker runs only with all it needs
\* (plugin.cpp:38-69, core.cpp:25-42).
RefusedLeavesNothing ==
    /\ pc = "refused" => hooks = {} /\ watches = <<>>
    /\ worker <=> pc = "loaded"
    /\ worker => CoreHooks \subseteq hooks

\* A way to a property through nested tables: the position in each, the name
\* of the last property and the sum of the offsets. It ends in the table, or goes
\* on in the one nested there.
Direct(t, n) ==
    [path |-> <<n>>, name |-> tables[t][n].name, offset |-> tables[t][n].offset]

Through(t, n, way) ==
    [path |-> <<n>> \o way.path, name |-> way.name,
     offset |-> tables[t][n].offset + way.offset]

Onward(ways, t, n) == IF tables[t][n].table = 0 THEN {} ELSE ways[tables[t][n].table]

WaysIn(ways, t) ==
    UNION {{Direct(t, n)} \cup {Through(t, n, way) : way \in Onward(ways, t, n)}
           : n \in 1 .. Len(tables[t])}

WaysTo(property) ==
    LET ways[t \in 1 .. Len(tables)] == WaysIn(ways, t)
    IN {way \in (IF Len(tables) = 0 THEN {} ELSE ways[1]) : way.name = property}

\* The order in which the properties are in the entity, an enclosing one first.
Precedes(p, q) ==
    \E k \in 1 .. Len(q) : /\ \A j \in 1 .. k - 1 : j <= Len(p) /\ p[j] = q[j]
                           /\ k <= Len(p) => p[k] < q[k]

\* How many of the first n watched properties the class has.
Had(n) == Cardinality({m \in 1 .. n : WaysTo(Watched[m]) # {}})

\* Every watched property that the class has, itself or nested, is watched, in
\* the order in which Load names them and each where the first property of that
\* name is in the entity (watch.cpp:63-112, plugin.cpp:49-54).
WatchesRight ==
    pc \in {"chat", "online", "loaded"} =>
        /\ Len(watches) = Had(Len(Watched))
        /\ \A n \in 1 .. Len(Watched) : WaysTo(Watched[n]) # {} =>
              /\ watches[Had(n)].property = Watched[n]
              /\ \E way \in WaysTo(Watched[n]) :
                    /\ watches[Had(n)].offset = way.offset
                    /\ \A other \in WaysTo(Watched[n]) \ {way} : Precedes(way.path, other.path)

\* How many of the first n commands and variables are asked for.
Asked(flags, n) == Cardinality({m \in 1 .. n : Listed(cvars[m], flags)})

\* Pages asked for one behind the other, each as far on as there were items
\* before, show every command or variable asked for once and in order, and each
\* tells how many are still to come (plugin.cpp:292-324).
PagesCover ==
    \A flags \in Flags : \A skip \in 0 .. Asked(flags, Len(cvars)) :
        LET page == Page(flags, skip) IN
        /\ Len(page.results) + page.remaining = Asked(flags, Len(cvars)) - skip
        /\ page.remaining > 0 => Len(page.results) = CVAR_PAGE_LENGTH
        /\ \A n \in 1 .. Len(cvars) :
              Listed(cvars[n], flags) /\ Asked(flags, n) - skip \in 1 .. Len(page.results)
                => page.results[Asked(flags, n) - skip] = Serialized(cvars[n])
=============================================================================
