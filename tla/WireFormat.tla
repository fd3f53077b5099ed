----------------------------- MODULE WireFormat -----------------------------
(* The two ends of the protocol together: messages that the plugin builds     *)
(* with DddNetMsg, read by GameMessage, and messages that the admin server    *)
(* builds with GameMessage, read by DddNetMsg. A message is built put by put; *)
(* in every state the properties have the other end read it.                  *)
EXTENDS GameMessage, PluginMessage

CONSTANT OutputMax    \* the room of a get_string

ASSUME OutputAssumption == OutputMax \in Nat \ {0}

VARIABLE side    \* who builds the message: "plugin" or "server"

vars == <<side, msgVars>>

Init == side \in {"plugin", "server"} /\ MsgInit

PluginMakes == side = "plugin" /\ MsgNext /\ UNCHANGED side

\* The server's Put...: the dictionary refuses a key it has.
ServerPut(entry) ==
    /\ side = "server"
    /\ Len(entries) < MaxPuts
    /\ ~HasKey(entries, entry.key)
    /\ entries' = Append(entries, entry)
    /\ UNCHANGED <<side, msg, outcome>>

ServerPutAny(key) ==
    \/ \E type \in FixedTypes, n \in Numbers : ServerPut(Entry(key, type, n))
    \/ \E s \in Strings : ServerPut(Entry(key, TYPE_STRING, s))
    \/ \E inner \in InnerEntries : ServerPut(Entry(key, TYPE_OBJECT, inner))
    \/ \E inners \in Arrays : ServerPut(Entry(key, TYPE_OBJECT_ARR, inners))

Next == PluginMakes \/ \E key \in Keys : ServerPutAny(key)

Spec == Init /\ [][Next]_vars

-----------------------------------------------------------------------------
(* Properties.                                                                *)

DistinctKeys ==
    \A i, j \in 1 .. Len(entries) : entries[i].key = entries[j].key => i = j

\* The server reads from the plugin's bytes what was put, the last put first, and
\* to the end; but a message with a key put twice it refuses, as a whole
\* (message_writer.cpp:12-38 and 139-173, GameMessage.cs:104-163).
ServerReadsPlugin ==
    side = "plugin" /\ outcome = "ok" =>
        LET bytes == serialize(msg)
            read == FromBuffer(bytes)
        IN  IF DistinctKeys
            THEN read = [ok |-> TRUE, offset |-> Len(bytes), values |-> Reverse(entries)]
            ELSE ~read.ok

\* The bytes of a string for which the server leaves room: as many as it has
\* characters.
RoomFor(s) == SubSeq(UTF8(s), 1, Len(s))

\* What the plugin's getter of the entry's type answers.
Reads(m, entry) ==
    CASE entry.type \in FixedTypes ->
            get_fixed(m, entry.key, entry.type) = Answer(entry.value)
      [] entry.type = TYPE_STRING ->
            LET read == get_string(m, entry.key, OutputMax)
            IN  /\ read.ok = (Len(entry.value) <= OutputMax)
                /\ read.ok => read.value = RoomFor(entry.value)
      [] entry.type = TYPE_OBJECT ->
            LET inner == get_msg(m, entry.key)
            IN  /\ inner.ok
                /\ \A i \in 1 .. Len(entry.value) :
                      get_fixed(inner.msg, entry.value[i].key, entry.value[i].type)
                          = Answer(entry.value[i].value)
      [] OTHER -> TRUE

Written == Encoded(entries)

TooLong(entry) == GetItemSize(entry) > MAX_PACKET_SIZE

\* What a string has beyond its room is overwritten by what is written behind it,
\* unless it does not fit in the buffer: then the writer throws.
Overrun ==
    \E i \in 1 .. Len(entries) :
        /\ entries[i].type = TYPE_STRING
        /\ SerializedLength(SubSeq(entries, 1, i - 1)) + 8 + Len(UTF8(entries[i].value))
              > SerializedLength(entries)

\* The plugin reads from the server's bytes every value under its key and with
\* its type, a string with longer characters cut to its room and nothing else
\* harmed by it, unless such a string runs past the end of the buffer; and it
\* refuses a message with a payload past MAX_PACKET_SIZE (GameMessage.cs:38-102
\* and 327-352, message_reader.cpp:23-161).
PluginReadsServer ==
    side = "server" =>
        LET read == deserialize(Written.bytes) IN
        /\ Written.ok = ~Overrun
        /\ Written.ok => read.ok = ~\E i \in 1 .. Len(entries) : TooLong(entries[i])
        /\ Written.ok /\ read.ok => \A i \in 1 .. Len(entries) : Reads(read.msg, entries[i])

\* A message that is cut short, or followed by anything, is refused: no part of
\* one is taken for another (message_reader.cpp:23-73).
WholeOnly ==
    side = "server" /\ Written.ok =>
        /\ \A n \in 0 .. Len(Written.bytes) - 1 :
              ~deserialize(SubSeq(Written.bytes, 1, n)).ok
        /\ ~deserialize(Written.bytes \o <<0>>).ok

\* put_msg_array's "Sanity check": totalLength is what was written
\* (message_writer.cpp:129-130).
ArraySane == outcome \notin {"no space", "sanity"}
=============================================================================
