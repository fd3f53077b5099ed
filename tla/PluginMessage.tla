---------------------------- MODULE PluginMessage ---------------------------
(* A message as the plugin makes it: put by put, with the clear that makes it *)
(* new again.                                                                 *)
EXTENDS DddNetMsg

CONSTANTS
    Keys,       \* the keys that are put
    Numbers,    \* the values of fixed types, below 65536
    Strings,    \* the strings, of a length that a packet has room for
    MaxPuts     \* bound: puts on a message, below 65536

\* The characters that UTF-8 gives one byte or two.
Characters == 1 .. 2047

ASSUME PutsAssumption ==
    /\ Keys \subseteq Nat /\ Numbers \subseteq Nat
    /\ \A n \in Keys \cup Numbers : n < 65536
    /\ Strings \subseteq Seq(Characters)
    /\ \A s \in Strings : 2 * Len(s) < Huge
    /\ MaxPuts \in Nat /\ MaxPuts < 65536

VARIABLES
    entries, \* the puts that succeeded, oldest first
    msg,     \* the DddNetMsg
    outcome  \* how the last put ended

msgVars == <<entries, msg, outcome>>

\* Messages within a message, as their entries.
InnerEntries ==
    {<<>>} \cup {<<Entry(k, TYPE_INT16, n)>> : k \in Keys, n \in Numbers}

Build(inner) ==
    LET built[n \in 0 .. Len(inner)] ==
          IF n = 0 THEN NewMsg
          ELSE PutFixed(built[n - 1], inner[n].key, inner[n].type, inner[n].value).msg
    IN built[Len(inner)]

Arrays == {<<>>} \cup {<<a>> : a \in InnerEntries} \cup {<<a, a>> : a \in InnerEntries}

MsgInit ==
    /\ entries = <<>>
    /\ msg = NewMsg
    /\ outcome = "ok"

\* An entry is put; an exception or a failed assertion is the end of the message.
Put(entry, done) ==
    /\ outcome = "ok"
    /\ Len(entries) < MaxPuts
    /\ outcome' = done.outcome
    /\ msg' = done.msg
    /\ entries' = IF done.outcome = "ok" THEN Append(entries, entry) ELSE entries

PutNumber(key, type, n) == Put(Entry(key, type, n), PutFixed(msg, key, type, n))

PutString(key, s) == Put(Entry(key, TYPE_STRING, s), put_string(msg, key, UTF8(s)))

PutMsg(key, inner) == Put(Entry(key, TYPE_OBJECT, inner), put_msg(msg, key, Build(inner)))

PutMsgArray(key, inners) ==
    Put(Entry(key, TYPE_OBJECT_ARR, inners),
        put_msg_array(msg, key, [i \in 1 .. Len(inners) |-> Build(inners[i])]))

\* Mistake: what was counted stays counted.
ClearKeepsLength ==
    /\ entries # <<>>
    /\ entries' = <<>>
    /\ msg' = [msg EXCEPT !.next = <<>>, !.property_count = 0]
    /\ outcome' = "ok"

Clear ==
    /\ entries # <<>>
    /\ entries' = <<>>
    /\ msg' = NewMsg
    /\ outcome' = "ok"

MsgNext ==
    \/ \E key \in Keys :
        \/ \E type \in FixedTypes, n \in Numbers : PutNumber(key, type, n)
        \/ \E s \in Strings : PutString(key, s)
        \/ \E inner \in InnerEntries : PutMsg(key, inner)
        \/ \E inners \in Arrays : PutMsgArray(key, inners)
    \/ Clear

MsgSpec == MsgInit /\ [][MsgNext]_msgVars

\* The length a packet's buffer and header are made for is the length of what
\* serialize writes, after any puts, refused ones and clears among them
\* (message_writer.cpp:7-38, with the assertion at 35, and 40-61).
LengthExact == get_serialized_length(msg) = Len(serialize(msg))
=============================================================================
