------------------------------ MODULE DddNetMsg ------------------------------
(* ddd_net's message, a list of typed properties, and its bytes:              *)
(* message_writer.cpp and message_reader.cpp.                                 *)
(*                                                                            *)
(* A byte is a number; a property's value is the bytes of its payload. The    *)
(* memory that malloc gives is not modelled.                                  *)
EXTENDS Naturals, Sequences, SequencesExt, FiniteSetsExt

CONSTANTS
    MAX_PACKET_SIZE, \* the longest payload the reader takes (8388608 in the code)
    PROPERTY_LIMIT   \* put refuses one more property (65535 in the code)

\* DddNetOpcode's types.
TYPE_INT16 == 1
TYPE_INT32 == 2
TYPE_INT64 == 3
TYPE_FLOAT == 4
TYPE_DOUBLE == 5
TYPE_STRING == 6
TYPE_OBJECT == 7
TYPE_OBJECT_ARR == 8

FixedTypes == TYPE_INT16 .. TYPE_DOUBLE

\* sizeof the value of a fixed type.
Width == <<2, 4, 8, 4, 8>>

\* Bound: what is read of a number is exact below this, and else this.
Huge == 16777216

ASSUME MessageAssumption ==
    /\ MAX_PACKET_SIZE \in Nat /\ MAX_PACKET_SIZE < Huge
    /\ PROPERTY_LIMIT \in Nat \ {0} /\ PROPERTY_LIMIT < 65536

\* Little-endian, w bytes wide.
Place == <<1, 256, 65536, 16777216>>

LittleEndian(n, w) ==
    [i \in 1 .. w |-> IF i <= 4 THEN (n \div Place[i]) % 256 ELSE 0]

Number(bytes) ==
    IF \E i \in 4 .. Len(bytes) : bytes[i] # 0 THEN Huge
    ELSE bytes[1] + 256 * bytes[2] + (IF Len(bytes) = 2 THEN 0 ELSE 65536 * bytes[3])

\* The reader is at an offset: whether there are n bytes more, and what they are.
Has(bytes, offset, n) == offset + n <= Len(bytes)
Slice(bytes, offset, n) == SubSeq(bytes, offset + 1, offset + n)
NumberAt(bytes, offset, n) == Number(Slice(bytes, offset, n))

\* What is put: a number, a sequence of characters, a message or a sequence of
\* messages, each as its own entries.
Entry(key, type, value) == [key |-> key, type |-> type, value |-> value]

\* The bytes of a string, external: characters of one byte and of two.
UTF8Char(c) == IF c < 128 THEN <<c>> ELSE <<192 + (c \div 64), 128 + (c % 64)>>

UTF8(chars) == FlattenSeq([i \in 1 .. Len(chars) |-> UTF8Char(chars[i])])

-----------------------------------------------------------------------------
(* Messages: next is the list, the property put last first.                   *)

NewMsg == [next |-> <<>>, property_count |-> 0, property_payload_total_length |-> 0]

Item(key, type, payload) == [key |-> key, type |-> type, payload |-> payload]

\* The end of put, and of the reader's loop.
Prepend(m, item) ==
    [next |-> <<item>> \o m.next,
     property_count |-> m.property_count + 1,
     property_payload_total_length |->
        m.property_payload_total_length + Len(item.payload)]

get_serialized_length(m) ==
    2 + m.property_payload_total_length + 8 * m.property_count

ItemHeader(item) ==
    LittleEndian(item.key, 2) \o LittleEndian(item.type, 2)
        \o LittleEndian(Len(item.payload), 4)

\* The bytes serialize writes when the buffer has room for them.
serialize(m) ==
    LittleEndian(m.property_count, 2)
        \o FlattenSeq([i \in 1 .. Len(m.next) |-> ItemHeader(m.next[i]) \o m.next[i].payload])

-----------------------------------------------------------------------------
(* The writer. A put answers how it ended and the message it leaves.          *)

Done(outcome, m) == [outcome |-> outcome, msg |-> m]

put(m, key, type, payload) ==
    IF m.property_count = PROPERTY_LIMIT
    THEN Done("too many properties", m)
    ELSE Done("ok", Prepend(m, Item(key, type, payload)))

\* Mistake: a long is written as wide as an int.
PutFixedNarrow(m, key, type, n) ==
    put(m, key, type, LittleEndian(n, IF type = TYPE_INT64 THEN 4 ELSE Width[type]))

\* put_short, put_int, put_long, put_float and put_double.
PutFixed(m, key, type, n) == put(m, key, type, LittleEndian(n, Width[type]))

put_string(m, key, chars) == put(m, key, TYPE_STRING, chars)

put_msg(m, key, inner) == put(m, key, TYPE_OBJECT, serialize(inner))

\* serialize's test of the room put_msg_array says there is, totalLength -
\* offset: a size_t, so below zero it is more than any length.
HasRoom(totalLength, offset, length) ==
    offset > totalLength \/ length <= totalLength - offset

\* put_msg_array: totalLength leaves out the count's four bytes, offset does not.
\* "sanity": the assertion fails; a build without assertions goes on and puts
\* the first totalLength bytes.
put_msg_array(m, key, inners) ==
    LET Sum[n \in 0 .. Len(inners)] ==
            IF n = 0 THEN 0 ELSE Sum[n - 1] + get_serialized_length(inners[n])
        totalLength == Sum[Len(inners)]
        Offset(n) == 4 + Sum[n]
        bytes == LittleEndian(Len(inners), 4)
                    \o FlattenSeq([i \in 1 .. Len(inners) |-> serialize(inners[i])])
    IN  IF \E i \in 1 .. Len(inners) :
               ~HasRoom(totalLength, Offset(i - 1), get_serialized_length(inners[i]))
        THEN Done("no space", m)
        ELSE IF totalLength # Offset(Len(inners))
        THEN Done("sanity", put(m, key, TYPE_OBJECT_ARR, SubSeq(bytes, 1, totalLength)).msg)
        ELSE put(m, key, TYPE_OBJECT_ARR, bytes)

-----------------------------------------------------------------------------
(* The reader. It reads on from its offset while ok.                          *)

ItemAt(bytes, offset, length) ==
    Item(NumberAt(bytes, offset, 2), NumberAt(bytes, offset + 2, 2),
         Slice(bytes, offset + 8, length))

Took(bytes, state, length) ==
    [ok     |-> TRUE,
     offset |-> state.offset + 8 + length,
     msg    |-> Prepend(state.msg, ItemAt(bytes, state.offset, length))]

\* Mistake: a payload of more than the bytes that are left is cut to them.
ReadItemCut(bytes, state) ==
    LET at == state.offset
        length == Min({NumberAt(bytes, at + 4, 4), Len(bytes) - (at + 8)})
    IN  IF ~state.ok \/ ~Has(bytes, at, 8) \/ length > MAX_PACKET_SIZE
        THEN [state EXCEPT !.ok = FALSE]
        ELSE Took(bytes, state, length)

\* One turn of deserialize's loop.
ReadItem(bytes, state) ==
    LET at == state.offset
        length == NumberAt(bytes, at + 4, 4)
    IN  IF \/ ~state.ok
           \/ ~Has(bytes, at, 8)
           \/ length > MAX_PACKET_SIZE
           \/ ~Has(bytes, at + 8, length)
        THEN [state EXCEPT !.ok = FALSE]
        ELSE Took(bytes, state, length)

\* deserialize into a new message, as all callers do.
deserialize(bytes) ==
    LET read[n \in 0 .. NumberAt(bytes, 0, 2)] ==
            IF n = 0 THEN [ok |-> TRUE, offset |-> 2, msg |-> NewMsg]
            ELSE ReadItem(bytes, read[n - 1])
        last == read[NumberAt(bytes, 0, 2)]
    IN  IF ~Has(bytes, 0, 2) THEN [ok |-> FALSE, msg |-> NewMsg]
        ELSE [ok |-> last.ok /\ last.offset = Len(bytes), msg |-> last.msg]

\* A getter answers whether there is a value, and the value.
NoAnswer == [ok |-> FALSE, value |-> 0]
Answer(value) == [ok |-> TRUE, value |-> value]

\* find: the first in the list with the key.
Places(m, key) == {i \in 1 .. Len(m.next) : m.next[i].key = key}
find(m, key) == m.next[CHOOSE i \in Places(m, key) : \A j \in Places(m, key) : i <= j]

\* get_short, get_int, get_long, get_float and get_double.
get_fixed(m, key, type) ==
    IF \/ Places(m, key) = {}
       \/ find(m, key).type # type
       \/ Len(find(m, key).payload) # Width[type]
    THEN NoAnswer
    ELSE Answer(Number(find(m, key).payload))

\* Mistake: room is kept for a terminator that the callers have not counted.
GetStringShort(m, key, output_max) ==
    IF \/ Places(m, key) = {}
       \/ find(m, key).type # TYPE_STRING
       \/ Len(find(m, key).payload) >= output_max
    THEN NoAnswer
    ELSE Answer(find(m, key).payload)

\* With room for output_max characters. A string of just that many is taken, and
\* its terminator is written past them.
get_string(m, key, output_max) ==
    IF \/ Places(m, key) = {}
       \/ find(m, key).type # TYPE_STRING
       \/ Len(find(m, key).payload) >= output_max + 1
    THEN NoAnswer
    ELSE Answer(find(m, key).payload)

get_msg(m, key) ==
    IF Places(m, key) = {} \/ find(m, key).type # TYPE_OBJECT
    THEN [ok |-> FALSE, msg |-> NewMsg]
    ELSE deserialize(find(m, key).payload)
=============================================================================
