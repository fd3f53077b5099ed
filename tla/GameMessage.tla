----------------------------- MODULE GameMessage -----------------------------
(* LibDddAdminTransport's message, the admin server's end of DddNetMsg's      *)
(* bytes: GameMessage.cs.                                                     *)
(*                                                                            *)
(* A message is its dictionary in the order of insertion, a sequence of       *)
(* entries with distinct keys. The value of an entry is a number, a sequence  *)
(* of characters (code points), a message or a sequence of messages. An       *)
(* exception is the end of what is read or written: ok is FALSE.              *)
EXTENDS DddNetMsg

HasKey(values, key) == \E i \in 1 .. Len(values) : values[i].key = key

-----------------------------------------------------------------------------
(* Encoding.UTF8, external.                                                   *)

ReplacementChar == 65533

\* The decoder: the characters so far, and the first byte of one of two bytes,
\* or 0.
Undecoded == [chars |-> <<>>, lead |-> 0]

Flush(state) ==
    IF state.lead = 0 THEN state.chars ELSE Append(state.chars, ReplacementChar)

Decode(state, byte) ==
    IF state.lead # 0 /\ byte \in 128 .. 191
    THEN [chars |-> Append(state.chars, 64 * (state.lead - 192) + (byte - 128)), lead |-> 0]
    ELSE IF byte \in 194 .. 223
    THEN [chars |-> Flush(state), lead |-> byte]
    ELSE [chars |-> Append(Flush(state), IF byte < 128 THEN byte ELSE ReplacementChar),
          lead  |-> 0]

FromUTF8(bytes) ==
    LET decoded[n \in 0 .. Len(bytes)] ==
          IF n = 0 THEN Undecoded ELSE Decode(decoded[n - 1], bytes[n])
    IN  Flush(decoded[Len(bytes)])

-----------------------------------------------------------------------------
(* The writer, which fills a buffer. Bound: a message within a message holds  *)
(* no messages, so that what is done for one is a parameter of what is done   *)
(* for the message it is in.                                                  *)

\* GetItemSize: a string's is its Length, in characters.
ItemSize(entry, Length(_)) ==
    LET Sum[n \in 0 .. Len(entry.value)] ==
          IF n = 0 THEN 4 ELSE Sum[n - 1] + Length(entry.value[n])
    IN  CASE entry.type \in FixedTypes -> Width[entry.type]
          [] entry.type = TYPE_STRING -> Len(entry.value)
          [] entry.type = TYPE_OBJECT -> Length(entry.value)
          [] entry.type = TYPE_OBJECT_ARR -> Sum[Len(entry.value)]

LengthWith(values, Length(_)) ==
    LET Sum[n \in 0 .. Len(values)] ==
          IF n = 0 THEN 2 ELSE Sum[n - 1] + 8 + ItemSize(values[n], Length)
    IN  Sum[Len(values)]

FlatLength(values) == LengthWith(values, LAMBDA message : 0)
SerializedLength(values) == LengthWith(values, FlatLength)
GetItemSize(entry) == ItemSize(entry, FlatLength)

Buffer(length) == [ok |-> TRUE, bytes |-> [i \in 1 .. length |-> 0], offset |-> 0]

\* CopyTo throws when the bytes do not fit.
CopyTo(buffer, bytes) ==
    IF buffer.offset + Len(bytes) > Len(buffer.bytes)
    THEN [buffer EXCEPT !.ok = FALSE]
    ELSE [buffer EXCEPT
            !.bytes = [i \in 1 .. Len(buffer.bytes) |->
                          IF i \in buffer.offset + 1 .. buffer.offset + Len(bytes)
                          THEN bytes[i - buffer.offset] ELSE buffer.bytes[i]]]

Advance(buffer, n) == [buffer EXCEPT !.offset = @ + n]

Write(buffer, bytes) ==
    IF buffer.ok THEN Advance(CopyTo(buffer, bytes), Len(bytes)) ELSE buffer

\* A property's value, behind its header. Of an array's count two bytes are
\* written and four are left.
WriteValue(buffer, entry, Inner(_, _)) ==
    LET written[n \in 0 .. Len(entry.value)] ==
          IF n = 0 THEN Advance(Write(buffer, LittleEndian(Len(entry.value), 2)), 2)
          ELSE Inner(entry.value[n], written[n - 1])
    IN  CASE entry.type \in FixedTypes ->
                Write(buffer, LittleEndian(entry.value, Width[entry.type]))
          [] entry.type = TYPE_STRING -> Write(buffer, UTF8(entry.value))
          [] entry.type = TYPE_OBJECT -> Inner(entry.value, buffer)
          [] entry.type = TYPE_OBJECT_ARR -> written[Len(entry.value)]

\* One turn of Serialize's loop: on it goes from where the value should end.
WriteItem(buffer, entry, Length(_), Inner(_, _)) ==
    LET size == ItemSize(entry, Length)
        start == Write(buffer, LittleEndian(entry.key, 2) \o LittleEndian(entry.type, 2)
                                  \o LittleEndian(size, 4))
    IN  IF ~start.ok THEN start
        ELSE [WriteValue(start, entry, Inner) EXCEPT !.offset = start.offset + size]

SerializeWith(values, buffer, Length(_), Inner(_, _)) ==
    LET written[n \in 0 .. Len(values)] ==
          IF n = 0 THEN Write(buffer, LittleEndian(Len(values), 2))
          ELSE WriteItem(written[n - 1], values[n], Length, Inner)
    IN  written[Len(values)]

FlatSerialize(values, buffer) ==
    SerializeWith(values, buffer, LAMBDA message : 0, LAMBDA message, b : b)
Serialize(values, buffer) == SerializeWith(values, buffer, FlatLength, FlatSerialize)

\* What SendMessage puts on the wire after its header.
Encoded(values) == Serialize(values, Buffer(SerializedLength(values)))

-----------------------------------------------------------------------------
(* The reader. What it reads is at an offset of the bytes; a message within a *)
(* message is behind its beginning, so that none is deeper in than there are  *)
(* bytes. read[at] is what is read of a message within.                       *)

Refused == [ok |-> FALSE, offset |-> 0, values |-> <<>>]
Opened(offset) == [ok |-> TRUE, offset |-> offset, values |-> <<>>]

\* The switch's test of a fixed type's length.
LengthFits(type, length) == type \in FixedTypes => length = Width[type]

\* ArrayFromBuffer.
ReadArray(bytes, at, read) ==
    LET count == NumberAt(bytes, at, 4)
        taken[n \in 0 .. count] ==
          IF n = 0 THEN Opened(at + 4)
          ELSE LET m == read[taken[n - 1].offset]
               IN  IF ~taken[n - 1].ok \/ ~m.ok THEN Refused
                   ELSE [ok |-> TRUE, offset |-> m.offset,
                         values |-> Append(taken[n - 1].values, m.values)]
    IN  IF Has(bytes, at, 4) THEN taken[count] ELSE Refused

\* The value of a property whose payload is at this offset.
ReadValue(bytes, type, at, length, read) ==
    CASE type \in FixedTypes /\ LengthFits(type, length) /\ Has(bytes, at, Width[type]) ->
            Answer(NumberAt(bytes, at, Width[type]))
      [] type = TYPE_STRING /\ Has(bytes, at, length) ->
            Answer(FromUTF8(Slice(bytes, at, length)))
      [] type = TYPE_OBJECT -> [ok |-> read[at].ok, value |-> read[at].values]
      [] type = TYPE_OBJECT_ARR ->
            LET array == ReadArray(bytes, at, read)
            IN  [ok |-> array.ok, value |-> array.values]
      [] OTHER -> NoAnswer

\* One turn of Deserialize's loop.
ReadProperty(bytes, state, read) ==
    LET at == state.offset
        key == NumberAt(bytes, at, 2)
        type == NumberAt(bytes, at + 2, 2)
        length == NumberAt(bytes, at + 4, 4)
        value == ReadValue(bytes, type, at + 8, length, read)
    IN  IF ~state.ok \/ ~Has(bytes, at, 8) THEN Refused
        ELSE IF ~value.ok \/ HasKey(state.values, key) THEN Refused
        ELSE [ok     |-> TRUE,
              offset |-> at + 8 + length,
              values |-> Append(state.values, Entry(key, type, value.value))]

ReadMessage(bytes, offset, read) ==
    LET count == NumberAt(bytes, offset, 2)
        taken[n \in 0 .. count] ==
          IF n = 0 THEN Opened(offset + 2) ELSE ReadProperty(bytes, taken[n - 1], read)
    IN  IF Has(bytes, offset, 2) THEN taken[count] ELSE Refused

Deserialize(bytes, offset) ==
    LET nested[depth \in 0 .. Len(bytes)] ==
          IF depth = 0 THEN [at \in Nat |-> Refused]
          ELSE [at \in Nat |-> ReadMessage(bytes, at, nested[depth - 1])]
    IN  nested[Len(bytes)][offset]

FromBuffer(bytes) == Deserialize(bytes, 0)
=============================================================================
