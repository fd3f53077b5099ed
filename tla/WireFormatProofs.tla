-------------------------- MODULE WireFormatProofs --------------------------
(* That each end of the protocol reads what the other wrote, for messages of  *)
(* any number of properties, any keys, numbers and strings, and any limits.   *)
(*                                                                            *)
(* The bytes of a message are laid out property by property; a turn of either *)
(* reader at a property's bytes reads that property; a turn of the server's   *)
(* writer fills a property's place and leaves those before it alone. So the   *)
(* server's bytes are those of a well-formed message, and what is known of    *)
(* DddNetMsg's reader holds of them.                                          *)
EXTENDS WireFormat, DddNetMsgProofs

-----------------------------------------------------------------------------
(* Where the properties are in the bytes of a message.                        *)

\* Where each property is in the bytes of a message.
Laid(m, bytes, place) ==
    /\ place \in [0 .. Len(m.next) -> Nat]
    /\ place[0] = 2 /\ place[Len(m.next)] = Len(bytes)
    /\ \A n \in Nat : n < Len(m.next) =>
          /\ m.next[n + 1] \in Items
          /\ place[n + 1] = place[n] + Len(BytesOf(m.next[n + 1]))
          /\ place[n + 1] <= Len(bytes)
          /\ \A j \in 1 .. Len(BytesOf(m.next[n + 1])) :
                bytes[place[n] + j] = BytesOf(m.next[n + 1])[j]

\* The count of a message is that of its properties, whatever its lengths are.
Counted(m) ==
    m \in MsgType /\ m.property_count = Len(m.next) /\ m.property_count < 65536

\* serialize lays the properties out one behind the other, after the count.
LEMMA LayoutOf ==
  ASSUME NEW m, Counted(m)
  PROVE  /\ serialize(m) \in Seq(Byte) /\ Len(serialize(m)) \in Nat
         /\ Len(m.next) \in Nat /\ Len(m.next) \in Short
         /\ \A j \in 1 .. 2 : serialize(m)[j] = LittleEndian(Len(m.next), 2)[j]
         /\ \E place : Laid(m, serialize(m), place)
<1> DEFINE bytes == serialize(m)
           list == m.next
           head == LittleEndian(Len(list), 2)
           all == BytesOfAll(list)
           parts == [i \in 1 .. Len(list) |-> BytesOf(list[i])]
           N == Len(list)
<1>1. /\ m \in MsgType /\ list \in Seq(Items) /\ N \in Nat /\ m.property_count = N
      /\ N < 65536
  <2>1. m \in MsgType /\ m.property_count = N /\ m.property_count < 65536
    BY SMT DEF Counted
  <2>2. list \in Seq(Items)
    BY <2>1 DEF MsgType
  <2>3. N \in Nat
    BY <2>2
  <2> HIDE DEF N
  <2> QED
    BY <2>1, <2>2, <2>3
<1>2. /\ bytes = head \o all /\ all \in Seq(Byte) /\ bytes \in Seq(Byte)
      /\ Len(bytes) = 2 + Len(all)
  BY <1>1, SerializeIs
<1>3. head \in Seq(Byte) /\ Len(head) = 2
  <2>1. N \in Nat
    BY <1>1
  <2> QED
    BY <2>1, LittleEndianType
<1>4. /\ parts \in Seq(Seq(Byte)) /\ Len(parts) = N
      /\ \A i \in 1 .. N : parts[i] = BytesOf(list[i])
      /\ all = FlattenSeq(parts)
  <2>1. parts \in Seq(Seq(Byte))
    BY <1>1, BytesOfAllType
  <2>2. Len(parts) = N /\ \A i \in 1 .. N : parts[i] = BytesOf(list[i])
    BY <1>1
  <2>3. all = FlattenSeq(parts)
    BY DEF BytesOfAll
  <2> QED
    BY <2>1, <2>2, <2>3, Zenon
<1> HIDE DEF bytes, head, all, parts
<1>5. PICK at \in [0 .. Len(parts) -> Nat] :
           /\ at[0] = 0 /\ at[Len(parts)] = Len(FlattenSeq(parts))
           /\ \A n \in Nat : n < Len(parts) =>
                /\ at[n + 1] = at[n] + Len(parts[n + 1])
                /\ at[n + 1] <= Len(FlattenSeq(parts))
                /\ \A j \in 1 .. Len(parts[n + 1]) :
                      FlattenSeq(parts)[at[n] + j] = parts[n + 1][j]
  BY <1>4, FlattenAt, Zenon
<1>6. /\ \A n \in 0 .. N : at[n] \in Nat
      /\ at[0] = 0 /\ at[N] = Len(all)
      /\ \A n \in Nat : n < N =>
           /\ at[n + 1] = at[n] + Len(parts[n + 1])
           /\ at[n + 1] <= Len(all)
           /\ \A j \in 1 .. Len(parts[n + 1]) : all[at[n] + j] = parts[n + 1][j]
  BY <1>4, <1>5, Zenon
<1>7. /\ \A j \in 1 .. Len(head) : bytes[j] = head[j]
      /\ \A j \in 1 .. Len(all) : bytes[2 + j] = all[j]
  BY <1>2, <1>3, JoinedAt
<1> HIDE DEF N
<1> DEFINE place == [n \in 0 .. N |-> 2 + at[n]]
<1>8. place \in [0 .. N -> Nat]
  BY <1>6
<1>9. place[0] = 2 /\ place[N] = Len(bytes)
  BY <1>1, <1>2, <1>6
<1>10. ASSUME NEW n \in Nat, n < N
       PROVE  /\ list[n + 1] \in Items
              /\ place[n + 1] = place[n] + Len(BytesOf(list[n + 1]))
              /\ place[n + 1] <= Len(bytes)
              /\ \A j \in 1 .. Len(BytesOf(list[n + 1])) :
                    bytes[place[n] + j] = BytesOf(list[n + 1])[j]
  <2> DEFINE item == list[n + 1]
             x == at[n]
             y == Len(BytesOf(item))
             z == Len(all)
  <2>1. n + 1 \in 1 .. N /\ n \in 0 .. N /\ n + 1 \in 0 .. N
    BY <1>1, <1>10
  <2>2. item \in Items
    BY <1>1, <2>1, ElementOfSeq DEF N
  <2>3. parts[n + 1] = BytesOf(item)
    BY <1>4, <2>1, Zenon
  <2>4. y \in Nat
    BY <2>2, BytesOfType
  <2>5. /\ at[n + 1] = x + y /\ at[n + 1] <= z /\ x \in Nat /\ z \in Nat
        /\ \A j \in 1 .. y : all[x + j] = BytesOf(item)[j]
    <3>1. /\ at[n + 1] = at[n] + Len(parts[n + 1]) /\ at[n + 1] <= Len(all)
          /\ \A j \in 1 .. Len(parts[n + 1]) : all[at[n] + j] = parts[n + 1][j]
      BY <1>6, <1>10, Zenon
    <3>2. x \in Nat /\ z \in Nat
      BY <1>2, <1>6, <2>1
    <3> QED
      BY <2>3, <3>1, <3>2, Zenon
  <2> HIDE DEF item, x, y, z
  <2>6. place[n] = 2 + x /\ place[n + 1] = 2 + at[n + 1]
    BY <2>1 DEF x
  <2>7. \A j \in 1 .. y : bytes[place[n] + j] = BytesOf(item)[j]
    <3> TAKE j \in 1 .. y
    <3>1. x + j \in 1 .. z /\ (2 + x) + j = 2 + (x + j)
      BY <2>4, <2>5
    <3>2. bytes[2 + (x + j)] = all[x + j]
      BY <1>7, <3>1, Zenon DEF z
    <3> QED
      BY <2>5, <2>6, <3>1, <3>2, Zenon
  <2> HIDE DEF place
  <2>8. place[n + 1] = place[n] + y /\ place[n + 1] <= Len(bytes)
    BY <1>2, <2>4, <2>5, <2>6 DEF z
  <2> QED
    BY <2>2, <2>7, <2>8, Zenon DEF item, y
<1> HIDE DEF place
<1>11. Laid(m, bytes, place)
  BY <1>8, <1>9, <1>10, Zenon DEF Laid, N
<1>12. \A j \in 1 .. 2 : bytes[j] = head[j]
  BY <1>3, <1>7, Zenon
<1>13. N \in Short /\ Len(bytes) \in Nat
  <2>1. N \in Short
    BY <1>1, SMT DEF Short
  <2> QED
    BY <1>2, <2>1
<1>14. bytes \in Seq(Byte) /\ N \in Nat
  BY <1>1, <1>2
<1> QED
  BY <1>11, <1>12, <1>13, <1>14, Zenon DEF N, bytes, head

\* The same of a well-formed message.
LEMMA Layout ==
  ASSUME NEW m, WellFormed(m)
  PROVE  /\ serialize(m) \in Seq(Byte) /\ Len(serialize(m)) \in Nat
         /\ Len(m.next) \in Nat /\ Len(m.next) \in Short
         /\ \A j \in 1 .. 2 : serialize(m)[j] = LittleEndian(Len(m.next), 2)[j]
         /\ \E place : Laid(m, serialize(m), place)
<1>1. Counted(m)
  BY SMT DEF WellFormed, Counted
<1> QED
  BY <1>1, LayoutOf

-----------------------------------------------------------------------------
(* DddNetMsg's reader, on the bytes of a well-formed message.                 *)

\* The turns of deserialize's loop.
Turns(bytes, read, count) ==
    /\ read[0] = Start
    /\ \A n \in Nat : n < count => read[n + 1] = ReadItem(bytes, read[n])

\* Payloads of a length that is read exactly.
Exact(m) == \A i \in 1 .. Len(m.next) : Len(m.next[i].payload) < Huge

\* big begins with bytes.
Begins(big, bytes) ==
    Len(bytes) <= Len(big) /\ \A j \in 1 .. Len(bytes) : big[j] = bytes[j]

\* The loop on bytes that begin with a message's: when it gets through, it is at
\* the message's end.
LEMMA TurnsOn ==
  ASSUME NEW m, WellFormed(m), Exact(m), NEW big \in Seq(Byte), Begins(big, serialize(m)),
         NEW read, Turns(big, read, Len(m.next)), read[Len(m.next)].ok
  PROVE  Small(m) /\ read[Len(m.next)].offset = Len(serialize(m))
<1> DEFINE bytes == serialize(m)
           N == Len(m.next)
<1>1. /\ bytes \in Seq(Byte) /\ Len(bytes) \in Nat /\ N \in Nat
      /\ \E place : Laid(m, bytes, place)
  BY Layout, Zenon
<1>2. PICK place : Laid(m, bytes, place)
  BY <1>1, Zenon
<1> HIDE DEF bytes
<1>3. /\ \A n \in 0 .. N : place[n] \in Nat
      /\ place[0] = 2 /\ place[N] = Len(bytes)
      /\ \A n \in Nat : n < N =>
            /\ m.next[n + 1] \in Items
            /\ place[n + 1] = place[n] + Len(BytesOf(m.next[n + 1]))
            /\ place[n + 1] <= Len(bytes)
            /\ \A j \in 1 .. Len(BytesOf(m.next[n + 1])) :
                  bytes[place[n] + j] = BytesOf(m.next[n + 1])[j]
  BY <1>2, Zenon DEF Laid
<1>4. Len(big) \in Nat /\ Len(bytes) <= Len(big) /\ \A j \in 1 .. Len(bytes) : big[j] = bytes[j]
  BY DEF Begins, bytes
<1>5. /\ read[0] = Start
      /\ \A n \in Nat : n < N => read[n + 1] = ReadItem(big, read[n])
  BY Zenon DEF Turns
<1> DEFINE Fits(i) == Len(m.next[i].payload) <= MAX_PACKET_SIZE
           Good(n) == /\ read[n] \in States
                      /\ read[n].ok => /\ read[n].offset = place[n]
                                       /\ \A i \in 1 .. n : Fits(i)
           T == {n \in Nat : n <= N => Good(n)}
<1> HIDE DEF N
<1>6. 0 \in T
  BY <1>3, <1>5, StartType DEF Start
<1>7. ASSUME NEW n \in Nat, n < N, Good(n) PROVE Good(n + 1)
  <2> DEFINE item == m.next[n + 1]
             y == Len(BytesOf(item))
  <2>1. n + 1 \in 1 .. N /\ n \in 0 .. N
    BY <1>1, <1>7
  <2>2. read[n + 1] = ReadItem(big, read[n]) /\ read[n] \in States
    BY <1>5, <1>7
  <2>3. read[n + 1] \in States
    BY <2>2, ReadItemIs
  <2>4. ASSUME read[n + 1].ok
        PROVE  read[n + 1].offset = place[n + 1] /\ \A i \in 1 .. n + 1 : Fits(i)
    <3>1. read[n].ok
      BY <2>2, <2>4, ReadItemOn, Zenon
    <3>2. read[n].offset = place[n] /\ \A i \in 1 .. n : Fits(i)
      BY <1>7, <3>1
    <3>3. /\ item \in Items /\ place[n + 1] = place[n] + y /\ place[n + 1] <= Len(bytes)
          /\ \A j \in 1 .. y : bytes[place[n] + j] = BytesOf(item)[j]
      BY <1>3, <1>7, Zenon
    <3>4. place[n] \in Nat
      BY <1>3, <2>1
    <3>5. y \in Nat
      BY <3>3, BytesOfType
    <3>6. Len(item.payload) < Huge /\ Len(item.payload) \in Nat
      BY <2>1, <3>3 DEF Exact, Items, N
    <3> HIDE DEF item, y
    <3>7. Has(big, place[n], y)
      BY <1>1, <1>4, <3>3, <3>4, <3>5 DEF Has
    <3>8. \A j \in 1 .. y : big[place[n] + j] = BytesOf(item)[j]
      <4> TAKE j \in 1 .. y
      <4>1. place[n] + j \in 1 .. Len(bytes)
        BY <1>1, <3>3, <3>4, <3>5
      <4> QED
        BY <1>4, <3>3, <4>1, Zenon
    <3>9. Has(big, read[n].offset, Len(BytesOf(item)))
          /\ \A j \in 1 .. Len(BytesOf(item)) :
                big[read[n].offset + j] = BytesOf(item)[j]
      BY <3>2, <3>7, <3>8, Zenon DEF y
    <3>10. Len(item.payload) <= MAX_PACKET_SIZE
      <4> SUFFICES ASSUME Len(item.payload) > MAX_PACKET_SIZE PROVE FALSE
        BY <3>6, MessageAssumption
      <4>1. ~ReadItem(big, read[n]).ok
        BY <2>2, <3>3, <3>6, <3>9, ItemRefused, Zenon
      <4> QED
        BY <2>2, <2>4, <4>1, Zenon
    <3>11. ReadItem(big, read[n]) =
             [ok |-> TRUE, offset |-> read[n].offset + Len(BytesOf(item)),
              msg |-> Prepend(read[n].msg, item)]
      BY <2>2, <3>1, <3>3, <3>9, <3>10, ItemRead, Zenon
    <3>12. read[n + 1].offset = place[n + 1]
      BY <2>2, <3>2, <3>3, <3>11 DEF y
    <3>13. \A i \in 1 .. n + 1 : Fits(i)
      <4> TAKE i \in 1 .. n + 1
      <4>1. CASE i = n + 1
        BY <3>10, <4>1 DEF item
      <4>2. CASE i # n + 1
        <5>1. i \in 1 .. n
          BY <4>2
        <5> QED
          BY <5>1, <3>2, Zenon
      <4> QED
        BY <4>1, <4>2
    <3> QED
      BY <3>12, <3>13, Zenon
  <2> QED
    BY <2>3, <2>4, Zenon
<1>8. ASSUME NEW n \in Nat, n \in T PROVE n + 1 \in T
  <2> HIDE DEF Good
  <2>1. SUFFICES ASSUME n + 1 <= N PROVE Good(n + 1)
    OBVIOUS
  <2>2. n <= N /\ n < N
    BY <1>1, <2>1
  <2>3. Good(n)
    BY <2>2, <1>8
  <2> QED
    BY <2>2, <2>3, <1>7, Zenon
<1> HIDE DEF T
<1>9. N \in T
  BY <1>1, <1>6, <1>8, Induction
<1>10. Good(N)
  <2> HIDE DEF Good
  <2> QED
    BY <1>1, <1>9 DEF T
<1>11. read[N].offset = Len(bytes) /\ \A i \in 1 .. N : Fits(i)
  BY <1>3, <1>10, Zenon DEF N
<1> QED
  BY <1>11 DEF Small, N, bytes

\* The loop stays as it is when more bytes follow.
LEMMA TurnsSame ==
  ASSUME NEW bytes \in Seq(Byte), NEW more \in Seq(Byte), NEW count \in Nat,
         NEW a, Turns(bytes, a, count), NEW b, Turns(bytes \o more, b, count), a[count].ok
  PROVE  b[count] = a[count]
<1> DEFINE all == bytes \o more
<1>1. /\ a[0] = Start /\ \A n \in Nat : n < count => a[n + 1] = ReadItem(bytes, a[n])
      /\ b[0] = Start /\ \A n \in Nat : n < count => b[n + 1] = ReadItem(all, b[n])
  BY Zenon DEF Turns
<1> HIDE DEF all
<1> DEFINE T == {n \in Nat : n <= count =>
                   a[n] \in States /\ (a[n].ok => b[n] = a[n])}
<1>7. 0 \in T
  BY <1>1, StartType
<1>8. ASSUME NEW n \in Nat, n \in T PROVE n + 1 \in T
  <2>1. SUFFICES ASSUME n + 1 <= count
                 PROVE  a[n + 1] \in States /\ (a[n + 1].ok => b[n + 1] = a[n + 1])
    OBVIOUS
  <2>2. n < count
    BY <2>1
  <2>3. a[n] \in States /\ (a[n].ok => b[n] = a[n])
    BY <2>2, <1>8
  <2>4. a[n + 1] = ReadItem(bytes, a[n]) /\ b[n + 1] = ReadItem(all, b[n])
    BY <2>2, <1>1
  <2>5. a[n + 1] \in States
    BY <2>3, <2>4, ReadItemIs
  <2>6. ASSUME a[n + 1].ok PROVE b[n + 1] = a[n + 1]
    <3>1. a[n].ok
      BY <2>3, <2>4, <2>6, ReadItemOn, Zenon
    <3>2. ReadItem(all, a[n]) = ReadItem(bytes, a[n])
      BY <2>3, <2>4, <2>6, SameItem DEF all
    <3> QED
      BY <2>3, <2>4, <3>1, <3>2
  <2> QED
    BY <2>5, <2>6
<1> HIDE DEF T
<1>9. count \in T
  BY <1>7, <1>8, Induction
<1> QED
  BY <1>9 DEF T

\* deserialize makes as many turns as are counted, and has to end at the end.
LEMMA DeserializeTurns ==
  ASSUME NEW bytes \in Seq(Byte), Has(bytes, 0, 2)
  PROVE  /\ NumberAt(bytes, 0, 2) \in Nat
         /\ \E read :
              /\ Turns(bytes, read, NumberAt(bytes, 0, 2))
              /\ deserialize(bytes).ok = (read[NumberAt(bytes, 0, 2)].ok
                                           /\ read[NumberAt(bytes, 0, 2)].offset = Len(bytes))
<1>1. NumberAt(bytes, 0, 2) \in Nat
  BY NumberAtType
<1>2. PICK read :
           /\ read[0] = Start
           /\ \A n \in Nat : n < NumberAt(bytes, 0, 2) => read[n + 1] = ReadItem(bytes, read[n])
           /\ deserialize(bytes).ok = (read[NumberAt(bytes, 0, 2)].ok
                                        /\ read[NumberAt(bytes, 0, 2)].offset = Len(bytes))
  BY <1>1, DeserializeIs, Zenon
<1>3. Turns(bytes, read, NumberAt(bytes, 0, 2))
  BY <1>2, Zenon DEF Turns
<1> QED
  BY <1>1, <1>2, <1>3, Zenon

\* Without a count nothing is read.
LEMMA DeserializeShort ==
  ASSUME NEW bytes, deserialize(bytes).ok
  PROVE  Has(bytes, 0, 2)
<1> SUFFICES ASSUME ~Has(bytes, 0, 2) PROVE deserialize(bytes).ok = FALSE
  OBVIOUS
<1> QED
  BY DEF deserialize

\* The count is read back.
LEMMA CountRead ==
  ASSUME NEW m, WellFormed(m), NEW big \in Seq(Byte), Begins(big, serialize(m))
  PROVE  Has(big, 0, 2) /\ NumberAt(big, 0, 2) = Len(m.next) /\ Len(m.next) \in Nat
<1> DEFINE bytes == serialize(m)
           N == Len(m.next)
           head == LittleEndian(N, 2)
<1>1. /\ bytes \in Seq(Byte) /\ N \in Nat /\ \A j \in 1 .. 2 : bytes[j] = head[j]
      /\ \E place : Laid(m, bytes, place)
  BY Layout, Zenon
<1>2. N < 65536 /\ N < Huge
  <2>1. N \in Short
    BY Layout, Zenon
  <2> HIDE DEF N
  <2> QED
    BY <1>1, <2>1, SMT DEF Huge, Short
<1>3. Len(bytes) \in Nat /\ 2 <= Len(bytes)
  BY SerializeIs DEF WellFormed
<1> HIDE DEF bytes, N
<1>4. head \in Seq(Byte) /\ Len(head) = 2
  BY <1>1, LittleEndianType
<1>5. Number(head) = N
  <2>1. 2 \in {2, 4, 8} /\ (2 = 2 => N < 65536)
    BY <1>2
  <2> HIDE DEF head
  <2> QED
    BY <1>1, <1>2, <2>1, NumberBack DEF head
<1> HIDE DEF head
<1>6. Len(bytes) <= Len(big) /\ \A j \in 1 .. Len(bytes) : big[j] = bytes[j]
  BY DEF Begins, bytes
<1>7. Len(big) \in Nat
  OBVIOUS
<1>8. Has(big, 0, 2)
  BY <1>3, <1>6, <1>7 DEF Has
<1>9. \A j \in 1 .. Len(head) : big[0 + j] = head[j]
  <2> TAKE j \in 1 .. Len(head)
  <2>1. j \in 1 .. 2 /\ j \in 1 .. Len(bytes) /\ 0 + j = j
    BY <1>3, <1>4
  <2> QED
    BY <1>1, <1>6, <2>1, Zenon
<1>10. Slice(big, 0, 2) = head
  <2>1. Has(big, 0, Len(head)) /\ 0 \in Nat
    BY <1>4, <1>8
  <2>2. Slice(big, 0, Len(head)) = head
    BY <1>4, <1>9, <2>1, SliceBack, Zenon
  <2> QED
    BY <1>4, <2>2
<1> QED
  BY <1>1, <1>5, <1>8, <1>10, Zenon DEF NumberAt, N

\* The reader takes a message's bytes when it takes its payloads, and then only
\* the whole of them.
LEMMA ReadWhole ==
  ASSUME NEW m, WellFormed(m), Exact(m)
  PROVE  /\ deserialize(serialize(m)).ok <=> Small(m)
         /\ \A n \in 0 .. Len(serialize(m)) - 1 : ~deserialize(SubSeq(serialize(m), 1, n)).ok
         /\ ~deserialize(serialize(m) \o <<0>>).ok
<1> DEFINE bytes == serialize(m)
           N == Len(m.next)
<1>1. bytes \in Seq(Byte) /\ Len(bytes) \in Nat
  BY Layout, Zenon
<1>2. ASSUME NEW big \in Seq(Byte), Begins(big, bytes), deserialize(big).ok
      PROVE  Small(m) /\ Len(big) = Len(bytes)
  <2>1. Has(big, 0, 2) /\ NumberAt(big, 0, 2) = N
    BY <1>2, CountRead, Zenon
  <2>2. PICK read : /\ Turns(big, read, N)
                    /\ deserialize(big).ok = (read[N].ok /\ read[N].offset = Len(big))
    BY <2>1, DeserializeTurns, Zenon
  <2>3. read[N].ok /\ read[N].offset = Len(big)
    BY <1>2, <2>2, Zenon
  <2>4. Small(m) /\ read[N].offset = Len(bytes)
    BY <1>2, <2>2, <2>3, TurnsOn, Zenon
  <2> QED
    BY <2>3, <2>4
<1>3. Begins(bytes, bytes)
  BY <1>1 DEF Begins
<1>4. deserialize(bytes).ok <=> Small(m)
  BY <1>1, <1>2, <1>3, ReadBack, Zenon
<1>5. ASSUME NEW n \in 0 .. Len(bytes) - 1 PROVE ~deserialize(SubSeq(bytes, 1, n)).ok
  <2> DEFINE part == SubSeq(bytes, 1, n)
             rest == SubSeq(bytes, n + 1, Len(bytes))
  <2> HIDE DEF bytes
  <2>1. part \in Seq(Byte) /\ rest \in Seq(Byte) /\ bytes = part \o rest /\ Len(part) = n
    BY <1>1, <1>5
  <2> HIDE DEF part, rest
  <2>2. SUFFICES ASSUME deserialize(part).ok PROVE FALSE
    BY DEF part
  <2>3. Has(part, 0, 2)
    BY <2>2, DeserializeShort
  <2>4. Has(bytes, 0, 2) /\ NumberAt(bytes, 0, 2) = NumberAt(part, 0, 2)
    BY <2>1, <2>3, SameSlice DEF NumberAt
  <2>5. NumberAt(part, 0, 2) = N /\ N \in Nat
    BY <1>1, <1>3, <2>4, CountRead, Zenon DEF bytes
  <2>6. PICK a : Turns(part, a, N) /\ deserialize(part).ok = (a[N].ok /\ a[N].offset = Len(part))
    BY <2>1, <2>3, <2>5, DeserializeTurns, Zenon
  <2>7. PICK b : Turns(bytes, b, N)
    BY <1>1, <2>4, <2>5, DeserializeTurns, Zenon
  <2>8. a[N].ok /\ a[N].offset = n
    BY <2>1, <2>2, <2>6, Zenon
  <2>9. b[N] = a[N]
    <3>1. Turns(part \o rest, b, N)
      BY <2>1, <2>7, Zenon
    <3>2. part \in Seq(Byte) /\ rest \in Seq(Byte) /\ N \in Nat
      BY <2>1, <2>5
    <3>3. Turns(part, a, N) /\ a[N].ok
      BY <2>6, <2>8
    <3> HIDE DEF N
    <3> QED
      BY <3>1, <3>2, <3>3, TurnsSame
  <2>10. b[N].offset = Len(bytes)
    <3>1. b[N].ok
      BY <2>8, <2>9
    <3> QED
      BY <1>1, <1>3, <2>7, <3>1, TurnsOn, Zenon DEF bytes
  <2> QED
    BY <1>1, <1>5, <2>8, <2>9, <2>10
<1>6. ~deserialize(bytes \o <<0>>).ok
  <2> DEFINE big == bytes \o <<0>>
  <2> HIDE DEF bytes
  <2>1. big \in Seq(Byte) /\ Len(big) = Len(bytes) + 1 /\ Begins(big, bytes)
    <3>1. <<0>> \in Seq(Byte) /\ Len(<<0>>) = 1
      BY DEF Byte
    <3>2. /\ big \in Seq(Byte) /\ Len(big) = Len(bytes) + Len(<<0>>)
          /\ \A j \in 1 .. Len(bytes) : big[j] = bytes[j]
      BY <1>1, <3>1, JoinedAt
    <3> HIDE DEF big
    <3> QED
      BY <1>1, <3>1, <3>2 DEF Begins
  <2> HIDE DEF big
  <2>2. Len(big) # Len(bytes)
    BY <1>1, <2>1
  <2> QED
    BY <1>2, <2>1, <2>2, Zenon DEF big, bytes
<1> QED
  BY <1>4, <1>5, <1>6, Zenon

-----------------------------------------------------------------------------
(* The bytes of a string.                                                     *)

\* One byte or two, of which the character is computed back.
LEMMA UTF8CharIs ==
  ASSUME NEW c \in Characters
  PROVE  /\ UTF8Char(c) \in Seq(Byte) /\ c \in Nat
         /\ c < 128 => UTF8Char(c) = <<c>> /\ Len(UTF8Char(c)) = 1
         /\ ~(c < 128) => /\ Len(UTF8Char(c)) = 2
                          /\ UTF8Char(c)[1] \in 194 .. 223
                          /\ UTF8Char(c)[2] \in 128 .. 191
                          /\ 64 * (UTF8Char(c)[1] - 192) + (UTF8Char(c)[2] - 128) = c
<1> c \in 1 .. 2047
  BY DEF Characters
<1>1. CASE c < 128
  <2>1. c \in Byte
    BY <1>1 DEF Byte
  <2> QED
    BY <1>1, <2>1 DEF UTF8Char
<1>2. CASE ~(c < 128)
  <2> DEFINE q == c \div 64
             b == c % 64
  <2>1. c = 64 * q + b /\ b \in 0 .. 63 /\ q \in Int
    OBVIOUS
  <2>2. UTF8Char(c) = <<192 + q, 128 + b>>
    BY <1>2 DEF UTF8Char
  <2> HIDE DEF q, b
  <2>3. q \in 2 .. 31
    BY <1>2, <2>1
  <2>4. 192 + q \in 194 .. 223 /\ 128 + b \in 128 .. 191
        /\ 64 * ((192 + q) - 192) + ((128 + b) - 128) = c
    BY <2>1, <2>3
  <2>5. 192 + q \in Byte /\ 128 + b \in Byte
    BY <2>1, <2>3 DEF Byte
  <2> QED
    BY <1>2, <2>2, <2>4, <2>5
<1> QED
  BY <1>1, <1>2

\* Where each character is in a string's bytes.
LEMMA UTF8At ==
  ASSUME NEW chars \in Seq(Characters)
  PROVE  \E place :
           /\ place[0] = 0 /\ place[Len(chars)] = Len(UTF8(chars))
           /\ \A n \in 0 .. Len(chars) : place[n] \in Nat
           /\ \A n \in Nat : n < Len(chars) =>
                /\ place[n + 1] = place[n] + Len(UTF8Char(chars[n + 1]))
                /\ place[n + 1] <= Len(UTF8(chars))
                /\ \A j \in 1 .. Len(UTF8Char(chars[n + 1])) :
                      UTF8(chars)[place[n] + j] = UTF8Char(chars[n + 1])[j]
<1> DEFINE parts == [i \in 1 .. Len(chars) |-> UTF8Char(chars[i])]
<1>1. Len(chars) \in Nat /\ \A i \in 1 .. Len(chars) : UTF8Char(chars[i]) \in Seq(Byte)
  <2>1. \A i \in 1 .. Len(chars) : chars[i] \in Characters
    BY ElementOfSeq
  <2> QED
    BY <2>1, UTF8CharIs
<1>2. /\ parts \in Seq(Seq(Byte)) /\ Len(parts) = Len(chars)
      /\ \A i \in 1 .. Len(chars) : parts[i] = UTF8Char(chars[i])
  BY <1>1
<1>3. UTF8(chars) = FlattenSeq(parts)
  BY DEF UTF8
<1> HIDE DEF parts
<1>4. PICK place \in [0 .. Len(parts) -> Nat] :
           /\ place[0] = 0 /\ place[Len(parts)] = Len(FlattenSeq(parts))
           /\ \A n \in Nat : n < Len(parts) =>
                /\ place[n + 1] = place[n] + Len(parts[n + 1])
                /\ place[n + 1] <= Len(FlattenSeq(parts))
                /\ \A j \in 1 .. Len(parts[n + 1]) :
                      FlattenSeq(parts)[place[n] + j] = parts[n + 1][j]
  BY <1>2, FlattenAt, Zenon
<1>5. \A n \in 0 .. Len(chars) : place[n] \in Nat
  BY <1>2, <1>4
<1>6. ASSUME NEW n \in Nat, n < Len(chars)
      PROVE  /\ place[n + 1] = place[n] + Len(UTF8Char(chars[n + 1]))
             /\ place[n + 1] <= Len(UTF8(chars))
             /\ \A j \in 1 .. Len(UTF8Char(chars[n + 1])) :
                   UTF8(chars)[place[n] + j] = UTF8Char(chars[n + 1])[j]
  <2>1. parts[n + 1] = UTF8Char(chars[n + 1])
    <3>1. n + 1 \in 1 .. Len(chars)
      BY <1>1, <1>6
    <3> QED
      BY <1>2, <3>1, Zenon
  <2>2. n < Len(parts)
    BY <1>2, <1>6
  <2>3. /\ place[n + 1] = place[n] + Len(parts[n + 1])
        /\ place[n + 1] <= Len(FlattenSeq(parts))
        /\ \A j \in 1 .. Len(parts[n + 1]) :
              FlattenSeq(parts)[place[n] + j] = parts[n + 1][j]
    BY <1>4, <2>2, Zenon
  <2> QED
    BY <1>3, <2>1, <2>3, Zenon
<1>7. place[0] = 0 /\ place[Len(chars)] = Len(UTF8(chars))
  BY <1>2, <1>3, <1>4, Zenon
<1> QED
  BY <1>5, <1>6, <1>7, Zenon

\* A string has at least a byte per character and at most two.
LEMMA UTF8Length ==
  ASSUME NEW chars \in Seq(Characters)
  PROVE  /\ UTF8(chars) \in Seq(Byte) /\ Len(UTF8(chars)) \in Nat
         /\ Len(chars) <= Len(UTF8(chars)) /\ Len(UTF8(chars)) <= 2 * Len(chars)
<1>1. UTF8(chars) \in Seq(Byte) /\ Len(UTF8(chars)) \in Nat /\ Len(chars) \in Nat
  <2>1. UTF8(chars) \in Seq(Byte)
    BY UTF8Type
  <2> QED
    BY <2>1
<1>2. PICK place :
           /\ place[0] = 0 /\ place[Len(chars)] = Len(UTF8(chars))
           /\ \A n \in 0 .. Len(chars) : place[n] \in Nat
           /\ \A n \in Nat : n < Len(chars) =>
                place[n + 1] = place[n] + Len(UTF8Char(chars[n + 1]))
  BY UTF8At, Zenon
<1> DEFINE T == {n \in Nat : n <= Len(chars) => n <= place[n] /\ place[n] <= 2 * n}
<1>3. 0 \in T
  BY <1>2
<1>4. ASSUME NEW n \in Nat, n \in T PROVE n + 1 \in T
  <2>1. SUFFICES ASSUME n + 1 <= Len(chars)
                 PROVE  n + 1 <= place[n + 1] /\ place[n + 1] <= 2 * (n + 1)
    OBVIOUS
  <2>2. n < Len(chars) /\ n <= Len(chars) /\ n \in 0 .. Len(chars) /\ n + 1 \in 1 .. Len(chars)
    BY <1>1, <2>1
  <2> DEFINE w == Len(UTF8Char(chars[n + 1]))
  <2>3. w \in {1, 2}
    <3>1. chars[n + 1] \in Characters
      BY <2>2, ElementOfSeq
    <3> QED
      BY <3>1, UTF8CharIs, Zenon
  <2>4. place[n + 1] = place[n] + w /\ place[n] \in Nat
    BY <1>2, <2>2, Zenon
  <2> HIDE DEF w
  <2> QED
    BY <1>4, <2>2, <2>3, <2>4
<1> HIDE DEF T
<1>5. Len(chars) \in T
  BY <1>1, <1>3, <1>4, Induction
<1> QED
  BY <1>1, <1>2, <1>5 DEF T

-----------------------------------------------------------------------------
(* The server's decoder.                                                      *)

\* FromUTF8 is its loop.
LEMMA FromUTF8Is ==
  ASSUME NEW bytes, Len(bytes) \in Nat
  PROVE  \E decoded :
           /\ decoded[0] = Undecoded
           /\ \A n \in Nat : n < Len(bytes) => decoded[n + 1] = Decode(decoded[n], bytes[n + 1])
           /\ FromUTF8(bytes) = Flush(decoded[Len(bytes)])
<1> DEFINE decoded[n \in 0 .. Len(bytes)] ==
             IF n = 0 THEN Undecoded ELSE Decode(decoded[n - 1], bytes[n])
<1>1. FiniteNatInductiveDefHypothesis(decoded, Undecoded,
         LAMBDA v, n : Decode(v, bytes[n]), 0, Len(bytes))
  BY DEF FiniteNatInductiveDefHypothesis
<1>2. FromUTF8(bytes) = Flush(decoded[Len(bytes)])
  BY Zenon DEF FromUTF8
<1> HIDE DEF decoded
<1>3. FiniteNatInductiveDefConclusion(decoded, Undecoded,
         LAMBDA v, n : Decode(v, bytes[n]), 0, Len(bytes))
  BY <1>1, FiniteNatInductiveDef
<1>4. decoded = [n \in 0 .. Len(bytes) |->
                   IF n = 0 THEN Undecoded ELSE Decode(decoded[n - 1], bytes[n])]
  BY <1>3 DEF FiniteNatInductiveDefConclusion
<1>5. \A n \in 0 .. Len(bytes) :
         decoded[n] = IF n = 0 THEN Undecoded ELSE Decode(decoded[n - 1], bytes[n])
  BY <1>4, Zenon
<1>6. decoded[0] = Undecoded
  BY <1>5
<1>7. \A n \in Nat : n < Len(bytes) => decoded[n + 1] = Decode(decoded[n], bytes[n + 1])
  <2> SUFFICES ASSUME NEW n \in Nat, n < Len(bytes)
               PROVE  decoded[n + 1] = Decode(decoded[n], bytes[n + 1])
    OBVIOUS
  <2>1. n + 1 \in 0 .. Len(bytes) /\ n + 1 # 0 /\ (n + 1) - 1 = n
    OBVIOUS
  <2> QED
    BY <2>1, <1>5
<1> QED
  BY <1>2, <1>6, <1>7, Zenon

\* What the bytes of a string are decoded to is the string.
LEMMA FromUTF8Back ==
  ASSUME NEW s \in Seq(Characters)
  PROVE  FromUTF8(UTF8(s)) = s
<1> DEFINE bytes == UTF8(s)
           Chars(k) == SubSeq(s, 1, k)
<1>1. bytes \in Seq(Byte) /\ Len(bytes) \in Nat /\ Len(s) \in Nat
  BY UTF8Length
<1>2. PICK place :
           /\ place[0] = 0 /\ place[Len(s)] = Len(bytes)
           /\ \A n \in 0 .. Len(s) : place[n] \in Nat
           /\ \A n \in Nat : n < Len(s) =>
                /\ place[n + 1] = place[n] + Len(UTF8Char(s[n + 1]))
                /\ place[n + 1] <= Len(bytes)
                /\ \A j \in 1 .. Len(UTF8Char(s[n + 1])) :
                      bytes[place[n] + j] = UTF8Char(s[n + 1])[j]
  BY UTF8At, Zenon
<1> HIDE DEF bytes
<1>3. PICK decoded :
           /\ decoded[0] = Undecoded
           /\ \A n \in Nat : n < Len(bytes) => decoded[n + 1] = Decode(decoded[n], bytes[n + 1])
           /\ FromUTF8(bytes) = Flush(decoded[Len(bytes)])
  BY <1>1, FromUTF8Is, Zenon
<1> DEFINE T == {k \in Nat : k <= Len(s) =>
                   decoded[place[k]] = [chars |-> Chars(k), lead |-> 0]}
<1>4. 0 \in T
  BY <1>2, <1>3 DEF Undecoded
<1>5. ASSUME NEW k \in Nat, k \in T PROVE k + 1 \in T
  <2>1. SUFFICES ASSUME k + 1 <= Len(s)
                 PROVE  decoded[place[k + 1]] = [chars |-> Chars(k + 1), lead |-> 0]
    OBVIOUS
  <2>2. k < Len(s) /\ k <= Len(s) /\ k \in 0 .. Len(s) /\ k + 1 \in 1 .. Len(s)
    BY <1>1, <2>1
  <2> DEFINE c == s[k + 1]
             code == UTF8Char(c)
             before == Chars(k)
             x == place[k]
  <2>3. c \in Characters
    BY <2>2, ElementOfSeq
  <2>4. /\ code \in Seq(Byte) /\ c \in Nat
        /\ c < 128 => code = <<c>> /\ Len(code) = 1
        /\ ~(c < 128) => /\ Len(code) = 2 /\ code[1] \in 194 .. 223 /\ code[2] \in 128 .. 191
                         /\ 64 * (code[1] - 192) + (code[2] - 128) = c
    BY <2>3, UTF8CharIs
  <2>5. /\ place[k + 1] = x + Len(code) /\ place[k + 1] <= Len(bytes) /\ x \in Nat
        /\ \A j \in 1 .. Len(code) : bytes[x + j] = code[j]
    BY <1>2, <2>2, Zenon
  <2>6. decoded[x] = [chars |-> before, lead |-> 0]
    BY <1>5, <2>2
  <2>7. Chars(k + 1) = Append(before, c)
    BY <2>2
  <2> HIDE DEF c, code, before, x
  <2>8. CASE c < 128
    <3>1. x < Len(bytes) /\ place[k + 1] = x + 1 /\ bytes[x + 1] = c
      <4>1. Len(code) = 1 /\ code[1] = c /\ 1 \in 1 .. Len(code)
        <5>1. code = <<c>> /\ Len(code) = 1
          BY <2>4, <2>8, Zenon
        <5>2. <<c>>[1] = c
          OBVIOUS
        <5> HIDE DEF c
        <5> QED
          BY <5>1, <5>2
      <4>2. bytes[x + 1] = c
        BY <2>5, <4>1, Zenon
      <4>3. place[k + 1] = x + 1
        BY <2>5, <4>1, Zenon
      <4> QED
        BY <1>1, <2>5, <4>2, <4>3
    <3>2. decoded[x + 1] = Decode(decoded[x], c)
      BY <1>3, <2>5, <3>1, Zenon
    <3>3. Decode([chars |-> before, lead |-> 0], c) = [chars |-> Append(before, c), lead |-> 0]
      BY <2>4, <2>8 DEF Decode, Flush
    <3> QED
      BY <2>6, <2>7, <3>1, <3>2, <3>3, Zenon
  <2>9. CASE ~(c < 128)
    <3> DEFINE a == code[1]
               b == code[2]
    <3>1. /\ a \in 194 .. 223 /\ b \in 128 .. 191 /\ 64 * (a - 192) + (b - 128) = c
          /\ Len(code) = 2
      BY <2>4, <2>9
    <3>2. /\ x < Len(bytes) /\ x + 1 < Len(bytes) /\ place[k + 1] = x + 2 /\ x + 1 \in Nat
          /\ (x + 1) + 1 = x + 2
      BY <1>1, <2>5, <3>1
    <3>3. bytes[x + 1] = a /\ bytes[x + 2] = b
      BY <2>5, <3>1
    <3> HIDE DEF a, b
    <3>4. decoded[x + 1] = Decode(decoded[x], a)
      BY <1>3, <2>5, <3>2, <3>3, Zenon
    <3>5. decoded[x + 2] = Decode(decoded[x + 1], b)
      BY <1>3, <3>2, <3>3, Zenon
    <3>6. Decode([chars |-> before, lead |-> 0], a) = [chars |-> before, lead |-> a]
      BY <3>1 DEF Decode, Flush
    <3>7. Decode([chars |-> before, lead |-> a], b) = [chars |-> Append(before, c), lead |-> 0]
      <4> DEFINE state == [chars |-> before, lead |-> a]
                 back == 64 * (a - 192) + (b - 128)
      <4>1. state.chars = before /\ state.lead = a /\ state.lead # 0
        BY <3>1
      <4>2. back = c /\ b \in 128 .. 191
        BY <3>1
      <4> HIDE DEF state
      <4>3. Decode(state, b) =
              [chars |-> Append(state.chars, 64 * (state.lead - 192) + (b - 128)), lead |-> 0]
        BY <4>1, <4>2, Zenon DEF Decode
      <4> QED
        BY <4>1, <4>2, <4>3, Zenon DEF state
    <3> QED
      BY <2>6, <2>7, <3>2, <3>4, <3>5, <3>6, <3>7, Zenon
  <2> QED
    BY <2>8, <2>9
<1> HIDE DEF T
<1>6. Len(s) \in T
  BY <1>1, <1>4, <1>5, Induction
<1>7. decoded[Len(bytes)] = [chars |-> Chars(Len(s)), lead |-> 0]
  BY <1>1, <1>2, <1>6 DEF T
<1>8. Chars(Len(s)) = s
  OBVIOUS
<1> QED
  BY <1>3, <1>7, <1>8 DEF Flush, bytes

-----------------------------------------------------------------------------
(* The server's reader, on the bytes of a well-formed message.                *)

\* These bytes are there.
At(bytes, at, part) ==
    Has(bytes, at, Len(part)) /\ \A j \in 1 .. Len(part) : bytes[at + j] = part[j]

\* No key twice among the first n.
KeysDiffer(R, n) == \A i, j \in 1 .. n : R[i].key = R[j].key => i = j

\* What the server reads of a message's payloads, wherever they are.
ValuesOf(bytes, m, read, R) ==
    /\ Len(R) = Len(m.next)
    /\ \A i \in 1 .. Len(m.next) :
          /\ R[i] = Entry(m.next[i].key, m.next[i].type, R[i].value)
          /\ \A o \in Nat : At(bytes, o, m.next[i].payload) =>
                ReadValue(bytes, m.next[i].type, o, Len(m.next[i].payload), read)
                   = Answer(R[i].value)

\* ReadMessage is its loop.
LEMMA ReadMessageIs ==
  ASSUME NEW bytes, NEW offset, NEW read, NumberAt(bytes, offset, 2) \in Nat,
         Has(bytes, offset, 2)
  PROVE  \E taken :
           /\ taken[0] = Opened(offset + 2)
           /\ \A n \in Nat : n < NumberAt(bytes, offset, 2) =>
                 taken[n + 1] = ReadProperty(bytes, taken[n], read)
           /\ ReadMessage(bytes, offset, read) = taken[NumberAt(bytes, offset, 2)]
<1> DEFINE count == NumberAt(bytes, offset, 2)
           taken[n \in 0 .. count] ==
             IF n = 0 THEN Opened(offset + 2) ELSE ReadProperty(bytes, taken[n - 1], read)
<1>1. FiniteNatInductiveDefHypothesis(taken, Opened(offset + 2),
         LAMBDA v, n : ReadProperty(bytes, v, read), 0, count)
  BY DEF FiniteNatInductiveDefHypothesis
<1>2. ReadMessage(bytes, offset, read) = taken[count]
  BY Zenon DEF ReadMessage
<1> HIDE DEF taken
<1>3. FiniteNatInductiveDefConclusion(taken, Opened(offset + 2),
         LAMBDA v, n : ReadProperty(bytes, v, read), 0, count)
  BY <1>1, FiniteNatInductiveDef
<1>4. taken = [n \in 0 .. count |->
                 IF n = 0 THEN Opened(offset + 2) ELSE ReadProperty(bytes, taken[n - 1], read)]
  BY <1>3 DEF FiniteNatInductiveDefConclusion
<1>5. \A n \in 0 .. count :
        taken[n] = IF n = 0 THEN Opened(offset + 2)
                   ELSE ReadProperty(bytes, taken[n - 1], read)
  BY <1>4, Zenon
<1> HIDE DEF count
<1>6. taken[0] = Opened(offset + 2)
  BY <1>5 DEF count
<1>7. \A n \in Nat : n < count => taken[n + 1] = ReadProperty(bytes, taken[n], read)
  <2> SUFFICES ASSUME NEW n \in Nat, n < count
               PROVE  taken[n + 1] = ReadProperty(bytes, taken[n], read)
    OBVIOUS
  <2>1. n + 1 \in 0 .. count /\ n + 1 # 0 /\ (n + 1) - 1 = n
    BY DEF count
  <2> QED
    BY <2>1, <1>5
<1> QED
  BY <1>2, <1>6, <1>7, Zenon DEF count

\* A turn of the loop at an item's bytes.
LEMMA PropertyRead ==
  ASSUME NEW bytes \in Seq(Byte), NEW read, NEW state, state.ok, state.offset \in Nat,
         NEW item \in Items, Len(item.payload) < Huge, At(bytes, state.offset, BytesOf(item)),
         NEW value,
         ReadValue(bytes, item.type, state.offset + 8, Len(item.payload), read) = Answer(value)
  PROVE  ReadProperty(bytes, state, read) =
           IF HasKey(state.values, item.key) THEN Refused
           ELSE [ok     |-> TRUE,
                 offset |-> state.offset + 8 + Len(item.payload),
                 values |-> Append(state.values, Entry(item.key, item.type, value))]
<1> DEFINE at == state.offset
<1>1. /\ Has(bytes, at, 8)
      /\ NumberAt(bytes, at, 2) = item.key
      /\ NumberAt(bytes, at + 2, 2) = item.type
      /\ NumberAt(bytes, at + 4, 4) = Len(item.payload)
  <2>1. /\ Has(bytes, at, Len(BytesOf(item)))
        /\ \A j \in 1 .. Len(BytesOf(item)) : bytes[at + j] = BytesOf(item)[j]
    BY Zenon DEF At
  <2> QED
    BY <2>1, ItemHere, Zenon
<1>2. Answer(value).ok /\ Answer(value).value = value
  BY DEF Answer
<1> QED
  BY <1>1, <1>2, Zenon DEF ReadProperty

\* A message's bytes, at an offset of others, are read as what its payloads are
\* read as, unless a key comes twice.
LEMMA MessageRead ==
  ASSUME NEW m, WellFormed(m), Exact(m), NEW bytes \in Seq(Byte), NEW at \in Nat,
         At(bytes, at, serialize(m)),
         NEW read, NEW S, NEW R \in Seq(S), ValuesOf(bytes, m, read, R)
  PROVE  ReadMessage(bytes, at, read) =
           IF KeysDiffer(R, Len(R))
           THEN [ok |-> TRUE, offset |-> at + Len(serialize(m)), values |-> R]
           ELSE Refused
<1> DEFINE part == serialize(m)
           N == Len(m.next)
           head == LittleEndian(N, 2)
<1>1. /\ part \in Seq(Byte) /\ Len(part) \in Nat /\ N \in Nat /\ N \in Short
      /\ \A j \in 1 .. 2 : part[j] = head[j]
      /\ \E place : Laid(m, part, place)
  BY Layout, Zenon
<1>2. PICK place : Laid(m, part, place)
  BY <1>1, Zenon
<1>0. Len(part) >= 2
  BY SerializeIs DEF WellFormed
<1> HIDE DEF part
<1>3. /\ \A n \in 0 .. N : place[n] \in Nat
      /\ place[0] = 2 /\ place[N] = Len(part)
      /\ \A n \in Nat : n < N =>
            /\ m.next[n + 1] \in Items
            /\ place[n + 1] = place[n] + Len(BytesOf(m.next[n + 1]))
            /\ place[n + 1] <= Len(part)
            /\ \A j \in 1 .. Len(BytesOf(m.next[n + 1])) :
                  part[place[n] + j] = BytesOf(m.next[n + 1])[j]
  BY <1>2, Zenon DEF Laid
<1>4. at + Len(part) <= Len(bytes) /\ \A j \in 1 .. Len(part) : bytes[at + j] = part[j]
  BY DEF At, Has, part
<1>5. Len(bytes) \in Nat
  OBVIOUS
<1>6. /\ Len(R) = N
      /\ \A i \in 1 .. N :
          /\ R[i] = Entry(m.next[i].key, m.next[i].type, R[i].value)
          /\ \A o \in Nat : At(bytes, o, m.next[i].payload) =>
                ReadValue(bytes, m.next[i].type, o, Len(m.next[i].payload), read)
                   = Answer(R[i].value)
  BY Zenon DEF ValuesOf
<1>7. \A i \in 1 .. N : Len(m.next[i].payload) < Huge
  BY DEF Exact
<1> HIDE DEF N
<1>8. Has(bytes, at, 2) /\ NumberAt(bytes, at, 2) = N
  <2>1. head \in Seq(Byte) /\ Len(head) = 2
    BY <1>1, LittleEndianType
  <2>2. Number(head) = N
    <3>1. 2 \in {2, 4, 8} /\ (2 = 2 => N < 65536) /\ N < Huge
      BY <1>1, SMT DEF Short, Huge
    <3> HIDE DEF head
    <3> QED
      BY <1>1, <3>1, NumberBack DEF head
  <2> HIDE DEF head
  <2>3. Has(bytes, at, 2)
    BY <1>0, <1>1, <1>4, <1>5 DEF Has
  <2>4. \A j \in 1 .. Len(head) : bytes[at + j] = head[j]
    <3> TAKE j \in 1 .. Len(head)
    <3>1. j \in 1 .. 2 /\ j \in 1 .. Len(part)
      BY <1>0, <1>1, <2>1
    <3> QED
      BY <1>1, <1>4, <3>1, Zenon
  <2>5. Has(bytes, at, Len(head))
    BY <2>1, <2>3
  <2>6. Slice(bytes, at, Len(head)) = head
    BY <2>1, <2>4, <2>5, SliceBack, Zenon
  <2> QED
    BY <2>1, <2>2, <2>3, <2>6 DEF NumberAt
<1>9. PICK taken :
        /\ taken[0] = Opened(at + 2)
        /\ \A n \in Nat : n < N => taken[n + 1] = ReadProperty(bytes, taken[n], read)
        /\ ReadMessage(bytes, at, read) = taken[N]
  <2>1. NumberAt(bytes, at, 2) \in Nat
    BY <1>1, <1>8
  <2>2. \E taken :
           /\ taken[0] = Opened(at + 2)
           /\ \A n \in Nat : n < NumberAt(bytes, at, 2) =>
                 taken[n + 1] = ReadProperty(bytes, taken[n], read)
           /\ ReadMessage(bytes, at, read) = taken[NumberAt(bytes, at, 2)]
    BY <1>8, <2>1, ReadMessageIs, Zenon
  <2> QED
    BY <1>8, <2>2, Zenon
<1> DEFINE So(n) == [ok |-> TRUE, offset |-> at + place[n], values |-> SubSeq(R, 1, n)]
           Good(n) == taken[n] = IF KeysDiffer(R, n) THEN So(n) ELSE Refused
           T == {n \in Nat : n <= N => Good(n)}
<1>10. 0 \in T
  <2>1. KeysDiffer(R, 0)
    BY DEF KeysDiffer
  <2>2. SubSeq(R, 1, 0) = <<>>
    OBVIOUS
  <2> QED
    BY <1>3, <1>9, <2>1, <2>2 DEF Opened
<1>11. ASSUME NEW n \in Nat, n < N, Good(n) PROVE Good(n + 1)
  <2> DEFINE item == m.next[n + 1]
             entry == R[n + 1]
             x == place[n]
             len == Len(item.payload)
  <2>1. n + 1 \in 1 .. N /\ n \in 0 .. N /\ n + 1 \in 1 .. Len(R) /\ n <= Len(R)
        /\ Len(R) \in Nat
    BY <1>1, <1>6, <1>11
  <2>2. taken[n + 1] = ReadProperty(bytes, taken[n], read)
    BY <1>9, <1>11
  <2>3. CASE ~KeysDiffer(R, n)
    <3>1. ~KeysDiffer(R, n + 1)
      <4>1. \A i \in 1 .. n : i \in 1 .. n + 1
        OBVIOUS
      <4> QED
        BY <2>3, <4>1, Zenon DEF KeysDiffer
    <3>2. taken[n] = Refused
      BY <1>11, <2>3, Zenon
    <3>3. ~Refused.ok
      BY DEF Refused
    <3>4. ReadProperty(bytes, Refused, read) = Refused
      BY <3>3, Zenon DEF ReadProperty
    <3> QED
      BY <2>2, <3>1, <3>2, <3>4, Zenon
  <2>4. CASE KeysDiffer(R, n)
    <3> DEFINE state == So(n)
    <3>1. taken[n] = state
      BY <1>11, <2>4, Zenon
    <3>2. state.ok /\ state.offset = at + x /\ state.values = SubSeq(R, 1, n)
      OBVIOUS
    <3>3. x \in Nat
      BY <1>3, <2>1
    <3>4. /\ item \in Items /\ place[n + 1] = x + Len(BytesOf(item))
          /\ place[n + 1] <= Len(part)
          /\ \A j \in 1 .. Len(BytesOf(item)) : part[x + j] = BytesOf(item)[j]
      BY <1>3, <1>11, Zenon
    <3>5. /\ entry = Entry(item.key, item.type, entry.value)
          /\ \A o \in Nat : At(bytes, o, item.payload) =>
                ReadValue(bytes, item.type, o, len, read) = Answer(entry.value)
      BY <1>6, <2>1, Zenon
    <3>6. len < Huge
      BY <1>7, <2>1
    <3>7. Len(BytesOf(item)) = 8 + len /\ len \in Nat /\ item.payload \in Seq(Byte)
          /\ \A j \in 1 .. len : BytesOf(item)[8 + j] = item.payload[j]
      <4>1. item.payload \in Seq(Byte)
        BY <3>4 DEF Items
      <4>2. len \in Nat
        BY <4>1
      <4>3. Len(BytesOf(item)) = 8 + len
        BY <3>4, BytesOfType
      <4>4. \A j \in 1 .. len : BytesOf(item)[8 + j] = item.payload[j]
        BY <3>4, BytesOfAt, Zenon
      <4> QED
        BY <4>1, <4>2, <4>3, <4>4, Zenon
    <3> HIDE DEF state, item, entry, x, len
    <3>8. At(bytes, at + x, BytesOf(item))
      <4>1. Has(bytes, at + x, Len(BytesOf(item)))
        BY <1>1, <1>4, <1>5, <3>3, <3>4, <3>7 DEF Has
      <4>2. \A j \in 1 .. Len(BytesOf(item)) : bytes[(at + x) + j] = BytesOf(item)[j]
        <5> TAKE j \in 1 .. Len(BytesOf(item))
        <5>1. x + j \in 1 .. Len(part) /\ (at + x) + j = at + (x + j)
          <6>1. x + Len(BytesOf(item)) <= Len(part)
            BY <3>4, Zenon
          <6> QED
            BY <1>1, <3>3, <3>7, <6>1
        <5>2. bytes[at + (x + j)] = part[x + j]
          BY <1>4, <5>1, Zenon
        <5>3. part[x + j] = BytesOf(item)[j]
          BY <3>4, Zenon
        <5> QED
          BY <5>1, <5>2, <5>3, Zenon
      <4> QED
        BY <4>1, <4>2 DEF At
    <3>9. At(bytes, (at + x) + 8, item.payload)
      <4>1. Has(bytes, (at + x) + 8, Len(item.payload))
        <5>1. (at + x) + Len(BytesOf(item)) <= Len(bytes)
          BY <3>8, Zenon DEF At, Has
        <5>2. Len(BytesOf(item)) = 8 + len /\ len \in Nat
          BY <3>7
        <5>3. ((at + x) + 8) + len <= Len(bytes)
          BY <1>5, <3>3, <5>1, <5>2
        <5> QED
          BY <5>3, Zenon DEF Has, len
      <4>2. \A j \in 1 .. Len(item.payload) : bytes[((at + x) + 8) + j] = item.payload[j]
        <5> TAKE j \in 1 .. Len(item.payload)
        <5>1. 8 + j \in 1 .. Len(BytesOf(item)) /\ ((at + x) + 8) + j = (at + x) + (8 + j)
          BY <3>3, <3>7 DEF len
        <5>2. bytes[(at + x) + (8 + j)] = BytesOf(item)[8 + j]
          BY <3>8, <5>1, Zenon DEF At
        <5> QED
          BY <3>7, <5>1, <5>2 DEF len
      <4> QED
        BY <4>1, <4>2, Zenon DEF At
    <3>10. ReadValue(bytes, item.type, (at + x) + 8, len, read) = Answer(entry.value)
      <4>1. (at + x) + 8 \in Nat
        BY <3>3
      <4> QED
        BY <3>5, <3>9, <4>1, Zenon
    <3>11. ReadProperty(bytes, state, read) =
             IF HasKey(state.values, item.key) THEN Refused
             ELSE [ok     |-> TRUE,
                   offset |-> state.offset + 8 + len,
                   values |-> Append(state.values, Entry(item.key, item.type, entry.value))]
      <4>1. state.ok /\ state.offset \in Nat
        BY <3>2, <3>3
      <4>2. At(bytes, state.offset, BytesOf(item))
        BY <3>2, <3>8, Zenon
      <4>3. ReadValue(bytes, item.type, state.offset + 8, Len(item.payload), read)
               = Answer(entry.value)
        BY <3>2, <3>10, Zenon DEF len
      <4> QED
        BY <3>4, <3>6, <4>1, <4>2, <4>3, PropertyRead DEF len
    <3>12. HasKey(state.values, item.key) <=> ~KeysDiffer(R, n + 1)
      <4> DEFINE firsts == SubSeq(R, 1, n)
      <4>1. firsts \in Seq(S) /\ Len(firsts) = n /\ \A i \in 1 .. n : firsts[i] = R[i]
        BY <2>1
      <4> HIDE DEF firsts
      <4>2. item.key = R[n + 1].key
        <5>1. Entry(item.key, item.type, entry.value).key = item.key
          BY DEF Entry
        <5> QED
          BY <3>5, <5>1, Zenon DEF entry
      <4>3. HasKey(state.values, item.key) <=> \E i \in 1 .. n : R[i].key = R[n + 1].key
        BY <3>2, <4>1, <4>2, Zenon DEF HasKey, firsts
      <4>4. ASSUME NEW i \in 1 .. n, R[i].key = R[n + 1].key PROVE ~KeysDiffer(R, n + 1)
        <5>1. i \in 1 .. n + 1 /\ n + 1 \in 1 .. n + 1 /\ i # n + 1
          OBVIOUS
        <5> QED
          BY <4>4, <5>1, Zenon DEF KeysDiffer
      <4>5. ASSUME \A i \in 1 .. n : R[i].key # R[n + 1].key,
                   NEW i \in 1 .. n + 1, NEW j \in 1 .. n + 1, R[i].key = R[j].key
            PROVE  i = j
        <5>1. CASE i \in 1 .. n /\ j \in 1 .. n
          BY <2>4, <4>5, <5>1, Zenon DEF KeysDiffer
        <5>2. CASE i = n + 1 /\ j \in 1 .. n
          BY <4>5, <5>2, Zenon
        <5>3. CASE i \in 1 .. n /\ j = n + 1
          BY <4>5, <5>3, Zenon
        <5>4. CASE i = n + 1 /\ j = n + 1
          BY <5>4
        <5>5. (i \in 1 .. n \/ i = n + 1) /\ (j \in 1 .. n \/ j = n + 1)
          OBVIOUS
        <5> QED
          BY <5>1, <5>2, <5>3, <5>4, <5>5, Zenon
      <4> QED
        BY <4>3, <4>4, <4>5, Zenon DEF KeysDiffer
    <3>13. Append(state.values, Entry(item.key, item.type, entry.value)) = SubSeq(R, 1, n + 1)
      <4>1. Append(SubSeq(R, 1, n), R[n + 1]) = SubSeq(R, 1, n + 1)
        BY <2>1
      <4> QED
        BY <3>2, <3>5, <4>1, Zenon DEF entry
    <3>14. state.offset + 8 + len = at + place[n + 1]
      BY <3>2, <3>3, <3>4, <3>7
    <3>15. CASE KeysDiffer(R, n + 1)
      <4>1. ReadProperty(bytes, state, read) =
              [ok |-> TRUE, offset |-> at + place[n + 1], values |-> SubSeq(R, 1, n + 1)]
        BY <3>11, <3>12, <3>13, <3>14, <3>15, Zenon
      <4> QED
        BY <2>2, <3>1, <3>15, <4>1, Zenon
    <3>16. CASE ~KeysDiffer(R, n + 1)
      <4>1. ReadProperty(bytes, state, read) = Refused
        BY <3>11, <3>12, <3>16, Zenon
      <4> QED
        BY <2>2, <3>1, <3>16, <4>1, Zenon
    <3> QED
      BY <3>15, <3>16, Zenon
  <2> QED
    BY <2>3, <2>4, Zenon
<1>12. ASSUME NEW n \in Nat, n \in T PROVE n + 1 \in T
  <2> HIDE DEF Good
  <2>1. SUFFICES ASSUME n + 1 <= N PROVE Good(n + 1)
    OBVIOUS
  <2>2. n <= N /\ n < N
    BY <1>1, <2>1
  <2>3. Good(n)
    BY <2>2, <1>12
  <2> QED
    BY <2>2, <2>3, <1>11, Zenon
<1> HIDE DEF T
<1>13. N \in T
  BY <1>1, <1>10, <1>12, Induction
<1>14. Good(N)
  <2> HIDE DEF Good
  <2> QED
    BY <1>1, <1>13 DEF T
<1>15. SubSeq(R, 1, N) = R
  BY <1>6
<1> QED
  BY <1>3, <1>6, <1>9, <1>14, <1>15, Zenon DEF part

\* Deserialize is a message's reader on the reader of what is deeper in.
LEMMA NestedIs ==
  ASSUME NEW bytes, Len(bytes) \in Nat, NEW offset \in Nat
  PROVE  \E nested :
           /\ \A d \in Nat : d < Len(bytes) =>
                 \A at \in Nat : nested[d + 1][at] = ReadMessage(bytes, at, nested[d])
           /\ Deserialize(bytes, offset) = nested[Len(bytes)][offset]
<1> DEFINE nested[depth \in 0 .. Len(bytes)] ==
             IF depth = 0 THEN [at \in Nat |-> Refused]
             ELSE [at \in Nat |-> ReadMessage(bytes, at, nested[depth - 1])]
<1>1. FiniteNatInductiveDefHypothesis(nested, [at \in Nat |-> Refused],
         LAMBDA v, n : [at \in Nat |-> ReadMessage(bytes, at, v)], 0, Len(bytes))
  BY DEF FiniteNatInductiveDefHypothesis
<1>2. Deserialize(bytes, offset) = nested[Len(bytes)][offset]
  BY Zenon DEF Deserialize
<1> HIDE DEF nested
<1>3. FiniteNatInductiveDefConclusion(nested, [at \in Nat |-> Refused],
         LAMBDA v, n : [at \in Nat |-> ReadMessage(bytes, at, v)], 0, Len(bytes))
  BY <1>1, FiniteNatInductiveDef
<1>4. nested = [d \in 0 .. Len(bytes) |->
                  IF d = 0 THEN [at \in Nat |-> Refused]
                  ELSE [at \in Nat |-> ReadMessage(bytes, at, nested[d - 1])]]
  BY <1>3 DEF FiniteNatInductiveDefConclusion
<1>5. \A d \in 0 .. Len(bytes) :
        nested[d] = IF d = 0 THEN [at \in Nat |-> Refused]
                    ELSE [at \in Nat |-> ReadMessage(bytes, at, nested[d - 1])]
  BY <1>4, Zenon
<1>6. ASSUME NEW d \in Nat, d < Len(bytes), NEW at \in Nat
      PROVE  nested[d + 1][at] = ReadMessage(bytes, at, nested[d])
  <2>1. d + 1 \in 0 .. Len(bytes) /\ d + 1 # 0 /\ (d + 1) - 1 = d
    BY <1>6
  <2>2. nested[d + 1] = [x \in Nat |-> ReadMessage(bytes, x, nested[(d + 1) - 1])]
    BY <1>5, <2>1, Zenon
  <2>3. nested[d + 1] = [x \in Nat |-> ReadMessage(bytes, x, nested[d])]
    BY <2>1, <2>2, Zenon
  <2> QED
    BY <2>3, Zenon
<1> QED
  BY <1>2, <1>6, Zenon

-----------------------------------------------------------------------------
(* What the server reads of a payload.                                        *)

\* The types and the widths.
LEMMA TypesDiffer ==
  /\ TYPE_STRING \notin FixedTypes /\ TYPE_OBJECT \notin FixedTypes
  /\ TYPE_OBJECT_ARR \notin FixedTypes
  /\ TYPE_STRING # TYPE_OBJECT /\ TYPE_STRING # TYPE_OBJECT_ARR
  /\ TYPE_OBJECT # TYPE_OBJECT_ARR
  /\ \A type \in FixedTypes : type \in Nat /\ Width[type] \in {2, 4, 8}
  /\ TYPE_INT16 \in FixedTypes /\ Width[TYPE_INT16] = 2
BY DEF TYPE_STRING, TYPE_OBJECT, TYPE_OBJECT_ARR, FixedTypes, TYPE_INT16, TYPE_DOUBLE, Width

\* A number is read back.
LEMMA FixedRead ==
  ASSUME NEW bytes \in Seq(Byte), NEW o \in Nat, NEW type \in FixedTypes, NEW n \in Short,
         NEW read, At(bytes, o, LittleEndian(n, Width[type]))
  PROVE  ReadValue(bytes, type, o, Len(LittleEndian(n, Width[type])), read) = Answer(n)
<1> DEFINE w == Width[type]
           code == LittleEndian(n, w)
<1>1. w \in {2, 4, 8} /\ w \in Nat
  BY TypesDiffer
<1>2. n \in Nat /\ n < 65536 /\ n < Huge
  BY SMT DEF Short, Huge
<1> HIDE DEF w
<1>3. code \in Seq(Byte) /\ Len(code) = w
  BY <1>1, <1>2, LittleEndianType
<1>4. Number(code) = n
  BY <1>1, <1>2, NumberBack
<1> HIDE DEF code
<1>5. Has(bytes, o, w) /\ Slice(bytes, o, w) = code
  <2>1. Has(bytes, o, Len(code)) /\ \A j \in 1 .. Len(code) : bytes[o + j] = code[j]
    BY Zenon DEF At, code, w
  <2>2. Slice(bytes, o, Len(code)) = code
    BY <1>3, <2>1, SliceBack, Zenon
  <2> QED
    BY <1>3, <2>1, <2>2, Zenon
<1>6. NumberAt(bytes, o, w) = n
  BY <1>4, <1>5, Zenon DEF NumberAt
<1>7. LengthFits(type, w)
  BY Zenon DEF LengthFits, w
<1>8. ReadValue(bytes, type, o, w, read) = Answer(NumberAt(bytes, o, w))
  <2>1. type \in FixedTypes /\ LengthFits(type, w) /\ Has(bytes, o, Width[type])
    BY <1>5, <1>7 DEF w
  <2>2. ReadValue(bytes, type, o, w, read) = Answer(NumberAt(bytes, o, Width[type]))
    <3>1. type # TYPE_STRING /\ type # TYPE_OBJECT /\ type # TYPE_OBJECT_ARR
      BY TypesDiffer
    <3> QED
      BY <2>1, <3>1, Zenon DEF ReadValue
  <2> QED
    BY <2>2 DEF w
<1> QED
  BY <1>3, <1>6, <1>8, Zenon DEF code, w

\* A string is read back.
LEMMA StringRead ==
  ASSUME NEW bytes \in Seq(Byte), NEW o \in Nat, NEW s \in Seq(Characters), NEW read,
         At(bytes, o, UTF8(s))
  PROVE  ReadValue(bytes, TYPE_STRING, o, Len(UTF8(s)), read) = Answer(s)
<1> DEFINE code == UTF8(s)
<1>1. code \in Seq(Byte) /\ FromUTF8(code) = s
  BY UTF8Length, FromUTF8Back
<1>2. Has(bytes, o, Len(code)) /\ \A j \in 1 .. Len(code) : bytes[o + j] = code[j]
  BY Zenon DEF At
<1> HIDE DEF code
<1>3. Slice(bytes, o, Len(code)) = code
  BY <1>1, <1>2, SliceBack, Zenon
<1> QED
  BY <1>1, <1>2, <1>3, TypesDiffer, Zenon DEF ReadValue, code

\* A message within a message: none, or one number.
LEMMA InnerIs ==
  ASSUME NEW inner \in InnerEntries
  PROVE  /\ inner \in Seq(FixedEntries) /\ Len(inner) \in {0, 1}
         /\ MsgOK(Build(inner))
         /\ Len(Build(inner).next) = Len(inner)
         /\ Len(serialize(Build(inner))) = 2 + 10 * Len(inner)
         /\ \A i \in 1 .. Len(inner) :
               /\ i = 1 /\ inner[i].key \in Keys /\ inner[i].value \in Numbers
               /\ inner[i] = Entry(inner[i].key, TYPE_INT16, inner[i].value)
               /\ Build(inner).next[i] =
                     Item(inner[i].key, TYPE_INT16, LittleEndian(inner[i].value, 2))
<1>1. MsgOK(Build(inner))
  BY InnerOK
<1>2. get_serialized_length(Build(inner)) = Len(serialize(Build(inner)))
  BY <1>1 DEF MsgOK
<1>3. CASE inner = <<>>
  <2>1. Len(inner) = 0 /\ inner \in Seq(FixedEntries)
    BY <1>3
  <2>2. PICK built :
           /\ built = [n \in 0 .. Len(inner) |->
                IF n = 0 THEN NewMsg
                ELSE PutFixed(built[n - 1], inner[n].key, inner[n].type, inner[n].value).msg]
           /\ Build(inner) = built[Len(inner)]
    <3>1. Len(inner) \in Nat
      BY <2>1
    <3> QED
      BY <3>1, BuildIs, Zenon
  <2>3. Build(inner) = NewMsg
    <3>1. 0 \in 0 .. Len(inner)
      BY <2>1
    <3> QED
      BY <2>1, <2>2, <3>1, Zenon
  <2>4. NewMsg.next = <<>> /\ get_serialized_length(NewMsg) = 2
    BY DEF NewMsg, get_serialized_length
  <2>5. Len(Build(inner).next) = 0 /\ Len(serialize(Build(inner))) = 2
    BY <1>2, <2>3, <2>4
  <2> QED
    BY <1>1, <2>1, <2>5
<1>4. ASSUME NEW k \in Keys, NEW n \in Numbers, inner = <<Entry(k, TYPE_INT16, n)>>
      PROVE  /\ inner \in Seq(FixedEntries) /\ Len(inner) = 1
             /\ Len(Build(inner).next) = 1
             /\ Len(serialize(Build(inner))) = 12
             /\ inner[1].key \in Keys /\ inner[1].value \in Numbers
             /\ inner[1] = Entry(inner[1].key, TYPE_INT16, inner[1].value)
             /\ Build(inner).next[1] =
                   Item(inner[1].key, TYPE_INT16, LittleEndian(inner[1].value, 2))
  <2> DEFINE item == Item(k, TYPE_INT16, LittleEndian(n, 2))
  <2>1. Len(inner) = 1 /\ inner[1] = Entry(k, TYPE_INT16, n)
    BY <1>4
  <2>2. inner[1].key = k /\ inner[1].type = TYPE_INT16 /\ inner[1].value = n
    BY <2>1 DEF Entry
  <2>3. k \in Short /\ n \in Nat
    BY PutsType
  <2>4. inner \in Seq(FixedEntries)
    <3>1. Entry(k, TYPE_INT16, n) \in FixedEntries
      BY <2>3, TypesDiffer DEF Entry, FixedEntries
    <3> QED
      BY <1>4, <3>1
  <2>5. PICK built :
           /\ built = [i \in 0 .. Len(inner) |->
                IF i = 0 THEN NewMsg
                ELSE PutFixed(built[i - 1], inner[i].key, inner[i].type, inner[i].value).msg]
           /\ Build(inner) = built[Len(inner)]
    <3>1. Len(inner) \in Nat
      BY <2>1
    <3> QED
      BY <3>1, BuildIs, Zenon
  <2>6. built[0] = NewMsg
    <3>1. 0 \in 0 .. Len(inner)
      BY <2>1
    <3> QED
      BY <2>5, <3>1, Zenon
  <2>7. built[1] = PutFixed(NewMsg, k, TYPE_INT16, n).msg
    <3>1. 1 \in 0 .. Len(inner) /\ 1 # 0 /\ 1 - 1 = 0
      BY <2>1
    <3>2. built[1] = PutFixed(built[1 - 1], inner[1].key, inner[1].type, inner[1].value).msg
      BY <2>5, <3>1, Zenon
    <3> QED
      BY <2>2, <2>6, <3>1, <3>2, Zenon
  <2>8. PutFixed(NewMsg, k, TYPE_INT16, n) = put(NewMsg, k, TYPE_INT16, LittleEndian(n, 2))
    BY TypesDiffer, Zenon DEF PutFixed
  <2>9. put(NewMsg, k, TYPE_INT16, LittleEndian(n, 2)).msg = Prepend(NewMsg, item)
    <3>1. NewMsg.property_count # PROPERTY_LIMIT
      BY MessageAssumption DEF NewMsg
    <3> QED
      BY <3>1 DEF put, Done
  <2>10. Build(inner) = Prepend(NewMsg, item)
    BY <2>1, <2>5, <2>7, <2>8, <2>9
  <2>11. LittleEndian(n, 2) \in Seq(Byte) /\ Len(LittleEndian(n, 2)) = 2
    BY <2>3, LittleEndianType
  <2>12. item.payload = LittleEndian(n, 2)
    BY DEF Item
  <2> HIDE DEF item
  <2>13. Prepend(NewMsg, item).next = <<item>>
    BY DEF Prepend, NewMsg
  <2>14. get_serialized_length(Prepend(NewMsg, item)) = 12
    <3>1. Len(item.payload) = 2
      BY <2>11, <2>12
    <3>2. /\ Prepend(NewMsg, item).property_payload_total_length = 0 + Len(item.payload)
          /\ Prepend(NewMsg, item).property_count = 0 + 1
      BY DEF Prepend, NewMsg
    <3>3. Prepend(NewMsg, item).property_payload_total_length = 2
          /\ Prepend(NewMsg, item).property_count = 1
      BY <3>1, <3>2
    <3> QED
      BY <3>3 DEF get_serialized_length
  <2>15. Len(<<item>>) = 1 /\ <<item>>[1] = item
    OBVIOUS
  <2> QED
    BY <1>2, <2>1, <2>2, <2>4, <2>10, <2>13, <2>14, <2>15, Zenon DEF item
<1>5. ASSUME NEW k \in Keys, NEW n \in Numbers, inner = <<Entry(k, TYPE_INT16, n)>>
      PROVE  /\ Len(inner) \in {0, 1}
             /\ Len(Build(inner).next) = Len(inner)
             /\ Len(serialize(Build(inner))) = 2 + 10 * Len(inner)
             /\ \A i \in 1 .. Len(inner) : i = 1
  <2>1. Len(inner) = 1 /\ Len(Build(inner).next) = 1 /\ Len(serialize(Build(inner))) = 12
    BY <1>4, <1>5, Zenon
  <2> QED
    BY <2>1
<1>6. inner = <<>> \/ \E k \in Keys, n \in Numbers : inner = <<Entry(k, TYPE_INT16, n)>>
  BY DEF InnerEntries
<1>7. CASE \E k \in Keys, n \in Numbers : inner = <<Entry(k, TYPE_INT16, n)>>
  <2>1. PICK k \in Keys, n \in Numbers : inner = <<Entry(k, TYPE_INT16, n)>>
    BY <1>7
  <2> QED
    BY <1>1, <1>4, <1>5, <2>1, Zenon
<1> QED
  BY <1>3, <1>6, <1>7, Zenon

\* A message within a message is read back, with no reader of what is deeper in.
LEMMA InnerRead ==
  ASSUME NEW inner \in InnerEntries, NEW bytes \in Seq(Byte), NEW o \in Nat,
         At(bytes, o, serialize(Build(inner))), NEW read
  PROVE  ReadMessage(bytes, o, read) =
           [ok |-> TRUE, offset |-> o + Len(serialize(Build(inner))), values |-> inner]
<1> DEFINE m == Build(inner)
<1>1. /\ inner \in Seq(FixedEntries) /\ Len(inner) \in {0, 1} /\ MsgOK(m)
      /\ Len(m.next) = Len(inner)
      /\ \A i \in 1 .. Len(inner) :
            /\ i = 1 /\ inner[i].key \in Keys /\ inner[i].value \in Numbers
            /\ inner[i] = Entry(inner[i].key, TYPE_INT16, inner[i].value)
            /\ m.next[i] = Item(inner[i].key, TYPE_INT16, LittleEndian(inner[i].value, 2))
  BY InnerIs
<1>2. WellFormed(m)
  BY <1>1, OKWellFormed
<1> HIDE DEF m
<1>3. ASSUME NEW i \in 1 .. Len(m.next)
      PROVE  /\ inner[i].value \in Short
             /\ inner[i] = Entry(m.next[i].key, m.next[i].type, inner[i].value)
             /\ m.next[i].type = TYPE_INT16
             /\ m.next[i].payload = LittleEndian(inner[i].value, 2)
             /\ Len(m.next[i].payload) = 2
  <2>1. /\ inner[i].value \in Numbers
        /\ inner[i] = Entry(inner[i].key, TYPE_INT16, inner[i].value)
        /\ m.next[i] = Item(inner[i].key, TYPE_INT16, LittleEndian(inner[i].value, 2))
    BY <1>1, <1>3
  <2> DEFINE n == inner[i].value
             k == inner[i].key
  <2>2. n \in Short /\ n \in Nat
    BY <2>1, PutsType
  <2>3. m.next[i].key = k /\ m.next[i].type = TYPE_INT16
        /\ m.next[i].payload = LittleEndian(n, 2)
    BY <2>1 DEF Item
  <2>4. Len(LittleEndian(n, 2)) = 2
    BY <2>2, LittleEndianType
  <2> QED
    BY <2>1, <2>2, <2>3, <2>4, Zenon
<1>4. Exact(m)
  <2>1. 2 < Huge
    BY SMT DEF Huge
  <2> QED
    BY <1>3, <2>1, Zenon DEF Exact
<1>5. ValuesOf(bytes, m, read, inner)
  <2>1. ASSUME NEW i \in 1 .. Len(m.next), NEW p \in Nat, At(bytes, p, m.next[i].payload)
        PROVE  ReadValue(bytes, m.next[i].type, p, Len(m.next[i].payload), read)
                 = Answer(inner[i].value)
    <3> DEFINE n == inner[i].value
    <3>1. /\ n \in Short /\ m.next[i].type = TYPE_INT16
          /\ m.next[i].payload = LittleEndian(n, Width[TYPE_INT16])
      BY <1>3, TypesDiffer
    <3>2. At(bytes, p, LittleEndian(n, Width[TYPE_INT16]))
      BY <2>1, <3>1, Zenon
    <3>3. TYPE_INT16 \in FixedTypes
      BY TypesDiffer
    <3>4. ReadValue(bytes, TYPE_INT16, p, Len(LittleEndian(n, Width[TYPE_INT16])), read)
            = Answer(n)
      BY <3>1, <3>2, <3>3, FixedRead
    <3> QED
      BY <3>1, <3>4, Zenon
  <2> QED
    BY <1>1, <1>3, <2>1, Zenon DEF ValuesOf
<1>6. KeysDiffer(inner, Len(inner))
  BY <1>1 DEF KeysDiffer
<1>7. At(bytes, o, serialize(m))
  BY DEF m
<1>8. ReadMessage(bytes, o, read) =
        IF KeysDiffer(inner, Len(inner))
        THEN [ok |-> TRUE, offset |-> o + Len(serialize(m)), values |-> inner]
        ELSE Refused
  BY <1>1, <1>2, <1>4, <1>5, <1>7, MessageRead
<1> QED
  BY <1>6, <1>8, Zenon DEF m

\* The payload of a put is of a length that is read exactly.
LEMMA PayloadFits ==
  ASSUME NEW e \in PutEntries
  PROVE  /\ Payload(e) \in Seq(Byte) /\ Len(Payload(e)) \in Nat /\ Len(Payload(e)) < Huge
         /\ e = Entry(e.key, e.type, e.value) /\ e.key \in Short
<1>1. e.key \in Short
  <2>1. e.key \in Keys
    BY DEF PutEntries
  <2> QED
    BY <2>1, PutsType
<1>2. e = Entry(e.key, e.type, e.value)
  BY DEF PutEntries, Entry
<1>3. ASSUME e.type \in FixedTypes, e.value \in Numbers
      PROVE  Payload(e) \in Seq(Byte) /\ Len(Payload(e)) \in Nat /\ Len(Payload(e)) < Huge
  <2> DEFINE n == e.value
             w == Width[e.type]
  <2>1. n \in Nat /\ w \in {2, 4, 8} /\ Payload(e) = LittleEndian(n, w)
    BY <1>3, PutsType, TypesDiffer DEF Payload
  <2> HIDE DEF n, w
  <2>2. w \in Nat /\ w < Huge
    BY <2>1, SMT DEF Huge
  <2>3. LittleEndian(n, w) \in Seq(Byte) /\ Len(LittleEndian(n, w)) = w
    BY <2>1, <2>2, LittleEndianType
  <2> QED
    BY <2>1, <2>2, <2>3
<1>4. ASSUME e.type = TYPE_STRING, e.value \in Strings
      PROVE  Payload(e) \in Seq(Byte) /\ Len(Payload(e)) \in Nat /\ Len(Payload(e)) < Huge
  <2> DEFINE s == e.value
  <2>1. s \in Seq(Characters) /\ Payload(e) = UTF8(s)
    BY <1>4, PutsType, TypesDiffer DEF Payload
  <2>2. 2 * Len(s) < Huge
    BY <1>4, PutsAssumption, SMT
  <2> HIDE DEF s
  <2>3. UTF8(s) \in Seq(Byte) /\ Len(UTF8(s)) \in Nat /\ Len(UTF8(s)) <= 2 * Len(s)
    BY <2>1, UTF8Length
  <2>4. Len(UTF8(s)) < Huge
    <3>1. Len(s) \in Nat
      BY <2>1
    <3> QED
      BY <2>2, <2>3, <3>1, SMT DEF Huge
  <2> QED
    BY <2>1, <2>3, <2>4, Zenon
<1>5. ASSUME e.type = TYPE_OBJECT, e.value \in InnerEntries
      PROVE  Payload(e) \in Seq(Byte) /\ Len(Payload(e)) \in Nat /\ Len(Payload(e)) < Huge
  <2> DEFINE m == Build(e.value)
  <2>1. MsgOK(m) /\ Len(serialize(m)) \in {2, 12}
    <3>1. Len(e.value) \in {0, 1} /\ Len(serialize(m)) = 2 + 10 * Len(e.value) /\ MsgOK(m)
      BY <1>5, InnerIs
    <3> DEFINE x == Len(e.value)
               y == Len(serialize(m))
    <3> HIDE DEF m, x, y
    <3>2. x \in {0, 1} /\ y = 2 + 10 * x
      BY <3>1, Zenon DEF x, y
    <3>3. y \in {2, 12}
      BY <3>2
    <3> QED
      BY <3>1, <3>3, Zenon DEF y
  <2>2. Payload(e) = serialize(m)
    BY <1>5, TypesDiffer DEF Payload
  <2> HIDE DEF m
  <2>3. serialize(m) \in Seq(Byte)
    BY <2>1, SerializeIs DEF MsgOK
  <2>4. 2 < Huge /\ 12 < Huge
    BY SMT DEF Huge
  <2>5. Len(serialize(m)) \in Nat /\ Len(serialize(m)) < Huge
    <3> DEFINE y == Len(serialize(m))
    <3> HIDE DEF y
    <3>1. y \in {2, 12}
      BY <2>1, Zenon DEF y
    <3>2. y \in Nat /\ y < Huge
      BY <2>4, <3>1
    <3> QED
      BY <3>2, Zenon DEF y
  <2> QED
    BY <2>2, <2>3, <2>5, Zenon
<1>6. \/ e.type \in FixedTypes /\ e.value \in Numbers
      \/ e.type = TYPE_STRING /\ e.value \in Strings
      \/ e.type = TYPE_OBJECT /\ e.value \in InnerEntries
  BY DEF PutEntries
<1> QED
  BY <1>1, <1>2, <1>3, <1>4, <1>5, <1>6, Zenon

\* What the server reads of a put's payload is what was put.
LEMMA EntryRead ==
  ASSUME NEW e \in PutEntries, NEW bytes \in Seq(Byte), NEW o \in Nat,
         At(bytes, o, Payload(e)), NEW read, NEW deeper,
         read[o] = ReadMessage(bytes, o, deeper)
  PROVE  ReadValue(bytes, e.type, o, Len(Payload(e)), read) = Answer(e.value)
<1>1. ASSUME e.type \in FixedTypes, e.value \in Numbers
      PROVE  ReadValue(bytes, e.type, o, Len(Payload(e)), read) = Answer(e.value)
  <2>1. e.value \in Short /\ Payload(e) = LittleEndian(e.value, Width[e.type])
    BY <1>1, PutsType DEF Payload
  <2>2. At(bytes, o, LittleEndian(e.value, Width[e.type]))
    BY <2>1, Zenon
  <2>3. ReadValue(bytes, e.type, o, Len(LittleEndian(e.value, Width[e.type])), read)
          = Answer(e.value)
    <3> DEFINE n == e.value
               t == e.type
    <3>1. n \in Short /\ t \in FixedTypes /\ At(bytes, o, LittleEndian(n, Width[t]))
      BY <1>1, <2>1, <2>2, Zenon
    <3> HIDE DEF n, t
    <3>2. ReadValue(bytes, t, o, Len(LittleEndian(n, Width[t])), read) = Answer(n)
      BY <3>1, FixedRead
    <3> QED
      BY <3>2, Zenon DEF n, t
  <2> QED
    BY <2>1, <2>3, Zenon
<1>2. ASSUME e.type = TYPE_STRING, e.value \in Strings
      PROVE  ReadValue(bytes, e.type, o, Len(Payload(e)), read) = Answer(e.value)
  <2>1. e.value \in Seq(Characters) /\ Payload(e) = UTF8(e.value)
    BY <1>2, PutsType, TypesDiffer DEF Payload
  <2>2. At(bytes, o, UTF8(e.value))
    BY <2>1, Zenon
  <2>3. ReadValue(bytes, TYPE_STRING, o, Len(UTF8(e.value)), read) = Answer(e.value)
    BY <2>1, <2>2, StringRead, Zenon
  <2> QED
    BY <1>2, <2>1, <2>3, Zenon
<1>3. ASSUME e.type = TYPE_OBJECT, e.value \in InnerEntries
      PROVE  ReadValue(bytes, e.type, o, Len(Payload(e)), read) = Answer(e.value)
  <2>1. Payload(e) = serialize(Build(e.value))
    BY <1>3, TypesDiffer DEF Payload
  <2>2. At(bytes, o, serialize(Build(e.value)))
    BY <2>1, Zenon
  <2>3. read[o] = [ok |-> TRUE, offset |-> o + Len(serialize(Build(e.value))),
                   values |-> e.value]
    BY <1>3, <2>2, InnerRead
  <2>4. read[o].ok = TRUE /\ read[o].values = e.value
    BY <2>3
  <2>5. ReadValue(bytes, TYPE_OBJECT, o, Len(Payload(e)), read)
          = [ok |-> read[o].ok, value |-> read[o].values]
    BY TypesDiffer, Zenon DEF ReadValue
  <2> QED
    BY <1>3, <2>4, <2>5, Zenon DEF Answer
<1>4. \/ e.type \in FixedTypes /\ e.value \in Numbers
      \/ e.type = TYPE_STRING /\ e.value \in Strings
      \/ e.type = TYPE_OBJECT /\ e.value \in InnerEntries
  BY DEF PutEntries
<1> QED
  BY <1>1, <1>2, <1>3, <1>4, Zenon

\* What the server reads of the plugin's bytes, in a state of the specification.
LEMMA ServerReads ==
  ASSUME MsgInv, outcome = "ok"
  PROVE  IF DistinctKeys
         THEN FromBuffer(serialize(msg)) =
                [ok |-> TRUE, offset |-> Len(serialize(msg)), values |-> Reverse(entries)]
         ELSE ~FromBuffer(serialize(msg)).ok
<1> DEFINE bytes == serialize(msg)
           R == Reverse(entries)
           N == Len(entries)
           L == Len(bytes)
<1>1. /\ MsgOK(msg) /\ WellFormed(msg) /\ entries \in Seq(PutEntries) /\ N \in Nat
      /\ Len(msg.next) = N
      /\ \A i \in 1 .. N : msg.next[i] = ItemOf(entries[(N - i) + 1])
  BY OKWellFormed DEF MsgInv, InOrder
<1>2. bytes \in Seq(Byte) /\ L \in Nat /\ L >= 2
  <2>1. /\ bytes \in Seq(Byte) /\ L = 2 + Len(BytesOfAll(msg.next))
        /\ BytesOfAll(msg.next) \in Seq(Byte)
    BY <1>1, SerializeIs DEF MsgOK
  <2>2. Len(BytesOfAll(msg.next)) \in Nat
    BY <2>1
  <2> HIDE DEF L
  <2> QED
    BY <2>1, <2>2
<1>3. /\ R \in Seq(PutEntries) /\ Len(R) = N
      /\ \A i \in 1 .. N : R[i] = entries[(N - i) + 1]
  BY <1>1 DEF Reverse
<1> HIDE DEF bytes, R, N
<1>4. PICK nested :
           /\ \A d \in Nat : d < Len(bytes) =>
                 \A at \in Nat : nested[d + 1][at] = ReadMessage(bytes, at, nested[d])
           /\ Deserialize(bytes, 0) = nested[Len(bytes)][0]
  BY <1>2, NestedIs, Zenon
<1> DEFINE read == nested[L - 1]
           deeper == nested[L - 2]
<1>5. /\ Deserialize(bytes, 0) = ReadMessage(bytes, 0, read)
      /\ \A o \in Nat : read[o] = ReadMessage(bytes, o, deeper)
  <2>1. /\ L - 1 \in Nat /\ L - 2 \in Nat /\ (L - 1) + 1 = L /\ (L - 2) + 1 = L - 1
        /\ L - 1 < L /\ L - 2 < L
    BY <1>2
  <2>2. nested[(L - 1) + 1][0] = ReadMessage(bytes, 0, nested[L - 1])
    BY <1>4, <2>1, Zenon
  <2>3. \A o \in Nat : nested[(L - 2) + 1][o] = ReadMessage(bytes, o, nested[L - 2])
    BY <1>4, <2>1, Zenon
  <2> QED
    BY <1>4, <2>1, <2>2, <2>3, Zenon
<1> HIDE DEF read, deeper
<1>6. \A i \in 1 .. N :
         /\ R[i] \in PutEntries /\ msg.next[i] = ItemOf(R[i])
         /\ msg.next[i].key = R[i].key /\ msg.next[i].type = R[i].type
         /\ msg.next[i].payload = Payload(R[i])
  <2> TAKE i \in 1 .. N
  <2>1. R[i] \in PutEntries
    BY <1>3, ElementOfSeq
  <2>2. msg.next[i] = ItemOf(R[i])
    BY <1>1, <1>3
  <2>3. ItemOf(R[i]).type = R[i].type
    BY DEF ItemOf, Item
  <2> QED
    BY <2>1, <2>2, <2>3, ItemOfParts, Zenon
<1>7. Exact(msg)
  <2>1. \A i \in 1 .. N : Len(msg.next[i].payload) < Huge
    BY <1>6, PayloadFits, Zenon
  <2> QED
    BY <1>1, <2>1 DEF Exact
<1>8. ValuesOf(bytes, msg, read, R)
  <2>1. ASSUME NEW i \in 1 .. N
        PROVE  /\ R[i] = Entry(msg.next[i].key, msg.next[i].type, R[i].value)
               /\ \A o \in Nat : At(bytes, o, msg.next[i].payload) =>
                     ReadValue(bytes, msg.next[i].type, o, Len(msg.next[i].payload), read)
                       = Answer(R[i].value)
    <3>1. R[i] = Entry(msg.next[i].key, msg.next[i].type, R[i].value)
      BY <1>6, PayloadFits, Zenon
    <3>2. ASSUME NEW o \in Nat, At(bytes, o, msg.next[i].payload)
          PROVE  ReadValue(bytes, msg.next[i].type, o, Len(msg.next[i].payload), read)
                   = Answer(R[i].value)
      <4>1. /\ R[i] \in PutEntries /\ msg.next[i].type = R[i].type
            /\ msg.next[i].payload = Payload(R[i])
        BY <1>6, Zenon
      <4>2. At(bytes, o, Payload(R[i])) /\ read[o] = ReadMessage(bytes, o, deeper)
        BY <1>5, <3>2, <4>1, Zenon
      <4>3. ReadValue(bytes, R[i].type, o, Len(Payload(R[i])), read) = Answer(R[i].value)
        BY <1>2, <4>1, <4>2, EntryRead
      <4> QED
        BY <4>1, <4>3, Zenon
    <3> QED
      BY <3>1, <3>2, Zenon
  <2> QED
    BY <1>1, <1>3, <2>1, Zenon DEF ValuesOf
<1>9. At(bytes, 0, bytes)
  BY <1>2 DEF At, Has
<1>10. ReadMessage(bytes, 0, read) =
         IF KeysDiffer(R, Len(R)) THEN [ok |-> TRUE, offset |-> 0 + L, values |-> R]
         ELSE Refused
  <2>1. At(bytes, 0, serialize(msg)) /\ 0 \in Nat
    BY <1>9 DEF bytes
  <2>2. ReadMessage(bytes, 0, read) =
          IF KeysDiffer(R, Len(R))
          THEN [ok |-> TRUE, offset |-> 0 + Len(serialize(msg)), values |-> R]
          ELSE Refused
    BY <1>1, <1>2, <1>3, <1>7, <1>8, <2>1, MessageRead
  <2> QED
    BY <2>2, Zenon DEF bytes
<1>11. KeysDiffer(R, N) <=> DistinctKeys
  <2>1. ASSUME KeysDiffer(R, N), NEW i \in 1 .. N, NEW j \in 1 .. N,
               entries[i].key = entries[j].key
        PROVE  i = j
    <3>1. /\ (N - i) + 1 \in 1 .. N /\ (N - j) + 1 \in 1 .. N
          /\ (N - ((N - i) + 1)) + 1 = i /\ (N - ((N - j) + 1)) + 1 = j
      BY <1>1
    <3>2. R[(N - i) + 1] = entries[i] /\ R[(N - j) + 1] = entries[j]
      BY <1>3, <3>1
    <3>3. (N - i) + 1 = (N - j) + 1
      BY <2>1, <3>1, <3>2, Zenon DEF KeysDiffer
    <3> QED
      BY <1>1, <3>3
  <2>2. ASSUME DistinctKeys, NEW i \in 1 .. N, NEW j \in 1 .. N, R[i].key = R[j].key
        PROVE  i = j
    <3>1. (N - i) + 1 \in 1 .. N /\ (N - j) + 1 \in 1 .. N
      BY <1>1
    <3>2. R[i] = entries[(N - i) + 1] /\ R[j] = entries[(N - j) + 1]
      BY <1>3
    <3>3. (N - i) + 1 = (N - j) + 1
      BY <2>2, <3>1, <3>2, Zenon DEF DistinctKeys, N
    <3> QED
      BY <1>1, <3>3
  <2> QED
    BY <2>1, <2>2, Zenon DEF KeysDiffer, DistinctKeys, N
<1>12. FromBuffer(bytes) = IF DistinctKeys THEN [ok |-> TRUE, offset |-> L, values |-> R]
                           ELSE Refused
  <2>1. 0 + L = L
    BY <1>2
  <2> QED
    BY <1>3, <1>5, <1>10, <1>11, <2>1, Zenon DEF FromBuffer
<1>13. ~Refused.ok
  BY DEF Refused
<1> QED
  BY <1>12, <1>13, Zenon DEF bytes, R

-----------------------------------------------------------------------------
(* What the server puts, and the room it leaves for it.                       *)

\* What the server puts.
ServerEntries == PutEntries \cup [key : Keys, type : {TYPE_OBJECT_ARR}, value : Arrays]

\* The room for a message within a message is what serialize makes of it.
LEMMA FlatLengthIs ==
  ASSUME NEW inner \in InnerEntries
  PROVE  FlatLength(inner) = 2 + 10 * Len(inner) /\ FlatLength(inner) \in {2, 12}
         /\ FlatLength(inner) = Len(serialize(Build(inner)))
<1> DEFINE Sum[n \in 0 .. Len(inner)] ==
             IF n = 0 THEN 2 ELSE Sum[n - 1] + 8 + ItemSize(inner[n], LAMBDA message : 0)
<1>1. FiniteNatInductiveDefHypothesis(Sum, 2,
         LAMBDA v, n : v + 8 + ItemSize(inner[n], LAMBDA message : 0), 0, Len(inner))
  BY DEF FiniteNatInductiveDefHypothesis
<1>2. FlatLength(inner) = Sum[Len(inner)]
  BY Zenon DEF FlatLength, LengthWith
<1> HIDE DEF Sum
<1>3. /\ Len(inner) \in {0, 1} /\ Len(serialize(Build(inner))) = 2 + 10 * Len(inner)
      /\ \A i \in 1 .. Len(inner) : inner[i] = Entry(inner[i].key, TYPE_INT16, inner[i].value)
  BY InnerIs
<1>4. FiniteNatInductiveDefConclusion(Sum, 2,
         LAMBDA v, n : v + 8 + ItemSize(inner[n], LAMBDA message : 0), 0, Len(inner))
  <2>1. Len(inner) \in Nat
    BY <1>3
  <2> QED
    BY <1>1, <2>1, FiniteNatInductiveDef
<1>5. Sum = [n \in 0 .. Len(inner) |->
               IF n = 0 THEN 2 ELSE Sum[n - 1] + 8 + ItemSize(inner[n], LAMBDA message : 0)]
  BY <1>4 DEF FiniteNatInductiveDefConclusion
<1>6. Sum[0] = 2
  <2>1. 0 \in 0 .. Len(inner)
    BY <1>3
  <2> QED
    BY <1>5, <2>1, Zenon
<1>7. CASE Len(inner) = 1
  <2>1. 1 \in 0 .. Len(inner) /\ 1 # 0 /\ 1 - 1 = 0 /\ 1 \in 1 .. Len(inner)
    BY <1>7
  <2> DEFINE size == ItemSize(inner[1], LAMBDA message : 0)
  <2>2. Sum[1] = Sum[1 - 1] + 8 + size
    BY <1>5, <2>1, Zenon
  <2>3. inner[1].type = TYPE_INT16
    <3>1. inner[1] = Entry(inner[1].key, TYPE_INT16, inner[1].value)
      BY <1>3, <2>1, Zenon
    <3>2. Entry(inner[1].key, TYPE_INT16, inner[1].value).type = TYPE_INT16
      BY DEF Entry
    <3> QED
      BY <3>1, <3>2, Zenon
  <2>4. size = 2
    <3>1. /\ inner[1].type \in FixedTypes /\ inner[1].type # TYPE_STRING
          /\ inner[1].type # TYPE_OBJECT /\ inner[1].type # TYPE_OBJECT_ARR
          /\ Width[inner[1].type] = 2
      BY <2>3, TypesDiffer
    <3> QED
      BY <3>1, Zenon DEF ItemSize
  <2> HIDE DEF size
  <2>5. Sum[1] = 12
    BY <1>6, <2>1, <2>2, <2>4
  <2> QED
    BY <1>2, <1>3, <1>7, <2>5
<1>8. CASE Len(inner) = 0
  BY <1>2, <1>3, <1>6, <1>8
<1> QED
  BY <1>3, <1>7, <1>8

\* The arrays there are.
LEMMA ArrayIs ==
  ASSUME NEW inners \in Arrays
  PROVE  /\ Len(inners) \in {0, 1, 2}
         /\ \A i \in 1 .. Len(inners) : inners[i] \in InnerEntries
<1>1. CASE inners = <<>>
  BY <1>1
<1>2. ASSUME NEW a \in InnerEntries, inners = <<a>>
      PROVE  Len(inners) = 1 /\ \A i \in 1 .. Len(inners) : inners[i] \in InnerEntries
  BY <1>2
<1>3. ASSUME NEW a \in InnerEntries, inners = <<a, a>>
      PROVE  Len(inners) = 2 /\ \A i \in 1 .. Len(inners) : inners[i] \in InnerEntries
  BY <1>3
<1>4. \/ inners = <<>> \/ \E a \in InnerEntries : inners = <<a>>
      \/ \E a \in InnerEntries : inners = <<a, a>>
  BY DEF Arrays
<1> QED
  BY <1>1, <1>2, <1>3, <1>4

\* The room the server leaves for an array's value.
LEMMA ArraySize ==
  ASSUME NEW inners \in Arrays
  PROVE  \E sum :
           /\ sum[0] = 4
           /\ \A n \in Nat : n < Len(inners) =>
                 sum[n + 1] = sum[n] + FlatLength(inners[n + 1])
           /\ \A n \in 0 .. Len(inners) : sum[n] \in Nat /\ sum[n] <= sum[Len(inners)]
           /\ sum[Len(inners)] <= 28
           /\ \A key : GetItemSize(Entry(key, TYPE_OBJECT_ARR, inners)) = sum[Len(inners)]
<1> DEFINE Sum[n \in 0 .. Len(inners)] ==
             IF n = 0 THEN 4 ELSE Sum[n - 1] + FlatLength(inners[n])
<1>1. FiniteNatInductiveDefHypothesis(Sum, 4,
         LAMBDA v, n : v + FlatLength(inners[n]), 0, Len(inners))
  BY DEF FiniteNatInductiveDefHypothesis
<1>2. ASSUME NEW key
      PROVE  GetItemSize(Entry(key, TYPE_OBJECT_ARR, inners)) = Sum[Len(inners)]
  <2> DEFINE entry == Entry(key, TYPE_OBJECT_ARR, inners)
             Its[n \in 0 .. Len(entry.value)] ==
               IF n = 0 THEN 4 ELSE Its[n - 1] + FlatLength(entry.value[n])
  <2>1. entry.type = TYPE_OBJECT_ARR /\ entry.value = inners
    BY DEF Entry
  <2> HIDE DEF entry
  <2>2. /\ entry.type \notin FixedTypes /\ entry.type # TYPE_STRING /\ entry.type # TYPE_OBJECT
    BY <2>1, TypesDiffer
  <2>3. ItemSize(entry, FlatLength) = Its[Len(entry.value)]
    BY <2>1, <2>2, Zenon DEF ItemSize
  <2>4. Its[Len(entry.value)] = Sum[Len(inners)]
    BY <2>1, Zenon
  <2> QED
    BY <2>3, <2>4, Zenon DEF GetItemSize, entry
<1> HIDE DEF Sum
<1>3. Len(inners) \in {0, 1, 2} /\ \A i \in 1 .. Len(inners) : inners[i] \in InnerEntries
  BY ArrayIs
<1>4. FiniteNatInductiveDefConclusion(Sum, 4,
         LAMBDA v, n : v + FlatLength(inners[n]), 0, Len(inners))
  <2>1. Len(inners) \in Nat
    BY <1>3
  <2> QED
    BY <1>1, <2>1, FiniteNatInductiveDef
<1>5. Sum = [n \in 0 .. Len(inners) |->
               IF n = 0 THEN 4 ELSE Sum[n - 1] + FlatLength(inners[n])]
  BY <1>4 DEF FiniteNatInductiveDefConclusion
<1>6. \A n \in 0 .. Len(inners) :
        Sum[n] = IF n = 0 THEN 4 ELSE Sum[n - 1] + FlatLength(inners[n])
  BY <1>5, Zenon
<1>7. Sum[0] = 4
  BY <1>3, <1>6
<1>8. ASSUME NEW n \in Nat, n < Len(inners)
      PROVE  Sum[n + 1] = Sum[n] + FlatLength(inners[n + 1])
  <2>1. n + 1 \in 0 .. Len(inners) /\ n + 1 # 0 /\ (n + 1) - 1 = n
    BY <1>3, <1>8
  <2> QED
    BY <1>6, <2>1
<1>9. \A i \in 1 .. Len(inners) : FlatLength(inners[i]) \in {2, 12}
  BY <1>3, FlatLengthIs, Zenon
<1>10. /\ \A n \in 0 .. Len(inners) : Sum[n] \in Nat /\ Sum[n] <= Sum[Len(inners)]
       /\ Sum[Len(inners)] <= 28
  <2>1. CASE Len(inners) = 0
    BY <1>7, <2>1
  <2>2. CASE Len(inners) = 1
    <3>1. Sum[1] = Sum[0] + FlatLength(inners[1]) /\ FlatLength(inners[1]) \in {2, 12}
      <4>1. 0 + 1 = 1 /\ 0 < Len(inners) /\ 1 \in 1 .. Len(inners)
        BY <2>2
      <4> QED
        BY <1>8, <1>9, <4>1
    <3>2. Sum[1] \in {6, 16}
      BY <1>7, <3>1
    <3>3. \A n \in 0 .. Len(inners) : n = 0 \/ n = 1
      BY <2>2
    <3> QED
      BY <1>7, <2>2, <3>2, <3>3
  <2>3. CASE Len(inners) = 2
    <3>1. Sum[1] = Sum[0] + FlatLength(inners[1]) /\ FlatLength(inners[1]) \in {2, 12}
      <4>1. 0 + 1 = 1 /\ 0 < Len(inners) /\ 1 \in 1 .. Len(inners)
        BY <2>3
      <4> QED
        BY <1>8, <1>9, <4>1
    <3>2. Sum[2] = Sum[1] + FlatLength(inners[2]) /\ FlatLength(inners[2]) \in {2, 12}
      <4>1. 1 + 1 = 2 /\ 1 < Len(inners) /\ 2 \in 1 .. Len(inners)
        BY <2>3
      <4> QED
        BY <1>8, <1>9, <4>1
    <3>3. Sum[1] \in {6, 16}
      BY <1>7, <3>1
    <3>4. Sum[2] \in Nat /\ Sum[1] <= Sum[2] /\ Sum[2] <= 28
      BY <3>2, <3>3
    <3>5. \A n \in 0 .. Len(inners) : n = 0 \/ n = 1 \/ n = 2
      BY <2>3
    <3> QED
      BY <1>7, <2>3, <3>3, <3>4, <3>5
  <2> QED
    BY <1>3, <2>1, <2>2, <2>3
<1> QED
  BY <1>2, <1>7, <1>8, <1>10, Zenon

\* The room of any other value is the length of its payload, a string's of its
\* characters.
LEMMA SizeIs ==
  ASSUME NEW e \in ServerEntries
  PROVE  /\ GetItemSize(e) \in Nat /\ GetItemSize(e) < Huge
         /\ e = Entry(e.key, e.type, e.value) /\ e.key \in Short /\ e.type \in Short
         /\ e.type \in FixedTypes => GetItemSize(e) = Width[e.type]
         /\ e.type = TYPE_STRING => GetItemSize(e) = Len(e.value)
         /\ e.type = TYPE_OBJECT => GetItemSize(e) = Len(serialize(Build(e.value)))
<1>1. /\ e.key \in Keys
      /\ \/ e.type \in FixedTypes /\ e.value \in Numbers
         \/ e.type = TYPE_STRING /\ e.value \in Strings
         \/ e.type = TYPE_OBJECT /\ e.value \in InnerEntries
         \/ e.type = TYPE_OBJECT_ARR /\ e.value \in Arrays
  BY DEF ServerEntries, PutEntries
<1>2. e = Entry(e.key, e.type, e.value)
  BY DEF ServerEntries, PutEntries, Entry
<1>3. e.key \in Short /\ e.type \in Short
  <2>1. e.key \in Short
    BY <1>1, PutsType
  <2>2. e.type \in 1 .. 8
    BY <1>1 DEF FixedTypes, TYPE_INT16, TYPE_DOUBLE, TYPE_STRING, TYPE_OBJECT, TYPE_OBJECT_ARR
  <2> DEFINE t == e.type
  <2> HIDE DEF t
  <2>3. t \in 1 .. 8
    BY <2>2 DEF t
  <2>4. t \in Short
    BY <2>3, SMT DEF Short
  <2> QED
    BY <2>1, <2>4 DEF t
<1>4. ASSUME e.type \in FixedTypes, e.value \in Numbers
      PROVE  /\ GetItemSize(e) = Width[e.type] /\ GetItemSize(e) \in Nat
             /\ GetItemSize(e) < Huge
  <2>1. /\ e.type # TYPE_STRING /\ e.type # TYPE_OBJECT /\ e.type # TYPE_OBJECT_ARR
        /\ Width[e.type] \in {2, 4, 8}
    BY <1>4, TypesDiffer
  <2>2. GetItemSize(e) = Width[e.type]
    BY <1>4, <2>1, Zenon DEF GetItemSize, ItemSize
  <2> DEFINE w == Width[e.type]
  <2> HIDE DEF w
  <2>3. w \in {2, 4, 8}
    BY <2>1 DEF w
  <2>4. w \in Nat /\ w < Huge
    BY <2>3, SMT DEF Huge
  <2> QED
    BY <2>2, <2>4 DEF w
<1>5. ASSUME e.type = TYPE_STRING, e.value \in Strings
      PROVE  GetItemSize(e) = Len(e.value) /\ GetItemSize(e) \in Nat /\ GetItemSize(e) < Huge
  <2>1. GetItemSize(e) = Len(e.value)
    BY <1>5, TypesDiffer, Zenon DEF GetItemSize, ItemSize
  <2> DEFINE s == e.value
             n == Len(s)
  <2>2. s \in Seq(Characters)
    BY <1>5, PutsType
  <2>3. 2 * n < Huge
    BY <1>5, PutsAssumption, SMT
  <2>4. n \in Nat
    BY <2>2
  <2> HIDE DEF n
  <2>5. n < Huge
    BY <2>3, <2>4, SMT DEF Huge
  <2> QED
    BY <2>1, <2>4, <2>5 DEF n
<1>6. ASSUME e.type = TYPE_OBJECT, e.value \in InnerEntries
      PROVE  /\ GetItemSize(e) = Len(serialize(Build(e.value))) /\ GetItemSize(e) \in Nat
             /\ GetItemSize(e) < Huge
  <2>1. GetItemSize(e) = FlatLength(e.value)
    BY <1>6, TypesDiffer, Zenon DEF GetItemSize, ItemSize
  <2> DEFINE w == FlatLength(e.value)
  <2>2. w \in {2, 12} /\ w = Len(serialize(Build(e.value)))
    BY <1>6, FlatLengthIs
  <2> HIDE DEF w
  <2>3. w \in {2, 12}
    BY <2>2
  <2>4. w \in Nat /\ w < Huge
    BY <2>3, SMT DEF Huge
  <2> QED
    BY <2>1, <2>2, <2>4 DEF w
<1>7. ASSUME e.type = TYPE_OBJECT_ARR, e.value \in Arrays
      PROVE  GetItemSize(e) \in Nat /\ GetItemSize(e) < Huge
  <2>1. PICK sum :
          /\ \A n \in 0 .. Len(e.value) : sum[n] \in Nat
          /\ sum[Len(e.value)] <= 28
          /\ \A key : GetItemSize(Entry(key, TYPE_OBJECT_ARR, e.value)) = sum[Len(e.value)]
    BY <1>7, ArraySize, Zenon
  <2> DEFINE w == sum[Len(e.value)]
  <2>2. w \in Nat /\ w <= 28
    <3>1. Len(e.value) \in {0, 1, 2}
      BY <1>7, ArrayIs
    <3>2. Len(e.value) \in 0 .. Len(e.value)
      BY <3>1
    <3> QED
      BY <2>1, <3>2
  <2>3. GetItemSize(e) = w
    BY <1>2, <1>7, <2>1, Zenon
  <2> HIDE DEF w
  <2>4. w < Huge
    BY <2>2, SMT DEF Huge
  <2> QED
    BY <2>2, <2>3, <2>4
<1> QED
  BY <1>1, <1>2, <1>3, <1>4, <1>5, <1>6, <1>7, TypesDiffer, Zenon

\* SerializedLength is its loop.
LEMMA LengthIs ==
  ASSUME NEW E, Len(E) \in Nat
  PROVE  \E sum :
           /\ sum[0] = 2
           /\ \A n \in Nat : n < Len(E) => sum[n + 1] = sum[n] + 8 + GetItemSize(E[n + 1])
           /\ SerializedLength(E) = sum[Len(E)]
<1> DEFINE Sum[n \in 0 .. Len(E)] ==
             IF n = 0 THEN 2 ELSE Sum[n - 1] + 8 + ItemSize(E[n], FlatLength)
<1>1. FiniteNatInductiveDefHypothesis(Sum, 2,
         LAMBDA v, n : v + 8 + ItemSize(E[n], FlatLength), 0, Len(E))
  BY DEF FiniteNatInductiveDefHypothesis
<1>2. SerializedLength(E) = Sum[Len(E)]
  BY Zenon DEF SerializedLength, LengthWith
<1> HIDE DEF Sum
<1>3. FiniteNatInductiveDefConclusion(Sum, 2,
         LAMBDA v, n : v + 8 + ItemSize(E[n], FlatLength), 0, Len(E))
  BY <1>1, FiniteNatInductiveDef
<1>4. Sum = [n \in 0 .. Len(E) |->
               IF n = 0 THEN 2 ELSE Sum[n - 1] + 8 + ItemSize(E[n], FlatLength)]
  BY <1>3 DEF FiniteNatInductiveDefConclusion
<1>5. \A n \in 0 .. Len(E) :
        Sum[n] = IF n = 0 THEN 2 ELSE Sum[n - 1] + 8 + GetItemSize(E[n])
  BY <1>4, Zenon DEF GetItemSize
<1>6. Sum[0] = 2
  BY <1>5
<1>7. ASSUME NEW n \in Nat, n < Len(E)
      PROVE  Sum[n + 1] = Sum[n] + 8 + GetItemSize(E[n + 1])
  <2>1. n + 1 \in 0 .. Len(E) /\ n + 1 # 0 /\ (n + 1) - 1 = n
    BY <1>7
  <2> QED
    BY <1>5, <2>1
<1> QED
  BY <1>2, <1>6, <1>7, Zenon

\* Where each property begins in the server's bytes.
Sums(E, sum) ==
    /\ sum[0] = 2 /\ sum[Len(E)] = SerializedLength(E)
    /\ \A n \in 0 .. Len(E) :
          /\ sum[n] \in Nat /\ sum[n] >= 2 /\ sum[n] <= sum[Len(E)]
          /\ SerializedLength(SubSeq(E, 1, n)) = sum[n]
    /\ \A n \in Nat : n < Len(E) =>
          /\ E[n + 1] \in ServerEntries
          /\ sum[n + 1] = sum[n] + 8 + GetItemSize(E[n + 1])

\* There is such a function.
LEMMA SumsAre ==
  ASSUME NEW E \in Seq(ServerEntries)
  PROVE  \E sum : Sums(E, sum)
<1> DEFINE N == Len(E)
<1>1. N \in Nat /\ \A i \in 1 .. N : E[i] \in ServerEntries
  BY ElementOfSeq
<1>2. PICK sum :
        /\ sum[0] = 2
        /\ \A n \in Nat : n < N => sum[n + 1] = sum[n] + 8 + GetItemSize(E[n + 1])
        /\ SerializedLength(E) = sum[N]
  BY <1>1, LengthIs, Zenon
<1> HIDE DEF N
<1>3. ASSUME NEW n \in Nat, n < N
      PROVE  E[n + 1] \in ServerEntries /\ GetItemSize(E[n + 1]) \in Nat
  <2>1. E[n + 1] \in ServerEntries
    BY <1>1, <1>3
  <2> QED
    BY <2>1, SizeIs
<1> DEFINE T == {n \in Nat : n <= N =>
                   /\ sum[n] \in Nat /\ sum[n] >= 2
                   /\ \A k \in 0 .. n : sum[k] \in Nat /\ sum[k] <= sum[n]}
<1>4. 0 \in T
  BY <1>2
<1>5. ASSUME NEW n \in Nat, n \in T PROVE n + 1 \in T
  <2>1. SUFFICES ASSUME n + 1 <= N
                 PROVE  /\ sum[n + 1] \in Nat /\ sum[n + 1] >= 2
                        /\ \A k \in 0 .. n + 1 : sum[k] \in Nat /\ sum[k] <= sum[n + 1]
    OBVIOUS
  <2>2. n < N /\ n <= N
    BY <1>1, <2>1
  <2>3. sum[n + 1] = sum[n] + 8 + GetItemSize(E[n + 1]) /\ GetItemSize(E[n + 1]) \in Nat
    BY <1>2, <1>3, <2>2
  <2>4. /\ sum[n] \in Nat /\ sum[n] >= 2
        /\ \A k \in 0 .. n : sum[k] \in Nat /\ sum[k] <= sum[n]
    BY <1>5, <2>2
  <2>5. sum[n + 1] \in Nat /\ sum[n + 1] >= 2 /\ sum[n] <= sum[n + 1]
    BY <2>3, <2>4
  <2>6. \A k \in 0 .. n + 1 : sum[k] \in Nat /\ sum[k] <= sum[n + 1]
    <3> TAKE k \in 0 .. n + 1
    <3>1. CASE k = n + 1
      BY <2>5, <3>1
    <3>2. CASE k # n + 1
      <4>1. k \in 0 .. n
        BY <3>2
      <4>2. sum[k] \in Nat /\ sum[k] <= sum[n]
        BY <2>4, <4>1
      <4> QED
        BY <2>4, <2>5, <4>2
    <3> QED
      BY <3>1, <3>2
  <2> QED
    BY <2>5, <2>6
<1> HIDE DEF T
<1>6. Nat \subseteq T
  BY <1>4, <1>5, Induction
<1>7. \A n \in 0 .. N : sum[n] \in Nat /\ sum[n] >= 2 /\ sum[n] <= sum[N]
  <2> TAKE n \in 0 .. N
  <2>1. n \in Nat /\ n <= N /\ N \in Nat /\ N <= N
    BY <1>1
  <2> QED
    BY <1>6, <2>1 DEF T
<1>8. \A n \in 0 .. N : SerializedLength(SubSeq(E, 1, n)) = sum[n]
  <2> TAKE n \in 0 .. N
  <2> DEFINE F == SubSeq(E, 1, n)
  <2>1. Len(F) = n /\ \A i \in 1 .. n : F[i] = E[i]
    BY <1>1 DEF N
  <2> HIDE DEF F
  <2>2. n \in Nat
    BY <1>1
  <2>3. PICK part :
          /\ part[0] = 2
          /\ \A k \in Nat : k < n => part[k + 1] = part[k] + 8 + GetItemSize(F[k + 1])
          /\ SerializedLength(F) = part[n]
    BY <2>1, <2>2, LengthIs
  <2> DEFINE U == {k \in Nat : k <= n => part[k] = sum[k]}
  <2>4. 0 \in U
    BY <1>2, <2>3
  <2>5. ASSUME NEW k \in Nat, k \in U PROVE k + 1 \in U
    <3>1. SUFFICES ASSUME k + 1 <= n PROVE part[k + 1] = sum[k + 1]
      OBVIOUS
    <3>2. k < n /\ k < N /\ k + 1 \in 1 .. n /\ k <= n
      BY <1>1, <2>2, <3>1
    <3>3. /\ part[k + 1] = part[k] + 8 + GetItemSize(F[k + 1])
          /\ sum[k + 1] = sum[k] + 8 + GetItemSize(E[k + 1])
          /\ F[k + 1] = E[k + 1] /\ part[k] = sum[k]
      BY <1>2, <2>1, <2>3, <2>5, <3>2
    <3> QED
      BY <3>3, Zenon
  <2> HIDE DEF U
  <2>6. n \in U
    BY <2>2, <2>4, <2>5, Induction
  <2> QED
    BY <2>2, <2>3, <2>6 DEF U, F
<1> QED
  BY <1>2, <1>3, <1>7, <1>8, Zenon DEF Sums, N

-----------------------------------------------------------------------------
(* The server's buffer.                                                       *)

\* What SerializeWith goes from turn to turn with.
Buffers == [ok : BOOLEAN, bytes : Seq(Byte), offset : Nat]

\* n bytes fit at the buffer's offset.
Room(b, n) == b.ok /\ b.offset + n <= Len(b.bytes)

\* From b's offset on, c has these bytes, and before it what b has.
Wrote(b, c, part) ==
    /\ c \in Buffers /\ c.ok /\ Len(c.bytes) = Len(b.bytes)
    /\ \A j \in 1 .. b.offset : c.bytes[j] = b.bytes[j]
    /\ \A j \in 1 .. Len(part) : c.bytes[b.offset + j] = part[j]

\* A buffer with one of its fields changed.
LEMMA BufferWith ==
  ASSUME NEW b \in Buffers, NEW x
  PROVE  /\ [b EXCEPT !.ok = x] = [ok |-> x, bytes |-> b.bytes, offset |-> b.offset]
         /\ [b EXCEPT !.bytes = x] = [ok |-> b.ok, bytes |-> x, offset |-> b.offset]
         /\ [b EXCEPT !.offset = x] = [ok |-> b.ok, bytes |-> b.bytes, offset |-> x]
<1>1. [b EXCEPT !.ok = x] = [ok |-> x, bytes |-> b.bytes, offset |-> b.offset]
  BY DEF Buffers
<1>2. [b EXCEPT !.bytes = x] = [ok |-> b.ok, bytes |-> x, offset |-> b.offset]
  BY DEF Buffers
<1>3. [b EXCEPT !.offset = x] = [ok |-> b.ok, bytes |-> b.bytes, offset |-> x]
  BY DEF Buffers
<1> QED
  BY <1>1, <1>2, <1>3

\* Advance changes the offset only.
LEMMA AdvanceIs ==
  ASSUME NEW b \in Buffers, NEW n \in Nat
  PROVE  /\ Advance(b, n) = [ok |-> b.ok, bytes |-> b.bytes, offset |-> b.offset + n]
         /\ Advance(b, n) \in Buffers
<1>1. Advance(b, n) = [ok |-> b.ok, bytes |-> b.bytes, offset |-> b.offset + n]
  BY BufferWith, Zenon DEF Advance
<1> QED
  BY <1>1 DEF Buffers

\* Write writes what fits, and throws at what does not.
LEMMA WriteIs ==
  ASSUME NEW b \in Buffers, NEW part \in Seq(Byte)
  PROVE  /\ Room(b, Len(part)) =>
              /\ Wrote(b, Write(b, part), part)
              /\ Write(b, part).offset = b.offset + Len(part)
         /\ ~Room(b, Len(part)) => ~Write(b, part).ok /\ Write(b, part) \in Buffers
         /\ ~b.ok => Write(b, part) = b
<1> DEFINE n == Len(part)
           size == Len(b.bytes)
           o == b.offset
<1>1. /\ n \in Nat /\ size \in Nat /\ o \in Nat /\ b.bytes \in Seq(Byte) /\ b.ok \in BOOLEAN
      /\ b = [ok |-> b.ok, bytes |-> b.bytes, offset |-> b.offset]
  BY DEF Buffers
<1>2. ~b.ok => Write(b, part) = b
  BY Zenon DEF Write
<1>3. ASSUME Room(b, n)
      PROVE  Wrote(b, Write(b, part), part) /\ Write(b, part).offset = o + n
  <2> DEFINE new == [i \in 1 .. size |->
                       IF i \in o + 1 .. o + n THEN part[i - o] ELSE b.bytes[i]]
  <2>1. b.ok /\ ~(o + n > size) /\ o + n <= size
    BY <1>1, <1>3 DEF Room
  <2>2. \A i \in 1 .. size : new[i] \in Byte
    <3> TAKE i \in 1 .. size
    <3>1. CASE i \in o + 1 .. o + n
      <4>1. i - o \in 1 .. n
        BY <1>1, <3>1
      <4>2. part[i - o] \in Byte
        BY <4>1, ElementOfSeq
      <4> QED
        BY <3>1, <4>2
    <3>2. CASE i \notin o + 1 .. o + n
      <4>1. b.bytes[i] \in Byte
        BY <1>1, ElementOfSeq
      <4> QED
        BY <3>2, <4>1
    <3> QED
      BY <3>1, <3>2
  <2>3. new \in Seq(Byte) /\ Len(new) = size
    <3>1. new \in [1 .. size -> Byte]
      BY <2>2
    <3> HIDE DEF new, size
    <3> QED
      BY <1>1, <3>1
  <2>4. \A j \in 1 .. o : new[j] = b.bytes[j]
    BY <1>1, <2>1
  <2>5. \A j \in 1 .. n : new[o + j] = part[j]
    <3> TAKE j \in 1 .. n
    <3>1. o + j \in 1 .. size /\ o + j \in o + 1 .. o + n /\ (o + j) - o = j
      BY <1>1, <2>1
    <3> QED
      BY <3>1, Zenon
  <2>6. Write(b, part) = Advance(CopyTo(b, part), n)
    BY <2>1, Zenon DEF Write
  <2>7. CopyTo(b, part) = [b EXCEPT !.bytes = new]
    BY <2>1, Zenon DEF CopyTo
  <2> HIDE DEF new, n
  <2>8. CopyTo(b, part) = [ok |-> b.ok, bytes |-> new, offset |-> o]
    BY <2>7, BufferWith, Zenon
  <2>9. Write(b, part) = [ok |-> b.ok, bytes |-> new, offset |-> o + n]
    <3>1. CopyTo(b, part) \in Buffers
      BY <1>1, <2>3, <2>8 DEF Buffers
    <3>2. Advance(CopyTo(b, part), n) =
            [ok |-> CopyTo(b, part).ok, bytes |-> CopyTo(b, part).bytes,
             offset |-> CopyTo(b, part).offset + n]
      BY <1>1, <3>1, AdvanceIs, Zenon
    <3> QED
      BY <2>6, <2>8, <3>2
  <2>10. /\ Write(b, part).ok = b.ok /\ Write(b, part).bytes = new
         /\ Write(b, part).offset = o + n
    BY <2>9
  <2>11. Write(b, part) \in Buffers
    <3>1. o + n \in Nat
      BY <1>1
    <3> QED
      BY <1>1, <2>3, <2>9, <3>1 DEF Buffers
  <2> QED
    BY <2>1, <2>3, <2>4, <2>5, <2>10, <2>11, Zenon DEF Wrote, n
<1>4. ASSUME ~Room(b, n)
      PROVE  ~Write(b, part).ok /\ Write(b, part) \in Buffers
  <2>1. CASE ~b.ok
    BY <1>2, <2>1, Zenon
  <2>2. CASE b.ok
    <3>1. o + n > size
      BY <1>1, <1>4, <2>2 DEF Room
    <3>2. Write(b, part) = Advance(CopyTo(b, part), n)
      BY <2>2, Zenon DEF Write
    <3>3. CopyTo(b, part) = [b EXCEPT !.ok = FALSE]
      BY <3>1, Zenon DEF CopyTo
    <3> HIDE DEF n
    <3>4. CopyTo(b, part) = [ok |-> FALSE, bytes |-> b.bytes, offset |-> o]
      BY <3>3, BufferWith, Zenon
    <3>5. CopyTo(b, part) \in Buffers /\ ~CopyTo(b, part).ok
      BY <1>1, <3>4 DEF Buffers
    <3>6. /\ Advance(CopyTo(b, part), n).ok = CopyTo(b, part).ok
          /\ Advance(CopyTo(b, part), n) \in Buffers
      BY <1>1, <3>5, AdvanceIs
    <3> QED
      BY <3>2, <3>5, <3>6
  <2> QED
    BY <2>1, <2>2
<1> QED
  BY <1>2, <1>3, <1>4, Zenon

\* One part after another.
LEMMA WroteOn ==
  ASSUME NEW b \in Buffers, NEW c, NEW d, NEW p \in Seq(Byte), NEW q \in Seq(Byte),
         Wrote(b, c, p), c.offset = b.offset + Len(p), Wrote(c, d, q)
  PROVE  Wrote(b, d, p \o q)
<1> DEFINE n == Len(p)
           o == b.offset
<1>1. /\ o \in Nat /\ n \in Nat /\ c.offset = o + n
      /\ d \in Buffers /\ d.ok /\ Len(d.bytes) = Len(c.bytes) /\ Len(c.bytes) = Len(b.bytes)
      /\ \A j \in 1 .. o : c.bytes[j] = b.bytes[j]
      /\ \A j \in 1 .. n : c.bytes[o + j] = p[j]
      /\ \A j \in 1 .. o + n : d.bytes[j] = c.bytes[j]
      /\ \A j \in 1 .. Len(q) : d.bytes[(o + n) + j] = q[j]
  BY DEF Wrote, Buffers
<1>2. /\ Len(p \o q) = n + Len(q) /\ Len(q) \in Nat
      /\ \A j \in 1 .. n : (p \o q)[j] = p[j]
      /\ \A j \in 1 .. Len(q) : (p \o q)[n + j] = q[j]
  BY JoinedAt
<1> HIDE DEF n, o
<1>3. \A j \in 1 .. o : d.bytes[j] = b.bytes[j]
  <2> TAKE j \in 1 .. o
  <2>1. j \in 1 .. o + n
    BY <1>1
  <2> QED
    BY <1>1, <2>1, Zenon
<1>4. \A j \in 1 .. n + Len(q) : d.bytes[o + j] = (p \o q)[j]
  <2> TAKE j \in 1 .. n + Len(q)
  <2>1. CASE j \in 1 .. n
    <3>1. o + j \in 1 .. o + n
      BY <1>1, <2>1
    <3> QED
      BY <1>1, <1>2, <2>1, <3>1, Zenon
  <2>2. CASE j \notin 1 .. n
    <3>1. j - n \in 1 .. Len(q) /\ (o + n) + (j - n) = o + j /\ n + (j - n) = j
      BY <1>1, <1>2, <2>2
    <3>2. d.bytes[(o + n) + (j - n)] = q[j - n] /\ (p \o q)[n + (j - n)] = q[j - n]
      BY <1>1, <1>2, <3>1, Zenon
    <3> QED
      BY <3>1, <3>2, Zenon
  <2> QED
    BY <2>1, <2>2
<1> QED
  BY <1>1, <1>2, <1>3, <1>4, Zenon DEF Wrote, o

-----------------------------------------------------------------------------
(* The server's writer, turn by turn: what is in the buffer behind each       *)
(* property.                                                                  *)

\* The eight bytes before a value.
Header(key, type, size) ==
    LittleEndian(key, 2) \o LittleEndian(type, 2) \o LittleEndian(size, 4)

\* They are eight bytes.
LEMMA HeaderType ==
  ASSUME NEW key \in Nat, NEW type \in Nat, NEW size \in Nat
  PROVE  Header(key, type, size) \in Seq(Byte) /\ Len(Header(key, type, size)) = 8
<1> DEFINE a == LittleEndian(key, 2)
           b == LittleEndian(type, 2)
           c == LittleEndian(size, 4)
<1>1. /\ a \in Seq(Byte) /\ Len(a) = 2 /\ b \in Seq(Byte) /\ Len(b) = 2
      /\ c \in Seq(Byte) /\ Len(c) = 4
  BY LittleEndianType
<1> HIDE DEF a, b, c
<1> DEFINE ab == a \o b
<1>2. ab \in Seq(Byte) /\ Len(ab) = 4
  <2>1. a \o b \in Seq(Byte) /\ Len(a \o b) = Len(a) + Len(b)
    BY <1>1, Joined
  <2> QED
    BY <1>1, <2>1
<1> HIDE DEF ab
<1>3. ab \o c \in Seq(Byte) /\ Len(ab \o c) = 8
  <2>1. ab \o c \in Seq(Byte) /\ Len(ab \o c) = Len(ab) + Len(c)
    BY <1>1, <1>2, Joined
  <2> QED
    BY <1>1, <1>2, <2>1
<1> QED
  BY <1>3 DEF Header, ab, a, b, c

\* Behind what was written the rest of the room is left.
LEMMA RoomOn ==
  ASSUME NEW b \in Buffers, NEW c, NEW p \in Seq(Byte), NEW k \in Nat,
         Room(b, Len(p) + k)
  PROVE  /\ Room(b, Len(p))
         /\ Wrote(b, c, p) /\ c.offset = b.offset + Len(p) => Room(c, k)
<1> DEFINE n == Len(p)
           o == b.offset
           size == Len(b.bytes)
<1>1. n \in Nat /\ o \in Nat /\ size \in Nat /\ o + (n + k) <= size /\ b.ok
  BY DEF Buffers, Room
<1>2. Room(b, n)
  <2> HIDE DEF n, o, size
  <2>1. o + n <= size
    BY <1>1
  <2> QED
    BY <1>1, <2>1, Zenon DEF Room, o, size
<1>3. ASSUME Wrote(b, c, p), c.offset = o + n PROVE Room(c, k)
  <2>1. c.ok /\ Len(c.bytes) = size
    BY <1>3, Zenon DEF Wrote
  <2> HIDE DEF n, o, size
  <2>2. (o + n) + k <= size
    BY <1>1
  <2> QED
    BY <1>3, <2>1, <2>2, Zenon DEF Room
<1> QED
  BY <1>2, <1>3, Zenon

\* A buffer moved to another offset.
LEMMA WroteAt ==
  ASSUME NEW b, NEW c, NEW part, Wrote(b, c, part), NEW x \in Nat
  PROVE  Wrote(b, [c EXCEPT !.offset = x], part) /\ [c EXCEPT !.offset = x].offset = x
<1> DEFINE d == [c EXCEPT !.offset = x]
<1>1. c \in Buffers /\ c.ok
  BY Zenon DEF Wrote
<1>2. d = [ok |-> c.ok, bytes |-> c.bytes, offset |-> x]
  BY <1>1, BufferWith, Zenon
<1>3. d \in Buffers /\ d.ok = c.ok /\ d.bytes = c.bytes /\ d.offset = x
  BY <1>1, <1>2 DEF Buffers
<1> HIDE DEF d
<1>4. Wrote(b, d, part)
  BY <1>3, Zenon DEF Wrote
<1> QED
  BY <1>3, <1>4, Zenon DEF d

\* The bytes of the two messages there are within a message.
LEMMA InnerBytes ==
  ASSUME NEW inner \in InnerEntries
  PROVE  /\ Len(inner) = 0 => serialize(Build(inner)) = LittleEndian(0, 2)
         /\ Len(inner) = 1 => serialize(Build(inner)) =
              (LittleEndian(1, 2) \o Header(inner[1].key, TYPE_INT16, 2))
                 \o LittleEndian(inner[1].value, 2)
<1> DEFINE m == Build(inner)
           list == m.next
<1>1. /\ MsgOK(m) /\ Len(list) = Len(inner)
      /\ \A i \in 1 .. Len(inner) :
            /\ inner[i].key \in Keys /\ inner[i].value \in Numbers
            /\ list[i] = Item(inner[i].key, TYPE_INT16, LittleEndian(inner[i].value, 2))
  BY InnerIs
<1>2. m \in MsgType /\ m.property_count = Len(list)
  BY <1>1, Zenon DEF MsgOK
<1>3. list \in Seq(Items)
  BY <1>2 DEF MsgType
<1>4. serialize(m) = LittleEndian(m.property_count, 2) \o BytesOfAll(list)
  BY <1>2, SerializeIs
<1> HIDE DEF m, list
<1>5. CASE Len(inner) = 0
  <2>1. list = <<>> /\ m.property_count = 0
    BY <1>1, <1>2, <1>3, <1>5
  <2>2. LittleEndian(0, 2) \in Seq(Byte)
    BY LittleEndianType
  <2>3. LittleEndian(0, 2) \o <<>> = LittleEndian(0, 2)
    BY <2>2
  <2>4. serialize(m) = LittleEndian(0, 2)
    BY <1>4, <2>1, <2>3, BytesOfNone, Zenon
  <2> QED
    BY <1>5, <2>4 DEF m
<1>6. CASE Len(inner) = 1
  <2> DEFINE k == inner[1].key
             n == inner[1].value
             item == Item(k, TYPE_INT16, LittleEndian(n, 2))
             a == LittleEndian(1, 2)
             h == Header(k, TYPE_INT16, 2)
             v == LittleEndian(n, 2)
  <2>1. k \in Keys /\ n \in Numbers /\ list[1] = item /\ Len(list) = 1
    BY <1>1, <1>6
  <2>2. k \in Short /\ k \in Nat /\ n \in Nat /\ TYPE_INT16 \in Nat
    BY <2>1, PutsType, TypesDiffer DEF Short
  <2>3. /\ a \in Seq(Byte) /\ h \in Seq(Byte) /\ v \in Seq(Byte) /\ Len(v) = 2
    BY <2>2, LittleEndianType, HeaderType
  <2>4. item.key = k /\ item.type = TYPE_INT16 /\ item.payload = v
    BY DEF Item
  <2>5. BytesOf(item) = h \o v
    BY <2>3, <2>4, Zenon DEF BytesOf, ItemHeader, Header
  <2>6. item \in Items
    <3>1. item = list[1] /\ 1 \in 1 .. Len(list)
      BY <2>1
    <3> QED
      BY <1>3, <3>1, ElementOfSeq
  <2> HIDE DEF item, a, h, v
  <2>7. list = <<item>> \o <<>> /\ <<>> \in Seq(Items)
    <3>1. list = <<item>>
      BY <1>3, <2>1
    <3>2. <<item>> \o <<>> = <<item>>
      BY <2>6
    <3>3. <<>> \in Seq(Items)
      OBVIOUS
    <3> QED
      BY <3>1, <3>2, <3>3, Zenon
  <2>8. BytesOfAll(list) = BytesOf(item) \o <<>>
    BY <2>6, <2>7, BytesOfCons, BytesOfNone, Zenon
  <2>9. (h \o v) \o <<>> = h \o v /\ a \o (h \o v) = (a \o h) \o v
    <3>1. (h \o v) \o <<>> = h \o v
      BY <2>3
    <3>2. (a \o h) \o v = a \o (h \o v)
      BY <2>3, ConcatAssociative, SMTT(30)
    <3> QED
      BY <3>1, <3>2, Zenon
  <2>10. serialize(m) = (a \o h) \o v
    <3>1. m.property_count = 1
      BY <1>2, <2>1
    <3> QED
      BY <1>4, <2>5, <2>8, <2>9, <3>1, Zenon DEF a
  <2>11. Len(inner) # 0
    BY <1>6
  <2> QED
    BY <2>10, <2>11, Zenon DEF m, a, h, v, k, n
<1> QED
  BY <1>5, <1>6 DEF m

\* A message within a message is written as serialize writes it.
LEMMA FlatIs ==
  ASSUME NEW inner \in InnerEntries, NEW b \in Buffers, Room(b, FlatLength(inner))
  PROVE  /\ Wrote(b, FlatSerialize(inner, b), serialize(Build(inner)))
         /\ FlatSerialize(inner, b).offset = b.offset + FlatLength(inner)
<1> DEFINE Done2 == FlatSerialize(inner, b)
           written[n \in 0 .. Len(inner)] ==
             IF n = 0 THEN Write(b, LittleEndian(Len(inner), 2))
             ELSE WriteItem(written[n - 1], inner[n],
                            LAMBDA message : 0, LAMBDA message, c : c)
<1>1. FiniteNatInductiveDefHypothesis(written, Write(b, LittleEndian(Len(inner), 2)),
         LAMBDA v, n : WriteItem(v, inner[n], LAMBDA message : 0, LAMBDA message, c : c),
         0, Len(inner))
  BY DEF FiniteNatInductiveDefHypothesis
<1>2. Done2 = written[Len(inner)]
  BY Zenon DEF FlatSerialize, SerializeWith
<1> HIDE DEF written, Done2
<1>3. Len(inner) \in {0, 1} /\ Len(inner) \in Nat
  <2>1. Len(inner) \in {0, 1}
    BY InnerIs
  <2> QED
    BY <2>1
<1>4. FiniteNatInductiveDefConclusion(written, Write(b, LittleEndian(Len(inner), 2)),
         LAMBDA v, n : WriteItem(v, inner[n], LAMBDA message : 0, LAMBDA message, c : c),
         0, Len(inner))
  BY <1>1, <1>3, FiniteNatInductiveDef
<1>5. written = [n \in 0 .. Len(inner) |->
             IF n = 0 THEN Write(b, LittleEndian(Len(inner), 2))
             ELSE WriteItem(written[n - 1], inner[n],
                            LAMBDA message : 0, LAMBDA message, c : c)]
  BY <1>4 DEF FiniteNatInductiveDefConclusion
<1>6. written[0] = Write(b, LittleEndian(Len(inner), 2))
  <2>1. 0 \in 0 .. Len(inner)
    BY <1>3
  <2> QED
    BY <1>5, <2>1, Zenon
<1>7. CASE Len(inner) = 0
  <2> DEFINE a == LittleEndian(0, 2)
  <2>1. a \in Seq(Byte) /\ Len(a) = 2
    BY LittleEndianType
  <2>2. FlatLength(inner) = 2
    BY <1>7, FlatLengthIs
  <2>3. Done2 = Write(b, a)
    BY <1>2, <1>6, <1>7
  <2>4. serialize(Build(inner)) = a
    BY <1>7, InnerBytes
  <2> HIDE DEF a
  <2>5. Wrote(b, Write(b, a), a) /\ Write(b, a).offset = b.offset + Len(a)
    <3>1. Room(b, Len(a))
      BY <2>1, <2>2
    <3> QED
      BY <2>1, <3>1, WriteIs
  <2> QED
    BY <2>1, <2>2, <2>3, <2>4, <2>5, Zenon DEF Done2
<1>8. CASE Len(inner) = 1
  <2> DEFINE e == inner[1]
             a == LittleEndian(1, 2)
             h == Header(e.key, TYPE_INT16, 2)
             v == LittleEndian(e.value, 2)
             b1 == Write(b, a)
             b2 == Write(b1, h)
             b3 == Write(b2, v)
             size == ItemSize(e, LAMBDA message : 0)
  <2>1. /\ e.key \in Keys /\ e.value \in Numbers /\ e.type = TYPE_INT16
    <3>1. e.key \in Keys /\ e.value \in Numbers
          /\ e = Entry(e.key, TYPE_INT16, e.value)
      <4>1. 1 \in 1 .. Len(inner)
        BY <1>8
      <4> QED
        BY <4>1, InnerIs, Zenon
    <3>2. Entry(e.key, TYPE_INT16, e.value).type = TYPE_INT16
      BY DEF Entry
    <3> QED
      BY <3>1, <3>2, Zenon
  <2>2. e.key \in Short /\ e.key \in Nat /\ e.value \in Nat /\ TYPE_INT16 \in Nat
    BY <2>1, PutsType, TypesDiffer DEF Short
  <2>3. /\ a \in Seq(Byte) /\ Len(a) = 2 /\ h \in Seq(Byte) /\ Len(h) = 8
        /\ v \in Seq(Byte) /\ Len(v) = 2
    BY <2>2, LittleEndianType, HeaderType
  <2>4. /\ e.type \in FixedTypes /\ e.type # TYPE_STRING
        /\ e.type # TYPE_OBJECT /\ e.type # TYPE_OBJECT_ARR
        /\ Width[e.type] = 2
    BY <2>1, TypesDiffer
  <2>5. size = 2
    BY <2>4, Zenon DEF ItemSize
  <2>6. Done2 = WriteItem(b1, e, LAMBDA message : 0, LAMBDA message, c : c)
    <3>1. 1 \in 0 .. Len(inner) /\ 1 # 0 /\ 1 - 1 = 0
      BY <1>8
    <3>2. written[1] = WriteItem(written[1 - 1], inner[1],
                                 LAMBDA message : 0, LAMBDA message, c : c)
      BY <1>5, <3>1, Zenon
    <3> QED
      BY <1>2, <1>6, <1>8, <3>1, <3>2, Zenon
  <2>7. Done2 = IF ~b2.ok THEN b2
                ELSE [WriteValue(b2, e, LAMBDA message, c : c)
                        EXCEPT !.offset = b2.offset + 2]
    BY <2>1, <2>5, <2>6, Zenon DEF WriteItem, Header
  <2>8. WriteValue(b2, e, LAMBDA message, c : c) = b3
    BY <2>4, Zenon DEF WriteValue
  <2>9. Done2 = IF ~b2.ok THEN b2 ELSE [b3 EXCEPT !.offset = b2.offset + 2]
    BY <2>7, <2>8, Zenon
  <2>10. FlatLength(inner) = 12
    BY <1>8, FlatLengthIs
  <2>11. serialize(Build(inner)) = (a \o h) \o v
    BY <1>8, InnerBytes
  <2> HIDE DEF size, a, h, v, b1, b2, b3
  <2>12. Room(b, Len(a) + 10) /\ Room(b, 12)
    BY <2>3, <2>10
  <2>13. /\ Wrote(b, b1, a) /\ b1.offset = b.offset + 2 /\ b1 \in Buffers /\ Room(b1, 10)
    <3>1. Room(b, Len(a))
      BY <2>3, <2>12, RoomOn
    <3>2. Wrote(b, b1, a) /\ b1.offset = b.offset + Len(a)
      BY <2>3, <3>1, WriteIs DEF b1
    <3>3. Room(b1, 10)
      BY <2>3, <2>12, <3>2, RoomOn
    <3>4. b1 \in Buffers
      BY <3>2, Zenon DEF Wrote
    <3> QED
      BY <2>3, <3>2, <3>3, <3>4
  <2>14. /\ Wrote(b1, b2, h) /\ b2.offset = b1.offset + 8 /\ b2 \in Buffers /\ Room(b2, 2)
    <3>0. Room(b1, Len(h) + 2)
      BY <2>3, <2>13
    <3>1. Room(b1, Len(h))
      BY <2>3, <2>13, <3>0, RoomOn
    <3>2. Wrote(b1, b2, h) /\ b2.offset = b1.offset + Len(h)
      BY <2>3, <2>13, <3>1, WriteIs DEF b2
    <3>3. Room(b2, 2)
      BY <2>3, <2>13, <3>0, <3>2, RoomOn
    <3>4. b2 \in Buffers
      BY <3>2, Zenon DEF Wrote
    <3> QED
      BY <2>3, <3>2, <3>3, <3>4
  <2>15. Wrote(b2, b3, v) /\ b3.offset = b2.offset + 2
    <3>1. Room(b2, Len(v))
      BY <2>3, <2>14
    <3>2. Wrote(b2, b3, v) /\ b3.offset = b2.offset + Len(v)
      BY <2>3, <2>14, <3>1, WriteIs DEF b3
    <3> QED
      BY <2>3, <3>2
  <2>16. Wrote(b, b3, (a \o h) \o v) /\ b3.offset = b.offset + 12 /\ b2.offset + 2 \in Nat
    <3>1. Wrote(b, b2, a \o h)
      BY <2>3, <2>13, <2>14, WroteOn
    <3>2. a \o h \in Seq(Byte) /\ Len(a \o h) = 10
      <4>1. a \o h \in Seq(Byte) /\ Len(a \o h) = Len(a) + Len(h)
        BY <2>3, JoinedAt
      <4> QED
        BY <2>3, <4>1
    <3>3. b.offset \in Nat
      BY DEF Buffers
    <3>4. b2.offset = b.offset + 10 /\ b3.offset = b.offset + 12 /\ b2.offset + 2 \in Nat
      BY <2>13, <2>14, <2>15, <3>3
    <3>5. b2.offset = b.offset + Len(a \o h)
      BY <3>2, <3>4
    <3>6. Wrote(b, b3, (a \o h) \o v)
      <4> DEFINE ah == a \o h
      <4>1. ah \in Seq(Byte) /\ Wrote(b, b2, ah) /\ b2.offset = b.offset + Len(ah)
        BY <3>1, <3>2, <3>5, Zenon
      <4> HIDE DEF ah
      <4>2. Wrote(b, b3, ah \o v)
        BY <2>3, <2>15, <4>1, WroteOn
      <4> QED
        BY <4>2, Zenon DEF ah
    <3> QED
      BY <3>4, <3>6
  <2>17. b2.ok
    BY <2>14, Zenon DEF Wrote
  <2>18. Wrote(b, Done2, (a \o h) \o v) /\ Done2.offset = b2.offset + 2
    <3> DEFINE x == b2.offset + 2
               all == (a \o h) \o v
    <3>1. Wrote(b, b3, all) /\ x \in Nat /\ Done2 = [b3 EXCEPT !.offset = x]
      BY <2>9, <2>16, <2>17, Zenon
    <3> HIDE DEF x, all
    <3>2. Wrote(b, [b3 EXCEPT !.offset = x], all) /\ [b3 EXCEPT !.offset = x].offset = x
      BY <3>1, WroteAt
    <3> QED
      BY <3>1, <3>2, Zenon DEF x, all
  <2>19. Done2.offset = b.offset + 12
    BY <2>15, <2>16, <2>18
  <2> QED
    BY <2>10, <2>11, <2>18, <2>19, Zenon DEF Done2
<1> QED
  BY <1>3, <1>7, <1>8

\* What is written of a value, an array's apart, and what there is of it when the
\* message is done.
Placed(e) == IF e.type = TYPE_OBJECT_ARR THEN <<>> ELSE Payload(e)
Kept(e) == IF e.type = TYPE_STRING THEN RoomFor(e.value) ELSE Placed(e)

\* Both are bytes; only a string's can be longer than its room.
LEMMA PlacedIs ==
  ASSUME NEW e \in ServerEntries
  PROVE  /\ Placed(e) \in Seq(Byte) /\ Len(Placed(e)) \in Nat
         /\ Kept(e) \in Seq(Byte) /\ Len(Kept(e)) \in Nat
         /\ Len(Kept(e)) <= GetItemSize(e) /\ Len(Kept(e)) <= Len(Placed(e))
         /\ \A j \in 1 .. Len(Kept(e)) : Kept(e)[j] = Placed(e)[j]
         /\ e.type # TYPE_OBJECT_ARR => e \in PutEntries /\ Len(Kept(e)) = GetItemSize(e)
         /\ e.type # TYPE_STRING => Len(Placed(e)) <= GetItemSize(e)
         /\ e.type = TYPE_STRING => Placed(e) = UTF8(e.value) /\ e.value \in Seq(Characters)
         /\ e.type = TYPE_OBJECT_ARR => e.value \in Arrays
<1>1. /\ GetItemSize(e) \in Nat
      /\ e.type \in FixedTypes => GetItemSize(e) = Width[e.type]
      /\ e.type = TYPE_STRING => GetItemSize(e) = Len(e.value)
      /\ e.type = TYPE_OBJECT => GetItemSize(e) = Len(serialize(Build(e.value)))
  BY SizeIs, Zenon
<1>2. \/ e.type \in FixedTypes /\ e.value \in Numbers /\ e \in PutEntries
      \/ e.type = TYPE_STRING /\ e.value \in Strings /\ e \in PutEntries
      \/ e.type = TYPE_OBJECT /\ e.value \in InnerEntries /\ e \in PutEntries
      \/ e.type = TYPE_OBJECT_ARR /\ e.value \in Arrays
  BY DEF ServerEntries, PutEntries
<1>3. CASE e.type = TYPE_OBJECT_ARR
  <2>1. Placed(e) = <<>> /\ Kept(e) = <<>> /\ e.value \in Arrays
    BY <1>2, <1>3, TypesDiffer, Zenon DEF Placed, Kept
  <2>2. <<>> \in Seq(Byte) /\ Len(<<>>) = 0
    OBVIOUS
  <2>3. 0 \in Nat /\ 0 <= GetItemSize(e) /\ 0 <= 0
    BY <1>1
  <2>4. \A j \in 1 .. 0 : FALSE
    OBVIOUS
  <2> QED
    BY <1>3, <2>1, <2>2, <2>3, <2>4, TypesDiffer, Zenon
<1>4. CASE e.type = TYPE_STRING /\ e.value \in Strings /\ e \in PutEntries
  <2> DEFINE s == e.value
             p == UTF8(s)
             k == RoomFor(s)
  <2>1. /\ e.type \notin FixedTypes /\ e.type # TYPE_OBJECT_ARR
    BY <1>4, TypesDiffer
  <2>2. Placed(e) = p /\ Kept(e) = k /\ GetItemSize(e) = Len(s)
    BY <1>1, <1>4, <2>1, Zenon DEF Placed, Kept, Payload
  <2>3. s \in Seq(Characters)
    BY <1>4, PutsType
  <2>4. p \in Seq(Byte) /\ Len(p) \in Nat /\ Len(s) <= Len(p) /\ Len(s) \in Nat
    <3>1. Len(s) \in Nat
      BY <2>3
    <3> QED
      BY <2>3, <3>1, UTF8Length, Zenon
  <2>5. k = SubSeq(p, 1, Len(s))
    BY Zenon DEF RoomFor
  <2> HIDE DEF p, k, s
  <2>6. k \in Seq(Byte) /\ Len(k) = Len(s) /\ \A j \in 1 .. Len(k) : k[j] = p[j]
    BY <2>4, <2>5
  <2>7. Len(s) <= Len(s)
    BY <2>4
  <2> QED
    BY <1>4, <2>1, <2>2, <2>3, <2>4, <2>6, <2>7, Zenon DEF p, s
<1>5. ASSUME e \in PutEntries, e.type # TYPE_STRING, e.type # TYPE_OBJECT_ARR,
             Len(Payload(e)) = GetItemSize(e)
      PROVE  /\ Placed(e) \in Seq(Byte) /\ Len(Placed(e)) \in Nat
             /\ Kept(e) \in Seq(Byte) /\ Len(Kept(e)) \in Nat
             /\ Len(Kept(e)) <= GetItemSize(e) /\ Len(Kept(e)) <= Len(Placed(e))
             /\ \A j \in 1 .. Len(Kept(e)) : Kept(e)[j] = Placed(e)[j]
             /\ Len(Kept(e)) = GetItemSize(e) /\ Len(Placed(e)) <= GetItemSize(e)
  <2>1. Placed(e) = Payload(e) /\ Kept(e) = Payload(e)
    BY <1>5, Zenon DEF Placed, Kept
  <2>2. Payload(e) \in Seq(Byte) /\ Len(Payload(e)) \in Nat
    BY <1>5, PayloadFits, Zenon
  <2>3. Len(Payload(e)) <= Len(Payload(e))
    BY <2>2
  <2> QED
    BY <1>5, <2>1, <2>2, <2>3, Zenon
<1>6. CASE e.type \in FixedTypes /\ e.value \in Numbers /\ e \in PutEntries
  <2>1. e.type # TYPE_STRING /\ e.type # TYPE_OBJECT_ARR
    BY <1>6, TypesDiffer
  <2>2. Payload(e) = LittleEndian(e.value, Width[e.type])
    BY <1>6, Zenon DEF Payload
  <2>3. e.value \in Nat /\ Width[e.type] \in Nat
    BY <1>6, PutsType, TypesDiffer
  <2>4. Len(Payload(e)) = GetItemSize(e)
    BY <1>1, <1>6, <2>2, <2>3, LittleEndianType, Zenon
  <2> QED
    BY <1>5, <1>6, <2>1, <2>4, Zenon
<1>7. CASE e.type = TYPE_OBJECT /\ e.value \in InnerEntries /\ e \in PutEntries
  <2>1. e.type # TYPE_STRING /\ e.type # TYPE_OBJECT_ARR /\ e.type \notin FixedTypes
    BY <1>7, TypesDiffer
  <2>2. Payload(e) = serialize(Build(e.value))
    BY <2>1, Zenon DEF Payload
  <2>3. Len(Payload(e)) = GetItemSize(e)
    BY <1>1, <1>7, <2>2, Zenon
  <2> QED
    BY <1>5, <1>7, <2>1, <2>3, Zenon
<1> QED
  BY <1>2, <1>3, <1>4, <1>6, <1>7

\* An array's value stays within its room.
LEMMA ArrayWritten ==
  ASSUME NEW e \in ServerEntries, e.type = TYPE_OBJECT_ARR, NEW b \in Buffers,
         Room(b, GetItemSize(e))
  PROVE  Wrote(b, WriteValue(b, e, FlatSerialize), <<>>)
<1> DEFINE inners == e.value
           N == Len(inners)
           o == b.offset
           v == WriteValue(b, e, FlatSerialize)
           first == Advance(Write(b, LittleEndian(Len(e.value), 2)), 2)
           written[n \in 0 .. Len(e.value)] ==
             IF n = 0 THEN first ELSE FlatSerialize(e.value[n], written[n - 1])
<1>1. inners \in Arrays /\ e = Entry(e.key, TYPE_OBJECT_ARR, inners)
  BY PlacedIs, SizeIs, Zenon
<1>2. N \in {0, 1, 2} /\ N \in Nat /\ \A i \in 1 .. N : inners[i] \in InnerEntries
  <2>1. N \in {0, 1, 2} /\ \A i \in 1 .. N : inners[i] \in InnerEntries
    BY <1>1, ArrayIs, Zenon
  <2> QED
    BY <2>1
<1>3. v = written[N]
  <2>1. /\ e.type \notin FixedTypes /\ e.type # TYPE_STRING /\ e.type # TYPE_OBJECT
    BY TypesDiffer
  <2> QED
    BY <2>1, Zenon DEF WriteValue
<1>4. FiniteNatInductiveDefHypothesis(written, first,
         LAMBDA w, n : FlatSerialize(e.value[n], w), 0, Len(e.value))
  BY DEF FiniteNatInductiveDefHypothesis
<1> HIDE DEF written, first
<1>5. FiniteNatInductiveDefConclusion(written, first,
         LAMBDA w, n : FlatSerialize(e.value[n], w), 0, Len(e.value))
  BY <1>2, <1>4, FiniteNatInductiveDef
<1>6. written = [n \in 0 .. N |->
                   IF n = 0 THEN first ELSE FlatSerialize(inners[n], written[n - 1])]
  BY <1>5 DEF FiniteNatInductiveDefConclusion
<1> HIDE DEF v
<1>7. PICK sum :
        /\ sum[0] = 4
        /\ \A n \in Nat : n < N => sum[n + 1] = sum[n] + FlatLength(inners[n + 1])
        /\ \A n \in 0 .. N : sum[n] \in Nat /\ sum[n] <= sum[N]
        /\ \A key : GetItemSize(Entry(key, TYPE_OBJECT_ARR, inners)) = sum[N]
  BY <1>1, ArraySize, Zenon
<1>8. GetItemSize(e) = sum[N]
  BY <1>1, <1>7, Zenon
<1>9. b.ok /\ o + sum[N] <= Len(b.bytes) /\ o \in Nat /\ Len(b.bytes) \in Nat
  BY <1>8 DEF Room, Buffers
<1> DEFINE Good(n) == Wrote(b, written[n], <<>>) /\ written[n].offset = o + sum[n]
           T == {n \in Nat : n <= N => Good(n)}
<1>10. 0 \in T
  <2> DEFINE a == LittleEndian(Len(e.value), 2)
             w == Write(b, a)
  <2>1. a \in Seq(Byte) /\ Len(a) = 2
    BY <1>2, LittleEndianType
  <2>2. written[0] = Advance(w, 2)
    <3>1. 0 \in 0 .. N
      BY <1>2
    <3> QED
      BY <1>6, <3>1, Zenon DEF first
  <2> HIDE DEF a
  <2>3. Room(b, Len(a))
    <3>1. sum[0] <= sum[N] /\ sum[N] \in Nat
      <4>1. 0 \in 0 .. N /\ N \in 0 .. N
        BY <1>2
      <4> QED
        BY <1>7, <4>1
    <3>2. o + 2 <= Len(b.bytes)
      BY <1>7, <1>9, <3>1
    <3> QED
      BY <1>9, <2>1, <3>2, Zenon DEF Room
  <2>4. Wrote(b, w, a) /\ w.offset = o + 2
    <3>1. Wrote(b, w, a) /\ w.offset = o + Len(a)
      BY <2>1, <2>3, WriteIs, Zenon
    <3> QED
      BY <2>1, <3>1, Zenon
  <2> HIDE DEF w
  <2>5. /\ w \in Buffers /\ w.ok /\ Len(w.bytes) = Len(b.bytes)
        /\ \A j \in 1 .. o : w.bytes[j] = b.bytes[j]
    BY <2>4, Zenon DEF Wrote
  <2>6. /\ Advance(w, 2) = [ok |-> w.ok, bytes |-> w.bytes, offset |-> w.offset + 2]
        /\ Advance(w, 2) \in Buffers
    BY <2>5, AdvanceIs
  <2> DEFINE z == Advance(w, 2)
  <2>7. z.ok = w.ok /\ z.bytes = w.bytes /\ z.offset = w.offset + 2 /\ z \in Buffers
    BY <2>6
  <2> HIDE DEF z
  <2>8. \A j \in 1 .. Len(<<>>) : FALSE
    OBVIOUS
  <2>9. Wrote(b, z, <<>>)
    BY <2>5, <2>7, <2>8, Zenon DEF Wrote
  <2>10. z.offset = o + sum[0]
    BY <1>7, <1>9, <2>4, <2>7
  <2> QED
    BY <2>2, <2>9, <2>10, Zenon DEF z
<1>11. ASSUME NEW n \in Nat, n \in T PROVE n + 1 \in T
  <2>1. SUFFICES ASSUME n + 1 <= N PROVE Good(n + 1)
    OBVIOUS
  <2>2. /\ n < N /\ n <= N /\ n + 1 \in 1 .. N /\ n \in 0 .. N /\ n + 1 \in 0 .. N
        /\ n + 1 # 0 /\ (n + 1) - 1 = n
    BY <1>2, <2>1
  <2> DEFINE inner == inners[n + 1]
             c == written[n]
             part == serialize(Build(inner))
             d == FlatSerialize(inner, c)
             len == FlatLength(inner)
  <2>3. inner \in InnerEntries
    BY <1>2, <2>2, Zenon
  <2>4. Wrote(b, c, <<>>) /\ c.offset = o + sum[n]
    BY <1>11, <2>2
  <2>5. written[n + 1] = d
    BY <1>6, <2>2, Zenon
  <2>6. sum[n + 1] = sum[n] + len
    BY <1>7, <2>2, Zenon
  <2>7. sum[n] \in Nat /\ sum[n + 1] \in Nat /\ sum[n + 1] <= sum[N]
    BY <1>7, <2>2, Zenon
  <2>8. len \in Nat
    BY <2>3, FlatLengthIs
  <2> HIDE DEF inner, c, part, len
  <2>9. /\ c \in Buffers /\ c.ok /\ Len(c.bytes) = Len(b.bytes)
        /\ \A j \in 1 .. o : c.bytes[j] = b.bytes[j]
    BY <2>4, Zenon DEF Wrote
  <2>10. Room(c, FlatLength(inner))
    <3>1. (o + sum[n]) + len <= Len(b.bytes)
      <4>1. sum[N] \in Nat
        <5>1. N \in 0 .. N
          BY <1>2
        <5> QED
          BY <1>7, <5>1, Zenon
      <4> QED
        BY <1>9, <2>6, <2>7, <2>8, <4>1
    <3> QED
      BY <2>4, <2>9, <3>1 DEF Room, len
  <2>11. Wrote(c, d, part) /\ d.offset = c.offset + len
    BY <2>3, <2>9, <2>10, FlatIs, Zenon DEF part, len
  <2> HIDE DEF d
  <2>12. /\ d \in Buffers /\ d.ok /\ Len(d.bytes) = Len(c.bytes)
         /\ \A j \in 1 .. c.offset : d.bytes[j] = c.bytes[j]
    BY <2>11, Zenon DEF Wrote
  <2>13. \A j \in 1 .. o : d.bytes[j] = b.bytes[j]
    <3> TAKE j \in 1 .. o
    <3>1. j \in 1 .. c.offset
      BY <1>9, <2>4, <2>7
    <3> QED
      BY <2>9, <2>12, <3>1, Zenon
  <2>14. \A j \in 1 .. Len(<<>>) : FALSE
    OBVIOUS
  <2>15. Wrote(b, d, <<>>)
    BY <2>9, <2>12, <2>13, <2>14, Zenon DEF Wrote
  <2>16. d.offset = o + sum[n + 1]
    BY <1>9, <2>4, <2>6, <2>7, <2>8, <2>11
  <2> QED
    BY <2>5, <2>15, <2>16, Zenon
<1> HIDE DEF T
<1>12. N \in T
  BY <1>2, <1>10, <1>11, Induction
<1>13. N <= N
  BY <1>2
<1> QED
  BY <1>3, <1>12, <1>13, Zenon DEF T, v

\* What WriteValue does with the room there is for a value.
LEMMA ValueIs ==
  ASSUME NEW e \in ServerEntries, NEW b \in Buffers, Room(b, GetItemSize(e))
  PROVE  LET v == WriteValue(b, e, FlatSerialize)
             fits == e.type = TYPE_STRING => Room(b, Len(UTF8(e.value)))
         IN  /\ fits => Wrote(b, v, Placed(e))
             /\ ~fits => ~v.ok /\ v \in Buffers
<1> DEFINE v == WriteValue(b, e, FlatSerialize)
           fits == e.type = TYPE_STRING => Room(b, Len(UTF8(e.value)))
<1>1. /\ Placed(e) \in Seq(Byte)
      /\ e.type # TYPE_OBJECT_ARR => e \in PutEntries
      /\ e.type = TYPE_STRING => Placed(e) = UTF8(e.value)
  BY PlacedIs, Zenon
<1>2. CASE e.type = TYPE_OBJECT_ARR
  <2>1. Wrote(b, v, <<>>)
    BY <1>2, ArrayWritten, Zenon
  <2>2. Placed(e) = <<>> /\ e.type # TYPE_STRING
    BY <1>2, TypesDiffer, Zenon DEF Placed
  <2> QED
    BY <2>1, <2>2, Zenon
<1>3. CASE e.type = TYPE_STRING
  <2> DEFINE p == UTF8(e.value)
  <2>1. e.type \notin FixedTypes /\ e.type # TYPE_OBJECT /\ e.type # TYPE_OBJECT_ARR
    BY <1>3, TypesDiffer
  <2>2. v = Write(b, p)
    BY <1>3, <2>1, Zenon DEF WriteValue
  <2>3. p \in Seq(Byte) /\ Placed(e) = p
    BY <1>1, <1>3, Zenon
  <2> HIDE DEF p
  <2>4. /\ Room(b, Len(p)) => Wrote(b, Write(b, p), p)
        /\ ~Room(b, Len(p)) => ~Write(b, p).ok /\ Write(b, p) \in Buffers
    BY <2>3, WriteIs, Zenon
  <2> QED
    BY <1>3, <2>2, <2>3, <2>4, Zenon DEF p
<1>4. CASE e.type \in FixedTypes
  <2>1. e.type # TYPE_STRING /\ e.type # TYPE_OBJECT /\ e.type # TYPE_OBJECT_ARR
    BY <1>4, TypesDiffer
  <2> DEFINE p == LittleEndian(e.value, Width[e.type])
  <2>2. v = Write(b, p)
    BY <1>4, <2>1, Zenon DEF WriteValue
  <2>3. Placed(e) = p
    BY <1>4, <2>1, Zenon DEF Placed, Payload
  <2>4. Room(b, Len(p))
    <3>1. e.value \in Numbers
      BY <1>4, TypesDiffer DEF ServerEntries, PutEntries
    <3>2. e.value \in Nat /\ Width[e.type] \in Nat
      BY <1>4, <3>1, PutsType, TypesDiffer
    <3>3. Len(p) = Width[e.type]
      BY <3>2, LittleEndianType, Zenon
    <3> QED
      BY <1>4, <3>3, SizeIs, Zenon
  <2> HIDE DEF p
  <2>5. Wrote(b, Write(b, p), p)
    BY <1>1, <2>3, <2>4, WriteIs, Zenon
  <2> QED
    BY <2>1, <2>2, <2>3, <2>5, Zenon
<1>5. CASE e.type = TYPE_OBJECT
  <2>1. e.type # TYPE_STRING /\ e.type # TYPE_OBJECT_ARR /\ e.type \notin FixedTypes
    BY <1>5, TypesDiffer
  <2>2. v = FlatSerialize(e.value, b)
    BY <1>5, <2>1, Zenon DEF WriteValue
  <2>3. Placed(e) = serialize(Build(e.value))
    BY <2>1, Zenon DEF Placed, Payload
  <2>4. e.value \in InnerEntries
    BY <1>5, TypesDiffer DEF ServerEntries, PutEntries
  <2>5. GetItemSize(e) = FlatLength(e.value)
    BY <1>5, <2>1, Zenon DEF GetItemSize, ItemSize
  <2>6. Wrote(b, FlatSerialize(e.value, b), serialize(Build(e.value)))
    BY <2>4, <2>5, FlatIs, Zenon
  <2> QED
    BY <2>1, <2>2, <2>3, <2>6, Zenon
<1>6. e.type \in FixedTypes \/ e.type = TYPE_STRING \/ e.type = TYPE_OBJECT
        \/ e.type = TYPE_OBJECT_ARR
  BY DEF ServerEntries, PutEntries
<1> QED
  BY <1>2, <1>3, <1>4, <1>5, <1>6, Zenon

\* One turn of Serialize's loop.
LEMMA ItemWritten ==
  ASSUME NEW e \in ServerEntries, NEW b \in Buffers
  PROVE  LET c == WriteItem(b, e, FlatLength, FlatSerialize)
             size == GetItemSize(e)
         IN  /\ ~b.ok => c = b
             /\ Room(b, 8 + size) =>
                  /\ c \in Buffers
                  /\ c.ok <=> (e.type = TYPE_STRING => Room(b, 8 + Len(UTF8(e.value))))
                  /\ c.ok => /\ Wrote(b, c, Header(e.key, e.type, size) \o Kept(e))
                             /\ c.offset = b.offset + (8 + size)
<1> DEFINE c == WriteItem(b, e, FlatLength, FlatSerialize)
           size == GetItemSize(e)
           h == Header(e.key, e.type, size)
           start == Write(b, h)
           v == WriteValue(start, e, FlatSerialize)
           x == start.offset + size
           p == Placed(e)
           k == Kept(e)
<1>1. c = IF ~start.ok THEN start ELSE [v EXCEPT !.offset = x]
  BY Zenon DEF WriteItem, GetItemSize, Header
<1>2. /\ size \in Nat /\ e.key \in Nat /\ e.type \in Nat
  BY SizeIs, SMT DEF Short
<1>3. h \in Seq(Byte) /\ Len(h) = 8
  BY <1>2, HeaderType, Zenon
<1>4. /\ p \in Seq(Byte) /\ Len(p) \in Nat /\ k \in Seq(Byte) /\ Len(k) \in Nat
      /\ Len(k) <= Len(p) /\ \A j \in 1 .. Len(k) : k[j] = p[j]
      /\ e.type = TYPE_STRING => p = UTF8(e.value)
  BY PlacedIs, Zenon
<1>5. ~b.ok => start = b
  BY <1>3, WriteIs, Zenon
<1>6. ~b.ok => c = b
  BY <1>1, <1>5, Zenon
<1> HIDE DEF c, start, v, x, h, p, k
<1>7. ASSUME Room(b, 8 + size)
      PROVE  /\ c \in Buffers
             /\ c.ok <=> (e.type = TYPE_STRING => Room(b, 8 + Len(UTF8(e.value))))
             /\ c.ok => Wrote(b, c, h \o k) /\ c.offset = b.offset + (8 + size)
  <2>1. Room(b, Len(h) + size)
    BY <1>3, <1>7, Zenon
  <2>2. Room(b, Len(h))
    BY <1>2, <1>3, <2>1, RoomOn
  <2>3. Wrote(b, start, h) /\ start.offset = b.offset + Len(h)
    BY <1>3, <2>2, WriteIs DEF start
  <2>4. Room(start, size)
    BY <1>2, <1>3, <2>1, <2>3, RoomOn
  <2>5. start \in Buffers /\ start.ok /\ Len(start.bytes) = Len(b.bytes)
    BY <2>3, Zenon DEF Wrote
  <2>6. b.offset \in Nat /\ start.offset = b.offset + 8
    BY <1>3, <2>3 DEF Buffers
  <2>7. x \in Nat /\ x = b.offset + (8 + size)
    BY <1>2, <2>6 DEF x
  <2>8. c = [v EXCEPT !.offset = x]
    BY <1>1, <2>5, Zenon
  <2> DEFINE fits == e.type = TYPE_STRING => Room(start, Len(UTF8(e.value)))
  <2>9. /\ fits => Wrote(start, v, p)
        /\ ~fits => ~v.ok /\ v \in Buffers
    BY <2>4, <2>5, ValueIs, Zenon DEF v, p
  <2>10. fits <=> (e.type = TYPE_STRING => Room(b, 8 + Len(UTF8(e.value))))
    <3>1. ASSUME e.type = TYPE_STRING
          PROVE  Room(start, Len(UTF8(e.value))) <=> Room(b, 8 + Len(UTF8(e.value)))
      <4> DEFINE n == Len(UTF8(e.value))
      <4>1. n \in Nat
        BY <1>4, <3>1, Zenon
      <4> HIDE DEF n
      <4>2. b.offset + (8 + n) = start.offset + n
        BY <2>6, <4>1
      <4>3. b.ok
        BY <1>7, Zenon DEF Room
      <4> QED
        BY <2>5, <4>2, <4>3, Zenon DEF Room, n
    <3> QED
      BY <3>1, Zenon
  <2>11. ASSUME fits
         PROVE  /\ c \in Buffers /\ c.ok /\ Wrote(b, c, h \o k)
                /\ c.offset = b.offset + (8 + size)
    <3>1. Wrote(start, v, p)
      BY <2>9, <2>11, Zenon
    <3>2. \A j \in 1 .. Len(k) : j \in 1 .. Len(p)
      BY <1>4
    <3>3. Wrote(start, v, k)
      BY <1>4, <3>1, <3>2, Zenon DEF Wrote
    <3>4. Wrote(b, v, h \o k)
      BY <1>3, <1>4, <2>3, <2>5, <3>3, WroteOn
    <3> DEFINE hk == h \o k
    <3>5. Wrote(b, v, hk)
      BY <3>4
    <3> HIDE DEF hk
    <3>6. Wrote(b, [v EXCEPT !.offset = x], hk) /\ [v EXCEPT !.offset = x].offset = x
      BY <2>7, <3>5, WroteAt
    <3>7. Wrote(b, c, hk) /\ c.offset = x
      BY <2>8, <3>6, Zenon
    <3> QED
      BY <2>7, <3>7, Zenon DEF hk, Wrote
  <2>12. ASSUME ~fits PROVE c \in Buffers /\ ~c.ok
    <3>1. ~v.ok /\ v \in Buffers
      BY <2>9, <2>12, Zenon
    <3>2. c = [ok |-> v.ok, bytes |-> v.bytes, offset |-> x]
      BY <2>8, <3>1, BufferWith, Zenon
    <3> QED
      BY <2>7, <3>1, <3>2 DEF Buffers
  <2> QED
    BY <2>10, <2>11, <2>12, Zenon
<1> QED
  BY <1>6, <1>7, Zenon DEF c, h, k

\* Encoded is its loop.
LEMMA EncodedIs ==
  ASSUME NEW E, Len(E) \in Nat
  PROVE  \E w :
           /\ w[0] = Write(Buffer(SerializedLength(E)), LittleEndian(Len(E), 2))
           /\ \A n \in Nat : n < Len(E) =>
                 w[n + 1] = WriteItem(w[n], E[n + 1], FlatLength, FlatSerialize)
           /\ Encoded(E) = w[Len(E)]
<1> DEFINE b == Buffer(SerializedLength(E))
           first == Write(b, LittleEndian(Len(E), 2))
           written[n \in 0 .. Len(E)] ==
             IF n = 0 THEN first
             ELSE WriteItem(written[n - 1], E[n], FlatLength, FlatSerialize)
<1>1. FiniteNatInductiveDefHypothesis(written, first,
         LAMBDA v, n : WriteItem(v, E[n], FlatLength, FlatSerialize), 0, Len(E))
  BY DEF FiniteNatInductiveDefHypothesis
<1>2. Encoded(E) = written[Len(E)]
  BY Zenon DEF Encoded, Serialize, SerializeWith
<1> HIDE DEF written, first
<1>3. FiniteNatInductiveDefConclusion(written, first,
         LAMBDA v, n : WriteItem(v, E[n], FlatLength, FlatSerialize), 0, Len(E))
  BY <1>1, FiniteNatInductiveDef
<1>4. written = [n \in 0 .. Len(E) |->
             IF n = 0 THEN first
             ELSE WriteItem(written[n - 1], E[n], FlatLength, FlatSerialize)]
  BY <1>3 DEF FiniteNatInductiveDefConclusion
<1>5. written[0] = first
  <2>1. 0 \in 0 .. Len(E)
    OBVIOUS
  <2> QED
    BY <1>4, <2>1, Zenon
<1>6. ASSUME NEW n \in Nat, n < Len(E)
      PROVE  written[n + 1] = WriteItem(written[n], E[n + 1], FlatLength, FlatSerialize)
  <2>1. n + 1 \in 0 .. Len(E) /\ n + 1 # 0 /\ (n + 1) - 1 = n
    BY <1>6
  <2> QED
    BY <1>4, <2>1, Zenon
<1> QED
  BY <1>2, <1>5, <1>6, Zenon DEF first

\* The bytes of a property that what is behind it leaves alone.
Part(e) == Header(e.key, e.type, GetItemSize(e)) \o Kept(e)

\* A property's part: its header and what is kept of its value.
LEMMA PartIs ==
  ASSUME NEW e \in ServerEntries
  PROVE  /\ Part(e) \in Seq(Byte) /\ Len(Part(e)) \in Nat
         /\ Len(Part(e)) = 8 + Len(Kept(e)) /\ Len(Part(e)) <= 8 + GetItemSize(e)
         /\ \A j \in 1 .. 8 : Part(e)[j] = Header(e.key, e.type, GetItemSize(e))[j]
         /\ \A j \in 1 .. Len(Kept(e)) : Part(e)[8 + j] = Kept(e)[j]
<1> DEFINE h == Header(e.key, e.type, GetItemSize(e))
           k == Kept(e)
           size == GetItemSize(e)
<1>1. size \in Nat /\ e.key \in Nat /\ e.type \in Nat
  BY SizeIs, SMT DEF Short
<1>2. h \in Seq(Byte) /\ Len(h) = 8
  BY <1>1, HeaderType, Zenon
<1>3. k \in Seq(Byte) /\ Len(k) \in Nat /\ Len(k) <= size
  BY PlacedIs, Zenon
<1> HIDE DEF h, k, size
<1>4. /\ h \o k \in Seq(Byte) /\ Len(h \o k) = Len(h) + Len(k)
      /\ \A j \in 1 .. Len(h) : (h \o k)[j] = h[j]
      /\ \A j \in 1 .. Len(k) : (h \o k)[Len(h) + j] = k[j]
  BY <1>2, <1>3, JoinedAt
<1>5. Part(e) = h \o k
  BY Zenon DEF Part, h, k, size
<1>6. Len(h) + Len(k) = 8 + Len(k) /\ 8 + Len(k) \in Nat /\ 8 + Len(k) <= 8 + size
  BY <1>1, <1>2, <1>3
<1> QED
  BY <1>2, <1>4, <1>5, <1>6, Zenon DEF h, k, size

\* No string from here runs past the end.
StringFits(E, sum, n) ==
    E[n + 1].type = TYPE_STRING =>
        sum[n] + (8 + Len(UTF8(E[n + 1].value))) <= sum[Len(E)]

\* What is in the buffer after n turns.
Filled(E, sum, n, bytes) ==
    /\ Len(bytes) = sum[Len(E)]
    /\ \A j \in 1 .. 2 : bytes[j] = LittleEndian(Len(E), 2)[j]
    /\ \A i \in Nat : i < n =>
          \A j \in 1 .. Len(Part(E[i + 1])) : bytes[sum[i] + j] = Part(E[i + 1])[j]

\* A turn leaves what is before its property, fills the property's place, and
\* throws for nothing but a string that runs past the end.
LEMMA TurnFills ==
  ASSUME NEW E \in Seq(ServerEntries), NEW sum, Sums(E, sum), NEW n \in Nat, n < Len(E),
         NEW b \in Buffers, b.ok, b.offset = sum[n], Filled(E, sum, n, b.bytes),
         \A i \in Nat : i < n => sum[i + 1] <= sum[n]
  PROVE  LET c == WriteItem(b, E[n + 1], FlatLength, FlatSerialize)
         IN  /\ c \in Buffers
             /\ c.ok <=> StringFits(E, sum, n)
             /\ c.ok => c.offset = sum[n + 1] /\ Filled(E, sum, n + 1, c.bytes)
             /\ \A i \in Nat : i < n + 1 => sum[i + 1] <= sum[n + 1]
<1> DEFINE e == E[n + 1]
           size == GetItemSize(e)
           c == WriteItem(b, E[n + 1], FlatLength, FlatSerialize)
           total == sum[Len(E)]
           p == Part(e)
           len == Len(UTF8(e.value))
<1>1. Len(E) \in Nat
  OBVIOUS
<1>2. e \in ServerEntries /\ sum[n + 1] = sum[n] + 8 + size
  BY Zenon DEF Sums
<1>3. /\ \A i \in 0 .. Len(E) : sum[i] \in Nat /\ sum[i] >= 2 /\ sum[i] <= total
  BY Zenon DEF Sums
<1>4. n \in 0 .. Len(E) /\ n + 1 \in 0 .. Len(E) /\ Len(E) \in 0 .. Len(E)
  BY <1>1
<1>5. sum[n] \in Nat /\ sum[n] >= 2 /\ sum[n + 1] \in Nat /\ sum[n + 1] <= total /\ total \in Nat
  BY <1>3, <1>4, Zenon
<1>6. size \in Nat
  BY <1>2, SizeIs, Zenon
<1>7. /\ Len(p) \in Nat /\ Len(p) <= 8 + size /\ p = Header(e.key, e.type, size) \o Kept(e)
  BY <1>2, PartIs, Zenon DEF Part
<1>8. /\ Len(b.bytes) = total /\ \A j \in 1 .. 2 : b.bytes[j] = LittleEndian(Len(E), 2)[j]
      /\ \A i \in Nat : i < n =>
            \A j \in 1 .. Len(Part(E[i + 1])) : b.bytes[sum[i] + j] = Part(E[i + 1])[j]
  BY Zenon DEF Filled
<1> DEFINE fits == e.type = TYPE_STRING => Room(b, 8 + len)
<1>9. /\ Room(b, 8 + size) =>
           /\ c \in Buffers
           /\ c.ok <=> fits
           /\ c.ok => Wrote(b, c, p) /\ c.offset = b.offset + (8 + size)
  BY <1>2, <1>7, ItemWritten, Zenon
<1> HIDE DEF c, p, size, total, len, e
<1>10. Room(b, 8 + size)
  <2>1. sum[n] + (8 + size) <= total
    BY <1>2, <1>5, <1>6
  <2> QED
    BY <1>8, <2>1, Zenon DEF Room
<1>11. fits <=> StringFits(E, sum, n)
  BY <1>8, Zenon DEF Room, StringFits, total, len, e
<1>12. \A i \in Nat : i < n + 1 => sum[i + 1] <= sum[n + 1]
  <2> TAKE i \in Nat
  <2>1. HAVE i < n + 1
  <2>2. CASE i < n
    <3>1. sum[i + 1] <= sum[n] /\ sum[i + 1] \in Nat
      <4>1. i + 1 \in 0 .. Len(E)
        BY <1>1, <2>2
      <4> QED
        BY <1>3, <2>2, <4>1
    <3> QED
      BY <1>2, <1>5, <1>6, <3>1
  <2>3. CASE ~(i < n)
    <3>1. i + 1 = n + 1
      BY <2>1, <2>3
    <3> QED
      BY <1>5, <3>1
  <2> QED
    BY <2>2, <2>3
<1>13. ASSUME c.ok PROVE c.offset = sum[n + 1] /\ Filled(E, sum, n + 1, c.bytes)
  <2>1. /\ Wrote(b, c, p) /\ c.offset = b.offset + (8 + size)
    BY <1>9, <1>10, <1>13
  <2>2. c.offset = sum[n + 1]
    <3>1. sum[n] + (8 + size) = sum[n + 1]
      BY <1>2, <1>5, <1>6
    <3> QED
      BY <2>1, <3>1, Zenon
  <2>3. /\ Len(c.bytes) = total
        /\ \A j \in 1 .. b.offset : c.bytes[j] = b.bytes[j]
        /\ \A j \in 1 .. Len(p) : c.bytes[b.offset + j] = p[j]
    BY <1>8, <2>1, Zenon DEF Wrote
  <2>4. \A j \in 1 .. 2 : c.bytes[j] = LittleEndian(Len(E), 2)[j]
    <3>1. \A j \in 1 .. 2 : j \in 1 .. b.offset
      BY <1>5
    <3> QED
      BY <1>8, <2>3, <3>1, Zenon
  <2>5. ASSUME NEW i \in Nat, i < n + 1, NEW j \in 1 .. Len(Part(E[i + 1]))
        PROVE  c.bytes[sum[i] + j] = Part(E[i + 1])[j]
    <3>1. CASE i < n
      <4> DEFINE len2 == Len(Part(E[i + 1]))
                 size2 == GetItemSize(E[i + 1])
      <4>1. i < Len(E) /\ i \in 0 .. Len(E) /\ i + 1 \in 0 .. Len(E)
        BY <1>1, <3>1
      <4>2. E[i + 1] \in ServerEntries /\ sum[i + 1] = sum[i] + 8 + size2
        BY <4>1, Zenon DEF Sums
      <4>3. len2 \in Nat /\ len2 <= 8 + size2 /\ size2 \in Nat
        BY <4>2, PartIs, SizeIs, Zenon
      <4>4. sum[i] \in Nat /\ sum[i + 1] <= sum[n]
        BY <1>3, <3>1, <4>1
      <4>5. j \in 1 .. len2
        OBVIOUS
      <4> HIDE DEF len2, size2
      <4>6. sum[i] + j \in 1 .. b.offset
        <5> DEFINE x == sum[i]
                   y == sum[i + 1]
                   z == sum[n]
        <5>1. x \in Nat /\ y = x + 8 + size2 /\ y <= z /\ z \in Nat /\ b.offset = z
          BY <1>5, <4>2, <4>4
        <5> HIDE DEF x, y, z
        <5>2. x + j \in 1 .. z
          BY <4>3, <4>5, <5>1
        <5> QED
          BY <5>1, <5>2, Zenon DEF x
      <4>7. b.bytes[sum[i] + j] = Part(E[i + 1])[j]
        BY <1>8, <3>1, Zenon
      <4> QED
        BY <2>3, <4>6, <4>7, Zenon
    <3>2. CASE ~(i < n)
      <4>1. i = n
        BY <2>5, <3>2
      <4> QED
        BY <2>3, <2>5, <4>1, Zenon DEF p, e
    <3> QED
      BY <3>1, <3>2
  <2>6. Filled(E, sum, n + 1, c.bytes)
    BY <2>3, <2>4, <2>5, Zenon DEF Filled, total
  <2> QED
    BY <2>2, <2>6
<1> QED
  BY <1>9, <1>10, <1>11, <1>12, <1>13, Zenon DEF c

\* A buffer of zeros.
LEMMA BufferIs ==
  ASSUME NEW n \in Nat
  PROVE  /\ Buffer(n) \in Buffers /\ Buffer(n).ok /\ Buffer(n).offset = 0
         /\ Len(Buffer(n).bytes) = n
<1> DEFINE zeros == [i \in 1 .. n |-> 0]
<1>1. zeros \in Seq(Byte) /\ Len(zeros) = n
  <2>1. 0 \in Byte
    BY DEF Byte
  <2>2. zeros \in [1 .. n -> Byte]
    BY <2>1
  <2> HIDE DEF zeros
  <2> QED
    BY <2>2
<1>2. Buffer(n) = [ok |-> TRUE, bytes |-> zeros, offset |-> 0]
  BY Zenon DEF Buffer
<1> HIDE DEF zeros
<1> QED
  BY <1>1, <1>2 DEF Buffers

\* The writer gets through unless a string runs past the end, and then it has
\* filled the buffer to its end.
LEMMA EncodedFills ==
  ASSUME NEW E \in Seq(ServerEntries), NEW sum, Sums(E, sum)
  PROVE  /\ Encoded(E) \in Buffers
         /\ Encoded(E).ok <=> \A n \in Nat : n < Len(E) => StringFits(E, sum, n)
         /\ Encoded(E).ok => Filled(E, sum, Len(E), Encoded(E).bytes)
<1> DEFINE N == Len(E)
           total == sum[N]
           b == Buffer(total)
           a == LittleEndian(N, 2)
           next(c, n) == WriteItem(c, E[n + 1], FlatLength, FlatSerialize)
<1>1. N \in Nat
  OBVIOUS
<1>2. sum[0] = 2 /\ total = SerializedLength(E) /\ total \in Nat /\ total >= 2
  <2>1. N \in 0 .. N
    BY <1>1
  <2> QED
    BY <2>1, Zenon DEF Sums
<1>3. PICK w :
        /\ w[0] = Write(b, a)
        /\ \A n \in Nat : n < N => w[n + 1] = next(w[n], n)
        /\ Encoded(E) = w[N]
  <2>1. b = Buffer(SerializedLength(E))
    BY <1>2, Zenon
  <2> QED
    BY <1>1, <2>1, EncodedIs, Zenon
<1> HIDE DEF next
<1> DEFINE Fit(n) == \A i \in Nat : i < n => StringFits(E, sum, i)
           Good(n) == /\ w[n] \in Buffers
                      /\ w[n].ok <=> Fit(n)
                      /\ w[n].ok => w[n].offset = sum[n] /\ Filled(E, sum, n, w[n].bytes)
                      /\ \A i \in Nat : i < n => sum[i + 1] <= sum[n]
           T == {n \in Nat : n <= N => Good(n)}
<1>4. 0 \in T
  <2>1. a \in Seq(Byte) /\ Len(a) = 2
    BY <1>1, LittleEndianType
  <2>2. b \in Buffers /\ b.ok /\ b.offset = 0 /\ Len(b.bytes) = total
    BY <1>2, BufferIs
  <2> HIDE DEF a, b, total
  <2>3. Room(b, Len(a))
    <3>1. 0 + 2 <= total
      BY <1>2
    <3> QED
      BY <2>1, <2>2, <3>1, Zenon DEF Room
  <2> DEFINE c == Write(b, a)
  <2>4. Wrote(b, c, a) /\ c.offset = b.offset + Len(a)
    BY <2>1, <2>2, <2>3, WriteIs, Zenon
  <2> HIDE DEF c
  <2>5. /\ c \in Buffers /\ c.ok /\ Len(c.bytes) = Len(b.bytes)
        /\ \A j \in 1 .. Len(a) : c.bytes[b.offset + j] = a[j]
    BY <2>4, Zenon DEF Wrote
  <2>6. c.offset = sum[0]
    BY <1>2, <2>1, <2>2, <2>4
  <2>7. \A j \in 1 .. 2 : c.bytes[j] = a[j]
    <3> TAKE j \in 1 .. 2
    <3>1. 0 + j = j
      OBVIOUS
    <3> QED
      BY <2>1, <2>2, <2>5, <3>1, Zenon
  <2>8. \A i \in Nat : ~(i < 0)
    OBVIOUS
  <2>9. Filled(E, sum, 0, c.bytes)
    BY <2>2, <2>5, <2>7, <2>8, Zenon DEF Filled, a, total
  <2>10. w[0] = c
    BY <1>3, Zenon DEF c
  <2> QED
    BY <2>5, <2>6, <2>8, <2>9, <2>10, Zenon
<1>5. ASSUME NEW n \in Nat, n < N, Good(n) PROVE Good(n + 1)
  <2>1. n + 1 <= N
    BY <1>1, <1>5
  <2>2. n < N /\ n <= N
    BY <1>1, <1>5
  <2> DEFINE c == w[n]
             d == next(c, n)
             e == E[n + 1]
  <2>3. Good(n)
    BY <1>5, Zenon
  <2>4. w[n + 1] = d
    BY <1>3, <2>2, Zenon
  <2>5. ASSUME c.ok
        PROVE  /\ d \in Buffers
               /\ d.ok <=> StringFits(E, sum, n)
               /\ d.ok => d.offset = sum[n + 1] /\ Filled(E, sum, n + 1, d.bytes)
               /\ \A i \in Nat : i < n + 1 => sum[i + 1] <= sum[n + 1]
    <3>1. c \in Buffers /\ c.offset = sum[n] /\ Filled(E, sum, n, c.bytes)
          /\ \A i \in Nat : i < n => sum[i + 1] <= sum[n]
      BY <2>3, <2>5, Zenon
    <3> HIDE DEF c
    <3> QED
      BY <2>2, <2>5, <3>1, TurnFills, Zenon DEF next
  <2>6. Fit(n + 1) <=> Fit(n) /\ StringFits(E, sum, n)
    <3>1. \A i \in Nat : i < n + 1 <=> i < n \/ i = n
      OBVIOUS
    <3> QED
      BY <3>1, Zenon
  <2>7. CASE c.ok
    BY <2>3, <2>4, <2>5, <2>6, <2>7, Zenon
  <2>8. CASE ~c.ok
    <3>1. e \in ServerEntries
      BY <2>2, Zenon DEF Sums
    <3>2. d = c
      BY <2>3, <2>8, <3>1, ItemWritten, Zenon DEF next
    <3>3. \A i \in Nat : i < n + 1 => sum[i + 1] <= sum[n + 1]
      <4> TAKE i \in Nat
      <4>1. HAVE i < n + 1
      <4>2. /\ i + 1 \in 0 .. N /\ n + 1 \in 0 .. N /\ n \in 0 .. N
            /\ (i < n \/ i = n)
        BY <1>1, <2>1, <4>1
      <4>3. /\ sum[i + 1] \in Nat /\ sum[n + 1] \in Nat /\ sum[n] \in Nat
        BY <4>2, Zenon DEF Sums
      <4>4. sum[n + 1] = sum[n] + 8 + GetItemSize(e) /\ GetItemSize(e) \in Nat
        BY <2>2, <3>1, SizeIs, Zenon DEF Sums
      <4>5. CASE i < n
        <5>1. sum[i + 1] <= sum[n]
          BY <2>3, <4>5, Zenon
        <5> QED
          BY <4>3, <4>4, <5>1
      <4>6. CASE i = n
        BY <4>3, <4>6
      <4> QED
        BY <4>2, <4>5, <4>6
    <3> QED
      BY <2>3, <2>4, <2>6, <2>8, <3>2, <3>3, Zenon
  <2> QED
    BY <2>7, <2>8
<1> HIDE DEF Good
<1>6. N \in T
  <2>1. \A n \in Nat : n \in T => n + 1 \in T
    <3> TAKE n \in Nat
    <3>1. HAVE n \in T
    <3>2. n + 1 <= N => n < N /\ n <= N
      BY <1>1
    <3> QED
      BY <1>5, <3>1, <3>2
  <2> HIDE DEF T
  <2> QED
    BY <1>1, <1>4, <2>1, Induction
<1>7. Good(N)
  <2>1. N <= N
    BY <1>1
  <2> QED
    BY <1>6, <2>1, Zenon
<1> QED
  BY <1>3, <1>7, Zenon DEF Good

-----------------------------------------------------------------------------
(* The server's bytes are those of a well-formed message.                     *)

\* Bytes laid out as a message's are the message's.
LEMMA LaidOut ==
  ASSUME NEW m, Counted(m), NEW bytes \in Seq(Byte), NEW place, Laid(m, bytes, place),
         \A j \in 1 .. 2 : bytes[j] = LittleEndian(Len(m.next), 2)[j]
  PROVE  serialize(m) = bytes
<1> DEFINE its == serialize(m)
           N == Len(m.next)
           L == Len(bytes)
<1>1. /\ its \in Seq(Byte) /\ Len(its) \in Nat /\ N \in Nat
      /\ \A j \in 1 .. 2 : its[j] = LittleEndian(N, 2)[j]
      /\ \E p : Laid(m, its, p)
  BY LayoutOf, Zenon
<1>2. PICK p : Laid(m, its, p)
  BY <1>1, Zenon
<1> HIDE DEF its
<1>3. /\ p[0] = 2 /\ p[N] = Len(its)
      /\ \A n \in Nat : n < N =>
            /\ p[n + 1] = p[n] + Len(BytesOf(m.next[n + 1]))
            /\ \A j \in 1 .. Len(BytesOf(m.next[n + 1])) :
                  its[p[n] + j] = BytesOf(m.next[n + 1])[j]
  BY <1>2, Zenon DEF Laid
<1>4. /\ place[0] = 2 /\ place[N] = L
      /\ \A n \in 0 .. N : place[n] \in Nat
      /\ \A n \in Nat : n < N =>
            /\ m.next[n + 1] \in Items
            /\ place[n + 1] = place[n] + Len(BytesOf(m.next[n + 1]))
            /\ \A j \in 1 .. Len(BytesOf(m.next[n + 1])) :
                  bytes[place[n] + j] = BytesOf(m.next[n + 1])[j]
  BY Zenon DEF Laid
<1>5. L \in Nat
  OBVIOUS
<1> HIDE DEF N
<1> DEFINE Good(n) == p[n] = place[n] /\ \A j \in 1 .. place[n] : its[j] = bytes[j]
<1>6. Good(0)
  <2>1. \A j \in 1 .. 2 : its[j] = bytes[j]
    BY <1>1, Zenon DEF N
  <2> QED
    BY <1>3, <1>4, <2>1, Zenon
<1>7. ASSUME NEW n \in Nat, n < N, Good(n) PROVE Good(n + 1)
  <2> DEFINE part == BytesOf(m.next[n + 1])
             k == Len(part)
             o == place[n]
  <2>1. /\ m.next[n + 1] \in Items
        /\ place[n + 1] = o + k /\ \A j \in 1 .. k : bytes[o + j] = part[j]
    BY <1>4, <1>7, Zenon
  <2>2. p[n + 1] = o + k /\ \A j \in 1 .. k : its[o + j] = part[j]
    BY <1>3, <1>7, Zenon
  <2>3. k \in Nat
    BY <2>1, BytesOfType
  <2>4. o \in Nat
    <3>1. n \in 0 .. N
      BY <1>1, <1>7
    <3> QED
      BY <1>4, <3>1, Zenon
  <2>5. \A j \in 1 .. o : its[j] = bytes[j]
    BY <1>7, Zenon
  <2> HIDE DEF part, k, o
  <2>6. \A j \in 1 .. o + k : its[j] = bytes[j]
    <3> TAKE j \in 1 .. o + k
    <3>1. CASE j \in 1 .. o
      BY <2>5, <3>1, Zenon
    <3>2. CASE j \notin 1 .. o
      <4>1. j - o \in 1 .. k /\ o + (j - o) = j
        BY <2>3, <2>4, <3>2
      <4>2. its[o + (j - o)] = part[j - o] /\ bytes[o + (j - o)] = part[j - o]
        BY <2>1, <2>2, <4>1, Zenon
      <4> QED
        BY <4>1, <4>2, Zenon
    <3> QED
      BY <3>1, <3>2
  <2> QED
    BY <2>1, <2>2, <2>6, Zenon
<1> HIDE DEF Good
<1> DEFINE T == {n \in Nat : n <= N => Good(n)}
<1>8. N \in T
  <2>1. 0 \in T
    BY <1>6
  <2>2. \A n \in Nat : n \in T => n + 1 \in T
    <3> TAKE n \in Nat
    <3>1. HAVE n \in T
    <3>2. n + 1 <= N => n < N /\ n <= N
      BY <1>1
    <3> QED
      BY <1>7, <3>1, <3>2
  <2> HIDE DEF T
  <2> QED
    BY <1>1, <2>1, <2>2, Induction
<1>9. Good(N)
  <2>1. N <= N
    BY <1>1
  <2> QED
    BY <1>8, <2>1, Zenon
<1>10. Len(its) = L /\ \A j \in 1 .. L : its[j] = bytes[j]
  BY <1>3, <1>4, <1>9, Zenon DEF Good
<1> HIDE DEF L
<1>11. its = bytes
  BY <1>1, <1>10 DEF L
<1> QED
  BY <1>11 DEF its

\* A property's payload in the server's bytes: as long as its room.
PayloadOf(E, sum, bytes, i) == Slice(bytes, sum[i - 1] + 8, GetItemSize(E[i]))

\* At o is the entry's header, and behind it this payload.
PayloadAt(bytes, o, e, pay) ==
    /\ pay \in Seq(Byte) /\ Len(pay) = GetItemSize(e)
    /\ \A j \in 1 .. GetItemSize(e) : pay[j] = bytes[(o + 8) + j]
    /\ e.type # TYPE_OBJECT_ARR => pay = Kept(e)
    /\ \A j \in 1 .. 8 : bytes[o + j] = Header(e.key, e.type, GetItemSize(e))[j]

\* So it is for every property in the filled buffer.
LEMMA PayloadIs ==
  ASSUME NEW E \in Seq(ServerEntries), NEW sum, Sums(E, sum), NEW bytes \in Seq(Byte),
         Filled(E, sum, Len(E), bytes), NEW n \in Nat, n < Len(E)
  PROVE  PayloadAt(bytes, sum[n], E[n + 1], PayloadOf(E, sum, bytes, n + 1))
<1> DEFINE e == E[n + 1]
           size == GetItemSize(e)
           o == sum[n]
           pay == PayloadOf(E, sum, bytes, n + 1)
           N == Len(E)
           total == sum[N]
<1>1. N \in Nat /\ n \in 0 .. N /\ n + 1 \in 0 .. N /\ (n + 1) - 1 = n
  <2>1. N \in Nat
    OBVIOUS
  <2> QED
    BY <2>1
<1>2. e \in ServerEntries /\ sum[n + 1] = o + 8 + size
  BY Zenon DEF Sums
<1>3. o \in Nat /\ sum[n + 1] <= total /\ sum[n + 1] \in Nat
  BY <1>1, Zenon DEF Sums
<1>4. size \in Nat
  BY <1>2, SizeIs, Zenon
<1>5. pay = Slice(bytes, o + 8, size)
  BY <1>1, Zenon DEF PayloadOf
<1>6. Len(bytes) = total /\ \A j \in 1 .. Len(Part(e)) : bytes[o + j] = Part(e)[j]
  BY Zenon DEF Filled
<1>7. /\ Len(Part(e)) = 8 + Len(Kept(e)) /\ Len(Part(e)) \in Nat
      /\ \A j \in 1 .. 8 : Part(e)[j] = Header(e.key, e.type, size)[j]
      /\ \A j \in 1 .. Len(Kept(e)) : Part(e)[8 + j] = Kept(e)[j]
  BY <1>2, PartIs, Zenon
<1>8. /\ Kept(e) \in Seq(Byte) /\ Len(Kept(e)) \in Nat
      /\ e.type # TYPE_OBJECT_ARR => Len(Kept(e)) = size
  BY <1>2, PlacedIs, Zenon
<1> HIDE DEF e, size, o, pay, N, total
<1>9. (o + 8) + size <= total /\ o + 8 \in Nat
  BY <1>2, <1>3, <1>4
<1>10. /\ pay \in Seq(Byte) /\ Len(pay) = size
       /\ \A j \in 1 .. size : pay[j] = bytes[(o + 8) + j]
  <2>1. Has(bytes, o + 8, size)
    BY <1>6, <1>9, Zenon DEF Has
  <2> QED
    BY <1>4, <1>5, <1>9, <2>1, SliceIs, Zenon
<1>11. \A j \in 1 .. 8 : bytes[o + j] = Header(e.key, e.type, size)[j]
  <2> TAKE j \in 1 .. 8
  <2>1. j \in 1 .. Len(Part(e))
    BY <1>7, <1>8
  <2> QED
    BY <1>6, <1>7, <2>1, Zenon
<1>12. ASSUME e.type # TYPE_OBJECT_ARR PROVE pay = Kept(e)
  <2>1. Len(Kept(e)) = size
    BY <1>8, <1>12
  <2>2. ASSUME NEW j \in 1 .. size PROVE pay[j] = Kept(e)[j]
    <3>1. 8 + j \in 1 .. Len(Part(e)) /\ (o + 8) + j = o + (8 + j) /\ j \in 1 .. Len(Kept(e))
      BY <1>3, <1>4, <1>7, <2>1
    <3>2. bytes[o + (8 + j)] = Part(e)[8 + j] /\ Part(e)[8 + j] = Kept(e)[j]
      BY <1>6, <1>7, <3>1, Zenon
    <3> QED
      BY <1>10, <3>1, <3>2, Zenon
  <2> QED
    BY <1>8, <1>10, <2>1, <2>2
<1> QED
  BY <1>10, <1>11, <1>12, Zenon DEF PayloadAt, e, pay, size, o

\* The server's bytes as a message.
ServerItem(E, sum, bytes, i) == Item(E[i].key, E[i].type, PayloadOf(E, sum, bytes, i))

\* Read as a message, the properties are in the order of the puts.
ServerMsg(E, sum, bytes) ==
    [next |-> [i \in 1 .. Len(E) |-> ServerItem(E, sum, bytes, i)],
     property_count |-> Len(E),
     property_payload_total_length |-> sum[Len(E)] - (2 + 8 * Len(E))]

\* At o are the bytes of this item, which is the entry's but for what a string
\* has beyond its room, and for an array's value.
ItemPlaced(bytes, o, e, item) ==
    /\ item \in Items /\ item.key = e.key /\ item.type = e.type
    /\ Len(item.payload) = GetItemSize(e)
    /\ e.type # TYPE_OBJECT_ARR => item.payload = Kept(e)
    /\ Len(BytesOf(item)) = 8 + GetItemSize(e)
    /\ \A j \in 1 .. Len(BytesOf(item)) : bytes[o + j] = BytesOf(item)[j]

\* So it is for every property in the filled buffer.
LEMMA ServerItemIs ==
  ASSUME NEW E \in Seq(ServerEntries), NEW sum, Sums(E, sum), NEW bytes \in Seq(Byte),
         Filled(E, sum, Len(E), bytes), NEW n \in Nat, n < Len(E)
  PROVE  ItemPlaced(bytes, sum[n], E[n + 1], ServerItem(E, sum, bytes, n + 1))
<1> DEFINE e == E[n + 1]
           pay == PayloadOf(E, sum, bytes, n + 1)
           item == ServerItem(E, sum, bytes, n + 1)
           size == GetItemSize(e)
           o == sum[n]
           k == e.key
           t == e.type
<1>20. PayloadAt(bytes, o, e, pay)
  BY PayloadIs, Zenon
<1> HIDE DEF pay, o
<1>1. /\ pay \in Seq(Byte) /\ Len(pay) = size
      /\ \A j \in 1 .. size : pay[j] = bytes[(o + 8) + j]
      /\ t # TYPE_OBJECT_ARR => pay = Kept(e)
      /\ \A j \in 1 .. 8 : bytes[o + j] = Header(k, t, size)[j]
  BY <1>20, Zenon DEF PayloadAt
<1>2. e \in ServerEntries
  BY Zenon DEF Sums
<1>3. size \in Nat /\ k \in Short /\ t \in Short
  BY <1>2, SizeIs, Zenon
<1>4. item = Item(k, t, pay)
  BY Zenon DEF ServerItem, pay
<1>5. o \in Nat
  <2>1. n \in 0 .. Len(E)
    BY Len(E) \in Nat
  <2> QED
    BY <2>1, Zenon DEF Sums, o
<1> HIDE DEF e, pay, item, size, o, k, t
<1>6. item \in Items /\ item.key = k /\ item.type = t /\ item.payload = pay
  BY <1>1, <1>3, <1>4 DEF Item, Items
<1>7. /\ ItemHeader(item) = Header(k, t, size)
      /\ ItemHeader(item) \in Seq(Byte) /\ Len(ItemHeader(item)) = 8
      /\ Len(BytesOf(item)) = 8 + size
      /\ BytesOf(item) = Header(k, t, size) \o pay
  <2>1. ItemHeader(item) = Header(k, t, size)
    BY <1>1, <1>6, Zenon DEF ItemHeader, Header
  <2> QED
    BY <1>1, <1>6, <2>1, BytesOfType, Zenon DEF BytesOf
<1> DEFINE h == Header(k, t, size)
<1>8. h \in Seq(Byte) /\ Len(h) = 8
  BY <1>7, Zenon
<1> HIDE DEF h
<1>9. /\ \A j \in 1 .. 8 : (h \o pay)[j] = h[j]
      /\ \A j \in 1 .. size : (h \o pay)[8 + j] = pay[j]
  <2>1. /\ \A j \in 1 .. Len(h) : (h \o pay)[j] = h[j]
        /\ \A j \in 1 .. Len(pay) : (h \o pay)[Len(h) + j] = pay[j]
    BY <1>1, <1>8, JoinedAt
  <2> QED
    BY <1>1, <1>8, <2>1, Zenon
<1>10. \A j \in 1 .. 8 + size : bytes[o + j] = (h \o pay)[j]
  <2> TAKE j \in 1 .. 8 + size
  <2>1. CASE j \in 1 .. 8
    BY <1>1, <1>9, <2>1, Zenon DEF h
  <2>2. CASE j \notin 1 .. 8
    <3>1. j - 8 \in 1 .. size /\ (o + 8) + (j - 8) = o + j /\ 8 + (j - 8) = j
      BY <1>3, <1>5, <2>2
    <3>2. (h \o pay)[8 + (j - 8)] = pay[j - 8] /\ pay[j - 8] = bytes[(o + 8) + (j - 8)]
      BY <1>1, <1>9, <3>1, Zenon
    <3> QED
      BY <3>1, <3>2, Zenon
  <2> QED
    BY <2>1, <2>2
<1> QED
  BY <1>1, <1>6, <1>7, <1>10, Zenon DEF ItemPlaced, e, pay, item, size, o, k, t, h

\* The server's bytes are a message's, when the writer gets through.
LEMMA ServerMessage ==
  ASSUME NEW E \in Seq(ServerEntries), Len(E) \in Short, Encoded(E).ok
  PROVE  \E m :
           /\ WellFormed(m) /\ Exact(m) /\ serialize(m) = Encoded(E).bytes
           /\ Len(m.next) = Len(E)
           /\ \A i \in 1 .. Len(E) :
                 /\ m.next[i].key = E[i].key /\ m.next[i].type = E[i].type
                 /\ Len(m.next[i].payload) = GetItemSize(E[i])
                 /\ E[i].type # TYPE_OBJECT_ARR => m.next[i].payload = Kept(E[i])
<1> DEFINE N == Len(E)
           bytes == Encoded(E).bytes
<1>1. N \in Nat
  OBVIOUS
<1>2. PICK sum : Sums(E, sum)
  BY SumsAre, Zenon
<1> DEFINE total == sum[N]
           m == ServerMsg(E, sum, bytes)
           item(i) == ServerItem(E, sum, bytes, i)
<1>3. Encoded(E) \in Buffers /\ Filled(E, sum, N, bytes)
  BY <1>2, EncodedFills, Zenon
<1>4. bytes \in Seq(Byte)
  BY <1>3 DEF Buffers
<1> HIDE DEF bytes
<1>5. /\ sum[0] = 2
      /\ \A n \in 0 .. N : sum[n] \in Nat /\ sum[n] <= total
      /\ \A n \in Nat : n < N =>
            E[n + 1] \in ServerEntries /\ sum[n + 1] = sum[n] + 8 + GetItemSize(E[n + 1])
  BY <1>2, Zenon DEF Sums
<1>6. ASSUME NEW n \in Nat, n < N
      PROVE  /\ item(n + 1) \in Items
             /\ item(n + 1).key = E[n + 1].key /\ item(n + 1).type = E[n + 1].type
             /\ Len(item(n + 1).payload) = GetItemSize(E[n + 1])
             /\ E[n + 1].type # TYPE_OBJECT_ARR => item(n + 1).payload = Kept(E[n + 1])
             /\ Len(BytesOf(item(n + 1))) = 8 + GetItemSize(E[n + 1])
             /\ \A j \in 1 .. Len(BytesOf(item(n + 1))) :
                   bytes[sum[n] + j] = BytesOf(item(n + 1))[j]
             /\ GetItemSize(E[n + 1]) \in Nat /\ GetItemSize(E[n + 1]) < Huge
  <2> DEFINE e == E[n + 1]
             it == item(n + 1)
  <2>1. e \in ServerEntries
    BY <1>5, <1>6, Zenon
  <2>2. GetItemSize(e) \in Nat /\ GetItemSize(e) < Huge
    BY <2>1, SizeIs, Zenon
  <2>3. /\ it \in Items /\ it.key = e.key /\ it.type = e.type
        /\ Len(it.payload) = GetItemSize(e)
        /\ e.type # TYPE_OBJECT_ARR => it.payload = Kept(e)
        /\ Len(BytesOf(it)) = 8 + GetItemSize(e)
        /\ \A j \in 1 .. Len(BytesOf(it)) : bytes[sum[n] + j] = BytesOf(it)[j]
    <3>1. ItemPlaced(bytes, sum[n], e, it)
      BY <1>2, <1>3, <1>4, <1>6, ServerItemIs, Zenon
    <3> QED
      BY <3>1, Zenon DEF ItemPlaced
  <2> QED
    BY <2>2, <2>3, Zenon
<1>7. \A i \in 1 .. N : i - 1 \in Nat /\ i - 1 < N /\ (i - 1) + 1 = i
  BY <1>1
<1>8. m.next = [i \in 1 .. N |-> item(i)] /\ m.property_count = N
      /\ m.property_payload_total_length = total - (2 + 8 * N)
  BY Zenon DEF ServerMsg
<1> HIDE DEF m, item, N
<1>9. ASSUME NEW i \in 1 .. N
      PROVE  /\ item(i) \in Items
             /\ item(i).key = E[i].key /\ item(i).type = E[i].type
             /\ Len(item(i).payload) = GetItemSize(E[i])
             /\ E[i].type # TYPE_OBJECT_ARR => item(i).payload = Kept(E[i])
             /\ GetItemSize(E[i]) < Huge
  <2> DEFINE k == i - 1
  <2>1. k \in Nat /\ k < N /\ k + 1 = i
    BY <1>7
  <2> HIDE DEF k
  <2> QED
    BY <1>6, <2>1, Zenon
<1>10. /\ m.next \in Seq(Items) /\ Len(m.next) = N
       /\ \A i \in 1 .. N : m.next[i] = item(i)
  <2>1. m.next \in [1 .. N -> Items]
    BY <1>8, <1>9, Zenon
  <2>2. \A i \in 1 .. N : m.next[i] = item(i)
    BY <1>8, Zenon
  <2> QED
    BY <1>1, <2>1, <2>2
<1>11. total \in Nat /\ total >= 2 + 8 * N
  <2> DEFINE T == {n \in Nat : n <= N => sum[n] >= 2 + 8 * n}
  <2>1. 0 \in T
    BY <1>5
  <2>2. ASSUME NEW n \in Nat, n \in T PROVE n + 1 \in T
    <3>1. SUFFICES ASSUME n + 1 <= N PROVE sum[n + 1] >= 2 + 8 * (n + 1)
      OBVIOUS
    <3>2. n < N /\ n <= N /\ n \in 0 .. N
      BY <1>1, <3>1
    <3> DEFINE x == sum[n]
               y == sum[n + 1]
               z == GetItemSize(E[n + 1])
    <3>3. x \in Nat /\ y = x + 8 + z /\ z \in Nat /\ x >= 2 + 8 * n
      BY <1>5, <1>6, <2>2, <3>2
    <3> HIDE DEF x, y, z
    <3>4. y >= 2 + 8 * (n + 1)
      BY <3>3
    <3> QED
      BY <3>4 DEF y
  <2> HIDE DEF T
  <2>3. N \in T
    BY <1>1, <2>1, <2>2, Induction
  <2>4. N <= N /\ N \in 0 .. N
    BY <1>1
  <2> QED
    BY <1>1, <1>5, <2>3, <2>4 DEF T
<1>12. m \in MsgType
  <2>1. total - (2 + 8 * N) \in Nat
    <3> DEFINE t == total
    <3>1. t \in Nat /\ t >= 2 + 8 * N
      BY <1>11
    <3> HIDE DEF t
    <3>2. t - (2 + 8 * N) \in Nat
      BY <1>1, <3>1
    <3> QED
      BY <3>2 DEF t
  <2>2. m = [next |-> m.next, property_count |-> m.property_count,
             property_payload_total_length |-> m.property_payload_total_length]
    BY DEF m, ServerMsg
  <2> QED
    BY <1>1, <1>8, <1>10, <2>1, <2>2 DEF MsgType
<1>13. Counted(m)
  <2>1. N < 65536
    BY SMT DEF Short, N
  <2> DEFINE c == m.property_count
             l == Len(m.next)
  <2>2. c = N /\ l = N
    BY <1>8, <1>10, Zenon
  <2> HIDE DEF c, l
  <2>3. c = l /\ c < 65536
    BY <2>1, <2>2
  <2> QED
    BY <1>12, <2>3, SMT DEF Counted, c, l
<1> DEFINE place == [n \in 0 .. N |-> sum[n]]
<1>14. Laid(m, bytes, place)
  <2>1. Len(bytes) = total
    BY <1>3, Zenon DEF Filled, N
  <2>2. place \in [0 .. N -> Nat] /\ \A n \in 0 .. N : place[n] = sum[n]
    BY <1>5
  <2>3. 0 \in 0 .. N /\ N \in 0 .. N
    BY <1>1
  <2>4. place[0] = 2 /\ place[N] = Len(bytes)
    BY <1>5, <2>1, <2>2, <2>3, Zenon
  <2> HIDE DEF place
  <2>5. ASSUME NEW n \in Nat, n < N
        PROVE  /\ m.next[n + 1] \in Items
               /\ place[n + 1] = place[n] + Len(BytesOf(m.next[n + 1]))
               /\ place[n + 1] <= Len(bytes)
               /\ \A j \in 1 .. Len(BytesOf(m.next[n + 1])) :
                     bytes[place[n] + j] = BytesOf(m.next[n + 1])[j]
    <3> DEFINE it == item(n + 1)
               x == sum[n]
               y == sum[n + 1]
               z == GetItemSize(E[n + 1])
    <3>1. n \in 0 .. N /\ n + 1 \in 0 .. N /\ n + 1 \in 1 .. N
      BY <1>1, <2>5
    <3>2. m.next[n + 1] = it /\ place[n] = x /\ place[n + 1] = y
      BY <1>10, <2>2, <3>1, Zenon
    <3>3. /\ it \in Items /\ Len(BytesOf(it)) = 8 + z /\ z \in Nat
          /\ \A j \in 1 .. Len(BytesOf(it)) : bytes[x + j] = BytesOf(it)[j]
      BY <1>6, <2>5, Zenon
    <3>4. y = x + 8 + z /\ x \in Nat /\ y <= Len(bytes)
      BY <1>5, <2>1, <2>5, <3>1, Zenon
    <3> HIDE DEF it, x, y, z
    <3>5. y = x + (8 + z)
      BY <3>3, <3>4
    <3> QED
      BY <3>2, <3>3, <3>4, <3>5, Zenon
  <2> QED
    BY <1>10, <2>2, <2>4, <2>5, Zenon DEF Laid
<1>15. serialize(m) = bytes
  <2>1. \A j \in 1 .. 2 : bytes[j] = LittleEndian(Len(m.next), 2)[j]
    BY <1>3, <1>10, Zenon DEF Filled, N
  <2> HIDE DEF place
  <2> QED
    BY <1>4, <1>13, <1>14, <2>1, LaidOut
<1>16. get_serialized_length(m) = Len(bytes)
  <2> DEFINE t == total
             l == m.property_payload_total_length
  <2>1. Len(bytes) = t
    BY <1>3, Zenon DEF Filled, N
  <2>2. l = t - (2 + 8 * N) /\ t \in Nat /\ t >= 2 + 8 * N
    BY <1>8, <1>11
  <2> HIDE DEF t, l
  <2>3. 2 + l + 8 * N = t
    BY <1>1, <2>2
  <2> QED
    BY <1>8, <2>1, <2>3, Zenon DEF get_serialized_length, l
<1>17. WellFormed(m)
  BY <1>10, <1>13, <1>15, <1>16, SMT DEF Counted, WellFormed
<1>18. \A i \in 1 .. N :
         /\ m.next[i].key = E[i].key /\ m.next[i].type = E[i].type
         /\ Len(m.next[i].payload) = GetItemSize(E[i])
         /\ E[i].type # TYPE_OBJECT_ARR => m.next[i].payload = Kept(E[i])
         /\ Len(m.next[i].payload) < Huge
  BY <1>9, <1>10, Zenon
<1>19. Exact(m)
  BY <1>10, <1>18, Zenon DEF Exact
<1> QED
  BY <1>10, <1>15, <1>17, <1>18, <1>19, Zenon DEF N, bytes

-----------------------------------------------------------------------------
(* What the plugin reads of them.                                             *)

\* The item of a message within a message is found by its key.
LEMMA InnerFound ==
  ASSUME NEW inner \in InnerEntries, NEW m, m.next = Reverse(Build(inner).next),
         NEW i \in 1 .. Len(inner), 2 <= MAX_PACKET_SIZE
  PROVE  get_fixed(m, inner[i].key, inner[i].type) = Answer(inner[i].value)
<1> DEFINE list == Build(inner).next
           x == inner[1]
           k == x.key
           n == x.value
<1>1. /\ i = 1 /\ Len(inner) \in {0, 1} /\ Len(list) = Len(inner)
      /\ k \in Keys /\ n \in Numbers /\ x = Entry(k, TYPE_INT16, n)
      /\ list[1] = Item(k, TYPE_INT16, LittleEndian(n, 2))
  BY InnerIs
<1>2. Len(inner) = 1 /\ Len(list) = 1
  BY <1>1
<1> HIDE DEF list
<1>3. Len(m.next) = 1 /\ m.next[1] = list[1]
  BY <1>2 DEF Reverse, list
<1>4. x.type = TYPE_INT16
  <2>1. Entry(k, TYPE_INT16, n).type = TYPE_INT16
    BY DEF Entry
  <2> QED
    BY <1>1, <2>1, Zenon
<1>5. x \in PutEntries
  <2>1. Entry(k, TYPE_INT16, n) = [key |-> k, type |-> TYPE_INT16, value |-> n]
    BY DEF Entry
  <2>2. TYPE_INT16 \in FixedTypes
    BY TypesDiffer
  <2> HIDE DEF k, n
  <2>3. [key |-> k, type |-> TYPE_INT16, value |-> n]
          \in [key : Keys, type : FixedTypes, value : Numbers]
    BY <1>1, <2>2
  <2> QED
    BY <1>1, <2>1, <2>3, Zenon DEF PutEntries
<1>6. Payload(x) = LittleEndian(n, 2) /\ Len(Payload(x)) = 2
  <2>1. Payload(x) = LittleEndian(n, 2)
    BY <1>4, TypesDiffer, Zenon DEF Payload
  <2>2. n \in Nat
    BY <1>1, PutsType
  <2>3. Len(LittleEndian(n, 2)) = 2
    BY <2>2, LittleEndianType
  <2> QED
    BY <2>1, <2>3
<1>7. ItemOf(x) = m.next[1]
  BY <1>1, <1>3, <1>4, <1>6, Zenon DEF ItemOf
<1>8. Places(m, x.key) # {} /\ find(m, x.key) = m.next[1]
  <2>1. m.next[1].key = x.key
    BY <1>7, ItemOfParts, Zenon
  <2>2. Len(m.next) \in Nat /\ 1 \in 1 .. Len(m.next) /\ \A j \in 1 .. 1 - 1 : FALSE
    BY <1>3
  <2> QED
    BY <2>1, <2>2, FindFirst, Zenon
<1>9. ReadsBack(m, x)
  <2>1. Len(Payload(x)) <= MAX_PACKET_SIZE
    BY <1>6
  <2> QED
    BY <1>5, <1>7, <1>8, <2>1, GetBack, Zenon
<1>10. x.type \in FixedTypes
  BY <1>4, TypesDiffer
<1> QED
  BY <1>1, <1>9, <1>10, Zenon DEF ReadsBack

\* What the getters answer of a property of the server's.
LEMMA EntryReads ==
  ASSUME NEW m, NEW e \in ServerEntries, NEW item \in Items,
         Places(m, e.key) # {}, find(m, e.key) = item, item.key = e.key, item.type = e.type,
         GetItemSize(e) <= MAX_PACKET_SIZE,
         e.type # TYPE_OBJECT_ARR => item.payload = Kept(e)
  PROVE  Reads(m, e)
<1>1. \/ e.type \in FixedTypes
      \/ e.type = TYPE_STRING
      \/ e.type = TYPE_OBJECT /\ e.value \in InnerEntries
      \/ e.type = TYPE_OBJECT_ARR
  BY DEF ServerEntries, PutEntries
<1>2. ASSUME e.type # TYPE_STRING, e.type # TYPE_OBJECT_ARR
      PROVE  ReadsBack(m, e)
  <2>1. Kept(e) = Payload(e)
    BY <1>2, Zenon DEF Kept, Placed
  <2>2. e \in PutEntries /\ Len(Kept(e)) = GetItemSize(e)
    BY <1>2, PlacedIs, Zenon
  <2>3. item = Item(item.key, item.type, item.payload)
    BY DEF Items, Item
  <2>4. item = ItemOf(e)
    BY <1>2, <2>1, <2>3, Zenon DEF ItemOf
  <2>5. Len(Payload(e)) <= MAX_PACKET_SIZE
    BY <2>1, <2>2
  <2> QED
    BY <2>2, <2>4, <2>5, GetBack, Zenon
<1>3. CASE e.type \in FixedTypes
  <2>1. e.type # TYPE_STRING /\ e.type # TYPE_OBJECT_ARR /\ e.type # TYPE_OBJECT
    BY <1>3, TypesDiffer
  <2>2. get_fixed(m, e.key, e.type) = Answer(e.value)
    BY <1>2, <1>3, <2>1, Zenon DEF ReadsBack
  <2> QED
    BY <1>3, <2>1, <2>2, Zenon DEF Reads
<1>4. CASE e.type = TYPE_STRING
  <2> DEFINE p == item.payload
             s == e.value
             read == get_string(m, e.key, OutputMax)
  <2>1. e.type \notin FixedTypes /\ e.type # TYPE_OBJECT_ARR /\ e.type # TYPE_OBJECT
    BY <1>4, TypesDiffer
  <2>2. p = RoomFor(s)
    BY <1>4, <2>1, Zenon DEF Kept
  <2>3. Len(p) = Len(s)
    <3>1. Len(Kept(e)) = GetItemSize(e) /\ GetItemSize(e) = Len(s)
      BY <1>4, <2>1, PlacedIs, SizeIs, Zenon
    <3> QED
      BY <2>1, <3>1, Zenon
  <2>4. Len(s) \in Nat /\ OutputMax \in Nat
    <3>1. s \in Seq(Characters)
      BY <1>4, PlacedIs, Zenon
    <3> QED
      BY <3>1, OutputAssumption
  <2> HIDE DEF p
  <2>5. Len(p) >= OutputMax + 1 <=> ~(Len(s) <= OutputMax)
    BY <2>3, <2>4
  <2>6. read = IF Len(s) <= OutputMax THEN Answer(p) ELSE NoAnswer
    BY <1>4, <2>5, Zenon DEF get_string, p
  <2>7. /\ Answer(p).ok = TRUE /\ Answer(p).value = p
        /\ NoAnswer.ok = FALSE
    BY DEF Answer, NoAnswer
  <2> HIDE DEF read
  <2>8. read.ok = (Len(s) <= OutputMax) /\ (read.ok => read.value = RoomFor(s))
    <3> DEFINE fits == Len(s) <= OutputMax
    <3>1. CASE fits
      <4>1. fits = TRUE
        BY <3>1
      <4>2. read = Answer(p)
        BY <2>6, <3>1, Zenon
      <4> QED
        BY <2>2, <2>7, <4>1, <4>2, Zenon
    <3>2. CASE ~fits
      <4>1. fits = FALSE
        BY <3>2
      <4>2. read = NoAnswer
        BY <2>6, <3>2, Zenon
      <4> QED
        BY <2>7, <4>1, <4>2, Zenon
    <3> QED
      BY <3>1, <3>2
  <2> QED
    BY <1>4, <2>1, <2>8, Zenon DEF Reads, read
<1>5. CASE e.type = TYPE_OBJECT /\ e.value \in InnerEntries
  <2> DEFINE inner == get_msg(m, e.key)
             built == Build(e.value)
  <2>1. e.type \notin FixedTypes /\ e.type # TYPE_OBJECT_ARR /\ e.type # TYPE_STRING
    BY <1>5, TypesDiffer
  <2>2. inner.ok /\ inner.msg = [built EXCEPT !.next = Reverse(built.next)]
    BY <1>2, <1>5, <2>1, Zenon DEF ReadsBack
  <2>3. inner.msg.next = Reverse(built.next)
    <3>1. built \in MsgType
      BY <1>5, InnerOK DEF MsgOK
    <3> HIDE DEF built
    <3> QED
      BY <2>2, <3>1 DEF MsgType
  <2>4. 2 <= MAX_PACKET_SIZE
    <3>1. GetItemSize(e) = FlatLength(e.value)
      BY <1>5, <2>1, Zenon DEF GetItemSize, ItemSize
    <3>2. FlatLength(e.value) \in {2, 12}
      BY <1>5, FlatLengthIs, Zenon
    <3> QED
      BY <3>1, <3>2, MessageAssumption
  <2>5. \A i \in 1 .. Len(e.value) :
           get_fixed(inner.msg, e.value[i].key, e.value[i].type) = Answer(e.value[i].value)
    BY <1>5, <2>3, <2>4, InnerFound, Zenon
  <2> QED
    BY <1>5, <2>1, <2>2, <2>5, Zenon DEF Reads
<1>6. CASE e.type = TYPE_OBJECT_ARR
  <2>1. e.type \notin FixedTypes /\ e.type # TYPE_OBJECT /\ e.type # TYPE_STRING
    BY <1>6, TypesDiffer
  <2> QED
    BY <2>1, Zenon DEF Reads
<1> QED
  BY <1>1, <1>3, <1>4, <1>5, <1>6

-----------------------------------------------------------------------------
(* The specification.                                                         *)

\* Whoever builds the message, it is what was put.
WireInv ==
    /\ side \in {"plugin", "server"}
    /\ side = "plugin" => MsgInv
    /\ side = "server" =>
          entries \in Seq(ServerEntries) /\ DistinctKeys /\ Len(entries) <= MaxPuts
                          /\ msg = NewMsg /\ outcome = "ok"

\* The count of the server's puts fits in its two bytes.
LEMMA EntriesShort ==
  ASSUME WireInv, side = "server"
  PROVE  Len(entries) \in Short /\ Len(entries) \in Nat
<1> DEFINE n == Len(entries)
<1>1. n \in Nat /\ n <= MaxPuts
  BY DEF WireInv
<1> HIDE DEF n
<1>2. n \in Short
  BY <1>1, PutsAssumption, SMT DEF Short
<1> QED
  BY <1>1, <1>2 DEF n

\* The writer throws when a string runs past the end, and only then.
LEMMA OverrunIs ==
  ASSUME entries \in Seq(ServerEntries)
  PROVE  Written.ok \in BOOLEAN /\ (Written.ok <=> ~Overrun)
<1> DEFINE N == Len(entries)
<1>1. N \in Nat
  OBVIOUS
<1>2. PICK sum : Sums(entries, sum)
  BY SumsAre, Zenon
<1>3. /\ Written \in Buffers
      /\ Written.ok <=> \A n \in Nat : n < N => StringFits(entries, sum, n)
  BY <1>2, EncodedFills, Zenon DEF Written
<1>4. ASSUME NEW n \in Nat, n < N
      PROVE  StringFits(entries, sum, n) <=>
               ~(/\ entries[n + 1].type = TYPE_STRING
                 /\ SerializedLength(SubSeq(entries, 1, (n + 1) - 1)) + 8
                      + Len(UTF8(entries[n + 1].value)) > SerializedLength(entries))
  <2>1. (n + 1) - 1 = n /\ n \in 0 .. N /\ N \in 0 .. N
    BY <1>1, <1>4
  <2>2. /\ SerializedLength(SubSeq(entries, 1, n)) = sum[n] /\ sum[n] \in Nat
        /\ SerializedLength(entries) = sum[N] /\ sum[N] \in Nat
    BY <2>1, <1>2, Zenon DEF Sums
  <2> DEFINE part == SerializedLength(SubSeq(entries, 1, (n + 1) - 1))
             all == SerializedLength(entries)
             len == Len(UTF8(entries[n + 1].value))
  <2>3. part = sum[n] /\ all = sum[N]
    BY <2>1, <2>2, Zenon
  <2>4. ASSUME entries[n + 1].type = TYPE_STRING PROVE len \in Nat
    <3>1. entries[n + 1] \in ServerEntries
      BY <1>2, <1>4, Zenon DEF Sums
    <3>2. /\ Placed(entries[n + 1]) = UTF8(entries[n + 1].value)
          /\ Len(Placed(entries[n + 1])) \in Nat
      BY <2>4, <3>1, PlacedIs, Zenon
    <3> QED
      BY <3>2, Zenon
  <2> HIDE DEF part, all, len
  <2>5. ASSUME entries[n + 1].type = TYPE_STRING
        PROVE  (sum[n] + (8 + len) <= sum[N]) <=> ~(part + 8 + len > all)
    <3> DEFINE x == sum[n]
               y == sum[N]
    <3>1. x \in Nat /\ y \in Nat /\ part = x /\ all = y /\ len \in Nat
      BY <2>2, <2>3, <2>4, <2>5
    <3> HIDE DEF x, y
    <3>2. (x + (8 + len) <= y) <=> ~(part + 8 + len > all)
      BY <3>1
    <3> QED
      BY <3>2 DEF x, y
  <2> QED
    BY <2>5, Zenon DEF StringFits, part, all, len
<1>5. ASSUME Overrun PROVE \E n \in Nat : n < N /\ ~StringFits(entries, sum, n)
  <2>1. PICK i \in 1 .. N :
          /\ entries[i].type = TYPE_STRING
          /\ SerializedLength(SubSeq(entries, 1, i - 1)) + 8 + Len(UTF8(entries[i].value))
                > SerializedLength(entries)
    BY <1>5, Zenon DEF Overrun
  <2> DEFINE k == i - 1
  <2>2. k \in Nat /\ k < N /\ k + 1 = i
    BY <1>1
  <2> HIDE DEF k
  <2>3. ~StringFits(entries, sum, k)
    BY <1>4, <2>1, <2>2, Zenon
  <2> QED
    BY <2>2, <2>3, Zenon
<1>6. ASSUME NEW n \in Nat, n < N, ~StringFits(entries, sum, n) PROVE Overrun
  <2>1. n + 1 \in 1 .. N
    BY <1>1, <1>6
  <2> QED
    BY <1>4, <1>6, <2>1, Zenon DEF Overrun
<1>7. Written.ok \in BOOLEAN
  BY <1>3 DEF Buffers
<1> QED
  BY <1>3, <1>5, <1>6, <1>7, Zenon

\* PluginReadsServer, in a state of the invariant.
LEMMA PluginReads ==
  ASSUME WireInv, side = "server"
  PROVE  LET read == deserialize(Written.bytes) IN
         /\ Written.ok = ~Overrun
         /\ Written.ok => read.ok = ~\E i \in 1 .. Len(entries) : TooLong(entries[i])
         /\ Written.ok /\ read.ok => \A i \in 1 .. Len(entries) : Reads(read.msg, entries[i])
<1> DEFINE N == Len(entries)
           read == deserialize(Written.bytes)
           Long == \E i \in 1 .. N : TooLong(entries[i])
<1>1. entries \in Seq(ServerEntries) /\ DistinctKeys
  BY Zenon DEF WireInv
<1>2. N \in Nat /\ N \in Short
  BY EntriesShort
<1>3. Written.ok = ~Overrun
  <2> DEFINE ok == Written.ok
             over == Overrun
  <2>1. ok \in BOOLEAN /\ (ok <=> ~over)
    BY <1>1, OverrunIs, Zenon
  <2> HIDE DEF ok, over
  <2> QED
    BY <2>1, Zenon DEF ok, over
<1>4. ASSUME Written.ok
      PROVE  /\ read.ok = ~Long
             /\ read.ok => \A i \in 1 .. N : Reads(read.msg, entries[i])
  <2>1. PICK m :
           /\ WellFormed(m) /\ Exact(m) /\ serialize(m) = Encoded(entries).bytes
           /\ Len(m.next) = N
           /\ \A i \in 1 .. N :
                 /\ m.next[i].key = entries[i].key /\ m.next[i].type = entries[i].type
                 /\ Len(m.next[i].payload) = GetItemSize(entries[i])
                 /\ entries[i].type # TYPE_OBJECT_ARR => m.next[i].payload = Kept(entries[i])
    BY <1>1, <1>2, <1>4, ServerMessage, Zenon DEF Written
  <2>2. read = deserialize(serialize(m))
    BY <2>1, Zenon DEF Written
  <2>3. read.ok <=> Small(m)
    BY <2>1, <2>2, ReadWhole, Zenon
  <2>4. \A i \in 1 .. N : GetItemSize(entries[i]) \in Nat /\ entries[i] \in ServerEntries
    <3> TAKE i \in 1 .. N
    <3>1. entries[i] \in ServerEntries
      BY <1>1, ElementOfSeq
    <3> QED
      BY <3>1, SizeIs, Zenon
  <2>5. Small(m) <=> ~Long
    <3>1. \A i \in 1 .. N :
            Len(m.next[i].payload) <= MAX_PACKET_SIZE <=> ~TooLong(entries[i])
      <4> TAKE i \in 1 .. N
      <4> DEFINE k == GetItemSize(entries[i])
      <4>1. k \in Nat /\ Len(m.next[i].payload) = k
        BY <2>1, <2>4, Zenon
      <4> HIDE DEF k
      <4>2. k <= MAX_PACKET_SIZE <=> ~(k > MAX_PACKET_SIZE)
        BY <4>1, MessageAssumption
      <4> QED
        BY <4>1, <4>2, Zenon DEF TooLong, k
    <3> QED
      BY <2>1, <3>1, Zenon DEF Small
  <2>6. read.ok \in BOOLEAN
    <3>1. serialize(m) \in Seq(Byte)
      BY <2>1, Layout, Zenon
    <3> QED
      BY <2>2, <3>1, Zenon DEF deserialize
  <2>7. read.ok = ~Long
    BY <2>3, <2>5, <2>6, Zenon
  <2>8. ASSUME read.ok, NEW i \in 1 .. N PROVE Reads(read.msg, entries[i])
    <3> DEFINE e == entries[i]
               got == read.msg
               k == (N - i) + 1
    <3>1. Small(m)
      BY <2>3, <2>8, Zenon
    <3>2. got = [m EXCEPT !.next = Reverse(m.next)]
      BY <2>1, <2>2, <3>1, ReadBack, Zenon
    <3>3. m \in MsgType /\ m.next \in Seq(Items)
      BY <2>1 DEF WellFormed, MsgType
    <3> HIDE DEF got
    <3>4. got.next = Reverse(m.next)
      BY <3>2, <3>3 DEF MsgType
    <3>5. Len(got.next) = N /\ \A j \in 1 .. N : got.next[j] = m.next[(N - j) + 1]
      BY <2>1, <3>3, <3>4 DEF Reverse
    <3>6. k \in 1 .. N /\ (N - k) + 1 = i
      BY <1>2
    <3>7. got.next[k] = m.next[i]
      BY <3>5, <3>6, Zenon
    <3>8. \A j \in 1 .. k - 1 : got.next[j].key # e.key
      <4> TAKE j \in 1 .. k - 1
      <4>1. j \in 1 .. N /\ (N - j) + 1 \in 1 .. N /\ (N - j) + 1 # i
        BY <1>2, <3>6
      <4>2. got.next[j] = m.next[(N - j) + 1]
        BY <3>5, <4>1, Zenon
      <4>3. m.next[(N - j) + 1].key = entries[(N - j) + 1].key
        BY <2>1, <4>1, Zenon
      <4> QED
        BY <1>1, <4>1, <4>2, <4>3, Zenon DEF DistinctKeys
    <3> HIDE DEF k
    <3>9. /\ m.next[i].key = e.key /\ m.next[i].type = e.type
          /\ Len(m.next[i].payload) = GetItemSize(e)
          /\ e.type # TYPE_OBJECT_ARR => m.next[i].payload = Kept(e)
      BY <2>1, Zenon
    <3>10. Places(got, e.key) # {} /\ find(got, e.key) = m.next[i]
      <4>1. got.next[k].key = e.key
        BY <3>7, <3>9, Zenon
      <4>2. Len(got.next) \in Nat /\ k \in 1 .. Len(got.next)
        BY <1>2, <3>5, <3>6, Zenon
      <4> QED
        BY <3>7, <3>8, <4>1, <4>2, FindFirst, Zenon
    <3>11. m.next[i] \in Items
      BY <2>1, <3>3, ElementOfSeq
    <3>12. GetItemSize(e) <= MAX_PACKET_SIZE
      BY <2>1, <3>1, <3>9, Zenon DEF Small
    <3>13. e \in ServerEntries
      BY <2>4, Zenon
    <3>14. Reads(got, e)
      BY <3>9, <3>10, <3>11, <3>12, <3>13, EntryReads, Zenon
    <3> QED
      BY <3>14 DEF got
  <2> QED
    BY <2>7, <2>8
<1> QED
  BY <1>3, <1>4, Zenon

\* WholeOnly, in a state of the invariant.
LEMMA WholeRead ==
  ASSUME WireInv, side = "server", Written.ok
  PROVE  /\ \A n \in 0 .. Len(Written.bytes) - 1 :
               ~deserialize(SubSeq(Written.bytes, 1, n)).ok
         /\ ~deserialize(Written.bytes \o <<0>>).ok
<1>1. entries \in Seq(ServerEntries)
  BY Zenon DEF WireInv
<1>2. Len(entries) \in Short
  BY EntriesShort
<1>3. PICK m : WellFormed(m) /\ Exact(m) /\ serialize(m) = Written.bytes
  BY <1>1, <1>2, ServerMessage, Zenon DEF Written
<1> QED
  BY <1>3, ReadWhole, Zenon

\* It holds of the two empty messages.
LEMMA WireInvInit == Init => WireInv
<1> SUFFICES ASSUME Init PROVE WireInv
  OBVIOUS
<1>1. side \in {"plugin", "server"} /\ MsgInit
  BY DEF Init
<1>2. MsgInv
  BY <1>1, MsgInvInit
<1>3. entries = <<>> /\ msg = NewMsg /\ outcome = "ok"
  BY <1>1 DEF MsgInit
<1>4. entries \in Seq(ServerEntries) /\ Len(entries) = 0
  BY <1>3
<1>5. Len(entries) <= MaxPuts
  BY <1>4, PutsAssumption, SMT
<1>6. DistinctKeys
  BY <1>4 DEF DistinctKeys
<1> QED
  BY <1>1, <1>2, <1>3, <1>4, <1>5, <1>6, Zenon DEF WireInv

\* Every put preserves it: the plugin's by MsgInv, the server's by the test of its key.
LEMMA WireInvNext == WireInv /\ [Next]_vars => WireInv'
<1> SUFFICES ASSUME WireInv, [Next]_vars PROVE WireInv'
  OBVIOUS
<1>1. ASSUME PluginMakes PROVE WireInv'
  <2>1. side = "plugin" /\ side' = side /\ MsgNext
    BY <1>1 DEF PluginMakes
  <2>2. MsgInv
    BY <2>1, Zenon DEF WireInv
  <2>3. MsgInv'
    BY <2>1, <2>2, MsgInvNext
  <2>4. side' # "server"
    BY <2>1
  <2> QED
    BY <2>1, <2>3, <2>4, Zenon DEF WireInv
<1>2. ASSUME NEW key \in Keys, NEW entry, entry \in ServerEntries, ServerPut(entry)
      PROVE  WireInv'
  <2> DEFINE N == Len(entries)
  <2>1. /\ side = "server" /\ N < MaxPuts /\ ~HasKey(entries, entry.key)
        /\ entries' = Append(entries, entry)
        /\ side' = side /\ msg' = msg /\ outcome' = outcome
    BY <1>2 DEF ServerPut
  <2>2. /\ entries \in Seq(ServerEntries) /\ DistinctKeys /\ msg = NewMsg /\ outcome = "ok"
    BY <2>1, Zenon DEF WireInv
  <2>3. entries' \in Seq(ServerEntries) /\ Len(entries') = N + 1 /\ N \in Nat
        /\ entries'[N + 1] = entry /\ \A i \in 1 .. N : entries'[i] = entries[i]
    BY <1>2, <2>1, <2>2
  <2>4. Len(entries') <= MaxPuts
    <3>1. MaxPuts \in Nat
      BY PutsAssumption, SMT
    <3> QED
      BY <2>1, <2>3, <3>1
  <2>5. \A i \in 1 .. N : entries[i].key # entry.key
    BY <2>1, Zenon DEF HasKey
  <2> HIDE DEF N
  <2>6. \A i, j \in 1 .. N : entries[i].key = entries[j].key => i = j
    BY <2>2, Zenon DEF DistinctKeys, N
  <2>7. DistinctKeys'
    <3>1. \A i \in 1 .. N + 1 : i \in 1 .. N \/ i = N + 1
      BY <2>3
    <3>2. \A i, j \in 1 .. N + 1 : entries'[i].key = entries'[j].key => i = j
      BY <2>3, <2>5, <2>6, <3>1, Zenon
    <3> QED
      BY <2>3, <3>2, Zenon DEF DistinctKeys
  <2>8. side' = "server" /\ side' # "plugin"
    BY <2>1
  <2> QED
    BY <2>1, <2>2, <2>3, <2>4, <2>7, <2>8, Zenon DEF WireInv
<1>3. ASSUME NEW key \in Keys, ServerPutAny(key) PROVE WireInv'
  <2>1. ASSUME NEW type \in FixedTypes, NEW n \in Numbers, ServerPut(Entry(key, type, n))
        PROVE  WireInv'
    <3>1. Entry(key, type, n) \in ServerEntries
      BY DEF Entry, ServerEntries, PutEntries
    <3> QED
      BY <1>2, <2>1, <3>1
  <2>2. ASSUME NEW s \in Strings, ServerPut(Entry(key, TYPE_STRING, s))
        PROVE  WireInv'
    <3>1. Entry(key, TYPE_STRING, s) \in ServerEntries
      BY DEF Entry, ServerEntries, PutEntries
    <3> QED
      BY <1>2, <2>2, <3>1
  <2>3. ASSUME NEW inner \in InnerEntries, ServerPut(Entry(key, TYPE_OBJECT, inner))
        PROVE  WireInv'
    <3>1. Entry(key, TYPE_OBJECT, inner) \in ServerEntries
      BY DEF Entry, ServerEntries, PutEntries
    <3> QED
      BY <1>2, <2>3, <3>1
  <2>4. ASSUME NEW inners \in Arrays, ServerPut(Entry(key, TYPE_OBJECT_ARR, inners))
        PROVE  WireInv'
    <3>1. Entry(key, TYPE_OBJECT_ARR, inners) \in ServerEntries
      BY DEF Entry, ServerEntries
    <3> QED
      BY <1>2, <2>4, <3>1
  <2> QED
    BY <1>3, <2>1, <2>2, <2>3, <2>4, Zenon DEF ServerPutAny
<1>4. ASSUME UNCHANGED vars PROVE WireInv'
  <2>1. UNCHANGED <<side, entries, msg, outcome>>
    BY <1>4 DEF vars, msgVars
  <2> QED
    BY <2>1 DEF WireInv, MsgInv, InOrder, DistinctKeys
<1> QED
  BY <1>1, <1>3, <1>4, Zenon DEF Next

\* What the plugin wrote the server reads whole, the last put first; a message with
\* a key put twice it refuses (message_writer.cpp:12-38 and 139-173,
\* GameMessage.cs:104-163).
THEOREM PluginBytesRead == Spec => []ServerReadsPlugin
<1>1. WireInv => ServerReadsPlugin
  <2> SUFFICES ASSUME WireInv, side = "plugin", outcome = "ok" PROVE ServerReadsPlugin
    BY Zenon DEF ServerReadsPlugin
  <2>1. MsgInv
    BY Zenon DEF WireInv
  <2> QED
    BY <2>1, ServerReads, Zenon DEF ServerReadsPlugin
<1> QED
  BY <1>1, WireInvInit, WireInvNext, PTL DEF Spec

\* What the server wrote the plugin reads, value by value, a string cut to the room
\* counted for it and nothing else harmed by it; the writer throws when a string
\* runs past the buffer's end, and only then; a payload past MAX_PACKET_SIZE is
\* refused (GameMessage.cs:38-102 and 327-352, message_reader.cpp:23-161).
THEOREM ServerBytesRead == Spec => []PluginReadsServer
<1>1. WireInv => PluginReadsServer
  BY PluginReads, Zenon DEF PluginReadsServer
<1> QED
  BY <1>1, WireInvInit, WireInvNext, PTL DEF Spec

\* The plugin takes the server's bytes whole or not at all: not one byte less, and
\* not one more (message_reader.cpp:23-73).
THEOREM OnlyWhole == Spec => []WholeOnly
<1>1. WireInv => WholeOnly
  BY WholeRead, Zenon DEF WholeOnly
<1> QED
  BY <1>1, WireInvInit, WireInvNext, PTL DEF Spec

\* With both ends at work too, get_length is the length of what serialize writes
\* (message_writer.cpp:139-173).
THEOREM BothExact == Spec => []LengthExact
<1>1. WireInv => LengthExact
  <2> SUFFICES ASSUME WireInv PROVE LengthExact
    OBVIOUS
  <2>1. CASE side = "plugin"
    BY <2>1, Zenon DEF WireInv, MsgInv, MsgOK, LengthExact
  <2>2. CASE side = "server"
    BY <2>2, NewOK, Zenon DEF WireInv, MsgOK, LengthExact
  <2> QED
    BY <2>1, <2>2, Zenon DEF WireInv
<1> QED
  BY <1>1, WireInvInit, WireInvNext, PTL DEF Spec
=============================================================================
