--------------------------- MODULE DddNetMsgProofs --------------------------
(* Proofs about DddNetMsg's bytes and about the messages the plugin makes,    *)
(* for messages of any size and any limits.                                   *)
EXTENDS PluginMessage, SequenceTheorems, WellFoundedInduction, TLAPS

Byte == {n \in Nat : n < 256}
Short == {n \in Nat : n < 65536}

-----------------------------------------------------------------------------
(* Numbers.                                                                   *)

\* Induction, stated with a set.
LEMMA Induction ==
  ASSUME NEW T, 0 \in T, \A n \in Nat : n \in T => n + 1 \in T
  PROVE  Nat \subseteq T
<1> DEFINE R == {ss \in Nat \X Nat : ss[1] < ss[2]}
<1>1. IsWellFoundedOn(R, Nat)
  BY NatLessThanWellFounded DEF OpToRel
<1> SUFFICES ASSUME Nat \ T # {} PROVE FALSE
  OBVIOUS
<1>2. PICK x \in Nat \ T : \A y \in Nat \ T : <<y, x>> \notin R
  <2>1. Nat \ T \subseteq Nat
    OBVIOUS
  <2> HIDE DEF R
  <2> QED
    BY <1>1, <2>1, WFMin, Zenon
<1>3. x # 0 /\ x - 1 \in Nat /\ x - 1 \notin T /\ <<x - 1, x>> \in R
  BY <1>2
<1> QED
  BY <1>2, <1>3

LEMMA LittleEndianType ==
  ASSUME NEW n \in Nat, NEW w \in Nat
  PROVE  LittleEndian(n, w) \in Seq(Byte) /\ Len(LittleEndian(n, w)) = w
<1>1. ASSUME NEW i \in 1 .. w
      PROVE  (IF i <= 4 THEN (n \div Place[i]) % 256 ELSE 0) \in Byte
  <2>1. CASE i <= 4
    <3>1. i \in 1 .. 4
      BY <2>1
    <3>2. Place[i] \in Nat \ {0}
      BY <3>1 DEF Place
    <3>3. n \div Place[i] \in Nat
      BY <3>2
    <3>4. (n \div Place[i]) % 256 \in 0 .. 255
      BY <3>3
    <3> QED
      BY <2>1, <3>4 DEF Byte
  <2>2. CASE ~(i <= 4)
    BY <2>2 DEF Byte
  <2> QED
    BY <2>1, <2>2
<1> QED
  BY <1>1 DEF LittleEndian

LEMMA DivTwice ==
  ASSUME NEW n \in Nat
  PROVE  n \div 65536 = (n \div 256) \div 256
OBVIOUS

\* A number that fits is read back from its bytes.
LEMMA NumberBack ==
  ASSUME NEW n \in Nat, n < Huge, NEW w \in {2, 4, 8}, w = 2 => n < 65536
  PROVE  Number(LittleEndian(n, w)) = n
<1> DEFINE bytes == LittleEndian(n, w)
<1>1. Len(bytes) = w
  BY LittleEndianType
<1>2. bytes[1] = n % 256 /\ bytes[2] = (n \div 256) % 256
  <2>1. 1 \in 1 .. w /\ 2 \in 1 .. w /\ Place[1] = 1 /\ Place[2] = 256 /\ n \div 1 = n
    BY DEF Place
  <2> QED
    BY <2>1 DEF LittleEndian
<1>3. w # 2 => bytes[3] = (n \div 65536) % 256
  <2>1. Place[3] = 65536
    BY SMT DEF Place
  <2>2. w # 2 => 3 \in 1 .. w
    OBVIOUS
  <2>3. \A i \in 1 .. w : i <= 4 => bytes[i] = (n \div Place[i]) % 256
    BY DEF LittleEndian
  <2> HIDE DEF bytes
  <2> QED
    BY <2>1, <2>2, <2>3, SMT
<1>4. \A i \in 4 .. w : bytes[i] = 0
  <2> TAKE i \in 4 .. w
  <2>1. n \div 16777216 = 0
    BY SMT DEF Huge
  <2>2. Place[4] = 16777216
    BY SMT DEF Place
  <2>3. i = 4 => (n \div Place[i]) % 256 = 0
    BY <2>1, <2>2, SMT
  <2> QED
    BY <2>3 DEF LittleEndian
<1> DEFINE a == n % 256
           q == n \div 256
           b == q % 256
           r == q \div 256
           c == r % 256
<1>5. /\ n = a + 256 * q /\ q = b + 256 * r /\ a \in Nat /\ b \in Nat /\ q \in Nat
      /\ r \in Nat /\ c \in Nat
  OBVIOUS
<1>6. (n < 65536 => r = 0) /\ r < 256
  BY <1>5, SMT DEF Huge
<1>7. c = r
  BY <1>5, <1>6
<1>8. n \div 65536 = r
  BY DivTwice
<1> HIDE DEF a, b, c, q, r
<1>9. n = a + 256 * b + 65536 * c
  BY <1>5, <1>7, SMT
<1>10. bytes[1] = a /\ bytes[2] = b /\ (w # 2 => bytes[3] = c)
  BY <1>2, <1>3, <1>8 DEF a, b, c, q, r
<1> HIDE DEF bytes
<1>11. ~ \E i \in 4 .. Len(bytes) : bytes[i] # 0
  BY <1>1, <1>4
<1>12. Number(bytes) =
         bytes[1] + 256 * bytes[2] + (IF Len(bytes) = 2 THEN 0 ELSE 65536 * bytes[3])
  BY <1>11, SMT DEF Number
<1>13. CASE w = 2
  <2>1. c = 0
    BY <1>13, <1>6, <1>7
  <2>2. Number(bytes) = a + 256 * b
    BY <1>1, <1>5, <1>10, <1>12, <1>13
  <2> QED
    BY <1>5, <1>9, <2>1, <2>2 DEF bytes
<1>14. CASE w # 2
  BY <1>1, <1>9, <1>10, <1>12, <1>14 DEF bytes
<1> QED
  BY <1>13, <1>14

-----------------------------------------------------------------------------
(* Sequences put one after another.                                           *)

LEMMA FlattenIs ==
  ASSUME NEW seqs, Len(seqs) \in Nat
  PROVE  \E flat :
           /\ flat = [i \in 1 .. Len(seqs) |->
                        IF i = 1 THEN seqs[i] ELSE flat[i - 1] \o seqs[i]]
           /\ FlattenSeq(seqs) = IF Len(seqs) = 0 THEN seqs ELSE flat[Len(seqs)]
<1> DEFINE flat[i \in 1 .. Len(seqs)] ==
             IF i = 1 THEN seqs[i] ELSE flat[i - 1] \o seqs[i]
<1> DEFINE g == CHOOSE g : g = [i \in 1 .. Len(seqs) |->
                                 IF i = 1 THEN seqs[1] ELSE g[i - 1] \o seqs[i]]
<1>1. FlattenSeq(seqs) = IF Len(seqs) = 0 THEN seqs ELSE flat[Len(seqs)]
  BY Zenon DEF FlattenSeq
<1>2. FiniteNatInductiveDefHypothesis(g, seqs[1], LAMBDA v, i : v \o seqs[i], 1, Len(seqs))
  BY DEF FiniteNatInductiveDefHypothesis
<1>3. \E f : f = [i \in 1 .. Len(seqs) |->
                    IF i = 1 THEN seqs[i] ELSE f[i - 1] \o seqs[i]]
  <2> HIDE DEF g
  <2>1. FiniteNatInductiveDefConclusion(g, seqs[1], LAMBDA v, i : v \o seqs[i], 1, Len(seqs))
    BY <1>2, FiniteNatInductiveDef
  <2>2. g = [i \in 1 .. Len(seqs) |-> IF i = 1 THEN seqs[1] ELSE g[i - 1] \o seqs[i]]
    BY <2>1 DEF FiniteNatInductiveDefConclusion
  <2>3. g = [i \in 1 .. Len(seqs) |-> IF i = 1 THEN seqs[i] ELSE g[i - 1] \o seqs[i]]
    BY <2>2
  <2> QED
    BY <2>3, Zenon
<1>4. flat = [i \in 1 .. Len(seqs) |-> IF i = 1 THEN seqs[i] ELSE flat[i - 1] \o seqs[i]]
  BY <1>3, Zenon
<1> QED
  BY <1>1, <1>4, Zenon

LEMMA FlattenUp ==
  ASSUME NEW S, NEW s \in Seq(Seq(S))
  PROVE  \E flat \in [0 .. Len(s) -> Seq(S)] :
           /\ flat[0] = <<>>
           /\ \A i \in Nat : i < Len(s) => flat[i + 1] = flat[i] \o s[i + 1]
           /\ FlattenSeq(s) = flat[Len(s)]
<1> Len(s) \in Nat
  OBVIOUS
<1>1. PICK f : /\ f = [i \in 1 .. Len(s) |-> IF i = 1 THEN s[i] ELSE f[i - 1] \o s[i]]
               /\ FlattenSeq(s) = IF Len(s) = 0 THEN s ELSE f[Len(s)]
  BY FlattenIs, Zenon
<1> DEFINE flat == [i \in 0 .. Len(s) |-> IF i = 0 THEN <<>> ELSE f[i]]
<1>2. \A i \in 1 .. Len(s) : f[i] = IF i = 1 THEN s[i] ELSE f[i - 1] \o s[i]
  BY <1>1, Zenon
<1>3. \A i \in 1 .. Len(s) : s[i] \in Seq(S)
  BY ElementOfSeq
<1>4. \A i \in 1 .. Len(s) : f[i] \in Seq(S)
  <2> DEFINE T == {i \in Nat : i + 1 \in 1 .. Len(s) => f[i + 1] \in Seq(S)}
  <2>1. 0 \in T
    BY <1>2, <1>3
  <2>2. ASSUME NEW n \in Nat, n \in T PROVE n + 1 \in T
    <3>1. SUFFICES ASSUME n + 2 \in 1 .. Len(s) PROVE f[n + 2] \in Seq(S)
      OBVIOUS
    <3>2. f[n + 1] \in Seq(S) /\ s[n + 2] \in Seq(S)
      BY <2>2, <3>1, <1>3
    <3>3. f[n + 2] = f[n + 1] \o s[n + 2]
      <4>1. n + 2 # 1 /\ (n + 2) - 1 = n + 1
        OBVIOUS
      <4> QED
        BY <4>1, <3>1, <1>2
    <3> QED
      BY <3>2, <3>3, ConcatProperties
  <2> HIDE DEF T
  <2>3. Nat \subseteq T
    BY <2>1, <2>2, Induction
  <2> QED
    <3> TAKE i \in 1 .. Len(s)
    <3>1. i - 1 \in Nat /\ (i - 1) + 1 = i
      OBVIOUS
    <3>2. i - 1 \in T
      BY <3>1, <2>3
    <3> QED
      BY <3>1, <3>2 DEF T
<1>5. flat \in [0 .. Len(s) -> Seq(S)]
  BY <1>4
<1>6. \A i \in Nat : i < Len(s) => flat[i + 1] = flat[i] \o s[i + 1]
  <2> SUFFICES ASSUME NEW i \in Nat, i < Len(s)
               PROVE  flat[i + 1] = flat[i] \o s[i + 1]
    OBVIOUS
  <2>0. i + 1 \in 1 .. Len(s) /\ (i + 1) - 1 = i
    OBVIOUS
  <2>1. CASE i = 0
    <3>1. s[1] \in Seq(S)
      BY <1>3, <2>0, <2>1
    <3>2. flat[1] = s[1] /\ flat[0] = <<>>
      BY <2>0, <2>1, <1>2
    <3> QED
      BY <2>1, <3>1, <3>2, ConcatEmptySeq
  <2>2. CASE i # 0
    <3>0. i + 1 # 1 /\ i \in 0 .. Len(s) /\ i + 1 \in 0 .. Len(s) /\ i + 1 # 0
      BY <2>2, <2>0
    <3>1. f[i + 1] = f[(i + 1) - 1] \o s[i + 1]
      BY <2>0, <3>0, <1>2, Zenon
    <3>2. flat[i + 1] = f[i + 1] /\ flat[i] = f[i]
      BY <2>2, <3>0
    <3> QED
      BY <2>0, <3>1, <3>2, Zenon
  <2> QED
    BY <2>1, <2>2
<1>7. FlattenSeq(s) = flat[Len(s)]
  <2>1. CASE Len(s) = 0
    BY <2>1, <1>1, EmptySeq
  <2>2. CASE Len(s) # 0
    BY <2>2, <1>1
  <2> QED
    BY <2>1, <2>2
<1> HIDE DEF flat
<1>8. flat[0] = <<>>
  BY DEF flat
<1> QED
  BY <1>5, <1>6, <1>7, <1>8

LEMMA FlattenType ==
  ASSUME NEW S, NEW s \in Seq(Seq(S))
  PROVE  FlattenSeq(s) \in Seq(S) /\ (Len(s) = 0 => FlattenSeq(s) = <<>>)
<1>1. PICK flat \in [0 .. Len(s) -> Seq(S)] :
         flat[0] = <<>> /\ FlattenSeq(s) = flat[Len(s)]
  BY FlattenUp, Zenon
<1>2. Len(s) \in Nat
  OBVIOUS
<1>3. 0 \in 0 .. Len(s) /\ Len(s) \in 0 .. Len(s)
  BY <1>2
<1>4. flat[Len(s)] \in Seq(S)
  BY <1>3, Zenon
<1> QED
  BY <1>1, <1>4, Zenon

LEMMA FlattenCons ==
  ASSUME NEW S, NEW x \in Seq(S), NEW s \in Seq(Seq(S))
  PROVE  FlattenSeq(<<x>> \o s) = x \o FlattenSeq(s)
<1> DEFINE t == <<x>> \o s
<1>1. /\ t \in Seq(Seq(S))
      /\ Len(t) = Len(s) + 1
      /\ t[1] = x
      /\ \A i \in 1 .. Len(s) : t[i + 1] = s[i]
  OBVIOUS
<1> HIDE DEF t
<1>2. PICK f \in [0 .. Len(s) -> Seq(S)] :
           /\ f[0] = <<>>
           /\ \A i \in Nat : i < Len(s) => f[i + 1] = f[i] \o s[i + 1]
           /\ FlattenSeq(s) = f[Len(s)]
  BY FlattenUp, Zenon
<1>3. PICK g \in [0 .. Len(t) -> Seq(S)] :
           /\ g[0] = <<>>
           /\ \A i \in Nat : i < Len(t) => g[i + 1] = g[i] \o t[i + 1]
           /\ FlattenSeq(t) = g[Len(t)]
  BY <1>1, FlattenUp, Zenon
<1> DEFINE T == {n \in Nat : n <= Len(s) => g[n + 1] = x \o f[n]}
<1> Len(s) \in Nat
  OBVIOUS
<1>4. 0 \in T
  <2>1. g[1] = g[0] \o t[1]
    <3>1. 0 < Len(t) /\ 0 + 1 = 1
      BY <1>1
    <3> QED
      BY <3>1, <1>3
  <2>2. g[1] = x
    BY <2>1, <1>1, <1>3, ConcatEmptySeq
  <2> QED
    BY <2>2, <1>2, ConcatEmptySeq
<1>5. ASSUME NEW n \in Nat, n \in T PROVE n + 1 \in T
  <2>1. SUFFICES ASSUME n + 1 <= Len(s) PROVE g[n + 2] = x \o f[n + 1]
    OBVIOUS
  <2>2. g[n + 2] = g[n + 1] \o t[n + 2]
    <3>1. n + 1 \in Nat /\ n + 1 < Len(t) /\ (n + 1) + 1 = n + 2
      BY <2>1, <1>1
    <3> QED
      BY <3>1, <1>3
  <2>3. t[n + 2] = s[n + 1] /\ s[n + 1] \in Seq(S)
    BY <2>1, <1>1, ElementOfSeq
  <2>4. g[n + 1] = x \o f[n] /\ f[n] \in Seq(S) /\ f[n + 1] = f[n] \o s[n + 1]
    <3>1. n < Len(s) /\ n \in 0 .. Len(s)
      BY <2>1
    <3>2. g[n + 1] = x \o f[n]
      BY <3>1, <1>5
    <3>3. f[n] \in Seq(S)
      BY <3>1, Zenon
    <3> QED
      BY <3>1, <3>2, <3>3, <1>2
  <2>5. (x \o f[n]) \o s[n + 1] = x \o (f[n] \o s[n + 1])
    <3> DEFINE a == f[n]
               b == s[n + 1]
    <3>1. x \in Seq(S) /\ a \in Seq(S) /\ b \in Seq(S)
      BY <2>3, <2>4, Zenon
    <3> HIDE DEF a, b
    <3>2. (x \o a) \o b = x \o (a \o b)
      BY <3>1, ConcatAssociative, SMTT(30)
    <3> QED
      BY <3>2 DEF a, b
  <2> QED
    BY <2>2, <2>3, <2>4, <2>5, Zenon
<1> HIDE DEF T
<1>6. Nat \subseteq T
  BY <1>4, <1>5, Induction
<1>7. g[Len(s) + 1] = x \o f[Len(s)]
  BY <1>6 DEF T
<1> QED
  BY <1>1, <1>2, <1>3, <1>7 DEF t

\* Where each sequence is in the whole.
LEMMA FlattenAt ==
  ASSUME NEW S, NEW s \in Seq(Seq(S))
  PROVE  \E place \in [0 .. Len(s) -> Nat] :
           /\ place[0] = 0 /\ place[Len(s)] = Len(FlattenSeq(s))
           /\ \A n \in Nat : n < Len(s) =>
                /\ place[n + 1] = place[n] + Len(s[n + 1])
                /\ place[n + 1] <= Len(FlattenSeq(s))
                /\ \A j \in 1 .. Len(s[n + 1]) : FlattenSeq(s)[place[n] + j] = s[n + 1][j]
<1> Len(s) \in Nat
  OBVIOUS
<1>1. PICK flat \in [0 .. Len(s) -> Seq(S)] :
           /\ flat[0] = <<>>
           /\ \A i \in Nat : i < Len(s) => flat[i + 1] = flat[i] \o s[i + 1]
           /\ FlattenSeq(s) = flat[Len(s)]
  BY FlattenUp, Zenon
<1>2. \A i \in 0 .. Len(s) : flat[i] \in Seq(S) /\ Len(flat[i]) \in Nat
  <2> TAKE i \in 0 .. Len(s)
  <2>1. flat[i] \in Seq(S)
    BY Zenon
  <2> QED
    BY <2>1
<1>3. \A i \in Nat : i < Len(s) =>
        /\ s[i + 1] \in Seq(S)
        /\ Len(flat[i + 1]) = Len(flat[i]) + Len(s[i + 1])
        /\ \A j \in 1 .. Len(flat[i]) : flat[i + 1][j] = flat[i][j]
        /\ \A j \in 1 .. Len(s[i + 1]) : flat[i + 1][Len(flat[i]) + j] = s[i + 1][j]
  <2> SUFFICES ASSUME NEW i \in Nat, i < Len(s)
               PROVE  /\ s[i + 1] \in Seq(S)
                      /\ Len(flat[i + 1]) = Len(flat[i]) + Len(s[i + 1])
                      /\ \A j \in 1 .. Len(flat[i]) : flat[i + 1][j] = flat[i][j]
                      /\ \A j \in 1 .. Len(s[i + 1]) : flat[i + 1][Len(flat[i]) + j] = s[i + 1][j]
    BY Zenon
  <2> DEFINE a == flat[i]
             b == s[i + 1]
  <2>1. a \in Seq(S) /\ b \in Seq(S) /\ flat[i + 1] = a \o b
    <3>1. i \in 0 .. Len(s) /\ i + 1 \in 1 .. Len(s)
      OBVIOUS
    <3>2. a \in Seq(S) /\ b \in Seq(S)
      BY <3>1, <1>2, ElementOfSeq
    <3> QED
      BY <3>2, <1>1
  <2> HIDE DEF a, b
  <2>2. /\ Len(a \o b) = Len(a) + Len(b)
        /\ \A j \in 1 .. Len(a) : (a \o b)[j] = a[j]
        /\ \A j \in 1 .. Len(b) : (a \o b)[Len(a) + j] = b[j]
    BY <2>1
  <2> QED
    BY <2>1, <2>2 DEF a, b
<1> DEFINE T == {k \in Nat : k <= Len(s) => \A n \in 0 .. k :
                   /\ Len(flat[n]) <= Len(flat[k])
                   /\ \A j \in 1 .. Len(flat[n]) : flat[k][j] = flat[n][j]}
<1>4. 0 \in T
  BY <1>2
<1>5. ASSUME NEW k \in Nat, k \in T PROVE k + 1 \in T
  <2>1. SUFFICES ASSUME k + 1 <= Len(s), NEW n \in 0 .. k + 1
                 PROVE  /\ Len(flat[n]) <= Len(flat[k + 1])
                        /\ \A j \in 1 .. Len(flat[n]) : flat[k + 1][j] = flat[n][j]
    OBVIOUS
  <2>2. k < Len(s) /\ k <= Len(s) /\ k \in 0 .. Len(s) /\ k + 1 \in 0 .. Len(s)
        /\ n \in 0 .. Len(s) /\ k + 1 \in 1 .. Len(s)
    BY <2>1
  <2>3. /\ Len(flat[k + 1]) = Len(flat[k]) + Len(s[k + 1])
        /\ \A j \in 1 .. Len(flat[k]) : flat[k + 1][j] = flat[k][j]
        /\ s[k + 1] \in Seq(S)
    BY <2>2, <1>3, Zenon
  <2>4. Len(flat[k]) \in Nat /\ Len(flat[k + 1]) \in Nat /\ Len(flat[n]) \in Nat
        /\ Len(s[k + 1]) \in Nat
    BY <2>2, <2>3, <1>2
  <2>5. CASE n = k + 1
    BY <2>4, <2>5
  <2>6. CASE n # k + 1
    <3>1. n \in 0 .. k
      BY <2>6
    <3>2. /\ Len(flat[n]) <= Len(flat[k])
          /\ \A j \in 1 .. Len(flat[n]) : flat[k][j] = flat[n][j]
      BY <3>1, <2>2, <1>5
    <3> DEFINE x == Len(flat[n])
               y == Len(flat[k])
               z == Len(flat[k + 1])
               w == Len(s[k + 1])
    <3>3. /\ x \in Nat /\ y \in Nat /\ z \in Nat /\ w \in Nat /\ x <= y /\ z = y + w
          /\ \A j \in 1 .. x : flat[k][j] = flat[n][j]
          /\ \A j \in 1 .. y : flat[k + 1][j] = flat[k][j]
      BY <3>2, <2>3, <2>4, Zenon
    <3> HIDE DEF x, y, z, w
    <3>4. x <= z /\ \A j \in 1 .. x : j \in 1 .. y
      BY <3>3
    <3>5. \A j \in 1 .. x : flat[k + 1][j] = flat[n][j]
      BY <3>3, <3>4, Zenon
    <3> QED
      BY <3>4, <3>5, Zenon DEF x, z
  <2> QED
    BY <2>5, <2>6
<1> HIDE DEF T
<1>6. Len(s) \in T
  BY <1>4, <1>5, Induction
<1>7. \A n \in 0 .. Len(s) :
         /\ Len(flat[n]) <= Len(FlattenSeq(s))
         /\ \A j \in 1 .. Len(flat[n]) : FlattenSeq(s)[j] = flat[n][j]
  BY <1>1, <1>6 DEF T
<1> DEFINE place == [n \in 0 .. Len(s) |-> Len(flat[n])]
<1>8. place \in [0 .. Len(s) -> Nat] /\ place[0] = 0 /\ place[Len(s)] = Len(FlattenSeq(s))
  BY <1>1, <1>2
<1>9. \A n \in Nat : n < Len(s) =>
         /\ place[n + 1] = place[n] + Len(s[n + 1])
         /\ place[n + 1] <= Len(FlattenSeq(s))
         /\ \A j \in 1 .. Len(s[n + 1]) : FlattenSeq(s)[place[n] + j] = s[n + 1][j]
  <2> SUFFICES ASSUME NEW n \in Nat, n < Len(s)
               PROVE  /\ place[n + 1] = place[n] + Len(s[n + 1])
                      /\ place[n + 1] <= Len(FlattenSeq(s))
                      /\ \A j \in 1 .. Len(s[n + 1]) : FlattenSeq(s)[place[n] + j] = s[n + 1][j]
    BY Zenon
  <2>1. n \in 0 .. Len(s) /\ n + 1 \in 0 .. Len(s)
    OBVIOUS
  <2>2. place[n] = Len(flat[n]) /\ place[n + 1] = Len(flat[n + 1])
    BY <2>1
  <2> HIDE DEF place
  <2>3. /\ s[n + 1] \in Seq(S)
        /\ Len(flat[n + 1]) = Len(flat[n]) + Len(s[n + 1])
        /\ \A j \in 1 .. Len(s[n + 1]) : flat[n + 1][Len(flat[n]) + j] = s[n + 1][j]
    BY <1>3, Zenon
  <2>4. Len(flat[n]) \in Nat /\ Len(s[n + 1]) \in Nat
    BY <2>1, <2>3, <1>2
  <2>5. ASSUME NEW j \in 1 .. Len(s[n + 1])
        PROVE  FlattenSeq(s)[Len(flat[n]) + j] = s[n + 1][j]
    <3> DEFINE x == Len(flat[n])
               y == Len(flat[n + 1])
               w == Len(s[n + 1])
    <3>0. x \in Nat /\ w \in Nat /\ y = x + w /\ j \in 1 .. w
      BY <2>3, <2>4, Zenon
    <3> HIDE DEF x, y, w
    <3>3. x + j \in 1 .. y
      BY <3>0
    <3>1. Len(flat[n]) + j \in 1 .. Len(flat[n + 1])
      BY <3>3, Zenon DEF x, y
    <3>2. FlattenSeq(s)[Len(flat[n]) + j] = flat[n + 1][Len(flat[n]) + j]
      BY <2>1, <3>1, <1>7
    <3> QED
      BY <3>2, <2>3
  <2>6. Len(flat[n + 1]) <= Len(FlattenSeq(s))
    BY <2>1, <1>7
  <2> QED
    BY <2>2, <2>3, <2>5, <2>6
<1> HIDE DEF place
<1> QED
  BY <1>8, <1>9, Zenon

-----------------------------------------------------------------------------
(* A message and its bytes.                                                   *)

Items == [key : Short, type : Short, payload : Seq(Byte)]

MsgType ==
    [next : Seq(Items), property_count : Nat, property_payload_total_length : Nat]

BytesOf(item) == ItemHeader(item) \o item.payload

\* What is counted of a message is what is in it: the length of its bytes is exact.
MsgOK(m) ==
    /\ m \in MsgType
    /\ m.property_count = Len(m.next)
    /\ m.property_count <= PROPERTY_LIMIT
    /\ get_serialized_length(m) = Len(serialize(m))

\* The same of a message that was not put property by property by put.
WellFormed(m) ==
    /\ m \in MsgType
    /\ m.property_count = Len(m.next)
    /\ m.property_count < 65536
    /\ get_serialized_length(m) = Len(serialize(m))

LEMMA OKWellFormed == ASSUME NEW m, MsgOK(m) PROVE WellFormed(m)
  BY MessageAssumption, SMT DEF MsgOK, WellFormed, MsgType

LEMMA Joined ==
  ASSUME NEW s \in Seq(Byte), NEW t \in Seq(Byte)
  PROVE  s \o t \in Seq(Byte) /\ Len(s \o t) = Len(s) + Len(t)
OBVIOUS

LEMMA BytesOfType ==
  ASSUME NEW item \in Items
  PROVE  /\ ItemHeader(item) \in Seq(Byte) /\ Len(ItemHeader(item)) = 8
         /\ BytesOf(item) \in Seq(Byte) /\ Len(BytesOf(item)) = 8 + Len(item.payload)
<1>1. item.key \in Nat /\ item.type \in Nat /\ item.payload \in Seq(Byte)
  BY DEF Items, Short
<1> DEFINE a == LittleEndian(item.key, 2)
           b == LittleEndian(item.type, 2)
           c == LittleEndian(Len(item.payload), 4)
<1>2. a \in Seq(Byte) /\ Len(a) = 2 /\ b \in Seq(Byte) /\ Len(b) = 2
  BY <1>1, LittleEndianType
<1>3. c \in Seq(Byte) /\ Len(c) = 4
  <2>1. Len(item.payload) \in Nat
    BY <1>1
  <2> QED
    BY <2>1, LittleEndianType
<1>4. ItemHeader(item) = a \o b \o c
  BY DEF ItemHeader
<1> HIDE DEF a, b, c
<1>5. a \o b \in Seq(Byte) /\ Len(a \o b) = 4
  <2>1. a \o b \in Seq(Byte) /\ Len(a \o b) = Len(a) + Len(b)
    BY <1>2, Joined, Zenon
  <2> QED
    BY <2>1, <1>2
<1>6. a \o b \o c \in Seq(Byte) /\ Len(a \o b \o c) = 8
  <2>1. a \o b \o c \in Seq(Byte) /\ Len(a \o b \o c) = Len(a \o b) + Len(c)
    BY <1>3, <1>5, Joined, Zenon
  <2> QED
    BY <2>1, <1>3, <1>5
<1>7. ItemHeader(item) \in Seq(Byte) /\ Len(ItemHeader(item)) = 8
  BY <1>4, <1>6, Zenon
<1> QED
  BY <1>1, <1>7, Joined DEF BytesOf

\* The bytes of the items of a list, one after another.
BytesOfAll(list) == FlattenSeq([i \in 1 .. Len(list) |-> BytesOf(list[i])])

LEMMA BytesOfAllType ==
  ASSUME NEW list \in Seq(Items)
  PROVE  /\ [i \in 1 .. Len(list) |-> BytesOf(list[i])] \in Seq(Seq(Byte))
         /\ BytesOfAll(list) \in Seq(Byte)
<1>1. \A i \in 1 .. Len(list) : BytesOf(list[i]) \in Seq(Byte)
  BY BytesOfType, ElementOfSeq
<1>2. [i \in 1 .. Len(list) |-> BytesOf(list[i])] \in Seq(Seq(Byte))
  BY <1>1, Len(list) \in Nat
<1> QED
  BY <1>2, FlattenType DEF BytesOfAll

LEMMA BytesOfNone == BytesOfAll(<<>>) = <<>>
<1>1. <<>> \in Seq(Items) /\ Len(<<>>) = 0
  OBVIOUS
<1>2. [i \in 1 .. Len(<<>>) |-> BytesOf(<<>>[i])] \in Seq(Seq(Byte))
  BY <1>1, BytesOfAllType
<1>3. Len([i \in 1 .. Len(<<>>) |-> BytesOf(<<>>[i])]) = 0
  BY <1>1
<1> QED
  BY <1>2, <1>3, FlattenType DEF BytesOfAll

LEMMA BytesOfCons ==
  ASSUME NEW item \in Items, NEW list \in Seq(Items)
  PROVE  BytesOfAll(<<item>> \o list) = BytesOf(item) \o BytesOfAll(list)
<1> DEFINE bytes == [i \in 1 .. Len(list) |-> BytesOf(list[i])]
           both == <<item>> \o list
<1>1. /\ bytes \in Seq(Seq(Byte)) /\ Len(bytes) = Len(list)
      /\ \A i \in 1 .. Len(list) : bytes[i] = BytesOf(list[i])
  BY BytesOfAllType, Len(list) \in Nat
<1>2. /\ both \in Seq(Items) /\ Len(both) = Len(list) + 1 /\ both[1] = item
      /\ \A i \in 1 .. Len(list) : both[i + 1] = list[i]
  OBVIOUS
<1>3. BytesOfAll(list) = FlattenSeq(bytes)
  BY DEF BytesOfAll
<1> HIDE DEF bytes, both
<1>4. BytesOf(item) \in Seq(Byte)
  BY BytesOfType
<1>5. [i \in 1 .. Len(both) |-> BytesOf(both[i])] = <<BytesOf(item)>> \o bytes
  <2> DEFINE l == [i \in 1 .. Len(both) |-> BytesOf(both[i])]
             r == <<BytesOf(item)>> \o bytes
  <2>1. l \in Seq(Seq(Byte)) /\ Len(l) = Len(list) + 1
    <3>1. l \in Seq(Seq(Byte))
      BY <1>2, BytesOfAllType
    <3>2. Len(l) = Len(both)
      BY <1>2, Len(list) \in Nat
    <3> QED
      BY <3>1, <3>2, <1>2
  <2>2. r \in Seq(Seq(Byte)) /\ Len(r) = Len(list) + 1
    BY <1>1, <1>4
  <2>3. \A i \in 1 .. Len(list) + 1 : l[i] = r[i]
    <3> TAKE i \in 1 .. Len(list) + 1
    <3>1. l[i] = BytesOf(both[i])
      BY <1>2
    <3>2. CASE i = 1
      <4>1. r[1] = BytesOf(item)
        BY <1>1, <1>4
      <4> QED
        BY <3>1, <3>2, <4>1, <1>2
    <3>3. CASE i # 1
      <4>1. i - 1 \in 1 .. Len(list) /\ (i - 1) + 1 = i
        BY <3>3
      <4>2. r[i] = bytes[i - 1]
        BY <4>1, <1>1, <1>4
      <4>3. both[(i - 1) + 1] = list[i - 1] /\ bytes[i - 1] = BytesOf(list[i - 1])
        BY <4>1, <1>1, <1>2
      <4> QED
        BY <3>1, <4>1, <4>2, <4>3
    <3> QED
      BY <3>2, <3>3
  <2> HIDE DEF l, r
  <2>4. l = r
    BY <2>1, <2>2, <2>3, SeqEqual
  <2> QED
    BY <2>4 DEF l, r
<1>6. FlattenSeq(<<BytesOf(item)>> \o bytes) = BytesOf(item) \o FlattenSeq(bytes)
  BY <1>1, <1>4, FlattenCons
<1>7. BytesOfAll(both) = FlattenSeq([i \in 1 .. Len(both) |-> BytesOf(both[i])])
  BY DEF BytesOfAll
<1> QED
  BY <1>3, <1>5, <1>6, <1>7 DEF both

LEMMA SerializeIs ==
  ASSUME NEW m \in MsgType
  PROVE  /\ serialize(m) = LittleEndian(m.property_count, 2) \o BytesOfAll(m.next)
         /\ BytesOfAll(m.next) \in Seq(Byte)
         /\ serialize(m) \in Seq(Byte)
         /\ Len(serialize(m)) = 2 + Len(BytesOfAll(m.next))
<1>1. m.property_count \in Nat /\ m.next \in Seq(Items)
  BY DEF MsgType
<1>2. serialize(m) = LittleEndian(m.property_count, 2) \o BytesOfAll(m.next)
  BY Zenon DEF serialize, BytesOfAll, BytesOf
<1>3. BytesOfAll(m.next) \in Seq(Byte)
  BY <1>1, BytesOfAllType
<1>4. /\ LittleEndian(m.property_count, 2) \in Seq(Byte)
      /\ Len(LittleEndian(m.property_count, 2)) = 2
  BY <1>1, LittleEndianType
<1> QED
  BY <1>2, <1>3, <1>4, Joined

LEMMA NewOK == NewMsg \in MsgType /\ MsgOK(NewMsg)
<1> DEFINE m == NewMsg
<1>1. /\ m.next = <<>> /\ m.property_count = 0 /\ m.property_payload_total_length = 0
      /\ m \in MsgType
  BY DEF NewMsg, MsgType
<1> HIDE DEF m
<1>2. BytesOfAll(m.next) = <<>>
  BY <1>1, BytesOfNone
<1>3. Len(serialize(m)) = 2 + 0
  BY <1>1, <1>2, SerializeIs
<1>4. PROPERTY_LIMIT \in Nat
  BY MessageAssumption
<1> QED
  BY <1>1, <1>3, <1>4 DEF MsgOK, get_serialized_length, m

\* One more property: its header's eight bytes and its payload.
LEMMA PrependLength ==
  ASSUME NEW m, MsgOK(m), NEW item \in Items
  PROVE  /\ Prepend(m, item) \in MsgType
         /\ Prepend(m, item).next = <<item>> \o m.next
         /\ Prepend(m, item).property_count = Len(m.next) + 1
         /\ Len(Prepend(m, item).next) = Len(m.next) + 1
         /\ get_serialized_length(Prepend(m, item)) = Len(serialize(Prepend(m, item)))
<1> DEFINE new == Prepend(m, item)
           len == Len(item.payload)
           all == BytesOfAll(m.next)
<1>1. /\ m \in MsgType /\ m.next \in Seq(Items) /\ m.property_count \in Nat
      /\ m.property_payload_total_length \in Nat
      /\ m.property_count = Len(m.next)
      /\ item.payload \in Seq(Byte)
  BY DEF MsgOK, MsgType, Items
<1>2. len \in Nat /\ <<item>> \o m.next \in Seq(Items)
      /\ Len(<<item>> \o m.next) = Len(m.next) + 1
  BY <1>1
<1> HIDE DEF len
<1>3. /\ new \in MsgType
      /\ new.next = <<item>> \o m.next
      /\ new.property_count = m.property_count + 1
      /\ new.property_payload_total_length = m.property_payload_total_length + len
  BY <1>1, <1>2 DEF Prepend, MsgType, len
<1> HIDE DEF new, all
<1>4. 2 + m.property_payload_total_length + 8 * m.property_count = 2 + Len(all)
  BY <1>1, SerializeIs DEF MsgOK, get_serialized_length, all
<1>5. BytesOfAll(new.next) = BytesOf(item) \o all
  BY <1>1, <1>3, BytesOfCons DEF all
<1>6. /\ BytesOf(item) \in Seq(Byte) /\ Len(BytesOf(item)) = 8 + len
      /\ all \in Seq(Byte)
  BY <1>1, BytesOfType, SerializeIs DEF len, all
<1>7. Len(BytesOf(item) \o all) = (8 + len) + Len(all)
  BY <1>6, Joined
<1>8. Len(serialize(new)) = 2 + ((8 + len) + Len(all))
  BY <1>3, <1>5, <1>7, SerializeIs
<1>9. get_serialized_length(new)
        = 2 + (m.property_payload_total_length + len) + 8 * (m.property_count + 1)
  BY <1>3 DEF get_serialized_length
<1>10. Len(all) \in Nat
  BY <1>6
<1>11. get_serialized_length(new) = Len(serialize(new))
  <2> DEFINE t == m.property_payload_total_length
             c == m.property_count
             a == Len(all)
  <2>2. t \in Nat /\ c \in Nat /\ a \in Nat /\ len \in Nat /\ 2 + t + 8 * c = 2 + a
    BY <1>1, <1>2, <1>4, <1>10
  <2>3. /\ Len(serialize(new)) = 2 + ((8 + len) + a)
        /\ get_serialized_length(new) = 2 + (t + len) + 8 * (c + 1)
    BY <1>8, <1>9
  <2> HIDE DEF t, c, a
  <2>4. 2 + (t + len) + 8 * (c + 1) = 2 + ((8 + len) + a)
    BY <2>2
  <2> QED
    BY <2>3, <2>4
<1> QED
  BY <1>1, <1>2, <1>3, <1>11 DEF new

\* A put leaves the message in order, whether it ends well or not.
LEMMA PutOK ==
  ASSUME NEW m, MsgOK(m), NEW key \in Short, NEW type \in Short, NEW payload \in Seq(Byte)
  PROVE  MsgOK(put(m, key, type, payload).msg)
<1> DEFINE item == Item(key, type, payload)
<1>1. CASE m.property_count = PROPERTY_LIMIT
  BY <1>1 DEF put, Done
<1>2. CASE m.property_count # PROPERTY_LIMIT
  <2>1. item \in Items
    BY DEF Item, Items
  <2>2. put(m, key, type, payload).msg = Prepend(m, item)
    BY <1>2 DEF put, Done
  <2> HIDE DEF item
  <2>3. m.property_count + 1 <= PROPERTY_LIMIT /\ m.property_count = Len(m.next)
    BY <1>2, MessageAssumption DEF MsgOK, MsgType
  <2> QED
    BY <2>1, <2>2, <2>3, PrependLength DEF MsgOK
<1> QED
  BY <1>1, <1>2

LEMMA PutFixedOK ==
  ASSUME NEW m, MsgOK(m), NEW key \in Short, NEW type \in FixedTypes, NEW n \in Nat
  PROVE  MsgOK(PutFixed(m, key, type, n).msg)
<1>1. type \in Short /\ Width[type] \in Nat
  BY SMT DEF FixedTypes, TYPE_INT16, TYPE_DOUBLE, Width, Short
<1>2. LittleEndian(n, Width[type]) \in Seq(Byte)
  BY <1>1, LittleEndianType
<1> QED
  BY <1>1, <1>2, PutOK DEF PutFixed

\* The bytes of a string are bytes.
LEMMA UTF8Type ==
  ASSUME NEW chars \in Seq(Characters)
  PROVE  UTF8(chars) \in Seq(Byte)
<1>1. ASSUME NEW c \in Characters PROVE UTF8Char(c) \in Seq(Byte)
  <2> c \in 1 .. 2047
    BY DEF Characters
  <2>1. CASE c < 128
    <3>1. c \in Byte
      BY <2>1 DEF Byte
    <3> QED
      BY <2>1, <3>1 DEF UTF8Char
  <2>2. CASE ~(c < 128)
    <3>1. c \div 64 \in 0 .. 31 /\ c % 64 \in 0 .. 63
      <4> DEFINE q == c \div 64
                 b == c % 64
      <4>1. c = 64 * q + b /\ b \in 0 .. 63 /\ q \in Int
        OBVIOUS
      <4> HIDE DEF q, b
      <4>2. q \in 0 .. 31
        BY <4>1
      <4> QED
        BY <4>1, <4>2 DEF q, b
    <3>2. 192 + (c \div 64) \in Byte /\ 128 + (c % 64) \in Byte
      BY <3>1 DEF Byte
    <3> QED
      BY <2>2, <3>2 DEF UTF8Char
  <2> QED
    BY <2>1, <2>2
<1>2. \A i \in 1 .. Len(chars) : UTF8Char(chars[i]) \in Seq(Byte)
  <2>1. \A i \in 1 .. Len(chars) : chars[i] \in Characters
    BY ElementOfSeq
  <2> QED
    BY <2>1, <1>1
<1>3. [i \in 1 .. Len(chars) |-> UTF8Char(chars[i])] \in Seq(Seq(Byte))
  BY <1>2, Len(chars) \in Nat
<1> QED
  BY <1>3, FlattenType, Zenon DEF UTF8

-----------------------------------------------------------------------------
(* Messages within a message.                                                 *)

\* Build is a message that was put property by property.
LEMMA BuildIs ==
  ASSUME NEW inner, Len(inner) \in Nat
  PROVE  \E built :
           /\ built = [n \in 0 .. Len(inner) |->
                IF n = 0 THEN NewMsg
                ELSE PutFixed(built[n - 1], inner[n].key, inner[n].type, inner[n].value).msg]
           /\ Build(inner) = built[Len(inner)]
<1> DEFINE built[n \in 0 .. Len(inner)] ==
             IF n = 0 THEN NewMsg
             ELSE PutFixed(built[n - 1], inner[n].key, inner[n].type, inner[n].value).msg
<1>1. FiniteNatInductiveDefHypothesis(built, NewMsg,
         LAMBDA v, n : PutFixed(v, inner[n].key, inner[n].type, inner[n].value).msg,
         0, Len(inner))
  BY DEF FiniteNatInductiveDefHypothesis
<1>2. Build(inner) = built[Len(inner)]
  BY DEF Build
<1> HIDE DEF built
<1>3. FiniteNatInductiveDefConclusion(built, NewMsg,
         LAMBDA v, n : PutFixed(v, inner[n].key, inner[n].type, inner[n].value).msg,
         0, Len(inner))
  BY <1>1, FiniteNatInductiveDef
<1>4. built = [n \in 0 .. Len(inner) |->
                IF n = 0 THEN NewMsg
                ELSE PutFixed(built[n - 1], inner[n].key, inner[n].type, inner[n].value).msg]
  BY <1>3 DEF FiniteNatInductiveDefConclusion
<1> QED
  BY <1>2, <1>4

FixedEntries == [key : Short, type : FixedTypes, value : Nat]

LEMMA BuildOK ==
  ASSUME NEW inner \in Seq(FixedEntries)
  PROVE  MsgOK(Build(inner))
<1> Len(inner) \in Nat
  OBVIOUS
<1>1. PICK built :
           /\ built = [n \in 0 .. Len(inner) |->
                IF n = 0 THEN NewMsg
                ELSE PutFixed(built[n - 1], inner[n].key, inner[n].type, inner[n].value).msg]
           /\ Build(inner) = built[Len(inner)]
  BY BuildIs, Zenon
<1>2. \A n \in 0 .. Len(inner) : built[n] =
         IF n = 0 THEN NewMsg
         ELSE PutFixed(built[n - 1], inner[n].key, inner[n].type, inner[n].value).msg
  BY <1>1, Zenon
<1> DEFINE T == {n \in Nat : n <= Len(inner) => MsgOK(built[n])}
<1>3. 0 \in T
  BY <1>2, NewOK
<1>4. ASSUME NEW n \in Nat, n \in T PROVE n + 1 \in T
  <2>1. SUFFICES ASSUME n + 1 <= Len(inner) PROVE MsgOK(built[n + 1])
    OBVIOUS
  <2>2. n + 1 \in 0 .. Len(inner) /\ n + 1 # 0 /\ (n + 1) - 1 = n /\ n + 1 \in 1 .. Len(inner)
    BY <2>1
  <2>3. MsgOK(built[n])
    BY <2>1, <1>4
  <2>4. /\ inner[n + 1].key \in Short /\ inner[n + 1].type \in FixedTypes
        /\ inner[n + 1].value \in Nat
    <3>1. inner[n + 1] \in FixedEntries
      BY <2>2, ElementOfSeq
    <3> QED
      BY <3>1 DEF FixedEntries
  <2>5. built[n + 1] =
          PutFixed(built[n], inner[n + 1].key, inner[n + 1].type, inner[n + 1].value).msg
    BY <2>2, <1>2
  <2> QED
    BY <2>3, <2>4, <2>5, PutFixedOK
<1> HIDE DEF T
<1>5. Nat \subseteq T
  BY <1>3, <1>4, Induction
<1>6. MsgOK(built[Len(inner)])
  BY <1>5 DEF T
<1> QED
  BY <1>1, <1>6

\* put_msg_array never ends well: the count's four bytes are left out of the
\* length, and the bytes that are put are as many as the length.
LEMMA ArrayNever ==
  ASSUME NEW m, NEW key, NEW inners \in Seq(MsgType),
         \A i \in 1 .. Len(inners) : MsgOK(inners[i])
  PROVE  \/ put_msg_array(m, key, inners) = Done("no space", m)
         \/ \E payload \in Seq(Byte) :
              put_msg_array(m, key, inners) =
                Done("sanity", put(m, key, TYPE_OBJECT_ARR, payload).msg)
<1> Len(inners) \in Nat
  OBVIOUS
<1> DEFINE Sum[n \in 0 .. Len(inners)] ==
             IF n = 0 THEN 0 ELSE Sum[n - 1] + get_serialized_length(inners[n])
           total == Sum[Len(inners)]
           parts == [i \in 1 .. Len(inners) |-> serialize(inners[i])]
           bytes == LittleEndian(Len(inners), 4) \o FlattenSeq(parts)
           short == \E i \in 1 .. Len(inners) :
                      ~HasRoom(total, 4 + Sum[i - 1], get_serialized_length(inners[i]))
<1>1. put_msg_array(m, key, inners) =
        IF short THEN Done("no space", m)
        ELSE IF total # 4 + Sum[Len(inners)]
        THEN Done("sanity", put(m, key, TYPE_OBJECT_ARR, SubSeq(bytes, 1, total)).msg)
        ELSE put(m, key, TYPE_OBJECT_ARR, bytes)
  BY Zenon DEF put_msg_array
<1>2. FiniteNatInductiveDefHypothesis(Sum, 0,
         LAMBDA v, n : v + get_serialized_length(inners[n]), 0, Len(inners))
  BY DEF FiniteNatInductiveDefHypothesis
<1> HIDE DEF Sum
<1>3. FiniteNatInductiveDefConclusion(Sum, 0,
         LAMBDA v, n : v + get_serialized_length(inners[n]), 0, Len(inners))
  BY <1>2, FiniteNatInductiveDef
<1>4. Sum = [n \in 0 .. Len(inners) |->
               IF n = 0 THEN 0 ELSE Sum[n - 1] + get_serialized_length(inners[n])]
  BY <1>3 DEF FiniteNatInductiveDefConclusion
<1>5. \A n \in 0 .. Len(inners) : Sum[n] =
         IF n = 0 THEN 0 ELSE Sum[n - 1] + get_serialized_length(inners[n])
  BY <1>4, Zenon
<1>6. \A i \in 1 .. Len(inners) :
         /\ serialize(inners[i]) \in Seq(Byte)
         /\ get_serialized_length(inners[i]) = Len(serialize(inners[i]))
  BY SerializeIs DEF MsgOK
<1>7. parts \in Seq(Seq(Byte)) /\ Len(parts) = Len(inners)
      /\ \A i \in 1 .. Len(inners) : parts[i] = serialize(inners[i])
  BY <1>6
<1> HIDE DEF parts
<1>8. PICK flat \in [0 .. Len(parts) -> Seq(Byte)] :
           /\ flat[0] = <<>>
           /\ \A i \in Nat : i < Len(parts) => flat[i + 1] = flat[i] \o parts[i + 1]
           /\ FlattenSeq(parts) = flat[Len(parts)]
  BY <1>7, FlattenUp, Zenon
<1> DEFINE T == {n \in Nat : n <= Len(inners) => Sum[n] = Len(flat[n])}
<1>9. 0 \in T
  BY <1>5, <1>8
<1>10. ASSUME NEW n \in Nat, n \in T PROVE n + 1 \in T
  <2>1. SUFFICES ASSUME n + 1 <= Len(inners) PROVE Sum[n + 1] = Len(flat[n + 1])
    OBVIOUS
  <2>2. /\ n + 1 \in 0 .. Len(inners) /\ n + 1 # 0 /\ (n + 1) - 1 = n
        /\ n + 1 \in 1 .. Len(inners) /\ n < Len(parts) /\ n \in 0 .. Len(parts)
    BY <2>1, <1>7
  <2>3. Sum[n] = Len(flat[n])
    BY <2>1, <1>10
  <2>4. flat[n] \in Seq(Byte) /\ flat[n + 1] = flat[n] \o parts[n + 1]
    BY <2>2, <1>8
  <2>5. parts[n + 1] \in Seq(Byte) /\ get_serialized_length(inners[n + 1]) = Len(parts[n + 1])
    BY <2>2, <1>6, <1>7
  <2>6. Len(flat[n + 1]) = Len(flat[n]) + Len(parts[n + 1])
    BY <2>4, <2>5, Joined
  <2>7. Sum[n + 1] = Sum[n] + get_serialized_length(inners[n + 1])
    BY <2>2, <1>5
  <2> QED
    BY <2>3, <2>5, <2>6, <2>7
<1> HIDE DEF T
<1>11. Nat \subseteq T
  BY <1>9, <1>10, Induction
<1>12. total = Len(FlattenSeq(parts)) /\ FlattenSeq(parts) \in Seq(Byte) /\ total \in Nat
  <2>1. Sum[Len(inners)] = Len(flat[Len(inners)])
    BY <1>11 DEF T
  <2>2. flat[Len(inners)] \in Seq(Byte)
    BY <1>7
  <2>3. FlattenSeq(parts) = flat[Len(inners)]
    BY <1>7, <1>8
  <2> QED
    BY <2>1, <2>2, <2>3
<1>13. bytes \in Seq(Byte) /\ Len(bytes) = 4 + total
  <2> DEFINE count == LittleEndian(Len(inners), 4)
             all == FlattenSeq(parts)
  <2>1. count \in Seq(Byte) /\ Len(count) = 4
    BY LittleEndianType
  <2>2. all \in Seq(Byte) /\ Len(all) = total
    BY <1>12
  <2>3. bytes = count \o all
    OBVIOUS
  <2> HIDE DEF count, all, bytes, total
  <2>4. count \o all \in Seq(Byte) /\ Len(count \o all) = Len(count) + Len(all)
    BY <2>1, <2>2, Joined, Zenon
  <2> QED
    BY <2>1, <2>2, <2>3, <2>4, Zenon
<1> DEFINE payload == SubSeq(bytes, 1, total)
<1> HIDE DEF bytes, total
<1>14. payload \in Seq(Byte)
  <2>1. \A i \in 1 .. total : bytes[i] \in Byte
    BY <1>12, <1>13, ElementOfSeq
  <2> QED
    BY <1>12, <2>1, SubSeqProperties
<1>15. total # 4 + Sum[Len(inners)]
  BY <1>12 DEF total
<1> HIDE DEF short
<1>16. CASE short
  BY <1>1, <1>16
<1>17. CASE ~short
  <2> HIDE DEF payload
  <2>1. put_msg_array(m, key, inners) =
          Done("sanity", put(m, key, TYPE_OBJECT_ARR, payload).msg)
    BY <1>1, <1>15, <1>17, Zenon DEF payload
  <2> QED
    BY <2>1, <1>14, Zenon
<1> QED
  BY <1>16, <1>17

-----------------------------------------------------------------------------
(* The plugin's messages.                                                     *)

\* What is put: everything but an array.
PutEntries ==
    [key : Keys, type : FixedTypes, value : Numbers]
    \cup [key : Keys, type : {TYPE_STRING}, value : Strings]
    \cup [key : Keys, type : {TYPE_OBJECT}, value : InnerEntries]

\* The item a put makes of an entry.
Payload(entry) ==
    IF entry.type \in FixedTypes THEN LittleEndian(entry.value, Width[entry.type])
    ELSE IF entry.type = TYPE_STRING THEN UTF8(entry.value)
    ELSE serialize(Build(entry.value))

ItemOf(entry) == Item(entry.key, entry.type, Payload(entry))

LEMMA ItemOfParts ==
  ASSUME NEW entry
  PROVE  ItemOf(entry).key = entry.key /\ ItemOf(entry).payload = Payload(entry)
BY DEF ItemOf, Item

\* The message's list is what was put, the last put first.
InOrder ==
    outcome = "ok" =>
        /\ Len(msg.next) = Len(entries)
        /\ \A i \in 1 .. Len(entries) : msg.next[i] = ItemOf(entries[(Len(entries) - i) + 1])

MsgInv == entries \in Seq(PutEntries) /\ MsgOK(msg) /\ InOrder

LEMMA PutsType ==
  /\ \A key \in Keys : key \in Short
  /\ \A n \in Numbers : n \in Nat /\ n \in Short
  /\ \A s \in Strings : s \in Seq(Characters)
<1>1. ASSUME NEW key \in Keys PROVE key \in Short
  BY PutsAssumption, SMT DEF Short
<1>2. ASSUME NEW n \in Numbers PROVE n \in Nat /\ n \in Short
  BY PutsAssumption, SMT DEF Short
<1>3. ASSUME NEW s \in Strings PROVE s \in Seq(Characters)
  BY PutsAssumption, SMT
<1> QED
  BY <1>1, <1>2, <1>3

LEMMA InnerOK == ASSUME NEW inner \in InnerEntries PROVE MsgOK(Build(inner))
<1>1. inner \in Seq(FixedEntries)
  <2>1. CASE inner = <<>>
    BY <2>1
  <2>2. ASSUME NEW k \in Keys, NEW n \in Numbers, inner = <<Entry(k, TYPE_INT16, n)>>
        PROVE  inner \in Seq(FixedEntries)
    <3>1. k \in Short /\ n \in Nat
      BY PutsType
    <3>2. Entry(k, TYPE_INT16, n) \in FixedEntries
      BY <3>1 DEF Entry, FixedEntries, FixedTypes, TYPE_INT16, TYPE_DOUBLE
    <3> QED
      BY <2>2, <3>2
  <2> QED
    BY <2>1, <2>2 DEF InnerEntries
<1> QED
  BY <1>1, BuildOK

\* A put that ends well puts one item before the others.
LEMMA PutIs ==
  ASSUME NEW m, NEW key, NEW type, NEW payload, put(m, key, type, payload).outcome = "ok"
  PROVE  put(m, key, type, payload).msg = Prepend(m, Item(key, type, payload))
<1>1. CASE m.property_count = PROPERTY_LIMIT
  <2>1. put(m, key, type, payload).outcome = "too many properties"
    BY <1>1 DEF put, Done
  <2> QED
    BY <2>1
<1>2. CASE m.property_count # PROPERTY_LIMIT
  BY <1>2 DEF put, Done
<1> QED
  BY <1>1, <1>2

LEMMA PutKeeps ==
  ASSUME MsgInv, NEW entry, NEW done, Put(entry, done), MsgOK(done.msg),
         done.outcome = "ok" => /\ entry \in PutEntries
                                /\ done.msg = Prepend(msg, ItemOf(entry))
  PROVE  MsgInv'
<1>1. MsgOK(msg')
  BY DEF Put
<1>2. CASE done.outcome = "ok"
  <2> DEFINE n == Len(entries)
             list == msg.next
             item == ItemOf(entry)
  <2>1. /\ entry \in PutEntries /\ entries \in Seq(PutEntries) /\ n \in Nat
        /\ entries' = Append(entries, entry) /\ msg' = Prepend(msg, item)
        /\ list \in Seq(Items) /\ Len(list) = n
        /\ \A i \in 1 .. n : list[i] = ItemOf(entries[(n - i) + 1])
    BY <1>2 DEF Put, MsgInv, MsgOK, MsgType, InOrder
  <2>2. /\ entries' \in Seq(PutEntries) /\ Len(entries') = n + 1
        /\ entries'[n + 1] = entry
        /\ \A i \in 1 .. n : entries'[i] = entries[i]
    BY <2>1
  <2>3. msg'.next = <<item>> \o list
    BY <2>1 DEF Prepend
  <2>4. msg'.next \in Seq(Items) /\ Len(msg'.next) = Len(list) + 1
    BY <1>1, <2>1, <2>3 DEF MsgOK, MsgType
  <2> HIDE DEF list, item, n
  <2>5. (<<item>> \o list)[1] = item /\ \A i \in 1 .. n : (<<item>> \o list)[i + 1] = list[i]
    BY <2>1
  <2>6. \A i \in 1 .. n + 1 : msg'.next[i] = ItemOf(entries'[((n + 1) - i) + 1])
    <3> TAKE i \in 1 .. n + 1
    <3>1. CASE i = 1
      <4>1. ((n + 1) - i) + 1 = n + 1
        BY <2>1, <3>1
      <4> QED
        BY <3>1, <4>1, <2>2, <2>3, <2>5 DEF item
    <3>2. CASE i # 1
      <4>1. /\ i - 1 \in 1 .. n /\ (i - 1) + 1 = i
            /\ (n - (i - 1)) + 1 = ((n + 1) - i) + 1 /\ ((n + 1) - i) + 1 \in 1 .. n
        BY <2>1, <3>2
      <4>2. (<<item>> \o list)[(i - 1) + 1] = list[i - 1]
        BY <4>1, <2>5, Zenon
      <4>3. list[i - 1] = ItemOf(entries[(n - (i - 1)) + 1])
        BY <4>1, <2>1, Zenon
      <4>4. entries'[((n + 1) - i) + 1] = entries[((n + 1) - i) + 1]
        BY <4>1, <2>2, Zenon
      <4> QED
        BY <4>1, <4>2, <4>3, <4>4, <2>3, Zenon
    <3> QED
      BY <3>1, <3>2
  <2>7. Len(msg'.next) = Len(entries')
    BY <2>1, <2>2, <2>4
  <2>8. InOrder'
    BY <2>2, <2>6, <2>7, Zenon DEF InOrder
  <2> QED
    BY <1>1, <2>2, <2>8, Zenon DEF MsgInv
<1>3. CASE done.outcome # "ok"
  BY <1>1, <1>3 DEF Put, MsgInv, InOrder
<1> QED
  BY <1>2, <1>3

LEMMA MsgInvInit == MsgInit => MsgInv
<1> SUFFICES ASSUME MsgInit PROVE MsgInv
  OBVIOUS
<1>1. entries = <<>> /\ msg = NewMsg /\ msg.next = <<>> /\ outcome = "ok"
  BY DEF MsgInit, NewMsg
<1>2. MsgOK(msg)
  BY <1>1, NewOK, Zenon
<1>3. Len(msg.next) = Len(entries) /\ Len(entries) = 0
  BY <1>1
<1> QED
  BY <1>1, <1>2, <1>3 DEF MsgInv, InOrder

LEMMA MsgInvNext == MsgInv /\ [MsgNext]_msgVars => MsgInv'
<1> SUFFICES ASSUME MsgInv, [MsgNext]_msgVars PROVE MsgInv'
  OBVIOUS
<1>1. MsgOK(msg)
  BY DEF MsgInv
<1>2. ASSUME NEW key \in Keys, NEW type \in FixedTypes, NEW n \in Numbers,
             PutNumber(key, type, n)
      PROVE  MsgInv'
  <2> DEFINE done == PutFixed(msg, key, type, n)
             entry == Entry(key, type, n)
  <2>1. key \in Short /\ n \in Nat
    BY PutsType
  <2>2. MsgOK(done.msg)
    BY <1>1, <2>1, PutFixedOK
  <2>3. entry \in PutEntries
    BY DEF Entry, PutEntries
  <2>5. done.outcome = "ok" => done.msg = Prepend(msg, ItemOf(entry))
    BY PutIs DEF PutFixed, ItemOf, Payload, Entry
  <2>4. Put(entry, done)
    BY <1>2, Zenon DEF PutNumber
  <2> HIDE DEF entry, done
  <2> QED
    BY <2>2, <2>3, <2>4, <2>5, PutKeeps, Zenon
<1>3. ASSUME NEW key \in Keys, NEW s \in Strings, PutString(key, s)
      PROVE  MsgInv'
  <2> DEFINE done == put_string(msg, key, UTF8(s))
             entry == Entry(key, TYPE_STRING, s)
  <2>1. key \in Short /\ TYPE_STRING \in Short /\ s \in Seq(Characters)
    BY PutsType, SMT DEF TYPE_STRING, Short
  <2>2. MsgOK(done.msg)
    BY <1>1, <2>1, UTF8Type, PutOK DEF put_string
  <2>3. entry \in PutEntries
    BY DEF Entry, PutEntries
  <2>5. done.outcome = "ok" => done.msg = Prepend(msg, ItemOf(entry))
    <3>1. TYPE_STRING \notin FixedTypes
      BY DEF TYPE_STRING, FixedTypes, TYPE_INT16, TYPE_DOUBLE
    <3> QED
      BY <3>1, PutIs DEF put_string, ItemOf, Payload, Entry
  <2>4. Put(entry, done)
    BY <1>3, Zenon DEF PutString
  <2> HIDE DEF entry, done
  <2> QED
    BY <2>2, <2>3, <2>4, <2>5, PutKeeps, Zenon
<1>4. ASSUME NEW key \in Keys, NEW inner \in InnerEntries, PutMsg(key, inner)
      PROVE  MsgInv'
  <2> DEFINE done == put_msg(msg, key, Build(inner))
             entry == Entry(key, TYPE_OBJECT, inner)
  <2>1. key \in Short /\ TYPE_OBJECT \in Short
    BY PutsType, SMT DEF TYPE_OBJECT, Short
  <2>2. serialize(Build(inner)) \in Seq(Byte)
    BY InnerOK, SerializeIs DEF MsgOK
  <2>3. MsgOK(done.msg)
    BY <1>1, <2>1, <2>2, PutOK DEF put_msg
  <2>4. entry \in PutEntries
    BY DEF Entry, PutEntries
  <2>6. done.outcome = "ok" => done.msg = Prepend(msg, ItemOf(entry))
    <3>1. TYPE_OBJECT \notin FixedTypes /\ TYPE_OBJECT # TYPE_STRING
      BY DEF TYPE_OBJECT, TYPE_STRING, FixedTypes, TYPE_INT16, TYPE_DOUBLE
    <3> QED
      BY <3>1, PutIs DEF put_msg, ItemOf, Payload, Entry
  <2>5. Put(entry, done)
    BY <1>4, Zenon DEF PutMsg
  <2> HIDE DEF entry, done
  <2> QED
    BY <2>3, <2>4, <2>5, <2>6, PutKeeps, Zenon
<1>5. ASSUME NEW key \in Keys, NEW inners \in Arrays, PutMsgArray(key, inners)
      PROVE  MsgInv'
  <2> DEFINE built == [i \in 1 .. Len(inners) |-> Build(inners[i])]
             done == put_msg_array(msg, key, built)
             entry == Entry(key, TYPE_OBJECT_ARR, inners)
  <2>1. inners \in Seq(InnerEntries)
    <3>1. CASE inners = <<>>
      BY <3>1
    <3> HIDE DEF built, done, entry
    <3>2. ASSUME NEW a \in InnerEntries, inners = <<a>> \/ inners = <<a, a>>
          PROVE  inners \in Seq(InnerEntries)
      <4>1. <<a>> \in Seq(InnerEntries) /\ <<a, a>> \in Seq(InnerEntries)
        OBVIOUS
      <4> QED
        BY <4>1, <3>2, Zenon
    <3> QED
      BY <3>1, <3>2, Zenon DEF Arrays
  <2>2. \A i \in 1 .. Len(inners) : MsgOK(Build(inners[i]))
    <3> TAKE i \in 1 .. Len(inners)
    <3>1. inners[i] \in InnerEntries
      BY <2>1, ElementOfSeq
    <3> QED
      BY <3>1, InnerOK
  <2>3. /\ built \in Seq(MsgType) /\ Len(built) = Len(inners)
        /\ \A i \in 1 .. Len(built) : MsgOK(built[i])
    BY <2>1, <2>2, Len(inners) \in Nat DEF MsgOK
  <2>4. Put(entry, done)
    BY <1>5, Zenon DEF PutMsgArray
  <2> HIDE DEF built
  <2>5. \/ done = Done("no space", msg)
        \/ \E payload \in Seq(Byte) :
             done = Done("sanity", put(msg, key, TYPE_OBJECT_ARR, payload).msg)
    BY <2>3, ArrayNever, Zenon
  <2> HIDE DEF entry, done
  <2>6. CASE done = Done("no space", msg)
    BY <2>4, <2>6, <1>1, PutKeeps DEF Done
  <2>7. ASSUME NEW payload \in Seq(Byte),
               done = Done("sanity", put(msg, key, TYPE_OBJECT_ARR, payload).msg)
        PROVE  MsgInv'
    <3>1. key \in Short /\ TYPE_OBJECT_ARR \in Short
      BY PutsType, SMT DEF TYPE_OBJECT_ARR, Short
    <3>2. MsgOK(put(msg, key, TYPE_OBJECT_ARR, payload).msg)
      BY <1>1, <3>1, PutOK
    <3>3. done.outcome = "sanity" /\ done.msg = put(msg, key, TYPE_OBJECT_ARR, payload).msg
      BY <2>7, Zenon DEF Done
    <3> QED
      BY <2>4, <3>2, <3>3, PutKeeps
  <2> QED
    BY <2>5, <2>6, <2>7, Zenon
<1>6. CASE Clear
  <2>1. entries' = <<>> /\ msg' = NewMsg /\ msg'.next = <<>>
    BY <1>6 DEF Clear, NewMsg
  <2>2. MsgOK(msg')
    BY <2>1, NewOK, Zenon
  <2>3. Len(msg'.next) = Len(entries') /\ Len(entries') = 0
    BY <2>1
  <2> QED
    BY <2>1, <2>2, <2>3 DEF MsgInv, InOrder
<1>7. CASE UNCHANGED msgVars
  BY <1>7, Zenon DEF MsgInv, InOrder, msgVars
<1> QED
  BY <1>2, <1>3, <1>4, <1>5, <1>6, <1>7, Zenon DEF MsgNext

\* The length a packet's buffer and header are made for is the length of what
\* serialize writes, whatever is put, refused and cleared, for messages of any
\* size and any limit (message_writer.cpp:7-61).
THEOREM LengthCorrect == MsgSpec => []LengthExact
<1>1. MsgInv => LengthExact
  BY DEF MsgInv, MsgOK, LengthExact
<1> QED
  BY MsgInvInit, MsgInvNext, <1>1, PTL DEF MsgSpec

\* No array of messages is ever put, not even an empty one, whatever it holds:
\* put_msg_array leaves the count's four bytes out of the length it allocates
\* (message_writer.cpp:121-152).
THEOREM ArrayRefused ==
  MsgSpec => [](\A i \in 1 .. Len(entries) : entries[i].type # TYPE_OBJECT_ARR)
<1>1. MsgInv => \A i \in 1 .. Len(entries) : entries[i].type # TYPE_OBJECT_ARR
  <2> SUFFICES ASSUME MsgInv, NEW i \in 1 .. Len(entries)
               PROVE  entries[i].type # TYPE_OBJECT_ARR
    OBVIOUS
  <2>1. entries[i] \in PutEntries
    BY ElementOfSeq DEF MsgInv
  <2> QED
    BY <2>1 DEF PutEntries, FixedTypes, TYPE_INT16, TYPE_DOUBLE, TYPE_STRING, TYPE_OBJECT,
             TYPE_OBJECT_ARR
<1> QED
  BY MsgInvInit, MsgInvNext, <1>1, PTL DEF MsgSpec

-----------------------------------------------------------------------------
(* The reader.                                                                *)

States == [ok : BOOLEAN, offset : Nat, msg : MsgType]

Start == [ok |-> TRUE, offset |-> 2, msg |-> NewMsg]

LEMMA SliceIs ==
  ASSUME NEW bytes \in Seq(Byte), NEW offset \in Nat, NEW n \in Nat, Has(bytes, offset, n)
  PROVE  /\ Slice(bytes, offset, n) \in Seq(Byte) /\ Len(Slice(bytes, offset, n)) = n
         /\ \A i \in 1 .. n : Slice(bytes, offset, n)[i] = bytes[offset + i]
<1>1. \A i \in offset + 1 .. offset + n : bytes[i] \in Byte
  <2> TAKE i \in offset + 1 .. offset + n
  <2>1. i \in 1 .. Len(bytes)
    BY DEF Has
  <2> QED
    BY <2>1, ElementOfSeq
<1> DEFINE a == offset + 1
           b == offset + n
<1>2. a \in Int /\ b \in Int /\ b - a + 1 = n /\ (a <= b <=> n # 0)
  OBVIOUS
<1>3. /\ SubSeq(bytes, a, b) \in Seq(Byte)
      /\ Len(SubSeq(bytes, a, b)) = IF a <= b THEN b - a + 1 ELSE 0
      /\ \A i \in 1 .. b - a + 1 : SubSeq(bytes, a, b)[i] = bytes[a + i - 1]
  <2>1. \A i \in a .. b : bytes[i] \in Byte
    BY <1>1
  <2> HIDE DEF a, b
  <2> QED
    BY <1>2, <2>1, SubSeqProperties
<1>4. \A i \in 1 .. n : SubSeq(bytes, a, b)[i] = bytes[offset + i]
  <2> TAKE i \in 1 .. n
  <2>1. a + i - 1 = offset + i
    OBVIOUS
  <2> HIDE DEF a, b
  <2> QED
    BY <1>2, <1>3, <2>1
<1>5. Len(SubSeq(bytes, a, b)) = n
  <2> HIDE DEF a, b
  <2> QED
    BY <1>2, <1>3
<1> QED
  BY <1>3, <1>4, <1>5, Zenon DEF Slice

LEMMA NumberType ==
  ASSUME NEW bytes \in Seq(Byte), Len(bytes) \in {2, 4}
  PROVE  Number(bytes) \in Nat /\ (Len(bytes) = 2 => Number(bytes) \in Short)
<1>1. \A i \in 1 .. Len(bytes) : bytes[i] \in Nat /\ bytes[i] < 256
  <2> TAKE i \in 1 .. Len(bytes)
  <2>1. bytes[i] \in Byte
    BY ElementOfSeq
  <2> QED
    BY <2>1 DEF Byte
<1>2. /\ bytes[1] \in Nat /\ bytes[1] < 256 /\ bytes[2] \in Nat /\ bytes[2] < 256
      /\ Len(bytes) = 4 => bytes[3] \in Nat
  BY <1>1
<1>3. CASE Len(bytes) = 2
  <2>1. ~ \E i \in 4 .. Len(bytes) : bytes[i] # 0
    BY <1>3
  <2>2. Number(bytes) = bytes[1] + 256 * bytes[2] + 0
    BY <2>1, <1>3, SMT DEF Number
  <2> QED
    BY <2>2, <1>2, <1>3, SMT DEF Short
<1>4. CASE Len(bytes) = 4
  <2>1. Number(bytes) = Huge \/ Number(bytes) = bytes[1] + 256 * bytes[2] + 65536 * bytes[3]
    BY <1>4, SMT DEF Number
  <2>2. Huge \in Nat
    BY SMT DEF Huge
  <2> QED
    BY <2>1, <2>2, <1>2, <1>4
<1> QED
  BY <1>3, <1>4

LEMMA NumberAtType ==
  ASSUME NEW bytes \in Seq(Byte), NEW offset \in Nat, NEW n \in {2, 4}, Has(bytes, offset, n)
  PROVE  NumberAt(bytes, offset, n) \in Nat /\ (n = 2 => NumberAt(bytes, offset, n) \in Short)
<1> DEFINE slice == Slice(bytes, offset, n)
<1>1. slice \in Seq(Byte) /\ Len(slice) = n
  BY SliceIs, n \in Nat
<1>2. NumberAt(bytes, offset, n) = Number(slice)
  BY DEF NumberAt
<1> HIDE DEF slice
<1>3. Number(slice) \in Nat /\ (Len(slice) = 2 => Number(slice) \in Short)
  <2>1. Len(slice) \in {2, 4}
    BY <1>1
  <2> QED
    BY <1>1, <2>1, NumberType, Zenon
<1> QED
  BY <1>1, <1>2, <1>3

\* An item's header is there, and its payload.
LEMMA ItemAtType ==
  ASSUME NEW bytes \in Seq(Byte), NEW offset \in Nat, NEW length \in Nat,
         Has(bytes, offset, 8 + length)
  PROVE  /\ ItemAt(bytes, offset, length) \in Items
         /\ Len(ItemAt(bytes, offset, length).payload) = length
<1>1. Has(bytes, offset, 2) /\ Has(bytes, offset + 2, 2) /\ Has(bytes, offset + 8, length)
  BY DEF Has
<1>2. NumberAt(bytes, offset, 2) \in Short /\ NumberAt(bytes, offset + 2, 2) \in Short
  BY <1>1, NumberAtType
<1>3. Slice(bytes, offset + 8, length) \in Seq(Byte) /\ Len(Slice(bytes, offset + 8, length)) = length
  BY <1>1, SliceIs
<1> QED
  BY <1>2, <1>3 DEF ItemAt, Item, Items

LEMMA PrependType ==
  ASSUME NEW m \in MsgType, NEW item \in Items
  PROVE  Prepend(m, item) \in MsgType
<1>1. /\ m.next \in Seq(Items) /\ m.property_count \in Nat
      /\ m.property_payload_total_length \in Nat /\ item.payload \in Seq(Byte)
  BY DEF MsgType, Items
<1>2. <<item>> \o m.next \in Seq(Items) /\ Len(item.payload) \in Nat
  BY <1>1
<1> QED
  BY <1>1, <1>2 DEF Prepend, MsgType

\* A turn of the loop that goes well: what it tested, and where it ends.
LEMMA ReadItemIs ==
  ASSUME NEW bytes \in Seq(Byte), NEW state \in States
  PROVE  /\ ReadItem(bytes, state) \in States
         /\ ReadItem(bytes, state).ok =>
              LET length == NumberAt(bytes, state.offset + 4, 4) IN
              /\ state.ok /\ length \in Nat /\ length <= MAX_PACKET_SIZE
              /\ Has(bytes, state.offset, 8 + length)
              /\ ReadItem(bytes, state) = Took(bytes, state, length)
<1> DEFINE at == state.offset
           length == NumberAt(bytes, at + 4, 4)
           bad == \/ ~state.ok
                  \/ ~Has(bytes, at, 8)
                  \/ length > MAX_PACKET_SIZE
                  \/ ~Has(bytes, at + 8, length)
<1>1. at \in Nat /\ state.ok \in BOOLEAN /\ state.msg \in MsgType
      /\ state = [ok |-> state.ok, offset |-> at, msg |-> state.msg]
  BY DEF States
<1>2. ReadItem(bytes, state) =
        IF bad THEN [state EXCEPT !.ok = FALSE] ELSE Took(bytes, state, length)
  BY Zenon DEF ReadItem
<1>3. CASE bad
  <2>1. [state EXCEPT !.ok = FALSE] \in States /\ [state EXCEPT !.ok = FALSE].ok = FALSE
    BY DEF States
  <2> HIDE DEF bad
  <2> QED
    BY <1>2, <1>3, <2>1
<1>4. CASE ~bad
  <2>1. state.ok /\ Has(bytes, at, 8) /\ Has(bytes, at + 4, 4)
    BY <1>1, <1>4 DEF Has
  <2>2. length \in Nat
    BY <1>1, <2>1, NumberAtType
  <2>3. length <= MAX_PACKET_SIZE /\ Has(bytes, at + 8, length)
    BY <1>4, <2>2, MessageAssumption
  <2>4. Has(bytes, at, 8 + length)
    BY <1>1, <2>2, <2>3 DEF Has
  <2> HIDE DEF length, bad
  <2>5. ItemAt(bytes, at, length) \in Items
    BY <1>1, <2>2, <2>4, ItemAtType
  <2>6. Prepend(state.msg, ItemAt(bytes, at, length)) \in MsgType
    BY <1>1, <2>5, PrependType
  <2>7. Took(bytes, state, length) \in States
    BY <1>1, <2>2, <2>6 DEF Took, States
  <2> QED
    BY <1>2, <1>4, <2>1, <2>2, <2>3, <2>4, <2>7 DEF length
<1> QED
  BY <1>3, <1>4

LEMMA ReadItemOn ==
  ASSUME NEW bytes \in Seq(Byte), NEW state \in States, ReadItem(bytes, state).ok
  PROVE  state.ok
BY ReadItemIs

\* deserialize is its loop.
LEMMA DeserializeIs ==
  ASSUME NEW bytes, Has(bytes, 0, 2), NumberAt(bytes, 0, 2) \in Nat
  PROVE  \E read :
           /\ read[0] = Start
           /\ \A n \in Nat : n < NumberAt(bytes, 0, 2) => read[n + 1] = ReadItem(bytes, read[n])
           /\ deserialize(bytes).ok = (read[NumberAt(bytes, 0, 2)].ok
                                        /\ read[NumberAt(bytes, 0, 2)].offset = Len(bytes))
           /\ deserialize(bytes).msg = read[NumberAt(bytes, 0, 2)].msg
<1> DEFINE count == NumberAt(bytes, 0, 2)
<1> DEFINE read[n \in 0 .. NumberAt(bytes, 0, 2)] ==
             IF n = 0 THEN [ok |-> TRUE, offset |-> 2, msg |-> NewMsg]
             ELSE ReadItem(bytes, read[n - 1])
<1>1. FiniteNatInductiveDefHypothesis(read, [ok |-> TRUE, offset |-> 2, msg |-> NewMsg],
         LAMBDA v, n : ReadItem(bytes, v), 0, NumberAt(bytes, 0, 2))
  BY DEF FiniteNatInductiveDefHypothesis
<1> DEFINE ok == /\ read[NumberAt(bytes, 0, 2)].ok
                 /\ read[NumberAt(bytes, 0, 2)].offset = Len(bytes)
           got == read[NumberAt(bytes, 0, 2)].msg
<1>2. deserialize(bytes) = [ok |-> ok, msg |-> got]
  BY DEF deserialize
<1> HIDE DEF ok, got
<1>8. deserialize(bytes).ok = ok /\ deserialize(bytes).msg = got
  BY <1>2
<1> USE DEF ok, got
<1> HIDE DEF read
<1>3. FiniteNatInductiveDefConclusion(read, [ok |-> TRUE, offset |-> 2, msg |-> NewMsg],
         LAMBDA v, n : ReadItem(bytes, v), 0, NumberAt(bytes, 0, 2))
  BY <1>1, FiniteNatInductiveDef
<1>4. read = [n \in 0 .. count |-> IF n = 0 THEN Start ELSE ReadItem(bytes, read[n - 1])]
  BY <1>3 DEF FiniteNatInductiveDefConclusion, Start
<1>5. \A n \in 0 .. count : read[n] = IF n = 0 THEN Start ELSE ReadItem(bytes, read[n - 1])
  BY <1>4, Zenon
<1> HIDE DEF count
<1>6. read[0] = Start
  BY <1>5 DEF count
<1>7. \A n \in Nat : n < count => read[n + 1] = ReadItem(bytes, read[n])
  <2> SUFFICES ASSUME NEW n \in Nat, n < count PROVE read[n + 1] = ReadItem(bytes, read[n])
    OBVIOUS
  <2>1. n + 1 \in 0 .. count /\ n + 1 # 0 /\ (n + 1) - 1 = n
    BY DEF count
  <2> QED
    BY <2>1, <1>5
<1> QED
  BY <1>6, <1>7, <1>8, Zenon DEF count

LEMMA StartType == Start \in States
  BY NewOK DEF Start, States

LEMMA SameSlice ==
  ASSUME NEW bytes \in Seq(Byte), NEW more \in Seq(Byte),
         NEW offset \in Nat, NEW n \in Nat, Has(bytes, offset, n)
  PROVE  /\ Has(bytes \o more, offset, n)
         /\ Slice(bytes \o more, offset, n) = Slice(bytes, offset, n)
<1> DEFINE all == bytes \o more
<1>1. /\ all \in Seq(Byte) /\ Len(all) = Len(bytes) + Len(more)
      /\ \A i \in 1 .. Len(bytes) : all[i] = bytes[i]
  OBVIOUS
<1> HIDE DEF all
<1>2. Has(all, offset, n)
  BY <1>1 DEF Has
<1>3. \A i \in 1 .. n : all[offset + i] = bytes[offset + i]
  <2> TAKE i \in 1 .. n
  <2>1. offset + i \in 1 .. Len(bytes)
    BY DEF Has
  <2> QED
    BY <2>1, <1>1
<1> DEFINE a == Slice(all, offset, n)
           b == Slice(bytes, offset, n)
<1>4. a \in Seq(Byte) /\ b \in Seq(Byte) /\ Len(a) = n /\ Len(b) = n
  BY <1>1, <1>2, SliceIs
<1>5. \A i \in 1 .. n : a[i] = b[i]
  BY <1>1, <1>2, <1>3, SliceIs
<1> HIDE DEF a, b
<1>6. a = b
  BY <1>4, <1>5, SeqEqual
<1> QED
  BY <1>2, <1>6 DEF a, b, all

\* What is read stays as it is when more bytes follow.
LEMMA SameItem ==
  ASSUME NEW bytes \in Seq(Byte), NEW more \in Seq(Byte), NEW state \in States,
         ReadItem(bytes, state).ok
  PROVE  ReadItem(bytes \o more, state) = ReadItem(bytes, state)
<1> DEFINE all == bytes \o more
           at == state.offset
           length == NumberAt(bytes, at + 4, 4)
<1>1. at \in Nat /\ state.ok
  BY ReadItemIs DEF States
<1>2. /\ length \in Nat /\ length <= MAX_PACKET_SIZE /\ Has(bytes, at, 8 + length)
      /\ ReadItem(bytes, state) = Took(bytes, state, length)
  BY ReadItemIs
<1> HIDE DEF length
<1>3. /\ Has(bytes, at, 2) /\ Has(bytes, at + 2, 2) /\ Has(bytes, at + 4, 4)
      /\ Has(bytes, at, 8) /\ Has(bytes, at + 8, length)
      /\ at + 2 \in Nat /\ at + 4 \in Nat /\ at + 8 \in Nat
  <2> DEFINE size == Len(bytes)
  <2>1. size \in Nat
    OBVIOUS
  <2>2. at + (8 + length) <= size
    BY <1>2 DEF Has
  <2> HIDE DEF at, size
  <2>3. /\ at + 2 <= size /\ at + 2 + 2 <= size /\ at + 4 + 4 <= size
        /\ at + 8 <= size /\ at + 8 + length <= size
        /\ at + 2 \in Nat /\ at + 4 \in Nat /\ at + 8 \in Nat
    BY <1>1, <1>2, <2>1, <2>2
  <2> QED
    BY <2>3, Zenon DEF Has, size
<1>4. /\ Has(all, at, 8) /\ Has(all, at + 8, length)
      /\ Slice(all, at, 2) = Slice(bytes, at, 2)
      /\ Slice(all, at + 2, 2) = Slice(bytes, at + 2, 2)
      /\ Slice(all, at + 4, 4) = Slice(bytes, at + 4, 4)
      /\ Slice(all, at + 8, length) = Slice(bytes, at + 8, length)
  BY <1>1, <1>2, <1>3, SameSlice
<1>5. NumberAt(all, at + 4, 4) = length
  BY <1>4 DEF NumberAt, length
<1>6. Took(all, state, length) = Took(bytes, state, length)
  BY <1>4 DEF Took, ItemAt, NumberAt
<1> HIDE DEF all
<1>7. ReadItem(all, state) = Took(all, state, length)
  <2>1. ~(length > MAX_PACKET_SIZE)
    BY <1>2, MessageAssumption
  <2> QED
    BY <1>1, <1>4, <1>5, <2>1, Zenon DEF ReadItem
<1> QED
  BY <1>2, <1>6, <1>7 DEF all

\* No message is a part of another: bytes that are taken for a message are not
\* taken when anything follows them, and so not when anything is cut from them
\* (message_reader.cpp:23-73). The plugin and the server cannot take a piece of
\* a packet, or two packets, for one.
THEOREM WholeMessage ==
  ASSUME NEW bytes \in Seq(Byte), NEW more \in Seq(Byte), more # <<>>,
         deserialize(bytes).ok
  PROVE  ~deserialize(bytes \o more).ok
<1> DEFINE all == bytes \o more
           count == NumberAt(bytes, 0, 2)
<1>1. all \in Seq(Byte) /\ Len(all) = Len(bytes) + Len(more) /\ Len(more) \in Nat \ {0}
      /\ Len(bytes) \in Nat
  OBVIOUS
<1>2. Has(bytes, 0, 2)
  <2> SUFFICES ASSUME ~Has(bytes, 0, 2) PROVE deserialize(bytes).ok = FALSE
    OBVIOUS
  <2> QED
    BY DEF deserialize
<1>3. count \in Nat
  BY <1>2, NumberAtType
<1>4. Has(all, 0, 2) /\ NumberAt(all, 0, 2) = count
  BY <1>2, SameSlice DEF NumberAt
<1>5. PICK a :
        /\ a[0] = Start
        /\ \A n \in Nat : n < count => a[n + 1] = ReadItem(bytes, a[n])
        /\ deserialize(bytes).ok = (a[count].ok /\ a[count].offset = Len(bytes))
  BY <1>2, <1>3, DeserializeIs, Zenon
<1> HIDE DEF all
<1>6. PICK b :
        /\ b[0] = Start
        /\ \A n \in Nat : n < count => b[n + 1] = ReadItem(all, b[n])
        /\ deserialize(all).ok = (b[count].ok /\ b[count].offset = Len(all))
  <2>1. NumberAt(all, 0, 2) \in Nat
    BY <1>3, <1>4, Zenon
  <2> HIDE DEF count
  <2> QED
    BY <1>4, <2>1, DeserializeIs, Zenon
<1> HIDE DEF count
<1> DEFINE T == {n \in Nat : n <= count =>
                   a[n] \in States /\ (a[n].ok => b[n] = a[n])}
<1>7. 0 \in T
  BY <1>5, <1>6, StartType
<1>8. ASSUME NEW n \in Nat, n \in T PROVE n + 1 \in T
  <2>1. SUFFICES ASSUME n + 1 <= count
                 PROVE  a[n + 1] \in States /\ (a[n + 1].ok => b[n + 1] = a[n + 1])
    OBVIOUS
  <2>2. n < count
    BY <2>1, <1>3
  <2>3. a[n] \in States /\ (a[n].ok => b[n] = a[n])
    BY <2>2, <1>3, <1>8
  <2>4. a[n + 1] = ReadItem(bytes, a[n]) /\ b[n + 1] = ReadItem(all, b[n])
    BY <2>2, <1>5, <1>6
  <2>5. a[n + 1] \in States
    BY <2>3, <2>4, ReadItemIs
  <2>6. ASSUME a[n + 1].ok PROVE b[n + 1] = a[n + 1]
    <3>1. a[n].ok
      BY <2>3, <2>4, <2>6, ReadItemOn, Zenon
    <3>2. ReadItem(all, a[n]) = ReadItem(bytes, a[n])
      BY <2>3, <2>4, <2>6, SameItem DEF all
    <3> QED
      BY <2>3, <2>4, <3>1, <3>2
  <2> QED
    BY <2>5, <2>6
<1> HIDE DEF T
<1>9. count \in T
  BY <1>3, <1>7, <1>8, Induction
<1>10. a[count].ok /\ a[count].offset = Len(bytes)
  BY <1>5, Zenon
<1>11. b[count] = a[count]
  BY <1>3, <1>9, <1>10 DEF T
<1>12. b[count].offset # Len(all)
  BY <1>1, <1>10, <1>11
<1>13. ~deserialize(all).ok
  BY <1>6, <1>12, Zenon
<1> QED
  BY <1>13 DEF all

-----------------------------------------------------------------------------
(* What is written is read back.                                              *)

LEMMA JoinedAt ==
  ASSUME NEW s \in Seq(Byte), NEW t \in Seq(Byte)
  PROVE  /\ s \o t \in Seq(Byte) /\ Len(s \o t) = Len(s) + Len(t)
         /\ \A j \in 1 .. Len(s) : (s \o t)[j] = s[j]
         /\ \A j \in 1 .. Len(t) : (s \o t)[Len(s) + j] = t[j]
OBVIOUS

LEMMA SliceBack ==
  ASSUME NEW bytes \in Seq(Byte), NEW offset \in Nat, NEW t \in Seq(Byte),
         Has(bytes, offset, Len(t)),
         \A j \in 1 .. Len(t) : bytes[offset + j] = t[j]
  PROVE  Slice(bytes, offset, Len(t)) = t
<1> DEFINE n == Len(t)
           slice == Slice(bytes, offset, n)
<1>1. n \in Nat
  OBVIOUS
<1>2. slice \in Seq(Byte) /\ Len(slice) = n /\ \A j \in 1 .. n : slice[j] = bytes[offset + j]
  BY <1>1, SliceIs
<1>3. \A j \in 1 .. n : slice[j] = t[j]
  BY <1>2
<1> HIDE DEF slice
<1>4. slice = t
  BY <1>2, <1>3, SeqEqual
<1> QED
  BY <1>4 DEF slice

\* Where the parts of an item's bytes are.
LEMMA BytesOfAt ==
  ASSUME NEW item \in Items
  PROVE  /\ \A j \in 1 .. 2 : BytesOf(item)[j] = LittleEndian(item.key, 2)[j]
         /\ \A j \in 1 .. 2 : BytesOf(item)[2 + j] = LittleEndian(item.type, 2)[j]
         /\ \A j \in 1 .. 4 : BytesOf(item)[4 + j] = LittleEndian(Len(item.payload), 4)[j]
         /\ \A j \in 1 .. Len(item.payload) : BytesOf(item)[8 + j] = item.payload[j]
<1>1. item.key \in Nat /\ item.type \in Nat /\ item.payload \in Seq(Byte)
      /\ Len(item.payload) \in Nat
  BY DEF Items, Short
<1> DEFINE a == LittleEndian(item.key, 2)
           b == LittleEndian(item.type, 2)
           c == LittleEndian(Len(item.payload), 4)
           d == item.payload
<1>2. /\ a \in Seq(Byte) /\ Len(a) = 2 /\ b \in Seq(Byte) /\ Len(b) = 2
      /\ c \in Seq(Byte) /\ Len(c) = 4 /\ d \in Seq(Byte)
  BY <1>1, LittleEndianType
<1>3. BytesOf(item) = ((a \o b) \o c) \o d
  BY DEF BytesOf, ItemHeader
<1> HIDE DEF a, b, c, d
<1> DEFINE ab == a \o b
<1>4. /\ ab \in Seq(Byte) /\ Len(ab) = 4
      /\ \A j \in 1 .. 2 : ab[j] = a[j]
      /\ \A j \in 1 .. 2 : ab[2 + j] = b[j]
  <2>1. /\ ab \in Seq(Byte) /\ Len(ab) = Len(a) + Len(b)
        /\ \A j \in 1 .. Len(a) : ab[j] = a[j]
        /\ \A j \in 1 .. Len(b) : ab[Len(a) + j] = b[j]
    BY <1>2, JoinedAt, Zenon
  <2> HIDE DEF ab
  <2> QED
    BY <1>2, <2>1
<1> HIDE DEF ab
<1> DEFINE abc == ab \o c
<1>5. /\ abc \in Seq(Byte) /\ Len(abc) = 8
      /\ \A j \in 1 .. 4 : abc[j] = ab[j]
      /\ \A j \in 1 .. 4 : abc[4 + j] = c[j]
  <2>1. /\ abc \in Seq(Byte) /\ Len(abc) = Len(ab) + Len(c)
        /\ \A j \in 1 .. Len(ab) : abc[j] = ab[j]
        /\ \A j \in 1 .. Len(c) : abc[Len(ab) + j] = c[j]
    BY <1>2, <1>4, JoinedAt, Zenon
  <2> HIDE DEF abc
  <2> QED
    BY <1>2, <1>4, <2>1
<1> HIDE DEF abc
<1> DEFINE all == abc \o d
<1>6. /\ \A j \in 1 .. 8 : all[j] = abc[j]
      /\ \A j \in 1 .. Len(d) : all[8 + j] = d[j]
  <2>1. /\ \A j \in 1 .. Len(abc) : all[j] = abc[j]
        /\ \A j \in 1 .. Len(d) : all[Len(abc) + j] = d[j]
    BY <1>2, <1>5, JoinedAt, Zenon
  <2> HIDE DEF all
  <2> QED
    BY <1>5, <2>1
<1> HIDE DEF all
<1>7. BytesOf(item) = all
  BY <1>3 DEF all, abc, ab
<1>8. \A j \in 1 .. 2 : all[j] = a[j]
  BY <1>4, <1>5, <1>6
<1>9. \A j \in 1 .. 2 : all[2 + j] = b[j]
  BY <1>4, <1>5, <1>6
<1>10. \A j \in 1 .. 4 : all[4 + j] = c[j]
  BY <1>5, <1>6
<1> QED
  BY <1>6, <1>7, <1>8, <1>9, <1>10 DEF a, b, c, d

\* Bytes that hold an item's: what is read of them.
LEMMA ItemHere ==
  ASSUME NEW bytes \in Seq(Byte), NEW at \in Nat, NEW item \in Items,
         Len(item.payload) < Huge,
         Has(bytes, at, Len(BytesOf(item))),
         \A j \in 1 .. Len(BytesOf(item)) : bytes[at + j] = BytesOf(item)[j]
  PROVE  /\ Has(bytes, at, 8) /\ Has(bytes, at + 8, Len(item.payload))
         /\ NumberAt(bytes, at, 2) = item.key
         /\ NumberAt(bytes, at + 2, 2) = item.type
         /\ NumberAt(bytes, at + 4, 4) = Len(item.payload)
         /\ Slice(bytes, at + 8, Len(item.payload)) = item.payload
         /\ ItemAt(bytes, at, Len(item.payload)) = item
         /\ Len(BytesOf(item)) = 8 + Len(item.payload)
<1> DEFINE len == Len(item.payload)
           key == LittleEndian(item.key, 2)
           type == LittleEndian(item.type, 2)
           length == LittleEndian(len, 4)
<1>1. /\ at \in Nat /\ item.key \in Nat /\ item.type \in Nat /\ item.payload \in Seq(Byte)
      /\ len \in Nat /\ item = Item(item.key, item.type, item.payload)
  BY DEF Items, Short, Item
<1>2. Len(BytesOf(item)) = 8 + len
  BY BytesOfType
<1>3. /\ key \in Seq(Byte) /\ Len(key) = 2 /\ type \in Seq(Byte) /\ Len(type) = 2
      /\ length \in Seq(Byte) /\ Len(length) = 4
  BY <1>1, LittleEndianType
<1>4. Number(key) = item.key /\ Number(type) = item.type
  <2>1. item.key < 65536 /\ item.type < 65536 /\ item.key < Huge /\ item.type < Huge
    BY SMT DEF Items, Short, Huge
  <2> QED
    BY <1>1, <2>1, NumberBack
<1>5. Number(length) = len
  BY <1>1, NumberBack
<1>6. /\ \A j \in 1 .. 2 : BytesOf(item)[j] = key[j]
      /\ \A j \in 1 .. 2 : BytesOf(item)[2 + j] = type[j]
      /\ \A j \in 1 .. 4 : BytesOf(item)[4 + j] = length[j]
      /\ \A j \in 1 .. len : BytesOf(item)[8 + j] = item.payload[j]
  BY BytesOfAt
<1>16. Has(bytes, at, Len(BytesOf(item)))
       /\ \A j \in 1 .. Len(BytesOf(item)) : bytes[at + j] = BytesOf(item)[j]
  OBVIOUS
<1> HIDE DEF key, type, length, len
<1>7. /\ Has(bytes, at, 2) /\ Has(bytes, at + 2, 2) /\ Has(bytes, at + 4, 4)
      /\ Has(bytes, at, 8) /\ Has(bytes, at + 8, len)
      /\ at + 2 \in Nat /\ at + 4 \in Nat /\ at + 8 \in Nat
  <2>1. at + (8 + len) <= Len(bytes) /\ Len(bytes) \in Nat
    BY <1>2, <1>16 DEF Has
  <2> QED
    BY <1>1, <2>1 DEF Has
<1>8. \A j \in 1 .. 8 + len : bytes[at + j] = BytesOf(item)[j]
  BY <1>2, <1>16, Zenon
<1>9. Slice(bytes, at, 2) = key
  <2>1. \A j \in 1 .. Len(key) : bytes[at + j] = key[j]
    <3> TAKE j \in 1 .. Len(key)
    <3>0. j \in 1 .. 2
      BY <1>3
    <3>1. j \in 1 .. 8 + len
      BY <1>1, <3>0
    <3> QED
      BY <3>0, <3>1, <1>6, <1>8
  <2>2. Has(bytes, at, Len(key)) /\ Len(key) = 2
    BY <1>3, <1>7, Zenon
  <2>3. Slice(bytes, at, Len(key)) = key
    BY <1>1, <1>3, <1>7, <2>1, <2>2, SliceBack, Zenon
  <2> QED
    BY <2>2, <2>3, Zenon
<1>10. Slice(bytes, at + 2, 2) = type
  <2>1. \A j \in 1 .. Len(type) : bytes[(at + 2) + j] = type[j]
    <3> TAKE j \in 1 .. Len(type)
    <3>0. j \in 1 .. 2
      BY <1>3
    <3>1. 2 + j \in 1 .. 8 + len /\ (at + 2) + j = at + (2 + j)
      BY <1>1, <3>0
    <3> QED
      BY <3>0, <3>1, <1>6, <1>8
  <2>2. Has(bytes, at + 2, Len(type)) /\ Len(type) = 2
    BY <1>3, <1>7, Zenon
  <2>3. Slice(bytes, at + 2, Len(type)) = type
    BY <1>1, <1>3, <1>7, <2>1, <2>2, SliceBack, Zenon
  <2> QED
    BY <2>2, <2>3, Zenon
<1>11. Slice(bytes, at + 4, 4) = length
  <2>1. \A j \in 1 .. Len(length) : bytes[(at + 4) + j] = length[j]
    <3> TAKE j \in 1 .. Len(length)
    <3>0. j \in 1 .. 4
      BY <1>3
    <3>1. 4 + j \in 1 .. 8 + len /\ (at + 4) + j = at + (4 + j)
      BY <1>1, <3>0
    <3> QED
      BY <3>0, <3>1, <1>6, <1>8
  <2>2. Has(bytes, at + 4, Len(length)) /\ Len(length) = 4
    BY <1>3, <1>7, Zenon
  <2>3. Slice(bytes, at + 4, Len(length)) = length
    BY <1>1, <1>3, <1>7, <2>1, <2>2, SliceBack, Zenon
  <2> QED
    BY <2>2, <2>3, Zenon
<1>12. Slice(bytes, at + 8, len) = item.payload
  <2>1. len = Len(item.payload)
    BY DEF len
  <2>2. \A j \in 1 .. len : bytes[(at + 8) + j] = item.payload[j]
    <3> TAKE j \in 1 .. len
    <3>1. 8 + j \in 1 .. 8 + len /\ (at + 8) + j = at + (8 + j)
      BY <1>1
    <3> QED
      BY <3>1, <1>6, <1>8
  <2>3. /\ Has(bytes, at + 8, Len(item.payload))
        /\ \A j \in 1 .. Len(item.payload) : bytes[(at + 8) + j] = item.payload[j]
    BY <1>7, <2>1, <2>2, Zenon
  <2>4. Slice(bytes, at + 8, Len(item.payload)) = item.payload
    BY <1>1, <1>7, <2>3, SliceBack, Zenon
  <2> QED
    BY <2>1, <2>4, Zenon
<1>13. /\ NumberAt(bytes, at, 2) = item.key /\ NumberAt(bytes, at + 2, 2) = item.type
       /\ NumberAt(bytes, at + 4, 4) = len
  BY <1>4, <1>5, <1>9, <1>10, <1>11, Zenon DEF NumberAt
<1>14. ItemAt(bytes, at, len) = item
  BY <1>1, <1>12, <1>13, Zenon DEF ItemAt
<1> QED
  BY <1>2, <1>7, <1>12, <1>13, <1>14, Zenon DEF len

LEMMA SmallHuge == ASSUME NEW n \in Nat, n <= MAX_PACKET_SIZE PROVE n < Huge
  BY MessageAssumption, SMT DEF Huge

\* A turn of the loop at an item's bytes reads that item.
LEMMA ItemRead ==
  ASSUME NEW bytes \in Seq(Byte), NEW state \in States, state.ok, NEW item \in Items,
         Len(item.payload) <= MAX_PACKET_SIZE,
         Has(bytes, state.offset, Len(BytesOf(item))),
         \A j \in 1 .. Len(BytesOf(item)) : bytes[state.offset + j] = BytesOf(item)[j]
  PROVE  ReadItem(bytes, state) =
           [ok |-> TRUE, offset |-> state.offset + Len(BytesOf(item)),
            msg |-> Prepend(state.msg, item)]
<1> DEFINE at == state.offset
           len == Len(item.payload)
<1>1. at \in Nat /\ len \in Nat
  BY DEF States, Items
<1>2. len < Huge
  BY <1>1, SmallHuge
<1>3. /\ Has(bytes, at, 8) /\ Has(bytes, at + 8, len)
      /\ NumberAt(bytes, at + 4, 4) = len /\ ItemAt(bytes, at, len) = item
      /\ Len(BytesOf(item)) = 8 + len
  BY <1>1, <1>2, ItemHere
<1> HIDE DEF at, len
<1>4. ~(len > MAX_PACKET_SIZE)
  BY <1>1, MessageAssumption DEF len
<1>5. ReadItem(bytes, state) = Took(bytes, state, len)
  BY <1>3, <1>4, Zenon DEF ReadItem, at
<1>6. at + 8 + len = at + Len(BytesOf(item))
  BY <1>1, <1>3
<1> QED
  BY <1>3, <1>5, <1>6, Zenon DEF Took, at

\* One that is too long it refuses.
LEMMA ItemRefused ==
  ASSUME NEW bytes \in Seq(Byte), NEW state \in States, NEW item \in Items,
         Len(item.payload) < Huge, Len(item.payload) > MAX_PACKET_SIZE,
         Has(bytes, state.offset, Len(BytesOf(item))),
         \A j \in 1 .. Len(BytesOf(item)) : bytes[state.offset + j] = BytesOf(item)[j]
  PROVE  ~ReadItem(bytes, state).ok
<1>1. state.offset \in Nat /\ DOMAIN state = {"ok", "offset", "msg"}
  BY DEF States
<1>2. NumberAt(bytes, state.offset + 4, 4) = Len(item.payload)
  BY <1>1, ItemHere
<1>3. ReadItem(bytes, state) = [state EXCEPT !.ok = FALSE]
  BY <1>2, Zenon DEF ReadItem
<1> QED
  BY <1>1, <1>3

\* No payload is longer than the reader takes.
Small(m) == \A i \in 1 .. Len(m.next) : Len(m.next[i].payload) <= MAX_PACKET_SIZE

\* The message read back: its list is the other way round, for the reader puts
\* what it reads before what it has.
LEMMA ReadBack ==
  ASSUME NEW m, WellFormed(m), Small(m)
  PROVE  /\ deserialize(serialize(m)).ok
         /\ deserialize(serialize(m)).msg = [m EXCEPT !.next = Reverse(m.next)]
<1> DEFINE bytes == serialize(m)
           head == LittleEndian(m.property_count, 2)
           all == BytesOfAll(m.next)
           parts == [i \in 1 .. Len(m.next) |-> BytesOf(m.next[i])]
           N == Len(m.next)
           total == m.property_payload_total_length
<1>1. /\ m \in MsgType /\ m.next \in Seq(Items) /\ N \in Nat /\ m.property_count = N
      /\ total \in Nat /\ N < 65536
      /\ m = [next |-> m.next, property_count |-> m.property_count,
               property_payload_total_length |-> total]
  BY SMT DEF WellFormed, MsgType
<1>2. /\ bytes = head \o all /\ all \in Seq(Byte) /\ bytes \in Seq(Byte)
      /\ Len(bytes) = 2 + Len(all)
  BY <1>1, SerializeIs
<1>3. head \in Seq(Byte) /\ Len(head) = 2 /\ Number(head) = N
  <2>1. N \in Nat /\ N < Huge /\ N < 65536 /\ head = LittleEndian(N, 2)
    BY <1>1, SMT DEF Huge
  <2> HIDE DEF N, head
  <2>2. LittleEndian(N, 2) \in Seq(Byte) /\ Len(LittleEndian(N, 2)) = 2
    <3>1. N \in Nat /\ 2 \in Nat
      BY <2>1
    <3> QED
      BY <3>1, LittleEndianType, Zenon
  <2>3. Number(LittleEndian(N, 2)) = N
    BY <2>1, NumberBack
  <2> QED
    BY <2>1, <2>2, <2>3
<1>4. /\ parts \in Seq(Seq(Byte)) /\ Len(parts) = N
      /\ \A i \in 1 .. N : parts[i] = BytesOf(m.next[i])
      /\ all = FlattenSeq(parts)
  <2>1. parts \in Seq(Seq(Byte))
    BY <1>1, BytesOfAllType
  <2>2. Len(parts) = N /\ \A i \in 1 .. N : parts[i] = BytesOf(m.next[i])
    BY <1>1
  <2>3. all = FlattenSeq(parts)
    BY DEF BytesOfAll
  <2> QED
    BY <2>1, <2>2, <2>3, Zenon
<1>5. 2 + total + 8 * N = 2 + Len(all)
  BY <1>1, <1>2 DEF WellFormed, get_serialized_length
<1> HIDE DEF bytes, head, all, parts, total
<1>6. PICK place \in [0 .. Len(parts) -> Nat] :
           /\ place[0] = 0 /\ place[Len(parts)] = Len(FlattenSeq(parts))
           /\ \A n \in Nat : n < Len(parts) =>
                /\ place[n + 1] = place[n] + Len(parts[n + 1])
                /\ place[n + 1] <= Len(FlattenSeq(parts))
                /\ \A j \in 1 .. Len(parts[n + 1]) :
                      FlattenSeq(parts)[place[n] + j] = parts[n + 1][j]
  BY <1>4, FlattenAt, Zenon
<1>7. /\ \A n \in 0 .. N : place[n] \in Nat
      /\ place[0] = 0 /\ place[N] = Len(all)
      /\ \A n \in Nat : n < N =>
           /\ place[n + 1] = place[n] + Len(parts[n + 1])
           /\ place[n + 1] <= Len(all)
           /\ \A j \in 1 .. Len(parts[n + 1]) : all[place[n] + j] = parts[n + 1][j]
  BY <1>4, <1>6, Zenon
<1>8. Has(bytes, 0, 2) /\ NumberAt(bytes, 0, 2) = N
  <2>1. Has(bytes, 0, 2)
    BY <1>2 DEF Has
  <2>2. \A j \in 1 .. Len(head) : bytes[0 + j] = head[j]
    BY <1>2, <1>3, JoinedAt
  <2>3. Slice(bytes, 0, Len(head)) = head
    BY <1>2, <1>3, <2>1, <2>2, SliceBack, Zenon
  <2> QED
    BY <1>3, <2>1, <2>3, Zenon DEF NumberAt
<1>9. PICK read :
        /\ read[0] = Start
        /\ \A n \in Nat : n < N => read[n + 1] = ReadItem(bytes, read[n])
        /\ deserialize(bytes).ok = (read[N].ok /\ read[N].offset = Len(bytes))
        /\ deserialize(bytes).msg = read[N].msg
  <2> HIDE DEF N
  <2>1. NumberAt(bytes, 0, 2) \in Nat
    BY <1>1, <1>8
  <2> QED
    BY <1>8, <2>1, DeserializeIs, Zenon
<1> HIDE DEF N
<1> DEFINE Right(n) ==
      /\ read[n] \in States /\ read[n].ok /\ read[n].offset = 2 + place[n]
      /\ read[n].msg.property_count = n
      /\ Len(read[n].msg.next) = n
      /\ \A i \in 1 .. n : read[n].msg.next[i] = m.next[(n - i) + 1]
      /\ read[n].msg.property_payload_total_length + 8 * n = place[n]
<1> DEFINE T == {n \in Nat : n <= N => Right(n)}
<1>10. 0 \in T
  <2>1. Right(0)
    BY <1>7, <1>9, StartType DEF Start, NewMsg
  <2> HIDE DEF Right
  <2> QED
    BY <2>1
<1>11. ASSUME NEW n \in Nat, n + 1 <= N, Right(n) PROVE Right(n + 1)
  <2> DEFINE item == m.next[n + 1]
             before == read[n].msg
             after == read[n + 1].msg
             len == Len(item.payload)
             sum == before.property_payload_total_length
  <2>1. n < N /\ n + 1 \in 1 .. N /\ n \in 0 .. N
    BY <1>1, <1>11
  <2>2. item \in Items /\ Len(item.payload) <= MAX_PACKET_SIZE
    BY <1>1, <2>1, ElementOfSeq DEF Small, N
  <2>3. parts[n + 1] = BytesOf(item) /\ BytesOf(item) \in Seq(Byte)
        /\ Len(BytesOf(item)) = 8 + len /\ len \in Nat
    <3>1. parts[n + 1] = BytesOf(item)
      BY <1>4, <2>1, Zenon DEF N
    <3>2. len \in Nat
      BY <2>2 DEF Items
    <3>3. BytesOf(item) \in Seq(Byte) /\ Len(BytesOf(item)) = 8 + len
      BY <2>2, BytesOfType, Zenon
    <3> QED
      BY <3>1, <3>2, <3>3
  <2>4. /\ read[n] \in States /\ read[n].ok /\ read[n].offset = 2 + place[n]
        /\ place[n] \in Nat
    BY <1>7, <1>11, <2>1
  <2>5. before \in MsgType /\ before.next \in Seq(Items) /\ sum \in Nat
    BY <2>4 DEF States, MsgType
  <2> HIDE DEF item, len
  <2>6. /\ place[n + 1] = place[n] + Len(BytesOf(item))
        /\ place[n + 1] <= Len(all)
        /\ \A j \in 1 .. Len(BytesOf(item)) : all[place[n] + j] = BytesOf(item)[j]
    BY <1>7, <2>1, <2>3, Zenon
  <2>7. Has(bytes, read[n].offset, Len(BytesOf(item)))
    BY <1>2, <2>3, <2>4, <2>6 DEF Has
  <2>8. \A j \in 1 .. Len(BytesOf(item)) : bytes[read[n].offset + j] = BytesOf(item)[j]
    <3> TAKE j \in 1 .. Len(BytesOf(item))
    <3> DEFINE x == place[n]
               y == Len(BytesOf(item))
               z == Len(all)
    <3>0. /\ x \in Nat /\ y \in Nat /\ z \in Nat /\ x + y <= z /\ j \in 1 .. y
          /\ read[n].offset = 2 + x
      BY <1>2, <2>3, <2>4, <2>6
    <3> HIDE DEF x, y, z
    <3>1. x + j \in 1 .. z /\ (2 + x) + j = 2 + (x + j)
      BY <3>0
    <3> USE DEF x, y, z
    <3>2. \A i \in 1 .. Len(all) : bytes[2 + i] = all[i]
      BY <1>2, <1>3, JoinedAt
    <3> QED
      BY <3>0, <3>1, <3>2, <2>6, Zenon
  <2>9. ReadItem(bytes, read[n]) =
          [ok |-> TRUE, offset |-> read[n].offset + Len(BytesOf(item)),
           msg |-> Prepend(before, item)]
    BY <1>2, <2>2, <2>4, <2>7, <2>8, ItemRead, Zenon DEF item
  <2>10. read[n + 1] = ReadItem(bytes, read[n])
    BY <1>9, <2>1
  <2>11. /\ read[n + 1] \in States
    BY <1>2, <2>4, <2>10, ReadItemIs
  <2>12. read[n + 1].ok /\ read[n + 1].offset = read[n].offset + Len(BytesOf(item))
         /\ after = Prepend(before, item)
    BY <2>9, <2>10
  <2>13. /\ after.next = <<item>> \o before.next
         /\ after.property_count = before.property_count + 1
         /\ after.property_payload_total_length = sum + len
    <3>1. after = Prepend(before, item)
      BY <2>12
    <3> HIDE DEF after, before, item
    <3> QED
      BY <3>1 DEF Prepend, len, sum
  <2>14. read[n + 1].offset = 2 + place[n + 1]
    BY <2>3, <2>4, <2>6, <2>12
  <2>15. /\ before.property_count = n /\ Len(before.next) = n /\ sum + 8 * n = place[n]
         /\ \A i \in 1 .. n : before.next[i] = m.next[(n - i) + 1]
    BY <1>11
  <2>16. item \in Items
    BY <2>2 DEF item
  <2> HIDE DEF before, after, sum, Right
  <2> DEFINE list == before.next
  <2>17. after.property_count = n + 1
    BY <2>13, <2>15
  <2>18. after.property_payload_total_length + 8 * (n + 1) = place[n + 1]
    BY <2>3, <2>4, <2>5, <2>6, <2>13, <2>15
  <2>19. /\ list \in Seq(Items) /\ Len(list) = n /\ after.next = <<item>> \o list
         /\ \A i \in 1 .. n : list[i] = m.next[(n - i) + 1]
    BY <2>5, <2>13, <2>15
  <2> HIDE DEF list
  <2>20. /\ Len(<<item>> \o list) = n + 1
         /\ (<<item>> \o list)[1] = item
         /\ \A i \in 1 .. n : (<<item>> \o list)[i + 1] = list[i]
    BY <2>16, <2>19
  <2>21. \A i \in 1 .. n + 1 : after.next[i] = m.next[((n + 1) - i) + 1]
    <3> TAKE i \in 1 .. n + 1
    <3>1. CASE i = 1
      <4>1. ((n + 1) - i) + 1 = n + 1
        BY <3>1
      <4> QED
        BY <3>1, <4>1, <2>19, <2>20 DEF item
    <3>2. CASE i # 1
      <4>1. i - 1 \in 1 .. n /\ (i - 1) + 1 = i /\ (n - (i - 1)) + 1 = ((n + 1) - i) + 1
        BY <3>2
      <4>2. (<<item>> \o list)[(i - 1) + 1] = list[i - 1]
        BY <4>1, <2>20, Zenon
      <4>3. list[i - 1] = m.next[(n - (i - 1)) + 1]
        BY <4>1, <2>19, Zenon
      <4> QED
        BY <4>1, <4>2, <4>3, <2>19
    <3> QED
      BY <3>1, <3>2
  <2> QED
    BY <2>11, <2>12, <2>14, <2>17, <2>18, <2>19, <2>20, <2>21, Zenon DEF Right, after
<1>12. ASSUME NEW n \in Nat, n \in T PROVE n + 1 \in T
  <2> HIDE DEF Right
  <2>1. SUFFICES ASSUME n + 1 <= N PROVE Right(n + 1)
    OBVIOUS
  <2>2. n <= N
    BY <1>1, <2>1 DEF N
  <2>3. Right(n)
    BY <2>2, <1>12
  <2> QED
    BY <2>1, <2>3, <1>11, Zenon
<1> HIDE DEF T
<1>13. N \in T
  BY <1>1, <1>10, <1>12, Induction
<1>14. Right(N)
  <2> HIDE DEF Right
  <2> QED
    BY <1>1, <1>13 DEF T
<1>15. read[N].ok /\ read[N].offset = Len(bytes)
  BY <1>2, <1>7, <1>14
<1> DEFINE got == read[N].msg
<1>16. /\ got \in MsgType /\ got.property_count = N /\ Len(got.next) = N
       /\ \A i \in 1 .. N : got.next[i] = m.next[(N - i) + 1]
       /\ got.property_payload_total_length + 8 * N = place[N]
  BY <1>14 DEF States
<1> HIDE DEF got, Right
<1>17. got.next = Reverse(m.next)
  <2>1. got.next \in Seq(Items)
    BY <1>16 DEF MsgType
  <2>2. got.next = [i \in 1 .. N |-> m.next[(N - i) + 1]]
    <3> DEFINE list == got.next
    <3>1. list \in Seq(Items) /\ Len(list) = N /\ \A i \in 1 .. N : list[i] = m.next[(N - i) + 1]
      BY <1>16, <2>1
    <3> HIDE DEF list
    <3>2. list = [i \in 1 .. N |-> list[i]]
      BY <3>1
    <3>3. list = [i \in 1 .. N |-> m.next[(N - i) + 1]]
      BY <3>1, <3>2
    <3> QED
      BY <3>3 DEF list
  <2> QED
    BY <2>2 DEF Reverse, N
<1>18. got.property_payload_total_length = total
  <2>1. got.property_payload_total_length \in Nat
    BY <1>16 DEF MsgType
  <2> QED
    BY <1>1, <1>5, <1>7, <1>16, <2>1
<1>19. got = [next |-> got.next, property_count |-> got.property_count,
              property_payload_total_length |-> got.property_payload_total_length]
  BY <1>16 DEF MsgType
<1>20. got = [m EXCEPT !.next = Reverse(m.next)]
  BY <1>1, <1>16, <1>17, <1>18, <1>19
<1> QED
  BY <1>9, <1>15, <1>20, Zenon DEF got, bytes

LEMMA FindFirst ==
  ASSUME NEW m, NEW key, NEW i \in 1 .. Len(m.next), Len(m.next) \in Nat, m.next[i].key = key,
         \A j \in 1 .. i - 1 : m.next[j].key # key
  PROVE  Places(m, key) # {} /\ find(m, key) = m.next[i]
<1> DEFINE P == Places(m, key)
<1>1. i \in P /\ P \subseteq 1 .. Len(m.next)
  BY DEF Places
<1>2. \A j \in P : i <= j
  <2> TAKE j \in P
  <2>1. j \in 1 .. Len(m.next) /\ m.next[j].key = key
    BY DEF Places
  <2>2. j \notin 1 .. i - 1
    BY <2>1
  <2> QED
    BY <2>1, <2>2
<1> DEFINE c == CHOOSE k \in P : \A j \in P : k <= j
<1> HIDE DEF P
<1>3. c \in P /\ \A j \in P : c <= j
  BY <1>1, <1>2, Zenon
<1> HIDE DEF c
<1>4. c <= i /\ i <= c /\ c \in 1 .. Len(m.next)
  BY <1>1, <1>2, <1>3
<1>5. c = i
  BY <1>4
<1>6. find(m, key) = m.next[c]
  BY DEF find, c, P
<1> QED
  BY <1>1, <1>5, <1>6 DEF P

\* What is in a message that the reader takes is no longer than the message.
LEMMA SmallParts ==
  ASSUME NEW m, WellFormed(m), Len(serialize(m)) <= MAX_PACKET_SIZE
  PROVE  Small(m)
<1> DEFINE parts == [i \in 1 .. Len(m.next) |-> BytesOf(m.next[i])]
           all == BytesOfAll(m.next)
           N == Len(m.next)
<1>1. m \in MsgType /\ m.next \in Seq(Items) /\ N \in Nat
  BY DEF WellFormed, MsgType
<1>2. all \in Seq(Byte) /\ Len(serialize(m)) = 2 + Len(all)
  BY <1>1, SerializeIs
<1>3. parts \in Seq(Seq(Byte))
  BY <1>1, BytesOfAllType
<1>4. Len(parts) = N /\ \A i \in 1 .. N : parts[i] = BytesOf(m.next[i])
  BY <1>1
<1>5. all = FlattenSeq(parts)
  BY DEF BytesOfAll
<1> HIDE DEF parts, all
<1>6. PICK place \in [0 .. Len(parts) -> Nat] :
           \A n \in Nat : n < Len(parts) =>
                /\ place[n + 1] = place[n] + Len(parts[n + 1])
                /\ place[n + 1] <= Len(FlattenSeq(parts))
  BY <1>3, FlattenAt, Zenon
<1> SUFFICES ASSUME NEW i \in 1 .. Len(m.next)
             PROVE  Len(m.next[i].payload) <= MAX_PACKET_SIZE
  BY DEF Small
<1> DEFINE n == i - 1
<1>7. n \in Nat /\ n < Len(parts) /\ n + 1 = i /\ n \in 0 .. Len(parts) /\ i \in 1 .. N
  BY <1>1, <1>4
<1>8. m.next[i] \in Items
  BY <1>1, ElementOfSeq
<1> DEFINE len == Len(m.next[i].payload)
<1>9. Len(BytesOf(m.next[i])) = 8 + len /\ len \in Nat
  BY <1>8, BytesOfType DEF Items
<1> HIDE DEF n, len
<1>10. place[i] = place[n] + (8 + len) /\ place[i] <= Len(all) /\ place[n] \in Nat
  <2>1. place[n + 1] = place[n] + Len(parts[n + 1]) /\ place[n + 1] <= Len(FlattenSeq(parts))
    BY <1>6, <1>7, Zenon
  <2>2. place[n] \in Nat
    BY <1>7, Zenon
  <2> QED
    BY <1>4, <1>5, <1>7, <1>9, <2>1, <2>2
<1>11. len <= MAX_PACKET_SIZE
  <2>1. Len(all) \in Nat
    BY <1>2
  <2> QED
    BY <1>2, <1>9, <1>10, <2>1, MessageAssumption
<1> QED
  BY <1>11 DEF len

\* What the getter of an entry's type answers of a message.
ReadsBack(m, entry) ==
    /\ entry.type \in FixedTypes =>
          get_fixed(m, entry.key, entry.type) = Answer(entry.value)
    /\ entry.type = TYPE_STRING =>
          \A room \in Nat : get_string(m, entry.key, room) =
             IF Len(UTF8(entry.value)) <= room THEN Answer(UTF8(entry.value)) ELSE NoAnswer
    /\ entry.type = TYPE_OBJECT =>
          /\ get_msg(m, entry.key).ok
          /\ get_msg(m, entry.key).msg =
                [Build(entry.value) EXCEPT !.next = Reverse(Build(entry.value).next)]

LEMMA GetBack ==
  ASSUME NEW m, NEW entry \in PutEntries, Places(m, entry.key) # {},
         find(m, entry.key) = ItemOf(entry), Len(Payload(entry)) <= MAX_PACKET_SIZE
  PROVE  ReadsBack(m, entry)
<1> DEFINE item == find(m, entry.key)
           payload == Payload(entry)
<1>1. item.type = entry.type /\ item.payload = payload
  BY DEF ItemOf, Item
<1> HIDE DEF item
<1>2. TYPE_STRING \notin FixedTypes /\ TYPE_OBJECT \notin FixedTypes /\ TYPE_OBJECT # TYPE_STRING
  BY DEF TYPE_OBJECT, TYPE_STRING, FixedTypes, TYPE_INT16, TYPE_DOUBLE
<1>3. ASSUME entry.type \in FixedTypes
      PROVE  get_fixed(m, entry.key, entry.type) = Answer(entry.value)
  <2> DEFINE w == Width[entry.type]
  <2>1. w \in {2, 4, 8}
    BY <1>3 DEF Width, FixedTypes, TYPE_INT16, TYPE_DOUBLE
  <2>2. entry.value \in Numbers
    BY <1>2, <1>3 DEF PutEntries
  <2>3. entry.value \in Nat /\ entry.value < 65536 /\ entry.value < Huge
    <3> DEFINE v == entry.value
    <3>1. v \in Short
      BY <2>2, PutsType
    <3> HIDE DEF v
    <3>2. v \in Nat /\ v < 65536 /\ v < Huge
      BY <3>1, SMT DEF Short, Huge
    <3> QED
      BY <3>2 DEF v
  <2>4. payload = LittleEndian(entry.value, w)
    BY <1>3 DEF Payload
  <2> HIDE DEF w, payload
  <2>5. Len(payload) = w
    <3>1. w \in Nat
      BY <2>1
    <3> QED
      BY <2>3, <2>4, <3>1, LittleEndianType
  <2>6. Number(payload) = entry.value
    BY <2>1, <2>3, <2>4, NumberBack
  <2> QED
    BY <1>1, <2>5, <2>6, Zenon DEF get_fixed, item, w
<1>4. ASSUME entry.type = TYPE_STRING, NEW room \in Nat
      PROVE  get_string(m, entry.key, room) =
               IF Len(UTF8(entry.value)) <= room THEN Answer(UTF8(entry.value)) ELSE NoAnswer
  <2>1. payload = UTF8(entry.value)
    BY <1>2, <1>4 DEF Payload
  <2>2. entry.value \in Strings
    BY <1>2, <1>4 DEF PutEntries
  <2>3. Len(payload) \in Nat
    BY <2>1, <2>2, PutsType, UTF8Type
  <2> HIDE DEF payload
  <2>4. Len(payload) >= room + 1 <=> ~(Len(payload) <= room)
    BY <2>3
  <2> QED
    BY <1>1, <1>4, <2>1, <2>4, Zenon DEF get_string, item
<1>5. ASSUME entry.type = TYPE_OBJECT
      PROVE  /\ get_msg(m, entry.key).ok
             /\ get_msg(m, entry.key).msg =
                   [Build(entry.value) EXCEPT !.next = Reverse(Build(entry.value).next)]
  <2>1. payload = serialize(Build(entry.value))
    BY <1>2, <1>5 DEF Payload
  <2>2. entry.value \in InnerEntries
    BY <1>2, <1>5 DEF PutEntries
  <2>3. WellFormed(Build(entry.value))
    BY <2>2, InnerOK, OKWellFormed
  <2>4. Small(Build(entry.value))
    BY <2>1, <2>3, SmallParts
  <2> HIDE DEF payload
  <2>5. get_msg(m, entry.key) = deserialize(payload)
    BY <1>1, <1>5, Zenon DEF get_msg, item
  <2> QED
    BY <2>1, <2>3, <2>4, <2>5, ReadBack
<1> QED
  BY <1>3, <1>4, <1>5 DEF ReadsBack

\* What is put is read back: a message whose puts went well, and whose payloads
\* the reader takes, is read to its end, and every getter answers the value that
\* was put under its key; of two values under one key, the one put first
\* (message_writer.cpp:7-61 and 76-173, message_reader.cpp:23-161).
THEOREM RoundTrip ==
  MsgSpec => [](outcome = "ok" /\ Small(msg) =>
                  /\ deserialize(serialize(msg)).ok
                  /\ \A i \in 1 .. Len(entries) :
                        (\A j \in 1 .. i - 1 : entries[j].key # entries[i].key) =>
                           ReadsBack(deserialize(serialize(msg)).msg, entries[i]))
<1>1. ASSUME MsgInv, outcome = "ok", Small(msg)
      PROVE  /\ deserialize(serialize(msg)).ok
             /\ \A i \in 1 .. Len(entries) :
                   (\A j \in 1 .. i - 1 : entries[j].key # entries[i].key) =>
                      ReadsBack(deserialize(serialize(msg)).msg, entries[i])
  <2> DEFINE read == deserialize(serialize(msg)).msg
             n == Len(entries)
  <2>1. /\ deserialize(serialize(msg)).ok
        /\ read = [msg EXCEPT !.next = Reverse(msg.next)]
    BY <1>1, OKWellFormed, ReadBack DEF MsgInv
  <2>2. /\ msg \in MsgType /\ entries \in Seq(PutEntries) /\ n \in Nat /\ Len(msg.next) = n
        /\ \A i \in 1 .. n : msg.next[i] = ItemOf(entries[(n - i) + 1])
    BY <1>1 DEF MsgInv, MsgOK, InOrder
  <2>3. read.next = Reverse(msg.next)
    BY <2>1, <2>2 DEF MsgType
  <2> HIDE DEF read, n
  <2>4. \A i \in 1 .. n : read.next[i] = ItemOf(entries[i])
    <3> TAKE i \in 1 .. n
    <3>1. (n - i) + 1 \in 1 .. n /\ (n - ((n - i) + 1)) + 1 = i
      BY <2>2
    <3>2. read.next[i] = msg.next[(n - i) + 1]
      BY <2>2, <2>3 DEF Reverse
    <3> QED
      BY <3>1, <3>2, <2>2
  <2>5. Len(read.next) = n
    BY <2>2, <2>3 DEF Reverse
  <2>6. ASSUME NEW i \in 1 .. n, \A j \in 1 .. i - 1 : entries[j].key # entries[i].key
        PROVE  ReadsBack(read, entries[i])
    <3>1. \A j \in 1 .. n : read.next[j].key = entries[j].key
      <4> TAKE j \in 1 .. n
      <4>1. read.next[j] = ItemOf(entries[j])
        BY <2>4, Zenon
      <4>2. ItemOf(entries[j]).key = entries[j].key
        BY ItemOfParts, Zenon
      <4> QED
        BY <4>1, <4>2, Zenon
    <3>2. \A j \in 1 .. i - 1 : read.next[j].key # entries[i].key
      <4> TAKE j \in 1 .. i - 1
      <4>1. j \in 1 .. n
        BY <2>2
      <4> QED
        BY <4>1, <3>1, <2>6
    <3>3. Places(read, entries[i].key) # {} /\ find(read, entries[i].key) = read.next[i]
      <4>1. Len(read.next) \in Nat /\ i \in 1 .. Len(read.next)
        BY <2>2, <2>5
      <4>2. read.next[i].key = entries[i].key
        BY <3>1, Zenon
      <4> QED
        BY <4>1, <4>2, <3>2, FindFirst, Zenon
    <3>4. entries[i] \in PutEntries
      BY <2>2, ElementOfSeq DEF n
    <3>5. Len(Payload(entries[i])) <= MAX_PACKET_SIZE
      <4>1. (n - i) + 1 \in 1 .. n /\ (n - ((n - i) + 1)) + 1 = i
        BY <2>2
      <4>2. msg.next[(n - i) + 1].payload = Payload(entries[i])
        <5>1. msg.next[(n - i) + 1] = ItemOf(entries[(n - ((n - i) + 1)) + 1])
          BY <4>1, <2>2, Zenon
        <5>2. msg.next[(n - i) + 1] = ItemOf(entries[i])
          BY <4>1, <5>1, Zenon
        <5> QED
          BY <5>2, ItemOfParts, Zenon
      <4>3. Len(msg.next[(n - i) + 1].payload) <= MAX_PACKET_SIZE
        BY <4>1, <2>2, <1>1 DEF Small
      <4> QED
        BY <4>2, <4>3
    <3> QED
      BY <2>4, <3>3, <3>4, <3>5, GetBack
  <2> QED
    BY <2>1, <2>6 DEF read, n
<1> QED
  BY MsgInvInit, MsgInvNext, <1>1, PTL DEF MsgSpec

=============================================================================
