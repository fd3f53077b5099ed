--------------------------- MODULE DddPluginProofs --------------------------
(* Proofs about DddPlugin, for any configuration, engine and watched          *)
(* properties.                                                                *)
EXTENDS DddPlugin, SequenceTheorems, FiniteSetTheorems, WellFoundedInduction, TLAPS

-----------------------------------------------------------------------------
(* Numbers and counting: what the proofs about loops rest on.                 *)

\* A set of numbers that is not empty has a least element.
LEMMA Least ==
  ASSUME NEW T, T \subseteq Nat, T # {}
  PROVE  \E x \in T : \A y \in T : x <= y
<1> DEFINE R == {ss \in Nat \X Nat : ss[1] < ss[2]}
<1>1. IsWellFoundedOn(R, Nat)
  BY NatLessThanWellFounded DEF OpToRel
<1>2. PICK x \in T : \A y \in T : <<y, x>> \notin R
  <2> HIDE DEF R
  <2> QED
    BY <1>1, WFMin, Zenon
<1>3. ASSUME NEW y \in T PROVE x <= y
  <2>1. x \in Nat /\ y \in Nat /\ ~ (y < x)
    BY <1>2
  <2> QED
    BY <2>1
<1> QED
  BY <1>3

\* Induction, stated with a set.
LEMMA Induction ==
  ASSUME NEW T, 0 \in T, \A n \in Nat : n \in T => n + 1 \in T
  PROVE  Nat \subseteq T
<1> SUFFICES ASSUME Nat \ T # {} PROVE FALSE
  OBVIOUS
<1>1. PICK x \in Nat \ T : \A y \in Nat \ T : x <= y
  <2>1. Nat \ T \subseteq Nat
    OBVIOUS
  <2> QED
    BY <2>1, Least, Zenon
<1>2. x # 0 /\ x - 1 \in Nat /\ x - 1 \in T
  BY <1>1
<1> QED
  BY <1>1, <1>2

\* Counting the numbers of a set from 1 on.
LEMMA CountUp ==
  ASSUME NEW S, NEW n \in Nat
  PROVE  /\ IsFiniteSet(S \cap (1 .. n)) /\ Cardinality(S \cap (1 .. n)) \in Nat
         /\ n = 0 => Cardinality(S \cap (1 .. n)) = 0
         /\ n # 0 => Cardinality(S \cap (1 .. n)) =
              Cardinality(S \cap (1 .. n - 1)) + (IF n \in S THEN 1 ELSE 0)
<1>1. \A k \in Nat : IsFiniteSet(S \cap (1 .. k)) /\ Cardinality(S \cap (1 .. k)) \in Nat
  <2> TAKE k \in Nat
  <2>1. IsFiniteSet(1 .. k) /\ S \cap (1 .. k) \in SUBSET (1 .. k)
    BY FS_Interval
  <2>2. IsFiniteSet(S \cap (1 .. k))
    BY <2>1, FS_Subset
  <2> QED
    BY <2>2, FS_CardinalityType
<1>2. ASSUME n = 0 PROVE Cardinality(S \cap (1 .. n)) = 0
  <2>1. S \cap (1 .. n) = {}
    BY <1>2
  <2> QED
    BY <2>1, FS_EmptySet
<1>3. ASSUME n # 0 PROVE Cardinality(S \cap (1 .. n)) =
        Cardinality(S \cap (1 .. n - 1)) + (IF n \in S THEN 1 ELSE 0)
  <2> DEFINE T == S \cap (1 .. n - 1)
  <2>1. IsFiniteSet(T) /\ Cardinality(T) \in Nat
    BY <1>1, <1>3
  <2>2. n \notin T
    OBVIOUS
  <2>3. Cardinality(T \cup {n}) = Cardinality(T) + 1
    <3> HIDE DEF T
    <3> QED
      BY <2>1, <2>2, FS_AddElement
  <2>4. CASE n \in S
    <3>1. S \cap (1 .. n) = T \cup {n}
      BY <1>3, <2>4
    <3> QED
      BY <3>1, <2>3, <2>4
  <2>5. CASE n \notin S
    <3>1. S \cap (1 .. n) = T
      BY <1>3, <2>5
    <3>2. Cardinality(S \cap (1 .. n)) = Cardinality(T)
      BY <3>1, Zenon
    <3> HIDE DEF T
    <3>3. Cardinality(T) = Cardinality(T) + 0
      BY <2>1
    <3> QED
      BY <3>2, <3>3, <2>5 DEF T
  <2> QED
    BY <2>4, <2>5
<1> QED
  BY <1>1, <1>2, <1>3

LEMMA CountMonotone ==
  ASSUME NEW S, NEW n \in Nat, NEW m \in 0 .. n
  PROVE  Cardinality(S \cap (1 .. m)) <= Cardinality(S \cap (1 .. n))
<1>1. IsFiniteSet(S \cap (1 .. n))
  BY CountUp
<1>2. S \cap (1 .. m) \in SUBSET (S \cap (1 .. n))
  OBVIOUS
<1> QED
  BY <1>1, <1>2, FS_Subset

-----------------------------------------------------------------------------
(* Loading.                                                                   *)

\* What Load has done at each place, and what it has not.
LoadInv ==
    /\ pc \in {"config", "interfaces", "refused"} => hooks = {} /\ watches = <<>>
    /\ pc \in {"watches", "chat", "online", "loaded"} => CoreHooks \subseteq hooks
    /\ worker \in BOOLEAN /\ (worker <=> pc = "loaded")

LEMMA LoadInit == Init => LoadInv
<1> SUFFICES ASSUME Init PROVE LoadInv
  OBVIOUS
<1>1. worker \in BOOLEAN /\ ~worker
  BY Zenon DEF Init
<1> QED
  BY <1>1 DEF Init, LoadInv

LEMMA LoadStep == ASSUME LoadInv, [Next]_vars PROVE LoadInv'
<1>1. CASE ReadCharacter \/ ReadReturn
  BY <1>1 DEF ReadCharacter, ReadReturn, Read, pluginVars, LoadInv
<1>2. CASE ReadNewline
  BY <1>2 DEF ReadNewline, Read, pluginVars, LoadInv
<1>3. CASE ConfigFails
  BY <1>3 DEF ConfigFails, Goto, pluginVars, LoadInv
<1>4. CASE InitInterfaces
  BY <1>4 DEF InitInterfaces, AddHooks, Goto, pluginVars, LoadInv
<1>5. CASE CreateWatches
  BY <1>5 DEF CreateWatches, LoadInv
<1>6. CASE HookChat
  BY <1>6 DEF HookChat, LoadInv
<1>7. CASE GoOnline
  <2>1. worker' \in BOOLEAN /\ worker'
    BY <1>7, Zenon DEF GoOnline
  <2> QED
    BY <1>7, <2>1 DEF GoOnline, LoadInv
<1>8. CASE UNCHANGED <<pc, pluginVars>>
  BY <1>8 DEF pluginVars, LoadInv
<1>9. \/ ReadCharacter \/ ReadReturn \/ ReadNewline \/ ConfigFails \/ InitInterfaces
      \/ CreateWatches \/ HookChat \/ GoOnline \/ UNCHANGED <<pc, pluginVars>>
  BY DEF Next, Load, HandlePage, HandleQuery, HandleSet, Request, vars
<1> QED
  BY <1>1, <1>2, <1>3, <1>4, <1>5, <1>6, <1>7, <1>8, <1>9

\* A Load that gives up, at whichever step, leaves no hook and no watch, and the
\* worker is started by the last step alone (plugin.cpp:38-69).
THEOREM RefusedCorrect == Spec => []RefusedLeavesNothing
<1>1. LoadInv => RefusedLeavesNothing
  BY DEF LoadInv, RefusedLeavesNothing
<1> QED
  BY <1>1, LoadInit, LoadStep, PTL DEF Spec
-----------------------------------------------------------------------------
(* The pages of commands and variables.                                       *)

LEMMA PageIsLoop ==
  ASSUME Len(cvars) \in Nat, NEW flags, NEW skip
  PROVE  \E page :
            /\ page = [n \in 0 .. Len(cvars) |->
                          IF n = 0 THEN NewPage(skip)
                          ELSE PageTurn(page[n - 1], flags, cvars[n])]
            /\ Page(flags, skip) = page[Len(cvars)]
<1> DEFINE page[n \in 0 .. Len(cvars)] ==
             IF n = 0 THEN NewPage(skip) ELSE PageTurn(page[n - 1], flags, cvars[n])
<1>1. FiniteNatInductiveDefHypothesis(page, NewPage(skip),
         LAMBDA v, n : PageTurn(v, flags, cvars[n]), 0, Len(cvars))
  BY DEF FiniteNatInductiveDefHypothesis
<1>2. Page(flags, skip) = page[Len(cvars)]
  BY DEF Page
<1> HIDE DEF page
<1>3. FiniteNatInductiveDefConclusion(page, NewPage(skip),
         LAMBDA v, n : PageTurn(v, flags, cvars[n]), 0, Len(cvars))
  BY <1>1, FiniteNatInductiveDef
<1>4. page = [n \in 0 .. Len(cvars) |->
                IF n = 0 THEN NewPage(skip) ELSE PageTurn(page[n - 1], flags, cvars[n])]
  BY <1>3 DEF FiniteNatInductiveDefConclusion
<1> QED
  BY <1>2, <1>4

LEMMA AskedUp ==
  ASSUME Len(cvars) \in Nat, NEW flags, NEW n \in 0 .. Len(cvars)
  PROVE  /\ Asked(flags, n) \in Nat
         /\ n = 0 => Asked(flags, n) = 0
         /\ n # 0 => Asked(flags, n) =
              Asked(flags, n - 1) + (IF Listed(cvars[n], flags) THEN 1 ELSE 0)
         /\ \A m \in 0 .. n : Asked(flags, m) <= Asked(flags, n)
<1> DEFINE S == {m \in 1 .. Len(cvars) : Listed(cvars[m], flags)}
<1>1. \A m \in 0 .. Len(cvars) : Asked(flags, m) = Cardinality(S \cap (1 .. m))
  <2> TAKE m \in 0 .. Len(cvars)
  <2>1. {k \in 1 .. m : Listed(cvars[k], flags)} = S \cap (1 .. m)
    OBVIOUS
  <2> QED
    BY <2>1 DEF Asked
<1>2. n # 0 => (n \in S <=> Listed(cvars[n], flags))
  OBVIOUS
<1> HIDE DEF S
<1>3. n \in Nat /\ (n # 0 => n - 1 \in 0 .. Len(cvars))
  OBVIOUS
<1>4. Asked(flags, n) \in Nat /\ (n = 0 => Asked(flags, n) = 0)
  <2>1. /\ Cardinality(S \cap (1 .. n)) \in Nat
        /\ n = 0 => Cardinality(S \cap (1 .. n)) = 0
    BY <1>3, CountUp, Zenon
  <2>2. Asked(flags, n) = Cardinality(S \cap (1 .. n))
    BY <1>1
  <2> QED
    BY <2>1, <2>2, Zenon
<1>5. n # 0 => Asked(flags, n) =
        Asked(flags, n - 1) + (IF Listed(cvars[n], flags) THEN 1 ELSE 0)
  <2> SUFFICES ASSUME n # 0 PROVE Asked(flags, n) =
        Asked(flags, n - 1) + (IF Listed(cvars[n], flags) THEN 1 ELSE 0)
    OBVIOUS
  <2>1. Cardinality(S \cap (1 .. n)) =
          Cardinality(S \cap (1 .. n - 1)) + (IF n \in S THEN 1 ELSE 0)
    BY <1>3, CountUp
  <2>2. /\ Asked(flags, n) = Cardinality(S \cap (1 .. n))
        /\ Asked(flags, n - 1) = Cardinality(S \cap (1 .. n - 1))
    BY <1>1, <1>3
  <2> QED
    BY <2>1, <2>2, <1>2
<1>6. ASSUME NEW m \in 0 .. n PROVE Asked(flags, m) <= Asked(flags, n)
  <2>1. m \in 0 .. Len(cvars)
    BY <1>3
  <2>2. Cardinality(S \cap (1 .. m)) <= Cardinality(S \cap (1 .. n))
    BY <1>3, CountMonotone
  <2> QED
    BY <2>1, <2>2, <1>1
<1> QED
  BY <1>4, <1>5, <1>6

Items == {Serialized(cvars[m]) : m \in 1 .. Len(cvars)}

\* What a page says after the first n commands and variables: what has been
\* skipped, listed and counted is what was asked for among them.
PageAfter(page, flags, skip, n) ==
    LET past == Asked(flags, n) - skip IN
    /\ page \in [offset : Nat, results : Seq(Items), remaining : Nat]
    /\ past <= 0 => page.offset = -past /\ page.results = <<>> /\ page.remaining = 0
    /\ past > 0 => page.offset = 0 /\ Len(page.results) + page.remaining = past
    /\ Len(page.results) <= CVAR_PAGE_LENGTH
    /\ page.remaining > 0 => Len(page.results) = CVAR_PAGE_LENGTH
    /\ \A m \in 1 .. n :
          Listed(cvars[m], flags) /\ Asked(flags, m) - skip \in 1 .. Len(page.results)
            => page.results[Asked(flags, m) - skip] = Serialized(cvars[m])

LEMMA PageStart ==
  ASSUME Len(cvars) \in Nat, NEW flags, NEW skip \in Nat
  PROVE  PageAfter(NewPage(skip), flags, skip, 0)
<1>1. Asked(flags, 0) = 0
  BY AskedUp
<1>2. <<>> \in Seq(Items) /\ Len(<<>>) <= CVAR_PAGE_LENGTH
  BY PluginAssumption
<1> QED
  BY <1>1, <1>2 DEF PageAfter, NewPage

LEMMA PageGoesOn ==
  ASSUME Len(cvars) \in Nat, NEW flags, NEW skip \in Nat, NEW n \in 1 .. Len(cvars),
         NEW page, PageAfter(page, flags, skip, n - 1)
  PROVE  PageAfter(PageTurn(page, flags, cvars[n]), flags, skip, n)
<1> DEFINE cvar == cvars[n]
           a == Asked(flags, n - 1)
           b == Asked(flags, n)
<1>1. n - 1 \in 0 .. Len(cvars) /\ n \in 0 .. Len(cvars) /\ n # 0
  OBVIOUS
<1>2. a \in Nat /\ b = a + (IF Listed(cvar, flags) THEN 1 ELSE 0)
  BY <1>1, AskedUp
<1>3. \A m \in 1 .. n - 1 : Asked(flags, m) \in Nat /\ Asked(flags, m) <= a
  <2> TAKE m \in 1 .. n - 1
  <2>1. m \in 0 .. n - 1 /\ m \in 0 .. Len(cvars)
    OBVIOUS
  <2> QED
    BY <1>1, <2>1, AskedUp
<1>4. Serialized(cvar) \in Items
  BY DEF Items
<1>5. /\ page \in [offset : Nat, results : Seq(Items), remaining : Nat]
      /\ a - skip <= 0 => page.offset = -(a - skip) /\ page.results = <<>> /\ page.remaining = 0
      /\ a - skip > 0 => page.offset = 0 /\ Len(page.results) + page.remaining = a - skip
      /\ Len(page.results) <= CVAR_PAGE_LENGTH
      /\ page.remaining > 0 => Len(page.results) = CVAR_PAGE_LENGTH
  BY DEF PageAfter
<1>6. \A m \in 1 .. n - 1 :
          Listed(cvars[m], flags) /\ Asked(flags, m) - skip \in 1 .. Len(page.results)
            => page.results[Asked(flags, m) - skip] = Serialized(cvars[m])
  BY DEF PageAfter
<1>7. Len(page.results) \in Nat
  BY <1>5
<1> HIDE DEF a, b, cvar
<1>20. CVAR_PAGE_LENGTH \in Nat \ {0}
  BY PluginAssumption
<1>8. CASE ~Listed(cvar, flags)
  <2>1. PageTurn(page, flags, cvar) = page /\ b = a
    BY <1>8, <1>2 DEF PageTurn
  <2>2. \A m \in 1 .. n :
          Listed(cvars[m], flags) /\ Asked(flags, m) - skip \in 1 .. Len(page.results)
            => page.results[Asked(flags, m) - skip] = Serialized(cvars[m])
    BY <1>6, <1>8 DEF cvar
  <2> QED
    BY <2>1, <2>2, <1>5 DEF PageAfter, a, b, cvar
<1>9. CASE Listed(cvar, flags) /\ page.offset > 0
  <2>1. PageTurn(page, flags, cvar) = [page EXCEPT !.offset = @ - 1]
    BY <1>9 DEF PageTurn
  <2>2. b = a + 1 /\ b - skip <= 0 /\ page.offset - 1 = -(b - skip) /\ page.results = <<>>
        /\ page.remaining = 0
    BY <1>9, <1>2, <1>5
  <2>3. PageTurn(page, flags, cvar) = [offset |-> page.offset - 1, results |-> <<>>, remaining |-> 0]
    BY <2>1, <2>2, <1>5
  <2>4. page.offset - 1 \in Nat /\ <<>> \in Seq(Items)
    BY <1>5, <1>9
  <2>5. b - skip \in Int /\ 1 .. Len(<<>>) = {}
    BY <1>2
  <2> QED
    BY <2>2, <2>3, <2>4, <2>5 DEF PageAfter, b, cvar
<1>10. CASE Listed(cvar, flags) /\ ~(page.offset > 0)
  <2>1. b = a + 1 /\ page.offset = 0 /\ b - skip > 0
        /\ Len(page.results) + page.remaining = a - skip
    BY <1>10, <1>2, <1>5
  <2>3. CASE Len(page.results) < CVAR_PAGE_LENGTH
    <3> DEFINE results == Append(page.results, Serialized(cvar))
    <3>1. PageTurn(page, flags, cvar) = [page EXCEPT !.results = results]
      BY <1>10, <2>3 DEF PageTurn
    <3>2. page.remaining = 0 /\ Len(page.results) = a - skip
      BY <1>5, <1>7, <2>1, <1>20, <2>3
    <3>3. PageTurn(page, flags, cvar) = [offset |-> 0, results |-> results, remaining |-> 0]
      BY <3>1, <3>2, <2>1, <1>5
    <3>4. /\ results \in Seq(Items) /\ Len(results) = Len(page.results) + 1
          /\ \A k \in 1 .. Len(page.results) : results[k] = page.results[k]
          /\ results[Len(page.results) + 1] = Serialized(cvar)
      BY <1>4, <1>5, AppendProperties
    <3> HIDE DEF results
    <3>5. ASSUME NEW m \in 1 .. n, Listed(cvars[m], flags),
                 Asked(flags, m) - skip \in 1 .. Len(results)
          PROVE  results[Asked(flags, m) - skip] = Serialized(cvars[m])
      <4>1. CASE m = n
        BY <4>1, <3>2, <3>4, <2>1, <1>2 DEF b, cvar
      <4>2. CASE m # n
        <5>1. m \in 1 .. n - 1
          BY <4>2
        <5>2. Asked(flags, m) \in Nat /\ Asked(flags, m) <= a
          BY <5>1, <1>3
        <5>3. Asked(flags, m) - skip \in 1 .. Len(page.results)
          BY <5>2, <3>5, <3>2, <3>4, <1>2
        <5> QED
          BY <5>1, <5>3, <3>4, <3>5, <1>6
      <4> QED
        BY <4>1, <4>2
    <3> DEFINE next == PageTurn(page, flags, cvar)
    <3>6. /\ next \in [offset : Nat, results : Seq(Items), remaining : Nat]
          /\ next.offset = 0 /\ next.results = results /\ next.remaining = 0
      BY <3>3, <3>4
    <3> HIDE DEF next
    <3>7. b - skip \in Int /\ Len(next.results) + next.remaining = b - skip
          /\ Len(next.results) <= CVAR_PAGE_LENGTH
      BY <3>2, <3>4, <3>6, <2>1, <2>3, <1>2, <1>7, <1>20
    <3>8. PageAfter(next, flags, skip, n)
      BY <3>5, <3>6, <3>7, <2>1 DEF PageAfter, b
    <3> QED
      BY <3>8 DEF next, cvar
  <2>4. CASE ~(Len(page.results) < CVAR_PAGE_LENGTH)
    <3>1. PageTurn(page, flags, cvar) = [page EXCEPT !.remaining = @ + 1]
      BY <1>10, <2>4 DEF PageTurn
    <3>2. PageTurn(page, flags, cvar) = [offset |-> 0, results |-> page.results,
                                         remaining |-> page.remaining + 1]
      BY <3>1, <2>1, <1>5
    <3>3. Len(page.results) = CVAR_PAGE_LENGTH
      BY <2>4, <1>20, <1>7, <1>5
    <3>4. Len(page.results) + (page.remaining + 1) = b - skip /\ page.remaining + 1 \in Nat
      BY <2>1, <1>2, <1>5, <1>7
    <3>5. ASSUME NEW m \in 1 .. n, Listed(cvars[m], flags),
                 Asked(flags, m) - skip \in 1 .. Len(page.results)
          PROVE  page.results[Asked(flags, m) - skip] = Serialized(cvars[m])
      <4>1. m # n
        BY <3>4, <3>5, <1>2, <1>5, <1>7 DEF b
      <4> QED
        BY <4>1, <3>5, <1>6
    <3> DEFINE next == PageTurn(page, flags, cvar)
    <3>6. /\ next \in [offset : Nat, results : Seq(Items), remaining : Nat]
          /\ next.offset = 0 /\ next.results = page.results
          /\ next.remaining = page.remaining + 1
      BY <3>2, <3>4, <1>5
    <3> HIDE DEF next
    <3>7. b - skip \in Int /\ Len(next.results) + next.remaining = b - skip
          /\ Len(next.results) = CVAR_PAGE_LENGTH /\ CVAR_PAGE_LENGTH <= CVAR_PAGE_LENGTH
      BY <3>3, <3>4, <3>6, <1>2, <1>20
    <3>8. PageAfter(next, flags, skip, n)
      BY <3>5, <3>6, <3>7, <2>1 DEF PageAfter, b
    <3> QED
      BY <3>8 DEF next, cvar
  <2> QED
    BY <2>3, <2>4
<1> QED
  BY <1>8, <1>9, <1>10 DEF cvar

\* The loop comes to the end with a page that says so of the whole list.
LEMMA PageAtEnd ==
  ASSUME Len(cvars) \in Nat, NEW flags, NEW skip \in Nat
  PROVE  PageAfter(Page(flags, skip), flags, skip, Len(cvars))
<1>1. PICK page :
        /\ page = [n \in 0 .. Len(cvars) |->
                      IF n = 0 THEN NewPage(skip)
                      ELSE PageTurn(page[n - 1], flags, cvars[n])]
        /\ Page(flags, skip) = page[Len(cvars)]
  BY PageIsLoop
<1> DEFINE T == {n \in Nat : n <= Len(cvars) => PageAfter(page[n], flags, skip, n)}
<1>2. 0 \in T
  <2>1. page[0] = NewPage(skip)
    BY <1>1
  <2> QED
    BY <2>1, PageStart
<1>3. ASSUME NEW n \in Nat, n \in T PROVE n + 1 \in T
  <2> SUFFICES ASSUME n + 1 <= Len(cvars) PROVE PageAfter(page[n + 1], flags, skip, n + 1)
    OBVIOUS
  <2> DEFINE k == n + 1
  <2>1. k \in 1 .. Len(cvars) /\ k - 1 = n
    OBVIOUS
  <2>2. page[k] = PageTurn(page[k - 1], flags, cvars[k])
    BY <1>1, <2>1
  <2>3. PageAfter(page[k - 1], flags, skip, k - 1)
    BY <1>3, <2>1
  <2> HIDE DEF k
  <2>4. PageAfter(page[k], flags, skip, k)
    BY <2>1, <2>2, <2>3, PageGoesOn
  <2> QED
    BY <2>4 DEF k
<1>4. Len(cvars) \in T
  <2> HIDE DEF T
  <2> QED
    BY <1>2, <1>3, Induction
<1> QED
  BY <1>1, <1>4

LEMMA PagesCoverWhole == Len(cvars) \in Nat => PagesCover
<1> SUFFICES ASSUME Len(cvars) \in Nat, NEW flags \in Flags,
                    NEW skip \in 0 .. Asked(flags, Len(cvars))
             PROVE  LET page == Page(flags, skip) IN
                    /\ Len(page.results) + page.remaining = Asked(flags, Len(cvars)) - skip
                    /\ page.remaining > 0 => Len(page.results) = CVAR_PAGE_LENGTH
                    /\ \A n \in 1 .. Len(cvars) :
                          Listed(cvars[n], flags)
                            /\ Asked(flags, n) - skip \in 1 .. Len(page.results)
                            => page.results[Asked(flags, n) - skip] = Serialized(cvars[n])
  BY DEF PagesCover
<1>1. Asked(flags, Len(cvars)) \in Nat
  BY AskedUp
<1>2. PageAfter(Page(flags, skip), flags, skip, Len(cvars))
  BY <1>1, PageAtEnd
<1>3. Len(<<>>) = 0
  OBVIOUS
<1> QED
  BY <1>1, <1>2, <1>3 DEF PageAfter

\* The engine's list stays a sequence.
LEMMA ListInit == Init => \E S : cvars \in Seq(S)
  BY PluginAssumption DEF Init, IsList

LEMMA ListStep ==
  ASSUME \E S : cvars \in Seq(S), [Next]_vars
  PROVE  (\E S : cvars \in Seq(S))'
<1>1. CASE UNCHANGED cvars
  BY <1>1
<1>2. ASSUME NEW name, HandleSet(name) PROVE (\E S : cvars \in Seq(S))'
  <2>1. CASE UNCHANGED cvars
    BY <2>1
  <2>2. CASE ~UNCHANGED cvars
    <3>1. PICK n \in DOMAIN cvars : \E value : cvars' = [cvars EXCEPT ![n].value = value]
      BY <1>2, <2>2 DEF HandleSet, Named
    <3>2. PICK value : cvars' = [cvars EXCEPT ![n].value = value]
      BY <3>1
    <3> DEFINE cvar == [cvars[n] EXCEPT !.value = value]
    <3>3. cvars' = [cvars EXCEPT ![n] = cvar]
      BY <3>2
    <3>4. PICK S : cvars \in Seq(S)
      OBVIOUS
    <3>5. cvars \in Seq(S \cup {cvar})
      BY <3>4, SeqMonotonic
    <3> HIDE DEF cvar
    <3>6. n \in 1 .. Len(cvars)
      BY <3>5
    <3>7. cvars' \in Seq(S \cup {cvar})
      BY <3>3, <3>5, <3>6, ExceptSeq
    <3> QED
      BY <3>7
  <2> QED
    BY <2>1, <2>2
<1>3. UNCHANGED cvars \/ \E name : HandleSet(name)
  BY DEF Next, Load, ReadCharacter, ReadReturn, ReadNewline, Read, ConfigFails, Goto,
     InitInterfaces, AddHooks, CreateWatches, HookChat, GoOnline, HandlePage, HandleQuery,
     engineVars, vars
<1> QED
  BY <1>1, <1>2, <1>3

\* The pages asked for one behind the other show everything asked for once, in
\* order, and tell what is to come, for any list, page length and flags
\* (plugin.cpp:292-324).
THEOREM PagesCorrect == Spec => []PagesCover
<1> DEFINE List == \E S : cvars \in Seq(S)
<1>1. Init => List
  BY ListInit
<1>2. List /\ [Next]_vars => List'
  BY ListStep
<1>3. List => PagesCover
  <2>1. List => Len(cvars) \in Nat
    BY LenProperties
  <2> QED
    BY <2>1, PagesCoverWhole
<1> HIDE DEF List
<1> QED
  BY <1>1, <1>2, <1>3, PTL DEF Spec

-----------------------------------------------------------------------------
(* Searching the engine's tables. A table is nested in those before it, so    *)
(* recursion and induction go from the last table to the first.               *)

Inner(S) == {pair \in S \X S : pair[1] > pair[2]}

LEMMA InnerDef ==
  ASSUME NEW S, NEW x \in S, NEW y \in S
  PROVE  /\ <<y, x>> \in Inner(S) <=> y > x
         /\ y \in SetLessThan(x, Inner(S), S) <=> y > x
BY DEF Inner, SetLessThan

LEMMA InnerWellFounded ==
  ASSUME NEW L \in Nat
  PROVE  IsWellFoundedOn(Inner(1 .. L), 1 .. L)
<1>1. ASSUME NEW T \in SUBSET (1 .. L), T # {}
      PROVE  \E x \in T : \A y \in T : <<y, x>> \notin Inner(1 .. L)
  <2> DEFINE D == {L - t : t \in T}
  <2>1. D \subseteq Nat /\ D # {}
    <3>1. D # {}
      BY <1>1, Zenon
    <3>2. ASSUME NEW t \in T PROVE L - t \in Nat
      <4>1. t \in 1 .. L
        OBVIOUS
      <4> QED
        BY <4>1
    <3> QED
      BY <3>1, <3>2, Zenon
  <2>2. PICK d \in D : \A e \in D : d <= e
    <3> HIDE DEF D
    <3> QED
      BY <2>1, Least
  <2>3. PICK x \in T : d = L - x
    BY <2>2
  <2>4. \A y \in T : y <= x
    <3> TAKE y \in T
    <3>1. L - y \in D
      OBVIOUS
    <3>2. L - x <= L - y
      BY <3>1, <2>2, <2>3
    <3>3. x \in Int /\ y \in Int
      OBVIOUS
    <3> QED
      BY <3>2, <3>3
  <2>5. \A y \in T : <<y, x>> \notin Inner(1 .. L)
    BY <2>4 DEF Inner
  <2> QED
    BY <2>5
<1> QED
  BY <1>1, MinWF

\* Induction from the last table to the first.
LEMMA InnerInduction ==
  ASSUME NEW L \in Nat, NEW T,
         \A t \in 1 .. L : (\A s \in t + 1 .. L : s \in T) => t \in T
  PROVE  1 .. L \subseteq T
<1> SUFFICES ASSUME (1 .. L) \ T # {} PROVE FALSE
  OBVIOUS
<1>1. PICK x \in (1 .. L) \ T : \A y \in (1 .. L) \ T : <<y, x>> \notin Inner(1 .. L)
  <2>1. (1 .. L) \ T \subseteq 1 .. L
    OBVIOUS
  <2> QED
    BY <2>1, InnerWellFounded, WFMin
<1>2. ASSUME NEW s \in x + 1 .. L PROVE s \in T
  <2>1. x \in 1 .. L /\ s \in 1 .. L /\ s > x
    OBVIOUS
  <2>2. <<s, x>> \in Inner(1 .. L)
    BY <2>1, InnerDef
  <2> QED
    BY <2>1, <2>2, <1>1
<1> QED
  BY <1>1, <1>2

LEMMA FirstIsLeast ==
  ASSUME NEW found, NEW query, NEW t, Hits(found, query, t) # {}
  PROVE  /\ First(Hits(found, query, t)) \in Hits(found, query, t)
         /\ \A m \in Hits(found, query, t) : First(Hits(found, query, t)) <= m
<1>1. Hits(found, query, t) \subseteq Nat
  BY DEF Hits
<1>2. \E n \in Hits(found, query, t) : \A m \in Hits(found, query, t) : n <= m
  BY <1>1, Least
<1> QED
  BY <1>2 DEF First

LEMMA FindIsSearch ==
  ASSUME Inwards(tables), NEW query
  PROVE  \E found :
            /\ found = [t \in 1 .. Len(tables) |-> FindIn(found, query, t)]
            /\ Find(query) = IF Len(tables) = 0 THEN NotFound ELSE found[1]
<1> DEFINE S == 1 .. Len(tables)
           found[t \in 1 .. Len(tables)] == FindIn(found, query, t)
<1>1. OpDefinesFcn(found, S, LAMBDA f, t : FindIn(f, query, t))
  BY DEF OpDefinesFcn
<1>2. WFDefOn(Inner(S), S, LAMBDA f, t : FindIn(f, query, t))
  <2> SUFFICES ASSUME NEW g, NEW h, NEW t \in S,
                      \A s \in SetLessThan(t, Inner(S), S) : g[s] = h[s]
               PROVE  FindIn(g, query, t) = FindIn(h, query, t)
    BY DEF WFDefOn
  <2>1. \A n \in 1 .. Len(tables[t]) :
           tables[t][n].table # 0 => g[tables[t][n].table] = h[tables[t][n].table]
    <3> TAKE n \in 1 .. Len(tables[t])
    <3> HAVE tables[t][n].table # 0
    <3> DEFINE s == tables[t][n].table
    <3>1. s \in t + 1 .. Len(tables) /\ Len(tables) \in Nat
      BY DEF Inwards, S
    <3> HIDE DEF s
    <3>2. s \in S /\ s > t
      BY <3>1 DEF S
    <3> HIDE DEF S
    <3>3. s \in SetLessThan(t, Inner(S), S)
      BY <3>2, InnerDef
    <3> QED
      BY <3>3 DEF s
  <2>2. Hits(g, query, t) = Hits(h, query, t)
    BY <2>1 DEF Hits
  <2>3. CASE Hits(g, query, t) = {}
    BY <2>2, <2>3 DEF FindIn
  <2>4. CASE Hits(g, query, t) # {}
    <3> DEFINE n == First(Hits(g, query, t))
    <3>1. n \in Hits(g, query, t)
      BY <2>4, FirstIsLeast
    <3>2. n \in 1 .. Len(tables[t])
             /\ (tables[t][n].name = query \/ tables[t][n].table # 0)
      BY <3>1 DEF Hits
    <3> HIDE DEF n
    <3>3. g[tables[t][n].table] = h[tables[t][n].table] \/ tables[t][n].name = query
      BY <3>2, <2>1
    <3>4. n = First(Hits(g, query, t)) /\ n = First(Hits(h, query, t))
      BY <2>2 DEF n
    <3> QED
      BY <3>3, <3>4, <2>2 DEF FindIn
  <2> QED
    BY <2>3, <2>4
<1>3. Find(query) = IF Len(tables) = 0 THEN NotFound ELSE found[1]
  BY DEF Find
<1>4. IsWellFoundedOn(Inner(S), S)
  BY InnerWellFounded DEF Inwards
<1> HIDE DEF found, S
<1>5. WFInductiveDefines(found, S, LAMBDA f, t : FindIn(f, query, t))
  BY <1>1, <1>2, <1>4, WFInductiveDef
<1>6. found = [t \in 1 .. Len(tables) |-> FindIn(found, query, t)]
  BY <1>5 DEF WFInductiveDefines, S
<1> QED
  BY <1>3, <1>6

LEMMA WayInTable ==
  ASSUME NEW ways, NEW t, NEW way
  PROVE  way \in WaysIn(ways, t) <=>
           \E n \in 1 .. Len(tables[t]) :
              \/ way = Direct(t, n)
              \/ \E on \in Onward(ways, t, n) : way = Through(t, n, on)
<1> DEFINE From(n) == {Direct(t, n)} \cup {Through(t, n, on) : on \in Onward(ways, t, n)}
<1>1. \A n : way \in From(n) <=>
         \/ way = Direct(t, n)
         \/ \E on \in Onward(ways, t, n) : way = Through(t, n, on)
  BY Zenon
<1>2. WaysIn(ways, t) = UNION {From(n) : n \in 1 .. Len(tables[t])}
  BY DEF WaysIn
<1> HIDE DEF From
<1>3. way \in WaysIn(ways, t) <=> \E n \in 1 .. Len(tables[t]) : way \in From(n)
  BY <1>2, Zenon
<1> QED
  BY <1>1, <1>3, Zenon

LEMMA WaysAreWays ==
  ASSUME Inwards(tables)
  PROVE  \E ways :
            /\ ways = [t \in 1 .. Len(tables) |-> WaysIn(ways, t)]
            /\ \A property : WaysTo(property) =
                  {way \in (IF Len(tables) = 0 THEN {} ELSE ways[1]) : way.name = property}
<1> DEFINE S == 1 .. Len(tables)
           ways[t \in 1 .. Len(tables)] == WaysIn(ways, t)
<1>1. OpDefinesFcn(ways, S, LAMBDA f, t : WaysIn(f, t))
  BY DEF OpDefinesFcn
<1>2. WFDefOn(Inner(S), S, LAMBDA f, t : WaysIn(f, t))
  <2> SUFFICES ASSUME NEW g, NEW h, NEW t \in S,
                      \A s \in SetLessThan(t, Inner(S), S) : g[s] = h[s]
               PROVE  WaysIn(g, t) = WaysIn(h, t)
    BY DEF WFDefOn
  <2>1. \A n \in 1 .. Len(tables[t]) :
           tables[t][n].table # 0 => g[tables[t][n].table] = h[tables[t][n].table]
    <3> TAKE n \in 1 .. Len(tables[t])
    <3> HAVE tables[t][n].table # 0
    <3> DEFINE s == tables[t][n].table
    <3>1. s \in t + 1 .. Len(tables) /\ Len(tables) \in Nat
      BY DEF Inwards, S
    <3> HIDE DEF s
    <3>2. s \in S /\ s > t
      BY <3>1 DEF S
    <3> HIDE DEF S
    <3>3. s \in SetLessThan(t, Inner(S), S)
      BY <3>2, InnerDef
    <3> QED
      BY <3>3 DEF s
  <2>2. \A n \in 1 .. Len(tables[t]) : Onward(g, t, n) = Onward(h, t, n)
    BY <2>1 DEF Onward
  <2>3. \A way : way \in WaysIn(g, t) <=> way \in WaysIn(h, t)
    <3> TAKE way
    <3>1. way \in WaysIn(g, t) <=>
            \E n \in 1 .. Len(tables[t]) :
              way = Direct(t, n) \/ \E on \in Onward(g, t, n) : way = Through(t, n, on)
      BY WayInTable
    <3>2. way \in WaysIn(h, t) <=>
            \E n \in 1 .. Len(tables[t]) :
              way = Direct(t, n) \/ \E on \in Onward(h, t, n) : way = Through(t, n, on)
      BY WayInTable
    <3> QED
      BY <2>2, <3>1, <3>2
  <2> QED
    BY <2>3
<1>3. \A property : WaysTo(property) =
        {way \in (IF Len(tables) = 0 THEN {} ELSE ways[1]) : way.name = property}
  BY DEF WaysTo
<1>4. IsWellFoundedOn(Inner(S), S)
  BY InnerWellFounded DEF Inwards
<1> HIDE DEF ways, S
<1>5. WFInductiveDefines(ways, S, LAMBDA f, t : WaysIn(f, t))
  BY <1>1, <1>2, <1>4, WFInductiveDef
<1>6. ways = [t \in 1 .. Len(tables) |-> WaysIn(ways, t)]
  BY <1>5 DEF WFInductiveDefines, S
<1> QED
  BY <1>3, <1>6

LEMMA PrecedesFirst ==
  ASSUME NEW p \in Seq(Nat), NEW q \in Seq(Nat), Len(q) > 0, p[1] < q[1]
  PROVE  Precedes(p, q)
<1>1. 1 \in 1 .. Len(q) /\ 1 .. 1 - 1 = {}
  OBVIOUS
<1> QED
  BY <1>1 DEF Precedes

LEMMA Extend ==
  ASSUME NEW n \in Nat, NEW p \in Seq(Nat)
  PROVE  /\ <<n>> \in Seq(Nat) /\ Len(<<n>>) = 1 /\ <<n>>[1] = n
         /\ <<n>> \o p \in Seq(Nat) /\ Len(<<n>> \o p) = Len(p) + 1
         /\ (<<n>> \o p)[1] = n
         /\ \A e \in 1 .. Len(p) : (<<n>> \o p)[e + 1] = p[e]
OBVIOUS

LEMMA PrecedesPrefix ==
  ASSUME NEW n \in Nat, NEW q \in Seq(Nat), Len(q) > 0
  PROVE  Precedes(<<n>>, <<n>> \o q)
<1> DEFINE r == <<n>> \o q
<1>1. Len(r) = Len(q) + 1 /\ r[1] = n /\ Len(<<n>>) = 1 /\ <<n>>[1] = n
  BY Extend
<1> HIDE DEF r
<1>2. 2 \in 1 .. Len(r)
  BY <1>1
<1>3. \A j \in 1 .. 2 - 1 : j <= Len(<<n>>) /\ <<n>>[j] = r[j]
  BY <1>1
<1>4. ~(2 <= Len(<<n>>))
  BY <1>1
<1>5. Precedes(<<n>>, r)
  BY <1>2, <1>3, <1>4 DEF Precedes
<1> QED
  BY <1>5 DEF r

LEMMA PrecedesOn ==
  ASSUME NEW n \in Nat, NEW p \in Seq(Nat), NEW q \in Seq(Nat), Precedes(p, q)
  PROVE  Precedes(<<n>> \o p, <<n>> \o q)
<1> DEFINE u == <<n>> \o p
           v == <<n>> \o q
<1>1. /\ Len(u) = Len(p) + 1 /\ u[1] = n /\ \A e \in 1 .. Len(p) : u[e + 1] = p[e]
      /\ Len(v) = Len(q) + 1 /\ v[1] = n /\ \A e \in 1 .. Len(q) : v[e + 1] = q[e]
  BY Extend
<1> HIDE DEF u, v
<1>2. PICK k \in 1 .. Len(q) : /\ \A j \in 1 .. k - 1 : j <= Len(p) /\ p[j] = q[j]
                               /\ k <= Len(p) => p[k] < q[k]
  BY DEF Precedes
<1>3. k + 1 \in 1 .. Len(v)
  BY <1>1
<1>4. ASSUME NEW j \in 1 .. (k + 1) - 1 PROVE j <= Len(u) /\ u[j] = v[j]
  <2>1. CASE j = 1
    BY <2>1, <1>1
  <2>2. CASE j # 1
    <3>1. j - 1 \in 1 .. k - 1 /\ j - 1 \in 1 .. Len(q)
      BY <2>2
    <3>2. j - 1 \in 1 .. Len(p) /\ p[j - 1] = q[j - 1]
      BY <3>1, <1>2
    <3> DEFINE e == j - 1
    <3>3. e \in 1 .. Len(p) /\ e \in 1 .. Len(q) /\ e + 1 = j
      BY <3>1, <3>2
    <3>4. p[e] = q[e]
      BY <3>2
    <3> HIDE DEF e
    <3>5. u[e + 1] = p[e] /\ v[e + 1] = q[e]
      BY <3>3, <1>1
    <3>6. j <= Len(u)
      BY <3>3, <1>1
    <3> QED
      BY <3>3, <3>4, <3>5, <3>6
  <2> QED
    BY <2>1, <2>2
<1>5. ASSUME k + 1 <= Len(u) PROVE u[k + 1] < v[k + 1]
  <2>1. k \in 1 .. Len(p)
    BY <1>1, <1>5
  <2> QED
    BY <2>1, <1>1, <1>2
<1>6. Precedes(u, v)
  BY <1>3, <1>4, <1>5 DEF Precedes
<1> QED
  BY <1>6 DEF u, v

\* What a way is.
LEMMA WaysType ==
  ASSUME Inwards(tables), NEW ways,
         ways = [t \in 1 .. Len(tables) |-> WaysIn(ways, t)]
  PROVE  \A t \in 1 .. Len(tables) : \A way \in ways[t] :
            way.path \in Seq(Nat) /\ Len(way.path) > 0 /\ way.offset \in Nat
<1> DEFINE Good(way) == way.path \in Seq(Nat) /\ Len(way.path) > 0 /\ way.offset \in Nat
           T == {t \in Nat : \A way \in ways[t] : Good(way)}
<1>1. ASSUME NEW t \in 1 .. Len(tables), \A s \in t + 1 .. Len(tables) : s \in T
      PROVE  t \in T
  <2> SUFFICES ASSUME NEW way \in ways[t] PROVE Good(way)
    OBVIOUS
  <2>1. PICK n \in 1 .. Len(tables[t]) :
           way = Direct(t, n) \/ \E on \in Onward(ways, t, n) : way = Through(t, n, on)
    BY WayInTable
  <2>2. n \in Nat /\ tables[t][n].offset \in Nat
    BY DEF Inwards
  <2>3. CASE way = Direct(t, n)
    BY <2>2, <2>3, Extend DEF Direct
  <2>4. ASSUME NEW on \in Onward(ways, t, n), way = Through(t, n, on) PROVE Good(way)
    <3>1. tables[t][n].table \in t + 1 .. Len(tables) /\ on \in ways[tables[t][n].table]
      BY DEF Onward, Inwards
    <3>2. on.path \in Seq(Nat) /\ Len(on.path) > 0 /\ on.offset \in Nat
      BY <3>1, <1>1
    <3>3. <<n>> \o on.path \in Seq(Nat) /\ Len(<<n>> \o on.path) > 0
      BY <2>2, <3>2, Extend
    <3>4. way.path = <<n>> \o on.path /\ way.offset = tables[t][n].offset + on.offset
      BY <2>4 DEF Through
    <3> QED
      BY <2>2, <3>2, <3>3, <3>4
  <2> QED
    BY <2>1, <2>3, <2>4
<1>2. Len(tables) \in Nat
  BY DEF Inwards
<1>3. 1 .. Len(tables) \subseteq T
  <2> HIDE DEF T
  <2> QED
    BY <1>1, <1>2, InnerInduction
<1> QED
  BY <1>3

LEMMA OnwardType ==
  ASSUME Inwards(tables), NEW ways, NEW t \in 1 .. Len(tables),
         ways = [s \in 1 .. Len(tables) |-> WaysIn(ways, s)],
         NEW n \in 1 .. Len(tables[t]), NEW on \in Onward(ways, t, n)
  PROVE  on.path \in Seq(Nat) /\ Len(on.path) > 0 /\ on.offset \in Nat
<1>1. tables[t][n].table \in t + 1 .. Len(tables) /\ on \in ways[tables[t][n].table]
  BY DEF Onward, Inwards
<1>2. tables[t][n].table \in 1 .. Len(tables)
  BY <1>1 DEF Inwards
<1> QED
  BY <1>1, <1>2, WaysType

\* What find_watch_property says of a table is right: nothing if no way from it
\* leads to the property, and else the offset at the end of the first way.
FoundRight(found, ways, query, t) ==
    IF found[t] = NotFound THEN \A way \in ways[t] : way.name # query
    ELSE \E way \in ways[t] :
            /\ way.name = query /\ way.offset = found[t]
            /\ \A other \in ways[t] \ {way} :
                  other.name = query => Precedes(way.path, other.path)

LEMMA FoundNothing ==
  ASSUME Inwards(tables), NEW query, NEW found, NEW ways, NEW t \in 1 .. Len(tables),
         found = [s \in 1 .. Len(tables) |-> FindIn(found, query, s)],
         ways = [s \in 1 .. Len(tables) |-> WaysIn(ways, s)],
         \A s \in t + 1 .. Len(tables) : FoundRight(found, ways, query, s),
         NEW n \in 1 .. Len(tables[t]), n \notin Hits(found, query, t),
         NEW way, way = Direct(t, n) \/ \E on \in Onward(ways, t, n) : way = Through(t, n, on)
  PROVE  way.name # query
<1>1. /\ tables[t][n].name # query
      /\ tables[t][n].table # 0 => found[tables[t][n].table] = NotFound
  BY DEF Hits
<1>2. CASE way = Direct(t, n)
  BY <1>1, <1>2 DEF Direct
<1>3. ASSUME NEW on \in Onward(ways, t, n), way = Through(t, n, on) PROVE way.name # query
  <2>1. /\ tables[t][n].table # 0 /\ tables[t][n].table \in t + 1 .. Len(tables)
        /\ on \in ways[tables[t][n].table]
    BY DEF Onward, Inwards
  <2>2. on.name # query
    BY <1>1, <2>1 DEF FoundRight
  <2> QED
    BY <2>2, <1>3 DEF Through
<1> QED
  BY <1>2, <1>3

LEMMA FindRight ==
  ASSUME Inwards(tables), NEW query, NEW found, NEW ways,
         found = [s \in 1 .. Len(tables) |-> FindIn(found, query, s)],
         ways = [s \in 1 .. Len(tables) |-> WaysIn(ways, s)]
  PROVE  \A t \in 1 .. Len(tables) : FoundRight(found, ways, query, t)
<1> DEFINE T == {t \in Nat : FoundRight(found, ways, query, t)}
<1>1. ASSUME NEW t \in 1 .. Len(tables), \A s \in t + 1 .. Len(tables) : s \in T
      PROVE  FoundRight(found, ways, query, t)
  <2>1. \A s \in t + 1 .. Len(tables) : FoundRight(found, ways, query, s)
    BY <1>1
  <2> HIDE DEF T
  <2> DEFINE hits == Hits(found, query, t)
             n == First(hits)
  <2>2. \A way \in ways[t] : \E m \in 1 .. Len(tables[t]) :
           way = Direct(t, m) \/ \E on \in Onward(ways, t, m) : way = Through(t, m, on)
    BY WayInTable
  <2>3. \A m \in 1 .. Len(tables[t]) : \A way :
          /\ way = Direct(t, m) \/ \E on \in Onward(ways, t, m) : way = Through(t, m, on)
          /\ way.name = query
          => m \in hits
    BY <2>1, FoundNothing
  <2>4. found[t] = FindIn(found, query, t)
    OBVIOUS
  <2>5. CASE hits = {}
    <3>1. found[t] = NotFound
      BY <2>4, <2>5 DEF FindIn
    <3>2. \A way \in ways[t] : way.name # query
      BY <2>2, <2>3, <2>5
    <3> QED
      BY <3>1, <3>2 DEF FoundRight
  <2>6. CASE hits # {}
    <3>1. n \in hits /\ \A m \in hits : n <= m
      BY <2>6, FirstIsLeast
    <3>2. n \in 1 .. Len(tables[t]) /\ tables[t][n].offset \in Nat
      BY <3>1 DEF Hits, Inwards
    <3>3. \A way \in ways[t] : way.path \in Seq(Nat) /\ Len(way.path) > 0 /\ way.offset \in Nat
      BY WaysType
    \* A way to the property that begins later comes later.
    <3>4. ASSUME NEW way \in ways[t], way.path[1] = n, NEW other \in ways[t],
                 NEW m \in hits, m # n,
                 \/ other = Direct(t, m)
                 \/ \E on \in Onward(ways, t, m) : other = Through(t, m, on)
          PROVE  Precedes(way.path, other.path)
      <4>1. m \in 1 .. Len(tables[t]) /\ m \in Nat /\ n < m
        <5>1. m \in 1 .. Len(tables[t])
          BY DEF Hits
        <5> HIDE DEF n, hits
        <5> QED
          BY <5>1, <3>1, <3>2, <3>4
      <4>2. other.path[1] = m
        <5>1. CASE other = Direct(t, m)
          BY <4>1, <5>1, Extend DEF Direct
        <5>2. ASSUME NEW on \in Onward(ways, t, m), other = Through(t, m, on)
              PROVE  other.path[1] = m
          <6>1. other.path = <<m>> \o on.path
            BY <5>2 DEF Through
          <6>2. on.path \in Seq(Nat)
            BY <4>1, OnwardType
          <6> QED
            BY <6>1, <6>2, <4>1, Extend
        <5> QED
          BY <3>4, <5>1, <5>2
      <4>3. /\ way.path \in Seq(Nat) /\ other.path \in Seq(Nat) /\ Len(other.path) > 0
            /\ way.path[1] < other.path[1]
        <5> HIDE DEF n, hits
        <5> QED
          BY <3>3, <3>4, <4>1, <4>2
      <4> QED
        BY <4>3, PrecedesFirst, Zenon
    <3>5. CASE tables[t][n].name = query
      <4> DEFINE way == Direct(t, n)
      <4>1. found[t] = tables[t][n].offset
        BY <2>4, <2>6, <3>5 DEF FindIn
      <4>2. way.path = <<n>> /\ way.name = query /\ way.offset = found[t]
        BY <3>5, <4>1 DEF Direct
      <4>3. way \in ways[t]
        <5> HIDE DEF n, hits
        <5>1. way \in WaysIn(ways, t)
          BY <3>2, WayInTable
        <5> QED
          BY <5>1
      <4> HIDE DEF way
      <4>4. found[t] # NotFound
        BY <3>2, <4>1 DEF NotFound
      <4>5. way.path[1] = n
        BY <4>2, <3>2, Extend
      <4>6. ASSUME NEW other \in ways[t] \ {way}, other.name = query
            PROVE  Precedes(way.path, other.path)
        <5>1. PICK m \in 1 .. Len(tables[t]) :
                 other = Direct(t, m) \/ \E on \in Onward(ways, t, m) : other = Through(t, m, on)
          BY <2>2
        <5>2. m \in hits
          BY <5>1, <4>6, <2>3
        <5>3. CASE m # n
          BY <5>1, <5>2, <5>3, <4>3, <4>5, <3>4
        <5>4. CASE m = n
          <6>1. PICK on \in Onward(ways, t, n) : other = Through(t, n, on)
            BY <5>1, <5>4, <4>6 DEF way
          <6>2. other.path = <<n>> \o on.path
            BY <6>1 DEF Through
          <6>3. on.path \in Seq(Nat) /\ Len(on.path) > 0
            BY <3>2, OnwardType
          <6>4. n \in Nat
            BY <3>2
          <6> HIDE DEF n, hits
          <6> QED
            BY <6>2, <6>3, <6>4, <4>2, PrecedesPrefix
        <5> QED
          BY <5>3, <5>4
      <4> QED
        BY <4>2, <4>3, <4>4, <4>6 DEF FoundRight
    <3>6. CASE tables[t][n].name # query
      <4> DEFINE s == tables[t][n].table
      <4>1. s # 0 /\ found[s] # NotFound /\ s \in t + 1 .. Len(tables)
        <5>1. s # 0 /\ found[s] # NotFound
          BY <3>1, <3>6 DEF Hits
        <5> QED
          BY <5>1, <3>2 DEF Inwards
      <4>2. found[t] = tables[t][n].offset + found[s]
        BY <2>4, <2>6, <3>6 DEF FindIn
      <4>3. Onward(ways, t, n) = ways[s]
        BY <4>1 DEF Onward
      <4>4. FoundRight(found, ways, query, s)
        BY <2>1, <4>1
      <4> HIDE DEF s
      <4>5. PICK first \in ways[s] :
               /\ first.name = query /\ first.offset = found[s]
               /\ \A other \in ways[s] \ {first} :
                     other.name = query => Precedes(first.path, other.path)
        BY <4>1, <4>4 DEF FoundRight
      <4>6. \A on \in ways[s] : on.path \in Seq(Nat) /\ Len(on.path) > 0 /\ on.offset \in Nat
        <5>1. s \in 1 .. Len(tables)
          BY <4>1 DEF Inwards
        <5> QED
          BY <5>1, WaysType
      <4> DEFINE way == Through(t, n, first)
      <4>7. way.path = <<n>> \o first.path /\ way.name = query /\ way.offset = found[t]
        BY <4>2, <4>5 DEF Through
      <4>8. way \in ways[t]
        <5> HIDE DEF n, hits
        <5>1. way \in WaysIn(ways, t)
          BY <3>2, <4>3, WayInTable
        <5> QED
          BY <5>1
      <4> HIDE DEF way
      <4>9. found[t] # NotFound
        <5>1. first.offset \in Nat
          BY <4>6
        <5>2. tables[t][n].offset + first.offset \in Nat
          BY <5>1, <3>2
        <5> QED
          BY <5>2, <4>2, <4>5 DEF NotFound
      <4>10. way.path[1] = n
        <5>1. n \in Nat /\ first.path \in Seq(Nat)
          <6>1. n \in Nat
            BY <3>2
          <6>2. first \in ways[s]
            BY <4>5
          <6> QED
            BY <6>1, <6>2, <4>6, Zenon
        <5> HIDE DEF n, hits
        <5> QED
          BY <5>1, <4>7, Extend
      <4>11. ASSUME NEW other \in ways[t] \ {way}, other.name = query
             PROVE  Precedes(way.path, other.path)
        <5>1. PICK m \in 1 .. Len(tables[t]) :
                 other = Direct(t, m) \/ \E on \in Onward(ways, t, m) : other = Through(t, m, on)
          BY <2>2
        <5>2. m \in hits
          BY <5>1, <4>11, <2>3
        <5>3. CASE m # n
          BY <5>1, <5>2, <5>3, <4>8, <4>10, <3>4
        <5>4. CASE m = n
          <6>1. other # Direct(t, n)
            BY <4>11, <3>6 DEF Direct
          <6>2. PICK on \in ways[s] : other = Through(t, n, on)
            BY <5>1, <5>4, <6>1, <4>3
          <6>3. on # first /\ on.name = query
            BY <6>2, <4>11 DEF Through, way
          <6>4. Precedes(first.path, on.path)
            BY <6>3, <4>5
          <6>5. other.path = <<n>> \o on.path
            BY <6>2 DEF Through
          <6>6. n \in Nat
            BY <3>2
          <6>7. first.path \in Seq(Nat) /\ on.path \in Seq(Nat)
            BY <4>6
          <6> HIDE DEF n, hits
          <6> QED
            BY <6>4, <6>5, <6>6, <6>7, <4>7, PrecedesOn
        <5> QED
          BY <5>3, <5>4
      <4> QED
        BY <4>7, <4>8, <4>9, <4>11 DEF FoundRight
    <3> QED
      BY <3>5, <3>6
  <2> QED
    BY <2>5, <2>6
<1>2. Len(tables) \in Nat /\ 1 .. Len(tables) \subseteq Nat
  BY DEF Inwards
<1>3. 1 .. Len(tables) \subseteq T
  <2>1. \A t \in 1 .. Len(tables) : (\A s \in t + 1 .. Len(tables) : s \in T) => t \in T
    BY <1>1, <1>2
  <2> HIDE DEF T
  <2> QED
    BY <2>1, <1>2, InnerInduction
<1> QED
  BY <1>3

LEMMA FindTells ==
  ASSUME Inwards(tables), NEW query
  PROVE  /\ Find(query) = NotFound <=> WaysTo(query) = {}
         /\ WaysTo(query) # {} =>
              \E way \in WaysTo(query) :
                 /\ Find(query) = way.offset
                 /\ \A other \in WaysTo(query) \ {way} : Precedes(way.path, other.path)
<1>1. PICK found : /\ found = [t \in 1 .. Len(tables) |-> FindIn(found, query, t)]
                   /\ Find(query) = IF Len(tables) = 0 THEN NotFound ELSE found[1]
  BY FindIsSearch
<1>2. PICK ways : /\ ways = [t \in 1 .. Len(tables) |-> WaysIn(ways, t)]
                  /\ \A property : WaysTo(property) =
                        {way \in (IF Len(tables) = 0 THEN {} ELSE ways[1]) : way.name = property}
  BY WaysAreWays
<1>3. \A t \in 1 .. Len(tables) : FoundRight(found, ways, query, t)
  BY <1>1, <1>2, FindRight
<1>4. CASE Len(tables) = 0
  <2>1. Find(query) = NotFound /\ WaysTo(query) = {}
    BY <1>1, <1>2, <1>4
  <2> QED
    BY <2>1
<1>5. CASE Len(tables) # 0
  <2>1. Find(query) = found[1] /\ WaysTo(query) = {way \in ways[1] : way.name = query}
    BY <1>1, <1>2, <1>5
  <2>2. 1 \in 1 .. Len(tables)
    BY <1>5 DEF Inwards
  <2>3. FoundRight(found, ways, query, 1)
    BY <1>3, <2>2
  <2>4. CASE found[1] = NotFound
    <3>1. WaysTo(query) = {}
      BY <2>1, <2>3, <2>4 DEF FoundRight
    <3> QED
      BY <3>1, <2>1, <2>4
  <2>5. CASE found[1] # NotFound
    <3>1. PICK way \in ways[1] :
             /\ way.name = query /\ way.offset = found[1]
             /\ \A other \in ways[1] \ {way} :
                   other.name = query => Precedes(way.path, other.path)
      BY <2>3, <2>5 DEF FoundRight
    <3>2. /\ way \in WaysTo(query) /\ Find(query) = way.offset
          /\ \A other \in WaysTo(query) \ {way} : Precedes(way.path, other.path)
      BY <2>1, <3>1
    <3> QED
      BY <3>2, <2>1, <2>5
  <2> QED
    BY <2>4, <2>5
<1> QED
  BY <1>4, <1>5

-----------------------------------------------------------------------------
(* The watches.                                                               *)

LEMMA WatchedIsList == Watched \in Seq(Range(Watched)) /\ Len(Watched) \in Nat
<1>1. Watched \in Seq(Range(Watched))
  BY PluginAssumption DEF IsList
<1> QED
  BY <1>1

LEMMA AllWatchesIsLoop ==
  \E created :
     /\ created = [n \in 0 .. Len(Watched) |->
                      IF n = 0 THEN watches ELSE CreateWatch(created[n - 1], Watched[n])]
     /\ AllWatches = created[Len(Watched)]
<1> DEFINE created[n \in 0 .. Len(Watched)] ==
             IF n = 0 THEN watches ELSE CreateWatch(created[n - 1], Watched[n])
<1>1. FiniteNatInductiveDefHypothesis(created, watches,
         LAMBDA v, n : CreateWatch(v, Watched[n]), 0, Len(Watched))
  BY DEF FiniteNatInductiveDefHypothesis
<1>2. AllWatches = created[Len(Watched)]
  BY DEF AllWatches
<1> HIDE DEF created
<1>3. FiniteNatInductiveDefConclusion(created, watches,
         LAMBDA v, n : CreateWatch(v, Watched[n]), 0, Len(Watched))
  BY <1>1, WatchedIsList, FiniteNatInductiveDef
<1>4. created = [n \in 0 .. Len(Watched) |->
                   IF n = 0 THEN watches ELSE CreateWatch(created[n - 1], Watched[n])]
  BY <1>3 DEF FiniteNatInductiveDefConclusion
<1> QED
  BY <1>2, <1>4

LEMMA HadUp ==
  ASSUME NEW n \in Nat
  PROVE  /\ Had(n) \in Nat /\ Had(n) <= n
         /\ n = 0 => Had(n) = 0
         /\ n # 0 => Had(n) = Had(n - 1) + (IF WaysTo(Watched[n]) # {} THEN 1 ELSE 0)
         /\ \A m \in 0 .. n : Had(m) <= Had(n)
<1> DEFINE S == {m \in Nat : WaysTo(Watched[m]) # {}}
<1>1. \A m \in Nat : Had(m) = Cardinality(S \cap (1 .. m))
  <2> TAKE m \in Nat
  <2>1. {k \in 1 .. m : WaysTo(Watched[k]) # {}} = S \cap (1 .. m)
    OBVIOUS
  <2> QED
    BY <2>1 DEF Had
<1>2. n \in S <=> WaysTo(Watched[n]) # {}
  OBVIOUS
<1> HIDE DEF S
<1>3. n # 0 => n - 1 \in Nat
  OBVIOUS
<1>4. Had(n) \in Nat /\ Had(n) <= n
  <2>1. S \cap (1 .. n) \in SUBSET (1 .. n)
    OBVIOUS
  <2>2. IsFiniteSet(1 .. n) /\ Cardinality(1 .. n) = n
    BY FS_Interval
  <2>3. Cardinality(S \cap (1 .. n)) <= Cardinality(1 .. n)
    BY <2>1, <2>2, FS_Subset
  <2>4. Cardinality(S \cap (1 .. n)) \in Nat
    BY CountUp
  <2> QED
    BY <2>2, <2>3, <2>4, <1>1
<1>5. n = 0 => Had(n) = 0
  <2>1. n = 0 => Cardinality(S \cap (1 .. n)) = 0
    BY CountUp, Zenon
  <2> QED
    BY <2>1, <1>1
<1>6. n # 0 => Had(n) = Had(n - 1) + (IF WaysTo(Watched[n]) # {} THEN 1 ELSE 0)
  <2> SUFFICES ASSUME n # 0
               PROVE  Had(n) = Had(n - 1) + (IF WaysTo(Watched[n]) # {} THEN 1 ELSE 0)
    OBVIOUS
  <2>1. Cardinality(S \cap (1 .. n)) =
          Cardinality(S \cap (1 .. n - 1)) + (IF n \in S THEN 1 ELSE 0)
    BY CountUp
  <2>2. /\ Had(n) = Cardinality(S \cap (1 .. n))
        /\ Had(n - 1) = Cardinality(S \cap (1 .. n - 1))
    BY <1>1, <1>3
  <2> QED
    BY <2>1, <2>2, <1>2
<1>7. ASSUME NEW m \in 0 .. n PROVE Had(m) <= Had(n)
  <2>1. m \in Nat
    OBVIOUS
  <2>2. Cardinality(S \cap (1 .. m)) <= Cardinality(S \cap (1 .. n))
    BY CountMonotone
  <2> QED
    BY <2>1, <2>2, <1>1
<1> QED
  BY <1>4, <1>5, <1>6, <1>7

AnyWatch == {Watch(Watched[m]) : m \in 1 .. Len(Watched)}

\* The watches there are after the first n calls of create_property_watch.
WatchesAfter(created, n) ==
    /\ created \in Seq(AnyWatch)
    /\ Len(created) = Had(n)
    /\ \A m \in 1 .. n : WaysTo(Watched[m]) # {} => created[Had(m)] = Watch(Watched[m])

LEMMA WatchGoesOn ==
  ASSUME Inwards(tables), NEW n \in 1 .. Len(Watched),
         NEW created, WatchesAfter(created, n - 1)
  PROVE  WatchesAfter(CreateWatch(created, Watched[n]), n)
<1>1. n \in Nat /\ n - 1 \in Nat /\ n # 0 /\ n <= Len(Watched)
  BY WatchedIsList
<1>2. /\ Had(n - 1) \in Nat /\ Had(n - 1) <= n - 1 /\ Had(n) \in Nat
      /\ Had(n) = Had(n - 1) + (IF WaysTo(Watched[n]) # {} THEN 1 ELSE 0)
  BY <1>1, HadUp
<1>3. created \in Seq(AnyWatch) /\ Len(created) = Had(n - 1)
  BY DEF WatchesAfter
<1>4. \A m \in 1 .. n - 1 :
         WaysTo(Watched[m]) # {} => created[Had(m)] = Watch(Watched[m])
  BY DEF WatchesAfter
<1>5. CASE WaysTo(Watched[n]) = {}
  <2>1. CreateWatch(created, Watched[n]) = created
    BY <1>5, FindTells DEF CreateWatch
  <2>2. Had(n) = Had(n - 1)
    BY <1>2, <1>5
  <2>3. ASSUME NEW m \in 1 .. n, WaysTo(Watched[m]) # {}
        PROVE  created[Had(m)] = Watch(Watched[m])
    <3>1. m # n
      BY <1>5, <2>3
    <3>2. m \in 1 .. n - 1
      BY <1>1, <3>1
    <3> QED
      BY <3>2, <2>3, <1>4
  <2> QED
    BY <2>1, <2>2, <2>3, <1>3 DEF WatchesAfter
<1>6. CASE WaysTo(Watched[n]) # {}
  <2>1. Len(created) < MAX_WATCH_SLOTS
    BY <1>1, <1>2, <1>3, WatchedIsList, PluginAssumption
  <2> DEFINE next == Append(created, Watch(Watched[n]))
  <2>2. CreateWatch(created, Watched[n]) = next
    BY <2>1, <1>6, FindTells DEF CreateWatch
  <2>3. Watch(Watched[n]) \in AnyWatch
    BY DEF AnyWatch
  <2>4. /\ next \in Seq(AnyWatch) /\ Len(next) = Len(created) + 1
        /\ \A k \in 1 .. Len(created) : next[k] = created[k]
        /\ next[Len(created) + 1] = Watch(Watched[n])
    BY <1>3, <2>3, AppendProperties
  <2> HIDE DEF next
  <2>5. Had(n) = Had(n - 1) + 1
    BY <1>2, <1>6
  <2>6. ASSUME NEW m \in 1 .. n, WaysTo(Watched[m]) # {}
        PROVE  next[Had(m)] = Watch(Watched[m])
    <3>1. CASE m = n
      BY <3>1, <2>4, <2>5, <1>3
    <3>2. CASE m # n
      <4>1. m \in 1 .. n - 1 /\ m \in Nat /\ m \in 0 .. n - 1 /\ m # 0 /\ m - 1 \in Nat
        BY <3>2, <1>1
      <4>2. Had(m) \in Nat /\ Had(m) = Had(m - 1) + 1 /\ Had(m - 1) \in Nat
        <5>1. /\ Had(m) \in Nat
              /\ Had(m) = Had(m - 1) + (IF WaysTo(Watched[m]) # {} THEN 1 ELSE 0)
          BY <4>1, HadUp
        <5>2. Had(m - 1) \in Nat
          BY <4>1, HadUp
        <5> QED
          BY <5>1, <5>2, <2>6
      <4>3. Had(m) <= Had(n - 1)
        BY <4>1, <1>1, HadUp
      <4>4. Had(m) \in 1 .. Len(created)
        BY <4>2, <4>3, <1>2, <1>3
      <4> QED
        BY <4>1, <4>4, <2>4, <2>6, <1>4
    <3> QED
      BY <3>1, <3>2
  <2>7. WatchesAfter(next, n)
    BY <2>4, <2>5, <2>6, <1>3 DEF WatchesAfter
  <2> QED
    BY <2>2, <2>7
<1> QED
  BY <1>5, <1>6

\* What CreateWatches makes.
LEMMA AllWatchesRight ==
  ASSUME Inwards(tables), watches = <<>>
  PROVE  WatchesAfter(AllWatches, Len(Watched))
<1>1. PICK created :
         /\ created = [n \in 0 .. Len(Watched) |->
                         IF n = 0 THEN watches ELSE CreateWatch(created[n - 1], Watched[n])]
         /\ AllWatches = created[Len(Watched)]
  BY AllWatchesIsLoop
<1> DEFINE T == {n \in Nat : n <= Len(Watched) => WatchesAfter(created[n], n)}
<1>2. 0 \in T
  <2>1. created[0] = <<>>
    BY <1>1, WatchedIsList
  <2>2. Had(0) = 0 /\ <<>> \in Seq(AnyWatch) /\ Len(<<>>) = 0 /\ 1 .. 0 = {}
    BY HadUp
  <2>3. WatchesAfter(created[0], 0)
    BY <2>1, <2>2 DEF WatchesAfter
  <2> QED
    BY <2>3
<1>3. ASSUME NEW n \in Nat, n \in T PROVE n + 1 \in T
  <2> SUFFICES ASSUME n + 1 <= Len(Watched) PROVE WatchesAfter(created[n + 1], n + 1)
    OBVIOUS
  <2>1. n + 1 \in 1 .. Len(Watched) /\ n + 1 \in 0 .. Len(Watched) /\ n + 1 # 0
        /\ (n + 1) - 1 = n /\ n <= Len(Watched)
    BY WatchedIsList
  <2>2. WatchesAfter(created[n], n)
    BY <1>3, <2>1
  <2>3. created[n + 1] = CreateWatch(created[n], Watched[n + 1])
    BY <1>1, <2>1
  <2> HIDE DEF T
  <2> DEFINE k == n + 1
  <2>4. k \in 1 .. Len(Watched) /\ WatchesAfter(created[n], k - 1)
    BY <2>1, <2>2
  <2> HIDE DEF k
  <2>5. WatchesAfter(CreateWatch(created[n], Watched[k]), k)
    BY <2>4, WatchGoesOn
  <2> QED
    BY <2>3, <2>5 DEF k
<1>4. Nat \subseteq T
  <2> HIDE DEF T
  <2> QED
    BY <1>2, <1>3, Induction
<1> QED
  BY <1>1, <1>4, WatchedIsList

\* WatchesRight, of a list of watches.
Right(list) ==
    /\ Len(list) = Had(Len(Watched))
    /\ \A n \in 1 .. Len(Watched) : WaysTo(Watched[n]) # {} =>
          /\ list[Had(n)].property = Watched[n]
          /\ \E way \in WaysTo(Watched[n]) :
                /\ list[Had(n)].offset = way.offset
                /\ \A other \in WaysTo(Watched[n]) \ {way} : Precedes(way.path, other.path)

LEMMA CreatedRight ==
  ASSUME Inwards(tables), watches = <<>>
  PROVE  Right(AllWatches)
<1>1. /\ Len(AllWatches) = Had(Len(Watched))
      /\ \A n \in 1 .. Len(Watched) :
            WaysTo(Watched[n]) # {} => AllWatches[Had(n)] = Watch(Watched[n])
  BY AllWatchesRight DEF WatchesAfter
<1>2. ASSUME NEW n \in 1 .. Len(Watched), WaysTo(Watched[n]) # {}
      PROVE  /\ AllWatches[Had(n)].property = Watched[n]
             /\ \E way \in WaysTo(Watched[n]) :
                   /\ AllWatches[Had(n)].offset = way.offset
                   /\ \A other \in WaysTo(Watched[n]) \ {way} : Precedes(way.path, other.path)
  <2>1. AllWatches[Had(n)] = [property |-> Watched[n], offset |-> Find(Watched[n])]
    BY <1>1, <1>2 DEF Watch
  <2>2. PICK way \in WaysTo(Watched[n]) :
           /\ Find(Watched[n]) = way.offset
           /\ \A other \in WaysTo(Watched[n]) \ {way} : Precedes(way.path, other.path)
    BY <1>2, FindTells
  <2> QED
    BY <2>1, <2>2
<1> QED
  BY <1>1, <1>2 DEF Right

\* The tables are there from the interfaces on, and the watches are made of them.
TablesInv ==
    /\ Inwards(tables)
    /\ pc \in {"config", "interfaces", "watches"} => watches = <<>>
    /\ pc \in {"chat", "online", "loaded"} => Right(watches)

LEMMA TablesInit == Init => TablesInv
<1> SUFFICES ASSUME Init PROVE TablesInv
  OBVIOUS
<1>1. Inwards(<<>>)
  BY DEF Inwards
<1> QED
  BY <1>1 DEF Init, TablesInv

\* What the watches should be depends on the tables alone.
LEMMA RightStays ==
  ASSUME tables' = tables, NEW STATE list, watches' = list, Right(list)
  PROVE  Right(watches)'
<1>1. \A property : WaysTo(property)' = WaysTo(property)
  BY DEF WaysTo, WaysIn, Direct, Through, Onward
<1>2. \A n : Had(n)' = Had(n)
  BY <1>1 DEF Had
<1>3. Len(watches') = (Had(Len(Watched)))'
  BY <1>2 DEF Right
<1>4. ASSUME NEW n \in 1 .. Len(Watched), WaysTo(Watched[n])' # {}
      PROVE  /\ watches'[Had(n)'].property = Watched[n]
             /\ \E way \in WaysTo(Watched[n])' :
                   /\ watches'[Had(n)'].offset = way.offset
                   /\ \A other \in WaysTo(Watched[n])' \ {way} : Precedes(way.path, other.path)
  <2>1. WaysTo(Watched[n])' = WaysTo(Watched[n]) /\ Had(n)' = Had(n)
    BY <1>1, <1>2
  <2> QED
    BY <2>1, <1>4 DEF Right
<1> QED
  BY <1>3, <1>4 DEF Right

LEMMA TablesStep == ASSUME TablesInv, [Next]_vars PROVE TablesInv'
<1>1. CASE CreateWatches
  <2>1. Right(watches)'
    <3>1. Right(AllWatches)
      BY <1>1, CreatedRight DEF CreateWatches, TablesInv
    <3>2. tables' = tables /\ watches' = AllWatches
      BY <1>1 DEF CreateWatches, engineVars
    <3> QED
      BY <3>1, <3>2, RightStays
  <2> QED
    BY <1>1, <2>1 DEF CreateWatches, engineVars, TablesInv, Inwards
<1>2. CASE InitInterfaces
  <2>1. CASE pc' = "watches" /\ AddHooks
    BY <2>1, <1>2, PluginAssumption DEF InitInterfaces, AddHooks, TablesInv
  <2>2. CASE Goto("refused")
    BY <2>2 DEF Goto, engineVars, pluginVars, TablesInv
  <2> QED
    BY <1>2, <2>1, <2>2 DEF InitInterfaces
<1>3. CASE ReadCharacter \/ ReadReturn \/ ReadNewline \/ ConfigFails
  <2>1. tables' = tables /\ watches' = watches /\ pc = "config"
        /\ pc' \in {"config", "interfaces", "refused"}
    BY <1>3 DEF ReadCharacter, ReadReturn, ReadNewline, ConfigFails, Read, Goto,
                engineVars, pluginVars
  <2> QED
    BY <2>1 DEF TablesInv, Inwards
<1>4. CASE HookChat \/ GoOnline \/ UNCHANGED <<pc, tables, watches>>
  <2>1. /\ tables' = tables /\ watches' = watches
        /\ \/ pc' = pc
           \/ pc \in {"chat", "online", "loaded"} /\ pc' \in {"chat", "online", "loaded"}
    BY <1>4 DEF HookChat, GoOnline, engineVars
  <2>2. Right(watches) => Right(watches)'
    BY <2>1, RightStays
  <2> QED
    BY <2>1, <2>2 DEF TablesInv
<1>5. \/ ReadCharacter \/ ReadReturn \/ ReadNewline \/ ConfigFails \/ InitInterfaces
      \/ CreateWatches \/ HookChat \/ GoOnline \/ UNCHANGED <<pc, tables, watches>>
  BY DEF Next, Load, HandlePage, HandleQuery, HandleSet, Request, vars, pluginVars, engineVars
<1> QED
  BY <1>1, <1>2, <1>3, <1>4, <1>5

\* Whatever the engine's tables are, every watched property that the class has
\* is watched, in order, where the first of its name is (watch.cpp:63-112,
\* plugin.cpp:49-54).
THEOREM WatchesCorrect == Spec => []WatchesRight
<1>1. TablesInv => WatchesRight
  BY DEF TablesInv, WatchesRight, Right
<1> QED
  BY <1>1, TablesInit, TablesStep, PTL DEF Spec

-----------------------------------------------------------------------------
(* The configuration.                                                         *)

Bytes == {"x", "cr", "lf"}

\* Newlines, LineEnd and LineStart, of any text.
EndsIn(t) == {n \in 1 .. Len(t) : t[n] = "lf"}
Count(t, n) == Cardinality({m \in EndsIn(t) : m <= n})
EndOf(t, f) == CHOOSE n \in EndsIn(t) : Count(t, n) = f
StartOf(t, f) == IF f = 1 THEN 1 ELSE EndOf(t, f - 1) + 1

LEMMA CountIn ==
  ASSUME NEW t \in Seq(Bytes), NEW n \in Nat
  PROVE  /\ Count(t, n) \in Nat
         /\ n = 0 => Count(t, n) = 0
         /\ n # 0 => Count(t, n) = Count(t, n - 1) + (IF n \in EndsIn(t) THEN 1 ELSE 0)
         /\ \A m \in 0 .. n : Count(t, m) <= Count(t, n)
<1> DEFINE S == EndsIn(t)
<1>1. \A k \in Nat : Count(t, k) = Cardinality(S \cap (1 .. k))
  <2> TAKE k \in Nat
  <2>1. {m \in EndsIn(t) : m <= k} = S \cap (1 .. k)
    BY DEF EndsIn
  <2> QED
    BY <2>1 DEF Count
<1>2. n # 0 => n - 1 \in Nat
  OBVIOUS
<1>3. Count(t, n) \in Nat
  <2>1. Cardinality(S \cap (1 .. n)) \in Nat
    BY CountUp, Zenon
  <2> QED
    BY <2>1, <1>1
<1>4. n = 0 => Count(t, n) = 0
  <2>1. n = 0 => Cardinality(S \cap (1 .. n)) = 0
    BY CountUp, Zenon
  <2> QED
    BY <2>1, <1>1
<1>5. n # 0 => Count(t, n) = Count(t, n - 1) + (IF n \in EndsIn(t) THEN 1 ELSE 0)
  <2> HIDE DEF S
  <2> SUFFICES ASSUME n # 0
               PROVE  Count(t, n) = Count(t, n - 1) + (IF n \in S THEN 1 ELSE 0)
    BY DEF S
  <2>1. Cardinality(S \cap (1 .. n)) =
          Cardinality(S \cap (1 .. n - 1)) + (IF n \in S THEN 1 ELSE 0)
    BY CountUp
  <2>2. /\ Count(t, n) = Cardinality(S \cap (1 .. n))
        /\ Count(t, n - 1) = Cardinality(S \cap (1 .. n - 1))
    BY <1>1, <1>2
  <2> QED
    BY <2>1, <2>2
<1>6. ASSUME NEW m \in 0 .. n PROVE Count(t, m) <= Count(t, n)
  <2> HIDE DEF S
  <2>1. m \in Nat
    OBVIOUS
  <2>2. Cardinality(S \cap (1 .. m)) <= Cardinality(S \cap (1 .. n))
    BY CountMonotone
  <2> QED
    BY <2>1, <2>2, <1>1
<1> QED
  BY <1>3, <1>4, <1>5, <1>6

\* A line's end is known by how many there are up to it.
LEMMA EndIsKnown ==
  ASSUME NEW t \in Seq(Bytes), NEW n \in EndsIn(t)
  PROVE  EndOf(t, Count(t, n)) = n
<1>1. ASSUME NEW a \in EndsIn(t), NEW b \in EndsIn(t), a < b
      PROVE  Count(t, a) # Count(t, b)
  <2>1. a \in Nat /\ b \in Nat /\ b # 0 /\ b - 1 \in Nat /\ a \in 0 .. b - 1
    BY <1>1 DEF EndsIn
  <2>2. Count(t, b) = Count(t, b - 1) + 1
    BY <2>1, CountIn
  <2>3. Count(t, a) <= Count(t, b - 1) /\ Count(t, b - 1) \in Nat /\ Count(t, a) \in Nat
    BY <2>1, CountIn
  <2> QED
    BY <2>2, <2>3
<1> DEFINE e == EndOf(t, Count(t, n))
<1>2. e \in EndsIn(t) /\ Count(t, e) = Count(t, n)
  BY DEF EndOf
<1>3. e \in Int /\ n \in Int
  BY <1>2 DEF EndsIn
<1> HIDE DEF e
<1>4. ~(e < n) /\ ~(n < e)
  BY <1>1, <1>2
<1>5. e = n
  BY <1>3, <1>4
<1> QED
  BY <1>5 DEF e

LEMMA OneMore ==
  ASSUME NEW t \in Seq(Bytes), NEW b \in Bytes
  PROVE  /\ Append(t, b) \in Seq(Bytes)
         /\ Len(Append(t, b)) = Len(t) + 1 /\ Len(t) \in Nat
         /\ \A n \in 1 .. Len(t) : Append(t, b)[n] = t[n]
         /\ Append(t, b)[Len(t) + 1] = b
         /\ \A n \in 1 .. Len(t) : n \in EndsIn(Append(t, b)) <=> n \in EndsIn(t)
         /\ Len(t) + 1 \in EndsIn(Append(t, b)) <=> b = "lf"
         /\ \A n \in 0 .. Len(t) : Count(Append(t, b), n) = Count(t, n)
         /\ Count(Append(t, b), Len(t) + 1) = Count(t, Len(t)) + (IF b = "lf" THEN 1 ELSE 0)
<1> DEFINE u == Append(t, b)
<1>1. /\ u \in Seq(Bytes) /\ Len(u) = Len(t) + 1 /\ Len(t) \in Nat
      /\ \A n \in 1 .. Len(t) : u[n] = t[n]
      /\ u[Len(t) + 1] = b
  BY AppendProperties
<1> HIDE DEF u
<1>2. \A n \in 1 .. Len(t) : n \in EndsIn(u) <=> n \in EndsIn(t)
  BY <1>1 DEF EndsIn
<1>3. Len(t) + 1 \in EndsIn(u) <=> b = "lf"
  BY <1>1 DEF EndsIn
<1>4. ASSUME NEW n \in 0 .. Len(t) PROVE Count(u, n) = Count(t, n)
  <2>1. {m \in EndsIn(u) : m <= n} = {m \in EndsIn(t) : m <= n}
    BY <1>1 DEF EndsIn
  <2> QED
    BY <2>1 DEF Count
<1>5. Count(u, Len(t) + 1) = Count(t, Len(t)) + (IF b = "lf" THEN 1 ELSE 0)
  <2> DEFINE k == Len(t) + 1
  <2>1. k \in Nat /\ k # 0 /\ k - 1 = Len(t)
    BY <1>1
  <2> HIDE DEF k
  <2>2. Count(u, k) = Count(u, k - 1) + (IF k \in EndsIn(u) THEN 1 ELSE 0)
    BY <2>1, <1>1, CountIn
  <2>3. Count(u, k) = Count(u, Len(t)) + (IF k \in EndsIn(u) THEN 1 ELSE 0)
    BY <2>1, <2>2
  <2>4. Count(u, Len(t)) = Count(t, Len(t))
    BY <1>1, <1>4
  <2> QED
    BY <2>3, <2>4, <1>3 DEF k
<1> QED
  BY <1>1, <1>2, <1>3, <1>4, <1>5 DEF u

\* An array holds the n bytes of a text from start on, and zeros behind them.
Filled(array, t, start, n, size) ==
    /\ start \in Nat \ {0} /\ n \in 0 .. size - 1 /\ start + n <= Len(t) + 1
    /\ \A k \in 0 .. n - 1 : /\ t[start + k] \in {"x", "cr"}
                            /\ array[k] = IF t[start + k] = "cr" THEN NUL ELSE "x"
    /\ \A k \in n .. size - 1 : array[k] = NUL

LEMMA FilledStays ==
  ASSUME NEW t \in Seq(Bytes), NEW b \in Bytes, NEW array, NEW start, NEW n,
         NEW size \in Nat, Filled(array, t, start, n, size)
  PROVE  Filled(array, Append(t, b), start, n, size)
<1> DEFINE u == Append(t, b)
<1>1. Len(u) = Len(t) + 1 /\ Len(t) \in Nat /\ \A k \in 1 .. Len(t) : u[k] = t[k]
  BY OneMore
<1> HIDE DEF u
<1>2. \A k \in 0 .. n - 1 : u[start + k] = t[start + k]
  <2> TAKE k \in 0 .. n - 1
  <2>1. start + k \in 1 .. Len(t)
    BY <1>1 DEF Filled
  <2> QED
    BY <2>1, <1>1
<1>3. Filled(array, u, start, n, size)
  BY <1>1, <1>2 DEF Filled
<1> QED
  BY <1>3 DEF u

\* One more byte of the line, in an array that differs in its place at most.
LEMMA FilledOn ==
  ASSUME NEW t \in Seq(Bytes), NEW b \in {"x", "cr"}, NEW array, NEW next, NEW start, NEW n,
         NEW size \in Nat, Filled(array, t, start, n, size),
         start + n = Len(t) + 1, n < size - 1,
         \A k \in 0 .. size - 1 : next[k] = IF k = n /\ b = "x" THEN "x" ELSE array[k]
  PROVE  Filled(next, Append(t, b), start, n + 1, size)
<1> DEFINE u == Append(t, b)
<1>1. /\ Len(u) = Len(t) + 1 /\ Len(t) \in Nat /\ u[Len(t) + 1] = b
      /\ \A k \in 1 .. Len(t) : u[k] = t[k]
  <2>1. b \in Bytes
    BY DEF Bytes
  <2> QED
    BY <2>1, OneMore
<1> HIDE DEF u
<1>2. start \in Nat \ {0} /\ n \in 0 .. size - 1
  BY DEF Filled
<1>3. ASSUME NEW k \in 0 .. (n + 1) - 1
      PROVE  u[start + k] \in {"x", "cr"} /\ next[k] = IF u[start + k] = "cr" THEN NUL ELSE "x"
  <2>1. CASE k = n
    <3>1. u[start + k] = b
      <4>1. start + k = Len(t) + 1
        BY <2>1
      <4> QED
        BY <4>1, <1>1
    <3>2. k \in 0 .. size - 1
      BY <2>1, <1>2
    <3>3. array[k] = NUL
      BY <2>1, <1>2 DEF Filled
    <3>4. next[k] = IF b = "x" THEN "x" ELSE NUL
      BY <3>2, <3>3, <2>1
    <3>5. b = "x" \/ b = "cr"
      OBVIOUS
    <3> QED
      BY <3>1, <3>4, <3>5
  <2>2. CASE k # n
    <3>1. k \in 0 .. n - 1 /\ k \in 0 .. size - 1
      BY <2>2, <1>2
    <3>2. start + k \in 1 .. Len(t)
      BY <3>1, <1>1, <1>2
    <3>3. u[start + k] = t[start + k] /\ next[k] = array[k]
      BY <3>1, <3>2, <2>2, <1>1
    <3> QED
      BY <3>1, <3>3 DEF Filled
  <2> QED
    BY <2>1, <2>2
<1>4. ASSUME NEW k \in n + 1 .. size - 1 PROVE next[k] = NUL
  <2>1. k \in n .. size - 1 /\ k \in 0 .. size - 1 /\ k # n
    BY <1>2
  <2> QED
    BY <2>1 DEF Filled
<1>5. n + 1 \in 0 .. size - 1 /\ start + (n + 1) <= Len(u) + 1
  BY <1>1, <1>2
<1>6. Filled(next, u, start, n + 1, size)
  BY <1>2, <1>3, <1>4, <1>5 DEF Filled
<1> QED
  BY <1>6 DEF u

LEMMA FirstOf ==
  ASSUME NEW places, places \subseteq Nat, places # {}
  PROVE  First(places) \in places /\ \A m \in places : First(places) <= m
<1>1. \E n \in places : \A m \in places : n <= m
  BY Least
<1> QED
  BY <1>1 DEF First

LEMMA IsFirst ==
  ASSUME NEW places, places \subseteq Nat, NEW n \in places, \A m \in places : n <= m
  PROVE  First(places) = n
<1>1. First(places) \in places /\ First(places) <= n
  BY FirstOf
<1>2. n <= First(places) /\ n \in Nat /\ First(places) \in Nat
  BY <1>1
<1> QED
  BY <1>1, <1>2

\* Two stretches that are the same.
LEMMA SameStretch ==
  ASSUME NEW p, NEW q, NEW n \in Nat, NEW S, \A k \in 1 .. n : p[k] \in S /\ q[k] = p[k]
  PROVE  SubSeq(p, 1, n) = SubSeq(q, 1, n) /\ Len(SubSeq(p, 1, n)) = n
<1>1. /\ SubSeq(p, 1, n) \in Seq(S) /\ SubSeq(q, 1, n) \in Seq(S)
      /\ Len(SubSeq(p, 1, n)) = n /\ Len(SubSeq(q, 1, n)) = n
      /\ \A k \in 1 .. n - 1 + 1 : SubSeq(p, 1, n)[k] = p[1 + k - 1]
      /\ \A k \in 1 .. n - 1 + 1 : SubSeq(q, 1, n)[k] = q[1 + k - 1]
  BY SubSeqProperties
<1>2. \A k \in 1 .. n : SubSeq(p, 1, n)[k] = SubSeq(q, 1, n)[k]
  <2> TAKE k \in 1 .. n
  <2>1. 1 + k - 1 = k /\ k \in 1 .. n - 1 + 1
    OBVIOUS
  <2>2. SubSeq(p, 1, n)[k] = p[k] /\ SubSeq(q, 1, n)[k] = q[k]
    BY <1>1, <2>1
  <2> QED
    BY <2>2
<1> QED
  BY <1>1, <1>2, SeqEqual

\* Then the string in the array is the line up to a carriage return.
LEMMA FilledIsLine ==
  ASSUME NEW t \in Seq(Bytes), NEW array, NEW start, NEW end \in Nat,
         NEW size \in Nat, Filled(array, t, start, end - start, size)
  PROVE  LET string == UpTo([n \in 1 .. size |-> array[n - 1]], {NUL}) IN
         string = UpTo(SubSeq(t, start, end - 1), {"cr"}) /\ Len(string) < size
<1> DEFINE n == end - start
           cells == [k \in 1 .. size |-> array[k - 1]]
           line == SubSeq(t, start, end - 1)
           zeros == {k \in 1 .. Len(cells) : cells[k] \in {NUL}}
           returns == {k \in 1 .. Len(line) : line[k] \in {"cr"}}
<1>1. start \in Nat \ {0} /\ n \in 0 .. size - 1 /\ start + n = end /\ end <= Len(t) + 1
  BY DEF Filled
<1>2. Len(cells) = size /\ \A k \in 1 .. size : cells[k] = array[k - 1]
  OBVIOUS
<1>3. Len(line) = n /\ \A k \in 1 .. n : line[k] = t[start + (k - 1)]
  BY <1>1, SubSeqProperties
<1>4. \A k \in 1 .. n : /\ line[k] \in {"x", "cr"}
                       /\ cells[k] = IF line[k] = "cr" THEN NUL ELSE "x"
  <2> TAKE k \in 1 .. n
  <2>1. k - 1 \in 0 .. n - 1 /\ k \in 1 .. size
    BY <1>1
  <2>2. t[start + (k - 1)] \in {"x", "cr"}
        /\ array[k - 1] = IF t[start + (k - 1)] = "cr" THEN NUL ELSE "x"
    BY <2>1 DEF Filled
  <2> QED
    BY <2>1, <2>2, <1>2, <1>3
<1>5. n + 1 \in 1 .. size /\ cells[n + 1] = NUL
  <2>1. n + 1 \in 1 .. size /\ n \in n .. size - 1
    BY <1>1
  <2>2. array[n] = NUL
    BY <2>1 DEF Filled
  <2> QED
    BY <2>1, <2>2, <1>1, <1>2
<1> HIDE DEF cells, line
<1>6. zeros # {} /\ zeros \subseteq Nat
  <2>1. n + 1 \in zeros
    BY <1>2, <1>5
  <2> QED
    BY <2>1
<1>7. UpTo(cells, {NUL}) = SubSeq(cells, 1, First(zeros) - 1)
  BY <1>6 DEF UpTo
<1>8. CASE returns = {}
  <2>1. UpTo(line, {"cr"}) = line
    BY <1>8 DEF UpTo
  <2>2. \A k \in 1 .. n : line[k] = "x" /\ cells[k] = "x"
    BY <1>3, <1>4, <1>8
  <2>3. First(zeros) = n + 1
    <3>1. n + 1 \in zeros
      BY <1>2, <1>5
    <3>2. ASSUME NEW m \in zeros PROVE n + 1 <= m
      <4>1. m \notin 1 .. n /\ m \in Nat /\ m > 0
        BY <1>2, <2>2 DEF NUL
      <4> QED
        BY <4>1, <1>1
    <3> HIDE DEF zeros
    <3> QED
      BY <3>1, <3>2, <1>6, IsFirst
  <2>4. SubSeq(cells, 1, n) = line
    <3>1. n \in Nat /\ line \in Seq({"x", "cr", "lf"}) /\ Len(line) = n
      BY <1>1, <1>3, <2>2, SubSeqProperties DEF line, Bytes
    <3> HIDE DEF n
    <3>2. SubSeq(line, 1, n) = line
      BY <3>1
    <3>3. \A k \in 1 .. n : cells[k] \in {"x"} /\ line[k] = cells[k]
      BY <2>2
    <3> QED
      BY <3>1, <3>2, <3>3, SameStretch
  <2>5. Len(line) < size
    BY <1>1, <1>3
  <2>6. UpTo(cells, {NUL}) = UpTo(line, {"cr"}) /\ Len(UpTo(cells, {NUL})) < size
    <3>1. First(zeros) - 1 = n
      BY <2>3, <1>1
    <3> QED
      BY <3>1, <2>1, <2>4, <2>5, <1>7
  <2> QED
    BY <2>6 DEF cells, line
<1>9. CASE returns # {}
  <2>1. First(returns) \in returns /\ \A m \in returns : First(returns) <= m
    <3>1. returns \subseteq Nat
      OBVIOUS
    <3> HIDE DEF returns
    <3> QED
      BY <3>1, <1>9, FirstOf
  <2>2. UpTo(line, {"cr"}) = SubSeq(line, 1, First(returns) - 1)
    BY <1>9 DEF UpTo
  <2> DEFINE f == First(returns)
  <2>3. First(zeros) = f
    <3>1. f \in 1 .. n /\ line[f] = "cr"
      BY <2>1, <1>3
    <3>2. f \in zeros
      <4> HIDE DEF f
      <4>1. cells[f] = NUL /\ f \in 1 .. size
        BY <3>1, <1>1, <1>4
      <4> QED
        BY <4>1, <1>2
    <3>3. ASSUME NEW m \in zeros PROVE f <= m
      <4>1. CASE m \in 1 .. n
        <5>1. m \in returns
          BY <4>1, <1>2, <1>3, <1>4 DEF NUL
        <5> QED
          BY <5>1, <2>1
      <4>2. CASE m \notin 1 .. n
        <5>1. m \in Nat /\ m > 0
          BY <1>2
        <5> HIDE DEF f
        <5> QED
          BY <4>2, <5>1, <3>1, <1>1
      <4> QED
        BY <4>1, <4>2
    <3> HIDE DEF zeros, f
    <3> QED
      BY <3>2, <3>3, <1>6, IsFirst
  <2>4. f \in 1 .. n /\ \A k \in 1 .. f - 1 : line[k] = "x" /\ cells[k] = "x"
    <3>1. f \in 1 .. n
      BY <2>1, <1>3
    <3>2. ASSUME NEW k \in 1 .. f - 1 PROVE line[k] # "cr" /\ k \in 1 .. n
      <4>1. k \in 1 .. n /\ ~(f <= k)
        <5> HIDE DEF f
        <5> QED
          BY <3>1, <1>1
      <4> QED
        BY <4>1, <2>1, <1>3
    <3> HIDE DEF f
    <3> QED
      BY <3>1, <3>2, <1>4
  <2> HIDE DEF f
  <2>5. SubSeq(cells, 1, f - 1) = SubSeq(line, 1, f - 1) /\ Len(SubSeq(line, 1, f - 1)) < size
    <3>1. f - 1 \in Nat /\ f - 1 < size
      BY <2>4, <1>1
    <3>2. \A k \in 1 .. f - 1 : cells[k] \in {"x"} /\ line[k] = cells[k]
      BY <2>4
    <3> QED
      BY <3>1, <3>2, SameStretch
  <2>6. UpTo(cells, {NUL}) = UpTo(line, {"cr"}) /\ Len(UpTo(cells, {NUL})) < size
    BY <2>2, <2>3, <2>5, <1>7 DEF f
  <2> QED
    BY <2>6 DEF cells, line
<1> QED
  BY <1>8, <1>9

\* All lines so far are in their fields.
LinesRead(t, arrays, lines) ==
    /\ Count(t, Len(t)) = lines
    /\ \A f \in 1 .. lines :
          /\ EndOf(t, f) \in EndsIn(t) /\ Count(t, EndOf(t, f)) = f
          /\ Filled(arrays[f], t, StartOf(t, f), EndOf(t, f) - StartOf(t, f), FieldSizes[f])

\* A byte that ends no line, or ends the next one, leaves the ends where they are.
LEMMA EndsStay ==
  ASSUME NEW t \in Seq(Bytes), NEW b \in Bytes, NEW f \in Nat,
         EndOf(t, f) \in EndsIn(t), Count(t, EndOf(t, f)) = f
  PROVE  /\ EndOf(Append(t, b), f) = EndOf(t, f)
         /\ EndOf(t, f) \in EndsIn(Append(t, b))
         /\ Count(Append(t, b), EndOf(t, f)) = f
<1> DEFINE u == Append(t, b)
           e == EndOf(t, f)
<1>1. e \in 1 .. Len(t) /\ e \in 0 .. Len(t)
  BY DEF EndsIn
<1>2. u \in Seq(Bytes) /\ e \in EndsIn(u) /\ Count(u, e) = f
  BY <1>1, OneMore
<1>3. EndOf(u, f) = e
  <2> HIDE DEF u, e
  <2> QED
    BY <1>2, EndIsKnown
<1> QED
  BY <1>2, <1>3

LEMMA StartStays ==
  ASSUME NEW t \in Seq(Bytes), NEW b \in Bytes, NEW f \in Nat \ {0},
         f # 1 => EndOf(t, f - 1) \in EndsIn(t) /\ Count(t, EndOf(t, f - 1)) = f - 1
  PROVE  StartOf(Append(t, b), f) = StartOf(t, f)
<1>1. CASE f = 1
  BY <1>1 DEF StartOf
<1>2. CASE f # 1
  <2>1. f - 1 \in Nat
    OBVIOUS
  <2>2. EndOf(Append(t, b), f - 1) = EndOf(t, f - 1)
    BY <1>2, <2>1, EndsStay
  <2> QED
    BY <2>2, <1>2 DEF StartOf
<1> QED
  BY <1>1, <1>2

\* A line stays in its field when more is read.
LEMMA LineStays ==
  ASSUME NEW t \in Seq(Bytes), NEW b \in Bytes, NEW arrays, NEW lines \in Nat,
         LinesRead(t, arrays, lines), NEW next, NEW f \in 1 .. lines, next[f] = arrays[f],
         FieldSizes[f] \in Nat
  PROVE  LET u == Append(t, b) IN
         /\ EndOf(u, f) \in EndsIn(u) /\ Count(u, EndOf(u, f)) = f
         /\ Filled(next[f], u, StartOf(u, f), EndOf(u, f) - StartOf(u, f), FieldSizes[f])
<1>1. f \in Nat /\ f \in Nat \ {0} /\ EndOf(t, f) \in EndsIn(t) /\ Count(t, EndOf(t, f)) = f
  BY DEF LinesRead
<1>2. /\ EndOf(Append(t, b), f) = EndOf(t, f)
      /\ EndOf(t, f) \in EndsIn(Append(t, b))
      /\ Count(Append(t, b), EndOf(t, f)) = f
  BY <1>1, EndsStay
<1>3. f # 1 => EndOf(t, f - 1) \in EndsIn(t) /\ Count(t, EndOf(t, f - 1)) = f - 1
  <2> HAVE f # 1
  <2>1. f - 1 \in 1 .. lines
    OBVIOUS
  <2> QED
    BY <2>1 DEF LinesRead
<1>4. StartOf(Append(t, b), f) = StartOf(t, f)
  BY <1>1, <1>3, StartStays
<1>5. Filled(arrays[f], t, StartOf(t, f), EndOf(t, f) - StartOf(t, f), FieldSizes[f])
  BY DEF LinesRead
<1>6. Filled(arrays[f], Append(t, b), StartOf(t, f), EndOf(t, f) - StartOf(t, f), FieldSizes[f])
  BY <1>5, FilledStays
<1> QED
  BY <1>2, <1>4, <1>6

\* n bytes of the line of field f have been read, and nothing of those behind.
Current(t, arrays, f, n) ==
    /\ LinesRead(t, arrays, f - 1)
    /\ Filled(arrays[f], t, StartOf(t, f), n, FieldSizes[f])
    /\ StartOf(t, f) + n = Len(t) + 1
    /\ \A g \in f + 1 .. Len(FieldSizes) : \A k \in 0 .. FieldSizes[g] - 1 : arrays[g][k] = NUL

LEMMA FieldSizeType ==
  /\ Len(FieldSizes) \in Nat \ {0} /\ 1 \in Fields
  /\ \A f \in Fields : f \in Nat \ {0} /\ FieldSizes[f] \in Nat \ {0}
BY PluginAssumption DEF Fields

LEMMA CurrentStart ==
  ASSUME NEW t \in Seq(Bytes), NEW b \in Bytes, NEW arrays, NEW f \in Nat \ {0},
         LinesRead(t, arrays, f - 1)
  PROVE  StartOf(Append(t, b), f) = StartOf(t, f)
<1>1. f # 1 => EndOf(t, f - 1) \in EndsIn(t) /\ Count(t, EndOf(t, f - 1)) = f - 1
  <2> HAVE f # 1
  <2>1. f - 1 \in 1 .. f - 1
    OBVIOUS
  <2> QED
    BY <2>1 DEF LinesRead
<1> QED
  BY <1>1, StartStays

LEMMA ByteRead ==
  ASSUME NEW t \in Seq(Bytes), NEW b \in {"x", "cr"}, NEW arrays, NEW f \in Fields, NEW n,
         Current(t, arrays, f, n), n < FieldSizes[f] - 1, NEW next,
         \A g \in Fields : g # f => next[g] = arrays[g],
         \A k \in 0 .. FieldSizes[f] - 1 :
            next[f][k] = IF k = n /\ b = "x" THEN "x" ELSE arrays[f][k]
  PROVE  Current(Append(t, b), next, f, n + 1)
<1> DEFINE u == Append(t, b)
<1>1. b \in Bytes /\ b # "lf" /\ f \in Nat \ {0} /\ FieldSizes[f] \in Nat
  BY FieldSizeType DEF Bytes
<1>2. /\ LinesRead(t, arrays, f - 1)
      /\ Filled(arrays[f], t, StartOf(t, f), n, FieldSizes[f])
      /\ StartOf(t, f) + n = Len(t) + 1
      /\ \A g \in f + 1 .. Len(FieldSizes) : \A k \in 0 .. FieldSizes[g] - 1 : arrays[g][k] = NUL
  BY DEF Current
<1>3. StartOf(u, f) = StartOf(t, f)
  BY <1>1, <1>2, CurrentStart
<1>4. Len(u) = Len(t) + 1 /\ Count(u, Len(u)) = Count(t, Len(t))
  <2>1. /\ Len(u) = Len(t) + 1 /\ Count(u, Len(t) + 1) = Count(t, Len(t)) + 0
        /\ Len(t) \in Nat
    BY <1>1, OneMore
  <2>2. Count(t, Len(t)) \in Nat
    BY <2>1, CountIn
  <2> QED
    BY <2>1, <2>2
<1>5. Filled(next[f], u, StartOf(t, f), n + 1, FieldSizes[f])
  BY <1>1, <1>2, FilledOn
<1>6. ASSUME NEW g \in 1 .. f - 1
      PROVE  /\ EndOf(u, g) \in EndsIn(u) /\ Count(u, EndOf(u, g)) = g
             /\ Filled(next[g], u, StartOf(u, g), EndOf(u, g) - StartOf(u, g), FieldSizes[g])
  <2>1. g \in Fields /\ g # f /\ f - 1 \in Nat
    BY <1>1 DEF Fields
  <2>2. FieldSizes[g] \in Nat /\ next[g] = arrays[g]
    BY <2>1, FieldSizeType
  <2> QED
    BY <2>1, <2>2, <1>1, <1>2, LineStays
<1> HIDE DEF u
<1>7. LinesRead(u, next, f - 1)
  BY <1>2, <1>4, <1>6 DEF LinesRead
<1>8. StartOf(u, f) + (n + 1) = Len(u) + 1
  <2>1. StartOf(t, f) \in Nat /\ n \in Nat /\ Len(t) \in Nat
    BY <1>2 DEF Filled
  <2> QED
    BY <2>1, <1>2, <1>3, <1>4
<1>9. ASSUME NEW g \in f + 1 .. Len(FieldSizes), NEW k \in 0 .. FieldSizes[g] - 1
      PROVE  next[g][k] = NUL
  <2>1. g \in Fields /\ g # f
    BY <1>1 DEF Fields
  <2> QED
    BY <2>1, <1>2
<1>10. Current(u, next, f, n + 1)
  BY <1>3, <1>5, <1>7, <1>8, <1>9 DEF Current
<1> QED
  BY <1>10 DEF u

LEMMA LineRead ==
  ASSUME NEW t \in Seq(Bytes), NEW arrays, NEW f \in Fields, NEW n, Current(t, arrays, f, n)
  PROVE  /\ LinesRead(Append(t, "lf"), arrays, f)
         /\ f + 1 \in Fields => Current(Append(t, "lf"), arrays, f + 1, 0)
<1> DEFINE u == Append(t, "lf")
<1>1. "lf" \in Bytes /\ f \in Nat \ {0} /\ FieldSizes[f] \in Nat
  BY FieldSizeType DEF Bytes
<1>2. /\ LinesRead(t, arrays, f - 1)
      /\ Filled(arrays[f], t, StartOf(t, f), n, FieldSizes[f])
      /\ StartOf(t, f) + n = Len(t) + 1
      /\ \A g \in f + 1 .. Len(FieldSizes) : \A k \in 0 .. FieldSizes[g] - 1 : arrays[g][k] = NUL
  BY DEF Current
<1>3. StartOf(u, f) = StartOf(t, f)
  BY <1>1, <1>2, CurrentStart
<1>4. /\ u \in Seq(Bytes) /\ Len(u) = Len(t) + 1 /\ Len(u) \in EndsIn(u) /\ Len(t) \in Nat
      /\ Count(u, Len(u)) = Count(t, Len(t)) + 1
  BY <1>1, OneMore
<1>5. Filled(arrays[f], u, StartOf(t, f), n, FieldSizes[f])
  BY <1>1, <1>2, FilledStays
<1>6. ASSUME NEW g \in 1 .. f - 1
      PROVE  /\ EndOf(u, g) \in EndsIn(u) /\ Count(u, EndOf(u, g)) = g
             /\ Filled(arrays[g], u, StartOf(u, g), EndOf(u, g) - StartOf(u, g), FieldSizes[g])
  <2>1. g \in Fields /\ f - 1 \in Nat
    BY <1>1 DEF Fields
  <2>2. FieldSizes[g] \in Nat
    BY <2>1, FieldSizeType
  <2> QED
    BY <2>1, <2>2, <1>1, <1>2, LineStays
<1> HIDE DEF u
<1>7. Count(u, Len(u)) = f
  BY <1>1, <1>2, <1>4 DEF LinesRead
<1>8. EndOf(u, f) = Len(u)
  BY <1>4, <1>7, EndIsKnown
<1>9. EndOf(u, f) - StartOf(u, f) = n
  <2>1. StartOf(t, f) \in Nat /\ n \in Int
    BY <1>2 DEF Filled
  <2> QED
    BY <2>1, <1>2, <1>3, <1>4, <1>8
<1>10. LinesRead(u, arrays, f)
  <2>1. /\ EndOf(u, f) \in EndsIn(u) /\ Count(u, EndOf(u, f)) = f
        /\ Filled(arrays[f], u, StartOf(u, f), EndOf(u, f) - StartOf(u, f), FieldSizes[f])
    BY <1>3, <1>4, <1>5, <1>7, <1>8, <1>9
  <2>2. \A g \in 1 .. f : g = f \/ g \in 1 .. f - 1
    BY <1>1
  <2> QED
    BY <2>1, <2>2, <1>6, <1>7 DEF LinesRead
<1>11. ASSUME f + 1 \in Fields PROVE Current(u, arrays, f + 1, 0)
  <2> DEFINE g == f + 1
  <2>1. g - 1 = f /\ g # 1 /\ g \in Fields /\ g \in f + 1 .. Len(FieldSizes)
    BY <1>1, <1>11 DEF Fields
  <2> HIDE DEF g
  <2>2. StartOf(u, g) = Len(u) + 1
    BY <2>1, <1>8 DEF StartOf
  <2>3. FieldSizes[g] \in Nat \ {0}
    BY <2>1, FieldSizeType
  <2>4. Filled(arrays[g], u, Len(u) + 1, 0, FieldSizes[g])
    BY <2>1, <2>3, <1>2, <1>4 DEF Filled
  <2>5. \A h \in g + 1 .. Len(FieldSizes) : h \in f + 1 .. Len(FieldSizes)
    BY <1>1, FieldSizeType DEF g
  <2>6. \A h \in g + 1 .. Len(FieldSizes) : \A k \in 0 .. FieldSizes[h] - 1 : arrays[h][k] = NUL
    BY <2>5, <1>2
  <2>7. Len(u) + 1 + 0 = Len(u) + 1
    BY <1>4
  <2>8. Current(u, arrays, g, 0)
    BY <2>1, <2>2, <2>4, <2>6, <2>7, <1>10 DEF Current
  <2> QED
    BY <2>8 DEF g
<1> QED
  BY <1>10, <1>11 DEF u

Shaped(arrays) == arrays = [f \in Fields |-> [n \in 0 .. FieldSizes[f] - 1 |-> arrays[f][n]]]

\* The lines that have been read are in their fields, up to where ddd_read_line
\* is, and in all fields once it is done.
ConfigInv ==
    /\ pc = "config" =>
          /\ text \in Seq(Bytes) /\ field \in Fields /\ Shaped(config)
          /\ Current(text, config, field, i)
    /\ pc \notin {"config", "refused"} =>
          text \in Seq(Bytes) /\ LinesRead(text, config, Len(FieldSizes))

LEMMA ConfigInit == Init => ConfigInv
<1> SUFFICES ASSUME Init PROVE ConfigInv
  OBVIOUS
<1>1. pc = "config" /\ text = <<>> /\ field = 1 /\ i = 0
      /\ config = [f \in Fields |-> [n \in 0 .. FieldSizes[f] - 1 |-> NUL]]
  BY DEF Init
<1>2. Count(<<>>, 0) = 0 /\ <<>> \in Seq(Bytes) /\ Len(<<>>) = 0
  <2>1. <<>> \in Seq(Bytes) /\ Len(<<>>) = 0 /\ 0 \in Nat
    OBVIOUS
  <2>2. Count(<<>>, 0) = 0
    BY <2>1, CountIn, Zenon
  <2> QED
    BY <2>1, <2>2
<1>3. LinesRead(<<>>, config, 0)
  BY <1>2 DEF LinesRead
<1>4. Filled(config[1], <<>>, 1, 0, FieldSizes[1])
  BY <1>1, <1>2, FieldSizeType DEF Filled
<1>5. \A g \in 1 + 1 .. Len(FieldSizes) : \A k \in 0 .. FieldSizes[g] - 1 : config[g][k] = NUL
  BY <1>1 DEF Fields
<1>6. Current(<<>>, config, 1, 0)
  BY <1>2, <1>3, <1>4, <1>5 DEF Current, StartOf
<1>7. Shaped(config)
  BY <1>1 DEF Shaped
<1> QED
  BY <1>1, <1>2, <1>6, <1>7, FieldSizeType DEF ConfigInv

LEMMA ConfigStep == ASSUME ConfigInv, [Next]_vars PROVE ConfigInv'
<1>1. ASSUME NEW b \in {"x", "cr"}, Read(b), i' = i + 1, pc' = pc, field' = field,
             config' = IF b = "x" THEN [config EXCEPT ![field][i] = "x"] ELSE config
      PROVE  ConfigInv'
  <2>1. /\ pc = "config" /\ text \in Seq(Bytes) /\ field \in Fields /\ Shaped(config)
        /\ Current(text, config, field, i)
        /\ i < FieldSizes[field] - 1 /\ text' = Append(text, b)
    BY <1>1 DEF Read, ConfigInv
  <2>2. i \in 0 .. FieldSizes[field] - 1
    BY <2>1 DEF Current, Filled
  <2>3. /\ \A g \in Fields : g # field => config'[g] = config[g]
        /\ \A k \in 0 .. FieldSizes[field] - 1 :
              config'[field][k] = IF k = i /\ b = "x" THEN "x" ELSE config[field][k]
        /\ Shaped(config')
    <3>1. CASE b = "x"
      BY <1>1, <2>1, <2>2, <3>1 DEF Shaped
    <3>2. CASE b # "x"
      BY <1>1, <2>1, <3>2 DEF Shaped
    <3> QED
      BY <3>1, <3>2
  <2>4. Current(Append(text, b), config', field, i + 1)
    BY <2>1, <2>3, ByteRead
  <2>5. Append(text, b) \in Seq(Bytes)
    BY <2>1 DEF Bytes
  <2>6. Current(text', config', field', i')
    BY <1>1, <2>1, <2>4
  <2> QED
    BY <1>1, <2>1, <2>3, <2>5, <2>6 DEF ConfigInv
<1>2. CASE ReadCharacter
  <2>1. "x" \in {"x", "cr"} /\ config' = [config EXCEPT ![field][i] = "x"]
    BY <1>2 DEF ReadCharacter
  <2> QED
    BY <1>1, <1>2, <2>1 DEF ReadCharacter
<1>3. CASE ReadReturn
  <2>1. "cr" \in {"x", "cr"} /\ config' = config
    BY <1>3 DEF ReadReturn
  <2> QED
    BY <1>1, <1>3, <2>1 DEF ReadReturn
<1>4. CASE ReadNewline
  <2>1. /\ pc = "config" /\ text \in Seq(Bytes) /\ field \in Fields /\ Shaped(config)
        /\ Current(text, config, field, i)
        /\ i < FieldSizes[field] - 1 /\ text' = Append(text, "lf")
    BY <1>4 DEF ReadNewline, Read, ConfigInv
  <2>2. i \in 0 .. FieldSizes[field] - 1 /\ config[field][i] = NUL
    <3>1. i \in 0 .. FieldSizes[field] - 1 /\ FieldSizes[field] \in Nat
      BY <2>1, FieldSizeType DEF Current, Filled
    <3>2. i \in i .. FieldSizes[field] - 1
      BY <3>1
    <3> QED
      BY <3>1, <3>2, <2>1 DEF Current, Filled
  \* The place of the newline is zero already.
  <2>3. config' = config
    BY <1>4, <2>1, <2>2 DEF ReadNewline, Shaped
  <2>4. /\ LinesRead(Append(text, "lf"), config, field)
        /\ field + 1 \in Fields => Current(Append(text, "lf"), config, field + 1, 0)
    BY <2>1, LineRead
  <2>5. Append(text, "lf") \in Seq(Bytes)
    BY <2>1 DEF Bytes
  <2>6. CASE field + 1 \in Fields
    <3>1. field' = field + 1 /\ pc' = "config" /\ i' = 0
      BY <1>4, <2>1, <2>6 DEF ReadNewline
    <3>2. Current(text', config', field', i')
      BY <3>1, <2>1, <2>3, <2>4, <2>6
    <3> QED
      BY <3>1, <3>2, <2>1, <2>3, <2>5, <2>6 DEF ConfigInv
  <2>7. CASE field + 1 \notin Fields
    <3>1. pc' = "interfaces"
      BY <1>4, <2>7 DEF ReadNewline
    <3>2. field = Len(FieldSizes)
      BY <2>1, <2>7, FieldSizeType DEF Fields
    <3>3. LinesRead(text', config', Len(FieldSizes))
      BY <3>2, <2>1, <2>3, <2>4
    <3> QED
      BY <3>1, <3>3, <2>1, <2>5 DEF ConfigInv
  <2> QED
    BY <2>6, <2>7
<1>5. CASE /\ UNCHANGED configVars
           /\ \/ pc' = "refused" \/ pc' = pc
              \/ pc \notin {"config", "refused"} /\ pc' \notin {"config", "refused"}
  BY <1>5 DEF ConfigInv, configVars
<1>6. InitInterfaces \/ ConfigFails \/ CreateWatches \/ HookChat \/ GoOnline =>
        /\ UNCHANGED configVars
        /\ \/ pc' = "refused"
           \/ pc \notin {"config", "refused"} /\ pc' \notin {"config", "refused"}
  BY DEF InitInterfaces, AddHooks, Goto, ConfigFails, CreateWatches, HookChat, GoOnline
<1>7. \/ ReadCharacter \/ ReadReturn \/ ReadNewline
      \/ InitInterfaces \/ ConfigFails \/ CreateWatches \/ HookChat \/ GoOnline
      \/ UNCHANGED <<pc, configVars>>
  BY DEF Next, Load, HandlePage, HandleQuery, HandleSet, Request, vars
<1> QED
  BY <1>2, <1>3, <1>4, <1>5, <1>6, <1>7

LEMMA LinesAreRead ==
  ASSUME text \in Seq(Bytes), LinesRead(text, config, Len(FieldSizes)), NEW f \in Fields
  PROVE  /\ StringIn(f) = UpTo(SubSeq(text, LineStart(f), LineEnd(f) - 1), {"cr"})
         /\ Len(StringIn(f)) < FieldSizes[f]
<1>1. f \in 1 .. Len(FieldSizes) /\ FieldSizes[f] \in Nat
  BY FieldSizeType DEF Fields
<1>2. /\ EndOf(text, f) \in EndsIn(text)
      /\ Filled(config[f], text, StartOf(text, f), EndOf(text, f) - StartOf(text, f), FieldSizes[f])
  BY <1>1 DEF LinesRead
<1>3. EndOf(text, f) \in Nat
  BY <1>2 DEF EndsIn
<1>4. LET string == UpTo([n \in 1 .. FieldSizes[f] |-> config[f][n - 1]], {NUL}) IN
      /\ string = UpTo(SubSeq(text, StartOf(text, f), EndOf(text, f) - 1), {"cr"})
      /\ Len(string) < FieldSizes[f]
  BY <1>1, <1>2, <1>3, FilledIsLine
<1>5. \A g : LineEnd(g) = EndOf(text, g)
  BY DEF LineEnd, EndOf, EndsIn, Newlines, Count
<1>6. LineStart(f) = StartOf(text, f)
  BY <1>5 DEF LineStart, StartOf
<1> QED
  BY <1>4, <1>5, <1>6 DEF StringIn

\* Whatever the file's lines are, each field is the line of its number, without
\* what ends it, and ends in its array (config.cpp:4-21).
THEOREM ConfigCorrect == Spec => []ConfigRead
<1>1. ConfigInv => ConfigRead
  BY LinesAreRead DEF ConfigInv, ConfigRead
<1> QED
  BY <1>1, ConfigInit, ConfigStep, PTL DEF Spec
=============================================================================
