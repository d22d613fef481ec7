------------------------ MODULE AffinityParser_proof ------------------------
(***************************************************************************)
(* The parser reads every list of rules as it is meant, for any words.     *)
(*                                                                         *)
(* Induction and recursion over lists come first, from the library's       *)
(* well-foundedness of the natural numbers; then what each function of     *)
(* package strings does with a text; then one rule; then one piece of a    *)
(* setting; then the setting, by induction over its rules.                 *)
(***************************************************************************)
EXTENDS AffinityParser, Integers, WellFoundedInduction, SequenceTheorems, TLAPS

-----------------------------------------------------------------------------
(* Induction and recursion over lists *)

\* Every set of numbers has a smallest.
LEMMA Smallest ==
  ASSUME NEW T, T \subseteq Nat, T # {}
  PROVE  \E m \in T : \A k \in T : m <= k
<1> DEFINE R == {ss \in Nat \X Nat : ss[1] < ss[2]}
<1>1. IsWellFoundedOn(R, Nat)
  BY NatLessThanWellFounded DEF OpToRel
<1>2. \A y \in Nat, x \in Nat : y < x => <<y, x>> \in R
  OBVIOUS
<1> HIDE DEF R
<1>3. PICK x \in T : \A y \in T : ~(<<y, x>> \in R)
  BY <1>1, WFMin
<1>4. ASSUME NEW y \in T PROVE x <= y
  <2>1. x \in Nat /\ y \in Nat OBVIOUS
  <2>2. ~(y < x) BY <1>2, <1>3, <2>1
  <2> QED BY <2>1, <2>2
<1> QED BY <1>4

\* Induction over the numbers.
LEMMA NatInduct ==
  ASSUME NEW S, 0 \in S, \A n \in Nat : n \in S => n + 1 \in S
  PROVE  Nat \subseteq S
<1> SUFFICES ASSUME ~(Nat \subseteq S) PROVE FALSE
  OBVIOUS
<1> DEFINE T == {n \in Nat : n \notin S}
<1>1. T \subseteq Nat /\ T # {}
  OBVIOUS
<1>2. PICK m \in T : \A k \in T : m <= k
  BY <1>1, Smallest
<1>3. m # 0 /\ m - 1 \in Nat
  OBVIOUS
<1>4. m - 1 \notin T
  BY <1>2
<1> QED BY <1>3, <1>4

\* A list that is not empty is its front and its last element.
LEMMA FrontLast ==
  ASSUME NEW T, NEW t \in Seq(T), t # <<>>
  PROVE  /\ Front(t) \in Seq(T) /\ Last(t) \in T
         /\ t = Append(Front(t), Last(t)) /\ Len(Front(t)) = Len(t) - 1
<1>1. Len(t) \in Nat \ {0} /\ Len(t) \in 1 .. Len(t) OBVIOUS
<1>2. Last(t) \in T BY <1>1 DEF Last
<1>3. Front(t) \in Seq(T) /\ Len(Front(t)) = Len(t) - 1
  <2> DEFINE n == Len(t) - 1
  <2>1. n \in Nat /\ \A i \in 1 .. n : t[i] \in T BY <1>1
  <2>2. Front(t) = SubSeq(t, 1, n) BY DEF Front
  <2> HIDE DEF n
  <2>3. SubSeq(t, 1, n) \in Seq(T) BY <2>1, SubSeqProperties
  <2>4. Len(SubSeq(t, 1, n)) = IF 1 <= n THEN n - 1 + 1 ELSE 0 BY <2>1, SubSeqProperties
  <2>5. Len(SubSeq(t, 1, n)) = n BY <2>1, <2>4
  <2> QED BY <2>2, <2>3, <2>5 DEF n
<1>4. t = Append(Front(t), Last(t)) BY <1>1 DEF Front, Last
<1> QED BY <1>2, <1>3, <1>4

\* Front and Last undo Append.
LEMMA FrontOfAppend ==
  ASSUME NEW T, NEW t \in Seq(T), NEW x \in T
  PROVE  /\ Front(Append(t, x)) = t /\ Last(Append(t, x)) = x
         /\ Append(t, x) # <<>> /\ Append(t, x) \in Seq(T)
BY DEF Front, Last

\* Induction over lists, from the front to the whole.
LEMMA SeqInduct ==
  ASSUME NEW T, NEW S, <<>> \in S,
         \A t \in Seq(T), x \in T : t \in S => Append(t, x) \in S
  PROVE  Seq(T) \subseteq S
<1> DEFINE N == {n \in Nat : \A t \in Seq(T) : Len(t) = n => t \in S}
<1>1. 0 \in N
  OBVIOUS
<1>2. ASSUME NEW n \in Nat, n \in N PROVE n + 1 \in N
  <2> SUFFICES ASSUME NEW t \in Seq(T), Len(t) = n + 1 PROVE t \in S
    OBVIOUS
  <2>1. t # <<>> OBVIOUS
  <2>2. /\ Front(t) \in Seq(T) /\ Last(t) \in T
        /\ t = Append(Front(t), Last(t)) /\ Len(Front(t)) = n
    BY <2>1, FrontLast
  <2>3. Front(t) \in S BY <1>2, <2>2
  <2> QED BY <2>2, <2>3
<1> HIDE DEF N
<1>3. Nat \subseteq N BY <1>1, <1>2, NatInduct
<1>4. \A t \in Seq(T) : Len(t) \in Nat OBVIOUS
<1> QED BY <1>3, <1>4 DEF N

-----------------------------------------------------------------------------
(* Recursion over lists *)

\* The values a recursion from c by h passes on t.
Passed(g, c, h, t, S) ==
  /\ g \in [0 .. Len(t) -> S]
  /\ g[0] = c
  /\ \A i \in 1 .. Len(t) : g[i] = h[SubSeq(t, 1, i)][g[i - 1]]

\* A pass over a list starts with one over its front.
LEMMA PassedFront ==
  ASSUME NEW T, NEW S, NEW c, NEW h, NEW t \in Seq(T), t # <<>>,
         NEW g, Passed(g, c, h, t, S)
  PROVE  \E k : Passed(k, c, h, Front(t), S) /\ g[Len(t)] = h[t][k[Len(Front(t))]]
<1> DEFINE m == Len(Front(t))
           k == [i \in 0 .. m |-> g[i]]
<1>1. Len(t) = m + 1 /\ m \in Nat
  <2>1. m = Len(t) - 1 /\ Front(t) \in Seq(T) BY FrontLast
  <2> QED BY <2>1
<1>2. \A i \in 1 .. m : SubSeq(Front(t), 1, i) = SubSeq(t, 1, i)
  BY <1>1 DEF Front
<1> HIDE DEF m
<1>3. /\ g \in [0 .. m + 1 -> S] /\ g[0] = c
      /\ \A i \in 1 .. m + 1 : g[i] = h[SubSeq(t, 1, i)][g[i - 1]]
  BY <1>1 DEF Passed
<1>4. k \in [0 .. m -> S] /\ k[0] = c /\ k[m] = g[m] BY <1>1, <1>3
<1>5. ASSUME NEW i \in 1 .. m PROVE k[i] = h[SubSeq(Front(t), 1, i)][k[i - 1]]
  <2>1. i \in 1 .. m + 1 /\ i - 1 \in 0 .. m /\ i \in 0 .. m BY <1>1
  <2>2. k[i] = g[i] /\ k[i - 1] = g[i - 1] BY <2>1
  <2>3. g[i] = h[SubSeq(t, 1, i)][g[i - 1]] BY <1>3, <2>1
  <2> QED BY <1>2, <2>2, <2>3
<1>6. g[Len(t)] = h[t][k[m]]
  <2>1. SubSeq(t, 1, m + 1) = t /\ m + 1 \in 1 .. m + 1 /\ (m + 1) - 1 = m BY <1>1
  <2> QED BY <1>1, <1>3, <1>4, <2>1
<1> HIDE DEF k
<1>7. Passed(k, c, h, Front(t), S) BY <1>4, <1>5 DEF Passed, m
<1> QED BY <1>6, <1>7 DEF m

\* There is one pass over a list.
LEMMA PassedOnce ==
  ASSUME NEW T, NEW S, NEW c \in S, NEW h \in [Seq(T) -> [S -> S]], NEW t \in Seq(T),
         NEW f, Passed(f, c, h, t, S), NEW g, Passed(g, c, h, t, S)
  PROVE  f = g
<1> DEFINE N == {n \in Nat : n <= Len(t) => f[n] = g[n]}
<1>0. Len(t) \in Nat OBVIOUS
<1>1. 0 \in N BY DEF Passed
<1>2. ASSUME NEW n \in Nat, n \in N PROVE n + 1 \in N
  <2> SUFFICES ASSUME n + 1 <= Len(t) PROVE f[n + 1] = g[n + 1]
    OBVIOUS
  <2>1. n + 1 \in 1 .. Len(t) /\ (n + 1) - 1 = n /\ f[n] = g[n] BY <1>0, <1>2
  <2>2. f[n + 1] = h[SubSeq(t, 1, n + 1)][f[n]] BY <2>1 DEF Passed
  <2>3. g[n + 1] = h[SubSeq(t, 1, n + 1)][g[n]] BY <2>1 DEF Passed
  <2> QED BY <2>1, <2>2, <2>3
<1> HIDE DEF N
<1>3. Nat \subseteq N BY <1>1, <1>2, NatInduct
<1>4. f \in [0 .. Len(t) -> S] /\ g \in [0 .. Len(t) -> S] BY DEF Passed
<1>5. \A n \in 0 .. Len(t) : f[n] = g[n] BY <1>0, <1>3 DEF N
<1> QED BY <1>4, <1>5

\* There is a pass over every list.
LEMMA PassedExists ==
  ASSUME NEW T, NEW S, NEW c \in S, NEW h \in [Seq(T) -> [S -> S]]
  PROVE  \A t \in Seq(T) : \E g : Passed(g, c, h, t, S)
<1> DEFINE P == {t \in Seq(T) : \E g : Passed(g, c, h, t, S)}
<1>1. <<>> \in P
  <2> DEFINE g == [i \in 0 .. 0 |-> c]
  <2>1. g \in [0 .. 0 -> S] /\ g[0] = c OBVIOUS
  <2>2. Len(<<>>) = 0 /\ \A i \in 1 .. 0 : FALSE OBVIOUS
  <2>3. Passed(g, c, h, <<>>, S) BY <2>1, <2>2 DEF Passed
  <2> QED BY <2>3
<1>2. ASSUME NEW t \in Seq(T), NEW x \in T, t \in P PROVE Append(t, x) \in P
  <2>1. PICK g : Passed(g, c, h, t, S) BY <1>2
  <2> DEFINE u == Append(t, x)
             m == Len(t)
             k == [i \in 0 .. m + 1 |-> IF i = m + 1 THEN h[u][g[m]] ELSE g[i]]
  <2>2. m \in Nat /\ u \in Seq(T) /\ Len(u) = m + 1 /\ SubSeq(u, 1, m + 1) = u
    OBVIOUS
  <2>3. \A i \in 1 .. m : SubSeq(u, 1, i) = SubSeq(t, 1, i) OBVIOUS
  <2>4. /\ g \in [0 .. m -> S] /\ g[0] = c
        /\ \A i \in 1 .. m : g[i] = h[SubSeq(t, 1, i)][g[i - 1]]
    BY <2>1 DEF Passed
  <2> HIDE DEF u, m
  <2>5. g[m] \in S BY <2>2, <2>4
  <2>6. h[u][g[m]] \in S
    <3>1. h[u] \in [S -> S] BY <2>2
    <3> QED BY <2>5, <3>1
  <2>7. k \in [0 .. m + 1 -> S] BY <2>2, <2>4, <2>6
  <2>8. k[0] = c BY <2>2, <2>4
  <2>9. ASSUME NEW i \in 1 .. m + 1 PROVE k[i] = h[SubSeq(u, 1, i)][k[i - 1]]
    <3>1. CASE i = m + 1
      <4>1. k[i - 1] = g[m] /\ k[i] = h[u][g[m]] BY <2>2, <3>1
      <4> QED BY <2>2, <3>1, <4>1
    <3>2. CASE i # m + 1
      <4>1. i \in 1 .. m /\ k[i] = g[i] /\ k[i - 1] = g[i - 1] BY <2>2, <3>2
      <4> QED BY <2>3, <2>4, <4>1
    <3> QED BY <3>1, <3>2
  <2> HIDE DEF k
  <2>10. Passed(k, c, h, u, S) BY <2>2, <2>7, <2>8, <2>9 DEF Passed
  <2> QED BY <2>2, <2>10 DEF u
<1> HIDE DEF P
<1>3. Seq(T) \subseteq P BY <1>1, <1>2, SeqInduct
<1> QED BY <1>3 DEF P

Recursive(f, c, h, T, S) ==
  /\ f \in [Seq(T) -> S]
  /\ f[<<>>] = c
  /\ \A t \in Seq(T) : t # <<>> => f[t] = h[t][f[Front(t)]]

\* A recursion from the front of a list to the whole defines a function.
LEMMA SeqRecursion ==
  ASSUME NEW T, NEW S, NEW c \in S, NEW h \in [Seq(T) -> [S -> S]]
  PROVE  \E f : Recursive(f, c, h, T, S)
<1> DEFINE G(t) == CHOOSE g : Passed(g, c, h, t, S)
           f == [t \in Seq(T) |-> G(t)[Len(t)]]
<1>1. \A t \in Seq(T) : Passed(G(t), c, h, t, S) BY PassedExists
<1> HIDE DEF G
<1>2. ASSUME NEW t \in Seq(T) PROVE G(t)[Len(t)] \in S
  <2>1. Len(t) \in 0 .. Len(t) OBVIOUS
  <2>2. G(t) \in [0 .. Len(t) -> S] BY <1>1 DEF Passed
  <2> QED BY <2>1, <2>2
<1>3. f \in [Seq(T) -> S] BY <1>2
<1>4. f[<<>>] = c
  <2>1. <<>> \in Seq(T) /\ Len(<<>>) = 0 OBVIOUS
  <2>2. G(<<>>)[0] = c BY <1>1, <2>1 DEF Passed
  <2> QED BY <2>1, <2>2
<1>5. ASSUME NEW t \in Seq(T), t # <<>> PROVE f[t] = h[t][f[Front(t)]]
  <2>1. Passed(G(t), c, h, t, S) BY <1>1
  <2>2. Front(t) \in Seq(T) BY <1>5, FrontLast
  <2>3. f[t] = G(t)[Len(t)] OBVIOUS
  <2>4. f[Front(t)] = G(Front(t))[Len(Front(t))] BY <2>2
  <2> HIDE DEF f
  <2>5. PICK k : /\ Passed(k, c, h, Front(t), S)
                 /\ G(t)[Len(t)] = h[t][k[Len(Front(t))]]
    BY <1>5, <2>1, PassedFront
  <2>6. k = G(Front(t)) BY <1>1, <2>2, <2>5, PassedOnce
  <2> QED BY <2>3, <2>4, <2>5, <2>6
<1> HIDE DEF f
<1> QED BY <1>3, <1>4, <1>5 DEF Recursive

-----------------------------------------------------------------------------
(* Texts, strings.Join and strings.Split step by step *)

\* The empty text and the empty list.
LEMMA EmptyText == <<>> \in Texts /\ <<>> \in Seq(Texts)
BY DEF Texts

\* Texts in a row are a text.
LEMMA ConcatText ==
  ASSUME NEW t \in Texts, NEW u \in Texts
  PROVE  t \o u \in Texts
BY DEF Texts

\* A token is a text.
LEMMA UnitText ==
  ASSUME NEW x \in Tokens
  PROVE  <<x>> \in Texts
BY DEF Texts

\* The recursion of strings.Join has a solution.
LEMMA JoinedRec ==
  ASSUME NEW sep \in Texts
  PROVE  \E f \in [Seq(Texts) -> Texts] :
           /\ f[<<>>] = <<>>
           /\ \A t \in Seq(Texts) : t # <<>> =>
                f[t] = IF Len(t) = 1 THEN Last(t) ELSE f[Front(t)] \o sep \o Last(t)
           /\ \A t \in Seq(Texts) : Joined(t, sep) = f[t]
<1> DEFINE F(f) == [t \in Seq(Texts) |-> IF t = <<>> THEN <<>>
                          ELSE IF Len(t) = 1 THEN Last(t)
                          ELSE f[Front(t)] \o sep \o Last(t)]
           J == CHOOSE f : f = F(f)
<1>1. \A t : Joined(t, sep) = J[t] BY DEF Joined
<1>2. \E f : f = F(f)
  <2> DEFINE h == [t \in Seq(Texts) |-> [a \in Texts |->
                     IF t = <<>> THEN <<>> ELSE IF Len(t) = 1 THEN Last(t)
                     ELSE a \o sep \o Last(t)]]
  <2>1. h \in [Seq(Texts) -> [Texts -> Texts]]
    <3>1. ASSUME NEW t \in Seq(Texts), t # <<>>, NEW a \in Texts
          PROVE  Last(t) \in Texts /\ a \o sep \o Last(t) \in Texts
      BY <3>1, FrontLast, ConcatText
    <3> QED BY <3>1, EmptyText
  <2>2. <<>> \in Texts BY EmptyText
  <2>3. \A t \in Seq(Texts), a \in Texts : h[t][a] =
           IF t = <<>> THEN <<>> ELSE IF Len(t) = 1 THEN Last(t) ELSE a \o sep \o Last(t)
    OBVIOUS
  <2> HIDE DEF h, F
  <2>4. PICK f : Recursive(f, <<>>, h, Texts, Texts)
    BY <2>1, <2>2, SeqRecursion
  <2>5. \A t \in Seq(Texts) : t # <<>> => Front(t) \in Seq(Texts) BY FrontLast
  <2>6. \A t \in Seq(Texts) : f[t] = F(f)[t]
    BY <2>3, <2>4, <2>5 DEF F, Recursive
  <2>7. f = F(f) BY <2>4, <2>6 DEF F, Recursive
  <2> QED BY <2>7
<1> HIDE DEF F
<1>3. J = F(J) BY <1>2
<1> HIDE DEF J
<1>4. J[<<>>] = <<>> BY <1>3, EmptyText DEF F
<1>5. \A t \in Seq(Texts) : t # <<>> =>
        J[t] = IF Len(t) = 1 THEN Last(t) ELSE J[Front(t)] \o sep \o Last(t)
  BY <1>3 DEF F
<1>6. J \in [Seq(Texts) -> Texts]
  <2> DEFINE P == {t \in Seq(Texts) : J[t] \in Texts}
  <2>1. <<>> \in P BY <1>4, EmptyText
  <2>2. ASSUME NEW t \in Seq(Texts), NEW x \in Texts, t \in P PROVE Append(t, x) \in P
    <3> DEFINE u == Append(t, x)
    <3>1. u \in Seq(Texts) /\ u # <<>> /\ Front(u) = t /\ Last(u) = x BY FrontOfAppend
    <3> HIDE DEF u
    <3>2. J[u] = IF Len(u) = 1 THEN x ELSE J[t] \o sep \o x BY <1>5, <3>1
    <3>3. J[u] \in Texts BY <2>2, <3>2, ConcatText
    <3> QED BY <3>1, <3>3 DEF u
  <2> HIDE DEF P
  <2>3. Seq(Texts) \subseteq P BY <2>1, <2>2, SeqInduct
  <2>4. \A t \in Seq(Texts) : J[t] \in Texts BY <2>3 DEF P
  <2> QED BY <1>3, <2>4 DEF F
<1> QED BY <1>1, <1>4, <1>5, <1>6

\* Join returns a text.
LEMMA JoinedText ==
  ASSUME NEW sep \in Texts, NEW t \in Seq(Texts)
  PROVE  Joined(t, sep) \in Texts
BY JoinedRec

\* Join of nothing.
LEMMA JoinedEmpty ==
  ASSUME NEW sep \in Texts
  PROVE  Joined(<<>>, sep) = <<>>
BY JoinedRec, EmptyText

\* Join of one more text.
LEMMA JoinedAppend ==
  ASSUME NEW sep \in Texts, NEW t \in Seq(Texts), NEW x \in Texts
  PROVE  Joined(Append(t, x), sep) =
           IF t = <<>> THEN x ELSE Joined(t, sep) \o sep \o x
<1> DEFINE u == Append(t, x)
<1>1. u \in Seq(Texts) /\ u # <<>> /\ Front(u) = t /\ Last(u) = x BY FrontOfAppend
<1>2. Len(u) = 1 <=> t = <<>> OBVIOUS
<1> HIDE DEF u
<1>3. PICK f \in [Seq(Texts) -> Texts] :
        /\ \A s \in Seq(Texts) : s # <<>> =>
             f[s] = IF Len(s) = 1 THEN Last(s) ELSE f[Front(s)] \o sep \o Last(s)
        /\ \A s \in Seq(Texts) : Joined(s, sep) = f[s]
  BY JoinedRec
<1>4. f[u] = IF Len(u) = 1 THEN x ELSE f[t] \o sep \o x BY <1>1, <1>3
<1> QED BY <1>1, <1>2, <1>3, <1>4 DEF u

-----------------------------------------------------------------------------
(* Split *)

PartLists == Seq(Texts) \ {<<>>}

\* A step of Split returns parts.
LEMMA CutParts ==
  ASSUME NEW sep \in Texts, NEW parts \in PartLists, NEW x \in Tokens
  PROVE  Cut(parts, x, sep) \in PartLists
<1>1. Front(parts) \in Seq(Texts) /\ Last(parts) \in Texts BY FrontLast DEF PartLists
<1> DEFINE part == Append(Last(parts), x)
           n == Len(part) - Len(sep)
<1>2. part \in Texts BY <1>1 DEF Texts
<1>3. Append(Front(parts), part) \in PartLists BY <1>1, <1>2 DEF PartLists
<1>4. ASSUME EndsWith(part, sep)
      PROVE  Front(parts) \o <<SubSeq(part, 1, n), <<>>>> \in PartLists
  <2>1. n \in 0 .. Len(part)
    <3>1. Len(sep) \in Nat /\ Len(part) \in Nat BY <1>2 DEF Texts
    <3> QED BY <1>4, <3>1 DEF EndsWith
  <2>2. SubSeq(part, 1, n) \in Texts
    <3>1. \A i \in 1 .. n : part[i] \in Tokens BY <1>2, <2>1 DEF Texts
    <3>2. n \in Int /\ 1 \in Int BY <2>1
    <3> HIDE DEF n, part
    <3> QED BY <3>1, <3>2, SubSeqProperties DEF Texts
  <2> QED BY <1>1, <2>2, EmptyText DEF PartLists
<1> HIDE DEF part
<1> QED BY <1>3, <1>4 DEF Cut, part

\* The recursion of strings.Split has a solution.
LEMMA SplitRec ==
  ASSUME NEW sep \in Texts
  PROVE  \E f \in [Texts -> PartLists] :
           /\ f[<<>>] = <<<<>>>>
           /\ \A t \in Texts : t # <<>> => f[t] = Cut(f[Front(t)], Last(t), sep)
           /\ \A t \in Texts : Split(t, sep) = f[t]
<1> DEFINE F(f) == [t \in Texts |->
                     IF t = <<>> THEN <<<<>>>> ELSE Cut(f[Front(t)], Last(t), sep)]
           J == CHOOSE f : f = F(f)
<1>1. \A t : Split(t, sep) = J[t] BY DEF Split
<1>2. <<<<>>>> \in PartLists BY EmptyText DEF PartLists
<1>3. \A t \in Texts : t # <<>> => Front(t) \in Texts /\ Last(t) \in Tokens
  BY FrontLast DEF Texts
<1>4. \E f : f = F(f)
  <2> DEFINE h == [t \in Texts |-> [a \in PartLists |->
                     IF t = <<>> THEN a ELSE Cut(a, Last(t), sep)]]
  <2>1. h \in [Texts -> [PartLists -> PartLists]] BY <1>3, CutParts
  <2>2. \A t \in Texts, a \in PartLists : t # <<>> => h[t][a] = Cut(a, Last(t), sep)
    OBVIOUS
  <2> HIDE DEF h, F
  <2>3. PICK f : Recursive(f, <<<<>>>>, h, Tokens, PartLists)
    BY <1>2, <2>1, SeqRecursion DEF Texts
  <2>4. f \in [Texts -> PartLists] BY <2>3 DEF Recursive, Texts
  <2>5. \A t \in Texts : f[t] = F(f)[t]
    BY <1>3, <2>2, <2>3, <2>4 DEF F, Recursive, Texts
  <2>6. f = F(f) BY <2>4, <2>5 DEF F
  <2> QED BY <2>6
<1> HIDE DEF F
<1>5. J = F(J) BY <1>4
<1> HIDE DEF J
<1>6. J[<<>>] = <<<<>>>> BY <1>5, EmptyText DEF F
<1>7. \A t \in Texts : t # <<>> => J[t] = Cut(J[Front(t)], Last(t), sep) BY <1>5 DEF F
<1>8. J \in [Texts -> PartLists]
  <2> DEFINE P == {t \in Texts : J[t] \in PartLists}
  <2>1. <<>> \in P BY <1>2, <1>6, EmptyText
  <2>2. ASSUME NEW t \in Seq(Tokens), NEW x \in Tokens, t \in P PROVE Append(t, x) \in P
    <3> DEFINE u == Append(t, x)
    <3>1. u \in Texts /\ u # <<>> /\ Front(u) = t /\ Last(u) = x BY FrontOfAppend DEF Texts
    <3> HIDE DEF u
    <3>2. J[u] = Cut(J[t], x, sep) BY <1>7, <3>1
    <3>3. J[u] \in PartLists BY <2>2, <3>2, CutParts
    <3> QED BY <3>1, <3>3 DEF u
  <2> HIDE DEF P
  <2>3. Texts \subseteq P BY <2>1, <2>2, SeqInduct DEF Texts
  <2>4. \A t \in Texts : J[t] \in PartLists BY <2>3 DEF P
  <2> QED BY <1>5, <2>4 DEF F
<1> QED BY <1>1, <1>6, <1>7, <1>8

\* Split returns at least one part.
LEMMA SplitParts ==
  ASSUME NEW sep \in Texts, NEW t \in Texts
  PROVE  Split(t, sep) \in PartLists
BY SplitRec

\* Split of the empty text.
LEMMA SplitEmpty ==
  ASSUME NEW sep \in Texts
  PROVE  Split(<<>>, sep) = <<<<>>>>
BY SplitRec, EmptyText

\* Split of one more token.
LEMMA SplitAppend ==
  ASSUME NEW sep \in Texts, NEW t \in Texts, NEW x \in Tokens
  PROVE  Split(Append(t, x), sep) = Cut(Split(t, sep), x, sep)
<1> DEFINE u == Append(t, x)
<1>1. u \in Texts /\ u # <<>> /\ Front(u) = t /\ Last(u) = x BY FrontOfAppend DEF Texts
<1> HIDE DEF u
<1>2. PICK f \in [Texts -> PartLists] :
        /\ \A s \in Texts : s # <<>> => f[s] = Cut(f[Front(s)], Last(s), sep)
        /\ \A s \in Texts : Split(s, sep) = f[s]
  BY SplitRec
<1> QED BY <1>1, <1>2 DEF u

-----------------------------------------------------------------------------
(* What Split cuts *)

\* A token that completes no separator stays in its part.
LEMMA CutNot ==
  ASSUME NEW sep \in Texts, NEW front \in Seq(Texts), NEW q \in Texts, NEW x \in Tokens,
         ~EndsWith(Append(q, x), sep)
  PROVE  Cut(Append(front, q), x, sep) = Append(front, Append(q, x))
<1>1. Front(Append(front, q)) = front /\ Last(Append(front, q)) = q BY FrontOfAppend
<1> QED BY <1>1 DEF Cut

\* t falls into parts: front, and q last.
Splits(t, sep, front, q) == Split(t, sep) = Append(front, q)

\* No separator is complete in v, after q.
Uncut(q, v, sep) == \A n \in 1 .. Len(v) : ~EndsWith(q \o SubSeq(v, 1, n), sep)

\* Text without a separator goes into the last part.
LEMMA SplitMore ==
  ASSUME NEW sep \in Texts, NEW t \in Texts, NEW front \in Seq(Texts), NEW q \in Texts,
         Splits(t, sep, front, q), NEW v \in Texts, Uncut(q, v, sep)
  PROVE  Splits(t \o v, sep, front, q \o v)
<1>0. Split(t, sep) = Append(front, q) BY DEF Splits
<1> DEFINE Whole(u) == \A n \in 1 .. Len(u) : ~EndsWith(q \o SubSeq(u, 1, n), sep)
           P == {u \in Texts : Whole(u) => Split(t \o u, sep) = Append(front, q \o u)}
<1>1. <<>> \in P
  <2>1. t \o <<>> = t /\ q \o <<>> = q BY DEF Texts
  <2> QED BY <1>0, <2>1, EmptyText
<1>2. ASSUME NEW u \in Seq(Tokens), NEW x \in Tokens, u \in P PROVE Append(u, x) \in P
  <2>1. Append(u, x) \in Texts BY DEF Texts
  <2> SUFFICES ASSUME Whole(Append(u, x))
               PROVE  Split(t \o Append(u, x), sep) = Append(front, q \o Append(u, x))
    BY <2>1
  <2>2. Whole(u)
    <3> SUFFICES ASSUME NEW n \in 1 .. Len(u) PROVE ~EndsWith(q \o SubSeq(u, 1, n), sep)
      OBVIOUS
    <3>1. n \in 1 .. Len(Append(u, x)) /\ SubSeq(Append(u, x), 1, n) = SubSeq(u, 1, n)
      OBVIOUS
    <3> QED BY <3>1
  <2>3. Split(t \o u, sep) = Append(front, q \o u) BY <1>2, <2>2
  <2>4. /\ t \o Append(u, x) = Append(t \o u, x) /\ q \o Append(u, x) = Append(q \o u, x)
        /\ t \o u \in Texts /\ q \o u \in Texts
    BY DEF Texts
  <2>5. ~EndsWith(Append(q \o u, x), sep)
    <3>1. /\ Len(Append(u, x)) \in 1 .. Len(Append(u, x))
          /\ SubSeq(Append(u, x), 1, Len(Append(u, x))) = Append(u, x)
      OBVIOUS
    <3> QED BY <2>4, <3>1
  <2> HIDE DEF Whole, P
  <2>6. Split(Append(t \o u, x), sep) = Cut(Split(t \o u, sep), x, sep)
    BY <2>4, SplitAppend
  <2>7. Cut(Append(front, q \o u), x, sep) = Append(front, Append(q \o u, x))
    <3>1. PICK w \in Texts : w = q \o u BY <2>4
    <3>2. ~EndsWith(Append(w, x), sep) BY <2>5, <3>1
    <3>3. Cut(Append(front, w), x, sep) = Append(front, Append(w, x))
      BY <3>2, CutNot
    <3> QED BY <3>1, <3>3
  <2> QED BY <2>3, <2>4, <2>6, <2>7
<1>3. Whole(v) BY DEF Uncut
<1> HIDE DEF P, Whole
<1>4. Texts \subseteq P BY <1>1, <1>2, SeqInduct DEF Texts
<1> QED BY <1>3, <1>4 DEF P, Splits

-----------------------------------------------------------------------------
(* Separators of one token *)

\* A text ends with a separator of one token.
LEMMA EndsWithOne ==
  ASSUME NEW t \in Texts, NEW x \in Tokens, NEW c
  PROVE  EndsWith(Append(t, x), <<c>>) <=> x = c
<1> DEFINE u == Append(t, x)
<1>1. Len(<<c>>) = 1 /\ Len(u) \in Nat \ {0} /\ u[Len(u)] = x /\ u \in Texts BY DEF Texts
<1>2. SubSeq(u, Len(u), Len(u)) = <<x>>
  <2>1. PICK n \in Nat \ {0} : n = Len(u) /\ n \in 1 .. Len(u) BY <1>1
  <2> HIDE DEF u
  <2>2. \A i \in n .. n : u[i] \in Tokens BY <1>1, <2>1 DEF Texts
  <2>3. PICK w : w = SubSeq(u, n, n) OBVIOUS
  <2>4. w \in Seq(Tokens) /\ Len(w) = 1 /\ w[1] = u[n]
    <3>1. /\ w \in Seq(Tokens) /\ Len(w) = IF n <= n THEN n - n + 1 ELSE 0
          /\ \A i \in 1 .. n - n + 1 : w[i] = u[n + i - 1]
      BY <2>1, <2>2, <2>3, SubSeqProperties
    <3>2. n - n + 1 = 1 /\ n + 1 - 1 = n BY <2>1
    <3> QED BY <2>1, <3>1, <3>2
  <2>5. w = <<w[1]>> BY <2>4
  <2> QED BY <1>1, <2>1, <2>3, <2>4, <2>5
<1>3. Len(u) - 1 + 1 = Len(u) /\ 1 <= Len(u) BY <1>1
<1> HIDE DEF u
<1>4. EndsWith(u, <<c>>) <=> <<x>> = <<c>> BY <1>1, <1>2, <1>3 DEF EndsWith
<1>5. <<x>> = <<c>> <=> x = c OBVIOUS
<1> QED BY <1>4, <1>5 DEF u

\* A text without the separator stays in its part.
LEMMA SplitWithout ==
  ASSUME NEW c \in Tokens, NEW t \in Texts, NEW front \in Seq(Texts), NEW q \in Texts,
         Splits(t, <<c>>, front, q), NEW v \in Texts, ~Contains(v, c)
  PROVE  Splits(t \o v, <<c>>, front, q \o v)
<1>1. ASSUME NEW n \in 1 .. Len(v) PROVE ~EndsWith(q \o SubSeq(v, 1, n), <<c>>)
  <2> DEFINE w == q \o SubSeq(v, 1, n - 1)
  <2>1. v[n] \in Tokens /\ n - 1 \in Nat /\ n - 1 < Len(v) BY DEF Texts
  <2>2. SubSeq(v, 1, n - 1) \in Texts
    <3>1. \A i \in 1 .. n - 1 : v[i] \in Tokens BY DEF Texts
    <3> QED BY <2>1, <3>1, SubSeqProperties DEF Texts
  <2>3. w \in Texts BY <2>2, ConcatText
  <2>4. SubSeq(v, 1, n) = Append(SubSeq(v, 1, n - 1), v[n]) BY <2>1 DEF Texts
  <2>5. q \o SubSeq(v, 1, n) = Append(w, v[n])
    <3>1. q \o Append(SubSeq(v, 1, n - 1), v[n]) = Append(q \o SubSeq(v, 1, n - 1), v[n])
      <4> DEFINE z == SubSeq(v, 1, n - 1)
      <4> HIDE DEF z
      <4>1. z \in Texts BY <2>2 DEF z
      <4>2. q \o Append(z, v[n]) = Append(q \o z, v[n]) BY <2>1, <4>1 DEF Texts
      <4> QED BY <4>2 DEF z
    <3> QED BY <2>4, <3>1
  <2>6. v[n] # c BY DEF Contains
  <2> HIDE DEF w
  <2>7. ~EndsWith(Append(w, v[n]), <<c>>) BY <2>1, <2>3, <2>6, EndsWithOne
  <2> QED BY <2>5, <2>7
<1>2. <<c>> \in Texts BY UnitText
<1>3. Uncut(q, v, <<c>>) BY <1>1 DEF Uncut
<1> QED BY <1>2, <1>3, SplitMore

\* A separator opens a part.
LEMMA SplitAt ==
  ASSUME NEW c \in Tokens, NEW t \in Texts, NEW v \in Texts, ~Contains(v, c)
  PROVE  Split(t \o <<c>> \o v, <<c>>) = Append(Split(t, <<c>>), v)
<1>1. <<c>> \in Texts BY UnitText
<1>2. PICK parts : parts = Split(t, <<c>>) /\ parts \in PartLists BY <1>1, SplitParts
<1>3. /\ Front(parts) \in Seq(Texts) /\ Last(parts) \in Texts
      /\ parts = Append(Front(parts), Last(parts))
  BY <1>2, FrontLast DEF PartLists
<1>4. Split(Append(t, c), <<c>>) = Cut(parts, c, <<c>>) BY <1>1, <1>2, SplitAppend
<1>5. Cut(parts, c, <<c>>) = Append(parts, <<>>)
  <2> DEFINE part == Append(Last(parts), c)
  <2>1. EndsWith(part, <<c>>) BY <1>3, EndsWithOne
  <2>2. SubSeq(part, 1, Len(part) - Len(<<c>>)) = Last(parts) BY <1>3 DEF Texts
  <2> HIDE DEF part
  <2>3. Cut(parts, c, <<c>>) = Front(parts) \o <<Last(parts), <<>>>> BY <2>1, <2>2 DEF Cut, part
  <2>4. ASSUME NEW f \in Seq(Texts), NEW l \in Texts
        PROVE  f \o <<l, <<>>>> = Append(Append(f, l), <<>>)
    BY <2>4, EmptyText
  <2> QED BY <1>3, <2>3, <2>4
<1>6. Append(t, c) \in Texts /\ Append(t, c) = t \o <<c>> BY DEF Texts
<1>7. <<>> \o v = v BY DEF Texts
<1>8. parts \in Seq(Texts) BY <1>2 DEF PartLists
<1>9. PICK u \in Texts : u = Append(t, c) BY <1>6
<1>10. Splits(u, <<c>>, parts, <<>>) BY <1>4, <1>5, <1>9 DEF Splits
<1>11. Splits(u \o v, <<c>>, parts, <<>> \o v)
  BY <1>8, <1>10, EmptyText, SplitWithout
<1> QED BY <1>2, <1>6, <1>7, <1>9, <1>11 DEF Splits

\* A text without the separator is one part.
LEMMA SplitWhole ==
  ASSUME NEW c \in Tokens, NEW v \in Texts, ~Contains(v, c)
  PROVE  Split(v, <<c>>) = <<v>>
<1>1. Splits(<<>>, <<c>>, <<>>, <<>>) BY UnitText, SplitEmpty DEF Splits
<1>2. <<>> \o v = v /\ Append(<<>>, v) = <<v>> BY DEF Texts
<1>3. Splits(<<>> \o v, <<c>>, <<>>, <<>> \o v) BY <1>1, EmptyText, SplitWithout
<1> QED BY <1>2, <1>3 DEF Splits

\* Split undoes Join.
LEMMA SplitJoined ==
  ASSUME NEW c \in Tokens, NEW parts \in Seq(Texts), parts # <<>>,
         \A i \in 1 .. Len(parts) : ~Contains(parts[i], c)
  PROVE  Split(Joined(parts, <<c>>), <<c>>) = parts
<1> DEFINE Free(p) == \A i \in 1 .. Len(p) : ~Contains(p[i], c)
           P == {p \in Seq(Texts) : p # <<>> /\ Free(p) => Split(Joined(p, <<c>>), <<c>>) = p}
<1>0. <<c>> \in Texts BY UnitText
<1>1. <<>> \in P BY EmptyText
<1>2. ASSUME NEW p \in Seq(Texts), NEW x \in Texts, p \in P PROVE Append(p, x) \in P
  <2>1. Append(p, x) \in Seq(Texts) OBVIOUS
  <2> SUFFICES ASSUME Free(Append(p, x))
               PROVE  Split(Joined(Append(p, x), <<c>>), <<c>>) = Append(p, x)
    BY <2>1
  <2>2. ~Contains(x, c)
    <3>1. Len(Append(p, x)) \in 1 .. Len(Append(p, x)) /\ Append(p, x)[Len(Append(p, x))] = x
      OBVIOUS
    <3> QED BY <3>1
  <2>3. Free(p)
    <3> SUFFICES ASSUME NEW i \in 1 .. Len(p) PROVE ~Contains(p[i], c)
      OBVIOUS
    <3>1. i \in 1 .. Len(Append(p, x)) /\ Append(p, x)[i] = p[i] OBVIOUS
    <3> QED BY <3>1
  <2>4. Joined(Append(p, x), <<c>>) = IF p = <<>> THEN x ELSE Joined(p, <<c>>) \o <<c>> \o x
    BY <1>0, JoinedAppend
  <2>5. CASE p = <<>>
    <3>1. Split(x, <<c>>) = <<x>> BY <2>2, SplitWhole
    <3>2. Append(p, x) = <<x>> BY <2>5
    <3> QED BY <2>4, <2>5, <3>1, <3>2
  <2>6. CASE p # <<>>
    <3>1. Split(Joined(p, <<c>>), <<c>>) = p BY <1>2, <2>3, <2>6
    <3>2. Joined(p, <<c>>) \in Texts BY <1>0, JoinedText
    <3>3. Split(Joined(p, <<c>>) \o <<c>> \o x, <<c>>)
            = Append(Split(Joined(p, <<c>>), <<c>>), x)
      BY <2>2, <3>2, SplitAt
    <3> QED BY <2>4, <2>6, <3>1, <3>3
  <2> QED BY <2>5, <2>6
<1>3. Free(parts) OBVIOUS
<1> HIDE DEF P, Free
<1>4. Seq(Texts) \subseteq P BY <1>1, <1>2, SeqInduct
<1> QED BY <1>3, <1>4 DEF P

-----------------------------------------------------------------------------
(* What is in a text, and what Trim leaves of it *)

\* The tokens of two texts in a row.
LEMMA ContainsConcat ==
  ASSUME NEW t \in Texts, NEW u \in Texts, NEW c
  PROVE  Contains(t \o u, c) <=> Contains(t, c) \/ Contains(u, c)
<1> DEFINE w == t \o u
<1>1. /\ Len(t) \in Nat /\ Len(u) \in Nat /\ Len(w) = Len(t) + Len(u)
      /\ \A i \in 1 .. Len(t) : w[i] = t[i]
      /\ \A i \in 1 .. Len(u) : w[Len(t) + i] = u[i]
  BY DEF Texts
<1> HIDE DEF w
<1>2. ASSUME NEW i \in 1 .. Len(t) PROVE i \in 1 .. Len(w) /\ w[i] = t[i]
  BY <1>1
<1>3. ASSUME NEW i \in 1 .. Len(u) PROVE Len(t) + i \in 1 .. Len(w) /\ w[Len(t) + i] = u[i]
  BY <1>1
<1>4. ASSUME NEW i \in 1 .. Len(w)
      PROVE  (i \in 1 .. Len(t) /\ w[i] = t[i]) \/ \E j \in 1 .. Len(u) : w[i] = u[j]
  <2>1. CASE i <= Len(t) BY <1>1, <2>1
  <2>2. CASE ~(i <= Len(t))
    <3>1. i - Len(t) \in 1 .. Len(u) /\ Len(t) + (i - Len(t)) = i BY <1>1, <2>2
    <3> QED BY <1>1, <3>1
  <2> QED BY <2>1, <2>2
<1>5. Contains(w, c) => Contains(t, c) \/ Contains(u, c)
  BY <1>4 DEF Contains
<1>6. Contains(t, c) => Contains(w, c) BY <1>2 DEF Contains
<1>7. Contains(u, c) => Contains(w, c) BY <1>3 DEF Contains
<1> QED BY <1>5, <1>6, <1>7 DEF w

\* The token of a text of one.
LEMMA ContainsUnit ==
  ASSUME NEW x, NEW c
  PROVE  Contains(<<x>>, c) <=> x = c
BY DEF Contains

\* The empty text has no tokens.
LEMMA ContainsEmpty ==
  ASSUME NEW c
  PROVE  ~Contains(<<>>, c)
BY DEF Contains

\* Join adds no token but those of the separator.
LEMMA ContainsJoined ==
  ASSUME NEW sep \in Texts, NEW parts \in Seq(Texts), NEW c, ~Contains(sep, c),
         \A i \in 1 .. Len(parts) : ~Contains(parts[i], c)
  PROVE  ~Contains(Joined(parts, sep), c)
<1> DEFINE Free(p) == \A i \in 1 .. Len(p) : ~Contains(p[i], c)
           P == {p \in Seq(Texts) : Free(p) => ~Contains(Joined(p, sep), c)}
<1>1. <<>> \in P BY EmptyText, JoinedEmpty, ContainsEmpty
<1>2. ASSUME NEW p \in Seq(Texts), NEW x \in Texts, p \in P PROVE Append(p, x) \in P
  <2>1. Append(p, x) \in Seq(Texts) OBVIOUS
  <2> SUFFICES ASSUME Free(Append(p, x)) PROVE ~Contains(Joined(Append(p, x), sep), c)
    BY <2>1
  <2>2. ~Contains(x, c)
    <3>1. Len(Append(p, x)) \in 1 .. Len(Append(p, x)) /\ Append(p, x)[Len(Append(p, x))] = x
      OBVIOUS
    <3> QED BY <3>1
  <2>3. Free(p)
    <3> SUFFICES ASSUME NEW i \in 1 .. Len(p) PROVE ~Contains(p[i], c)
      OBVIOUS
    <3>1. i \in 1 .. Len(Append(p, x)) /\ Append(p, x)[i] = p[i] OBVIOUS
    <3> QED BY <3>1
  <2>4. Joined(Append(p, x), sep) = IF p = <<>> THEN x ELSE Joined(p, sep) \o sep \o x
    BY JoinedAppend
  <2>5. PICK j \in Texts : j = Joined(p, sep) /\ ~Contains(j, c) BY <1>2, <2>3, JoinedText
  <2>6. ~Contains(j \o sep \o x, c)
    <3>1. PICK k \in Texts : k = j \o sep BY ConcatText
    <3>2. ~Contains(k, c) BY <2>5, <3>1, ContainsConcat
    <3>3. ~Contains(k \o x, c) BY <2>2, <3>2, ContainsConcat
    <3> QED BY <3>1, <3>3
  <2> QED BY <2>2, <2>4, <2>5, <2>6
<1>3. Free(parts) OBVIOUS
<1> HIDE DEF P, Free
<1>4. Seq(Texts) \subseteq P BY <1>1, <1>2, SeqInduct
<1> QED BY <1>3, <1>4 DEF P

-----------------------------------------------------------------------------
(* Trims *)

\* The largest of a set.
LEMMA MaxIs ==
  ASSUME NEW S, S \subseteq Int, NEW m \in S, \A x \in S : x <= m
  PROVE  Max(S) = m
<1>1. \A y \in S : m >= y OBVIOUS
<1>2. PICK x : x = Max(S) /\ x \in S /\ \A y \in S : x >= y BY <1>1 DEF Max
<1>3. x >= m /\ m >= x /\ x \in Int /\ m \in Int BY <1>1, <1>2
<1>4. x = m BY <1>3
<1> QED BY <1>2, <1>4

\* The smallest of a set.
LEMMA MinIs ==
  ASSUME NEW S, S \subseteq Int, NEW m \in S, \A x \in S : m <= x
  PROVE  Min(S) = m
<1>1. PICK x : x = Min(S) /\ x \in S /\ \A y \in S : x =< y BY DEF Min
<1>2. x <= m /\ m <= x /\ x \in Int /\ m \in Int BY <1>1
<1>3. x = m BY <1>2
<1> QED BY <1>1, <1>3

\* Only c, or nothing.
Filler(t, c) == \A i \in 1 .. Len(t) : t[i] = c

\* TrimRight drops what fills the end.
LEMMA TrimRightIs ==
  ASSUME NEW t \in Texts, NEW v \in Texts, NEW c, Filler(v, c), t = <<>> \/ Last(t) # c
  PROVE  TrimRight(t \o v, c) = t
<1> DEFINE w == t \o v
           S == {0} \cup {i \in DOMAIN w : w[i] # c}
<1>1. /\ Len(t) \in Nat /\ Len(v) \in Nat /\ Len(w) = Len(t) + Len(v)
      /\ \A i \in 1 .. Len(t) : w[i] = t[i]
      /\ \A i \in 1 .. Len(v) : w[Len(t) + i] = v[i]
      /\ DOMAIN w = 1 .. Len(w) /\ SubSeq(w, 1, Len(t)) = t
  BY DEF Texts
<1> HIDE DEF w
<1>2. S \subseteq Int BY <1>1
<1>3. Len(t) \in S
  <2>1. CASE t = <<>> BY <2>1
  <2>2. CASE t # <<>>
    <3>1. Len(t) \in 1 .. Len(t) BY <2>2 DEF Texts
    <3>2. w[Len(t)] # c BY <1>1, <2>2, <3>1 DEF Last
    <3>3. Len(t) \in 1 .. Len(w) BY <1>1, <3>1
    <3> QED BY <1>1, <3>2, <3>3
  <2> QED BY <2>1, <2>2
<1>4. ASSUME NEW i \in S PROVE i <= Len(t)
  <2> SUFFICES ASSUME i \in 1 .. Len(w), w[i] # c, ~(i <= Len(t)) PROVE FALSE
    BY <1>1
  <2>1. i - Len(t) \in 1 .. Len(v) /\ Len(t) + (i - Len(t)) = i BY <1>1
  <2> QED BY <1>1, <2>1 DEF Filler
<1> HIDE DEF S
<1>5. Max(S) = Len(t) BY <1>2, <1>3, <1>4, MaxIs
<1> QED BY <1>1, <1>5 DEF TrimRight, S, w

\* TrimLeft drops what fills the start.
LEMMA TrimLeftIs ==
  ASSUME NEW t \in Texts, NEW v \in Texts, NEW c, Filler(v, c), t = <<>> \/ t[1] # c
  PROVE  TrimLeft(v \o t, c) = t
<1> DEFINE w == v \o t
           n == Len(v) + 1
           S == {Len(w) + 1} \cup {i \in DOMAIN w : w[i] # c}
<1>1. /\ Len(t) \in Nat /\ Len(v) \in Nat /\ Len(w) = Len(v) + Len(t)
      /\ \A i \in 1 .. Len(v) : w[i] = v[i]
      /\ \A i \in 1 .. Len(t) : w[Len(v) + i] = t[i]
      /\ DOMAIN w = 1 .. Len(w)
  BY DEF Texts
<1>2. SubSeq(w, n, Len(w)) = t BY DEF Texts
<1> HIDE DEF w
<1>3. S \subseteq Int BY <1>1
<1>4. n \in S
  <2>1. CASE t = <<>> BY <1>1, <2>1
  <2>2. CASE t # <<>>
    <3>1. 1 \in 1 .. Len(t) BY <2>2 DEF Texts
    <3>2. w[n] # c BY <1>1, <2>2, <3>1
    <3>3. n \in 1 .. Len(w) BY <1>1, <3>1
    <3> QED BY <1>1, <3>2, <3>3
  <2> QED BY <2>1, <2>2
<1>5. ASSUME NEW i \in S PROVE n <= i
  <2>1. CASE i = Len(w) + 1 BY <1>1, <2>1
  <2>2. CASE i \in 1 .. Len(w) /\ w[i] # c
    <3>1. ~(i <= Len(v))
      <4> SUFFICES ASSUME i <= Len(v) PROVE FALSE
        OBVIOUS
      <4>1. i \in 1 .. Len(v) BY <1>1, <2>2
      <4> QED BY <1>1, <2>2, <4>1 DEF Filler
    <3> QED BY <1>1, <2>2, <3>1
  <2> QED BY <1>1, <2>1, <2>2
<1> HIDE DEF S
<1>6. Min(S) = n BY <1>3, <1>4, <1>5, MinIs
<1> QED BY <1>2, <1>6 DEF TrimLeft, S, w

\* TrimSpace drops the spaces around a text.
LEMMA TrimSpaceIs ==
  ASSUME NEW t \in Texts, NEW v \in Texts, Filler(v, Space), ~Contains(t, Space)
  PROVE  TrimSpace(v \o t \o v) = t
<1>1. CASE t = <<>>
  <2>1. PICK w \in Texts : w = v \o v BY ConcatText
  <2>2. Filler(w, Space) BY <2>1 DEF Filler, Texts
  <2>3. v \o t \o v = <<>> \o w BY <1>1, <2>1 DEF Texts
  <2>4. TrimRight(<<>> \o w, Space) = <<>> BY <2>2, EmptyText, TrimRightIs
  <2>5. Filler(<<>>, Space) BY DEF Filler
  <2>6. TrimLeft(<<>> \o <<>>, Space) = <<>> BY <2>5, EmptyText, TrimLeftIs
  <2>7. <<>> \o <<>> = <<>> OBVIOUS
  <2> QED BY <1>1, <2>3, <2>4, <2>6, <2>7 DEF TrimSpace
<1>2. CASE t # <<>>
  <2>1. Len(t) \in 1 .. Len(t) /\ 1 \in 1 .. Len(t) BY <1>2 DEF Texts
  <2>2. t[1] # Space /\ t[Len(t)] # Space BY <2>1 DEF Contains
  <2>3. PICK w \in Texts : w = v \o t BY ConcatText
  <2>4. w # <<>> /\ Last(w) = t[Len(t)] BY <1>2, <2>1, <2>3 DEF Texts, Last
  <2>5. TrimRight(w \o v, Space) = w BY <2>2, <2>4, TrimRightIs
  <2>6. TrimLeft(v \o t, Space) = t BY <2>2, TrimLeftIs
  <2> QED BY <2>3, <2>5, <2>6 DEF TrimSpace
<1> QED BY <1>1, <1>2

-----------------------------------------------------------------------------
(* The loops over keys and over pieces *)

-----------------------------------------------------------------------------
(* The loops *)

\* A bounded set of numbers has a largest.
LEMMA Largest ==
  ASSUME NEW n \in Nat, NEW S, S \subseteq 0 .. n, S # {}
  PROVE  \E m \in S : \A k \in S : k <= m
<1> DEFINE T == {n - k : k \in S}
<1>1. T \subseteq Nat /\ T # {}
  <2>1. ASSUME NEW k \in S PROVE n - k \in Nat
    <3>1. k \in 0 .. n OBVIOUS
    <3> QED BY <3>1
  <2> QED BY <2>1
<1>2. PICK x \in T : \A y \in T : x <= y BY <1>1, Smallest
<1>3. PICK m \in S : x = n - m OBVIOUS
<1>4. ASSUME NEW k \in S PROVE k <= m
  <2>1. n - m <= n - k BY <1>2, <1>3
  <2>2. m \in Int /\ k \in Int BY <1>3
  <2> QED BY <2>1, <2>2
<1> QED BY <1>4

\* The front of a text is a text.
LEMMA PrefixText ==
  ASSUME NEW t \in Texts, NEW n \in 0 .. Len(t)
  PROVE  SubSeq(t, 1, n) \in Texts
<1>1. n \in Int /\ 1 \in Int /\ \A i \in 1 .. n : t[i] \in Tokens BY DEF Texts
<1> QED BY <1>1, SubSeqProperties DEF Texts

\* The match is a text, and what is left of it has a length.
LEMMA ComplexText ==
  ASSUME NEW t \in Texts
  PROVE  /\ getRightMostMatchingString(t) \in Texts
         /\ Len(t) - Len(getRightMostMatchingString(t)) \in 0 .. Len(t)
<1>0. Len(t) \in Nat /\ DOMAIN t = 1 .. Len(t) BY DEF Texts
<1>1. CASE Matching(t) = {}
  <2>1. getRightMostMatchingString(t) = <<>> BY <1>1 DEF getRightMostMatchingString
  <2>2. Len(<<>>) = 0 OBVIOUS
  <2> QED BY <1>0, <2>1, <2>2, EmptyText
<1>2. CASE Matching(t) # {}
  <2>1. Matching(t) \subseteq 1 .. Len(t) BY <1>0 DEF Matching
  <2>2. PICK m \in Matching(t) : \A k \in Matching(t) : k <= m
    <3>1. Matching(t) \subseteq 0 .. Len(t) BY <1>0, <2>1
    <3> QED BY <1>0, <1>2, <3>1, Largest
  <2>3. Max(Matching(t)) = m
    <3>1. Matching(t) \subseteq Int BY <1>0, <2>1
    <3> QED BY <2>2, <3>1, MaxIs
  <2>4. m \in 1 .. Len(t) BY <2>1, <2>2
  <2>5. PICK c : c = SubSeq(t, m + 1, Len(t)) /\ c = getRightMostMatchingString(t)
    BY <1>2, <2>3 DEF getRightMostMatchingString
  <2>6. /\ m + 1 \in Int /\ Len(t) \in Int /\ \A i \in m + 1 .. Len(t) : t[i] \in Tokens
    BY <1>0, <2>4 DEF Texts
  <2>7. c \in Texts BY <2>5, <2>6, SubSeqProperties DEF Texts
  <2>8. Len(c) = IF m + 1 <= Len(t) THEN Len(t) - (m + 1) + 1 ELSE 0
    BY <2>5, <2>6, SubSeqProperties
  <2>9. Len(t) - Len(c) \in 0 .. Len(t)
    <3>1. PICK l \in Nat : l = Len(t) BY <1>0
    <3>2. PICK k : k = Len(c) OBVIOUS
    <3>3. m \in 1 .. l /\ k = IF m + 1 <= l THEN l - (m + 1) + 1 ELSE 0
      BY <2>4, <2>8, <3>1, <3>2
    <3>4. m \in Nat /\ k = l - m BY <3>3
    <3>5. l - k \in 0 .. l BY <3>3, <3>4
    <3> QED BY <3>1, <3>2, <3>5
  <2> QED BY <2>5, <2>7, <2>9
<1> QED BY <1>1, <1>2

\* What the parser can make of one rule.
Reqs == {getNodeSelectorRequirement(t) : t \in Texts}

\* The loop over keys ends.
LEMMA KeyRec ==
  \E f \in [Seq(Texts) -> Seq(Reqs)] :
    /\ f[<<>>] = <<>>
    /\ \A k \in Seq(Texts) : k # <<>> =>
         f[k] = IF TrimSpace(Last(k)) = <<>> THEN f[Front(k)]
                ELSE Append(f[Front(k)], getNodeSelectorRequirement(Last(k)))
    /\ \A k \in Seq(Texts) : KeyRequirements(k) = f[k]
<1> DEFINE F(f) == [k \in Seq(Texts) |->
                      IF k = <<>> THEN <<>>
                      ELSE IF TrimSpace(Last(k)) = <<>> THEN f[Front(k)]
                      ELSE Append(f[Front(k)], getNodeSelectorRequirement(Last(k)))]
           J == CHOOSE f : f = F(f)
           Step(a, x) == IF TrimSpace(x) = <<>> THEN a
                         ELSE Append(a, getNodeSelectorRequirement(x))
<1>1. \A k : KeyRequirements(k) = J[k] BY DEF KeyRequirements
<1>2. <<>> \in Seq(Reqs) OBVIOUS
<1>3. \A k \in Seq(Texts) : k # <<>> => Front(k) \in Seq(Texts) /\ Last(k) \in Texts
  BY FrontLast
<1>4. ASSUME NEW a \in Seq(Reqs), NEW x \in Texts PROVE Step(a, x) \in Seq(Reqs)
  <2>1. getNodeSelectorRequirement(x) \in Reqs BY DEF Reqs
  <2> QED BY <2>1
<1>5. \A f : F(f) = [k \in Seq(Texts) |-> IF k = <<>> THEN <<>> ELSE Step(f[Front(k)], Last(k))]
  OBVIOUS
<1> HIDE DEF Step
<1>6. \E f : f = F(f)
  <2> DEFINE h == [k \in Seq(Texts) |-> [a \in Seq(Reqs) |->
                     IF k = <<>> THEN a ELSE Step(a, Last(k))]]
  <2>1. h \in [Seq(Texts) -> [Seq(Reqs) -> Seq(Reqs)]] BY <1>3, <1>4
  <2>2. \A k \in Seq(Texts), a \in Seq(Reqs) : k # <<>> => h[k][a] = Step(a, Last(k))
    OBVIOUS
  <2> HIDE DEF h, F
  <2>3. PICK f : Recursive(f, <<>>, h, Texts, Seq(Reqs)) BY <1>2, <2>1, SeqRecursion
  <2>4. f \in [Seq(Texts) -> Seq(Reqs)] BY <2>3 DEF Recursive
  <2>5. \A k \in Seq(Texts) : f[k] = IF k = <<>> THEN <<>> ELSE Step(f[Front(k)], Last(k))
    BY <1>3, <2>2, <2>3, <2>4 DEF Recursive
  <2>6. f = F(f) BY <1>5, <2>4, <2>5
  <2> QED BY <2>6
<1> HIDE DEF F
<1>7. J = F(J) BY <1>6
<1> HIDE DEF J
<1>8. J[<<>>] = <<>> BY <1>5, <1>7, EmptyText
<1>9. \A k \in Seq(Texts) : k # <<>> => J[k] = Step(J[Front(k)], Last(k)) BY <1>5, <1>7
<1>10. J \in [Seq(Texts) -> Seq(Reqs)]
  <2> DEFINE P == {k \in Seq(Texts) : J[k] \in Seq(Reqs)}
  <2>1. <<>> \in P BY <1>2, <1>8, EmptyText
  <2>2. ASSUME NEW t \in Seq(Texts), NEW x \in Texts, t \in P PROVE Append(t, x) \in P
    <3> DEFINE u == Append(t, x)
    <3>1. u \in Seq(Texts) /\ u # <<>> /\ Front(u) = t /\ Last(u) = x BY FrontOfAppend
    <3> HIDE DEF u
    <3>2. J[u] = Step(J[t], x) BY <1>9, <3>1
    <3>3. J[u] \in Seq(Reqs) BY <1>4, <2>2, <3>2
    <3> QED BY <3>1, <3>3 DEF u
  <2> HIDE DEF P
  <2>3. Seq(Texts) \subseteq P BY <2>1, <2>2, SeqInduct
  <2>4. \A k \in Seq(Texts) : J[k] \in Seq(Reqs) BY <2>3 DEF P
  <2> QED BY <1>5, <1>7, <2>4
<1> QED BY <1>1, <1>8, <1>9, <1>10 DEF Step

\* The loop over keys returns requirements.
LEMMA KeysType ==
  ASSUME NEW k \in Seq(Texts)
  PROVE  KeyRequirements(k) \in Seq(Reqs)
BY KeyRec

\* No keys.
LEMMA KeysEmpty == KeyRequirements(<<>>) = <<>>
BY KeyRec, EmptyText

\* One more key.
LEMMA KeysAppend ==
  ASSUME NEW k \in Seq(Texts), NEW x \in Texts
  PROVE  KeyRequirements(Append(k, x)) =
           IF TrimSpace(x) = <<>> THEN KeyRequirements(k)
           ELSE Append(KeyRequirements(k), getNodeSelectorRequirement(x))
<1> DEFINE u == Append(k, x)
<1>1. u \in Seq(Texts) /\ u # <<>> /\ Front(u) = k /\ Last(u) = x BY FrontOfAppend
<1> HIDE DEF u
<1>2. PICK f \in [Seq(Texts) -> Seq(Reqs)] :
        /\ \A s \in Seq(Texts) : s # <<>> =>
             f[s] = IF TrimSpace(Last(s)) = <<>> THEN f[Front(s)]
                    ELSE Append(f[Front(s)], getNodeSelectorRequirement(Last(s)))
        /\ \A s \in Seq(Texts) : KeyRequirements(s) = f[s]
  BY KeyRec
<1>3. f[u] = IF TrimSpace(x) = <<>> THEN f[k] ELSE Append(f[k], getNodeSelectorRequirement(x))
  BY <1>1, <1>2
<1> QED BY <1>1, <1>2, <1>3 DEF u

\* A piece is read as requirements.
LEMMA PieceType ==
  ASSUME NEW t \in Texts
  PROVE  getOneOrMoreNodeSelectorRequirements(t) \in Seq(Reqs)
<1> DEFINE complex == getRightMostMatchingString(t)
           rest == SubSeq(t, 1, Len(t) - Len(complex))
<1>1. complex \in Texts /\ rest \in Texts BY ComplexText, PrefixText
<1> HIDE DEF complex, rest
<1>2. Comma \in Tokens BY DEF Tokens, Marks
<1>3. Split(rest, <<Comma>>) \in Seq(Texts)
  BY <1>1, <1>2, UnitText, SplitParts DEF PartLists
<1> DEFINE keys == KeyRequirements(Split(rest, <<Comma>>))
<1>4. keys \in Seq(Reqs) BY <1>3, KeysType
<1> HIDE DEF keys
<1>5. getNodeSelectorRequirement(rest) \in Reqs /\ getNodeSelectorRequirement(complex) \in Reqs
  BY <1>1 DEF Reqs
<1>6. /\ <<getNodeSelectorRequirement(rest)>> \in Seq(Reqs)
      /\ Append(keys, getNodeSelectorRequirement(complex)) \in Seq(Reqs)
  BY <1>4, <1>5
<1> QED BY <1>4, <1>6 DEF getOneOrMoreNodeSelectorRequirements, keys, rest, complex

\* The loop over pieces ends.
LEMMA PieceRec ==
  \E f \in [Seq(Texts) -> Seq(Reqs)] :
    /\ f[<<>>] = <<>>
    /\ \A p \in Seq(Texts) : p # <<>> =>
         f[p] = f[Front(p)] \o getOneOrMoreNodeSelectorRequirements(Last(p))
    /\ \A p \in Seq(Texts) : PieceRequirements(p) = f[p]
<1> DEFINE F(f) == [p \in Seq(Texts) |->
                      IF p = <<>> THEN <<>>
                      ELSE f[Front(p)] \o getOneOrMoreNodeSelectorRequirements(Last(p))]
           J == CHOOSE f : f = F(f)
           Step(a, x) == a \o getOneOrMoreNodeSelectorRequirements(x)
<1>1. \A p : PieceRequirements(p) = J[p] BY DEF PieceRequirements
<1>2. <<>> \in Seq(Reqs) OBVIOUS
<1>3. \A p \in Seq(Texts) : p # <<>> => Front(p) \in Seq(Texts) /\ Last(p) \in Texts
  BY FrontLast
<1>4. ASSUME NEW a \in Seq(Reqs), NEW x \in Texts PROVE Step(a, x) \in Seq(Reqs)
  BY PieceType
<1>5. \A f : F(f) = [p \in Seq(Texts) |-> IF p = <<>> THEN <<>> ELSE Step(f[Front(p)], Last(p))]
  OBVIOUS
<1> HIDE DEF Step
<1>6. \E f : f = F(f)
  <2> DEFINE h == [p \in Seq(Texts) |-> [a \in Seq(Reqs) |->
                     IF p = <<>> THEN a ELSE Step(a, Last(p))]]
  <2>1. h \in [Seq(Texts) -> [Seq(Reqs) -> Seq(Reqs)]] BY <1>3, <1>4
  <2>2. \A p \in Seq(Texts), a \in Seq(Reqs) : p # <<>> => h[p][a] = Step(a, Last(p))
    OBVIOUS
  <2> HIDE DEF h, F
  <2>3. PICK f : Recursive(f, <<>>, h, Texts, Seq(Reqs)) BY <1>2, <2>1, SeqRecursion
  <2>4. f \in [Seq(Texts) -> Seq(Reqs)] BY <2>3 DEF Recursive
  <2>5. \A p \in Seq(Texts) : f[p] = IF p = <<>> THEN <<>> ELSE Step(f[Front(p)], Last(p))
    BY <1>3, <2>2, <2>3, <2>4 DEF Recursive
  <2>6. f = F(f) BY <1>5, <2>4, <2>5
  <2> QED BY <2>6
<1> HIDE DEF F
<1>7. J = F(J) BY <1>6
<1> HIDE DEF J
<1>8. J[<<>>] = <<>> BY <1>5, <1>7, EmptyText
<1>9. \A p \in Seq(Texts) : p # <<>> => J[p] = Step(J[Front(p)], Last(p)) BY <1>5, <1>7
<1>10. J \in [Seq(Texts) -> Seq(Reqs)]
  <2> DEFINE P == {p \in Seq(Texts) : J[p] \in Seq(Reqs)}
  <2>1. <<>> \in P BY <1>2, <1>8, EmptyText
  <2>2. ASSUME NEW t \in Seq(Texts), NEW x \in Texts, t \in P PROVE Append(t, x) \in P
    <3> DEFINE u == Append(t, x)
    <3>1. u \in Seq(Texts) /\ u # <<>> /\ Front(u) = t /\ Last(u) = x BY FrontOfAppend
    <3> HIDE DEF u
    <3>2. J[u] = Step(J[t], x) BY <1>9, <3>1
    <3>3. J[u] \in Seq(Reqs) BY <1>4, <2>2, <3>2
    <3> QED BY <3>1, <3>3 DEF u
  <2> HIDE DEF P
  <2>3. Seq(Texts) \subseteq P BY <2>1, <2>2, SeqInduct
  <2>4. \A p \in Seq(Texts) : J[p] \in Seq(Reqs) BY <2>3 DEF P
  <2> QED BY <1>5, <1>7, <2>4
<1> QED BY <1>1, <1>8, <1>9, <1>10 DEF Step

\* No pieces.
LEMMA PiecesEmpty == PieceRequirements(<<>>) = <<>>
BY PieceRec, EmptyText

\* One more piece.
LEMMA PiecesAppend ==
  ASSUME NEW p \in Seq(Texts), NEW x \in Texts
  PROVE  PieceRequirements(Append(p, x)) =
           PieceRequirements(p) \o getOneOrMoreNodeSelectorRequirements(x)
<1> DEFINE u == Append(p, x)
<1>1. u \in Seq(Texts) /\ u # <<>> /\ Front(u) = p /\ Last(u) = x BY FrontOfAppend
<1> HIDE DEF u
<1>2. PICK f \in [Seq(Texts) -> Seq(Reqs)] :
        /\ \A s \in Seq(Texts) : s # <<>> =>
             f[s] = f[Front(s)] \o getOneOrMoreNodeSelectorRequirements(Last(s))
        /\ \A s \in Seq(Texts) : PieceRequirements(s) = f[s]
  BY PieceRec
<1>3. f[u] = f[p] \o getOneOrMoreNodeSelectorRequirements(x) BY <1>1, <1>2
<1> QED BY <1>1, <1>2, <1>3 DEF u

-----------------------------------------------------------------------------
(* One rule *)

-----------------------------------------------------------------------------
(* Spellings *)

\* The marks differ.
LEMMA MarksDistinct ==
  /\ Space # Comma /\ Space # Colon /\ Space # Open /\ Space # Close
  /\ Comma # Colon /\ Comma # Open /\ Comma # Close
  /\ Colon # Open /\ Colon # Close /\ Open # Close
BY Zenon DEF Space, Comma, Colon, Open, Close

\* The marks are tokens.
LEMMA MarkTokens ==
  /\ Space \in Tokens /\ Comma \in Tokens /\ Colon \in Tokens
  /\ Open \in Tokens /\ Close \in Tokens
BY DEF Tokens, Marks

\* A word is no mark.
LEMMA WordTokens ==
  ASSUME NEW w \in Words
  PROVE  w \in Tokens /\ \A c \in Marks : w # c
BY WordsAssumption DEF Tokens

\* Words as texts.
LEMMA UnitsTexts ==
  ASSUME NEW words \in Seq(Words)
  PROVE  /\ Units(words) \in Seq(Texts) /\ Len(Units(words)) = Len(words)
         /\ \A i \in 1 .. Len(words) : Units(words)[i] = <<words[i]>>
<1>1. \A i \in 1 .. Len(words) : <<words[i]>> \in Texts
  BY WordTokens, UnitText
<1>2. DOMAIN words = 1 .. Len(words) /\ Len(words) \in Nat OBVIOUS
<1>3. Units(words) = [i \in 1 .. Len(words) |-> <<words[i]>>] BY <1>2 DEF Units
<1> QED BY <1>1, <1>2, <1>3

\* Words hold no marks.
LEMMA UnitsMarks ==
  ASSUME NEW words \in Seq(Words), NEW c \in Marks
  PROVE  \A i \in 1 .. Len(Units(words)) : ~Contains(Units(words)[i], c)
<1> SUFFICES ASSUME NEW i \in 1 .. Len(words) PROVE ~Contains(Units(words)[i], c)
  BY UnitsTexts
<1>1. Units(words)[i] = <<words[i]>> BY UnitsTexts
<1>2. words[i] \in Words OBVIOUS
<1>3. words[i] # c BY <1>2, WordTokens
<1> QED BY <1>1, <1>3, ContainsUnit

\* What is between the brackets.
Inner(r) == Pad(r) \o ValuesText(r) \o Pad(r)

\* The parts of a rule.
LEMMA RuleFields ==
  ASSUME NEW r \in Rules
  PROVE  r.key \in Words /\ r.values \in Seq(Words)
BY DEF Rules

\* The comma is a text.
LEMMA CommaText == <<Comma>> \in Texts
BY MarkTokens, UnitText

\* The values of a rule, written out.
LEMMA ValuesTexts ==
  ASSUME NEW r \in Rules
  PROVE  ValuesText(r) \in Texts
BY RuleFields, UnitsTexts, CommaText, JoinedText DEF ValuesText

\* The values hold commas and no other mark.
LEMMA ValuesMarks ==
  ASSUME NEW r \in Rules, NEW c \in Marks, c # Comma
  PROVE  ~Contains(ValuesText(r), c)
<1>1. ~Contains(<<Comma>>, c) BY ContainsUnit
<1> QED BY <1>1, RuleFields, UnitsTexts, UnitsMarks, CommaText, ContainsJoined DEF ValuesText

\* Split finds the values.
LEMMA ValuesSplit ==
  ASSUME NEW r \in Rules
  PROVE  /\ r.values = <<>> => ValuesText(r) = <<>>
         /\ r.values # <<>> => Split(ValuesText(r), <<Comma>>) = Units(r.values)
<1>1. r.values \in Seq(Words) BY RuleFields
<1>2. CASE r.values = <<>>
  <2>1. Units(<<>>) = <<>> BY DEF Units
  <2> QED BY <1>2, <2>1, CommaText, JoinedEmpty DEF ValuesText
<1>3. CASE r.values # <<>>
  <2>1. PICK u \in Seq(Texts) : u = Units(r.values) /\ Len(u) = Len(r.values)
    BY <1>1, UnitsTexts
  <2>2. u # <<>> BY <1>1, <1>3, <2>1
  <2>3. \A i \in 1 .. Len(u) : ~Contains(u[i], Comma) BY <1>1, <2>1, UnitsMarks DEF Marks
  <2>4. Comma \in Tokens BY MarkTokens
  <2>5. Split(Joined(u, <<Comma>>), <<Comma>>) = u BY <2>2, <2>3, <2>4, SplitJoined
  <2> QED BY <1>3, <2>1, <2>5 DEF ValuesText
<1> QED BY <1>2, <1>3

\* Padding is spaces.
LEMMA PadText ==
  ASSUME NEW r
  PROVE  /\ Pad(r) \in Texts /\ Filler(Pad(r), Space)
         /\ \A c \in Marks : c # Space => ~Contains(Pad(r), c)
<1>1. CASE Pad(r) = <<>>
  <2>1. Filler(<<>>, Space) BY DEF Filler
  <2> QED BY <1>1, <2>1, EmptyText, ContainsEmpty
<1>2. CASE Pad(r) = <<Space>>
  <2>1. Filler(<<Space>>, Space) BY DEF Filler
  <2> QED BY <1>2, <2>1, MarkTokens, UnitText, ContainsUnit
<1> QED BY <1>1, <1>2 DEF Pad

\* A key, written out.
LEMMA KeyTexts ==
  ASSUME NEW r \in Rules
  PROVE  /\ KeyText(r) \in Texts /\ KeyText(r) # <<>>
         /\ \A c \in Marks : c # Space => ~Contains(KeyText(r), c)
         /\ TrimSpace(KeyText(r)) = <<r.key>>
<1>1. r.key \in Tokens /\ \A c \in Marks : r.key # c BY RuleFields, WordTokens
<1>2. PICK p \in Texts : p = Pad(r) BY PadText
<1>3. PICK k \in Texts : k = <<r.key>> /\ k # <<>> BY <1>1, UnitText
<1>4. \A c \in Marks : ~Contains(k, c) BY <1>1, <1>3, ContainsUnit
<1>5. PICK q \in Texts : q = p \o k BY ConcatText
<1>6. KeyText(r) = q \o p BY <1>2, <1>3, <1>5 DEF KeyText
<1>7. q \o p \in Texts BY ConcatText
<1>8. q \o p # <<>> BY <1>3, <1>5 DEF Texts
<1>9. ASSUME NEW c \in Marks, c # Space PROVE ~Contains(q \o p, c)
  <2>1. ~Contains(p, c) BY <1>2, <1>9, PadText
  <2>2. ~Contains(q, c) BY <1>4, <1>5, <2>1, ContainsConcat
  <2> QED BY <2>1, <2>2, ContainsConcat
<1>10. TrimSpace(p \o k \o p) = k
  <2>1. Filler(p, Space) BY <1>2, PadText
  <2>2. ~Contains(k, Space) BY <1>4 DEF Marks
  <2> QED BY <2>1, <2>2, TrimSpaceIs
<1> QED BY <1>3, <1>5, <1>6, <1>7, <1>8, <1>9, <1>10

\* What is between the brackets.
LEMMA InnerTexts ==
  ASSUME NEW r \in Rules
  PROVE  /\ Inner(r) \in Texts /\ TrimSpace(Inner(r)) = ValuesText(r)
         /\ \A c \in Marks : c # Space /\ c # Comma => ~Contains(Inner(r), c)
<1>1. PICK p \in Texts : p = Pad(r) BY PadText
<1>2. PICK v \in Texts : v = ValuesText(r) BY ValuesTexts
<1>3. PICK q \in Texts : q = p \o v BY ConcatText
<1>4. Inner(r) = q \o p BY <1>1, <1>2, <1>3 DEF Inner
<1>5. q \o p \in Texts BY ConcatText
<1>6. TrimSpace(p \o v \o p) = v
  <2>1. Filler(p, Space) BY <1>1, PadText
  <2>2. ~Contains(v, Space) BY <1>2, ValuesMarks, MarksDistinct DEF Marks
  <2> QED BY <2>1, <2>2, TrimSpaceIs
<1>7. ASSUME NEW c \in Marks, c # Space, c # Comma PROVE ~Contains(q \o p, c)
  <2>1. ~Contains(p, c) BY <1>1, <1>7, PadText
  <2>2. ~Contains(v, c) BY <1>2, <1>7, ValuesMarks
  <2>3. ~Contains(q, c) BY <1>3, <2>1, <2>2, ContainsConcat
  <2> QED BY <2>1, <2>3, ContainsConcat
<1> QED BY <1>2, <1>3, <1>4, <1>5, <1>6, <1>7

\* The list up to its closing bracket.
LEMMA BracketedTexts ==
  ASSUME NEW r \in Rules
  PROVE  /\ Bracketed(r) \in Texts /\ Bracketed(r) # <<>> /\ Bracketed(r)[1] = Open
         /\ ~Contains(Bracketed(r), Colon) /\ ~Contains(Bracketed(r), Close)
<1>1. PICK i \in Texts : i = Inner(r) BY InnerTexts
<1>2. ~Contains(i, Colon) /\ ~Contains(i, Close) BY <1>1, InnerTexts, MarksDistinct DEF Marks
<1>3. PICK o \in Texts : o = <<Open>> BY MarkTokens, UnitText
<1>4. ~Contains(o, Colon) /\ ~Contains(o, Close) BY <1>3, ContainsUnit, MarksDistinct
<1>5. Bracketed(r) = o \o i BY <1>1, <1>3 DEF Bracketed, Inner
<1>6. o \o i \in Texts BY ConcatText
<1>7. o \o i # <<>> /\ (o \o i)[1] = Open BY <1>3 DEF Texts
<1>8. ~Contains(o \o i, Colon) /\ ~Contains(o \o i, Close) BY <1>2, <1>4, ContainsConcat
<1> QED BY <1>5, <1>6, <1>7, <1>8

-----------------------------------------------------------------------------
(* One rule *)

\* A key without values is read as meant.
LEMMA BareRule ==
  ASSUME NEW r \in Rules, ~Listed(r)
  PROVE  getNodeSelectorRequirement(KeyText(r)) = Requirement(r)
<1>1. PICK t \in Texts : t = KeyText(r) BY KeyTexts
<1>2. Split(t, <<Colon>>) = <<t>>
  <2>1. ~Contains(t, Colon) BY <1>1, KeyTexts, MarksDistinct DEF Marks
  <2> QED BY <2>1, MarkTokens, SplitWhole
<1>3. TrimSpace(t) = <<r.key>> BY <1>1, KeyTexts
<1>4. r.values = <<>> /\ Units(<<>>) = <<>> BY DEF Listed, Units
<1>5. Len(<<t>>) = 1 /\ <<t>>[1] = t OBVIOUS
<1>6. getNodeSelectorRequirement(t) =
        [key |-> <<r.key>>, operator |-> "Exists", values |-> <<>>]
  BY <1>2, <1>3, <1>5 DEF getNodeSelectorRequirement
<1>7. Requirement(r) = [key |-> <<r.key>>, operator |-> "Exists", values |-> <<>>]
  BY <1>4 DEF Requirement
<1> QED BY <1>1, <1>6, <1>7

\* A list of two texts.
LEMMA TwoParts ==
  ASSUME NEW k \in Texts, NEW w \in Texts
  PROVE  \E kv : kv = Append(<<k>>, w) /\ Len(kv) > 1 /\ kv[1] = k /\ kv[2] = w
<1>1. <<k>> \in Seq(Texts) /\ Len(<<k>>) = 1 /\ <<k>>[1] = k OBVIOUS
<1>2. PICK s : s = <<k>> OBVIOUS
<1>3. s \in Seq(Texts) /\ Len(s) = 1 /\ s[1] = k BY <1>1, <1>2
<1>4. PICK kv : kv = Append(s, w) OBVIOUS
<1>5. Len(kv) = 2 /\ kv[1] = k /\ kv[2] = w BY <1>3, <1>4
<1>6. Len(kv) > 1 BY <1>5
<1>7. kv = Append(<<k>>, w) BY <1>2, <1>4
<1> QED BY <1>5, <1>6, <1>7

\* A key with a list is read as meant, with its closing bracket and without.
LEMMA ListedRule ==
  ASSUME NEW r \in Rules, NEW e \in Texts, e = <<>> \/ e = <<Close>>
  PROVE  getNodeSelectorRequirement(KeyText(r) \o <<Colon>> \o (Bracketed(r) \o e))
           = Requirement(r)
<1>1. PICK k \in Texts : k = KeyText(r) BY KeyTexts
<1>2. PICK b \in Texts : b = Bracketed(r) /\ b # <<>> BY BracketedTexts
<1>3. PICK i \in Texts : i = Inner(r) BY InnerTexts
<1>4. PICK v \in Texts : v = ValuesText(r) BY ValuesTexts
<1>5. PICK w \in Texts : w = b \o e BY ConcatText
<1>6. PICK t \in Texts : t = k \o <<Colon>> \o w BY MarkTokens, UnitText, ConcatText
<1>7. Split(t, <<Colon>>) = Append(<<k>>, w)
  <2>1. ~Contains(k, Colon) BY <1>1, KeyTexts, MarksDistinct DEF Marks
  <2>2. ~Contains(e, Colon) BY ContainsEmpty, ContainsUnit, MarksDistinct
  <2>3. ~Contains(b, Colon) BY <1>2, BracketedTexts
  <2>4. ~Contains(w, Colon) BY <1>5, <2>2, <2>3, ContainsConcat
  <2>5. Split(k, <<Colon>>) = <<k>> BY <2>1, MarkTokens, SplitWhole
  <2>6. Split(k \o <<Colon>> \o w, <<Colon>>) = Append(Split(k, <<Colon>>), w)
    BY <2>4, MarkTokens, SplitAt
  <2> QED BY <1>6, <2>5, <2>6
<1>8. TrimSpace(k) = <<r.key>> BY <1>1, KeyTexts
<1>9. TrimRight(w, Close) = b
  <2>1. Filler(e, Close) BY DEF Filler
  <2>2. Last(b) # Close
    <3>1. ~Contains(b, Close) BY <1>2, BracketedTexts
    <3>2. Len(b) \in 1 .. Len(b) BY <1>2 DEF Texts
    <3> QED BY <3>1, <3>2 DEF Contains, Last
  <2> QED BY <1>5, <2>1, <2>2, TrimRightIs
<1>10. TrimLeft(b, Open) = i
  <2>1. PICK o \in Texts : o = <<Open>> BY MarkTokens, UnitText
  <2>2. Filler(o, Open) BY <2>1 DEF Filler
  <2>3. b = o \o i BY <1>2, <1>3, <2>1 DEF Bracketed, Inner
  <2>4. i = <<>> \/ i[1] # Open
    <3>1. ~Contains(i, Open) BY <1>3, InnerTexts, MarksDistinct DEF Marks
    <3>2. i # <<>> => 1 \in 1 .. Len(i) BY DEF Texts
    <3> QED BY <3>1, <3>2 DEF Contains
  <2> QED BY <2>2, <2>3, <2>4, TrimLeftIs
<1>11. TrimSpace(i) = v BY <1>3, <1>4, InnerTexts
<1>12. TrimSpace(TrimLeft(TrimRight(w, Close), Open)) = v BY <1>9, <1>10, <1>11
<1> DEFINE list == Split(v, <<Comma>>)
           listed == Len(list) > 1 \/ TrimSpace(list[1]) # <<>>
<1>13. PICK kv : kv = Append(<<k>>, w) /\ Len(kv) > 1 /\ kv[1] = k /\ kv[2] = w
  BY TwoParts
<1>14. getNodeSelectorRequirement(t) =
         [key |-> <<r.key>>, operator |-> IF listed THEN "In" ELSE "Exists",
          values |-> IF listed THEN list ELSE <<>>]
  BY <1>7, <1>8, <1>12, <1>13 DEF getNodeSelectorRequirement
<1>15. CASE r.values = <<>>
  <2>1. list = <<<<>>>> BY <1>4, <1>15, ValuesSplit, CommaText, SplitEmpty
  <2>2. TrimSpace(<<>>) = <<>>
    <3>1. <<>> \o <<>> \o <<>> = <<>> OBVIOUS
    <3>2. Filler(<<>>, Space) BY DEF Filler
    <3> QED BY <3>1, <3>2, EmptyText, ContainsEmpty, TrimSpaceIs
  <2>3. ~listed
    <3>1. Len(list) = 1 /\ list[1] = <<>> BY <2>1
    <3> HIDE DEF list
    <3>2. ~(Len(list) > 1) BY <3>1
    <3> QED BY <2>2, <3>1, <3>2
  <2>4. Units(<<>>) = <<>> BY DEF Units
  <2> HIDE DEF listed, list
  <2> QED BY <1>1, <1>2, <1>5, <1>6, <1>14, <1>15, <2>3, <2>4 DEF Requirement
<1>16. CASE r.values # <<>>
  <2>1. list = Units(r.values) BY <1>4, <1>16, ValuesSplit
  <2>2. listed
    <3>1. r.values \in Seq(Words) /\ 1 \in 1 .. Len(r.values) BY <1>16, RuleFields
    <3>2. list[1] = <<r.values[1]>> BY <2>1, <3>1, UnitsTexts
    <3>3. r.values[1] \in Words BY <3>1
    <3>4. PICK u \in Texts : u = <<r.values[1]>> /\ u # <<>> BY <3>3, WordTokens, UnitText
    <3>5. ~Contains(u, Space) BY <3>3, <3>4, WordTokens, ContainsUnit DEF Marks
    <3>6. TrimSpace(u) = u
      <4>1. <<>> \o u \o <<>> = u BY DEF Texts
      <4>2. Filler(<<>>, Space) BY DEF Filler
      <4>3. TrimSpace(<<>> \o u \o <<>>) = u BY <3>5, <4>2, EmptyText, TrimSpaceIs
      <4> QED BY <4>1, <4>3
    <3> HIDE DEF list
    <3> QED BY <3>2, <3>4, <3>6
  <2> HIDE DEF listed, list
  <2> QED BY <1>1, <1>2, <1>5, <1>6, <1>14, <1>16, <2>1, <2>2 DEF Requirement
<1> QED BY <1>15, <1>16

-----------------------------------------------------------------------------
(* Settings *)

-----------------------------------------------------------------------------
(* A piece: bare rules, and at most one listed rule after them *)

\* Rule r with its list, up to or including (e) the closing bracket.
ListedText(r, e) == KeyText(r) \o <<Colon>> \o (Bracketed(r) \o e)

Ends == {<<>>, <<Close>>}

\* The ends are texts.
LEMMA EndTexts == Ends \subseteq Texts
BY EmptyText, MarkTokens, UnitText DEF Ends

\* A rule with a list, written out.
LEMMA ListedTexts ==
  ASSUME NEW r \in Rules, NEW e \in Ends
  PROVE  ListedText(r, e) \in Texts /\ ListedText(r, e) # <<>>
<1>1. KeyText(r) \in Texts /\ Bracketed(r) \in Texts /\ e \in Texts /\ <<Colon>> \in Texts
  BY KeyTexts, BracketedTexts, EndTexts, MarkTokens, UnitText
<1>2. PICK b \in Texts : b = Bracketed(r) \o e BY <1>1, ConcatText
<1>3. PICK k \in Texts : k = KeyText(r) \o <<Colon>> BY <1>1, ConcatText
<1>4. k \o b \in Texts BY ConcatText
<1>5. k # <<>> BY <1>1, <1>3 DEF Texts
<1>6. k \o b # <<>> BY <1>5 DEF Texts
<1> QED BY <1>2, <1>3, <1>4, <1>6 DEF ListedText

\* The two forms of a rule.
LEMMA SpelledIs ==
  ASSUME NEW r \in Rules
  PROVE  /\ Listed(r) => Spelled(r) = ListedText(r, <<Close>>)
         /\ ~Listed(r) => Spelled(r) = KeyText(r)
         /\ Spelled(r) \in Texts /\ Spelled(r) # <<>>
<1>1. <<Close>> \in Ends BY DEF Ends
<1>2. Listed(r) => Spelled(r) = ListedText(r, <<Close>>) BY DEF Spelled, ListedText
<1>3. ~Listed(r) => Spelled(r) = KeyText(r) BY DEF Spelled
<1> QED BY <1>1, <1>2, <1>3, ListedTexts, KeyTexts

\* The rules of a setting, each written out.
LEMMA SpellingsTexts ==
  ASSUME NEW s \in Seq(Rules)
  PROVE  /\ Spellings(s) \in Seq(Texts) /\ Len(Spellings(s)) = Len(s)
         /\ \A i \in 1 .. Len(s) : Spellings(s)[i] = Spelled(s[i])
<1>1. \A i \in 1 .. Len(s) : Spelled(s[i]) \in Texts BY SpelledIs
<1>2. DOMAIN s = 1 .. Len(s) /\ Len(s) \in Nat OBVIOUS
<1>3. Spellings(s) = [i \in 1 .. Len(s) |-> Spelled(s[i])] BY <1>2 DEF Spellings
<1> QED BY <1>1, <1>2, <1>3

\* One more rule, written out.
LEMMA SpellingsAppend ==
  ASSUME NEW s \in Seq(Rules), NEW r \in Rules
  PROVE  Spellings(Append(s, r)) = Append(Spellings(s), Spelled(r))
<1>1. PICK u \in Seq(Rules) : u = Append(s, r) BY FrontOfAppend
<1>2. Len(u) = Len(s) + 1 /\ u[Len(s) + 1] = r /\ \A i \in 1 .. Len(s) : u[i] = s[i]
  BY <1>1
<1>3. Spelled(r) \in Texts /\ Len(s) \in Nat BY SpelledIs
<1>4. PICK a \in Seq(Texts) : a = Spellings(u) /\ Len(a) = Len(u)
                                 /\ \A i \in 1 .. Len(u) : a[i] = Spelled(u[i])
  BY SpellingsTexts
<1>5. PICK b \in Seq(Texts) : b = Spellings(s) /\ Len(b) = Len(s)
                                 /\ \A i \in 1 .. Len(s) : b[i] = Spelled(s[i])
  BY SpellingsTexts
<1>6. PICK c \in Seq(Texts) : c = Append(b, Spelled(r)) BY <1>3, FrontOfAppend
<1>7. /\ Len(c) = Len(s) + 1 /\ c[Len(s) + 1] = Spelled(r)
      /\ \A i \in 1 .. Len(s) : c[i] = Spelled(s[i])
  BY <1>3, <1>5, <1>6
<1>8. \A i \in 1 .. Len(s) + 1 : a[i] = c[i]
  <2> TAKE i \in 1 .. Len(s) + 1
  <2>1. CASE i = Len(s) + 1 BY <1>2, <1>4, <1>7, <2>1
  <2>2. CASE i \in 1 .. Len(s) BY <1>2, <1>3, <1>4, <1>7, <2>2
  <2> QED BY <1>3, <2>1, <2>2
<1>9. a = c BY <1>2, <1>4, <1>7, <1>8, SeqEqual
<1> QED BY <1>1, <1>4, <1>5, <1>6, <1>9

\* A setting, written out.
LEMMA TextTexts ==
  ASSUME NEW s \in Seq(Rules)
  PROVE  Text(s) \in Texts
BY SpellingsTexts, CommaText, JoinedText DEF Text

\* A setting with one more rule.
LEMMA TextAppend ==
  ASSUME NEW s \in Seq(Rules), NEW r \in Rules
  PROVE  Text(Append(s, r)) =
           IF s = <<>> THEN Spelled(r) ELSE Text(s) \o <<Comma>> \o Spelled(r)
<1>1. PICK p \in Seq(Texts) : p = Spellings(s) /\ Len(p) = Len(s) BY SpellingsTexts
<1>2. p = <<>> <=> s = <<>> BY <1>1
<1>3. PICK x \in Texts : x = Spelled(r) BY SpelledIs
<1>4. Joined(Append(p, x), <<Comma>>) =
        IF p = <<>> THEN x ELSE Joined(p, <<Comma>>) \o <<Comma>> \o x
  BY CommaText, JoinedAppend
<1>5. Spellings(Append(s, r)) = Append(p, x) BY <1>1, <1>3, SpellingsAppend
<1> QED BY <1>1, <1>2, <1>3, <1>4, <1>5 DEF Text

Requirements == {Requirement(r) : r \in Rules}

\* What a setting means.
LEMMA MeantType ==
  ASSUME NEW s \in Seq(Rules)
  PROVE  /\ MeantBy(s) \in Seq(Requirements) /\ Len(MeantBy(s)) = Len(s)
         /\ \A i \in 1 .. Len(s) : MeantBy(s)[i] = Requirement(s[i])
<1>1. \A i \in 1 .. Len(s) : Requirement(s[i]) \in Requirements BY DEF Requirements
<1>2. DOMAIN s = 1 .. Len(s) /\ Len(s) \in Nat OBVIOUS
<1>3. MeantBy(s) = [i \in 1 .. Len(s) |-> Requirement(s[i])] BY <1>2 DEF MeantBy
<1> QED BY <1>1, <1>2, <1>3

\* What two settings in a row mean.
LEMMA MeantConcat ==
  ASSUME NEW s \in Seq(Rules), NEW g \in Seq(Rules)
  PROVE  MeantBy(s \o g) = MeantBy(s) \o MeantBy(g)
<1>1. PICK u \in Seq(Rules) : u = s \o g BY ConcatProperties
<1>2. /\ Len(s) \in Nat /\ Len(g) \in Nat /\ Len(u) = Len(s) + Len(g)
      /\ \A i \in 1 .. Len(s) : u[i] = s[i]
      /\ \A i \in 1 .. Len(g) : u[Len(s) + i] = g[i]
  BY <1>1
<1>3. PICK a \in Seq(Requirements) : a = MeantBy(u) /\ Len(a) = Len(u)
                                 /\ \A i \in 1 .. Len(u) : a[i] = Requirement(u[i])
  BY MeantType
<1>4. PICK b \in Seq(Requirements) : b = MeantBy(s) /\ Len(b) = Len(s)
                                 /\ \A i \in 1 .. Len(s) : b[i] = Requirement(s[i])
  BY MeantType
<1>5. PICK c \in Seq(Requirements) : c = MeantBy(g) /\ Len(c) = Len(g)
                                 /\ \A i \in 1 .. Len(g) : c[i] = Requirement(g[i])
  BY MeantType
<1>6. PICK d \in Seq(Requirements) : d = b \o c BY ConcatProperties
<1>7. /\ Len(d) = Len(s) + Len(g)
      /\ \A i \in 1 .. Len(s) : d[i] = b[i]
      /\ \A i \in 1 .. Len(g) : d[Len(s) + i] = c[i]
  <2>1. /\ Len(d) = Len(b) + Len(c)
        /\ \A i \in 1 .. Len(b) : d[i] = b[i]
        /\ \A i \in 1 .. Len(c) : d[Len(b) + i] = c[i]
    BY <1>6
  <2> QED BY <1>4, <1>5, <2>1
<1>8. \A i \in 1 .. Len(u) : a[i] = d[i]
  <2> TAKE i \in 1 .. Len(u)
  <2>1. CASE i <= Len(s)
    <3>1. i \in 1 .. Len(s) BY <1>2, <2>1
    <3> QED BY <1>2, <1>3, <1>4, <1>7, <3>1
  <2>2. CASE ~(i <= Len(s))
    <3>1. PICK j \in 1 .. Len(g) : i = Len(s) + j
      <4>1. i - Len(s) \in 1 .. Len(g) /\ i = Len(s) + (i - Len(s)) BY <1>2, <2>2
      <4> QED BY <4>1
    <3> QED BY <1>2, <1>3, <1>5, <1>7, <3>1
  <2> QED BY <2>1, <2>2
<1>9. a = d BY <1>2, <1>3, <1>7, <1>8, SeqEqual
<1> QED BY <1>1, <1>3, <1>4, <1>5, <1>6, <1>9

\* What one rule means.
LEMMA MeantUnit ==
  ASSUME NEW r \in Rules
  PROVE  MeantBy(<<r>>) = <<Requirement(r)>>
BY DEF MeantBy

\* What one more rule means.
LEMMA MeantAppend ==
  ASSUME NEW s \in Seq(Rules), NEW r \in Rules
  PROVE  MeantBy(Append(s, r)) = Append(MeantBy(s), Requirement(r))
<1>1. Append(s, r) = s \o <<r>> /\ <<r>> \in Seq(Rules) OBVIOUS
<1>2. PICK m \in Seq(Requirements) : m = MeantBy(s) BY MeantType
<1>3. PICK q \in Requirements : q = Requirement(r) BY DEF Requirements
<1>4. m \o <<q>> = Append(m, q) OBVIOUS
<1> QED BY <1>1, <1>2, <1>3, <1>4, MeantConcat, MeantUnit

-----------------------------------------------------------------------------
(* Keys without values *)

Bare(b) == \A i \in 1 .. Len(b) : ~Listed(b[i])

\* One more rule without values.
LEMMA BareAppend ==
  ASSUME NEW b \in Seq(Rules), NEW r \in Rules
  PROVE  Bare(Append(b, r)) <=> Bare(b) /\ ~Listed(r)
<1>1. PICK u \in Seq(Rules) : u = Append(b, r) BY FrontOfAppend
<1>2. /\ Len(b) \in Nat /\ Len(u) = Len(b) + 1 /\ u[Len(b) + 1] = r
      /\ \A i \in 1 .. Len(b) : u[i] = b[i]
  BY <1>1
<1>3. Bare(u) => Bare(b) /\ ~Listed(r)
  <2> SUFFICES ASSUME Bare(u) PROVE Bare(b) /\ ~Listed(r)
    OBVIOUS
  <2>1. Len(b) + 1 \in 1 .. Len(u) /\ \A i \in 1 .. Len(b) : i \in 1 .. Len(u) BY <1>2
  <2> QED BY <1>2, <2>1 DEF Bare
<1>4. Bare(b) /\ ~Listed(r) => Bare(u)
  <2> SUFFICES ASSUME Bare(b), ~Listed(r), NEW i \in 1 .. Len(u) PROVE ~Listed(u[i])
    BY DEF Bare
  <2>1. CASE i = Len(b) + 1 BY <1>2, <2>1
  <2>2. CASE i # Len(b) + 1
    <3>1. i \in 1 .. Len(b) BY <1>2, <2>2
    <3> QED BY <1>2, <3>1 DEF Bare
  <2> QED BY <2>1, <2>2
<1> QED BY <1>1, <1>3, <1>4

\* Keys hold spaces and commas and no other mark.
LEMMA BareMarks ==
  ASSUME NEW b \in Seq(Rules), Bare(b), NEW c \in Marks, c # Space, c # Comma
  PROVE  ~Contains(Text(b), c)
<1>1. PICK p \in Seq(Texts) : p = Spellings(b) /\ Len(p) = Len(b)
                              /\ \A i \in 1 .. Len(b) : p[i] = Spelled(b[i])
  BY SpellingsTexts
<1>2. ASSUME NEW i \in 1 .. Len(p) PROVE ~Contains(p[i], c)
  <2>1. b[i] \in Rules /\ ~Listed(b[i]) BY <1>1 DEF Bare
  <2>2. p[i] = KeyText(b[i]) BY <1>1, <2>1, SpelledIs
  <2> QED BY <2>1, <2>2, KeyTexts
<1>3. ~Contains(<<Comma>>, c) BY ContainsUnit
<1>4. ~Contains(Joined(p, <<Comma>>), c) BY <1>2, <1>3, CommaText, ContainsJoined
<1> QED BY <1>1, <1>4 DEF Text

\* Split finds the keys.
LEMMA BareSplit ==
  ASSUME NEW b \in Seq(Rules), Bare(b), b # <<>>
  PROVE  Split(Text(b), <<Comma>>) = Spellings(b)
<1>1. PICK p \in Seq(Texts) : p = Spellings(b) /\ Len(p) = Len(b)
                              /\ \A i \in 1 .. Len(b) : p[i] = Spelled(b[i])
  BY SpellingsTexts
<1>2. ASSUME NEW i \in 1 .. Len(p) PROVE ~Contains(p[i], Comma)
  <2>1. b[i] \in Rules /\ ~Listed(b[i]) BY <1>1 DEF Bare
  <2>2. p[i] = KeyText(b[i]) BY <1>1, <2>1, SpelledIs
  <2> QED BY <2>1, <2>2, KeyTexts, MarksDistinct DEF Marks
<1>3. p # <<>> BY <1>1
<1>4. Split(Joined(p, <<Comma>>), <<Comma>>) = p BY <1>2, <1>3, MarkTokens, SplitJoined
<1> QED BY <1>1, <1>4 DEF Text

\* The loop reads keys as meant.
LEMMA BareKeys ==
  ASSUME NEW b \in Seq(Rules), Bare(b)
  PROVE  KeyRequirements(Spellings(b)) = MeantBy(b)
<1> DEFINE P == {s \in Seq(Rules) : Bare(s) => KeyRequirements(Spellings(s)) = MeantBy(s)}
<1>1. <<>> \in P
  <2>1. Spellings(<<>>) = <<>> /\ MeantBy(<<>>) = <<>> BY DEF Spellings, MeantBy
  <2> QED BY <2>1, KeysEmpty
<1>2. ASSUME NEW s \in Seq(Rules), NEW r \in Rules, s \in P PROVE Append(s, r) \in P
  <2>1. Append(s, r) \in Seq(Rules) OBVIOUS
  <2> SUFFICES ASSUME Bare(Append(s, r))
               PROVE  KeyRequirements(Spellings(Append(s, r))) = MeantBy(Append(s, r))
    BY <2>1
  <2>2. Bare(s) /\ ~Listed(r) BY BareAppend
  <2>3. KeyRequirements(Spellings(s)) = MeantBy(s) BY <1>2, <2>2
  <2> HIDE DEF P
  <2>4. PICK p \in Seq(Texts) : p = Spellings(s) BY SpellingsTexts
  <2>5. PICK x \in Texts : x = KeyText(r) BY KeyTexts
  <2>6. Spellings(Append(s, r)) = Append(p, x) BY <2>2, <2>4, <2>5, SpellingsAppend, SpelledIs
  <2>7. TrimSpace(x) # <<>>
    <3>1. TrimSpace(x) = <<r.key>> BY <2>5, KeyTexts
    <3>2. <<r.key>> # <<>> OBVIOUS
    <3> QED BY <3>1, <3>2
  <2>8. KeyRequirements(Append(p, x)) =
          Append(KeyRequirements(p), getNodeSelectorRequirement(x))
    BY <2>7, KeysAppend
  <2>9. getNodeSelectorRequirement(x) = Requirement(r) BY <2>2, <2>5, BareRule
  <2> QED BY <2>3, <2>4, <2>6, <2>8, <2>9, MeantAppend
<1> HIDE DEF P
<1>3. Seq(Rules) \subseteq P BY <1>1, <1>2, SeqInduct
<1> QED BY <1>3 DEF P

-----------------------------------------------------------------------------
(* Matches *)

\* Keys without values match nothing.
LEMMA NoColonNoMatch ==
  ASSUME NEW t \in Texts, ~Contains(t, Colon)
  PROVE  Matching(t) = {}
<1> SUFFICES ASSUME NEW i \in Matching(t) PROVE FALSE
  OBVIOUS
<1>1. Len(t) \in Nat /\ DOMAIN t = 1 .. Len(t) BY DEF Texts
<1>2. PICK j \in i + 1 .. Len(t) - 1 : t[j] = Colon /\ i \in 1 .. Len(t) BY <1>1 DEF Matching
<1>3. j \in 1 .. Len(t) BY <1>1, <1>2
<1> QED BY <1>2, <1>3 DEF Contains

\* The tokens of k, ":" and w in a row.
LEMMA Places ==
  ASSUME NEW k \in Texts, NEW c \in Tokens, NEW w \in Texts
  PROVE  /\ Len(k \o <<c>> \o w) = Len(k) + 1 + Len(w)
         /\ \A i \in 1 .. Len(k) : (k \o <<c>> \o w)[i] = k[i]
         /\ (k \o <<c>> \o w)[Len(k) + 1] = c
         /\ \A i \in 1 .. Len(w) : (k \o <<c>> \o w)[Len(k) + 1 + i] = w[i]
<1>1. PICK u \in Texts : u = <<c>> /\ Len(u) = 1 /\ u[1] = c BY UnitText
<1>2. PICK v \in Texts : v = k \o u BY ConcatText
<1>3. /\ Len(k) \in Nat /\ Len(v) = Len(k) + 1 /\ \A i \in 1 .. Len(k) : v[i] = k[i]
      /\ v[Len(k) + 1] = c
  BY <1>1, <1>2 DEF Texts
<1>4. PICK z \in Texts : z = v \o w BY ConcatText
<1>5. /\ Len(w) \in Nat /\ Len(z) = Len(v) + Len(w) /\ \A i \in 1 .. Len(v) : z[i] = v[i]
      /\ \A i \in 1 .. Len(w) : z[Len(v) + i] = w[i]
  BY <1>4 DEF Texts
<1>6. /\ \A i \in 1 .. Len(k) : i \in 1 .. Len(v)
      /\ Len(k) + 1 \in 1 .. Len(v)
  BY <1>3
<1>7. \A i \in 1 .. Len(k) : z[i] = k[i] BY <1>3, <1>5, <1>6
<1>8. z[Len(k) + 1] = c BY <1>3, <1>5, <1>6
<1> QED BY <1>1, <1>2, <1>3, <1>4, <1>5, <1>7, <1>8

\* Where a token of such a text comes from.
LEMMA PlacesOf ==
  ASSUME NEW k \in Texts, NEW w \in Texts, NEW z \in Texts, NEW c \in Tokens,
         z = k \o <<c>> \o w, NEW i \in 1 .. Len(z)
  PROVE  \/ i \in 1 .. Len(k) /\ z[i] = k[i]
         \/ i = Len(k) + 1
         \/ i > Len(k) + 1 /\ \E j \in 1 .. Len(w) : i = Len(k) + 1 + j /\ z[i] = w[j]
<1>1. /\ Len(z) = Len(k) + 1 + Len(w)
      /\ \A n \in 1 .. Len(k) : z[n] = k[n]
      /\ \A n \in 1 .. Len(w) : z[Len(k) + 1 + n] = w[n]
  BY Places
<1>2. Len(k) \in Nat /\ Len(w) \in Nat BY DEF Texts
<1>3. CASE i <= Len(k)
  <2>1. i \in 1 .. Len(k) BY <1>2, <1>3
  <2> QED BY <1>1, <2>1
<1>4. CASE i > Len(k) + 1
  <2>1. PICK j \in 1 .. Len(w) : i = Len(k) + 1 + j
    <3>1. i - (Len(k) + 1) \in 1 .. Len(w) /\ i = Len(k) + 1 + (i - (Len(k) + 1))
      BY <1>1, <1>2, <1>4
    <3> QED BY <3>1
  <2> QED BY <1>1, <1>4, <2>1
<1>5. i <= Len(k) \/ i = Len(k) + 1 \/ i > Len(k) + 1 BY <1>2
<1> QED BY <1>3, <1>4, <1>5

\* The commas of a list are no match: no ":[" is behind them.
LEMMA OneRuleNoMatch ==
  ASSUME NEW k \in Texts, NEW w \in Texts, NEW z \in Texts, z = k \o <<Colon>> \o w,
         ~Contains(k, Comma), ~Contains(k, Colon), ~Contains(w, Colon)
  PROVE  /\ Matching(z) = {}
         /\ \A j \in 1 .. Len(z) : z[j] = Colon => j = Len(k) + 1
         /\ \A i \in 1 .. Len(k) + 1 : z[i] # Comma
<1>0. Len(z) \in Nat /\ DOMAIN z = 1 .. Len(z) /\ Len(k) \in Nat BY DEF Texts
<1>1. ASSUME NEW j \in 1 .. Len(z), z[j] = Colon PROVE j = Len(k) + 1
  <2>1. ~(j \in 1 .. Len(k) /\ z[j] = k[j]) BY <1>1 DEF Contains
  <2>2. ~\E n \in 1 .. Len(w) : z[j] = w[n] BY <1>1 DEF Contains
  <2> QED BY <2>1, <2>2, PlacesOf, MarkTokens
<1>2. ASSUME NEW i \in 1 .. Len(k) + 1 PROVE z[i] # Comma
  <2>1. CASE i = Len(k) + 1 BY <2>1, Places, MarkTokens, MarksDistinct
  <2>2. CASE i \in 1 .. Len(k)
    <3>1. z[i] = k[i] BY <2>2, Places, MarkTokens
    <3> QED BY <2>2, <3>1 DEF Contains
  <2> QED BY <1>0, <2>1, <2>2
<1>3. ASSUME NEW i \in Matching(z) PROVE FALSE
  <2>1. PICK j \in i + 1 .. Len(z) - 1 : z[j] = Colon BY DEF Matching
  <2>2. i \in 1 .. Len(z) /\ z[i] = Comma BY <1>0 DEF Matching
  <2>3. j \in 1 .. Len(z) BY <1>0, <2>1, <2>2
  <2>4. j = Len(k) + 1 BY <1>1, <2>1, <2>3
  <2>5. i \in 1 .. Len(k) + 1 BY <1>0, <2>1, <2>2, <2>4
  <2> QED BY <1>2, <2>2, <2>5
<1> QED BY <1>1, <1>2, <1>3

\* The tokens of a slice.
LEMMA Slice ==
  ASSUME NEW t, NEW l \in Int, NEW n \in Int, \A i \in l .. n : t[i] \in Tokens,
         NEW q, q = SubSeq(t, l, n)
  PROVE  /\ q \in Seq(Tokens)
         /\ Len(q) = IF l <= n THEN n - l + 1 ELSE 0
         /\ \A i \in 1 .. n - l + 1 : q[i] = t[l + i - 1]
BY SubSeqProperties

\* Two lists in a row.
Row(s, s0, b) == s = s0 \o b

\* The two halves of a text.
LEMMA HalvesIs ==
  ASSUME NEW x \in Texts, NEW z \in Texts, NEW t \in Texts, Row(t, x, z)
  PROVE  SubSeq(t, 1, Len(x)) = x /\ SubSeq(t, Len(x) + 1, Len(t)) = z
<1>1. /\ Len(x) \in Nat /\ Len(z) \in Nat /\ Len(t) = Len(x) + Len(z) /\ Len(t) \in Nat
      /\ \A i \in 1 .. Len(x) : t[i] = x[i]
      /\ \A i \in 1 .. Len(z) : t[Len(x) + i] = z[i]
      /\ \A i \in 1 .. Len(t) : t[i] \in Tokens
  BY DEF Texts, Row
<1>2. SubSeq(t, 1, Len(x)) = x BY <1>1 DEF Texts, Row
<1>3. SubSeq(t, Len(x) + 1, Len(t)) = z
  <2>1. PICK l \in Int : l = Len(x) + 1 BY <1>1
  <2>2. PICK n \in Int : n = Len(t) BY <1>1
  <2>3. \A i \in l .. n : t[i] \in Tokens
    <3> SUFFICES ASSUME NEW i \in l .. n PROVE t[i] \in Tokens
      OBVIOUS
    <3>1. i \in 1 .. Len(t) BY <1>1, <2>1, <2>2
    <3> QED BY <1>1, <3>1
  <2>4. PICK q : q = SubSeq(t, l, n) OBVIOUS
  <2>5. /\ q \in Seq(Tokens)
        /\ Len(q) = IF l <= n THEN n - l + 1 ELSE 0
        /\ \A i \in 1 .. n - l + 1 : q[i] = t[l + i - 1]
    BY <2>3, <2>4, Slice
  <2>6. n - l + 1 = Len(z) /\ (l <= n <=> Len(z) > 0) BY <1>1, <2>1, <2>2
  <2>7. Len(q) = Len(z) BY <1>1, <2>5, <2>6
  <2>8. \A i \in 1 .. Len(z) : q[i] = z[i]
    <3> SUFFICES ASSUME NEW i \in 1 .. Len(z) PROVE q[i] = z[i]
      OBVIOUS
    <3>1. l + i - 1 = Len(x) + i BY <1>1, <2>1
    <3> QED BY <1>1, <2>5, <2>6, <3>1
  <2> QED BY <2>1, <2>2, <2>4, <2>5, <2>7, <2>8, SeqEqual DEF Texts
<1> QED BY <1>2, <1>3

\* z is a key k, a colon and a list w.
KeyAndList(z, k, w) ==
  /\ z = k \o <<Colon>> \o w
  /\ ~Contains(k, Comma) /\ ~Contains(k, Colon)
  /\ ~Contains(w, Colon) /\ w # <<>> /\ w[1] = Open

Follows(t, a, z) == t = a \o <<Comma>> \o z

\* After keys, the match is the listed rule.
LEMMA LastMatch ==
  ASSUME NEW a \in Texts, ~Contains(a, Colon), NEW k \in Texts, NEW w \in Texts,
         NEW z \in Texts, KeyAndList(z, k, w), NEW t \in Texts, Follows(t, a, z)
  PROVE  getRightMostMatchingString(t) = z
<1> USE DEF KeyAndList, Follows
<1> DEFINE m == Len(a) + 1
           p == m + Len(k) + 1
<1>0. /\ Len(z) \in Nat /\ Len(k) \in Nat /\ Len(a) \in Nat /\ Len(w) \in Nat \ {0}
      /\ Len(t) \in Nat /\ DOMAIN t = 1 .. Len(t)
  BY DEF Texts
<1>1. Len(z) = Len(k) + 1 + Len(w) /\ z[Len(k) + 1] = Colon /\ z[Len(k) + 2] = Open
  <2>1. /\ Len(z) = Len(k) + 1 + Len(w) /\ z[Len(k) + 1] = Colon
        /\ \A i \in 1 .. Len(w) : z[Len(k) + 1 + i] = w[i]
    BY Places, MarkTokens
  <2>2. 1 \in 1 .. Len(w) /\ Len(k) + 1 + 1 = Len(k) + 2 BY <1>0
  <2> QED BY <2>1, <2>2
<1>2. /\ Len(t) = Len(a) + 1 + Len(z) /\ t[m] = Comma
      /\ \A i \in 1 .. Len(z) : t[m + i] = z[i]
  BY Places, MarkTokens
<1>3. m \in Matching(t)
  <2>1. m \in 1 .. Len(t) /\ p \in m + 1 .. Len(t) - 1 BY <1>0, <1>1, <1>2
  <2>2. /\ Len(k) + 1 \in 1 .. Len(z) /\ Len(k) + 2 \in 1 .. Len(z)
        /\ p = m + (Len(k) + 1) /\ p + 1 = m + (Len(k) + 2)
    BY <1>0, <1>1
  <2>3. t[p] = Colon /\ t[p + 1] = Open BY <1>1, <1>2, <2>2
  <2> QED BY <1>0, <1>2, <2>1, <2>3 DEF Matching
<1>4. ASSUME NEW i \in Matching(t) PROVE i <= m
  <2> SUFFICES ASSUME ~(i <= m) PROVE FALSE
    OBVIOUS
  <2>1. i \in 1 .. Len(t) /\ t[i] = Comma BY <1>0 DEF Matching
  <2>2. PICK j \in i + 1 .. Len(t) - 1 : t[j] = Colon BY DEF Matching
  <2>3. PICK x \in 1 .. Len(z) : i = m + x
    <3>1. i - m \in 1 .. Len(z) /\ i = m + (i - m) BY <1>0, <1>2, <2>1
    <3> QED BY <3>1
  <2>4. PICK y \in 1 .. Len(z) : j = m + y
    <3>1. j - m \in 1 .. Len(z) /\ j = m + (j - m) BY <1>0, <1>2, <2>1, <2>2
    <3> QED BY <3>1
  <2>5. z[x] = Comma /\ z[y] = Colon BY <1>2, <2>1, <2>2, <2>3, <2>4
  <2>6. y = Len(k) + 1 BY <2>5, OneRuleNoMatch
  <2>7. x \in 1 .. Len(k) + 1 BY <1>0, <2>2, <2>3, <2>4, <2>6
  <2> QED BY <2>5, <2>7, OneRuleNoMatch
<1>5. Max(Matching(t)) = m
  <2>1. Matching(t) \subseteq Int BY <1>0 DEF Matching
  <2> HIDE DEF m
  <2> QED BY <1>3, <1>4, <2>1, MaxIs
<1>6. SubSeq(t, m + 1, Len(t)) = z
  <2>1. PICK x \in Texts : x = a \o <<Comma>> /\ Len(x) = m
    <3>1. PICK u \in Texts : u = <<Comma>> /\ Len(u) = 1 BY UnitText, MarkTokens
    <3>2. PICK x \in Texts : x = a \o u BY <3>1, ConcatText
    <3>3. Len(x) = m BY <1>0, <3>1, <3>2 DEF Texts
    <3> QED BY <3>1, <3>2, <3>3
  <2>2. Row(t, x, z) BY <2>1 DEF Row
  <2> HIDE DEF m, KeyAndList, Follows
  <2>3. SubSeq(t, Len(x) + 1, Len(t)) = z BY <2>2, HalvesIs
  <2> QED BY <2>1, <2>3
<1> HIDE DEF m
<1> QED BY <1>3, <1>5, <1>6 DEF getRightMostMatchingString

-----------------------------------------------------------------------------
(* Pieces *)

\* The parts getOneOrMoreNodeSelectorRequirements works on.
Parted(t, complex, rest) ==
  /\ complex = getRightMostMatchingString(t)
  /\ rest = SubSeq(t, 1, Len(t) - Len(complex))

\* The three cases of a piece.
LEMMA PieceIs ==
  ASSUME NEW t \in Texts, NEW complex \in Texts, NEW rest \in Texts,
         Parted(t, complex, rest),
         NEW keys, keys = KeyRequirements(Split(rest, <<Comma>>))
  PROVE  /\ Contains(rest, Open) =>
              getOneOrMoreNodeSelectorRequirements(t) = <<getNodeSelectorRequirement(rest)>>
         /\ ~Contains(rest, Open) /\ complex = <<>> =>
              getOneOrMoreNodeSelectorRequirements(t) = keys
         /\ ~Contains(rest, Open) /\ complex # <<>> =>
              getOneOrMoreNodeSelectorRequirements(t)
                = Append(keys, getNodeSelectorRequirement(complex))
BY DEF getOneOrMoreNodeSelectorRequirements, Parted

\* Without a match, all is left for the loop over keys.
LEMMA NoMatchRest ==
  ASSUME NEW t \in Texts, Matching(t) = {}
  PROVE  /\ getRightMostMatchingString(t) = <<>>
         /\ SubSeq(t, 1, Len(t) - Len(<<>>)) = t
<1>1. getRightMostMatchingString(t) = <<>> BY DEF getRightMostMatchingString
<1>2. Len(t) \in Nat /\ Len(<<>>) = 0 BY DEF Texts
<1>3. Len(t) - Len(<<>>) = Len(t) BY <1>2
<1>4. SubSeq(t, 1, Len(t)) = t BY DEF Texts
<1> QED BY <1>1, <1>3, <1>4

\* A piece of keys is read as meant.
LEMMA PieceBare ==
  ASSUME NEW b \in Seq(Rules), b # <<>>, Bare(b)
  PROVE  getOneOrMoreNodeSelectorRequirements(Text(b)) = MeantBy(b)
<1>1. PICK t \in Texts : t = Text(b) BY TextTexts
<1>2. ~Contains(t, Colon) /\ ~Contains(t, Open)
  BY <1>1, BareMarks, MarksDistinct DEF Marks
<1>3. Matching(t) = {} BY <1>2, NoColonNoMatch
<1>4. PICK c \in Texts : c = <<>> BY EmptyText
<1>5. Parted(t, c, t) BY <1>3, <1>4, NoMatchRest DEF Parted
<1>6. PICK keys : keys = KeyRequirements(Split(t, <<Comma>>)) OBVIOUS
<1>7. getOneOrMoreNodeSelectorRequirements(t) = keys BY <1>2, <1>4, <1>5, <1>6, PieceIs
<1>8. keys = MeantBy(b) BY <1>1, <1>6, BareSplit, BareKeys
<1> QED BY <1>1, <1>7, <1>8

\* What a listed rule's text is made of.
LEMMA ListedParts ==
  ASSUME NEW r \in Rules, NEW e \in Ends
  PROVE  \E k \in Texts, w \in Texts, z \in Texts :
           /\ KeyAndList(z, k, w) /\ z = ListedText(r, e)
           /\ Contains(z, Open) /\ z # <<>>
           /\ getNodeSelectorRequirement(z) = Requirement(r)
<1>1. PICK k \in Texts : k = KeyText(r) BY KeyTexts
<1>2. ~Contains(k, Comma) /\ ~Contains(k, Colon)
  BY <1>1, KeyTexts, MarksDistinct DEF Marks
<1>3. PICK o \in Texts : o = Bracketed(r) /\ o # <<>> /\ o[1] = Open /\ ~Contains(o, Colon)
  BY BracketedTexts
<1>4. e \in Texts /\ (e = <<>> \/ e = <<Close>>) BY EndTexts DEF Ends
<1>5. ~Contains(e, Colon) BY <1>4, ContainsEmpty, ContainsUnit, MarksDistinct
<1>6. PICK w \in Texts : w = o \o e BY <1>4, ConcatText
<1>7. ~Contains(w, Colon) BY <1>3, <1>4, <1>5, <1>6, ContainsConcat
<1>8. w # <<>> /\ w[1] = Open BY <1>3, <1>4, <1>6 DEF Texts
<1>9. PICK z \in Texts : z = ListedText(r, e) /\ z # <<>> BY ListedTexts
<1>10. z = k \o <<Colon>> \o w BY <1>1, <1>3, <1>6, <1>9 DEF ListedText
<1>11. Contains(z, Open)
  <2>1. Contains(w, Open)
    <3>1. Len(w) \in Nat \ {0} BY <1>8 DEF Texts
    <3>2. 1 \in 1 .. Len(w) BY <3>1
    <3> QED BY <1>8, <3>2 DEF Contains
  <2>2. PICK u \in Texts : u = k \o <<Colon>>
    <3>1. <<Colon>> \in Texts BY UnitText, MarkTokens
    <3> QED BY <3>1, ConcatText
  <2> QED BY <1>10, <2>1, <2>2, ContainsConcat
<1>12. getNodeSelectorRequirement(z) = Requirement(r) BY <1>4, <1>9, ListedRule DEF ListedText
<1>13. KeyAndList(z, k, w) BY <1>2, <1>7, <1>8, <1>10 DEF KeyAndList
<1> QED BY <1>9, <1>11, <1>12, <1>13

\* A piece of one listed rule is read as meant.
LEMMA PieceOne ==
  ASSUME NEW r \in Rules, NEW e \in Ends
  PROVE  getOneOrMoreNodeSelectorRequirements(ListedText(r, e)) = <<Requirement(r)>>
<1>1. PICK k \in Texts, w \in Texts, z \in Texts :
           /\ KeyAndList(z, k, w) /\ z = ListedText(r, e)
           /\ Contains(z, Open)
           /\ getNodeSelectorRequirement(z) = Requirement(r)
  BY ListedParts
<1>2. Matching(z) = {} BY <1>1, OneRuleNoMatch DEF KeyAndList
<1>3. PICK c \in Texts : c = <<>> BY EmptyText
<1>4. Parted(z, c, z) BY <1>2, <1>3, NoMatchRest DEF Parted
<1>5. getOneOrMoreNodeSelectorRequirements(z) = <<getNodeSelectorRequirement(z)>>
  <2>1. PICK keys : keys = KeyRequirements(Split(z, <<Comma>>)) OBVIOUS
  <2>2. Contains(z, Open) BY <1>1
  <2> QED BY <1>4, <2>1, <2>2, PieceIs
<1> QED BY <1>1, <1>5

\* The loop skips the empty key after the last comma.
LEMMA EmptyKey ==
  ASSUME NEW k \in Seq(Texts)
  PROVE  KeyRequirements(Append(k, <<>>)) = KeyRequirements(k)
<1>1. PICK x \in Texts : x = <<>> BY EmptyText
<1>2. TrimSpace(x) = <<>>
  <2>1. ~Contains(x, Space) /\ Filler(x, Space) BY <1>1, ContainsEmpty DEF Filler
  <2>2. TrimSpace(x \o x \o x) = x BY <2>1, TrimSpaceIs
  <2>3. x \o x \o x = x BY <1>1
  <2> QED BY <1>1, <2>2, <2>3
<1>3. KeyRequirements(Append(k, x)) = KeyRequirements(k) BY <1>2, KeysAppend
<1> QED BY <1>1, <1>3

\* A piece of keys and a listed rule is read as meant.
LEMMA PieceMore ==
  ASSUME NEW b \in Seq(Rules), b # <<>>, Bare(b), NEW r \in Rules, NEW e \in Ends
  PROVE  getOneOrMoreNodeSelectorRequirements(Text(b) \o <<Comma>> \o ListedText(r, e))
           = Append(MeantBy(b), Requirement(r))
<1>1. PICK k \in Texts, w \in Texts, z \in Texts :
           /\ KeyAndList(z, k, w) /\ z = ListedText(r, e)
           /\ z # <<>>
           /\ getNodeSelectorRequirement(z) = Requirement(r)
  BY ListedParts
<1>2. PICK a \in Texts : a = Text(b) BY TextTexts
<1>3. ~Contains(a, Colon) /\ ~Contains(a, Open)
  BY <1>2, BareMarks, MarksDistinct DEF Marks
<1>4. PICK rest \in Texts : rest = a \o <<Comma>> BY CommaText, ConcatText
<1>5. PICK t \in Texts : t = rest \o z BY ConcatText
<1>6. z = getRightMostMatchingString(t)
  <2>1. Follows(t, a, z) BY <1>4, <1>5 DEF Follows
  <2>2. KeyAndList(z, k, w) BY <1>1
  <2> QED BY <1>3, <2>1, <2>2, LastMatch
<1>7. rest = SubSeq(t, 1, Len(t) - Len(z))
  <2>1. Len(rest) \in Nat /\ Len(z) \in Nat /\ Len(t) = Len(rest) + Len(z) BY <1>5 DEF Texts
  <2>2. Len(t) - Len(z) = Len(rest) BY <2>1
  <2>3. Row(t, rest, z) BY <1>5 DEF Row
  <2> QED BY <2>2, <2>3, HalvesIs
<1>8. ~Contains(rest, Open)
  <2>1. ~Contains(<<Comma>>, Open) BY ContainsUnit, MarksDistinct
  <2> QED BY <1>3, <1>4, <2>1, CommaText, ContainsConcat
<1>9. KeyRequirements(Split(rest, <<Comma>>)) = MeantBy(b)
  <2>1. PICK x \in Texts : x = <<>> /\ ~Contains(x, Comma) BY EmptyText, ContainsEmpty
  <2>2. rest = a \o <<Comma>> \o x
    <3>1. rest \o <<>> = rest BY DEF Texts
    <3> QED BY <1>4, <2>1, <3>1
  <2>3. Split(rest, <<Comma>>) = Append(Split(a, <<Comma>>), x)
    BY <2>1, <2>2, MarkTokens, SplitAt
  <2>4. PICK p \in Seq(Texts) : p = Spellings(b) BY SpellingsTexts
  <2>5. Split(a, <<Comma>>) = p BY <1>2, <2>4, BareSplit
  <2>6. Split(rest, <<Comma>>) = Append(p, <<>>) BY <2>1, <2>3, <2>5
  <2>7. KeyRequirements(Append(p, <<>>)) = KeyRequirements(p) BY EmptyKey
  <2> QED BY <2>4, <2>6, <2>7, BareKeys
<1>10. PICK keys : keys = KeyRequirements(Split(rest, <<Comma>>)) OBVIOUS
<1>11. getOneOrMoreNodeSelectorRequirements(t) = Append(keys, getNodeSelectorRequirement(z))
  <2>1. z # <<>> BY <1>1
  <2>2. Parted(t, z, rest) BY <1>6, <1>7 DEF Parted
  <2> QED BY <1>8, <1>10, <2>1, <2>2, PieceIs
<1>12. t = Text(b) \o <<Comma>> \o ListedText(r, e) BY <1>1, <1>2, <1>4, <1>5
<1>13. getNodeSelectorRequirement(z) = Requirement(r) BY <1>1
<1> QED BY <1>9, <1>10, <1>11, <1>12, <1>13

-----------------------------------------------------------------------------
(* The separator of pieces *)

EndOfRule == <<Close, Comma>>

\* The separator and its tokens.
LEMMA EndOfRuleText ==
  /\ EndOfRule \in Texts /\ Len(EndOfRule) = 2
  /\ EndOfRule[1] = Close /\ EndOfRule[2] = Comma
BY MarkTokens DEF EndOfRule, Texts

\* The end of a text that ends with "],".
LEMMA EndsWithTwo ==
  ASSUME NEW u \in Texts
  PROVE  EndsWith(u, EndOfRule) <=>
           Len(u) >= 2 /\ u[Len(u) - 1] = Close /\ u[Len(u)] = Comma
<1>1. Len(u) \in Nat BY DEF Texts
<1>2. CASE Len(u) >= 2
  <2>1. PICK n \in Nat : n = Len(u) BY <1>1
  <2>2. PICK l \in Int : l = n - 1 BY <2>1
  <2>3. l \in 1 .. Len(u) /\ n \in 1 .. Len(u) /\ l <= n /\ n - l + 1 = 2
    BY <1>2, <2>1, <2>2
  <2>4. \A i \in l .. n : u[i] \in Tokens
    <3> SUFFICES ASSUME NEW i \in l .. n PROVE u[i] \in Tokens
      OBVIOUS
    <3>1. i \in 1 .. Len(u) BY <2>1, <2>3
    <3> QED BY <3>1 DEF Texts
  <2>5. PICK q : q = SubSeq(u, l, n) OBVIOUS
  <2>6. /\ q \in Seq(Tokens) /\ Len(q) = 2
        /\ \A i \in 1 .. 2 : q[i] = u[l + i - 1]
    <3>1. /\ q \in Seq(Tokens)
          /\ Len(q) = IF l <= n THEN n - l + 1 ELSE 0
          /\ \A i \in 1 .. n - l + 1 : q[i] = u[l + i - 1]
      BY <2>4, <2>5, Slice
    <3> QED BY <2>3, <3>1
  <2>7. q[1] = u[l] /\ q[2] = u[n]
    <3>1. l + 1 - 1 = l /\ l + 2 - 1 = n BY <2>1, <2>2
    <3>2. 1 \in 1 .. 2 /\ 2 \in 1 .. 2 OBVIOUS
    <3> QED BY <2>6, <3>1, <3>2
  <2>8. q = EndOfRule <=> q[1] = Close /\ q[2] = Comma
    <3>1. ASSUME q[1] = Close, q[2] = Comma PROVE q = EndOfRule
      <4>1. \A i \in 1 .. 2 : i = 1 \/ i = 2 OBVIOUS
      <4>2. \A i \in 1 .. Len(q) : q[i] = EndOfRule[i] BY <2>6, <3>1, <4>1, EndOfRuleText
      <4> QED BY <2>6, <4>2, SeqEqual, EndOfRuleText DEF Texts
    <3> QED BY <3>1, EndOfRuleText
  <2>9. Len(u) - Len(EndOfRule) + 1 = l /\ Len(EndOfRule) <= Len(u)
    BY <1>2, <2>1, <2>2, EndOfRuleText
  <2>10. EndsWith(u, EndOfRule) <=> q = EndOfRule
    BY <2>1, <2>5, <2>9 DEF EndsWith
  <2> QED BY <1>2, <2>1, <2>2, <2>7, <2>8, <2>10
<1>3. CASE ~(Len(u) >= 2)
  <2>1. ~(Len(EndOfRule) <= Len(u)) BY <1>1, <1>3, EndOfRuleText
  <2> QED BY <1>3, <2>1 DEF EndsWith
<1> QED BY <1>2, <1>3

\* A "]" at the end only is no end of a rule yet.
LEMMA UncutLast ==
  ASSUME NEW q \in Texts, ~Contains(q, Close), NEW p \in Texts, ~Contains(p, Close),
         NEW e \in Ends, NEW v \in Texts, v = p \o e
  PROVE  Uncut(q, v, EndOfRule)
<1> SUFFICES ASSUME NEW n \in 1 .. Len(v), EndsWith(q \o SubSeq(v, 1, n), EndOfRule) PROVE FALSE
  BY DEF Uncut
<1>1. /\ Len(v) \in Nat /\ Len(p) \in Nat /\ Len(q) \in Nat /\ Len(v) <= Len(p) + 1
      /\ \A i \in 1 .. Len(p) : v[i] = p[i]
  <2>1. e \in Texts /\ Len(e) \in 0 .. 1 BY EndTexts DEF Ends
  <2> QED BY <2>1 DEF Texts
<1>2. PICK h \in Texts : h = SubSeq(v, 1, n) /\ Len(h) = n /\ \A i \in 1 .. n : h[i] = v[i]
  <2>1. n \in 0 .. Len(v) BY <1>1
  <2>2. SubSeq(v, 1, n) \in Texts BY <2>1, PrefixText
  <2>3. Len(SubSeq(v, 1, n)) = n /\ \A i \in 1 .. n : SubSeq(v, 1, n)[i] = v[i]
    BY <1>1 DEF Texts
  <2> QED BY <2>2, <2>3
<1>3. PICK u \in Texts : /\ u = q \o h /\ Len(u) = Len(q) + n
                         /\ \A i \in 1 .. Len(q) : u[i] = q[i]
                         /\ \A i \in 1 .. n : u[Len(q) + i] = h[i]
  <2>1. PICK u \in Texts : u = q \o h BY ConcatText
  <2>2. /\ Len(u) = Len(q) + Len(h)
        /\ \A i \in 1 .. Len(q) : u[i] = q[i]
        /\ \A i \in 1 .. Len(h) : u[Len(q) + i] = h[i]
    BY <2>1 DEF Texts
  <2>3. Len(h) = n BY <1>2
  <2> QED BY <2>1, <2>2, <2>3
<1>4. Len(u) >= 2 /\ u[Len(u) - 1] = Close
  <2>1. EndsWith(u, EndOfRule) BY <1>2, <1>3
  <2> QED BY <2>1, EndsWithTwo
<1>5. PICK l \in Nat : l = Len(u) - 1 /\ l >= 1 /\ u[l] = Close
  <2>1. Len(u) \in Nat BY DEF Texts
  <2>2. Len(u) - 1 \in Nat /\ Len(u) - 1 >= 1 BY <1>4, <2>1
  <2> QED BY <1>4, <2>2
<1>6. CASE l <= Len(q)
  <2>1. l \in 1 .. Len(q) BY <1>1, <1>5, <1>6
  <2>2. q[l] = Close BY <1>3, <1>5, <2>1
  <2> QED BY <2>1, <2>2 DEF Contains
<1>7. CASE ~(l <= Len(q))
  <2>1. PICK i \in Nat : i = l - Len(q) /\ i \in 1 .. n /\ i \in 1 .. Len(p) /\ Len(q) + i = l
    BY <1>1, <1>3, <1>5, <1>7
  <2>2. u[l] = h[i] BY <1>3, <2>1
  <2>3. h[i] = v[i] BY <1>2, <2>1
  <2>4. v[i] = p[i] BY <1>1, <2>1
  <2>5. p[i] = Close BY <1>5, <2>2, <2>3, <2>4
  <2> QED BY <2>1, <2>5 DEF Contains
<1> QED BY <1>6, <1>7

Closed(c, q) == c = q \o <<Close>>

\* "]," ends a part.
LEMMA SplitEnd ==
  ASSUME NEW t \in Texts, NEW front \in Seq(Texts), NEW q \in Texts, NEW c \in Texts,
         Closed(c, q), Splits(t, EndOfRule, front, c)
  PROVE  Splits(t \o <<Comma>>, EndOfRule, Append(front, q), <<>>)
<1>1. Split(t, EndOfRule) = Append(front, c) BY DEF Splits
<1>2. /\ Len(q) \in Nat /\ Len(c) = Len(q) + 1 /\ c[Len(q) + 1] = Close
      /\ \A i \in 1 .. Len(q) : c[i] = q[i]
  BY DEF Texts, Closed
<1>3. PICK d \in Texts : /\ d = Append(c, Comma) /\ Len(d) = Len(q) + 2
                         /\ d[Len(q) + 1] = Close /\ d[Len(q) + 2] = Comma
                         /\ \A i \in 1 .. Len(q) : d[i] = q[i]
  <2>1. PICK d \in Texts : d = Append(c, Comma) BY MarkTokens, FrontOfAppend DEF Texts
  <2>2. /\ Len(d) = Len(c) + 1 /\ d[Len(c) + 1] = Comma
        /\ \A i \in 1 .. Len(c) : d[i] = c[i]
    BY <2>1 DEF Texts
  <2>3. /\ Len(q) + 1 \in 1 .. Len(c) /\ Len(c) + 1 = Len(q) + 2
        /\ \A i \in 1 .. Len(q) : i \in 1 .. Len(c)
    BY <1>2
  <2> QED BY <1>2, <2>1, <2>2, <2>3
<1>4. EndsWith(d, EndOfRule)
  <2>1. Len(d) >= 2 /\ Len(d) - 1 = Len(q) + 1 BY <1>2, <1>3
  <2> QED BY <1>3, <2>1, EndsWithTwo
<1>5. SubSeq(d, 1, Len(d) - Len(EndOfRule)) = q
  <2>1. Len(d) - Len(EndOfRule) = Len(q) BY <1>2, <1>3, EndOfRuleText
  <2>2. PICK h \in Texts : /\ h = SubSeq(d, 1, Len(q)) /\ Len(h) = Len(q)
                           /\ \A i \in 1 .. Len(q) : h[i] = d[i]
    <3>1. Len(q) \in 0 .. Len(d) BY <1>2, <1>3
    <3>2. SubSeq(d, 1, Len(q)) \in Texts BY <3>1, PrefixText
    <3>3. /\ Len(SubSeq(d, 1, Len(q))) = Len(q)
          /\ \A i \in 1 .. Len(q) : SubSeq(d, 1, Len(q))[i] = d[i]
      BY <1>2, <3>1 DEF Texts
    <3> QED BY <3>2, <3>3
  <2>3. h = q BY <1>3, <2>2, SeqEqual DEF Texts
  <2> QED BY <2>1, <2>2, <2>3
<1>6. PICK parts \in Seq(Texts) : /\ parts = Append(front, c) /\ Front(parts) = front
                                  /\ Last(parts) = c
  BY FrontOfAppend
<1>7. Cut(parts, Comma, EndOfRule) = front \o <<q, <<>>>>
  BY <1>3, <1>4, <1>5, <1>6 DEF Cut
<1>8. front \o <<q, <<>>>> = Append(Append(front, q), <<>>) BY EmptyText
<1>9. Split(Append(t, Comma), EndOfRule) = Cut(parts, Comma, EndOfRule)
  <2>1. Split(Append(t, Comma), EndOfRule) = Cut(Split(t, EndOfRule), Comma, EndOfRule)
    BY SplitAppend, MarkTokens, EndOfRuleText
  <2> QED BY <1>1, <1>6, <2>1
<1>10. t \o <<Comma>> = Append(t, Comma) BY MarkTokens DEF Texts
<1> QED BY <1>7, <1>8, <1>9, <1>10 DEF Splits

-----------------------------------------------------------------------------
(* Keys and the listed rule that ends a piece *)

\* t, u and v in a row, grouped from the right and from the left.
InRow(z, t, u, v) == \E x \in Texts : x = u \o v /\ z = t \o x

\* Grouping does not matter.
LEMMA Regrouped ==
  ASSUME NEW z \in Texts, NEW t \in Texts, NEW u \in Texts, NEW v \in Texts, InRow(z, t, u, v)
  PROVE  z = (t \o u) \o v
<1>1. t \o (u \o v) = (t \o u) \o v BY DEF Texts
<1> QED BY <1>1 DEF InRow

\* Keys b and a listed rule r, up to its closing bracket or with it.
GroupText(b, r, e) ==
  IF b = <<>> THEN ListedText(r, e) ELSE Text(b) \o <<Comma>> \o ListedText(r, e)

\* Such a piece, written out.
LEMMA GroupTexts ==
  ASSUME NEW b \in Seq(Rules), NEW r \in Rules, NEW e \in Ends
  PROVE  GroupText(b, r, e) \in Texts
<1>1. PICK z \in Texts : z = ListedText(r, e) BY ListedTexts
<1>2. PICK a \in Texts : a = Text(b) BY TextTexts
<1>3. PICK x \in Texts : x = a \o <<Comma>> BY CommaText, ConcatText
<1>4. x \o z \in Texts BY ConcatText
<1> QED BY <1>1, <1>2, <1>3, <1>4 DEF GroupText

\* Such a piece is read as meant, with its closing bracket and without.
LEMMA GroupMeant ==
  ASSUME NEW b \in Seq(Rules), Bare(b), NEW r \in Rules, NEW e \in Ends
  PROVE  getOneOrMoreNodeSelectorRequirements(GroupText(b, r, e)) = MeantBy(Append(b, r))
<1>1. CASE b = <<>>
  <2>1. Append(b, r) = <<r>> BY <1>1
  <2> QED BY <1>1, <2>1, PieceOne, MeantUnit DEF GroupText
<1>2. CASE b # <<>>
  BY <1>2, PieceMore, MeantAppend DEF GroupText
<1> QED BY <1>1, <1>2

\* The closing bracket of a rule.
LEMMA ListedClosed ==
  ASSUME NEW r \in Rules
  PROVE  Closed(ListedText(r, <<Close>>), ListedText(r, <<>>))
<1>1. PICK k \in Texts : k = KeyText(r) \o <<Colon>>
  BY KeyTexts, UnitText, MarkTokens, ConcatText
<1>2. PICK o \in Texts : o = Bracketed(r) BY BracketedTexts
<1>3. PICK c \in Texts : c = <<Close>> BY UnitText, MarkTokens
<1>4. o \o <<>> = o BY DEF Texts
<1>5. k \o (o \o c) = (k \o o) \o c BY DEF Texts
<1> QED BY <1>1, <1>2, <1>3, <1>4, <1>5 DEF Closed, ListedText

\* The closing bracket of a piece.
LEMMA GroupClosed ==
  ASSUME NEW b \in Seq(Rules), NEW r \in Rules
  PROVE  Closed(GroupText(b, r, <<Close>>), GroupText(b, r, <<>>))
<1>1. CASE b = <<>> BY <1>1, ListedClosed DEF GroupText
<1>2. CASE b # <<>>
  <2>1. PICK z \in Texts : z = ListedText(r, <<>>) BY ListedTexts DEF Ends
  <2>2. PICK a \in Texts : a = Text(b) BY TextTexts
  <2>3. PICK x \in Texts : x = a \o <<Comma>> BY CommaText, ConcatText
  <2>4. PICK c \in Texts : c = <<Close>> BY UnitText, MarkTokens
  <2>5. x \o (z \o c) = (x \o z) \o c BY DEF Texts
  <2>6. ListedText(r, <<Close>>) = z \o c BY <2>1, <2>4, ListedClosed DEF Closed
  <2> QED BY <1>2, <2>1, <2>2, <2>3, <2>4, <2>5, <2>6 DEF GroupText, Closed
<1> QED BY <1>1, <1>2

\* A rule's text has its "]", if it has one, at the end.
LEMMA SpelledEnd ==
  ASSUME NEW r \in Rules
  PROVE  \E p \in Texts, e \in Ends : Spelled(r) = p \o e /\ ~Contains(p, Close)
<1>1. CASE Listed(r)
  <2>1. PICK p \in Texts : p = ListedText(r, <<>>) BY ListedTexts DEF Ends
  <2>2. ~Contains(p, Close)
    <3>1. PICK k \in Texts : k = KeyText(r) /\ ~Contains(k, Close)
      BY KeyTexts, MarksDistinct DEF Marks
    <3>2. PICK o \in Texts : o = Bracketed(r) /\ ~Contains(o, Close) BY BracketedTexts
    <3>3. PICK c \in Texts : c = <<Colon>> /\ ~Contains(c, Close)
      BY UnitText, MarkTokens, ContainsUnit, MarksDistinct
    <3>4. o \o <<>> = o BY DEF Texts
    <3>5. PICK x \in Texts : x = k \o c /\ ~Contains(x, Close)
      BY <3>1, <3>3, ConcatText, ContainsConcat
    <3>6. p = x \o o BY <2>1, <3>1, <3>2, <3>3, <3>4, <3>5 DEF ListedText
    <3> QED BY <3>2, <3>5, <3>6, ContainsConcat
  <2>3. Spelled(r) = p \o <<Close>> BY <1>1, <2>1, ListedClosed, SpelledIs DEF Closed
  <2> QED BY <2>1, <2>2, <2>3 DEF Ends
<1>2. CASE ~Listed(r)
  <2>1. PICK p \in Texts : p = KeyText(r) /\ ~Contains(p, Close)
    BY KeyTexts, MarksDistinct DEF Marks
  <2>2. p \o <<>> = p BY DEF Texts
  <2>3. Spelled(r) = p \o <<>> BY <1>2, <2>1, <2>2, SpelledIs
  <2> QED BY <2>1, <2>3 DEF Ends
<1> QED BY <1>1, <1>2

\* The first rule of a part.
LEMMA SplitFirst ==
  ASSUME NEW t \in Texts, NEW front \in Seq(Texts), Splits(t, EndOfRule, front, <<>>),
         NEW r \in Rules, NEW x \in Texts, x = Spelled(r)
  PROVE  Splits(t \o x, EndOfRule, front, x)
<1>1. PICK p \in Texts, e \in Ends : x = p \o e /\ ~Contains(p, Close) BY SpelledEnd
<1>2. PICK q \in Texts : q = <<>> /\ ~Contains(q, Close) BY EmptyText, ContainsEmpty
<1>3. Uncut(q, x, EndOfRule) BY <1>1, <1>2, UncutLast
<1>4. Splits(t, EndOfRule, front, q) BY <1>2
<1>5. Splits(t \o x, EndOfRule, front, q \o x) BY <1>3, <1>4, EndOfRuleText, SplitMore
<1>6. q \o x = x BY <1>2 DEF Texts
<1> QED BY <1>5, <1>6

\* A rule after keys.
LEMMA SplitNext ==
  ASSUME NEW t \in Texts, NEW front \in Seq(Texts), NEW b \in Seq(Rules), Bare(b),
         Splits(t, EndOfRule, front, Text(b)),
         NEW r \in Rules
  PROVE  Splits(t \o <<Comma>> \o Spelled(r), EndOfRule, front,
                Text(b) \o <<Comma>> \o Spelled(r))
<1>0. PICK x \in Texts : x = Spelled(r) BY SpelledIs
<1>1. PICK p \in Texts, e \in Ends : x = p \o e /\ ~Contains(p, Close) BY <1>0, SpelledEnd
<1>2. PICK q \in Texts : q = Text(b) /\ ~Contains(q, Close)
  BY TextTexts, BareMarks, MarksDistinct DEF Marks
<1>3. PICK c \in Texts : c = <<Comma>> /\ ~Contains(c, Close)
  BY CommaText, ContainsUnit, MarksDistinct
<1>4. PICK d \in Texts : d = c \o p /\ ~Contains(d, Close)
  BY <1>1, <1>3, ConcatText, ContainsConcat
<1>5. PICK v \in Texts : v = c \o x BY ConcatText
<1>6. v = d \o e
  <2>1. e \in Texts BY EndTexts
  <2>2. InRow(v, c, p, e) BY <1>1, <1>5 DEF InRow
  <2>3. v = (c \o p) \o e BY <2>1, <2>2, Regrouped
  <2> QED BY <1>4, <2>3
<1>7. Uncut(q, v, EndOfRule) BY <1>2, <1>4, <1>6, UncutLast
<1>8. Splits(t \o v, EndOfRule, front, q \o v)
  <2>1. Splits(t, EndOfRule, front, q) BY <1>2
  <2> QED BY <1>7, <2>1, EndOfRuleText, SplitMore
<1>9. PICK y \in Texts : y = t \o v BY ConcatText
<1>10. PICK z \in Texts : z = q \o v BY ConcatText
<1>11. InRow(y, t, c, x) /\ InRow(z, q, c, x) BY <1>5, <1>9, <1>10 DEF InRow
<1>12. y = (t \o c) \o x /\ z = (q \o c) \o x BY <1>11, Regrouped
<1> QED BY <1>0, <1>2, <1>3, <1>8, <1>9, <1>10, <1>12

-----------------------------------------------------------------------------
(* The whole setting *)

\* The empty list.
LEMMA EmptyList ==
  ASSUME NEW T
  PROVE  <<>> \in Seq(T)
OBVIOUS

\* One more rule after two lists.
LEMMA RowAppend ==
  ASSUME NEW s0 \in Seq(Rules), NEW b \in Seq(Rules), NEW r \in Rules,
         NEW s \in Seq(Rules), Row(s, s0, b)
  PROVE  Row(Append(s, r), s0, Append(b, r))
<1>1. Append(s0 \o b, r) = s0 \o Append(b, r) OBVIOUS
<1> QED BY <1>1 DEF Row

\* The parts of a setting s read so far: front are read as rules s0, and the last
\* is either keys b or keys b and a listed rule.
Keys(s, s0, b, front) ==
  /\ b # <<>> /\ s = s0 \o b
  /\ Splits(Text(s), EndOfRule, front, Text(b))
Group(s, s0, b, r, front) ==
  /\ s = s0 \o Append(b, r)
  /\ Splits(Text(s), EndOfRule, front, GroupText(b, r, <<Close>>))
Parts(s, s0, b, front) ==
  /\ Bare(b) /\ PieceRequirements(front) = MeantBy(s0)
  /\ Keys(s, s0, b, front) \/ \E r \in Rules : Group(s, s0, b, r, front)
Parsed(s) ==
  \E s0 \in Seq(Rules), b \in Seq(Rules), front \in Seq(Texts) : Parts(s, s0, b, front)

\* A part that holds rules g.
LEMMA ReadMore ==
  ASSUME NEW s0 \in Seq(Rules), NEW g \in Seq(Rules), NEW front \in Seq(Texts), NEW q \in Texts,
         PieceRequirements(front) = MeantBy(s0),
         getOneOrMoreNodeSelectorRequirements(q) = MeantBy(g)
  PROVE  PieceRequirements(Append(front, q)) = MeantBy(s0 \o g)
BY PiecesAppend, MeantConcat

\* A rule that opens a part, s0 being read before it.
LEMMA Opened ==
  ASSUME NEW s0 \in Seq(Rules), NEW r \in Rules, NEW front \in Seq(Texts),
         PieceRequirements(front) = MeantBy(s0),
         Splits(Text(Append(s0, r)), EndOfRule, front, Spelled(r))
  PROVE  Parsed(Append(s0, r))
<1>1. PICK s \in Seq(Rules) : s = Append(s0, r) BY FrontOfAppend
<1>2. CASE Listed(r)
  <2>1. PICK b \in Seq(Rules) : b = <<>> BY EmptyList
  <2>2. Bare(b) BY <2>1 DEF Bare
  <2>3. s = s0 \o Append(b, r) BY <1>1, <2>1
  <2>4. GroupText(b, r, <<Close>>) = Spelled(r) BY <1>2, <2>1, SpelledIs DEF GroupText
  <2>5. Group(s, s0, b, r, front) BY <1>1, <2>3, <2>4 DEF Group
  <2> QED BY <1>1, <2>2, <2>5 DEF Parsed, Parts
<1>3. CASE ~Listed(r)
  <2>1. PICK o \in Seq(Rules) : o = <<>> BY EmptyList
  <2>2. PICK b \in Seq(Rules) : b = Append(o, r) BY FrontOfAppend
  <2>3. Bare(o) BY <2>1 DEF Bare
  <2>4. Bare(b) BY <1>3, <2>2, <2>3, BareAppend
  <2>5. Text(b) = Spelled(r) BY <2>1, <2>2, TextAppend
  <2>6. b # <<>> /\ s = s0 \o b BY <1>1, <2>1, <2>2
  <2>7. Keys(s, s0, b, front) BY <1>1, <2>5, <2>6 DEF Keys
  <2> QED BY <1>1, <2>4, <2>7 DEF Parsed, Parts
<1> QED BY <1>2, <1>3

\* The first rule of a setting.
LEMMA FirstRule ==
  ASSUME NEW r \in Rules
  PROVE  Parsed(Append(<<>>, r))
<1>1. PICK s \in Seq(Rules) : s = <<>> BY EmptyList
<1>2. PICK front \in Seq(Texts) : front = <<>> BY EmptyList
<1>3. PICK t \in Texts : t = <<>> BY EmptyText
<1>4. PICK x \in Texts : x = Spelled(r) BY SpelledIs
<1>5. Splits(t, EndOfRule, front, <<>>)
  <2>1. Split(t, EndOfRule) = <<<<>>>> BY <1>3, SplitEmpty, EndOfRuleText
  <2>2. Append(front, <<>>) = <<<<>>>> BY <1>2
  <2> QED BY <2>1, <2>2 DEF Splits
<1>6. Splits(t \o x, EndOfRule, front, x) BY <1>4, <1>5, SplitFirst
<1>7. t \o x = x BY <1>3 DEF Texts
<1>8. Text(Append(s, r)) = x BY <1>1, <1>4, TextAppend
<1>9. PieceRequirements(front) = MeantBy(s) BY <1>1, <1>2, PiecesEmpty DEF MeantBy
<1> QED BY <1>1, <1>4, <1>6, <1>7, <1>8, <1>9, Opened

\* A rule after keys stays in their piece.
LEMMA NextAfterKeys ==
  ASSUME NEW s \in Seq(Rules), s # <<>>, NEW r \in Rules,
         NEW s0 \in Seq(Rules), NEW b \in Seq(Rules), NEW front \in Seq(Texts),
         Bare(b), PieceRequirements(front) = MeantBy(s0), Keys(s, s0, b, front)
  PROVE  Parsed(Append(s, r))
<1>1. PICK x \in Texts : x = Spelled(r) BY SpelledIs
<1>2. PICK t \in Texts : t = Text(s) BY TextTexts
<1>3. Splits(t \o <<Comma>> \o x, EndOfRule, front, Text(b) \o <<Comma>> \o x)
  <2>1. Splits(t, EndOfRule, front, Text(b)) BY <1>2 DEF Keys
  <2> QED BY <1>1, <2>1, SplitNext
<1>4. PICK u \in Seq(Rules) : u = Append(s, r) BY FrontOfAppend
<1>5. Text(u) = t \o <<Comma>> \o x BY <1>1, <1>2, <1>4, TextAppend
<1>6. b # <<>> BY DEF Keys
<1>7. PICK d \in Seq(Rules) : d = Append(b, r) BY FrontOfAppend
<1>8. u = s0 \o d
  <2>1. Row(s, s0, b) BY DEF Keys, Row
  <2>2. Row(Append(s, r), s0, Append(b, r)) BY <2>1, RowAppend
  <2> QED BY <1>4, <1>7, <2>2 DEF Row
<1>9. Text(b) \o <<Comma>> \o x = Text(d) BY <1>1, <1>6, <1>7, TextAppend
<1>10. CASE Listed(r)
  <2>1. GroupText(b, r, <<Close>>) = Text(b) \o <<Comma>> \o x
    BY <1>1, <1>6, <1>10, SpelledIs DEF GroupText
  <2>2. Group(u, s0, b, r, front) BY <1>3, <1>5, <1>7, <1>8, <2>1 DEF Group
  <2> QED BY <1>4, <2>2 DEF Parsed, Parts
<1>11. CASE ~Listed(r)
  <2>1. Bare(d) BY <1>7, <1>11, BareAppend
  <2>2. d # <<>> BY <1>7, FrontOfAppend
  <2>3. Keys(u, s0, d, front) BY <1>3, <1>5, <1>8, <1>9, <2>2 DEF Keys
  <2> QED BY <1>4, <2>1, <2>3 DEF Parsed, Parts
<1> QED BY <1>10, <1>11

\* A rule after a closing bracket opens a piece; the one before it is read.
LEMMA NextAfterGroup ==
  ASSUME NEW s \in Seq(Rules), s # <<>>, NEW r \in Rules, NEW a \in Rules,
         NEW s0 \in Seq(Rules), NEW b \in Seq(Rules), NEW front \in Seq(Texts),
         Bare(b), PieceRequirements(front) = MeantBy(s0), Group(s, s0, b, a, front)
  PROVE  Parsed(Append(s, r))
<1>1. PICK x \in Texts : x = Spelled(r) BY SpelledIs
<1>2. PICK t \in Texts : t = Text(s) BY TextTexts
<1>3. PICK q \in Texts : q = GroupText(b, a, <<>>) BY GroupTexts DEF Ends
<1>4. PICK c \in Texts : c = GroupText(b, a, <<Close>>) BY GroupTexts DEF Ends
<1>5. PICK more \in Seq(Texts) : more = Append(front, q) BY FrontOfAppend
<1>6. PICK v \in Texts : v = t \o <<Comma>> BY CommaText, ConcatText
<1>7. Splits(v, EndOfRule, more, <<>>)
  <2>1. Closed(c, q) BY <1>3, <1>4, GroupClosed
  <2>2. Splits(t, EndOfRule, front, c) BY <1>2, <1>4 DEF Group
  <2>3. Splits(t \o <<Comma>>, EndOfRule, Append(front, q), <<>>) BY <2>1, <2>2, SplitEnd
  <2> QED BY <1>5, <1>6, <2>3
<1>8. Splits(v \o x, EndOfRule, more, x) BY <1>1, <1>7, SplitFirst
<1>9. Text(Append(s, r)) = v \o x BY <1>1, <1>2, <1>6, TextAppend
<1>10. PieceRequirements(more) = MeantBy(s)
  <2>1. PICK g \in Seq(Rules) : g = Append(b, a) BY FrontOfAppend
  <2>2. getOneOrMoreNodeSelectorRequirements(q) = MeantBy(g)
    BY <1>3, <2>1, GroupMeant DEF Ends
  <2>3. PieceRequirements(Append(front, q)) = MeantBy(s0 \o g) BY <2>2, ReadMore
  <2>4. s = s0 \o g BY <2>1 DEF Group
  <2> QED BY <1>5, <2>3, <2>4
<1> QED BY <1>1, <1>8, <1>9, <1>10, Opened

\* Every setting comes apart so.
LEMMA EverySettingParsed ==
  ASSUME NEW s \in Seq(Rules), s # <<>>
  PROVE  Parsed(s)
<1> DEFINE P == {u \in Seq(Rules) : u = <<>> \/ Parsed(u)}
<1>1. <<>> \in P OBVIOUS
<1>2. ASSUME NEW u \in Seq(Rules), NEW r \in Rules, u \in P PROVE Append(u, r) \in P
  <2>1. Append(u, r) \in Seq(Rules) BY FrontOfAppend
  <2>2. CASE u = <<>> BY <2>1, <2>2, FirstRule
  <2>3. CASE u # <<>>
    <3>1. Parsed(u) BY <1>2, <2>3
    <3>2. PICK s0 \in Seq(Rules), b \in Seq(Rules), front \in Seq(Texts) :
            Parts(u, s0, b, front)
      BY <3>1 DEF Parsed
    <3>3. Parsed(Append(u, r)) BY <2>3, <3>2, NextAfterKeys, NextAfterGroup DEF Parts
    <3> QED BY <2>1, <3>3
  <2> QED BY <2>2, <2>3
<1> HIDE DEF P
<1>3. Seq(Rules) \subseteq P BY <1>1, <1>2, SeqInduct
<1> QED BY <1>3 DEF P

\* A setting with rules is not empty.
LEMMA NonEmptyText ==
  ASSUME NEW s \in Seq(Rules), s # <<>>
  PROVE  Text(s) # <<>>
<1>1. PICK u \in Seq(Rules), r \in Rules : s = Append(u, r) BY FrontLast
<1>2. PICK x \in Texts : x = Spelled(r) /\ x # <<>> BY SpelledIs
<1>3. CASE u = <<>> BY <1>1, <1>2, <1>3, TextAppend
<1>4. CASE u # <<>>
  <2>1. PICK t \in Texts : t = Text(u) \o <<Comma>> BY TextTexts, CommaText, ConcatText
  <2>2. t \o x # <<>> BY <1>2 DEF Texts
  <2> QED BY <1>1, <1>2, <1>4, <2>1, <2>2, TextAppend
<1> QED BY <1>3, <1>4

\* Every setting, of any rules in any of the spellings, is read as it is meant.
THEOREM SettingsReadAsMeant ==
  ASSUME NEW s \in Seq(Rules)
  PROVE  getNodeAffinityRules(Text(s)) = MeantBy(s)
<1>1. CASE s = <<>>
  <2>1. Text(s) = <<>>
    <3>1. Spellings(s) = <<>> BY <1>1 DEF Spellings
    <3> QED BY <3>1, JoinedEmpty, CommaText DEF Text
  <2>2. MeantBy(s) = <<>> BY <1>1 DEF MeantBy
  <2> QED BY <2>1, <2>2 DEF getNodeAffinityRules
<1>2. CASE s # <<>>
  <2>1. PICK s0 \in Seq(Rules), b \in Seq(Rules), front \in Seq(Texts) :
          Parts(s, s0, b, front)
    BY <1>2, EverySettingParsed DEF Parsed
  <2>2. Bare(b) /\ PieceRequirements(front) = MeantBy(s0) BY <2>1 DEF Parts
  <2>3. PieceRequirements(Split(Text(s), EndOfRule)) = MeantBy(s)
    <3>1. CASE Keys(s, s0, b, front)
      <4>1. PICK q \in Texts : q = Text(b) BY TextTexts
      <4>2. getOneOrMoreNodeSelectorRequirements(q) = MeantBy(b)
        BY <2>2, <3>1, <4>1, PieceBare DEF Keys
      <4>3. PieceRequirements(Append(front, q)) = MeantBy(s0 \o b) BY <2>2, <4>2, ReadMore
      <4> QED BY <3>1, <4>1, <4>3 DEF Keys, Splits
    <3>2. ASSUME NEW r \in Rules, Group(s, s0, b, r, front)
          PROVE  PieceRequirements(Split(Text(s), EndOfRule)) = MeantBy(s)
      <4>1. PICK q \in Texts : q = GroupText(b, r, <<Close>>) BY GroupTexts DEF Ends
      <4>2. PICK g \in Seq(Rules) : g = Append(b, r) BY FrontOfAppend
      <4>3. getOneOrMoreNodeSelectorRequirements(q) = MeantBy(g)
        BY <2>2, <4>1, <4>2, GroupMeant DEF Ends
      <4>4. PieceRequirements(Append(front, q)) = MeantBy(s0 \o g) BY <2>2, <4>3, ReadMore
      <4> QED BY <3>2, <4>1, <4>2, <4>4 DEF Group, Splits
    <3> QED BY <2>1, <3>1, <3>2 DEF Parts
  <2> QED BY <1>2, <2>3, NonEmptyText DEF getNodeAffinityRules, EndOfRule
<1> QED BY <1>1, <1>2
=============================================================================
