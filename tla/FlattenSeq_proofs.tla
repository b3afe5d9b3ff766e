------------------------- MODULE FlattenSeq_proofs -------------------------
(***************************************************************************)
(* Lemmas about FlattenSeq of the community modules, for sequences of      *)
(* sequences of any set.  Each of them is by the least counterexample.     *)
(***************************************************************************)
EXTENDS Integers, SequencesExt, SequenceTheorems, WellFoundedInduction, TLAPS

\* A set of numbers that is not empty has a least one.
LEMMA MinExists ==
    ASSUME NEW T, T \subseteq Nat, T # {}
    PROVE  \E i \in T : \A j \in T : i <= j
<1>1. IsWellFoundedOn(OpToRel(<, Nat), Nat)
  BY NatLessThanWellFounded
<1>2. PICK i \in T : \A j \in T : <<j, i>> \notin OpToRel(<, Nat)
  BY <1>1, WFMin
<1>3. \A j \in T : ~(j < i)
  BY <1>2 DEF OpToRel
<1> QED
  BY <1>3

\* g holds the flattenings of the first i sequences of ss, for each i up to n.
Flattens(g, ss, n) ==
    g = [i \in 1..n |-> IF i = 1 THEN ss[i] ELSE g[i-1] \o ss[i]]

\* The recursion of FlattenSeq has a solution, and FlattenSeq is its last value.
LEMMA FlattensExists ==
    ASSUME NEW ss, NEW n \in Nat
    PROVE  \E g : Flattens(g, ss, n)
<1> DEFINE T == {m \in Nat : ~\E g : Flattens(g, ss, m)}
<1>1. SUFFICES ASSUME T # {} PROVE FALSE
  OBVIOUS
<1>2. PICK m \in T : \A j \in T : m <= j
  <2>1. T \subseteq Nat
    OBVIOUS
  <2> HIDE DEF T
  <2> QED BY <1>1, <2>1, MinExists
<1>3. m # 0
  <2>1. SUFFICES ASSUME m = 0 PROVE FALSE
    OBVIOUS
  <2>2. Flattens([i \in 1..0 |-> 0], ss, 0)
    BY DEF Flattens
  <2> QED
    BY <2>1, <2>2
<1>4. m - 1 \in Nat /\ m - 1 \notin T
  BY <1>2, <1>3
<1>5. PICK g : Flattens(g, ss, m - 1)
  BY <1>4
<1> DEFINE h == [i \in 1..m |-> IF i < m THEN g[i] ELSE IF i = 1 THEN ss[i] ELSE g[i-1] \o ss[i]]
<1>6. \A i \in 1..m : h[i] = IF i = 1 THEN ss[i] ELSE h[i-1] \o ss[i]
  <2> TAKE i \in 1..m
  <2>1. CASE i < m
    <3>1. i \in 1..(m-1) /\ (i # 1 => i - 1 \in 1..m /\ i-1 < m)
      BY <2>1, <1>4
    <3>2. h[i] = g[i] /\ (i # 1 => h[i-1] = g[i-1])
      BY <2>1, <3>1
    <3>3. g[i] = IF i = 1 THEN ss[i] ELSE g[i-1] \o ss[i]
      BY <1>5, <3>1 DEF Flattens
    <3> QED
      BY <3>2, <3>3
  <2>2. CASE i = m
    BY <2>2, <1>4
  <2> QED
    BY <2>1, <2>2
<1>7. Flattens(h, ss, m)
  <2>1. h = [i \in 1..m |-> h[i]]
    OBVIOUS
  <2> HIDE DEF h
  <2>2. [i \in 1..m |-> h[i]] = [i \in 1..m |-> IF i = 1 THEN ss[i] ELSE h[i-1] \o ss[i]]
    BY <1>6
  <2> QED
    BY <2>1, <2>2 DEF Flattens
<1> QED
  BY <1>7

LEMMA FlattenSeqDef ==
    ASSUME NEW ss, Len(ss) \in Nat \ {0}
    PROVE  \E g : Flattens(g, ss, Len(ss)) /\ FlattenSeq(ss) = g[Len(ss)]
  BY FlattensExists DEF Flattens, FlattenSeq

\* Two functions agree up to n.
SameUpTo(f, g, n) == \A i \in 1..n : f[i] = g[i]

\* Two flattenings agree as long as the sequences do; here one of them goes on.
LEMMA FlattensAgree ==
    ASSUME NEW S, NEW ss \in Seq(Seq(S)), NEW tt \in Seq(Seq(S)),
           NEW n \in Nat, NEW m \in Nat, n <= m,
           NEW g, NEW h, Flattens(g, ss, n), Flattens(h, tt, m),
           SameUpTo(ss, tt, n)
    PROVE  SameUpTo(g, h, n)
<1> DEFINE T == {i \in 1..n : g[i] # h[i]}
<1>1. SUFFICES ASSUME T # {} PROVE FALSE
  BY DEF SameUpTo
<1>2. PICK i \in T : \A j \in T : i <= j
  <2>1. T \subseteq Nat
    OBVIOUS
  <2> HIDE DEF T
  <2> QED BY <1>1, <2>1, MinExists
<1>3. i \in 1..n /\ i \in 1..m /\ g[i] # h[i]
  OBVIOUS
<1>4. i # 1 => i - 1 \in 1..n /\ g[i - 1] = h[i - 1]
  BY <1>2
<1>5. /\ g[i] = IF i = 1 THEN ss[i] ELSE g[i-1] \o ss[i]
      /\ h[i] = IF i = 1 THEN tt[i] ELSE h[i-1] \o tt[i]
  BY <1>3 DEF Flattens
<1> QED
  BY <1>3, <1>4, <1>5 DEF SameUpTo

LEMMA FlattensType ==
    ASSUME NEW S, NEW ss \in Seq(Seq(S)), NEW g, Flattens(g, ss, Len(ss))
    PROVE  \A i \in 1..Len(ss) : g[i] \in Seq(S)
<1> DEFINE T == {i \in 1..Len(ss) : g[i] \notin Seq(S)}
<1>1. SUFFICES ASSUME T # {} PROVE FALSE
  OBVIOUS
<1>2. PICK i \in T : \A j \in T : i <= j
  <2>1. T \subseteq Nat
    OBVIOUS
  <2> HIDE DEF T
  <2> QED BY <1>1, <2>1, MinExists
<1>3. i \in 1..Len(ss) /\ ss[i] \in Seq(S) /\ Len(ss) \in Nat
  BY ElementOfSeq, LenProperties
<1>4. i # 1 => g[i - 1] \in Seq(S)
  BY <1>2, <1>3
<1>5. g[i] = IF i = 1 THEN ss[i] ELSE g[i-1] \o ss[i]
  BY <1>3 DEF Flattens
<1>6. g[i] \in Seq(S)
  BY <1>3, <1>4, <1>5, ConcatProperties
<1> QED
  BY <1>6

LEMMA FlattenEmpty == FlattenSeq(<< >>) = << >>
  BY DEF FlattenSeq

LEMMA FlattenType ==
    ASSUME NEW S, NEW ss \in Seq(Seq(S))
    PROVE  FlattenSeq(ss) \in Seq(S)
<1>1. CASE ss = << >>
  BY <1>1, FlattenEmpty, EmptySeq
<1>2. CASE ss # << >>
  <2>1. Len(ss) \in Nat \ {0}
    BY <1>2, EmptySeq
  <2>2. PICK g : Flattens(g, ss, Len(ss)) /\ FlattenSeq(ss) = g[Len(ss)]
    BY <2>1, FlattenSeqDef
  <2> QED
    BY <2>1, <2>2, FlattensType
<1> QED
  BY <1>1, <1>2

LEMMA FlattenLonger ==
    ASSUME NEW S, NEW ss \in Seq(Seq(S)), NEW tt \in Seq(Seq(S)),
           Len(tt) = Len(ss) + 1, \A i \in 1..Len(ss) : ss[i] = tt[i]
    PROVE  FlattenSeq(tt) = FlattenSeq(ss) \o tt[Len(tt)]
<1>1. /\ Len(ss) \in Nat /\ Len(tt) \in Nat \ {0} /\ Len(ss) <= Len(tt)
      /\ Len(tt) \in 1..Len(tt) /\ Len(tt) - 1 = Len(ss) /\ tt[Len(tt)] \in Seq(S)
  BY LenProperties, ElementOfSeq
<1>2. PICK h : Flattens(h, tt, Len(tt)) /\ FlattenSeq(tt) = h[Len(tt)]
  BY <1>1, FlattenSeqDef
<1>3. h[Len(tt)] = IF Len(tt) = 1 THEN tt[Len(tt)] ELSE h[Len(tt) - 1] \o tt[Len(tt)]
  BY <1>1, <1>2 DEF Flattens
<1>4. CASE Len(ss) = 0
  <2>1. ss = << >>
    BY <1>4, EmptySeq
  <2>2. FlattenSeq(tt) = tt[Len(tt)]
    BY <1>1, <1>2, <1>3, <1>4
  <2> QED
    BY <1>1, <2>1, <2>2, FlattenEmpty, ConcatEmptySeq
<1>5. CASE Len(ss) # 0
  <2>1. PICK g : Flattens(g, ss, Len(ss)) /\ FlattenSeq(ss) = g[Len(ss)]
    BY <1>1, <1>5, FlattenSeqDef
  <2>2. \A i \in 1..Len(ss) : g[i] = h[i]
    <3>1. SameUpTo(ss, tt, Len(ss))
      BY DEF SameUpTo
    <3>2. SameUpTo(g, h, Len(ss))
      BY <1>1, <1>2, <2>1, <3>1, FlattensAgree
    <3> QED
      BY <3>2 DEF SameUpTo
  <2>3. h[Len(tt) - 1] = FlattenSeq(ss)
    BY <1>1, <1>5, <2>1, <2>2
  <2> QED
    BY <1>1, <1>2, <1>3, <1>5, <2>3
<1> QED
  BY <1>4, <1>5

LEMMA FlattenAppend ==
    ASSUME NEW S, NEW ss \in Seq(Seq(S)), NEW s \in Seq(S)
    PROVE  FlattenSeq(Append(ss, s)) = FlattenSeq(ss) \o s
<1> DEFINE tt == Append(ss, s)
<1>1. /\ tt \in Seq(Seq(S)) /\ Len(tt) = Len(ss) + 1 /\ tt[Len(tt)] = s
      /\ \A i \in 1..Len(ss) : ss[i] = tt[i]
  BY LenProperties
<1> HIDE DEF tt
<1>2. FlattenSeq(tt) = FlattenSeq(ss) \o tt[Len(tt)]
  BY <1>1, FlattenLonger
<1> QED
  BY <1>1, <1>2 DEF tt

\* A sequence is what comes before its last element, and that element.
LEMMA FrontAndLast ==
    ASSUME NEW S, NEW s \in Seq(S), s # << >>
    PROVE  \E front \in Seq(S) :
              /\ Len(front) = Len(s) - 1 /\ s[Len(s)] \in S
              /\ s = Append(front, s[Len(s)])
<1>1. PICK front \in Seq(S), elt \in S : s = Append(front, elt)
  BY SequenceEmptyOrAppend
<1>2. Len(front) \in Nat /\ Len(s) = Len(front) + 1 /\ s[Len(s)] = elt
  BY <1>1, AppendProperties, LenProperties
<1> QED
  BY <1>1, <1>2

LEMMA FlattenConcat ==
    ASSUME NEW S, NEW ss \in Seq(Seq(S)), NEW tt \in Seq(Seq(S))
    PROVE  FlattenSeq(ss \o tt) = FlattenSeq(ss) \o FlattenSeq(tt)
<1> DEFINE Bad(n) == \E uu \in Seq(Seq(S)) :
                        Len(uu) = n /\ FlattenSeq(ss \o uu) # FlattenSeq(ss) \o FlattenSeq(uu)
           T == {n \in Nat : Bad(n)}
<1>1. SUFFICES ASSUME T # {} PROVE FALSE
  BY LenProperties
<1>2. PICK n \in T : \A j \in T : n <= j
  <2>1. T \subseteq Nat
    OBVIOUS
  <2> HIDE DEF T
  <2> QED BY <1>1, <2>1, MinExists
<1>3. PICK uu \in Seq(Seq(S)) :
         Len(uu) = n /\ FlattenSeq(ss \o uu) # FlattenSeq(ss) \o FlattenSeq(uu)
  OBVIOUS
<1>4. n \in Nat /\ \A j \in Nat : j < n => ~Bad(j)
  BY <1>2
<1> HIDE DEF T
<1>5. CASE n = 0
  <2>1. uu = << >>
    BY <1>3, <1>5, EmptySeq
  <2> QED
    BY <1>3, <2>1, FlattenEmpty, FlattenType, ConcatEmptySeq
<1>6. CASE n # 0
  <2>1. uu # << >> /\ n \in Nat /\ n - 1 \in Nat /\ n - 1 < n
    BY <1>3, <1>4, <1>6, EmptySeq
  <2>2. PICK vv \in Seq(Seq(S)), s \in Seq(S) : Len(vv) = n - 1 /\ uu = Append(vv, s)
    BY <1>3, <2>1, FrontAndLast
  <2>3. FlattenSeq(ss \o vv) = FlattenSeq(ss) \o FlattenSeq(vv)
    <3>1. ~Bad(n - 1)
      BY <1>4, <2>1
    <3> QED
      BY <2>2, <3>1
  <2> HIDE DEF Bad
  <2>4. ss \o uu = Append(ss \o vv, s) /\ ss \o vv \in Seq(Seq(S))
    BY <2>2
  <2>5. FlattenSeq(ss \o uu) = (FlattenSeq(ss) \o FlattenSeq(vv)) \o s
    BY <2>2, <2>3, <2>4, FlattenAppend
  <2>6. FlattenSeq(uu) = FlattenSeq(vv) \o s
    BY <2>2, FlattenAppend
  <2> DEFINE a == FlattenSeq(ss)
             b == FlattenSeq(vv)
  <2>7. a \in Seq(S) /\ b \in Seq(S)
    BY <2>2, FlattenType
  <2> HIDE DEF a, b
  <2>8. (a \o b) \o s = a \o (b \o s)
    <3>1. s \in Seq(S)
      BY <2>2
    <3> QED
      BY <2>7, <3>1, ConcatAssociative, SMTT(30)
  <2> QED
    BY <1>3, <2>5, <2>6, <2>8 DEF a, b
<1> QED
  BY <1>5, <1>6

\* Four parts put together in two ways.
Regrouped(a, b, c, d) == (a \o (b \o c)) \o d = (a \o b) \o (c \o d)

LEMMA FourParts ==
    ASSUME NEW S, NEW a \in Seq(S), NEW b \in Seq(S), NEW c \in Seq(S), NEW d \in Seq(S)
    PROVE  Regrouped(a, b, c, d)
<1>1. b \o c \in Seq(S) /\ a \o b \in Seq(S) /\ c \o d \in Seq(S)
  BY ConcatProperties
<1>2. a \o (b \o c) = (a \o b) \o c
  BY ConcatAssociative, SMTT(30)
<1>3. ((a \o b) \o c) \o d = (a \o b) \o (c \o d)
  BY <1>1, ConcatAssociative, SMTT(30)
<1> QED
  BY <1>2, <1>3 DEF Regrouped

LEMMA FlattenSingleton ==
    ASSUME NEW S, NEW s \in Seq(S)
    PROVE  FlattenSeq(<<s>>) = s
<1>1. << >> \in Seq(Seq(S)) /\ <<s>> = Append(<< >>, s)
  OBVIOUS
<1>2. FlattenSeq(<<s>>) = FlattenSeq(<< >>) \o s
  BY <1>1, FlattenAppend
<1> QED
  BY <1>2, FlattenEmpty, ConcatEmptySeq

LEMMA FlattenHead ==
    ASSUME NEW S, NEW ss \in Seq(Seq(S)), ss # << >>
    PROVE  FlattenSeq(ss) = Head(ss) \o FlattenSeq(Tail(ss))
<1>1. Head(ss) \in Seq(S) /\ Tail(ss) \in Seq(Seq(S))
  BY HeadTailProperties
<1>2. ss = <<Head(ss)>> \o Tail(ss) /\ <<Head(ss)>> \in Seq(Seq(S))
  BY <1>1
<1>3. FlattenSeq(ss) = FlattenSeq(<<Head(ss)>>) \o FlattenSeq(Tail(ss))
  <2> DEFINE h == <<Head(ss)>>
             t == Tail(ss)
  <2>1. h \in Seq(Seq(S)) /\ t \in Seq(Seq(S)) /\ ss = h \o t
    BY <1>1, <1>2
  <2> HIDE DEF h, t
  <2>2. FlattenSeq(ss) = FlattenSeq(h) \o FlattenSeq(t)
    BY <2>1, FlattenConcat
  <2> QED
    BY <2>2 DEF h, t
<1> QED
  BY <1>1, <1>3, FlattenSingleton
\* A sequence whose last part is not empty is not empty.
LEMMA FlattenNotEmpty ==
    ASSUME NEW S, NEW ss \in Seq(Seq(S)), ss # << >>, ss[Len(ss)] # << >>
    PROVE  Len(FlattenSeq(ss)) > 0
<1>1. PICK front \in Seq(Seq(S)) : ss[Len(ss)] \in Seq(S) /\ ss = Append(front, ss[Len(ss)])
  BY FrontAndLast
<1>2. PICK s \in Seq(S) : s = ss[Len(ss)]
  BY <1>1
<1>3. FlattenSeq(ss) = FlattenSeq(front) \o s
  BY <1>1, <1>2, FlattenAppend
<1>4. FlattenSeq(front) \in Seq(S) /\ Len(s) > 0
  BY <1>2, FlattenType, EmptySeq
<1> QED
  BY <1>3, <1>4, ConcatProperties, LenProperties

----------------------------------------------------------------------------
(* Each element replaced by a sequence, and these put together.            *)

LEMMA FunctionIsSeq ==
    ASSUME NEW Q, NEW n \in Nat, NEW m \in [1..n -> Q]
    PROVE  m \in Seq(Q) /\ Len(m) = n
<1>1. m \in Seq(Q)
  BY SeqDef
<1>2. DOMAIN m = 1..n
  OBVIOUS
<1> QED
  BY <1>1, <1>2, LenProperties

EachMapped(f, s) == [i \in DOMAIN s |-> f[s[i]]]
FlatMap(f, s) == FlattenSeq(EachMapped(f, s))

\* f gives a sequence over R for each element of S.
SeqValued(f, S, R) == f \in [S -> Seq(R)]

LEMMA MapTyped ==
    ASSUME NEW S, NEW R, NEW f, SeqValued(f, S, R), NEW s \in Seq(S)
    PROVE  /\ EachMapped(f, s) \in Seq(Seq(R))
           /\ Len(EachMapped(f, s)) = Len(s)
<1> DEFINE m == [i \in DOMAIN s |-> f[s[i]]]
           Q == Seq(R)
<1>1. DOMAIN s = 1..Len(s) /\ Len(s) \in Nat /\ \A i \in 1..Len(s) : s[i] \in S
  BY LenProperties, ElementOfSeq
<1>2. m \in [1..Len(s) -> Q] /\ DOMAIN m = 1..Len(s)
  BY <1>1 DEF SeqValued
<1> HIDE DEF m, Q
<1>3. m \in Seq(Q) /\ Len(m) = Len(s)
  <2> DEFINE k == Len(s)
  <2>1. k \in Nat /\ m \in [1..k -> Q]
    BY <1>1, <1>2
  <2> HIDE DEF k
  <2>2. m \in Seq(Q) /\ Len(m) = k
    BY <2>1, FunctionIsSeq
  <2> QED
    BY <2>2 DEF k
<1> QED
  BY <1>3 DEF m, Q, EachMapped

LEMMA FlatMapType ==
    ASSUME NEW S, NEW R, NEW f, SeqValued(f, S, R), NEW s \in Seq(S)
    PROVE  FlatMap(f, s) \in Seq(R)
  BY MapTyped, FlattenType DEF FlatMap

LEMMA FlatMapEmpty ==
    ASSUME NEW f
    PROVE  FlatMap(f, << >>) = << >>
<1>1. EachMapped(f, << >>) = << >>
  BY DEF EachMapped
<1> QED
  BY <1>1, FlattenEmpty DEF FlatMap

LEMMA FlatMapSingleton ==
    ASSUME NEW S, NEW R, NEW f, SeqValued(f, S, R), NEW e \in S
    PROVE  FlatMap(f, <<e>>) = f[e]
<1>1. EachMapped(f, <<e>>) = <<f[e]>>
  BY DEF EachMapped
<1>2. f[e] \in Seq(R)
  BY DEF SeqValued
<1> QED
  BY <1>1, <1>2, FlattenSingleton DEF FlatMap

LEMMA FlatMapConcat ==
    ASSUME NEW S, NEW R, NEW f, SeqValued(f, S, R), NEW s \in Seq(S), NEW t \in Seq(S)
    PROVE  FlatMap(f, s \o t) = FlatMap(f, s) \o FlatMap(f, t)
<1> DEFINE u == s \o t
           m == EachMapped(f, s)
           n == EachMapped(f, t)
           Q == Seq(R)
<1>1. /\ Len(s) \in Nat /\ Len(t) \in Nat
      /\ DOMAIN s = 1..Len(s) /\ DOMAIN t = 1..Len(t)
  BY LenProperties
<1>2. /\ u \in Seq(S) /\ Len(u) = Len(s) + Len(t) /\ DOMAIN u = 1..(Len(s) + Len(t))
      /\ \A i \in 1..(Len(s) + Len(t)) : u[i] = IF i <= Len(s) THEN s[i] ELSE t[i - Len(s)]
  BY ConcatProperties, LenProperties
<1> HIDE DEF u
<1>3. /\ m \in Seq(Q) /\ Len(m) = Len(s)
      /\ n \in Seq(Q) /\ Len(n) = Len(t)
      /\ EachMapped(f, u) \in Seq(Q) /\ Len(EachMapped(f, u)) = Len(s) + Len(t)
  <2> HIDE DEF m, n, Q
  <2>1. ASSUME NEW r \in Seq(S)
        PROVE  EachMapped(f, r) \in Seq(Seq(R)) /\ Len(EachMapped(f, r)) = Len(r)
    BY MapTyped
  <2> QED
    BY <1>2, <2>1 DEF m, n, Q
<1>4. \A i \in 1..(Len(s) + Len(t)) :
         EachMapped(f, u)[i] = IF i <= Len(s) THEN m[i] ELSE n[i - Len(s)]
  <2>1. \A i \in 1..(Len(s) + Len(t)) : i <= Len(s) \/ i - Len(s) \in 1..Len(t)
    BY <1>1
  <2> QED
    BY <1>1, <1>2, <2>1 DEF EachMapped
<1> HIDE DEF m, n, Q
<1>5. /\ m \o n \in Seq(Q) /\ Len(m \o n) = Len(s) + Len(t)
      /\ \A i \in 1..(Len(s) + Len(t)) : (m \o n)[i] = IF i <= Len(s) THEN m[i] ELSE n[i - Len(s)]
  <2>1. /\ m \o n \in Seq(Q) /\ Len(m \o n) = Len(m) + Len(n)
        /\ \A i \in 1..(Len(m) + Len(n)) : (m \o n)[i] = IF i <= Len(m) THEN m[i] ELSE n[i - Len(m)]
    <3>1. m \in Seq(Q) /\ n \in Seq(Q)
      BY <1>3
    <3> QED
      BY <3>1, ConcatProperties
  <2> QED
    BY <1>3, <2>1
<1>6. EachMapped(f, u) = m \o n
  BY <1>3, <1>4, <1>5, SeqEqual
<1>7. FlattenSeq(EachMapped(f, u)) = FlattenSeq(m) \o FlattenSeq(n)
  BY <1>3, <1>6, FlattenConcat DEF Q
<1> QED
  BY <1>7 DEF FlatMap, u, m, n

============================================================================
