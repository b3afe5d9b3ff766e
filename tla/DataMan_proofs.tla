-------------------------- MODULE DataMan_proofs --------------------------
(***************************************************************************)
(* Lemmas about the operators of DataMan, for every alphabet and every     *)
(* width of unsigned: LineManager_proofs and PlainEditor_proofs rest on    *)
(* them.                                                                   *)
(***************************************************************************)
EXTENDS DataMan, FlattenSeq_proofs, FiniteSetTheorems

----------------------------------------------------------------------------
(* Arithmetic and strings. *)

LEMMA UIntArithmetic ==
    ASSUME NEW u \in UInt, NEW v \in UInt
    PROVE  /\ Inc(u) \in UInt /\ Dec(u) \in UInt
           /\ USub(u, v) \in UInt
           /\ USub(Inc(u), v) <= USub(u, v) + 1
           /\ USub(Inc(u), Inc(v)) = USub(u, v)
           /\ USub(Dec(u), Dec(v)) = USub(u, v)
           /\ u # v => USub(Dec(u), v) = USub(u, v) - 1
           /\ v <= u => USub(u, v) = u - v
           /\ USub(u, u) = 0
  BY DataManAssumption DEF UInt, Inc, Dec, USub

LEMMA Utf8Bound ==
    ASSUME NEW s \in Seq(Byte)
    PROVE  Utf8StringSize(s) \in Nat /\ Utf8StringSize(s) <= Len(s)
<1> DEFINE U == {i \in DOMAIN s : i = 1 \/ s[i] \notin Continuation}
<1>1. DOMAIN s = 1..Len(s) /\ Len(s) \in Nat
  BY LenProperties
<1>2. IsFiniteSet(1..Len(s)) /\ Cardinality(1..Len(s)) = Len(s)
  BY <1>1, FS_Interval
<1>3. U \subseteq 1..Len(s)
  BY <1>1
<1>4. IsFiniteSet(U) /\ Cardinality(U) <= Cardinality(1..Len(s))
  BY <1>2, <1>3, FS_Subset
<1>5. Cardinality(U) \in Nat
  BY <1>4, FS_CardinalityType
<1> QED
  BY <1>2, <1>4, <1>5 DEF Utf8StringSize

\* std::string::insert within the string: one byte longer, with c at its place.
LEMMA InsertProperties ==
    ASSUME NEW s \in Seq(Byte), NEW at \in 0..Len(s), NEW c \in Byte
    PROVE  /\ Insert(s, at, c) \in Seq(Byte)
           /\ Len(Insert(s, at, c)) = Len(s) + 1
           /\ Insert(s, at, c)[at + 1] = c
<1> DEFINE p == SubSeq(s, 1, at)
           q == SubSeq(s, at + 1, Len(s))
<1>1. Len(s) \in Nat /\ \A i \in 1..Len(s) : s[i] \in Byte
  BY LenProperties, ElementOfSeq
<1>2. p \in Seq(Byte) /\ Len(p) = at
  BY <1>1, SubSeqProperties
<1>3. q \in Seq(Byte) /\ Len(q) = Len(s) - at
  BY <1>1, SubSeqProperties
<1>4. <<c>> \in Seq(Byte) /\ Len(<<c>>) = 1 /\ <<c>>[1] = c
  OBVIOUS
<1>5. /\ p \o <<c>> \in Seq(Byte) /\ Len(p \o <<c>>) = at + 1
      /\ (p \o <<c>>)[at + 1] = c
  <2>1. \A i \in 1..(Len(p) + 1) : (p \o <<c>>)[i] = IF i <= Len(p) THEN p[i] ELSE <<c>>[i - Len(p)]
    BY <1>2, <1>4, ConcatProperties
  <2> QED
    BY <1>2, <1>4, <2>1, ConcatProperties
<1>6. (at + 1) - 1 = at
  BY <1>1
<1>7. Insert(s, at, c) = (p \o <<c>>) \o q
  BY <1>6 DEF Insert, InsertAt
<1> HIDE DEF p, q
<1>8. /\ (p \o <<c>>) \o q \in Seq(Byte)
      /\ Len((p \o <<c>>) \o q) = (at + 1) + (Len(s) - at)
      /\ ((p \o <<c>>) \o q)[at + 1] = (p \o <<c>>)[at + 1]
  <2> DEFINE r == p \o <<c>>
  <2>1. r \in Seq(Byte) /\ Len(r) = at + 1
    BY <1>5
  <2> HIDE DEF r
  <2>2. /\ r \o q \in Seq(Byte)
        /\ Len(r \o q) = Len(r) + Len(q)
        /\ \A i \in 1..(Len(r) + Len(q)) :
               (r \o q)[i] = IF i <= Len(r) THEN r[i] ELSE q[i - Len(r)]
    BY <1>3, <2>1, ConcatProperties
  <2>3. (r \o q)[at + 1] = r[at + 1]
    BY <1>1, <1>3, <2>1, <2>2
  <2>4. Len(r \o q) = (at + 1) + (Len(s) - at)
    BY <1>3, <2>1, <2>2
  <2> QED
    BY <2>2, <2>3, <2>4 DEF r
<1> QED
  BY <1>1, <1>5, <1>7, <1>8

\* std::string::erase strictly within the string: one byte shorter.
LEMMA EraseProperties ==
    ASSUME NEW s \in Seq(Byte), NEW at \in Nat
    PROVE  /\ Erase(s, at) \in Seq(Byte)
           /\ at < Len(s) => Len(Erase(s, at)) = Len(s) - 1
<1>1. Len(s) \in Nat /\ \A i \in 1..Len(s) : s[i] \in Byte
  BY LenProperties, ElementOfSeq
<1>2. CASE at < Len(s)
  <2>1. (at + 1) - 1 = at
    OBVIOUS
  <2> DEFINE p == SubSeq(s, 1, at)
             q == SubSeq(s, (at + 1) + 1, Len(s))
  <2>2. p \in Seq(Byte) /\ Len(p) = at
    BY <1>1, <1>2, SubSeqProperties
  <2>3. q \in Seq(Byte) /\ Len(q) = Len(s) - at - 1
    BY <1>1, <1>2, SubSeqProperties
  <2>4. Erase(s, at) = p \o q
    BY <1>2, <2>1 DEF Erase, RemoveAt
  <2> HIDE DEF p, q
  <2>5. p \o q \in Seq(Byte) /\ Len(p \o q) = Len(p) + Len(q)
    BY <2>2, <2>3, ConcatProperties
  <2> QED
    BY <1>1, <2>2, <2>3, <2>4, <2>5
<1>3. CASE ~(at < Len(s))
  BY <1>3 DEF Erase
<1> QED
  BY <1>2, <1>3

\* The two parts of a concatenation.
LEMMA ConcatParts ==
    ASSUME NEW S, NEW a \in Seq(S), NEW b \in Seq(S)
    PROVE  /\ SubSeq(a \o b, 1, Len(a)) = a
           /\ SubSeq(a \o b, Len(a) + 1, Len(a \o b)) = b
<1> DEFINE s == a \o b
<1>1. /\ Len(a) \in Nat /\ Len(b) \in Nat
      /\ \A i \in 1..Len(a) : a[i] \in S
      /\ \A i \in 1..Len(b) : b[i] \in S
  BY LenProperties, ElementOfSeq
<1>2. /\ s \in Seq(S) /\ Len(s) = Len(a) + Len(b)
      /\ \A i \in 1..(Len(a) + Len(b)) : s[i] = IF i <= Len(a) THEN a[i] ELSE b[i - Len(a)]
  BY ConcatProperties
<1>3. \A i \in 1..Len(s) : s[i] \in S
  BY <1>2, ElementOfSeq
<1> HIDE DEF s
<1> DEFINE l == SubSeq(s, 1, Len(a))
           r == SubSeq(s, Len(a) + 1, Len(s))
<1>4. /\ l \in Seq(S) /\ Len(l) = Len(a)
      /\ \A i \in 1..Len(a) : l[i] = s[i]
  <2>1. \A i \in 1..Len(a) : s[i] \in S /\ 1 + i - 1 = i
    BY <1>1, <1>2, <1>3
  <2>2. /\ l \in Seq(S) /\ Len(l) = IF 1 <= Len(a) THEN Len(a) - 1 + 1 ELSE 0
        /\ \A i \in 1..(Len(a) - 1 + 1) : l[i] = s[1 + i - 1]
    BY <1>1, <2>1, SubSeqProperties
  <2> HIDE DEF l
  <2> QED
    BY <1>1, <2>1, <2>2
<1>5. /\ r \in Seq(S) /\ Len(r) = Len(b)
      /\ \A i \in 1..Len(b) : r[i] = s[Len(a) + i]
  <2> DEFINE k == Len(a) + 1
             n == Len(s)
  <2>1. k \in Int /\ n \in Int /\ \A i \in k..n : s[i] \in S
    BY <1>1, <1>2, <1>3
  <2>2. n - k + 1 = Len(b) /\ \A i \in 1..Len(b) : k + i - 1 = Len(a) + i
    BY <1>1, <1>2
  <2>3. k <= n <=> Len(b) > 0
    BY <1>1, <1>2
  <2> HIDE DEF k, n
  <2>4. /\ SubSeq(s, k, n) \in Seq(S)
        /\ Len(SubSeq(s, k, n)) = IF k <= n THEN n - k + 1 ELSE 0
        /\ \A i \in 1..(n - k + 1) : SubSeq(s, k, n)[i] = s[k + i - 1]
    BY <2>1, SubSeqProperties
  <2>5. r = SubSeq(s, k, n)
    BY DEF k, n
  <2> HIDE DEF r
  <2> QED
    BY <1>1, <2>2, <2>3, <2>4, <2>5
<1> HIDE DEF l, r
<1>6. l = a
  <2>1. \A i \in 1..Len(a) : l[i] = a[i]
    BY <1>1, <1>2, <1>4
  <2> QED
    BY <1>4, <2>1, SeqEqual
<1>7. r = b
  <2>1. \A i \in 1..Len(b) : r[i] = b[i]
    <3>1. \A i \in 1..Len(b) : /\ Len(a) + i \in 1..(Len(a) + Len(b)) /\ ~(Len(a) + i <= Len(a))
                               /\ (Len(a) + i) - Len(a) = i
      BY <1>1
    <3> QED
      BY <1>2, <1>5, <3>1
  <2> QED
    BY <1>5, <2>1, SeqEqual
<1> QED
  BY <1>6, <1>7 DEF l, r, s

\* insert and erase between two parts of a string.
LEMMA InsertBetween ==
    ASSUME NEW a \in Seq(Byte), NEW b \in Seq(Byte), NEW c \in Byte
    PROVE  Insert(a \o b, Len(a), c) = a \o <<c>> \o b
<1>1. Len(a) \in Nat /\ (Len(a) + 1) - 1 = Len(a)
  BY LenProperties
<1> DEFINE s == a \o b
<1>2. SubSeq(s, 1, Len(a)) = a /\ SubSeq(s, Len(a) + 1, Len(s)) = b
  BY ConcatParts
<1> HIDE DEF s
<1>3. Insert(s, Len(a), c) = a \o <<c>> \o b
  BY <1>1, <1>2 DEF Insert, InsertAt
<1> QED
  BY <1>3 DEF s

LEMMA EraseBetween ==
    ASSUME NEW a \in Seq(Byte), NEW b \in Seq(Byte), NEW c \in Byte
    PROVE  Erase(a \o <<c>> \o b, Len(a)) = a \o b
<1> DEFINE m == a \o <<c>>
           s == m \o b
<1>1. Len(a) \in Nat /\ Len(b) \in Nat /\ <<c>> \in Seq(Byte) /\ Len(<<c>>) = 1
  BY LenProperties
<1>2. m \in Seq(Byte) /\ Len(m) = Len(a) + 1
  BY <1>1, ConcatProperties
<1>3. SubSeq(s, Len(m) + 1, Len(s)) = b
  BY <1>2, ConcatParts
<1>4. SubSeq(s, 1, Len(a)) = a
  <2> DEFINE r == <<c>> \o b
  <2>1. r \in Seq(Byte) /\ s = a \o r
    BY <1>1, ConcatProperties, ConcatAssociative
  <2> HIDE DEF r, s
  <2> QED
    BY <2>1, ConcatParts
<1>5. Len(s) = Len(a) + 1 + Len(b)
  BY <1>1, <1>2, ConcatProperties
<1> HIDE DEF s, m
<1>6. Erase(s, Len(a)) = a \o b
  <2>1. Len(a) < Len(s) /\ (Len(a) + 1) - 1 = Len(a) /\ (Len(a) + 1) + 1 = Len(m) + 1
    BY <1>1, <1>2, <1>5
  <2>2. Erase(s, Len(a)) = SubSeq(s, 1, (Len(a) + 1) - 1) \o SubSeq(s, (Len(a) + 1) + 1, Len(s))
    BY <2>1 DEF Erase, RemoveAt
  <2> QED
    BY <1>3, <1>4, <2>1, <2>2
<1> QED
  BY <1>6 DEF s, m

----------------------------------------------------------------------------
(* Fields. *)

Width(f) == USub(f.end, f.start)

\* A shift moves a field and changes nothing else of it.
LEMMA ShiftProperties ==
    ASSUME NEW f \in Field
    PROVE  /\ ShiftRight(f) \in Field /\ ShiftLeft(f) \in Field
           /\ ShiftRight(f).position = f.position /\ ShiftLeft(f).position = f.position
           /\ ShiftRight(f).type = f.type /\ ShiftLeft(f).type = f.type
           /\ ShiftRight(f).info = f.info /\ ShiftLeft(f).info = f.info
           /\ ShiftRight(f).start = Inc(f.start) /\ ShiftRight(f).end = Inc(f.end)
           /\ ShiftLeft(f).start = Dec(f.start) /\ ShiftLeft(f).end = Dec(f.end)
           /\ Width(ShiftRight(f)) = Width(f) /\ Width(ShiftLeft(f)) = Width(f)
<1>1. f.start \in UInt /\ f.end \in UInt
  BY DEF Field
<1>2. /\ Inc(f.start) \in UInt /\ Inc(f.end) \in UInt
      /\ Dec(f.start) \in UInt /\ Dec(f.end) \in UInt
      /\ USub(Inc(f.end), Inc(f.start)) = USub(f.end, f.start)
      /\ USub(Dec(f.end), Dec(f.start)) = USub(f.end, f.start)
  BY <1>1, UIntArithmetic
<1> QED
  BY <1>1, <1>2 DEF Field, ShiftRight, ShiftLeft, Width

----------------------------------------------------------------------------
(* Structures whose fields have their types, whatever else holds of them:  *)
(* what each method does to the types and to the titles.                   *)

LinesTyped(ls) == \A l \in DOMAIN ls : l \in Nat /\ ls[l] \in Seq(Field)

\* The titles of a line are still there, with the same text.
TitlesKept(old, new) ==
    \A i \in DOMAIN old :
        old[i].type = "Title" => new[i].type = "Title" /\ new[i].info = old[i].info

AllTitlesKept(old, new) == \A l \in DOMAIN old : TitlesKept(old[l], new[l])

LEMMA SearchInDomain ==
    ASSUME NEW fs \in Seq(Field), NEW col
    PROVE  SearchAtCol(fs, col) # 0 => SearchAtCol(fs, col) \in DOMAIN fs
<1>1. DOMAIN fs = 1..Len(fs) /\ Len(fs) \in Nat
  BY LenProperties
<1>2. InRange(fs, col) \subseteq DOMAIN fs /\ InRange(fs, col) \subseteq Nat
  BY <1>1 DEF InRange
<1>3. CASE InRange(fs, col) # {}
  BY <1>2, <1>3, MinExists DEF SearchAtCol
<1> QED
  BY <1>3 DEF SearchAtCol

\* A field changed and the loop that shifts others, from any index on.
LEMMA ShiftedLine ==
    ASSUME NEW fs \in Seq(Field), NEW i \in DOMAIN fs, NEW g \in Field, NEW n,
           fs[i].type # "Title"
    PROVE  /\ ShiftRightFrom([fs EXCEPT ![i] = g], n) \in Seq(Field)
           /\ ShiftLeftFrom([fs EXCEPT ![i] = g], n) \in Seq(Field)
           /\ TitlesKept(fs, ShiftRightFrom([fs EXCEPT ![i] = g], n))
           /\ TitlesKept(fs, ShiftLeftFrom([fs EXCEPT ![i] = g], n))
<1> DEFINE hs == [fs EXCEPT ![i] = g]
           R == ShiftRightFrom(hs, n)
           L == ShiftLeftFrom(hs, n)
<1>1. /\ DOMAIN fs = 1..Len(fs) /\ Len(fs) \in Nat
      /\ \A j \in 1..Len(fs) : fs[j] \in Field
  BY LenProperties, ElementOfSeq
<1>2. /\ DOMAIN hs = 1..Len(fs)
      /\ \A j \in 1..Len(fs) : hs[j] \in Field /\ (j # i => hs[j] = fs[j])
  BY <1>1
<1> HIDE DEF hs
<1>3. /\ R = [j \in 1..Len(fs) |-> IF j > n THEN ShiftRight(hs[j]) ELSE hs[j]]
      /\ L = [j \in 1..Len(fs) |-> IF j > n THEN ShiftLeft(hs[j]) ELSE hs[j]]
  BY <1>2 DEF ShiftRightFrom, ShiftLeftFrom
<1>4. \A j \in 1..Len(fs) :
          /\ R[j] \in Field /\ R[j].type = hs[j].type /\ R[j].info = hs[j].info
          /\ L[j] \in Field /\ L[j].type = hs[j].type /\ L[j].info = hs[j].info
  BY <1>2, <1>3, ShiftProperties
<1>5. R \in [1..Len(fs) -> Field] /\ L \in [1..Len(fs) -> Field]
  BY <1>3, <1>4
<1> HIDE DEF R, L
<1>6. R \in Seq(Field) /\ L \in Seq(Field)
  BY <1>1, <1>5, SeqDef
<1>7. TitlesKept(fs, R) /\ TitlesKept(fs, L)
  BY <1>1, <1>2, <1>4 DEF TitlesKept
<1> QED
  BY <1>6, <1>7 DEF R, L, hs

LEMMA AppendedLine ==
    ASSUME NEW fs \in Seq(Field), NEW g \in Field
    PROVE  Append(fs, g) \in Seq(Field) /\ TitlesKept(fs, Append(fs, g))
<1>1. DOMAIN fs = 1..Len(fs)
  BY LenProperties
<1> QED
  BY <1>1, AppendProperties DEF TitlesKept

LEMMA FieldsAtTyped ==
    ASSUME NEW ls, LinesTyped(ls), NEW l
    PROVE  FieldsAt(ls, l) \in Seq(Field)
  BY EmptySeq DEF LinesTyped, FieldsAt

LEMMA PutTyped ==
    ASSUME NEW ls, LinesTyped(ls), NEW l \in Nat, NEW fs \in Seq(Field),
           TitlesKept(FieldsAt(ls, l), fs)
    PROVE  LinesTyped(Put(ls, l, fs)) /\ AllTitlesKept(ls, Put(ls, l, fs))
  BY DEF LinesTyped, Put, FieldsAt, TitlesKept, AllTitlesKept

\* eventFilter after isEditable: a key never reaches a title.
LEMMA TypeAtTyped ==
    ASSUME NEW ls, LinesTyped(ls), NEW col \in UInt, NEW l \in Nat, NEW c \in Byte,
           IsEditable(ls, col, l)
    PROVE  LinesTyped(TypeAt(ls, col, l, c)) /\ AllTitlesKept(ls, TypeAt(ls, col, l, c))
<1> DEFINE fs == FieldsAt(ls, l)
           i == SearchAtCol(fs, col)
<1>1. fs \in Seq(Field)
  BY FieldsAtTyped
<1>2. i # 0 => i \in DOMAIN fs /\ fs[i].type # "Title"
  <2>1. i # 0 => fs[i].type # "Title"
    BY DEF IsEditable
  <2> HIDE DEF fs
  <2> QED
    BY <1>1, <2>1, SearchInDomain
<1>3. CASE i = 0
  <2>1. Len(fs) \in Nat
    BY <1>1, LenProperties
  <2>2. <<c>> \in Seq(Byte) /\ Inc(col) \in UInt
    BY UIntArithmetic
  <2>3. NewTextField(Len(fs), col, c) \in Field
    BY <2>1, <2>2 DEF NewTextField, Field, FieldTypes
  <2>4. TypeAt(ls, col, l, c) = Put(ls, l, Append(fs, NewTextField(Len(fs), col, c)))
    BY <1>3 DEF TypeAt
  <2> HIDE DEF fs
  <2>5. /\ Append(fs, NewTextField(Len(fs), col, c)) \in Seq(Field)
        /\ TitlesKept(fs, Append(fs, NewTextField(Len(fs), col, c)))
    BY <1>1, <2>3, AppendedLine
  <2> QED
    BY <2>4, <2>5, PutTyped DEF fs
<1>4. CASE i # 0 /\ Throws(fs[i].info, USub(col, fs[i].start))
  BY <1>4 DEF TypeAt, AllTitlesKept, TitlesKept
<1>5. CASE i # 0 /\ ~Throws(fs[i].info, USub(col, fs[i].start))
  <2> DEFINE f == fs[i]
             g == AppendChar(f, c, col)
             new == ShiftRightFrom([fs EXCEPT ![i] = g], f.position + 1)
  <2>1. TypeAt(ls, col, l, c) = Put(ls, l, new)
    BY <1>5 DEF TypeAt
  <2>2. f \in Field
    BY <1>1, <1>2, <1>5, ElementOfSeq, LenProperties
  <2>3. f.start \in UInt /\ f.end \in UInt /\ f.info \in Seq(Byte)
    BY <2>2 DEF Field
  <2>4. USub(col, f.start) \in 0..Len(f.info) /\ Inc(f.end) \in UInt
    <3>1. USub(col, f.start) \in UInt /\ Inc(f.end) \in UInt /\ Len(f.info) \in Nat
      BY <2>3, UIntArithmetic, LenProperties
    <3>2. USub(col, f.start) \in Nat /\ ~(USub(col, f.start) > Len(f.info))
      BY <1>5, <3>1, DataManAssumption DEF UInt, Throws
    <3> HIDE DEF f
    <3> QED
      BY <3>1, <3>2
  <2>5. Insert(f.info, USub(col, f.start), c) \in Seq(Byte)
    BY <2>3, <2>4, InsertProperties
  <2> HIDE DEF f
  <2>6. g \in Field
    BY <2>2, <2>4, <2>5 DEF AppendChar, Field
  <2> HIDE DEF g, fs, i
  <2>7. new \in Seq(Field) /\ TitlesKept(fs, new)
    BY <1>1, <1>2, <1>5, <2>6, ShiftedLine
  <2> HIDE DEF new
  <2> QED
    BY <2>1, <2>7, PutTyped DEF fs
<1> QED
  BY <1>3, <1>4, <1>5

\* removeCharacter after isEditable: a backspace never reaches a title.
LEMMA RemoveCharTyped ==
    ASSUME NEW ls, LinesTyped(ls), NEW col \in UInt, NEW l \in Nat,
           IsEditable(ls, col, l)
    PROVE  LinesTyped(RemoveChar(ls, col, l)) /\ AllTitlesKept(ls, RemoveChar(ls, col, l))
<1> DEFINE fs == FieldsAt(ls, l)
           i == SearchAtCol(fs, col)
<1>1. fs \in Seq(Field)
  BY FieldsAtTyped
<1>2. i # 0 => i \in DOMAIN fs /\ fs[i].type # "Title"
  <2>1. i # 0 => fs[i].type # "Title"
    BY DEF IsEditable
  <2> HIDE DEF fs
  <2> QED
    BY <1>1, <2>1, SearchInDomain
<1>3. CASE i = 0 \/ Throws(fs[i].info, USub(Dec(col), fs[i].start))
  BY <1>3 DEF RemoveChar, AllTitlesKept, TitlesKept
<1>4. CASE i # 0 /\ ~Throws(fs[i].info, USub(Dec(col), fs[i].start))
  <2> DEFINE f == fs[i]
             g == RemoveCharAt(f, Dec(col))
             new == ShiftLeftFrom([fs EXCEPT ![i] = g], f.position + 1)
  <2>1. RemoveChar(ls, col, l) = Put(ls, l, new)
    BY <1>4 DEF RemoveChar
  <2>2. f \in Field
    BY <1>1, <1>2, <1>4, ElementOfSeq, LenProperties
  <2>3. f.start \in UInt /\ f.end \in UInt /\ f.info \in Seq(Byte)
    BY <2>2 DEF Field
  <2>4. USub(Dec(col), f.start) \in Nat /\ Dec(f.end) \in UInt
    <3>1. USub(Dec(col), f.start) \in UInt /\ Dec(f.end) \in UInt
      BY <2>3, UIntArithmetic
    <3> QED
      BY <3>1, DataManAssumption DEF UInt
  <2>5. Erase(f.info, USub(Dec(col), f.start)) \in Seq(Byte)
    BY <2>3, <2>4, EraseProperties
  <2> HIDE DEF f
  <2>6. g \in Field
    BY <2>2, <2>4, <2>5 DEF RemoveCharAt, Field
  <2> HIDE DEF g, fs, i
  <2>7. new \in Seq(Field) /\ TitlesKept(fs, new)
    BY <1>1, <1>2, <1>4, <2>6, ShiftedLine
  <2> HIDE DEF new
  <2> QED
    BY <2>1, <2>7, PutTyped DEF fs
<1> QED
  BY <1>3, <1>4

\* addTitle and addName: a new field beside the others, or nothing new.
LEMMA AddFieldTyped ==
    ASSUME NEW ls, LinesTyped(ls), NEW type \in {"Title", "Name"}, NEW str \in Seq(Byte),
           Len(str) < UIntMod, NEW col \in UInt, NEW l \in Nat
    PROVE  /\ LinesTyped(AddField(ls, type, str, col, l))
           /\ AllTitlesKept(ls, AddField(ls, type, str, col, l))
<1> DEFINE fs == FieldsAt(ls, l)
           g == NewField(Len(fs), type, col, str)
<1>1. fs \in Seq(Field) /\ Len(fs) \in Nat
  BY FieldsAtTyped, LenProperties
<1>2. Utf8StringSize(str) \in Nat /\ Utf8StringSize(str) < UIntMod
  BY Utf8Bound, LenProperties, DataManAssumption
<1>3. UAdd(col, Utf8StringSize(str)) \in UInt
  BY <1>2, DataManAssumption DEF UAdd, UInt
<1>4. g \in Field
  BY <1>1, <1>3 DEF NewField, Field, FieldTypes
<1>5. AddField(ls, type, str, col, l) = Put(ls, l, IF SearchAtCol(fs, col) = 0 THEN Append(fs, g) ELSE fs)
  BY DEF AddField
<1> HIDE DEF fs, g
<1>6. Append(fs, g) \in Seq(Field) /\ TitlesKept(fs, Append(fs, g)) /\ TitlesKept(fs, fs)
  BY <1>1, <1>4, AppendedLine DEF TitlesKept
<1> QED
  BY <1>1, <1>5, <1>6, PutTyped DEF fs

=============================================================================
