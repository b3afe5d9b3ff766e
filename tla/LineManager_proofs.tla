------------------------ MODULE LineManager_proofs ------------------------
(***************************************************************************)
(* Theorems about LineManager, for every alphabet, every width of unsigned *)
(* and every bound: types and ranges, no key is lost; the order of the     *)
(* fields, a backspace undoes a key; the structure implements              *)
(* StructuredText.                                                         *)
(***************************************************************************)
EXTENDS LineManager, DataMan_proofs

----------------------------------------------------------------------------
(* Fields and lines. *)

\* A line whose fields FieldsOK accepts.
LineOK(fs) ==
    /\ fs \in Seq(Field)
    /\ \A i \in DOMAIN fs : FieldOK(fs, i)

\* A field that FieldsOK accepts at index i.
FitsAt(f, i) ==
    /\ f \in Field
    /\ f.position = i - 1
    /\ Width(f) <= Len(f.info)

LEMMA LineOKElements ==
    ASSUME NEW fs, LineOK(fs)
    PROVE  /\ Len(fs) \in Nat
           /\ DOMAIN fs = 1..Len(fs)
           /\ \A i \in 1..Len(fs) : FitsAt(fs[i], i)
  BY LenProperties, ElementOfSeq DEF LineOK, FieldOK, FitsAt, Width

LEMMA LineFromElements ==
    ASSUME NEW n \in Nat, NEW fs, fs = [j \in 1..n |-> fs[j]],
           \A i \in 1..n : FitsAt(fs[i], i)
    PROVE  LineOK(fs) /\ Len(fs) = n /\ DOMAIN fs = 1..n
<1>1. fs \in [1..n -> Field]
  BY DEF FitsAt
<1>2. fs \in Seq(Field)
  BY <1>1, SeqDef
<1>3. DOMAIN fs = 1..n
  BY <1>1
<1> QED
  BY <1>2, <1>3, LenProperties DEF LineOK, FieldOK, FitsAt, Width

LEMMA ShiftFits ==
    ASSUME NEW f, NEW i, FitsAt(f, i)
    PROVE  FitsAt(ShiftRight(f), i) /\ FitsAt(ShiftLeft(f), i)
  BY ShiftProperties DEF FitsAt

\* Field i changed and the shift loop after it, on a line that FieldsOK accepts:
\* the loop shifts exactly the fields that were created after field i.
ChangeAndShiftRight(fs, i, g) ==
    ShiftRightFrom([fs EXCEPT ![i] = g], fs[i].position + 1)
ChangeAndShiftLeft(fs, i, g) ==
    ShiftLeftFrom([fs EXCEPT ![i] = g], fs[i].position + 1)

LEMMA ChangeAndShift ==
    ASSUME NEW fs, LineOK(fs), NEW i \in DOMAIN fs, NEW g, FitsAt(g, i)
    PROVE  /\ LineOK(ChangeAndShiftRight(fs, i, g))
           /\ LineOK(ChangeAndShiftLeft(fs, i, g))
           /\ Len(ChangeAndShiftRight(fs, i, g)) = Len(fs)
           /\ Len(ChangeAndShiftLeft(fs, i, g)) = Len(fs)
           /\ \A j \in DOMAIN fs :
                /\ ChangeAndShiftRight(fs, i, g)[j] =
                       IF j = i THEN g ELSE IF j > i THEN ShiftRight(fs[j]) ELSE fs[j]
                /\ ChangeAndShiftLeft(fs, i, g)[j] =
                       IF j = i THEN g ELSE IF j > i THEN ShiftLeft(fs[j]) ELSE fs[j]
<1>1. /\ Len(fs) \in Nat /\ DOMAIN fs = 1..Len(fs)
      /\ \A j \in 1..Len(fs) : FitsAt(fs[j], j)
  BY LineOKElements
<1>2. fs[i].position + 1 = i /\ i \in Nat
  BY <1>1 DEF FitsAt
<1> DEFINE R == [j \in 1..Len(fs) |->
                    IF j = i THEN g ELSE IF j > i THEN ShiftRight(fs[j]) ELSE fs[j]]
           L == [j \in 1..Len(fs) |->
                    IF j = i THEN g ELSE IF j > i THEN ShiftLeft(fs[j]) ELSE fs[j]]
<1>4. R = ChangeAndShiftRight(fs, i, g)
  BY <1>1, <1>2 DEF ChangeAndShiftRight, ShiftRightFrom
<1>5. L = ChangeAndShiftLeft(fs, i, g)
  BY <1>1, <1>2 DEF ChangeAndShiftLeft, ShiftLeftFrom
<1>6. \A j \in 1..Len(fs) : FitsAt(R[j], j) /\ FitsAt(L[j], j)
  BY <1>1, ShiftFits
<1>7. R = [j \in 1..Len(fs) |-> R[j]] /\ L = [j \in 1..Len(fs) |-> L[j]]
  OBVIOUS
<1>8. LineOK(R) /\ Len(R) = Len(fs)
  <2> HIDE DEF R
  <2> QED BY <1>1, <1>6, <1>7, LineFromElements
<1>9. LineOK(L) /\ Len(L) = Len(fs)
  <2> HIDE DEF L
  <2> QED BY <1>1, <1>6, <1>7, LineFromElements
<1> QED
  BY <1>1, <1>4, <1>5, <1>8, <1>9

\* A field appended to a line.
LEMMA AppendOK ==
    ASSUME NEW fs, LineOK(fs), NEW g, FitsAt(g, Len(fs) + 1)
    PROVE  LineOK(Append(fs, g))
<1>1. /\ Len(fs) \in Nat /\ DOMAIN fs = 1..Len(fs)
      /\ \A j \in 1..Len(fs) : FitsAt(fs[j], j)
  BY LineOKElements
<1>2. fs \in Seq(Field) /\ g \in Field
  BY DEF LineOK, FitsAt
<1>3. /\ Append(fs, g) \in Seq(Field)
      /\ Len(Append(fs, g)) = Len(fs) + 1
      /\ \A j \in 1..Len(fs) : Append(fs, g)[j] = fs[j]
      /\ Append(fs, g)[Len(fs) + 1] = g
  BY <1>2, AppendProperties
<1>4. DOMAIN Append(fs, g) = 1..(Len(fs) + 1)
  BY <1>3, LenProperties
<1>5. \A j \in 1..(Len(fs) + 1) : FitsAt(Append(fs, g)[j], j)
  BY <1>1, <1>3
<1> QED
  BY <1>3, <1>4, <1>5 DEF LineOK, FieldOK, FitsAt, Width

\* Line::searchAtCol returns the first field whose range holds the column.
LEMMA SearchProperties ==
    ASSUME NEW fs, LineOK(fs), NEW col
    PROVE  LET i == SearchAtCol(fs, col)
           IN  /\ i = 0 => \A j \in DOMAIN fs : ~AtRange(fs[j], col)
               /\ i # 0 => /\ i \in DOMAIN fs
                           /\ AtRange(fs[i], col)
                           /\ \A j \in DOMAIN fs : j < i => ~AtRange(fs[j], col)
<1>1. DOMAIN fs = 1..Len(fs) /\ Len(fs) \in Nat
  BY LineOKElements
<1> DEFINE T == InRange(fs, col)
<1>2. T \subseteq 1..Len(fs) /\ T \subseteq Nat
  BY <1>1 DEF InRange
<1>3. CASE T = {}
  BY <1>3 DEF SearchAtCol, InRange
<1>4. CASE T # {}
  <2>1. \E i \in T : \A j \in T : i <= j
    BY <1>2, <1>4, MinExists
  <2>2. /\ SearchAtCol(fs, col) \in T
        /\ \A j \in T : SearchAtCol(fs, col) <= j
    BY <1>4, <2>1 DEF SearchAtCol
  <2> QED
    BY <1>1, <1>2, <2>2 DEF InRange
<1> QED
  BY <1>3, <1>4

----------------------------------------------------------------------------
(* Keys and new fields: each keeps FitsAt, and none of them can throw. *)

\* A column in a field's range is an offset inside its text.
LEMMA OffsetInText ==
    ASSUME NEW f, NEW i, FitsAt(f, i), NEW col \in UInt, AtRange(f, col)
    PROVE  /\ USub(col, f.start) \in 0..Len(f.info)
           /\ USub(col, f.start) <= Width(f)
           /\ f.start # col => /\ USub(Dec(col), f.start) = USub(col, f.start) - 1
                               /\ USub(Dec(col), f.start) \in 0..(Len(f.info) - 1)
                               /\ Width(f) > 0
           /\ f.start = col => USub(Dec(col), f.start) = UIntMod - 1
<1>1. f.start \in UInt /\ f.end \in UInt /\ f.info \in Seq(Byte)
  BY DEF FitsAt, Field
<1>2. Len(f.info) \in Nat /\ Width(f) <= Len(f.info)
  BY <1>1, LenProperties DEF FitsAt
<1> QED
  BY <1>1, <1>2, ConstantsOK, DataManAssumption, SMTT(30) DEF AtRange, Width, USub, Dec, UInt

LEMMA AppendCharProperties ==
    ASSUME NEW f, NEW i, FitsAt(f, i), NEW col \in UInt, AtRange(f, col),
           NEW c \in Byte
    PROVE  /\ ~Throws(f.info, USub(col, f.start))
           /\ FitsAt(AppendChar(f, c, col), i)
           /\ AppendChar(f, c, col).start = f.start
           /\ AppendChar(f, c, col).end = Inc(f.end)
           /\ AppendChar(f, c, col).type = f.type
           /\ AppendChar(f, c, col).info = Insert(f.info, USub(col, f.start), c)
           /\ Len(AppendChar(f, c, col).info) = Len(f.info) + 1
           /\ AppendChar(f, c, col).info[USub(col, f.start) + 1] = c
<1>1. /\ f \in Field /\ f.start \in UInt /\ f.end \in UInt /\ f.info \in Seq(Byte)
      /\ f.position = i - 1 /\ Width(f) <= Len(f.info)
  BY DEF FitsAt, Field
<1>2. USub(col, f.start) \in 0..Len(f.info) /\ Len(f.info) \in Nat
  BY <1>1, OffsetInText, LenProperties
<1> DEFINE ins == Insert(f.info, USub(col, f.start), c)
<1>3. /\ ins \in Seq(Byte) /\ Len(ins) = Len(f.info) + 1
      /\ ins[USub(col, f.start) + 1] = c
  BY <1>1, <1>2, InsertProperties
<1>4. Inc(f.end) \in UInt /\ USub(Inc(f.end), f.start) <= Width(f) + 1 /\ Width(f) \in UInt
  BY <1>1, UIntArithmetic DEF Width
<1> HIDE DEF ins
<1>5. AppendChar(f, c, col) = [f EXCEPT !.info = ins, !.end = Inc(f.end)]
  BY <1>1 DEF AppendChar, ins, Field
<1>6. AppendChar(f, c, col) \in Field
  BY <1>1, <1>3, <1>4, <1>5 DEF Field
<1>7. /\ AppendChar(f, c, col).position = f.position
      /\ AppendChar(f, c, col).start = f.start
      /\ AppendChar(f, c, col).end = Inc(f.end)
      /\ AppendChar(f, c, col).type = f.type
      /\ AppendChar(f, c, col).info = ins
  BY <1>1, <1>5 DEF Field
<1>8. Width(AppendChar(f, c, col)) <= Len(ins)
  <2>1. Width(AppendChar(f, c, col)) = USub(Inc(f.end), f.start)
    BY <1>7 DEF Width
  <2>2. USub(Inc(f.end), f.start) \in UInt
    BY <1>1, <1>4, UIntArithmetic
  <2>3. USub(Inc(f.end), f.start) \in Int /\ Width(f) \in Int
    BY <1>4, <2>2, ConstantsOK, DataManAssumption DEF UInt
  <2> QED
    BY <1>1, <1>2, <1>3, <1>4, <2>1, <2>3
<1> QED
  BY <1>1, <1>2, <1>3, <1>6, <1>7, <1>8 DEF FitsAt, Throws, ins

\* removeAt(col - 1), when it does not throw.  It throws at the first column of
\* the field, where col - 1 - m_start wraps, unless the text is 2^32 bytes long.
LEMMA RemoveCharAtProperties ==
    ASSUME NEW f, NEW i, FitsAt(f, i), NEW col \in UInt, AtRange(f, col),
           ~Throws(f.info, USub(Dec(col), f.start))
    PROVE  /\ FitsAt(RemoveCharAt(f, Dec(col)), i)
           /\ RemoveCharAt(f, Dec(col)).start = f.start
           /\ RemoveCharAt(f, Dec(col)).end = Dec(f.end)
           /\ RemoveCharAt(f, Dec(col)).type = f.type
           /\ RemoveCharAt(f, Dec(col)).info = Erase(f.info, USub(Dec(col), f.start))
<1>1. /\ f \in Field /\ f.start \in UInt /\ f.end \in UInt /\ f.info \in Seq(Byte)
      /\ f.position = i - 1 /\ Width(f) <= Len(f.info) /\ Len(f.info) \in Nat
      /\ UIntMod \in Nat \ {0} /\ UInt = 0..(UIntMod - 1)
  BY LenProperties, ConstantsOK, DataManAssumption DEF FitsAt, Field, UInt
<1> DEFINE at == USub(Dec(col), f.start)
           era == Erase(f.info, at)
<1>2. /\ at \in UInt /\ at <= Len(f.info)
      /\ Width(f) \in UInt /\ Dec(f.end) \in UInt /\ USub(Dec(f.end), f.start) \in UInt
      /\ Width(f) # 0 => USub(Dec(f.end), f.start) = Width(f) - 1
  <2>1. at \in UInt /\ Width(f) \in UInt /\ Dec(f.end) \in UInt
    BY <1>1, UIntArithmetic DEF Width
  <2>2. USub(Dec(f.end), f.start) \in UInt
    BY <1>1, <2>1, UIntArithmetic
  <2>3. Width(f) # 0 => USub(Dec(f.end), f.start) = Width(f) - 1
    <3>1. Width(f) # 0 => f.end # f.start
      <4>1. USub(f.end, f.end) = 0
        BY <1>1, UIntArithmetic
      <4> QED
        BY <4>1 DEF Width
    <3>2. f.end # f.start => USub(Dec(f.end), f.start) = USub(f.end, f.start) - 1
      BY <1>1, UIntArithmetic
    <3> QED
      BY <3>1, <3>2 DEF Width
  <2>4. at <= Len(f.info)
    BY <1>1, <2>1 DEF Throws
  <2> QED
    BY <2>1, <2>2, <2>3, <2>4
<1>3. /\ era \in Seq(Byte)
      /\ at < Len(f.info) => Len(era) = Len(f.info) - 1
      /\ at >= Len(f.info) => era = f.info
  <2>1. at \in Nat /\ f.info \in Seq(Byte) /\ Len(f.info) \in Nat
    BY <1>1, <1>2
  <2> HIDE DEF at
  <2>2. at >= Len(f.info) => era = f.info
    BY <2>1 DEF Erase
  <2> QED
    BY <2>1, <2>2, EraseProperties
<1>4. Width(f) = 0 => at = UIntMod - 1
  <2>1. Width(f) = 0 => f.start = col
    BY <1>1, OffsetInText
  <2> QED
    BY <2>1, OffsetInText
<1> HIDE DEF at, era
<1>5. USub(Dec(f.end), f.start) <= Len(era)
  BY <1>1, <1>2, <1>3, <1>4
<1>6. RemoveCharAt(f, Dec(col)) = [f EXCEPT !.info = era, !.end = Dec(f.end)]
  BY <1>1 DEF RemoveCharAt, era, at, Field
<1>7. RemoveCharAt(f, Dec(col)) \in Field
  BY <1>1, <1>2, <1>3, <1>6 DEF Field
<1>8. /\ RemoveCharAt(f, Dec(col)).position = f.position
      /\ RemoveCharAt(f, Dec(col)).start = f.start
      /\ RemoveCharAt(f, Dec(col)).end = Dec(f.end)
      /\ RemoveCharAt(f, Dec(col)).type = f.type
      /\ RemoveCharAt(f, Dec(col)).info = era
  BY <1>1, <1>6 DEF Field
<1> QED
  BY <1>1, <1>5, <1>7, <1>8 DEF FitsAt, era, at, Width

LEMMA NewFieldFits ==
    ASSUME NEW n \in Nat, NEW col \in UInt
    PROVE  /\ \A c \in Byte : FitsAt(NewTextField(n, col, c), n + 1)
           /\ \A str \in Strings, type \in {"Title", "Name"} :
                  FitsAt(NewField(n, type, col, str), n + 1)
<1>1. UIntMod \in Nat \ {0} /\ UInt = 0..(UIntMod - 1)
  BY ConstantsOK, DataManAssumption DEF UInt
<1>2. ASSUME NEW c \in Byte
      PROVE  FitsAt(NewTextField(n, col, c), n + 1)
  <2>1. <<c>> \in Seq(Byte) /\ Len(<<c>>) = 1
    OBVIOUS
  <2>2. Inc(col) \in UInt /\ USub(Inc(col), col) <= 1
    <3>1. USub(col, col) = 0 /\ USub(Inc(col), col) <= USub(col, col) + 1
      BY UIntArithmetic
    <3> QED
      BY <3>1, UIntArithmetic
  <2>3. NewTextField(n, col, c) \in Field
    BY <2>1, <2>2 DEF NewTextField, Field, FieldTypes
  <2> QED
    BY <2>1, <2>2, <2>3 DEF NewTextField, FitsAt, Width
<1>3. ASSUME NEW str \in Strings, NEW type \in {"Title", "Name"}
      PROVE  FitsAt(NewField(n, type, col, str), n + 1)
  <2>1. str \in Seq(Byte) /\ Len(str) < UIntMod /\ Len(str) \in Nat
    BY ConstantsOK, DataManAssumption, LenProperties
  <2>2. Utf8StringSize(str) \in Nat /\ Utf8StringSize(str) <= Len(str)
    BY <2>1, Utf8Bound
  <2>3. /\ UAdd(col, Utf8StringSize(str)) \in UInt
        /\ USub(UAdd(col, Utf8StringSize(str)), col) = Utf8StringSize(str)
    BY <1>1, <2>1, <2>2 DEF UAdd, USub
  <2>4. NewField(n, type, col, str) \in Field
    BY <2>1, <2>3 DEF NewField, Field, FieldTypes
  <2> QED
    BY <2>2, <2>3, <2>4 DEF NewField, FitsAt, Width
<1> QED
  BY <1>2, <1>3

----------------------------------------------------------------------------
(* Structures. *)

LinesOK(ls) ==
    /\ DOMAIN ls \subseteq LineNos
    /\ \A l \in DOMAIN ls : LineOK(ls[l])

\* The inductive invariant is the conjunction of TypeOK and FieldsOK: the type of
\* start and end depends on nothing else, but that erase and insert stay inside
\* the text, and that the loops shift the right fields, needs FieldsOK.
LEMMA LinesOKIsInvariant == LinesOK(lines) <=> TypeOK /\ FieldsOK
  BY DEF LinesOK, LineOK, TypeOK, FieldsOK

LEMMA FieldsAtOK ==
    ASSUME NEW ls, LinesOK(ls), NEW l
    PROVE  LineOK(FieldsAt(ls, l))
<1>1. << >> \in Seq(Field) /\ DOMAIN << >> = {}
  OBVIOUS
<1> QED
  BY <1>1 DEF LinesOK, LineOK, FieldsAt

LEMMA PutOK ==
    ASSUME NEW ls, LinesOK(ls), NEW l \in LineNos, NEW fs, LineOK(fs)
    PROVE  /\ LinesOK(Put(ls, l, fs))
           /\ FieldsAt(Put(ls, l, fs), l) = fs
           /\ DOMAIN Put(ls, l, fs) = DOMAIN ls \cup {l}
           /\ Put(ls, l, fs)[l] = fs
           /\ \A m \in DOMAIN ls : m # l => Put(ls, l, fs)[m] = ls[m]
  BY DEF LinesOK, Put, FieldsAt

\* The line after a key, and after a backspace.
TypedLine(fs, col, c) ==
    LET i == SearchAtCol(fs, col)
    IN  IF i = 0 THEN Append(fs, NewTextField(Len(fs), col, c))
        ELSE ChangeAndShiftRight(fs, i, AppendChar(fs[i], c, col))

ErasedLine(fs, col) ==
    LET i == SearchAtCol(fs, col)
    IN  ChangeAndShiftLeft(fs, i, RemoveCharAt(fs[i], Dec(col)))

LEMMA TypedLineOK ==
    ASSUME NEW fs, LineOK(fs), NEW col \in UInt, NEW c \in Byte
    PROVE  LineOK(TypedLine(fs, col, c))
<1> DEFINE i == SearchAtCol(fs, col)
<1>1. CASE i = 0
  BY <1>1, LineOKElements, NewFieldFits, AppendOK DEF TypedLine
<1>2. CASE i # 0
  <2>1. i \in DOMAIN fs /\ AtRange(fs[i], col)
    BY <1>2, SearchProperties
  <2>2. FitsAt(fs[i], i)
    BY <2>1, LineOKElements
  <2>3. FitsAt(AppendChar(fs[i], c, col), i)
    BY <2>1, <2>2, AppendCharProperties
  <2> QED
    BY <1>2, <2>1, <2>3, ChangeAndShift DEF TypedLine
<1> QED
  BY <1>1, <1>2

\* The exception in eventFilter's search branch is unreachable.
LEMMA TypeAtStores ==
    ASSUME NEW ls, LinesOK(ls), NEW col \in UInt, NEW l, NEW c \in Byte
    PROVE  TypeAt(ls, col, l, c) = Put(ls, l, TypedLine(FieldsAt(ls, l), col, c))
<1> DEFINE fs == FieldsAt(ls, l)
           i == SearchAtCol(fs, col)
<1>1. LineOK(fs)
  BY FieldsAtOK
<1>2. i # 0 => ~Throws(fs[i].info, USub(col, fs[i].start))
  <2> SUFFICES ASSUME i # 0 PROVE ~Throws(fs[i].info, USub(col, fs[i].start))
    OBVIOUS
  <2> HIDE DEF fs
  <2>1. i \in DOMAIN fs /\ AtRange(fs[i], col)
    BY <1>1, SearchProperties
  <2>2. FitsAt(fs[i], i)
    BY <1>1, <2>1, LineOKElements
  <2> QED
    BY <2>1, <2>2, AppendCharProperties
<1> QED
  BY <1>2 DEF TypeAt, TypedLine, ChangeAndShiftRight

LEMMA RemoveCharCases ==
    ASSUME NEW ls, LinesOK(ls), NEW col \in UInt, NEW l,
           RemoveChar(ls, col, l) # ls
    PROVE  LET fs == FieldsAt(ls, l)
               i == SearchAtCol(fs, col)
           IN  /\ l \in DOMAIN ls
               /\ i \in DOMAIN fs /\ FitsAt(fs[i], i) /\ AtRange(fs[i], col)
               /\ ~Throws(fs[i].info, USub(Dec(col), fs[i].start))
               /\ RemoveChar(ls, col, l) = Put(ls, l, ErasedLine(fs, col))
<1> DEFINE fs == FieldsAt(ls, l)
           i == SearchAtCol(fs, col)
<1>1. LineOK(fs)
  BY FieldsAtOK
<1>2. /\ i # 0 /\ ~Throws(fs[i].info, USub(Dec(col), fs[i].start))
      /\ RemoveChar(ls, col, l) = Put(ls, l, ErasedLine(fs, col))
  BY DEF RemoveChar, ErasedLine, ChangeAndShiftLeft
<1>3. i \in DOMAIN fs /\ AtRange(fs[i], col)
  <2> HIDE DEF fs
  <2> QED BY <1>1, <1>2, SearchProperties
<1>4. FitsAt(fs[i], i)
  <2> HIDE DEF fs
  <2> QED BY <1>1, <1>3, LineOKElements
<1>5. l \in DOMAIN ls
  BY <1>3 DEF FieldsAt
<1> QED
  BY <1>2, <1>3, <1>4, <1>5

LEMMA ErasedLineOK ==
    ASSUME NEW fs, LineOK(fs), NEW col \in UInt,
           SearchAtCol(fs, col) \in DOMAIN fs,
           AtRange(fs[SearchAtCol(fs, col)], col),
           ~Throws(fs[SearchAtCol(fs, col)].info,
                   USub(Dec(col), fs[SearchAtCol(fs, col)].start))
    PROVE  LineOK(ErasedLine(fs, col))
<1> DEFINE i == SearchAtCol(fs, col)
<1>1. FitsAt(fs[i], i)
  BY LineOKElements
<1>2. FitsAt(RemoveCharAt(fs[i], Dec(col)), i)
  BY <1>1, RemoveCharAtProperties
<1> QED
  BY <1>2, ChangeAndShift DEF ErasedLine

----------------------------------------------------------------------------
(* The invariant. *)

LEMMA ColumnsAreUInt == Columns \subseteq UInt
  BY ConstantsOK, DataManAssumption DEF UInt

LEMMA AddFieldOK ==
    ASSUME NEW ls, LinesOK(ls), NEW type \in {"Title", "Name"},
           NEW str \in Strings, NEW col \in UInt, NEW l \in LineNos
    PROVE  LinesOK(AddField(ls, type, str, col, l))
<1> DEFINE fs == FieldsAt(ls, l)
<1>1. LineOK(fs)
  BY FieldsAtOK
<1>2. LineOK(Append(fs, NewField(Len(fs), type, col, str)))
  BY <1>1, LineOKElements, NewFieldFits, AppendOK
<1> QED
  BY <1>1, <1>2, PutOK DEF AddField

LEMMA InitOK == Init => LinesOK(lines)
  BY DEF Init, LinesOK

LEMMA NextOK == LinesOK(lines) /\ [Next]_lines => LinesOK(lines')
<1> SUFFICES ASSUME LinesOK(lines), [Next]_lines
             PROVE  LinesOK(lines')
  OBVIOUS
<1>1. ASSUME NEW col \in Columns, NEW l \in LineNos, NEW c \in Byte,
             EventFilter(col, l, c)
      PROVE  LinesOK(lines')
  <2>1. LineOK(TypedLine(FieldsAt(lines, l), col, c))
    BY ColumnsAreUInt, FieldsAtOK, TypedLineOK
  <2>2. lines' = Put(lines, l, TypedLine(FieldsAt(lines, l), col, c))
    BY <1>1, ColumnsAreUInt, TypeAtStores DEF EventFilter
  <2>3. LinesOK(Put(lines, l, TypedLine(FieldsAt(lines, l), col, c)))
    BY <2>1, PutOK
  <2> QED
    BY <2>2, <2>3
<1>2. ASSUME NEW col \in Columns, NEW l \in LineNos, NEW str \in Strings,
             AddTitle(str, col, l)
      PROVE  LinesOK(lines')
  BY <1>2, ColumnsAreUInt, AddFieldOK DEF AddTitle
<1>3. ASSUME NEW col \in Columns, NEW l \in LineNos, NEW str \in Strings,
             AddName(str, col, l)
      PROVE  LinesOK(lines')
  BY <1>3, ColumnsAreUInt, AddFieldOK DEF AddName
<1>4. ASSUME NEW col \in Columns, NEW l \in LineNos, RemoveCharacter(col, l)
      PROVE  LinesOK(lines')
  <2>1. CASE lines' = lines
    BY <2>1
  <2>2. CASE lines' # lines
    <3>1. RemoveChar(lines, col, l) # lines
      BY <1>4, <2>2 DEF RemoveCharacter
    <3>2. LineOK(ErasedLine(FieldsAt(lines, l), col))
      BY <3>1, ColumnsAreUInt, RemoveCharCases, FieldsAtOK, ErasedLineOK
    <3>3. lines' = Put(lines, l, ErasedLine(FieldsAt(lines, l), col))
      BY <1>4, <3>1, ColumnsAreUInt, RemoveCharCases DEF RemoveCharacter
    <3>4. LinesOK(Put(lines, l, ErasedLine(FieldsAt(lines, l), col)))
      BY <3>2, PutOK
    <3> QED
      BY <3>3, <3>4
  <2> QED
    BY <2>1, <2>2
<1>5. CASE UNCHANGED lines
  BY <1>5
<1> QED
  BY <1>1, <1>2, <1>3, <1>4, <1>5 DEF Next

\* TypeOK is not inductive alone: that insert and erase stay inside the text of
\* a field, and that the loops shift the right ones, takes FieldsOK.
IInv == TypeOK /\ FieldsOK

LEMMA Invariance == Spec => []IInv
<1>1. Init => IInv
  BY InitOK, LinesOKIsInvariant DEF IInv
<1>2. IInv /\ [Next]_lines => IInv'
  <2>1. IInv' <=> LinesOK(lines')
    BY DEF IInv, TypeOK, FieldsOK, LinesOK, LineOK
  <2> QED
    BY <2>1, NextOK, LinesOKIsInvariant DEF IInv
<1> QED
  BY <1>1, <1>2, PTL DEF Spec

\* The map holds vectors of well-typed fields, whatever the callers ask.
THEOREM TypeCorrect == Spec => []TypeOK
  BY Invariance, PTL DEF IInv

\* m_position stays the index in the vector and no range outgrows its text,
\* wrapped columns and multi-byte strings included.
THEOREM FieldsCorrect == Spec => []FieldsOK
  BY Invariance, PTL DEF IInv

----------------------------------------------------------------------------
(* No accepted key is lost. *)

LEMMA TypedLineStores ==
    ASSUME NEW fs, LineOK(fs), NEW col \in UInt, NEW c \in Byte
    PROVE  \E i \in 1..(Len(fs) + 1) : StoredAt(fs, TypedLine(fs, col, c), i, col, c)
<1> DEFINE i == SearchAtCol(fs, col)
<1>1. /\ fs \in Seq(Field) /\ Len(fs) \in Nat /\ DOMAIN fs = 1..Len(fs)
  BY LineOKElements DEF LineOK
<1>2. CASE i = 0
  <2> DEFINE g == NewTextField(Len(fs), col, c)
  <2>1. g \in Field
    BY <1>1, NewFieldFits DEF FitsAt
  <2>2. g.start = col /\ g.info = <<c>>
    BY DEF NewTextField
  <2> HIDE DEF g
  <2>3. /\ Append(fs, g) \in Seq(Field) /\ Len(Append(fs, g)) = Len(fs) + 1
        /\ Append(fs, g)[Len(fs) + 1] = g
    BY <1>1, <2>1, AppendProperties
  <2>4. Len(fs) + 1 \in DOMAIN Append(fs, g)
    BY <1>1, <2>3, LenProperties
  <2>5. USub(col, g.start) = 0
    BY <2>2, UIntArithmetic
  <2>6. StoredAt(fs, Append(fs, g), Len(fs) + 1, col, c)
    <3>1. Len(g.info) = 1 /\ g.info[1] = c
      BY <2>2
    <3>2. g.info[USub(col, g.start) + 1] = c
      BY <2>5, <3>1
    <3>3. Len(fs) + 1 \notin DOMAIN fs
      BY <1>1
    <3> QED
      BY <2>3, <2>4, <3>1, <3>2, <3>3 DEF StoredAt
  <2>7. TypedLine(fs, col, c) = Append(fs, g)
    BY <1>2 DEF TypedLine, g
  <2> QED
    BY <1>1, <2>6, <2>7
<1>3. CASE i # 0
  <2> DEFINE g == AppendChar(fs[i], c, col)
             new == ChangeAndShiftRight(fs, i, g)
  <2>1. i \in DOMAIN fs /\ AtRange(fs[i], col)
    BY <1>3, SearchProperties
  <2>2. FitsAt(fs[i], i)
    BY <1>1, <2>1, LineOKElements
  <2>3. /\ FitsAt(g, i) /\ g.start = fs[i].start /\ Len(g.info) = Len(fs[i].info) + 1
        /\ g.info[USub(col, fs[i].start) + 1] = c
    BY <2>1, <2>2, AppendCharProperties
  <2> HIDE DEF g, i
  <2>4. new[i] = g /\ LineOK(new) /\ Len(new) = Len(fs)
    <3>1. new[i] = g
      BY <2>1, <2>3, ChangeAndShift
    <3>2. LineOK(new) /\ Len(new) = Len(fs)
      BY <2>1, <2>3, ChangeAndShift
    <3> HIDE DEF new
    <3> QED
      BY <2>1, <3>1, <3>2
  <2>5. i \in DOMAIN new
    BY <1>1, <2>1, <2>4, LineOKElements
  <2> HIDE DEF new
  <2>6. StoredAt(fs, new, i, col, c)
    BY <2>1, <2>3, <2>4, <2>5 DEF StoredAt
  <2>7. TypedLine(fs, col, c) = new
    BY <1>3 DEF TypedLine, new, g, i
  <2> QED
    BY <1>1, <2>1, <2>6, <2>7
<1> QED
  BY <1>2, <1>3

\* eventFilter stores every key it accepts, and its handler of out_of_range
\* serves lines that do not exist only.
THEOREM NoKeyLost == Spec => []AcceptedKeyIsStored
<1>1. IInv => AcceptedKeyIsStored
  <2> SUFFICES ASSUME IInv, NEW col \in Columns, NEW l \in LineNos, NEW c \in Byte
               PROVE  \E i \in 1..(Len(FieldsAt(lines, l)) + 1) :
                        StoredAt(FieldsAt(lines, l),
                                 FieldsAt(TypeAt(lines, col, l, c), l), i, col, c)
    BY DEF AcceptedKeyIsStored
  <2> DEFINE fs == FieldsAt(lines, l)
             new == TypedLine(fs, col, c)
  <2>1. LinesOK(lines) /\ col \in UInt
    BY LinesOKIsInvariant, ColumnsAreUInt DEF IInv
  <2>2. LineOK(fs)
    BY <2>1, FieldsAtOK
  <2>3. LineOK(new)
    BY <2>1, <2>2, TypedLineOK
  <2>4. FieldsAt(TypeAt(lines, col, l, c), l) = new
    <3>1. TypeAt(lines, col, l, c) = Put(lines, l, new)
      BY <2>1, TypeAtStores
    <3> HIDE DEF new
    <3>2. FieldsAt(Put(lines, l, new), l) = new
      BY DEF FieldsAt, Put
    <3> QED
      BY <3>1, <3>2
  <2> HIDE DEF fs
  <2>5. \E i \in 1..(Len(fs) + 1) : StoredAt(fs, new, i, col, c)
    BY <2>1, <2>2, TypedLineStores
  <2> QED
    BY <2>4, <2>5 DEF fs
<1> QED
  BY <1>1, Invariance, PTL

----------------------------------------------------------------------------
(* Lines whose fields stand in the order of the vector: the loops of       *)
(* eventFilter and removeCharacter keep them so, and a backspace undoes a  *)
(* key.  First, arithmetic inside the range, and strings.                  *)

LEMMA InsideArithmetic ==
    ASSUME NEW u \in UInt
    PROVE  /\ u \in Nat /\ UIntMod \in Nat \ {0}
           /\ u < UIntMod - 1 => Inc(u) = u + 1
           /\ u > 0 => Dec(u) = u - 1
           /\ Dec(Inc(u)) = u
  BY DataManAssumption DEF UInt, Inc, Dec

LEMMA FieldColumns ==
    ASSUME NEW f, NEW i, FitsAt(f, i)
    PROVE  /\ f.start \in UInt /\ f.end \in UInt /\ f.start \in Nat /\ f.end \in Nat
           /\ f.info \in Seq(Byte) /\ Len(f.info) \in Nat
<1>1. f.start \in UInt /\ f.end \in UInt /\ f.info \in Seq(Byte)
  BY DEF FitsAt, Field
<1> QED
  BY <1>1, InsideArithmetic, LenProperties

\* erase takes away what insert put in.
LEMMA EraseUndoesInsert ==
    ASSUME NEW s \in Seq(Byte), NEW at \in 0..Len(s), NEW c \in Byte
    PROVE  Erase(Insert(s, at, c), at) = s
<1> DEFINE p == SubSeq(s, 1, at)
           q == SubSeq(s, at + 1, Len(s))
           pc == p \o <<c>>
           t == pc \o q
<1>1. Len(s) \in Nat /\ at \in Nat /\ \A i \in 1..Len(s) : s[i] \in Byte
  BY LenProperties, ElementOfSeq
<1>2. /\ p \in Seq(Byte) /\ Len(p) = at
      /\ \A i \in 1..at : p[i] = s[i]
  BY <1>1, SubSeqProperties
<1>3. /\ q \in Seq(Byte) /\ Len(q) = Len(s) - at
      /\ \A i \in 1..(Len(s) - at) : q[i] = s[at + i]
  BY <1>1, SubSeqProperties
<1>4. Insert(s, at, c) = t
  <2>1. (at + 1) - 1 = at
    BY <1>1
  <2> QED
    BY <2>1 DEF Insert, InsertAt
<1> HIDE DEF p, q
<1>5. /\ pc \in Seq(Byte) /\ Len(pc) = at + 1
      /\ \A i \in 1..at : pc[i] = s[i]
  <2>1. <<c>> \in Seq(Byte) /\ Len(<<c>>) = 1
    OBVIOUS
  <2>2. \A i \in 1..(Len(p) + 1) : pc[i] = IF i <= Len(p) THEN p[i] ELSE <<c>>[i - Len(p)]
    BY <1>2, <2>1, ConcatProperties
  <2> QED
    BY <1>1, <1>2, <2>1, <2>2, ConcatProperties
<1> HIDE DEF pc
<1>6. /\ t \in Seq(Byte) /\ Len(t) = Len(s) + 1
      /\ \A i \in 1..at : t[i] = s[i]
      /\ \A i \in 1..(Len(s) - at) : t[at + 1 + i] = s[at + i]
  <2>1. /\ t \in Seq(Byte) /\ Len(t) = Len(pc) + Len(q)
        /\ \A i \in 1..(Len(pc) + Len(q)) : t[i] = IF i <= Len(pc) THEN pc[i] ELSE q[i - Len(pc)]
    BY <1>3, <1>5, ConcatProperties
  <2> HIDE DEF t
  <2>2. Len(t) = Len(s) + 1
    BY <1>1, <1>3, <1>5, <2>1
  <2>3. \A i \in 1..at : t[i] = s[i]
    BY <1>1, <1>3, <1>5, <2>1, SMTT(30)
  <2>4. ASSUME NEW i \in 1..(Len(s) - at)
        PROVE  t[at + 1 + i] = s[at + i]
    <3>1. at + 1 + i \in 1..(Len(pc) + Len(q)) /\ ~(at + 1 + i <= Len(pc))
          /\ (at + 1 + i) - Len(pc) = i
      BY <1>1, <1>3, <1>5
    <3> QED
      BY <1>3, <2>1, <3>1
  <2> QED
    BY <2>1, <2>2, <2>3, <2>4
<1> HIDE DEF t
<1> DEFINE a == SubSeq(t, 1, at)
           b == SubSeq(t, at + 2, Len(t))
<1>7. \A i \in 1..Len(t) : t[i] \in Byte
  BY <1>6, ElementOfSeq
<1>8. Erase(t, at) = a \o b
  <2>1. (at + 1) - 1 = at /\ (at + 1) + 1 = at + 2 /\ at < Len(t)
    BY <1>1, <1>6
  <2> QED
    BY <2>1 DEF Erase, RemoveAt
<1>9. /\ a \in Seq(Byte) /\ Len(a) = at
      /\ \A i \in 1..at : a[i] = s[i]
  <2>1. \A i \in 1..at : t[i] \in Byte
    BY <1>1, <1>6, <1>7
  <2>2. /\ a \in Seq(Byte) /\ Len(a) = at
        /\ \A i \in 1..(at - 1 + 1) : a[i] = t[1 + i - 1]
    BY <1>1, <2>1, SubSeqProperties
  <2> HIDE DEF a
  <2>3. \A i \in 1..at : i \in 1..(at - 1 + 1) /\ 1 + i - 1 = i
    BY <1>1
  <2> QED
    BY <1>6, <2>2, <2>3
<1>10. /\ b \in Seq(Byte) /\ Len(b) = Len(s) - at
       /\ \A i \in 1..(Len(s) - at) : b[i] = s[at + i]
  <2>1. \A i \in (at + 2)..Len(t) : t[i] \in Byte
    BY <1>1, <1>6, <1>7
  <2>2. /\ b \in Seq(Byte)
        /\ Len(b) = IF at + 2 <= Len(t) THEN Len(t) - (at + 2) + 1 ELSE 0
        /\ \A i \in 1..(Len(t) - (at + 2) + 1) : b[i] = t[(at + 2) + i - 1]
    BY <1>1, <1>6, <2>1, SubSeqProperties
  <2> HIDE DEF b
  <2>3. Len(b) = Len(s) - at
    BY <1>1, <1>6, <2>2
  <2>4. ASSUME NEW i \in 1..(Len(s) - at)
        PROVE  b[i] = s[at + i]
    <3>1. i \in 1..(Len(t) - (at + 2) + 1) /\ (at + 2) + i - 1 = at + 1 + i
      BY <1>1, <1>6
    <3> QED
      BY <1>6, <2>2, <3>1
  <2> QED
    BY <2>2, <2>3, <2>4
<1> HIDE DEF a, b
<1> DEFINE r == a \o b
<1>11. r = s
  <2>1. /\ r \in Seq(Byte) /\ Len(r) = Len(a) + Len(b)
        /\ \A i \in 1..(Len(a) + Len(b)) : r[i] = IF i <= Len(a) THEN a[i] ELSE b[i - Len(a)]
    BY <1>9, <1>10, ConcatProperties
  <2> HIDE DEF r
  <2>2. Len(r) = Len(s)
    BY <1>1, <1>9, <1>10, <2>1
  <2>3. ASSUME NEW i \in 1..Len(s)
        PROVE  r[i] = s[i]
    <3>1. CASE i <= at
      BY <1>1, <1>9, <1>10, <2>1, <3>1
    <3>2. CASE ~(i <= at)
      <4>1. i - at \in 1..(Len(s) - at) /\ at + (i - at) = i
        BY <1>1, <3>2
      <4>2. i \in 1..(Len(a) + Len(b)) /\ ~(i <= Len(a))
        BY <1>1, <1>9, <1>10, <3>2
      <4>3. r[i] = b[i - at]
        BY <1>9, <2>1, <4>2
      <4> QED
        BY <1>10, <4>1, <4>3
    <3> QED
      BY <3>1, <3>2
  <2> QED
    BY <2>1, <2>2, <2>3, SeqEqual
<1> QED
  BY <1>4, <1>8, <1>11

----------------------------------------------------------------------------
(* Ordered lines. *)

LEMMA TypedKeepsOrder ==
    ASSUME NEW fs, LineOK(fs), Ordered(fs), InsideRange(fs), NEW i \in DOMAIN fs,
           NEW g, FitsAt(g, i), g.start = fs[i].start, g.end = Inc(fs[i].end)
    PROVE  Ordered(ChangeAndShiftRight(fs, i, g))
<1> DEFINE new == ChangeAndShiftRight(fs, i, g)
<1>1. /\ Len(fs) \in Nat /\ DOMAIN fs = 1..Len(fs)
      /\ \A j \in 1..Len(fs) : FitsAt(fs[j], j)
  BY LineOKElements
<1>2. /\ LineOK(new) /\ Len(new) = Len(fs)
      /\ \A j \in DOMAIN fs :
            new[j] = IF j = i THEN g ELSE IF j > i THEN ShiftRight(fs[j]) ELSE fs[j]
  BY ChangeAndShift
<1> HIDE DEF new
<1>3. DOMAIN new = 1..Len(fs)
  BY <1>2, LineOKElements
\* What a key does to the two columns of each field.
<1>4. ASSUME NEW j \in 1..Len(fs)
      PROVE  /\ fs[j].start \in Nat /\ fs[j].end \in Nat /\ fs[j].start <= fs[j].end
             /\ new[j].start = fs[j].start + (IF j > i THEN 1 ELSE 0)
             /\ new[j].end = fs[j].end + (IF j >= i THEN 1 ELSE 0)
  <2>1. /\ fs[j].start \in UInt /\ fs[j].end \in UInt /\ fs[j].start \in Nat /\ fs[j].end \in Nat
        /\ fs[j] \in Field
    BY <1>1, FieldColumns DEF FitsAt
  <2>2. fs[j].start <= fs[j].end /\ fs[j].end < UIntMod - 1 /\ fs[j].start < UIntMod - 1
    BY <1>1, <2>1, InsideArithmetic DEF Ordered, InsideRange
  <2>3. Inc(fs[j].start) = fs[j].start + 1 /\ Inc(fs[j].end) = fs[j].end + 1
    BY <2>1, <2>2, InsideArithmetic
  <2>4. ShiftRight(fs[j]).start = Inc(fs[j].start) /\ ShiftRight(fs[j]).end = Inc(fs[j].end)
    BY <2>1, ShiftProperties
  <2>5. i \in Nat /\ j \in Nat
    BY <1>1
  <2> QED
    BY <1>1, <1>2, <2>1, <2>2, <2>3, <2>4, <2>5
<1>5. \A j, k \in 1..Len(fs) : j < k => fs[j].end < fs[k].start
  BY <1>1 DEF Ordered
<1>6. i \in Nat
  BY <1>1
<1>7. \A j \in 1..Len(fs) : new[j].start <= new[j].end
  BY <1>1, <1>3, <1>4, <1>5, <1>6
<1>8. ASSUME NEW j \in 1..Len(fs), NEW k \in 1..Len(fs), j < k
      PROVE  new[j].end < new[k].start
  <2>1. fs[j].end < fs[k].start
    BY <1>5, <1>8
  <2>2. j \in Nat /\ k \in Nat /\ i \in Nat
    BY <1>1
  <2> QED
    BY <1>4, <1>6, <1>8, <2>1, <2>2
<1> QED
  BY <1>3, <1>7, <1>8 DEF Ordered, new

LEMMA ErasedKeepsOrder ==
    ASSUME NEW fs, LineOK(fs), Ordered(fs), NEW i \in DOMAIN fs, fs[i].start < fs[i].end,
           NEW g, FitsAt(g, i), g.start = fs[i].start, g.end = Dec(fs[i].end)
    PROVE  Ordered(ChangeAndShiftLeft(fs, i, g))
<1> DEFINE new == ChangeAndShiftLeft(fs, i, g)
<1>1. /\ Len(fs) \in Nat /\ DOMAIN fs = 1..Len(fs)
      /\ \A j \in 1..Len(fs) : FitsAt(fs[j], j)
  BY LineOKElements
<1>2. /\ LineOK(new) /\ Len(new) = Len(fs)
      /\ \A j \in DOMAIN fs :
            new[j] = IF j = i THEN g ELSE IF j > i THEN ShiftLeft(fs[j]) ELSE fs[j]
  BY ChangeAndShift
<1> HIDE DEF new
<1>3. DOMAIN new = 1..Len(fs)
  BY <1>2, LineOKElements
<1>4. \A j \in 1..Len(fs) :
          /\ fs[j].start \in UInt /\ fs[j].end \in UInt /\ fs[j].start \in Nat /\ fs[j].end \in Nat
          /\ fs[j] \in Field /\ fs[j].start <= fs[j].end
  BY <1>1, FieldColumns DEF FitsAt, Ordered
<1>5. \A j, k \in 1..Len(fs) : j < k => fs[j].end < fs[k].start
  BY <1>1 DEF Ordered
<1>6. ASSUME NEW j \in 1..Len(fs)
      PROVE  /\ new[j].start = fs[j].start - (IF j > i THEN 1 ELSE 0)
             /\ new[j].end = fs[j].end - (IF j >= i THEN 1 ELSE 0)
  <2>1. i \in Nat /\ j \in Nat /\ i \in 1..Len(fs)
    BY <1>1
  <2>2. j > i => fs[j].start > 0 /\ fs[j].end > 0
    BY <1>4, <1>5, <2>1
  <2>3. j = i => fs[j].end > 0
    BY <1>4, <2>1
  <2>4. /\ fs[j].start > 0 => Dec(fs[j].start) = fs[j].start - 1
        /\ fs[j].end > 0 => Dec(fs[j].end) = fs[j].end - 1
    BY <1>4, InsideArithmetic
  <2>5. ShiftLeft(fs[j]).start = Dec(fs[j].start) /\ ShiftLeft(fs[j]).end = Dec(fs[j].end)
    BY <1>4, ShiftProperties
  <2> QED
    BY <1>1, <1>2, <1>4, <2>1, <2>2, <2>3, <2>4, <2>5
<1>7. i \in Nat
  BY <1>1
<1>8. \A j \in 1..Len(fs) : new[j].start <= new[j].end
  BY <1>1, <1>3, <1>4, <1>5, <1>6, <1>7
<1>9. ASSUME NEW j \in 1..Len(fs), NEW k \in 1..Len(fs), j < k
      PROVE  new[j].end < new[k].start
  <2>1. fs[j].end < fs[k].start
    BY <1>5, <1>9
  <2>2. j \in Nat /\ k \in Nat /\ i \in Nat /\ i \in 1..Len(fs)
    BY <1>1
  <2>3. /\ new[j].end = fs[j].end - (IF j >= i THEN 1 ELSE 0)
        /\ new[k].start = fs[k].start - (IF k > i THEN 1 ELSE 0)
    BY <1>6
  <2>4. /\ fs[j].end \in Nat /\ fs[k].start \in Nat
        /\ fs[i].start \in Nat /\ fs[i].end \in Nat
    BY <1>4, <2>2
  <2>5. CASE j >= i
    BY <1>9, <2>1, <2>2, <2>3, <2>4, <2>5
  <2>6. CASE j < i /\ k > i
    <3>1. fs[j].end < fs[i].start /\ fs[i].end < fs[k].start
      BY <1>5, <2>2, <2>6
    <3> QED
      BY <2>2, <2>3, <2>4, <2>6, <3>1
  <2>7. CASE j < i /\ k <= i
    BY <2>1, <2>2, <2>3, <2>4, <2>7
  <2> QED
    BY <2>2, <2>5, <2>6, <2>7
<1> QED
  BY <1>3, <1>8, <1>9 DEF Ordered, new

LEMMA AppendedKeepsOrder ==
    ASSUME NEW fs, LineOK(fs), Ordered(fs), NEW g \in Field, LastIsRightmost(Append(fs, g))
    PROVE  Ordered(Append(fs, g))
<1> DEFINE new == Append(fs, g)
<1>1. Len(fs) \in Nat /\ DOMAIN fs = 1..Len(fs) /\ fs \in Seq(Field)
  BY LineOKElements DEF LineOK
<1>2. /\ DOMAIN new = 1..(Len(fs) + 1) /\ Len(new) = Len(fs) + 1
      /\ \A j \in 1..Len(fs) : new[j] = fs[j]
  BY <1>1, AppendProperties, LenProperties
<1>3. LastIsRightmost(new)
  OBVIOUS
<1> HIDE DEF new
<1>4. /\ new[Len(fs) + 1].start <= new[Len(fs) + 1].end
      /\ \A j \in 1..Len(fs) : new[j].end < new[Len(fs) + 1].start
  <2>1. (Len(fs) + 1) - 1 = Len(fs)
    BY <1>1
  <2> QED
    BY <1>2, <1>3, <2>1 DEF LastIsRightmost
<1>5. \A j \in 1..(Len(fs) + 1) : new[j].start <= new[j].end
  BY <1>1, <1>2, <1>4 DEF Ordered
<1>6. ASSUME NEW j \in 1..(Len(fs) + 1), NEW k \in 1..(Len(fs) + 1), j < k
      PROVE  new[j].end < new[k].start
  <2>1. CASE k = Len(fs) + 1
    BY <1>1, <1>4, <1>6, <2>1
  <2>2. CASE k # Len(fs) + 1
    <3>1. j \in 1..Len(fs) /\ k \in 1..Len(fs)
      BY <1>1, <1>6, <2>2
    <3>2. fs[j].end < fs[k].start
      BY <1>1, <1>6, <3>1 DEF Ordered
    <3> QED
      BY <1>2, <3>1, <3>2
  <2> QED
    BY <2>1, <2>2
<1> QED
  BY <1>2, <1>5, <1>6 DEF Ordered, new

\* Where removeCharacter erases, the field has a column to lose.
LEMMA ErasedFieldHasColumns ==
    ASSUME NEW fs, LineOK(fs), InsideRange(fs), NEW i \in DOMAIN fs, NEW col \in UInt,
           AtRange(fs[i], col), ~Throws(fs[i].info, USub(Dec(col), fs[i].start))
    PROVE  fs[i].start < fs[i].end
<1>1. FitsAt(fs[i], i)
  BY LineOKElements
<1>2. /\ fs[i].start \in Nat /\ fs[i].end \in Nat /\ Len(fs[i].info) \in Nat
      /\ col \in Nat /\ UIntMod \in Nat
  BY <1>1, FieldColumns, InsideArithmetic
<1>3. fs[i].start # col
  <2>1. Len(fs[i].info) < UIntMod - 1
    BY DEF InsideRange
  <2> QED
    BY <1>1, <1>2, <2>1, OffsetInText DEF Throws
<1> QED
  BY <1>2, <1>3 DEF AtRange

----------------------------------------------------------------------------
(* A step changes one line. *)

\* LayoutStep, and the same of the lines that a step adds.
NewLinesToo ==
    \A l \in DOMAIN lines' :
        /\ Ordered(FieldsAt(lines, l)) /\ InsideRange(FieldsAt(lines, l))
        /\ Len(lines'[l]) > Len(FieldsAt(lines, l)) => LastIsRightmost(lines'[l])
        => Ordered(lines'[l])

LayoutKept == LayoutStep /\ NewLinesToo

LEMMA OneLine ==
    ASSUME NEW l \in LineNos, NEW fs, lines' = Put(lines, l, fs),
           /\ Ordered(FieldsAt(lines, l)) /\ InsideRange(FieldsAt(lines, l))
           /\ Len(fs) > Len(FieldsAt(lines, l)) => LastIsRightmost(fs)
           => Ordered(fs)
    PROVE  LayoutKept
  BY DEF LayoutKept, LayoutStep, NewLinesToo, Put, FieldsAt

LEMMA StepKeepsLayout == LinesOK(lines) /\ [Next]_lines => LayoutKept
<1> SUFFICES ASSUME LinesOK(lines), [Next]_lines
             PROVE  LayoutKept
  OBVIOUS
<1>1. ASSUME NEW col \in Columns, NEW l \in LineNos, NEW c \in Byte, EventFilter(col, l, c)
      PROVE  LayoutKept
  <2> DEFINE fs == FieldsAt(lines, l)
             new == TypedLine(fs, col, c)
             i == SearchAtCol(fs, col)
  <2>1. LineOK(fs) /\ col \in UInt
    BY FieldsAtOK, ColumnsAreUInt
  <2>2. lines' = Put(lines, l, new)
    BY <1>1, <2>1, TypeAtStores DEF EventFilter
  <2> HIDE DEF fs
  <2>3. ASSUME Ordered(fs), InsideRange(fs), Len(new) > Len(fs) => LastIsRightmost(new)
        PROVE  Ordered(new)
    <3>1. CASE i = 0
      <4> DEFINE g == NewTextField(Len(fs), col, c)
      <4>1. g \in Field /\ fs \in Seq(Field) /\ Len(fs) \in Nat
        BY <2>1, LineOKElements, NewFieldFits DEF FitsAt, LineOK
      <4>2. new = Append(fs, g)
        BY <3>1 DEF TypedLine
      <4> HIDE DEF g
      <4>3. Len(Append(fs, g)) = Len(fs) + 1
        BY <4>1, AppendProperties
      <4> HIDE DEF new
      <4>4. LastIsRightmost(Append(fs, g))
        BY <2>3, <4>1, <4>2, <4>3
      <4> QED
        BY <2>1, <2>3, <4>1, <4>2, <4>4, AppendedKeepsOrder
    <3>2. CASE i # 0
      <4> DEFINE g == AppendChar(fs[i], c, col)
      <4>1. i \in DOMAIN fs /\ AtRange(fs[i], col)
        BY <2>1, <3>2, SearchProperties
      <4>2. FitsAt(fs[i], i)
        BY <2>1, <4>1, LineOKElements
      <4>3. FitsAt(g, i) /\ g.start = fs[i].start /\ g.end = Inc(fs[i].end)
        BY <2>1, <4>1, <4>2, AppendCharProperties
      <4>4. new = ChangeAndShiftRight(fs, i, g)
        BY <3>2 DEF TypedLine
      <4> HIDE DEF new, g, i
      <4> QED
        BY <2>1, <2>3, <4>1, <4>3, <4>4, TypedKeepsOrder
    <3> QED
      BY <3>1, <3>2
  <2> HIDE DEF new
  <2> QED
    BY <2>2, <2>3, OneLine DEF fs
<1>2. ASSUME NEW col \in Columns, NEW l \in LineNos, NEW str \in Strings,
             NEW type \in {"Title", "Name"}, lines' = AddField(lines, type, str, col, l)
      PROVE  LayoutKept
  <2> DEFINE fs == FieldsAt(lines, l)
             g == NewField(Len(fs), type, col, str)
             new == IF SearchAtCol(fs, col) = 0 THEN Append(fs, g) ELSE fs
  <2>1. LineOK(fs) /\ col \in UInt
    BY FieldsAtOK, ColumnsAreUInt
  <2>2. lines' = Put(lines, l, new)
    BY <1>2 DEF AddField
  <2> HIDE DEF fs
  <2>3. g \in Field /\ fs \in Seq(Field) /\ Len(fs) \in Nat
    BY <2>1, LineOKElements, NewFieldFits DEF FitsAt, LineOK
  <2> HIDE DEF g
  <2>4. Len(Append(fs, g)) = Len(fs) + 1
    BY <2>3, AppendProperties
  <2>5. ASSUME Ordered(fs), InsideRange(fs), Len(new) > Len(fs) => LastIsRightmost(new)
        PROVE  Ordered(new)
    <3>1. CASE SearchAtCol(fs, col) = 0
      <4>1. LastIsRightmost(Append(fs, g))
        BY <2>3, <2>4, <2>5, <3>1
      <4> QED
        BY <2>1, <2>3, <2>5, <3>1, <4>1, AppendedKeepsOrder
    <3>2. CASE SearchAtCol(fs, col) # 0
      BY <2>5, <3>2
    <3> QED
      BY <3>1, <3>2
  <2> HIDE DEF new
  <2> QED
    BY <2>2, <2>5, OneLine DEF fs
<1>3. ASSUME NEW col \in Columns, NEW l \in LineNos, RemoveCharacter(col, l)
      PROVE  LayoutKept
  <2>1. CASE lines' = lines
    BY <2>1 DEF LayoutKept, LayoutStep, NewLinesToo, FieldsAt
  <2>2. CASE lines' # lines
    <3> DEFINE fs == FieldsAt(lines, l)
               i == SearchAtCol(fs, col)
               g == RemoveCharAt(fs[i], Dec(col))
               new == ChangeAndShiftLeft(fs, i, g)
    <3>1. LineOK(fs) /\ col \in UInt
      BY FieldsAtOK, ColumnsAreUInt
    <3>2. /\ i \in DOMAIN fs /\ FitsAt(fs[i], i) /\ AtRange(fs[i], col)
          /\ ~Throws(fs[i].info, USub(Dec(col), fs[i].start))
          /\ lines' = Put(lines, l, new)
      BY <1>3, <2>2, <3>1, RemoveCharCases DEF RemoveCharacter, ErasedLine
    <3> HIDE DEF fs, i
    <3>3. FitsAt(g, i) /\ g.start = fs[i].start /\ g.end = Dec(fs[i].end)
      BY <3>1, <3>2, RemoveCharAtProperties
    <3> HIDE DEF g
    <3>4. ASSUME Ordered(fs), InsideRange(fs)
          PROVE  Ordered(new)
      <4>1. fs[i].start < fs[i].end
        BY <3>1, <3>2, <3>4, ErasedFieldHasColumns
      <4> QED
        BY <3>1, <3>2, <3>3, <3>4, <4>1, ErasedKeepsOrder
    <3> HIDE DEF new
    <3> QED
      BY <3>2, <3>4, OneLine DEF fs
  <2> QED
    BY <2>1, <2>2
<1>4. CASE UNCHANGED lines
  BY <1>4 DEF LayoutKept, LayoutStep, NewLinesToo, FieldsAt
<1> QED
  BY <1>1, <1>2, <1>3, <1>4 DEF Next, AddTitle, AddName

\* A step leaves an ordered line ordered unless it puts a new field elsewhere
\* than to the right of the others, however the loops shift.
THEOREM LayoutIsPreserved == Spec => LayoutPreserved
<1>1. IInv /\ [Next]_lines => LayoutStep
  BY StepKeepsLayout, LinesOKIsInvariant DEF IInv, LayoutKept
<1> QED
  BY <1>1, Invariance, PTL DEF Spec, LayoutPreserved

\* The use of the structure that its methods expect: a field is only added to
\* the right of those of its line, and columns stay below the top of the range.
RightwardStep ==
    /\ \A l \in DOMAIN lines : InsideRange(lines[l])
    /\ \A l \in DOMAIN lines' :
          Len(lines'[l]) > Len(FieldsAt(lines, l)) => LastIsRightmost(lines'[l])

RightwardSpec == Init /\ [][Next /\ RightwardStep]_lines

\* dataman.h:45-51 holds of that use: all lines stay ordered, so no field is ever
\* shifted below column 0 and starts after its end.
THEOREM RightwardUse == RightwardSpec => [](\A l \in DOMAIN lines : Ordered(lines[l])) /\ []StartsBeforeEnd
<1> DEFINE AllOrdered == \A l \in DOMAIN lines : Ordered(lines[l])
           RightwardNext == Next /\ RightwardStep
<1>1. [RightwardNext]_lines => [Next]_lines
  OBVIOUS
<1>2. Init => AllOrdered
  BY DEF Init
<1>3. IInv /\ AllOrdered /\ [RightwardNext]_lines => AllOrdered'
  <2> SUFFICES ASSUME IInv, AllOrdered, [RightwardNext]_lines
               PROVE  AllOrdered'
    OBVIOUS
  <2>1. CASE UNCHANGED lines
    BY <2>1
  <2>2. CASE RightwardNext
    <3>1. NewLinesToo
      BY <2>2, StepKeepsLayout, LinesOKIsInvariant DEF IInv, LayoutKept
    <3>2. Ordered(<< >>) /\ InsideRange(<< >>)
      BY DEF Ordered, InsideRange
    <3>3. \A l : Ordered(FieldsAt(lines, l)) /\ InsideRange(FieldsAt(lines, l))
      BY <2>2, <3>2 DEF RightwardStep, FieldsAt
    <3> QED
      BY <2>2, <3>1, <3>3 DEF RightwardStep, NewLinesToo
  <2> QED
    BY <2>1, <2>2
<1>4. AllOrdered => StartsBeforeEnd
  BY DEF Ordered, StartsBeforeEnd
<1> QED
  BY <1>1, <1>2, <1>3, <1>4, Invariance, PTL DEF RightwardSpec, Spec

----------------------------------------------------------------------------
(* A backspace undoes a key. *)

LEMMA FieldEqual ==
    ASSUME NEW f \in Field, NEW g \in Field, f.position = g.position, f.type = g.type,
           f.start = g.start, f.end = g.end, f.info = g.info
    PROVE  f = g
  BY DEF Field

LEMMA ShiftBack ==
    ASSUME NEW f \in Field
    PROVE  ShiftLeft(ShiftRight(f)) = f
<1>1. ShiftRight(f) \in Field /\ ShiftLeft(ShiftRight(f)) \in Field
  BY ShiftProperties
<1>2. Dec(Inc(f.start)) = f.start /\ Dec(Inc(f.end)) = f.end
  BY InsideArithmetic DEF Field
<1> QED
  BY <1>1, <1>2, ShiftProperties, FieldEqual

\* On the field, removeCharAt takes back what appendChar did.
LEMMA EraseUndoesAppendChar ==
    ASSUME NEW f, NEW i, FitsAt(f, i), NEW col \in UInt, AtRange(f, col), NEW c \in Byte
    PROVE  LET g == AppendChar(f, c, col)
           IN  /\ ~Throws(g.info, USub(col, g.start))
               /\ RemoveCharAt(g, col) = f
<1> DEFINE g == AppendChar(f, c, col)
           at == USub(col, f.start)
           h == RemoveCharAt(g, col)
<1>1. /\ f \in Field /\ f.info \in Seq(Byte) /\ Len(f.info) \in Nat
      /\ f.start \in UInt /\ f.end \in UInt
  BY FieldColumns DEF FitsAt
<1>2. at \in 0..Len(f.info)
  BY OffsetInText
<1>3. /\ FitsAt(g, i) /\ g.start = f.start /\ g.end = Inc(f.end) /\ g.type = f.type
      /\ g.info = Insert(f.info, at, c)
  BY AppendCharProperties
<1>4. g \in Field /\ g.position = f.position
  BY <1>3 DEF FitsAt
<1>5. /\ g.info \in Seq(Byte) /\ Len(g.info) = Len(f.info) + 1
      /\ Erase(g.info, at) = f.info
  BY <1>1, <1>2, <1>3, InsertProperties, EraseUndoesInsert
<1>6. Dec(g.end) = f.end
  BY <1>1, <1>3, InsideArithmetic
<1> HIDE DEF g
<1>7. /\ h \in Field /\ h.position = g.position /\ h.type = g.type
      /\ h.start = g.start /\ h.end = f.end /\ h.info = f.info
  <2>1. h = [g EXCEPT !.info = f.info, !.end = f.end]
    BY <1>3, <1>5, <1>6 DEF RemoveCharAt
  <2> QED
    BY <1>1, <1>4, <2>1 DEF Field
<1> HIDE DEF h
<1>8. h.start = f.start /\ h.type = f.type /\ h.position = f.position
  BY <1>3, <1>4, <1>7
<1>9. h = f
  BY <1>1, <1>7, <1>8, FieldEqual
<1>10. ~Throws(g.info, USub(col, g.start))
  BY <1>1, <1>2, <1>3, <1>5 DEF Throws
<1> QED
  BY <1>9, <1>10 DEF h, g

LEMMA EraseUndoesKeyOnLine ==
    ASSUME NEW fs, LineOK(fs), Ordered(fs), InsideRange(fs), NEW col \in UInt,
           NEW c \in Byte, SearchAtCol(fs, col) # 0
    PROVE  LET new == TypedLine(fs, col, c)
               k == SearchAtCol(new, Inc(col))
           IN  /\ k # 0
               /\ ~Throws(new[k].info, USub(Dec(Inc(col)), new[k].start))
               /\ ErasedLine(new, Inc(col)) = fs
<1> DEFINE i == SearchAtCol(fs, col)
           g == AppendChar(fs[i], c, col)
           new == TypedLine(fs, col, c)
           k == SearchAtCol(new, Inc(col))
<1>1. /\ Len(fs) \in Nat /\ DOMAIN fs = 1..Len(fs) /\ fs \in Seq(Field)
      /\ \A j \in 1..Len(fs) : FitsAt(fs[j], j)
  BY LineOKElements DEF LineOK
<1>2. i \in DOMAIN fs /\ AtRange(fs[i], col)
  BY SearchProperties
<1>3. FitsAt(fs[i], i)
  BY <1>1, <1>2
<1>4. FitsAt(g, i) /\ g.start = fs[i].start /\ g.end = Inc(fs[i].end)
  BY <1>2, <1>3, AppendCharProperties
<1>5. ~Throws(g.info, USub(col, g.start)) /\ RemoveCharAt(g, col) = fs[i]
  BY <1>2, <1>3, EraseUndoesAppendChar
<1>6. new = ChangeAndShiftRight(fs, i, g)
  BY DEF TypedLine
<1> HIDE DEF i, g, new
<1>7. /\ LineOK(new) /\ Len(new) = Len(fs)
      /\ \A j \in DOMAIN fs :
            new[j] = IF j = i THEN g ELSE IF j > i THEN ShiftRight(fs[j]) ELSE fs[j]
  BY <1>2, <1>4, <1>6, ChangeAndShift
<1>8. DOMAIN new = 1..Len(fs) /\ new \in Seq(Field)
  BY <1>7, LineOKElements DEF LineOK
\* The columns around the cursor.
<1>9. /\ fs[i].start \in Nat /\ fs[i].end \in Nat /\ fs[i].end \in UInt /\ col \in Nat
      /\ fs[i].start <= col /\ col <= fs[i].end
      /\ Inc(col) = col + 1 /\ Inc(fs[i].end) = fs[i].end + 1 /\ Dec(Inc(col)) = col
  <2>1. /\ fs[i].start \in Nat /\ fs[i].end \in Nat /\ fs[i].end \in UInt
        /\ fs[i].start <= col /\ col <= fs[i].end
    BY <1>2, <1>3, FieldColumns DEF AtRange
  <2>2. col \in Nat /\ UIntMod \in Nat
    BY InsideArithmetic
  <2>3. fs[i].end < UIntMod - 1 /\ col < UIntMod - 1
    BY <1>2, <2>1, <2>2 DEF InsideRange
  <2> QED
    BY <2>1, <2>2, <2>3, InsideArithmetic
\* The search after the key finds the field that took it.
<1>10. k = i
  <2>1. AtRange(new[i], Inc(col))
    BY <1>2, <1>4, <1>7, <1>9 DEF AtRange
  <2>2. ASSUME NEW j \in DOMAIN fs, j < i
        PROVE  ~AtRange(new[j], Inc(col))
    <3>1. fs[j].end < fs[i].start
      BY <1>2, <2>2 DEF Ordered
    <3>2. fs[j].end \in Nat
      BY <1>1, FieldColumns
    <3>3. new[j] = fs[j]
      BY <1>1, <1>2, <1>7, <2>2
    <3> QED
      BY <1>9, <3>1, <3>2, <3>3 DEF AtRange
  <2>3. /\ k = 0 => \A j \in DOMAIN new : ~AtRange(new[j], Inc(col))
        /\ k # 0 => /\ k \in DOMAIN new
                    /\ AtRange(new[k], Inc(col))
                    /\ \A j \in DOMAIN new : j < k => ~AtRange(new[j], Inc(col))
    BY <1>7, SearchProperties
  <2> HIDE DEF k
  <2> QED
    BY <1>1, <1>2, <1>8, <2>1, <2>2, <2>3
<1> HIDE DEF k
<1>11. new[i] = g
  BY <1>2, <1>7
<1>12. i # 0
  BY <1>1, <1>2
\* The loops cancel each other.
<1>13. ErasedLine(new, Inc(col)) = fs
  <2> DEFINE old == ChangeAndShiftLeft(new, i, fs[i])
  <2>1. ErasedLine(new, Inc(col)) = old
    BY <1>5, <1>9, <1>10, <1>11 DEF ErasedLine, k
  <2>2. /\ LineOK(old) /\ Len(old) = Len(new)
        /\ \A j \in DOMAIN new :
              old[j] = IF j = i THEN fs[i] ELSE IF j > i THEN ShiftLeft(new[j]) ELSE new[j]
    <3>1. i \in DOMAIN new
      BY <1>1, <1>2, <1>8
    <3> QED
      BY <1>3, <1>7, <3>1, ChangeAndShift
  <2> HIDE DEF old
  <2>3. old \in Seq(Field) /\ Len(old) = Len(fs)
    BY <1>7, <2>2 DEF LineOK
  <2>4. ASSUME NEW j \in 1..Len(fs)
        PROVE  old[j] = fs[j]
    <3>1. fs[j] \in Field
      BY <1>1 DEF FitsAt
    <3>2. ShiftLeft(ShiftRight(fs[j])) = fs[j]
      BY <3>1, ShiftBack
    <3> QED
      BY <1>1, <1>2, <1>7, <1>8, <2>2, <3>2
  <2>5. old = fs
    BY <1>1, <2>3, <2>4, SeqEqual
  <2> QED
    BY <2>1, <2>5
<1> QED
  BY <1>5, <1>9, <1>10, <1>11, <1>12, <1>13 DEF k, new

\* m_lines is a map: nothing else of it than its lines.
IsMap(ls) == ls = [m \in DOMAIN ls |-> ls[m]]
LinesAreMap == IsMap(lines)

LEMMA MapInvariance == Spec => []LinesAreMap
<1>1. Init => LinesAreMap
  <2>1. << >> \in Seq(Field)
    OBVIOUS
  <2>2. << >> = [m \in DOMAIN << >> |-> << >>[m]]
    BY <2>1
  <2> QED
    BY <2>2 DEF Init, IsMap, LinesAreMap
<1>2. \A ls, l, fs : IsMap(Put(ls, l, fs))
  BY DEF IsMap, Put
<1>3. LinesAreMap /\ [Next]_lines => LinesAreMap'
  <2>1. IsMap(lines) /\ [Next]_lines => IsMap(lines')
    BY <1>2, ZenonT(30) DEF Next, EventFilter, AddTitle, AddName, RemoveCharacter, TypeAt, AddField,
               RemoveChar
  <2> QED
    BY <2>1 DEF LinesAreMap, IsMap
<1> QED
  BY <1>1, <1>3, PTL DEF Spec

\* A backspace right after a key gives the structure back as it was: the same
\* field is found again and both loops of the two handlers cancel each other.
THEOREM KeyUndone == Spec => []BackspaceUndoesKey
<1>1. IInv /\ LinesAreMap => BackspaceUndoesKey
  <2> SUFFICES ASSUME IInv, IsMap(lines),
                      NEW l \in DOMAIN lines, NEW col \in Columns, NEW c \in Byte,
                      Ordered(lines[l]), InsideRange(lines[l]),
                      SearchAtCol(lines[l], col) # 0
               PROVE  RemoveChar(TypeAt(lines, col, l, c), Inc(col), l) = lines
    BY DEF BackspaceUndoesKey, LinesAreMap
  <2> DEFINE fs == FieldsAt(lines, l)
             new == TypedLine(fs, col, c)
             ls == Put(lines, l, new)
             k == SearchAtCol(new, Inc(col))
  <2>1. LinesOK(lines) /\ col \in UInt
    BY LinesOKIsInvariant, ColumnsAreUInt DEF IInv
  <2>2. LineOK(fs) /\ fs = lines[l]
    BY <2>1, FieldsAtOK DEF FieldsAt
  <2>3. TypeAt(lines, col, l, c) = ls
    BY <2>1, TypeAtStores
  <2> HIDE DEF fs
  <2>4. /\ k # 0 /\ ~Throws(new[k].info, USub(Dec(Inc(col)), new[k].start))
        /\ ErasedLine(new, Inc(col)) = fs
    BY <2>1, <2>2, EraseUndoesKeyOnLine
  <2> HIDE DEF new
  <2>5. FieldsAt(ls, l) = new
    BY DEF FieldsAt, Put
  <2>6. RemoveChar(ls, Inc(col), l) = Put(ls, l, ErasedLine(new, Inc(col)))
    <3> HIDE DEF ls
    <3> QED
      BY <2>4, <2>5 DEF RemoveChar, ErasedLine, ChangeAndShiftLeft
  <2>7. Put(ls, l, fs) = [m \in DOMAIN lines |-> lines[m]]
    BY <2>2 DEF Put
  <2> QED
    BY <2>3, <2>4, <2>6, <2>7 DEF IsMap
<1> QED
  BY <1>1, Invariance, MapInvariance, PTL

----------------------------------------------------------------------------
(* LineManager implements StructuredText: whatever the columns do, a call  *)
(* appends one piece of text, inserts or removes one byte of one piece, or *)
(* changes nothing, and a key changes no title.                            *)

\* Text as an operator on lines and structures.
Piece(f) == [type |-> f.type, info |-> f.info]
PiecesOf(fs) == [i \in DOMAIN fs |-> Piece(fs[i])]
TextOf(ls) == [l \in DOMAIN ls |-> PiecesOf(ls[l])]

LEMMA TextIsTextOf == Text = TextOf(lines) /\ Text' = TextOf(lines')
  BY DEF Text, TextOf, PiecesOf, Piece

LEMMA PiecesAtLine ==
    ASSUME NEW l
    PROVE  Abstract!PiecesAt(l) = PiecesOf(FieldsAt(lines, l))
<1>1. PiecesOf(<< >>) = << >>
  BY DEF PiecesOf
<1>2. l \in DOMAIN lines => Text[l] = PiecesOf(lines[l]) /\ l \in DOMAIN Text
  BY TextIsTextOf DEF TextOf
<1>3. l \notin DOMAIN lines => l \notin DOMAIN Text
  BY TextIsTextOf DEF TextOf
<1> QED
  BY <1>1, <1>2, <1>3 DEF Abstract!PiecesAt, FieldsAt

LEMMA TextOfPut ==
    ASSUME NEW ls, NEW l, NEW fs
    PROVE  /\ TextOf(Put(ls, l, fs)) = Abstract!Put(TextOf(ls), l, PiecesOf(fs))
           /\ l \in DOMAIN ls => TextOf(Put(ls, l, fs)) = [TextOf(ls) EXCEPT ![l] = PiecesOf(fs)]
  BY DEF TextOf, Put, Abstract!Put

LEMMA PiecesOfAppend ==
    ASSUME NEW fs \in Seq(Field), NEW g \in Field
    PROVE  PiecesOf(Append(fs, g)) = Append(PiecesOf(fs), Piece(g))
<1>1. /\ Len(fs) \in Nat /\ DOMAIN fs = 1..Len(fs)
      /\ DOMAIN Append(fs, g) = 1..(Len(fs) + 1)
      /\ \A j \in 1..Len(fs) : Append(fs, g)[j] = fs[j]
      /\ Append(fs, g)[Len(fs) + 1] = g
  BY LenProperties, AppendProperties
<1> DEFINE ps == PiecesOf(fs)
           S == {Piece(f) : f \in Field}
<1>2. ps = [i \in 1..Len(fs) |-> Piece(fs[i])]
  BY <1>1 DEF PiecesOf
<1>3. ps \in [1..Len(fs) -> S] /\ Piece(g) \in S
  BY <1>1, <1>2, ElementOfSeq
<1> HIDE DEF ps, S
<1>4. ps \in Seq(S) /\ Len(ps) = Len(fs)
  BY <1>1, <1>3, SeqDef, LenProperties
<1>5. /\ Append(ps, Piece(g)) \in Seq(S)
      /\ Len(Append(ps, Piece(g))) = Len(fs) + 1
      /\ \A j \in 1..Len(fs) : Append(ps, Piece(g))[j] = ps[j]
      /\ Append(ps, Piece(g))[Len(fs) + 1] = Piece(g)
  BY <1>3, <1>4, AppendProperties
<1>6. Append(ps, Piece(g)) = [j \in 1..(Len(fs) + 1) |-> Append(ps, Piece(g))[j]]
  BY <1>5, LenProperties, SeqDef
<1>7. \A j \in 1..(Len(fs) + 1) : Append(ps, Piece(g))[j] = Piece(Append(fs, g)[j])
  BY <1>1, <1>2, <1>5
<1>8. PiecesOf(Append(fs, g)) = [j \in 1..(Len(fs) + 1) |-> Piece(Append(fs, g)[j])]
  BY <1>1 DEF PiecesOf
<1> QED
  BY <1>6, <1>7, <1>8 DEF ps

\* Field i changed and the loops after it: only the piece of field i changes.
LEMMA PiecesOfChange ==
    ASSUME NEW fs, LineOK(fs), NEW i \in DOMAIN fs, NEW g, FitsAt(g, i), g.type = fs[i].type
    PROVE  /\ PiecesOf(ChangeAndShiftRight(fs, i, g)) = [PiecesOf(fs) EXCEPT ![i].info = g.info]
           /\ PiecesOf(ChangeAndShiftLeft(fs, i, g)) = [PiecesOf(fs) EXCEPT ![i].info = g.info]
<1> DEFINE R == ChangeAndShiftRight(fs, i, g)
           L == ChangeAndShiftLeft(fs, i, g)
<1>1. /\ Len(fs) \in Nat /\ DOMAIN fs = 1..Len(fs)
      /\ \A j \in 1..Len(fs) : fs[j] \in Field
  BY LineOKElements DEF FitsAt
<1>2. /\ LineOK(R) /\ LineOK(L) /\ Len(R) = Len(fs) /\ Len(L) = Len(fs)
      /\ \A j \in DOMAIN fs :
            /\ R[j] = IF j = i THEN g ELSE IF j > i THEN ShiftRight(fs[j]) ELSE fs[j]
            /\ L[j] = IF j = i THEN g ELSE IF j > i THEN ShiftLeft(fs[j]) ELSE fs[j]
  BY ChangeAndShift
<1> HIDE DEF R, L
<1>3. DOMAIN R = DOMAIN fs /\ DOMAIN L = DOMAIN fs
  BY <1>1, <1>2, LineOKElements
<1>4. \A j \in DOMAIN fs : j # i => Piece(R[j]) = Piece(fs[j]) /\ Piece(L[j]) = Piece(fs[j])
  BY <1>1, <1>2, ShiftProperties DEF Piece
<1>5. R[i] = g /\ L[i] = g
  BY <1>2
<1>6. Piece(g) = [Piece(fs[i]) EXCEPT !.info = g.info]
  BY DEF Piece
<1>7. PiecesOf(R) = [PiecesOf(fs) EXCEPT ![i].info = g.info]
  BY <1>3, <1>4, <1>5, <1>6 DEF PiecesOf
<1>8. PiecesOf(L) = [PiecesOf(fs) EXCEPT ![i].info = g.info]
  BY <1>3, <1>4, <1>5, <1>6 DEF PiecesOf
<1> QED
  BY <1>7, <1>8 DEF R, L

LEMMA TextOfChange ==
    ASSUME NEW ls, NEW l \in DOMAIN ls, NEW i \in DOMAIN ls[l], NEW fs, NEW info,
           PiecesOf(fs) = [PiecesOf(ls[l]) EXCEPT ![i].info = info]
    PROVE  TextOf(Put(ls, l, fs)) = [TextOf(ls) EXCEPT ![l][i].info = info]
<1>1. TextOf(Put(ls, l, fs)) = [TextOf(ls) EXCEPT ![l] = PiecesOf(fs)]
  BY TextOfPut
<1>2. TextOf(ls)[l] = PiecesOf(ls[l])
  BY DEF TextOf
<1> QED
  BY <1>1, <1>2

----------------------------------------------------------------------------
(* Steps. *)

LEMMA AppendImplements ==
    ASSUME LinesOK(lines), NEW l \in LineNos, NEW g \in Field,
           lines' = Put(lines, l, Append(FieldsAt(lines, l), g))
    PROVE  Abstract!NewPiece(l, g.type, g.info)
<1> DEFINE fs == FieldsAt(lines, l)
<1>1. fs \in Seq(Field)
  BY FieldsAtOK DEF LineOK
<1>2. Text' = Abstract!Put(TextOf(lines), l, PiecesOf(Append(fs, g)))
  BY TextIsTextOf, TextOfPut
<1> HIDE DEF fs
<1>3. PiecesOf(Append(fs, g)) = Append(PiecesOf(fs), Piece(g))
  BY <1>1, PiecesOfAppend
<1> QED
  BY <1>2, <1>3, TextIsTextOf, PiecesAtLine DEF Abstract!NewPiece, Piece, fs

LEMMA KeyImplements ==
    ASSUME LinesOK(lines), NEW col \in Columns, NEW l \in LineNos, NEW c \in Byte,
           EventFilter(col, l, c)
    PROVE  Abstract!Next
<1> DEFINE fs == FieldsAt(lines, l)
           i == SearchAtCol(fs, col)
<1>1. LineOK(fs) /\ col \in UInt
  BY FieldsAtOK, ColumnsAreUInt
<1>2. lines' = Put(lines, l, TypedLine(fs, col, c)) /\ IsEditable(lines, col, l)
  BY ColumnsAreUInt, TypeAtStores DEF EventFilter
<1>3. CASE i = 0
  <2> DEFINE g == NewTextField(Len(fs), col, c)
  <2>1. Len(fs) \in Nat
    <3> HIDE DEF fs
    <3> QED BY <1>1, LineOKElements
  <2>2. g \in Field /\ g.type = "Text" /\ g.info = <<c>>
    BY <1>1, <2>1, NewFieldFits DEF FitsAt, NewTextField
  <2>3. lines' = Put(lines, l, Append(fs, g))
    BY <1>2, <1>3 DEF TypedLine
  <2> HIDE DEF g
  <2>4. Abstract!NewPiece(l, g.type, g.info)
    BY <2>2, <2>3, AppendImplements
  <2> QED
    BY <2>2, <2>4 DEF Abstract!Next
<1>4. CASE i # 0
  <2> DEFINE f == fs[i]
             g == AppendChar(f, c, col)
             at == USub(col, f.start)
             new == ChangeAndShiftRight(fs, i, g)
  <2>1. i \in DOMAIN fs /\ AtRange(fs[i], col)
    <3> HIDE DEF fs
    <3> QED BY <1>1, <1>4, SearchProperties
  <2>2. l \in DOMAIN lines /\ fs = lines[l]
    BY <2>1 DEF FieldsAt
  <2>3. f.type # "Title"
    BY <1>2, <1>4 DEF IsEditable
  <2>4. lines' = Put(lines, l, new)
    BY <1>2, <1>4 DEF TypedLine
  <2> HIDE DEF fs, i
  <2>5. FitsAt(f, i) /\ AtRange(f, col)
    BY <1>1, <2>1, LineOKElements
  <2> HIDE DEF f
  <2>6. /\ FitsAt(g, i) /\ g.type = f.type
        /\ g.info = Insert(f.info, at, c) /\ at \in 0..Len(f.info)
        /\ Len(f.info) \in Nat
    BY <1>1, <2>5, AppendCharProperties, OffsetInText, LenProperties DEF FitsAt, Field
  <2> HIDE DEF g, at
  <2>7. PiecesOf(new) = [PiecesOf(fs) EXCEPT ![i].info = g.info]
    BY <1>1, <2>1, <2>6, PiecesOfChange DEF f
  <2> HIDE DEF new
  <2>8. Text' = [Text EXCEPT ![l][i].info = g.info]
    <3> DEFINE info == g.info
    <3>1. /\ PiecesOf(new) = [PiecesOf(lines[l]) EXCEPT ![i].info = info]
          /\ l \in DOMAIN lines /\ i \in DOMAIN lines[l]
      BY <2>1, <2>2, <2>7
    <3> HIDE DEF info
    <3>2. TextOf(Put(lines, l, new)) = [TextOf(lines) EXCEPT ![l][i].info = info]
      BY <3>1, TextOfChange, SMTT(30)
    <3> QED
      BY <2>4, <3>2, TextIsTextOf DEF info
  <2>9. Text[l][i].info = f.info /\ Text[l][i].type = f.type
        /\ l \in DOMAIN Text /\ i \in DOMAIN Text[l]
    BY <2>1, <2>2, TextIsTextOf DEF TextOf, PiecesOf, Piece, f
  <2>10. Text' = [Text EXCEPT ![l][i].info = Abstract!InsertAt(@, at + 1, c)]
    BY <2>6, <2>8, <2>9 DEF Insert, InsertAt, Abstract!InsertAt
  <2>11. at + 1 \in 1..(Len(Text[l][i].info) + 1)
    BY <2>6, <2>9
  <2> QED
    BY <2>3, <2>9, <2>10, <2>11 DEF Abstract!Next, Abstract!InsertByte
<1> QED
  BY <1>3, <1>4

LEMMA AddFieldImplements ==
    ASSUME LinesOK(lines), NEW col \in Columns, NEW l \in LineNos, NEW str \in Strings,
           NEW type \in {"Title", "Name"}, lines' = AddField(lines, type, str, col, l)
    PROVE  Abstract!Next \/ UNCHANGED Text
<1> DEFINE fs == FieldsAt(lines, l)
           g == NewField(Len(fs), type, col, str)
<1>1. LineOK(fs) /\ Len(fs) \in Nat /\ col \in UInt
  BY FieldsAtOK, LineOKElements, ColumnsAreUInt
<1>2. CASE SearchAtCol(fs, col) = 0
  <2>1. g \in Field /\ g.type = type /\ g.info = str
    BY <1>1, NewFieldFits DEF FitsAt, NewField
  <2>2. lines' = Put(lines, l, Append(fs, g))
    BY <1>2 DEF AddField
  <2> HIDE DEF g
  <2>3. Abstract!NewPiece(l, g.type, g.info)
    BY <2>1, <2>2, AppendImplements
  <2> QED
    BY <2>1, <2>3 DEF Abstract!Next
<1>3. CASE SearchAtCol(fs, col) # 0
  <2>1. l \in DOMAIN lines /\ lines' = Put(lines, l, fs)
    <3>1. SearchAtCol(<< >>, col) = 0
      BY DEF SearchAtCol, InRange
    <3> QED
      BY <1>3, <3>1 DEF AddField, FieldsAt
  <2>2. TextOf(lines') = [TextOf(lines) EXCEPT ![l] = PiecesOf(lines[l])]
    BY <2>1, TextOfPut DEF FieldsAt
  <2> QED
    BY <2>2, TextIsTextOf DEF TextOf
<1> QED
  BY <1>2, <1>3

LEMMA RemoveImplements ==
    ASSUME LinesOK(lines), NEW col \in Columns, NEW l \in LineNos, RemoveCharacter(col, l)
    PROVE  Abstract!Next \/ UNCHANGED Text
<1>1. CASE lines' = lines
  BY <1>1, TextIsTextOf
<1>2. CASE lines' # lines
  <2> DEFINE fs == FieldsAt(lines, l)
             i == SearchAtCol(fs, col)
             f == fs[i]
             g == RemoveCharAt(f, Dec(col))
             at == USub(Dec(col), f.start)
             new == ChangeAndShiftLeft(fs, i, g)
  <2>1. LineOK(fs) /\ col \in UInt
    BY FieldsAtOK, ColumnsAreUInt
  <2>2. /\ l \in DOMAIN lines /\ fs = lines[l]
        /\ i \in DOMAIN fs /\ FitsAt(f, i) /\ AtRange(f, col) /\ ~Throws(f.info, at)
        /\ lines' = Put(lines, l, new)
    BY <1>2, <2>1, RemoveCharCases DEF RemoveCharacter, ErasedLine, FieldsAt
  <2> HIDE DEF fs, i, f
  <2>3. FitsAt(g, i) /\ g.type = f.type /\ g.info = Erase(f.info, at)
    BY <2>1, <2>2, RemoveCharAtProperties
  <2>4. at \in Nat /\ Len(f.info) \in Nat
    <3>1. f.start \in UInt /\ f.info \in Seq(Byte)
      BY <2>2 DEF FitsAt, Field
    <3>2. at \in UInt
      BY <2>1, <3>1, UIntArithmetic
    <3> QED
      BY <3>1, <3>2, LenProperties, DataManAssumption DEF UInt
  <2> HIDE DEF g, at
  <2>5. PiecesOf(new) = [PiecesOf(fs) EXCEPT ![i].info = g.info]
    BY <2>1, <2>2, <2>3, PiecesOfChange DEF f
  <2> HIDE DEF new
  <2>6. Text' = [Text EXCEPT ![l][i].info = g.info]
    <3> DEFINE info == g.info
    <3>1. /\ PiecesOf(new) = [PiecesOf(lines[l]) EXCEPT ![i].info = info]
          /\ l \in DOMAIN lines /\ i \in DOMAIN lines[l]
      BY <2>2, <2>5
    <3> HIDE DEF info
    <3>2. TextOf(Put(lines, l, new)) = [TextOf(lines) EXCEPT ![l][i].info = info]
      BY <3>1, TextOfChange, SMTT(30)
    <3> QED
      BY <2>2, <3>2, TextIsTextOf DEF info
  <2>7. /\ Text[l][i].info = f.info /\ l \in DOMAIN Text /\ i \in DOMAIN Text[l]
        /\ Text[l][i] = Piece(f)
    BY <2>2, TextIsTextOf DEF TextOf, PiecesOf, Piece, f
  <2>8. CASE at < Len(f.info)
    <3>1. Text' = [Text EXCEPT ![l][i].info = Abstract!RemoveAt(@, at + 1)]
      BY <2>3, <2>6, <2>7, <2>8 DEF Erase, RemoveAt, Abstract!RemoveAt
    <3>2. at + 1 \in 1..Len(Text[l][i].info)
      BY <2>4, <2>7, <2>8
    <3> QED
      BY <2>7, <3>1, <3>2 DEF Abstract!Next, Abstract!RemoveByte
  <2>9. CASE ~(at < Len(f.info))
    <3>1. g.info = Text[l][i].info
      BY <2>3, <2>7, <2>9 DEF Erase
    <3>2. [Text EXCEPT ![l][i].info = Text[l][i].info] = Text
      BY TextIsTextOf DEF TextOf, PiecesOf, Piece
    <3> QED
      BY <2>6, <3>1, <3>2
  <2> QED
    BY <2>8, <2>9
<1> QED
  BY <1>1, <1>2

LEMMA StepImplements == LinesOK(lines) /\ [Next]_lines => [Abstract!Next]_Text
<1> SUFFICES ASSUME LinesOK(lines), [Next]_lines
             PROVE  Abstract!Next \/ UNCHANGED Text
  OBVIOUS
<1>1. ASSUME NEW col \in Columns, NEW l \in LineNos, NEW c \in Byte, EventFilter(col, l, c)
      PROVE  Abstract!Next
  BY <1>1, KeyImplements
<1>2. ASSUME NEW col \in Columns, NEW l \in LineNos, NEW str \in Strings,
             AddTitle(str, col, l) \/ AddName(str, col, l)
      PROVE  Abstract!Next \/ UNCHANGED Text
  BY <1>2, AddFieldImplements DEF AddTitle, AddName
<1>3. ASSUME NEW col \in Columns, NEW l \in LineNos, RemoveCharacter(col, l)
      PROVE  Abstract!Next \/ UNCHANGED Text
  BY <1>3, RemoveImplements
<1>4. CASE UNCHANGED lines
  BY <1>4, TextIsTextOf
<1> QED
  BY <1>1, <1>2, <1>3, <1>4 DEF Next

LEMMA InitImplements == Init => Abstract!Init
<1>1. TextOf(<< >>) = << >>
  BY DEF TextOf
<1> QED
  BY <1>1, TextIsTextOf DEF Init, Abstract!Init

\* Whatever is asked at whatever columns, the text without its geometry behaves
\* like StructuredText.
THEOREM Implements == Spec => ImplementsStructuredText
<1>1. IInv /\ [Next]_lines => [Abstract!Next]_Text
  BY StepImplements, LinesOKIsInvariant DEF IInv
<1> QED
  BY <1>1, InitImplements, Invariance, PTL DEF Spec, ImplementsStructuredText, Abstract!Spec

=============================================================================
