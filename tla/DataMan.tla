------------------------------ MODULE DataMan ------------------------------
(***************************************************************************)
(* The data structure behind the text editor: cte/Data/dataman.h and       *)
(* dataman.cpp.  A line of the document that holds structured text is a    *)
(* vector of typed fields; a field occupies a range of columns and carries *)
(* the bytes of its text.  The editor asks the structure whether the       *)
(* column under the cursor may be edited and tells it of every key.        *)
(*                                                                         *)
(* This module holds the data types and what each method computes, as      *)
(* operators on a structure ls (the m_lines map).  LineManager drives them *)
(* as a component of its own, PlainEditor as the editor does.              *)
(*                                                                         *)
(* An operator whose name starts with Faulty is the one that follows it    *)
(* with a plausible mistake.  Nothing uses it: it is there to be put in    *)
(* the place of the real one, to see which property notices the mistake.   *)
(***************************************************************************)
EXTENDS Integers, Sequences, FiniteSets, SequencesExt

CONSTANTS
    Byte,          \* the values of a char
    Continuation,  \* the bytes 10xxxxxx of UTF-8, as Utf8StringSize sees them
    UIntMod        \* 2^32: unsigned columns are counted modulo UIntMod

ASSUME DataManAssumption ==
    /\ Continuation \subseteq Byte
    /\ UIntMod \in Nat \ {0}

----------------------------------------------------------------------------
(* Unsigned arithmetic. *)

UInt == 0..(UIntMod - 1)

Inc(u) == IF u = UIntMod - 1 THEN 0 ELSE u + 1
FaultyDec(u) == u - 1                        \* no wrap
Dec(u) == IF u = 0 THEN UIntMod - 1 ELSE u - 1
USub(u, v) == IF u >= v THEN u - v ELSE u - v + UIntMod
UAdd(u, v) == IF u + v < UIntMod THEN u + v ELSE u + v - UIntMod

----------------------------------------------------------------------------
(* struct Field *)

FieldTypes == {"Text", "Name", "Title"}   \* the types the editor creates

Field == [position : Nat, type : FieldTypes, start : UInt, end : UInt,
          info : Seq(Byte)]

FaultyAtRange(f, col) == f.start <= col /\ col <= f.end + 1

\* Field::atRange: both ends belong to the range, so that a key typed right
\* after the last character still belongs to the field.
AtRange(f, col) == f.start <= col /\ col <= f.end

\* The number of code points: the first byte counts whatever it is, every
\* later one unless it is a continuation byte.
Utf8StringSize(s) ==
    Cardinality({i \in DOMAIN s : i = 1 \/ s[i] \notin Continuation})

\* std::string::insert and std::string::erase throw std::out_of_range when the
\* position is past the end; erase at the end removes nothing.
Throws(s, at) == at > Len(s)

Insert(s, at, c) == InsertAt(s, at + 1, c)
Erase(s, at) == IF at < Len(s) THEN RemoveAt(s, at + 1) ELSE s

AppendChar(f, c, pos) ==
    [f EXCEPT !.info = Insert(@, USub(pos, f.start), c), !.end = Inc(@)]

FaultyRemoveCharAt(f, pos) ==                 \* m_end forgotten
    [f EXCEPT !.info = Erase(@, USub(pos, f.start))]

RemoveCharAt(f, pos) ==
    [f EXCEPT !.info = Erase(@, USub(pos, f.start)), !.end = Dec(@)]

ShiftRight(f) == [f EXCEPT !.start = Inc(@), !.end = Inc(@)]
ShiftLeft(f) == [f EXCEPT !.start = Dec(@), !.end = Dec(@)]

\* A new field of a line that holds n fields, filled by appendInfo.
NewField(n, type, col, str) ==
    [position |-> n, type |-> type, start |-> col,
     end |-> UAdd(col, Utf8StringSize(str)), info |-> str]

\* A new field filled by appendChar with one key: always one column wide.
NewTextField(n, col, c) ==
    [position |-> n, type |-> "Text", start |-> col, end |-> Inc(col),
     info |-> <<c>>]

----------------------------------------------------------------------------
(* struct Line: the fields in the order in which they were created. *)

\* Line::searchAtCol: the index of the first field whose range holds col, or 0.
InRange(fs, col) == {i \in DOMAIN fs : AtRange(fs[i], col)}

SearchAtCol(fs, col) ==
    IF InRange(fs, col) = {}
    THEN 0
    ELSE CHOOSE i \in InRange(fs, col) : \A j \in InRange(fs, col) : i <= j

\* The loops of eventFilter and removeCharacter: shift the fields from the
\* (0-based) index n of the vector on.
FaultyShiftRightFrom(fs, n) ==                \* the field itself shifts too
    [j \in DOMAIN fs |-> IF j >= n THEN ShiftRight(fs[j]) ELSE fs[j]]
FaultyShiftLeftFrom(fs, n) == fs              \* no loop
ShiftRightFrom(fs, n) ==
    [j \in DOMAIN fs |-> IF j > n THEN ShiftRight(fs[j]) ELSE fs[j]]
ShiftLeftFrom(fs, n) ==
    [j \in DOMAIN fs |-> IF j > n THEN ShiftLeft(fs[j]) ELSE fs[j]]

----------------------------------------------------------------------------
(* class LineManager: the structure is a function from the numbers of the  *)
(* lines that exist to their fields.                                       *)

Put(ls, l, fs) == [m \in DOMAIN ls \cup {l} |-> IF m = l THEN fs ELSE ls[m]]

FieldsAt(ls, l) == IF l \in DOMAIN ls THEN ls[l] ELSE << >>

FaultyIsEditable(ls, col, l) == TRUE
IsEditable(ls, col, l) ==
    LET fs == FieldsAt(ls, l)
        i == SearchAtCol(fs, col)
    IN  i # 0 => fs[i].type # "Title"

\* LineManager::eventFilter, when it returns true, which is when IsEditable.
\* When appendChar throws, the handler of out_of_range builds a fresh line, and
\* m_lines.insert leaves the existing one in place: the key is dropped.
TypeAt(ls, col, l, c) ==
    LET fs == FieldsAt(ls, l)
        i == SearchAtCol(fs, col)
    IN  IF i = 0
        THEN Put(ls, l, Append(fs, NewTextField(Len(fs), col, c)))
        ELSE IF Throws(fs[i].info, USub(col, fs[i].start))
        THEN ls
        ELSE Put(ls, l, ShiftRightFrom([fs EXCEPT ![i] = AppendChar(@, c, col)],
                                       fs[i].position + 1))

\* addTitle and addName: the line is created before the search, so it exists
\* afterwards even when a field already holds the column and nothing is added.
AddField(ls, type, str, col, l) ==
    LET fs == FieldsAt(ls, l)
    IN  Put(ls, l, IF SearchAtCol(fs, col) = 0
                   THEN Append(fs, NewField(Len(fs), type, col, str))
                   ELSE fs)

\* LineManager::removeCharacter: the key removes the byte left of column col.
\* At the field's first column col - 1 - m_start wraps, erase throws, the
\* exception is swallowed and nothing changes.  A type check is left to callers.
RemoveChar(ls, col, l) ==
    LET fs == FieldsAt(ls, l)
        i == SearchAtCol(fs, col)
    IN  IF i = 0 \/ Throws(fs[i].info, USub(Dec(col), fs[i].start))
        THEN ls
        ELSE Put(ls, l, ShiftLeftFrom([fs EXCEPT ![i] = RemoveCharAt(@, Dec(col))],
                                      fs[i].position + 1))

\* The fields and the bytes of a structure, as sets of positions.
Fields(ls) == UNION {{<<l, i>> : i \in DOMAIN ls[l]} : l \in DOMAIN ls}
Bytes(ls) ==
    UNION {{<<x, k>> : k \in DOMAIN ls[x[1]][x[2]].info} : x \in Fields(ls)}

=============================================================================
