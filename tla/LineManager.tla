---------------------------- MODULE LineManager ----------------------------
(***************************************************************************)
(* class LineManager of cte/Data/dataman.h as a component of its own: one  *)
(* variable, the m_lines map, and one action for each public method that   *)
(* changes it, called with any column, line and text.                      *)
(***************************************************************************)
EXTENDS DataMan

CONSTANTS
    Strings,       \* the arguments given to addTitle and addName
    Columns,       \* the columns the structure is asked about
    LineNos,       \* the line numbers it is asked about
    MaxFields,     \* bound: fields in the whole structure
    MaxBytes       \* bound: bytes of text in the whole structure

ASSUME ConstantsOK ==
    /\ \A str \in Strings : str \in Seq(Byte) /\ Len(str) < UIntMod
    /\ Columns \subseteq UInt
    /\ MaxFields \in Nat
    /\ MaxBytes \in Nat

VARIABLE lines

\* The bounds: how much more the structure may grow.
RoomForBytes(n) == Cardinality(Bytes(lines)) + n <= MaxBytes
RoomForField(col, l) == \/ SearchAtCol(FieldsAt(lines, l), col) # 0
                        \/ Cardinality(Fields(lines)) < MaxFields

Init == lines = << >>

EventFilter(col, l, c) ==
    /\ RoomForBytes(1) /\ RoomForField(col, l)
    /\ IsEditable(lines, col, l)
    /\ lines' = TypeAt(lines, col, l, c)

AddTitle(str, col, l) ==
    /\ RoomForBytes(Len(str)) /\ RoomForField(col, l)
    /\ lines' = AddField(lines, "Title", str, col, l)

AddName(str, col, l) ==
    /\ RoomForBytes(Len(str)) /\ RoomForField(col, l)
    /\ lines' = AddField(lines, "Name", str, col, l)

RemoveCharacter(col, l) == lines' = RemoveChar(lines, col, l)

Next ==
    \E col \in Columns, l \in LineNos :
        \/ \E c \in Byte : EventFilter(col, l, c)
        \/ \E str \in Strings : AddTitle(str, col, l) \/ AddName(str, col, l)
        \/ RemoveCharacter(col, l)

Spec == Init /\ [][Next]_lines

----------------------------------------------------------------------------
(* Properties *)

\* Every line is a vector of well-typed fields.
TypeOK ==
    /\ DOMAIN lines \subseteq LineNos
    /\ \A l \in DOMAIN lines : lines[l] \in Seq(Field)

\* What the loops and the string calls of dataman.cpp rely on without testing
\* it: m_position is the field's index in the vector, or the loops of
\* eventFilter and removeCharacter would shift the wrong fields, and a range
\* never reaches past the text it stands for, or insert would throw for a
\* column that atRange accepted.
FieldOK(fs, i) ==
    /\ fs[i].position = i - 1
    /\ USub(fs[i].end, fs[i].start) <= Len(fs[i].info)

FieldsOK == \A l \in DOMAIN lines : \A i \in DOMAIN lines[l] : FieldOK(lines[l], i)

\* A key that eventFilter accepts (it returns true, and the editor lets the
\* document take the key) is stored: one field of the line is one byte longer
\* and has the key at its column.  The catch of out_of_range, which would drop
\* the key, is never reached on a line that exists.
StoredAt(old, new, i, col, c) ==
    /\ i \in DOMAIN new
    /\ Len(new[i].info) = IF i \in DOMAIN old THEN Len(old[i].info) + 1 ELSE 1
    /\ new[i].info[USub(col, new[i].start) + 1] = c

AcceptedKeyIsStored ==
    \A col \in Columns, l \in LineNos, c \in Byte :
        IsEditable(lines, col, l) =>
            \E i \in 1..(Len(FieldsAt(lines, l)) + 1) :
                StoredAt(FieldsAt(lines, l),
                         FieldsAt(TypeAt(lines, col, l, c), l), i, col, c)

\* The fields stand on the line in the order of the vector, without overlap.
Ordered(fs) ==
    /\ \A i \in DOMAIN fs : fs[i].start <= fs[i].end
    /\ \A i, j \in DOMAIN fs : i < j => fs[i].end < fs[j].start

\* What eventFilter and removeCharacter take for granted: no field stands at the
\* very top of the unsigned range, as one does that was shifted below column 0,
\* and no text is as long as the range.
InsideRange(fs) ==
    \A i \in DOMAIN fs : fs[i].end < UIntMod - 1 /\ Len(fs[i].info) < UIntMod - 1

\* The shift loops keep a well laid-out line well laid out: a step on an
\* ordered line leaves it ordered unless it creates a field that is not to the
\* right of the others.
LastIsRightmost(fs) ==
    /\ fs[Len(fs)].start <= fs[Len(fs)].end
    /\ \A i \in 1..(Len(fs) - 1) : fs[i].end < fs[Len(fs)].start

LayoutStep ==
    \A l \in DOMAIN lines :
        /\ Ordered(lines[l]) /\ InsideRange(lines[l])
        /\ Len(lines'[l]) > Len(lines[l]) => LastIsRightmost(lines'[l])
        => Ordered(lines'[l])

LayoutPreserved == [][LayoutStep]_lines

\* On an ordered line a backspace right after a key undoes it: it finds the
\* same field, removes the same byte and moves the other fields back.
BackspaceUndoesKey ==
    \A l \in DOMAIN lines, col \in Columns, c \in Byte :
        /\ Ordered(lines[l]) /\ InsideRange(lines[l])
        /\ SearchAtCol(lines[l], col) # 0
        /\ IsEditable(lines, col, l)
        => RemoveChar(TypeAt(lines, col, l, c), Inc(col), l) = lines

\* The text without its geometry, and the abstract specification it implements:
\* each call appends one field, or inserts or removes one byte of one field.
Text == [l \in DOMAIN lines |->
            [i \in DOMAIN lines[l] |->
                [type |-> lines[l][i].type, info |-> lines[l][i].info]]]

Abstract == INSTANCE StructuredText WITH text <- Text

ImplementsStructuredText == Abstract!Spec

\* dataman.h:45-51: m_start is "the column of line which object starts" and
\* m_end "the start + size of info", so a field never starts after its end.
StartsBeforeEnd ==
    \A l \in DOMAIN lines : \A i \in DOMAIN lines[l] :
        lines[l][i].start <= lines[l][i].end

=============================================================================
