---------------------------- MODULE PlainEditor ----------------------------
(***************************************************************************)
(* The editor widget, cte/plaineditor.h and plaineditor.cpp: a Qt plain    *)
(* text document, its cursor, and beside it the structure of DataMan that  *)
(* says which columns belong to a title.  The two are kept in step only by *)
(* the calls below; nothing rebuilds one from the other.                   *)
(*                                                                         *)
(* The document and the cursor are Qt's (external), modelled by what the   *)
(* calls of plaineditor.cpp do to them.  Lines and columns count from 0.   *)
(* The operators named Faulty are for mutation, as in DataMan.             *)
(***************************************************************************)
EXTENDS DataMan

CONSTANTS
    Chars,        \* characters of a document line
    Utf8,         \* Chars -> their UTF-8 bytes, as in const char* from scripts
    Latin1,       \* Chars -> the byte of QChar::toLatin1
    Nul,          \* the byte that keyEvent->text().at(0) yields for a key
                  \* without text (Shift, Home, ...)
    Newline,      \* the byte of a newline in a text
    Strings,      \* texts that scripts pass, each the sequence of its lines
    KeyText,      \* the fixed text of the F2 and F3 keys, of one line
    KeysFiltered, \* is PlainEditor::eventFilter called for the keys?  It is
                  \* written to be, but the call in MainWindow::eventFilter is
                  \* commented out (mainwindow.cpp:88-93)
    MaxLines,     \* bound: lines of the document
    MaxChars,     \* bound: characters of the document
    MaxSelected,  \* bound: characters selected with the keyboard, on one line
    MaxFields,    \* bound: fields of the structure
    MaxBytes      \* bound: bytes of the structure

Utf8Bytes(str) == FlattenSeq([i \in DOMAIN str |-> Utf8[str[i]]])

\* A text as scripts pass it: the bytes of its lines with newlines between them.
TextBytes(text) ==
    FlattenSeq([i \in DOMAIN text |->
                    (IF i = 1 THEN << >> ELSE <<Newline>>) \o Utf8Bytes(text[i])])

\* In UTF-8 a character is one byte that is no continuation byte and as many
\* of those as it needs.
Encoded(bytes) ==
    bytes # << >> /\ \A k \in DOMAIN bytes : bytes[k] \in Continuation <=> k # 1

\* The length of a text in bytes fits into an unsigned int, and so does that of
\* the document, whose positions are ints of Qt.
ASSUME PlainEditorAssumption ==
    /\ Utf8 \in [Chars -> Seq(Byte)] /\ \A ch \in Chars : Encoded(Utf8[ch])
    /\ Latin1 \in [Chars -> Byte]
    /\ Nul \in Byte
    /\ Newline \in Byte
    /\ \A text \in Strings :
          /\ text \in Seq(Seq(Chars)) \ {<< >>}
          /\ TextBytes(text) \in Seq(Byte) /\ Len(TextBytes(text)) < UIntMod
    /\ Utf8Bytes(KeyText) \in Seq(Byte) /\ Len(Utf8Bytes(KeyText)) < UIntMod
    /\ KeysFiltered \in BOOLEAN
    /\ MaxLines \in Nat \ {0}
    /\ MaxChars \in Nat /\ MaxChars < UIntMod
    /\ MaxSelected \in Nat

VARIABLES
    doc,      \* the document: a non-empty sequence of lines of [ch, title],
              \* title recording that addTitle inserted the character
    cursor,   \* textCursor().position(), as [line, col]
    anchor,   \* textCursor().anchor(): the other end of the selection
    visible,  \* QWidget::isVisible: false in a background tab
    lines     \* m_dataman's structure

vars == <<doc, cursor, anchor, visible, lines>>

----------------------------------------------------------------------------
(* The document (QTextDocument, QTextCursor). *)

LineAt(d, l) == d[l + 1]
Positions(d) == UNION {[line : {l}, col : 0..Len(LineAt(d, l))] : l \in 0..(Len(d) - 1)}

Before(p, q) == p.line < q.line \/ (p.line = q.line /\ p.col < q.col)
SelectionStart == IF Before(anchor, cursor) THEN anchor ELSE cursor
SelectionEnd == IF Before(anchor, cursor) THEN cursor ELSE anchor
HasSelection == anchor # cursor

HeadOf(d, p) == SubSeq(LineAt(d, p.line), 1, p.col)
TailOf(d, p) == SubSeq(LineAt(d, p.line), p.col + 1, Len(LineAt(d, p.line)))

\* The document with everything between p and q replaced by the lines ls.
Splice(d, p, q, ls) ==
    LET n == Len(ls)
        mid == [i \in 1..n |-> (IF i = 1 THEN HeadOf(d, p) ELSE << >>) \o ls[i]
                               \o (IF i = n THEN TailOf(d, q) ELSE << >>)]
    IN  SubSeq(d, 1, p.line) \o mid \o SubSeq(d, q.line + 2, Len(d))

\* The position after the lines ls inserted at p.
AfterInsert(p, ls) ==
    IF Len(ls) = 1 THEN [p EXCEPT !.col = @ + Len(ls[1])]
    ELSE [line |-> p.line + Len(ls) - 1, col |-> Len(ls[Len(ls)])]

\* insertText, insertBlock, and keys: the selection is replaced, the cursor
\* ends after the insertion.
InsertAtCursor(ls) ==
    /\ doc' = Splice(doc, SelectionStart, SelectionEnd, ls)
    /\ cursor' = AfterInsert(SelectionStart, ls)
    /\ anchor' = cursor'

RemoveBetween(p, q) ==
    /\ doc' = Splice(doc, p, q, << << >> >>)
    /\ cursor' = p
    /\ anchor' = p

AtDocumentStart == cursor = [line |-> 0, col |-> 0]
AtLineEnd == cursor.col = Len(LineAt(doc, cursor.line))
AtDocumentEnd == cursor.line = Len(doc) - 1 /\ AtLineEnd

CharLeft == IF cursor.col > 0 THEN [cursor EXCEPT !.col = @ - 1]
            ELSE [line |-> cursor.line - 1, col |-> Len(LineAt(doc, cursor.line - 1))]
CharRight == IF ~AtLineEnd THEN [cursor EXCEPT !.col = @ + 1]
             ELSE [line |-> cursor.line + 1, col |-> 0]

Typed(str) == [i \in DOMAIN str |-> [ch |-> str[i], title |-> FALSE]]
Titled(str) == [i \in DOMAIN str |-> [ch |-> str[i], title |-> TRUE]]

\* insertText makes a line of the document of each line of a text.
TypedText(text) == [i \in DOMAIN text |-> Typed(text[i])]
TitledText(text) == [i \in DOMAIN text |-> Titled(text[i])]

NewLine == << << >>, << >> >>   \* what Enter and insertBlock insert

\* An ASCII character: the structure and the document store the same byte.
OneByte(ch) == Utf8[ch] = <<Latin1[ch]>>

----------------------------------------------------------------------------
(* Queries of the widget.  Columns of the structure are unsigned. *)

CurrentLine == cursor.line
ColumnNumber == IF visible THEN cursor.col % UIntMod ELSE 0

\* The column at which addTitle and addName tell the structure to add a field;
\* the text itself goes to the cursor.
FieldColumn == IF ColumnNumber > 1 THEN (ColumnNumber + 2) % UIntMod ELSE 0

----------------------------------------------------------------------------
(* Bounds. *)

DocChars(d) == Len(FlattenSeq(d))

Room(chars, newlines) ==
    /\ DocChars(doc) + chars <= MaxChars
    /\ Len(doc) + newlines <= MaxLines

RoomInStructure(col, bytes) ==
    /\ Cardinality(Bytes(lines)) + bytes <= MaxBytes
    /\ \/ SearchAtCol(FieldsAt(lines, CurrentLine), col) # 0
       \/ Cardinality(Fields(lines)) < MaxFields

----------------------------------------------------------------------------
(* PlainEditor::eventFilter.  The keys are sent to the visible widget; a    *)
(* disjunct without KeysFiltered is the key going to the document directly. *)

Init ==
    /\ doc = << << >> >>
    /\ cursor = [line |-> 0, col |-> 0]
    /\ anchor = cursor
    /\ visible = TRUE
    /\ lines = << >>

\* Arrow keys and the keys of Qt that move the cursor with Ctrl: passed on.
MoveCursor(p, select) ==
    /\ visible
    /\ select => /\ p.line = anchor.line
                 /\ p.col - anchor.col \in (-MaxSelected)..MaxSelected
    /\ cursor' = p
    /\ anchor' = IF select THEN anchor ELSE p
    /\ UNCHANGED <<doc, visible, lines>>

\* A key with a text (the default case).
Key(ch) ==
    /\ visible
    /\ Room(1, 0) /\ RoomInStructure(ColumnNumber, 1)
    /\ IF KeysFiltered
       THEN /\ IsEditable(lines, ColumnNumber, CurrentLine)
            /\ lines' = TypeAt(lines, ColumnNumber, CurrentLine, Latin1[ch])
       ELSE UNCHANGED lines
    /\ InsertAtCursor(<<Typed(<<ch>>)>>)
    /\ UNCHANGED visible

\* A key without text takes the default case too: the structure gets a byte,
\* the document nothing.
KeyWithoutText ==
    /\ visible /\ KeysFiltered
    /\ RoomInStructure(ColumnNumber, 1)
    /\ IsEditable(lines, ColumnNumber, CurrentLine)
    /\ lines' = TypeAt(lines, ColumnNumber, CurrentLine, Nul)
    /\ UNCHANGED <<doc, cursor, anchor, visible>>

\* Enter: the document is split, the lines of the structure stay where they are.
Enter ==
    /\ visible
    /\ Room(0, 1)
    /\ KeysFiltered => IsEditable(lines, ColumnNumber, CurrentLine)
    /\ InsertAtCursor(NewLine)
    /\ UNCHANGED <<visible, lines>>

\* F2 and F3: the structure gets a title or a name, the document nothing.
FieldKey(type) ==
    /\ visible /\ KeysFiltered
    /\ RoomInStructure(ColumnNumber, Len(Utf8Bytes(KeyText)))
    /\ lines' = AddField(lines, type, Utf8Bytes(KeyText), ColumnNumber, CurrentLine)
    /\ UNCHANGED <<doc, cursor, anchor, visible>>

\* Ctrl with a key: cut, and paste of a character.
CtrlCut ==
    /\ visible /\ HasSelection
    /\ RemoveBetween(SelectionStart, SelectionEnd)
    /\ UNCHANGED <<visible, lines>>

CtrlPaste(ch) ==
    /\ visible
    /\ Room(1, 0)
    /\ InsertAtCursor(<<Typed(<<ch>>)>>)
    /\ UNCHANGED <<visible, lines>>

FaultyBackspace ==                            \* isEditable not asked
    /\ visible /\ ~HasSelection
    /\ lines' = RemoveChar(lines, ColumnNumber, CurrentLine)
    /\ IF AtDocumentStart THEN UNCHANGED <<doc, cursor, anchor>>
       ELSE RemoveBetween(CharLeft, cursor)
    /\ UNCHANGED visible

FaultyDelete ==                               \* the wrong column
    /\ visible /\ ~HasSelection
    /\ IsEditable(lines, Inc(ColumnNumber), CurrentLine)
    /\ lines' = RemoveChar(lines, ColumnNumber, CurrentLine)
    /\ IF AtDocumentEnd THEN UNCHANGED <<doc, cursor, anchor>>
       ELSE RemoveBetween(cursor, CharRight)
    /\ UNCHANGED visible

\* Backspace and Delete, which the filter swallows while text is selected.
Backspace ==
    /\ visible
    /\ IF KeysFiltered
       THEN /\ ~HasSelection
            /\ IsEditable(lines, ColumnNumber, CurrentLine)
            /\ lines' = RemoveChar(lines, ColumnNumber, CurrentLine)
       ELSE UNCHANGED lines
    /\ IF HasSelection THEN RemoveBetween(SelectionStart, SelectionEnd)
       ELSE IF AtDocumentStart THEN UNCHANGED <<doc, cursor, anchor>>
       ELSE RemoveBetween(CharLeft, cursor)
    /\ UNCHANGED visible

Delete ==
    /\ visible
    /\ IF KeysFiltered
       THEN /\ ~HasSelection
            /\ IsEditable(lines, Inc(ColumnNumber), CurrentLine)
            /\ lines' = RemoveChar(lines, Inc(ColumnNumber), CurrentLine)
       ELSE UNCHANGED lines
    /\ IF HasSelection THEN RemoveBetween(SelectionStart, SelectionEnd)
       ELSE IF AtDocumentEnd THEN UNCHANGED <<doc, cursor, anchor>>
       ELSE RemoveBetween(cursor, CharRight)
    /\ UNCHANGED visible

----------------------------------------------------------------------------
(* IEditor, called by the scripts, and the public methods that move.  They  *)
(* work whether the widget is visible or in a background tab.               *)

RoomForText(text) == Room(DocChars(text), Len(text) - 1)

AddTitle(text) ==
    /\ RoomForText(text) /\ RoomInStructure(FieldColumn, Len(TextBytes(text)))
    /\ lines' = AddField(lines, "Title", TextBytes(text), FieldColumn, CurrentLine)
    /\ InsertAtCursor(TitledText(text))
    /\ UNCHANGED visible

AddName(text) ==
    /\ RoomForText(text) /\ RoomInStructure(FieldColumn, Len(TextBytes(text)))
    /\ lines' = AddField(lines, "Name", TextBytes(text), FieldColumn, CurrentLine)
    /\ InsertAtCursor(TypedText(text))
    /\ UNCHANGED visible

\* writeText, and the F1 key with a space.  It decodes the bytes as Latin-1, so
\* only a text of one-byte characters arrives as it was sent: no other is given.
WriteText(text) ==
    /\ RoomForText(text)
    /\ \A i \in DOMAIN text : \A k \in DOMAIN text[i] : OneByte(text[i][k])
    /\ InsertAtCursor(TypedText(text))
    /\ UNCHANGED <<visible, lines>>

\* insertBlock first removes a selection.  When that joins lines, the block that
\* the two methods below look up does not exist and the widget gets a null
\* cursor: the model leaves those calls out.
SelectionOnOneLine == anchor.line = cursor.line

\* jumpLine, moveToNextLine: a missing next line is made by splitting the
\* current one at the cursor.
JumpLine ==
    /\ SelectionOnOneLine
    /\ IF cursor.line + 1 < Len(doc)
       THEN UNCHANGED doc
       ELSE /\ Room(0, 1)
            /\ doc' = Splice(doc, SelectionStart, SelectionEnd, NewLine)
    /\ cursor' = [line |-> cursor.line + 1, col |-> 0]
    /\ anchor' = cursor'
    /\ UNCHANGED <<visible, lines>>

FaultyMoveToLine(n) ==                        \* one line too few
    /\ SelectionOnOneLine
    /\ IF n < Len(doc)
       THEN UNCHANGED doc
       ELSE doc' = Splice(doc, SelectionStart, SelectionEnd,
                          [i \in 1..(n - Len(doc) + 1) |-> << >>])
    /\ cursor' = [line |-> n, col |-> 0]
    /\ anchor' = cursor'
    /\ UNCHANGED <<visible, lines>>

\* moveToLine: missing lines are made at the cursor as well.
MoveToLine(n) ==
    /\ SelectionOnOneLine
    /\ IF n < Len(doc)
       THEN UNCHANGED doc
       ELSE doc' = Splice(doc, SelectionStart, SelectionEnd,
                          [i \in 1..(n - Len(doc) + 2) |-> << >>])
    /\ cursor' = [line |-> n, col |-> 0]
    /\ anchor' = cursor'
    /\ UNCHANGED <<visible, lines>>

\* The tab of the editor goes to the background or comes back.
SwitchTab ==
    /\ visible' = ~visible
    /\ UNCHANGED <<doc, cursor, anchor, lines>>

Next ==
    \/ \E p \in Positions(doc), select \in BOOLEAN : MoveCursor(p, select)
    \/ \E ch \in Chars : Key(ch) \/ CtrlPaste(ch)
    \/ KeyWithoutText
    \/ \E type \in {"Title", "Name"} : FieldKey(type)
    \/ Enter
    \/ CtrlCut
    \/ Backspace
    \/ Delete
    \/ \E text \in Strings : AddTitle(text) \/ AddName(text) \/ WriteText(text)
    \/ JumpLine
    \/ \E n \in 0..(MaxLines - 1) : MoveToLine(n)
    \/ SwitchTab

Spec == Init /\ [][Next]_vars

----------------------------------------------------------------------------
(* Properties *)

\* The document is lines of tagged characters, both ends of the selection are
\* in it, and the structure is vectors of fields.
TypeOK ==
    /\ Len(doc) \in 1..MaxLines
    /\ \A i \in DOMAIN doc : \A k \in DOMAIN doc[i] :
            doc[i][k] \in [ch : Chars, title : BOOLEAN]
    /\ {cursor, anchor} \subseteq Positions(doc)
    /\ visible \in BOOLEAN
    /\ \A l \in DOMAIN lines : l \in Nat /\ lines[l] \in Seq(Field)

\* No call of the editor changes a title in the structure: removeCharacter
\* itself does not look at the type, its callers do.
TitlesImmutable ==
    [][\A l \in DOMAIN lines : \A i \in DOMAIN lines[l] :
          lines[l][i].type = "Title" =>
            /\ lines'[l][i].type = "Title"
            /\ lines'[l][i].info = lines[l][i].info]_vars

\* The structure describes the document: a line has no text and no field, or
\* one field that covers it and holds its bytes, and titles are Title fields.
CharsOf(line) == [k \in DOMAIN line |-> line[k].ch]

Describes(fs, line) ==
    \/ line = << >> /\ fs = << >>
    \/ /\ Len(fs) = 1
       /\ fs[1].start = 0 /\ fs[1].end = Len(line)
       /\ fs[1].info = Utf8Bytes(CharsOf(line))
       /\ \A k \in DOMAIN line : line[k].title => fs[1].type = "Title"

Agree ==
    /\ DOMAIN lines \subseteq 0..(Len(doc) - 1)
    /\ \A l \in 0..(Len(doc) - 1) : Describes(FieldsAt(lines, l), LineAt(doc, l))

\* Typing, erasing, titles and names keep the structure in agreement with the
\* document, under the conditions that the code needs and does not check:
\* nothing is selected, the line is ASCII, lines are neither split nor joined,
\* and a title or name is of one line and goes to one never written on.
CarefulStep ==
    /\ ~HasSelection
    /\ \A k \in DOMAIN LineAt(doc, cursor.line) : OneByte(LineAt(doc, cursor.line)[k].ch)
    /\ \/ \E ch \in Chars : OneByte(ch) /\ Key(ch)
       \/ cursor.col > 0 /\ Backspace
       \/ ~AtLineEnd /\ Delete
       \/ AtDocumentEnd /\ Enter
       \/ /\ AtDocumentEnd \/ cursor.line + 1 < Len(doc)
          /\ JumpLine
       \/ /\ LineAt(doc, cursor.line) = << >> /\ FieldsAt(lines, cursor.line) = << >>
          /\ \E text \in Strings : Len(text) = 1 /\ (AddTitle(text) \/ AddName(text))

AgreementKept == [][Agree /\ CarefulStep => Agree']_vars

\* While the structure agrees with the document, no key that goes through the
\* filter erases from a title in the document or writes on a title's line.
TitlePart == [c \in [ch : Chars, title : BOOLEAN] |-> IF c.title THEN <<c>> ELSE << >>]
Titles(text) == FlattenSeq([k \in DOMAIN text |-> TitlePart[text[k]]])
TitleText(d) == Titles(FlattenSeq(d))

UnselectedKey ==
    /\ ~HasSelection
    /\ Enter \/ Backspace \/ Delete \/ \E ch \in Chars : Key(ch)

TitleTextKept ==
    [][Agree /\ UnselectedKey =>
          /\ TitleText(doc') = TitleText(doc)
          /\ (\E ch \in Chars : Key(ch)) =>
                \A i \in DOMAIN doc :
                    (\E k \in DOMAIN doc[i] : doc[i][k].title) => doc'[i] = doc[i]]_vars

\* plaineditor.h:79-80 and dataman.h:153-158: a position of a title is not
\* editable, so no key may erase the text of a title, in any state.
TitleTextProtected ==
    [][UnselectedKey => TitleText(doc') = TitleText(doc)]_vars

=============================================================================
