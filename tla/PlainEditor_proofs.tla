------------------------ MODULE PlainEditor_proofs ------------------------
(***************************************************************************)
(* Theorems about PlainEditor, for every alphabet, text, width of unsigned *)
(* and bound, with the event filter connected or not.  The document is     *)
(* only ever changed by Splice: SpliceProperties says what it leaves of a  *)
(* document and its positions, SpliceText what it leaves of the text.      *)
(* What the structure keeps is in DataMan_proofs.  With the filter         *)
(* connected, careful editing keeps the structure in agreement with the    *)
(* document, and while they agree no key erases from a title.              *)
(***************************************************************************)
EXTENDS PlainEditor, DataMan_proofs

Cell == [ch : Chars, title : BOOLEAN]
Line == Seq(Cell)
Document == Seq(Line)

----------------------------------------------------------------------------
(* Positions. *)

LEMMA PositionElim ==
    ASSUME NEW d, NEW p \in Positions(d)
    PROVE  /\ p = [line |-> p.line, col |-> p.col]
           /\ p.line \in 0..(Len(d) - 1)
           /\ p.col \in 0..Len(LineAt(d, p.line))
  BY DEF Positions

LEMMA PositionIntro ==
    ASSUME NEW d, NEW l \in 0..(Len(d) - 1), NEW c \in 0..Len(LineAt(d, l))
    PROVE  [line |-> l, col |-> c] \in Positions(d)
<1>1. [line |-> l, col |-> c] \in [line : {l}, col : 0..Len(LineAt(d, l))]
  OBVIOUS
<1> QED
  BY <1>1 DEF Positions

LEMMA LineTyped ==
    ASSUME NEW d \in Document, NEW l \in 0..(Len(d) - 1)
    PROVE  LineAt(d, l) \in Line /\ Len(LineAt(d, l)) \in Nat
<1>1. Len(d) \in Nat /\ l + 1 \in 1..Len(d)
  BY LenProperties DEF Document
<1>2. d[l + 1] \in Line
  BY <1>1, ElementOfSeq DEF Document
<1> QED
  BY <1>2, LenProperties DEF LineAt, Line

\* The text of a line left and right of a position.
LEMMA HeadAndTail ==
    ASSUME NEW d \in Document, NEW p \in Positions(d)
    PROVE  /\ HeadOf(d, p) \in Line /\ Len(HeadOf(d, p)) = p.col
           /\ TailOf(d, p) \in Line
<1> DEFINE line == LineAt(d, p.line)
<1>1. p.line \in 0..(Len(d) - 1) /\ p.col \in 0..Len(line)
  BY PositionElim
<1>2. line \in Line /\ Len(line) \in Nat
  BY <1>1, LineTyped
<1>3. \A i \in 1..Len(line) : line[i] \in Cell
  BY <1>2, ElementOfSeq DEF Line
<1> HIDE DEF line
<1>4. SubSeq(line, 1, p.col) \in Seq(Cell) /\ Len(SubSeq(line, 1, p.col)) = p.col
  <2>1. \A i \in 1..p.col : line[i] \in Cell
    BY <1>1, <1>2, <1>3
  <2>2. p.col \in Nat /\ p.col \in Int
    BY <1>1, <1>2
  <2> QED
    BY <2>1, <2>2, SubSeqProperties
<1>5. SubSeq(line, p.col + 1, Len(line)) \in Seq(Cell)
  <2>1. \A i \in (p.col + 1)..Len(line) : line[i] \in Cell
    BY <1>1, <1>2, <1>3
  <2>2. p.col + 1 \in Int /\ Len(line) \in Int
    BY <1>1, <1>2
  <2> QED
    BY <2>1, <2>2, SubSeqProperties
<1> QED
  BY <1>4, <1>5 DEF HeadOf, TailOf, Line, line

----------------------------------------------------------------------------
(* What a replacement leaves of the document. *)

LEMMA SpliceProperties ==
    ASSUME NEW d \in Document, NEW p \in Positions(d), NEW q \in Positions(d),
           p.line <= q.line, NEW ls \in Document, ls # << >>
    PROVE  /\ Splice(d, p, q, ls) \in Document
           /\ Len(Splice(d, p, q, ls)) = p.line + Len(ls) + (Len(d) - q.line - 1)
           /\ p \in Positions(Splice(d, p, q, ls))
           /\ AfterInsert(p, ls) \in Positions(Splice(d, p, q, ls))
<1> DEFINE n == Len(ls)
           a == SubSeq(d, 1, p.line)
           mid == [i \in 1..n |-> (IF i = 1 THEN HeadOf(d, p) ELSE << >>) \o ls[i]
                                  \o (IF i = n THEN TailOf(d, q) ELSE << >>)]
           z == SubSeq(d, q.line + 2, Len(d))
           new == Splice(d, p, q, ls)
<1>1. /\ Len(d) \in Nat /\ p.line \in 0..(Len(d) - 1) /\ q.line \in 0..(Len(d) - 1)
      /\ p.col \in 0..Len(LineAt(d, p.line)) /\ p.col \in Nat
      /\ p = [line |-> p.line, col |-> p.col]
      /\ \A i \in 1..Len(d) : d[i] \in Line
  BY PositionElim, LenProperties, LineTyped, ElementOfSeq DEF Document
<1>2. n \in Nat \ {0} /\ \A i \in 1..n : ls[i] \in Line /\ Len(ls[i]) \in Nat
  BY LenProperties, ElementOfSeq, EmptySeq DEF Document, Line
<1>3. a \in Document /\ Len(a) = p.line
  BY <1>1, SubSeqProperties DEF Document
<1>4. z \in Document /\ Len(z) = Len(d) - q.line - 1
  <2>1. \A i \in (q.line + 2)..Len(d) : d[i] \in Line
    BY <1>1
  <2>2. /\ z \in Document
        /\ Len(z) = IF q.line + 2 <= Len(d) THEN Len(d) - (q.line + 2) + 1 ELSE 0
    BY <1>1, <2>1, SubSeqProperties DEF Document
  <2> HIDE DEF z
  <2> QED
    BY <1>1, <2>2
\* Each line put in is its text, with the head of p's line before the first and
\* the tail of q's line after the last.
<1>5. \A i \in 1..n : /\ mid[i] \in Line
                      /\ Len(mid[i]) \in Nat
                      /\ Len(mid[i]) >= (IF i = 1 THEN p.col ELSE 0) + Len(ls[i])
  <2> TAKE i \in 1..n
  <2> DEFINE h == IF i = 1 THEN HeadOf(d, p) ELSE << >>
             t == IF i = n THEN TailOf(d, q) ELSE << >>
  <2>1. h \in Seq(Cell) /\ Len(h) = IF i = 1 THEN p.col ELSE 0
    BY HeadAndTail, EmptySeq DEF Line
  <2>2. t \in Seq(Cell) /\ Len(t) \in Nat
    BY HeadAndTail, EmptySeq, LenProperties DEF Line
  <2>3. ls[i] \in Seq(Cell) /\ Len(ls[i]) \in Nat
    BY <1>2 DEF Line
  <2>4. mid[i] = h \o ls[i] \o t
    OBVIOUS
  <2> HIDE DEF h, t, mid
  <2>5. h \o ls[i] \in Seq(Cell) /\ Len(h \o ls[i]) = Len(h) + Len(ls[i])
    BY <2>1, <2>3, ConcatProperties
  <2>6. /\ (h \o ls[i]) \o t \in Seq(Cell)
        /\ Len((h \o ls[i]) \o t) = Len(h \o ls[i]) + Len(t)
    BY <2>2, <2>5, ConcatProperties
  <2> QED
    BY <1>1, <2>1, <2>2, <2>3, <2>4, <2>5, <2>6, SMTT(30) DEF Line
<1>6. mid \in Document /\ Len(mid) = n
  <2>1. mid \in [1..n -> Line]
    BY <1>5
  <2> HIDE DEF mid
  <2> QED
    BY <1>2, <2>1, SeqDef, LenProperties DEF Document
<1>7. new = (a \o mid) \o z
  BY DEF Splice
<1> HIDE DEF a, mid, z, new
<1>8. /\ a \o mid \in Document /\ Len(a \o mid) = p.line + n
      /\ \A i \in 1..n : (a \o mid)[p.line + i] = mid[i]
  <2>1. /\ a \o mid \in Seq(Line)
        /\ Len(a \o mid) = Len(a) + Len(mid)
        /\ \A i \in 1..(Len(a) + Len(mid)) :
               (a \o mid)[i] = IF i <= Len(a) THEN a[i] ELSE mid[i - Len(a)]
    BY <1>3, <1>6, ConcatProperties, ZenonT(30) DEF Document
  <2> HIDE DEF n
  <2>2. \A i \in 1..n : /\ p.line + i \in 1..(p.line + n)
                        /\ ~(p.line + i <= p.line) /\ (p.line + i) - p.line = i
    BY <1>1, <1>2
  <2> QED
    BY <1>3, <1>6, <2>1, <2>2 DEF Document
<1>9. /\ new \in Document /\ Len(new) = p.line + n + (Len(d) - q.line - 1)
      /\ \A i \in 1..n : new[p.line + i] = mid[i]
  <2> DEFINE b == a \o mid
  <2>0. b \in Document /\ Len(b) = p.line + n /\ \A i \in 1..n : b[p.line + i] = mid[i]
    BY <1>8
  <2> HIDE DEF b, n
  <2>00. b \in Seq(Line) /\ z \in Seq(Line)
    BY <1>4, <2>0 DEF Document
  <2>1. /\ b \o z \in Seq(Line)
        /\ Len(b \o z) = Len(b) + Len(z)
        /\ \A i \in 1..(Len(b) + Len(z)) :
               (b \o z)[i] = IF i <= Len(b) THEN b[i] ELSE z[i - Len(b)]
    BY <2>00, ConcatProperties
  <2>2. Len(b) + Len(z) = p.line + n + (Len(d) - q.line - 1) /\ Len(z) \in Nat
    BY <1>1, <1>2, <1>4, <2>0
  <2>3. \A i \in 1..n : p.line + i \in 1..(Len(b) + Len(z)) /\ p.line + i <= Len(b)
    BY <1>1, <1>2, <2>0, <2>2, SMTT(30)
  <2> QED
    BY <1>7, <2>0, <2>1, <2>2, <2>3 DEF Document, b
<1>10. \A i \in 1..n :
          /\ p.line + i - 1 \in 0..(Len(new) - 1)
          /\ LineAt(new, p.line + i - 1) = mid[i]
  <2> HIDE DEF n
  <2>1. \A i \in 1..n : (p.line + i - 1) + 1 = p.line + i
    BY <1>1, <1>2
  <2>2. \A i \in 1..n : p.line + i - 1 \in 0..(Len(new) - 1)
    <3>1. Len(d) - q.line - 1 \in Nat /\ p.line \in Nat
      BY <1>1
    <3>2. Len(new) = p.line + n + (Len(d) - q.line - 1)
      BY <1>9
    <3> HIDE DEF new
    <3> QED
      BY <1>2, <3>1, <3>2
  <2> QED
    BY <1>9, <2>1, <2>2 DEF LineAt
<1>11. p \in Positions(new)
  <2>1. 1 \in 1..n /\ p.line + 1 - 1 = p.line
    BY <1>1, <1>2
  <2>2. p.line \in 0..(Len(new) - 1) /\ LineAt(new, p.line) = mid[1]
    BY <1>10, <2>1
  <2>3. Len(mid[1]) \in Nat /\ Len(mid[1]) >= p.col + Len(ls[1]) /\ Len(ls[1]) \in Nat
    BY <1>2, <1>5, <2>1
  <2>4. p.col \in 0..Len(LineAt(new, p.line))
    BY <1>1, <2>2, <2>3
  <2> QED
    BY <1>1, <2>2, <2>4, PositionIntro
<1>12. CASE n = 1
  <2>1. AfterInsert(p, ls) = [line |-> p.line, col |-> p.col + Len(ls[1])]
    BY <1>1, <1>12 DEF AfterInsert
  <2>2. 1 \in 1..n /\ p.line + 1 - 1 = p.line
    BY <1>1, <1>2
  <2>3. p.line \in 0..(Len(new) - 1) /\ LineAt(new, p.line) = mid[1]
    BY <1>10, <2>2
  <2>4. Len(mid[1]) \in Nat /\ Len(mid[1]) >= p.col + Len(ls[1]) /\ Len(ls[1]) \in Nat
    BY <1>2, <1>5, <2>2
  <2>5. p.col + Len(ls[1]) \in 0..Len(LineAt(new, p.line))
    BY <1>1, <2>3, <2>4
  <2>6. AfterInsert(p, ls) \in Positions(new)
    BY <2>1, <2>3, <2>5, PositionIntro
  <2> QED
    BY <1>9, <1>11, <2>6 DEF new
<1>13. CASE n # 1
  <2>1. AfterInsert(p, ls) = [line |-> p.line + n - 1, col |-> Len(ls[n])]
    BY <1>13 DEF AfterInsert
  <2> HIDE DEF n
  <2>2. n \in 1..n /\ n # 1
    BY <1>2, <1>13
  <2>3. p.line + n - 1 \in 0..(Len(new) - 1) /\ LineAt(new, p.line + n - 1) = mid[n]
    BY <1>10, <2>2
  <2>4. Len(mid[n]) \in Nat /\ Len(mid[n]) >= 0 + Len(ls[n]) /\ Len(ls[n]) \in Nat
    BY <1>2, <1>5, <2>2
  <2>5. Len(ls[n]) \in 0..Len(LineAt(new, p.line + n - 1))
    BY <2>3, <2>4
  <2>6. AfterInsert(p, ls) \in Positions(new)
    BY <2>1, <2>3, <2>5, PositionIntro
  <2> QED
    BY <1>9, <1>11, <2>6 DEF new, n
<1> QED
  BY <1>12, <1>13

----------------------------------------------------------------------------
(* The invariant: the document is lines of tagged characters within the    *)
(* bound, both ends of the selection are in it, the structure is vectors of *)
(* fields.  A structure and a document that disagree are no exception.      *)

DocumentOK ==
    /\ doc \in Document /\ Len(doc) \in 1..MaxLines
    /\ cursor \in Positions(doc) /\ anchor \in Positions(doc)

EditorOK == DocumentOK /\ visible \in BOOLEAN /\ LinesTyped(lines)

\* What every step does to the structure.
LinesKept == LinesTyped(lines') /\ AllTitlesKept(lines, lines')

LEMMA UnchangedLines ==
    ASSUME LinesTyped(lines), lines' = lines
    PROVE  LinesKept
  BY DEF LinesKept, LinesTyped, AllTitlesKept, TitlesKept

LEMMA SelectionEnds ==
    ASSUME DocumentOK
    PROVE  /\ SelectionStart \in Positions(doc) /\ SelectionEnd \in Positions(doc)
           /\ SelectionStart.line <= SelectionEnd.line
<1>1. /\ cursor.line \in 0..(Len(doc) - 1) /\ anchor.line \in 0..(Len(doc) - 1)
      /\ Len(doc) \in Nat
  BY PositionElim, LenProperties DEF DocumentOK, Document
<1>2. CASE Before(anchor, cursor)
  BY <1>1, <1>2 DEF DocumentOK, SelectionStart, SelectionEnd, Before
<1>3. CASE ~Before(anchor, cursor)
  BY <1>1, <1>3 DEF DocumentOK, SelectionStart, SelectionEnd, Before
<1> QED
  BY <1>2, <1>3

LEMMA ColumnsAreUInt ==
    ASSUME DocumentOK, visible \in BOOLEAN
    PROVE  ColumnNumber \in UInt /\ FieldColumn \in UInt /\ CurrentLine \in Nat
<1>1. cursor.line \in Nat /\ cursor.col \in Nat
  <2>1. Len(doc) \in Nat /\ cursor.line \in 0..(Len(doc) - 1)
    BY PositionElim, LenProperties DEF DocumentOK, Document
  <2>2. cursor.col \in 0..Len(LineAt(doc, cursor.line))
    BY PositionElim DEF DocumentOK
  <2> QED
    BY <2>1, <2>2
<1>2. cursor.col % UIntMod \in UInt /\ 0 \in UInt
  BY <1>1, DataManAssumption DEF UInt
<1>3. ColumnNumber \in UInt
  BY <1>2 DEF ColumnNumber
<1>4. ColumnNumber \in Nat
  BY <1>3, DataManAssumption DEF UInt
<1>5. FieldColumn \in UInt
  BY <1>2, <1>4, DataManAssumption DEF FieldColumn, UInt
<1> QED
  BY <1>1, <1>3, <1>5 DEF CurrentLine

\* The character left or right of the cursor, where there is one.
LEMMA Neighbours ==
    ASSUME DocumentOK
    PROVE  /\ ~AtDocumentStart => /\ CharLeft \in Positions(doc)
                                  /\ CharLeft.line <= cursor.line
           /\ ~AtDocumentEnd => /\ CharRight \in Positions(doc)
                                /\ cursor.line <= CharRight.line
<1> DEFINE l == cursor.line
           c == cursor.col
<1>1. /\ Len(doc) \in Nat /\ l \in 0..(Len(doc) - 1) /\ c \in 0..Len(LineAt(doc, l))
      /\ cursor = [line |-> l, col |-> c]
      /\ \A m \in 0..(Len(doc) - 1) : Len(LineAt(doc, m)) \in Nat
  BY PositionElim, LenProperties, LineTyped DEF DocumentOK, Document
<1> HIDE DEF l, c
<1>2. ASSUME c > 0
      PROVE  CharLeft \in Positions(doc) /\ CharLeft.line <= cursor.line
  <2>1. CharLeft = [line |-> l, col |-> c - 1]
    BY <1>1, <1>2 DEF CharLeft, c
  <2>2. c - 1 \in 0..Len(LineAt(doc, l))
    BY <1>1, <1>2
  <2>3. CharLeft \in Positions(doc) /\ CharLeft.line <= l
    BY <1>1, <2>1, <2>2, PositionIntro
  <2> QED
    BY <2>3 DEF l
<1>3. ASSUME ~(c > 0), ~AtDocumentStart
      PROVE  CharLeft \in Positions(doc) /\ CharLeft.line <= cursor.line
  <2>1. c = 0 /\ l # 0
    BY <1>1, <1>3 DEF AtDocumentStart
  <2>2. CharLeft = [line |-> l - 1, col |-> Len(LineAt(doc, l - 1))]
    BY <1>3 DEF CharLeft, l, c
  <2>3. l - 1 \in 0..(Len(doc) - 1) /\ l - 1 <= l
    BY <1>1, <2>1
  <2>4. Len(LineAt(doc, l - 1)) \in 0..Len(LineAt(doc, l - 1))
    BY <1>1, <2>3
  <2>5. CharLeft \in Positions(doc) /\ CharLeft.line <= l
    BY <2>2, <2>3, <2>4, PositionIntro
  <2> QED
    BY <2>5 DEF l
<1>4. ASSUME ~AtLineEnd
      PROVE  CharRight \in Positions(doc) /\ cursor.line <= CharRight.line
  <2>1. CharRight = [line |-> l, col |-> c + 1]
    BY <1>1, <1>4 DEF CharRight, c
  <2>2. c # Len(LineAt(doc, l))
    BY <1>4 DEF AtLineEnd, l, c
  <2>3. c + 1 \in 0..Len(LineAt(doc, l)) /\ l <= l
    BY <1>1, <2>2
  <2>4. CharRight \in Positions(doc) /\ l <= CharRight.line
    BY <1>1, <2>1, <2>3, PositionIntro
  <2> QED
    BY <2>4 DEF l
<1>5. ASSUME AtLineEnd, ~AtDocumentEnd
      PROVE  CharRight \in Positions(doc) /\ cursor.line <= CharRight.line
  <2>1. CharRight = [line |-> l + 1, col |-> 0]
    BY <1>5 DEF CharRight, l
  <2>2. l # Len(doc) - 1
    BY <1>5 DEF AtDocumentEnd, l
  <2>3. l + 1 \in 0..(Len(doc) - 1) /\ l <= l + 1
    BY <1>1, <2>2
  <2>4. 0 \in 0..Len(LineAt(doc, l + 1))
    BY <1>1, <2>3
  <2>5. CharRight \in Positions(doc) /\ l <= CharRight.line
    BY <2>1, <2>3, <2>4, PositionIntro
  <2> QED
    BY <2>5 DEF l
<1> QED
  BY <1>2, <1>3, <1>4, <1>5

----------------------------------------------------------------------------
(* The two ways in which a step changes the document. *)

LEMMA InsertOK ==
    ASSUME DocumentOK, NEW ls \in Document, ls # << >>,
           Len(doc) + Len(ls) - 1 <= MaxLines, InsertAtCursor(ls)
    PROVE  DocumentOK'
<1> DEFINE p == SelectionStart
           q == SelectionEnd
           new == Splice(doc, p, q, ls)
<1>1. doc \in Document /\ Len(doc) \in Nat /\ MaxLines \in Nat
  BY PlainEditorAssumption, LenProperties DEF DocumentOK, Document
<1>2. p \in Positions(doc) /\ q \in Positions(doc) /\ p.line <= q.line
  BY SelectionEnds
<1>3. p.line \in 0..(Len(doc) - 1) /\ q.line \in 0..(Len(doc) - 1)
  BY <1>2, PositionElim
<1>4. Len(ls) \in Nat /\ Len(ls) # 0
  BY LenProperties, EmptySeq DEF Document
<1>5. doc' = new /\ cursor' = AfterInsert(p, ls) /\ anchor' = AfterInsert(p, ls)
  BY DEF InsertAtCursor
<1> HIDE DEF p, q
<1>6. /\ new \in Document /\ Len(new) = p.line + Len(ls) + (Len(doc) - q.line - 1)
      /\ AfterInsert(p, ls) \in Positions(new)
  BY <1>1, <1>2, SpliceProperties
<1> HIDE DEF new
<1>7. Len(new) \in 1..MaxLines
  BY <1>1, <1>2, <1>3, <1>4, <1>6
<1> QED
  BY <1>5, <1>6, <1>7 DEF DocumentOK

LEMMA RemoveOK ==
    ASSUME DocumentOK, NEW p \in Positions(doc), NEW q \in Positions(doc),
           p.line <= q.line, RemoveBetween(p, q)
    PROVE  DocumentOK'
<1> DEFINE ls == << << >> >>
           new == Splice(doc, p, q, ls)
<1>1. doc \in Document /\ Len(doc) \in Nat /\ Len(doc) <= MaxLines /\ MaxLines \in Nat
  BY PlainEditorAssumption, LenProperties DEF DocumentOK, Document
<1>2. p.line \in 0..(Len(doc) - 1) /\ q.line \in 0..(Len(doc) - 1)
  BY PositionElim
<1>3. ls \in Document /\ ls # << >> /\ Len(ls) = 1
  BY EmptySeq DEF Document, Line
<1>4. doc' = new /\ cursor' = p /\ anchor' = p
  BY DEF RemoveBetween
<1> HIDE DEF ls
<1>5. /\ new \in Document /\ Len(new) = p.line + Len(ls) + (Len(doc) - q.line - 1)
      /\ p \in Positions(new)
  BY <1>1, <1>3, SpliceProperties
<1> HIDE DEF new
<1>6. Len(new) \in 1..MaxLines
  BY <1>1, <1>2, <1>3, <1>5
<1> QED
  BY <1>4, <1>5, <1>6 DEF DocumentOK

LEMMA TextsTyped ==
    /\ \A str \in Seq(Chars) :
          <<Typed(str)>> \in Document /\ <<Typed(str)>> # << >> /\ Len(<<Typed(str)>>) = 1
    /\ \A text \in Seq(Seq(Chars)) \ {<< >>} :
          /\ TypedText(text) \in Document /\ TypedText(text) # << >>
          /\ Len(TypedText(text)) = Len(text)
          /\ TitledText(text) \in Document /\ TitledText(text) # << >>
          /\ Len(TitledText(text)) = Len(text)
    /\ NewLine \in Document /\ NewLine # << >> /\ Len(NewLine) = 2
<1>1. ASSUME NEW str \in Seq(Chars)
      PROVE  Typed(str) \in Line /\ Titled(str) \in Line
  <2>1. /\ DOMAIN str = 1..Len(str) /\ Len(str) \in Nat
        /\ \A i \in 1..Len(str) : str[i] \in Chars
    BY LenProperties, ElementOfSeq
  <2>2. Typed(str) \in [1..Len(str) -> Cell] /\ Titled(str) \in [1..Len(str) -> Cell]
    BY <2>1 DEF Typed, Titled, Cell
  <2> QED
    BY <2>1, <2>2, SeqDef DEF Line
<1>2. ASSUME NEW str \in Seq(Chars)
      PROVE  <<Typed(str)>> \in Document
  <2> DEFINE x == Typed(str)
  <2>1. x \in Line
    BY <1>1
  <2> HIDE DEF x
  <2>2. <<x>> \in Seq(Line)
    BY <2>1
  <2> QED
    BY <2>2 DEF x, Document
<1>3. NewLine \in Document
  BY EmptySeq DEF NewLine, Document, Line
<1>4. ASSUME NEW text \in Seq(Seq(Chars)) \ {<< >>}, NEW t \in {TypedText(text), TitledText(text)}
      PROVE  t \in Document /\ t # << >> /\ Len(t) = Len(text)
  <2>1. /\ DOMAIN text = 1..Len(text) /\ Len(text) \in Nat
        /\ \A i \in 1..Len(text) : text[i] \in Seq(Chars)
    BY LenProperties, ElementOfSeq
  <2>2. t \in [1..Len(text) -> Line]
    BY <1>1, <2>1 DEF TypedText, TitledText
  <2>3. t \in Seq(Line) /\ Len(t) = Len(text)
    BY <2>1, <2>2, FunctionIsSeq
  <2>4. Len(text) # 0
    BY EmptySeq
  <2> QED
    BY <2>3, <2>4, EmptySeq DEF Document
<1> QED
  BY <1>2, <1>3, <1>4 DEF NewLine

----------------------------------------------------------------------------
(* One lemma for the keys, one for the calls of scripts, one for the rest. *)

\* A key that reaches the structure asked isEditable for the column it passes.
LEMMA KeysKeep ==
    ASSUME EditorOK,
           \/ \E ch \in Chars : Key(ch)
           \/ KeyWithoutText
           \/ Enter
           \/ \E type \in {"Title", "Name"} : FieldKey(type)
    PROVE  EditorOK' /\ LinesKept
<1>1. /\ DocumentOK /\ visible \in BOOLEAN /\ LinesTyped(lines)
      /\ ColumnNumber \in UInt /\ CurrentLine \in Nat
      /\ Len(doc) \in Nat /\ MaxLines \in Nat
  BY ColumnsAreUInt, LenProperties, PlainEditorAssumption DEF EditorOK, DocumentOK, Document
<1>2. ASSUME NEW ch \in Chars, Key(ch)
      PROVE  EditorOK' /\ LinesKept
  <2>1. LinesKept
    <3>1. CASE KeysFiltered
      <4>1. /\ IsEditable(lines, ColumnNumber, CurrentLine)
            /\ lines' = TypeAt(lines, ColumnNumber, CurrentLine, Latin1[ch])
        BY <1>2, <3>1 DEF Key
      <4>2. Latin1[ch] \in Byte
        BY PlainEditorAssumption
      <4> QED
        BY <1>1, <4>1, <4>2, TypeAtTyped DEF LinesKept
    <3>2. CASE ~KeysFiltered
      BY <1>1, <1>2, <3>2, UnchangedLines DEF Key
    <3> QED
      BY <3>1, <3>2
  <2>2. DocumentOK'
    <3>1. Len(doc) <= MaxLines
      BY <1>1 DEF DocumentOK
    <3>2. InsertAtCursor(<<Typed(<<ch>>)>>)
      BY <1>2 DEF Key
    <3> DEFINE ls == <<Typed(<<ch>>)>>
    <3>3. <<ch>> \in Seq(Chars)
      OBVIOUS
    <3>4. ls \in Document /\ ls # << >> /\ Len(ls) = 1
      BY <3>3, TextsTyped
    <3> HIDE DEF ls
    <3>5. Len(doc) + Len(ls) - 1 <= MaxLines
      BY <1>1, <3>1, <3>4
    <3> QED
      BY <1>1, <3>2, <3>4, <3>5, InsertOK DEF ls
  <2>3. visible' = visible
    BY <1>2 DEF Key
  <2> QED
    BY <1>1, <2>1, <2>2, <2>3 DEF EditorOK, LinesKept
<1>3. CASE KeyWithoutText
  <2>1. LinesKept
    BY <1>1, <1>3, TypeAtTyped, PlainEditorAssumption DEF KeyWithoutText, LinesKept
  <2> QED
    BY <1>1, <1>3, <2>1 DEF KeyWithoutText, EditorOK, DocumentOK, LinesKept
<1>4. CASE Enter
  <2>1. LinesKept /\ visible' = visible
    BY <1>1, <1>4, UnchangedLines DEF Enter
  <2>2. /\ NewLine \in Document /\ NewLine # << >>
        /\ Len(doc) + Len(NewLine) - 1 <= MaxLines
    BY <1>1, <1>4, TextsTyped DEF Enter, Room
  <2>3. DocumentOK'
    BY <1>1, <1>4, <2>2, InsertOK DEF Enter
  <2> QED
    BY <1>1, <2>1, <2>3 DEF EditorOK, LinesKept
<1>5. ASSUME NEW type \in {"Title", "Name"}, FieldKey(type)
      PROVE  EditorOK' /\ LinesKept
  <2>1. Utf8Bytes(KeyText) \in Seq(Byte) /\ Len(Utf8Bytes(KeyText)) < UIntMod
    BY PlainEditorAssumption
  <2>2. lines' = AddField(lines, type, Utf8Bytes(KeyText), ColumnNumber, CurrentLine)
    BY <1>5 DEF FieldKey
  <2>3. LinesKept
    BY <1>1, <2>1, <2>2, AddFieldTyped DEF LinesKept
  <2> QED
    BY <1>1, <1>5, <2>3 DEF FieldKey, EditorOK, DocumentOK, LinesKept
<1> QED
  BY <1>2, <1>3, <1>4, <1>5

\* Backspace and Delete erase what they pass to removeCharacter only when it is
\* editable, and a selection only when the filter is not called.
LEMMA ErasingKeeps ==
    ASSUME EditorOK, Backspace \/ Delete \/ CtrlCut
    PROVE  EditorOK' /\ LinesKept
<1>1. /\ DocumentOK /\ visible \in BOOLEAN /\ LinesTyped(lines)
      /\ ColumnNumber \in UInt /\ Inc(ColumnNumber) \in UInt /\ CurrentLine \in Nat
  BY ColumnsAreUInt, UIntArithmetic DEF EditorOK
<1>2. LinesKept
  <2>1. CASE KeysFiltered /\ Backspace
    BY <1>1, <2>1, RemoveCharTyped DEF Backspace, LinesKept
  <2>2. CASE KeysFiltered /\ Delete
    BY <1>1, <2>2, RemoveCharTyped DEF Delete, LinesKept
  <2>3. CASE CtrlCut \/ ~KeysFiltered
    <3>1. lines' = lines
      BY <2>3 DEF CtrlCut, Backspace, Delete
    <3> QED
      BY <1>1, <3>1, UnchangedLines
  <2> QED
    BY <2>1, <2>2, <2>3
<1>3. DocumentOK'
  <2>1. CASE RemoveBetween(SelectionStart, SelectionEnd)
    BY <1>1, <2>1, SelectionEnds, RemoveOK
  <2>2. CASE ~AtDocumentStart /\ RemoveBetween(CharLeft, cursor)
    BY <1>1, <2>2, Neighbours, RemoveOK DEF DocumentOK
  <2>3. CASE ~AtDocumentEnd /\ RemoveBetween(cursor, CharRight)
    BY <1>1, <2>3, Neighbours, RemoveOK DEF DocumentOK
  <2>4. CASE UNCHANGED <<doc, cursor, anchor>>
    BY <1>1, <2>4 DEF DocumentOK
  <2> QED
    BY <2>1, <2>2, <2>3, <2>4 DEF Backspace, Delete, CtrlCut
<1>4. visible' = visible
  BY DEF Backspace, Delete, CtrlCut
<1> QED
  BY <1>1, <1>2, <1>3, <1>4 DEF EditorOK, LinesKept

\* addTitle, addName and writeText: a field is only ever added.
LEMMA ScriptCallsKeep ==
    ASSUME EditorOK, NEW text \in Strings, AddTitle(text) \/ AddName(text) \/ WriteText(text)
    PROVE  EditorOK' /\ LinesKept
<1>1. /\ DocumentOK /\ visible \in BOOLEAN /\ LinesTyped(lines)
      /\ FieldColumn \in UInt /\ CurrentLine \in Nat
      /\ Len(doc) \in Nat /\ Len(doc) <= MaxLines /\ MaxLines \in Nat
  BY ColumnsAreUInt, LenProperties, PlainEditorAssumption DEF EditorOK, DocumentOK, Document
<1>2. /\ text \in Seq(Seq(Chars)) \ {<< >>} /\ Len(text) \in Nat
      /\ TextBytes(text) \in Seq(Byte) /\ Len(TextBytes(text)) < UIntMod
  BY PlainEditorAssumption, LenProperties
<1>3. LinesKept
  <2>1. CASE AddTitle(text)
    <3>1. lines' = AddField(lines, "Title", TextBytes(text), FieldColumn, CurrentLine)
      BY <2>1 DEF AddTitle
    <3> QED
      BY <1>1, <1>2, <3>1, AddFieldTyped DEF LinesKept
  <2>2. CASE AddName(text)
    <3>1. lines' = AddField(lines, "Name", TextBytes(text), FieldColumn, CurrentLine)
      BY <2>2 DEF AddName
    <3> QED
      BY <1>1, <1>2, <3>1, AddFieldTyped DEF LinesKept
  <2>3. CASE WriteText(text)
    BY <1>1, <2>3, UnchangedLines DEF WriteText
  <2> QED
    BY <2>1, <2>2, <2>3
<1>4. DocumentOK'
  <2>1. PICK ls \in {TypedText(text), TitledText(text)} : InsertAtCursor(ls)
    BY DEF AddTitle, AddName, WriteText
  <2>2. ls \in Document /\ ls # << >> /\ Len(ls) = Len(text)
    BY <1>2, <2>1, TextsTyped
  <2>3. Len(doc) + (Len(text) - 1) <= MaxLines
    BY DEF AddTitle, AddName, WriteText, RoomForText, Room
  <2>4. Len(doc) + Len(ls) - 1 <= MaxLines
    BY <1>1, <1>2, <2>2, <2>3
  <2> QED
    BY <1>1, <2>1, <2>2, <2>4, InsertOK
<1>5. visible' = visible
  BY DEF AddTitle, AddName, WriteText
<1> QED
  BY <1>1, <1>3, <1>4, <1>5 DEF EditorOK, LinesKept

\* jumpLine and moveToLine, when the line exists and when it is made.
LEMMA JumpsKeep ==
    ASSUME EditorOK, JumpLine \/ \E n \in 0..(MaxLines - 1) : MoveToLine(n)
    PROVE  EditorOK' /\ LinesKept
<1> DEFINE p == SelectionStart
           q == SelectionEnd
<1>1. /\ DocumentOK /\ visible \in BOOLEAN /\ LinesTyped(lines)
      /\ doc \in Document /\ Len(doc) \in Nat \ {0} /\ Len(doc) <= MaxLines /\ MaxLines \in Nat
      /\ cursor.line \in 0..(Len(doc) - 1) /\ cursor.line \in Nat
  BY PositionElim, LenProperties, PlainEditorAssumption DEF EditorOK, DocumentOK, Document
<1>2. LinesKept /\ visible' = visible
  BY <1>1, UnchangedLines DEF JumpLine, MoveToLine
<1>3. /\ p \in Positions(doc) /\ q \in Positions(doc)
      /\ p.line = cursor.line /\ q.line = cursor.line
  <2>1. anchor.line = cursor.line
    BY DEF JumpLine, MoveToLine, SelectionOnOneLine
  <2> QED
    BY <1>1, <2>1, SelectionEnds DEF SelectionStart, SelectionEnd
\* Both go to the first column of a line n, of a document that has it.
<1> DEFINE Goes(n, ls) ==
               /\ cursor' = [line |-> n, col |-> 0] /\ anchor' = cursor'
               /\ \/ n < Len(doc) /\ doc' = doc
                  \/ /\ n >= Len(doc) /\ ls # << >> /\ Len(ls) = n - Len(doc) + 2
                     /\ doc' = Splice(doc, p, q, ls)
<1>4. \E n \in 0..(MaxLines - 1), ls \in Document : Goes(n, ls)
  <2>1. CASE JumpLine
    <3> DEFINE n == cursor.line + 1
    <3>1. /\ NewLine \in Document /\ NewLine # << >> /\ Len(NewLine) = 2
      BY TextsTyped
    <3>2. cursor' = [line |-> n, col |-> 0] /\ anchor' = cursor'
      BY <2>1 DEF JumpLine
    <3>3. CASE n < Len(doc)
      <4>1. doc' = doc /\ n \in 0..(MaxLines - 1)
        BY <1>1, <2>1, <3>3 DEF JumpLine
      <4> QED
        BY <3>1, <3>2, <3>3, <4>1
    <3>4. CASE ~(n < Len(doc))
      <4>1. doc' = Splice(doc, p, q, NewLine) /\ Len(doc) + 1 <= MaxLines
        BY <2>1, <3>4 DEF JumpLine, Room
      <4>2. n = Len(doc) /\ n \in 0..(MaxLines - 1)
        BY <1>1, <3>4, <4>1
      <4>3. n >= Len(doc) /\ Len(NewLine) = n - Len(doc) + 2
        BY <1>1, <3>1, <4>2
      <4> QED
        BY <3>1, <3>2, <4>1, <4>2, <4>3
    <3> QED
      BY <3>3, <3>4
  <2>2. ASSUME NEW n \in 0..(MaxLines - 1), MoveToLine(n)
        PROVE  \E ls \in Document : Goes(n, ls)
    <3> DEFINE ls == [i \in 1..(n - Len(doc) + 2) |-> << >>]
    <3>1. CASE n < Len(doc)
      BY <2>2, <3>1, TextsTyped DEF MoveToLine
    <3>2. CASE ~(n < Len(doc))
      <4>1. n \in Nat /\ n >= Len(doc) /\ n - Len(doc) + 2 \in Nat \ {0}
        BY <1>1, <3>2
      <4>2. ls \in [1..(n - Len(doc) + 2) -> Line]
        BY EmptySeq DEF Line
      <4>3. cursor' = [line |-> n, col |-> 0] /\ anchor' = cursor' /\ doc' = Splice(doc, p, q, ls)
        BY <2>2, <3>2 DEF MoveToLine
      <4> HIDE DEF ls
      <4>4. ls \in Seq(Line) /\ Len(ls) = n - Len(doc) + 2
        BY <4>1, <4>2, SeqDef, LenProperties
      <4>5. ls \in Document /\ ls # << >>
        BY <4>1, <4>4, EmptySeq DEF Document
      <4> QED
        BY <4>1, <4>3, <4>4, <4>5
    <3> QED
      BY <3>1, <3>2
  <2> QED
    BY <2>1, <2>2
<1>5. DocumentOK'
  <2> HIDE DEF p, q
  <2>1. PICK n \in 0..(MaxLines - 1), ls \in Document : Goes(n, ls)
    BY <1>4
  <2>2. n \in Nat /\ n <= MaxLines - 1
    BY <1>1, <2>1
  <2>3. doc' \in Document /\ Len(doc') \in 1..MaxLines /\ n \in 0..(Len(doc') - 1)
    <3>1. CASE n < Len(doc) /\ doc' = doc
      BY <1>1, <2>2, <3>1
    <3>2. CASE /\ n >= Len(doc) /\ ls # << >> /\ Len(ls) = n - Len(doc) + 2
               /\ doc' = Splice(doc, p, q, ls)
      <4> DEFINE new == Splice(doc, p, q, ls)
      <4>1. p.line <= q.line
        BY <1>1, <1>3
      <4>2. new \in Document /\ Len(new) = p.line + Len(ls) + (Len(doc) - q.line - 1)
        BY <1>1, <1>3, <3>2, <4>1, SpliceProperties
      <4>3. doc' = new
        BY <3>2
      <4> HIDE DEF new
      <4>4. Len(new) = n + 1
        <5>1. Len(new) = cursor.line + Len(ls) + (Len(doc) - cursor.line - 1)
          BY <1>3, <4>2
        <5>2. Len(ls) = n - Len(doc) + 2
          BY <3>2
        <5> QED
          BY <1>1, <2>2, <5>1, <5>2
      <4> QED
        BY <1>1, <2>2, <4>2, <4>3, <4>4
    <3> QED
      BY <2>1, <3>1, <3>2
  <2>4. Len(LineAt(doc', n)) \in Nat
    BY <2>3, LineTyped
  <2>5. 0 \in 0..Len(LineAt(doc', n))
    BY <2>4
  <2>6. [line |-> n, col |-> 0] \in Positions(doc')
    BY <2>3, <2>5, PositionIntro
  <2> QED
    BY <2>1, <2>3, <2>6 DEF DocumentOK
<1> QED
  BY <1>1, <1>2, <1>5 DEF EditorOK, LinesKept

----------------------------------------------------------------------------
(* Invariance. *)

LEMMA InitOK == Init => EditorOK
<1> SUFFICES ASSUME Init PROVE EditorOK
  OBVIOUS
<1>1. doc = << << >> >> /\ doc \in Document /\ Len(doc) = 1 /\ MaxLines \in Nat \ {0}
  BY EmptySeq, PlainEditorAssumption DEF Init, Document, Line
<1>2. 0 \in 0..(Len(doc) - 1) /\ 0 \in 0..Len(LineAt(doc, 0))
  BY <1>1 DEF LineAt
<1>3. cursor \in Positions(doc) /\ anchor = cursor
  BY <1>2, PositionIntro DEF Init
<1>4. LinesTyped(lines) /\ visible \in BOOLEAN
  BY EmptySeq DEF Init, LinesTyped
<1> QED
  BY <1>1, <1>3, <1>4 DEF EditorOK, DocumentOK

LEMMA NextOK == EditorOK /\ [Next]_vars => EditorOK' /\ LinesKept
<1> SUFFICES ASSUME EditorOK, [Next]_vars
             PROVE  EditorOK' /\ LinesKept
  OBVIOUS
<1>1. ASSUME NEW p \in Positions(doc), NEW select \in BOOLEAN, MoveCursor(p, select)
      PROVE  EditorOK' /\ LinesKept
  BY <1>1, UnchangedLines DEF MoveCursor, EditorOK, DocumentOK, LinesKept
<1>2. CASE (\E ch \in Chars : Key(ch)) \/ KeyWithoutText \/ Enter
           \/ \E type \in {"Title", "Name"} : FieldKey(type)
  BY <1>2, KeysKeep
<1>3. ASSUME NEW ch \in Chars, CtrlPaste(ch)
      PROVE  EditorOK' /\ LinesKept
  <2>1. LinesKept /\ visible' = visible /\ DocumentOK
    BY <1>3, UnchangedLines DEF CtrlPaste, EditorOK
  <2> DEFINE ls == <<Typed(<<ch>>)>>
  <2>2. <<ch>> \in Seq(Chars)
    OBVIOUS
  <2>3. ls \in Document /\ ls # << >> /\ Len(ls) = 1
    BY <2>2, TextsTyped
  <2>4. InsertAtCursor(ls)
    BY <1>3 DEF CtrlPaste
  <2> HIDE DEF ls
  <2>5. Len(doc) \in Nat /\ Len(doc) <= MaxLines /\ MaxLines \in Nat
    BY <2>1, LenProperties, PlainEditorAssumption DEF DocumentOK, Document
  <2>6. Len(doc) + Len(ls) - 1 <= MaxLines
    BY <2>3, <2>5
  <2>7. DocumentOK'
    BY <2>1, <2>3, <2>4, <2>6, InsertOK
  <2> QED
    BY <2>1, <2>7 DEF EditorOK, LinesKept
<1>4. CASE Backspace \/ Delete \/ CtrlCut
  BY <1>4, ErasingKeeps
<1>5. ASSUME NEW text \in Strings, AddTitle(text) \/ AddName(text) \/ WriteText(text)
      PROVE  EditorOK' /\ LinesKept
  BY <1>5, ScriptCallsKeep
<1>6. CASE JumpLine \/ \E n \in 0..(MaxLines - 1) : MoveToLine(n)
  BY <1>6, JumpsKeep
<1>7. CASE SwitchTab
  BY <1>7, UnchangedLines DEF SwitchTab, EditorOK, DocumentOK, LinesKept
<1>8. CASE UNCHANGED vars
  BY <1>8, UnchangedLines DEF vars, EditorOK, DocumentOK, LinesKept
<1> QED
  BY <1>1, <1>2, <1>3, <1>4, <1>5, <1>6, <1>7, <1>8 DEF Next

LEMMA EditorOKTyped == EditorOK => TypeOK
<1> SUFFICES ASSUME EditorOK PROVE TypeOK
  OBVIOUS
<1>1. doc \in Document /\ DOMAIN doc = 1..Len(doc) /\ \A i \in 1..Len(doc) : doc[i] \in Line
  BY LenProperties, ElementOfSeq DEF EditorOK, DocumentOK, Document
<1>2. ASSUME NEW i \in DOMAIN doc, NEW k \in DOMAIN doc[i]
      PROVE  doc[i][k] \in [ch : Chars, title : BOOLEAN]
  BY <1>1, LenProperties, ElementOfSeq DEF Line, Cell
<1> QED
  BY <1>2 DEF EditorOK, DocumentOK, LinesTyped, TypeOK

LEMMA Invariance == Spec => []EditorOK
<1>1. Init => EditorOK
  BY InitOK
<1>2. EditorOK /\ [Next]_vars => EditorOK'
  BY NextOK
<1> QED
  BY <1>1, <1>2, PTL DEF Spec

\* The cursor and the selection never leave the document, whatever scripts and
\* keys do in whatever order, and the structure holds only fields.
THEOREM TypeCorrect == Spec => []TypeOK
  BY Invariance, EditorOKTyped, PTL

\* No step of the editor, by a key or by a script, changes a title of the
\* structure, although removeCharacter would: isEditable is always asked first.
THEOREM TitlesAreImmutable == Spec => TitlesImmutable
<1>1. EditorOK /\ [Next]_vars => AllTitlesKept(lines, lines')
  BY NextOK DEF LinesKept
<1>2. AllTitlesKept(lines, lines') =>
        \A l \in DOMAIN lines : \A i \in DOMAIN lines[l] :
            lines[l][i].type = "Title" =>
              /\ lines'[l][i].type = "Title"
              /\ lines'[l][i].info = lines[l][i].info
  BY DEF AllTitlesKept, TitlesKept
<1> QED
  BY <1>1, <1>2, Invariance, PTL DEF Spec, TitlesImmutable

----------------------------------------------------------------------------
(* Bytes of a text: one code point for each character, and one byte for    *)
(* each where only those are used that CarefulStep allows.                 *)

LEMMA Utf8SeqValued == SeqValued(Utf8, Chars, Byte)
  BY PlainEditorAssumption DEF SeqValued

LEMMA Utf8BytesParts ==
    ASSUME NEW s \in Seq(Chars), NEW t \in Seq(Chars), NEW ch \in Chars
    PROVE  /\ Utf8Bytes(s) \in Seq(Byte)
           /\ Utf8Bytes(s \o t) = Utf8Bytes(s) \o Utf8Bytes(t)
           /\ Utf8Bytes(<< >>) = << >>
           /\ Utf8Bytes(<<ch>>) = Utf8[ch]
<1>1. \A r : Utf8Bytes(r) = FlatMap(Utf8, r)
  BY DEF Utf8Bytes, FlatMap, EachMapped
<1>2. FlatMap(Utf8, s) \in Seq(Byte)
  BY Utf8SeqValued, FlatMapType
<1>3. FlatMap(Utf8, s \o t) = FlatMap(Utf8, s) \o FlatMap(Utf8, t)
  BY Utf8SeqValued, FlatMapConcat
<1>4. FlatMap(Utf8, << >>) = << >>
  BY FlatMapEmpty
<1>5. FlatMap(Utf8, <<ch>>) = Utf8[ch]
  BY Utf8SeqValued, FlatMapSingleton
<1> QED
  BY <1>1, <1>2, <1>3, <1>4, <1>5

\* What Utf8StringSize counts grows by one with each character.
LEMMA SizeOfOneMore ==
    ASSUME NEW s \in Seq(Byte), NEW b \in Seq(Byte), Encoded(b)
    PROVE  Utf8StringSize(s \o b) = Utf8StringSize(s) + 1
<1> DEFINE u == s \o b
           Of(r) == {i \in DOMAIN r : i = 1 \/ r[i] \notin Continuation}
           n == Len(s)
<1>1. b \in Seq(Byte) /\ Len(b) \in Nat \ {0} /\ DOMAIN b = 1..Len(b)
  BY EmptySeq, LenProperties DEF Encoded
<1>2. n \in Nat /\ DOMAIN s = 1..n
  BY LenProperties
<1>3. /\ DOMAIN u = 1..(n + Len(b))
      /\ \A i \in 1..(n + Len(b)) : u[i] = IF i <= n THEN s[i] ELSE b[i - n]
  BY <1>1, ConcatProperties, LenProperties
<1> HIDE DEF u, n
<1>4. \A i \in 1..(n + Len(b)) : i \in Of(u) <=> i \in Of(s) \/ i = n + 1
  <2> TAKE i \in 1..(n + Len(b))
  <2>1. CASE i <= n
    BY <1>1, <1>2, <1>3, <2>1
  <2>2. CASE ~(i <= n)
    <3>1. i - n \in 1..Len(b) /\ i \notin 1..n /\ (i - n = 1 <=> i = n + 1)
      BY <1>1, <1>2, <2>2
    <3>2. u[i] = b[i - n] /\ i \in DOMAIN u
      BY <1>3, <2>2
    <3>3. u[i] \notin Continuation <=> i = n + 1
      BY <1>1, <3>1, <3>2 DEF Encoded
    <3>4. i = 1 => i = n + 1
      BY <1>2, <3>1
    <3> QED
      BY <1>2, <3>1, <3>2, <3>3, <3>4
  <2> QED
    BY <2>1, <2>2
<1>5. Of(u) = Of(s) \cup {n + 1}
  <2>1. n + 1 \in 1..(n + Len(b)) /\ Of(s) \subseteq 1..(n + Len(b)) /\ Of(u) \subseteq 1..(n + Len(b))
    BY <1>1, <1>2, <1>3
  <2> HIDE DEF Of
  <2> QED
    BY <1>4, <2>1
<1>6. IsFiniteSet(Of(s)) /\ n + 1 \notin Of(s)
  <2>1. Of(s) \subseteq 1..n /\ n + 1 \notin 1..n
    BY <1>2
  <2> HIDE DEF Of
  <2> QED
    BY <1>2, <2>1, FS_Interval, FS_Subset
<1>7. Cardinality(Of(u)) = Cardinality(Of(s)) + 1
  <2> HIDE DEF Of
  <2> QED
    BY <1>5, <1>6, FS_AddElement
<1> QED
  BY <1>7 DEF Utf8StringSize, u

LEMMA SizeOfEmpty == Utf8StringSize(<< >>) = 0
<1>1. {i \in DOMAIN << >> : i = 1 \/ << >>[i] \notin Continuation} = {}
  OBVIOUS
<1> QED
  BY <1>1, FS_EmptySet DEF Utf8StringSize

\* The size of a field that addTitle adds is the number of characters.
LEMMA SizeIsLength ==
    ASSUME NEW str \in Seq(Chars)
    PROVE  Utf8StringSize(Utf8Bytes(str)) = Len(str)
<1> DEFINE Bad(n) == \E s \in Seq(Chars) : Len(s) = n /\ Utf8StringSize(Utf8Bytes(s)) # n
           T == {n \in Nat : Bad(n)}
<1>1. SUFFICES ASSUME T # {} PROVE FALSE
  BY LenProperties
<1>2. PICK n \in T : \A j \in T : n <= j
  <2>1. T \subseteq Nat
    OBVIOUS
  <2> HIDE DEF T
  <2> QED BY <1>1, <2>1, MinExists
<1>3. PICK s \in Seq(Chars) : Len(s) = n /\ Utf8StringSize(Utf8Bytes(s)) # n
  OBVIOUS
<1>4. n \in Nat /\ \A j \in Nat : j < n => ~Bad(j)
  BY <1>2
<1> HIDE DEF T
<1>5. CASE s = << >>
  <2>1. Utf8Bytes(<< >>) = << >>
    BY FlatMapEmpty DEF Utf8Bytes, FlatMap, EachMapped
  <2>2. n = 0
    BY <1>3, <1>5, EmptySeq
  <2> QED
    BY <1>3, <1>5, <2>1, <2>2, SizeOfEmpty
<1>6. CASE s # << >>
  <2>1. PICK front \in Seq(Chars) : /\ Len(front) = Len(s) - 1 /\ s[Len(s)] \in Chars
                                    /\ s = Append(front, s[Len(s)])
    BY <1>6, FrontAndLast
  <2>2. PICK ch \in Chars : s = Append(front, ch)
    BY <2>1
  <2>3. s = front \o <<ch>> /\ <<ch>> \in Seq(Chars)
    BY <2>2, AppendIsConcat
  <2>4. Utf8Bytes(s) = Utf8Bytes(front) \o Utf8[ch] /\ Utf8Bytes(front) \in Seq(Byte)
    BY <2>3, Utf8BytesParts
  <2>5. Utf8StringSize(Utf8Bytes(s)) = Utf8StringSize(Utf8Bytes(front)) + 1
    BY <2>4, SizeOfOneMore, PlainEditorAssumption
  <2>6. n # 0
    BY <1>3, <1>6, EmptySeq
  <2>7. n - 1 \in Nat /\ n - 1 < n /\ Len(front) = n - 1
    BY <1>3, <1>4, <2>1, <2>6
  <2>8. ~Bad(n - 1)
    BY <1>4, <2>7
  <2>9. Utf8StringSize(Utf8Bytes(front)) = n - 1
    BY <2>7, <2>8
  <2> HIDE DEF Bad
  <2> QED
    BY <1>3, <1>4, <2>5, <2>9
<1> QED
  BY <1>5, <1>6

Ascii(str) == \A k \in DOMAIN str : OneByte(str[k])

LEMMA AsciiLength ==
    ASSUME NEW str \in Seq(Chars), Ascii(str)
    PROVE  Len(Utf8Bytes(str)) = Len(str)
<1> DEFINE Bad(n) == \E s \in Seq(Chars) : Ascii(s) /\ Len(s) = n /\ Len(Utf8Bytes(s)) # n
           T == {n \in Nat : Bad(n)}
<1>1. SUFFICES ASSUME T # {} PROVE FALSE
  BY LenProperties
<1>2. PICK n \in T : \A j \in T : n <= j
  <2>1. T \subseteq Nat
    OBVIOUS
  <2> HIDE DEF T
  <2> QED BY <1>1, <2>1, MinExists
<1>3. PICK s \in Seq(Chars) : Ascii(s) /\ Len(s) = n /\ Len(Utf8Bytes(s)) # n
  OBVIOUS
<1>4. n \in Nat /\ \A j \in Nat : j < n => ~Bad(j)
  BY <1>2
<1> HIDE DEF T
<1>5. CASE s = << >>
  <2>1. Utf8Bytes(<< >>) = << >>
    BY FlatMapEmpty DEF Utf8Bytes, FlatMap, EachMapped
  <2> QED
    BY <1>3, <1>5, <2>1
<1>6. CASE s # << >>
  <2>1. PICK front \in Seq(Chars) : /\ Len(front) = Len(s) - 1 /\ s[Len(s)] \in Chars
                                    /\ s = Append(front, s[Len(s)])
    BY <1>6, FrontAndLast
  <2>2. PICK ch \in Chars : s = Append(front, ch)
    BY <2>1
  <2>3. s = front \o <<ch>> /\ <<ch>> \in Seq(Chars)
    BY <2>2, AppendIsConcat
  <2>4. Utf8Bytes(s) = Utf8Bytes(front) \o Utf8[ch] /\ Utf8Bytes(front) \in Seq(Byte)
    BY <2>3, Utf8BytesParts
  <2>5. Ascii(front) /\ OneByte(ch)
    <3>1. /\ DOMAIN front = 1..Len(front) /\ DOMAIN s = 1..(Len(front) + 1) /\ Len(front) \in Nat
          /\ \A k \in 1..Len(front) : s[k] = front[k]
          /\ s[Len(front) + 1] = ch
      BY <2>2, LenProperties, AppendProperties
    <3> QED
      BY <1>3, <3>1 DEF Ascii
  <2>6. n # 0
    BY <1>3, <1>6, EmptySeq
  <2>7. n - 1 \in Nat /\ n - 1 < n /\ Len(front) = n - 1
    BY <1>3, <1>4, <2>1, <2>6
  <2>8. ~Bad(n - 1)
    BY <1>4, <2>7
  <2>9. Len(Utf8Bytes(front)) = n - 1
    BY <2>5, <2>7, <2>8
  <2> HIDE DEF Bad
  <2>10. <<Latin1[ch]>> \in Seq(Byte) /\ Len(<<Latin1[ch]>>) = 1 /\ Utf8[ch] = <<Latin1[ch]>>
    BY <2>5, PlainEditorAssumption DEF OneByte
  <2>11. Len(Utf8Bytes(s)) = Len(Utf8Bytes(front)) + 1
    BY <2>4, <2>10, ConcatProperties
  <2> QED
    BY <1>3, <1>4, <2>9, <2>11
<1> QED
  BY <1>5, <1>6

----------------------------------------------------------------------------
(* The text of a document: what is left of a position and what is right.   *)

LEMMA LineParts ==
    ASSUME NEW d \in Document, NEW p \in Positions(d)
    PROVE  LineAt(d, p.line) = HeadOf(d, p) \o TailOf(d, p)
<1> DEFINE line == LineAt(d, p.line)
<1>1. p.line \in 0..(Len(d) - 1) /\ p.col \in 0..Len(line)
  BY PositionElim
<1>2. line \in Seq(Cell) /\ Len(line) \in Nat
  BY <1>1, LineTyped DEF Line
<1> HIDE DEF line
<1>3. 1 \in 1..(Len(line) + 1) /\ p.col \in (1 - 1)..Len(line) /\ Len(line) \in p.col..Len(line)
  BY <1>1, <1>2
<1>4. SubSeq(line, 1, p.col) \o SubSeq(line, p.col + 1, Len(line)) = SubSeq(line, 1, Len(line))
  BY <1>2, <1>3, ConcatAdjacentSubSeq
<1>5. SubSeq(line, 1, Len(line)) = line
  BY <1>2, SubSeqFull
<1> QED
  BY <1>4, <1>5 DEF HeadOf, TailOf, line

\* The lines before and after line l.
LinesBefore(d, l) == SubSeq(d, 1, l)
LinesAfter(d, l) == SubSeq(d, l + 2, Len(d))

LEMMA LinesAround ==
    ASSUME NEW d \in Document, NEW l \in 0..(Len(d) - 1)
    PROVE  /\ LinesBefore(d, l) \in Document /\ Len(LinesBefore(d, l)) = l
           /\ LinesAfter(d, l) \in Document /\ Len(LinesAfter(d, l)) = Len(d) - l - 1
           /\ \A i \in 1..l : LinesBefore(d, l)[i] = d[i]
           /\ \A i \in 1..(Len(d) - l - 1) : LinesAfter(d, l)[i] = d[l + 1 + i]
           /\ d = LinesBefore(d, l) \o <<LineAt(d, l)>> \o LinesAfter(d, l)
<1>1. Len(d) \in Nat /\ l \in Nat /\ l + 1 \in 1..Len(d) /\ \A i \in 1..Len(d) : d[i] \in Line
  BY LenProperties, ElementOfSeq DEF Document
<1> DEFINE a == LinesBefore(d, l)
           z == LinesAfter(d, l)
<1>2. a \in Seq(Line) /\ Len(a) = l /\ \A i \in 1..l : a[i] = d[i]
  <2>1. \A i \in 1..l : d[i] \in Line /\ 1 + i - 1 = i
    BY <1>1
  <2>2. /\ SubSeq(d, 1, l) \in Seq(Line)
        /\ Len(SubSeq(d, 1, l)) = IF 1 <= l THEN l - 1 + 1 ELSE 0
        /\ \A i \in 1..(l - 1 + 1) : SubSeq(d, 1, l)[i] = d[1 + i - 1]
    BY <1>1, <2>1, SubSeqProperties
  <2>3. a = SubSeq(d, 1, l)
    BY DEF LinesBefore
  <2> HIDE DEF a
  <2> QED
    BY <1>1, <2>1, <2>2, <2>3
<1>3. z \in Seq(Line) /\ Len(z) = Len(d) - l - 1 /\ \A i \in 1..(Len(d) - l - 1) : z[i] = d[l + 1 + i]
  <2> DEFINE n == Len(d)
             k == l + 2
  <2>1. n \in Int /\ k \in Int /\ \A i \in k..n : d[i] \in Line
    BY <1>1
  <2>2. /\ n - k + 1 = n - l - 1 /\ (k <= n <=> n - l - 1 > 0) /\ n - l - 1 \in Nat
        /\ \A i \in 1..(n - l - 1) : k + i - 1 = l + 1 + i
    BY <1>1
  <2> HIDE DEF n, k
  <2>3. /\ SubSeq(d, k, n) \in Seq(Line)
        /\ Len(SubSeq(d, k, n)) = IF k <= n THEN n - k + 1 ELSE 0
        /\ \A i \in 1..(n - k + 1) : SubSeq(d, k, n)[i] = d[k + i - 1]
    BY <2>1, SubSeqProperties
  <2>4. z = SubSeq(d, k, n)
    BY DEF LinesAfter, k, n
  <2> HIDE DEF z
  <2>5. z \in Seq(Line) /\ Len(z) = n - l - 1 /\ \A i \in 1..(n - l - 1) : z[i] = d[l + 1 + i]
    BY <2>2, <2>3, <2>4
  <2> QED
    BY <2>5 DEF n
<1>4. d = a \o <<LineAt(d, l)>> \o z
  <2> DEFINE x == LineAt(d, l)
             ax == a \o <<x>>
  <2>1. x = d[l + 1] /\ x \in Line
    BY <1>1 DEF LineAt
  <2> HIDE DEF a, z, x
  <2>2. <<x>> \in Seq(Line) /\ Len(<<x>>) = 1 /\ <<x>>[1] = x
    BY <2>1
  <2>3. /\ ax \in Seq(Line) /\ Len(ax) = l + 1
        /\ \A i \in 1..(l + 1) : ax[i] = IF i <= l THEN a[i] ELSE <<x>>[i - l]
    <3>1. /\ ax \in Seq(Line) /\ Len(ax) = Len(a) + Len(<<x>>)
          /\ \A i \in 1..(Len(a) + Len(<<x>>)) : ax[i] = IF i <= Len(a) THEN a[i] ELSE <<x>>[i - Len(a)]
      BY <1>2, <2>2, ConcatProperties
    <3> QED
      BY <1>2, <2>2, <3>1
  <2>4. \A i \in 1..(l + 1) : ax[i] = d[i]
    <3>1. \A i \in 1..(l + 1) : i \in 1..l \/ (i = l + 1 /\ ~(i <= l) /\ i - l = 1)
      BY <1>1
    <3> QED
      BY <1>2, <2>1, <2>2, <2>3, <3>1
  <2> HIDE DEF ax
  <2>5. /\ ax \o z \in Seq(Line) /\ Len(ax \o z) = Len(ax) + Len(z)
        /\ \A i \in 1..(Len(ax) + Len(z)) : (ax \o z)[i] = IF i <= Len(ax) THEN ax[i] ELSE z[i - Len(ax)]
    <3>1. ax \in Seq(Line) /\ z \in Seq(Line)
      BY <1>3, <2>3
    <3> QED
      BY <3>1, ConcatProperties
  <2>6. Len(ax) + Len(z) = Len(d)
    BY <1>1, <1>3, <2>3
  <2>7. \A i \in 1..Len(d) : (ax \o z)[i] = d[i]
    <3> TAKE i \in 1..Len(d)
    <3>1. CASE i <= l + 1
      BY <2>3, <2>4, <2>5, <2>6, <3>1
    <3>2. CASE ~(i <= l + 1)
      <4>1. i - (l + 1) \in 1..(Len(d) - l - 1) /\ l + 1 + (i - (l + 1)) = i
        BY <1>1, <3>2
      <4> QED
        BY <1>3, <2>3, <2>5, <2>6, <3>2, <4>1
    <3> QED
      BY <3>1, <3>2
  <2>8. d \in Seq(Line)
    BY DEF Document
  <2>9. ax \o z = d
    BY <2>5, <2>6, <2>7, <2>8, SeqEqual
  <2> QED
    BY <2>9 DEF ax, x
<1> QED
  BY <1>2, <1>3, <1>4 DEF Document

TextBefore(d, p) == FlattenSeq(LinesBefore(d, p.line)) \o HeadOf(d, p)
TextAfter(d, p) == TailOf(d, p) \o FlattenSeq(LinesAfter(d, p.line))

LEMMA TextTyped ==
    ASSUME NEW d \in Document, NEW p \in Positions(d)
    PROVE  /\ TextBefore(d, p) \in Line /\ TextAfter(d, p) \in Line
           /\ FlattenSeq(LinesBefore(d, p.line)) \in Line
           /\ FlattenSeq(LinesAfter(d, p.line)) \in Line
<1>1. p.line \in 0..(Len(d) - 1)
  BY PositionElim
<1>2. LinesBefore(d, p.line) \in Seq(Seq(Cell)) /\ LinesAfter(d, p.line) \in Seq(Seq(Cell))
  BY <1>1, LinesAround DEF Document, Line
<1>3. /\ FlattenSeq(LinesBefore(d, p.line)) \in Seq(Cell)
      /\ FlattenSeq(LinesAfter(d, p.line)) \in Seq(Cell)
  BY <1>2, FlattenType
<1>4. HeadOf(d, p) \in Seq(Cell) /\ TailOf(d, p) \in Seq(Cell)
  BY HeadAndTail DEF Line
<1> QED
  BY <1>3, <1>4, ConcatProperties DEF TextBefore, TextAfter, Line

\* The text of lines a, s between them, and lines z.
LEMMA FlattenThree ==
    ASSUME NEW a \in Document, NEW m \in Document, NEW z \in Document
    PROVE  FlattenSeq(a \o m \o z) = FlattenSeq(a) \o FlattenSeq(m) \o FlattenSeq(z)
<1>1. a \in Seq(Seq(Cell)) /\ m \in Seq(Seq(Cell)) /\ z \in Seq(Seq(Cell))
  BY DEF Document, Line
<1> DEFINE am == a \o m
<1>2. am \in Seq(Seq(Cell)) /\ FlattenSeq(am) = FlattenSeq(a) \o FlattenSeq(m)
  BY <1>1, FlattenConcat, ConcatProperties DEF Document, Line
<1> HIDE DEF am
<1>3. FlattenSeq(am \o z) = FlattenSeq(am) \o FlattenSeq(z)
  BY <1>1, <1>2, FlattenConcat
<1> QED
  BY <1>2, <1>3 DEF am

LEMMA FlattenAround ==
    ASSUME NEW a \in Document, NEW x \in Line, NEW z \in Document
    PROVE  FlattenSeq(a \o <<x>> \o z) = FlattenSeq(a) \o x \o FlattenSeq(z)
<1> DEFINE xx == <<x>>
<1>1. xx \in Document
  BY DEF Document
<1>2. FlattenSeq(xx) = x
  BY FlattenSingleton DEF Line
<1> HIDE DEF xx
<1>3. FlattenSeq(a \o xx \o z) = FlattenSeq(a) \o FlattenSeq(xx) \o FlattenSeq(z)
  BY <1>1, FlattenThree
<1> QED
  BY <1>2, <1>3 DEF xx

LEMMA FlattenPair ==
    ASSUME NEW x \in Line, NEW y \in Line
    PROVE  FlattenSeq(<<x, y>>) = x \o y /\ <<x, y>> \in Document
<1> DEFINE xx == <<x>>
           yy == <<y>>
           xy == <<x, y>>
<1>1. xx \in Document /\ yy \in Document /\ xy \in Document /\ xy = xx \o yy
  <2>1. xx \in Seq(Line) /\ yy \in Seq(Line) /\ xy \in Seq(Line)
    OBVIOUS
  <2>2. xy = Append(xx, y)
    OBVIOUS
  <2> HIDE DEF xx, xy
  <2>3. xy = xx \o <<y>>
    BY <2>1, <2>2, AppendIsConcat
  <2> QED
    BY <2>1, <2>3 DEF Document
<1>2. FlattenSeq(xx) = x /\ FlattenSeq(yy) = y
  BY FlattenSingleton DEF Line
<1> HIDE DEF xx, yy, xy
<1>3. xx \in Seq(Seq(Cell)) /\ yy \in Seq(Seq(Cell))
  BY <1>1 DEF Document, Line
<1>4. FlattenSeq(xx \o yy) = FlattenSeq(xx) \o FlattenSeq(yy)
  BY <1>3, FlattenConcat
<1> QED
  BY <1>1, <1>2, <1>4 DEF xy

LEMMA TextSplit ==
    ASSUME NEW d \in Document, NEW p \in Positions(d)
    PROVE  FlattenSeq(d) = TextBefore(d, p) \o TextAfter(d, p)
<1> DEFINE x == LineAt(d, p.line)
           a == LinesBefore(d, p.line)
           z == LinesAfter(d, p.line)
<1>1. p.line \in 0..(Len(d) - 1)
  BY PositionElim
<1>2. a \in Document /\ z \in Document /\ x \in Line /\ d = a \o <<x>> \o z
  BY <1>1, LinesAround, LineTyped
<1>3. x = HeadOf(d, p) \o TailOf(d, p)
  BY LineParts
<1>4. /\ HeadOf(d, p) \in Seq(Cell) /\ TailOf(d, p) \in Seq(Cell)
      /\ FlattenSeq(a) \in Seq(Cell) /\ FlattenSeq(z) \in Seq(Cell)
  BY HeadAndTail, TextTyped DEF Line
<1> HIDE DEF x, a, z
<1>5. FlattenSeq(d) = FlattenSeq(a) \o x \o FlattenSeq(z)
  BY <1>2, FlattenAround
<1>6. Regrouped(FlattenSeq(a), HeadOf(d, p), TailOf(d, p), FlattenSeq(z))
  BY <1>4, FourParts
<1> QED
  BY <1>3, <1>5, <1>6 DEF Regrouped, TextBefore, TextAfter, a, z

\* Enter at p, with what stands up to q removed.
LEMMA SpliceNewLine ==
    ASSUME NEW d \in Document, NEW p \in Positions(d), NEW q \in Positions(d)
    PROVE  Splice(d, p, q, NewLine) =
              LinesBefore(d, p.line) \o <<HeadOf(d, p), TailOf(d, q)>> \o LinesAfter(d, q.line)
<1> DEFINE h == HeadOf(d, p)
           t == TailOf(d, q)
           a == LinesBefore(d, p.line)
           z == LinesAfter(d, q.line)
<1>0. h \in Seq(Cell) /\ t \in Seq(Cell)
  BY HeadAndTail DEF Line
<1> DEFINE ls == NewLine
           mid == [i \in 1..Len(ls) |-> (IF i = 1 THEN h ELSE << >>) \o ls[i]
                                        \o (IF i = Len(ls) THEN t ELSE << >>)]
<1>1. mid = <<(h \o << >>) \o << >>, (<< >> \o << >>) \o t>>
  <2>1. Len(ls) = 2 /\ ls[1] = << >> /\ ls[2] = << >> /\ 1..Len(ls) = {1, 2}
    BY DEF NewLine
  <2> HIDE DEF ls
  <2>2. mid = [i \in {1, 2} |-> (IF i = 1 THEN h ELSE << >>) \o ls[i]
                                \o (IF i = 2 THEN t ELSE << >>)]
    BY <2>1
  <2> HIDE DEF mid
  <2>3. mid[1] = (h \o ls[1]) \o << >>
    BY <2>2
  <2>4. mid[2] = (<< >> \o ls[2]) \o t
    BY <2>2
  <2>5. mid = [i \in {1, 2} |-> mid[i]]
    BY <2>2
  <2>6. mid = <<mid[1], mid[2]>>
    BY <2>5
  <2> QED
    BY <2>1, <2>3, <2>4, <2>6
<1>2. (h \o << >>) \o << >> = h /\ (<< >> \o << >>) \o t = t
  BY <1>0, ConcatEmptySeq, EmptySeq
<1>3. Splice(d, p, q, ls) = a \o mid \o z
  BY DEF Splice, LinesBefore, LinesAfter
<1> QED
  BY <1>1, <1>2, <1>3

LEMMA CellsAssociate ==
    ASSUME NEW x \in Seq(Cell), NEW y \in Seq(Cell), NEW w \in Seq(Cell)
    PROVE  (x \o y) \o w = x \o (y \o w)
BY ConcatAssociative

\* What replaces the text between two positions stands between the rest.
LEMMA SpliceText ==
    ASSUME NEW d \in Document, NEW p \in Positions(d), NEW q \in Positions(d), NEW s \in Line
    PROVE  /\ FlattenSeq(Splice(d, p, q, <<s>>)) = TextBefore(d, p) \o s \o TextAfter(d, q)
           /\ FlattenSeq(Splice(d, p, q, NewLine)) = TextBefore(d, p) \o TextAfter(d, q)
<1> DEFINE a == LinesBefore(d, p.line)
           z == LinesAfter(d, q.line)
           h == HeadOf(d, p)
           t == TailOf(d, q)
<1>1. p.line \in 0..(Len(d) - 1) /\ q.line \in 0..(Len(d) - 1)
  BY PositionElim
<1>2. a \in Document /\ z \in Document
  BY <1>1, LinesAround
<1>3. h \in Seq(Cell) /\ t \in Seq(Cell) /\ s \in Seq(Cell)
  BY HeadAndTail DEF Line
<1>4. FlattenSeq(a) \in Seq(Cell) /\ FlattenSeq(z) \in Seq(Cell)
  BY TextTyped DEF Line
<1>5. Splice(d, p, q, <<s>>) = a \o <<h \o s \o t>> \o z
  <2> DEFINE ls == <<s>>
             mid == [i \in 1..Len(ls) |-> (IF i = 1 THEN h ELSE << >>) \o ls[i]
                                          \o (IF i = Len(ls) THEN t ELSE << >>)]
  <2>1. mid = <<h \o s \o t>>
    OBVIOUS
  <2>2. Splice(d, p, q, ls) = a \o mid \o z
    BY DEF Splice, LinesBefore, LinesAfter
  <2> QED
    BY <2>1, <2>2
<1>6. Splice(d, p, q, NewLine) = a \o <<h, t>> \o z
  BY SpliceNewLine
<1> HIDE DEF a, z, h, t
<1>7. FlattenSeq(a \o <<h \o s \o t>> \o z) = TextBefore(d, p) \o s \o TextAfter(d, q)
  <2> DEFINE x == h \o s \o t
  <2>1. x \in Seq(Cell)
    BY <1>3, ConcatProperties
  <2> HIDE DEF x
  <2>3. FlattenSeq(a \o <<x>> \o z) = FlattenSeq(a) \o x \o FlattenSeq(z)
    BY <1>2, <2>1, FlattenAround DEF Line
  <2> DEFINE hs == h \o s
             ah == FlattenSeq(a) \o h
             tz == t \o FlattenSeq(z)
  <2>4. hs \in Seq(Cell) /\ ah \in Seq(Cell) /\ tz \in Seq(Cell)
    BY <1>3, <1>4, ConcatProperties
  <2>5. Regrouped(FlattenSeq(a), hs, t, FlattenSeq(z))
    BY <1>3, <1>4, <2>4, FourParts
  <2>6. FlattenSeq(a) \o hs = ah \o s
    BY <1>3, <1>4, CellsAssociate, SMTT(30)
  <2> QED
    BY <2>3, <2>5, <2>6 DEF Regrouped, x, TextBefore, TextAfter, a, z, h, t
<1>8. FlattenSeq(a \o <<h, t>> \o z) = TextBefore(d, p) \o TextAfter(d, q)
  <2>1. FlattenSeq(a \o <<h, t>> \o z) = FlattenSeq(a) \o (h \o t) \o FlattenSeq(z)
    <3> DEFINE m == <<h, t>>
    <3>1. h \in Line /\ t \in Line
      BY <1>3 DEF Line
    <3>2. m \in Document /\ FlattenSeq(m) = h \o t
      BY <3>1, FlattenPair
    <3> HIDE DEF m
    <3>3. FlattenSeq(a \o m \o z) = FlattenSeq(a) \o FlattenSeq(m) \o FlattenSeq(z)
      BY <1>2, <3>2, FlattenThree
    <3> QED
      BY <3>2, <3>3 DEF m
  <2>2. Regrouped(FlattenSeq(a), h, t, FlattenSeq(z))
    BY <1>3, <1>4, FourParts
  <2> QED
    BY <2>1, <2>2 DEF Regrouped, TextBefore, TextAfter, a, z, h, t
<1> QED
  BY <1>5, <1>6, <1>7, <1>8

\* A replacement within a line changes that line.
WithLine(d, l, line) == [d EXCEPT ![l + 1] = line]

LEMMA SpliceInLine ==
    ASSUME NEW d \in Document, NEW p \in Positions(d), NEW q \in Positions(d),
           p.line = q.line, NEW s \in Line
    PROVE  Splice(d, p, q, <<s>>) = WithLine(d, p.line, HeadOf(d, p) \o s \o TailOf(d, q))
<1> DEFINE l == p.line
           a == LinesBefore(d, l)
           z == LinesAfter(d, l)
           x == HeadOf(d, p) \o s \o TailOf(d, q)
           e == [d EXCEPT ![l + 1] = x]
<1>1. l \in 0..(Len(d) - 1) /\ Len(d) \in Nat /\ l + 1 \in 1..Len(d)
  BY PositionElim, LenProperties DEF Document
<1>2. x \in Line
  BY HeadAndTail, ConcatProperties DEF Line
<1>3. /\ e \in Document /\ Len(e) = Len(d)
      /\ \A i \in 1..Len(d) : e[i] = IF i = l + 1 THEN x ELSE d[i]
  <2>1. d \in Seq(Line)
    BY DEF Document
  <2> HIDE DEF x, l
  <2> QED
    BY <1>1, <1>2, <2>1, ExceptSeq DEF Document
<1>4. Splice(d, p, q, <<s>>) = a \o <<x>> \o z
  <2> DEFINE ls == <<s>>
             mid == [i \in 1..Len(ls) |-> (IF i = 1 THEN HeadOf(d, p) ELSE << >>) \o ls[i]
                                          \o (IF i = Len(ls) THEN TailOf(d, q) ELSE << >>)]
  <2>1. mid = <<x>>
    OBVIOUS
  <2>2. Splice(d, p, q, ls) = a \o mid \o z
    BY DEF Splice, LinesBefore, LinesAfter
  <2> QED
    BY <2>1, <2>2
\* The same lines stand around line l in e.
<1>5. LinesBefore(e, l) = a /\ LinesAfter(e, l) = z /\ LineAt(e, l) = x
  <2> HIDE DEF x, e, l
  <2>1. /\ a \in Seq(Line) /\ Len(a) = l /\ \A i \in 1..l : a[i] = d[i]
        /\ z \in Seq(Line) /\ Len(z) = Len(d) - l - 1
        /\ \A i \in 1..(Len(d) - l - 1) : z[i] = d[l + 1 + i]
    BY <1>1, LinesAround DEF Document
  <2>2. /\ LinesBefore(e, l) \in Seq(Line) /\ Len(LinesBefore(e, l)) = l
        /\ \A i \in 1..l : LinesBefore(e, l)[i] = e[i]
        /\ LinesAfter(e, l) \in Seq(Line) /\ Len(LinesAfter(e, l)) = Len(e) - l - 1
        /\ \A i \in 1..(Len(e) - l - 1) : LinesAfter(e, l)[i] = e[l + 1 + i]
    <3>1. l \in 0..(Len(e) - 1)
      BY <1>1, <1>3
    <3> QED
      BY <1>3, <3>1, LinesAround DEF Document
  <2>3. \A i \in 1..l : i \in 1..Len(d) /\ i # l + 1
    BY <1>1
  <2>4. \A i \in 1..(Len(d) - l - 1) : l + 1 + i \in 1..Len(d) /\ l + 1 + i # l + 1
    BY <1>1
  <2> HIDE DEF a, z
  <2>5. LinesBefore(e, l) = a
    <3>1. \A i \in 1..l : LinesBefore(e, l)[i] = a[i]
      BY <1>3, <2>1, <2>2, <2>3
    <3> QED
      BY <2>1, <2>2, <3>1, SeqEqual
  <2>6. LinesAfter(e, l) = z
    <3>1. \A i \in 1..(Len(d) - l - 1) : LinesAfter(e, l)[i] = z[i]
      BY <1>3, <2>1, <2>2, <2>4
    <3>2. Len(LinesAfter(e, l)) = Len(z)
      BY <1>3, <2>1, <2>2
    <3> QED
      BY <2>1, <2>2, <3>1, <3>2, SeqEqual
  <2>7. LineAt(e, l) = x
    BY <1>1, <1>3 DEF LineAt
  <2> QED
    BY <2>5, <2>6, <2>7
<1>6. e = a \o <<x>> \o z
  <2> HIDE DEF x, e, a, z
  <2>1. l \in 0..(Len(e) - 1)
    BY <1>1, <1>3
  <2>2. e = LinesBefore(e, l) \o <<LineAt(e, l)>> \o LinesAfter(e, l)
    BY <1>3, <2>1, LinesAround
  <2> QED
    BY <1>5, <2>2
<1> QED
  BY <1>4, <1>6 DEF WithLine

\* One character further within a line, and across the end of a line.
LEMMA NextChar ==
    ASSUME NEW d \in Document, NEW p \in Positions(d), NEW q \in Positions(d),
           q.line = p.line, q.col = p.col + 1
    PROVE  /\ p.col + 1 \in DOMAIN LineAt(d, p.line)
           /\ LineAt(d, p.line)[p.col + 1] \in Cell
           /\ TailOf(d, p) = <<LineAt(d, p.line)[p.col + 1]>> \o TailOf(d, q)
           /\ TextAfter(d, p) = <<LineAt(d, p.line)[p.col + 1]>> \o TextAfter(d, q)
<1> DEFINE line == LineAt(d, p.line)
           c == line[p.col + 1]
           z == FlattenSeq(LinesAfter(d, p.line))
<1>1. /\ p.line \in 0..(Len(d) - 1) /\ p.col \in 0..Len(line)
      /\ q.col \in 0..Len(LineAt(d, q.line))
  BY PositionElim
<1>2. line \in Seq(Cell) /\ Len(line) \in Nat /\ DOMAIN line = 1..Len(line)
  BY <1>1, LineTyped, LenProperties DEF Line
<1>3. LineAt(d, q.line) = line
  OBVIOUS
<1> HIDE DEF line
<1>4. p.col + 1 \in 1..Len(line) /\ Len(line) \in (p.col + 1)..Len(line)
  BY <1>1, <1>2, <1>3
<1>5. c \in Cell
  BY <1>2, <1>4, ElementOfSeq
<1>6. SubSeq(line, p.col + 1, Len(line)) = <<c>> \o SubSeq(line, (p.col + 1) + 1, Len(line))
  BY <1>2, <1>4, SubSeqRecursiveFirst
<1>7. TailOf(d, p) = <<c>> \o TailOf(d, q)
  BY <1>3, <1>6 DEF TailOf, line
<1>8. TailOf(d, q) \in Seq(Cell) /\ z \in Seq(Cell)
  BY HeadAndTail, TextTyped DEF Line
<1> HIDE DEF c, z
<1>9. TextAfter(d, p) = <<c>> \o TextAfter(d, q)
  <2> DEFINE cc == <<c>>
             t == TailOf(d, q)
  <2>1. cc \in Seq(Cell) /\ t \in Seq(Cell)
    BY <1>5, <1>8
  <2>2. TextAfter(d, p) = (cc \o t) \o z /\ TextAfter(d, q) = t \o z
    BY <1>7 DEF TextAfter, z
  <2> HIDE DEF cc, t
  <2>3. (cc \o t) \o z = cc \o (t \o z)
    BY <1>8, <2>1, CellsAssociate, SMTT(30)
  <2> QED
    BY <2>2, <2>3 DEF cc
<1> QED
  BY <1>2, <1>4, <1>5, <1>7, <1>9 DEF c, line

LEMMA NextLine ==
    ASSUME NEW d \in Document, NEW p \in Positions(d), NEW q \in Positions(d),
           q.line = p.line + 1, q.col = 0, p.col = Len(LineAt(d, p.line))
    PROVE  TextAfter(d, p) = TextAfter(d, q)
<1> DEFINE l == p.line
           x == LineAt(d, q.line)
           z == LinesAfter(d, q.line)
<1>1. l \in 0..(Len(d) - 1) /\ q.line \in 0..(Len(d) - 1) /\ Len(d) \in Nat
  BY PositionElim, LenProperties DEF Document
<1>2. x \in Seq(Cell) /\ Len(LineAt(d, l)) \in Nat
  BY <1>1, LineTyped DEF Line
<1>3. z \in Document
  BY <1>1, LinesAround
<1>4. TailOf(d, p) = << >>
  <2>1. Len(LineAt(d, l)) < Len(LineAt(d, l)) + 1
    BY <1>2
  <2> QED
    BY <1>2, <2>1, SubSeqEmpty DEF TailOf
<1>5. TailOf(d, q) = x
  <2>1. 0 + 1 = 1 /\ q.col = 0
    OBVIOUS
  <2>2. TailOf(d, q) = SubSeq(x, 1, Len(x))
    BY <2>1 DEF TailOf
  <2> HIDE DEF x
  <2> QED
    BY <1>2, <2>2, SubSeqFull
<1>6. LinesAfter(d, l) = <<x>> \o z
  <2>1. l + 2 \in 1..Len(d) /\ Len(d) \in (l + 2)..Len(d) /\ q.line + 1 = l + 2 /\ q.line + 2 = (l + 2) + 1
    BY <1>1
  <2>2. d \in Seq(Line)
    BY DEF Document
  <2> HIDE DEF l
  <2>3. SubSeq(d, l + 2, Len(d)) = <<d[l + 2]>> \o SubSeq(d, (l + 2) + 1, Len(d))
    BY <2>1, <2>2, SubSeqRecursiveFirst
  <2> QED
    BY <2>1, <2>3 DEF LinesAfter, LineAt
<1> HIDE DEF x, z
<1>7. FlattenSeq(LinesAfter(d, l)) = x \o FlattenSeq(z)
  <2> DEFINE xx == <<x>>
  <2>1. xx \in Seq(Seq(Cell)) /\ z \in Seq(Seq(Cell)) /\ FlattenSeq(xx) = x
    BY <1>2, <1>3, FlattenSingleton DEF Document, Line
  <2> HIDE DEF xx
  <2>2. FlattenSeq(xx \o z) = FlattenSeq(xx) \o FlattenSeq(z)
    BY <2>1, FlattenConcat
  <2> QED
    BY <1>6, <2>1, <2>2 DEF xx
<1>8. FlattenSeq(LinesAfter(d, l)) \in Seq(Cell)
  BY TextTyped DEF Line
<1> QED
  BY <1>4, <1>5, <1>7, <1>8, ConcatEmptySeq DEF TextAfter, z

----------------------------------------------------------------------------
(* The titles of a text. *)

LEMMA TitlesParts ==
    ASSUME NEW s \in Line, NEW t \in Line
    PROVE  Titles(s) \in Line /\ Titles(s \o t) = Titles(s) \o Titles(t)
<1>1. \A r : Titles(r) = FlatMap(TitlePart, r)
  BY DEF Titles, FlatMap, EachMapped
<1>2. SeqValued(TitlePart, Cell, Cell)
  <2>1. \A c \in Cell : (IF c.title THEN <<c>> ELSE << >>) \in Seq(Cell)
    OBVIOUS
  <2> QED
    BY <2>1 DEF TitlePart, SeqValued, Cell
<1>3. s \in Seq(Cell) /\ t \in Seq(Cell)
  BY DEF Line
<1>4. FlatMap(TitlePart, s) \in Seq(Cell)
  BY <1>2, <1>3, FlatMapType
<1>5. FlatMap(TitlePart, s \o t) = FlatMap(TitlePart, s) \o FlatMap(TitlePart, t)
  BY <1>2, <1>3, FlatMapConcat
<1> QED
  BY <1>1, <1>4, <1>5 DEF Line

\* A character that is of no title does not matter to the titles.
LEMMA TitlesAround ==
    ASSUME NEW a \in Line, NEW c \in Cell, ~c.title, NEW z \in Line
    PROVE  Titles(a \o <<c>> \o z) = Titles(a \o z)
<1> DEFINE cc == <<c>>
           ac == a \o cc
<1>1. cc \in Line
  BY DEF Line
<1>2. Titles(cc) = << >>
  <2>1. [k \in DOMAIN cc |-> TitlePart[cc[k]]] = << << >> >>
    BY DEF TitlePart, Cell
  <2>2. << >> \in Seq(Cell)
    OBVIOUS
  <2>3. FlattenSeq(<< << >> >>) = << >>
    BY <2>2, FlattenSingleton
  <2> QED
    BY <2>1, <2>3 DEF Titles
<1> HIDE DEF cc
<1>3. ac \in Line
  BY <1>1, ConcatProperties DEF Line
<1>4. Titles(ac) = Titles(a)
  <2>1. Titles(ac) = Titles(a) \o Titles(cc) /\ Titles(a) \in Seq(Cell)
    BY <1>1, TitlesParts DEF Line
  <2> QED
    BY <1>2, <2>1, ConcatEmptySeq
<1> HIDE DEF ac
<1>5. Titles(ac \o z) = Titles(ac) \o Titles(z)
  BY <1>3, TitlesParts
<1>6. Titles(a \o z) = Titles(a) \o Titles(z)
  BY TitlesParts
<1> QED
  BY <1>4, <1>5, <1>6 DEF ac, cc

----------------------------------------------------------------------------
(* A line of the structure that describes its line of the document.        *)

\* Its field, if it has one, is found at every column of the line.
LEMMA AgreedLine ==
    ASSUME EditorOK, Agree, NEW l \in 0..(Len(doc) - 1)
    PROVE  LET fs == FieldsAt(lines, l)
               line == LineAt(doc, l)
           IN  /\ line \in Line /\ Len(line) \in UInt /\ DOMAIN line = 1..Len(line)
               /\ fs = << >> => line = << >> /\ \A col : SearchAtCol(fs, col) = 0
               /\ fs # << >> =>
                    /\ l \in DOMAIN lines /\ fs \in Seq(Field) /\ Len(fs) = 1 /\ fs[1] \in Field
                    /\ fs[1].start = 0 /\ fs[1].end = Len(line)
                    /\ fs[1].info = Utf8Bytes(CharsOf(line))
                    /\ \A k \in DOMAIN line : line[k].title => fs[1].type = "Title"
                    /\ \A col \in 0..Len(line) : SearchAtCol(fs, col) = 1
<1> DEFINE fs == FieldsAt(lines, l)
           line == LineAt(doc, l)
<1>1. fs \in Seq(Field) /\ doc \in Document
  BY FieldsAtTyped DEF EditorOK, DocumentOK
<1>2. line \in Line /\ Len(line) \in Nat /\ DOMAIN line = 1..Len(line)
  BY <1>1, LineTyped, LenProperties DEF Line
<1>3. Describes(fs, line)
  BY DEF Agree
<1>4. fs # << >> => l \in DOMAIN lines
  BY DEF FieldsAt
<1> HIDE DEF fs, line
<1>5. CASE fs = << >>
  <2>1. Len(fs) = 0
    BY <1>5
  <2>2. line = << >>
    BY <1>3, <2>1 DEF Describes
  <2>3. \A col : InRange(fs, col) = {}
    BY <1>5 DEF InRange
  <2>4. Len(line) \in UInt
    BY <2>2, DataManAssumption DEF UInt
  <2> QED
    BY <1>2, <1>5, <2>2, <2>3, <2>4 DEF SearchAtCol, fs, line
<1>6. CASE fs # << >>
  <2>1. /\ Len(fs) = 1
        /\ fs[1].start = 0 /\ fs[1].end = Len(line)
        /\ fs[1].info = Utf8Bytes(CharsOf(line))
        /\ \A k \in DOMAIN line : line[k].title => fs[1].type = "Title"
    BY <1>3, <1>6 DEF Describes
  <2>2. fs[1] \in Field /\ DOMAIN fs = {1}
    <3>1. 1 \in 1..Len(fs) /\ DOMAIN fs = 1..Len(fs)
      BY <1>1, <2>1, LenProperties
    <3>2. fs[1] \in Field
      BY <1>1, <3>1, ElementOfSeq
    <3> QED
      BY <2>1, <3>1, <3>2
  <2>3. fs[1].end \in UInt
    BY <2>2 DEF Field
  <2>4. ASSUME NEW col \in 0..Len(line)
        PROVE  SearchAtCol(fs, col) = 1
    <3>1. InRange(fs, col) = {1}
      BY <1>2, <2>1, <2>2 DEF InRange, AtRange
    <3> QED
      BY <3>1 DEF SearchAtCol
  <2> QED
    BY <1>1, <1>2, <1>4, <1>6, <2>1, <2>2, <2>3, <2>4 DEF fs, line
<1> QED
  BY <1>5, <1>6

\* A column that may be edited is on a line without a title.
LEMMA EditableLine ==
    ASSUME EditorOK, Agree, NEW l \in 0..(Len(doc) - 1),
           NEW col \in 0..Len(LineAt(doc, l)), IsEditable(lines, col, l)
    PROVE  \A k \in DOMAIN LineAt(doc, l) : ~LineAt(doc, l)[k].title
<1> DEFINE fs == FieldsAt(lines, l)
           line == LineAt(doc, l)
<1>1. CASE fs = << >>
  <2>1. line = << >>
    BY <1>1, AgreedLine
  <2> QED
    BY <2>1
<1>2. CASE fs # << >>
  <2>1. /\ SearchAtCol(fs, col) = 1
        /\ \A k \in DOMAIN line : line[k].title => fs[1].type = "Title"
    BY <1>2, AgreedLine
  <2>2. fs[1].type # "Title"
    BY <2>1 DEF IsEditable
  <2> QED
    BY <2>1, <2>2
<1> QED
  BY <1>1, <1>2

\* The column does not wrap: a line that is described is no longer than its field.
LEMMA CursorColumn ==
    ASSUME EditorOK, Agree, visible
    PROVE  /\ CurrentLine \in 0..(Len(doc) - 1) /\ CurrentLine = cursor.line
           /\ ColumnNumber = cursor.col /\ cursor.col \in Nat
           /\ cursor.col \in 0..Len(LineAt(doc, CurrentLine))
           /\ ~AtLineEnd => /\ Inc(ColumnNumber) = cursor.col + 1
                            /\ cursor.col + 1 \in 0..Len(LineAt(doc, CurrentLine))
<1> DEFINE l == cursor.line
           n == Len(LineAt(doc, l))
           c == cursor.col
<1>1. l \in 0..(Len(doc) - 1) /\ c \in 0..n
  BY PositionElim DEF EditorOK, DocumentOK
<1>2. n \in UInt
  BY <1>1, AgreedLine
<1>3. ColumnNumber = c % UIntMod
  BY DEF ColumnNumber
<1>4. ~AtLineEnd <=> c # n
  BY DEF AtLineEnd
<1> HIDE DEF n, c
<1>5. UIntMod \in Nat /\ n \in Nat /\ n < UIntMod
  BY <1>2, DataManAssumption DEF UInt
<1>6. c \in Nat /\ c <= n /\ c % UIntMod = c
  BY <1>1, <1>5
<1>7. ~AtLineEnd => Inc(c) = c + 1 /\ c + 1 \in 0..n
  BY <1>4, <1>5, <1>6 DEF Inc
<1> QED
  BY <1>1, <1>3, <1>6, <1>7 DEF CurrentLine, n, c

LEMMA TypedOne ==
    ASSUME NEW ch
    PROVE  Typed(<<ch>>) = <<[ch |-> ch, title |-> FALSE]>>
<1> DEFINE str == <<ch>>
           c == [ch |-> ch, title |-> FALSE]
           t == Typed(str)
<1>1. DOMAIN str = {1} /\ str[1] = ch
  OBVIOUS
<1> HIDE DEF str
<1>2. t = [i \in {1} |-> [ch |-> str[i], title |-> FALSE]]
  BY <1>1 DEF Typed
<1> HIDE DEF t
<1>3. t[1] = c /\ t = [i \in {1} |-> t[i]]
  BY <1>1, <1>2
<1> HIDE DEF c
<1>4. t = <<c>>
  BY <1>3
<1> QED
  BY <1>4 DEF t, str, c

LEMMA NoSelection ==
    ASSUME ~HasSelection
    PROVE  SelectionStart = cursor /\ SelectionEnd = cursor
  BY DEF HasSelection, SelectionStart, SelectionEnd

\* The two positions between which Backspace and Delete erase.
LEMMA ErasedBetween ==
    ASSUME EditorOK, NEW p \in Positions(doc), NEW q \in Positions(doc),
           \/ ~AtDocumentStart /\ p = CharLeft /\ q = cursor
           \/ ~AtDocumentEnd /\ p = cursor /\ q = CharRight
    PROVE  \/ q.line = p.line /\ q.col = p.col + 1
           \/ q.line = p.line + 1 /\ q.col = 0 /\ p.col = Len(LineAt(doc, p.line))
<1> DEFINE l == cursor.line
           c == cursor.col
<1>1. /\ l \in 0..(Len(doc) - 1) /\ c \in 0..Len(LineAt(doc, l)) /\ cursor = [line |-> l, col |-> c]
      /\ Len(doc) \in Nat /\ Len(LineAt(doc, l)) \in Nat
  BY PositionElim, LineTyped, LenProperties DEF EditorOK, DocumentOK, Document
<1>2. CASE ~AtDocumentStart /\ p = CharLeft /\ q = cursor
  <2> HIDE DEF l, c
  <2>1. CASE c > 0
    <3>1. p = [line |-> l, col |-> c - 1]
      BY <1>1, <1>2, <2>1 DEF CharLeft, c
    <3> QED
      BY <1>1, <1>2, <3>1
  <2>2. CASE ~(c > 0)
    <3>1. c = 0 /\ l # 0
      BY <1>1, <1>2, <2>2 DEF AtDocumentStart
    <3>2. p = [line |-> l - 1, col |-> Len(LineAt(doc, l - 1))]
      BY <1>2, <2>2 DEF CharLeft, l, c
    <3>3. (l - 1) + 1 = l
      BY <1>1
    <3> QED
      BY <1>1, <1>2, <3>1, <3>2, <3>3
  <2> QED
    BY <2>1, <2>2
<1>3. CASE ~AtDocumentEnd /\ p = cursor /\ q = CharRight
  <2>1. CASE AtLineEnd
    <3>1. q = [line |-> l + 1, col |-> 0]
      BY <1>3, <2>1 DEF CharRight
    <3> QED
      BY <1>3, <2>1, <3>1 DEF AtLineEnd
  <2>2. CASE ~AtLineEnd
    <3> HIDE DEF l, c
    <3>1. q = [line |-> l, col |-> c + 1]
      BY <1>1, <1>3, <2>2 DEF CharRight, c
    <3> QED
      BY <1>1, <1>3, <3>1
  <2> QED
    BY <2>1, <2>2
<1> QED
  BY <1>2, <1>3

----------------------------------------------------------------------------
(* Titles are protected as long as the structure describes the document.   *)

LEMMA EraseKeepsTitles ==
    ASSUME NEW d \in Document, NEW p \in Positions(d), NEW q \in Positions(d),
           \/ /\ q.line = p.line /\ q.col = p.col + 1
              /\ ~LineAt(d, p.line)[p.col + 1].title
           \/ q.line = p.line + 1 /\ q.col = 0 /\ p.col = Len(LineAt(d, p.line))
    PROVE  TitleText(Splice(d, p, q, << << >> >>)) = TitleText(d)
<1> DEFINE a == TextBefore(d, p)
           z == TextAfter(d, q)
           s == << >>
<1>1. a \in Line /\ z \in Line /\ s \in Line
  BY TextTyped DEF Line
<1>2. FlattenSeq(d) = a \o TextAfter(d, p)
  BY TextSplit
<1>3. FlattenSeq(Splice(d, p, q, << << >> >>)) = a \o z
  <2>1. FlattenSeq(Splice(d, p, q, <<s>>)) = (a \o s) \o z
    BY <1>1, SpliceText
  <2>2. a \o s = a
    BY <1>1, ConcatEmptySeq DEF Line
  <2> QED
    BY <2>1, <2>2
<1> HIDE DEF a, z
<1>4. CASE q.line = p.line + 1 /\ q.col = 0 /\ p.col = Len(LineAt(d, p.line))
  <2>1. TextAfter(d, p) = z
    BY <1>4, NextLine DEF z
  <2> QED
    BY <1>2, <1>3, <2>1 DEF TitleText
<1>5. CASE /\ q.line = p.line /\ q.col = p.col + 1
           /\ ~LineAt(d, p.line)[p.col + 1].title
  <2> DEFINE c == LineAt(d, p.line)[p.col + 1]
  <2>1. c \in Cell /\ TextAfter(d, p) = <<c>> \o z
    BY <1>5, NextChar DEF z
  <2>2. ~c.title
    BY <1>5
  <2> HIDE DEF c
  <2>3. Titles(a \o <<c>> \o z) = Titles(a \o z)
    BY <1>1, <2>1, <2>2, TitlesAround
  <2> DEFINE cc == <<c>>
  <2>4. a \o (cc \o z) = (a \o cc) \o z
    <3>1. cc \in Seq(Cell) /\ a \in Seq(Cell) /\ z \in Seq(Cell)
      BY <1>1, <2>1 DEF Line
    <3> HIDE DEF cc
    <3> QED
      BY <3>1, CellsAssociate, SMTT(30)
  <2> QED
    BY <1>2, <1>3, <2>1, <2>3, <2>4 DEF TitleText
<1> QED
  BY <1>4, <1>5

\* A key through the filter leaves the titles of the document as they are, and
\* a character goes to a line that has none.
LEMMA TitleTextStep ==
    ASSUME KeysFiltered, EditorOK, Agree, UnselectedKey
    PROVE  /\ TitleText(doc') = TitleText(doc)
           /\ (\E ch \in Chars : Key(ch)) =>
                 \A i \in DOMAIN doc :
                     (\E k \in DOMAIN doc[i] : doc[i][k].title) => doc'[i] = doc[i]
<1>1. /\ doc \in Document /\ cursor \in Positions(doc)
      /\ SelectionStart = cursor /\ SelectionEnd = cursor
  BY NoSelection DEF UnselectedKey, EditorOK, DocumentOK
<1>2. ASSUME NEW ch \in Chars, Key(ch)
      PROVE  /\ TitleText(doc') = TitleText(doc)
             /\ \A i \in DOMAIN doc :
                   (\E k \in DOMAIN doc[i] : doc[i][k].title) => doc'[i] = doc[i]
  <2> DEFINE c == [ch |-> ch, title |-> FALSE]
             s == <<c>>
             l == cursor.line
  <2>1. s \in Line /\ c \in Cell /\ ~c.title
    BY DEF Line, Cell
  <2>2. Typed(<<ch>>) = s
    BY TypedOne
  <2>3. doc' = Splice(doc, cursor, cursor, <<s>>)
    BY <1>1, <1>2, <2>2 DEF Key, InsertAtCursor
  <2>4. TitleText(doc') = TitleText(doc)
    <3> DEFINE a == TextBefore(doc, cursor)
               z == TextAfter(doc, cursor)
    <3>1. a \in Line /\ z \in Line /\ FlattenSeq(doc) = a \o z
      BY <1>1, TextTyped, TextSplit
    <3>2. FlattenSeq(doc') = a \o s \o z
      BY <1>1, <2>1, <2>3, SpliceText
    <3> HIDE DEF a, z, c
    <3>3. Titles(a \o <<c>> \o z) = Titles(a \o z)
      BY <2>1, <3>1, TitlesAround
    <3> QED
      BY <3>1, <3>2, <3>3 DEF TitleText
  <2>5. ASSUME NEW i \in DOMAIN doc, \E k \in DOMAIN doc[i] : doc[i][k].title
        PROVE  doc'[i] = doc[i]
    <3>1. i # l + 1
      <4>1. visible /\ IsEditable(lines, ColumnNumber, CurrentLine)
        BY <1>2 DEF Key
      <4>2. /\ ColumnNumber = cursor.col /\ CurrentLine = l /\ l \in 0..(Len(doc) - 1)
            /\ cursor.col \in 0..Len(LineAt(doc, l))
        BY <4>1, CursorColumn
      <4>3. \A k \in DOMAIN LineAt(doc, l) : ~LineAt(doc, l)[k].title
        BY <4>1, <4>2, EditableLine
      <4> QED
        BY <2>5, <4>3 DEF LineAt
    <3> HIDE DEF s
    <3>2. doc' = WithLine(doc, l, HeadOf(doc, cursor) \o s \o TailOf(doc, cursor))
      BY <1>1, <2>1, <2>3, SpliceInLine
    <3> QED
      BY <2>5, <3>1, <3>2 DEF WithLine
  <2> QED
    BY <2>4, <2>5
<1>3. CASE Enter
  <2>1. doc' = Splice(doc, cursor, cursor, NewLine)
    BY <1>1, <1>3 DEF Enter, InsertAtCursor
  <2>2. FlattenSeq(doc') = FlattenSeq(doc)
    BY <1>1, <2>1, SpliceText, TextSplit, EmptySeq DEF Line
  <2> QED
    BY <1>2, <2>2 DEF TitleText
<1>4. CASE Backspace
  <2>1. visible /\ IsEditable(lines, ColumnNumber, CurrentLine) /\ ~HasSelection
    BY <1>4 DEF Backspace
  <2>2. CASE AtDocumentStart
    BY <1>2, <1>4, <2>1, <2>2 DEF Backspace
  <2>3. CASE ~AtDocumentStart
    <3> DEFINE p == CharLeft
    <3>1. doc' = Splice(doc, p, cursor, << << >> >>)
      BY <1>4, <2>1, <2>3 DEF Backspace, RemoveBetween
    <3>2. p \in Positions(doc)
      BY <2>3, Neighbours DEF EditorOK
    <3>3. \/ cursor.line = p.line /\ cursor.col = p.col + 1
          \/ cursor.line = p.line + 1 /\ cursor.col = 0 /\ p.col = Len(LineAt(doc, p.line))
      BY <1>1, <2>3, <3>2, ErasedBetween
    <3>4. \A k \in DOMAIN LineAt(doc, cursor.line) : ~LineAt(doc, cursor.line)[k].title
      BY <2>1, CursorColumn, EditableLine
    <3>5. cursor.line = p.line /\ cursor.col = p.col + 1 => p.col + 1 \in DOMAIN LineAt(doc, p.line)
      BY <1>1, <3>2, NextChar
    <3> HIDE DEF p
    <3>6. TitleText(doc') = TitleText(doc)
      BY <1>1, <3>1, <3>2, <3>3, <3>4, <3>5, EraseKeepsTitles
    <3> QED
      BY <1>2, <3>6
  <2> QED
    BY <2>2, <2>3
<1>5. CASE Delete
  <2>1. visible /\ IsEditable(lines, Inc(ColumnNumber), CurrentLine) /\ ~HasSelection
    BY <1>5 DEF Delete
  <2>2. CASE AtDocumentEnd
    BY <1>2, <1>5, <2>1, <2>2 DEF Delete
  <2>3. CASE ~AtDocumentEnd
    <3> DEFINE q == CharRight
    <3>1. doc' = Splice(doc, cursor, q, << << >> >>)
      BY <1>5, <2>1, <2>3 DEF Delete, RemoveBetween
    <3>2. q \in Positions(doc)
      BY <2>3, Neighbours DEF EditorOK
    <3>3. \/ q.line = cursor.line /\ q.col = cursor.col + 1
          \/ q.line = cursor.line + 1 /\ q.col = 0 /\ cursor.col = Len(LineAt(doc, cursor.line))
      BY <1>1, <2>3, <3>2, ErasedBetween
    <3>4. ASSUME q.line = cursor.line, q.col = cursor.col + 1
          PROVE  ~LineAt(doc, cursor.line)[cursor.col + 1].title
      <4>1. cursor.col + 1 \in DOMAIN LineAt(doc, cursor.line)
        BY <1>1, <3>2, <3>4, NextChar
      <4>2. ~AtLineEnd
        <5>1. q.col \in 0..Len(LineAt(doc, cursor.line)) /\ cursor.col \in Nat
          BY <2>1, <3>2, <3>4, PositionElim, CursorColumn
        <5> QED
          BY <3>4, <5>1 DEF AtLineEnd
      <4> QED
        BY <2>1, <4>1, <4>2, CursorColumn, EditableLine
    <3> HIDE DEF q
    <3>5. TitleText(doc') = TitleText(doc)
      BY <1>1, <3>1, <3>2, <3>3, <3>4, EraseKeepsTitles
    <3> QED
      BY <1>2, <3>5
  <2> QED
    BY <2>2, <2>3
<1> QED
  BY <1>2, <1>3, <1>4, <1>5 DEF UnselectedKey

\* Where the filter is called and the structure describes the document, no key
\* without a selection erases from a title or writes on its line.
THEOREM TitleTextIsKept ==
    ASSUME KeysFiltered
    PROVE  Spec => TitleTextKept
<1>1. EditorOK /\ [Next]_vars =>
        (Agree /\ UnselectedKey =>
           /\ TitleText(doc') = TitleText(doc)
           /\ (\E ch \in Chars : Key(ch)) =>
                 \A i \in DOMAIN doc :
                     (\E k \in DOMAIN doc[i] : doc[i][k].title) => doc'[i] = doc[i])
  BY TitleTextStep
<1> QED
  BY <1>1, Invariance, PTL DEF Spec, TitleTextKept

----------------------------------------------------------------------------
(* Careful editing keeps the structure in agreement with the document.     *)

LineBytes(line) == Utf8Bytes(CharsOf(line))
AsciiLine(line) == \A k \in DOMAIN line : OneByte(line[k].ch)

LEMMA CharsOfParts ==
    ASSUME NEW s \in Line, NEW t \in Line
    PROVE  /\ CharsOf(s) \in Seq(Chars) /\ Len(CharsOf(s)) = Len(s)
           /\ CharsOf(s \o t) = CharsOf(s) \o CharsOf(t)
<1>1. ASSUME NEW r \in Line
      PROVE  /\ CharsOf(r) \in Seq(Chars) /\ Len(CharsOf(r)) = Len(r)
             /\ \A k \in 1..Len(r) : CharsOf(r)[k] = r[k].ch
  <2> DEFINE n == Len(r)
             m == CharsOf(r)
  <2>1. n \in Nat /\ DOMAIN r = 1..n /\ \A k \in 1..n : r[k] \in Cell
    BY LenProperties, ElementOfSeq DEF Line
  <2>2. m \in [1..n -> Chars] /\ \A k \in 1..n : m[k] = r[k].ch
    BY <2>1 DEF CharsOf, Cell
  <2> HIDE DEF m, n
  <2>3. m \in Seq(Chars) /\ Len(m) = n
    BY <2>1, <2>2, FunctionIsSeq
  <2> QED
    BY <2>2, <2>3 DEF m, n
<1> DEFINE u == s \o t
           a == CharsOf(s)
           b == CharsOf(t)
<1>2. /\ u \in Line /\ Len(u) = Len(s) + Len(t) /\ Len(s) \in Nat /\ Len(t) \in Nat
      /\ \A k \in 1..(Len(s) + Len(t)) : u[k] = IF k <= Len(s) THEN s[k] ELSE t[k - Len(s)]
  BY ConcatProperties, LenProperties DEF Line
<1> HIDE DEF u
<1>3. /\ CharsOf(u) \in Seq(Chars) /\ Len(CharsOf(u)) = Len(s) + Len(t)
      /\ \A k \in 1..(Len(s) + Len(t)) : CharsOf(u)[k] = u[k].ch
  BY <1>1, <1>2
<1>4. /\ a \in Seq(Chars) /\ Len(a) = Len(s) /\ \A k \in 1..Len(s) : a[k] = s[k].ch
      /\ b \in Seq(Chars) /\ Len(b) = Len(t) /\ \A k \in 1..Len(t) : b[k] = t[k].ch
  BY <1>1
<1> HIDE DEF a, b
<1>5. /\ a \o b \in Seq(Chars) /\ Len(a \o b) = Len(s) + Len(t)
      /\ \A k \in 1..(Len(s) + Len(t)) : (a \o b)[k] = IF k <= Len(s) THEN a[k] ELSE b[k - Len(s)]
  <2>1. /\ a \o b \in Seq(Chars) /\ Len(a \o b) = Len(a) + Len(b)
        /\ \A k \in 1..(Len(a) + Len(b)) : (a \o b)[k] = IF k <= Len(a) THEN a[k] ELSE b[k - Len(a)]
    <3>1. a \in Seq(Chars) /\ b \in Seq(Chars)
      BY <1>4
    <3> QED
      BY <3>1, ConcatProperties
  <2> QED
    BY <1>4, <2>1
<1>6. \A k \in 1..(Len(s) + Len(t)) : CharsOf(u)[k] = (a \o b)[k]
  <2> TAKE k \in 1..(Len(s) + Len(t))
  <2>1. CASE k <= Len(s)
    <3>1. k \in 1..Len(s)
      BY <1>2, <2>1
    <3>2. u[k] = s[k] /\ (a \o b)[k] = a[k]
      BY <1>2, <1>5, <2>1
    <3> QED
      BY <1>3, <1>4, <3>1, <3>2
  <2>2. CASE ~(k <= Len(s))
    <3>1. k - Len(s) \in 1..Len(t)
      BY <1>2, <2>2
    <3>2. u[k] = t[k - Len(s)] /\ (a \o b)[k] = b[k - Len(s)]
      BY <1>2, <1>5, <2>2
    <3> QED
      BY <1>3, <1>4, <3>1, <3>2
  <2> QED
    BY <2>1, <2>2
<1>7. CharsOf(u) = a \o b
  BY <1>3, <1>5, <1>6, SeqEqual
<1> QED
  BY <1>4, <1>7 DEF u, a, b

LEMMA LineBytesParts ==
    ASSUME NEW s \in Line, NEW t \in Line, NEW ch \in Chars, NEW title \in BOOLEAN
    PROVE  /\ LineBytes(s) \in Seq(Byte)
           /\ LineBytes(s \o t) = LineBytes(s) \o LineBytes(t)
           /\ LineBytes(<< >>) = << >>
           /\ LineBytes(<<[ch |-> ch, title |-> title]>>) = Utf8[ch]
           /\ AsciiLine(s) => Len(LineBytes(s)) = Len(s)
<1>1. /\ CharsOf(s) \in Seq(Chars) /\ CharsOf(t) \in Seq(Chars) /\ Len(CharsOf(s)) = Len(s)
      /\ CharsOf(s \o t) = CharsOf(s) \o CharsOf(t)
  BY CharsOfParts
<1>2. /\ Utf8Bytes(CharsOf(s)) \in Seq(Byte)
      /\ Utf8Bytes(CharsOf(s) \o CharsOf(t)) = Utf8Bytes(CharsOf(s)) \o Utf8Bytes(CharsOf(t))
      /\ Utf8Bytes(<< >>) = << >>
      /\ Utf8Bytes(<<ch>>) = Utf8[ch]
  BY <1>1, Utf8BytesParts
<1>3. CharsOf(<< >>) = << >>
  BY DEF CharsOf
<1>4. CharsOf(<<[ch |-> ch, title |-> title]>>) = <<ch>>
  <2> DEFINE line == <<[ch |-> ch, title |-> title]>>
  <2>1. DOMAIN line = {1} /\ line[1].ch = ch
    OBVIOUS
  <2> HIDE DEF line
  <2>2. CharsOf(line) = [k \in {1} |-> ch]
    BY <2>1 DEF CharsOf
  <2>3. CharsOf(line) = <<ch>>
    BY <2>2
  <2> QED
    BY <2>3 DEF line
<1>5. ASSUME AsciiLine(s)
      PROVE  Len(LineBytes(s)) = Len(s)
  <2>1. Ascii(CharsOf(s))
    BY <1>5 DEF AsciiLine, Ascii, CharsOf
  <2> QED
    BY <1>1, <2>1, AsciiLength DEF LineBytes
<1> QED
  BY <1>1, <1>2, <1>3, <1>4, <1>5 DEF LineBytes

LEMMA AsciiParts ==
    ASSUME NEW s \in Line, NEW t \in Line, AsciiLine(s \o t)
    PROVE  AsciiLine(s)
<1> DEFINE u == s \o t
<1>1. /\ Len(s) \in Nat /\ Len(t) \in Nat /\ DOMAIN s = 1..Len(s) /\ DOMAIN u = 1..(Len(s) + Len(t))
      /\ \A k \in 1..(Len(s) + Len(t)) : u[k] = IF k <= Len(s) THEN s[k] ELSE t[k - Len(s)]
  BY ConcatProperties, LenProperties DEF Line
<1>2. AsciiLine(u)
  OBVIOUS
<1> HIDE DEF u
<1> QED
  BY <1>1, <1>2 DEF AsciiLine

\* A line is no longer than the document.
LEMMA LineInDocument ==
    ASSUME NEW d \in Document, NEW l \in 0..(Len(d) - 1)
    PROVE  DocChars(d) \in Nat /\ Len(LineAt(d, l)) <= DocChars(d)
<1> DEFINE a == LinesBefore(d, l)
           x == LineAt(d, l)
           z == LinesAfter(d, l)
           fa == FlattenSeq(a)
           fz == FlattenSeq(z)
           ax == fa \o x
<1>1. a \in Document /\ z \in Document /\ x \in Line /\ d = a \o <<x>> \o z
  BY LinesAround, LineTyped
<1>2. fa \in Seq(Cell) /\ fz \in Seq(Cell)
  BY <1>1, FlattenType DEF Document, Line
<1> HIDE DEF a, x, z
<1>3. FlattenSeq(d) = ax \o fz
  BY <1>1, FlattenAround
<1> HIDE DEF fa, fz
<1>4. ax \in Seq(Cell) /\ Len(ax) = Len(fa) + Len(x)
  BY <1>1, <1>2, ConcatProperties DEF Line
<1> HIDE DEF ax
<1>5. Len(ax \o fz) = Len(ax) + Len(fz)
  BY <1>2, <1>4, ConcatProperties
<1>6. Len(fa) \in Nat /\ Len(x) \in Nat /\ Len(fz) \in Nat
  BY <1>1, <1>2, LenProperties DEF Line
<1> QED
  BY <1>3, <1>4, <1>5, <1>6 DEF DocChars, x

\* One line of both is changed, and the document gets an empty last line.
LEMMA LineChanged ==
    ASSUME EditorOK, Agree, NEW l \in 0..(Len(doc) - 1), NEW fs, NEW line,
           doc' = WithLine(doc, l, line), lines' = Put(lines, l, fs), Describes(fs, line)
    PROVE  Agree'
<1>1. Len(doc) \in Nat /\ DOMAIN doc = 1..Len(doc) /\ doc \in Seq(Line)
  BY LenProperties DEF EditorOK, DocumentOK, Document
<1>2. DOMAIN doc' = 1..Len(doc) /\ Len(doc') = Len(doc)
  BY <1>1 DEF WithLine
<1>3. DOMAIN lines' \subseteq 0..(Len(doc) - 1)
  BY DEF Put, Agree
<1>4. ASSUME NEW m \in 0..(Len(doc) - 1)
      PROVE  Describes(FieldsAt(lines', m), LineAt(doc', m))
  <2>1. m + 1 \in 1..Len(doc) /\ (m + 1 = l + 1 <=> m = l)
    BY <1>1
  <2>2. CASE m = l
    <3>1. LineAt(doc', m) = line
      BY <1>1, <2>1, <2>2 DEF LineAt, WithLine
    <3>2. FieldsAt(lines', m) = fs
      BY <2>2 DEF FieldsAt, Put
    <3> QED
      BY <3>1, <3>2
  <2>3. CASE m # l
    <3>1. LineAt(doc', m) = LineAt(doc, m)
      BY <1>1, <2>1, <2>3 DEF LineAt, WithLine
    <3>2. FieldsAt(lines', m) = FieldsAt(lines, m)
      BY <2>3 DEF FieldsAt, Put
    <3> QED
      BY <3>1, <3>2 DEF Agree
  <2> QED
    BY <2>2, <2>3
<1> QED
  BY <1>2, <1>3, <1>4 DEF Agree

\* Enter at the end of the document adds an empty line.
LEMMA TwoMore ==
    ASSUME NEW S, NEW a \in Seq(S), NEW x \in S, NEW y \in S
    PROVE  a \o <<x, y>> = Append(a \o <<x>>, y)
OBVIOUS

LEMMA SplitAtEnd ==
    ASSUME NEW d \in Document, NEW p \in Positions(d),
           p.line = Len(d) - 1, p.col = Len(LineAt(d, p.line))
    PROVE  Splice(d, p, p, NewLine) = Append(d, << >>)
<1> DEFINE l == p.line
           a == LinesBefore(d, l)
           z == LinesAfter(d, l)
           h == HeadOf(d, p)
           t == TailOf(d, p)
           line == LineAt(d, l)
<1>1. l \in 0..(Len(d) - 1) /\ Len(d) \in Nat
  BY PositionElim, LenProperties DEF Document
<1>2. /\ a \in Seq(Line) /\ z \in Seq(Line) /\ Len(z) = 0 /\ line \in Line
      /\ d = a \o <<line>> \o z
  BY <1>1, LinesAround, LineTyped DEF Document
<1>3. h \in Seq(Cell) /\ Len(h) = Len(line) /\ t \in Seq(Cell) /\ line = h \o t
  BY HeadAndTail, LineParts DEF Line
<1>4. Splice(d, p, p, NewLine) = a \o <<h, t>> \o z
  BY SpliceNewLine
<1> HIDE DEF a, z, h, t, line
<1>5. t = << >> /\ h = line
  <2>1. Len(h \o t) = Len(h) + Len(t) /\ Len(h) \in Nat /\ Len(t) \in Nat
    BY <1>3, ConcatProperties, LenProperties
  <2>2. Len(t) = 0
    BY <1>3, <2>1
  <2>3. t = << >>
    BY <1>3, <2>2, EmptySeq
  <2> QED
    BY <1>3, <2>3, ConcatEmptySeq
<1> DEFINE e == << >>
           m == <<line, e>>
           n == <<line>>
<1>6. z = e /\ e \in Line /\ m \in Seq(Line) /\ n \in Seq(Line)
  BY <1>2, EmptySeq DEF Line
<1>7. a \o m = Append(a \o n, e)
  <2> HIDE DEF e
  <2> QED
    BY <1>2, <1>6, TwoMore
<1>8. a \o m \in Seq(Line) /\ a \o n \in Seq(Line)
  <2> HIDE DEF m, n, e
  <2> QED
    BY <1>2, <1>6, ConcatProperties
<1>9. (a \o m) \o z = a \o m /\ (a \o n) \o z = a \o n
  <2>1. z = << >>
    BY <1>6
  <2> HIDE DEF m, n, e
  <2> QED
    BY <1>8, <2>1, ConcatEmptySeq
<1> QED
  BY <1>2, <1>4, <1>5, <1>7, <1>9

LEMMA LineAdded ==
    ASSUME EditorOK, Agree, doc' = Append(doc, << >>), lines' = lines
    PROVE  Agree'
<1>1. Len(doc) \in Nat /\ doc \in Seq(Line)
  BY LenProperties DEF EditorOK, DocumentOK, Document
<1>2. /\ Len(doc') = Len(doc) + 1 /\ doc'[Len(doc) + 1] = << >>
      /\ \A i \in 1..Len(doc) : doc'[i] = doc[i]
  BY <1>1
<1>3. ASSUME NEW m \in 0..Len(doc)
      PROVE  Describes(FieldsAt(lines', m), LineAt(doc', m))
  <2>1. CASE m = Len(doc)
    <3>1. LineAt(doc', m) = << >>
      BY <1>2, <2>1 DEF LineAt
    <3>2. FieldsAt(lines', m) = << >>
      BY <1>1, <2>1 DEF Agree, FieldsAt
    <3> QED
      BY <3>1, <3>2 DEF Describes
  <2>2. CASE m # Len(doc)
    <3>1. m \in 0..(Len(doc) - 1) /\ m + 1 \in 1..Len(doc)
      BY <1>1, <2>2
    <3>2. LineAt(doc', m) = LineAt(doc, m)
      BY <1>2, <3>1 DEF LineAt
    <3> QED
      BY <3>1, <3>2 DEF Agree
  <2> QED
    BY <2>1, <2>2
<1>4. DOMAIN lines' \subseteq 0..(Len(doc') - 1) /\ 0..(Len(doc') - 1) = 0..Len(doc)
  BY <1>1, <1>2 DEF Agree
<1> QED
  BY <1>3, <1>4 DEF Agree

\* The only field of a line: the loops find nothing to shift.
LEMMA OneField ==
    ASSUME NEW fs \in Seq(Field), Len(fs) = 1, NEW g
    PROVE  /\ ShiftRightFrom([fs EXCEPT ![1] = g], fs[1].position + 1) = <<g>>
           /\ ShiftLeftFrom([fs EXCEPT ![1] = g], fs[1].position + 1) = <<g>>
<1> DEFINE e == [fs EXCEPT ![1] = g]
           n == fs[1].position + 1
<1>1. DOMAIN fs = {1}
  BY LenProperties
<1>2. fs[1].position \in Nat
  <2>1. fs[1] \in Field
    <3>1. 1 \in DOMAIN fs /\ fs \in [DOMAIN fs -> Field]
      BY <1>1, LenProperties
    <3> QED
      BY <3>1
  <2> QED
    BY <2>1 DEF Field
<1>3. ~(1 > n)
  BY <1>2
<1>4. DOMAIN e = {1} /\ e[1] = g
  BY <1>1
<1> HIDE DEF e, n
<1>5. ShiftRightFrom(e, n) = [j \in {1} |-> g] /\ ShiftLeftFrom(e, n) = [j \in {1} |-> g]
  BY <1>3, <1>4 DEF ShiftRightFrom, ShiftLeftFrom
<1>6. [j \in {1} |-> g] = <<g>>
  OBVIOUS
<1> QED
  BY <1>5, <1>6 DEF e, n

\* A key on a described line.
LEMMA TypedAgrees ==
    ASSUME EditorOK, Agree, KeysFiltered, NEW ch \in Chars, OneByte(ch), Key(ch),
           ~HasSelection, AsciiLine(LineAt(doc, cursor.line))
    PROVE  Agree'
<1> DEFINE l == cursor.line
           col == cursor.col
           line == LineAt(doc, l)
           fs == FieldsAt(lines, l)
           b == Latin1[ch]
           h == HeadOf(doc, cursor)
           t == TailOf(doc, cursor)
           c == [ch |-> ch, title |-> FALSE]
           s == <<c>>
           new == h \o s \o t
<1>1. /\ doc \in Document /\ cursor \in Positions(doc)
      /\ SelectionStart = cursor /\ SelectionEnd = cursor
  BY NoSelection DEF EditorOK, DocumentOK
<1>2. /\ visible /\ IsEditable(lines, ColumnNumber, CurrentLine)
      /\ lines' = TypeAt(lines, ColumnNumber, CurrentLine, b)
      /\ DocChars(doc) + 1 <= MaxChars
  BY DEF Key, Room
<1>3. /\ ColumnNumber = col /\ CurrentLine = l /\ l \in 0..(Len(doc) - 1)
      /\ col \in Nat /\ col \in 0..Len(line)
  BY <1>2, CursorColumn
<1>4. lines' = TypeAt(lines, col, l, b)
  BY <1>2, <1>3
<1>5. b \in Byte /\ Utf8[ch] = <<b>>
  BY PlainEditorAssumption DEF OneByte
<1>6. /\ h \in Line /\ Len(h) = col /\ t \in Line /\ line = h \o t /\ line \in Line
      /\ Len(line) = Len(h) + Len(t) /\ Len(t) \in Nat
  <2>1. h \in Seq(Cell) /\ Len(h) = col /\ t \in Seq(Cell) /\ line = h \o t
    BY <1>1, HeadAndTail, LineParts DEF Line
  <2> HIDE DEF h, t, line
  <2> QED
    BY <2>1, ConcatProperties, LenProperties DEF Line
<1>7. Len(line) + 1 < UIntMod /\ Len(line) \in Nat
  <2>1. DocChars(doc) \in Nat /\ Len(line) <= DocChars(doc)
    BY <1>1, <1>3, LineInDocument
  <2>2. Len(line) \in Nat
    BY <1>6, LenProperties DEF Line
  <2>3. MaxChars \in Nat /\ MaxChars < UIntMod /\ UIntMod \in Nat
    BY PlainEditorAssumption, DataManAssumption
  <2> DEFINE n == Len(line)
             m == DocChars(doc)
  <2>4. n \in Nat /\ m \in Nat /\ n <= m /\ m + 1 <= MaxChars
    BY <1>2, <2>1, <2>2
  <2> HIDE DEF n, m, line
  <2>5. n + 1 < UIntMod
    BY <2>3, <2>4
  <2> QED
    BY <2>4, <2>5 DEF n
<1>8. c \in Cell /\ s \in Line /\ Len(s) = 1
  BY DEF Cell, Line
<1>9. doc' = WithLine(doc, l, new)
  <2>1. Typed(<<ch>>) = s
    BY TypedOne
  <2>2. doc' = Splice(doc, cursor, cursor, <<s>>)
    BY <1>1, <2>1 DEF Key, InsertAtCursor
  <2> HIDE DEF s
  <2>3. Splice(doc, cursor, cursor, <<s>>) = WithLine(doc, l, h \o s \o t)
    BY <1>1, <1>8, SpliceInLine
  <2> QED
    BY <2>2, <2>3
<1>10. LineBytes(s) = <<b>>
  BY <1>5, <1>6, LineBytesParts
<1>11. \A k \in DOMAIN line : ~line[k].title
  BY <1>2, <1>3, EditableLine
\* The new line.
<1>12. /\ new \in Line /\ Len(new) = Len(line) + 1
       /\ LineBytes(new) = LineBytes(h) \o <<b>> \o LineBytes(t)
  <2> DEFINE hs == h \o s
  <2> HIDE DEF h, t, s, line
  <2>1. hs \in Line /\ Len(hs) = Len(h) + 1
    <3>1. h \in Seq(Cell) /\ s \in Seq(Cell)
      BY <1>6, <1>8 DEF Line
    <3>2. hs \in Seq(Cell) /\ Len(hs) = Len(h) + Len(s)
      BY <3>1, ConcatProperties
    <3> HIDE DEF hs
    <3> QED
      BY <1>8, <3>2 DEF Line
  <2>2. LineBytes(hs) = LineBytes(h) \o LineBytes(s)
    BY <1>6, <1>8, LineBytesParts
  <2> HIDE DEF hs
  <2>3. hs \o t \in Line /\ Len(hs \o t) = Len(hs) + Len(t)
    BY <1>6, <2>1, ConcatProperties DEF Line
  <2>4. LineBytes(hs \o t) = LineBytes(hs) \o LineBytes(t)
    BY <1>6, <2>1, LineBytesParts
  <2>5. Len(hs \o t) = Len(line) + 1
    BY <1>3, <1>6, <2>1, <2>3
  <2> QED
    BY <1>10, <2>2, <2>3, <2>4, <2>5 DEF hs
<1>13. \A k \in DOMAIN new : ~new[k].title
  <2> DEFINE hs == h \o s
  <2>1. /\ DOMAIN line = 1..Len(line)
        /\ \A k \in 1..(Len(h) + Len(t)) : line[k] = IF k <= Len(h) THEN h[k] ELSE t[k - Len(h)]
    <3> HIDE DEF h, t, line
    <3> QED
      BY <1>6, ConcatProperties, LenProperties DEF Line
  <2> HIDE DEF h, t, line
  <2>2. /\ hs \in Seq(Cell) /\ Len(hs) = Len(h) + 1
        /\ \A k \in 1..(Len(h) + 1) : hs[k] = IF k <= Len(h) THEN h[k] ELSE c
    <3>1. /\ hs \in Seq(Cell) /\ Len(hs) = Len(h) + Len(s)
          /\ \A k \in 1..(Len(h) + Len(s)) : hs[k] = IF k <= Len(h) THEN h[k] ELSE s[k - Len(h)]
      <4> HIDE DEF s
      <4>1. h \in Seq(Cell) /\ s \in Seq(Cell)
        BY <1>6, <1>8 DEF Line
      <4> QED
        BY <4>1, ConcatProperties
    <3>2. \A k \in 1..(Len(h) + 1) : ~(k <= Len(h)) => k - Len(h) = 1
      BY <1>3, <1>6
    <3>3. s[1] = c
      OBVIOUS
    <3> HIDE DEF hs, s, c
    <3>4. Len(hs) = Len(h) + 1
      BY <1>8, <3>1
    <3>5. ASSUME NEW k \in 1..(Len(h) + 1)
          PROVE  hs[k] = IF k <= Len(h) THEN h[k] ELSE c
      <4>1. k \in 1..(Len(h) + Len(s))
        BY <1>8
      <4>2. hs[k] = IF k <= Len(h) THEN h[k] ELSE s[k - Len(h)]
        BY <3>1, <4>1
      <4> QED
        BY <3>2, <3>3, <4>2
    <3> QED
      BY <3>1, <3>4, <3>5
  <2> HIDE DEF hs, c
  <2>3. /\ DOMAIN (hs \o t) = 1..(Len(hs) + Len(t))
        /\ \A k \in 1..(Len(hs) + Len(t)) : (hs \o t)[k] = IF k <= Len(hs) THEN hs[k] ELSE t[k - Len(hs)]
    BY <1>6, <2>2, ConcatProperties, LenProperties, SMTT(30) DEF Line
  <2>4. ASSUME NEW k \in 1..(Len(hs) + Len(t))
        PROVE  ~(hs \o t)[k].title
    <3>1. CASE k <= Len(h)
      <4>1. (hs \o t)[k] = line[k] /\ k \in 1..Len(line)
        BY <1>3, <1>6, <2>1, <2>2, <2>3, <3>1
      <4> QED
        BY <1>11, <2>1, <4>1
    <3>2. CASE k = Len(h) + 1
      <4>1. (hs \o t)[k] = c
        BY <1>3, <1>6, <2>2, <2>3, <3>2
      <4> QED
        BY <4>1 DEF c
    <3>3. CASE k > Len(h) + 1
      <4>1. (hs \o t)[k] = t[k - (Len(h) + 1)]
        <5>1. (hs \o t)[k] = IF k <= Len(hs) THEN hs[k] ELSE t[k - Len(hs)]
          BY <2>3
        <5>2. Len(hs) = Len(h) + 1 /\ ~(k <= Len(h) + 1)
          BY <1>3, <1>6, <2>2, <3>3
        <5> QED
          BY <5>1, <5>2
      <4>2. /\ k - 1 \in 1..Len(line) /\ ~(k - 1 <= Len(h)) /\ (k - 1) - Len(h) = k - (Len(h) + 1)
        BY <1>3, <1>6, <2>2, <3>3, SMTT(30)
      <4>3. line[k - 1] = t[k - (Len(h) + 1)]
        BY <1>6, <2>1, <4>2
      <4> QED
        BY <1>11, <2>1, <4>1, <4>2, <4>3
    <3> QED
      BY <1>3, <1>6, <2>2, <3>1, <3>2, <3>3
  <2> QED
    BY <2>3, <2>4 DEF hs
<1>14. CASE fs = << >>
  <2> DEFINE f == NewTextField(0, col, b)
  <2>1. line = << >> /\ SearchAtCol(fs, col) = 0
    BY <1>3, <1>14, AgreedLine
  <2>2. col = 0 /\ Len(line) = 0
    BY <1>3, <2>1
  <2>3. lines' = Put(lines, l, <<f>>)
    BY <1>4, <1>14, <2>1 DEF TypeAt
  <2>4. LineBytes(h) = << >> /\ LineBytes(t) = << >>
    <3>1. h = << >> /\ t = << >>
      <4> HIDE DEF h, t, line
      <4> QED
        BY <1>6, <2>2, EmptySeq DEF Line
    <3> QED
      BY <1>6, <3>1, LineBytesParts
  <2>5. LineBytes(new) = <<b>>
    <3> HIDE DEF new, h, t
    <3>1. (<< >> \o <<b>>) \o << >> = <<b>>
      OBVIOUS
    <3> QED
      BY <1>12, <2>4, <3>1
  <2>6. f.start = 0 /\ f.end = 1 /\ f.info = <<b>> /\ Len(<<f>>) = 1 /\ <<f>>[1] = f
    BY <1>7, <2>2 DEF NewTextField, Inc
  <2> HIDE DEF f, new, line
  <2>7. Describes(<<f>>, new)
    BY <1>12, <1>13, <2>2, <2>5, <2>6 DEF Describes, LineBytes
  <2> QED
    BY <1>3, <1>9, <2>3, <2>7, LineChanged
<1>15. CASE fs # << >>
  <2> DEFINE f == fs[1]
             g == AppendChar(f, b, col)
  <2>1. /\ fs \in Seq(Field) /\ Len(fs) = 1 /\ f \in Field
        /\ f.start = 0 /\ f.end = Len(line) /\ f.info = LineBytes(line)
        /\ SearchAtCol(fs, col) = 1
    BY <1>3, <1>15, AgreedLine DEF LineBytes
  <2>2. USub(col, f.start) = col
    BY <1>3, <2>1 DEF USub
  <2>3. /\ LineBytes(line) = LineBytes(h) \o LineBytes(t)
        /\ LineBytes(h) \in Seq(Byte) /\ LineBytes(t) \in Seq(Byte)
        /\ Len(LineBytes(line)) = Len(line) /\ Len(LineBytes(h)) = col
    <3>1. AsciiLine(line) /\ AsciiLine(h)
      <4>1. AsciiLine(h \o t)
        BY <1>6
      <4> HIDE DEF h, t
      <4> QED
        BY <1>6, <4>1, AsciiParts
    <3> HIDE DEF h, t, line
    <3>2. LineBytes(h \o t) = LineBytes(h) \o LineBytes(t)
      BY <1>6, LineBytesParts
    <3>3. LineBytes(h) \in Seq(Byte) /\ Len(LineBytes(h)) = Len(h)
      BY <1>6, <3>1, LineBytesParts
    <3>4. LineBytes(t) \in Seq(Byte)
      BY <1>6, LineBytesParts
    <3>5. Len(LineBytes(line)) = Len(line)
      BY <1>6, <3>1, LineBytesParts
    <3> QED
      BY <1>6, <3>2, <3>3, <3>4, <3>5
  <2>4. ~Throws(f.info, USub(col, f.start))
    BY <1>3, <1>6, <2>1, <2>2, <2>3 DEF Throws
  <2>5. lines' = Put(lines, l, <<g>>)
    <3>1. lines' = Put(lines, l, ShiftRightFrom([fs EXCEPT ![1] = g], f.position + 1))
      BY <1>4, <2>1, <2>4 DEF TypeAt
    <3>2. ShiftRightFrom([fs EXCEPT ![1] = g], f.position + 1) = <<g>>
      BY <2>1, OneField
    <3> QED
      BY <3>1, <3>2
  <2>6. Insert(LineBytes(line), col, b) = LineBytes(new)
    <3> HIDE DEF h, t, line, new
    <3> QED
      BY <1>5, <1>12, <2>3, InsertBetween
  <2>7. g.start = 0 /\ g.end = Len(line) + 1 /\ g.info = LineBytes(new)
    <3>1. g.start = f.start /\ g.end = Inc(f.end) /\ g.info = Insert(f.info, col, b)
      BY <2>1, <2>2 DEF AppendChar, Field
    <3>2. Inc(Len(line)) = Len(line) + 1
      <4> HIDE DEF line
      <4>1. Len(line) # UIntMod - 1
        BY <1>7, DataManAssumption
      <4> QED
        BY <4>1 DEF Inc
    <3> HIDE DEF g, f, line, new
    <3> QED
      BY <2>1, <2>6, <3>1, <3>2
  <2>8. Describes(<<g>>, new)
    <3> HIDE DEF g, line, new
    <3>1. Len(<<g>>) = 1 /\ <<g>>[1] = g
      OBVIOUS
    <3> QED
      BY <1>12, <1>13, <2>7, <3>1 DEF Describes, LineBytes
  <2> HIDE DEF g, new
  <2> QED
    BY <1>3, <1>9, <2>5, <2>8, LineChanged
<1> QED
  BY <1>14, <1>15

\* removeCharacter when the first field holds the column.
LEMMA FirstFieldErased ==
    ASSUME NEW ls, NEW col, NEW l, SearchAtCol(FieldsAt(ls, l), col) = 1,
           ~Throws(FieldsAt(ls, l)[1].info, USub(Dec(col), FieldsAt(ls, l)[1].start))
    PROVE  RemoveChar(ls, col, l) =
              Put(ls, l, ShiftLeftFrom([FieldsAt(ls, l) EXCEPT ![1] = RemoveCharAt(@, Dec(col))],
                                       FieldsAt(ls, l)[1].position + 1))
BY DEF RemoveChar

\* Backspace and Delete within a described line: the character at p goes.
LEMMA ErasedAgrees ==
    ASSUME EditorOK, Agree, NEW l \in 0..(Len(doc) - 1),
           NEW p \in Positions(doc), NEW q \in Positions(doc),
           p.line = l, q.line = l, q.col = p.col + 1,
           IsEditable(lines, q.col, l), AsciiLine(LineAt(doc, l)),
           lines' = RemoveChar(lines, q.col, l),
           doc' = Splice(doc, p, q, << << >> >>)
    PROVE  Agree'
<1> DEFINE line == LineAt(doc, l)
           fs == FieldsAt(lines, l)
           col == p.col
           h == HeadOf(doc, p)
           t == TailOf(doc, q)
           x == line[col + 1]
           xs == <<x>>
           hx == h \o xs
           new == h \o t
           b == Latin1[x.ch]
           f == fs[1]
           g == RemoveCharAt(f, col)
<1>1. doc \in Document
  BY DEF EditorOK, DocumentOK
<1>2. h \in Seq(Cell) /\ Len(h) = col /\ t \in Seq(Cell) /\ col \in Nat
  BY <1>1, HeadAndTail, PositionElim DEF Line
<1>3. x \in Cell /\ col + 1 \in DOMAIN line /\ xs \in Seq(Cell) /\ Len(xs) = 1 /\ xs[1] = x
  <2>1. x \in Cell /\ col + 1 \in DOMAIN line
    BY <1>1, NextChar
  <2> HIDE DEF x
  <2> QED
    BY <2>1
<1>4. line = hx \o t
  <2>1. line = h \o TailOf(doc, p) /\ TailOf(doc, p) = xs \o t
    BY <1>1, LineParts, NextChar
  <2> HIDE DEF h, t, xs, line
  <2>2. h \o (xs \o t) = (h \o xs) \o t
    BY <1>2, <1>3, CellsAssociate, SMTT(30)
  <2> QED
    BY <2>1, <2>2
<1>5. OneByte(x.ch) /\ x.ch \in Chars /\ x.title \in BOOLEAN /\ b \in Byte /\ Utf8[x.ch] = <<b>>
  <2>1. OneByte(x.ch)
    BY <1>3 DEF AsciiLine
  <2>2. x.ch \in Chars /\ x.title \in BOOLEAN
    BY <1>3 DEF Cell
  <2> QED
    BY <2>1, <2>2, PlainEditorAssumption DEF OneByte
<1>6. \A k \in DOMAIN line : ~line[k].title
  <2>1. q.col \in 0..Len(line)
    BY PositionElim
  <2> QED
    BY <2>1, EditableLine
<1> HIDE DEF h, t, x, xs, b
\* The line as the cells before and after the one that goes.
<1>7. /\ hx \in Seq(Cell) /\ Len(hx) = col + 1
      /\ \A k \in 1..col : hx[k] = h[k]
  <2>1. /\ hx \in Seq(Cell) /\ Len(hx) = Len(h) + Len(xs)
        /\ \A k \in 1..(Len(h) + Len(xs)) : hx[k] = IF k <= Len(h) THEN h[k] ELSE xs[k - Len(h)]
    BY <1>2, <1>3, ConcatProperties
  <2>2. \A k \in 1..(col + 1) : hx[k] = IF k <= col THEN h[k] ELSE xs[k - col]
    BY <1>2, <1>3, <2>1
  <2> HIDE DEF hx, col
  <2>3. hx \in Seq(Cell) /\ Len(hx) = col + 1
    BY <1>2, <1>3, <2>1
  <2>4. ASSUME NEW k \in 1..col
        PROVE  hx[k] = h[k]
    <3>1. k \in 1..(col + 1) /\ k <= col
      BY <1>2
    <3> QED
      BY <2>2, <3>1
  <2> QED
    BY <2>3, <2>4
<1> HIDE DEF hx
<1>8. /\ Len(line) = col + 1 + Len(t) /\ Len(t) \in Nat
      /\ DOMAIN line = 1..(col + 1 + Len(t))
      /\ \A k \in 1..col : line[k] = h[k]
      /\ \A k \in 1..Len(t) : line[col + 1 + k] = t[k]
  <2>1. /\ hx \o t \in Seq(Cell) /\ Len(hx \o t) = Len(hx) + Len(t)
        /\ \A k \in 1..(Len(hx) + Len(t)) :
              (hx \o t)[k] = IF k <= Len(hx) THEN hx[k] ELSE t[k - Len(hx)]
    BY <1>2, <1>7, ConcatProperties
  <2>2. Len(t) \in Nat /\ DOMAIN (hx \o t) = 1..Len(hx \o t)
    BY <1>2, <2>1, LenProperties
  <2> HIDE DEF line
  <2>3. Len(line) = col + 1 + Len(t) /\ DOMAIN line = 1..(col + 1 + Len(t))
    BY <1>4, <1>7, <2>1, <2>2
  <2>4. ASSUME NEW k \in 1..col
        PROVE  line[k] = h[k]
    <3>1. k \in 1..(Len(hx) + Len(t)) /\ k <= Len(hx)
      BY <1>2, <1>7, <2>2
    <3> QED
      BY <1>4, <1>7, <2>1, <3>1
  <2>5. ASSUME NEW k \in 1..Len(t)
        PROVE  line[col + 1 + k] = t[k]
    <3> DEFINE m == col + 1 + k
    <3>1. m \in 1..(Len(hx) + Len(t)) /\ ~(m <= Len(hx)) /\ m - Len(hx) = k
      <4> DEFINE n == Len(t)
      <4>1. n \in Nat /\ k \in 1..n /\ Len(hx) = col + 1
        BY <1>7, <2>2
      <4> HIDE DEF n, col
      <4>2. m \in 1..((col + 1) + n) /\ ~(m <= col + 1) /\ m - (col + 1) = k
        BY <1>2, <4>1
      <4> QED
        BY <4>1, <4>2 DEF n
    <3> HIDE DEF m
    <3>2. (hx \o t)[m] = t[k]
      BY <2>1, <3>1
    <3> QED
      BY <1>4, <3>2 DEF m
  <2> QED
    BY <2>2, <2>3, <2>4, <2>5
<1>9. /\ new \in Seq(Cell) /\ Len(new) = col + Len(t)
      /\ \A k \in DOMAIN new : ~new[k].title
  <2>1. /\ new \in Seq(Cell) /\ Len(new) = Len(h) + Len(t) /\ DOMAIN new = 1..Len(new)
        /\ \A k \in 1..(Len(h) + Len(t)) : new[k] = IF k <= Len(h) THEN h[k] ELSE t[k - Len(h)]
    BY <1>2, ConcatProperties, LenProperties
  <2> HIDE DEF new, line
  <2>2. ASSUME NEW k \in 1..(col + Len(t))
        PROVE  ~new[k].title
    <3>1. CASE k <= col
      <4>1. new[k] = line[k] /\ k \in DOMAIN line
        BY <1>2, <1>8, <2>1, <3>1
      <4> QED
        BY <1>6, <4>1
    <3>2. CASE ~(k <= col)
      <4>1. new[k] = t[k - col]
        BY <1>2, <2>1, <3>2
      <4>2. k - col \in 1..Len(t) /\ col + 1 + (k - col) = k + 1 /\ k + 1 \in 1..(col + 1 + Len(t))
        BY <1>2, <1>8, <3>2, SMTT(30)
      <4>3. new[k] = line[k + 1] /\ k + 1 \in DOMAIN line
        BY <1>8, <4>1, <4>2
      <4> QED
        BY <1>6, <4>3
    <3> QED
      BY <3>1, <3>2
  <2> QED
    BY <1>2, <2>1, <2>2
\* Their bytes.
<1>10. /\ LineBytes(line) = LineBytes(h) \o <<b>> \o LineBytes(t)
       /\ LineBytes(new) = LineBytes(h) \o LineBytes(t)
       /\ LineBytes(h) \in Seq(Byte) /\ LineBytes(t) \in Seq(Byte)
       /\ Len(LineBytes(h)) = col /\ Len(LineBytes(line)) = Len(line)
  <2>1. h \in Line /\ xs \in Line /\ t \in Line /\ hx \in Line /\ line \in Line
    BY <1>1, <1>2, <1>3, <1>7, LineTyped DEF Line
  <2>2. AsciiLine(h)
    <3>1. AsciiLine(hx \o t)
      BY <1>4
    <3>2. AsciiLine(hx)
      BY <2>1, <3>1, AsciiParts
    <3> QED
      BY <2>1, <3>2, AsciiParts DEF hx
  <2>3. LineBytes(xs) = <<b>>
    <3>1. x = [ch |-> x.ch, title |-> x.title]
      BY <1>3 DEF Cell
    <3>2. LineBytes(<<[ch |-> x.ch, title |-> x.title]>>) = Utf8[x.ch]
      BY <1>5, <2>1, LineBytesParts
    <3> QED
      BY <1>5, <3>1, <3>2 DEF xs
  <2>4. LineBytes(hx) = LineBytes(h) \o LineBytes(xs)
    BY <1>5, <2>1, LineBytesParts DEF hx
  <2>5. LineBytes(hx \o t) = LineBytes(hx) \o LineBytes(t)
    BY <1>5, <2>1, LineBytesParts
  <2>6. LineBytes(new) = LineBytes(h) \o LineBytes(t)
    BY <1>5, <2>1, LineBytesParts
  <2>7. LineBytes(h) \in Seq(Byte) /\ Len(LineBytes(h)) = Len(h) /\ LineBytes(t) \in Seq(Byte)
    BY <1>5, <2>1, <2>2, LineBytesParts
  <2>8. Len(LineBytes(line)) = Len(line)
    BY <1>5, <2>1, LineBytesParts
  <2> HIDE DEF new, line
  <2> QED
    BY <1>2, <1>4, <2>3, <2>4, <2>5, <2>6, <2>7, <2>8
<1>11. Erase(LineBytes(line), col) = LineBytes(new)
  <2> HIDE DEF new, line
  <2>1. Erase(LineBytes(h) \o <<b>> \o LineBytes(t), Len(LineBytes(h))) = LineBytes(h) \o LineBytes(t)
    BY <1>5, <1>10, EraseBetween
  <2> QED
    BY <1>10, <2>1
\* The field.
<1>12. /\ l \in DOMAIN lines /\ fs \in Seq(Field) /\ Len(fs) = 1 /\ f \in Field
       /\ f.start = 0 /\ f.end = Len(line) /\ f.info = LineBytes(line)
       /\ SearchAtCol(fs, col + 1) = 1 /\ Len(line) \in UInt
  <2>1. line # << >> /\ col + 1 \in 0..Len(line)
    BY <1>2, <1>3, <1>8
  <2>2. fs # << >> /\ Len(line) \in UInt
    BY <2>1, AgreedLine
  <2> QED
    BY <2>1, <2>2, AgreedLine DEF LineBytes
<1>13. Dec(col + 1) = col /\ USub(col, f.start) = col
  BY <1>2, <1>12 DEF Dec, USub
<1>14. lines' = Put(lines, l, <<g>>)
  <2>1. lines' = RemoveChar(lines, col + 1, l)
    OBVIOUS
  <2>2. ~Throws(f.info, USub(Dec(col + 1), f.start))
    <3>1. Throws(f.info, USub(Dec(col + 1), f.start)) <=> col > Len(line)
      BY <1>10, <1>12, <1>13 DEF Throws
    <3> QED
      BY <1>2, <1>8, <3>1
  <2>3. lines' = Put(lines, l, ShiftLeftFrom([fs EXCEPT ![1] = g], f.position + 1))
    <3>1. lines' = Put(lines, l, ShiftLeftFrom([fs EXCEPT ![1] = RemoveCharAt(@, Dec(col + 1))],
                                               f.position + 1))
      <4> HIDE DEF fs
      <4> QED
        BY <1>12, <2>1, <2>2, FirstFieldErased DEF fs
    <3> QED
      BY <1>12, <1>13, <3>1
  <2>4. ShiftLeftFrom([fs EXCEPT ![1] = g], f.position + 1) = <<g>>
    BY <1>12, OneField
  <2> QED
    BY <2>3, <2>4
<1>15. g.start = 0 /\ g.end = Len(new) /\ g.info = LineBytes(new)
  <2>1. g.start = f.start /\ g.end = Dec(f.end) /\ g.info = Erase(f.info, col)
    BY <1>12, <1>13 DEF RemoveCharAt, Field
  <2>2. Dec(Len(line)) = Len(new)
    <3> DEFINE n == Len(line)
               m == Len(new)
    <3>1. n = col + 1 + Len(t) /\ m = col + Len(t) /\ Len(t) \in Nat
      BY <1>8, <1>9
    <3> HIDE DEF n, m
    <3>2. Dec(n) = m
      BY <1>2, <3>1 DEF Dec
    <3> QED
      BY <3>2 DEF n, m
  <2> HIDE DEF g, f, line, new
  <2> QED
    BY <1>11, <1>12, <2>1, <2>2
<1>16. Describes(<<g>>, new)
  <2> HIDE DEF g, new
  <2>1. Len(<<g>>) = 1 /\ <<g>>[1] = g
    OBVIOUS
  <2> QED
    BY <1>9, <1>15, <2>1 DEF Describes, LineBytes
<1>17. doc' = WithLine(doc, l, new)
  <2> DEFINE s == << >>
  <2>1. s \in Line /\ h \o s = h
    BY <1>2, ConcatEmptySeq DEF Line
  <2>2. Splice(doc, p, q, <<s>>) = WithLine(doc, l, (h \o s) \o t)
    BY <1>1, <2>1, SpliceInLine DEF h, t
  <2> QED
    BY <2>1, <2>2
<1> HIDE DEF g, new
<1> QED
  BY <1>14, <1>16, <1>17, LineChanged

LEMMA OneElement ==
    ASSUME NEW S, NEW s \in Seq(S), Len(s) = 1
    PROVE  s[1] \in S /\ s = <<s[1]>>
<1>1. DOMAIN s = {1} /\ s[1] \in S
  BY LenProperties, ElementOfSeq
<1>2. s = [i \in {1} |-> s[i]]
  BY <1>1, LenProperties
<1> QED
  BY <1>1, <1>2

\* The text of a title or name of one line.
LEMMA OneLineBytes ==
    ASSUME NEW str \in Seq(Chars)
    PROVE  /\ TextBytes(<<str>>) = Utf8Bytes(str)
           /\ TitledText(<<str>>) = <<Titled(str)>>
           /\ TypedText(<<str>>) = <<Typed(str)>>
<1> DEFINE text == <<str>>
           u == Utf8Bytes(str)
           uu == <<u>>
           m == [i \in DOMAIN text |-> (IF i = 1 THEN << >> ELSE <<Newline>>) \o Utf8Bytes(text[i])]
<1>1. DOMAIN text = {1} /\ text[1] = str
  OBVIOUS
<1>2. u \in Seq(Byte)
  BY Utf8SeqValued, FlatMapType DEF Utf8Bytes, FlatMap, EachMapped
<1>3. m = uu
  <2>1. << >> \o u = u
    BY <1>2, ConcatEmptySeq
  <2> HIDE DEF text
  <2>2. DOMAIN m = {1} /\ m[1] = << >> \o Utf8Bytes(str)
    BY <1>1
  <2>3. m = [i \in {1} |-> m[i]]
    BY <2>2
  <2> HIDE DEF m
  <2>4. m = <<m[1]>>
    BY <2>3
  <2> QED
    BY <2>1, <2>2, <2>4
<1>4. FlattenSeq(uu) = u
  <2> HIDE DEF u
  <2> QED
    BY <1>2, FlattenSingleton
<1>5. TextBytes(text) = FlattenSeq(m)
  BY DEF TextBytes
<1>6. TitledText(text) = <<Titled(str)>> /\ TypedText(text) = <<Typed(str)>>
  BY <1>1 DEF TitledText, TypedText
<1> HIDE DEF m, uu
<1> QED
  BY <1>3, <1>4, <1>5, <1>6

\* The characters of such a text, and which of them are a title's.
LEMMA CharsOfText ==
    ASSUME NEW str \in Seq(Chars)
    PROVE  /\ Titled(str) \in Line /\ CharsOf(Titled(str)) = str /\ Len(Titled(str)) = Len(str)
           /\ Typed(str) \in Line /\ CharsOf(Typed(str)) = str /\ Len(Typed(str)) = Len(str)
           /\ \A k \in DOMAIN Typed(str) : ~Typed(str)[k].title
<1> DEFINE n == Len(str)
<1>1. n \in Nat /\ DOMAIN str = 1..n /\ \A k \in 1..n : str[k] \in Chars
  BY LenProperties, ElementOfSeq
<1>2. str = [k \in 1..n |-> str[k]]
  BY <1>1, LenProperties
<1> HIDE DEF n
<1>3. /\ Titled(str) \in [1..n -> Cell] /\ Typed(str) \in [1..n -> Cell]
      /\ \A k \in 1..n : /\ Titled(str)[k].ch = str[k] /\ Typed(str)[k].ch = str[k]
                         /\ ~Typed(str)[k].title
  BY <1>1 DEF Titled, Typed, Cell
<1>4. /\ Titled(str) \in Line /\ Len(Titled(str)) = n /\ DOMAIN Titled(str) = 1..n
      /\ Typed(str) \in Line /\ Len(Typed(str)) = n /\ DOMAIN Typed(str) = 1..n
  BY <1>1, <1>3, FunctionIsSeq DEF Line
<1>5. CharsOf(Titled(str)) = [k \in 1..n |-> str[k]] /\ CharsOf(Typed(str)) = [k \in 1..n |-> str[k]]
  BY <1>3, <1>4 DEF CharsOf
<1> QED
  BY <1>2, <1>3, <1>4, <1>5 DEF n

\* A title or a name of one line on a line never written on.
LEMMA AddedAgrees ==
    ASSUME EditorOK, Agree, NEW text \in Strings, Len(text) = 1, ~HasSelection,
           LineAt(doc, cursor.line) = << >>, FieldsAt(lines, cursor.line) = << >>,
           AddTitle(text) \/ AddName(text)
    PROVE  Agree'
<1> DEFINE l == cursor.line
           str == text[1]
           u == Utf8Bytes(str)
           h == HeadOf(doc, cursor)
           t == TailOf(doc, cursor)
<1>1. /\ doc \in Document /\ cursor \in Positions(doc)
      /\ SelectionStart = cursor /\ SelectionEnd = cursor
  BY NoSelection DEF EditorOK, DocumentOK
<1>2. l \in 0..(Len(doc) - 1) /\ cursor.col = 0
  <2>1. l \in 0..(Len(doc) - 1) /\ cursor.col \in 0..Len(LineAt(doc, l))
    BY <1>1, PositionElim
  <2> QED
    BY <2>1
<1>3. FieldColumn = 0 /\ CurrentLine = l
  <2>1. ColumnNumber = 0
    <3>1. CASE visible
      BY <1>2, <3>1, CursorColumn
    <3>2. CASE ~visible
      BY <3>2 DEF ColumnNumber
    <3> QED
      BY <3>1, <3>2
  <2> QED
    BY <2>1 DEF FieldColumn, CurrentLine
<1>4. str \in Seq(Chars) /\ text = <<str>>
  <2>1. text \in Seq(Seq(Chars))
    BY PlainEditorAssumption
  <2> QED
    BY <2>1, OneElement
<1>5. TextBytes(text) = u /\ TitledText(text) = <<Titled(str)>> /\ TypedText(text) = <<Typed(str)>>
  <2> HIDE DEF str
  <2> QED
    BY <1>4, OneLineBytes
<1>6. u \in Seq(Byte) /\ Len(u) < UIntMod /\ Utf8StringSize(u) = Len(str)
  <2>1. u \in Seq(Byte) /\ Len(u) < UIntMod
    BY <1>5, PlainEditorAssumption
  <2>2. Utf8StringSize(u) = Len(str)
    BY <1>4, SizeIsLength
  <2> QED
    BY <2>1, <2>2
<1>7. Len(str) \in Nat /\ Len(str) < UIntMod
  <2>1. Len(str) \in Nat /\ Len(u) \in Nat
    BY <1>4, <1>6, LenProperties
  <2>2. Utf8StringSize(u) <= Len(u)
    BY <1>6, Utf8Bound
  <2>3. Len(str) <= Len(u)
    BY <1>6, <2>2
  <2>4. UIntMod \in Nat
    BY DataManAssumption
  <2> HIDE DEF u, str
  <2> QED
    BY <1>6, <2>1, <2>3, <2>4
<1>8. h = << >> /\ t = << >>
  <2>1. h \in Seq(Cell) /\ Len(h) = 0 /\ t \in Seq(Cell) /\ h \o t = << >>
    BY <1>1, <1>2, HeadAndTail, LineParts DEF Line
  <2> HIDE DEF h, t
  <2>2. h = << >>
    BY <2>1, EmptySeq
  <2>3. h \o t = t
    BY <2>1, <2>2, ConcatEmptySeq
  <2> QED
    BY <2>1, <2>2, <2>3
<1>9. ASSUME NEW s \in Line, CharsOf(s) = str, Len(s) = Len(str),
             NEW type, \A k \in DOMAIN s : s[k].title => type = "Title",
             lines' = AddField(lines, type, TextBytes(text), FieldColumn, CurrentLine),
             InsertAtCursor(<<s>>)
      PROVE  Agree'
  <2> DEFINE f == NewField(0, type, 0, u)
  <2>1. doc' = WithLine(doc, l, s)
    <3>1. doc' = Splice(doc, cursor, cursor, <<s>>)
      BY <1>1, <1>9 DEF InsertAtCursor
    <3>2. Splice(doc, cursor, cursor, <<s>>) = WithLine(doc, l, h \o s \o t)
      BY <1>1, SpliceInLine
    <3>3. h \o s \o t = s
      <4> HIDE DEF h, t
      <4>1. << >> \o s = s /\ s \o << >> = s
        BY ConcatEmptySeq DEF Line
      <4> QED
        BY <1>8, <4>1
    <3> QED
      BY <3>1, <3>2, <3>3
  <2>2. lines' = Put(lines, l, <<f>>)
    <3>1. SearchAtCol(<< >>, 0) = 0
      BY DEF SearchAtCol, InRange
    <3>2. lines' = AddField(lines, type, u, 0, l)
      BY <1>3, <1>5, <1>9
    <3>3. AddField(lines, type, u, 0, l) = Put(lines, l, Append(<< >>, NewField(Len(<< >>), type, 0, u)))
      BY <3>1 DEF AddField
    <3> QED
      BY <3>2, <3>3
  <2>3. f.start = 0 /\ f.end = Len(str) /\ f.info = u /\ f.type = type
    <3>1. f.start = 0 /\ f.end = UAdd(0, Len(str)) /\ f.info = u /\ f.type = type
      BY <1>6 DEF NewField
    <3> DEFINE n == Len(str)
    <3>2. n \in Nat /\ n < UIntMod
      BY <1>7
    <3> HIDE DEF n
    <3>3. UAdd(0, n) = n
      BY <3>2 DEF UAdd
    <3> QED
      BY <3>1, <3>3 DEF n
  <2>4. Len(<<f>>) = 1 /\ <<f>>[1] = f
    OBVIOUS
  <2> HIDE DEF f
  <2>5. Describes(<<f>>, s)
    BY <1>9, <2>3, <2>4 DEF Describes
  <2> QED
    BY <1>2, <2>1, <2>2, <2>5, LineChanged
<1>10. CASE AddTitle(text)
  BY <1>4, <1>5, <1>9, <1>10, CharsOfText DEF AddTitle
<1>11. CASE AddName(text)
  BY <1>4, <1>5, <1>9, <1>11, CharsOfText DEF AddName
<1> QED
  BY <1>10, <1>11

\* Each careful step.
LEMMA CarefulStepAgrees ==
    ASSUME KeysFiltered, EditorOK, Agree, CarefulStep
    PROVE  Agree'
<1> DEFINE l == cursor.line
<1>1. /\ ~HasSelection /\ doc \in Document /\ cursor \in Positions(doc)
      /\ SelectionStart = cursor /\ SelectionEnd = cursor
  BY NoSelection DEF CarefulStep, EditorOK, DocumentOK
<1>2. AsciiLine(LineAt(doc, l))
  BY DEF CarefulStep, AsciiLine
<1>3. l \in 0..(Len(doc) - 1) /\ cursor.col \in 0..Len(LineAt(doc, l)) /\ cursor.col \in Nat
  BY <1>1, PositionElim
<1>4. ASSUME NEW ch \in Chars, OneByte(ch), Key(ch)
      PROVE  Agree'
  BY <1>1, <1>2, <1>4, TypedAgrees
<1>5. CASE cursor.col > 0 /\ Backspace
  <2> DEFINE p == CharLeft
  <2>1. p.line = l /\ cursor.col = p.col + 1
    BY <1>3, <1>5 DEF CharLeft
  <2>2. ~AtDocumentStart /\ p \in Positions(doc)
    <3>1. ~AtDocumentStart
      BY <1>5 DEF AtDocumentStart
    <3> QED
      BY <3>1, Neighbours DEF EditorOK
  <2>3. /\ visible /\ IsEditable(lines, ColumnNumber, CurrentLine)
        /\ lines' = RemoveChar(lines, ColumnNumber, CurrentLine)
        /\ doc' = Splice(doc, p, cursor, << << >> >>)
    BY <1>1, <1>5, <2>2 DEF Backspace, RemoveBetween
  <2>4. ColumnNumber = cursor.col /\ CurrentLine = l
    BY <2>3, CursorColumn
  <2> HIDE DEF p
  <2> QED
    BY <1>1, <1>2, <1>3, <2>1, <2>2, <2>3, <2>4, ErasedAgrees
<1>6. CASE ~AtLineEnd /\ Delete
  <2> DEFINE q == CharRight
  <2>1. q.line = l /\ q.col = cursor.col + 1
    BY <1>1, <1>6, PositionElim DEF CharRight
  <2>2. ~AtDocumentEnd /\ q \in Positions(doc)
    <3>1. ~AtDocumentEnd
      BY <1>6 DEF AtDocumentEnd
    <3> QED
      BY <3>1, Neighbours DEF EditorOK
  <2>3. /\ visible /\ IsEditable(lines, Inc(ColumnNumber), CurrentLine)
        /\ lines' = RemoveChar(lines, Inc(ColumnNumber), CurrentLine)
        /\ doc' = Splice(doc, cursor, q, << << >> >>)
    BY <1>1, <1>6, <2>2 DEF Delete, RemoveBetween
  <2>4. Inc(ColumnNumber) = cursor.col + 1 /\ CurrentLine = l
    BY <1>6, <2>3, CursorColumn
  <2> HIDE DEF q
  <2> QED
    BY <1>1, <1>2, <1>3, <2>1, <2>2, <2>3, <2>4, ErasedAgrees
<1>7. ASSUME AtDocumentEnd, doc' = Splice(doc, cursor, cursor, NewLine), lines' = lines
      PROVE  Agree'
  <2>1. cursor.line = Len(doc) - 1 /\ cursor.col = Len(LineAt(doc, cursor.line))
    BY <1>7 DEF AtDocumentEnd, AtLineEnd
  <2>2. doc' = Append(doc, << >>)
    BY <1>1, <1>7, <2>1, SplitAtEnd
  <2> QED
    BY <1>7, <2>2, LineAdded
<1>8. CASE AtDocumentEnd /\ Enter
  <2>1. doc' = Splice(doc, cursor, cursor, NewLine) /\ lines' = lines
    BY <1>1, <1>8 DEF Enter, InsertAtCursor
  <2> QED
    BY <1>7, <1>8, <2>1
<1>9. CASE (AtDocumentEnd \/ cursor.line + 1 < Len(doc)) /\ JumpLine
  <2>1. lines' = lines
    BY <1>9 DEF JumpLine
  <2>2. CASE cursor.line + 1 < Len(doc)
    <3>1. doc' = doc
      BY <1>9, <2>2 DEF JumpLine
    <3> QED
      BY <2>1, <3>1 DEF Agree
  <2>3. CASE ~(cursor.line + 1 < Len(doc))
    <3>1. AtDocumentEnd /\ doc' = Splice(doc, cursor, cursor, NewLine)
      BY <1>1, <1>9, <2>3 DEF JumpLine
    <3> QED
      BY <1>7, <2>1, <3>1
  <2> QED
    BY <2>2, <2>3
<1>10. ASSUME LineAt(doc, l) = << >>, FieldsAt(lines, l) = << >>,
              NEW text \in Strings, Len(text) = 1, AddTitle(text) \/ AddName(text)
       PROVE  Agree'
  BY <1>1, <1>10, AddedAgrees
<1> QED
  BY <1>4, <1>5, <1>6, <1>8, <1>9, <1>10 DEF CarefulStep

\* A structure that describes the document does so after every careful step:
\* the editing functions keep the two in step under the conditions that
\* CarefulStep names, when the keys pass the filter.
THEOREM AgreementIsKept ==
    ASSUME KeysFiltered
    PROVE  Spec => AgreementKept
<1>1. EditorOK /\ [Next]_vars => (Agree /\ CarefulStep => Agree')
  BY CarefulStepAgrees
<1> QED
  BY <1>1, Invariance, PTL DEF Spec, AgreementKept

----------------------------------------------------------------------------
(* What the documentation promises of titles, TitleTextProtected, holds of *)
(* careful editing, though not of every use of the editor.                 *)

\* Whatever changes the document or the structure is a careful step; the cursor
\* moves and tabs change at any time.
CarefulSpec == Init /\ [][Next /\ (CarefulStep \/ UNCHANGED <<doc, lines>>)]_vars

LEMMA InitAgrees == Init => Agree
<1> SUFFICES ASSUME Init PROVE Agree
  OBVIOUS
<1>1. Len(doc) = 1 /\ doc[1] = << >>
  BY DEF Init
<1>2. DOMAIN lines = {}
  BY DEF Init
<1>3. ASSUME NEW l \in 0..(Len(doc) - 1)
      PROVE  Describes(FieldsAt(lines, l), LineAt(doc, l))
  <2>1. l + 1 = 1
    BY <1>1
  <2>2. LineAt(doc, l) = << >> /\ FieldsAt(lines, l) = << >>
    BY <1>1, <1>2, <2>1 DEF LineAt, FieldsAt
  <2> QED
    BY <2>2 DEF Describes
<1> QED
  BY <1>2, <1>3 DEF Agree

\* As long as everything that is written is written carefully, the structure
\* describes the document, and no key erases from a title.
THEOREM CarefulEditing ==
    ASSUME KeysFiltered
    PROVE  CarefulSpec => []Agree /\ TitleTextProtected
<1> DEFINE CarefulNext == Next /\ (CarefulStep \/ UNCHANGED <<doc, lines>>)
<1>1. [CarefulNext]_vars => [Next]_vars
  OBVIOUS
<1>2. EditorOK /\ Agree /\ [CarefulNext]_vars => Agree'
  <2> SUFFICES ASSUME EditorOK, Agree, [CarefulNext]_vars
               PROVE  Agree'
    OBVIOUS
  <2>1. CASE CarefulStep
    BY <2>1, CarefulStepAgrees
  <2>2. CASE UNCHANGED <<doc, lines>>
    BY <2>2 DEF Agree
  <2> QED
    BY <2>1, <2>2 DEF vars
<1>3. EditorOK /\ Agree =>
        [UnselectedKey => TitleText(doc') = TitleText(doc)]_vars
  BY TitleTextStep
<1> QED
  BY <1>1, <1>2, <1>3, InitAgrees, Invariance, PTL
     DEF CarefulSpec, Spec, TitleTextProtected

=============================================================================
