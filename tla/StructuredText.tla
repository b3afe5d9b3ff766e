--------------------------- MODULE StructuredText ---------------------------
(***************************************************************************)
(* What the editor's data structure promises, without columns: a document  *)
(* is a set of numbered lines, a line a sequence of typed pieces of text   *)
(* that is only ever appended to, and a step changes at most one byte of   *)
(* one piece.  Keys never change a title.                                  *)
(***************************************************************************)
EXTENDS Integers, Sequences, SequencesExt

CONSTANTS Byte, Strings, LineNos

VARIABLE text   \* line number -> sequence of [type, info]

Put(t, l, ps) == [m \in DOMAIN t \cup {l} |-> IF m = l THEN ps ELSE t[m]]
PiecesAt(l) == IF l \in DOMAIN text THEN text[l] ELSE << >>

Init == text = << >>

\* A piece is appended, the first one of a line with the line; one made by the
\* user's first key is plain text.
NewPiece(l, type, str) ==
    text' = Put(text, l, Append(PiecesAt(l), [type |-> type, info |-> str]))

InsertByte(l, i, k, c) ==
    /\ text[l][i].type # "Title"
    /\ text' = [text EXCEPT ![l][i].info = InsertAt(@, k, c)]

RemoveByte(l, i, k) ==
    text' = [text EXCEPT ![l][i].info = RemoveAt(@, k)]

Next ==
    \/ \E l \in LineNos :
        \/ \E c \in Byte : NewPiece(l, "Text", <<c>>)
        \/ \E str \in Strings, type \in {"Title", "Name"} : NewPiece(l, type, str)
    \/ \E l \in DOMAIN text : \E i \in DOMAIN text[l] :
        \/ \E k \in 1..(Len(text[l][i].info) + 1), c \in Byte : InsertByte(l, i, k, c)
        \/ \E k \in 1..Len(text[l][i].info) : RemoveByte(l, i, k)

Spec == Init /\ [][Next]_text

=============================================================================
