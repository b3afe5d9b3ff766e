------------------------ MODULE LuaProcessor_proofs ------------------------
(***************************************************************************)
(* The protocol of LuaProcessor and LuaCompiler, for every set of          *)
(* functions, every dump and every reader: whichever steps fail, the stack *)
(* keeps what was there before a call, and m_data is the whole chunk of    *)
(* the file loaded last, or less than a chunk.                             *)
(***************************************************************************)
EXTENDS LuaProcessor, FlattenSeq_proofs

----------------------------------------------------------------------------
(* Chunks and their beginnings. *)

IsPartOf(d, chunk) == \E n \in 0..(Len(chunk) - 1) : d = SubSeq(chunk, 1, n)

\* What the compiler and the reader owe each other.  Of LuaCompiler and the reader
\* of Lua 5.2.3, the run lua_processor checks what follows from them, for the
\* functions of MCLuaProcessor.
DumpsReadBack == \A f \in Functions : ReadBack(Chunk(f)).ok /\ ReadBack(Chunk(f)).v = Meaning(f)
PartsAreRejected ==
    /\ ~ReadBack(<< >>).ok
    /\ \A f \in Functions : \A d : IsPartOf(d, Chunk(f)) => ~ReadBack(d).ok

LEMMA ChunkType ==
    ASSUME NEW f \in Functions
    PROVE  /\ Blocks(f) \in Seq(Seq(Units)) /\ Blocks(f) # << >>
           /\ Chunk(f) \in Seq(Units) /\ Len(Chunk(f)) > 1
<1>1. /\ Blocks(f) \in Seq(Seq(Units)) /\ Blocks(f) # << >>
      /\ Len(Head(Blocks(f))) > 1
  BY ProcessorAssumption
<1>2. Chunk(f) = Head(Blocks(f)) \o FlattenSeq(Tail(Blocks(f)))
  BY <1>1, FlattenHead DEF Chunk
<1>3. Head(Blocks(f)) \in Seq(Units) /\ FlattenSeq(Tail(Blocks(f))) \in Seq(Units)
  BY <1>1, HeadTailProperties, FlattenType
<1> QED
  BY <1>1, <1>2, <1>3, ConcatProperties, LenProperties

\* What a failing writer has written of one block.
LEMMA ProperPart ==
    ASSUME NEW block \in Seq(Units), NEW part \in ProperParts(block)
    PROVE  /\ part \in Seq(Units)
           /\ \E n \in 0..Len(block) : part = SubSeq(block, 1, n) /\ (block # << >> => n < Len(block))
<1>1. Len(block) \in Nat /\ \A i \in 1..Len(block) : block[i] \in Units
  BY LenProperties, ElementOfSeq
<1>2. CASE part = << >>
  <2>1. part = SubSeq(block, 1, 0)
    BY <1>2, SubSeqEmpty
  <2> QED
    BY <1>1, <1>2, <2>1, EmptySeq
<1>3. CASE part # << >>
  <2>1. PICK n \in 0..(Len(block) - 1) : part = SubSeq(block, 1, n)
    BY <1>3 DEF ProperParts
  <2> QED
    BY <1>1, <2>1, SubSeqProperties
<1> QED
  BY <1>2, <1>3

\* What has been written before a block and a proper part of the block is less
\* than the chunk.
LEMMA PartOfChunk ==
    ASSUME NEW chunk \in Seq(Units), NEW done \in Seq(Units), NEW todo \in Seq(Seq(Units)),
           todo # << >>, todo[Len(todo)] # << >>,
           done \o FlattenSeq(todo) = chunk,
           NEW part \in ProperParts(Head(todo))
    PROVE  IsPartOf(done \o part, chunk)
<1> DEFINE b == Head(todo)
           rest == Tail(todo)
           fr == FlattenSeq(rest)
<1>1. b \in Seq(Units) /\ rest \in Seq(Seq(Units)) /\ Len(rest) = Len(todo) - 1
      /\ \A i \in 1..Len(rest) : rest[i] = todo[i + 1]
  BY HeadTailProperties
<1>2. fr \in Seq(Units)
  BY <1>1, FlattenType
<1>3. chunk = done \o (b \o fr)
  BY FlattenHead
<1>4. PICK n \in 0..Len(b) : part = SubSeq(b, 1, n) /\ (b # << >> => n < Len(b))
  BY <1>1, ProperPart
<1>5. /\ Len(done) \in Nat /\ Len(b) \in Nat /\ Len(fr) \in Nat
      /\ \A i \in 1..Len(b) : b[i] \in Units
  BY <1>1, <1>2, LenProperties, ElementOfSeq
<1>6. Len(todo) \in Nat \ {0} /\ todo[1] = b
  BY EmptySeq
<1> HIDE DEF b, rest
<1>7. n < Len(b) + Len(fr)
  <2>1. CASE b # << >>
    BY <1>4, <1>5, <2>1
  <2>2. CASE b = << >>
    <3>1. rest # << >> /\ rest[Len(rest)] # << >>
      <4>1. Len(todo) # 1
        BY <2>2, <1>6
      <4> QED
        <5>1. Len(rest) \in 1..Len(rest) /\ Len(rest) + 1 = Len(todo)
          BY <1>1, <1>6, <4>1
        <5>2. rest[Len(rest)] = todo[Len(todo)]
          BY <1>1, <5>1
        <5>3. rest # << >>
          BY <1>1, <5>1, EmptySeq
        <5> QED
          BY <5>2, <5>3
    <3>2. Len(fr) > 0
      BY <1>1, <3>1, FlattenNotEmpty
    <3> QED
      BY <1>4, <1>5, <2>2, <3>2
  <2> QED
    BY <2>1, <2>2
<1> HIDE DEF fr
<1>8. /\ part \in Seq(Units) /\ Len(part) = n /\ n \in Nat
      /\ \A i \in 1..n : part[i] = b[i]
  BY <1>1, <1>4, <1>5, SubSeqProperties
<1>9. /\ b \o fr \in Seq(Units) /\ Len(b \o fr) = Len(b) + Len(fr)
      /\ \A i \in 1..Len(b) : (b \o fr)[i] = b[i]
  BY <1>1, <1>2, <1>5, ConcatProperties
<1>10. PICK bf : bf = b \o fr
  OBVIOUS
<1>11. /\ chunk = done \o bf /\ bf \in Seq(Units) /\ Len(bf) = Len(b) + Len(fr)
       /\ \A i \in 1..n : part[i] = bf[i]
  BY <1>3, <1>4, <1>5, <1>8, <1>9, <1>10
<1>12. /\ Len(chunk) = Len(done) + Len(bf)
       /\ \A i \in 1..Len(done) : chunk[i] = done[i]
       /\ \A i \in 1..Len(bf) : chunk[Len(done) + i] = bf[i]
  <2>1. /\ Len(done \o bf) = Len(done) + Len(bf)
        /\ \A i \in 1..(Len(done) + Len(bf)) :
              (done \o bf)[i] = IF i <= Len(done) THEN done[i] ELSE bf[i - Len(done)]
    BY <1>11, ConcatProperties
  <2>2. Len(bf) \in Nat
    BY <1>11, LenProperties
  <2>3. \A i \in 1..Len(done) : i \in 1..(Len(done) + Len(bf)) /\ i <= Len(done)
    BY <1>5, <2>2
  <2>4. \A i \in 1..Len(bf) :
            /\ Len(done) + i \in 1..(Len(done) + Len(bf)) /\ ~(Len(done) + i <= Len(done))
            /\ (Len(done) + i) - Len(done) = i
    BY <1>5, <2>2
  <2> QED
    BY <1>11, <2>1, <2>3, <2>4
<1>13. /\ done \o part \in Seq(Units) /\ Len(done \o part) = Len(done) + n
       /\ \A i \in 1..(Len(done) + n) :
             (done \o part)[i] = IF i <= Len(done) THEN done[i] ELSE part[i - Len(done)]
  BY <1>5, <1>8, ConcatProperties
<1> DEFINE k == Len(done) + n
<1>14. k \in 0..(Len(chunk) - 1)
  BY <1>5, <1>7, <1>8, <1>11, <1>12
<1>15. /\ SubSeq(chunk, 1, k) \in Seq(Units) /\ Len(SubSeq(chunk, 1, k)) = k
       /\ \A i \in 1..k : SubSeq(chunk, 1, k)[i] = chunk[i]
  <2>1. \A i \in 1..Len(chunk) : chunk[i] \in Units
    BY ElementOfSeq
  <2>2. Len(chunk) \in Nat
    BY LenProperties
  <2> QED
    BY <1>14, <2>1, <2>2, SubSeqProperties
<1>16. \A i \in 1..k : (done \o part)[i] = chunk[i]
  <2> TAKE i \in 1..k
  <2>1. CASE i <= Len(done)
    BY <1>5, <1>8, <1>12, <1>13, <2>1
  <2>2. CASE ~(i <= Len(done))
    <3>1. i - Len(done) \in 1..n /\ i - Len(done) \in 1..Len(bf) /\ Len(done) + (i - Len(done)) = i
      BY <1>5, <1>7, <1>8, <1>11, <2>2
    <3> QED
      BY <1>11, <1>12, <1>13, <2>2, <3>1
  <2> QED
    BY <2>1, <2>2
<1>17. done \o part = SubSeq(chunk, 1, k)
  BY <1>13, <1>15, <1>16, SeqEqual
<1> QED
  BY <1>14, <1>17 DEF IsPartOf

----------------------------------------------------------------------------
(* The stack. *)

NoMessages(seq) == \A i \in DOMAIN seq : seq[i] # "message"

\* A message is on the stack only while the step that pushed it is yet to be
\* checked, and on its top; the values of the caller are untouched until
\* lua_pcall takes the arguments of the global function.
StackOK ==
    /\ stack.below >= call.base
    /\ call.at \notin {"idle", "globalDone"} => stack.below = call.base + call.args
    /\ call.at \in {"pcall", "pcallglobal"} => stack.own # << >>
    /\ call.error => /\ call.at \in {"fileFailed", "bufferDone", "globalDone"}
                     /\ stack.own # << >>
                     /\ NoMessages(SubSeq(stack.own, 1, Len(stack.own) - 1))
    /\ ~call.error => NoMessages(stack.own)

SInv == stack \in Stack /\ call \in Call /\ StackOK

LEMMA PushProperties ==
    ASSUME NEW s \in Stack, NEW v \in Seq(Values)
    PROVE  /\ Push(s, v) \in Stack
           /\ Push(s, v).below = s.below /\ Push(s, v).own = s.own \o v
<1>1. s.own \o v \in Seq(Values)
  BY ConcatProperties DEF Stack
<1> QED
  BY <1>1 DEF Push, Stack

LEMMA CleanConcat ==
    ASSUME NEW a \in Seq(Values), NEW b \in Seq(Values), NoMessages(a), NoMessages(b)
    PROVE  NoMessages(a \o b)
<1>1. /\ a \o b \in Seq(Values) /\ Len(a \o b) = Len(a) + Len(b)
      /\ \A i \in 1..(Len(a) + Len(b)) : (a \o b)[i] = IF i <= Len(a) THEN a[i] ELSE b[i - Len(a)]
  BY ConcatProperties
<1>2. /\ Len(a) \in Nat /\ Len(b) \in Nat
      /\ DOMAIN a = 1..Len(a) /\ DOMAIN b = 1..Len(b) /\ DOMAIN (a \o b) = 1..(Len(a) + Len(b))
  BY <1>1, LenProperties
<1> SUFFICES ASSUME NEW i \in 1..(Len(a) + Len(b))
             PROVE  (a \o b)[i] # "message"
  BY <1>2 DEF NoMessages
<1>3. CASE i <= Len(a)
  BY <1>1, <1>2, <1>3 DEF NoMessages
<1>4. CASE ~(i <= Len(a))
  <2>1. i - Len(a) \in DOMAIN b
    BY <1>2, <1>4
  <2> QED
    BY <1>1, <1>4, <2>1 DEF NoMessages
<1> QED
  BY <1>3, <1>4

LEMMA CleanPrefix ==
    ASSUME NEW a \in Seq(Values), NoMessages(a), NEW n \in 0..Len(a)
    PROVE  SubSeq(a, 1, n) \in Seq(Values) /\ NoMessages(SubSeq(a, 1, n))
<1>1. Len(a) \in Nat /\ DOMAIN a = 1..Len(a) /\ \A i \in 1..Len(a) : a[i] \in Values
  BY LenProperties, ElementOfSeq
<1>2. /\ SubSeq(a, 1, n) \in Seq(Values) /\ Len(SubSeq(a, 1, n)) = n
      /\ \A i \in 1..n : SubSeq(a, 1, n)[i] = a[i]
  BY <1>1, SubSeqProperties
<1>3. DOMAIN SubSeq(a, 1, n) = 1..n
  BY <1>2, LenProperties
<1> QED
  BY <1>1, <1>2, <1>3 DEF NoMessages

LEMMA MessageOnTop ==
    ASSUME NEW a \in Seq(Values), NoMessages(a)
    PROVE  LET b == a \o <<"message">>
           IN  /\ b \in Seq(Values) /\ b # << >>
               /\ NoMessages(SubSeq(b, 1, Len(b) - 1)) /\ SubSeq(b, 1, Len(b) - 1) = a
<1> DEFINE m == <<"message">>
           b == a \o m
<1>1. m \in Seq(Values) /\ Len(m) = 1
  BY DEF Values
<1> HIDE DEF m
<1>2. Len(a) \in Nat /\ a \o m \in Seq(Values) /\ Len(a \o m) = Len(a) + 1
  BY <1>1, ConcatProperties, LenProperties
<1>3. \A i \in 1..Len(a) : (a \o m)[i] = a[i]
  BY <1>1, <1>2, ConcatProperties
<1> HIDE DEF b
<1>4. b \in Seq(Values) /\ Len(b) = Len(a) + 1 /\ \A i \in 1..Len(a) : b[i] = a[i]
  BY <1>2, <1>3 DEF b
<1>5. b # << >> /\ \A i \in 1..Len(b) : b[i] \in Values
  BY <1>2, <1>4, ElementOfSeq, EmptySeq
<1>6. /\ SubSeq(b, 1, Len(a)) \in Seq(Values) /\ Len(SubSeq(b, 1, Len(a))) = Len(a)
      /\ \A i \in 1..Len(a) : SubSeq(b, 1, Len(a))[i] = b[i]
  BY <1>2, <1>4, <1>5, SubSeqProperties
<1>7. SubSeq(b, 1, Len(a)) = a
  BY <1>4, <1>6, SeqEqual
<1>8. Len(b) - 1 = Len(a)
  BY <1>2, <1>4
<1> QED
  BY <1>4, <1>5, <1>7, <1>8 DEF b, m

\* Values that the call has pushed go before those of its caller.
LEMMA PopProperties ==
    ASSUME NEW s \in Stack, NEW n \in Nat, NEW base \in Nat,
           s.own # << >>, s.below >= base + n, NoMessages(s.own)
    PROVE  /\ Pop(s, n + 1) \in Stack /\ NoMessages(Pop(s, n + 1).own)
           /\ Pop(s, n + 1).below >= base
           /\ n = 0 => Pop(s, n + 1).below = s.below
<1>1. s.below \in Nat /\ s.own \in Seq(Values) /\ Len(s.own) \in Nat \ {0}
  BY EmptySeq, LenProperties DEF Stack
<1>2. CASE n + 1 <= Len(s.own)
  <2> DEFINE k == Len(s.own) - (n + 1)
             own == SubSeq(s.own, 1, k)
  <2>1. k \in 0..Len(s.own)
    BY <1>1, <1>2
  <2>2. own \in Seq(Values) /\ NoMessages(own)
    BY <1>1, <2>1, CleanPrefix
  <2>3. Pop(s, n + 1) = [s EXCEPT !.own = own]
    BY <1>2 DEF Pop
  <2> HIDE DEF own, k
  <2>4. PICK t : t = Pop(s, n + 1)
    OBVIOUS
  <2>5. t \in Stack /\ t.own = own /\ t.below = s.below
    BY <2>2, <2>3, <2>4 DEF Stack
  <2>6. t.below >= base
    BY <1>1, <2>5
  <2> QED
    BY <2>2, <2>4, <2>5, <2>6
<1>3. CASE ~(n + 1 <= Len(s.own))
  <2>1. PICK below \in Nat, len \in Nat : below = s.below /\ len = Len(s.own)
    BY <1>1
  <2>2. PICK t : t = Pop(s, n + 1)
    OBVIOUS
  <2>3. t = [below |-> below - (n + 1 - len), own |-> << >>]
    BY <1>3, <2>1, <2>2 DEF Pop
  <2>4. /\ below - (n + 1 - len) \in Nat
        /\ below - (n + 1 - len) >= base /\ n # 0
    <3>1. below >= base + n /\ n + 1 > len /\ len >= 1
      BY <1>1, <1>3, <2>1
    <3>2. n # 0
      BY <3>1
    <3>3. below - (n + 1 - len) \in Int /\ below - (n + 1 - len) >= base
      BY <3>1
    <3> QED
      BY <3>2, <3>3
  <2>5. << >> \in Seq(Values) /\ NoMessages(<< >>)
    BY EmptySeq DEF NoMessages
  <2>6. t \in Stack /\ t.below >= base /\ t.own = << >>
    BY <2>3, <2>4, <2>5 DEF Stack
  <2> QED
    BY <2>2, <2>4, <2>5, <2>6
<1> QED
  BY <1>2, <1>3

\* What lua_pcall leaves.
LEMMA ProtectedCallKeeps ==
    ASSUME SInv, NEW args \in Nat, NEW next \in {"bufferDone", "globalDone"},
           ProtectedCall(args, next), ~call.error, stack.own # << >>,
           stack.below >= call.base + args,
           next = "bufferDone" => args = 0 /\ stack.below = call.base + call.args
    PROVE  SInv'
<1> DEFINE left == Pop(stack, args + 1)
<1>1. /\ stack \in Stack /\ NoMessages(stack.own) /\ call.base \in Nat /\ call \in Call
  BY DEF SInv, StackOK, Call
<1>2. /\ left \in Stack /\ NoMessages(left.own) /\ left.below >= call.base
      /\ next = "bufferDone" => left.below = call.base + call.args
  BY <1>1, PopProperties
<1>3. left.own \in Seq(Values)
  BY <1>2 DEF Stack
<1>4. \/ /\ \E n \in 0..MaxResults : stack' = Push(left, [i \in 1..n |-> "result"])
         /\ call' = [call EXCEPT !.at = next, !.error = FALSE]
      \/ /\ stack' = Push(left, <<"message">>)
         /\ call' = [call EXCEPT !.at = next, !.error = TRUE]
  BY DEF ProtectedCall, GoTo
<1> HIDE DEF left
<1>5. ASSUME NEW n \in 0..MaxResults, stack' = Push(left, [i \in 1..n |-> "result"]),
             call' = [call EXCEPT !.at = next, !.error = FALSE]
      PROVE  SInv'
  <2> DEFINE v == [i \in 1..n |-> "result"]
  <2>1. n \in Nat
    BY ProcessorAssumption
  <2>2. v \in Seq(Values) /\ NoMessages(v)
    <3>1. v \in Seq(Values)
      BY <2>1, SeqDef DEF Values
    <3> QED
      BY <3>1 DEF NoMessages
  <2> HIDE DEF v
  <2>3. stack' \in Stack /\ stack'.below = left.below /\ stack'.own = left.own \o v
    BY <1>2, <1>5, <2>2, PushProperties DEF v
  <2>4. NoMessages(stack'.own)
    BY <1>2, <1>3, <2>2, <2>3, CleanConcat
  <2>5. /\ call' \in Call /\ call'.at = next /\ ~call'.error
        /\ call'.base = call.base /\ call'.args = call.args
    BY <1>1, <1>5 DEF Call, Places
  <2> QED
    BY <1>2, <2>3, <2>4, <2>5 DEF SInv, StackOK
<1>6. ASSUME stack' = Push(left, <<"message">>), call' = [call EXCEPT !.at = next, !.error = TRUE]
      PROVE  SInv'
  <2>1. <<"message">> \in Seq(Values)
    BY DEF Values
  <2>2. stack' \in Stack /\ stack'.below = left.below /\ stack'.own = left.own \o <<"message">>
    BY <1>2, <1>6, <2>1, PushProperties
  <2>3. stack'.own # << >> /\ NoMessages(SubSeq(stack'.own, 1, Len(stack'.own) - 1))
    BY <1>2, <1>3, <2>2, MessageOnTop
  <2>4. /\ call' \in Call /\ call'.at = next /\ call'.error
        /\ call'.base = call.base /\ call'.args = call.args
    BY <1>1, <1>6 DEF Call, Places
  <2> QED
    BY <1>2, <2>2, <2>3, <2>4 DEF SInv, StackOK
<1> QED
  BY <1>4, <1>5, <1>6

\* A value that a step pushes, and the message of one that fails.
LEMMA PushKeeps ==
    ASSUME NEW s \in Stack, NEW c \in Call, NoMessages(s.own),
           s.below = c.base + c.args, NEW v \in Values, stack' = Push(s, <<v>>), call' = c,
           c.at \notin {"idle", "globalDone"},
           c.error => v = "message" /\ c.at \in {"fileFailed", "bufferDone"},
           ~c.error => v # "message"
    PROVE  SInv'
<1>1. <<v>> \in Seq(Values) /\ c.base \in Nat /\ c.args \in Nat /\ s.own \in Seq(Values)
      /\ c.error \in BOOLEAN
  BY ProcessorAssumption DEF Call, Stack
<1>2. stack' \in Stack /\ stack'.below = s.below /\ stack'.own = s.own \o <<v>>
  BY <1>1, PushProperties
<1>3. stack'.own # << >>
  <2>1. Len(s.own \o <<v>>) = Len(s.own) + 1 /\ Len(s.own) \in Nat
    BY <1>1, ConcatProperties, LenProperties
  <2> QED
    BY <1>1, <1>2, <2>1, EmptySeq
<1>4. c.error => NoMessages(SubSeq(stack'.own, 1, Len(stack'.own) - 1))
  BY <1>1, <1>2, MessageOnTop
<1>5. ~c.error => NoMessages(stack'.own)
  <2>1. ~c.error => NoMessages(<<v>>)
    BY DEF NoMessages
  <2> QED
    BY <1>1, <1>2, <2>1, CleanConcat
<1> QED
  BY <1>1, <1>2, <1>3, <1>4, <1>5 DEF SInv, StackOK

\* luaL_loadbuffer, whoever calls it.
LEMMA LoadBufferKeeps ==
    ASSUME NEW s \in Stack, NEW c \in Call, NEW chunk, LoadBuffer(s, c, chunk),
           NoMessages(s.own), s.below = c.base + c.args
    PROVE  SInv'
<1> DEFINE d == [c EXCEPT !.at = IF Loads(chunk) THEN "pcall" ELSE "bufferDone",
                          !.error = ~Loads(chunk)]
           v == IF Loads(chunk) THEN "function" ELSE "message"
<1>1. Loads(chunk) \/ ~Loads(chunk)
  OBVIOUS
<1>2. stack' = Push(s, <<v>>) /\ call' = d
  BY DEF LoadBuffer
<1>3. CASE Loads(chunk)
  <2>1. /\ d \in Call /\ d.at = "pcall" /\ ~d.error /\ v \in Values /\ v # "message"
        /\ d.base = c.base /\ d.args = c.args
    BY <1>3 DEF Call, Places, Values
  <2> HIDE DEF d, v
  <2> QED
    BY <1>2, <2>1, PushKeeps
<1>4. CASE ~Loads(chunk)
  <2>1. /\ d \in Call /\ d.at = "bufferDone" /\ d.error /\ v \in Values /\ v = "message"
        /\ d.base = c.base /\ d.args = c.args
    BY <1>4 DEF Call, Places, Values
  <2> HIDE DEF d, v
  <2> QED
    BY <1>2, <2>1, PushKeeps
<1> QED
  BY <1>3, <1>4

\* What a new call finds on the stack.
LEMMA EnteredProperties ==
    ASSUME SInv, NEW args \in 0..MaxArgs, NEW op \in Ops
    PROVE  /\ Entered(args) \in Stack /\ NoMessages(Entered(args).own)
           /\ NewCall(op, args) \in Call /\ NewCall(op, args).at = "loadfile"
           /\ ~NewCall(op, args).error /\ NewCall(op, args).args = args
           /\ Entered(args).below = NewCall(op, args).base + args
           /\ Entered(args).below >= NewCall(op, args).base
<1>1. args \in Nat
  BY ProcessorAssumption
<1>2. Height(stack) \in Nat
  <2>1. stack.below \in Nat /\ Len(stack.own) \in Nat
    BY LenProperties DEF SInv, Stack
  <2> QED
    BY <2>1 DEF Height
<1>3. << >> \in Seq(Values) /\ NoMessages(<< >>)
  BY EmptySeq DEF NoMessages
<1> QED
  BY <1>1, <1>2, <1>3 DEF Entered, NewCall, Stack, Call, Places

\* if( error ) lua_pop: the message, and nothing else, goes.
LEMMA PopMessageKeeps ==
    ASSUME SInv, PopMessage
    PROVE  SInv'
<1>1. /\ stack \in Stack /\ call \in Call /\ stack.own \in Seq(Values)
      /\ call.at \in {"fileFailed", "bufferDone", "globalDone"}
      /\ call' = [call EXCEPT !.at = Continued, !.error = FALSE]
  BY DEF SInv, PopMessage, GoTo, Stack
<1>2. /\ Continued \in {"loadbuffer", "idle", "getglobal"}
      /\ Continued # "idle" => call.at \in {"fileFailed", "bufferDone"}
  BY <1>1 DEF Continued, Compiled
<1> DEFINE place == Continued
<1> HIDE DEF place
<1>3. /\ call' \in Call /\ call'.at = place /\ ~call'.error
      /\ call'.base = call.base /\ call'.args = call.args
  BY <1>1, <1>2 DEF Call, Places, place
<1>4. stack' \in Stack /\ stack'.below = stack.below /\ NoMessages(stack'.own)
  <2>1. CASE call.error
    <3> DEFINE own == SubSeq(stack.own, 1, Len(stack.own) - 1)
    <3>1. stack.own # << >> /\ NoMessages(own)
      BY <2>1 DEF SInv, StackOK
    <3>2. Len(stack.own) \in Nat \ {0} /\ \A i \in 1..Len(stack.own) : stack.own[i] \in Values
      BY <1>1, <3>1, EmptySeq, LenProperties, ElementOfSeq
    <3>3. own \in Seq(Values)
      BY <1>1, <3>2, SubSeqProperties
    <3>4. stack' = [stack EXCEPT !.own = own]
      BY <2>1, <3>2 DEF PopMessage, Pop
    <3> HIDE DEF own
    <3> QED
      BY <1>1, <3>1, <3>3, <3>4 DEF Stack
  <2>2. CASE ~call.error
    <3>1. stack' = stack /\ NoMessages(stack.own)
      BY <2>2 DEF PopMessage, SInv, StackOK
    <3> QED
      BY <1>1, <3>1
  <2> QED
    BY <2>1, <2>2
<1> QED
  BY <1>1, <1>2, <1>3, <1>4 DEF SInv, StackOK, place

\* A step that only goes on in the code.
LEMMA GoToKeeps ==
    ASSUME SInv, stack' = stack, NEW place \in {"loadbuffer", "idle"}, GoTo(place, FALSE),
           call.at = "dump"
    PROVE  SInv'
<1>1. ~call.error /\ stack.below = call.base + call.args /\ NoMessages(stack.own)
      /\ stack.below >= call.base
  BY DEF SInv, StackOK
<1>2. /\ call' \in Call /\ call'.at = place /\ ~call'.error
      /\ call'.base = call.base /\ call'.args = call.args
  BY DEF SInv, GoTo, Call, Places
<1> QED
  BY <1>1, <1>2 DEF SInv, StackOK

LEMMA SInvStep == SInv /\ [Next]_vars => SInv'
<1> SUFFICES ASSUME SInv, [Next]_vars
             PROVE  SInv'
  OBVIOUS
<1>0. /\ stack \in Stack /\ call \in Call
      /\ ~call.error => NoMessages(stack.own)
      /\ call.at \notin {"fileFailed", "bufferDone", "globalDone"} => ~call.error
      /\ call.at \notin {"idle", "globalDone"} => stack.below = call.base + call.args
  BY DEF SInv, StackOK
<1>1. ASSUME NEW op \in {"compileScript", "callFunction"}, NEW args \in 0..MaxArgs, Begin(op, args)
      PROVE  SInv'
  <2>1. stack' = Entered(args) /\ call' = NewCall(op, args) /\ op \in Ops
    BY <1>1 DEF Begin, Ops
  <2> QED
    BY <2>1, EnteredProperties DEF SInv, StackOK
<1>2. CASE LoadFileFails
  <2> DEFINE c == [call EXCEPT !.at = "fileFailed", !.error = TRUE]
  <2>1. c \in Call /\ c.at = "fileFailed" /\ c.error /\ c.base = call.base /\ c.args = call.args
    BY <1>0 DEF Call, Places
  <2>2. stack' = Push(stack, <<"message">>) /\ call' = c /\ call.at = "loadfile"
    BY <1>2 DEF LoadFileFails, GoTo
  <2> HIDE DEF c
  <2> QED
    BY <1>0, <2>1, <2>2, PushKeeps DEF Values
<1>3. ASSUME NEW v \in {"function", "global"}, NEW place \in {"dump", "pcallglobal"},
             call.at \in {"loadfile", "getglobal"},
             stack' = Push(stack, <<v>>), GoTo(place, FALSE)
      PROVE  SInv'
  <2> DEFINE c == [call EXCEPT !.at = place, !.error = FALSE]
  <2>1. c \in Call /\ c.at = place /\ ~c.error /\ c.base = call.base /\ c.args = call.args
    BY <1>0 DEF Call, Places
  <2>2. call' = c
    BY <1>3 DEF GoTo
  <2> HIDE DEF c
  <2> QED
    BY <1>0, <1>3, <2>1, <2>2, PushKeeps DEF Values
<1>4. ASSUME NEW f \in Functions, LoadFile(f)
      PROVE  SInv'
  BY <1>3, <1>4 DEF LoadFile
<1>5. CASE DumpBlock
  <2>1. stack' = stack /\ call' = call
    BY <1>5 DEF DumpBlock
  <2> QED
    BY <2>1 DEF SInv, StackOK
<1>6. CASE CompileReturns
  <2>1. /\ call.at = "dump" /\ stack' = stack /\ GoTo(Compiled, FALSE)
        /\ Compiled \in {"loadbuffer", "idle"}
    BY <1>6 DEF CompileReturns, Compiled
  <2> QED
    BY <2>1, GoToKeeps
<1>7. ASSUME NEW chunk, LoadBuffer(Entered(0), NewCall("doBuffer", 0), chunk)
      PROVE  SInv'
  <2>1. 0 \in 0..MaxArgs /\ "doBuffer" \in Ops
    BY ProcessorAssumption DEF Ops
  <2>2. /\ Entered(0) \in Stack /\ NoMessages(Entered(0).own)
        /\ NewCall("doBuffer", 0) \in Call
        /\ Entered(0).below = NewCall("doBuffer", 0).base + NewCall("doBuffer", 0).args
    BY <2>1, EnteredProperties
  <2> QED
    BY <1>7, <2>2, LoadBufferKeeps
<1>8. CASE LoadData
  BY <1>0, <1>8, LoadBufferKeeps DEF LoadData
<1>9. CASE RunBuffer
  <2>1. /\ call.at = "pcall" /\ stack.own # << >> /\ ~call.error
        /\ stack.below = call.base + call.args /\ stack.below >= call.base + 0
    BY <1>0, <1>9 DEF RunBuffer, SInv, StackOK, Call
  <2> QED
    BY <1>9, <2>1, ProtectedCallKeeps DEF RunBuffer
<1>10. CASE GetGlobal
  BY <1>3, <1>10 DEF GetGlobal
<1>11. CASE CallGlobal
  <2>1. /\ stack.own # << >> /\ ~call.error /\ call.args \in Nat /\ stack.below \in Nat
        /\ stack.below = call.base + call.args
    BY <1>0, <1>11, ProcessorAssumption DEF CallGlobal, SInv, StackOK, Call, Stack
  <2>2. stack.below >= call.base + call.args
    BY <2>1
  <2> QED
    BY <1>11, <2>1, <2>2, ProtectedCallKeeps DEF CallGlobal
<1>12. CASE PopMessage
  BY <1>12, PopMessageKeeps
<1>13. CASE UNCHANGED vars
  BY <1>13 DEF vars, SInv, StackOK
<1> QED
  <2>1. ASSUME Begin("compileScript", 0)
        PROVE  SInv'
    BY <1>1, <2>1, ProcessorAssumption
  <2> QED
    BY <1>1, <1>2, <1>4, <1>5, <1>6, <1>7, <1>8, <1>9, <1>10, <1>11, <1>12, <1>13, <2>1
       DEF Next, DoBuffer, DoBufferOf

LEMMA StackCorrect == Spec => []SInv
<1>1. Init => SInv
  <2>1. << >> \in Seq(Values) /\ NoMessages(<< >>)
    BY EmptySeq DEF NoMessages
  <2> QED
    BY <2>1, ProcessorAssumption DEF Init, SInv, StackOK, Stack, Call, Ops, Places
<1> QED
  BY <1>1, SInvStep, PTL DEF Spec

\* compileScript, doBuffer and callFunction leave what was on the stack, whatever
\* fails, and take every message off again.
THEOREM StackIsKept == Spec => []StackKept
<1>1. SInv => StackKept
  BY DEF SInv, StackOK, StackKept, Idle, NoMessages
<1> QED
  BY <1>1, StackCorrect, PTL

----------------------------------------------------------------------------
(* The chunk. *)

DumpType == [todo : Seq(Seq(Units)), status : {0, 1}]

DataTypes ==
    /\ data \in Seq(Units)
    /\ dump \in DumpType
    /\ call.at # "dump" => dump.todo = << >>
    /\ source \in {<< >>} \cup {<<f>> : f \in Functions}

\* While nothing has failed, m_data and the blocks to come are the chunk of the
\* function under compilation, and its last block is not empty; once a writer
\* has failed, or another chunk has come, m_data is less than a chunk.
ChunkOK ==
    /\ call.at = "dump" => source # << >>
    /\ dump.todo = << >> \/ dump.todo[Len(dump.todo)] # << >>
    /\ source # << >> /\ dump.status = 0 =>
          data \o FlattenSeq(dump.todo) = Chunk(source[1])
    /\ source = << >> \/ dump.status # 0 =>
          data = << >> \/ \E f \in Functions : IsPartOf(data, Chunk(f))

DInv == DataTypes /\ ChunkOK

LEMMA DumpBlockData ==
    ASSUME DataTypes, DumpBlock
    PROVE  /\ data' \in Seq(Units) /\ dump' \in DumpType
           /\ dump'.todo = Tail(dump.todo)
<1>1. /\ dump.todo # << >> /\ dump.todo \in Seq(Seq(Units)) /\ dump \in DumpType
      /\ data \in Seq(Units)
  BY DEF DumpBlock, Dumping, DataTypes, DumpType
<1>2. Head(dump.todo) \in Seq(Units) /\ Tail(dump.todo) \in Seq(Seq(Units))
  BY <1>1, HeadTailProperties
<1>3. dump'.todo = Tail(dump.todo) /\ dump' \in DumpType
  BY <1>1, <1>2 DEF DumpBlock, DumpType
<1>4. data' \in Seq(Units)
  <2>1. \A part \in ProperParts(Head(dump.todo)) : data \o part \in Seq(Units)
    BY <1>1, <1>2, ProperPart, ConcatProperties
  <2>2. data \o Head(dump.todo) \in Seq(Units)
    BY <1>1, <1>2, ConcatProperties
  <2> QED
    BY <1>1, <2>1, <2>2 DEF DumpBlock
<1> QED
  BY <1>3, <1>4

LEMMA DumpBlockKeeps ==
    ASSUME DInv, DumpBlock
    PROVE  DInv'
<1> DEFINE todo == dump.todo
           chunk == Chunk(source[1])
<1>1. /\ todo \in Seq(Seq(Units)) /\ todo # << >> /\ todo[Len(todo)] # << >>
      /\ data \in Seq(Units) /\ call.at = "dump" /\ source # << >>
      /\ source[1] \in Functions /\ dump.status \in {0, 1}
  BY DEF DInv, DataTypes, DumpType, ChunkOK, DumpBlock, Dumping
<1>2. dump'.todo = Tail(todo) /\ source' = source /\ call' = call
  BY DumpBlockData DEF DumpBlock, DInv
<1>3. chunk \in Seq(Units)
  BY <1>1, ChunkType
<1>4. dump'.todo = << >> \/ dump'.todo[Len(dump'.todo)] # << >>
  <2> DEFINE rest == Tail(todo)
  <2>1. /\ rest \in Seq(Seq(Units)) /\ Len(rest) = Len(todo) - 1
        /\ \A i \in 1..Len(rest) : rest[i] = todo[i + 1]
    BY <1>1, HeadTailProperties
  <2> HIDE DEF rest, todo
  <2>2. CASE rest # << >>
    <3>1. Len(rest) \in 1..Len(rest) /\ Len(rest) + 1 = Len(todo)
      BY <1>1, <2>1, <2>2, EmptySeq, LenProperties
    <3>2. rest[Len(rest)] = todo[Len(todo)]
      BY <2>1, <3>1
    <3> QED
      BY <1>1, <1>2, <3>2 DEF rest
  <2> QED
    BY <1>2, <2>2 DEF rest
<1>5. Head(todo) \in Seq(Units) /\ FlattenSeq(Tail(todo)) \in Seq(Units)
  BY <1>1, HeadTailProperties, FlattenType
<1>6. FlattenSeq(todo) = Head(todo) \o FlattenSeq(Tail(todo))
  BY <1>1, FlattenHead
<1>7. DataTypes'
  BY <1>1, <1>2, DumpBlockData DEF DInv, DataTypes
<1>8. CASE dump'.status = 0
  <2>1. dump.status = 0 /\ data' = data \o Head(todo)
    <3>1. dump' = [dump EXCEPT !.todo = Tail(@)] => dump'.status = dump.status
      BY DEF DInv, DataTypes, DumpType
    <3>2. dump' = [dump EXCEPT !.todo = Tail(@), !.status = 1] => dump'.status # 0
      BY DEF DInv, DataTypes, DumpType
    <3> QED
      BY <1>8, <3>1, <3>2 DEF DumpBlock
  <2>2. data \o FlattenSeq(todo) = chunk
    BY <1>1, <2>1 DEF DInv, ChunkOK
  <2> DEFINE b == Head(todo)
             fr == FlattenSeq(Tail(todo))
  <2>3. b \in Seq(Units) /\ fr \in Seq(Units)
    BY <1>5
  <2> HIDE DEF b, fr
  <2>4. (data \o b) \o fr = data \o (b \o fr)
    BY <1>1, <2>3, ConcatAssociative, SMTT(30)
  <2>5. data' \o FlattenSeq(dump'.todo) = chunk
    BY <1>2, <1>6, <2>1, <2>2, <2>4 DEF b, fr
  <2> QED
    BY <1>1, <1>2, <1>4, <1>7, <1>8, <2>5 DEF DInv, ChunkOK
<1>9. CASE dump'.status # 0 /\ dump.status = 0
  <2>1. PICK part \in ProperParts(Head(todo)) : data' = data \o part
    BY <1>1, <1>9 DEF DumpBlock, DInv, DataTypes, DumpType
  <2>2. data \o FlattenSeq(todo) = chunk
    BY <1>1, <1>9 DEF DInv, ChunkOK
  <2> HIDE DEF todo, chunk
  <2>3. IsPartOf(data \o part, chunk)
    BY <1>1, <1>3, <2>2, PartOfChunk
  <2> QED
    BY <1>1, <1>2, <1>4, <1>7, <1>9, <2>1, <2>3 DEF DInv, ChunkOK, chunk
<1>10. CASE dump.status # 0
  <2>1. data' = data /\ dump'.status = dump.status
    BY <1>1, <1>10 DEF DumpBlock, DInv, DataTypes, DumpType
  <2> QED
    BY <1>1, <1>2, <1>4, <1>7, <1>10, <2>1 DEF DInv, ChunkOK
<1> QED
  BY <1>8, <1>9, <1>10

\* The first byte of a chunk is less than the chunk.
LEMMA TruncatedChunk ==
    ASSUME NEW f \in Functions
    PROVE  SubSeq(Chunk(f), 1, 1) \in Seq(Units) /\ IsPartOf(SubSeq(Chunk(f), 1, 1), Chunk(f))
<1>1. Chunk(f) \in Seq(Units) /\ Len(Chunk(f)) > 1 /\ Len(Chunk(f)) \in Nat
      /\ \A i \in 1..Len(Chunk(f)) : Chunk(f)[i] \in Units
  BY ChunkType, ElementOfSeq, LenProperties
<1>2. SubSeq(Chunk(f), 1, 1) \in Seq(Units)
  BY <1>1, SubSeqProperties
<1>3. 1 \in 0..(Len(Chunk(f)) - 1)
  BY <1>1
<1> QED
  BY <1>2, <1>3 DEF IsPartOf

\* What does not touch m_data leaves it as it is, as long as no dump is cut off.
LEMMA DataUntouched ==
    ASSUME DInv, UNCHANGED <<data, dump, source>>, call'.at # "dump", dump.todo = << >>
    PROVE  DInv'
  BY DEF DInv, DataTypes, ChunkOK

LEMMA DInvStep == SInv /\ DInv /\ [Next]_vars => DInv'
<1> SUFFICES ASSUME SInv, DInv, [Next]_vars
             PROVE  DInv'
  OBVIOUS
<1>0. call \in Call /\ (call.at # "dump" => dump.todo = << >>)
  BY DEF SInv, DInv, DataTypes
<1>1. ASSUME NEW place, place # "dump", NEW error \in BOOLEAN, GoTo(place, error),
             UNCHANGED <<data, dump, source>>, dump.todo = << >>
      PROVE  DInv'
  <2>1. call'.at = place
    BY <1>0, <1>1 DEF GoTo, Call
  <2> QED
    BY <1>1, <2>1, DataUntouched
<1>2. ASSUME NEW op, NEW args, Begin(op, args)
      PROVE  DInv'
  BY <1>0, <1>2, DataUntouched DEF Begin, Idle, NewCall
<1>3. CASE LoadFileFails \/ CompileReturns \/ GetGlobal \/ PopMessage
  BY <1>0, <1>1, <1>3 DEF LoadFileFails, CompileReturns, GetGlobal, PopMessage, Continued,
                          Compiled
<1>4. ASSUME NEW f \in Functions, LoadFile(f)
      PROVE  DInv'
  <2>1. /\ data' = << >> /\ source' = <<f>> /\ dump' = [todo |-> Blocks(f), status |-> 0]
        /\ call'.at = "dump"
    BY <1>0, <1>4 DEF LoadFile, GoTo, Call
  <2>2. Blocks(f)[Len(Blocks(f))] # << >>
    BY ProcessorAssumption DEF Last
  <2>3. << >> \o FlattenSeq(Blocks(f)) = Chunk(f)
    BY ChunkType, ConcatEmptySeq DEF Chunk
  <2>4. << >> \in Seq(Units) /\ Blocks(f) \in Seq(Seq(Units))
    BY ChunkType, EmptySeq
  <2> QED
    BY <2>1, <2>2, <2>3, <2>4 DEF DInv, DataTypes, DumpType, ChunkOK
<1>5. CASE DumpBlock
  BY <1>5, DumpBlockKeeps
<1>6. ASSUME NEW s, NEW c \in Call, NEW chunk, LoadBuffer(s, c, chunk)
      PROVE  call'.at # "dump"
  BY <1>6 DEF LoadBuffer, Call
<1>7. NewCall("doBuffer", 0) \in Call
  BY EnteredProperties, ProcessorAssumption DEF Ops
<1>8. CASE DoBuffer \/ LoadData
  BY <1>0, <1>6, <1>7, <1>8, DataUntouched DEF DoBuffer, LoadData, Idle
<1>9. ASSUME NEW f \in Functions, DoBufferOf(f)
      PROVE  DInv'
  <2>1. /\ source' = << >> /\ dump' = dump /\ data' = SubSeq(Chunk(f), 1, 1)
        /\ call'.at # "dump" /\ dump.todo = << >>
    BY <1>0, <1>6, <1>7, <1>9 DEF DoBufferOf, Idle
  <2>2. data' \in Seq(Units) /\ IsPartOf(data', Chunk(f))
    BY <2>1, TruncatedChunk
  <2> QED
    BY <2>1, <2>2 DEF DInv, DataTypes, ChunkOK
<1>10. CASE RunBuffer \/ CallGlobal
  BY <1>0, <1>1, <1>10 DEF RunBuffer, CallGlobal, ProtectedCall
<1>11. CASE UNCHANGED vars
  BY <1>11 DEF vars, DInv, DataTypes, ChunkOK
<1> QED
  BY <1>2, <1>3, <1>4, <1>5, <1>8, <1>9, <1>10, <1>11 DEF Next

LEMMA DataCorrect == Spec => []DInv
<1>1. Init => DInv
  BY EmptySeq DEF Init, DInv, DataTypes, DumpType, ChunkOK
<1> QED
  BY <1>1, DInvStep, StackCorrect, PTL DEF Spec

\* No call pops an empty stack, m_data and what is still to be dumped are units of
\* a chunk, and only a dump under way has blocks to write.
THEOREM TypeCorrect == Spec => []TypeOK
<1>1. SInv /\ DInv => TypeOK
  BY DEF SInv, DInv, DataTypes, DumpType, TypeOK
<1> QED
  BY <1>1, StackCorrect, DataCorrect, PTL

\* After a dump, m_data is a chunk or less than one.
LEMMA DataIsChunk ==
    ASSUME DInv, source # << >>, dump.status = 0, dump.todo = << >>
    PROVE  source[1] \in Functions /\ data = Chunk(source[1])
<1>1. /\ source[1] \in Functions /\ data \in Seq(Units)
      /\ data \o FlattenSeq(dump.todo) = Chunk(source[1])
  BY DEF DInv, DataTypes, ChunkOK
<1> QED
  BY <1>1, FlattenEmpty, ConcatEmptySeq

\* Before the end of a dump, m_data is less than a chunk.
LEMMA DataIsPart ==
    ASSUME DInv, source # << >>, dump.status = 0, dump.todo # << >>
    PROVE  source[1] \in Functions /\ IsPartOf(data, Chunk(source[1]))
<1> DEFINE chunk == Chunk(source[1])
           todo == dump.todo
<1>1. /\ source[1] \in Functions /\ data \in Seq(Units) /\ todo \in Seq(Seq(Units))
      /\ todo # << >> /\ todo[Len(todo)] # << >> /\ data \o FlattenSeq(todo) = chunk
  BY DEF DInv, DataTypes, DumpType, ChunkOK
<1>2. chunk \in Seq(Units) /\ << >> \in ProperParts(Head(todo))
  BY <1>1, ChunkType DEF ProperParts
<1> HIDE DEF chunk, todo
<1>3. IsPartOf(data \o << >>, chunk)
  BY <1>1, <1>2, PartOfChunk
<1>4. data \o << >> = data
  BY <1>1, ConcatEmptySeq
<1> QED
  BY <1>1, <1>3, <1>4 DEF chunk

\* When the reader reads a dump back, a dump that has succeeded leaves in m_data
\* what reads back as the function compiled, whatever was compiled, run or failed
\* before it, and keeps it there until m_data is replaced.
THEOREM SuccessReadsBack ==
    ASSUME DumpsReadBack
    PROVE  Spec => []CompiledChunkReadsBack
<1>1. DInv => CompiledChunkReadsBack
  <2> SUFFICES ASSUME DInv, call.at # "dump", source # << >>, dump.status = 0
               PROVE  ReadBack(data).ok /\ ReadBack(data).v = Meaning(source[1])
    BY DEF CompiledChunkReadsBack
  <2>1. dump.todo = << >>
    BY DEF DInv, DataTypes
  <2> QED
    BY <2>1, DataIsChunk DEF DumpsReadBack
<1> QED
  BY <1>1, DataCorrect, PTL

\* When moreover the reader rejects less than a chunk, what Lua takes for a chunk
\* in m_data is at any time the whole function of the file loaded last, although
\* the calls that run it do not know whether compileScript succeeded.
THEOREM WholeChunksRun ==
    ASSUME DumpsReadBack, PartsAreRejected
    PROVE  Spec => []OnlyWholeChunksRun
<1>1. DInv => OnlyWholeChunksRun
  <2> SUFFICES ASSUME DInv, ReadBack(data).ok
               PROVE  source # << >> /\ ReadBack(data).v = Meaning(source[1])
    BY DEF OnlyWholeChunksRun
  <2>1. source # << >> /\ dump.status = 0
    <3>1. ~(data = << >> \/ \E f \in Functions : IsPartOf(data, Chunk(f)))
      BY DEF PartsAreRejected
    <3> QED
      BY <3>1 DEF DInv, ChunkOK
  <2>2. dump.todo = << >>
    BY <2>1, DataIsPart DEF PartsAreRejected
  <2> QED
    BY <2>1, <2>2, DataIsChunk DEF DumpsReadBack
<1> QED
  BY <1>1, DataCorrect, PTL

============================================================================
