---------------------------- MODULE LuaProcessor ----------------------------
(***************************************************************************)
(* LuaProcessor (core/LuaWrapper/luaprocessor.cpp): one Lua state, with a  *)
(* stack that lives as long as the program, and the chunk of the script    *)
(* compiled last.  A call is a series of steps of the Lua API: each may    *)
(* fail and leave a message on the stack, which the call takes off again.  *)
(* A dump is a series of calls of a writer, each of which may fail too.    *)
(*                                                                         *)
(* The module needs of the compiler only which blocks it hands to the      *)
(* writer, and of Lua's reader only what it makes of a chunk: the two are  *)
(* constants here, and the operators of LuaCompiler in MCLuaProcessor.     *)
(***************************************************************************)
EXTENDS Integers, SequencesExt

CONSTANTS
    Functions,     \* what the scripts compile to: main functions
    Units,         \* what a chunk is made of
    Blocks(_),     \* the blocks of the dump of a function, compile(L, ..., true)
    ReadBack(_),   \* what luaU_undump makes of a chunk: [ok, v]
    Meaning(_),    \* the function that the dump of a function stands for
    MaxArgs,       \* bound: arguments that a caller pushes for callFunction
    MaxResults,    \* bound: values that a chunk or a function returns
    MaxHeight,     \* bound: height of the stack up to which calls add to it
    WriterFails    \* whether a writer may fail: LuaCompiler takes any, that of
                   \* luaprocessor.cpp never does

\* A dump ends with a number, that of the names of the upvalues, and begins with
\* the header, of which the signature is not all.
ASSUME ProcessorAssumption ==
    /\ \A f \in Functions :
          /\ Blocks(f) \in Seq(Seq(Units)) \ {<< >>}
          /\ Len(Head(Blocks(f))) > 1
          /\ Last(Blocks(f)) # << >>
    /\ MaxArgs \in Nat /\ MaxResults \in Nat /\ MaxHeight \in Nat
    /\ WriterFails \in BOOLEAN

VARIABLES
    stack,     \* the stack of m_state: how many values are below those that the
               \* call under way, or the last one, has pushed, and these
    call,      \* which call it is, where it is in it, whether the step before
               \* failed (error), and, as history, the height of the stack
               \* without the arguments when it began
    data,      \* m_data
    dump,      \* the compilation: the blocks still to dump, m_status
    source     \* history: the function that the last dump was about, as <<f>>,
               \* or << >> when another chunk has replaced it since

vars == <<stack, call, data, dump, source>>

Ops == {"compileScript", "callFunction", "doBuffer"}
Places == {"idle", "loadfile", "dump", "loadbuffer", "pcall", "getglobal", "pcallglobal",
           "fileFailed", "bufferDone", "globalDone"}
Values == {"function", "global", "result", "message"}

Idle == call.at = "idle"

----------------------------------------------------------------------------
(* The Lua API. *)

Height(s) == s.below + Len(s.own)

Push(s, values) == [s EXCEPT !.own = @ \o values]

Pop(s, n) ==
    IF n <= Len(s.own)
    THEN [s EXCEPT !.own = SubSeq(@, 1, Len(@) - n)]
    ELSE [below |-> s.below - (n - Len(s.own)), own |-> << >>]

GoTo(place, error) == call' = [call EXCEPT !.at = place, !.error = error]

\* What luaL_loadbuffer makes of a chunk: empty text is a function that does
\* nothing, and all other text that reaches it is precompiled.
Loads(chunk) == chunk = << >> \/ ReadBack(chunk).ok

\* lua_pcall takes args arguments and the value below them, whatever it is, off
\* the stack and leaves results or a message.
ProtectedCall(args, next) ==
    LET left == Pop(stack, args + 1)
    IN  \/ /\ \E n \in 0..MaxResults :
                 /\ n = 0 \/ Height(left) <= MaxHeight
                 /\ stack' = Push(left, [i \in 1..n |-> "result"])
           /\ GoTo(next, FALSE)
        \/ /\ stack' = Push(left, <<"message">>)
           /\ GoTo(next, TRUE)

\* luaL_loadbuffer, the first half of luaL_dobuffer, on the stack s in the call c.
LoadBuffer(s, c, chunk) ==
    /\ stack' = Push(s, <<IF Loads(chunk) THEN "function" ELSE "message">>)
    /\ call' = [c EXCEPT !.at = IF Loads(chunk) THEN "pcall" ELSE "bufferDone",
                         !.error = ~Loads(chunk)]

Chunk(f) == FlattenSeq(Blocks(f))

----------------------------------------------------------------------------
Init ==
    /\ stack = [below |-> 0, own |-> << >>]
    /\ call = [op |-> "doBuffer", at |-> "idle", error |-> FALSE, args |-> 0, base |-> 0]
    /\ data = << >>
    /\ dump = [todo |-> << >>, status |-> 0]
    /\ source = << >>

\* What a call finds: the stack, with the arguments that its caller has pushed.
Entered(args) == [below |-> Height(stack) + args, own |-> << >>]

NewCall(op, args) ==
    [op |-> op, at |-> "loadfile", error |-> FALSE, args |-> args, base |-> Height(stack)]

\* compileScript, or callFunction with args arguments.
Begin(op, args) ==
    /\ Idle /\ Height(stack) + args <= MaxHeight
    /\ stack' = Entered(args)
    /\ call' = NewCall(op, args)
    /\ UNCHANGED <<data, dump, source>>

\* callFunction goes on whether the script was compiled or not.
Compiled == IF call.op = "callFunction" THEN "loadbuffer" ELSE "idle"

FaultyLoadFileFails ==                          \* returns without lua_pop
    /\ call.at = "loadfile"
    /\ stack' = Push(stack, <<"message">>)
    /\ GoTo(Compiled, FALSE)
    /\ UNCHANGED <<data, dump, source>>

\* luaL_loadfile fails in compileScript: nothing else is done.
LoadFileFails ==
    /\ call.at = "loadfile"
    /\ stack' = Push(stack, <<"message">>)
    /\ GoTo("fileFailed", TRUE)
    /\ UNCHANGED <<data, dump, source>>

\* compileScript up to the first block.
FaultyLoadFile(f) ==                            \* m_data not cleared
    /\ call.at = "loadfile"
    /\ stack' = Push(stack, <<"function">>)
    /\ GoTo("dump", FALSE)
    /\ dump' = [todo |-> Blocks(f), status |-> 0]
    /\ source' = <<f>>
    /\ UNCHANGED data

LoadFile(f) ==
    /\ call.at = "loadfile"
    /\ stack' = Push(stack, <<"function">>)
    /\ GoTo("dump", FALSE)
    /\ data' = << >>
    /\ dump' = [todo |-> Blocks(f), status |-> 0]
    /\ source' = <<f>>

Dumping == call.at = "dump" /\ dump.todo # << >>

\* A writer that fails may have written a part of the block, not all of it.
ProperParts(block) == {<< >>} \cup {SubSeq(block, 1, n) : n \in 0..(Len(block) - 1)}

\* One call of dumpBlock; after a failure the rest of the dump writes nothing.
DumpBlock ==
    /\ Dumping
    /\ \/ /\ dump.status = 0
          /\ data' = data \o Head(dump.todo)
          /\ dump' = [dump EXCEPT !.todo = Tail(@)]
       \/ /\ dump.status = 0 /\ WriterFails
          /\ \E part \in ProperParts(Head(dump.todo)) : data' = data \o part
          /\ dump' = [dump EXCEPT !.todo = Tail(@), !.status = 1]
       \/ /\ dump.status # 0
          /\ dump' = [dump EXCEPT !.todo = Tail(@)]
          /\ UNCHANGED data
    /\ UNCHANGED <<stack, call, source>>

\* The function stays on the stack, whatever compile returns.
CompileReturns ==
    /\ call.at = "dump" /\ dump.todo = << >>
    /\ GoTo(Compiled, FALSE)
    /\ UNCHANGED <<stack, data, dump, source>>

\* doBuffer() up to lua_pcall.
DoBuffer ==
    /\ Idle
    /\ LoadBuffer(Entered(0), NewCall("doBuffer", 0), data)
    /\ UNCHANGED <<data, dump, source>>

\* doBuffer(buffer, size) with a chunk from the database, up to lua_pcall:
\* append(buffer) stops at the first zero byte, the format after the signature;
\* the chunk that runs does not.
DoBufferOf(f) ==
    /\ Idle
    /\ LoadBuffer(Entered(0), NewCall("doBuffer", 0), Chunk(f))
    /\ data' = SubSeq(Chunk(f), 1, 1)
    /\ source' = << >>
    /\ UNCHANGED dump

\* callFunction runs m_data, compiled or not.
LoadData ==
    /\ call.at = "loadbuffer"
    /\ LoadBuffer(stack, call, data)
    /\ UNCHANGED <<data, dump, source>>

RunBuffer ==
    /\ call.at = "pcall"
    /\ ProtectedCall(0, "bufferDone")
    /\ UNCHANGED <<data, dump, source>>

GetGlobal ==
    /\ call.at = "getglobal"
    /\ stack' = Push(stack, <<"global">>)
    /\ GoTo("pcallglobal", FALSE)
    /\ UNCHANGED <<data, dump, source>>

\* The global function is above the arguments: with arguments, lua_pcall calls
\* another value.
CallGlobal ==
    /\ call.at = "pcallglobal"
    /\ ProtectedCall(call.args, "globalDone")
    /\ UNCHANGED <<data, dump, source>>

\* Where a call goes on after a step that may fail.
Continued ==
    CASE call.at = "fileFailed" -> Compiled
      [] call.at = "bufferDone" /\ call.op = "callFunction" -> "getglobal"
      [] OTHER -> "idle"

FaultyPopMessage ==                             \* pops without an error too
    /\ call.at \in {"fileFailed", "bufferDone", "globalDone"}
    /\ stack' = Pop(stack, 1)
    /\ GoTo(Continued, FALSE)
    /\ UNCHANGED <<data, dump, source>>

\* if( error ) lua_pop(m_state, 1)
PopMessage ==
    /\ call.at \in {"fileFailed", "bufferDone", "globalDone"}
    /\ stack' = IF call.error THEN Pop(stack, 1) ELSE stack
    /\ GoTo(Continued, FALSE)
    /\ UNCHANGED <<data, dump, source>>

Next ==
    \/ Begin("compileScript", 0)
    \/ \E args \in 0..MaxArgs : Begin("callFunction", args)
    \/ LoadFileFails
    \/ \E f \in Functions : LoadFile(f) \/ DoBufferOf(f)
    \/ DumpBlock \/ CompileReturns
    \/ DoBuffer \/ LoadData \/ RunBuffer
    \/ GetGlobal \/ CallGlobal \/ PopMessage

Spec == Init /\ [][Next]_vars

----------------------------------------------------------------------------
(* Properties *)

Stack == [below : Nat, own : Seq(Values)]
Call == [op : Ops, at : Places, error : BOOLEAN, args : 0..MaxArgs, base : Nat]

TypeOK ==
    /\ stack \in Stack
    /\ call \in Call
    /\ data \in Seq(Units)
    /\ dump \in [todo : Seq(Seq(Units)), status : {0, 1}]
    /\ call.at # "dump" => dump.todo = << >>
    /\ source \in {<< >>} \cup {<<f>> : f \in Functions}

\* compileScript: once a dump has succeeded, m_data reads back as the function
\* that was dumped, without its debug information, until m_data is replaced.
CompiledChunkReadsBack ==
    call.at # "dump" /\ source # << >> /\ dump.status = 0 =>
        ReadBack(data).ok /\ ReadBack(data).v = Meaning(source[1])

\* doBuffer and callFunction run m_data without asking whether compileScript
\* succeeded.  What Lua takes for a chunk there is, at any time, the whole
\* function of the file that was loaded last: never a part of one, nor what an
\* earlier script has left.  After luaL_loadfile has failed it is still the
\* script before, whole, and callFunction runs that one.
OnlyWholeChunksRun ==
    ReadBack(data).ok => source # << >> /\ ReadBack(data).v = Meaning(source[1])

\* Whichever of its steps fail, a call leaves on the stack all that was there
\* before its arguments, and no message of its own: each failure pops exactly
\* what it has pushed.
StackKept ==
    /\ stack.below >= call.base
    /\ Idle => \A i \in DOMAIN stack.own : stack.own[i] # "message"

=============================================================================
