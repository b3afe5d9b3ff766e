---------------------------- MODULE LuaCompiler ----------------------------
(***************************************************************************)
(* LuaCompiler (core/LuaWrapper/luacompiler.cpp) turns a function that Lua *)
(* has compiled into a precompiled chunk, the form in which a script is    *)
(* stored, and hands it to a writer block by block.  Lua itself reads it   *)
(* back (lundump.c of the vendored Lua 5.2.3).                             *)
(*                                                                         *)
(* A chunk is a sequence of units, a unit a pair of a kind, which stands   *)
(* for a number of bytes, and a value.  A reader that expects another kind *)
(* than it finds reads garbage, which the model takes for an error.        *)
(***************************************************************************)
EXTENDS Integers, SequencesExt

CONSTANTS
    ByteMod,       \* the values of a byte, 256
    MaxShortLen    \* the longest string that Lua keeps as a short one, 40

ASSUME LuaAssumption == ByteMod \in Nat /\ ByteMod > 20 /\ MaxShortLen \in Nat

Unit == {"signature", "format", "char", "int", "number", "size", "byte", "instruction"} \X Int

----------------------------------------------------------------------------
(* Functions of Lua: strings, constants, prototypes *)

NoString == <<-1>>          \* the null pointer, as a string

NumTags == 16
TNil == 0
TBoolean == 1
TNumber == 3
TString == 4
TLongString == TString + NumTags

\* The value of a constant is a sequence in any case.
Nil == [tt |-> TNil, v |-> << >>]
Boolean(b) == [tt |-> TBoolean, v |-> <<b>>]
Number(x) == [tt |-> TNumber, v |-> <<x>>]
String(s) == [tt |-> IF Len(s) <= MaxShortLen THEN TString ELSE TLongString, v |-> s]

\* What the dump of a function without its debug information stands for.
RECURSIVE Stripped(_)
Stripped(f) ==
    [f EXCEPT !.source = NoString, !.lineinfo = << >>, !.locvars = << >>,
              !.upvalues = [i \in DOMAIN @ |-> [@[i] EXCEPT !.name = NoString]],
              !.p = [i \in DOMAIN @ |-> Stripped(@[i])]]

----------------------------------------------------------------------------
(* The dump: a sequence of blocks, each a sequence of units.                *)

DumpChar(y) ==              \* (char)y is signed
    LET b == y % ByteMod IN << <<"char", IF b < ByteMod \div 2 THEN b ELSE b - ByteMod>> >>

DumpInt(x) == << <<"int", x>> >>

DumpVector(kind, v) == <<DumpInt(Len(v)), [i \in DOMAIN v |-> <<kind, v[i]>>]>>

DumpString(s) ==
    IF s = NoString
    THEN << << <<"size", 0>> >> >>
    ELSE << << <<"size", Len(s) + 1>> >>,
            [i \in 1..Len(s) + 1 |-> <<"byte", (s \o <<0>>)[i]>>] >>

DumpTagged(t, v) ==
    <<DumpChar(t)>> \o
    (CASE t = TBoolean -> <<DumpChar(v[1])>>
       [] t = TNumber  -> << << <<"number", v[1]>> >> >>
       [] t = TString  -> DumpString(v)
       [] OTHER        -> << >>)

FaultyDumpConstant(o) == DumpTagged(o.tt, o.v)           \* the variant as well

\* A constant: the type without its variant, and the value.
DumpConstant(o) == DumpTagged(o.tt % NumTags, o.v)

DumpUpvalues(f) ==
    <<DumpInt(Len(f.upvalues))>> \o
    FlattenSeq([i \in DOMAIN f.upvalues |->
                   <<DumpChar(f.upvalues[i].instack), DumpChar(f.upvalues[i].idx)>>])

DumpDebug(f, strip) ==
    LET locvars == IF strip THEN << >> ELSE f.locvars
        upvalues == IF strip THEN << >> ELSE f.upvalues
    IN  DumpString(IF strip THEN NoString ELSE f.source)
        \o DumpVector("int", IF strip THEN << >> ELSE f.lineinfo)
        \o <<DumpInt(Len(locvars))>>
        \o FlattenSeq([i \in DOMAIN locvars |->
                          DumpString(locvars[i].varname)
                          \o <<DumpInt(locvars[i].startpc), DumpInt(locvars[i].endpc)>>])
        \o <<DumpInt(Len(upvalues))>>
        \o FlattenSeq([i \in DOMAIN upvalues |-> DumpString(upvalues[i].name)])

RECURSIVE DumpFunction(_, _)
DumpFunction(f, strip) ==
    <<DumpInt(f.linedefined), DumpInt(f.lastlinedefined), DumpChar(f.numparams),
      DumpChar(f.is_vararg), DumpChar(f.maxstacksize)>>
    \o DumpVector("instruction", f.code)
    \o <<DumpInt(Len(f.k))>> \o FlattenSeq([i \in DOMAIN f.k |-> DumpConstant(f.k[i])])
    \o <<DumpInt(Len(f.p))>> \o FlattenSeq([i \in DOMAIN f.p |-> DumpFunction(f.p[i], strip)])
    \o DumpUpvalues(f)
    \o DumpDebug(f, strip)

\* The header up to the version has no zero byte; the format that follows is 0.
DumpHeader == << <<"signature", 0>>, <<"format", 0>> >>

Dump(f, strip) == <<DumpHeader>> \o DumpFunction(f, strip)

\* The dump that compileScript asks for.
StrippedDump(f) == Dump(f, TRUE)

----------------------------------------------------------------------------
(* The reader of Lua.  A reading is what is left of the chunk, the last    *)
(* value read, and whether all went well.                                  *)

Broken == [ok |-> FALSE, in |-> << >>, v |-> 0]

LoadUnit(r, kind) ==
    IF r.ok /\ r.in # << >> /\ Head(r.in)[1] = kind
    THEN [ok |-> TRUE, in |-> Tail(r.in), v |-> Head(r.in)[2]]
    ELSE Broken

LoadChar(r) == LoadUnit(r, "char")
LoadByte(r) == LET c == LoadChar(r) IN [c EXCEPT !.v = @ % ByteMod]
LoadInt(r) == LET x == LoadUnit(r, "int") IN IF x.v < 0 THEN Broken ELSE x

\* n times Load, the values in a sequence.
Times(r, n, Load(_)) ==
    FoldLeft(LAMBDA a, i : LET x == Load(a) IN [x EXCEPT !.v = Append(a.v, x.v)],
             [r EXCEPT !.v = << >>], [i \in 1..n |-> i])

Counted(r, Load(_)) == LET n == LoadInt(r) IN Times(n, n.v, Load)

LoadString(r) ==
    LET size == LoadUnit(r, "size")
        s == Times(size, size.v, LAMBDA a : LoadUnit(a, "byte"))
    IN  IF size.v = 0 THEN [size EXCEPT !.v = NoString] ELSE [s EXCEPT !.v = Front(@)]

LoadConstant(r) ==
    LET t == LoadChar(r)
        b == LoadChar(t)
        x == LoadUnit(t, "number")
        s == LoadString(t)
    IN  CASE t.v = TNil     -> [t EXCEPT !.v = Nil]
          [] t.v = TBoolean -> [b EXCEPT !.v = Boolean(@)]
          [] t.v = TNumber  -> [x EXCEPT !.v = Number(@)]
          [] t.v = TString  -> [s EXCEPT !.v = String(@)]
          [] OTHER          -> [t EXCEPT !.v = Nil]

LoadUpvalue(r) ==
    LET instack == LoadByte(r)
        idx == LoadByte(instack)
    IN  [idx EXCEPT !.v = [instack |-> instack.v, idx |-> idx.v, name |-> NoString]]

LoadLocVar(r) ==
    LET varname == LoadString(r)
        startpc == LoadInt(varname)
        endpc == LoadInt(startpc)
    IN  [endpc EXCEPT !.v = [varname |-> varname.v, startpc |-> startpc.v, endpc |-> @]]

RECURSIVE LoadFunction(_)
LoadFunction(r) ==
    LET first == LoadInt(r)
        last == LoadInt(first)
        numparams == LoadByte(last)
        is_vararg == LoadByte(numparams)
        maxstacksize == LoadByte(is_vararg)
        code == Counted(maxstacksize, LAMBDA a : LoadUnit(a, "instruction"))
        k == Counted(code, LoadConstant)
        p == Counted(k, LAMBDA a : LoadFunction(a))
        upvalues == Counted(p, LoadUpvalue)
        source == LoadString(upvalues)
        lineinfo == Counted(source, LoadInt)
        locvars == Counted(lineinfo, LoadLocVar)
        names == Counted(locvars, LoadString)
    IN  IF names.ok
        THEN [names EXCEPT !.v =
                [linedefined |-> first.v, lastlinedefined |-> last.v,
                 numparams |-> numparams.v, is_vararg |-> is_vararg.v,
                 maxstacksize |-> maxstacksize.v, code |-> code.v, k |-> k.v, p |-> p.v,
                 upvalues |-> [i \in DOMAIN upvalues.v |->
                                 IF i \in DOMAIN names.v THEN [upvalues.v[i] EXCEPT !.name = names.v[i]]
                                                   ELSE upvalues.v[i]],
                 source |-> source.v, lineinfo |-> lineinfo.v, locvars |-> locvars.v]]
        ELSE Broken

Undump(chunk) ==
    LET start == [ok |-> TRUE, in |-> chunk, v |-> 0]
    IN  LoadFunction(LoadUnit(LoadUnit(start, "signature"), "format"))

=============================================================================
