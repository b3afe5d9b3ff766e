--------------------------- MODULE MCLuaProcessor ---------------------------
(***************************************************************************)
(* The small instance of LuaProcessor: main functions with constants of    *)
(* each type, a string with a zero byte in it, a long string, a byte that  *)
(* is negative as a char, nested functions, upvalues, debug information    *)
(* and its absence.                                                        *)
(***************************************************************************)
EXTENDS LuaProcessor, LuaCompiler

Plain ==
    [linedefined |-> 0, lastlinedefined |-> 0, numparams |-> 0, is_vararg |-> 1,
     maxstacksize |-> 20, code |-> <<7, 8>>, k |-> << >>, p |-> << >>,
     upvalues |-> <<[instack |-> 1, idx |-> 0, name |-> <<5>>]>>,
     source |-> <<6, 6>>, lineinfo |-> <<1, 2>>,
     locvars |-> <<[varname |-> <<5>>, startpc |-> 0, endpc |-> 2]>>]

Inner ==
    [Plain EXCEPT !.linedefined = 1, !.lastlinedefined = 3, !.numparams = 2, !.is_vararg = 0,
                  !.code = << >>, !.upvalues = << >>, !.source = NoString,
                  !.lineinfo = << >>, !.locvars = << >>]

Constants ==
    { <<Nil, Boolean(1)>>, <<String(<<3, 0, 4>>), Number(9)>>, <<String(<< >>), String(<<3>>)>> }

MCFunctions ==
    {[Plain EXCEPT !.k = k, !.p = p] :
        k \in Constants, p \in {<< >>, <<Inner>>, <<[Inner EXCEPT !.p = <<Inner>>], Inner>>}}

=============================================================================
