------------------------------ MODULE Compiler ------------------------------
(* The bytecode compiler of Femtoscheme (femtoscheme/compiler.scm): from an
   expanded expression to the instructions of a function, its constants and the
   functions in it. The bytes of the code are abstracted to a sequence of
   instructions <<name, operand...>>, and with them the long forms of
   instructions and those with an operand in their name (loada0, load1, ...).

   Expressions are tuples that begin with their kind:
     <<"num", n>> <<"const", c>> <<"quote", v>> <<"list", vs>> <<"var", x>>
     <<"set", x, e>> <<"if", a, b, c>> <<"begin", es>> <<"prog1", a, es>>
     <<"and", es>> <<"or", es>> <<"while", c, e>> <<"for", lo, hi, f>>
     <<"try", e, f>> <<"return", e>> <<"lambda", params, body>>
     <<"call", f, es>> <<"prim", name, es>>
   where quote is a quoted symbol or keyword and list a quoted list, prim is a call of a builtin the compiler has an instruction for, and
   params is [req, opt, key, rest]: names, pairs <<name, default>> twice, and
   a name or "".                                                             *)
EXTENDS Integers, Sequences, SequencesExt

CONSTANT Constants  \* names of the C functions bound as constants

Far == 99  \* "no variable of an outer frame is used"

Lambda(req, body) == <<"lambda", [req |-> req, opt |-> <<>>, key |-> <<>>,
                                  rest |-> ""], body>>

\* A code emitter, and the functions compiled so far.
make_code_emitter(funs) == [code |-> <<>>, vals |-> <<>>, cdepth |-> Far,
                            label |-> 0, funs |-> funs]

bcode_cdepth(g, d) == [g EXCEPT !.cdepth = IF d < @ THEN d ELSE @]

\* The constant v gets a place among the constants, once.
bcode_indexfor(g, v) ==
    IF v \in ToSet(g.vals)
    THEN [g |-> g, i |-> SelectInSeq(g.vals, LAMBDA w : w = v)]
    ELSE [g |-> [g EXCEPT !.vals = Append(@, v)], i |-> Len(g.vals) + 1]

\* The instruction ins, or one that does what the last one and ins do.
emit(g, ins) ==
    LET last    == IF g.code = <<>> THEN "" ELSE Last(g.code)[1]
        Fuse(k, name) == [g EXCEPT !.code =
            Append(SubSeq(@, 1, Len(@) - k), <<name>> \o Tail(ins))]
    IN CASE ins[1] = "car" /\ last = "cdr" -> Fuse(1, "cadr")
         [] ins[1] = "brf" /\ last = "not" /\ Len(g.code) > 1
              /\ g.code[Len(g.code) - 1][1] = "null?" -> Fuse(2, "brn")
         [] ins[1] = "brf" /\ last = "not"   -> Fuse(1, "brt")
         [] ins[1] = "brf" /\ last = "eq?"   -> Fuse(1, "brne")
         [] ins[1] = "brf" /\ last = "null?" -> Fuse(1, "brnn")
         [] ins[1] = "brt" /\ last = "null?" -> Fuse(1, "brn")
         [] OTHER -> [g EXCEPT !.code = Append(@, ins)]

emitv(g, name, v) == LET c == bcode_indexfor(g, v) IN emit(c.g, <<name, c.i>>)

make_label(g) == [g EXCEPT !.label = @ + 1]
mark_label(g, l) == emit(g, <<"label", l>>)

\* Labels are taken out, and what jumps to one gets the place after it.
encode(code) ==
    LET Kept(n) == Len(SelectSeq(SubSeq(code, 1, n), LAMBDA i : i[1] # "label"))
        Target(l) == 1 + Kept(CHOOSE p \in DOMAIN code : code[p] = <<"label", l>>)
        Jumps == {"jmp", "brf", "brt", "brne", "brnn", "brn"}
    IN [n \in 1..Kept(Len(code)) |->
          LET i == SelectSeq(code, LAMBDA x : x[1] # "label")[n]
          IN IF i[1] \in Jumps THEN <<i[1], Target(i[2])>> ELSE i]

-----------------------------------------------------------------------------
(* Variables. An environment is a sequence of frames, the innermost first; a
   frame without variables does not exist when the program runs.             *)

nnn(env) == Len(SelectSeq(env, LAMBDA f : f # <<>>))
in_env(s, env) == \E k \in DOMAIN env : s \in ToSet(env[k])
index_of(s, f) == SelectInSeq(f, LAMBDA x : x = s) - 1

\* Where s is: an argument, in a captured frame or global.
lookup_sym(s, env) ==
    LET k == CHOOSE k \in DOMAIN env :
               s \in ToSet(env[k]) /\ \A j \in 1..(k - 1) : s \notin ToSet(env[j])
    IN IF ~in_env(s, env) THEN <<"global">>
       ELSE IF k = 1 THEN <<"arg", index_of(s, env[1])>>
       ELSE <<"captured", nnn(SubSeq(env, 2, k - 1)), index_of(s, env[k])>>

compile_sym(g, env, s, is) ==
    LET loc == lookup_sym(s, env)
    IN CASE loc[1] = "arg" -> emit(g, <<is[1], loc[2]>>)
         [] loc[1] = "captured" ->
              bcode_cdepth(emit(g, <<is[2], loc[2], loc[3]>>),
                           nnn(Tail(env)) - 1 - loc[2])
         [] s \in Constants -> emitv(g, "loadv", <<"cb", s>>)
         [] OTHER -> emitv(g, is[3], <<"sym", s>>)

-----------------------------------------------------------------------------
(* Expressions; tail says that the value is the function's.                  *)
RECURSIVE compile_in(_, _, _, _), compile_begin(_, _, _, _),
          compile_short_circuit(_, _, _, _, _, _), compile_arglist(_, _, _),
          compile_f(_, _, _), emit_optional_arg_inits(_, _, _, _, _)

compile_if(g, env, tail, x) ==
    LET elsel == g.label + 1
        endl  == g.label + 2
        g0 == make_label(make_label(g))
        g1 == emit(compile_in(g0, env, FALSE, x[2]), <<"brf", elsel>>)
        g2 == compile_in(g1, env, tail, x[3])
        g3 == emit(g2, IF tail THEN <<"ret">> ELSE <<"jmp", endl>>)
        g4 == compile_in(mark_label(g3, elsel), env, tail, x[4])
    IN CASE x[2] = <<"const", "T">> -> compile_in(g0, env, tail, x[3])
         [] x[2] = <<"const", "F">> -> compile_in(g0, env, tail, x[4])
         [] OTHER -> mark_label(g4, endl)

compile_begin(g, env, tail, es) ==
    IF Len(es) = 1 THEN compile_in(g, env, tail, es[1])
    ELSE compile_begin(emit(compile_in(g, env, FALSE, es[1]), <<"pop">>),
                       env, tail, Tail(es))

compile_prog1(g, env, x) ==
    emit(compile_begin(compile_in(g, env, FALSE, x[2]), env, FALSE, x[3]),
         <<"pop">>)

compile_while(g, env, cond, body) ==
    LET top == g.label + 1
        end == g.label + 2
        g0 == make_label(make_label(g))
        g1 == mark_label(emit(g0, <<"const", "T">>), top)
        g2 == emit(compile_in(g1, env, FALSE, cond), <<"brf", end>>)
        g3 == compile_in(emit(g2, <<"pop">>), env, FALSE, body)
    IN mark_label(emit(g3, <<"jmp", top>>), end)

compile_for(g, env, lo, hi, f) ==
    emit(compile_arglist(g, env, <<lo, hi, f>>), <<"for">>)

compile_short_circuit(g, env, tail, es, default, branch) ==
    LET end == g.label + 1
        g1 == compile_in(make_label(g), env, FALSE, es[1])
        g2 == emit(emit(emit(g1, <<"dup">>), <<branch, end>>), <<"pop">>)
        g3 == compile_short_circuit(g2, env, tail, Tail(es), default, branch)
    IN CASE es = <<>> -> compile_in(g, env, tail, <<"const", default>>)
         [] Len(es) = 1 -> compile_in(g, env, tail, es[1])
         [] OTHER -> mark_label(g3, end)

compile_arglist(g, env, es) ==
    IF es = <<>> THEN g
    ELSE compile_arglist(compile_in(g, env, FALSE, Head(es)), env, Tail(es))

compile_builtin_call(g, tail, b, nargs) ==
    CASE b = "list" /\ nargs = 0 -> emit(g, <<"const", "NIL">>)
      [] b = "+" /\ nargs = 0 -> emit(g, <<"num", 0>>)
      [] b = "+" /\ nargs = 2 -> emit(g, <<"add2">>)
      [] b = "-" /\ nargs = 1 -> emit(g, <<"neg">>)
      [] b = "-" /\ nargs = 2 -> emit(g, <<"sub2">>)
      [] b = "*" /\ nargs = 0 -> emit(g, <<"num", 1>>)
      [] b = "apply" -> emit(g, <<IF tail THEN "tapply" ELSE "apply", nargs>>)
      [] b \in {"list", "+", "-", "*", "vector"} -> emit(g, <<b, nargs>>)
      [] OTHER -> emit(g, <<b>>)

\* A call of a function, or of a builtin by its instruction.
compile_app(g, env, tail, x) ==
    IF x[1] = "prim"
    THEN compile_builtin_call(compile_arglist(g, env, x[3]), tail, x[2], Len(x[3]))
    ELSE emit(compile_arglist(compile_in(g, env, FALSE, x[2]), env, x[3]),
              <<IF tail THEN "tcall" ELSE "call", Len(x[3])>>)

\* The function f goes to the constants; it is closed over what it captures.
closed_over(g, env, f) ==
    LET g1 == emitv([g EXCEPT !.funs = f.funs], "loadv", <<"lam", Len(f.funs)>>)
        g2 == bcode_cdepth(g1, f.cdepth)
    IN IF f.cdepth < nnn(env) THEN emit(g2, <<"closure">>) ELSE g2

compile_lambda(g, env, x) == closed_over(g, env, compile_f(g.funs, env, x))

compile_in(g, env, tail, x) ==
    CASE x[1] = "var"   -> compile_sym(g, env, x[2], <<"loada", "loadc", "loadg">>)
      [] x[1] \in {"num", "const"} -> emit(g, x)
      [] x[1] = "quote" -> emitv(g, "loadv", x[2])
      [] x[1] = "list"  -> emitv(g, "loadv", x)
      [] x[1] = "if"    -> compile_if(g, env, tail, x)
      [] x[1] = "begin" -> compile_begin(g, env, tail, x[2])
      [] x[1] = "prog1" -> compile_prog1(g, env, x)
      [] x[1] = "lambda" -> compile_lambda(g, env, x)
      [] x[1] = "and"   -> compile_short_circuit(g, env, tail, x[2], "T", "brf")
      [] x[1] = "or"    -> compile_short_circuit(g, env, tail, x[2], "F", "brt")
      [] x[1] = "while" -> compile_while(g, env, x[2], x[3])
      [] x[1] = "for"   -> compile_for(g, env, x[2], x[3], x[4])
      [] x[1] = "return" -> emit(compile_in(g, env, TRUE, x[2]), <<"ret">>)
      [] x[1] = "set"   -> compile_sym(compile_in(g, env, FALSE, x[3]), env, x[2],
                                       <<"seta", "setc", "setg">>)
      [] x[1] = "try"   -> emit(compile_arglist(g, env, <<Lambda(<<>>, x[2]), x[3]>>),
                                <<"trycatch">>)
      [] OTHER -> compile_app(g, env, tail, x)

-----------------------------------------------------------------------------
(* Functions.                                                                *)

\* A default is evaluated where its argument is not bound, with the variables
\* before it as the innermost frame.
emit_optional_arg_inits(g, env, opta, vars, i) ==
    IF opta = <<>> THEN g
    ELSE LET nxt == g.label + 1
             g1 == emit(emit(make_label(g), <<"brbound", i>>), <<"brt", nxt>>)
             g2 == compile_in(g1, <<SubSeq(vars, 1, i)>> \o env, FALSE, opta[1][2])
             g3 == emit(emit(g2, <<"seta", i>>), <<"pop">>)
         IN emit_optional_arg_inits(mark_label(g3, nxt), env, Tail(opta), vars, i + 1)

emit_body(g, env, vars, body) ==
    emit(compile_in(g, <<vars>> \o env, TRUE, body), <<"ret">>)

with_function(g) == [funs |-> Append(g.funs, [code |-> encode(g.code), vals |-> g.vals]),
                     cdepth |-> g.cdepth]

compile_f(funs, env, x) ==
    LET p     == x[2]
        opta  == p.opt \o p.key
        named == p.req \o [i \in DOMAIN opta |-> opta[i][1]]
        vars  == IF p.rest = "" THEN named ELSE Append(named, p.rest)
        nargs == Len(named)
        nreq  == Len(p.req)
        most  == IF p.rest = "" THEN nargs ELSE -nargs
        keys  == [i \in DOMAIN p.key |-> p.key[i][1]]
        g0 == make_code_emitter(funs)
        g1 == IF keys = <<>> THEN emit(g0, <<"optargs", nreq, most>>)
              ELSE emit(bcode_indexfor(g0, <<"keys", keys>>).g,
                        <<"keyargs", nreq, Len(keys), most>>)
        g2 == IF opta = <<>> THEN g0
              ELSE emit_optional_arg_inits(g1, env, opta, vars, nreq)
        g3 == IF p.rest # "" THEN emit(g2, <<"vargc", nargs>>)
              ELSE IF opta = <<>> THEN emit(g2, <<"argc", nargs>>) ELSE g2
    IN with_function(emit_body(g3, env, vars, x[3]))

\* The functions an expression is compiled to; the last one is its thunk.
compile_thunk(e) == compile_in(make_code_emitter(<<>>), <<>>, FALSE, Lambda(<<>>, e)).funs
=============================================================================
