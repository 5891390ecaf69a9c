------------------------------- MODULE Scheme -------------------------------
(* What a Femtoscheme expression means: an evaluator that knows no
   instructions, frames, heap or collector. It is the definition the machine
   is held against: environments map names to locations of a store that only
   grows, a call binds fresh locations, and an error or a return ends what is
   around it up to the trycatch or the function.

   Expressions are those of Compiler; a quoted list is made anew each time it
   is evaluated, which nothing here looks at. Numbers and predicates are those
   of Builtins.                                                              *)
EXTENDS Builtins

CONSTANT Constants  \* names of the C functions bound as constants

\* What evaluation gives: a value, an error on its way to a trycatch, or the
\* value of a return on its way to the end of its function.
Val(s, v) == [k |-> "val", v |-> v, s |-> s]

New(s, tag, cell) == Val([s EXCEPT !.store = Append(@, cell)],
                         <<tag, Len(s.store) + 1>>)
Cell(s, v) == s.store[v[2]]

\* A list of vs that ends in the value tail.
ListOnto(s, vs, tail) ==
    FoldRight(LAMBDA v, acc : New(acc.s, "cons", <<v, acc.v>>), vs, Val(s, tail))

Fail(s, ws) == [ListOnto(s, ws, NIL) EXCEPT !.k = "err"]
Given(s, res) == IF res.err = <<>> THEN Val(s, res.v) ELSE Fail(s, res.err)

\* The elements of a list, whatever it ends in.
RECURSIVE ElementsOf(_, _)
ElementsOf(s, l) == IF ~isCons(l) THEN <<>>
                    ELSE <<Cell(s, l)[1]>> \o ElementsOf(s, Cell(s, l)[2])

\* equal?: no difference can be reached. What is being compared is taken to be
\* equal when it comes up again.
RECURSIVE Same(_, _, _, _)
Same(s, a, b, seen) ==
    \/ a = b \/ <<a, b>> \in seen
    \/ /\ a[1] = b[1] /\ a[1] \in {"cons", "vec"}
       /\ Len(Cell(s, a)) = Len(Cell(s, b))
       /\ \A i \in DOMAIN Cell(s, a) :
            Same(s, Cell(s, a)[i], Cell(s, b)[i], seen \cup {<<a, b>>})

Part(op) == IF op \in {"car", "set-car!"} THEN 1 ELSE 2

\* A builtin on the values vs.
Primitive(op, vs, s) ==
    LET v == vs[1]
        Update(i, w) == [s EXCEPT !.store[v[2]][i] = w]
    IN CASE op \in predicates -> Val(s, Predicate(op, v))
         [] op \in {"eq?", "eqv?"} -> Val(s, Bool(v = vs[2]))
         [] op = "equal?" -> Val(s, Bool(Same(s, v, vs[2], {})))
         [] op = "cons" -> New(s, "cons", vs)
         [] op \in {"car", "cdr"} ->
              IF isCons(v) THEN Val(s, Cell(s, v)[Part(op)])
              ELSE Fail(s, TypeErr(op, "cons", v))
         [] op \in {"set-car!", "set-cdr!"} ->
              IF isCons(v) THEN Val(Update(Part(op), vs[2]), v)
              ELSE Fail(s, TypeErr(IF op = "set-car!" THEN "car" ELSE "cdr", "cons", v))
         [] op = "list" -> ListOnto(s, vs, NIL)
         [] op = "vector" -> New(s, "vec", vs)
         [] op \in {"aref", "aset!"} ->
              IF v[1] # "vec" THEN Fail(s, TypeErr(op, "sequence", v))
              ELSE IF vs[2][1] # "fix" THEN Fail(s, TypeErr(op, "number", vs[2]))
              ELSE IF vs[2][2] \notin 0..(Len(Cell(s, v)) - 1)
              THEN Fail(s, <<Sym("bounds-error"), Sym(op), v, vs[2]>>)
              ELSE IF op = "aref" THEN Val(s, Cell(s, v)[vs[2][2] + 1])
              ELSE Val(Update(vs[2][2] + 1, vs[3]), vs[3])
         [] OTHER -> Given(s, Arithmetic(op, vs))

-----------------------------------------------------------------------------
(* Arguments. How many of vs each kind of parameter takes: positions up to the
   first keyword, pairs while a keyword comes, the rest.                     *)

Positions(p, vs) ==
    LET most == Len(p.req) + Len(p.opt)
        stops == {i \in (Len(p.req) + 1)..Len(vs) : p.key # <<>> /\ vs[i][1] = "key"}
    IN CHOOSE n \in 0..Len(vs) :
         /\ n <= most /\ \A i \in stops : n < i
         /\ n = most \/ n = Len(vs) \/ n + 1 \in stops

RECURSIVE Pairs(_)
Pairs(vs) == IF vs = <<>> \/ Head(vs)[1] # "key" THEN 0
             ELSE IF Len(vs) = 1 THEN 1 ELSE 1 + Pairs(SubSeq(vs, 3, Len(vs)))

\* [bad, given, rest]: what is wrong, the values of required, optional and
\* keyword parameters (UNBOUND where there is none), and the rest.
Matched(p, vs) ==
    LET n     == Positions(p, vs)
        after == SubSeq(vs, n + 1, Len(vs))
        k     == IF p.key = <<>> THEN 0 ELSE Pairs(after)
        names == [i \in 1..k |-> after[2 * i - 1][2]]
        rest  == SubSeq(after, 2 * k + 1, Len(after))
        Bad(i) == 2 * i > Len(after) \/ \A j \in DOMAIN p.key : p.key[j][1] # names[i]
        bad   == SelectInSeq([i \in 1..k |-> Bad(i)], LAMBDA b : b)
        Key(x) == LET i == SelectInSeq(names, LAMBDA y : y = x)
                  IN IF i = 0 \/ 2 * i > Len(after) THEN UNBOUND ELSE after[2 * i]
    IN [bad |-> CASE Len(vs) < Len(p.req) -> "too few"
                  [] Len(vs) >= Len(p.req) /\ bad # 0 ->
                       IF 2 * bad > Len(after) THEN "keyword alone" ELSE "keyword"
                  [] OTHER -> IF p.rest = "" /\ rest # <<>> THEN "too many" ELSE "",
        given |-> [i \in 1..(Len(p.req) + Len(p.opt)) |->
                     IF i <= n THEN vs[i] ELSE UNBOUND]
                  \o [i \in DOMAIN p.key |-> Key(p.key[i][1])],
        rest |-> rest]

-----------------------------------------------------------------------------
RECURSIVE Eval(_, _, _), Body(_, _, _), Apply(_, _, _), BindFrom(_, _, _, _),
          EvalWhile(_, _, _, _), EvalFor(_, _, _, _, _), Mapped(_, _, _, _)

\* A value goes on to Op; an error and a return do not.
Then(x, Op(_)) == IF x.k = "val" THEN Op(x) ELSE x

WithValue(acc, x) == Then(x, LAMBDA y : [y EXCEPT !.v = Append(acc.v, y.v)])

\* Expressions from left to right; v is the sequence of their values.
EvalAll(es, env, s) ==
    FoldLeft(LAMBDA acc, e : Then(acc, LAMBDA a : WithValue(a, Eval(e, env, a.s))),
             Val(s, <<>>), es)

\* The body of a function, where a return ends.
Returned(x) == IF x.k = "ret" THEN [x EXCEPT !.k = "val"] ELSE x
Body(e, env, s) == Returned(Eval(e, env, s))

Bound(st, s, x, v) == [st EXCEPT !.env = (x :> Len(s.store) + 1) @@ @,
                                 !.s = [s EXCEPT !.store = Append(@, v)]]
BoundRest(st, x, l) == Bound(st, l.s, x, l.v)
BodyIn(c, st) == Body(c.body, st.env, st.s)

\* The variables from the i-th on, defaults evaluated where there is no value;
\* then the rest and the body.
BindFrom(c, given, i, st) ==
    LET p   == c.params
        dft == p.opt \o p.key
        k   == i - Len(p.req)
        x   == IF k <= 0 THEN p.req[i] ELSE dft[k][1]
    IN IF i > Len(given)
       THEN BodyIn(c, IF p.rest = "" THEN st
                      ELSE BoundRest(st, p.rest, ListOnto(st.s, st.rest, NIL)))
       ELSE Then(IF given[i] # UNBOUND THEN Val(st.s, given[i])
                 ELSE Eval(dft[k][2], st.env, st.s),
                 LAMBDA d : BindFrom(c, given, i + 1, Bound(st, d.s, x, d.v)))

\* map: an element of each list, as long as the first one has some.
Mapped(f, ls, vs, s) ==
    LET bad == SelectSeq(ls, LAMBDA l : ~isCons(l))
        Fields(st, i) == [j \in DOMAIN ls |-> Cell(st, ls[j])[i]]
    IN IF ~isCons(ls[1]) THEN ListOnto(s, vs, NIL)
       ELSE IF bad # <<>> THEN Fail(s, TypeErr("car", "cons", bad[1]))
       ELSE Then(Apply(f, Fields(s, 1), s),
                 LAMBDA x : Mapped(f, Fields(x.s, 2), Append(vs, x.v), x.s))

\* Functions that are no lambdas.
Library(name, vs, s) ==
    LET n   == Len(vs)
        bad == SelectSeq(Front(vs), LAMBDA l : ~isCons(l) /\ l # NIL)
        all == FlattenSeq([i \in 1..(n - 1) |-> ElementsOf(s, vs[i])])
    IN CASE name = "raise" -> IF n = 1 THEN [Val(s, vs[1]) EXCEPT !.k = "err"]
                              ELSE Fail(s, ArgErr("raise"))
         [] name = "map" -> IF n < 2 THEN Fail(s, ArgErr("map: too few arguments"))
                            ELSE Mapped(vs[1], Tail(vs), <<>>, s)
         [] name = "append" -> IF n = 0 THEN Val(s, NIL)
                               ELSE IF bad # <<>> THEN Fail(s, TypeErr("append", "cons", bad[1]))
                               ELSE ListOnto(s, all, vs[n])
         [] name = "list*" -> IF n = 0 THEN Fail(s, ArgErr("list*: too few arguments"))
                              ELSE ListOnto(s, Front(vs), vs[n])
         [] name = "copy-list" -> IF n # 1 THEN Fail(s, ArgErr("copy-list: wrong arguments"))
                                  ELSE ListOnto(s, ElementsOf(s, vs[1]), NIL)

Apply(f, vs, s) ==
    LET c == Cell(s, f)
        a == Matched(c.params, vs)
    IN CASE f[1] = "fun" ->
              IF a.bad # "" THEN Fail(s, ArgErr(a.bad))
              ELSE BindFrom(c, a.given, 1, [env |-> c.env, s |-> s, rest |-> a.rest])
         [] f[1] = "bi" /\ ~ArgsFit(f[2], Len(vs)) -> Fail(s, ArgErr(f[2]))
         [] f = <<"bi", "apply">> /\ Len(vs) >= 2 ->
              Apply(vs[1], SubSeq(vs, 2, Len(vs) - 1) \o ElementsOf(s, Last(vs)), s)
         [] f[1] = "cb" -> Library(f[2], vs, s)
         [] f[1] = "bi" /\ ArgsFit(f[2], Len(vs)) /\ f[2] # "apply" ->
              Primitive(f[2], vs, s)
         [] OTHER -> Fail(s, TypeErr("apply", "function", f))

EvalWhile(x, v, env, s) ==
    Then(Eval(x[2], env, s), LAMBDA c :
      IF c.v = F THEN Val(c.s, v)
      ELSE Then(Eval(x[3], env, c.s), LAMBDA b : EvalWhile(x, b.v, env, b.s)))

EvalFor(f, i, hi, v, s) ==
    IF i > hi THEN Val(s, v)
    ELSE Then(Apply(f, <<Fix(i)>>, s), LAMBDA x : EvalFor(f, i + 1, hi, x.v, x.s))

For(vs, s) == CASE vs[1][1] # "fix" -> Fail(s, TypeErr("for", "fixnum", vs[1]))
                [] vs[1][1] = "fix" /\ vs[2][1] # "fix" ->
                     Fail(s, TypeErr("for", "fixnum", vs[2]))
                [] OTHER -> EvalFor(vs[3], vs[1][2], vs[2][2], T, s)

Variable(x, env, s) ==
    CASE x \in DOMAIN env -> Val(s, s.store[env[x]])
      [] x \notin DOMAIN env /\ x \in Constants -> Val(s, <<"cb", x>>)
      [] x \notin DOMAIN env \cup Constants /\ x \in DOMAIN s.glob -> Val(s, s.glob[x])
      [] OTHER -> Fail(s, <<Sym("unbound-error"), Sym(x)>>)

Assign(x, v, env, s) ==
    Val(CASE x \in DOMAIN env -> [s EXCEPT !.store[env[x]] = v]
          [] x \in Constants \ DOMAIN env -> s
          [] OTHER -> [s EXCEPT !.glob = (x :> v) @@ @], v)

\* The handler h gets the error x ended with.
Handled(x, h) == IF x.k = "err" THEN Apply(h, <<x.v>>, x.s) ELSE x

Eval(x, env, s) ==
    LET ev(e) == Eval(e, env, s)
        all(es) == EvalAll(es, env, s)
    IN CASE x[1] = "num" -> Val(s, Fix(x[2]))
         [] x[1] = "const" -> Val(s, Con(x[2]))
         [] x[1] = "quote" -> Val(s, x[2])
         [] x[1] = "list" -> ListOnto(s, x[2], NIL)
         [] x[1] = "var" -> Variable(x[2], env, s)
         [] x[1] = "set" -> Then(ev(x[3]), LAMBDA y : Assign(x[2], y.v, env, y.s))
         [] x[1] = "if" -> Then(ev(x[2]), LAMBDA y :
                                  Eval(IF y.v # F THEN x[3] ELSE x[4], env, y.s))
         [] x[1] = "begin" -> Then(all(x[2]), LAMBDA y : [y EXCEPT !.v = Last(@)])
         [] x[1] = "prog1" -> Then(all(<<x[2]>> \o x[3]), LAMBDA y : [y EXCEPT !.v = Head(@)])
         [] x[1] \in {"and", "or"} /\ x[2] = <<>> -> Val(s, Bool(x[1] = "and"))
         [] x[1] \in {"and", "or"} /\ x[2] # <<>> ->
              Then(ev(x[2][1]), LAMBDA y :
                IF Len(x[2]) = 1 \/ (y.v = F) = (x[1] = "and") THEN y
                ELSE Eval(<<x[1], Tail(x[2])>>, env, y.s))
         [] x[1] = "while" -> EvalWhile(x, T, env, s)
         [] x[1] = "for" -> Then(all(Tail(x)), LAMBDA y : For(y.v, y.s))
         [] x[1] = "return" -> Then(ev(x[2]), LAMBDA y : [y EXCEPT !.k = "ret"])
         [] x[1] = "lambda" -> New(s, "fun", [params |-> x[2], body |-> x[3], env |-> env])
         [] x[1] = "try" -> Then(ev(x[3]), LAMBDA h : Handled(Body(x[2], env, h.s), h.v))
         [] x[1] = "prim" -> Then(all(x[3]), LAMBDA y : Apply(<<"bi", x[2]>>, y.v, y.s))
         [] x[1] = "call" -> Then(all(<<x[2]>> \o x[3]), LAMBDA y :
                                    Apply(Head(y.v), Tail(y.v), y.s))
=============================================================================
