------------------------------ MODULE Builtins ------------------------------
(* What the instructions and the C functions of Femtoscheme do with values
   (femtoscheme/flisp.c, equal.c, builtins.c, and cvalues.c for sums): each is
   an operator on a memory of Heap that gives a value in the memory after it,
   or an error. Numbers are fixnums that do not overflow; text in errors is a
   symbol.                                                                   *)
EXTENDS Heap, TLC

CONSTANT CompareBound  \* objects equal? compares before it looks for cycles

Sym(s) == <<"sym", s>>
Bool(b) == IF b THEN T ELSE F
TypeErr(fname, expected, got) ==
    <<Sym("type-error"), Sym(fname), Sym(expected), got>>
ArgErr(what) == <<Sym("arg-error"), Sym(what)>>

\* What a builtin gives: a value in a memory, or the words of an error.
Ok(mm, v)   == [err |-> <<>>, m |-> mm, v |-> v]
Err(mm, ws) == [err |-> ws, m |-> mm, v |-> NIL]

-----------------------------------------------------------------------------
(* equal?: first to a bounded depth, where 2 stands for "not known"; then with
   classes of objects that are taken to be equal while they are compared.    *)
RECURSIVE bounded_compare(_, _, _, _), cyc_compare(_, _, _, _),
          eq_class(_, _)

leafp(v) == v[1] \notin {"cons", "vec"}

FirstNot0(ds) == LET bad == SelectSeq(ds, LAMBDA d : d # 0)
                 IN IF bad = <<>> THEN 0 ELSE bad[1]

bounded_compare(h, a, b, bound) ==
    LET Elts == [i \in 1..vectorSize(h, a) |->
          bounded_compare(h, vectorElt(h, a, i - 1), vectorElt(h, b, i - 1), bound - 1)]
    IN CASE a = b -> 0
         [] a # b /\ bound <= 0 -> 2
         [] a # b /\ bound > 0 /\ a[1] # b[1] -> 1
         [] a # b /\ bound > 0 /\ a[1] = "vec" /\ b[1] = "vec" ->
              IF vectorSize(h, a) # vectorSize(h, b) THEN 1 ELSE FirstNot0(Elts)
         [] a # b /\ bound > 0 /\ a[1] = "fun" /\ b[1] = "fun" ->
              IF fnCode(h, a) # fnCode(h, b) THEN 1
              ELSE FirstNot0(<<
                     bounded_compare(h, fnVals(h, a), fnVals(h, b), bound - 1),
                     bounded_compare(h, fnEnv(h, a), fnEnv(h, b), bound - 1)>>)
         [] a # b /\ bound > 0 /\ a[1] = "cons" /\ b[1] = "cons" ->
              LET d == bounded_compare(h, car(h, a), car(h, b), bound - 1)
              IN IF d # 0 THEN d
                 ELSE bounded_compare(h, cdr(h, a), cdr(h, b), bound - 1)
         [] OTHER -> 1

eq_class(table, key) == CASE key \notin DOMAIN table -> NIL
                          [] key \in DOMAIN table /\ table[key] = key -> key
                          [] OTHER -> eq_class(table, table[key])

eq_union(table, a, b, c, cb) ==
    LET ca == IF c = NIL THEN a ELSE c
    IN [k \in DOMAIN table \cup {a, b} \cup (IF cb = NIL THEN {} ELSE {cb}) |->
          IF k \in {a, b, cb} THEN ca ELSE table[k]]

\* Are the parts of a and b different at the first sight?
ShallowDiffer(h, x, y) == IF leafp(x) \/ leafp(y) THEN bounded_compare(h, x, y, 1) = 1
                          ELSE x[1] # y[1]

\* Pairs of parts, compared one after the other while the classes grow.
CompareParts(h, parts, table) ==
    FoldLeft(LAMBDA acc, p : IF acc.d # 0 THEN acc
                             ELSE cyc_compare(h, p[1], p[2], acc.t),
             [d |-> 0, t |-> table], parts)

cyc_compare(h, a, b, table) ==
    LET ca == eq_class(table, a)
        cb == eq_class(table, b)
        Recur(parts) ==
            IF ca # NIL /\ ca = cb THEN [d |-> 0, t |-> table]
            ELSE CompareParts(h, parts, eq_union(table, a, b, ca, cb))
        Differ == [d |-> 1, t |-> table]
    IN IF a = b THEN [d |-> 0, t |-> table]
       ELSE IF isCons(a) /\ isCons(b)
       THEN IF \/ ShallowDiffer(h, car(h, a), car(h, b))
               \/ ShallowDiffer(h, cdr(h, a), cdr(h, b)) THEN Differ
            ELSE Recur(<< <<car(h, a), car(h, b)>>, <<cdr(h, a), cdr(h, b)>> >>)
       ELSE IF a[1] = "vec" /\ b[1] = "vec"
       THEN LET n == vectorSize(h, a)
                Pairs == [i \in 1..n |-> <<vectorElt(h, a, i - 1), vectorElt(h, b, i - 1)>>]
            IN IF \/ n # vectorSize(h, b)
                  \/ \E i \in 1..n : ShallowDiffer(h, Pairs[i][1], Pairs[i][2])
               THEN Differ
               ELSE Recur(SelectSeq(Pairs, LAMBDA p : ~leafp(p[1]) \/ p[1][1] = "fun"))
       ELSE IF a[1] = "fun" /\ b[1] = "fun"
       THEN IF fnCode(h, a) # fnCode(h, b) THEN Differ
            ELSE Recur(<< <<fnVals(h, a), fnVals(h, b)>>, <<fnEnv(h, a), fnEnv(h, b)>> >>)
       ELSE [d |-> bounded_compare(h, a, b, 1), t |-> table]

compare(h, a, b) ==
    LET guess == bounded_compare(h, a, b, CompareBound)
    IN IF guess = 2 THEN cyc_compare(h, a, b, [k \in {} |-> NIL]).d ELSE guess

-----------------------------------------------------------------------------
(* The instructions of builtins, on the n values on top of the stack.        *)

predicates == {"not", "null?", "boolean?", "symbol?", "fixnum?", "pair?",
               "atom?", "vector?", "function?", "builtin?"}

Predicate(op, v) == Bool(
    CASE op = "not"      -> v = F
      [] op = "null?"    -> v = NIL
      [] op = "boolean?" -> v \in {T, F}
      [] op = "symbol?"  -> v[1] \in {"sym", "key"}
      [] op = "fixnum?"  -> v[1] = "fix"
      [] op = "pair?"    -> isCons(v)
      [] op = "atom?"    -> ~isCons(v)
      [] op = "vector?"  -> v[1] = "vec"
      [] op = "function?" -> v[1] \in {"fun", "bi", "cb"}
      [] op = "builtin?" -> v[1] \in {"bi", "cb"})

Equality(mm, op) ==
    LET same == IF op = "equal?" THEN compare(mm.heap, At(mm, 2), At(mm, 1)) = 0
                ELSE At(mm, 2) = At(mm, 1)
    IN Ok(mm, Bool(same))

NewConsOfOld(mm) == LET m1 == RoomForCons(mm)                  \* mutant
                    IN Ok(Place(m1, Args(mm, 2)), Here(m1, "cons"))

\* cons makes room first and only then reads the stack.
ConsHere(m1) == Ok(Place(m1, Args(m1, 2)), Here(m1, "cons"))
NewCons(mm) == ConsHere(RoomForCons(mm))

Access(mm, op) ==
    LET h == mm.heap
        v == At(mm, 1)
    IN CASE op = "cadr" ->
              IF ~isCons(v) THEN Err(mm, TypeErr("cdr", "cons", v))
              ELSE IF ~isCons(cdr(h, v)) THEN Err(mm, TypeErr("car", "cons", cdr(h, v)))
              ELSE Ok(mm, car(h, cdr(h, v)))
         [] op # "cadr" /\ ~isCons(v) -> Err(mm, TypeErr(op, "cons", v))
         [] OTHER -> Ok(mm, IF op = "car" THEN car(h, v) ELSE cdr(h, v))

SetPart(mm, op) ==
    LET c == At(mm, 2)
        a == c[2] + IF op = "set-car!" THEN 0 ELSE 1
    IN IF ~isCons(c)
       THEN Err(mm, TypeErr(IF op = "set-car!" THEN "car" ELSE "cdr", "cons", c))
       ELSE Ok([mm EXCEPT !.heap = Put(@, a, At(mm, 1))], c)

ListHere(m1, n) == Ok(Place(m1, ListWords(m1, Args(m1, n))), Here(m1, "cons"))
List(mm, n) == IF n = 0 THEN Ok(mm, NIL) ELSE ListHere(Room(mm, 2 * n), n)

\* The words of a vector of vs, which take an even number of words.
VectorWords(vs) == <<Raw(Len(vs))>> \o vs
                     \o IF Len(vs) % 2 = 0 THEN <<UNBOUND>> ELSE <<>>

VectorHere(m1, n) == Ok(Place(m1, VectorWords(Args(m1, n))), Here(m1, "vec"))
Vector(mm, n) == VectorHere(Room(mm, Even(n + 1)), n)

\* An index out of bounds names the value of a register nobody set here.
Element(mm, op) ==
    LET n == IF op = "aref" THEN 2 ELSE 3
        v == At(mm, n)
        i == At(mm, n - 1)
    IN IF v[1] # "vec" THEN Err(mm, TypeErr(op, "sequence", v))
       ELSE IF i[1] # "fix" THEN Err(mm, TypeErr(op, "number", i))
       ELSE IF i[2] \notin 0..(vectorSize(mm.heap, v) - 1)
       THEN Err(mm, <<Sym("bounds-error"), Sym(op)>> \o
                    IF op = "aref" THEN <<v, i>> ELSE <<UNBOUND, At(mm, 1)>>)
       ELSE IF op = "aref" THEN Ok(mm, vectorElt(mm.heap, v, i[2]))
       ELSE Ok([mm EXCEPT !.heap = Put(@, v[2] + 1 + i[2], At(mm, 1))], At(mm, 1))

\* Numbers: what an instruction gives for the values vs, [err, v].
Number(v)    == [err |-> <<>>, v |-> v]
NoNumber(op, v) == [err |-> TypeErr(op, "number", v), v |-> NIL]
Wrong(vs) == SelectSeq(vs, LAMBDA v : v[1] # "fix")

\* Sums and products: the first operand that is no number is refused.
Fold(op, vs) ==
    LET Sum == FoldLeft(LAMBDA a, v : a + v[2], 0, vs)
        Product == FoldLeft(LAMBDA a, v : a * v[2], 1, vs)
    IN IF Wrong(vs) # <<>> THEN NoNumber(op, Wrong(vs)[1])
       ELSE Number(Fix(IF op = "+" THEN Sum ELSE Product))

\* A difference is the first plus the opposite of the sum of the rest.
Difference(vs) ==
    LET rest == Wrong(Tail(vs))
    IN CASE rest # <<>> -> NoNumber(IF Len(vs) = 2 THEN "-" ELSE "+", rest[1])
         [] rest = <<>> /\ vs[1][1] # "fix" ->
              NoNumber(IF Len(vs) = 1 THEN "-" ELSE "+", vs[1])
         [] OTHER -> Number(Fix(IF Len(vs) = 1 THEN -vs[1][2]
                         ELSE FoldLeft(LAMBDA a, v : a - v[2], vs[1][2], Tail(vs))))

Arithmetic(op, vs) ==
    CASE op \in {"+", "add2"} -> Fold("+", vs)
      [] op = "*" -> Fold("*", vs)
      [] op \in {"-", "neg", "sub2"} -> Difference(vs)
      [] op = "=" -> IF Wrong(vs) # <<>> THEN NoNumber("=", Wrong(vs)[1])
                     ELSE Number(Bool(vs[1] = vs[2]))
      [] op = "<" -> Number(Bool(vs[1][2] < vs[2][2]))

\* Operands of an instruction that does not say how many it has.
Operands == [op \in predicates \cup {"car", "cdr", "cadr", "neg"} |-> 1]
            @@ [op \in {"eq?", "eqv?", "equal?", "cons", "set-car!", "set-cdr!",
                        "aref", "add2", "sub2", "=", "<"} |-> 2]
            @@ [op \in {"aset!"} |-> 3]
Counted == {"list", "vector", "+", "-", "*"}

Builtin(mm, op, n) ==
    CASE op \in predicates -> Ok(mm, Predicate(op, At(mm, 1)))
      [] op \in {"eq?", "eqv?", "equal?"} -> Equality(mm, op)
      [] op = "cons" -> NewCons(mm)
      [] op \in {"car", "cdr", "cadr"} -> Access(mm, op)
      [] op \in {"set-car!", "set-cdr!"} -> SetPart(mm, op)
      [] op = "list" -> List(mm, n)
      [] op = "vector" -> Vector(mm, n)
      [] op \in {"aref", "aset!"} -> Element(mm, op)
      [] OTHER -> LET res == Arithmetic(op, Args(mm, n))
                  IN [err |-> res.err, m |-> mm, v |-> res.v]

\* The arguments a builtin called as a function must have: exactly, or least.
ArgsFit(op, n) == CASE op \in DOMAIN Operands -> n = Operands[op]
                    [] op = "apply" -> n >= 2
                    [] op = "-" -> n >= 1
                    [] OTHER -> TRUE

-----------------------------------------------------------------------------
(* C functions bound as constants that call nothing back.                    *)

\* The copy is built behind three words of the stack: the last cons, what is
\* left of the list and the first cons.
CopyFirst(m1) ==
    LET c  == Here(m1, "cons")
        m2 == Place(m1, <<car(m1.heap, At(m1, 1)), NIL>>)
    IN Push(SetAt(SetAt(m2, 2, c), 1, cdr(m2.heap, At(m2, 1))), c)

CopyNext(m1) ==
    LET rest == At(m1, 2)
        c  == Here(m1, "cons")
        m2 == Place(m1, <<car(m1.heap, rest), NIL>>)
        m3 == [m2 EXCEPT !.heap = Put(@, At(m2, 3)[2] + 1, c)]
    IN SetAt(SetAt(m3, 3, c), 2, cdr(m3.heap, rest))

RECURSIVE CopyRest(_)
CopyRest(mm) == IF isCons(At(mm, 2)) THEN CopyRest(CopyNext(RoomForCons(mm))) ELSE mm

CopyDone(m1) == Ok(PopN(m1, 3), At(m1, 1))
copy_list(mm, l) ==
    IF ~isCons(l) THEN Ok(mm, NIL)
    ELSE CopyDone(CopyRest(CopyFirst(RoomForCons(Push(Push(mm, NIL), l)))))

\* append: the first and the last cons of the result are the two last handles.
\* The list v comes after the last one.
Joined(mm, v) ==
    LET k == Len(mm.hnd)
    IN IF mm.hnd[k - 1] = NIL THEN [mm EXCEPT !.hnd[k - 1] = v]
       ELSE [mm EXCEPT !.heap = Put(@, mm.hnd[k][2] + 1, v)]

\* What was copied last ends where the heap ends.
JoinedCopy(copy) ==
    LET h == copy.m.heap
    IN [Joined(copy.m, copy.v) EXCEPT
          !.hnd = Append(Front(@), <<"cons", Base(h) + Len(h.mem) - 1>>)]

JoinedAll(mm) == Ok([mm EXCEPT !.hnd = Front(Front(@))], mm.hnd[Len(mm.hnd) - 1])

RECURSIVE AppendFrom(_, _, _)
AppendFrom(mm, n, i) ==
    LET lst == At(mm, n + 1 - i)
    IN CASE i = n -> JoinedAll(Joined(mm, lst))
         [] i < n /\ isCons(lst) -> AppendFrom(JoinedCopy(copy_list(mm, lst)), n, i + 1)
         [] i < n /\ lst = NIL -> AppendFrom(mm, n, i + 1)
         [] OTHER -> Err(mm, TypeErr("append", "cons", lst))

fl_append(mm, n) ==
    IF n = 0 THEN Ok(mm, NIL)
    ELSE AppendFrom([mm EXCEPT !.hnd = @ \o <<NIL, NIL>>], n, 1)

\* The last cons of the list words is left out, and its value ends the list.
Dotted(words) == SubSeq(words, 1, Len(words) - 3) \o <<words[Len(words) - 1]>>
                   \o SubSeq(words, Len(words) - 1, Len(words))
DottedHere(m1, n) == Ok(Place(m1, Dotted(ListWords(m1, Args(m1, n)))), Here(m1, "cons"))

fl_liststar(mm, n) ==
    CASE n = 0 -> Err(mm, ArgErr("list*: too few arguments"))
      [] n = 1 -> Ok(mm, At(mm, 1))
      [] OTHER -> DottedHere(Room(mm, 2 * n), n)

fl_copylist(mm, n) == IF n # 1 THEN Err(mm, ArgErr("copy-list: wrong arguments"))
                      ELSE copy_list(mm, At(mm, 1))

CFunction(mm, name, n) == CASE name = "append"    -> fl_append(mm, n)
                            [] name = "list*"     -> fl_liststar(mm, n)
                            [] name = "copy-list" -> fl_copylist(mm, n)
=============================================================================
