--------------------------- MODULE MCInterpreter ---------------------------
(* Interpreter on small programs: each is there for what its comment says.   *)
EXTENDS Interpreter

N(n) == <<"num", n>>
Nil   == <<"const", "NIL">>
True  == <<"const", "T">>
False == <<"const", "F">>
Q(v)  == <<"quote", v>>
V(x)  == <<"var", x>>
Bi(b) == <<"bi", b>>
Key(k) == <<"key", k>>
P(b, es) == <<"prim", b, es>>
Call(f, es) == <<"call", f, es>>
If(a, b, c) == <<"if", a, b, c>>
Set(x, e) == <<"set", x, e>>
Begin(es) == <<"begin", es>>
Try(e, f) == <<"try", e, f>>
Fun(req, opt, key, rest, e) ==
    <<"lambda", [req |-> req, opt |-> opt, key |-> key, rest |-> rest], e>>
Let(x, v, e) == Call(Lambda(<<x>>, e), <<v>>)
Letrec(x, f, e) == Let(x, False, Begin(<<Set(x, f), e>>))
Node(i) == <<"node", i>>

\* A program; one whose frames are counted; one that starts with a graph.
Flat(frames, e) == [e |-> e, graph |-> <<>>, frames |-> frames]
Run(e) == Flat(12, e)
On(graph, e) == [e |-> e, graph |-> graph, frames |-> 12]

CFunctions == {"map", "append", "copy-list", "list*", "raise"}

SmallPrograms == {
    \* a variable is set after a closure captured its frame
    Run(Let("x", N(1), Let("f", Lambda(<<>>, V("x")), Begin(<<Set("x", N(2)),
        P("list", <<Call(V("f"), <<>>), V("x")>>)>>)))),
    \* two closures share a captured variable
    Run(Let("n", N(0), Call(Lambda(<<"up", "get">>, Begin(<<Call(V("up"), <<>>),
        Call(V("up"), <<>>), P("list", <<Call(V("get"), <<>>), V("n")>>)>>)),
        <<Lambda(<<>>, Set("n", P("+", <<V("n"), N(1)>>))), Lambda(<<>>,
        V("n"))>>))),
    \* captured variables of two frames out, with a frame without variables between
    Run(Call(Lambda(<<"a">>, Call(Lambda(<<>>, Call(Lambda(<<"b">>,
        Call(Lambda(<<"c">>, Begin(<<Set("a", P("+", <<V("a"), V("c")>>)), P("list",
        <<Lambda(<<>>, V("a")), V("a"), V("b")>>)>>)), <<N(3)>>)), <<N(2)>>)),
        <<>>)), <<N(1)>>)),
    \* closures made by closures
    Run(Call(Call(Call(Lambda(<<"a">>, Lambda(<<"b">>, Lambda(<<"c">>, P("list",
        <<V("a"), V("b"), V("c")>>)))), <<N(1)>>), <<N(2)>>), <<N(3)>>)),
    \* a loop by tail calls that keeps what it makes, so that the heap grows twice
    Flat(3, Letrec("loop", Lambda(<<"n", "l">>, If(P("=", <<V("n"), N(0)>>), V("l"),
        Begin(<<P("list", <<V("n"), V("n")>>), Call(V("loop"), <<P("-", <<V("n"),
        N(1)>>), P("cons", <<P("vector", <<V("n"), V("n"), V("n"), V("n"), V("n"),
        V("n"), V("n"), V("n")>>), V("l")>>)>>)>>))), Call(V("loop"), <<N(5),
        Nil>>))),
    \* a loop by tail calls of two functions, out of a captured frame
    Flat(3, Letrec("even", Lambda(<<"n", "odd">>, Let("k", P("-", <<V("n"), N(1)>>),
        If(P("=", <<V("n"), N(0)>>), True, Call(V("odd"), <<V("k"), Lambda(<<"j",
        "o">>, Call(V("even"), <<V("j"), V("o")>>))>>)))), Call(V("even"), <<N(2),
        Lambda(<<"n", "e">>, If(P("=", <<V("n"), N(0)>>), False, Call(V("e"),
        <<P("-", <<V("n"), N(1)>>), V("e")>>)))>>))),
    \* recursion that is no tail call
    Run(Letrec("sum", Lambda(<<"n">>, If(P("=", <<V("n"), N(0)>>), N(0), P("+",
        <<V("n"), Call(V("sum"), <<P("-", <<V("n"), N(1)>>)>>)>>))), Call(V("sum"),
        <<N(3)>>))),
    \* rest arguments: none, one, more
    Run(Let("f", Fun(<<"a">>, <<>>, <<>>, "r", P("list", <<V("a"), V("r")>>)),
        P("list", <<Call(V("f"), <<N(1)>>), Call(V("f"), <<N(1), N(2)>>),
        Call(V("f"), <<N(1), N(2), N(3), N(4)>>)>>))),
    \* rest arguments captured
    Run(Call(Call(Fun(<<"a">>, <<>>, <<>>, "r", Lambda(<<>>, P("cons", <<V("a"),
        V("r")>>))), <<N(1), N(2), N(3)>>), <<>>)),
    \* optional arguments, given and not
    Run(Let("f", Fun(<<"a">>, <<<<"b", P("+", <<V("a"), N(1)>>)>>, <<"c", P("list",
        <<V("a"), V("b")>>)>>>>, <<>>, "", P("list", <<V("a"), V("b"), V("c")>>)),
        P("list", <<Call(V("f"), <<N(1)>>), Call(V("f"), <<N(1), N(5)>>),
        Call(V("f"), <<N(1), N(5), N(6)>>)>>))),
    \* a default captures the frame before the rest is bound
    Run(Call(Fun(<<"a">>, <<<<"b", Lambda(<<>>, V("a"))>>, <<"c", N(7)>>>>, <<>>,
        "", Begin(<<Set("a", N(5)), P("list", <<Call(V("b"), <<>>), V("c")>>)>>)),
        <<N(1)>>)),
    \* keyword arguments
    Run(Let("f", Fun(<<"a">>, <<<<"o", N(4)>>>>, <<<<"k", P("+", <<V("a"),
        N(1)>>)>>, <<"j", N(9)>>>>, "", P("list", <<V("a"), V("o"), V("k"),
        V("j")>>)), P("list", <<Call(V("f"), <<N(1), Q(Key("k")), N(6)>>),
        Call(V("f"), <<N(1), N(2), Q(Key("j")), N(3), Q(Key("k")), N(8)>>)>>))),
    \* optional and keyword arguments and a rest, as tests/unittest.scm calls them
    Run(Let("f", Fun(<<"x">>, <<<<"a", N(2)>>>>, <<<<"b", V("a")>>>>, "r", P("list",
        <<V("x"), V("a"), V("b"), V("r")>>)), P("list", <<Call(V("f"), <<N(1), N(0),
        N(8), N(4), N(5)>>), Call(V("f"), <<N(0), Q(Key("b")), N(3), N(1)>>)>>))),
    \* a keyword no parameter has
    Run(Let("f", Fun(<<"a">>, <<>>, <<<<"k", N(2)>>>>, "", P("list", <<V("a"),
        V("k")>>)), Try(Call(V("f"), <<N(1), Q(Key("j")), N(6)>>), Lambda(<<"e">>,
        V("e"))))),
    \* a keyword without its value
    Run(Let("f", Fun(<<"a">>, <<>>, <<<<"k", N(2)>>>>, "", P("list", <<V("a"),
        V("k")>>)), Try(Call(V("f"), <<N(1), Q(Key("k"))>>), Lambda(<<"e">>,
        V("e"))))),
    \* too few and too many where there are keywords
    Run(Let("f", Fun(<<"a">>, <<>>, <<<<"k", N(2)>>>>, "", V("a")), P("cons",
        <<Try(Call(V("f"), <<>>), Lambda(<<"e">>, V("e"))), Try(Call(V("f"), <<N(1),
        N(2)>>), Lambda(<<"e">>, V("e")))>>))),
    \* too few and too many for an optional argument
    Run(Let("f", Fun(<<"a">>, <<<<"b", N(1)>>>>, <<>>, "", V("a")), P("list",
        <<Try(Call(V("f"), <<>>), Lambda(<<"e">>, V("e"))), Try(Call(V("f"), <<N(1),
        N(2), N(3)>>), Lambda(<<"e">>, V("e")))>>))),
    \* too few for a rest argument
    Run(Let("g", Fun(<<"a">>, <<>>, <<>>, "r", V("a")), P("list", <<Try(Call(V("g"),
        <<>>), Lambda(<<"e">>, V("e"))), Call(V("g"), <<N(1)>>)>>))),
    \* too few and too many required arguments
    Run(Let("h", Lambda(<<"a">>, V("a")), P("list", <<Try(Call(V("h"), <<>>),
        Lambda(<<"e">>, V("e"))), Try(Call(V("h"), <<N(1), N(2)>>), Lambda(<<"e">>,
        V("e")))>>))),
    \* apply of lambdas and of apply itself
    Run(P("list", <<P("apply", <<Q(Bi("+")), N(1), P("list", <<N(2), N(3)>>)>>),
        P("apply", <<Q(Bi("apply")), P("list", <<Q(Bi("list")), N(4), P("list",
        <<N(5)>>)>>)>>), P("apply", <<Fun(<<"a">>, <<>>, <<>>, "r", V("r")),
        P("list", <<N(1), N(2), N(3)>>)>>)>>)),
    \* a tail apply loops in place
    Flat(3, Letrec("f", Fun(<<"n">>, <<>>, <<>>, "l", If(P("=", <<V("n"), N(0)>>),
        V("l"), P("apply", <<V("f"), P("-", <<V("n"), N(1)>>), V("n"), V("l")>>))),
        Call(V("f"), <<N(3)>>))),
    \* a C function applied in a tail
    Run(Let("x", <<"list", <<Fix(1), Fix(2)>>>>, P("apply", <<V("map"),
        Lambda(<<"a", "b">>, P("+", <<V("a"), V("b")>>)), P("list", <<V("x"),
        V("x")>>)>>))),
    \* for adds to a captured variable
    Run(Let("s", N(0), P("list", <<<<"for", N(1), N(3), Lambda(<<"i">>, Set("s",
        P("+", <<V("s"), V("i")>>)))>>, V("s"), <<"for", N(3), N(1), Lambda(<<"i">>,
        V("i"))>>>>))),
    \* for refuses what is no number
    Run(P("list", <<Try(<<"for", Q(Sym("a")), N(1), Lambda(<<"i">>, V("i"))>>,
        Lambda(<<"e">>, V("e"))), Try(<<"for", N(1), Q(Sym("a")), Lambda(<<"i">>,
        V("i"))>>, Lambda(<<"e">>, V("e")))>>)),
    \* a handler raises again
    Run(Try(Try(Call(V("raise"), <<N(1)>>), Lambda(<<"e">>, Call(V("raise"),
        <<P("cons", <<V("e"), N(2)>>)>>))), Lambda(<<"e">>, P("list", <<N(3),
        V("e")>>)))),
    \* a handler uses a captured frame
    Run(Let("x", N(1), Let("f", Lambda(<<>>, V("x")), Try(Begin(<<Set("x", N(2)),
        P("car", <<V("x")>>)>>), Lambda(<<"e">>, P("list", <<Call(V("f"), <<>>),
        V("x"), V("e")>>)))))),
    \* a handler returns into the middle of a list
    Run(P("list", <<N(1), Try(P("list", <<N(2), Call(V("raise"), <<N(3)>>)>>),
        Lambda(<<"e">>, P("list", <<V("e")>>))), Try(P("list", <<N(4)>>),
        Lambda(<<"e">>, V("e")))>>)),
    \* an error in map's function, twice, below a map
    Run(Call(V("map"), <<Lambda(<<"x">>, Try(Call(V("map"), <<Lambda(<<"y">>,
        If(P("=", <<V("y"), N(2)>>), Call(V("raise"), <<P("list", <<V("x"),
        V("y")>>)>>), V("y"))), P("list", <<N(1), V("x")>>)>>), Lambda(<<"e">>,
        V("e")))), P("list", <<N(2), N(2)>>)>>)),
    \* an error in a map under for
    Run(Let("l", Nil, Begin(<<<<"for", N(1), N(2), Lambda(<<"i">>,
        Try(Call(V("map"), <<Lambda(<<"x">>, P("car", <<V("i")>>)), <<"list",
        <<Fix(7)>>>>>>), Lambda(<<"e">>, Set("l", P("cons", <<V("e"),
        V("l")>>)))))>>, V("l")>>))),
    \* an exception nobody catches
    Run(P("list", <<N(1), Call(V("map"), <<Lambda(<<"x">>, P("car", <<V("x")>>)),
        P("list", <<P("list", <<N(1)>>), N(2)>>)>>)>>)),
    \* a trycatch in a tail returns
    Run(P("list", <<Call(Lambda(<<"x">>, Try(<<"return", P("+", <<V("x"), N(1)>>)>>,
        Lambda(<<"e">>, V("e")))), <<N(1)>>), N(2)>>)),
    \* append and copy-list share only the last list
    Run(Let("k", P("list", <<N(3)>>), Let("a", Call(V("append"), <<<<"list",
        <<Fix(1), Fix(2)>>>>, Nil, V("k")>>), Let("c", Call(V("copy-list"),
        <<V("a")>>), Begin(<<P("set-car!", <<V("k"), N(9)>>), P("list", <<V("a"),
        V("c")>>)>>))))),
    \* append of nothing, and to what is no list
    Run(P("list", <<Call(V("append"), <<>>), Call(V("append"), <<<<"list", <<Fix(1),
        Fix(2)>>>>, N(4)>>)>>)),
    \* list*
    Run(P("list", <<Call(V("list*"), <<N(1)>>), Call(V("list*"), <<N(1), N(2),
        <<"list", <<Fix(3)>>>>>>)>>)),
    \* what append and list* refuse
    Run(P("list", <<Try(Call(V("append"), <<N(1), Nil>>), Lambda(<<"e">>, V("e"))),
        Try(Call(V("list*"), <<>>), Lambda(<<"e">>, V("e")))>>)),
    \* map over two lists, and over none
    Run(P("list", <<Call(V("map"), <<Lambda(<<"a", "b">>, P("cons", <<V("a"),
        V("b")>>)), <<"list", <<Fix(1), Fix(2)>>>>, <<"list", <<Fix(3), Fix(4),
        Fix(5)>>>>>>), Call(V("map"), <<Q(Bi("list")), Nil>>)>>)),
    \* map refuses a shorter second list
    Run(Try(Call(V("map"), <<Lambda(<<"a", "b">>, V("b")), <<"list", <<Fix(1),
        Fix(2)>>>>, <<"list", <<Fix(3)>>>>>>), Lambda(<<"e">>, V("e")))),
    \* map makes closures
    Run(Call(V("map"), <<Lambda(<<"f">>, Call(V("f"), <<>>)), Call(V("map"),
        <<Lambda(<<"x">>, Lambda(<<>>, P("cons", <<V("x"), V("x")>>))), <<"list",
        <<Fix(1), Fix(2), Fix(3)>>>>>>)>>)),
    \* while and prog1
    Run(Call(Lambda(<<"n", "l">>, P("list", <<<<"prog1", V("n"), <<Set("n", P("-",
        <<V("n"), N(1)>>))>>>>, <<"while", P("<", <<N(0), V("n")>>),
        Begin(<<Set("l", P("cons", <<V("n"), V("l")>>)), Set("n", P("-", <<V("n"),
        N(1)>>))>>)>>, V("l"), <<"while", False, N(1)>>>>)), <<N(3), Nil>>)),
    \* and, or and return
    Run(Call(Lambda(<<"x">>, If(<<"and", <<V("x"), <<"or", <<False, P("null?",
        <<V("x")>>), P("pair?", <<V("x")>>)>>>>>>>>, Begin(<<If(P("eq?", <<P("car",
        <<V("x")>>), N(1)>>), <<"return", <<"or", <<False, P("cdr",
        <<V("x")>>)>>>>>>, N(0)), N(5)>>), N(6))), <<P("list", <<N(1), N(2)>>)>>)),
    \* branches fused with tests
    Run(Call(Lambda(<<"x", "y">>, P("list", <<If(P("not", <<P("null?",
        <<V("x")>>)>>), N(1), N(2)), If(P("null?", <<V("y")>>), N(1), N(2)),
        If(P("not", <<P("eq?", <<V("x"), V("y")>>)>>), N(1), N(2)), If(P("eq?",
        <<V("x"), V("x")>>), N(1), N(2)), If(P("not", <<V("x")>>), N(1), N(2)),
        <<"or", <<P("null?", <<V("x")>>), P("car", <<P("cdr",
        <<V("x")>>)>>)>>>>>>)), <<P("list", <<N(1), N(2)>>), Nil>>)),
    \* a closure in a vector uses the vector
    Run(Let("v", P("vector", <<N(1), N(2), N(3)>>), Begin(<<P("aset!", <<V("v"),
        N(1), Lambda(<<"x">>, P("cons", <<V("x"), P("aref", <<V("v"),
        N(0)>>)>>))>>), Call(P("aref", <<V("v"), N(1)>>), <<N(4)>>)>>))),
    \* aref refuses an index too large, and one that is no number
    Run(Let("v", P("vector", <<N(1), N(2)>>), P("list", <<Try(P("aref", <<V("v"),
        N(2)>>), Lambda(<<"e">>, P("car", <<P("cdr", <<V("e")>>)>>))), Try(P("aref",
        <<V("v"), Q(Sym("a"))>>), Lambda(<<"e">>, V("e")))>>))),
    \* aref refuses what is no vector
    Run(Try(P("aref", <<N(1), N(0)>>), Lambda(<<"e">>, V("e")))),
    \* what is called must be a function
    Run(P("list", <<Try(Call(N(1), <<N(2)>>), Lambda(<<"e">>, V("e"))),
        Try(Call(V("map"), <<N(1), <<"list", <<Fix(2)>>>>>>), Lambda(<<"e">>,
        V("e")))>>)),
    \* car applied to two
    Run(Try(P("apply", <<Q(Bi("car")), <<"list", <<Fix(1), Fix(2)>>>>>>),
        Lambda(<<"e">>, P("car", <<V("e")>>)))),
    \* global variables
    Run(Begin(<<Set("g", Lambda(<<"x">>, P("cons", <<V("x"), V("h")>>))), P("list",
        <<Try(Call(V("g"), <<N(1)>>), Lambda(<<"e">>, V("e"))), Begin(<<Set("h",
        N(2)), Call(V("g"), <<N(1)>>)>>)>>)>>)),
    \* predicates
    Run(P("list", <<P("not", <<Nil>>), P("boolean?", <<False>>), P("symbol?",
        <<Q(Sym("a"))>>), P("fixnum?", <<N(1)>>), P("atom?", <<Nil>>)>>)),
    \* predicates of what is no list
    Run(P("list", <<P("vector?", <<N(1)>>), P("function?", <<Lambda(<<>>, N(1))>>),
        P("builtin?", <<Q(Bi("car"))>>)>>)),
    \* numbers
    Run(P("list", <<P("*", <<N(2), N(3), N(4)>>), P("-", <<N(7), N(1), N(2)>>),
        P("-", <<N(3)>>), P("+", <<N(1), N(2), N(3)>>)>>)),
    \* arithmetic refuses symbols
    Run(P("list", <<Try(P("+", <<N(1), Q(Sym("a"))>>), Lambda(<<"e">>, V("e"))),
        Try(P("=", <<N(1), Q(Sym("a"))>>), Lambda(<<"e">>, V("e")))>>)),
    \* conses changed while they are shared
    Run(Let("x", P("list", <<N(1), N(2)>>), Let("y", P("cons", <<V("x"), V("x")>>),
        Begin(<<P("set-cdr!", <<P("cdr", <<V("y")>>), P("list", <<V("x")>>)>>),
        P("set-car!", <<V("x"), N(8)>>), P("cons", <<P("car", <<P("car",
        <<V("y")>>)>>), P("eq?", <<P("car", <<P("cdr", <<V("x")>>)>>),
        V("x")>>)>>)>>)))),
    \* set-car! refuses a number
    Run(Try(P("set-car!", <<N(1), N(2)>>), Lambda(<<"e">>, V("e")))),
    \* deep recursion makes the stack grow
    Run(Letrec("f", Lambda(<<"n">>, If(P("=", <<V("n"), N(0)>>), Nil, P("cons",
        <<V("n"), Call(V("map"), <<Lambda(<<"x">>, V("x")), Call(V("f"), <<P("-",
        <<V("n"), N(1)>>)>>)>>)>>))), Call(V("f"), <<N(3)>>))),
    \* a builtin as map's function
    Run(Begin(<<Set("*builtins*", P("vector", <<Lambda(<<"x">>, P("car",
        <<V("x")>>)), Lambda(<<"x", "y">>, P("cons", <<V("x"), V("y")>>))>>)),
        Call(V("map"), <<Q(Bi("car")), Call(V("map"), <<Q(Bi("cons")), <<"list",
        <<Fix(1), Fix(2)>>>>, <<"list", <<Fix(3), Fix(4)>>>>>>)>>)>>)),
    \* equal lists that share differently
    On(<< <<Fix(1), Node(3)>>, <<Fix(1), Node(3)>>, <<Fix(2), NIL>> >>, P("list",
        <<P("equal?", <<V("g1"), V("g2")>>), P("eq?", <<V("g1"), V("g2")>>),
        P("equal?", <<P("list", <<N(1), N(2)>>), V("g1")>>)>>)),
    \* a vector that holds a list is equal to one that holds its like
    On(<< <<Fix(1), Node(3)>>, <<Fix(1), Node(3)>>, <<Fix(2), NIL>> >>, P("list",
        <<P("equal?", <<P("vector", <<V("g1")>>), P("vector", <<V("g2")>>)>>),
        P("equal?", <<P("vector", <<V("g1"), N(1)>>), P("vector", <<V("g2"),
        N(2)>>)>>), P("equal?", <<N(1), V("g1")>>)>>)),
    \* rings of one and of two conses
    On(<< <<Fix(1), Node(1)>>, <<Fix(1), Node(3)>>, <<Fix(1), Node(2)>> >>,
        P("equal?", <<V("g1"), V("g2")>>)),
    \* rings that differ in the last cons
    On(<< <<Fix(1), Node(3)>>, <<Fix(1), Node(4)>>, <<Fix(2), Node(1)>>, <<Fix(3),
        Node(2)>> >>, P("equal?", <<V("g1"), V("g2")>>)),
    \* trees with loops through the first part
    On(<< <<Node(1), Node(3)>>, <<Node(2), Node(4)>>, <<Node(1), NIL>>, <<Node(4),
        NIL>> >>, P("equal?", <<V("g1"), V("g2")>>)),
    \* a ring in a ring survives a collection
    On(<< <<Node(2), Node(1)>>, <<Fix(1), Node(1)>> >>, Begin(<<P("list", <<N(1),
        N(2), N(3), N(4)>>), P("list", <<P("eq?", <<P("car", <<V("g1")>>),
        V("g2")>>), P("eq?", <<P("cdr", <<V("g1")>>), V("g1")>>), P("car",
        <<V("g2")>>)>>)>>))}

\* An optional argument whose default makes a closure over a variable of the
\* function around; and the same where a required argument comes first, which
\* gives what it should.
DefaultPrograms == {
    Run(Call(Call(Lambda(<<"x">>, Fun(<<>>, <<<<"f", Lambda(<<>>, V("x"))>>>>, <<>>,
    "", Call(V("f"), <<>>))), <<N(42)>>), <<>>)),
    Run(Call(Call(Lambda(<<"x">>, Fun(<<"a">>, <<<<"f", Lambda(<<>>, V("x"))>>>>,
    <<>>, "", Call(V("f"), <<>>))), <<N(42)>>), <<N(1)>>))}
=============================================================================
