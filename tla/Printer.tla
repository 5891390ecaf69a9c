------------------------------ MODULE Printer ------------------------------
(***************************************************************************)
(* The printer of Femtoscheme (src/femtoscheme/print.c): from a datum in   *)
(* the heap to characters, which the reader is to take for the same datum. *)
(*                                                                         *)
(* Data that occur more than once are found first (print_traverse), by     *)
(* marks in the heap and a table of labels that outlive the printing, and  *)
(* get a label where they are printed first.  Operators take the state of  *)
(* a printing - out, column, lines, marks, labels and the options - and    *)
(* give the next.  Closures, typed numbers and reals are left out.         *)
(***************************************************************************)
EXTENDS Reader
LOCAL INSTANCE SequencesExt

CONSTANTS
  ScreenWidth, Margin,  \* SCR_WIDTH, and 12
  SmallString           \* SMALL_STR_LEN

ASSUME PrinterSizes == {ScreenWidth, Margin, SmallString} \subseteq Nat

\* options: pretty (*print-pretty*), princ (not *print-readably*), length and
\* level (-1: no limit)
Readable == [pretty : BOOLEAN, princ : {FALSE}, length : {-1}, level : {-1}]

iscons(h, v) == v[1] = "ref" /\ h[v[2]][1] = "cons"
isvector(h, v) == v[1] = "ref" /\ h[v[2]][1] = "vec"
isstring(h, v) == v[1] = "ref" /\ h[v[2]][1] = "str"
car(h, v) == h[v[2]][2]
cdr(h, v) == h[v[2]][3]
IsSym(v, names) == v[1] = "sym" /\ v[2] \in {<<n>> : n \in names}

outs(p, s) == [p EXCEPT !.out = @ \o s, !.hpos = @ + Len(s)]
outc(p, c) == IF c = "nl" THEN [p EXCEPT !.out = Append(@, c), !.hpos = 0] ELSE outs(p, <<c>>)
\* a new line, and where the next one will begin
outindent(p, n) ==
  LET n0 == IF n > ScreenWidth - Margin THEN 2 ELSE n
  IN  [p EXCEPT !.out = @ \o <<"nl">> \o [i \in 1..(n0 \div 8) |-> "tab"] \o [i \in 1..(n0 % 8) |-> " "],
                !.hpos = n0, !.vpos = @ + 1]

RECURSIVE Decimal(_)
Decimal(n) ==
  IF n < 0 THEN <<"-">> \o Decimal(-n)
  ELSE (IF n > 9 THEN Decimal(n \div 10) ELSE <<>>) \o <<CHOOSE c \in Digit : DigitOf(c) = n % 10>>

Marked(p, v) == v[2] \in p.marks
Unmark(p, v) == [p EXCEPT !.marks = @ \ {v[2]}]
HasLabel(p, v) == v[1] = "ref" /\ v[2] \in DOMAIN p.labels
\* a label for what was met before
Label(p, v) ==
  IF HasLabel(p, v) THEN p
  ELSE [p EXCEPT !.labels = [i \in DOMAIN @ \cup {v[2]} |-> IF i = v[2] THEN p.next ELSE @[i]], !.next = @ + 1]

RECURSIVE print_traverse(_, _, _)
print_traverse(h, p, v) ==
  LET m == [p EXCEPT !.marks = @ \cup {v[2]}]
  IN  CASE v[1] # "ref" -> p
        [] v[1] = "ref" /\ v[2] \in p.marks -> Label(p, v)
        [] iscons(h, v) /\ v[2] \notin p.marks -> print_traverse(h, print_traverse(h, m, car(h, v)), cdr(h, v))
        [] isvector(h, v) /\ v[2] \notin p.marks ->
             IF h[v[2]][2] = <<>> THEN p ELSE FoldLeft(LAMBDA q, e : print_traverse(h, q, e), m, h[v[2]][2])
        [] isstring(h, v) /\ v[2] \notin p.marks -> IF h[v[2]][2] = <<>> THEN p ELSE m

Escaped(name) == FlattenSeq([i \in DOMAIN name |-> IF name[i] \in {"|", "bs"} THEN <<"bs", name[i]>> ELSE <<name[i]>>])
Barred(p, name) ==
  IF \E i \in DOMAIN name : name[i] \in {"|", "bs"} THEN FoldLeft(outc, p, <<"|">> \o Escaped(name) \o <<"|">>)
  ELSE outs(outs(outs(p, <<"|">>), name), <<"|">>)

\* a name that would not be read as the symbol is put between bars
print_symbol_name(p, name) ==
  IF \/ name = <<>> \/ name = <<".">> \/ name[1] = "#" \/ IsNumber(name)
     \/ \E i \in DOMAIN name : ~symchar(name[i])
  THEN Barred(p, name) ELSE outs(p, name)

print_string(p, cs) ==
  LET Plain(c) == CASE c = "dq" -> <<"bs", "dq">> [] c = "bs" -> <<"bs", "bs">> [] c = "nl" -> <<"bs", "n">>
                    [] c = "ctl" -> <<"bs", "x", "1", ";">> [] OTHER -> <<c>>
  IN  outs(p, <<"dq">> \o FlattenSeq([i \in DOMAIN cs |-> Plain(cs[i])]) \o <<"dq">>)

print_char(p, c) ==
  outs(p, <<"#", "bs">> \o
          (CASE c = " " -> <<"space">> [] c = "nl" -> <<"newline">> [] c = "tab" -> <<"tab">> [] c = "nul" -> <<"null">>
             [] c = "ctl" -> <<"x", "1">> [] OTHER -> <<c>>))

-----------------------------------------------------------------------------
(* Where a pretty-printed list is broken                                     *)

tinyp(h, v) ==
  CASE v[1] = "sym" -> Len(v[2]) < SmallString
    [] isstring(h, v) -> Len(h[v[2]][2]) < SmallString
    [] OTHER -> v[1] # "ref"

smallp(h, v) ==
  \/ tinyp(h, v)
  \/ /\ iscons(h, v) /\ tinyp(h, car(h, v))
     /\ \/ tinyp(h, cdr(h, v))
        \/ /\ iscons(h, cdr(h, v)) /\ tinyp(h, car(h, cdr(h, v)))
           /\ cdr(h, cdr(h, v)) = NIL
  \/ isvector(h, v) /\ Len(h[v[2]][2]) <= 2 /\ \A i \in DOMAIN h[v[2]][2] : tinyp(h, h[v[2]][2][i])

\* how many, if all are small; 0 if one is not
RECURSIVE AllSmall(_, _, _)
AllSmall(h, v, n) ==
  IF ~iscons(h, v) \/ n > 25 THEN n
  ELSE IF ~smallp(h, car(h, v)) THEN 0 ELSE AllSmall(h, cdr(h, v), n + 1)
allsmallp(h, v) == AllSmall(h, v, 1)

blockindent(h, v) == allsmallp(h, v) > 9
indentevery(h, v) == IsSym(car(h, v), {"if"}) /\ allsmallp(h, cdr(h, v)) = 0
indentafter3(h, v) == IsSym(car(h, v), {"for"}) /\ allsmallp(h, cdr(h, v)) = 0
indentafter2(h, v) == IsSym(car(h, v), {"define", "define-macro"}) /\ allsmallp(h, cdr(h, v)) = 0
Special == {"lambda", "trycatch", "define", "define-macro", "for"}
lengthestimate(v) == CASE v[1] = "sym" -> Len(v[2]) [] v[1] = "chr" -> 4 [] OTHER -> -1

\* before element n of a list, at the cons cd; lastv is the line before the last
\* element, the car of v
BreaksLine(h, p, l, n, v, cd, lastv) ==
  LET est == lengthestimate(car(h, cd))
      nextsmall == smallp(h, car(h, cd))
      lambda == IsSym(l.head, {"lambda"})
  IN  /\ p.opt.pretty /\ ~(lambda /\ n = 0)
      /\ \/ p.vpos > lastv
         \/ p.hpos > ScreenWidth \div 2 /\ ~nextsmall /\ ~tinyp(h, car(h, v)) /\ n > 0
         \/ p.hpos > ScreenWidth - 4
         \/ est # -1 /\ p.hpos + est > ScreenWidth - 2
         \/ lambda /\ ~nextsmall
         \/ n > 0 /\ l.always
         \/ n = 2 /\ l.after3
         \/ n = 1 /\ l.after2
         \/ l.unindented >= 3 /\ ~nextsmall
         \/ n = 0 /\ ~smallp(h, l.head)

BreaksVector(h, p, this, next) ==
  LET est == lengthestimate(next)
  IN  /\ p.opt.pretty
      /\ \/ p.hpos > ScreenWidth - 4
         \/ est # -1 /\ p.hpos + est > ScreenWidth - 2
         \/ p.hpos > ScreenWidth \div 2 /\ ~smallp(h, next) /\ ~tinyp(h, this)

-----------------------------------------------------------------------------
(* Printing                                                                  *)

Op == [quote |-> <<"'">>, quasiquote |-> <<"bq">>, unquote |-> <<",">>, unquotesplicing |-> <<",", "@">>,
       unquotensplicing |-> <<",", ".">>]
OpOf(v) == CASE IsSym(v, {"unquote-splicing"}) -> Op.unquotesplicing
             [] IsSym(v, {"unquote-nsplicing"}) -> Op.unquotensplicing
             [] IsSym(v, {"quote", "quasiquote", "unquote"}) -> Op[v[2][1]]
             [] OTHER -> <<>>

\* the rest of a list is printed in it, unless it is an atom or has a label
InList(h, p, v) == iscons(h, v) /\ ~HasLabel(p, v)

TooDeep(h, p, v) == p.opt.level >= 0 /\ p.level >= p.opt.level /\ v[1] = "ref" /\ ~isstring(h, v)

MarkedRest(p, v, cd) == Unmark(p, v)                                    \* mutant

UnmarkPrefixed(p, v, cd) == Unmark(Unmark(p, v), cd)

RECURSIVE fl_print_child(_, _, _), PairOn(_, _, _, _, _), VectorFrom(_, _, _, _, _)
fl_print_child(h, p, v) ==
  LET labelled == v[1] = "ref" /\ ~p.opt.princ /\ HasLabel(p, v)
      Number(mark) == <<"#">> \o Decimal(p.labels[v[2]]) \o <<mark>>
      named == IF labelled THEN outs(p, Number("=")) ELSE p
      q == [(IF p.opt.princ THEN named ELSE Unmark(named, v)) EXCEPT !.level = @ + 1]
      up(z) == [z EXCEPT !.level = @ - 1]
      es == h[v[2]][2]
  IN  IF TooDeep(h, p, v) THEN outc(p, "#")
      ELSE
      CASE v[1] = "num" -> outs(p, Decimal(v[2]))
        [] v[1] = "sym" -> IF p.opt.princ THEN outs(p, v[2]) ELSE print_symbol_name(p, v[2])
        [] v[1] = "bool" -> outs(p, <<"#", IF v[2] THEN "t" ELSE "f">>)
        [] v[1] = "nil" -> outs(p, <<"(", ")">>)
        [] v[1] = "chr" -> IF p.opt.princ THEN outs(p, <<v[2]>>) ELSE print_char(p, v[2])
        [] v[1] = "ref" ->
             IF labelled /\ ~Marked(p, v) THEN outs(p, Number("#"))
             ELSE IF isvector(h, v) THEN up(outc(VectorFrom(h, outs(q, <<"#", "(">>), v, 1, q.hpos + 2), ")"))
             ELSE IF isstring(h, v) THEN up(IF p.opt.princ THEN [q EXCEPT !.out = @ \o es] ELSE print_string(q, es))
             ELSE LET cd == cdr(h, v)
                      op == OpOf(car(h, v))
                      blk == blockindent(h, v)
                  IN  IF op # <<>> /\ iscons(h, cd) /\ cdr(h, cd) = NIL /\ ~HasLabel(q, cd)
                      THEN up(fl_print_child(h, outs(UnmarkPrefixed(q, v, cd), op), car(h, cd)))
                      ELSE up(PairOn(h, outc(q, "("), v, 0,
                                     [head |-> car(h, v), start |-> q.hpos, indent |-> q.hpos + 1, blk |-> blk,
                                      always |-> ~blk /\ indentevery(h, v), after3 |-> indentafter3(h, v),
                                      after2 |-> indentafter2(h, v), unindented |-> 1]))

\* the list from its cons v on, which is number n
PairOn(h, p, v, n, l) ==
  LET cd   == cdr(h, v)
      q    == fl_print_child(h, Unmark(p, v), car(h, v))
      tail == IF cd = NIL THEN q ELSE fl_print_child(h, outs(q, <<" ", ".", " ">>), cd)
      broken == outindent(q, l.indent)
      spaced == outc(q, " ")
  IN  IF p.opt.length >= 0 /\ n >= p.opt.length /\ cd # NIL THEN outs(p, <<".", ".", ".", ")">>)
      ELSE IF ~InList(h, q, cd) THEN outc(tail, ")")
      ELSE IF BreaksLine(h, q, l, n, v, cd, p.vpos)
           THEN PairOn(h, broken, cd, n + 1, [l EXCEPT !.indent = broken.hpos, !.unindented = 1])
           ELSE PairOn(h, spaced, cd, n + 1,
                       [l EXCEPT !.unindented = @ + 1,
                                 !.indent = IF n > 0 THEN @
                                            ELSE IF IsSym(l.head, Special) THEN l.start + 2
                                            ELSE IF l.blk THEN @ ELSE spaced.hpos])

VectorFrom(h, p, v, i, indent) ==
  LET es == h[v[2]][2]
      q  == fl_print_child(h, p, es[i])
      broken == outindent(q, indent)
  IN  IF i > Len(es) THEN p
      ELSE IF p.opt.length >= 0 /\ i > p.opt.length /\ i < Len(es) THEN outs(p, <<".", ".", ".">>)
      ELSE IF i = Len(es) THEN q
      ELSE IF BreaksVector(h, q, es[i], es[i + 1]) THEN VectorFrom(h, broken, v, i + 1, broken.hpos)
      ELSE VectorFrom(h, outc(q, " "), v, i + 1, indent)

\* fl_print, with the marks and the labels that earlier printing has left
fl_print(h, v, opt, marks, labels) ==
  LET p == [out |-> <<>>, hpos |-> 0, vpos |-> 0, marks |-> marks, labels |-> labels, next |-> 0,
            level |-> 0, opt |-> opt]
      q == fl_print_child(h, IF opt.princ THEN p ELSE print_traverse(h, p, v), v)
  IN  [q EXCEPT !.marks = IF opt.length >= 0 \/ opt.level >= 0 THEN {} ELSE @,
                !.labels = IF v[1] = "ref" /\ ~isstring(h, v) THEN <<>> ELSE @]
=============================================================================
