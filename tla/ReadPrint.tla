------------------------------ MODULE ReadPrint ------------------------------
(***************************************************************************)
(* Reading and printing: a program reads a text datum by datum, prints     *)
(* what it has read or made, and reads back what was printed.  The token   *)
(* that the reader looks at, the marks and the table of labels are static  *)
(* (read.c:113, print.c:5): they pass from one call to the next.           *)
(***************************************************************************)
EXTENDS Printer
LOCAL INSTANCE SequencesExt
LOCAL INSTANCE FiniteSetsExt

CONSTANTS
  Texts,                \* texts to read: sequences of lexemes
  Made,                 \* data that a program has made
  Options,              \* options of printing
  Extras                \* "stale token": reading on after an error that leaves one

VARIABLES
  src, tok, val,        \* what is left to read; toktype and tokval
  text, last,           \* the lexemes not yet read; what the last read did, and to which lexemes
  data,                 \* what was read or made: its heap and its value
  marks, labels,        \* consflags, printconses
  printed,              \* what has been printed: options and characters
  again                 \* what reading the first of it gave

vars == <<src, tok, val, text, last, data, marks, labels, printed, again>>

None == [v |-> <<"none">>]
Chars(lexemes) == FlattenSeq(lexemes)

Init ==
  /\ tok = "none" /\ val = NIL /\ marks = {} /\ labels = <<>> /\ printed = <<>> /\ again = None /\ last = None
  /\ \/ text \in Texts /\ src = Chars(text) /\ data = None
     \/ text = <<>> /\ src = <<>> /\ data \in Made

Read ==
  /\ text # <<>> /\ printed = <<>> /\ (tok = "none" \/ "stale token" \in Extras)
  /\ LET r == fl_read_sexpr(src, tok, val)
         left == {k \in 0..Len(text) : Len(Chars(SubSeq(text, k + 1, Len(text)))) <= Len(r.src)}
         k == CHOOSE n \in left : \A m \in left : n <= m
     IN  /\ src' = r.src /\ tok' = r.tok /\ val' = r.val
         /\ text' = SubSeq(text, k + 1, Len(text))
         /\ last' = [v |-> IF r.err THEN <<"error">> ELSE IF r.found THEN FL_EOF ELSE r.v, of |-> text, took |-> k]
         /\ data' = IF r.err \/ r.found THEN None ELSE [heap |-> r.heap, v |-> r.v]
  /\ UNCHANGED <<marks, labels, printed, again>>

RECURSIVE Below(_, _)
Below(heap, is) ==
  LET refs(i) == CASE heap[i][1] = "cons" -> {heap[i][2], heap[i][3]}
                   [] heap[i][1] = "vec" -> {heap[i][2][k] : k \in DOMAIN heap[i][2]}
                   [] OTHER -> {}
      next == is \cup {v[2] : v \in {w \in UNION {refs(i) : i \in is} : w[1] = "ref"}}
  IN  IF next = is THEN is ELSE Below(heap, next)
Under(heap, v) == IF v[1] = "ref" THEN Below(heap, {v[2]}) ELSE {}
Inside(heap, i) == UNION {Under(heap, v) : v \in CASE heap[i][1] = "cons" -> {heap[i][2], heap[i][3]}
                                                  [] heap[i][1] = "vec" -> {heap[i][2][k] : k \in DOMAIN heap[i][2]}
                                                  [] OTHER -> {}}
Circular(d) == \E i \in Under(d.heap, d.v) : i \in Inside(d.heap, i)

\* what is circular cannot be displayed: it would not end
Write ==
  /\ data # None /\ Len(printed) < 2 /\ tok = "none"
  /\ \E opt \in Options :
       /\ opt.princ => ~Circular(data)
       /\ LET p == fl_print(data.heap, data.v, opt, marks, labels)
          IN  /\ printed' = Append(printed, [opt |-> opt, out |-> p.out])
              /\ marks' = p.marks /\ labels' = p.labels
  /\ UNCHANGED <<src, tok, val, text, last, data, again>>

ReadBack ==
  /\ printed # <<>> /\ again = None /\ printed[1].opt \in Readable
  /\ LET r == fl_read_sexpr(printed[1].out, "none", NIL)
     IN  again' = IF r.err \/ r.found THEN [v |-> <<"error">>] ELSE [heap |-> r.heap, v |-> r.v]
  /\ UNCHANGED <<src, tok, val, text, last, data, marks, labels, printed>>

Next == Read \/ Write \/ ReadBack

Spec == Init /\ [][Next]_vars

-----------------------------------------------------------------------------
(* Properties                                                                *)

\* pairs of nodes that stand for each other when a does for b, beyond those in m
RECURSIVE Paired(_, _, _, _, _)
Paired(h, g, m, a, b) ==
  IF a[1] # "ref" \/ b[1] # "ref" THEN [m EXCEPT !.ok = @ /\ a = b]
  ELSE IF <<a[2], b[2]>> \in m.pairs \/ ~m.ok THEN m
  ELSE LET x == h[a[2]]
           y == g[b[2]]
           n == [ok |-> x[1] = y[1] /\ (x[1] # "cons" => Len(x[2]) = Len(y[2])),
                 pairs |-> m.pairs \cup {<<a[2], b[2]>>}]
       IN  IF ~n.ok THEN n
           ELSE CASE x[1] = "cons" -> Paired(h, g, Paired(h, g, n, x[2], y[2]), x[3], y[3])
                  [] x[1] = "vec" -> FoldLeft(LAMBDA k, i : Paired(h, g, k, x[2][i], y[2][i]), n, [i \in DOMAIN x[2] |-> i])
                  [] x[1] = "str" -> [n EXCEPT !.ok = x[2] = y[2]]

\* The same datum: the same values, and shared and circular where the other is;
\* that two are the same empty string or vector does not count.
Same(d, e) ==
  LET m == Paired(d.heap, e.heap, [ok |-> TRUE, pairs |-> {}], d.v, e.v)
      real == {p \in m.pairs : Len(d.heap[p[1]]) = 3 \/ d.heap[p[1]][2] # <<>>}
  IN  m.ok /\ \A p, q \in real : p[1] = q[1] <=> p[2] = q[2]

\* What is written readably, pretty-printed or not, is read as the same datum:
\* with the same sharing and cycles, whatever the names of its symbols and the
\* characters of its strings (print_symbol_name, print_circle_prefix,
\* vector_grow under a label).
RoundTrip == again # None => again.v # <<"error">> /\ Same(data, again)

\* A datum is printed as if it were the first: marks and labels that an
\* earlier printing, complete or cut short by *print-length* and
\* *print-level*, has left do not show (fl_print, print_pair).
PrintsAfresh ==
  \A i \in DOMAIN printed :
    printed[i].out = fl_print(data.heap, data.v, printed[i].opt, {}, <<>>).out

Openers == {<<"(">>, <<"[">>}
Quotes == {<<"'">>, <<",", " ">>, <<",", "@">>, <<"bq">>}
DatumComment == <<"#", ";">>
Dot == <<".", " ">>
Closer(l) == IF l = <<"[">> THEN <<"]">> ELSE <<")">>
Punctuation == Openers \cup Quotes \cup {<<")">>, <<"]">>, DatumComment, Dot, <<"#", "(">>}
HasLabels(ls) == \E i \in DOMAIN ls : ls[i][1] = "#" /\ \E j \in DOMAIN ls[i] : ls[i][j] \in Digit

IsComment(l) == l[1] = ";" \/ (Len(l) > 1 /\ l[1] = "#" /\ l[2] \in {"|", "!"})

\* The reference: which lexemes are one datum, and which are data to skip
RECURSIVE IsDatum(_), AreData(_), Skipped(_)
Skipped(ls) ==
  \/ ls = <<>>
  \/ ls[1] = DatumComment /\ \E k \in 2..Len(ls) : IsDatum(SubSeq(ls, 2, k)) /\ Skipped(SubSeq(ls, k + 1, Len(ls)))
IsDatum(ls) ==
  /\ ls # <<>>
  /\ LET n == Len(ls)
         rest == Tail(ls)
         middle == SubSeq(ls, 2, n - 1)
     IN  \/ n = 1 /\ ls[1] \notin Punctuation
         \/ ls[1] \in Quotes /\ IsDatum(rest)
         \/ ls[1] = DatumComment /\ \E k \in 1..(n - 2) : IsDatum(SubSeq(rest, 1, k)) /\ IsDatum(SubSeq(rest, k + 1, n - 1))
         \/ n > 1 /\ ls[1] = <<"#", "(">> /\ ls[n] = <<")">> /\ AreData(middle)
         \/ /\ n > 1 /\ ls[1] \in Openers /\ ls[n] = Closer(ls[1])
            /\ \/ AreData(middle)
               \/ \E k \in 1..(n - 3) :
                    /\ middle[k + 1] = Dot
                    /\ AreData(SubSeq(middle, 1, k)) /\ \E j \in 1..k : IsDatum(SubSeq(middle, 1, j))
                    /\ \E j \in (k + 2)..(n - 2) : IsDatum(SubSeq(middle, k + 2, j)) /\ Skipped(SubSeq(middle, j + 1, n - 2))
AreData(ls) ==
  \/ Skipped(ls)
  \/ \E k \in 1..Len(ls) : IsDatum(SubSeq(ls, 1, k)) /\ AreData(SubSeq(ls, k + 1, Len(ls)))

\* the end of the input, be it after a quote or #; that has nothing to go with
RECURSIVE AtEnd(_)
AtEnd(ls) ==
  \/ ls = <<>>
  \/ ls[1] \in Quotes \cup {DatumComment} /\ AtEnd(Tail(ls))
  \/ ls[1] = DatumComment /\ \E k \in 2..Len(ls) : IsDatum(SubSeq(ls, 2, k)) /\ AtEnd(SubSeq(ls, k + 1, Len(ls)))

\* A read takes exactly one datum and the comments before it, finds the end of
\* the input only where nothing but comments and quotes is left, and fails only where no
\* datum begins: brackets match their kind, a dot stands before the last element
\* (read_list, read_vector, peek).
ReadsDatum ==
  last # None /\ ~HasLabels(last.of) =>
    LET Lexed(k) == SelectSeq(SubSeq(last.of, 1, k), LAMBDA l : ~IsComment(l))
        Begins(k) == IsDatum(Lexed(k))
        all == Lexed(Len(last.of))
    IN  CASE last.v = <<"error">> -> ~AtEnd(all) /\ \A k \in 1..Len(last.of) : ~Begins(k)
          [] last.v = FL_EOF -> AtEnd(all)
          [] OTHER -> Begins(last.took)

\* Between reads no token is left looked at (read.c:738 asserts it).
TokenTaken == tok = "none"
=============================================================================
