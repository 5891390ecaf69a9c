------------------------------ MODULE Reader ------------------------------
(***************************************************************************)
(* The reader of Femtoscheme (src/femtoscheme/read.c): from the characters *)
(* of a stream to a datum in the heap, with shared and circular structure. *)
(*                                                                         *)
(* A character is a string; "nl", "tab", "ctl", "dq", "bs" and "bq" stand  *)
(* for those that cannot be written here (newline, tab, a control          *)
(* character, double quote, backslash, backquote), and a word such as      *)
(* "quote" for a letter.                                                   *)
(* A datum is <<"sym", name>>, <<"num", n>>, <<"chr", c>>, <<"bool", b>>,  *)
(* <<"nil">>, <<"eof">> or <<"ref", i>>, for the node heap[i]: a           *)
(* <<"cons", car, cdr>>, a <<"vec", elements>> or a <<"str", characters>>. *)
(* Left out: typed numbers and reals, gensyms, and what runs code, #. and  *)
(* #name(...) with a bound name.                                           *)
(*                                                                         *)
(* Operators take the state of a read and give the next: what is left of   *)
(* the stream and whether its end was met, the token looked at, the heap,  *)
(* the labels, the last character c, the result v, whether it failed and   *)
(* whether it found the end of the input where a datum should be.          *)
(***************************************************************************)
EXTENDS Integers, Sequences, FiniteSets
LOCAL INSTANCE SequencesExt
LOCAL INSTANCE FiniteSetsExt

CONSTANTS
  TokenSize,            \* sizeof(buf)
  GrowBy                \* vector_grow_amt of a short vector

ASSUME ReaderSizes == TokenSize \in Nat /\ GrowBy \in Nat \ {0}

NIL == <<"nil">>
FL_EOF == <<"eof">>
UNSPECIFIED == <<"unspecified">>
UNBOUND == -1           \* no label
EOF == "EOF"

Digit == {"0", "1", "2", "3", "4", "5", "6", "7", "8", "9"}
White == {" ", "nl", "tab"}
symchar(c) == c \notin White \cup {"(", ")", "[", "]", "'", "dq", ";", "bq", ",", "bs", "|", "nul"}

DigitOf(c) == CHOOSE n \in 0..9 : <<"0", "1", "2", "3", "4", "5", "6", "7", "8", "9">>[n + 1] = c
Positive(ds) == FoldLeft(LAMBDA n, c : n * (IF ds[1] = "0" THEN 8 ELSE 10) + DigitOf(c), 0, ds)
Unsigned(name) == IF name # <<>> /\ name[1] \in {"+", "-"} THEN Tail(name) ELSE name
IsWhole(name) == Unsigned(name) # <<>> /\ \A i \in DOMAIN Unsigned(name) : Unsigned(name)[i] \in Digit
\* isnumtok: also what strtod would take for a real
IsNumber(name) ==
  \/ IsWhole(name)
  \/ LET u == Unsigned(name)
     IN  /\ Cardinality({i \in DOMAIN u : u[i] = "."}) = 1 /\ Len(u) > 1
         /\ \A i \in DOMAIN u : u[i] \in Digit \cup {"."}
NumberOf(name) == <<"num", IF name[1] = "-" THEN -Positive(Unsigned(name)) ELSE Positive(Unsigned(name))>>

-----------------------------------------------------------------------------
(* The stream and the tokens                                                 *)

Fail(r) == [r EXCEPT !.err = TRUE]
Getc(r) == IF r.src = <<>> THEN [r EXCEPT !.eof = TRUE, !.c = EOF] ELSE [r EXCEPT !.src = Tail(@), !.c = r.src[1]]
Ungetc(r, c) == [r EXCEPT !.src = <<c>> \o @, !.eof = FALSE]
take(r) == [r EXCEPT !.tok = "none"]

RECURSIVE SkipLine(_), nextchar(_), SkipBlock(_, _)
SkipLine(r) == IF r.c \in {EOF, "nl"} THEN r ELSE SkipLine(Getc(r))

nextchar(r) ==
  LET g == Getc(r) IN
  CASE g.c \in White -> nextchar(g)
    [] g.c = ";" -> (LET l == SkipLine(g) IN IF l.c = EOF THEN l ELSE nextchar(l))
    [] OTHER -> g

\* from the character r.c on, within so many comments #| ... |#
SkipBlock(r, level) ==
  LET g == Getc(r) IN
  CASE r.c = EOF -> Fail(r)
    [] r.c = "|" /\ g.c = "#" -> IF level = 1 THEN g ELSE SkipBlock(Getc(g), level - 1)
    [] r.c = "#" /\ g.c = "|" -> SkipBlock(Getc(g), level + 1)
    [] OTHER -> SkipBlock(g, level)

\* read_token, from the character r.c on: its name, and whether it can only be
\* a symbol
RECURSIVE TokenOn(_, _, _, _, _)
TokenOn(r, name, escaped, issym, digits) ==
  LET g    == Getc(r)
      done == [r |-> r, name |-> name, sym |-> issym]
  IN  IF r.c = EOF THEN done
      ELSE IF Len(name) >= TokenSize - 1 THEN [done EXCEPT !.r = Fail(@)]
      ELSE
      CASE r.c = "|" -> TokenOn(g, name, ~escaped, TRUE, digits)
        [] r.c = "bs" -> IF g.c = EOF THEN [done EXCEPT !.r = g, !.sym = TRUE]
                         ELSE TokenOn(Getc(g), Append(name, g.c), escaped, TRUE, digits)
        [] r.c \notin {"|", "bs"} /\ ~escaped /\ ~(symchar(r.c) /\ (digits => r.c \in Digit)) ->
             [done EXCEPT !.r = Ungetc(@, r.c)]
        [] OTHER -> TokenOn(g, Append(name, r.c), escaped, issym, digits)
read_token(r, digits) == TokenOn(r, <<>>, FALSE, FALSE, digits)

Token(r, tok, val) == [r EXCEPT !.tok = tok, !.val = val]

CharNamed == [space |-> " ", newline |-> "nl", tab |-> "tab", null |-> "nul"]
\* after #\ : one character, a name, or x and a code
ReadChar(r) ==
  LET g == Getc(r)
      t == read_token(g, FALSE)
      letters == {"a", "b", "x", "quote", "unquote", "lambda"} \cup DOMAIN CharNamed
  IN  CASE g.c = EOF -> Fail(g)
        [] g.c = "x" /\ Len(t.name) > 1 ->
             IF IsWhole(Tail(t.name)) THEN Token(t.r, "num", <<"chr", IF Tail(t.name) = <<"1">> THEN "ctl" ELSE Tail(t.name)>>)
             ELSE Fail(t.r)
        [] g.c \in letters \ {"x"} ->
             IF Len(t.name) = 1 THEN Token(t.r, "num", <<"chr", IF g.c \in DOMAIN CharNamed THEN CharNamed[g.c] ELSE g.c>>)
             ELSE Fail(t.r)
        [] g.c = "x" -> Token(t.r, "num", <<"chr", "x">>)
        [] OTHER -> Token(g, "num", <<"chr", g.c>>)

ReadLabelToken(r) ==
  LET t == read_token(r, TRUE)
      g == Getc(t.r)
      n == FoldLeft(LAMBDA k, c : 10 * k + DigitOf(c), 0, t.name)
  IN  CASE g.c = "#" -> Token(g, "backref", n)
        [] g.c = "=" -> Token(g, "label", n)
        [] OTHER -> Fail(g)

Simple == [c \in {"(", ")", "[", "]", "'", "bq", "dq"} |->
             CASE c = "(" -> "open" [] c = ")" -> "close" [] c = "[" -> "openb" [] c = "]" -> "closeb"
               [] c = "'" -> "quote" [] c = "bq" -> "bq" [] OTHER -> "doublequote"]

RECURSIVE peek(_), do_read_sexpr(_, _)
PeekPast(s) == IF s.err THEN s ELSE peek(s)

\* after a #, from the character g.c on
PeekSharp(g) ==
  CASE g.c \in {EOF, "<"} -> Fail(g)
    [] g.c = "'" -> Token(g, "sharpquote", NIL)
    [] g.c = "bs" -> ReadChar(g)
    [] g.c = "(" -> Token(g, "sharpopen", NIL)
    [] g.c \in Digit -> ReadLabelToken(g)
    [] g.c = "!" -> peek(SkipLine(g))
    [] g.c = "|" -> PeekPast(SkipBlock(Getc(g), 1))
    [] g.c = ";" -> PeekPast(do_read_sexpr(g, UNBOUND))
    [] symchar(g.c) /\ g.c \notin Digit \cup {EOF, "<", "!"} ->
         (LET name == read_token(g, FALSE) IN Token(name.r, "sharpsym", name.name))
    [] OTHER -> Fail(g)

\* the token that starts with the character n.c
TokenAt(n) ==
  LET g == Getc(n)
      t == read_token(n, FALSE)
  IN  CASE n.c = EOF -> n
        [] n.c \in DOMAIN Simple -> Token(n, Simple[n.c], NIL)
        [] n.c = "#" -> PeekSharp(g)
        [] n.c = "," -> CASE g.c = "@" -> Token(g, "commaat", NIL)
                          [] g.c = "." -> Token(g, "commadot", NIL)
                          [] g.c = EOF -> Token(g, "comma", NIL)
                          [] OTHER -> Token(Ungetc(g, g.c), "comma", NIL)
        [] OTHER -> IF t.r.err THEN t.r
                    ELSE IF ~t.sym /\ t.name = <<".">> THEN Token(t.r, "dot", NIL)
                    ELSE IF ~t.sym /\ IsNumber(t.name) THEN Token(t.r, "num", NumberOf(t.name))
                    ELSE Token(t.r, "sym", <<"sym", t.name>>)

peek(r) == IF r.tok # "none" \/ r.err THEN r ELSE TokenAt(nextchar(r))

-----------------------------------------------------------------------------
(* Data                                                                      *)

Alloc(r, node) == [r EXCEPT !.heap = Append(@, node), !.v = <<"ref", Len(r.heap) + 1>>]
Labelled(r, label, v) ==
  IF label = UNBOUND THEN r ELSE [r EXCEPT !.back = [l \in DOMAIN @ \cup {label} |-> IF l = label THEN v ELSE @[l]]]

\* every reference to node i of the heap and of the labels is one to node j
Forwarded(r, i, j) ==
  LET At(v) == IF v = <<"ref", i>> THEN <<"ref", j>> ELSE v
      In(n) == CASE n[1] = "cons" -> <<"cons", At(n[2]), At(n[3])>>
                 [] n[1] = "vec" -> <<"vec", [k \in DOMAIN n[2] |-> At(n[2][k])]>>
                 [] OTHER -> n
  IN  [r EXCEPT !.heap = [k \in DOMAIN @ |-> In(@[k])], !.back = [l \in DOMAIN @ |-> At(@[l])]]

GrowWithoutForwarding(r, i) ==                                          \* mutant
  Alloc(r, <<"vec", r.heap[i][2] \o [k \in 1..GrowBy |-> UNSPECIFIED]>>)

\* the vector that takes the place of node i
vector_grow(r, i) ==
  LET n == Alloc(r, <<"vec", r.heap[i][2] \o [k \in 1..GrowBy |-> UNSPECIFIED]>>)
  IN  IF r.heap[i][2] = <<>> THEN n ELSE Forwarded(n, i, n.v[2])

RECURSIVE VectorOn(_, _, _, _, _), ListOn(_, _, _, _, _), StringOn(_, _)
\* e is the state after element i + 1 of the vector of node p was read
VectorElement(e, p, i, label, closer) ==
  IF e.err THEN e
  ELSE VectorOn([e EXCEPT !.heap[p] = <<"vec", [@[2] EXCEPT ![i + 1] = e.v]>>], p, i + 1, label, closer)

\* the token q follows i elements of the vector of node p
VectorNext(q, p, i, label, closer) ==
  LET full == i >= Len(q.heap[p][2])
      g == IF full THEN vector_grow(q, p) ELSE [q EXCEPT !.v = <<"ref", p>>]
  IN  IF q.err THEN q
      ELSE IF q.tok = closer THEN [take(q) EXCEPT !.v = <<"ref", p>>, !.heap[p] = <<"vec", SubSeq(@[2], 1, i)>>]
      ELSE IF q.eof THEN Fail(q)
      ELSE VectorElement(do_read_sexpr(IF full THEN Labelled(g, label, g.v) ELSE g, UNBOUND),
                         g.v[2], i, label, closer)
VectorOn(r, p, i, label, closer) == VectorNext(peek(r), p, i, label, closer)

read_vector(r, label, closer) ==
  LET n == Alloc(r, <<"vec", <<>>>>) IN VectorOn(Labelled(n, label, n.v), n.v[2], 0, label, closer)

AnyCloser(r, closer) == r.tok \in {"close", "closeb"}                    \* mutant

Closes(r, closer) == r.tok = closer

ListEnd(z, whole, closer) ==
  IF z.err \/ z.eof \/ ~Closes(z, closer) THEN Fail(z) ELSE [take(z) EXCEPT !.v = whole]

\* d is the state after what follows the dot was read
DottedEnd(d, whole, i, closer) ==
  IF d.err THEN d ELSE ListEnd(peek([d EXCEPT !.heap[i][3] = d.v]), whole, closer)

\* the token q follows the element of the cons of node i
ListNext(q, whole, i, label, closer) ==
  IF q.err \/ q.tok # "dot" THEN ListOn(q, whole, i, label, closer)
  ELSE DottedEnd(do_read_sexpr(take(q), UNBOUND), whole, i, closer)

ListElement(e, whole, i, label, closer) ==
  IF e.err THEN e ELSE ListNext(peek([e EXCEPT !.heap[i][2] = e.v]), whole, i, label, closer)

\* the list that starts at head and ends, so far, in the cons of node last
ListOn(r, head, last, label, closer) ==
  LET n == Alloc(r, <<"cons", NIL, NIL>>)
      linked == IF last = 0 THEN Labelled(n, label, n.v) ELSE [n EXCEPT !.heap[last][3] = n.v]
      whole == IF last = 0 THEN n.v ELSE head
  IN  IF r.err THEN r
      ELSE IF Closes(r, closer) THEN [take(r) EXCEPT !.v = head]
      ELSE IF r.eof \/ r.tok \in {"close", "closeb"} THEN Fail(r)
      ELSE ListElement(do_read_sexpr(linked, UNBOUND), whole, n.v[2], label, closer)

read_list(r, label, closer) == ListOn(peek(r), NIL, 0, label, closer)

\* read_string, with the characters read so far
StringOn(r, cs) ==
  LET g == Getc(r)
      e == Getc(g)
      HexEnd(t) == CHOOSE k \in 0..Len(t) : /\ \A i \in 1..k : t[i] \in Digit
                                            /\ k = Len(t) \/ t[k + 1] \notin Digit
      ds == SubSeq(e.src, 1, HexEnd(e.src))
      Coded(t) == IF t = <<"1">> THEN "ctl" ELSE t
      after == [e EXCEPT !.src = SubSeq(@, Len(ds) + 1, Len(@))]
  IN  CASE g.c = EOF -> Fail(g)
        [] g.c = "dq" -> Alloc(g, <<"str", cs>>)
        [] g.c = "bs" ->
             IF e.c = EOF THEN Fail(e)
             ELSE IF e.c = "x" THEN IF ds = <<>> THEN Fail(after)
                               ELSE IF after.src # <<>> /\ after.src[1] = ";" THEN StringOn(Getc(after), Append(cs, Coded(ds)))
                               ELSE StringOn(after, Append(cs, Coded(SubSeq(ds, 1, IF Len(ds) < 2 THEN Len(ds) ELSE 2))) \o SubSeq(ds, 3, Len(ds)))
             ELSE StringOn(e, Append(cs, IF e.c = "n" THEN "nl" ELSE e.c))
        [] OTHER -> StringOn(g, Append(cs, g.c))

Prefix == [quote |-> "quote", bq |-> "quasiquote", comma |-> "unquote", commaat |-> "unquote-splicing",
           commadot |-> "unquote-nsplicing"]

\* the second element of (quote x) and the like, to put into node i
Quoted(of, i, whole) ==
  IF of.err THEN of ELSE [of EXCEPT !.heap[i] = <<"cons", of.v, NIL>>, !.v = whole]
LabelGiven(l, label) == IF l.err THEN l ELSE Labelled(l, label, l.v)
ReadCall(n) == IF n.c # "(" THEN Fail(n) ELSE Fail(read_list(n, UNBOUND, "close"))

\* the datum that starts with the token p, and the label to give to it
Datum(p, label) ==
  LET t == take(p)
      second == Alloc(t, <<"cons", NIL, NIL>>)
      pair == Alloc(second, <<"cons", <<"sym", <<Prefix[p.tok]>>>>, second.v>>)
  IN  IF p.err THEN p
      ELSE
      CASE p.tok = "none" -> [t EXCEPT !.v = FL_EOF, !.found = TRUE]
        [] p.tok \in {"close", "closeb", "dot"} -> Fail(t)
        [] p.tok \in {"sym", "num"} -> [t EXCEPT !.v = p.val]
        [] p.tok \in DOMAIN Prefix ->
             Quoted(do_read_sexpr(Labelled(pair, label, pair.v), UNBOUND), second.v[2], pair.v)
        [] p.tok = "sharpquote" -> do_read_sexpr(t, label)
        [] p.tok \in {"open", "openb"} -> read_list(t, label, IF p.tok = "open" THEN "close" ELSE "closeb")
        [] p.tok = "sharpopen" -> read_vector(t, label, "close")
        [] p.tok = "sharpsym" ->
             IF p.val \in {<<"t">>, <<"f">>} THEN [t EXCEPT !.v = <<"bool", p.val = <<"t">>>>]
             ELSE ReadCall(nextchar(t))
        [] p.tok = "label" -> IF p.val \in DOMAIN t.back THEN Fail(t)
                              ELSE LabelGiven(do_read_sexpr(t, p.val), p.val)
        [] p.tok = "backref" -> IF p.val \in DOMAIN t.back THEN [t EXCEPT !.v = t.back[p.val]] ELSE Fail(t)
        [] p.tok = "doublequote" -> StringOn(t, <<>>)
do_read_sexpr(r, label) == Datum(peek(r), label)

\* fl_read_sexpr, after a token that is still there
fl_read_sexpr(text, tok, val) ==
  do_read_sexpr([src |-> text, eof |-> FALSE, tok |-> tok, val |-> val, heap |-> <<>>, back |-> <<>>,
                 c |-> EOF, v |-> NIL, err |-> FALSE, found |-> FALSE], UNBOUND)
=============================================================================
