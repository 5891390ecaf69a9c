---------------------------- MODULE Cursors_proofs ----------------------------
(***************************************************************************)
(* Proofs about Cursors: with any buffers, any texts and any number of     *)
(* windows, every cursor stays in its text, with its text, and with its    *)
(* window, as long as none of the steps named in ExtraSteps is taken: each *)
(* of those breaks the invariant.                                          *)
(***************************************************************************)
EXTENDS Cursors, SequenceTheorems, FiniteSetTheorems, TLAPS

-----------------------------------------------------------------------------
(* Sequences of windows                                                     *)

(* A sequence, of whatever elements.                                        *)
IsSeq(w) == Len(w) \in Nat /\ w = [i \in 1..Len(w) |-> w[i]]

(* A sequence is one over the set of its elements.                          *)
LEMMA SeqOfItsElements ==
  ASSUME NEW w, IsSeq(w)
  PROVE  DOMAIN w = 1..Len(w) /\ \E S : w \in Seq(S)
<1>1. DOMAIN w = 1..Len(w)  BY DEF IsSeq
<1>2. w \in [1..Len(w) -> {w[i] : i \in 1..Len(w)}]  BY DEF IsSeq
<1>3. w \in Seq({w[i] : i \in 1..Len(w)})  BY <1>2 DEF IsSeq
<1> QED  BY <1>1, <1>3

(* A function on the first n numbers is a sequence of length n.             *)
LEMMA FunctionIsSeq ==
  ASSUME NEW n \in Nat, NEW w, w = [i \in 1..n |-> w[i]]
  PROVE  IsSeq(w) /\ Len(w) = n
<1>1. w \in [1..n -> {w[i] : i \in 1..n}]  OBVIOUS
<1>2. w \in Seq({w[i] : i \in 1..n})  BY <1>1
<1>3. Len(w) = n  BY <1>1, <1>2
<1> QED  BY <1>3 DEF IsSeq

(* One element more.                                                        *)
LEMMA Inserted ==
  ASSUME NEW w, IsSeq(w), NEW c \in 1..(Len(w) + 1), NEW e
  PROVE  LET u == InsertAt(w, c, e)
         IN  /\ IsSeq(u) /\ Len(u) = Len(w) + 1
             /\ \A i \in 1..(Len(w) + 1) : u[i] = IF i < c THEN w[i] ELSE IF i = c THEN e ELSE w[i - 1]
<1>1. Len(w) \in Nat  BY DEF IsSeq
<1>2. PICK S : w \in Seq(S)  BY SeqOfItsElements
<1> DEFINE n == Len(w)  T == S \cup {e}  a == SubSeq(w, 1, c - 1)  z == SubSeq(w, c, n)  u == (a \o <<e>>) \o z
<1>3. w \in Seq(T)  BY <1>1, <1>2
<1>4. a \in Seq(T) /\ Len(a) = c - 1 /\ \A i \in 1..(c - 1) : a[i] = w[i]  BY <1>1, <1>3
<1>5. z \in Seq(T) /\ Len(z) = n - c + 1 /\ \A i \in 1..(n - c + 1) : z[i] = w[c + i - 1]  BY <1>1, <1>3
<1>6. <<e>> \in Seq(T) /\ Len(<<e>>) = 1 /\ <<e>>[1] = e  OBVIOUS
<1>7. InsertAt(w, c, e) = u  BY DEF InsertAt
<1> HIDE DEF a, z
<1> DEFINE d == a \o <<e>>
<1>8. d \in Seq(T) /\ Len(d) = c /\ (\A i \in 1..(c - 1) : d[i] = w[i]) /\ d[c] = e
  BY <1>1, <1>4, <1>6
<1> HIDE DEF d
<1>9. u \in Seq(T) /\ Len(u) = n + 1 /\ (\A i \in 1..c : u[i] = d[i]) /\ \A i \in (c + 1)..(n + 1) : u[i] = z[i - c]
  BY SMTT(40), <1>1, <1>5, <1>8 DEF d
<1> HIDE DEF u
<1>10. ASSUME NEW i \in 1..(n + 1) PROVE u[i] = IF i < c THEN w[i] ELSE IF i = c THEN e ELSE w[i - 1]
  <2>1. CASE i <= c  BY <1>1, <1>8, <1>9, <2>1
  <2>2. CASE i > c
    <3>1. i - c \in 1..(n - c + 1) /\ c + (i - c) - 1 = i - 1  BY <1>1, <2>2
    <3> QED  BY <1>1, <1>5, <1>9, <2>2, <3>1
  <2> QED  BY <2>1, <2>2
<1>11. IsSeq(u)  BY <1>9 DEF IsSeq
<1> QED  BY <1>7, <1>9, <1>10, <1>11

(* One element less.                                                        *)
LEMMA Removed ==
  ASSUME NEW w, IsSeq(w), NEW c \in 1..Len(w)
  PROVE  LET u == RemoveAt(w, c)
         IN  /\ IsSeq(u) /\ Len(u) = Len(w) - 1
             /\ \A i \in 1..(Len(w) - 1) : u[i] = IF i < c THEN w[i] ELSE w[i + 1]
<1>1. Len(w) \in Nat  BY DEF IsSeq
<1>2. PICK S : w \in Seq(S)  BY SeqOfItsElements
<1> DEFINE n == Len(w)  a == SubSeq(w, 1, c - 1)  z == SubSeq(w, c + 1, n)  u == a \o z
<1>4. a \in Seq(S) /\ Len(a) = c - 1 /\ \A i \in 1..(c - 1) : a[i] = w[i]  BY <1>1, <1>2
<1>5. z \in Seq(S) /\ Len(z) = n - c /\ \A i \in 1..(n - c) : z[i] = w[c + i]  BY <1>1, <1>2
<1>7. RemoveAt(w, c) = u  BY DEF RemoveAt
<1> HIDE DEF a, z
<1>9. /\ u \in Seq(S) /\ Len(u) = n - 1 /\ (\A i \in 1..(c - 1) : u[i] = a[i])
      /\ \A i \in c..(n - 1) : u[i] = z[i - (c - 1)]
  <2>1. Len(u) = n - 1 /\ u \in Seq(S)
    <3>1. u \in Seq(S) /\ Len(u) = Len(a) + Len(z)  BY <1>4, <1>5, ConcatProperties
    <3>2. (c - 1) + (n - c) = n - 1  BY <1>1
    <3> QED  BY <1>4, <1>5, <3>1, <3>2
  <2>2. ASSUME NEW i \in 1..(n - 1) PROVE u[i] = IF i <= c - 1 THEN a[i] ELSE z[i - (c - 1)]
    BY <1>1, <1>4, <1>5, ConcatProperties
  <2>3. \A i \in 1..(c - 1) : i \in 1..(n - 1) /\ i <= c - 1  BY <1>1
  <2>4. \A i \in c..(n - 1) : i \in 1..(n - 1) /\ ~(i <= c - 1)  BY <1>1
  <2> HIDE DEF u
  <2> QED  BY <2>1, <2>2, <2>3, <2>4
<1> HIDE DEF u
<1>10. ASSUME NEW i \in 1..(n - 1) PROVE u[i] = IF i < c THEN w[i] ELSE w[i + 1]
  <2>1. CASE i < c  BY <1>1, <1>4, <1>9, <2>1
  <2>2. CASE ~(i < c)
    <3>1. i - (c - 1) \in 1..(n - c) /\ c + (i - (c - 1)) = i + 1  BY <1>1, <2>2
    <3> QED  BY <1>1, <1>5, <1>9, <2>2, <3>1
  <2> QED  BY <2>1, <2>2
<1>11. IsSeq(u)  BY <1>9 DEF IsSeq
<1> QED  BY <1>7, <1>9, <1>10, <1>11

-----------------------------------------------------------------------------
(* Cursors                                                                  *)

(* Buffers and windows, with cursors that may be anywhere.                  *)
Panes == [buf : Buffers, point : Int]
Views ==
  [text : [Buffers -> 0..MaxText], size : [Buffers -> 0..MaxText], psize : [Buffers -> 0..MaxText],
   point : [Buffers -> Int], cpoint : [Buffers -> 0..MaxText], lost : [Buffers -> Nat], win : Seq(Panes), cur : Nat]

Shaped(s) == s \in Views /\ s.cur \in 1..Len(s.win)

(* The sizes are numbers, and none of the extra steps is taken.             *)
Limits == MaxText \in Nat /\ Extras = {}

(* Every cursor is in its text.                                             *)
InText(s) ==
  /\ \A b \in Buffers : s.point[b] \in 0..s.text[b]
  /\ \A i \in 1..Len(s.win) : s.win[i].point \in 0..s.text[s.win[i].buf]

(* The size that a buffer was last painted with is its size, and that is    *)
(* the length of its text as far as it is shown: but for a first window.    *)
Painted(s) ==
  /\ \A b \in Buffers : s.psize[b] = s.size[b]
  /\ Len(s.win) = 1 \/ \A i \in 1..Len(s.win) : s.size[s.win[i].buf] = s.text[s.win[i].buf]

(* The invariant, between two commands.                                     *)
Kept(s) == Shaped(s) /\ InText(s) /\ Painted(s)

(* What update_display() makes of the cursor of window i.                   *)
Moved(s, i) ==
  LET b == s.win[s.cur].buf
      p == s.win[i].point
  IN  IF i = s.cur THEN s.point[b]
      ELSE IF s.win[i].buf = b /\ p > s.point[b] THEN p + (s.text[b] - s.psize[b])
      ELSE p

(* What a command leaves for update_display().                              *)
Ready(s) ==
  LET b == s.win[s.cur].buf
  IN  /\ Shaped(s)
      /\ \A d \in Buffers : s.point[d] \in 0..s.text[d]
      /\ \A d \in Buffers : d # b => s.psize[d] = s.size[d]
      /\ \A i \in 1..Len(s.win) : i # s.cur /\ s.win[i].buf # b => s.size[s.win[i].buf] = s.text[s.win[i].buf]
      /\ \A i \in 1..Len(s.win) : Moved(s, i) \in 0..s.text[s.win[i].buf]

(* What the fields are.                                                     *)
LEMMA ViewFields ==
  ASSUME NEW s \in Views
  PROVE  /\ s.text \in [Buffers -> 0..MaxText] /\ s.size \in [Buffers -> 0..MaxText]
         /\ s.psize \in [Buffers -> 0..MaxText] /\ s.cpoint \in [Buffers -> 0..MaxText]
         /\ s.point \in [Buffers -> Int] /\ s.lost \in [Buffers -> Nat] /\ s.win \in Seq(Panes) /\ s.cur \in Nat
         /\ Len(s.win) \in Nat /\ \A i \in 1..Len(s.win) : s.win[i] \in Panes /\ s.win[i].buf \in Buffers /\ s.win[i].point \in Int
<1>1. /\ s.text \in [Buffers -> 0..MaxText] /\ s.size \in [Buffers -> 0..MaxText]
      /\ s.psize \in [Buffers -> 0..MaxText] /\ s.cpoint \in [Buffers -> 0..MaxText]
      /\ s.point \in [Buffers -> Int] /\ s.lost \in [Buffers -> Nat] /\ s.win \in Seq(Panes) /\ s.cur \in Nat
  BY DEF Views
<1>2. Len(s.win) \in Nat  BY <1>1, LenProperties
<1>3. ASSUME NEW i \in 1..Len(s.win)
      PROVE  s.win[i] \in Panes /\ s.win[i].buf \in Buffers /\ s.win[i].point \in Int
  <2>1. s.win[i] \in Panes  BY <1>1, ElementOfSeq
  <2> QED  BY <2>1 DEF Panes
<1> QED  BY <1>1, <1>2, <1>3

(* Another cursor in window i.                                              *)
LEMMA PaneMoved ==
  ASSUME NEW w \in Seq(Panes), NEW i \in 1..Len(w), NEW p \in Int
  PROVE  LET u == [w EXCEPT ![i].point = p]
         IN  /\ u \in Seq(Panes) /\ Len(u) = Len(w) /\ u[i].point = p /\ u[i].buf = w[i].buf
             /\ \A j \in 1..Len(w) : j # i => u[j] = w[j]
<1> DEFINE u == [w EXCEPT ![i].point = p]
           e == [w[i] EXCEPT !.point = p]
<1>1. Len(w) \in Nat /\ w \in [1..Len(w) -> Panes] /\ w[i] \in Panes  BY LenProperties, ElementOfSeq
<1>2. e \in Panes /\ e.point = p /\ e.buf = w[i].buf  BY <1>1 DEF Panes
<1>3. u = [w EXCEPT ![i] = e]  OBVIOUS
<1> HIDE DEF e
<1>4. u \in [1..Len(w) -> Panes] /\ u[i] = e /\ \A j \in 1..Len(w) : j # i => u[j] = w[j]  BY <1>1, <1>2, <1>3
<1> HIDE DEF u
<1>5. u \in Seq(Panes) /\ Len(u) = Len(w)  BY <1>1, <1>4
<1> QED  BY <1>2, <1>4, <1>5 DEF u

(* b2w()                                                                    *)
LEMMA B2wIs ==
  ASSUME NEW s \in Views, NEW i \in 1..Len(s.win)
  PROVE  LET t == B2w(s, i)
             b == s.win[i].buf
         IN  /\ t \in Views /\ t.text = s.text /\ t.psize = s.psize /\ t.point = s.point /\ t.cpoint = s.cpoint
             /\ t.lost = s.lost /\ t.cur = s.cur /\ Len(t.win) = Len(s.win)
             /\ t.size[b] = s.text[b] /\ \A d \in Buffers : d # b => t.size[d] = s.size[d]
             /\ t.win[i].buf = b /\ t.win[i].point = s.point[b]
             /\ \A j \in 1..Len(s.win) : j # i => t.win[j] = s.win[j]
<1> DEFINE b == s.win[i].buf
           t == B2w(s, i)
           u == [s.win EXCEPT ![i].point = s.point[b]]
           z == [s.size EXCEPT ![b] = s.text[b]]
<1>1. b \in Buffers /\ s.point[b] \in Int  BY ViewFields
<1>2. /\ u \in Seq(Panes) /\ Len(u) = Len(s.win) /\ u[i].point = s.point[b] /\ u[i].buf = s.win[i].buf
      /\ \A j \in 1..Len(s.win) : j # i => u[j] = s.win[j]
  <2> DEFINE w == s.win
             q == s.point[b]
  <2>1. w \in Seq(Panes) /\ i \in 1..Len(w) /\ q \in Int  BY <1>1, ViewFields
  <2> HIDE DEF w, q, b
  <2>2. LET x == [w EXCEPT ![i].point = q]
        IN  /\ x \in Seq(Panes) /\ Len(x) = Len(w) /\ x[i].point = q /\ x[i].buf = w[i].buf
            /\ \A j \in 1..Len(w) : j # i => x[j] = w[j]
    BY <2>1, PaneMoved
  <2> QED  BY <2>2 DEF w, q
<1>3. z \in [Buffers -> 0..MaxText] /\ z[b] = s.text[b] /\ \A d \in Buffers : d # b => z[d] = s.size[d]
  BY <1>1, ViewFields
<1>4. t = [s EXCEPT !.win = u, !.size = z]  BY DEF B2w
<1> HIDE DEF t, u, z
<1>5. /\ t \in Views /\ t.text = s.text /\ t.psize = s.psize /\ t.point = s.point /\ t.cpoint = s.cpoint
      /\ t.lost = s.lost /\ t.cur = s.cur /\ t.win = u /\ t.size = z
  BY <1>2, <1>3, <1>4 DEF Views
<1> QED  BY <1>2, <1>3, <1>5 DEF t

(* w2b()                                                                    *)
LEMMA W2bIs ==
  ASSUME NEW s \in Views, NEW i \in 1..Len(s.win)
  PROVE  LET t == W2b(s, i)
             b == s.win[i].buf
             p == s.win[i].point
         IN  /\ t \in Views /\ t.text = s.text /\ t.size = s.size /\ t.psize = s.psize /\ t.cpoint = s.cpoint
             /\ t.lost = s.lost /\ t.cur = s.cur /\ t.win = s.win
             /\ t.point[b] = IF p > s.cpoint[b] THEN p + (s.size[b] - s.psize[b]) ELSE p
             /\ \A d \in Buffers : d # b => t.point[d] = s.point[d]
<1> DEFINE b == s.win[i].buf
           p == s.win[i].point
           v == IF p > s.cpoint[b] THEN p + (s.size[b] - s.psize[b]) ELSE p
           t == W2b(s, i)
           z == [s.point EXCEPT ![b] = v]
<1>1. b \in Buffers /\ p \in Int  BY ViewFields
<1>2. s.size[b] \in Int /\ s.psize[b] \in Int
  <2>1. s.size[b] \in 0..MaxText /\ s.psize[b] \in 0..MaxText  BY <1>1, ViewFields
  <2> QED  BY <2>1
<1> HIDE DEF b, p
<1>3. v \in Int  BY <1>1, <1>2
<1>4. z \in [Buffers -> Int] /\ z[b] = v /\ \A d \in Buffers : d # b => z[d] = s.point[d]
  BY <1>1, <1>3, ViewFields
<1>5. t = [s EXCEPT !.point = z]  BY DEF W2b, b, p
<1> HIDE DEF t, z, v
<1>6. /\ t \in Views /\ t.text = s.text /\ t.size = s.size /\ t.psize = s.psize /\ t.cpoint = s.cpoint
      /\ t.lost = s.lost /\ t.cur = s.cur /\ t.win = s.win /\ t.point = z
  BY <1>4, <1>5 DEF Views
<1> QED  BY <1>4, <1>6 DEF t, b, p, v

(* A window's turn: it is moved, and its copy of the cursor with it.        *)
LEMMA TurnIs ==
  ASSUME NEW t \in Views, NEW w, w.at \in 1..Len(t.win), w.stale \in BOOLEAN
  PROVE  LET r == Turn(t, w)
             i == w.at
             b == t.win[i].buf
             p == t.win[i].point
             v == IF p > t.cpoint[b] THEN p + (t.size[b] - t.psize[b]) ELSE p
         IN  /\ r \in Views /\ r.text = t.text /\ r.psize = t.psize /\ r.cpoint = t.cpoint
             /\ r.lost = t.lost /\ r.cur = t.cur /\ Len(r.win) = Len(t.win) /\ r.win[i].buf = b
             /\ \A j \in 1..Len(t.win) : j # i => r.win[j] = t.win[j]
             /\ \A d \in Buffers : d # b => r.point[d] = t.point[d] /\ r.size[d] = t.size[d]
             /\ ~w.stale => r = t
             /\ w.stale => r.win[i].point = v /\ r.point[b] = v /\ r.size[b] = t.text[b]
<1> DEFINE i == w.at
           m == W2b(t, i)
           r == Turn(t, w)
           b == t.win[i].buf
           p == t.win[i].point
           v == IF p > t.cpoint[b] THEN p + (t.size[b] - t.psize[b]) ELSE p
<1>1. CASE ~w.stale
  <2>1. r = t  BY <1>1 DEF Turn
  <2> HIDE DEF r
  <2> QED  BY <1>1, <2>1 DEF r
<1>2. CASE w.stale
  <2>1. r = B2w(m, i)  BY <1>2 DEF Turn
  <2>2. i \in 1..Len(t.win)  OBVIOUS
  <2> HIDE DEF i
  <2>3. /\ m \in Views /\ m.text = t.text /\ m.size = t.size /\ m.psize = t.psize /\ m.cpoint = t.cpoint
        /\ m.lost = t.lost /\ m.cur = t.cur /\ m.win = t.win /\ m.point[b] = v
        /\ \A d \in Buffers : d # b => m.point[d] = t.point[d]
    BY <2>2, W2bIs
  <2> HIDE DEF m, v, r
  <2>4. i \in 1..Len(m.win) /\ m.win[i].buf = b  BY <2>2, <2>3
  <2>5. /\ r \in Views /\ r.text = m.text /\ r.psize = m.psize /\ r.point = m.point /\ r.cpoint = m.cpoint
        /\ r.lost = m.lost /\ r.cur = m.cur /\ Len(r.win) = Len(m.win)
        /\ r.size[b] = m.text[b] /\ \A d \in Buffers : d # b => r.size[d] = m.size[d]
        /\ r.win[i].buf = b /\ r.win[i].point = m.point[b]
        /\ \A j \in 1..Len(m.win) : j # i => r.win[j] = m.win[j]
    BY <2>1, <2>3, <2>4, B2wIs
  <2> HIDE DEF b
  <2>6. /\ r \in Views /\ r.text = t.text /\ r.psize = t.psize /\ r.cpoint = t.cpoint
        /\ r.lost = t.lost /\ r.cur = t.cur /\ Len(r.win) = Len(t.win) /\ r.win[i].buf = b
        /\ \A j \in 1..Len(t.win) : j # i => r.win[j] = t.win[j]
        /\ \A d \in Buffers : d # b => r.point[d] = t.point[d] /\ r.size[d] = t.size[d]
        /\ r.win[i].point = v /\ r.point[b] = v /\ r.size[b] = t.text[b]
    BY <2>3, <2>5
  <2> QED  BY <1>2, <2>6 DEF r, v, i, b
<1> QED  BY <1>1, <1>2

-----------------------------------------------------------------------------
(* update_display()                                                         *)

(* The selected window's cursor is copied first.                            *)
Own(s) == LET b == s.win[s.cur].buf IN B2w([s EXCEPT !.cpoint[b] = s.point[b]], s.cur)

Turns(s, marked) ==
  [i \in DOMAIN s.win |-> [at |-> i, stale |-> i # s.cur /\ (s.win[i].buf = s.win[s.cur].buf \/ i \in marked)]]

(* It is then in the window and in b_cpoint, and the size is the text's.    *)
LEMMA OwnIs ==
  ASSUME Limits, NEW s, Ready(s)
  PROVE  LET o == Own(s)
             b == s.win[s.cur].buf
         IN  /\ o \in Views /\ o.text = s.text /\ o.psize = s.psize /\ o.point = s.point /\ o.lost = s.lost
             /\ o.cur = s.cur /\ Len(o.win) = Len(s.win) /\ o.cpoint[b] = s.point[b]
             /\ o.size[b] = s.text[b] /\ \A d \in Buffers : d # b => o.size[d] = s.size[d]
             /\ o.win[s.cur].buf = b /\ o.win[s.cur].point = s.point[b]
             /\ \A j \in 1..Len(s.win) : j # s.cur => o.win[j] = s.win[j]
<1> DEFINE b == s.win[s.cur].buf
           c == [s.cpoint EXCEPT ![b] = s.point[b]]
           k == [s EXCEPT !.cpoint[b] = s.point[b]]
           o == Own(s)
<1>1. s \in Views /\ s.cur \in 1..Len(s.win) /\ b \in Buffers /\ s.point[b] \in 0..s.text[b]
  <2>1. s \in Views /\ s.cur \in 1..Len(s.win)  BY DEF Ready, Shaped
  <2>2. b \in Buffers  BY <2>1, ViewFields
  <2> QED  BY <2>1, <2>2 DEF Ready
<1>2. s.point[b] \in 0..MaxText
  <2>1. s.text[b] \in 0..MaxText  BY <1>1, ViewFields
  <2> QED  BY <1>1, <2>1 DEF Limits
<1> HIDE DEF b
<1>3. c \in [Buffers -> 0..MaxText] /\ c[b] = s.point[b]  BY <1>1, <1>2, ViewFields
<1>4. k = [s EXCEPT !.cpoint = c]  OBVIOUS
<1> HIDE DEF c
<1>5. /\ k \in Views /\ k.text = s.text /\ k.size = s.size /\ k.psize = s.psize /\ k.point = s.point /\ k.cpoint = c
      /\ k.lost = s.lost /\ k.win = s.win /\ k.cur = s.cur
  BY <1>1, <1>3, <1>4 DEF Views
<1>6. o = B2w(k, s.cur)  BY DEF Own, b
<1> DEFINE i == s.cur
<1> HIDE DEF k, o, i
<1>7. i \in 1..Len(k.win) /\ k.win[i].buf = b /\ k \in Views /\ o = B2w(k, i)  BY <1>1, <1>5, <1>6 DEF i, b
<1>8. /\ o \in Views /\ o.text = k.text /\ o.psize = k.psize /\ o.point = k.point /\ o.cpoint = k.cpoint
      /\ o.lost = k.lost /\ o.cur = k.cur /\ Len(o.win) = Len(k.win)
      /\ o.size[b] = k.text[b] /\ \A d \in Buffers : d # b => o.size[d] = k.size[d]
      /\ o.win[i].buf = b /\ o.win[i].point = k.point[b]
      /\ \A j \in 1..Len(k.win) : j # i => o.win[j] = k.win[j]
  BY <1>7, B2wIs
<1>9. /\ o \in Views /\ o.text = s.text /\ o.psize = s.psize /\ o.point = s.point /\ o.lost = s.lost
      /\ o.cur = s.cur /\ Len(o.win) = Len(s.win) /\ o.cpoint[b] = s.point[b]
      /\ o.size[b] = s.text[b] /\ \A d \in Buffers : d # b => o.size[d] = s.size[d]
      /\ o.win[i].buf = b /\ o.win[i].point = s.point[b]
      /\ \A j \in 1..Len(s.win) : j # i => o.win[j] = s.win[j]
  BY <1>3, <1>5, <1>8
<1> QED  BY <1>9 DEF o, i, b

(* After k turns.                                                           *)
Turned(s, k, t) ==
  LET b == s.win[s.cur].buf
  IN  /\ t \in Views /\ t.text = s.text /\ t.psize = s.psize /\ t.cpoint[b] = s.point[b] /\ t.lost = s.lost
      /\ t.cur = s.cur /\ Len(t.win) = Len(s.win) /\ t.size[b] = s.text[b]
      /\ \A d \in Buffers : t.point[d] \in 0..s.text[d] /\ (d # b => t.size[d] = s.size[d])
      /\ \A i \in 1..Len(s.win) :
           /\ t.win[i].buf = s.win[i].buf
           /\ t.win[i].point = IF i <= k \/ i = s.cur THEN Moved(s, i) ELSE s.win[i].point

(* Before the first turn, when only the selected window's was copied.       *)
LEMMA FirstTurn ==
  ASSUME Limits, NEW s, Ready(s)
  PROVE  Turned(s, 0, Own(s))
<1> DEFINE o == Own(s)
           b == s.win[s.cur].buf
<1>1. /\ o \in Views /\ o.text = s.text /\ o.psize = s.psize /\ o.point = s.point /\ o.lost = s.lost
      /\ o.cur = s.cur /\ Len(o.win) = Len(s.win) /\ o.cpoint[b] = s.point[b]
      /\ o.size[b] = s.text[b] /\ \A d \in Buffers : d # b => o.size[d] = s.size[d]
      /\ o.win[s.cur].buf = b /\ o.win[s.cur].point = s.point[b]
      /\ \A j \in 1..Len(s.win) : j # s.cur => o.win[j] = s.win[j]
  BY OwnIs
<1> HIDE DEF o
<1>2. \A d \in Buffers : s.point[d] \in 0..s.text[d]  BY DEF Ready
<1>3. Moved(s, s.cur) = s.point[b]  BY DEF Moved
<1>4. ASSUME NEW i \in 1..Len(s.win)
      PROVE  /\ o.win[i].buf = s.win[i].buf
             /\ o.win[i].point = IF i <= 0 \/ i = s.cur THEN Moved(s, i) ELSE s.win[i].point
  <2>1. CASE i = s.cur  BY <1>1, <1>3, <2>1
  <2>2. CASE i # s.cur
    <3>1. ~(i <= 0)  OBVIOUS
    <3> QED  BY <1>1, <2>2, <3>1
  <2> QED  BY <2>1, <2>2
<1> QED  BY <1>1, <1>2, <1>4 DEF Turned, o

(* A turn, of a window that is moved, painted without a move, or left.      *)
LEMMA NextTurn ==
  ASSUME Limits, NEW s, Ready(s), NEW marked, NEW k \in 1..Len(s.win), NEW t, Turned(s, k - 1, t)
  PROVE  Turned(s, k, Turn(t, Turns(s, marked)[k]))
<1> DEFINE w == Turns(s, marked)[k]
           r == Turn(t, w)
           b == s.win[s.cur].buf
           e == s.win[k].buf
           p == s.win[k].point
           v == IF p > t.cpoint[e] THEN p + (t.size[e] - t.psize[e]) ELSE p
<1>0. s \in Views /\ s.cur \in 1..Len(s.win) /\ b \in Buffers /\ e \in Buffers /\ p \in Int /\ Len(s.win) \in Nat
  <2>1. s \in Views /\ s.cur \in 1..Len(s.win)  BY DEF Ready, Shaped
  <2> QED  BY <2>1, ViewFields
<1>1. w.at = k /\ w.stale \in BOOLEAN /\ w.stale = (k # s.cur /\ (e = b \/ k \in marked))
  <2>1. DOMAIN s.win = 1..Len(s.win)  BY <1>0, ViewFields, LenProperties
  <2> QED  BY <2>1 DEF Turns
<1>2. /\ t \in Views /\ t.text = s.text /\ t.psize = s.psize /\ t.cpoint[b] = s.point[b] /\ t.lost = s.lost
      /\ t.cur = s.cur /\ Len(t.win) = Len(s.win) /\ t.size[b] = s.text[b]
      /\ \A d \in Buffers : t.point[d] \in 0..s.text[d] /\ (d # b => t.size[d] = s.size[d])
      /\ \A i \in 1..Len(s.win) :
           /\ t.win[i].buf = s.win[i].buf
           /\ t.win[i].point = IF i <= k - 1 \/ i = s.cur THEN Moved(s, i) ELSE s.win[i].point
  BY DEF Turned
<1>3. /\ \A d \in Buffers : d # b => s.psize[d] = s.size[d]
      /\ \A i \in 1..Len(s.win) : i # s.cur /\ s.win[i].buf # b => s.size[s.win[i].buf] = s.text[s.win[i].buf]
      /\ \A i \in 1..Len(s.win) : Moved(s, i) \in 0..s.text[s.win[i].buf]
  BY DEF Ready
<1> HIDE DEF w, b, e, p
<1>4. k \in 1..Len(t.win) /\ t.win[k].buf = e /\ (k # s.cur => t.win[k].point = p)
  <2>1. ~(k <= k - 1)  OBVIOUS
  <2> QED  BY <1>2, <2>1 DEF e, p
<1>5. ASSUME NEW i \in 1..Len(s.win), i # k
      PROVE  (i <= k \/ i = s.cur) <=> (i <= k - 1 \/ i = s.cur)
  BY <1>0, <1>5
<1>6. CASE w.stale
  <2>1. k # s.cur /\ t.win[k].point = p  BY <1>1, <1>4, <1>6
  <2>2. /\ r \in Views /\ r.text = t.text /\ r.psize = t.psize /\ r.cpoint = t.cpoint
        /\ r.lost = t.lost /\ r.cur = t.cur /\ Len(r.win) = Len(t.win) /\ r.win[k].buf = e
        /\ \A j \in 1..Len(t.win) : j # k => r.win[j] = t.win[j]
        /\ \A d \in Buffers : d # e => r.point[d] = t.point[d] /\ r.size[d] = t.size[d]
        /\ r.win[k].point = v /\ r.point[e] = v /\ r.size[e] = t.text[e]
    <3> DEFINE i == w.at
    <3>1. t \in Views /\ i \in 1..Len(t.win) /\ w.stale \in BOOLEAN /\ i = k  BY <1>1, <1>2, <1>4
    <3>2. LET x == t.win[i].buf
              y == t.win[i].point
              z == IF y > t.cpoint[x] THEN y + (t.size[x] - t.psize[x]) ELSE y
          IN  /\ r \in Views /\ r.text = t.text /\ r.psize = t.psize /\ r.cpoint = t.cpoint
              /\ r.lost = t.lost /\ r.cur = t.cur /\ Len(r.win) = Len(t.win) /\ r.win[i].buf = x
              /\ \A j \in 1..Len(t.win) : j # i => r.win[j] = t.win[j]
              /\ \A d \in Buffers : d # x => r.point[d] = t.point[d] /\ r.size[d] = t.size[d]
              /\ r.win[i].point = z /\ r.point[x] = z /\ r.size[x] = t.text[x]
      BY <1>6, <3>1, TurnIs
    <3> HIDE DEF i, r
    <3> QED  BY <1>4, <2>1, <3>1, <3>2
  <2> HIDE DEF r
  <2>3. v = Moved(s, k)
    <3>1. Moved(s, k) = IF e = b /\ p > s.point[b] THEN p + (s.text[b] - s.psize[b]) ELSE p
      BY <2>1 DEF Moved, e, b, p
    <3>2. CASE e = b  BY <1>2, <3>1, <3>2
    <3>3. CASE e # b
      <4>1. t.size[e] = s.size[e] /\ t.psize[e] = s.size[e]  BY <1>0, <1>2, <1>3, <3>3
      <4>2. s.size[e] \in Int
        <5>1. s.size[e] \in 0..MaxText  BY <1>0, ViewFields
        <5> QED  BY <5>1
      <4>3. p + (t.size[e] - t.psize[e]) = p  BY <1>0, <4>1, <4>2
      <4> QED  BY <3>1, <3>3, <4>3
    <3> QED  BY <3>2, <3>3
  <2> HIDE DEF v
  <2>4. v \in 0..s.text[e]  BY <1>3, <2>3 DEF e
  <2>5. r.size[b] = s.text[b]
    <3>1. CASE e = b  BY <1>2, <2>2, <3>1
    <3>2. CASE e # b  BY <1>0, <1>2, <2>2, <3>2
    <3> QED  BY <3>1, <3>2
  <2>6. ASSUME NEW d \in Buffers
        PROVE  r.point[d] \in 0..s.text[d] /\ (d # b => r.size[d] = s.size[d])
    <3>1. CASE d = e
      <4>1. d # b => s.size[d] = s.text[d]  BY <1>3, <2>1, <3>1 DEF e
      <4> QED  BY <1>2, <2>2, <2>4, <3>1, <4>1
    <3>2. CASE d # e  BY <1>2, <2>2, <3>2
    <3> QED  BY <3>1, <3>2
  <2>7. ASSUME NEW i \in 1..Len(s.win)
        PROVE  /\ r.win[i].buf = s.win[i].buf
               /\ r.win[i].point = IF i <= k \/ i = s.cur THEN Moved(s, i) ELSE s.win[i].point
    <3>1. CASE i = k
      <4>1. i <= k  BY <3>1
      <4> QED  BY <2>2, <2>3, <3>1, <4>1 DEF e
    <3>2. CASE i # k  BY <1>2, <1>5, <2>2, <3>2
    <3> QED  BY <3>1, <3>2
  <2>8. Turned(s, k, r)  BY <1>2, <2>2, <2>5, <2>6, <2>7 DEF Turned, b
  <2> QED  BY <2>8 DEF r, w
<1>7. CASE ~w.stale
  <2>1. r = t  BY <1>7 DEF Turn
  <2>2. k = s.cur \/ e # b  BY <1>1, <1>7
  <2>3. ASSUME NEW i \in 1..Len(s.win)
        PROVE  t.win[i].point = IF i <= k \/ i = s.cur THEN Moved(s, i) ELSE s.win[i].point
    <3>1. CASE i = k
      <4>1. CASE k = s.cur  BY <1>2, <3>1, <4>1
      <4>2. CASE k # s.cur
        <5>1. Moved(s, k) = p  BY <2>2, <4>2 DEF Moved, e, b, p
        <5>2. i <= k  BY <3>1
        <5> QED  BY <1>4, <3>1, <4>2, <5>1, <5>2
      <4> QED  BY <4>1, <4>2
    <3>2. CASE i # k  BY <1>2, <1>5, <3>2
    <3> QED  BY <3>1, <3>2
  <2> HIDE DEF r
  <2>4. Turned(s, k, t)  BY <1>2, <2>3 DEF Turned, b
  <2> QED  BY <2>1, <2>4 DEF r, w
<1> QED  BY <1>1, <1>6, <1>7

TN == INSTANCE Folding WITH Op <- Turn

(* All turns, by induction over the windows.                                *)
LEMMA LastTurn ==
  ASSUME Limits, NEW s, Ready(s), NEW marked
  PROVE  Turned(s, Len(s.win), FoldLeft(Turn, Own(s), Turns(s, marked)))
<1> DEFINE n == Len(s.win)
           o == Own(s)
           ts == Turns(s, marked)
<1>1. n \in Nat /\ DOMAIN ts = 1..n
  <2>1. s \in Views  BY DEF Ready, Shaped
  <2>2. s.win \in Seq(Panes) /\ Len(s.win) \in Nat  BY <2>1, ViewFields
  <2>3. DOMAIN s.win = 1..Len(s.win)  BY <2>2, LenProperties
  <2> QED  BY <2>2, <2>3 DEF Turns
<1>2. FoldLeft(Turn, o, ts) = TN!Fold(o, ts)  BY DEF TN!Fold, TN!LastOf, FoldLeft, MapThenFoldSet, Max
<1> HIDE DEF o, ts
<1>3. PICK f : TN!Along(f, o, ts, n) /\ TN!Fold(o, ts) = f[n]  BY <1>1, TN!FoldSteps
<1> DEFINE K == {k \in Nat : k <= n => Turned(s, k, f[k])}
<1>4. 0 \in K
  <2>1. f[0] = Own(s)  BY <1>3 DEF TN!Along, o
  <2>2. Turned(s, 0, f[0])  BY <2>1, FirstTurn
  <2> QED  BY <2>2
<1>5. \A k \in Nat : k \in K => k + 1 \in K
  <2> TAKE k \in Nat
  <2> HAVE k \in K
  <2>1. SUFFICES ASSUME k + 1 <= n PROVE Turned(s, k + 1, f[k + 1])  OBVIOUS
  <2> DEFINE m == k + 1
  <2>2. m \in 1..Len(s.win) /\ m - 1 = k /\ k <= n  BY <1>1, <2>1
  <2>3. Turned(s, m - 1, f[k])  BY <2>2
  <2> HIDE DEF m
  <2>4. f[m] = Turn(f[k], ts[m])  BY <1>3, <2>2 DEF TN!Along
  <2>5. Turned(s, m, Turn(f[k], Turns(s, marked)[m]))  BY <2>2, <2>3, NextTurn
  <2>6. Turned(s, m, f[m])  BY <2>4, <2>5 DEF ts
  <2> QED  BY <2>6 DEF m
<1> HIDE DEF K
<1>6. Nat \subseteq K  BY <1>4, <1>5, TN!Induction
<1>7. n \in K  BY <1>1, <1>6
<1>8. n <= n  BY <1>1
<1> HIDE DEF n
<1>9. Turned(s, n, f[n])  BY <1>7, <1>8 DEF K
<1> QED  BY <1>2, <1>3, <1>9 DEF n, o, ts

(* What update_display() does, whichever windows it paints: each cursor of  *)
(* another window on the buffer goes with the text, and all are in the text. *)
LEMMA RefreshedIs ==
  ASSUME Limits, NEW s, Ready(s), NEW marked
  PROVE  LET r == Refreshed(s, marked)
             b == s.win[s.cur].buf
         IN  /\ Kept(r) /\ r.text = s.text /\ r.cur = s.cur /\ Len(r.win) = Len(s.win) /\ r.point[b] = s.point[b]
             /\ \A i \in 1..Len(s.win) : r.win[i].buf = s.win[i].buf /\ r.win[i].point = Moved(s, i)
             /\ \A i \in 1..Len(s.win) : r.size[s.win[i].buf] = s.text[s.win[i].buf]
<1> DEFINE b == s.win[s.cur].buf
           n == Len(s.win)
           o == Own(s)
           f == FoldLeft(Turn, o, Turns(s, marked))
           all == IF Len(s.win) = 1 THEN o ELSE W2b(f, s.cur)
           z == [all.psize EXCEPT ![b] = all.size[b]]
           r == Refreshed(s, marked)
<1>0. s \in Views /\ s.cur \in 1..n /\ b \in Buffers /\ n \in Nat
  <2>1. s \in Views /\ s.cur \in 1..Len(s.win)  BY DEF Ready, Shaped
  <2> QED  BY <2>1, ViewFields
<1>a. \A i \in 1..n : s.win[i].buf \in Buffers  BY <1>0, ViewFields
<1>1. r = [all EXCEPT !.psize[b] = all.size[b]]  BY DEF Refreshed, Turns, Own
<1>2. /\ all \in Views /\ all.text = s.text /\ all.psize = s.psize /\ all.cur = s.cur /\ Len(all.win) = n
      /\ all.size[b] = s.text[b] /\ all.point[b] = s.point[b]
      /\ \A d \in Buffers : all.point[d] \in 0..s.text[d] /\ (d # b => all.size[d] = s.size[d])
      /\ \A i \in 1..n : all.win[i].buf = s.win[i].buf /\ all.win[i].point = Moved(s, i)
  <2>1. CASE n = 1
    <3>1. Turned(s, 0, o)  BY FirstTurn
    <3>2. /\ o \in Views /\ o.text = s.text /\ o.psize = s.psize
          /\ o.cur = s.cur /\ Len(o.win) = Len(s.win) /\ o.size[b] = s.text[b]
          /\ \A d \in Buffers : o.point[d] \in 0..s.text[d] /\ (d # b => o.size[d] = s.size[d])
          /\ \A i \in 1..Len(s.win) :
               /\ o.win[i].buf = s.win[i].buf
               /\ o.win[i].point = IF i <= 0 \/ i = s.cur THEN Moved(s, i) ELSE s.win[i].point
      BY <3>1 DEF Turned
    <3>3. o.point = s.point  BY OwnIs
    <3>4. \A i \in 1..n : i = s.cur  BY <1>0, <2>1
    <3>5. all = o  BY <2>1
    <3> HIDE DEF all, o
    <3> QED  BY <3>2, <3>3, <3>4, <3>5
  <2>2. CASE n # 1
    <3>1. Turned(s, n, f)  BY LastTurn
    <3>2. /\ f \in Views /\ f.text = s.text /\ f.psize = s.psize /\ f.cpoint[b] = s.point[b]
          /\ f.cur = s.cur /\ Len(f.win) = Len(s.win) /\ f.size[b] = s.text[b]
          /\ \A d \in Buffers : f.point[d] \in 0..s.text[d] /\ (d # b => f.size[d] = s.size[d])
          /\ \A i \in 1..Len(s.win) :
               /\ f.win[i].buf = s.win[i].buf
               /\ f.win[i].point = IF i <= n \/ i = s.cur THEN Moved(s, i) ELSE s.win[i].point
      BY <3>1 DEF Turned
    <3>3. all = W2b(f, s.cur)  BY <2>2
    <3> HIDE DEF all, f
    <3> DEFINE i == s.cur
    <3>4. i \in 1..Len(f.win) /\ f.win[i].buf = b  BY <1>0, <3>2
    <3>5. f.win[i].point = s.point[b]
      <4>1. Moved(s, i) = s.point[b]  BY DEF Moved
      <4> QED  BY <1>0, <3>2, <4>1
    <3> HIDE DEF i
    <3>a. all = W2b(f, i)  BY <3>3 DEF i
    <3>6. LET d == f.win[i].buf
              p == f.win[i].point
          IN  /\ all \in Views /\ all.text = f.text /\ all.size = f.size /\ all.psize = f.psize
              /\ all.cur = f.cur /\ all.win = f.win
              /\ all.point[d] = IF p > f.cpoint[d] THEN p + (f.size[d] - f.psize[d]) ELSE p
              /\ \A x \in Buffers : x # d => all.point[x] = f.point[x]
      BY <3>2, <3>4, <3>a, W2bIs
    <3>7. s.point[b] \in 0..s.text[b]  BY <1>0 DEF Ready
    <3>8. all.point[b] = s.point[b]
      <4>1. ~(s.point[b] > s.point[b])  BY <3>7
      <4> QED  BY <3>2, <3>4, <3>5, <3>6, <4>1
    <3>9. \A j \in 1..n : j <= n  BY <1>0
    <3>10. ASSUME NEW d \in Buffers
           PROVE  all.point[d] \in 0..s.text[d] /\ (d # b => all.size[d] = s.size[d])
      <4>1. CASE d = b  BY <3>7, <3>8, <4>1
      <4>2. CASE d # b  BY <3>2, <3>4, <3>6, <4>2
      <4> QED  BY <4>1, <4>2
    <3> HIDE DEF b
    <3> QED  BY <3>2, <3>6, <3>8, <3>9, <3>10
  <2> QED  BY <2>1, <2>2
<1> HIDE DEF all
<1>3. z \in [Buffers -> 0..MaxText] /\ z[b] = all.size[b] /\ \A d \in Buffers : d # b => z[d] = s.psize[d]
  <2>1. all.psize \in [Buffers -> 0..MaxText] /\ all.size[b] \in 0..MaxText  BY <1>0, <1>2, ViewFields
  <2> QED  BY <1>0, <1>2, <2>1
<1>4. r = [all EXCEPT !.psize = z]  BY <1>1
<1> HIDE DEF z, r
<1>5. /\ r \in Views /\ r.text = all.text /\ r.size = all.size /\ r.psize = z /\ r.point = all.point
      /\ r.cur = all.cur /\ r.win = all.win
  BY <1>2, <1>3, <1>4 DEF Views
<1>6. /\ \A d \in Buffers : d # b => s.psize[d] = s.size[d]
      /\ \A i \in 1..Len(s.win) : i # s.cur /\ s.win[i].buf # b => s.size[s.win[i].buf] = s.text[s.win[i].buf]
      /\ \A i \in 1..Len(s.win) : Moved(s, i) \in 0..s.text[s.win[i].buf]
  BY DEF Ready
<1> HIDE DEF b
<1>7. ASSUME NEW d \in Buffers PROVE r.psize[d] = r.size[d]
  <2>1. CASE d = b  BY <1>3, <1>5, <2>1
  <2>2. CASE d # b  BY <1>2, <1>3, <1>5, <1>6, <2>2
  <2> QED  BY <2>1, <2>2
<1>8. ASSUME NEW i \in 1..n PROVE r.size[s.win[i].buf] = s.text[s.win[i].buf]
  <2> DEFINE e == s.win[i].buf
  <2>1. CASE e = b  BY <1>2, <1>5, <2>1
  <2>2. CASE e # b
    <3>1. i # s.cur  BY <2>2 DEF b
    <3>2. s.size[e] = s.text[e]  BY <1>6, <2>2, <3>1
    <3> QED  BY <1>2, <1>5, <1>a, <2>2, <3>2
  <2> QED  BY <2>1, <2>2
<1>9. Shaped(r)  BY <1>0, <1>2, <1>5 DEF Shaped
<1>10. InText(r)
  <2>1. \A i \in 1..n : r.win[i].buf = s.win[i].buf /\ r.win[i].point = Moved(s, i)  BY <1>2, <1>5
  <2>2. \A i \in 1..n : r.win[i].point \in 0..s.text[r.win[i].buf]  BY <1>6, <2>1
  <2> QED  BY <1>2, <1>5, <2>2 DEF InText
<1>11. Painted(r)  BY <1>2, <1>5, <1>7, <1>8 DEF Painted
<1>12. /\ Kept(r) /\ r.text = s.text /\ r.cur = s.cur /\ Len(r.win) = n /\ r.point[b] = s.point[b]
       /\ \A i \in 1..n : r.win[i].buf = s.win[i].buf /\ r.win[i].point = Moved(s, i)
  BY <1>2, <1>5, <1>9, <1>10, <1>11 DEF Kept
<1> QED  BY <1>8, <1>12 DEF r, b

-----------------------------------------------------------------------------
(* Commands                                                                 *)

(* A command that leaves the cursors in their texts, and of those on the    *)
(* buffer of the selected window moves none that update_display() would.    *)
LEMMA ReadyIf ==
  ASSUME NEW u, Shaped(u),
         \A d \in Buffers : u.point[d] \in 0..u.text[d],
         \A d \in Buffers : d # u.win[u.cur].buf => u.psize[d] = u.size[d],
         \A i \in 1..Len(u.win) : i # u.cur =>
           /\ u.win[i].point \in 0..u.text[u.win[i].buf]
           /\ u.win[i].buf # u.win[u.cur].buf => u.size[u.win[i].buf] = u.text[u.win[i].buf]
           /\ u.win[i].buf = u.win[u.cur].buf =>
                u.win[i].point <= u.point[u.win[i].buf] \/ u.psize[u.win[i].buf] = u.text[u.win[i].buf]
  PROVE  /\ Ready(u)
         /\ \A i \in 1..Len(u.win) : Moved(u, i) = IF i = u.cur THEN u.point[u.win[u.cur].buf] ELSE u.win[i].point
<1> DEFINE b == u.win[u.cur].buf
<1>0. u \in Views /\ u.cur \in 1..Len(u.win)  BY DEF Shaped
<1>1. ASSUME NEW i \in 1..Len(u.win)
      PROVE  Moved(u, i) = IF i = u.cur THEN u.point[b] ELSE u.win[i].point
  <2> DEFINE e == u.win[i].buf
             p == u.win[i].point
  <2>0. e \in Buffers /\ p \in Int  BY <1>0, ViewFields
  <2>a. u.point[e] \in Int /\ u.text[e] \in Int
    <3>1. u.text[e] \in 0..MaxText  BY <1>0, <2>0, ViewFields
    <3>2. u.point[e] \in Int  BY <1>0, <2>0, ViewFields
    <3> QED  BY <3>1, <3>2
  <2>1. CASE i = u.cur  BY <2>1 DEF Moved
  <2>2. CASE i # u.cur
    <3> DEFINE m == Moved(u, i)
    <3>1. m = IF e = b /\ p > u.point[b] THEN p + (u.text[b] - u.psize[b]) ELSE p
      BY <2>2 DEF Moved
    <3>2. e = b => p <= u.point[e] \/ u.psize[e] = u.text[e]  BY <2>2
    <3> HIDE DEF e, p, b, m
    <3>3. m = p
      <4>1. CASE e = b
        <5>1. CASE p <= u.point[e]
          <6>1. ~(p > u.point[e])  BY <2>0, <2>a, <5>1
          <6> QED  BY <3>1, <4>1, <6>1
        <5>2. CASE u.psize[e] = u.text[e]
          <6>1. p + (u.text[e] - u.psize[e]) = p  BY <2>0, <2>a, <5>2
          <6> QED  BY <3>1, <4>1, <6>1
        <5> QED  BY <3>2, <4>1, <5>1, <5>2
      <4>2. CASE e # b  BY <3>1, <4>2
      <4> QED  BY <4>1, <4>2
    <3> QED  BY <2>2, <3>3 DEF p, m
  <2> QED  BY <2>1, <2>2
<1>2. ASSUME NEW i \in 1..Len(u.win)
      PROVE  Moved(u, i) \in 0..u.text[u.win[i].buf]
  <2>1. CASE i = u.cur
    <3>1. u.point[b] \in 0..u.text[b]  BY <1>0, ViewFields
    <3> QED  BY <1>1, <2>1, <3>1
  <2>2. CASE i # u.cur  BY <1>1, <2>2
  <2> QED  BY <2>1, <2>2
<1> QED  BY <1>1, <1>2 DEF Ready

(* What there is to know between two commands.                              *)
LEMMA KeptFields ==
  ASSUME NEW s, Kept(s)
  PROVE  /\ s \in Views /\ s.cur \in 1..Len(s.win) /\ Len(s.win) \in Nat
         /\ \A d \in Buffers : s.point[d] \in 0..s.text[d] /\ s.text[d] \in 0..MaxText /\ s.psize[d] = s.size[d]
         /\ \A i \in 1..Len(s.win) :
              /\ s.win[i] \in Panes /\ s.win[i].buf \in Buffers /\ s.win[i].point \in 0..s.text[s.win[i].buf]
              /\ Len(s.win) # 1 => /\ s.size[s.win[i].buf] = s.text[s.win[i].buf]
                                   /\ s.psize[s.win[i].buf] = s.text[s.win[i].buf]
<1>1. s \in Views /\ s.cur \in 1..Len(s.win)  BY DEF Kept, Shaped
<1>2. \A i \in 1..Len(s.win) : s.win[i] \in Panes /\ s.win[i].buf \in Buffers  BY <1>1, ViewFields
<1>3. \A d \in Buffers : s.text[d] \in 0..MaxText  BY <1>1, ViewFields
<1>4. Len(s.win) \in Nat  BY <1>1, ViewFields
<1> QED  BY <1>1, <1>2, <1>3, <1>4 DEF Kept, InText, Painted

(* Nothing done: update_display() may be called again.                      *)
LEMMA AtRest ==
  ASSUME NEW s, Kept(s)
  PROVE  Ready(s)
<1>1. Shaped(s)  BY DEF Kept
<1>2. /\ s.cur \in 1..Len(s.win) /\ Len(s.win) \in Nat
      /\ \A d \in Buffers : s.point[d] \in 0..s.text[d] /\ s.psize[d] = s.size[d]
      /\ \A i \in 1..Len(s.win) :
           /\ s.win[i].point \in 0..s.text[s.win[i].buf]
           /\ Len(s.win) # 1 => /\ s.size[s.win[i].buf] = s.text[s.win[i].buf]
                                /\ s.psize[s.win[i].buf] = s.text[s.win[i].buf]
  BY KeptFields
<1>3. ASSUME NEW i \in 1..Len(s.win), i # s.cur PROVE Len(s.win) # 1  BY <1>2, <1>3
<1> QED  BY <1>1, <1>2, <1>3, ReadyIf

(* Other windows, or another one selected, with no text changed.            *)
LEMMA Rearranged ==
  ASSUME NEW s, Kept(s), NEW u \in Views, u.cur \in 1..Len(u.win),
         u.text = s.text, u.size = s.size, u.psize = s.psize,
         \A d \in Buffers : u.point[d] \in 0..s.text[d],
         \A i \in 1..Len(u.win) : i # u.cur => Len(s.win) # 1 /\ \E j \in 1..Len(s.win) : u.win[i] = s.win[j]
  PROVE  Ready(u)
<1>1. /\ \A d \in Buffers : s.psize[d] = s.size[d]
      /\ \A i \in 1..Len(s.win) :
           /\ s.win[i].point \in 0..s.text[s.win[i].buf]
           /\ Len(s.win) # 1 => /\ s.size[s.win[i].buf] = s.text[s.win[i].buf]
                                /\ s.psize[s.win[i].buf] = s.text[s.win[i].buf]
  BY KeptFields
<1>2. Shaped(u)  BY DEF Shaped
<1>3. \A i \in 1..Len(u.win) : i # u.cur =>
        /\ u.win[i].point \in 0..u.text[u.win[i].buf]
        /\ u.size[u.win[i].buf] = u.text[u.win[i].buf]
        /\ u.psize[u.win[i].buf] = u.text[u.win[i].buf]
  BY <1>1
<1>4. \A d \in Buffers : u.point[d] \in 0..u.text[d] /\ u.psize[d] = u.size[d]  BY <1>1
<1> QED  BY <1>2, <1>3, <1>4, ReadyIf

(* The invariant of the specification.                                      *)
IInv == Kept(Now)

(* What the invariant says of the variables.                                *)
LEMMA InvParts ==
  ASSUME IInv
  PROVE  /\ text \in [Buffers -> 0..MaxText] /\ size \in [Buffers -> 0..MaxText] /\ psize \in [Buffers -> 0..MaxText]
         /\ cpoint \in [Buffers -> 0..MaxText] /\ point \in [Buffers -> Int] /\ lost \in [Buffers -> Nat]
         /\ win \in Seq(Panes) /\ Len(win) \in Nat /\ DOMAIN win = 1..Len(win) /\ cur \in 1..Len(win)
         /\ \A d \in Buffers : point[d] \in 0..text[d] /\ text[d] \in 0..MaxText /\ psize[d] = size[d]
         /\ \A i \in 1..Len(win) :
              /\ win[i] \in Panes /\ win[i].buf \in Buffers /\ win[i].point \in 0..text[win[i].buf]
              /\ Len(win) # 1 => size[win[i].buf] = text[win[i].buf] /\ psize[win[i].buf] = text[win[i].buf]
<1> DEFINE s == Now
<1>1. /\ s.text = text /\ s.size = size /\ s.psize = psize /\ s.point = point /\ s.cpoint = cpoint
      /\ s.lost = lost /\ s.win = win /\ s.cur = cur
  BY DEF Now
<1>2. Kept(s)  BY DEF IInv
<1> HIDE DEF s
<1>3. s \in Views  BY <1>2, KeptFields
<1>4. /\ text \in [Buffers -> 0..MaxText] /\ size \in [Buffers -> 0..MaxText]
      /\ psize \in [Buffers -> 0..MaxText] /\ cpoint \in [Buffers -> 0..MaxText]
      /\ point \in [Buffers -> Int] /\ lost \in [Buffers -> Nat] /\ win \in Seq(Panes)
  BY <1>1, <1>3, ViewFields
<1>5. DOMAIN win = 1..Len(win)  BY <1>4, LenProperties
<1>6. /\ cur \in 1..Len(win) /\ Len(win) \in Nat
      /\ \A d \in Buffers : point[d] \in 0..text[d] /\ text[d] \in 0..MaxText /\ psize[d] = size[d]
      /\ \A i \in 1..Len(win) :
           /\ win[i] \in Panes /\ win[i].buf \in Buffers /\ win[i].point \in 0..text[win[i].buf]
           /\ Len(win) # 1 => size[win[i].buf] = text[win[i].buf] /\ psize[win[i].buf] = text[win[i].buf]
  <2>1. /\ s.cur \in 1..Len(s.win) /\ Len(s.win) \in Nat
        /\ \A d \in Buffers : s.point[d] \in 0..s.text[d] /\ s.text[d] \in 0..MaxText /\ s.psize[d] = s.size[d]
        /\ \A i \in 1..Len(s.win) :
             /\ s.win[i] \in Panes /\ s.win[i].buf \in Buffers /\ s.win[i].point \in 0..s.text[s.win[i].buf]
             /\ Len(s.win) # 1 => /\ s.size[s.win[i].buf] = s.text[s.win[i].buf]
                                  /\ s.psize[s.win[i].buf] = s.text[s.win[i].buf]
    BY <1>2, KeptFields
  <2> QED  BY <1>1, <2>1
<1> QED  BY <1>4, <1>5, <1>6

(* A command that leaves what update_display() can take.                    *)
LEMMA Becomes ==
  ASSUME Limits, NEW u, Ready(u), NEW marked, Become(u, marked)
  PROVE  /\ IInv' /\ text' = u.text /\ cur' = u.cur /\ Len(win') = Len(u.win)
         /\ LET b == u.win[u.cur].buf IN point'[b] = u.point[b]
         /\ \A i \in 1..Len(u.win) : win'[i].buf = u.win[i].buf /\ win'[i].point = Moved(u, i)
<1> DEFINE r == Refreshed(u, marked)
           b == u.win[u.cur].buf
<1>1. /\ Kept(r) /\ r.text = u.text /\ r.cur = u.cur /\ Len(r.win) = Len(u.win) /\ r.point[b] = u.point[b]
      /\ \A i \in 1..Len(u.win) : r.win[i].buf = u.win[i].buf /\ r.win[i].point = Moved(u, i)
  BY RefreshedIs
<1>2. /\ text' = r.text /\ size' = r.size /\ psize' = r.psize /\ point' = r.point
      /\ cpoint' = r.cpoint /\ lost' = r.lost /\ win' = r.win /\ cur' = r.cur
  BY DEF Become
<1> HIDE DEF r
<1>3. r \in Views  BY <1>1 DEF Kept, Shaped
<1>4. Now' = r  BY <1>2, <1>3 DEF Now, Views
<1>5. IInv'  BY <1>1, <1>4 DEF IInv
<1> QED  BY <1>1, <1>2, <1>5

(* One window, and nothing is painted.                                      *)
LEMMA InitIInv ==
  ASSUME Limits, Init
  PROVE  IInv
<1>1. PICK b \in Buffers : win = <<[buf |-> b, point |-> 0]>>  BY DEF Init
<1> DEFINE e == [buf |-> b, point |-> 0]
<1>2. e \in Panes /\ e.buf = b /\ e.point = 0  BY DEF Panes
<1>3. win = <<e>>  BY <1>1
<1> HIDE DEF e
<1>4. win \in Seq(Panes) /\ Len(win) = 1 /\ win[1] = e  BY <1>2, <1>3
<1>5. /\ text \in [Buffers -> 0..MaxText] /\ cur = 1
      /\ size = [d \in Buffers |-> 0] /\ psize = size /\ point = size /\ cpoint = size /\ lost = size
  BY DEF Init
<1>6. \A d \in Buffers : text[d] \in 0..MaxText  BY <1>5
<1>7. MaxText \in Nat  BY DEF Limits
<1> DEFINE s == Now
<1>8. /\ s.text = text /\ s.size = size /\ s.psize = psize /\ s.point = point /\ s.cpoint = cpoint
      /\ s.lost = lost /\ s.win = win /\ s.cur = cur
  BY DEF Now
<1>9. s \in Views  BY <1>4, <1>5, <1>7 DEF Views, Now
<1> HIDE DEF s
<1>a. \A d \in Buffers : point[d] = 0 /\ 0 \in 0..text[d]  BY <1>5, <1>6, <1>7
<1>b. win[1].buf = b /\ win[1].point = 0  BY <1>2, <1>4
<1>c. \A i \in 1..1 : i = 1  OBVIOUS
<1>10. Shaped(s)
  <2>1. s.cur = 1 /\ Len(s.win) = 1  BY <1>4, <1>5, <1>8
  <2>2. s.cur \in 1..Len(s.win)
    <3> DEFINE c == s.cur
               n == Len(s.win)
    <3>1. c = 1 /\ n = 1  BY <2>1
    <3> HIDE DEF c, n
    <3>2. c \in 1..n  BY <3>1
    <3> QED  BY <3>2 DEF c, n
  <2> QED  BY <1>9, <2>2 DEF Shaped
<1>11. InText(s)
  <2>1. \A d \in Buffers : s.point[d] \in 0..s.text[d]  BY <1>a, <1>8
  <2>2. s.win[1].point \in 0..s.text[s.win[1].buf]  BY <1>a, <1>b, <1>8
  <2>3. Len(s.win) = 1  BY <1>4, <1>8
  <2> QED  BY <1>c, <2>1, <2>2, <2>3 DEF InText
<1>12. Painted(s)  BY <1>4, <1>5, <1>8 DEF Painted
<1> QED  BY <1>10, <1>11, <1>12 DEF IInv, Kept, s

-----------------------------------------------------------------------------
(* The windows                                                              *)

(* A second window, which the first one's cursor is copied into, and what   *)
(* is painted twice.                                                        *)
LEMMA SplitStep ==
  ASSUME Limits, IInv, Split
  PROVE  IInv' /\ (cur' = cur \/ Len(win') # Len(win))
<1>1. /\ text \in [Buffers -> 0..MaxText] /\ size \in [Buffers -> 0..MaxText] /\ psize \in [Buffers -> 0..MaxText]
      /\ cpoint \in [Buffers -> 0..MaxText] /\ point \in [Buffers -> Int] /\ lost \in [Buffers -> Nat]
      /\ win \in Seq(Panes) /\ Len(win) \in Nat /\ DOMAIN win = 1..Len(win) /\ cur \in 1..Len(win)
      /\ \A d \in Buffers : point[d] \in 0..text[d] /\ text[d] \in 0..MaxText /\ psize[d] = size[d]
      /\ \A i \in 1..Len(win) :
           /\ win[i] \in Panes /\ win[i].buf \in Buffers /\ win[i].point \in 0..text[win[i].buf]
           /\ Len(win) # 1 => size[win[i].buf] = text[win[i].buf] /\ psize[win[i].buf] = text[win[i].buf]
  BY InvParts
<1> DEFINE k == cur + 1
           n == Len(win)
           w == InsertAt(win, k, win[cur])
           s == [Now EXCEPT !.win = w]
           u == B2w(s, k)
           b == win[cur].buf
<1>2. Become(Refreshed(u, All(s)), {})
  <2>1. s = [Now EXCEPT !.win = InsertAt(@, cur + 1, win[cur])]  BY DEF Now
  <2> QED  BY <2>1 DEF Split
<1>3. /\ Len(w) = n + 1
      /\ \A i \in 1..(n + 1) : w[i] = IF i < k THEN win[i] ELSE IF i = k THEN win[cur] ELSE win[i - 1]
      /\ w = [i \in 1..(n + 1) |-> w[i]]
  <2>1. IsSeq(win)
    <3>1. win = [i \in 1..Len(win) |-> win[i]]  BY <1>1
    <3> QED  BY <1>1, <3>1 DEF IsSeq
  <2> DEFINE e == win[cur]
  <2>2. k \in 1..(Len(win) + 1)  BY <1>1
  <2> HIDE DEF k, e
  <2>3. LET v == InsertAt(win, k, e)
        IN  /\ IsSeq(v) /\ Len(v) = Len(win) + 1
            /\ \A i \in 1..(Len(win) + 1) : v[i] = IF i < k THEN win[i] ELSE IF i = k THEN e ELSE win[i - 1]
    BY <2>1, <2>2, Inserted
  <2> QED  BY <2>3 DEF IsSeq, e
<1>4. \A i \in 1..(n + 1) : i # k => \E j \in 1..n : w[i] = win[j] /\ (i = cur <=> j = cur)
  <2> TAKE i \in 1..(n + 1)
  <2> HAVE i # k
  <2>1. CASE i < k  BY <1>1, <1>3, <2>1
  <2>2. CASE i > k
    <3>1. i - 1 \in 1..n /\ i # cur /\ i - 1 # cur /\ ~(i < k)  BY <1>1, <2>2
    <3> QED  BY <1>3, <2>2, <3>1
  <2> QED  BY <1>1, <2>1, <2>2
<1>5. w \in Seq(Panes) /\ k \in 1..Len(w) /\ cur \in 1..Len(w) /\ cur # k /\ w[k] = win[cur] /\ w[cur] = win[cur]
  <2>1. k \in 1..(n + 1) /\ cur \in 1..(n + 1) /\ cur # k /\ cur < k /\ ~(k < k)  BY <1>1
  <2>2. \A i \in 1..(n + 1) : w[i] \in Panes  BY <1>1, <1>3, <1>4, <2>1
  <2> HIDE DEF w, k
  <2>3. w \in [1..(n + 1) -> Panes]  BY <1>3, <2>2
  <2>4. n + 1 \in Nat  BY <1>1
  <2>5. w \in Seq(Panes)  BY <2>3, <2>4
  <2> QED  BY <1>3, <2>1, <2>5
<1> HIDE DEF w, k
<1>6. /\ s \in Views /\ s.text = text /\ s.size = size /\ s.psize = psize /\ s.point = point
      /\ s.win = w /\ s.cur = cur
  <2>1. cur \in Nat  BY <1>1
  <2>2. s = [text |-> text, size |-> size, psize |-> psize, point |-> point, cpoint |-> cpoint,
             lost |-> lost, win |-> w, cur |-> cur]
    BY DEF Now
  <2> HIDE DEF s
  <2> QED  BY <1>1, <1>5, <2>1, <2>2 DEF Views
<1> HIDE DEF s
<1>7. b \in Buffers /\ s.win[k].buf = b /\ k \in 1..Len(s.win)  BY <1>1, <1>5, <1>6
<1> HIDE DEF b
<1>8. /\ u \in Views /\ u.text = text /\ u.psize = psize /\ u.point = point
      /\ u.cur = cur /\ Len(u.win) = Len(w)
      /\ u.size[b] = text[b] /\ \A d \in Buffers : d # b => u.size[d] = size[d]
      /\ u.win[k].buf = b /\ u.win[k].point = point[b]
      /\ \A j \in 1..Len(w) : j # k => u.win[j] = w[j]
  <2>1. LET t == B2w(s, k)
            e == s.win[k].buf
        IN  /\ t \in Views /\ t.text = s.text /\ t.psize = s.psize /\ t.point = s.point
            /\ t.cur = s.cur /\ Len(t.win) = Len(s.win)
            /\ t.size[e] = s.text[e] /\ \A d \in Buffers : d # e => t.size[d] = s.size[d]
            /\ t.win[k].buf = e /\ t.win[k].point = s.point[e]
            /\ \A j \in 1..Len(s.win) : j # k => t.win[j] = s.win[j]
    BY <1>6, <1>7, B2wIs
  <2> HIDE DEF u
  <2> QED  BY <1>6, <1>7, <2>1 DEF u
<1> HIDE DEF u
<1>9. u.win[u.cur].buf = b  BY <1>5, <1>8 DEF b
<1>10. ASSUME NEW i \in 1..Len(u.win), i # u.cur
       PROVE  /\ u.win[i].point \in 0..u.text[u.win[i].buf]
              /\ u.win[i].buf # u.win[u.cur].buf => u.size[u.win[i].buf] = u.text[u.win[i].buf]
              /\ u.win[i].buf = u.win[u.cur].buf =>
                   u.win[i].point <= u.point[u.win[i].buf] \/ u.psize[u.win[i].buf] = u.text[u.win[i].buf]
  <2>1. CASE i = k
    <3>1. point[b] \in 0..text[b]  BY <1>1, <1>7
    <3>2. text[b] \in 0..MaxText  BY <1>1, <1>7
    <3>3. point[b] <= point[b]  BY <3>1, <3>2 DEF Limits
    <3> QED  BY <1>8, <1>9, <2>1, <3>1, <3>3
  <2>2. CASE i # k
    <3>1. PICK j \in 1..n : w[i] = win[j] /\ j # cur  BY <1>3, <1>4, <1>8, <1>10, <2>2
    <3>2. u.win[i] = win[j]  BY <1>8, <2>2, <3>1
    <3>3. n # 1
      <4>1. cur \in 1..n /\ j \in 1..n /\ j # cur /\ n \in Nat  BY <1>1, <3>1
      <4> HIDE DEF n
      <4> QED  BY <4>1
    <3> QED  BY <1>1, <1>8, <1>9, <3>2, <3>3
  <2> QED  BY <2>1, <2>2
<1>11. Ready(u)
  <2>1. Shaped(u)  BY <1>5, <1>8 DEF Shaped
  <2>2. \A d \in Buffers : u.point[d] \in 0..u.text[d]  BY <1>1, <1>8
  <2>3. \A d \in Buffers : d # u.win[u.cur].buf => u.psize[d] = u.size[d]  BY <1>1, <1>8, <1>9
  <2> QED  BY <1>10, <2>1, <2>2, <2>3, ReadyIf
<1> DEFINE m == All(s)
           r == Refreshed(u, m)
<1> HIDE DEF m
<1>12. Kept(r)  BY <1>11, RefreshedIs
<1>13. Become(r, {})  BY <1>2 DEF m
<1> HIDE DEF r
<1>14. Ready(r)  BY <1>12, AtRest
<1>15. IInv' /\ Len(win') = Len(r.win)  BY <1>13, <1>14, Becomes
<1>16. Len(r.win) = Len(u.win)  BY <1>11, RefreshedIs DEF r
<1>17. n + 1 # n
  <2>1. n \in Nat  BY <1>1
  <2> HIDE DEF n
  <2> QED  BY <2>1
<1> QED  BY <1>3, <1>8, <1>15, <1>16, <1>17

(* w2b() puts back what a window kept, unchanged between two commands.      *)
LEMMA W2bIfSharedIs ==
  ASSUME NEW s, Kept(s), NEW u \in Views, u.win = s.win, u.text = s.text, u.size = s.size, u.psize = s.psize,
         u.point = s.point, NEW i \in 1..Len(s.win)
  PROVE  LET t == W2bIfShared(u, i)
         IN  /\ t \in Views /\ t.text = s.text /\ t.size = s.size /\ t.psize = s.psize /\ t.win = s.win
             /\ t.cur = u.cur /\ t.lost = u.lost
             /\ \A d \in Buffers : t.point[d] \in 0..s.text[d]
             /\ Count(u, s.win[i].buf) > 1 => t.point[s.win[i].buf] = s.win[i].point
<1> DEFINE t == W2bIfShared(u, i)
           v == W2b(u, i)
           b == s.win[i].buf
           p == s.win[i].point
<1>1. /\ s \in Views
      /\ \A d \in Buffers : s.point[d] \in 0..s.text[d] /\ s.text[d] \in 0..MaxText /\ s.psize[d] = s.size[d]
      /\ b \in Buffers /\ p \in 0..s.text[b]
  BY KeptFields
<1>2. /\ v \in Views /\ v.text = u.text /\ v.size = u.size /\ v.psize = u.psize
      /\ v.lost = u.lost /\ v.cur = u.cur /\ v.win = u.win
      /\ v.point[b] = IF p > u.cpoint[b] THEN p + (u.size[b] - u.psize[b]) ELSE p
      /\ \A d \in Buffers : d # b => v.point[d] = u.point[d]
  BY W2bIs
<1>3. t = IF Count(u, u.win[i].buf) > 1 THEN v ELSE u  BY DEF W2bIfShared
<1> HIDE DEF t, v, b, p
<1>4. v.point[b] = p
  <2>1. s.size[b] \in 0..MaxText /\ u.size[b] = u.psize[b]  BY <1>1, ViewFields
  <2>2. p + (u.size[b] - u.psize[b]) = p  BY <1>1, <2>1
  <2> QED  BY <1>2, <2>2
<1>5. ASSUME NEW d \in Buffers PROVE v.point[d] \in 0..s.text[d] /\ u.point[d] \in 0..s.text[d]
  BY <1>1, <1>2, <1>4
<1>6. CASE Count(u, b) > 1
  <2>1. t = v  BY <1>3, <1>6 DEF b
  <2>2. /\ v \in Views /\ v.text = s.text /\ v.size = s.size /\ v.psize = s.psize /\ v.win = s.win
        /\ v.cur = u.cur /\ v.lost = u.lost
        /\ \A d \in Buffers : v.point[d] \in 0..s.text[d]
    BY <1>2, <1>5
  <2> QED  BY <1>4, <2>1, <2>2 DEF t, b, p
<1>7. CASE ~(Count(u, b) > 1)
  <2>1. t = u  BY <1>3, <1>7 DEF b
  <2> QED  BY <1>5, <1>7, <2>1 DEF t, b
<1> QED  BY <1>6, <1>7

(* The record of the variables, with other windows.                         *)
Arranged(w, l, c) ==
  [text |-> text, size |-> size, psize |-> psize, point |-> point, cpoint |-> cpoint,
   lost |-> l, win |-> w, cur |-> c]

(* What its fields are.                                                     *)
LEMMA ArrangedIs ==
  ASSUME IInv, NEW w \in Seq(Panes), NEW c \in Nat, NEW l \in [Buffers -> Nat]
  PROVE  LET u == Arranged(w, l, c)
         IN  /\ u \in Views /\ u.text = text /\ u.size = size /\ u.psize = psize /\ u.point = point
             /\ u.win = w /\ u.lost = l /\ u.cur = c
<1> DEFINE u == Arranged(w, l, c)
<1>1. /\ text \in [Buffers -> 0..MaxText] /\ size \in [Buffers -> 0..MaxText] /\ psize \in [Buffers -> 0..MaxText]
      /\ cpoint \in [Buffers -> 0..MaxText] /\ point \in [Buffers -> Int]
  BY InvParts
<1>2. u = [text |-> text, size |-> size, psize |-> psize, point |-> point, cpoint |-> cpoint,
           lost |-> l, win |-> w, cur |-> c]
  BY DEF Arranged
<1> HIDE DEF u
<1>3. /\ u \in Views /\ u.text = text /\ u.size = size /\ u.psize = psize /\ u.point = point
      /\ u.win = w /\ u.lost = l /\ u.cur = c
  BY <1>1, <1>2 DEF Views
<1> QED  BY <1>3 DEF u

(* It is what the actions make of the variables, field by field.            *)
LEMMA ExceptIs ==
  ASSUME NEW w, NEW c
  PROVE  /\ [Now EXCEPT !.win = w] = Arranged(w, lost, cur)
         /\ [Now EXCEPT !.cur = c] = Arranged(win, lost, c)
         /\ [Now EXCEPT !.win = w, !.cur = c] = Arranged(w, lost, c)
<1> DEFINE a == [Now EXCEPT !.win = w]
<1>1. a = Arranged(w, lost, cur)  BY DEF Now, Arranged
<1>2. [Now EXCEPT !.cur = c] = Arranged(win, lost, c)  BY DEF Now, Arranged
<1>3. [Now EXCEPT !.win = w, !.cur = c] = [a EXCEPT !.cur = c]  OBVIOUS
<1> HIDE DEF a
<1>4. [a EXCEPT !.cur = c] = Arranged(w, lost, c)  BY <1>1 DEF Arranged
<1> QED  BY <1>1, <1>2, <1>3, <1>4 DEF a

(* The same when a field is replaced as a whole.                            *)
LEMMA ExceptAllIs ==
  ASSUME NEW w, NEW l, NEW c
  PROVE  [Now EXCEPT !.win = w, !.lost = l, !.cur = c] = Arranged(w, l, c)
<1> DEFINE a == [Now EXCEPT !.win = w]
           b == [a EXCEPT !.lost = l]
<1>1. a = Arranged(w, lost, cur)  BY ExceptIs
<1>2. [Now EXCEPT !.win = w, !.lost = l, !.cur = c] = [b EXCEPT !.cur = c]  OBVIOUS
<1> HIDE DEF a
<1>3. b = Arranged(w, l, cur)  BY <1>1 DEF Arranged
<1> HIDE DEF b
<1>4. [b EXCEPT !.cur = c] = Arranged(w, l, c)  BY <1>3 DEF Arranged
<1> QED  BY <1>2, <1>4

(* The variables, as the record that the functions of the core take.        *)
LEMMA NowIs ==
  ASSUME IInv
  PROVE  /\ Kept(Now) /\ Now \in Views /\ Now.text = text /\ Now.size = size /\ Now.psize = psize
         /\ Now.point = point /\ Now.cpoint = cpoint /\ Now.lost = lost /\ Now.win = win /\ Now.cur = cur
<1>1. Kept(Now)  BY DEF IInv
<1>2. Now \in Views  BY <1>1, KeptFields
<1> QED  BY <1>1, <1>2 DEF Now

(* Another window selected: where it left the cursor, the buffer has it.    *)
LEMMA SelectIs ==
  ASSUME Limits, IInv, NEW i \in 1..Len(win), i # cur, NEW marked,
         Become(W2bIfShared([Now EXCEPT !.cur = i], i), marked)
  PROVE  /\ IInv' /\ cur' = i /\ win'[i].buf = win[i].buf
         /\ Count(Now, win[i].buf) > 1 => point'[win[i].buf] = win[i].point
<1> DEFINE u == [Now EXCEPT !.cur = i]
           t == W2bIfShared(u, i)
           s == Now
<1>1. /\ win \in Seq(Panes) /\ Len(win) \in Nat /\ lost \in [Buffers -> Nat] /\ cur \in 1..Len(win)
  BY InvParts
<1>2. i \in Nat  BY <1>1
<1>3. /\ u \in Views /\ u.text = text /\ u.size = size /\ u.psize = psize /\ u.point = point
      /\ u.win = win /\ u.lost = lost /\ u.cur = i
  <2>1. u = Arranged(win, lost, i)  BY ExceptIs
  <2> HIDE DEF u
  <2> QED  BY <1>1, <1>2, <2>1, ArrangedIs
<1>4. /\ Kept(s) /\ s.text = text /\ s.size = size /\ s.psize = psize /\ s.point = point /\ s.win = win
      /\ s.lost = lost
  BY NowIs
<1>5. Count(u, win[i].buf) = Count(Now, win[i].buf)  BY <1>3, <1>4 DEF Count
<1> HIDE DEF u, s
<1>6. /\ t \in Views /\ t.text = s.text /\ t.size = s.size /\ t.psize = s.psize /\ t.win = s.win /\ t.cur = u.cur
      /\ \A d \in Buffers : t.point[d] \in 0..s.text[d]
      /\ Count(u, s.win[i].buf) > 1 => t.point[s.win[i].buf] = s.win[i].point
  <2>1. u.win = s.win /\ u.text = s.text /\ u.size = s.size /\ u.psize = s.psize /\ u.point = s.point
    BY <1>3, <1>4
  <2>2. i \in 1..Len(s.win)  BY <1>4
  <2> QED  BY <1>3, <1>4, <2>1, <2>2, W2bIfSharedIs
<1>7. Become(t, marked)  BY DEF u
<1> HIDE DEF t
<1>8. t.win = win /\ t.cur = i /\ t.cur \in 1..Len(t.win) /\ t.win[t.cur].buf = win[i].buf  BY <1>3, <1>4, <1>6
<1>9. Len(win) # 1
  <2> DEFINE n == Len(win)
  <2>1. n \in Nat /\ cur \in 1..n /\ i \in 1..n  BY <1>1
  <2> HIDE DEF n
  <2>2. n # 1  BY <2>1
  <2> QED  BY <2>2 DEF n
<1>10. Ready(t)
  <2>1. \A j \in 1..Len(t.win) : j # t.cur => Len(s.win) # 1 /\ \E k \in 1..Len(s.win) : t.win[j] = s.win[k]
    BY <1>4, <1>6, <1>9
  <2> QED  BY <1>4, <1>6, <1>8, <2>1, Rearranged
<1>11. /\ IInv' /\ cur' = t.cur
       /\ LET b == t.win[t.cur].buf IN point'[b] = t.point[b]
       /\ \A j \in 1..Len(t.win) : win'[j].buf = t.win[j].buf
  BY <1>7, <1>10, Becomes
<1> QED  BY <1>4, <1>5, <1>6, <1>8, <1>11

(* One window left.                                                         *)
LEMMA DeleteOthersStep ==
  ASSUME Limits, IInv, DeleteOtherWindows
  PROVE  IInv' /\ (cur' = cur \/ Len(win') # Len(win))
<1> DEFINE e == win[cur]
           w == <<e>>
           c == 1
           u == [Now EXCEPT !.win = w, !.cur = 1]
<1>1. /\ win \in Seq(Panes) /\ lost \in [Buffers -> Nat] /\ cur \in 1..Len(win) /\ e \in Panes
      /\ \A d \in Buffers : point[d] \in 0..text[d]
  BY InvParts
<1> HIDE DEF e
<1>2. w \in Seq(Panes) /\ Len(w) = 1 /\ c \in Nat /\ c \in 1..1  BY <1>1
<1>3. Become(u, {})
  <2>1. u = [Now EXCEPT !.win = <<win[cur]>>, !.cur = 1]  BY DEF e
  <2> QED  BY <2>1 DEF DeleteOtherWindows
<1>4. /\ u \in Views /\ u.text = text /\ u.size = size /\ u.psize = psize /\ u.point = point
      /\ u.win = w /\ u.cur = c
  <2>1. u = Arranged(w, lost, c)  BY ExceptIs
  <2> HIDE DEF u, w, c
  <2> QED  BY <1>1, <1>2, <2>1, ArrangedIs
<1>5. c = 1 /\ \A i \in 1..1 : i = c  OBVIOUS
<1> HIDE DEF u, w, c
<1> DEFINE s == Now
<1>6. Kept(s) /\ s.text = text /\ s.size = size /\ s.psize = psize  BY NowIs
<1> HIDE DEF s
<1>7. Ready(u)  BY <1>1, <1>2, <1>4, <1>5, <1>6, Rearranged
<1>8. Len(win) > 1  BY DEF DeleteOtherWindows
<1>9. IInv' /\ Len(win') = Len(u.win)  BY <1>3, <1>7, Becomes
<1>10. Len(win') = 1 /\ Len(win) # 1
  <2>1. Len(win') = 1  BY <1>2, <1>4, <1>9
  <2> DEFINE n == Len(win)
  <2>2. n > 1  BY <1>8
  <2>3. n \in Nat  BY InvParts
  <2> HIDE DEF n
  <2>4. n # 1  BY <2>2, <2>3
  <2> QED  BY <2>1, <2>4 DEF n
<1> QED  BY <1>9, <1>10

(* A window less, whose place others take, and the cursors where they were. *)
LEMMA RemovedReady ==
  ASSUME IInv, Len(win) # 1, NEW k \in 1..Len(win), NEW u \in Views, u.win = RemoveAt(win, k), u.cur \in 1..(Len(win) - 1),
         u.text = text, u.size = size, u.psize = psize, \A d \in Buffers : u.point[d] \in 0..text[d]
  PROVE  Ready(u)
<1> DEFINE n == Len(win)
           s == Now
<1>1. n \in Nat /\ DOMAIN win = 1..n /\ win \in Seq(Panes)  BY InvParts
<1>2. Kept(s) /\ s.text = text /\ s.size = size /\ s.psize = psize /\ s.win = win  BY NowIs
<1>3. Len(u.win) = n - 1 /\ \A i \in 1..(n - 1) : u.win[i] = IF i < k THEN win[i] ELSE win[i + 1]
  <2>1. IsSeq(win)
    <3>1. win = [i \in 1..Len(win) |-> win[i]]  BY <1>1
    <3> QED  BY <1>1, <3>1 DEF IsSeq
  <2> DEFINE v == RemoveAt(win, k)
  <2>2. /\ Len(v) = Len(win) - 1
        /\ \A i \in 1..(Len(win) - 1) : v[i] = IF i < k THEN win[i] ELSE win[i + 1]
    BY <2>1, Removed
  <2> HIDE DEF v
  <2> QED  BY <2>2 DEF v
<1>4. ASSUME NEW i \in 1..(n - 1) PROVE \E j \in 1..n : u.win[i] = win[j]
  <2>1. i \in 1..n /\ i + 1 \in 1..n  BY <1>1
  <2> QED  BY <1>3, <2>1
<1> HIDE DEF s
<1>5. \A i \in 1..Len(u.win) : i # u.cur => Len(s.win) # 1 /\ \E j \in 1..Len(s.win) : u.win[i] = s.win[j]
  BY <1>2, <1>3, <1>4
<1>6. u.cur \in 1..Len(u.win)  BY <1>3
<1> QED  BY <1>2, <1>5, <1>6, Rearranged

(* The window above takes the place of the selected one, or the one below.  *)
LEMMA DeleteWindowStep ==
  ASSUME Limits, IInv, DeleteWindow
  PROVE  IInv' /\ (cur' = cur \/ Len(win') # Len(win))
<1> DEFINE heir == IF cur = 1 THEN 2 ELSE cur - 1
           c == IF cur = 1 THEN 1 ELSE heir
           n == Len(win)
           s == Now
           t == W2bIfShared(s, heir)
           w == RemoveAt(win, cur)
           u == [[t EXCEPT !.win = w] EXCEPT !.cur = c]
           m == All(u)
<1>1. /\ win \in Seq(Panes) /\ n \in Nat /\ DOMAIN win = 1..n /\ cur \in 1..n
      /\ \A i \in 1..n : win[i] \in Panes
  BY InvParts
<1>2. n > 1  BY DEF DeleteWindow
<1> HIDE DEF n
<1>3. heir \in 1..n /\ c \in 1..(n - 1)  BY <1>1, <1>2
<1> HIDE DEF heir, c
<1>4. /\ Kept(s) /\ s \in Views /\ s.text = text /\ s.size = size /\ s.psize = psize
      /\ s.win = win
  BY NowIs
<1> HIDE DEF s
<1>5. /\ t \in Views /\ t.text = s.text /\ t.size = s.size /\ t.psize = s.psize /\ t.win = s.win
      /\ \A d \in Buffers : t.point[d] \in 0..s.text[d]
  <2>1. heir \in 1..Len(s.win)  BY <1>3, <1>4 DEF n
  <2> QED  BY <1>4, <2>1, W2bIfSharedIs
<1>6. Become(u, m)
  <2>1. LET v == [t EXCEPT !.win = RemoveAt(@, cur), !.cur = c] IN Become(v, All(v))
    BY DEF DeleteWindow, t, s, heir, c
  <2>2. [t EXCEPT !.win = RemoveAt(@, cur), !.cur = c] = [[t EXCEPT !.win = RemoveAt(t.win, cur)] EXCEPT !.cur = c]
    <3> HIDE DEF t
    <3> QED  OBVIOUS
  <2>3. t.win = win  BY <1>4, <1>5
  <2> HIDE DEF t
  <2> QED  BY <2>1, <2>2, <2>3
<1> HIDE DEF t, m
<1>7. w \in Seq(Panes)
  <2>1. IsSeq(win)
    <3>1. win = [i \in 1..Len(win) |-> win[i]]  BY <1>1 DEF n
    <3> QED  BY <1>1, <3>1 DEF IsSeq, n
  <2> DEFINE v == RemoveAt(win, cur)
  <2>2. /\ IsSeq(v) /\ Len(v) = Len(win) - 1
        /\ \A i \in 1..(Len(win) - 1) : v[i] = IF i < cur THEN win[i] ELSE win[i + 1]
    BY <1>1, <2>1, Removed DEF n
  <2> HIDE DEF v
  <2>3. ASSUME NEW i \in 1..(n - 1) PROVE v[i] \in Panes
    <3>1. i \in 1..n /\ i + 1 \in 1..n  BY <1>1
    <3> QED  BY <1>1, <2>2, <3>1 DEF n
  <2>4. v \in [1..(n - 1) -> Panes] /\ n - 1 \in Nat  BY <1>1, <1>2, <2>2, <2>3 DEF IsSeq, n
  <2>5. v \in Seq(Panes)  BY <2>4
  <2> QED  BY <2>5 DEF v
<1> HIDE DEF w
<1>8. /\ u \in Views /\ u.win = w /\ u.cur = c /\ u.text = text /\ u.size = size /\ u.psize = psize
      /\ u.point = t.point
  <2> DEFINE a == [t EXCEPT !.win = w]
  <2>1. /\ a \in Views /\ a.win = w /\ a.text = t.text /\ a.size = t.size /\ a.psize = t.psize
        /\ a.point = t.point
    BY <1>5, <1>7 DEF Views
  <2>2. u = [a EXCEPT !.cur = c] /\ c \in Nat  BY <1>1, <1>3
  <2> HIDE DEF a, u
  <2>3. /\ u \in Views /\ u.win = a.win /\ u.cur = c /\ u.text = a.text /\ u.size = a.size /\ u.psize = a.psize
        /\ u.point = a.point
    BY <2>1, <2>2 DEF Views
  <2> QED  BY <1>4, <1>5, <2>1, <2>3
<1> HIDE DEF u
<1>9. Ready(u)
  <2>1. Len(win) # 1 /\ cur \in 1..Len(win) /\ u.cur \in 1..(Len(win) - 1)  BY <1>1, <1>2, <1>3, <1>8 DEF n
  <2>2. u.win = RemoveAt(win, cur)  BY <1>8 DEF w
  <2>3. \A d \in Buffers : u.point[d] \in 0..text[d]  BY <1>4, <1>5, <1>8
  <2> QED  BY <1>8, <2>1, <2>2, <2>3, RemovedReady
<1>10. IInv' /\ Len(win') = Len(u.win)  BY <1>6, <1>9, Becomes
<1>11. Len(u.win) = n - 1
  <2>1. win = [i \in 1..Len(win) |-> win[i]]  BY <1>1 DEF n
  <2>2. IsSeq(win)  BY <1>1, <2>1 DEF IsSeq, n
  <2> DEFINE v == RemoveAt(win, cur)
  <2>3. Len(v) = Len(win) - 1  BY <1>1, <2>2, Removed DEF n
  <2> QED  BY <1>8, <2>3 DEF n, w
<1>12. n - 1 # n  BY <1>1
<1> QED  BY <1>10, <1>11, <1>12 DEF n

(* A window dropped by the screen, or none.                                 *)
LEMMA ResizeStep ==
  ASSUME Limits, IInv, Resize
  PROVE  IInv' /\ (cur' = cur \/ Len(win') # Len(win))
<1> DEFINE n == Len(win)
<1>1. /\ win \in Seq(Panes) /\ n \in Nat /\ DOMAIN win = 1..n /\ cur \in 1..n /\ lost \in [Buffers -> Nat]
      /\ \A i \in 1..n : win[i] \in Panes /\ win[i].buf \in Buffers
      /\ \A d \in Buffers : point[d] \in 0..text[d]
  BY InvParts
<1>2. PICK left \in {n, n - 1} \ {0} :
        LET gone == IF left = Len(win) THEN 0 ELSE IF cur = Len(win) THEN left ELSE Len(win)
            s    == IF gone = 0 THEN Now
                    ELSE [Now EXCEPT !.win = RemoveAt(@, gone), !.lost[win[gone].buf] = @ + 1,
                                     !.cur = IF cur > gone THEN @ - 1 ELSE @]
        IN  Become(s, All(s))
  BY DEF Resize
<1> DEFINE gone == IF left = n THEN 0 ELSE IF cur = n THEN left ELSE n
           c == IF cur > gone THEN cur - 1 ELSE cur
           w == RemoveAt(win, gone)
           l == [lost EXCEPT ![win[gone].buf] = lost[win[gone].buf] + 1]
           s == IF gone = 0 THEN Now ELSE [Now EXCEPT !.win = w, !.lost = l, !.cur = c]
           m == All(s)
<1>3. Become(s, m)
  <2> DEFINE t == IF gone = 0 THEN Now
                  ELSE [Now EXCEPT !.win = RemoveAt(@, gone), !.lost[win[gone].buf] = @ + 1,
                                   !.cur = IF cur > gone THEN @ - 1 ELSE @]
  <2>1. Become(t, All(t))  BY <1>2
  <2>2. t = s
    <3> HIDE DEF gone
    <3> DEFINE a == [Now EXCEPT !.win = RemoveAt(Now.win, gone)]
               b == [a EXCEPT !.lost = [Now.lost EXCEPT ![win[gone].buf] = Now.lost[win[gone].buf] + 1]]
    <3>1. [Now EXCEPT !.win = RemoveAt(@, gone), !.lost[win[gone].buf] = @ + 1,
                      !.cur = IF cur > gone THEN @ - 1 ELSE @]
          = [Now EXCEPT !.win = RemoveAt(Now.win, gone),
                        !.lost = [Now.lost EXCEPT ![win[gone].buf] = Now.lost[win[gone].buf] + 1],
                        !.cur = IF cur > gone THEN Now.cur - 1 ELSE Now.cur]
      OBVIOUS
    <3>2. Now.win = win /\ Now.lost = lost /\ Now.cur = cur  BY DEF Now
    <3> QED  BY <3>1, <3>2
  <2> QED  BY <2>1, <2>2
<1> HIDE DEF m, s
<1>4. CASE gone = 0
  <2>1. s = Now  BY <1>4 DEF s
  <2>2. Ready(s) /\ s.cur = cur  BY <2>1, NowIs, AtRest
  <2> QED  BY <1>3, <2>2, Becomes
<1>5. CASE gone # 0
  <2>1. left = n - 1 /\ n - 1 # 0  BY <1>1, <1>5
  <2> HIDE DEF n
  <2>2. gone \in 1..n /\ c \in 1..(n - 1) /\ n # 1  BY <1>1, <2>1
  <2>3. l \in [Buffers -> Nat]
    <3> DEFINE b == win[gone].buf
    <3>1. b \in Buffers  BY <1>1, <2>2
    <3> HIDE DEF b, gone
    <3>2. lost[b] + 1 \in Nat  BY <1>1, <3>1
    <3>3. [lost EXCEPT ![b] = lost[b] + 1] \in [Buffers -> Nat]  BY <1>1, <3>1, <3>2
    <3> QED  BY <3>3 DEF b
  <2> HIDE DEF gone, c, l
  <2>4. w \in Seq(Panes)
    <3>1. IsSeq(win)
      <4>1. win = [i \in 1..Len(win) |-> win[i]]  BY <1>1 DEF n
      <4> QED  BY <1>1, <4>1 DEF IsSeq, n
    <3> DEFINE v == RemoveAt(win, gone)
    <3>2. /\ IsSeq(v) /\ Len(v) = Len(win) - 1
          /\ \A i \in 1..(Len(win) - 1) : v[i] = IF i < gone THEN win[i] ELSE win[i + 1]
      BY <2>2, <3>1, Removed DEF n
    <3> HIDE DEF v
    <3>3. ASSUME NEW i \in 1..(n - 1) PROVE v[i] \in Panes
      <4>1. i \in 1..n /\ i + 1 \in 1..n  BY <1>1
      <4> QED  BY <1>1, <3>2, <4>1 DEF n
    <3>4. v \in [1..(n - 1) -> Panes] /\ n - 1 \in Nat  BY <1>1, <2>2, <3>2, <3>3 DEF IsSeq, n
    <3>5. v \in Seq(Panes)  BY <3>4
    <3> QED  BY <3>5 DEF v
  <2> HIDE DEF w
  <2>5. c \in Nat  BY <1>1, <2>2
  <2>a. s = [Now EXCEPT !.win = w, !.lost = l, !.cur = c]  BY <1>5 DEF s
  <2>b. [Now EXCEPT !.win = w, !.lost = l, !.cur = c] = Arranged(w, l, c)  BY ExceptAllIs
  <2>6. s = Arranged(w, l, c)  BY Zenon, <2>a, <2>b
  <2>7. /\ s \in Views /\ s.text = text /\ s.size = size /\ s.psize = psize /\ s.point = point
        /\ s.win = w /\ s.cur = c
    BY <2>3, <2>4, <2>5, <2>6, ArrangedIs
  <2>8. Ready(s)
    <3>1. s.win = RemoveAt(win, gone) /\ s.cur \in 1..(Len(win) - 1) /\ gone \in 1..Len(win) /\ Len(win) # 1
      BY <2>2, <2>7 DEF n, w
    <3>2. \A d \in Buffers : s.point[d] \in 0..text[d]  BY <1>1, <2>7
    <3> QED  BY <2>7, <3>1, <3>2, RemovedReady
  <2>9. IInv' /\ Len(win') = Len(s.win)  BY <1>3, <2>8, Becomes
  <2>10. Len(s.win) = n - 1
    <3>1. win = [i \in 1..Len(win) |-> win[i]]  BY <1>1 DEF n
    <3>2. IsSeq(win)  BY <1>1, <3>1 DEF IsSeq, n
    <3> DEFINE v == RemoveAt(win, gone)
    <3>3. Len(v) = Len(win) - 1  BY <2>2, <3>2, Removed DEF n
    <3> QED  BY <2>7, <3>3 DEF n, w
  <2>11. n - 1 # n  BY <1>1
  <2> QED  BY <2>9, <2>10, <2>11 DEF n
<1> QED  BY <1>4, <1>5

(* The selected window shows another buffer.                                *)
LEMMA ShowBufferStep ==
  ASSUME Limits, IInv, ShowBuffer
  PROVE  IInv' /\ (cur' = cur \/ Len(win') # Len(win))
<1>1. /\ win \in Seq(Panes) /\ Len(win) \in Nat /\ DOMAIN win = 1..Len(win) /\ cur \in 1..Len(win)
      /\ lost \in [Buffers -> Nat] /\ win[cur] \in Panes
      /\ \A d \in Buffers : point[d] \in 0..text[d]
  BY InvParts
<1>2. PICK i \in DOMAIN win, b \in Buffers :
        (i = cur \/ "popups" \in Extras) /\ Become([Now EXCEPT !.win[i].buf = b], {i})
  BY DEF ShowBuffer
<1>3. i = cur  BY <1>2 DEF Limits
<1> DEFINE e == [win[cur] EXCEPT !.buf = b]
           w == [win EXCEPT ![cur] = e]
           u == [Now EXCEPT !.win = w]
<1>4. Become(u, {cur})
  <2>1. [Now EXCEPT !.win[cur].buf = b] = u
    <3>1. Now.win = win  BY DEF Now
    <3>2. [Now EXCEPT !.win[cur].buf = b] = [Now EXCEPT !.win = [Now.win EXCEPT ![cur].buf = b]]  OBVIOUS
    <3>3. [win EXCEPT ![cur].buf = b] = w  OBVIOUS
    <3> QED  BY <3>1, <3>2, <3>3
  <2> QED  BY <1>2, <1>3, <2>1
<1>5. e \in Panes  BY <1>1 DEF Panes
<1> HIDE DEF e
<1>6. w \in Seq(Panes) /\ Len(w) = Len(win) /\ \A j \in 1..Len(win) : j # cur => w[j] = win[j]
  BY <1>1, <1>5
<1> HIDE DEF w
<1>7. cur \in Nat  BY <1>1
<1>8. u = Arranged(w, lost, cur)  BY ExceptIs
<1> HIDE DEF u
<1>9. /\ u \in Views /\ u.text = text /\ u.size = size /\ u.psize = psize /\ u.point = point
      /\ u.win = w /\ u.cur = cur
  BY <1>1, <1>6, <1>7, <1>8, ArrangedIs
<1> DEFINE s == Now
<1>10. Kept(s) /\ s.text = text /\ s.size = size /\ s.psize = psize /\ s.win = win  BY NowIs
<1> HIDE DEF s
<1>11. ASSUME NEW j \in 1..Len(u.win), j # u.cur
       PROVE  Len(s.win) # 1 /\ \E k \in 1..Len(s.win) : u.win[j] = s.win[k]
  <2> DEFINE n == Len(win)
  <2>1. n \in Nat /\ cur \in 1..n /\ j \in 1..n /\ j # cur  BY <1>1, <1>6, <1>9, <1>11
  <2>2. n # 1
    <3> HIDE DEF n
    <3> QED  BY <2>1
  <2> QED  BY <1>6, <1>9, <1>10, <2>1, <2>2
<1>12. u.cur \in 1..Len(u.win)  BY <1>1, <1>6, <1>9
<1>13. \A d \in Buffers : u.point[d] \in 0..s.text[d]  BY <1>1, <1>9, <1>10
<1>14. Ready(u)  BY <1>9, <1>10, <1>11, <1>12, <1>13, Rearranged
<1> QED  BY <1>4, <1>9, <1>14, Becomes

-----------------------------------------------------------------------------
(* The text                                                                 *)

(* The text of the buffer in the selected window, made longer or shorter by *)
(* k, with the cursor at x.                                                 *)
Edited(k, x) ==
  [text |-> [text EXCEPT ![This] = text[This] + k], size |-> size, psize |-> psize,
   point |-> [point EXCEPT ![This] = x], cpoint |-> cpoint, lost |-> lost, win |-> win, cur |-> cur]

(* It is ready when the other windows on it, moved by k if they are after   *)
(* the cursor, are in the text.                                             *)
LEMMA EditedReady ==
  ASSUME Limits, IInv, NEW k \in Int, text[This] + k \in 0..MaxText, NEW x \in 0..(text[This] + k),
         \A q \in 0..text[This] : (IF q > x THEN q + k ELSE q) \in 0..(text[This] + k)
  PROVE  LET u == Edited(k, x)
         IN  /\ Ready(u) /\ u.cur = cur /\ u.win = win /\ u.text[This] = text[This] + k /\ u.point[This] = x
             /\ \A i \in 1..Len(win) : i # cur =>
                  Moved(u, i) = IF win[i].buf = This /\ win[i].point > x THEN win[i].point + k ELSE win[i].point
<1> DEFINE b == This
           u == Edited(k, x)
           te == [text EXCEPT ![b] = text[b] + k]
           po == [point EXCEPT ![b] = x]
<1>1. /\ text \in [Buffers -> 0..MaxText] /\ size \in [Buffers -> 0..MaxText] /\ psize \in [Buffers -> 0..MaxText]
      /\ cpoint \in [Buffers -> 0..MaxText] /\ point \in [Buffers -> Int] /\ lost \in [Buffers -> Nat]
      /\ win \in Seq(Panes) /\ Len(win) \in Nat /\ DOMAIN win = 1..Len(win) /\ cur \in 1..Len(win)
      /\ \A d \in Buffers : point[d] \in 0..text[d] /\ text[d] \in 0..MaxText /\ psize[d] = size[d]
      /\ \A i \in 1..Len(win) :
           /\ win[i] \in Panes /\ win[i].buf \in Buffers /\ win[i].point \in 0..text[win[i].buf]
           /\ Len(win) # 1 => size[win[i].buf] = text[win[i].buf] /\ psize[win[i].buf] = text[win[i].buf]
  BY InvParts
<1>2. b = win[cur].buf /\ b \in Buffers /\ text[b] \in 0..MaxText  BY <1>1 DEF This
<1>3. u = [text |-> te, size |-> size, psize |-> psize, point |-> po, cpoint |-> cpoint, lost |-> lost,
           win |-> win, cur |-> cur]
  BY DEF Edited
<1>a. text[b] + k \in 0..MaxText /\ x \in 0..(text[b] + k)  OBVIOUS
<1>b. \A q \in 0..text[b] : (IF q > x THEN q + k ELSE q) \in 0..(text[b] + k)  OBVIOUS
<1> HIDE DEF b, u
<1>4. /\ te \in [Buffers -> 0..MaxText] /\ te[b] = text[b] + k
      /\ \A d \in Buffers : d # b => te[d] = text[d]
  BY <1>1, <1>2, <1>a
<1>5. /\ po \in [Buffers -> Int] /\ po[b] = x
      /\ \A d \in Buffers : d # b => po[d] = point[d]
  <2>1. x \in Int  BY <1>2, <1>a
  <2> QED  BY <1>1, <1>2, <2>1
<1> HIDE DEF te, po
<1>6. /\ u \in Views /\ u.text = te /\ u.size = size /\ u.psize = psize /\ u.point = po /\ u.win = win /\ u.cur = cur
  <2>1. cur \in Nat  BY <1>1
  <2> QED  BY <1>1, <1>3, <1>4, <1>5, <2>1 DEF Views
<1>7. ASSUME NEW i \in 1..Len(win), i # cur
      PROVE  /\ size[win[i].buf] = text[win[i].buf] /\ psize[win[i].buf] = text[win[i].buf]
             /\ Moved(u, i) = IF win[i].buf = b /\ win[i].point > x THEN win[i].point + k ELSE win[i].point
             /\ Moved(u, i) \in 0..te[win[i].buf]
  <2> DEFINE n == Len(win)
             e == win[i].buf
             p == win[i].point
             v == Moved(u, i)
  <2>1. n # 1
    <3>1. n \in Nat /\ cur \in 1..n /\ i \in 1..n /\ i # cur  BY <1>1, <1>7
    <3> HIDE DEF n
    <3> QED  BY <3>1
  <2>2. e \in Buffers /\ p \in 0..text[e] /\ size[e] = text[e] /\ psize[e] = text[e] /\ text[e] \in 0..MaxText
    BY <1>1, <2>1
  <2>3. v = IF e = b /\ p > po[b] THEN p + (te[b] - psize[b]) ELSE p
    BY <1>2, <1>6, <1>7 DEF Moved
  <2> HIDE DEF v, e, p, n
  <2>4. CASE e = b /\ p > x
    <3>1. p + (te[b] - psize[b]) = p + k
      <4>1. te[b] = text[b] + k /\ psize[b] = text[b]  BY <1>4, <2>2, <2>4
      <4>2. text[b] \in Int /\ p \in Int  BY <1>2, <2>2
      <4> HIDE DEF te
      <4> QED  BY <4>1, <4>2
    <3>2. v = p + k  BY <1>5, <2>3, <2>4, <3>1
    <3>3. p \in 0..text[b]  BY <2>2, <2>4
    <3>4. p + k \in 0..(text[b] + k)  BY <1>b, <2>4, <3>3
    <3> QED  BY <1>4, <2>2, <2>4, <3>2, <3>4 DEF v, e, p
  <2>5. CASE e = b /\ ~(p > x)
    <3>1. v = p  BY <1>5, <2>3, <2>5
    <3>2. p \in 0..text[b]  BY <2>2, <2>5
    <3>3. p \in 0..(text[b] + k)  BY <1>b, <2>5, <3>2
    <3> QED  BY <1>4, <2>2, <2>5, <3>1, <3>3 DEF v, e, p
  <2>6. CASE e # b
    <3>1. v = p /\ te[e] = text[e]  BY <1>4, <2>2, <2>3, <2>6
    <3> QED  BY <2>2, <2>6, <3>1 DEF v, e, p
  <2> QED  BY <2>4, <2>5, <2>6
<1>8. ASSUME NEW i \in 1..Len(win) PROVE Moved(u, i) \in 0..te[win[i].buf]
  <2>1. CASE i = cur
    <3>1. Moved(u, i) = x  BY <1>2, <1>5, <1>6, <2>1 DEF Moved
    <3> QED  BY <1>2, <1>4, <1>a, <2>1, <3>1
  <2> QED  BY <1>7, <2>1
<1>9. ASSUME NEW d \in Buffers PROVE po[d] \in 0..te[d] /\ psize[d] = size[d]
  <2>1. CASE d = b  BY <1>1, <1>4, <1>5, <1>a, <2>1
  <2>2. CASE d # b  BY <1>1, <1>4, <1>5, <2>2
  <2> QED  BY <2>1, <2>2
<1>10. ASSUME NEW i \in 1..Len(win), i # cur, win[i].buf # b PROVE size[win[i].buf] = te[win[i].buf]
  BY <1>1, <1>4, <1>7, <1>10
<1>11. Shaped(u)  BY <1>1, <1>6 DEF Shaped
<1>12. Ready(u)  BY <1>2, <1>6, <1>8, <1>9, <1>10, <1>11 DEF Ready
<1>13. \A i \in 1..Len(win) : i # cur =>
         Moved(u, i) = IF win[i].buf = b /\ win[i].point > x THEN win[i].point + k ELSE win[i].point
  BY <1>7
<1> QED  BY <1>4, <1>5, <1>6, <1>12, <1>13 DEF u, b

(* What an edit of the text changes: its length by k, and the cursor to x.  *)
(* Of more than one character (a region, see ExtraSteps) nothing is deleted. *)
LEMMA EditIs ==
  ASSUME Limits, IInv, Edit
  PROVE  \E k \in Int : \E x \in 0..(text[This] + k) :
           /\ text[This] + k \in 0..MaxText /\ Become(Edited(k, x), {})
           /\ \/ k = 0
              \/ k > 0 /\ x = point[This] + k
              \/ k = -1
<1> DEFINE b == This
<1>1. /\ win \in Seq(Panes) /\ Len(win) \in Nat /\ DOMAIN win = 1..Len(win) /\ cur \in 1..Len(win)
      /\ text \in [Buffers -> 0..MaxText] /\ point \in [Buffers -> Int]
      /\ \A d \in Buffers : point[d] \in 0..text[d] /\ text[d] \in 0..MaxText
      /\ \A i \in 1..Len(win) : win[i].buf \in Buffers
  BY InvParts
<1>2. b \in Buffers /\ text[b] \in 0..MaxText /\ point[b] \in 0..text[b] /\ MaxText \in Nat
  BY <1>1 DEF This, Limits
<1>3. ASSUME NEW k, NEW x
      PROVE  [Now EXCEPT !.text[b] = Now.text[b] + k, !.point[b] = x] = Edited(k, x)
  <2> DEFINE te == [text EXCEPT ![b] = text[b] + k]
             po == [point EXCEPT ![b] = x]
             a == [Now EXCEPT !.text = te]
  <2>1. a = [text |-> te, size |-> size, psize |-> psize, point |-> point, cpoint |-> cpoint, lost |-> lost,
             win |-> win, cur |-> cur]
    BY DEF Now
  <2>2. Now.text = text /\ a.point = point  BY DEF Now
  <2>3. [Now EXCEPT !.text[b] = Now.text[b] + k, !.point[b] = x]
        = [[Now EXCEPT !.text = [Now.text EXCEPT ![b] = Now.text[b] + k]] EXCEPT !.point = [a.point EXCEPT ![b] = x]]
    <3>1. Now.point = a.point  BY <2>2 DEF Now
    <3> HIDE DEF b
    <3>2. [Now EXCEPT !.text[b] = Now.text[b] + k, !.point[b] = x]
          = [[Now EXCEPT !.text = [Now.text EXCEPT ![b] = Now.text[b] + k]]
               EXCEPT !.point = [Now.point EXCEPT ![b] = x]]
      OBVIOUS
    <3> QED  BY <3>1, <3>2
  <2>4. [Now EXCEPT !.text[b] = Now.text[b] + k, !.point[b] = x] = [a EXCEPT !.point = po]
    BY <2>2, <2>3
  <2> HIDE DEF a
  <2>5. [a EXCEPT !.point = po]
        = [text |-> te, size |-> size, psize |-> psize, point |-> po, cpoint |-> cpoint, lost |-> lost,
           win |-> win, cur |-> cur]
    BY <2>1
  <2> QED  BY <2>4, <2>5 DEF Edited
<1>4. CASE Move
  <2>1. PICK p \in 0..text[b] : Become([Now EXCEPT !.point[b] = p], {})  BY <1>4 DEF Move
  <2> DEFINE k == 0
  <2>2. [Now EXCEPT !.point[b] = p] = Edited(k, p)
    <3> DEFINE po == [point EXCEPT ![b] = p]
               te == [text EXCEPT ![b] = text[b] + k]
    <3>1. text[b] + k = text[b] /\ te = text  BY <1>1, <1>2
    <3> HIDE DEF te, k
    <3>2. Edited(k, p) = [text |-> te, size |-> size, psize |-> psize, point |-> po, cpoint |-> cpoint,
                          lost |-> lost, win |-> win, cur |-> cur]
      BY DEF Edited, te
    <3>3. [Now EXCEPT !.point[b] = p] = [Now EXCEPT !.point = [Now.point EXCEPT ![b] = p]]
      <4> HIDE DEF b
      <4> QED  OBVIOUS
    <3>4. Now.point = point  BY DEF Now
    <3>5. [Now EXCEPT !.point = po] = [text |-> text, size |-> size, psize |-> psize, point |-> po,
                                       cpoint |-> cpoint, lost |-> lost, win |-> win, cur |-> cur]
      BY DEF Now
    <3> QED  BY <3>1, <3>2, <3>3, <3>4, <3>5
  <2>3. k \in Int /\ k = 0 /\ text[b] + k = text[b]  BY <1>2
  <2> HIDE DEF k, b
  <2>4. p \in 0..(text[b] + k) /\ text[b] + k \in 0..MaxText  BY <1>2, <2>3
  <2>5. Become(Edited(k, p), {})  BY <2>1, <2>2
  <2> QED  BY <2>3, <2>4, <2>5 DEF b
<1>5. CASE Insert
  <2>1. PICK n \in 1..(MaxText - text[b]) : Become([Now EXCEPT !.text[b] = @ + n, !.point[b] = @ + n], {})
    BY <1>5 DEF Insert
  <2> DEFINE x == point[b] + n
  <2>2. [Now EXCEPT !.text[b] = @ + n, !.point[b] = @ + n] = Edited(n, x)
    <3>1. Now.point[b] + n = x  BY DEF Now
    <3>2. [Now EXCEPT !.text[b] = @ + n, !.point[b] = @ + n]
          = [Now EXCEPT !.text[b] = Now.text[b] + n, !.point[b] = Now.point[b] + n]
      <4> HIDE DEF b, x
      <4> QED  OBVIOUS
    <3>3. [Now EXCEPT !.text[b] = Now.text[b] + n, !.point[b] = x] = Edited(n, x)  BY <1>3
    <3> HIDE DEF x
    <3> QED  BY <3>1, <3>2, <3>3
  <2> HIDE DEF b
  <2>3. n \in Int /\ n > 0 /\ x \in 0..(text[b] + n) /\ text[b] + n \in 0..MaxText  BY <1>2
  <2>4. Become(Edited(n, x), {})  BY <2>1, <2>2
  <2> QED  BY <2>3, <2>4 DEF b
<1>6. CASE Delete
  <2>1. PICK p \in 0..text[b] : \E n \in 1..(text[b] - p) :
          /\ point[b] \in p..(p + n) /\ (n = 1 \/ "regions" \in Extras)
          /\ Become([Now EXCEPT !.text[b] = @ - n, !.point[b] = p], {})
    BY <1>6 DEF Delete
  <2>2. PICK n \in 1..(text[b] - p) :
          /\ n = 1 \/ "regions" \in Extras
          /\ Become([Now EXCEPT !.text[b] = @ - n, !.point[b] = p], {})
    BY <2>1
  <2>3. n = 1  BY <2>2 DEF Limits
  <2> DEFINE k == -1
  <2>4. [Now EXCEPT !.text[b] = @ - n, !.point[b] = p] = Edited(k, p)
    <3>1. Now.text[b] - n = Now.text[b] + k
      <4>1. Now.text = text  BY DEF Now
      <4>2. text[b] - n = text[b] + k  BY <1>2, <2>3
      <4> QED  BY <4>1, <4>2
    <3>2. [Now EXCEPT !.text[b] = @ - n, !.point[b] = p]
          = [Now EXCEPT !.text[b] = Now.text[b] - n, !.point[b] = p]
      <4> HIDE DEF b
      <4> QED  OBVIOUS
    <3>3. [Now EXCEPT !.text[b] = Now.text[b] + k, !.point[b] = p] = Edited(k, p)  BY <1>3
    <3> HIDE DEF k
    <3> QED  BY <3>1, <3>2, <3>3
  <2> HIDE DEF b
  <2>5. k \in Int /\ k = -1 /\ p \in 0..(text[b] + k) /\ text[b] + k \in 0..MaxText  BY <1>2, <2>3
  <2>6. Become(Edited(k, p), {})  BY <2>2, <2>4
  <2> HIDE DEF k
  <2> QED  BY <2>5, <2>6 DEF b
<1> QED  BY <1>4, <1>5, <1>6 DEF Edit

(* An edit, and where it leaves the other windows' cursors.                 *)
LEMMA EditStep ==
  ASSUME Limits, IInv, Edit
  PROVE  /\ IInv' /\ cur' = cur
         /\ \A i \in DOMAIN win \ {cur} :
              LET q == win[i].point
              IN  win'[i].point = IF win[i].buf # This \/ Overtaken(q) THEN q ELSE Followed(q)
<1> DEFINE b == This
<1>0. PICK k \in Int : \E x \in 0..(text[b] + k) :
        /\ text[b] + k \in 0..MaxText /\ Become(Edited(k, x), {})
        /\ \/ k = 0
           \/ k > 0 /\ x = point[b] + k
           \/ k = -1
  BY EditIs
<1>1. PICK x \in 0..(text[b] + k) :
        /\ text[b] + k \in 0..MaxText /\ Become(Edited(k, x), {})
        /\ \/ k = 0
           \/ k > 0 /\ x = point[b] + k
           \/ k = -1
  BY <1>0
<1>2. /\ DOMAIN win = 1..Len(win) /\ cur \in 1..Len(win) /\ b \in Buffers
      /\ text[b] \in 0..MaxText /\ point[b] \in 0..text[b]
      /\ \A i \in 1..Len(win) : win[i].buf \in Buffers /\ win[i].point \in 0..text[win[i].buf]
  <2>1. /\ DOMAIN win = 1..Len(win) /\ cur \in 1..Len(win)
        /\ \A d \in Buffers : point[d] \in 0..text[d] /\ text[d] \in 0..MaxText
        /\ \A i \in 1..Len(win) : win[i].buf \in Buffers /\ win[i].point \in 0..text[win[i].buf]
    BY InvParts
  <2> QED  BY <2>1 DEF This
<1>3. \A q \in 0..text[b] : (IF q > x THEN q + k ELSE q) \in 0..(text[b] + k)
  <2> HIDE DEF b
  <2> TAKE q \in 0..text[b]
  <2>1. q \in Int /\ 0 <= q /\ q <= text[b] /\ text[b] \in Int /\ x \in Int /\ 0 <= x /\ x <= text[b] + k /\ point[b] \in Int /\ point[b] <= text[b] /\ 0 <= point[b]
    BY <1>1, <1>2
  <2> QED  BY <1>1, <2>1
<1> DEFINE u == Edited(k, x)
<1>4. /\ Ready(u) /\ u.cur = cur /\ u.win = win /\ u.text[b] = text[b] + k /\ u.point[b] = x
      /\ \A i \in 1..Len(win) : i # cur =>
           Moved(u, i) = IF win[i].buf = b /\ win[i].point > x THEN win[i].point + k ELSE win[i].point
  BY <1>1, <1>3, EditedReady
<1>5. Become(u, {})  BY <1>1
<1> HIDE DEF u
<1>6. /\ IInv' /\ text' = u.text /\ cur' = u.cur
      /\ LET d == u.win[u.cur].buf IN point'[d] = u.point[d]
      /\ \A i \in 1..Len(u.win) : win'[i].point = Moved(u, i)
  BY <1>4, <1>5, Becomes
<1>7. point'[b] = x /\ text'[b] = text[b] + k
  <2>1. b = win[cur].buf  BY DEF This
  <2> QED  BY <1>4, <1>6, <2>1
<1>8. ASSUME NEW i \in DOMAIN win \ {cur}
      PROVE  win'[i].point = IF win[i].buf # b \/ Overtaken(win[i].point) THEN win[i].point ELSE Followed(win[i].point)
  <2> DEFINE q == win[i].point
             new == win'[i].point
  <2>1. i \in 1..Len(win) /\ i # cur /\ q \in 0..text[win[i].buf]  BY <1>2
  <2>2. new = IF win[i].buf = b /\ q > x THEN q + k ELSE q  BY <1>4, <1>6, <2>1
  <2>3. CASE win[i].buf # b  BY <2>2, <2>3
  <2>4. CASE win[i].buf = b
    <3>1. q \in 0..text[b] /\ new = IF q > x THEN q + k ELSE q  BY <2>1, <2>2, <2>4
    <3> DEFINE n == text'[b] - text[b]
               old == point[b]
    <3>2. n = k /\ (text'[b] > text[b] <=> k > 0)
      <4>1. text[b] \in Int  BY <1>2
      <4> HIDE DEF b
      <4> QED  BY <1>7, <4>1
    <3>3. q \in Int /\ x \in Int /\ old \in Int
      <4>1. text[b] \in Int  BY <1>2
      <4> QED  BY <1>1, <1>2, <3>1, <4>1
    <3>4. /\ Overtaken(q) <=> k > 0 /\ old < q /\ q <= x
          /\ Followed(q) = LET at == IF k >= 0 THEN old ELSE x IN IF q <= at THEN q ELSE q + k
      <4>1. Overtaken(q) <=> text'[b] > text[b] /\ old < q /\ q <= point'[b]  BY DEF Overtaken
      <4>2. Followed(q) = LET at == IF n >= 0 THEN old ELSE point'[b] IN IF q <= at THEN q ELSE q + n  BY DEF Followed
      <4> HIDE DEF b, n, old, q
      <4> QED  BY <1>7, <3>2, <4>1, <4>2
    <3> HIDE DEF n, new, q
    <3>5. new = IF Overtaken(q) THEN q ELSE Followed(q)
      <4>1. k = 0 \/ (k > 0 /\ x = old + k) \/ k = -1  BY <1>1
      <4> HIDE DEF b, old
      <4>2. CASE k = 0  BY <3>1, <3>3, <3>4, <4>2
      <4>3. CASE k > 0 /\ x = old + k
        <5>1. CASE q <= old
          <6>1. ~(q > x) /\ ~Overtaken(q) /\ Followed(q) = q  BY <3>3, <3>4, <4>3, <5>1
          <6> QED  BY <3>1, <6>1
        <5>2. CASE old < q /\ q <= x
          <6>1. ~(q > x) /\ Overtaken(q)  BY <3>3, <3>4, <4>3, <5>2
          <6> QED  BY <3>1, <6>1
        <5>3. CASE q > x
          <6>1. ~(q <= old) /\ ~(q <= x)  BY <3>3, <4>3, <5>3
          <6>2. ~Overtaken(q) /\ Followed(q) = q + k  BY <3>3, <3>4, <4>3, <6>1
          <6> QED  BY <3>1, <5>3, <6>2
        <5>4. q <= old \/ (old < q /\ q <= x) \/ q > x  BY <3>3, <4>3
        <5> QED  BY <5>1, <5>2, <5>3, <5>4
      <4>4. CASE k = -1
        <5>1. ~Overtaken(q) /\ Followed(q) = IF q <= x THEN q ELSE q + k  BY <3>3, <3>4, <4>4
        <5>2. q <= x <=> ~(q > x)  BY <3>3
        <5> QED  BY <3>1, <5>1, <5>2
      <4> QED  BY <4>1, <4>2, <4>3, <4>4
    <3> QED  BY <2>4, <3>5 DEF q, new
  <2> QED  BY <2>3, <2>4
<1> QED  BY <1>4, <1>6, <1>8

(* Text at the end of the buffer, and the cursors of its windows after it:  *)
(* of another buffer (see ExtraSteps) there is none.                        *)
LEMMA AppendStep ==
  ASSUME Limits, IInv, AppendString
  PROVE  IInv' /\ (cur' = cur \/ Len(win') # Len(win))
<1> DEFINE b == This
<1>1. /\ text \in [Buffers -> 0..MaxText] /\ size \in [Buffers -> 0..MaxText] /\ psize \in [Buffers -> 0..MaxText]
      /\ cpoint \in [Buffers -> 0..MaxText] /\ point \in [Buffers -> Int] /\ lost \in [Buffers -> Nat]
      /\ win \in Seq(Panes) /\ Len(win) \in Nat /\ DOMAIN win = 1..Len(win) /\ cur \in 1..Len(win)
      /\ \A d \in Buffers : point[d] \in 0..text[d] /\ text[d] \in 0..MaxText /\ psize[d] = size[d]
      /\ \A i \in 1..Len(win) :
           /\ win[i] \in Panes /\ win[i].buf \in Buffers /\ win[i].point \in 0..text[win[i].buf]
           /\ Len(win) # 1 => size[win[i].buf] = text[win[i].buf] /\ psize[win[i].buf] = text[win[i].buf]
  BY InvParts
<1>2. b = win[cur].buf /\ b \in Buffers /\ text[b] \in 0..MaxText /\ MaxText \in Nat  BY <1>1 DEF This, Limits
<1>3. PICK n \in 1..(MaxText - text[b]) :
        Become(Appended(Now, b, n), IF Count(Now, b) > 0 THEN All(Now) ELSE {})
  BY DEF AppendString, Limits
<1> DEFINE end == text[b] + n
           w == [i \in 1..Len(win) |-> IF win[i].buf = b THEN [win[i] EXCEPT !.point = end] ELSE win[i]]
           te == [text EXCEPT ![b] = end]
           po == [point EXCEPT ![b] = end]
           si == [size EXCEPT ![b] = end]
           u == Appended(Now, b, n)
           m == IF Count(Now, b) > 0 THEN All(Now) ELSE {}
<1>4. Become(u, m)  BY <1>3
<1> HIDE DEF b, m
<1>5. end \in 0..MaxText /\ end \in Int  BY <1>2
<1>6. u = [text |-> te, size |-> si, psize |-> psize, point |-> po, cpoint |-> cpoint, lost |-> lost, win |-> w, cur |-> cur]
  <2>1. \E i \in DOMAIN win : win[i].buf = b  BY <1>1, <1>2
  <2> DEFINE s == Now
             wn == [i \in DOMAIN s.win |-> IF s.win[i].buf = b THEN [s.win[i] EXCEPT !.point = s.text[b] + n] ELSE s.win[i]]
             a1 == [s EXCEPT !.text = [s.text EXCEPT ![b] = s.text[b] + n]]
             a2 == [a1 EXCEPT !.point = [s.point EXCEPT ![b] = s.text[b] + n]]
             a3 == [a2 EXCEPT !.size = [s.size EXCEPT ![b] = s.text[b] + n]]
  <2>2. s.win = win /\ s.text = text /\ s.point = point /\ s.size = size  BY DEF Now
  <2>3. u = [s EXCEPT !.text[b] = s.text[b] + n, !.point[b] = s.text[b] + n,
                      !.size[b] = IF \E i \in DOMAIN s.win : s.win[i].buf = b THEN s.text[b] + n ELSE s.size[b],
                      !.win = wn]
    <3> HIDE DEF s
    <3> QED  BY DEF Appended, s
  <2>4. (IF \E i \in DOMAIN s.win : s.win[i].buf = b THEN s.text[b] + n ELSE s.size[b]) = s.text[b] + n
    BY <2>1, <2>2
  <2>5. u = [s EXCEPT !.text[b] = s.text[b] + n, !.point[b] = s.text[b] + n, !.size[b] = s.text[b] + n, !.win = wn]
    <3> HIDE DEF s, wn, u
    <3> QED  BY <2>3, <2>4
  <2>6. wn = w  BY <1>1, <2>2
  <2>7. u = [a3 EXCEPT !.win = wn]
    <3>1. a1.point = s.point /\ a2.size = s.size /\ a3.win = s.win  BY DEF Now
    <3> HIDE DEF wn, u, s
    <3> QED  BY <2>5
  <2>8. a1 = [text |-> te, size |-> size, psize |-> psize, point |-> point, cpoint |-> cpoint, lost |-> lost, win |-> win, cur |-> cur]
    BY <2>2 DEF Now
  <2>9. a2 = [text |-> te, size |-> size, psize |-> psize, point |-> po, cpoint |-> cpoint, lost |-> lost, win |-> win, cur |-> cur]
    <3> HIDE DEF a1, s, te
    <3> QED  BY <2>2, <2>8
  <2>10. a3 = [text |-> te, size |-> si, psize |-> psize, point |-> po, cpoint |-> cpoint, lost |-> lost, win |-> win, cur |-> cur]
    <3> HIDE DEF a2, s, te, po
    <3> QED  BY <2>2, <2>9
  <2> HIDE DEF a3, wn, te, si, po, w, u
  <2> QED  BY <2>6, <2>7, <2>10
<1> HIDE DEF u, end
<1>7. /\ te \in [Buffers -> 0..MaxText] /\ po \in [Buffers -> Int] /\ si \in [Buffers -> 0..MaxText]
      /\ te[b] = end /\ po[b] = end /\ si[b] = end
      /\ \A d \in Buffers : d # b => te[d] = text[d] /\ po[d] = point[d] /\ si[d] = size[d]
  BY <1>1, <1>2, <1>5
<1>8. ASSUME NEW i \in 1..Len(win)
      PROVE  w[i] \in Panes /\ w[i].buf = win[i].buf /\ w[i].point = IF win[i].buf = b THEN end ELSE win[i].point
  BY <1>1, <1>5 DEF Panes
<1>9. w \in [1..Len(win) -> Panes]
  <2>1. w = [i \in 1..Len(win) |-> w[i]]  OBVIOUS
  <2> HIDE DEF w
  <2> QED  BY <1>8, <2>1
<1> HIDE DEF w, te, po, si
<1>10. w \in Seq(Panes) /\ Len(w) = Len(win)
  <2> DEFINE l == Len(win)
  <2>1. l \in Nat /\ w \in [1..l -> Panes]  BY <1>1, <1>9
  <2> HIDE DEF l
  <2>2. w \in Seq(Panes) /\ Len(w) = l  BY <2>1
  <2> QED  BY <2>2 DEF l
<1>11. /\ u \in Views /\ u.text = te /\ u.size = si /\ u.psize = psize /\ u.point = po /\ u.win = w /\ u.cur = cur
  <2>1. cur \in Nat  BY <1>1
  <2> QED  BY <1>1, <1>6, <1>7, <1>10, <2>1 DEF Views
<1>12. u.win[u.cur].buf = b /\ u.cur \in 1..Len(u.win)  BY <1>1, <1>2, <1>8, <1>10, <1>11
<1>13. ASSUME NEW i \in 1..Len(u.win), i # u.cur
       PROVE  /\ u.win[i].point \in 0..u.text[u.win[i].buf]
              /\ u.win[i].buf # u.win[u.cur].buf => u.size[u.win[i].buf] = u.text[u.win[i].buf]
              /\ u.win[i].buf = u.win[u.cur].buf =>
                   u.win[i].point <= u.point[u.win[i].buf] \/ u.psize[u.win[i].buf] = u.text[u.win[i].buf]
  <2>1. i \in 1..Len(win) /\ i # cur  BY <1>10, <1>11, <1>13
  <2>2. CASE win[i].buf = b
    <3>1. end <= end /\ end \in 0..end  BY <1>5
    <3> QED  BY <1>7, <1>8, <1>11, <1>12, <2>1, <2>2, <3>1
  <2>3. CASE win[i].buf # b
    <3> DEFINE l == Len(win)
    <3>1. l # 1
      <4>1. l \in Nat /\ cur \in 1..l /\ i \in 1..l /\ i # cur  BY <1>1, <2>1
      <4> HIDE DEF l
      <4> QED  BY <4>1
    <3> DEFINE e == win[i].buf
    <3>2. e \in Buffers /\ win[i].point \in 0..text[e] /\ size[e] = text[e]  BY <1>1, <2>1, <3>1
    <3>3. u.win[i].buf = e /\ u.win[i].point = win[i].point  BY <1>8, <1>11, <2>1, <2>3
    <3>4. u.text[e] = text[e] /\ u.size[e] = size[e]  BY <1>7, <1>11, <2>3, <3>2
    <3> HIDE DEF e
    <3>5. e # b  BY <2>3 DEF e
    <3> QED  BY <1>12, <3>2, <3>3, <3>4, <3>5
  <2> QED  BY <2>2, <2>3
<1>14. ASSUME NEW d \in Buffers
       PROVE  u.point[d] \in 0..u.text[d] /\ (d # u.win[u.cur].buf => u.psize[d] = u.size[d])
  <2>1. CASE d = b
    <3>1. end \in 0..end  BY <1>5
    <3> QED  BY <1>7, <1>11, <1>12, <2>1, <3>1
  <2>2. CASE d # b  BY <1>1, <1>7, <1>11, <2>2
  <2> QED  BY <2>1, <2>2
<1>15. Shaped(u)  BY <1>11, <1>12 DEF Shaped
<1>16. Ready(u)  BY <1>13, <1>14, <1>15, ReadyIf
<1> QED  BY <1>4, <1>11, <1>16, Becomes

-----------------------------------------------------------------------------
(* Theorems                                                                 *)

(* Another window, selected.                                                *)
LEMMA SelectWindowStep ==
  ASSUME Limits, IInv, SelectWindow
  PROVE  IInv' /\ (Count(Now, win[cur'].buf) > 1 => point'[win'[cur'].buf] = win[cur'].point)
<1>1. DOMAIN win = 1..Len(win)  BY InvParts
<1>2. PICK i \in DOMAIN win \ {cur} : Become(W2bIfShared([Now EXCEPT !.cur = i], i), {cur})  BY DEF SelectWindow
<1>3. i \in 1..Len(win) /\ i # cur  BY <1>1
<1> QED  BY <1>2, <1>3, SelectIs

(* Every step keeps the invariant.                                          *)
LEMMA StepIInv ==
  ASSUME Limits, IInv, [Next]_vars
  PROVE  IInv'
<1>1. CASE UNCHANGED vars
  <2>1. Now' = Now  BY <1>1 DEF vars, Now
  <2> QED  BY <2>1 DEF IInv
<1>2. CASE Next
  BY <1>2, SplitStep, SelectWindowStep, DeleteOthersStep, DeleteWindowStep, ResizeStep, ShowBufferStep, EditStep, AppendStep
     DEF Next
<1> QED  BY <1>1, <1>2

(* The invariant holds of every reachable state.                            *)
LEMMA Inductive ==
  ASSUME Limits
  PROVE  Spec => []IInv
<1>1. Init => IInv  BY InitIInv
<1>2. IInv /\ [Next]_vars => IInv'  BY StepIInv
<1> QED  BY <1>1, <1>2, PTL DEF Spec

(* Every cursor stays in the text that its window shows, and so does that   *)
(* of every shown buffer: what movegap() asserts of it when the next key is *)
(* typed there, whichever windows were selected, split and deleted between. *)
THEOREM CursorsStayInText ==
  ASSUME Limits
  PROVE  Spec => []CursorsInText
<1>1. IInv => CursorsInText
  <2> SUFFICES ASSUME IInv PROVE CursorsInText  OBVIOUS
  <2>1. /\ text \in [Buffers -> 0..MaxText] /\ size \in [Buffers -> 0..MaxText] /\ psize \in [Buffers -> 0..MaxText]
        /\ cpoint \in [Buffers -> 0..MaxText] /\ point \in [Buffers -> Int] /\ lost \in [Buffers -> Nat]
        /\ win \in Seq(Panes) /\ DOMAIN win = 1..Len(win) /\ cur \in 1..Len(win)
        /\ \A d \in Buffers : point[d] \in 0..text[d]
        /\ \A i \in 1..Len(win) : win[i].buf \in Buffers /\ win[i].point \in 0..text[win[i].buf]
    BY InvParts
  <2>2. TypeOK  BY <2>1 DEF TypeOK, Panes
  <2> QED  BY <2>1, <2>2 DEF CursorsInText
<1>2. Spec => []IInv  BY Inductive
<1> QED  BY <1>1, <1>2, PTL

(* While a buffer is edited in one window, w2b() keeps the cursors of the   *)
(* other windows before the same characters, but for those that text put in *)
(* goes past: it leaves them where they were. No other window's moves.      *)
THEOREM CursorsGoWithText ==
  ASSUME Limits
  PROVE  Spec => CursorsFollow
<1>1. IInv /\ [Next]_vars => [Edit => \A i \in DOMAIN win \ {cur} :
         LET q == win[i].point
         IN  win'[i].point = IF win[i].buf # This \/ Overtaken(q) THEN q ELSE Followed(q)]_vars
  BY EditStep
<1>2. Spec => []IInv  BY Inductive
<1> QED  BY <1>1, <1>2, PTL DEF Spec, CursorsFollow

(* Of a buffer in two windows, each has its own cursor: w2b() puts it back  *)
(* into the buffer when its window is selected.                             *)
THEOREM CursorsAreKept ==
  ASSUME Limits
  PROVE  Spec => CursorsKept
<1>1. IInv /\ [Next]_vars => [cur' # cur /\ Len(win') = Len(win) /\ Count(Now, win[cur'].buf) > 1
                                => point'[win'[cur'].buf] = win[cur'].point]_vars
  <2> SUFFICES ASSUME IInv, Next, cur' # cur, Len(win') = Len(win), Count(Now, win[cur'].buf) > 1
               PROVE  point'[win'[cur'].buf] = win[cur'].point
    OBVIOUS
  <2>1. SelectWindow
    BY SplitStep, DeleteOthersStep, DeleteWindowStep, ResizeStep, ShowBufferStep, EditStep, AppendStep DEF Next
  <2> QED  BY <2>1, SelectWindowStep
<1>2. Spec => []IInv  BY Inductive
<1> QED  BY <1>1, <1>2, PTL DEF Spec, CursorsKept
=============================================================================
