------------------------- MODULE UndoHistory_proofs -------------------------
(***************************************************************************)
(* Proofs about UndoHistory, for texts, commands and limits of any size:   *)
(* undo takes back whole commands, redo gives them back, the limits hold,  *)
(* and the history implements UndoStack.                                   *)
(***************************************************************************)
EXTENDS UndoHistory, SequenceTheorems, TLAPS

Strs == Seq(Bytes)

-----------------------------------------------------------------------------
(* Changes and texts                                                         *)

(* The change c makes the text u of t.                                       *)
Does(c, t, u) ==
  \E a, z \in Strs :
    /\ Len(a) = c.pos
    /\ \/ c.kind = "insert" /\ t = a \o z /\ u = a \o (c.text \o z)
       \/ c.kind = "delete" /\ t = a \o (c.text \o z) /\ u = a \o z

(* A concatenation splits into its two parts again.                         *)
LEMMA Halves ==
  ASSUME NEW a \in Strs, NEW z \in Strs
  PROVE  /\ a \o z \in Strs /\ Len(a \o z) = Len(a) + Len(z)
         /\ SubSeq(a \o z, 1, Len(a)) = a
         /\ SubSeq(a \o z, Len(a) + 1, Len(a \o z)) = z
<1>1. /\ a \o z \in Strs /\ Len(a \o z) = Len(a) + Len(z)
      /\ \A i \in 1..(Len(a) + Len(z)) : (a \o z)[i] = IF i <= Len(a) THEN a[i] ELSE z[i - Len(a)]
  BY ConcatProperties DEF Strs
<1>2. Len(a) \in Nat /\ Len(z) \in Nat  BY DEF Strs
<1>3. SubSeq(a \o z, 1, Len(a)) = a
  <2> DEFINE s == SubSeq(a \o z, 1, Len(a))
  <2>1. \A i \in 1..Len(a) : (a \o z)[i] = a[i] /\ a[i] \in Bytes  BY <1>1, <1>2 DEF Strs
  <2>2. s \in Strs /\ Len(s) = Len(a) /\ \A i \in 1..Len(a) : s[i] = (a \o z)[i]
    <3>1. \A i \in 1..Len(a) : (a \o z)[i] \in Bytes  BY <2>1
    <3>2. /\ s \in Seq(Bytes) /\ Len(s) = IF 1 <= Len(a) THEN Len(a) - 1 + 1 ELSE 0
          /\ \A i \in 1..(Len(a) - 1 + 1) : s[i] = (a \o z)[1 + i - 1]
      BY <1>2, <3>1, SubSeqProperties
    <3> QED  BY <1>2, <3>2 DEF Strs
  <2> HIDE DEF s
  <2> QED  BY <2>1, <2>2, SeqEqual DEF Strs
<1>4. SubSeq(a \o z, Len(a) + 1, Len(a \o z)) = z
  <2> DEFINE m == Len(a) + 1  n == Len(a) + Len(z)  s == SubSeq(a \o z, m, n)
  <2>1. \A i \in m..n : (a \o z)[i] = z[i - Len(a)] /\ z[i - Len(a)] \in Bytes  BY <1>1, <1>2 DEF Strs
  <2>2. \A i \in m..n : (a \o z)[i] \in Bytes  BY <2>1
  <2>3. /\ s \in Seq(Bytes) /\ Len(s) = IF m <= n THEN n - m + 1 ELSE 0
        /\ \A i \in 1..(n - m + 1) : s[i] = (a \o z)[m + i - 1]
    BY <1>2, <2>2, SubSeqProperties
  <2>4. Len(s) = Len(z)  BY <1>2, <2>3
  <2>5. \A i \in 1..Len(z) : s[i] = z[i]
    <3> TAKE i \in 1..Len(z)
    <3>1. m + i - 1 \in m..n /\ m + i - 1 - Len(a) = i /\ i \in 1..(n - m + 1)  BY <1>2
    <3> QED  BY <2>1, <2>3, <3>1
  <2>6. s = z
    <3> HIDE DEF s
    <3> QED  BY <2>3, <2>4, <2>5, SeqEqual DEF Strs
  <2> QED  BY <1>1, <2>6
<1> QED  BY <1>1, <1>3, <1>4

(* Two ways of splitting a text at one place are the same.                  *)
LEMMA Cancel ==
  ASSUME NEW a \in Strs, NEW z \in Strs, NEW b \in Strs, NEW y \in Strs,
         a \o z = b \o y, Len(a) = Len(b)
  PROVE  a = b /\ z = y
<1>1. a = SubSeq(a \o z, 1, Len(a)) /\ z = SubSeq(a \o z, Len(a) + 1, Len(a \o z))  BY Halves
<1>2. b = SubSeq(b \o y, 1, Len(b)) /\ y = SubSeq(b \o y, Len(b) + 1, Len(b \o y))  BY Halves
<1> QED  BY <1>1, <1>2

(* (a named formula, so that the provers do not regroup for ever)            *)
Regroups(a, b, c) == (a \o b) \o c = a \o (b \o c)

(* Concatenation is associative.                                            *)
LEMMA Associate ==
  ASSUME NEW a \in Strs, NEW b \in Strs, NEW c \in Strs
  PROVE  Regroups(a, b, c)
  BY ConcatAssociative DEF Strs, Regroups

RegroupsFour(a, x, y, z) == (a \o x) \o (y \o z) = a \o ((x \o y) \o z)

(* Four parts may be grouped around the two in the middle.                  *)
LEMMA AssociateFour ==
  ASSUME NEW a \in Strs, NEW x \in Strs, NEW y \in Strs, NEW z \in Strs
  PROVE  RegroupsFour(a, x, y, z)
<1>1. y \o z \in Strs  BY Halves
<1>2. Regroups(a, x, y \o z)  BY <1>1, Associate
<1>3. Regroups(x, y, z)  BY Associate
<1> QED  BY <1>2, <1>3 DEF Regroups, RegroupsFour

(* Insert puts s between the two parts of a text.                           *)
LEMMA InsertAlg ==
  ASSUME NEW a \in Strs, NEW z \in Strs, NEW s \in Strs
  PROVE  Insert(a \o z, Len(a), s) = a \o (s \o z)
<1>1. Len(a) \in Nat /\ Len(z) \in Nat  BY DEF Strs
<1>2. Clamp(a \o z, Len(a)) = Len(a)  BY <1>1, Halves DEF Clamp
<1>3. SubSeq(a \o z, 1, Len(a)) = a /\ SubSeq(a \o z, Len(a) + 1, Len(a \o z)) = z  BY Halves
<1>4. Insert(a \o z, Len(a), s) = (a \o s) \o z  BY <1>2, <1>3 DEF Insert
<1>5. Regroups(a, s, z)  BY Associate
<1> QED  BY <1>4, <1>5 DEF Regroups

(* Delete takes the middle one of three parts away.                         *)
LEMMA DeleteAlg ==
  ASSUME NEW a \in Strs, NEW z \in Strs, NEW s \in Strs
  PROVE  Delete(a \o (s \o z), Len(a), Len(s)) = a \o z
<1>1. Len(a) \in Nat /\ Len(z) \in Nat /\ Len(s) \in Nat  BY DEF Strs
<1> DEFINE t == a \o (s \o z)
<1>2. s \o z \in Strs /\ a \o s \in Strs /\ Len(a \o s) = Len(a) + Len(s)  BY Halves
<1>3. t = (a \o s) \o z /\ Len(t) = Len(a) + Len(s) + Len(z)
  <2>1. (a \o s) \o z = t
    <3>1. Regroups(a, s, z)  BY Associate
    <3> QED  BY <3>1 DEF Regroups
  <2>2. Len((a \o s) \o z) = Len(a \o s) + Len(z)  BY <1>2, Halves
  <2> QED  BY <1>1, <1>2, <2>1, <2>2
<1>4. Clamp(t, Len(a)) = Len(a) /\ Clamp(t, Len(a) + Len(s)) = Len(a \o s)  BY <1>1, <1>2, <1>3 DEF Clamp
<1>5. SubSeq(t, 1, Len(a)) = a  BY <1>2, Halves
<1>6. SubSeq(t, Len(a \o s) + 1, Len(t)) = z  BY <1>2, <1>3, Halves
<1> HIDE DEF t
<1>7. Delete(t, Len(a), Len(s)) = a \o z  BY <1>4, <1>5, <1>6 DEF Delete
<1> QED  BY <1>7 DEF t

(* Applying a change makes its text and reverting it takes that back        *)
(* (apply-change!, revert-change!).                                         *)
LEMMA DoesAlg ==
  ASSUME NEW c \in Changes, NEW t, NEW u, Does(c, t, u)
  PROVE  t \in Strs /\ u \in Strs /\ ApplyChange(t, c) = u /\ RevertChange(u, c) = t
<1>1. c.text \in Strs  BY DEF Changes, Strs
<1>2. PICK a \in Strs, z \in Strs :
        /\ Len(a) = c.pos
        /\ \/ c.kind = "insert" /\ t = a \o z /\ u = a \o (c.text \o z)
           \/ c.kind = "delete" /\ t = a \o (c.text \o z) /\ u = a \o z
  BY DEF Does
<1>3. a \o z \in Strs /\ c.text \o z \in Strs /\ a \o (c.text \o z) \in Strs  BY <1>1, Halves
<1>4. Insert(a \o z, c.pos, c.text) = a \o (c.text \o z)
  <2>1. Insert(a \o z, Len(a), c.text) = a \o (c.text \o z)  BY <1>1, InsertAlg
  <2> QED  BY <1>2, <2>1
<1>5. Delete(a \o (c.text \o z), c.pos, Len(c.text)) = a \o z
  <2>1. Delete(a \o (c.text \o z), Len(a), Len(c.text)) = a \o z  BY <1>1, DeleteAlg
  <2> QED  BY <1>2, <2>1
<1>6. CASE c.kind = "insert" /\ t = a \o z /\ u = a \o (c.text \o z)
  BY <1>3, <1>4, <1>5, <1>6 DEF ApplyChange, RevertChange
<1>7. CASE c.kind = "delete" /\ t = a \o (c.text \o z) /\ u = a \o z
  BY <1>3, <1>4, <1>5, <1>7 DEF ApplyChange, RevertChange
<1> QED  BY <1>2, <1>6, <1>7

(* One change that merge-change makes of two does what the two did, one     *)
(* after the other.                                                         *)
LEMMA MergedDoes ==
  ASSUME NEW old \in Changes, NEW new \in Changes, NEW c \in Merged(old, new),
         NEW t, NEW u, NEW v, Does(old, t, u), Does(new, u, v)
  PROVE  c \in Changes /\ Does(c, t, v)
<1> DEFINE x == old.text  y == new.text
<1>x. x = old.text /\ y = new.text  OBVIOUS
<1>1. x \in Strs /\ y \in Strs /\ old.pos \in Nat /\ new.pos \in Nat /\ Len(x) \in Nat /\ Len(y) \in Nat  BY DEF Changes, Strs
<1>0. x \o y \in Strs /\ y \o x \in Strs /\ Len(x \o y) = Len(x) + Len(y)  BY <1>1, Halves
<1>2. PICK a \in Strs, z \in Strs :
        /\ Len(a) = old.pos
        /\ \/ old.kind = "insert" /\ t = a \o z /\ u = a \o (x \o z)
           \/ old.kind = "delete" /\ t = a \o (x \o z) /\ u = a \o z
  BY DEF Does
<1>3. PICK b \in Strs, w \in Strs :
        /\ Len(b) = new.pos
        /\ \/ new.kind = "insert" /\ u = b \o w /\ v = b \o (y \o w)
           \/ new.kind = "delete" /\ u = b \o (y \o w) /\ v = b \o w
  BY DEF Does
<1> HIDE DEF x, y
<1>s. x \in Strs /\ y \in Strs  BY <1>1
<1>4. CASE old.kind = "insert" /\ new.kind = "insert" /\ new.pos = old.pos + Len(x) /\ c = [old EXCEPT !.text = @ \o new.text]
  <2>1. c.kind = "insert" /\ c.pos = old.pos /\ c.text = x \o y /\ c \in Changes  BY <1>x, <1>0, <1>4 DEF Changes, Strs
  <2>2. u = (a \o x) \o z /\ a \o x \in Strs /\ Len(a \o x) = Len(b)
    <3>1. a \o x \in Strs /\ Len(a \o x) = Len(a) + Len(x)  BY <1>1, Halves
    <3>2. (a \o x) \o z = a \o (x \o z)
      <4>1. Regroups(a, x, z)  BY <1>s, Associate
      <4> QED  BY <4>1 DEF Regroups
    <3> QED  BY <1>2, <1>3, <1>4, <3>1, <3>2
  <2>3. b = a \o x /\ w = z  BY <1>3, <1>4, <2>2, Cancel
  <2>4. v = a \o ((x \o y) \o z)
    <3>1. v = (a \o x) \o (y \o z)  BY <1>3, <1>4, <2>3
    <3>2. (a \o x) \o (y \o z) = a \o ((x \o y) \o z)
      <4>1. RegroupsFour(a, x, y, z)  BY <1>s, AssociateFour
      <4> QED  BY <4>1 DEF RegroupsFour
    <3> QED  BY <3>1, <3>2
  <2> QED  BY <1>2, <1>4, <2>1, <2>4 DEF Does
<1>5. CASE old.kind = "delete" /\ new.kind = "delete" /\ new.pos = old.pos /\ c = [old EXCEPT !.text = @ \o new.text]
  <2>1. c.kind = "delete" /\ c.pos = old.pos /\ c.text = x \o y /\ c \in Changes  BY <1>x, <1>0, <1>5 DEF Changes, Strs
  <2>2. y \o w \in Strs  BY <1>1, Halves
  <2>3. b = a /\ z = y \o w
    <3>1. a \o z = b \o (y \o w) /\ Len(a) = Len(b)  BY <1>2, <1>3, <1>5
    <3> QED  BY <2>2, <3>1, Cancel
  <2>4. t = a \o ((x \o y) \o w)
    <3>1. (x \o y) \o w = x \o (y \o w)
      <4>1. Regroups(x, y, w)  BY <1>s, Associate
      <4> QED  BY <4>1 DEF Regroups
    <3> QED  BY <1>2, <1>5, <2>3, <3>1
  <2> QED  BY <1>2, <1>3, <1>5, <2>1, <2>3, <2>4 DEF Does
<1>6. CASE old.kind = "delete" /\ new.kind = "delete" /\ new.pos + Len(y) = old.pos /\ c = [new EXCEPT !.text = @ \o old.text]
  <2>1. c.kind = "delete" /\ c.pos = new.pos /\ c.text = y \o x /\ c \in Changes  BY <1>x, <1>0, <1>6 DEF Changes, Strs
  <2>2. u = (b \o y) \o w /\ b \o y \in Strs /\ Len(b \o y) = Len(a)
    <3>1. b \o y \in Strs /\ Len(b \o y) = Len(b) + Len(y)  BY <1>1, Halves
    <3>2. (b \o y) \o w = b \o (y \o w)
      <4>1. Regroups(b, y, w)  BY <1>s, Associate
      <4> QED  BY <4>1 DEF Regroups
    <3> QED  BY <1>2, <1>3, <1>6, <3>1, <3>2
  <2>3. a = b \o y /\ z = w  BY <1>2, <1>6, <2>2, Cancel
  <2>4. t = b \o ((y \o x) \o w)
    <3>1. t = (b \o y) \o (x \o w)  BY <1>2, <1>6, <2>3
    <3>2. (b \o y) \o (x \o w) = b \o ((y \o x) \o w)
      <4>1. RegroupsFour(b, y, x, w)  BY <1>s, AssociateFour
      <4> QED  BY <4>1 DEF RegroupsFour
    <3> QED  BY <3>1, <3>2
  <2> QED  BY <1>3, <1>6, <2>1, <2>4 DEF Does
<1> QED  BY <1>x, <1>4, <1>5, <1>6 DEF Merged

-----------------------------------------------------------------------------
(* Groups and texts                                                          *)

RV == INSTANCE Folding WITH Op <- RevertChange
AP == INSTANCE Folding WITH Op <- ApplyChange

(* The changes cs, the newest first, make the text u of t; f has the texts   *)
(* on the way.                                                               *)
Through(f, cs, t, u) ==
  /\ f \in [0..Len(cs) -> Strs]
  /\ f[0] = u /\ f[Len(cs)] = t
  /\ \A i \in 1..Len(cs) : Does(cs[i], f[i], f[i - 1])

MadeBy(cs, t, u) == \E f : Through(f, cs, t, u)

(* Undo goes down the changes and redo goes up them.                         *)
LEMMA GroupMoves ==
  ASSUME NEW g, g.changes \in Seq(Changes), NEW t, NEW u, MadeBy(g.changes, t, u)
  PROVE  /\ t \in Strs /\ u \in Strs
         /\ RevertGroup(u, g) = t
         /\ ApplyGroup(t, g) = u
<1> DEFINE cs == g.changes  n == Len(cs)
<1>1. n \in Nat /\ DOMAIN cs = 1..n /\ \A i \in 1..n : cs[i] \in Changes  OBVIOUS
<1>2. PICK f : Through(f, cs, t, u)  BY DEF MadeBy
<1> HIDE DEF cs, n
<1>t. f[0] = u /\ f[n] = t /\ \A i \in 1..n : Does(cs[i], f[i], f[i - 1])  BY <1>2 DEF Through, n
<1>3. t \in Strs /\ u \in Strs
  <2>1. 0 \in 0..n /\ n \in 0..n  BY <1>1
  <2>2. f \in [0..n -> Strs]  BY <1>2 DEF Through, n
  <2> QED  BY <2>1, <2>2, <1>t
<1>4. \A i \in 1..n : RevertChange(f[i - 1], cs[i]) = f[i] /\ ApplyChange(f[i], cs[i]) = f[i - 1]
  BY <1>1, <1>t, DoesAlg
<1>5. RevertGroup(u, g) = t
  <2>1. RV!Along(f, u, cs, n)  BY <1>t, <1>4 DEF RV!Along
  <2>2. RV!Fold(u, cs) = f[n]  BY <1>1, <2>1, RV!FoldIs
  <2>3. RevertGroup(u, g) = RV!Fold(u, cs)
    BY DEF RevertGroup, RV!Fold, RV!LastOf, FoldLeft, MapThenFoldSet, Max, cs
  <2> QED  BY <1>t, <2>2, <2>3
<1>6. ApplyGroup(t, g) = u
  <2> DEFINE r == Reverse(cs)  h == [i \in 0..n |-> f[n - i]]
  <2>1. DOMAIN r = 1..n /\ \A i \in 1..n : r[i] = cs[n - i + 1]
    BY <1>1 DEF Reverse, n
  <2>2. h[0] = t /\ h[n] = u  BY <1>1, <1>t
  <2>3. \A i \in 1..n : h[i] = ApplyChange(h[i - 1], r[i])
    <3> TAKE i \in 1..n
    <3>1. i \in 0..n /\ i - 1 \in 0..n /\ n - i + 1 \in 1..n /\ n - (i - 1) = n - i + 1 /\ (n - i + 1) - 1 = n - i
      BY <1>1
    <3>2. h[i] = f[n - i] /\ h[i - 1] = f[n - i + 1] /\ r[i] = cs[n - i + 1]  BY <2>1, <3>1
    <3> QED  BY <1>4, <3>1, <3>2
  <2> HIDE DEF h, r
  <2>4. AP!Along(h, t, r, n)  BY <2>2, <2>3 DEF AP!Along
  <2>5. AP!Fold(t, r) = h[n]  BY <1>1, <2>1, <2>4, AP!FoldIs
  <2>6. ApplyGroup(t, g) = AP!Fold(t, r)
    BY DEF ApplyGroup, AP!Fold, AP!LastOf, FoldLeft, MapThenFoldSet, Max, cs, r
  <2> QED  BY <2>2, <2>5, <2>6
<1> QED  BY <1>3, <1>5, <1>6

(* No change leads from a text to itself.                                   *)
LEMMA NoChange ==
  ASSUME NEW t \in Strs
  PROVE  MadeBy(<<>>, t, t)
<1> DEFINE f == [i \in 0..0 |-> t]
<1>1. Len(<<>>) = 0 /\ 1..0 = {} /\ 0 \in 0..0  OBVIOUS
<1>2. f \in [0..0 -> Strs] /\ f[0] = t  BY <1>1
<1> HIDE DEF f
<1>3. Through(f, <<>>, t, t)  BY <1>1, <1>2 DEF Through
<1> QED  BY <1>3 DEF MadeBy

(* A group with a newer change leads on to the text that change makes.      *)
LEMMA OneMore ==
  ASSUME NEW cs \in Seq(Changes), NEW c \in Changes, NEW t, NEW u, NEW v,
         MadeBy(cs, t, u), Does(c, u, v)
  PROVE  <<c>> \o cs \in Seq(Changes) /\ MadeBy(<<c>> \o cs, t, v)
<1> DEFINE n == Len(cs)  ds == <<c>> \o cs
<1>1. /\ n \in Nat /\ ds \in Seq(Changes) /\ Len(ds) = n + 1
      /\ ds[1] = c /\ \A i \in 2..(n + 1) : ds[i] = cs[i - 1]
  OBVIOUS
<1>2. PICK f : Through(f, cs, t, u)  BY DEF MadeBy
<1> HIDE DEF ds, n
<1>t. /\ f \in [0..n -> Strs] /\ f[0] = u /\ f[n] = t
      /\ \A i \in 1..n : Does(cs[i], f[i], f[i - 1])
  BY <1>2 DEF Through, n
<1>v. v \in Strs  BY DoesAlg
<1> DEFINE h == [i \in 0..(n + 1) |-> IF i = 0 THEN v ELSE f[i - 1]]
<1>3. h \in [0..(n + 1) -> Strs]
  <2>1. \A i \in 0..(n + 1) : i # 0 => i - 1 \in 0..n  BY <1>1
  <2> QED  BY <1>t, <1>v, <2>1
<1>4. h[0] = v /\ h[n + 1] = t  BY <1>1, <1>t
<1>5. ASSUME NEW i \in 1..(n + 1) PROVE Does(ds[i], h[i], h[i - 1])
  <2>1. CASE i = 1
    <3>1. h[1] = u /\ h[1 - 1] = v  BY <1>1, <1>t
    <3> QED  BY <1>1, <2>1, <3>1
  <2>2. CASE i # 1
    <3>1. i \in 2..(n + 1) /\ i - 1 \in 1..n /\ i \in 0..(n + 1) /\ i - 1 \in 0..(n + 1) /\ i - 1 # 0 /\ i # 0
      BY <1>1, <2>2
    <3>2. h[i] = f[i - 1] /\ h[i - 1] = f[(i - 1) - 1] /\ ds[i] = cs[i - 1]  BY <1>1, <3>1
    <3> QED  BY <1>t, <3>1, <3>2
  <2> QED  BY <2>1, <2>2
<1> HIDE DEF h
<1>6. Through(h, ds, t, v)  BY <1>1, <1>3, <1>4, <1>5 DEF Through
<1> QED  BY <1>1, <1>6 DEF MadeBy, ds

(* A group without its newest change leads to the text that change was      *)
(* made in.                                                                 *)
LEMMA OneLess ==
  ASSUME NEW cs \in Seq(Changes), NEW t, NEW u, MadeBy(cs, t, u), cs # <<>>
  PROVE  \E m : MadeBy(Tail(cs), t, m) /\ Does(Head(cs), m, u)
<1> DEFINE n == Len(cs)  ds == Tail(cs)
<1>1. /\ n \in Nat /\ n >= 1 /\ Len(ds) = n - 1 /\ Head(cs) = cs[1]
      /\ \A i \in 1..(n - 1) : ds[i] = cs[i + 1]
  OBVIOUS
<1>2. PICK f : Through(f, cs, t, u)  BY DEF MadeBy
<1> HIDE DEF ds, n
<1>t. /\ f \in [0..n -> Strs] /\ f[0] = u /\ f[n] = t
      /\ \A i \in 1..n : Does(cs[i], f[i], f[i - 1])
  BY <1>2 DEF Through, n
<1> DEFINE h == [i \in 0..(n - 1) |-> f[i + 1]]
<1>3. h \in [0..(n - 1) -> Strs]
  <2>1. \A i \in 0..(n - 1) : i + 1 \in 0..n  BY <1>1
  <2> QED  BY <1>t, <2>1
<1>4. h[0] = f[1] /\ h[n - 1] = t  BY <1>1, <1>t
<1>5. ASSUME NEW i \in 1..(n - 1) PROVE Does(ds[i], h[i], h[i - 1])
  <2>1. i \in 0..(n - 1) /\ i - 1 \in 0..(n - 1) /\ i + 1 \in 1..n /\ (i - 1) + 1 = (i + 1) - 1  BY <1>1
  <2>2. h[i] = f[i + 1] /\ h[i - 1] = f[(i - 1) + 1] /\ ds[i] = cs[i + 1]  BY <1>1, <2>1
  <2>3. Does(cs[i + 1], f[i + 1], f[(i + 1) - 1])  BY <1>t, <2>1
  <2> QED  BY <2>1, <2>2, <2>3
<1> HIDE DEF h
<1>6. Through(h, ds, t, f[1])  BY <1>1, <1>3, <1>4, <1>5 DEF Through
<1>7. Does(cs[1], f[1], u)
  <2>1. 1 \in 1..n /\ 1 - 1 = 0  BY <1>1
  <2> QED  BY <1>t, <2>1
<1>8. MadeBy(ds, t, f[1]) /\ Does(Head(cs), f[1], u)  BY <1>1, <1>6, <1>7 DEF MadeBy
<1> HIDE DEF MadeBy
<1> QED  BY <1>8 DEF ds

(* A recorded change makes the group one that also makes that change.        *)
LEMMA WithChangeDoes ==
  ASSUME NEW cs \in Seq(Changes), NEW c \in Changes, NEW t, NEW u, NEW v,
         MadeBy(cs, t, u), Does(c, u, v)
  PROVE  WithChange(cs, c) \in Seq(Changes) /\ MadeBy(WithChange(cs, c), t, v)
<1> DEFINE joined == IF cs = <<>> THEN {} ELSE Merged(Head(cs), c)
<1>1. CASE joined = {}
  BY <1>1, OneMore DEF WithChange
<1>2. CASE joined # {}
  <2>1. cs # <<>> /\ joined = Merged(Head(cs), c)  BY <1>2
  <2>2. PICK d : d = CHOOSE e \in joined : TRUE  OBVIOUS
  <2>3. d \in Merged(Head(cs), c) /\ WithChange(cs, c) = <<d>> \o Tail(cs)
    <3>1. d \in joined  BY <1>2, <2>2
    <3> QED  BY <1>2, <2>1, <2>2, <3>1 DEF WithChange
  <2> HIDE DEF joined
  <2>4. Head(cs) \in Changes /\ Tail(cs) \in Seq(Changes)  BY <2>1
  <2>5. PICK m : MadeBy(Tail(cs), t, m) /\ Does(Head(cs), m, u)  BY <2>1, OneLess
  <2>6. d \in Changes /\ Does(d, m, v)  BY <2>3, <2>4, <2>5, MergedDoes
  <2> QED  BY <2>3, <2>4, <2>5, <2>6, OneMore
<1> QED  BY <1>1, <1>2

-----------------------------------------------------------------------------
(* The limits.  An undo or a redo takes a group from one stack to the other, *)
(* which changes none of the counts; trimming ends within the limits.        *)

Histories == [done : Seq(Groups), undone : Seq(Groups), bytes : Nat, savedId : Int, blocked : Int]

AddLength(n, c) == n + Len(c.text)
AddBytes(n, g) == n + GroupBytes(g)
AddChanges(n, g) == n + Len(g.changes)

GB == INSTANCE Folding WITH Op <- AddLength
AB == INSTANCE Folding WITH Op <- AddBytes
CC == INSTANCE Folding WITH Op <- AddChanges

(* The bytes of a group are a number.                                       *)
LEMMA BytesOfGroup ==
  ASSUME NEW g \in Groups
  PROVE  GroupBytes(g) \in Nat
<1>1. g.changes \in Seq(Changes)  BY DEF Groups
<1>2. GB!Adds(Changes)
  <2>1. ASSUME NEW n \in Nat, NEW c \in Changes
        PROVE  AddLength(n, c) \in Nat /\ AddLength(n, c) = n + AddLength(0, c)
    <3>1. Len(c.text) \in Nat
      <4>1. c.text \in Seq(Bytes)  BY DEF Changes
      <4> QED  BY <4>1
    <3> QED  BY <3>1 DEF AddLength
  <2> QED  BY <2>1 DEF GB!Adds
<1>3. GB!Fold(0, g.changes) \in Nat  BY <1>1, <1>2, GB!FoldAdds
<1>4. GroupBytes(g) = GB!Fold(0, g.changes)
  BY DEF GroupBytes, GB!Fold, GB!LastOf, FoldLeft, MapThenFoldSet, Max, AddLength
<1> QED  BY <1>3, <1>4

(* The totals of a history are folds of sums along its groups.              *)
LEMMA Totals ==
  ASSUME NEW h
  PROVE  /\ ActualBytes(h) = AB!Fold(0, HistoryGroups(h))
         /\ ChangeCount(h) = CC!Fold(0, HistoryGroups(h))
         /\ AB!Adds(Groups) /\ CC!Adds(Groups)
<1>1. ActualBytes(h) = AB!Fold(0, HistoryGroups(h))
  BY DEF ActualBytes, AB!Fold, AB!LastOf, FoldLeft, MapThenFoldSet, Max, AddBytes
<1>2. ChangeCount(h) = CC!Fold(0, HistoryGroups(h))
  BY DEF ChangeCount, CC!Fold, CC!LastOf, FoldLeft, MapThenFoldSet, Max, AddChanges
<1>3. ASSUME NEW n \in Nat, NEW g \in Groups
      PROVE  AddBytes(n, g) \in Nat /\ AddBytes(n, g) = n + AddBytes(0, g)
  BY BytesOfGroup DEF AddBytes
<1>4. ASSUME NEW n \in Nat, NEW g \in Groups
      PROVE  AddChanges(n, g) \in Nat /\ AddChanges(n, g) = n + AddChanges(0, g)
  <2>1. Len(g.changes) \in Nat
    <3>1. g.changes \in Seq(Changes)  BY DEF Groups
    <3> QED  BY <3>1
  <2> QED  BY <2>1 DEF AddChanges
<1> QED  BY <1>1, <1>2, <1>3, <1>4 DEF AB!Adds, CC!Adds

(* The bytes of a history are a number.                                     *)
LEMMA BytesAreNat ==
  ASSUME NEW h, HistoryGroups(h) \in Seq(Groups)
  PROVE  ActualBytes(h) \in Nat
<1>1. AB!Adds(Groups) /\ ActualBytes(h) = AB!Fold(0, HistoryGroups(h))  BY Totals
<1>2. AB!Fold(0, HistoryGroups(h)) \in Nat  BY <1>1, AB!FoldAdds
<1> QED  BY <1>1, <1>2

SameTotals(h, k) == ActualBytes(h) = ActualBytes(k) /\ (WithinLimits(h) <=> WithinLimits(k))

(* Groups moved past other groups leave the totals, and so the limits, as   *)
(* they are: undo and redo need no trimming.                                *)
LEMMA GroupMoved ==
  ASSUME NEW a \in Seq(Groups), NEW b \in Seq(Groups), NEW c \in Seq(Groups), NEW h, NEW k,
         HistoryGroups(h) = (a \o b) \o c, HistoryGroups(k) = b \o (a \o c)
  PROVE  SameTotals(h, k)
<1>1. a \o b \in Seq(Groups) /\ a \o c \in Seq(Groups)  OBVIOUS
<1>2. ActualBytes(h) = ActualBytes(k)
  <2>0. AB!Adds(Groups)  BY Totals
  <2> DEFINE F(s) == AB!Fold(0, s)
  <2>1. F(a) \in Nat /\ F(b) \in Nat /\ F(a \o b) = F(a) + F(b)  BY <2>0, AB!FoldAdds
  <2>2. F(c) \in Nat /\ F(a \o c) = F(a) + F(c)  BY <2>0, AB!FoldAdds
  <2>3. F((a \o b) \o c) = F(a \o b) + F(c)  BY <2>0, <1>1, AB!FoldAdds
  <2>4. F(b \o (a \o c)) = F(b) + F(a \o c)  BY <2>0, <1>1, AB!FoldAdds
  <2>5. ActualBytes(h) = F((a \o b) \o c) /\ ActualBytes(k) = F(b \o (a \o c))  BY Totals
  <2> HIDE DEF F
  <2> QED  BY <2>1, <2>2, <2>3, <2>4, <2>5
<1>3. ChangeCount(h) = ChangeCount(k)
  <2>0. CC!Adds(Groups)  BY Totals
  <2> DEFINE F(s) == CC!Fold(0, s)
  <2>1. F(a) \in Nat /\ F(b) \in Nat /\ F(a \o b) = F(a) + F(b)  BY <2>0, CC!FoldAdds
  <2>2. F(c) \in Nat /\ F(a \o c) = F(a) + F(c)  BY <2>0, CC!FoldAdds
  <2>3. F((a \o b) \o c) = F(a \o b) + F(c)  BY <2>0, <1>1, CC!FoldAdds
  <2>4. F(b \o (a \o c)) = F(b) + F(a \o c)  BY <2>0, <1>1, CC!FoldAdds
  <2>5. ChangeCount(h) = F((a \o b) \o c) /\ ChangeCount(k) = F(b \o (a \o c))  BY Totals
  <2> HIDE DEF F
  <2> QED  BY <2>1, <2>2, <2>3, <2>4, <2>5
<1>4. Len(HistoryGroups(h)) = Len(HistoryGroups(k)) /\ Len(HistoryGroups(h)) \in Nat  BY <1>1
<1>5. HistoryGroups(h) = <<>> <=> HistoryGroups(k) = <<>>
  <2>1. \A s \in Seq(Groups) : s = <<>> <=> Len(s) = 0  OBVIOUS
  <2>2. HistoryGroups(h) \in Seq(Groups) /\ HistoryGroups(k) \in Seq(Groups)  BY <1>1
  <2> QED  BY <1>4, <2>1, <2>2
<1> QED  BY <1>2, <1>3, <1>4, <1>5 DEF WithinLimits, SameTotals

(* A history that drops all its groups is within the limits.                *)
LEMMA DropAll ==
  ASSUME NEW h \in Histories
  PROVE  WithinLimits(DropGroups(h, Len(HistoryGroups(h))))
<1> DEFINE d == Len(h.done)  e == Len(h.undone)  k == Len(HistoryGroups(h))
<1>1. h.done \in Seq(Groups) /\ h.undone \in Seq(Groups)  BY DEF Histories
<1>2. d \in Nat /\ e \in Nat /\ k = d + e  BY <1>1 DEF HistoryGroups
<1>3. SubSeq(h.done, 1, 0) = <<>> /\ SubSeq(h.undone, 1, 0) = <<>>  BY <1>1
<1>4. DropGroups(h, k).done = <<>> /\ DropGroups(h, k).undone = <<>>
  <2>1. CASE e = 0
    <3>1. h.undone = <<>>  BY <1>1, <2>1
    <3>2. k <= d /\ d - k = 0  BY <1>2, <2>1
    <3>3. DropGroups(h, k) = [h EXCEPT !.done = SubSeq(@, 1, 0)]  BY <3>2 DEF DropGroups, Keep
    <3> QED  BY <1>3, <3>1, <3>3 DEF Histories
  <2>2. CASE e # 0
    <3>1. ~(k <= d) /\ e - (k - d) = 0
      <4> HIDE DEF d, e, k
      <4> QED  BY <1>2, <2>2
    <3>2. DropGroups(h, k) = [h EXCEPT !.done = <<>>, !.undone = SubSeq(@, 1, e - (k - d))]
      <4> HIDE DEF k
      <4> QED  BY <3>1 DEF DropGroups, Keep
    <3>3. DropGroups(h, k) = [h EXCEPT !.done = <<>>, !.undone = SubSeq(@, 1, 0)]
      <4> HIDE DEF d, e, k
      <4> QED  BY <3>1, <3>2
    <3> HIDE DEF k
    <3> QED  BY <1>3, <3>3 DEF Histories
  <2> QED  BY <2>1, <2>2
<1> HIDE DEF k
<1>5. HistoryGroups(DropGroups(h, k)) = <<>>  BY <1>4 DEF HistoryGroups
<1>6. WithinLimits(DropGroups(h, k))  BY <1>5 DEF WithinLimits
<1> QED  BY <1>6 DEF k

(* Dropping no groups changes nothing.                                      *)
LEMMA DropNone ==
  ASSUME NEW h \in Histories
  PROVE  DropGroups(h, 0) = h /\ Dropped(h, 0) = {}
<1> DEFINE d == Len(h.done)
<1>1. h.done \in Seq(Groups)  BY DEF Histories
<1>2. d \in Nat /\ 0 <= d /\ d - 0 = d  BY <1>1
<1>3. SubSeq(h.done, 1, d) = h.done  BY <1>1
<1>4. DropGroups(h, 0) = [h EXCEPT !.done = SubSeq(@, 1, d)]  BY <1>2 DEF DropGroups, Keep
<1>5. (d - 0 + 1)..d = {}  BY <1>2
<1>6. Dropped(h, 0) = {}  BY <1>2, <1>5 DEF Dropped
<1> QED  BY <1>3, <1>4, <1>6 DEF Histories

(* The loop of trimming ends, and drops nothing when it need not.            *)
LEMMA ExcessIs ==
  ASSUME NEW h \in Histories
  PROVE  /\ Excess(h) \in 0..Len(HistoryGroups(h))
         /\ WithinLimits(DropGroups(h, Excess(h)))
         /\ WithinLimits(h) => Excess(h) = 0
<1> DEFINE n == Len(HistoryGroups(h))
           W(k) == WithinLimits(DropGroups(h, k))
           P(k) == W(k) /\ \A j \in 0..(k - 1) : ~W(j)
<1>1. n \in Nat
  <2>1. h.done \in Seq(Groups) /\ h.undone \in Seq(Groups)  BY DEF Histories
  <2>2. HistoryGroups(h) \in Seq(Groups)  BY <2>1 DEF HistoryGroups
  <2> QED  BY <2>2
<1>2. W(n)  BY DropAll
<1>3. Excess(h) = CHOOSE k \in 0..n : P(k)  BY DEF Excess
<1>w. WithinLimits(h) => W(0)  BY DropNone
<1> HIDE DEF n, W
<1>4. \E k \in 0..n : P(k)
  <2> DEFINE S == {k \in 0..n : W(k)}
  <2>1. S \subseteq Nat /\ S # {}  BY <1>1, <1>2
  <2> HIDE DEF S
  <2>2. PICK k \in S : \A m \in S : k <= m  BY <2>1, GB!Least
  <2>3. k \in 0..n /\ W(k)  BY <2>2 DEF S
  <2>4. ASSUME NEW j \in 0..(k - 1) PROVE ~W(j)
    <3>1. j \in 0..n /\ ~(k <= j)  BY <1>1, <2>3
    <3> QED  BY <2>2, <3>1 DEF S
  <2> QED  BY <2>3, <2>4
<1>5. Excess(h) \in 0..n /\ P(Excess(h))  BY <1>3, <1>4
<1>6. W(0) => Excess(h) = 0
  <2> SUFFICES ASSUME W(0), Excess(h) # 0 PROVE FALSE  OBVIOUS
  <2>1. 0 \in 0..(Excess(h) - 1)  BY <1>1, <1>5
  <2> QED  BY <1>5, <2>1
<1> QED  BY <1>5, <1>6, <1>w DEF n, W

(* Trimming leaves a history that is within its limits as it is.            *)
LEMMA TrimNothing ==
  ASSUME NEW h \in Histories, WithinLimits(h), h.bytes = ActualBytes(h), NEW ser
  PROVE  TrimHistory(h, ser) = h
<1>1. Excess(h) = 0  BY ExcessIs
<1>2. DropGroups(h, 0) = h /\ Dropped(h, 0) = {}  BY DropNone
<1>3. SavedIdAfter(h, 0) = h.savedId  BY <1>2 DEF SavedIdAfter
<1>4. TrimHistory(h, ser) = [h EXCEPT !.bytes = ActualBytes(h), !.blocked = @, !.savedId = h.savedId]
  BY <1>1, <1>2, <1>3 DEF TrimHistory
<1> QED  BY <1>4 DEF Histories

(* What is left of the history when its groups full have no more after them: *)
(* the newest j of them.                                                     *)
Trimmed(h, full, ser, j, k) ==
  /\ k \in Histories
  /\ k.done = SubSeq(full, 1, j) /\ k.undone = <<>>
  /\ WithinLimits(k) /\ k.bytes = ActualBytes(k)
  /\ k.savedId = IF \/ \E i \in (j + 1)..Len(full) : full[i].id = h.savedId
                    \/ h.savedId = 0 /\ j < Len(full)
                 THEN -1 ELSE h.savedId
  /\ k.blocked = IF \E i \in (j + 1)..Len(full) : full[i].id = ser THEN ser ELSE h.blocked

(* Trimming after a new change keeps the newest j groups of done, for       *)
(* some j.                                                                  *)
LEMMA TrimPushed ==
  ASSUME NEW h \in Histories, NEW full \in Seq(Groups), full # <<>>, NEW ser \in Nat
  PROVE  \E j \in 0..Len(full) : Trimmed(h, full, ser, j, TrimHistory(Push(h, full), ser))
<1> DEFINE p == Push(h, full)  d == Len(full)  x == Excess(p)  j == d - x
           kept == DropGroups(p, x)  k == TrimHistory(p, ser)
<1>1. /\ p \in Histories /\ p.done = full /\ p.undone = <<>>
      /\ p.savedId = h.savedId /\ p.blocked = h.blocked
  <2>1. p = [h EXCEPT !.done = full, !.undone = <<>>]  BY DEF Push
  <2>2. <<>> \in Seq(Groups)  OBVIOUS
  <2> HIDE DEF p
  <2> QED  BY <2>1, <2>2 DEF Histories
<1>2. HistoryGroups(p) = full  BY <1>1 DEF HistoryGroups
<1>3. d \in Nat /\ x \in 0..d /\ j \in 0..d /\ d > 0
  <2>1. x \in 0..Len(HistoryGroups(p))  BY <1>1, ExcessIs
  <2>2. d \in Nat /\ d > 0  OBVIOUS
  <2> HIDE DEF x, p
  <2> QED  BY <1>2, <2>1, <2>2
<1>4. kept = [p EXCEPT !.done = SubSeq(full, 1, j)]  BY <1>1, <1>3 DEF DropGroups, Keep
<1>5. SubSeq(full, 1, j) \in Seq(Groups)  BY <1>3
<1>6. kept \in Histories /\ kept.done = SubSeq(full, 1, j) /\ kept.undone = <<>> /\ kept.blocked = h.blocked
  BY <1>1, <1>4, <1>5 DEF Histories
<1>7. WithinLimits(kept)  BY <1>1, ExcessIs
<1>8. Dropped(p, x) = {full[i] : i \in (j + 1)..d}  BY <1>1, <1>3 DEF Dropped
<1>9. k = [kept EXCEPT !.bytes = ActualBytes(kept),
                       !.blocked = IF \E g \in Dropped(p, x) : g.id = ser THEN ser ELSE @,
                       !.savedId = SavedIdAfter(p, x)]
  BY DEF TrimHistory
<1>10. ActualBytes(kept) \in Nat
  <2>1. HistoryGroups(kept) \in Seq(Groups)  BY <1>5, <1>6 DEF HistoryGroups
  <2> QED  BY <2>1, BytesAreNat
<1>11. SavedIdAfter(p, x) = IF \/ \E i \in (j + 1)..d : full[i].id = h.savedId
                               \/ h.savedId = 0 /\ j < d
                            THEN -1 ELSE h.savedId
  <2>1. x > 0 <=> j < d  BY <1>3
  <2>2. (\E g \in Dropped(p, x) : g.id = h.savedId) <=> \E i \in (j + 1)..d : full[i].id = h.savedId
    BY <1>8
  <2> HIDE DEF p, x, j, d
  <2> QED  BY <1>1, <2>1, <2>2 DEF SavedIdAfter
<1>12. (\E g \in Dropped(p, x) : g.id = ser) <=> \E i \in (j + 1)..d : full[i].id = ser
  BY <1>8
<1>13. h.savedId \in Int /\ h.blocked \in Int  BY DEF Histories
<1> HIDE DEF p, x, j, kept, k, d
<1>14. SavedIdAfter(p, x) \in Int  BY <1>11, <1>13
<1>15. /\ k \in Histories /\ k.done = SubSeq(full, 1, j) /\ k.undone = <<>>
       /\ k.bytes = ActualBytes(kept) /\ k.savedId = SavedIdAfter(p, x)
       /\ k.blocked = IF \E i \in (j + 1)..d : full[i].id = ser THEN ser ELSE h.blocked
  <2> DEFINE by == ActualBytes(kept)  si == SavedIdAfter(p, x)
             bl == IF \E g \in Dropped(p, x) : g.id = ser THEN ser ELSE kept.blocked
  <2>1. k = [kept EXCEPT !.bytes = by, !.blocked = bl, !.savedId = si]  BY <1>6, <1>9 DEF Histories
  <2>2. bl \in Int  BY <1>6, <1>13
  <2>3. bl = IF \E i \in (j + 1)..d : full[i].id = ser THEN ser ELSE h.blocked  BY <1>6, <1>12
  <2>4. by \in Nat /\ si \in Int  BY <1>10, <1>14
  <2>5. by = ActualBytes(kept) /\ si = SavedIdAfter(p, x)  OBVIOUS
  <2> HIDE DEF by, bl, si
  <2>6. k \in Histories /\ k.done = kept.done /\ k.undone = kept.undone /\ k.bytes = by /\ k.savedId = si /\ k.blocked = bl
    BY <1>6, <2>1, <2>2, <2>4 DEF Histories
  <2> QED  BY <1>6, <2>3, <2>5, <2>6
<1>16. HistoryGroups(k) = HistoryGroups(kept)  BY <1>6, <1>15 DEF HistoryGroups
<1>17. WithinLimits(k) /\ ActualBytes(k) = ActualBytes(kept)
  BY <1>7, <1>16 DEF WithinLimits, ActualBytes, ChangeCount
<1>18. Trimmed(h, full, ser, j, k)  BY <1>11, <1>15, <1>17 DEF Trimmed, d
<1> QED  BY <1>3, <1>18 DEF k, p, d

-----------------------------------------------------------------------------
(* The stacks and the texts they lead to.  Both stacks have their newest     *)
(* group first: going along undone the groups are redone (up), going along   *)
(* done they are undone.                                                     *)

(* The texts of a buffer are the sequences of bytes up to the bound.        *)
LEMMA TextsAre ==
  \A t : t \in Texts <=> t \in Strs /\ Len(t) <= MaxText
<1>1. MaxText \in Nat  BY LimitsAreNat
<1>2. ASSUME NEW t \in Texts PROVE t \in Strs /\ Len(t) <= MaxText
  <2>1. PICK k \in 0..MaxText : t \in [1..k -> Bytes]  BY DEF Texts, Strings
  <2>2. k \in Nat /\ k <= MaxText  BY <1>1
  <2>3. t \in Seq(Bytes) /\ Len(t) = k  BY <2>1, <2>2
  <2> QED  BY <2>2, <2>3 DEF Strs
<1>3. ASSUME NEW t \in Strs, Len(t) <= MaxText PROVE t \in Texts
  <2>1. Len(t) \in 0..MaxText /\ t \in [1..Len(t) -> Bytes]  BY <1>1, <1>3 DEF Strs
  <2> QED  BY <2>1 DEF Texts, Strings
<1> QED  BY <1>2, <1>3

(* The group g leads from the text y on to x.                                *)
Link(up, g, x, y) == IF up THEN MadeBy(g.changes, y, x) ELSE MadeBy(g.changes, x, y)
Move(up, t, g) == IF up THEN ApplyGroup(t, g) ELSE RevertGroup(t, g)

Chained(up, s, t, B) ==
  /\ B \in [0..Len(s) -> Texts]
  /\ B[0] = t
  /\ \A i \in 1..Len(s) : Link(up, s[i], B[i], B[i - 1])

Linked(up, s, t) == \E B : Chained(up, s, t, B)

(* What UndoStack keeps of a group and of a stack.                           *)
Mark(up, id, x, y) ==
  IF up THEN [id |-> id, before |-> y, after |-> x] ELSE [id |-> id, before |-> x, after |-> y]
Reached(up, s, t, i) ==
  IF up THEN FoldLeft(ApplyGroup, t, SubSeq(s, 1, i)) ELSE FoldLeft(RevertGroup, t, SubSeq(s, 1, i))
View(up, s, t) == [i \in DOMAIN s |-> Mark(up, s[i].id, Reached(up, s, t, i), Reached(up, s, t, i - 1))]

RG == INSTANCE Folding WITH Op <- RevertGroup
AG == INSTANCE Folding WITH Op <- ApplyGroup

(* Redoing, or undoing, the group of a link gives the text that the link    *)
(* leads to.                                                                *)
LEMMA LinkMoves ==
  ASSUME NEW up \in BOOLEAN, NEW g \in Groups, NEW x, NEW y, Link(up, g, x, y)
  PROVE  Move(up, y, g) = x
<1>1. g.changes \in Seq(Changes)  BY DEF Groups
<1>2. CASE up
  <2>1. MadeBy(g.changes, y, x)  BY <1>2 DEF Link
  <2>2. ApplyGroup(y, g) = x  BY <1>1, <2>1, GroupMoves
  <2> QED  BY <1>2, <2>2 DEF Move
<1>3. CASE ~up
  <2>1. MadeBy(g.changes, x, y)  BY <1>3 DEF Link
  <2>2. RevertGroup(y, g) = x  BY <1>1, <2>1, GroupMoves
  <2> QED  BY <1>3, <2>2 DEF Move
<1> QED  BY <1>2, <1>3

(* Folding the first i groups of a stack gives the i-th text of its         *)
(* chain.                                                                   *)
LEMMA ReachedIs ==
  ASSUME NEW up \in BOOLEAN, NEW s \in Seq(Groups), NEW t, NEW B, Chained(up, s, t, B),
         NEW i \in 0..Len(s)
  PROVE  Reached(up, s, t, i) = B[i]
<1> DEFINE r == SubSeq(s, 1, i)
<1>1. i \in Nat /\ DOMAIN r = 1..i /\ \A k \in 1..i : r[k] = s[k] /\ s[k] \in Groups /\ k \in 1..Len(s)
  OBVIOUS
<1>2. ASSUME NEW k \in 1..i PROVE Move(up, B[k - 1], r[k]) = B[k]
  <2>1. Link(up, s[k], B[k], B[k - 1])  BY <1>1 DEF Chained
  <2> QED  BY <1>1, <2>1, LinkMoves
<1>3. B[0] = t  BY DEF Chained
<1> HIDE DEF r
<1>4. CASE up
  <2>1. AG!Along(B, t, r, i)  BY <1>2, <1>3, <1>4 DEF AG!Along, Move
  <2>2. AG!Fold(t, r) = B[i]  BY <1>1, <2>1, AG!FoldIs
  <2>3. FoldLeft(ApplyGroup, t, r) = AG!Fold(t, r)
    BY DEF AG!Fold, AG!LastOf, FoldLeft, MapThenFoldSet, Max
  <2> QED  BY <1>4, <2>2, <2>3 DEF Reached, r
<1>5. CASE ~up
  <2>1. RG!Along(B, t, r, i)  BY <1>2, <1>3, <1>5 DEF RG!Along, Move
  <2>2. RG!Fold(t, r) = B[i]  BY <1>1, <2>1, RG!FoldIs
  <2>3. FoldLeft(RevertGroup, t, r) = RG!Fold(t, r)
    BY DEF RG!Fold, RG!LastOf, FoldLeft, MapThenFoldSet, Max
  <2> QED  BY <1>5, <2>2, <2>3 DEF Reached, r
<1> QED  BY <1>4, <1>5

(* The view of a stack has the texts of its chain.                          *)
LEMMA ViewIs ==
  ASSUME NEW up \in BOOLEAN, NEW s \in Seq(Groups), NEW t, NEW B, Chained(up, s, t, B)
  PROVE  View(up, s, t) = [i \in 1..Len(s) |-> Mark(up, s[i].id, B[i], B[i - 1])]
<1>1. DOMAIN s = 1..Len(s)  OBVIOUS
<1>2. ASSUME NEW i \in 1..Len(s)
      PROVE  Reached(up, s, t, i) = B[i] /\ Reached(up, s, t, i - 1) = B[i - 1]
  <2>1. i \in 0..Len(s) /\ i - 1 \in 0..Len(s)  OBVIOUS
  <2> QED  BY <2>1, ReachedIs
<1> QED  BY <1>1, <1>2 DEF View

(* The empty stack is linked to any text, and its view is empty.            *)
LEMMA NoLinks ==
  ASSUME NEW up \in BOOLEAN, NEW t \in Texts
  PROVE  Linked(up, <<>>, t) /\ View(up, <<>>, t) = <<>>
<1> DEFINE B == [i \in 0..0 |-> t]
<1>1. Len(<<>>) = 0 /\ 1..0 = {} /\ 0 \in 0..0 /\ DOMAIN <<>> = {}  OBVIOUS
<1>2. B \in [0..0 -> Texts] /\ B[0] = t  BY <1>1
<1> HIDE DEF B
<1>3. Chained(up, <<>>, t, B)  BY <1>1, <1>2 DEF Chained
<1>4. View(up, <<>>, t) = <<>>  BY <1>1 DEF View
<1> QED  BY <1>3, <1>4 DEF Linked

(* The view of a linked stack is a stack of UndoStack, as long and with     *)
(* the same ids.                                                            *)
LEMMA ViewShape ==
  ASSUME NEW up \in BOOLEAN, NEW s \in Seq(Groups), NEW t, Linked(up, s, t)
  PROVE  /\ t \in Texts
         /\ View(up, s, t) \in Seq(Stack!Groups)
         /\ Len(View(up, s, t)) = Len(s)
         /\ \A i \in 1..Len(s) : View(up, s, t)[i].id = s[i].id
<1>1. PICK B : Chained(up, s, t, B)  BY DEF Linked
<1> DEFINE n == Len(s)  V == View(up, s, t)
<1>2. n \in Nat  OBVIOUS
<1>3. V = [i \in 1..n |-> Mark(up, s[i].id, B[i], B[i - 1])]  BY <1>1, ViewIs
<1> HIDE DEF V
<1>4. B \in [0..n -> Texts] /\ B[0] = t  BY <1>1 DEF Chained
<1>5. ASSUME NEW i \in 1..n
      PROVE  V[i] \in Stack!Groups /\ V[i].id = s[i].id
  <2>1. i \in 0..n /\ i - 1 \in 0..n  BY <1>2
  <2>2. B[i] \in Texts /\ B[i - 1] \in Texts  BY <1>4, <2>1
  <2>3. s[i].id \in Nat \ {0}
    <3>1. s[i] \in Groups  OBVIOUS
    <3> QED  BY <3>1 DEF Groups
  <2>4. V[i] = Mark(up, s[i].id, B[i], B[i - 1])  BY <1>3
  <2> QED  BY <2>2, <2>3, <2>4 DEF Mark, Stack!Groups
<1>6. V \in [1..n -> Stack!Groups]
  <2> HIDE DEF n
  <2> QED  BY <1>3, <1>5
<1>7. V \in Seq(Stack!Groups) /\ Len(V) = n
  <2> HIDE DEF n
  <2> QED  BY <1>2, <1>6
<1>8. t \in Texts  BY <1>2, <1>4
<1> QED  BY <1>5, <1>7, <1>8 DEF V

(* A group that leads on from the text t, in front of a stack linked to t.   *)
Onto(up, s, g, t, u) ==
  /\ <<g>> \o s \in Seq(Groups)
  /\ Linked(up, <<g>> \o s, u)
  /\ View(up, <<g>> \o s, u) = <<Mark(up, g.id, t, u)>> \o View(up, s, t)

(* A group that leads from t to u, put in front of a stack linked to t,     *)
(* makes a stack linked to u.                                               *)
LEMMA LinkMore ==
  ASSUME NEW up \in BOOLEAN, NEW s \in Seq(Groups), NEW g \in Groups, NEW t, NEW u \in Texts,
         Linked(up, s, t), Link(up, g, t, u)
  PROVE  Onto(up, s, g, t, u)
<1> DEFINE n == Len(s)  r == <<g>> \o s
<1>1. /\ n \in Nat /\ r \in Seq(Groups) /\ Len(r) = n + 1
      /\ r[1] = g /\ \A i \in 2..(n + 1) : r[i] = s[i - 1]
  OBVIOUS
<1>2. PICK B : Chained(up, s, t, B)  BY DEF Linked
<1>3. /\ B \in [0..n -> Texts] /\ B[0] = t
      /\ \A i \in 1..n : Link(up, s[i], B[i], B[i - 1])
  BY <1>2 DEF Chained
<1> HIDE DEF n, r
<1> DEFINE C == [i \in 0..(n + 1) |-> IF i = 0 THEN u ELSE B[i - 1]]
<1>4. C \in [0..(n + 1) -> Texts]
  <2>1. \A i \in 0..(n + 1) : i # 0 => i - 1 \in 0..n  BY <1>1
  <2> QED  BY <1>3, <2>1
<1>5. C[0] = u /\ \A i \in 1..(n + 1) : C[i] = B[i - 1]  BY <1>1
<1> HIDE DEF C
<1>6. ASSUME NEW i \in 2..(n + 1)
      PROVE  C[i] = B[i - 1] /\ C[i - 1] = B[(i - 1) - 1] /\ r[i] = s[i - 1] /\ i - 1 \in 1..n
  <2>1. i \in 1..(n + 1) /\ i - 1 \in 1..(n + 1) /\ i - 1 \in 1..n  BY <1>1
  <2> QED  BY <1>1, <1>5, <2>1
<1>7. C[1] = t /\ C[1 - 1] = u  BY <1>1, <1>3, <1>5
<1>8. ASSUME NEW i \in 1..(n + 1) PROVE Link(up, r[i], C[i], C[i - 1])
  <2>1. CASE i = 1  BY <1>1, <1>7, <2>1
  <2>2. CASE i # 1
    <3>1. i \in 2..(n + 1)  BY <1>1, <2>2
    <3>2. Link(up, s[i - 1], B[i - 1], B[(i - 1) - 1])  BY <1>3, <1>6, <3>1
    <3> QED  BY <1>6, <3>1, <3>2
  <2> QED  BY <2>1, <2>2
<1>9. Chained(up, r, u, C)  BY <1>1, <1>4, <1>5, <1>8 DEF Chained
<1> DEFINE V == View(up, s, t)  W == View(up, r, u)  m == Mark(up, g.id, t, u)
<1>10. V = [i \in 1..n |-> Mark(up, s[i].id, B[i], B[i - 1])]  BY <1>2, ViewIs DEF n
<1>11. W = [i \in 1..(n + 1) |-> Mark(up, r[i].id, C[i], C[i - 1])]  BY <1>1, <1>9, ViewIs
<1>v. V \in Seq(Stack!Groups) /\ Len(V) = n  BY ViewShape DEF n
<1>w. W \in Seq(Stack!Groups) /\ Len(W) = n + 1
  <2>1. Linked(up, r, u)  BY <1>9 DEF Linked
  <2> QED  BY <1>1, <2>1, ViewShape
<1>m. m \in Stack!Groups
  <2>1. W[1] = Mark(up, r[1].id, C[1], C[1 - 1])  BY <1>1, <1>11
  <2>2. W[1] = m  BY <1>1, <1>7, <2>1
  <2>3. W[1] \in Stack!Groups  BY <1>1, <1>w
  <2> QED  BY <2>2, <2>3
<1> HIDE DEF V, W, m
<1>12. W = <<m>> \o V
  <2> DEFINE X == <<m>> \o V
  <2>1. X \in Seq(Stack!Groups) /\ Len(X) = n + 1 /\ X[1] = m /\ \A i \in 2..(n + 1) : X[i] = V[i - 1]
    BY <1>v, <1>m
  <2>2. ASSUME NEW i \in 1..(n + 1) PROVE W[i] = X[i]
    <3>1. CASE i = 1
      <4>1. W[1] = Mark(up, r[1].id, C[1], C[1 - 1])  BY <1>1, <1>11
      <4>2. W[1] = m  BY <1>1, <1>7, <4>1 DEF m
      <4> QED  BY <2>1, <3>1, <4>2
    <3>2. CASE i # 1
      <4>1. i \in 2..(n + 1) /\ i - 1 \in 1..n  BY <1>1, <3>2
      <4>2. W[i] = Mark(up, r[i].id, C[i], C[i - 1])  BY <1>11
      <4>3. V[i - 1] = Mark(up, s[i - 1].id, B[i - 1], B[(i - 1) - 1])  BY <1>10, <4>1
      <4>4. W[i] = V[i - 1]  BY <1>6, <4>1, <4>2, <4>3
      <4> QED  BY <2>1, <4>1, <4>4
    <3> QED  BY <3>1, <3>2
  <2> HIDE DEF X
  <2>3. W = X  BY <1>w, <2>1, <2>2, SeqEqual
  <2> QED  BY <2>3 DEF X
<1>13. Linked(up, r, u)  BY <1>9 DEF Linked
<1> QED  BY <1>1, <1>12, <1>13 DEF r, V, W, m, Onto

(* The newest group of a stack linked to t, taken off: it leads to m.        *)
Beyond(up, s, t, m) ==
  /\ m \in Texts
  /\ Link(up, Head(s), m, t)
  /\ Linked(up, Tail(s), m)
  /\ View(up, s, t) = <<Mark(up, Head(s).id, m, t)>> \o View(up, Tail(s), m)

(* A linked stack without its newest group is linked to the text which      *)
(* that group leads to.                                                     *)
LEMMA LinkLess ==
  ASSUME NEW up \in BOOLEAN, NEW s \in Seq(Groups), NEW t, Linked(up, s, t), s # <<>>
  PROVE  /\ Head(s) \in Groups /\ Tail(s) \in Seq(Groups) /\ s = <<Head(s)>> \o Tail(s)
         /\ \E m : Beyond(up, s, t, m)
<1> DEFINE n == Len(s)  r == Tail(s)
<1>1. /\ n \in Nat /\ n >= 1 /\ r \in Seq(Groups) /\ Len(r) = n - 1
      /\ Head(s) = s[1] /\ s[1] \in Groups /\ \A i \in 1..(n - 1) : r[i] = s[i + 1]
  OBVIOUS
<1>2. s = <<Head(s)>> \o r
  <2> DEFINE X == <<Head(s)>> \o r
  <2>1. X \in Seq(Groups) /\ Len(X) = n /\ \A i \in 1..n : X[i] = s[i]  OBVIOUS
  <2> HIDE DEF X
  <2>2. s = X  BY <2>1, SeqEqual
  <2> QED  BY <2>2 DEF X
<1>3. PICK B : Chained(up, s, t, B)  BY DEF Linked
<1>4. /\ B \in [0..n -> Texts] /\ B[0] = t
      /\ \A i \in 1..n : Link(up, s[i], B[i], B[i - 1])
  BY <1>3 DEF Chained
<1> HIDE DEF n, r
<1> DEFINE C == [i \in 0..(n - 1) |-> B[i + 1]]
<1>5. C \in [0..(n - 1) -> Texts]
  <2>1. \A i \in 0..(n - 1) : i + 1 \in 0..n  BY <1>1
  <2> QED  BY <1>4, <2>1
<1>6. \A i \in 0..(n - 1) : C[i] = B[i + 1]  OBVIOUS
<1> HIDE DEF C
<1>7. ASSUME NEW i \in 1..(n - 1) PROVE Link(up, r[i], C[i], C[i - 1])
  <2>1. i \in 0..(n - 1) /\ i - 1 \in 0..(n - 1) /\ i + 1 \in 1..n /\ (i - 1) + 1 = (i + 1) - 1  BY <1>1
  <2>2. C[i] = B[i + 1] /\ C[i - 1] = B[(i + 1) - 1] /\ r[i] = s[i + 1]  BY <1>1, <1>6, <2>1
  <2>3. Link(up, s[i + 1], B[i + 1], B[(i + 1) - 1])  BY <1>4, <2>1
  <2> QED  BY <2>2, <2>3
<1>8. C[0] = B[1] /\ B[1] \in Texts
  <2>1. 0 \in 0..(n - 1) /\ 1 \in 0..n  BY <1>1
  <2> QED  BY <1>4, <1>6, <2>1
<1>9. Chained(up, r, B[1], C)  BY <1>1, <1>5, <1>7, <1>8 DEF Chained
<1>10. Linked(up, r, B[1])  BY <1>9 DEF Linked
<1>11. Link(up, Head(s), B[1], t)
  <2>1. 1 \in 1..n /\ 1 - 1 = 0  BY <1>1
  <2>2. Link(up, s[1], B[1], B[1 - 1])  BY <1>4, <2>1
  <2> QED  BY <1>1, <1>4, <2>1, <2>2
<1>t. t \in Texts  BY ViewShape
<1>12. View(up, <<Head(s)>> \o r, t) = <<Mark(up, Head(s).id, B[1], t)>> \o View(up, r, B[1])
  <2> DEFINE g == Head(s)  m == B[1]
  <2>1. g \in Groups /\ r \in Seq(Groups)  BY <1>1
  <2>2. Linked(up, r, m) /\ Link(up, g, m, t)  BY <1>10, <1>11
  <2> HIDE DEF g, m
  <2>3. Onto(up, r, g, m, t)  BY <2>1, <2>2, <1>t, LinkMore
  <2> QED  BY <2>3 DEF g, m, Onto
<1>13. View(up, s, t) = <<Mark(up, Head(s).id, B[1], t)>> \o View(up, r, B[1])  BY <1>2, <1>12
<1>14. Beyond(up, s, t, B[1])  BY <1>8, <1>10, <1>11, <1>13 DEF r, Beyond
<1> QED  BY <1>1, <1>2, <1>14 DEF r

(* The newest j groups of a stack.                                           *)
LEMMA LinkKeep ==
  ASSUME NEW up \in BOOLEAN, NEW s \in Seq(Groups), NEW t, Linked(up, s, t), NEW j \in 0..Len(s)
  PROVE  /\ SubSeq(s, 1, j) \in Seq(Groups)
         /\ Linked(up, SubSeq(s, 1, j), t)
         /\ View(up, SubSeq(s, 1, j), t) = SubSeq(View(up, s, t), 1, j)
<1> DEFINE n == Len(s)  r == SubSeq(s, 1, j)
<1>1. /\ n \in Nat /\ j \in Nat /\ j <= n /\ r \in Seq(Groups) /\ Len(r) = j
      /\ \A i \in 1..j : r[i] = s[i]
  OBVIOUS
<1>2. PICK B : Chained(up, s, t, B)  BY DEF Linked
<1>3. /\ B \in [0..n -> Texts] /\ B[0] = t
      /\ \A i \in 1..n : Link(up, s[i], B[i], B[i - 1])
  BY <1>2 DEF Chained
<1> DEFINE V == View(up, s, t)  W == View(up, r, t)  C == [i \in 0..j |-> B[i]]
<1>v. V \in Seq(Stack!Groups) /\ Len(V) = n  BY ViewShape
<1>10. V = [i \in 1..n |-> Mark(up, s[i].id, B[i], B[i - 1])]  BY <1>2, ViewIs
<1> HIDE DEF n, r
<1>4. C \in [0..j -> Texts] /\ \A i \in 0..j : C[i] = B[i]
  <2>1. \A i \in 0..j : i \in 0..n  BY <1>1
  <2> QED  BY <1>3, <2>1
<1> HIDE DEF C
<1>5. ASSUME NEW i \in 1..j
      PROVE  /\ i \in 1..n /\ C[i] = B[i] /\ C[i - 1] = B[i - 1] /\ r[i] = s[i]
             /\ Link(up, r[i], C[i], C[i - 1])
  <2>1. i \in 1..n /\ i \in 0..j /\ i - 1 \in 0..j  BY <1>1
  <2> QED  BY <1>1, <1>3, <1>4, <2>1
<1>6. C[0] = t
  <2>1. 0 \in 0..j  BY <1>1
  <2> QED  BY <1>3, <1>4, <2>1
<1>7. Chained(up, r, t, C)  BY <1>1, <1>4, <1>5, <1>6 DEF Chained
<1>8. Linked(up, r, t)  BY <1>7 DEF Linked
<1>11. W = [i \in 1..j |-> Mark(up, r[i].id, C[i], C[i - 1])]  BY <1>1, <1>7, ViewIs
<1>w. W \in Seq(Stack!Groups) /\ Len(W) = j  BY <1>1, <1>8, ViewShape
<1> HIDE DEF V, W
<1>12. \A i \in 1..j : W[i] = V[i]  BY <1>5, <1>10, <1>11
<1>13. W = SubSeq(V, 1, j)
  <2> DEFINE X == SubSeq(V, 1, j)
  <2>1. X \in Seq(Stack!Groups) /\ Len(X) = j /\ \A i \in 1..j : X[i] = V[i]  BY <1>1, <1>v
  <2> HIDE DEF X
  <2>2. W = X  BY <1>w, <1>12, <2>1, SeqEqual
  <2> QED  BY <2>2 DEF X
<1> QED  BY <1>1, <1>8, <1>13 DEF r, V, W

-----------------------------------------------------------------------------
(* The ids of the groups                                                     *)

IdsFall(s) == \A i, j \in 1..Len(s) : i < j => s[i].id > s[j].id
IdsRise(s) == \A i, j \in 1..Len(s) : i < j => s[i].id < s[j].id
IdsBelow(s, n) == \A i \in 1..Len(s) : s[i].id < n
IdsAbove(s, n) == \A i \in 1..Len(s) : s[i].id > n

(* An id above (below) those of a falling (rising) stack may be put in      *)
(* front of it.                                                             *)
LEMMA IdsMore ==
  ASSUME NEW s \in Seq(Groups), NEW g \in Groups
  PROVE  /\ IdsFall(s) /\ IdsBelow(s, g.id) => IdsFall(<<g>> \o s)
         /\ IdsRise(s) /\ IdsAbove(s, g.id) => IdsRise(<<g>> \o s)
         /\ \A n : IdsBelow(s, n) /\ g.id < n => IdsBelow(<<g>> \o s, n)
         /\ \A n : IdsAbove(s, n) /\ g.id > n => IdsAbove(<<g>> \o s, n)
<1> DEFINE r == <<g>> \o s  n == Len(s)
<1>1. /\ n \in Nat /\ Len(r) = n + 1 /\ r[1] = g
      /\ \A i \in 2..(n + 1) : r[i] = s[i - 1]
  OBVIOUS
<1> HIDE DEF r, n
<1>2. \A i \in 1..(n + 1) : i = 1 \/ (i \in 2..(n + 1) /\ i - 1 \in 1..n)  BY <1>1
<1>3. ASSUME IdsFall(s), IdsBelow(s, g.id) PROVE IdsFall(r)
  <2> SUFFICES ASSUME NEW i \in 1..(n + 1), NEW j \in 1..(n + 1), i < j PROVE r[i].id > r[j].id
    BY <1>1 DEF IdsFall
  <2>1. j \in 2..(n + 1) /\ j - 1 \in 1..n /\ r[j] = s[j - 1]  BY <1>1, <1>2
  <2>2. CASE i = 1
    <3>1. s[j - 1].id < g.id  BY <1>3, <2>1 DEF IdsBelow, n
    <3>2. r[i] = g  BY <1>1, <2>2
    <3>3. g.id \in Nat /\ s[j - 1].id \in Nat
      <4>1. s[j - 1] \in Groups  BY <2>1 DEF n
      <4> QED  BY <4>1 DEF Groups
    <3> QED  BY <2>1, <3>1, <3>2, <3>3
  <2>3. CASE i # 1
    <3>1. i - 1 \in 1..n /\ r[i] = s[i - 1] /\ i - 1 < j - 1  BY <1>1, <1>2, <2>1, <2>3
    <3>2. s[i - 1].id > s[j - 1].id  BY <1>3, <2>1, <3>1 DEF IdsFall, n
    <3> QED  BY <2>1, <3>1, <3>2
  <2> QED  BY <2>2, <2>3
<1>4. ASSUME IdsRise(s), IdsAbove(s, g.id) PROVE IdsRise(r)
  <2> SUFFICES ASSUME NEW i \in 1..(n + 1), NEW j \in 1..(n + 1), i < j PROVE r[i].id < r[j].id
    BY <1>1 DEF IdsRise
  <2>1. j \in 2..(n + 1) /\ j - 1 \in 1..n /\ r[j] = s[j - 1]  BY <1>1, <1>2
  <2>2. CASE i = 1
    <3>1. s[j - 1].id > g.id  BY <1>4, <2>1 DEF IdsAbove, n
    <3>2. r[i] = g  BY <1>1, <2>2
    <3>3. g.id \in Nat /\ s[j - 1].id \in Nat
      <4>1. s[j - 1] \in Groups  BY <2>1 DEF n
      <4> QED  BY <4>1 DEF Groups
    <3> QED  BY <2>1, <3>1, <3>2, <3>3
  <2>3. CASE i # 1
    <3>1. i - 1 \in 1..n /\ r[i] = s[i - 1] /\ i - 1 < j - 1  BY <1>1, <1>2, <2>1, <2>3
    <3>2. s[i - 1].id < s[j - 1].id  BY <1>4, <2>1, <3>1 DEF IdsRise, n
    <3> QED  BY <2>1, <3>1, <3>2
  <2> QED  BY <2>2, <2>3
<1>5. ASSUME NEW m, IdsBelow(s, m), g.id < m PROVE IdsBelow(r, m)
  <2> SUFFICES ASSUME NEW i \in 1..(n + 1) PROVE r[i].id < m  BY <1>1 DEF IdsBelow
  <2>1. CASE i = 1  BY <1>1, <1>5, <2>1
  <2>2. CASE i # 1
    <3>1. i - 1 \in 1..n /\ r[i] = s[i - 1]  BY <1>1, <1>2, <2>2
    <3> QED  BY <1>5, <3>1 DEF IdsBelow, n
  <2> QED  BY <2>1, <2>2
<1>6. ASSUME NEW m, IdsAbove(s, m), g.id > m PROVE IdsAbove(r, m)
  <2> SUFFICES ASSUME NEW i \in 1..(n + 1) PROVE r[i].id > m  BY <1>1 DEF IdsAbove
  <2>1. CASE i = 1  BY <1>1, <1>6, <2>1
  <2>2. CASE i # 1
    <3>1. i - 1 \in 1..n /\ r[i] = s[i - 1]  BY <1>1, <1>2, <2>2
    <3> QED  BY <1>6, <3>1 DEF IdsAbove, n
  <2> QED  BY <2>1, <2>2
<1> QED  BY <1>3, <1>4, <1>5, <1>6 DEF r

(* The ids of a stack without its newest group keep their order, and are    *)
(* below (above) that group's id.                                           *)
LEMMA IdsLess ==
  ASSUME NEW s \in Seq(Groups), s # <<>>
  PROVE  /\ IdsFall(s) => IdsFall(Tail(s)) /\ IdsBelow(Tail(s), Head(s).id)
         /\ IdsRise(s) => IdsRise(Tail(s)) /\ IdsAbove(Tail(s), Head(s).id)
         /\ \A n : IdsBelow(s, n) => IdsBelow(Tail(s), n) /\ Head(s).id < n
         /\ \A n : IdsAbove(s, n) => IdsAbove(Tail(s), n) /\ Head(s).id > n
<1> DEFINE r == Tail(s)  n == Len(s)
<1>1. /\ n \in Nat /\ n >= 1 /\ Len(r) = n - 1 /\ Head(s) = s[1]
      /\ \A i \in 1..(n - 1) : r[i] = s[i + 1]
  OBVIOUS
<1>n. n = Len(s)  OBVIOUS
<1> HIDE DEF r, n
<1>2. 1 \in 1..n /\ \A i \in 1..(n - 1) : i + 1 \in 1..n /\ 1 < i + 1  BY <1>1
<1>3. ASSUME IdsFall(s) PROVE IdsFall(r) /\ IdsBelow(r, s[1].id)
  <2>1. ASSUME NEW i \in 1..(n - 1), NEW j \in 1..(n - 1), i < j PROVE r[i].id > r[j].id
    <3>1. i + 1 < j + 1  BY <1>1, <2>1
    <3> QED  BY <1>1, <1>2, <1>3, <1>n, <3>1 DEF IdsFall
  <2>2. ASSUME NEW i \in 1..(n - 1) PROVE r[i].id < s[1].id
    <3>1. s[1].id > s[i + 1].id  BY <1>2, <1>3, <1>n DEF IdsFall
    <3>2. s[1] \in Groups /\ s[i + 1] \in Groups  BY <1>2, <1>n
    <3>3. s[1].id \in Nat /\ s[i + 1].id \in Nat  BY <3>2 DEF Groups
    <3> QED  BY <1>1, <3>1, <3>3
  <2> QED  BY <1>1, <2>1, <2>2 DEF IdsFall, IdsBelow
<1>4. ASSUME IdsRise(s) PROVE IdsRise(r) /\ IdsAbove(r, s[1].id)
  <2>1. ASSUME NEW i \in 1..(n - 1), NEW j \in 1..(n - 1), i < j PROVE r[i].id < r[j].id
    <3>1. i + 1 < j + 1  BY <1>1, <2>1
    <3> QED  BY <1>1, <1>2, <1>4, <1>n, <3>1 DEF IdsRise
  <2>2. ASSUME NEW i \in 1..(n - 1) PROVE r[i].id > s[1].id
    <3>1. s[1].id < s[i + 1].id  BY <1>2, <1>4, <1>n DEF IdsRise
    <3>2. s[1] \in Groups /\ s[i + 1] \in Groups  BY <1>2, <1>n
    <3>3. s[1].id \in Nat /\ s[i + 1].id \in Nat  BY <3>2 DEF Groups
    <3> QED  BY <1>1, <3>1, <3>3
  <2> QED  BY <1>1, <2>1, <2>2 DEF IdsRise, IdsAbove
<1>5. ASSUME NEW m, IdsBelow(s, m) PROVE IdsBelow(r, m) /\ s[1].id < m
  BY <1>1, <1>2, <1>5, <1>n DEF IdsBelow
<1>6. ASSUME NEW m, IdsAbove(s, m) PROVE IdsAbove(r, m) /\ s[1].id > m
  BY <1>1, <1>2, <1>6, <1>n DEF IdsAbove
<1> QED  BY <1>1, <1>3, <1>4, <1>5, <1>6 DEF r

(* The newest groups of a stack keep the order of the ids.                  *)
LEMMA IdsKeep ==
  ASSUME NEW s \in Seq(Groups), NEW j \in 0..Len(s)
  PROVE  /\ IdsFall(s) => IdsFall(SubSeq(s, 1, j))
         /\ \A n : IdsBelow(s, n) => IdsBelow(SubSeq(s, 1, j), n)
<1> DEFINE r == SubSeq(s, 1, j)
<1>1. Len(r) = j /\ \A i \in 1..j : r[i] = s[i] /\ i \in 1..Len(s)  OBVIOUS
<1> HIDE DEF r
<1> QED  BY <1>1 DEF IdsFall, IdsBelow, r

-----------------------------------------------------------------------------
(* A recorded change                                                         *)

(* The history of a buffer with the text t: its stacks lead to texts of the  *)
(* buffer, and it is within the limits.                                      *)
Sound(h, t) ==
  /\ h \in Histories
  /\ Linked(FALSE, h.done, t) /\ Linked(TRUE, h.undone, t)
  /\ WithinLimits(h) /\ h.bytes = ActualBytes(h)

(* Its ids, in the command ser.                                              *)
Ordered(h, ser) ==
  /\ IdsFall(h.done) /\ IdsRise(h.undone)
  /\ \A i \in 1..Len(h.done) : IdsAbove(h.undone, h.done[i].id)
  /\ IdsBelow(h.done, ser + 1) /\ IdsBelow(h.undone, ser + 1)
  /\ h.savedId <= ser /\ h.blocked <= ser

(* The newest group, when the command ser made it, leads back to b.          *)
BackTo(h, t, ser, b) ==
  h.done # <<>> /\ h.done[1].id = ser => MadeBy(h.done[1].changes, b, t)

(* While a command may still change the buffer, which held b before it: the  *)
(* group saved is not the command's; a command that got too large left       *)
(* nothing; otherwise the command's group holds all it did, or it did nothing.*)
Current(h, t, ser, b) ==
  /\ h.savedId # ser
  /\ h.blocked = ser => h.done = <<>> /\ h.undone = <<>> /\ h.savedId # 0
  /\ h.blocked # ser /\ ~(h.done # <<>> /\ h.done[1].id = ser) => t = b

(* The groups with one more change, before trimming.                         *)
Lengthened(h, ser, c) ==
  IF h.done # <<>> /\ h.done[1].id = ser
  THEN <<[h.done[1] EXCEPT !.changes = WithChange(@, c)]>> \o Tail(h.done)
  ELSE <<[id |-> ser, changes |-> <<c>>]>> \o h.done

(* The same of the stack that UndoStack keeps.                               *)
Extended(D, ser, t, u) ==
  IF D # <<>> /\ D[1].id = ser
  THEN [D EXCEPT ![1].after = u]
  ELSE <<[id |-> ser, before |-> t, after |-> u]>> \o D

Longer(h, t, ser, b, u, full) ==
  /\ full \in Seq(Groups) /\ full # <<>> /\ full[1].id = ser
  /\ IdsFall(full) /\ IdsBelow(full, ser + 1)
  /\ MadeBy(full[1].changes, b, u)
  /\ Linked(FALSE, full, u)
  /\ View(FALSE, full, u) = Extended(View(FALSE, h.done, t), ser, t, u)

(* The groups with one more change are a sound stack, and their view is     *)
(* the one UndoStack extends.                                               *)
LEMMA LengthenedIs ==
  ASSUME NEW t, NEW h, Sound(h, t), NEW ser \in Nat \ {0}, Ordered(h, ser), NEW b, BackTo(h, t, ser, b),
         ~Blocked(h, ser), Current(h, t, ser, b), NEW u \in Texts, NEW c \in Changes, Does(c, t, u),
         NEW full, full = Lengthened(h, ser, c)
  PROVE  Longer(h, t, ser, b, u, full)
<1> DEFINE s == h.done  V == View(FALSE, s, t)
<1>1. /\ s \in Seq(Groups) /\ Linked(FALSE, s, t) /\ IdsFall(s) /\ IdsBelow(s, ser + 1)
  BY DEF Sound, Ordered, Histories
<1>2. /\ t \in Texts /\ V \in Seq(Stack!Groups) /\ Len(V) = Len(s)
      /\ \A i \in 1..Len(s) : V[i].id = s[i].id
  BY <1>1, ViewShape
<1>3. V # <<>> <=> s # <<>>
  <2>1. V = <<>> <=> Len(V) = 0  BY <1>2
  <2>2. s = <<>> <=> Len(s) = 0  BY <1>1
  <2> QED  BY <1>2, <2>1, <2>2
<1>4. s # <<>> => V[1].id = s[1].id
  <2>1. s # <<>> => 1 \in 1..Len(s)  BY <1>1
  <2> QED  BY <1>2, <2>1
<1>s. h.blocked # ser  BY DEF Blocked
<1>v. V = View(FALSE, h.done, t) /\ s = h.done  OBVIOUS
<1> HIDE DEF V, s
<1>5. CASE s # <<>> /\ s[1].id = ser
  <2> DEFINE g == [s[1] EXCEPT !.changes = WithChange(@, c)]  r == Tail(s)
  <2>0. s[1] \in Groups /\ Head(s) = s[1] /\ s[1].changes \in Seq(Changes)
    <3>1. s[1] \in Groups /\ Head(s) = s[1]  BY <1>1, <1>5
    <3> QED  BY <3>1 DEF Groups
  <2>1. r \in Seq(Groups) /\ \E m : Beyond(FALSE, s, t, m)  BY <1>1, <1>5, LinkLess
  <2>a. PICK m : Beyond(FALSE, s, t, m)  BY <2>1
  <2>2. /\ m \in Texts
        /\ Link(FALSE, s[1], m, t)
        /\ Linked(FALSE, r, m)
        /\ View(FALSE, s, t) = <<Mark(FALSE, s[1].id, m, t)>> \o View(FALSE, r, m)
    BY <2>0, <2>a DEF Beyond
  <2>3. MadeBy(s[1].changes, m, t) /\ MadeBy(s[1].changes, b, t)
    BY <1>5, <1>v, <2>2 DEF Link, BackTo
  <2>4. WithChange(s[1].changes, c) \in Seq(Changes) /\ MadeBy(WithChange(s[1].changes, c), m, u)
        /\ MadeBy(WithChange(s[1].changes, c), b, u)
    BY <2>0, <2>3, WithChangeDoes
  <2>5. g \in Groups /\ g.id = ser /\ g.changes = WithChange(s[1].changes, c)
    BY <1>5, <2>0, <2>4 DEF Groups
  <2>6. full = <<g>> \o r  BY <1>5, <1>v DEF Lengthened
  <2>7. IdsFall(r) /\ IdsBelow(r, g.id) /\ IdsBelow(r, ser + 1) /\ g.id < ser + 1
    <3>1. IdsFall(r) /\ IdsBelow(r, s[1].id) /\ IdsBelow(r, ser + 1)  BY <1>1, <1>5, <2>0, IdsLess
    <3> QED  BY <1>5, <2>5, <3>1
  <2>8. Link(FALSE, g, m, u)  BY <2>4, <2>5 DEF Link
  <2> HIDE DEF g, r
  <2>9. Onto(FALSE, r, g, m, u)  BY <2>1, <2>2, <2>5, <2>8, LinkMore
  <2>10. /\ full \in Seq(Groups) /\ Linked(FALSE, full, u)
         /\ View(FALSE, full, u) = <<Mark(FALSE, ser, m, u)>> \o View(FALSE, r, m)
    BY <2>5, <2>6, <2>9 DEF Onto
  <2>11. IdsFall(full) /\ IdsBelow(full, ser + 1)  BY <2>1, <2>5, <2>6, <2>7, IdsMore
  <2>12. full # <<>> /\ full[1] = g  BY <2>1, <2>5, <2>6
  <2>13. View(FALSE, full, u) = Extended(V, ser, t, u)
    <3> DEFINE W == View(FALSE, r, m)
    <3>1. W \in Seq(Stack!Groups)  BY <2>1, <2>2, ViewShape
    <3>2. V = <<[id |-> ser, before |-> m, after |-> t]>> \o W  BY <1>5, <1>v, <2>2 DEF Mark
    <3>3. View(FALSE, full, u) = <<[id |-> ser, before |-> m, after |-> u]>> \o W  BY <2>10 DEF Mark
    <3>4. V # <<>> /\ V[1].id = ser  BY <1>3, <1>4, <1>5
    <3> HIDE DEF W
    <3>5. [V EXCEPT ![1].after = u] = <<[id |-> ser, before |-> m, after |-> u]>> \o W
      <4> DEFINE x == [id |-> ser, before |-> m, after |-> t]  y == [id |-> ser, before |-> m, after |-> u]
                 A == [V EXCEPT ![1].after = u]  B == <<y>> \o W  n == Len(W)
      <4>1. x \in Stack!Groups /\ y \in Stack!Groups  BY <1>2, <2>2 DEF Stack!Groups
      <4>2. [x EXCEPT !.after = u] = y  OBVIOUS
      <4>3. n \in Nat  BY <3>1
      <4> HIDE DEF x, y
      <4>4. V[1] = x /\ Len(V) = n + 1 /\ \A i \in 2..(n + 1) : V[i] = W[i - 1]
        BY <3>1, <3>2, <4>1 DEF x
      <4>5. B \in Seq(Stack!Groups) /\ B[1] = y /\ Len(B) = n + 1 /\ \A i \in 2..(n + 1) : B[i] = W[i - 1]
        BY <3>1, <4>1
      <4>6. A[1] = y /\ \A i \in 2..(n + 1) : A[i] = V[i]
        <5>1. 1 \in DOMAIN V /\ \A i \in 2..(n + 1) : i \in DOMAIN V /\ i # 1  BY <1>2, <4>3, <4>4
        <5> QED  BY <4>2, <4>4, <5>1
      <4>7. A \in Seq(Stack!Groups) /\ Len(A) = n + 1
        <5>1. A = [V EXCEPT ![1] = y]  BY <4>2, <4>4
        <5> QED  BY <1>2, <4>1, <4>4, <5>1
      <4> HIDE DEF A, B, n
      <4>8. \A i \in 1..(n + 1) : A[i] = B[i]
        <5> TAKE i \in 1..(n + 1)
        <5>1. i = 1 \/ i \in 2..(n + 1)  BY <4>3
        <5> QED  BY <4>4, <4>5, <4>6, <5>1
      <4>9. A = B  BY <4>5, <4>7, <4>8, SeqEqual
      <4> QED  BY <4>9 DEF A, B, y
    <3> QED  BY <3>3, <3>4, <3>5 DEF Extended
  <2> QED  BY <1>v, <2>4, <2>5, <2>10, <2>11, <2>12, <2>13 DEF Longer
<1>6. CASE ~(s # <<>> /\ s[1].id = ser)
  <2> DEFINE g == [id |-> ser, changes |-> <<c>>]
  <2>1. t = b  BY <1>6, <1>s, <1>v DEF Current
  <2>2. <<c>> \in Seq(Changes) /\ MadeBy(<<c>>, t, u)
    <3>1. t \in Strs  BY <1>2, TextsAre
    <3>2. MadeBy(<<>>, t, t) /\ <<>> \in Seq(Changes)  BY <3>1, NoChange
    <3>3. MadeBy(<<c>> \o <<>>, t, u)  BY <3>2, OneMore
    <3>4. <<c>> \o <<>> = <<c>>  OBVIOUS
    <3> QED  BY <3>3, <3>4
  <2>3. g \in Groups /\ g.id = ser /\ g.changes = <<c>>  BY <2>2 DEF Groups
  <2>4. full = <<g>> \o s  BY <1>6, <1>v DEF Lengthened
  <2>5. IdsBelow(s, ser)
    <3>1. CASE s = <<>>  BY <3>1 DEF IdsBelow
    <3>2. CASE s # <<>>
      <4>1. s[1].id < ser + 1 /\ s[1].id # ser /\ s[1].id \in Nat
        <5>1. 1 \in 1..Len(s) /\ s[1] \in Groups  BY <1>1, <3>2
        <5> QED  BY <1>1, <1>6, <3>2, <5>1 DEF IdsBelow, Groups
      <4>2. ASSUME NEW i \in 1..Len(s) PROVE s[i].id < ser
        <5>1. 1 \in 1..Len(s) /\ s[i] \in Groups  BY <1>1, <3>2
        <5>2. i = 1 \/ s[1].id > s[i].id
          <6>1. i = 1 \/ 1 < i  BY <1>1
          <6> QED  BY <1>1, <5>1, <6>1 DEF IdsFall
        <5>3. s[i].id \in Nat  BY <5>1 DEF Groups
        <5> QED  BY <4>1, <5>2, <5>3
      <4> QED  BY <4>2 DEF IdsBelow
    <3> QED  BY <3>1, <3>2
  <2>6. Link(FALSE, g, t, u)  BY <2>2, <2>3 DEF Link
  <2> HIDE DEF g
  <2>7. Onto(FALSE, s, g, t, u)  BY <1>1, <2>3, <2>6, LinkMore
  <2>8. /\ full \in Seq(Groups) /\ Linked(FALSE, full, u)
        /\ View(FALSE, full, u) = <<Mark(FALSE, ser, t, u)>> \o V
    BY <1>v, <2>3, <2>4, <2>7 DEF Onto
  <2>9. IdsFall(full) /\ IdsBelow(full, ser + 1)
    <3>1. g.id < ser + 1  BY <2>3
    <3> QED  BY <1>1, <2>3, <2>4, <2>5, <3>1, IdsMore
  <2>10. full # <<>> /\ full[1] = g  BY <1>1, <2>3, <2>4
  <2>11. ~(V # <<>> /\ V[1].id = ser)  BY <1>3, <1>4, <1>6
  <2>12. View(FALSE, full, u) = Extended(V, ser, t, u)  BY <2>8, <2>11 DEF Extended, Mark
  <2> QED  BY <1>v, <2>1, <2>2, <2>3, <2>8, <2>9, <2>10, <2>12 DEF Longer
<1> QED  BY <1>5, <1>6

(* What record-change! does with a change that is not empty while undo is   *)
(* enabled.                                                                 *)
LEMMA RecordIs ==
  ASSUME NEW h \in Histories, NEW ser, NEW c, c.text # <<>>, undoMode
  PROVE  RecordChange(h, ser, c) =
           IF Blocked(h, ser) THEN h ELSE TrimHistory(Push(h, Lengthened(h, ser, c)), ser)
<1>1. h.done \in Seq(Groups)  BY DEF Histories
<1>2. h.done # <<>> => Head(h.done) = h.done[1]  BY <1>1
<1>3. CASE h.done # <<>> /\ h.done[1].id = ser
  BY <1>2, <1>3 DEF RecordChange, Lengthened
<1>4. CASE ~(h.done # <<>> /\ h.done[1].id = ser)
  BY <1>2, <1>4 DEF RecordChange, Lengthened
<1> QED  BY <1>3, <1>4

SavedAfter(D, saved, k) ==
  IF \/ saved = 0 /\ k < Len(D)
     \/ \E i \in (k + 1)..Len(D) : D[i].id = saved
  THEN -1 ELSE saved

(* The change of UndoStack: from the stack D and the saved group to E and to.*)
StackChange(D, saved, ser, t, u, E, to) ==
  \E k \in 0..Len(Extended(D, ser, t, u)) :
    /\ E = SubSeq(Extended(D, ser, t, u), 1, k)
    /\ to = SavedAfter(Extended(D, ser, t, u), saved, k)

Records(h, t, ser, b, u, k) ==
  /\ Sound(k, u) /\ Ordered(k, ser) /\ BackTo(k, u, ser, b) /\ Current(k, u, ser, b)
  /\ Blocked(h, ser) => k = h
  /\ ~Blocked(h, ser) =>
       /\ k.undone = <<>> /\ (k.done = <<>> => Blocked(k, ser))
       /\ StackChange(View(FALSE, h.done, t), h.savedId, ser, t, u, View(FALSE, k.done, u), k.savedId)

(* A recorded change leaves a sound history, and is a change of UndoStack   *)
(* (record-change!, scheme/undo.scm).                                       *)
LEMMA RecordKeeps ==
  ASSUME NEW t, NEW h, Sound(h, t), NEW ser \in Nat \ {0}, Ordered(h, ser), NEW b, BackTo(h, t, ser, b),
         Current(h, t, ser, b), NEW u \in Texts, NEW c \in Changes, Does(c, t, u),
         c.text # <<>>, undoMode
  PROVE  Records(h, t, ser, b, u, RecordChange(h, ser, c))
<1> DEFINE k == RecordChange(h, ser, c)
<1>1. h \in Histories  BY DEF Sound
<1>2. CASE Blocked(h, ser)
  <2>1. k = h  BY <1>1, <1>2, RecordIs
  <2> HIDE DEF k
  <2>2. h.blocked = ser /\ h.done = <<>> /\ h.undone = <<>> /\ h.savedId # 0
    BY <1>2 DEF Blocked, Current
  <2>3. Linked(FALSE, <<>>, u) /\ Linked(TRUE, <<>>, u)  BY NoLinks
  <2>4. Sound(h, u)  BY <2>2, <2>3 DEF Sound
  <2>5. BackTo(h, u, ser, b) /\ Current(h, u, ser, b)  BY <2>2 DEF BackTo, Current
  <2>6. Records(h, t, ser, b, u, k)  BY <1>2, <2>1, <2>4, <2>5 DEF Records
  <2> QED  BY <2>6 DEF k
<1>3. CASE ~Blocked(h, ser)
  <2> DEFINE full == Lengthened(h, ser, c)  V == View(FALSE, h.done, t)  W == View(FALSE, full, u)
  <2>1. k = TrimHistory(Push(h, full), ser)  BY <1>1, <1>3, RecordIs
  <2>f. full = Lengthened(h, ser, c)  OBVIOUS
  <2> HIDE DEF full
  <2>2. /\ full \in Seq(Groups) /\ full # <<>> /\ full[1].id = ser
        /\ IdsFall(full) /\ IdsBelow(full, ser + 1)
        /\ MadeBy(full[1].changes, b, u)
        /\ Linked(FALSE, full, u)
        /\ W = Extended(V, ser, t, u)
    <3>1. Longer(h, t, ser, b, u, full)  BY <1>3, <2>f, LengthenedIs
    <3> QED  BY <3>1 DEF Longer, V, W
  <2>3. PICK j \in 0..Len(full) : Trimmed(h, full, ser, j, k)  BY <1>1, <2>1, <2>2, TrimPushed
  <2> HIDE DEF k, W, V
  <2>4. /\ k \in Histories
        /\ k.done = SubSeq(full, 1, j) /\ k.undone = <<>>
        /\ WithinLimits(k) /\ k.bytes = ActualBytes(k)
        /\ k.savedId = SavedAfter(full, h.savedId, j)
        /\ k.blocked = IF \E i \in (j + 1)..Len(full) : full[i].id = ser THEN ser ELSE h.blocked
    BY <2>3 DEF Trimmed, SavedAfter
  <2>5. Len(full) \in Nat /\ Len(full) >= 1 /\ j \in Nat  BY <2>2
  <2>6. /\ SubSeq(full, 1, j) \in Seq(Groups)
        /\ Linked(FALSE, SubSeq(full, 1, j), u)
        /\ View(FALSE, SubSeq(full, 1, j), u) = SubSeq(W, 1, j)
    BY <2>2, LinkKeep DEF W
  <2>7. Sound(k, u)
    <3>1. Linked(TRUE, <<>>, u)  BY NoLinks
    <3> QED  BY <2>4, <2>6, <3>1 DEF Sound
  <2>8. j = 0 \/ k.done[1] = full[1]  BY <2>2, <2>4
  <2>9. j = 0 <=> k.done = <<>>
    <3>1. Len(k.done) = j  BY <2>2, <2>4
    <3>2. k.done = <<>> <=> Len(k.done) = 0  BY <2>4, <2>6
    <3> QED  BY <3>1, <3>2
  <2>10. k.blocked = ser <=> j = 0
    <3>1. CASE j = 0
      <4>1. 1 \in (j + 1)..Len(full)  BY <2>5, <3>1
      <4> QED  BY <2>2, <2>4, <3>1, <4>1
    <3>2. CASE j # 0
      <4>1. ASSUME NEW i \in (j + 1)..Len(full) PROVE full[i].id # ser
        <5>1. 1 < i /\ 1 \in 1..Len(full) /\ i \in 1..Len(full)  BY <2>5, <3>2
        <5>2. full[1].id > full[i].id  BY <2>2, <5>1 DEF IdsFall
        <5>3. full[1] \in Groups /\ full[i] \in Groups  BY <2>2, <5>1
        <5>4. full[1].id \in Nat /\ full[i].id \in Nat  BY <5>3 DEF Groups
        <5> QED  BY <2>2, <5>2, <5>4
      <4>2. k.blocked = h.blocked  BY <2>4, <4>1
      <4> QED  BY <1>3, <3>2, <4>2 DEF Blocked
    <3> QED  BY <3>1, <3>2
  <2>11. BackTo(k, u, ser, b)  BY <2>2, <2>8, <2>9 DEF BackTo
  <2>12. k.savedId <= ser /\ k.savedId # ser /\ (j = 0 => k.savedId # 0)
    <3>1. h.savedId \in Int /\ h.savedId <= ser /\ h.savedId # ser  BY <1>1 DEF Histories, Ordered, Current
    <3>2. j = 0 => j < Len(full)  BY <2>5
    <3>3. k.savedId = -1 \/ (k.savedId = h.savedId /\ ~(h.savedId = 0 /\ j < Len(full)))
      BY <2>4 DEF SavedAfter
    <3> QED  BY <3>1, <3>2, <3>3
  <2>13. Current(k, u, ser, b)
    BY <2>2, <2>4, <2>8, <2>9, <2>10, <2>12 DEF Current
  <2>14. Ordered(k, ser)
    <3>1. IdsFall(k.done) /\ IdsBelow(k.done, ser + 1)  BY <2>2, <2>4, IdsKeep
    <3>2. IdsRise(k.undone) /\ IdsBelow(k.undone, ser + 1) /\ \A n : IdsAbove(k.undone, n)
      BY <2>4 DEF IdsRise, IdsBelow, IdsAbove
    <3>3. k.blocked <= ser
      <4>1. h.blocked \in Int /\ h.blocked <= ser  BY <1>1 DEF Histories, Ordered
      <4>2. k.blocked = ser \/ k.blocked = h.blocked  BY <2>4
      <4> QED  BY <4>1, <4>2
    <3> QED  BY <2>12, <3>1, <3>2, <3>3 DEF Ordered
  <2>15. StackChange(V, h.savedId, ser, t, u, View(FALSE, k.done, u), k.savedId)
    <3>1. /\ Len(W) = Len(full) /\ \A i \in 1..Len(full) : W[i].id = full[i].id
      <4>1. full \in Seq(Groups) /\ Linked(FALSE, full, u)  BY <2>2
      <4> HIDE DEF W
      <4>2. W = View(FALSE, full, u)  BY DEF W
      <4>3. Len(View(FALSE, full, u)) = Len(full) /\ \A i \in 1..Len(full) : View(FALSE, full, u)[i].id = full[i].id
        <5>1. FALSE \in BOOLEAN  OBVIOUS
        <5> QED  BY <4>1, <5>1, ViewShape
      <4> QED  BY <4>2, <4>3
    <3>2. SavedAfter(full, h.savedId, j) = SavedAfter(W, h.savedId, j)
      <4>1. \A i \in (j + 1)..Len(full) : i \in 1..Len(full)  BY <2>5
      <4> QED  BY <3>1, <4>1 DEF SavedAfter
    <3>3. j \in 0..Len(W) /\ View(FALSE, k.done, u) = SubSeq(W, 1, j) /\ k.savedId = SavedAfter(W, h.savedId, j)
      BY <2>4, <2>6, <3>1, <3>2
    <3> QED  BY <2>2, <3>3 DEF StackChange
  <2>16. Records(h, t, ser, b, u, k)
    BY <1>3, <2>4, <2>7, <2>9, <2>10, <2>11, <2>13, <2>14, <2>15 DEF Records, V, Blocked
  <2> QED  BY <2>16 DEF k
<1> QED  BY <1>2, <1>3

-----------------------------------------------------------------------------
(* The core's edits are changes                                              *)

(* A text splits at any of its positions.                                   *)
LEMMA Split ==
  ASSUME NEW t \in Strs, NEW p \in 0..Len(t)
  PROVE  \E a, z \in Strs :
           /\ t = a \o z /\ Len(a) = p /\ Len(z) = Len(t) - p
           /\ \A i \in 1..p : a[i] = t[i]
           /\ \A i \in 1..(Len(t) - p) : z[i] = t[p + i]
<1> DEFINE n == Len(t)  a == SubSeq(t, 1, p)  z == SubSeq(t, p + 1, n)
<1>1. n \in Nat /\ p \in Nat /\ p <= n /\ t \in Seq(Bytes)  BY DEF Strs
<1>2. a \in Seq(Bytes) /\ Len(a) = p /\ \A i \in 1..p : a[i] = t[i]  BY <1>1
<1>3. z \in Seq(Bytes) /\ Len(z) = n - p /\ \A i \in 1..(n - p) : z[i] = t[p + i]  BY <1>1
<1> DEFINE x == a \o z
<1> HIDE DEF a, z, n
<1>4. /\ x \in Seq(Bytes) /\ Len(x) = n
      /\ \A i \in 1..p : x[i] = a[i]
      /\ \A i \in (p + 1)..n : x[i] = z[i - p]
  BY SMTT(40), <1>1, <1>2, <1>3
<1>5. ASSUME NEW i \in 1..n PROVE x[i] = t[i]
  <2>1. CASE i <= p  BY <1>1, <1>2, <1>4, <2>1
  <2>2. CASE ~(i <= p)
    <3>1. i \in (p + 1)..n /\ i - p \in 1..(n - p) /\ p + (i - p) = i  BY <1>1, <2>2
    <3> QED  BY <1>3, <1>4, <3>1
  <2> QED  BY <2>1, <2>2
<1> HIDE DEF x
<1>6. t = x  BY <1>1, <1>4, <1>5, SeqEqual DEF n
<1> QED  BY <1>2, <1>3, <1>6 DEF x, n, Strs

(* An insertion of the core is the change it reports (undo_record_insert,   *)
(* src/undo.c).                                                             *)
LEMMA InsertDoes ==
  ASSUME NEW t \in Strs, NEW p \in 0..Len(t), NEW s \in Strs, NEW c,
         c = [kind |-> "insert", pos |-> p, text |-> s]
  PROVE  /\ c \in Changes /\ Does(c, t, Insert(t, p, s))
         /\ Insert(t, p, s) \in Strs /\ Len(Insert(t, p, s)) = Len(t) + Len(s)
<1>1. p \in Nat /\ Len(t) \in Nat /\ Len(s) \in Nat  BY DEF Strs
<1>2. PICK a, z \in Strs : t = a \o z /\ Len(a) = p /\ Len(z) = Len(t) - p  BY Split
<1>3. Insert(a \o z, Len(a), s) = a \o (s \o z)  BY <1>2, InsertAlg
<1>4. Insert(t, p, s) = a \o (s \o z)  BY <1>2, <1>3
<1>5. s \o z \in Strs /\ Len(s \o z) = Len(s) + Len(z)  BY <1>2, Halves
<1>6. a \o (s \o z) \in Strs /\ Len(a \o (s \o z)) = Len(a) + Len(s \o z)  BY <1>2, <1>5, Halves
<1>7. c \in Changes  BY <1>1 DEF Changes, Strs
<1>8. Does(c, t, a \o (s \o z))  BY <1>2 DEF Does
<1>9. Len(a \o (s \o z)) = Len(t) + Len(s)  BY <1>1, <1>2, <1>5, <1>6
<1> QED  BY <1>4, <1>6, <1>7, <1>8, <1>9

(* A deletion of the core is the change it reports (undo_record_delete,     *)
(* src/undo.c).                                                             *)
LEMMA DeleteDoes ==
  ASSUME NEW t \in Strs, NEW p \in Nat, NEW n \in Nat, p + n <= Len(t), NEW c,
         c = [kind |-> "delete", pos |-> p, text |-> SubSeq(t, p + 1, p + n)]
  PROVE  /\ c \in Changes /\ Does(c, t, Delete(t, p, n))
         /\ c.text \in Strs /\ Len(c.text) = n
         /\ Delete(t, p, n) \in Strs /\ Len(Delete(t, p, n)) = Len(t) - n
<1>1. Len(t) \in Nat /\ p \in 0..Len(t) /\ n \in 0..(Len(t) - p) /\ t \in Seq(Bytes)  BY DEF Strs
<1>2. PICK a, r \in Strs : /\ t = a \o r /\ Len(a) = p /\ Len(r) = Len(t) - p
                           /\ \A i \in 1..(Len(t) - p) : r[i] = t[p + i]
  BY <1>1, Split
<1>3. PICK s, z \in Strs : /\ r = s \o z /\ Len(s) = n /\ Len(z) = Len(r) - n
                           /\ \A i \in 1..n : s[i] = r[i]
  <2>1. n \in 0..Len(r)  BY <1>1, <1>2
  <2> QED  BY <1>2, <2>1, Split
<1>4. s = SubSeq(t, p + 1, p + n)
  <2> DEFINE x == SubSeq(t, p + 1, p + n)
  <2>1. x \in Seq(Bytes) /\ Len(x) = n /\ \A i \in 1..n : x[i] = t[p + i]  BY <1>1
  <2> HIDE DEF x
  <2>2. \A i \in 1..n : s[i] = t[p + i]
    <3>1. \A i \in 1..n : i \in 1..(Len(t) - p)  BY <1>1
    <3> QED  BY <1>2, <1>3, <3>1
  <2>3. s \in Seq(Bytes) /\ Len(s) = n  BY <1>3 DEF Strs
  <2>4. s = x  BY <2>1, <2>2, <2>3, SeqEqual
  <2> QED  BY <2>4 DEF x
<1>5. t = a \o (s \o z) /\ c.kind = "delete" /\ c.pos = p /\ c.text = s  BY <1>2, <1>3, <1>4
<1>6. Delete(a \o (s \o z), Len(a), Len(s)) = a \o z  BY <1>2, <1>3, DeleteAlg
<1>7. Delete(t, p, n) = a \o z  BY <1>2, <1>3, <1>5, <1>6
<1>8. a \o z \in Strs /\ Len(a \o z) = Len(a) + Len(z)  BY <1>2, <1>3, Halves
<1>9. Does(c, t, a \o z)  BY <1>2, <1>3, <1>5 DEF Does
<1>10. c \in Changes
  <2>1. s \in Seq(Bytes)  BY <1>3 DEF Strs
  <2> QED  BY <1>4, <2>1 DEF Changes
<1>11. Len(a \o z) = Len(t) - n  BY <1>1, <1>2, <1>3, <1>8
<1>12. s \in Strs /\ Len(s) = n  BY <1>3
<1> QED  BY <1>5, <1>7, <1>8, <1>9, <1>10, <1>11, <1>12

(* Typing over a byte deletes it and inserts another.                        *)
LEMMA OverwriteDoes ==
  ASSUME NEW t \in Strs, NEW p \in 0..(Len(t) - 1), NEW b \in Bytes, NEW c, NEW d,
         c = [kind |-> "delete", pos |-> p, text |-> <<t[p + 1]>>],
         d = [kind |-> "insert", pos |-> p, text |-> <<b>>]
  PROVE  /\ c \in Changes /\ d \in Changes
         /\ \E m \in Strs : Len(m) = Len(t) - 1 /\ Does(c, t, m) /\ Does(d, m, [t EXCEPT ![p + 1] = b])
         /\ [t EXCEPT ![p + 1] = b] \in Strs /\ Len([t EXCEPT ![p + 1] = b]) = Len(t)
<1> DEFINE n == Len(t)  u == [t EXCEPT ![p + 1] = b]
<1>1. n \in Nat /\ p \in Nat /\ p + 1 <= n /\ t \in Seq(Bytes)  BY DEF Strs
<1>2. t[p + 1] \in Bytes  BY <1>1
<1>3. <<t[p + 1]>> \in Strs /\ <<b>> \in Strs  BY <1>2 DEF Strs
<1>4. c \in Changes /\ d \in Changes  BY <1>1, <1>3 DEF Changes, Strs
<1>5. u \in Seq(Bytes) /\ Len(u) = n /\ u[p + 1] = b /\ \A i \in 1..n : i # p + 1 => u[i] = t[i]  BY <1>1
<1>6. PICK a, r \in Strs : /\ t = a \o r /\ Len(a) = p /\ Len(r) = Len(t) - p
                           /\ \A i \in 1..p : a[i] = t[i]
                           /\ \A i \in 1..(Len(t) - p) : r[i] = t[p + i]
  <2>1. p \in 0..Len(t)  BY <1>1
  <2> QED  BY <2>1, Split
<1>7. PICK s, z \in Strs : /\ r = s \o z /\ Len(s) = 1 /\ Len(z) = Len(r) - 1
                           /\ \A i \in 1..1 : s[i] = r[i]
                           /\ \A i \in 1..(Len(r) - 1) : z[i] = r[1 + i]
  <2>1. 1 \in 0..Len(r)  BY <1>1, <1>6
  <2> QED  BY <1>6, <2>1, Split
<1>8. s = <<t[p + 1]>>
  <2>1. s[1] = t[p + 1]
    <3>1. 1 \in 1..1 /\ 1 \in 1..(Len(t) - p)  BY <1>1
    <3> QED  BY <1>6, <1>7, <3>1
  <2>2. s \in Seq(Bytes)  BY <1>7 DEF Strs
  <2> QED  BY <1>7, <2>1, <2>2
<1>9. u = a \o (<<b>> \o z)
  <2> DEFINE y == <<b>> \o z  x == a \o y
  <2>0. a \in Seq(Bytes) /\ z \in Seq(Bytes) /\ Len(a) = p /\ Len(z) = n - p - 1
    BY <1>1, <1>6, <1>7 DEF Strs
  <2>1. /\ y \in Seq(Bytes) /\ Len(y) = n - p /\ y[1] = b
        /\ \A i \in 2..(n - p) : y[i] = z[i - 1]
    BY <1>1, <2>0
  <2> HIDE DEF y, n, u
  <2>2. /\ x \in Seq(Bytes) /\ Len(x) = n
        /\ \A i \in 1..p : x[i] = a[i]
        /\ \A i \in (p + 1)..n : x[i] = y[i - p]
    <3>1. /\ x \in Seq(Bytes) /\ Len(x) = Len(a) + Len(y)
          /\ \A i \in 1..(Len(a) + Len(y)) : x[i] = IF i <= Len(a) THEN a[i] ELSE y[i - Len(a)]
      BY <2>0, <2>1, ConcatProperties
    <3>2. Len(a) + Len(y) = n /\ Len(a) = p  BY <1>1, <2>0, <2>1
    <3> HIDE DEF x
    <3> QED  BY SMTT(40), <1>1, <3>1, <3>2
  <2> HIDE DEF x
  <2>3. ASSUME NEW i \in 1..n PROVE u[i] = x[i]
    <3>1. CASE i <= p
      <4>1. i \in 1..p /\ i # p + 1  BY <1>1, <3>1
      <4> QED  BY <1>5, <1>6, <2>2, <4>1
    <3>2. CASE i = p + 1
      <4>1. i \in (p + 1)..n /\ i - p = 1  BY <1>1, <3>2
      <4> QED  BY <1>5, <2>1, <2>2, <3>2, <4>1
    <3>3. CASE i > p + 1
      <4>1. /\ i \in (p + 1)..n /\ i - p \in 2..(n - p) /\ i - p - 1 \in 1..(Len(r) - 1)
            /\ i # p + 1 /\ 1 + (i - p - 1) = i - p /\ i - p \in 1..(Len(t) - p) /\ p + (i - p) = i
        BY <1>1, <1>6, <3>3 DEF n
      <4>2. x[i] = z[i - p - 1]  BY <2>1, <2>2, <4>1
      <4>3. z[i - p - 1] = r[i - p]  BY <1>7, <4>1
      <4>4. r[i - p] = t[i]  BY <1>6, <4>1
      <4> QED  BY <1>5, <4>1, <4>2, <4>3, <4>4
    <3> QED  BY <1>1, <3>1, <3>2, <3>3
  <2>4. u = x  BY <1>5, <2>2, <2>3, SeqEqual
  <2> QED  BY <2>4 DEF x, y
<1> HIDE DEF u
<1>10. Does(c, t, a \o z)
  <2>1. c.kind = "delete" /\ c.pos = p /\ c.text = s  BY <1>8
  <2> QED  BY <1>6, <1>7, <2>1 DEF Does
<1>11. Does(d, a \o z, u)
  <2>1. d.kind = "insert" /\ d.pos = p /\ d.text = <<b>>  OBVIOUS
  <2> QED  BY <1>6, <1>7, <1>9, <2>1 DEF Does
<1>12. a \o z \in Strs /\ Len(a \o z) = n - 1
  <2>1. a \o z \in Strs /\ Len(a \o z) = Len(a) + Len(z)  BY <1>6, <1>7, Halves
  <2> QED  BY <1>1, <1>6, <1>7, <2>1
<1> QED  BY <1>4, <1>5, <1>10, <1>11, <1>12 DEF u, Strs

-----------------------------------------------------------------------------
(* Two changes of one command are one change of UndoStack: the first group   *)
(* of the stack only gets another text after it.                             *)

(* A stack that UndoStack extends is the same for every new text but for    *)
(* that text.                                                               *)
LEMMA ExtendedForm ==
  ASSUME NEW D \in Seq(Stack!Groups), NEW ser \in Nat \ {0}, NEW t \in Texts
  PROVE  \E r \in Seq(Stack!Groups), bf \in Texts :
           \A u \in Texts : Extended(D, ser, t, u) = <<[id |-> ser, before |-> bf, after |-> u]>> \o r
<1>1. CASE D # <<>> /\ D[1].id = ser
  <2> DEFINE r == Tail(D)  bf == D[1].before  n == Len(D)
  <2>1. /\ n \in Nat /\ n >= 1 /\ r \in Seq(Stack!Groups) /\ Len(r) = n - 1 /\ D[1] \in Stack!Groups
        /\ \A i \in 1..(n - 1) : r[i] = D[i + 1]
    BY <1>1
  <2>2. bf \in Texts  BY <2>1 DEF Stack!Groups
  <2>3. ASSUME NEW u \in Texts
        PROVE  Extended(D, ser, t, u) = <<[id |-> ser, before |-> bf, after |-> u]>> \o r
    <3> DEFINE y == [id |-> ser, before |-> bf, after |-> u]
               A == [D EXCEPT ![1].after = u]  B == <<y>> \o r
    <3>1. [D[1] EXCEPT !.after = u] = y  BY <1>1, <2>1 DEF Stack!Groups
    <3>2. y \in Stack!Groups  BY <2>2 DEF Stack!Groups
    <3>3. A = [D EXCEPT ![1] = y]  BY <3>1
    <3> HIDE DEF y
    <3>4. A \in Seq(Stack!Groups) /\ Len(A) = n /\ A[1] = y /\ \A i \in 2..n : A[i] = D[i]
      BY <2>1, <3>2, <3>3
    <3>5. B \in Seq(Stack!Groups) /\ Len(B) = n /\ B[1] = y /\ \A i \in 2..n : B[i] = r[i - 1]
      BY <2>1, <3>2
    <3> HIDE DEF A, B, r, n
    <3>6. \A i \in 1..n : A[i] = B[i]
      <4> TAKE i \in 1..n
      <4>1. CASE i = 1  BY <3>4, <3>5, <4>1
      <4>2. CASE i # 1
        <5>1. i \in 2..n /\ i - 1 \in 1..(n - 1) /\ (i - 1) + 1 = i  BY <2>1, <4>2
        <5> QED  BY <2>1, <3>4, <3>5, <5>1
      <4> QED  BY <4>1, <4>2
    <3>7. A = B  BY <3>4, <3>5, <3>6, SeqEqual
    <3>8. Extended(D, ser, t, u) = A  BY <1>1 DEF Extended, A
    <3> QED  BY <3>7, <3>8 DEF B, y
  <2> QED  BY <2>1, <2>2, <2>3
<1>2. CASE ~(D # <<>> /\ D[1].id = ser)
  <2>1. \A u \in Texts : Extended(D, ser, t, u) = <<[id |-> ser, before |-> t, after |-> u]>> \o D
    BY <1>2 DEF Extended
  <2> QED  BY <2>1
<1> QED  BY <1>1, <1>2

(* E and F differ in the text after their first group only.                  *)
Alike(E, F, ser) ==
  /\ E \in Seq(Stack!Groups) /\ F \in Seq(Stack!Groups)
  /\ E # <<>> /\ Len(E) = Len(F)
  /\ E[1].id = ser
  /\ \A i \in 1..Len(E) : E[i].id = F[i].id

(* Extending such a stack again in one command, after dropping its oldest   *)
(* groups, gives the stack of one change to the last text.                  *)
LEMMA ExtendedAgain ==
  ASSUME NEW D \in Seq(Stack!Groups), NEW ser \in Nat \ {0}, NEW t \in Texts, NEW u \in Texts, NEW v \in Texts,
         NEW E, E = Extended(D, ser, t, u), NEW F, F = Extended(D, ser, t, v)
  PROVE  /\ Alike(E, F, ser)
         /\ \A k \in 1..Len(E) : Extended(SubSeq(E, 1, k), ser, u, v) = SubSeq(F, 1, k)
<1>1. PICK r \in Seq(Stack!Groups), bf \in Texts :
        \A w \in Texts : Extended(D, ser, t, w) = <<[id |-> ser, before |-> bf, after |-> w]>> \o r
  BY ExtendedForm
<1> DEFINE x == [id |-> ser, before |-> bf, after |-> u]  y == [id |-> ser, before |-> bf, after |-> v]
           n == Len(r) + 1
<1>2. x \in Stack!Groups /\ y \in Stack!Groups /\ x.id = ser /\ y.id = ser /\ [x EXCEPT !.after = v] = y
  BY DEF Stack!Groups
<1>3. E = <<x>> \o r /\ F = <<y>> \o r  BY <1>1
<1> HIDE DEF x, y
<1>n. n \in Nat /\ n >= 1  OBVIOUS
<1>4. E \in Seq(Stack!Groups) /\ Len(E) = n /\ E[1] = x /\ \A i \in 2..n : E[i] = r[i - 1]  BY <1>2, <1>3
<1>5. F \in Seq(Stack!Groups) /\ Len(F) = n /\ F[1] = y /\ \A i \in 2..n : F[i] = r[i - 1]  BY <1>2, <1>3
<1> HIDE DEF n
<1>6. E # <<>>  BY <1>n, <1>4
<1>7. \A i \in 1..n : i = 1 \/ i \in 2..n  BY <1>n
<1>8. Alike(E, F, ser)
  <2>1. \A i \in 1..n : E[i].id = F[i].id  BY SMTT(40), <1>2, <1>4, <1>5, <1>7
  <2>2. E[1].id = ser  BY <1>2, <1>4
  <2> QED  BY <1>4, <1>5, <1>6, <2>1, <2>2 DEF Alike
<1>9. ASSUME NEW k \in 1..n PROVE Extended(SubSeq(E, 1, k), ser, u, v) = SubSeq(F, 1, k)
  <2> DEFINE A == SubSeq(E, 1, k)  B == SubSeq(F, 1, k)
  <2>1. A \in Seq(Stack!Groups) /\ Len(A) = k /\ \A i \in 1..k : A[i] = E[i]  BY <1>n, <1>4
  <2>2. B \in Seq(Stack!Groups) /\ Len(B) = k /\ \A i \in 1..k : B[i] = F[i]  BY <1>n, <1>5
  <2> HIDE DEF A, B
  <2>3. k >= 1 /\ 1 \in 1..k /\ \A i \in 1..k : i \in 1..n  BY <1>n
  <2>4. A # <<>> /\ A[1] = x /\ A[1].id = ser  BY <1>2, <1>4, <2>1, <2>3
  <2> DEFINE C == [A EXCEPT ![1].after = v]
  <2>5. Extended(A, ser, u, v) = C  BY <2>4 DEF Extended
  <2>6. C = [A EXCEPT ![1] = y]  BY <1>2, <2>4
  <2>7. C \in Seq(Stack!Groups) /\ Len(C) = k /\ C[1] = y /\ \A i \in 1..k : i # 1 => C[i] = A[i]
    <3> HIDE DEF C
    <3>1. y \in Stack!Groups /\ 1 \in DOMAIN A  BY <1>2, <2>1, <2>3
    <3>2. C \in Seq(Stack!Groups) /\ Len(C) = Len(A)  BY <2>1, <2>6, <3>1
    <3>3. C[1] = y  BY <2>6, <3>1
    <3>4. \A i \in 1..k : i # 1 => C[i] = A[i]
      <4>1. \A i \in 1..k : i \in DOMAIN A  BY <2>1
      <4> QED  BY <2>6, <4>1
    <3> QED  BY <2>1, <3>2, <3>3, <3>4
  <2> HIDE DEF C
  <2>8. \A i \in 1..k : C[i] = B[i]
    <3> TAKE i \in 1..k
    <3>1. CASE i = 1  BY <1>5, <2>2, <2>3, <2>7, <3>1
    <3>2. CASE i # 1
      <4>1. i \in 2..n  BY <1>7, <2>3, <3>2
      <4> QED  BY <1>4, <1>5, <2>1, <2>2, <2>7, <3>2, <4>1
    <3> QED  BY <3>1, <3>2
  <2>9. C = B  BY <2>2, <2>7, <2>8, SeqEqual
  <2> QED  BY <2>5, <2>9 DEF A, B
<1> QED  BY <1>4, <1>8, <1>9

(* Dropping groups in two steps loses the saved text when dropping them     *)
(* at once does.                                                            *)
LEMMA SavedTwice ==
  ASSUME NEW E, NEW F, NEW ser, Alike(E, F, ser), NEW k \in 0..Len(E), NEW saved
  PROVE  /\ SavedAfter(E, saved, k) = SavedAfter(F, saved, k)
         /\ \A j \in 0..k : SavedAfter(SubSeq(F, 1, k), SavedAfter(E, saved, k), j) = SavedAfter(F, saved, j)
<1> DEFINE n == Len(E)
<1>1. /\ n \in Nat /\ Len(F) = n /\ F \in Seq(Stack!Groups) /\ \A i \in 1..n : E[i].id = F[i].id
  BY DEF Alike
<1>2. \A i \in 1..n : F[i].id # -1
  <2>1. \A i \in 1..n : F[i] \in Stack!Groups  BY <1>1
  <2> QED  BY <2>1 DEF Stack!Groups
<1> HIDE DEF n
<1>3. k \in Nat /\ k <= n  BY <1>1 DEF n
<1>4. SavedAfter(E, saved, k) = SavedAfter(F, saved, k)
  <2>1. \A i \in (k + 1)..n : i \in 1..n  BY <1>3
  <2> QED  BY <1>1, <2>1 DEF SavedAfter, n
<1>5. ASSUME NEW j \in 0..k
      PROVE  SavedAfter(SubSeq(F, 1, k), SavedAfter(F, saved, k), j) = SavedAfter(F, saved, j)
  <2> DEFINE G == SubSeq(F, 1, k)
             Lost(m) == (saved = 0 /\ m < n) \/ \E i \in (m + 1)..n : F[i].id = saved
             LostNext == (saved = 0 /\ j < k) \/ \E i \in (j + 1)..k : G[i].id = saved
  <2>1. Len(G) = k /\ \A i \in 1..k : G[i] = F[i]  BY <1>1, <1>3
  <2> HIDE DEF G
  <2>2. SavedAfter(F, saved, k) = (IF Lost(k) THEN -1 ELSE saved) /\ SavedAfter(F, saved, j) = (IF Lost(j) THEN -1 ELSE saved)
    BY <1>1 DEF SavedAfter
  <2>3. CASE Lost(k)
    <3>1. Lost(j)
      <4>1. k < n => j < n  BY <1>1, <1>3
      <4>2. \A i \in (k + 1)..n : i \in (j + 1)..n  BY <1>1, <1>3
      <4> QED  BY <2>3, <4>1, <4>2
    <3>2. \A i \in (j + 1)..k : G[i].id # -1
      <4>1. \A i \in (j + 1)..k : i \in 1..k /\ i \in 1..n  BY <1>1, <1>3
      <4> QED  BY <1>2, <2>1, <4>1
    <3>3. SavedAfter(G, -1, j) = -1  BY DEF SavedAfter
    <3> HIDE DEF Lost
    <3> QED  BY <2>2, <2>3, <3>1, <3>3 DEF G
  <2>4. CASE ~Lost(k)
    <3>1. SavedAfter(G, saved, j) = IF LostNext THEN -1 ELSE saved  BY <2>1 DEF SavedAfter
    <3>2. LostNext <=> Lost(j)
      <4>1. saved = 0 => k = n  BY <1>1, <1>3, <2>4
      <4>2. \A i \in (j + 1)..n : i \in (j + 1)..k \/ i \in (k + 1)..n  BY <1>1, <1>3
      <4>3. \A i \in (j + 1)..k : i \in (j + 1)..n /\ i \in 1..k  BY <1>1, <1>3
      <4>4. LostNext => Lost(j)  BY <2>1, <4>1, <4>3
      <4>5. Lost(j) => LostNext  BY <2>1, <2>4, <4>1, <4>2, <4>3
      <4> QED  BY <4>4, <4>5
    <3> HIDE DEF Lost, LostNext
    <3> QED  BY <2>2, <2>4, <3>1, <3>2 DEF G
  <2> QED  BY <2>3, <2>4
<1> QED  BY <1>4, <1>5

(* Two recorded changes of one command are together one change of           *)
(* UndoStack.                                                               *)
LEMMA RecordsTwice ==
  ASSUME NEW t, NEW h, Sound(h, t), NEW ser \in Nat \ {0}, NEW b, NEW m, NEW g, Records(h, t, ser, b, m, g),
         NEW u \in Texts, NEW k, Records(g, m, ser, b, u, k)
  PROVE  Records(h, t, ser, b, u, k)
<1> DEFINE D == View(FALSE, h.done, t)  S == View(FALSE, g.done, m)  R == View(FALSE, k.done, u)
           E == Extended(D, ser, t, m)  F == Extended(D, ser, t, u)
<1>1. /\ Sound(k, u) /\ Ordered(k, ser) /\ BackTo(k, u, ser, b) /\ Current(k, u, ser, b)
      /\ Blocked(g, ser) => k = g
      /\ ~Blocked(g, ser) =>
           /\ k.undone = <<>> /\ (k.done = <<>> => Blocked(k, ser))
           /\ StackChange(S, g.savedId, ser, m, u, R, k.savedId)
  BY DEF Records
<1>2. /\ Blocked(h, ser) => g = h
      /\ ~Blocked(h, ser) =>
           /\ g.undone = <<>> /\ (g.done = <<>> => Blocked(g, ser))
           /\ StackChange(D, h.savedId, ser, t, m, S, g.savedId)
      /\ Sound(g, m) /\ Current(g, m, ser, b)
  BY DEF Records
<1>3. t \in Texts /\ D \in Seq(Stack!Groups)
  <2>1. h.done \in Seq(Groups) /\ Linked(FALSE, h.done, t)  BY DEF Sound, Histories
  <2> QED  BY <2>1, ViewShape
<1>4. m \in Texts /\ g.done \in Seq(Groups) /\ S \in Seq(Stack!Groups) /\ Len(S) = Len(g.done)
  <2>1. g.done \in Seq(Groups) /\ Linked(FALSE, g.done, m)  BY <1>2 DEF Sound, Histories
  <2> QED  BY <2>1, ViewShape
<1>d. D = View(FALSE, h.done, t) /\ R = View(FALSE, k.done, u) /\ S = View(FALSE, g.done, m)  OBVIOUS
<1> HIDE DEF D, S, R
<1>e. E = Extended(D, ser, t, m) /\ F = Extended(D, ser, t, u)  OBVIOUS
<1> HIDE DEF E, F
<1>5. Alike(E, F, ser) /\ \A i \in 1..Len(E) : Extended(SubSeq(E, 1, i), ser, m, u) = SubSeq(F, 1, i)
  BY <1>3, <1>4, <1>e, ExtendedAgain
<1>6. Len(E) = Len(F) /\ Len(E) \in Nat /\ E \in Seq(Stack!Groups) /\ F \in Seq(Stack!Groups)  BY <1>5 DEF Alike
<1>7. CASE Blocked(h, ser)
  <2>1. g = h  BY <1>2, <1>7
  <2>2. k = h  BY <1>1, <1>7, <2>1
  <2> QED  BY <1>1, <1>7, <2>2 DEF Records
<1>8. CASE ~Blocked(h, ser)
  <2>1. PICK i \in 0..Len(E) : S = SubSeq(E, 1, i) /\ g.savedId = SavedAfter(E, h.savedId, i)
    BY <1>2, <1>8, <1>e DEF StackChange
  <2>2. /\ SavedAfter(E, h.savedId, i) = SavedAfter(F, h.savedId, i)
        /\ \A j \in 0..i : SavedAfter(SubSeq(F, 1, i), SavedAfter(E, h.savedId, i), j) = SavedAfter(F, h.savedId, j)
    BY <1>5, SavedTwice
  <2>3. Len(S) = i  BY <1>6, <2>1
  <2>4. CASE Blocked(g, ser)
    <3>1. k = g /\ g.done = <<>>  BY <1>1, <1>2, <2>4 DEF Blocked, Current
    <3>2. i = 0  BY <1>4, <2>3, <3>1
    <3>3. R = SubSeq(F, 1, 0)
      <4>1. View(FALSE, <<>>, u) = <<>>  BY NoLinks
      <4>2. SubSeq(F, 1, 0) = <<>>  BY <1>6
      <4> QED  BY <1>d, <3>1, <4>1, <4>2
    <3>4. k.savedId = SavedAfter(F, h.savedId, 0)  BY <2>1, <2>2, <3>1, <3>2
    <3>5. 0 \in 0..Len(F)  BY <1>6
    <3>6. StackChange(D, h.savedId, ser, t, u, R, k.savedId)  BY <1>e, <3>3, <3>4, <3>5 DEF StackChange
    <3>7. k.undone = <<>> /\ Blocked(k, ser)  BY <1>2, <1>8, <2>4, <3>1
    <3> QED  BY <1>1, <1>8, <1>d, <3>6, <3>7 DEF Records
  <2>5. CASE ~Blocked(g, ser)
    <3>1. g.done # <<>>  BY <1>2, <1>8, <2>5
    <3>2. i \in 1..Len(E)
      <4>1. Len(g.done) # 0  BY <1>4, <3>1
      <4> QED  BY <1>4, <1>6, <2>3, <4>1
    <3>3. Extended(S, ser, m, u) = SubSeq(F, 1, i)  BY <1>5, <2>1, <3>2
    <3> DEFINE X == SubSeq(F, 1, i)
    <3>4. PICK j \in 0..Len(X) : R = SubSeq(X, 1, j) /\ k.savedId = SavedAfter(X, g.savedId, j)
      BY <1>1, <2>5, <3>3 DEF StackChange
    <3>5. X \in Seq(Stack!Groups) /\ Len(X) = i /\ \A l \in 1..i : X[l] = F[l]  BY <1>6, <3>2
    <3>6. j \in 0..i /\ j \in 0..Len(F) /\ j <= i  BY <1>6, <3>2, <3>5
    <3>7. SubSeq(X, 1, j) = SubSeq(F, 1, j)
      <4> DEFINE A == SubSeq(X, 1, j)  B == SubSeq(F, 1, j)
      <4>1. A \in Seq(Stack!Groups) /\ Len(A) = j /\ \A l \in 1..j : A[l] = X[l]
        <5> HIDE DEF X
        <5> QED  BY <3>5, <3>6
      <4>2. B \in Seq(Stack!Groups) /\ Len(B) = j /\ \A l \in 1..j : B[l] = F[l]  BY <1>6, <3>6
      <4> HIDE DEF A, B, X
      <4>3. \A l \in 1..j : l \in 1..i  BY <3>2, <3>6
      <4>4. \A l \in 1..j : A[l] = B[l]  BY <3>5, <4>1, <4>2, <4>3
      <4>5. A = B  BY <4>1, <4>2, <4>4, SeqEqual
      <4> QED  BY <4>5 DEF A, B
    <3>8. k.savedId = SavedAfter(F, h.savedId, j)  BY <2>1, <2>2, <3>4, <3>6
    <3>9. StackChange(D, h.savedId, ser, t, u, R, k.savedId)
      BY <1>e, <3>4, <3>6, <3>7, <3>8 DEF StackChange
    <3> QED  BY <1>1, <1>8, <1>d, <2>5, <3>9 DEF Records
  <2> QED  BY <2>4, <2>5
<1> QED  BY <1>7, <1>8

-----------------------------------------------------------------------------
(* The inductive invariant                                                   *)

Types ==
  /\ file \in Texts /\ began \in Texts
  /\ modified \in BOOLEAN /\ readOnly \in BOOLEAN /\ open \in BOOLEAN /\ undoMode = TRUE
  /\ serial \in Nat \ {0} /\ run \in {1} \cup 0..Amalgamate
  /\ lastKind \in {"typing", "deleting", "other"}

IInv ==
  /\ Types
  /\ Sound(hist, text)
  /\ Ordered(hist, serial)
  /\ BackTo(hist, text, serial, began)
  /\ hist.blocked = serial => hist.done = <<>>
  /\ open => lastKind = "other"
  /\ open \/ lastKind # "other" => Current(hist, text, serial, began)

(* What an edit finds, in the command ser which found the text b, ...        *)
Editing(ser, b) ==
  /\ ser \in Nat \ {0} /\ b \in Texts
  /\ Sound(hist, text) /\ Ordered(hist, ser) /\ BackTo(hist, text, ser, b) /\ Current(hist, text, ser, b)

(* ... and what it leaves.                                                   *)
Edited(ser, b) ==
  /\ text' \in Texts /\ modified' = TRUE
  /\ UNCHANGED <<file, readOnly, undoMode>>
  /\ Records(hist, text, ser, b, text', hist')

(* The text of a sound history is a text of the buffer.                     *)
LEMMA TextInTexts ==
  ASSUME NEW h, NEW t, Sound(h, t)
  PROVE  t \in Texts /\ t \in Strs /\ Len(t) \in Nat /\ Len(t) <= MaxText
<1>1. h.done \in Seq(Groups) /\ Linked(FALSE, h.done, t)  BY DEF Sound, Histories
<1>2. t \in Texts  BY <1>1, ViewShape
<1>3. t \in Strs /\ Len(t) <= MaxText  BY <1>2, TextsAre
<1>4. Len(t) \in Nat  BY <1>3 DEF Strs
<1> QED  BY <1>2, <1>3, <1>4

(* After undo-boundary the command that starts, or goes on, may edit: the   *)
(* history is in the state that an edit needs.                              *)
LEMMA BoundaryOpens ==
  ASSUME IInv, NEW kind \in {"typing", "deleting", "other"}, UndoBoundary(kind)
  PROVE  /\ Editing(serial', began')
         /\ serial' \in {serial, serial + 1} /\ (kind = "other" => serial' = serial + 1)
         /\ run' \in {1} \cup 0..Amalgamate /\ lastKind' = kind
         /\ hist.blocked = serial' => hist.done = <<>>
<1>1. text \in Texts  BY TextInTexts DEF IInv
<1>2. run' \in {1} \cup 0..Amalgamate
  <2>1. Amalgamate \in Nat  BY LimitsAreNat
  <2>2. CASE Joins(kind)
    <3>1. run < Amalgamate /\ run \in {1} \cup 0..Amalgamate  BY <2>2 DEF Joins, IInv, Types
    <3>2. run' = run + 1  BY <2>2 DEF UndoBoundary, Joins
    <3> QED  BY <2>1, <3>1, <3>2
  <2>3. CASE ~Joins(kind)
    <3>1. run' = 0 \/ run' = 1  BY <2>3 DEF UndoBoundary
    <3> QED  BY <2>1, <3>1
  <2> QED  BY <2>2, <2>3
<1>3. CASE Joins(kind)
  <2>1. serial' = serial /\ began' = began /\ kind # "other" /\ lastKind # "other"
    BY <1>3 DEF UndoBoundary, Joins
  <2>2. Current(hist, text, serial, began)  BY <2>1 DEF IInv
  <2>3. Editing(serial', began')  BY <2>1, <2>2 DEF Editing, IInv, Types
  <2>4. hist.blocked = serial' => hist.done = <<>>  BY <2>1 DEF IInv
  <2> QED  BY <1>2, <2>1, <2>3, <2>4 DEF UndoBoundary
<1>4. CASE ~Joins(kind)
  <2>1. serial' = serial + 1 /\ began' = text /\ serial \in Nat \ {0}
    BY <1>4 DEF UndoBoundary, IInv, Types
  <2>2. /\ hist.done \in Seq(Groups) /\ hist.undone \in Seq(Groups)
        /\ hist.savedId \in Int /\ hist.blocked \in Int
    BY DEF IInv, Sound, Histories
  <2>3. hist.savedId <= serial /\ hist.blocked <= serial /\ IdsBelow(hist.done, serial + 1) /\ IdsBelow(hist.undone, serial + 1)
    BY DEF IInv, Ordered
  <2>4. /\ hist.savedId <= serial' /\ hist.savedId # serial'
        /\ hist.blocked <= serial' /\ hist.blocked # serial'
    BY <2>1, <2>2, <2>3
  <2>5. ASSUME NEW s \in Seq(Groups), IdsBelow(s, serial + 1)
        PROVE  IdsBelow(s, serial' + 1) /\ \A i \in 1..Len(s) : s[i].id # serial'
    <3>1. ASSUME NEW i \in 1..Len(s) PROVE s[i].id < serial' + 1 /\ s[i].id # serial'
      <4>1. s[i].id < serial + 1  BY <2>5 DEF IdsBelow
      <4>2. s[i] \in Groups  OBVIOUS
      <4>3. s[i].id \in Nat  BY <4>2 DEF Groups
      <4> QED  BY <2>1, <4>1, <4>3
    <3> QED  BY <3>1 DEF IdsBelow
  <2>6. IdsBelow(hist.done, serial' + 1) /\ IdsBelow(hist.undone, serial' + 1)  BY <2>2, <2>3, <2>5
  <2>7. hist.done # <<>> => hist.done[1].id # serial'
    <3>1. hist.done # <<>> => 1 \in 1..Len(hist.done)  BY <2>2
    <3> QED  BY <2>2, <2>3, <2>5, <3>1
  <2>8. Ordered(hist, serial')  BY <2>4, <2>6 DEF IInv, Ordered
  <2>9. BackTo(hist, text, serial', began') /\ Current(hist, text, serial', began')
    BY <2>1, <2>4, <2>7 DEF BackTo, Current
  <2>10. serial' \in Nat \ {0}  BY <2>1
  <2>11. Editing(serial', began')  BY <1>1, <2>1, <2>8, <2>9, <2>10 DEF Editing, IInv
  <2> QED  BY <1>2, <2>1, <2>4, <2>11 DEF UndoBoundary
<1> QED  BY <1>3, <1>4

(* An insertion of the core keeps what it found sound.                      *)
LEMMA CoreInserts ==
  ASSUME NEW ser, NEW b, Editing(ser, b), undoMode = TRUE, NEW p \in Positions, NEW s \in Strs, s # <<>>, CoreInsert(p, s, ser)
  PROVE  Edited(ser, b)
<1> DEFINE c == [kind |-> "insert", pos |-> p, text |-> s]
<1>1. text \in Strs /\ Len(text) \in Nat /\ Sound(hist, text)  BY TextInTexts DEF Editing
<1>2. p \in 0..Len(text)  BY DEF Positions
<1>3. /\ c \in Changes /\ Does(c, text, Insert(text, p, s))
      /\ Insert(text, p, s) \in Strs /\ Len(Insert(text, p, s)) = Len(text) + Len(s)
  BY <1>1, <1>2, InsertDoes
<1>4. /\ text' = Insert(text, p, s) /\ modified' = TRUE /\ hist' = RecordChange(hist, ser, c)
      /\ UNCHANGED <<file, readOnly, undoMode>> /\ Len(text) + Len(s) <= MaxText
  BY DEF CoreInsert
<1>5. c.text # <<>>  OBVIOUS
<1> HIDE DEF c
<1>6. text' \in Texts  BY <1>3, <1>4, TextsAre
<1>7. Does(c, text, text')  BY <1>3, <1>4
<1>8. Records(hist, text, ser, b, text', RecordChange(hist, ser, c))
  BY <1>3, <1>5, <1>6, <1>7, RecordKeeps DEF Editing
<1> QED  BY <1>4, <1>6, <1>8 DEF Edited

(* A deletion of the core keeps what it found sound.                        *)
LEMMA CoreDeletes ==
  ASSUME NEW ser, NEW b, Editing(ser, b), undoMode = TRUE, NEW p \in Nat, NEW n \in Nat, n # 0, CoreDelete(p, n, ser)
  PROVE  Edited(ser, b)
<1> DEFINE c == [kind |-> "delete", pos |-> p, text |-> SubSeq(text, p + 1, p + n)]
<1>1. text \in Strs /\ Len(text) \in Nat /\ Len(text) <= MaxText  BY TextInTexts DEF Editing
<1>2. p + n <= Len(text)  BY DEF CoreDelete
<1>3. /\ c \in Changes /\ Does(c, text, Delete(text, p, n))
      /\ c.text \in Strs /\ Len(c.text) = n
      /\ Delete(text, p, n) \in Strs /\ Len(Delete(text, p, n)) = Len(text) - n
  BY <1>1, <1>2, DeleteDoes
<1>4. /\ text' = Delete(text, p, n) /\ modified' = TRUE /\ hist' = RecordChange(hist, ser, c)
      /\ UNCHANGED <<file, readOnly, undoMode>>
  BY DEF CoreDelete
<1> HIDE DEF c
<1>5. c.text # <<>>
  <2>1. Len(<<>>) = 0  OBVIOUS
  <2> QED  BY <1>3, <2>1
<1>6. text' \in Texts
  <2>1. Len(text) - n <= MaxText  BY <1>1, LimitsAreNat
  <2> QED  BY <1>3, <1>4, <2>1, TextsAre
<1>7. Does(c, text, text')  BY <1>3, <1>4
<1>8. Records(hist, text, ser, b, text', RecordChange(hist, ser, c))
  BY <1>3, <1>5, <1>6, <1>7, RecordKeeps DEF Editing
<1> QED  BY <1>4, <1>6, <1>8 DEF Edited

(* A key in overwrite mode, which makes two changes, does so too.           *)
LEMMA OverwriteEdits ==
  ASSUME IInv, OverwriteKey, Editing(serial', began')
  PROVE  Edited(serial', began')
<1> DEFINE ser == serial'  b == began'
<1>1. PICK p \in 0..(Len(text) - 1), x \in Bytes :
        /\ text' = [text EXCEPT ![p + 1] = x]
        /\ hist' = RecordChange(RecordChange(hist, ser, [kind |-> "delete", pos |-> p, text |-> <<text[p + 1]>>]),
                                ser, [kind |-> "insert", pos |-> p, text |-> <<x>>])
  BY DEF OverwriteKey
<1>0. Editing(ser, b)  OBVIOUS
<1>u. undoMode  BY DEF IInv, Types
<1> HIDE DEF ser, b
<1> DEFINE c == [kind |-> "delete", pos |-> p, text |-> <<text[p + 1]>>]
           d == [kind |-> "insert", pos |-> p, text |-> <<x>>]
<1>2. text \in Strs /\ Len(text) \in Nat /\ Len(text) <= MaxText  BY TextInTexts DEF IInv
<1>3. /\ c \in Changes /\ d \in Changes
      /\ \E m \in Strs : Len(m) = Len(text) - 1 /\ Does(c, text, m) /\ Does(d, m, [text EXCEPT ![p + 1] = x])
      /\ [text EXCEPT ![p + 1] = x] \in Strs /\ Len([text EXCEPT ![p + 1] = x]) = Len(text)
  BY <1>2, OverwriteDoes
<1>4. PICK m \in Strs : Len(m) = Len(text) - 1 /\ Does(c, text, m) /\ Does(d, m, text')  BY <1>1, <1>3
<1>5. m \in Texts
  <2>1. Len(text) - 1 <= MaxText  BY <1>2, LimitsAreNat
  <2> QED  BY <1>4, <2>1, TextsAre
<1>6. text' \in Texts  BY <1>1, <1>2, <1>3, TextsAre
<1>7. c.text # <<>> /\ d.text # <<>>  OBVIOUS
<1>8. hist' = RecordChange(RecordChange(hist, ser, c), ser, d)  BY <1>1
<1> HIDE DEF c, d
<1> DEFINE g == RecordChange(hist, ser, c)
<1>9. Records(hist, text, ser, b, m, g)  BY <1>0, <1>u, <1>3, <1>4, <1>5, <1>7, RecordKeeps DEF Editing
<1>g. hist' = RecordChange(g, ser, d)  BY <1>8
<1> HIDE DEF g
<1>10. Records(g, m, ser, b, text', RecordChange(g, ser, d))
  <2>1. Sound(g, m) /\ Ordered(g, ser) /\ BackTo(g, m, ser, b) /\ Current(g, m, ser, b)  BY <1>9 DEF Records
  <2>2. ser \in Nat \ {0}  BY <1>0 DEF Editing
  <2> QED  BY <1>u, <1>3, <1>4, <1>6, <1>7, <2>1, <2>2, RecordKeeps
<1>11. Records(hist, text, ser, b, text', hist')
  <2>1. ser \in Nat \ {0} /\ Sound(hist, text)  BY <1>0 DEF Editing
  <2>2. Records(g, m, ser, b, text', hist')  BY <1>g, <1>10
  <2> QED  BY <1>6, <1>9, <2>1, <2>2, RecordsTwice
<1>12. modified' = TRUE /\ UNCHANGED <<file, readOnly, undoMode>>  BY DEF OverwriteKey
<1> QED  BY <1>6, <1>11, <1>12 DEF Edited, ser, b

(* The newest group of one stack, undone or redone, goes to the other.       *)
Shifted(up, down, s, r, t, m) ==
  /\ Head(s) \in Groups /\ Tail(s) \in Seq(Groups) /\ <<Head(s)>> \o r \in Seq(Groups)
  /\ s = <<Head(s)>> \o Tail(s)
  /\ m \in Texts /\ Move(up, t, Head(s)) = m
  /\ Linked(up, Tail(s), m) /\ Linked(down, <<Head(s)>> \o r, m)
  /\ View(up, s, t) = <<Mark(up, Head(s).id, m, t)>> \o View(up, Tail(s), m)
  /\ View(down, <<Head(s)>> \o r, m) = <<Mark(up, Head(s).id, m, t)>> \o View(down, r, t)

(* A group taken off a stack and put in front of the other one leaves       *)
(* both linked to the text it leads to.                                     *)
LEMMA Shift ==
  ASSUME NEW up \in BOOLEAN, NEW down \in BOOLEAN,
         (up = TRUE /\ down = FALSE) \/ (up = FALSE /\ down = TRUE),
         NEW s \in Seq(Groups), s # <<>>, NEW r \in Seq(Groups), NEW t,
         Linked(up, s, t), Linked(down, r, t)
  PROVE  \E m : Shifted(up, down, s, r, t, m)
<1>1. Head(s) \in Groups /\ Tail(s) \in Seq(Groups) /\ s = <<Head(s)>> \o Tail(s)
      /\ \E m : Beyond(up, s, t, m)
  BY LinkLess
<1>2. PICK m : Beyond(up, s, t, m)  BY <1>1
<1>3. /\ m \in Texts
      /\ Link(up, Head(s), m, t)
      /\ Linked(up, Tail(s), m)
      /\ View(up, s, t) = <<Mark(up, Head(s).id, m, t)>> \o View(up, Tail(s), m)
  BY <1>2 DEF Beyond
<1> DEFINE g == Head(s)
<1>4. g \in Groups /\ Link(up, g, m, t)  BY <1>1, <1>3
<1> HIDE DEF g
<1>5. Move(up, t, g) = m  BY <1>4, LinkMoves
<1>6. Link(down, g, t, m)
  <2>1. CASE up = TRUE /\ down = FALSE  BY <1>4, <2>1 DEF Link
  <2>2. CASE up = FALSE /\ down = TRUE  BY <1>4, <2>2 DEF Link
  <2> QED  BY <2>1, <2>2
<1>8. Onto(down, r, g, t, m)  BY <1>3, <1>4, <1>6, LinkMore
<1>9. Mark(down, g.id, t, m) = Mark(up, g.id, m, t)
  <2>1. CASE up = TRUE /\ down = FALSE  BY <2>1 DEF Mark
  <2>2. CASE up = FALSE /\ down = TRUE  BY <2>2 DEF Mark
  <2> QED  BY <2>1, <2>2
<1>10. /\ <<g>> \o r \in Seq(Groups) /\ Linked(down, <<g>> \o r, m)
       /\ View(down, <<g>> \o r, m) = <<Mark(up, g.id, m, t)>> \o View(down, r, t)
  BY <1>8, <1>9 DEF Onto
<1>11. Shifted(up, down, s, r, t, m)  BY <1>1, <1>3, <1>5, <1>10 DEF Shifted, g
<1> QED  BY <1>11

(* What undo does to a history that satisfies the invariant: trimming       *)
(* drops nothing, and the newest group of done goes to undone.              *)
LEMMA UndoMoves ==
  ASSUME IInv, Undo
  PROVE  /\ hist.done # <<>>
         /\ Shifted(FALSE, TRUE, hist.done, hist.undone, text, text')
         /\ hist' \in Histories
         /\ hist'.done = Tail(hist.done) /\ hist'.undone = <<Head(hist.done)>> \o hist.undone
         /\ hist'.savedId = hist.savedId /\ hist'.blocked = hist.blocked
         /\ Sound(hist', text') /\ Ordered(hist', serial')
         /\ modified' = (TopId(hist') # hist'.savedId)
<1>1. UndoBoundary("other")  BY DEF Undo
<1>2. Ordered(hist, serial') /\ Sound(hist, text)
  <2>1. Editing(serial', began')  BY <1>1, BoundaryOpens
  <2> QED  BY <2>1 DEF Editing
<1>3. /\ hist \in Histories /\ hist.done \in Seq(Groups) /\ hist.undone \in Seq(Groups)
      /\ Linked(FALSE, hist.done, text) /\ Linked(TRUE, hist.undone, text)
      /\ WithinLimits(hist) /\ hist.bytes = ActualBytes(hist)
  BY <1>2 DEF Sound, Histories
<1>4. TrimHistory(hist, serial') = hist  BY <1>3, TrimNothing
<1> DEFINE g == Head(hist.done)
<1>5. /\ hist.done # <<>>
      /\ text' = RevertGroup(text, g)
      /\ hist' = [hist EXCEPT !.done = Tail(@), !.undone = <<g>> \o @]
      /\ modified' = (TopId(hist') # hist'.savedId)
  BY <1>4 DEF Undo, UpdateModified
<1>6. PICK m : Shifted(FALSE, TRUE, hist.done, hist.undone, text, m)  BY <1>3, <1>5, Shift
<1>7. Shifted(FALSE, TRUE, hist.done, hist.undone, text, text')
  <2>1. Move(FALSE, text, g) = m  BY <1>6 DEF Shifted
  <2>2. text' = m  BY <1>5, <2>1 DEF Move
  <2> QED  BY <1>6, <2>2
<1>8. /\ g \in Groups /\ Tail(hist.done) \in Seq(Groups) /\ <<g>> \o hist.undone \in Seq(Groups)
      /\ hist.done = <<g>> \o Tail(hist.done)
      /\ Linked(FALSE, Tail(hist.done), text') /\ Linked(TRUE, <<g>> \o hist.undone, text')
  BY <1>7 DEF Shifted
<1> HIDE DEF g
<1>9. /\ hist' \in Histories
      /\ hist'.done = Tail(hist.done) /\ hist'.undone = <<g>> \o hist.undone
      /\ hist'.savedId = hist.savedId /\ hist'.blocked = hist.blocked /\ hist'.bytes = hist.bytes
  BY <1>3, <1>5, <1>8 DEF Histories
<1>10. WithinLimits(hist') /\ ActualBytes(hist') = ActualBytes(hist)
  <2>1. <<g>> \in Seq(Groups)  BY <1>8
  <2>2. HistoryGroups(hist) = (<<g>> \o Tail(hist.done)) \o hist.undone  BY <1>8 DEF HistoryGroups
  <2>3. HistoryGroups(hist') = Tail(hist.done) \o (<<g>> \o hist.undone)  BY <1>9 DEF HistoryGroups
  <2>4. SameTotals(hist, hist')
    <3> DEFINE b == Tail(hist.done)  c == hist.undone  k == hist'
    <3>1. b \in Seq(Groups) /\ c \in Seq(Groups)  BY <1>3, <1>8
    <3>2. HistoryGroups(hist) = (<<g>> \o b) \o c /\ HistoryGroups(k) = b \o (<<g>> \o c)  BY <2>2, <2>3
    <3> HIDE DEF b, c, k
    <3>3. SameTotals(hist, k)  BY <2>1, <3>1, <3>2, GroupMoved
    <3> QED  BY <3>3 DEF k
  <2> QED  BY <1>3, <2>4 DEF SameTotals
<1>11. Sound(hist', text')  BY <1>3, <1>8, <1>9, <1>10 DEF Sound
<1>12. Ordered(hist', serial')
  <2> DEFINE d == hist.done  r == Tail(hist.done)  u == hist.undone
  <2>1. /\ IdsFall(d) /\ IdsRise(u) /\ \A i \in 1..Len(d) : IdsAbove(u, d[i].id)
        /\ IdsBelow(d, serial' + 1) /\ IdsBelow(u, serial' + 1)
        /\ hist.savedId <= serial' /\ hist.blocked <= serial'
    BY <1>2 DEF Ordered
  <2>2. IdsFall(r) /\ IdsBelow(r, g.id) /\ IdsBelow(r, serial' + 1) /\ g.id < serial' + 1
    BY <1>3, <1>5, <2>1, IdsLess DEF g
  <2>3. /\ Len(d) = Len(r) + 1 /\ Len(r) \in Nat /\ d[1] = g
        /\ \A i \in 1..Len(r) : r[i] = d[i + 1]
    BY <1>3, <1>5 DEF g
  <2> HIDE DEF d, r
  <2>4. IdsAbove(u, g.id)
    <3>1. 1 \in 1..Len(d)  BY <2>3
    <3> QED  BY <2>1, <2>3, <3>1
  <2>5. IdsRise(<<g>> \o u)  BY <1>3, <1>8, <2>1, <2>4, IdsMore
  <2>6. IdsBelow(<<g>> \o u, serial' + 1)  BY <1>3, <1>8, <2>1, <2>2, IdsMore
  <2>7. ASSUME NEW i \in 1..Len(r) PROVE IdsAbove(<<g>> \o u, r[i].id)
    <3>1. i + 1 \in 1..Len(d)  BY <2>3
    <3>2. IdsAbove(u, r[i].id)  BY <2>1, <2>3, <3>1
    <3>3. r[i].id < g.id  BY <2>2 DEF IdsBelow
    <3>4. r[i].id \in Nat /\ g.id \in Nat
      <4>1. r[i] \in Groups  BY <1>8 DEF r
      <4> QED  BY <1>8, <4>1 DEF Groups
    <3>5. g.id > r[i].id  BY <3>3, <3>4
    <3> QED  BY <1>3, <1>8, <3>2, <3>5, IdsMore
  <2> QED  BY <1>9, <2>1, <2>2, <2>5, <2>6, <2>7 DEF Ordered, r
<1> QED  BY <1>5, <1>7, <1>9, <1>11, <1>12 DEF g

(* What redo does: the newest group of undone goes to done.                 *)
LEMMA RedoMoves ==
  ASSUME IInv, Redo
  PROVE  /\ hist.undone # <<>>
         /\ Shifted(TRUE, FALSE, hist.undone, hist.done, text, text')
         /\ hist' \in Histories
         /\ hist'.undone = Tail(hist.undone) /\ hist'.done = <<Head(hist.undone)>> \o hist.done
         /\ hist'.savedId = hist.savedId /\ hist'.blocked = hist.blocked
         /\ Sound(hist', text') /\ Ordered(hist', serial')
         /\ modified' = (TopId(hist') # hist'.savedId)
<1>1. UndoBoundary("other")  BY DEF Redo
<1>2. Ordered(hist, serial') /\ Sound(hist, text)
  <2>1. Editing(serial', began')  BY <1>1, BoundaryOpens
  <2> QED  BY <2>1 DEF Editing
<1>3. /\ hist \in Histories /\ hist.done \in Seq(Groups) /\ hist.undone \in Seq(Groups)
      /\ Linked(FALSE, hist.done, text) /\ Linked(TRUE, hist.undone, text)
      /\ WithinLimits(hist) /\ hist.bytes = ActualBytes(hist)
  BY <1>2 DEF Sound, Histories
<1>4. TrimHistory(hist, serial') = hist  BY <1>3, TrimNothing
<1> DEFINE g == Head(hist.undone)
<1>5. /\ hist.undone # <<>>
      /\ text' = ApplyGroup(text, g)
      /\ hist' = [hist EXCEPT !.undone = Tail(@), !.done = <<g>> \o @]
      /\ modified' = (TopId(hist') # hist'.savedId)
  BY <1>4 DEF Redo, UpdateModified
<1>6. PICK m : Shifted(TRUE, FALSE, hist.undone, hist.done, text, m)  BY <1>3, <1>5, Shift
<1>7. Shifted(TRUE, FALSE, hist.undone, hist.done, text, text')
  <2>1. Move(TRUE, text, g) = m  BY <1>6 DEF Shifted
  <2>2. text' = m  BY <1>5, <2>1 DEF Move
  <2> QED  BY <1>6, <2>2
<1>8. /\ g \in Groups /\ Tail(hist.undone) \in Seq(Groups) /\ <<g>> \o hist.done \in Seq(Groups)
      /\ hist.undone = <<g>> \o Tail(hist.undone)
      /\ Linked(TRUE, Tail(hist.undone), text') /\ Linked(FALSE, <<g>> \o hist.done, text')
  BY <1>7 DEF Shifted
<1> HIDE DEF g
<1>9. /\ hist' \in Histories
      /\ hist'.undone = Tail(hist.undone) /\ hist'.done = <<g>> \o hist.done
      /\ hist'.savedId = hist.savedId /\ hist'.blocked = hist.blocked /\ hist'.bytes = hist.bytes
  BY <1>3, <1>5, <1>8 DEF Histories
<1>10. WithinLimits(hist') /\ ActualBytes(hist') = ActualBytes(hist)
  <2>1. <<g>> \in Seq(Groups)  BY <1>8
  <2>2. HistoryGroups(hist) = hist.done \o (<<g>> \o Tail(hist.undone))  BY <1>8 DEF HistoryGroups
  <2>3. HistoryGroups(hist') = (<<g>> \o hist.done) \o Tail(hist.undone)  BY <1>9 DEF HistoryGroups
  <2>4. SameTotals(hist', hist)
    <3> DEFINE b == hist.done  c == Tail(hist.undone)  k == hist'
    <3>1. b \in Seq(Groups) /\ c \in Seq(Groups)  BY <1>3, <1>8
    <3>2. HistoryGroups(k) = (<<g>> \o b) \o c /\ HistoryGroups(hist) = b \o (<<g>> \o c)  BY <2>2, <2>3
    <3> HIDE DEF b, c, k
    <3>3. SameTotals(k, hist)  BY <2>1, <3>1, <3>2, GroupMoved
    <3> QED  BY <3>3 DEF k
  <2> QED  BY <1>3, <2>4 DEF SameTotals
<1>11. Sound(hist', text')  BY <1>3, <1>8, <1>9, <1>10 DEF Sound
<1>12. Ordered(hist', serial')
  <2> DEFINE d == hist.done  r == Tail(hist.undone)  u == hist.undone
  <2>1. /\ IdsFall(d) /\ IdsRise(u) /\ \A i \in 1..Len(d) : IdsAbove(u, d[i].id)
        /\ IdsBelow(d, serial' + 1) /\ IdsBelow(u, serial' + 1)
        /\ hist.savedId <= serial' /\ hist.blocked <= serial'
    BY <1>2 DEF Ordered
  <2>2. IdsRise(r) /\ IdsAbove(r, g.id) /\ IdsBelow(r, serial' + 1) /\ g.id < serial' + 1
    BY <1>3, <1>5, <2>1, IdsLess DEF g
  <2>3. \A i \in 1..Len(d) : IdsAbove(r, d[i].id) /\ g.id > d[i].id
    BY <1>3, <1>5, <2>1, IdsLess DEF g
  <2>4. IdsBelow(d, g.id)
    <3>1. ASSUME NEW i \in 1..Len(d) PROVE d[i].id < g.id
      <4>1. d[i] \in Groups  BY <1>3
      <4>2. d[i].id \in Nat /\ g.id \in Nat  BY <1>8, <4>1 DEF Groups
      <4> QED  BY <2>3, <4>2
    <3> QED  BY <3>1 DEF IdsBelow
  <2>5. IdsFall(<<g>> \o d)  BY <1>3, <1>8, <2>1, <2>4, IdsMore
  <2>6. IdsBelow(<<g>> \o d, serial' + 1)  BY <1>3, <1>8, <2>1, <2>2, IdsMore
  <2>7. ASSUME NEW i \in 1..Len(<<g>> \o d) PROVE IdsAbove(r, (<<g>> \o d)[i].id)
    <3>1. i = 1 \/ (i - 1 \in 1..Len(d) /\ i # 1)  BY <1>3, <1>8
    <3>2. CASE i = 1
      <4>1. (<<g>> \o d)[i] = g  BY <1>3, <1>8, <3>2
      <4> QED  BY <2>2, <4>1
    <3>3. CASE i # 1
      <4>1. (<<g>> \o d)[i] = d[i - 1]  BY <1>3, <1>8, <3>1, <3>3
      <4> QED  BY <2>3, <3>1, <3>3, <4>1
    <3> QED  BY <3>2, <3>3
  <2> QED  BY <1>9, <2>1, <2>2, <2>5, <2>6, <2>7 DEF Ordered
<1> QED  BY <1>5, <1>7, <1>9, <1>11, <1>12 DEF g

-----------------------------------------------------------------------------
(* Every step keeps the invariant                                            *)

(* An empty history is sound for any text.                                  *)
LEMMA EmptyIsSound ==
  ASSUME NEW t \in Texts, NEW ser \in Nat \ {0}
  PROVE  /\ Sound(EmptyHistory, t) /\ Ordered(EmptyHistory, ser)
         /\ BackTo(EmptyHistory, t, ser, t) /\ Current(EmptyHistory, t, ser, t)
<1> DEFINE h == EmptyHistory
<1>1. /\ h \in Histories /\ h.done = <<>> /\ h.undone = <<>> /\ h.bytes = 0 /\ h.savedId = 0 /\ h.blocked = -1
  BY DEF EmptyHistory, Histories
<1> HIDE DEF h
<1>2. Linked(FALSE, <<>>, t) /\ Linked(TRUE, <<>>, t)  BY NoLinks
<1>3. HistoryGroups(h) = <<>>  BY <1>1 DEF HistoryGroups
<1>4. ActualBytes(h) = 0
  <2>1. ActualBytes(h) = AB!Fold(0, <<>>) /\ AB!Adds(Groups)  BY <1>3, Totals
  <2> DEFINE f == [i \in 0..0 |-> 0]
  <2>2. f[0] = 0 /\ 1..0 = {} /\ DOMAIN <<>> = 1..0 /\ 0 \in Nat  OBVIOUS
  <2> HIDE DEF f
  <2>3. AB!Along(f, 0, <<>>, 0)  BY <2>2 DEF AB!Along
  <2>4. AB!Fold(0, <<>>) = f[0]  BY <2>2, <2>3, AB!FoldIs
  <2> QED  BY <2>1, <2>2, <2>4
<1>5. Sound(h, t)  BY <1>1, <1>2, <1>3, <1>4 DEF Sound, WithinLimits
<1>6. Ordered(h, ser)
  BY <1>1 DEF Ordered, IdsFall, IdsRise, IdsBelow
<1>7. BackTo(h, t, ser, t) /\ Current(h, t, ser, t)  BY <1>1 DEF BackTo, Current
<1> QED  BY <1>5, <1>6, <1>7 DEF h

(* The invariant holds at the start.                                        *)
LEMMA InitOK == Init => IInv
<1> SUFFICES ASSUME Init PROVE IInv  OBVIOUS
<1>1. text \in Texts /\ hist = EmptyHistory /\ began = text /\ serial = 1  BY DEF Init
<1>2. Types
  <2>1. run \in {1} \cup 0..Amalgamate  BY LimitsAreNat DEF Init
  <2>2. file \in Texts /\ began \in Texts /\ serial \in Nat \ {0}  BY <1>1 DEF Init
  <2>3. modified \in BOOLEAN /\ readOnly \in BOOLEAN /\ open \in BOOLEAN /\ undoMode = TRUE  BY DEF Init
  <2>4. lastKind = "other"  BY DEF Init
  <2> QED  BY <2>1, <2>2, <2>3, <2>4 DEF Types
<1>3. /\ Sound(hist, text) /\ Ordered(hist, serial)
      /\ BackTo(hist, text, serial, began) /\ Current(hist, text, serial, began)
  BY <1>1, EmptyIsSound
<1>4. hist.done = <<>>  BY <1>1 DEF EmptyHistory
<1> QED  BY <1>2, <1>3, <1>4 DEF IInv, Init

(* An edit keeps the invariant.                                             *)
LEMMA EditKeeps ==
  ASSUME IInv, Editing(serial', began'), Edited(serial', began'),
         run' \in {1} \cup 0..Amalgamate, lastKind' \in {"typing", "deleting", "other"},
         open' \in BOOLEAN, open' => lastKind' = "other"
  PROVE  IInv'
<1>1. /\ text' \in Texts /\ modified' = TRUE
      /\ UNCHANGED <<file, readOnly, undoMode>>
      /\ Records(hist, text, serial', began', text', hist')
  BY DEF Edited
<1>2. /\ Sound(hist', text') /\ Ordered(hist', serial')
      /\ BackTo(hist', text', serial', began') /\ Current(hist', text', serial', began')
  BY <1>1 DEF Records
<1>3. hist'.blocked = serial' => hist'.done = <<>>  BY <1>2 DEF Current
<1>4. Types'  BY <1>1 DEF IInv, Types, Editing
<1> QED  BY <1>2, <1>3, <1>4 DEF IInv

(* A byte is a text of length one.                                          *)
LEMMA OneByte == \A x \in Bytes : <<x>> \in Strs /\ <<x>> # <<>> /\ Len(<<x>>) = 1
  BY DEF Strs

(* The keys that edit keep the invariant.                                   *)
LEMMA KeyKeeps ==
  ASSUME IInv, TypeKey \/ DeleteKey \/ OverwriteKey
  PROVE  IInv' /\ Editing(serial', began') /\ Edited(serial', began') /\ serial' \in {serial, serial + 1}
<1>u. undoMode = TRUE  BY DEF IInv, Types
<1>1. PICK kind \in {"typing", "deleting"} : UndoBoundary(kind)
  BY DEF TypeKey, DeleteKey, OverwriteKey
<1>2. /\ Editing(serial', began') /\ serial' \in {serial, serial + 1}
      /\ run' \in {1} \cup 0..Amalgamate /\ lastKind' = kind
  BY <1>1, BoundaryOpens
<1>3. open' = FALSE  BY DEF TypeKey, DeleteKey, OverwriteKey
<1>4. Edited(serial', began')
  <2>1. CASE TypeKey
    <3>1. PICK p \in Positions, x \in Bytes : CoreInsert(p, <<x>>, serial')  BY <2>1 DEF TypeKey
    <3> QED  BY <1>u, <1>2, <3>1, OneByte, CoreInserts
  <2>2. CASE DeleteKey
    <3>1. PICK p \in Positions : CoreDelete(p, 1, serial')  BY <2>2 DEF DeleteKey
    <3>2. p \in Nat  BY DEF Positions
    <3> QED  BY <1>u, <1>2, <3>1, <3>2, CoreDeletes
  <2>3. CASE OverwriteKey  BY <1>2, <2>3, OverwriteEdits
  <2> QED  BY <2>1, <2>2, <2>3
<1>5. IInv'  BY <1>2, <1>3, <1>4, EditKeeps
<1> QED  BY <1>2, <1>4, <1>5

(* The edits of a command keep the invariant.                               *)
LEMMA CommandEditKeeps ==
  ASSUME IInv, CommandInsert \/ CommandDelete
  PROVE  IInv' /\ Editing(serial', began') /\ Edited(serial', began') /\ serial' = serial
<1>u. undoMode = TRUE  BY DEF IInv, Types
<1>1. open /\ UNCHANGED <<keyVars, open, began>>  BY DEF CommandInsert, CommandDelete
<1>2. serial' = serial /\ began' = began /\ run' = run /\ lastKind' = lastKind /\ open' = open
  BY <1>1 DEF keyVars
<1>t. text \in Texts  BY TextInTexts DEF IInv
<1>3. Editing(serial', began')  BY <1>1, <1>2, <1>t DEF Editing, IInv, Types
<1>4. Edited(serial', began')
  <2>1. CASE CommandInsert
    <3>1. PICK p \in Positions, s \in Strings(MaxInsert) \ {<<>>} : CoreInsert(p, s, serial)
      BY <2>1 DEF CommandInsert
    <3>2. s \in Strs
      <4>1. PICK k \in 0..MaxInsert : s \in [1..k -> Bytes]  BY DEF Strings
      <4>2. k \in Nat  BY LimitsAreNat
      <4> QED  BY <4>1, <4>2 DEF Strs
    <3> QED  BY <1>u, <1>2, <1>3, <3>1, <3>2, CoreInserts
  <2>2. CASE CommandDelete
    <3>1. PICK p \in Positions : \E n \in 1..(Len(text) - p) : CoreDelete(p, n, serial)
      BY <2>2 DEF CommandDelete
    <3>2. PICK n \in 1..(Len(text) - p) : CoreDelete(p, n, serial)  BY <3>1
    <3>3. p \in Nat /\ n \in Nat /\ n # 0  BY TextInTexts DEF Positions, IInv
    <3> QED  BY <1>u, <1>2, <1>3, <3>2, <3>3, CoreDeletes
  <2> QED  BY <2>1, <2>2
<1>5. IInv'
  <2>1. /\ run' \in {1} \cup 0..Amalgamate /\ lastKind' \in {"typing", "deleting", "other"}
        /\ open' \in BOOLEAN /\ (open' => lastKind' = "other")
    BY <1>2 DEF IInv, Types
  <2> QED  BY <1>3, <1>4, <2>1, EditKeeps
<1> QED  BY <1>2, <1>3, <1>4, <1>5

(* The steps that record no change keep the invariant.                      *)
LEMMA OtherKeeps ==
  ASSUME IInv, CommandKey \/ SaveBuffer \/ LoadFile \/ ToggleReadOnly
  PROVE  IInv'
<1>t. /\ text \in Texts /\ Sound(hist, text) /\ hist \in Histories
      /\ hist.done \in Seq(Groups) /\ serial \in Nat \ {0}
  BY TextInTexts DEF IInv, Sound, Histories, Types
<1>1. CASE CommandKey
  <2>1. /\ Editing(serial', began') /\ run' \in {1} \cup 0..Amalgamate /\ lastKind' = "other"
        /\ hist.blocked = serial' => hist.done = <<>>
    BY <1>1, BoundaryOpens DEF CommandKey
  <2>2. open' = TRUE /\ UNCHANGED <<text, file, modified, readOnly, hist, undoMode>>  BY <1>1 DEF CommandKey
  <2>3. Types'  BY <2>1, <2>2 DEF IInv, Types, Editing
  <2> QED  BY <2>1, <2>2, <2>3 DEF IInv, Editing
<1>2. CASE SaveBuffer
  <2>1. /\ open /\ file' = text /\ modified' = FALSE /\ hist' = [hist EXCEPT !.savedId = TopId(hist)]
        /\ open' = FALSE /\ lastKind' = lastKind
        /\ UNCHANGED <<text, readOnly, undoMode, serial, run, began>>
    BY <1>2 DEF SaveBuffer, keyVars
  <2>2. TopId(hist) \in Nat /\ TopId(hist) <= serial
    <3>1. CASE hist.done = <<>>  BY <1>t, <3>1 DEF TopId
    <3>2. CASE hist.done # <<>>
      <4>1. 1 \in 1..Len(hist.done) /\ hist.done[1] \in Groups /\ Head(hist.done) = hist.done[1]  BY <1>t, <3>2
      <4>2. hist.done[1].id \in Nat  BY <4>1 DEF Groups
      <4>3. hist.done[1].id < serial + 1  BY <4>1 DEF IInv, Ordered, IdsBelow
      <4> QED  BY <1>t, <3>2, <4>1, <4>2, <4>3 DEF TopId
    <3> QED  BY <3>1, <3>2
  <2>3. /\ hist' \in Histories /\ hist'.done = hist.done /\ hist'.undone = hist.undone /\ hist'.bytes = hist.bytes
        /\ hist'.blocked = hist.blocked /\ hist'.savedId <= serial
    <3> DEFINE i == TopId(hist)
    <3>1. i \in Int /\ i <= serial /\ hist' = [hist EXCEPT !.savedId = i]  BY <2>1, <2>2
    <3> HIDE DEF i
    <3> QED  BY <1>t, <3>1 DEF Histories
  <2>4. WithinLimits(hist') /\ ActualBytes(hist') = ActualBytes(hist)
    <3>1. HistoryGroups(hist') = HistoryGroups(hist)  BY <2>3 DEF HistoryGroups
    <3>2. WithinLimits(hist)  BY <1>t DEF Sound
    <3> QED  BY <3>1, <3>2 DEF WithinLimits, ActualBytes, ChangeCount
  <2>5. Sound(hist', text')  BY <1>t, <2>1, <2>3, <2>4 DEF Sound
  <2>6. Ordered(hist', serial')  BY <2>1, <2>3 DEF IInv, Ordered
  <2>7. BackTo(hist', text', serial', began')  BY <2>1, <2>3 DEF IInv, BackTo
  <2>8. hist'.blocked = serial' => hist'.done = <<>>  BY <2>1, <2>3 DEF IInv
  <2>9. lastKind = "other"  BY <2>1 DEF IInv
  <2>10. Types'  BY <1>t, <2>1 DEF IInv, Types
  <2> QED  BY <2>1, <2>5, <2>6, <2>7, <2>8, <2>9, <2>10 DEF IInv
<1>3. CASE LoadFile
  <2>1. /\ open /\ text' \in Strings(1) /\ file' = text' /\ modified' = FALSE /\ hist' = EmptyHistory /\ began' = text'
        /\ UNCHANGED <<readOnly, undoMode, serial, run, lastKind, open>>
    BY <1>3 DEF LoadFile, keyVars
  <2>2. text' \in Texts
    <3>1. PICK k \in 0..1 : text' \in [1..k -> Bytes]  BY <2>1 DEF Strings
    <3>2. k \in 0..MaxText  BY LimitsAreNat
    <3> QED  BY <3>1, <3>2 DEF Texts, Strings
  <2>3. /\ Sound(hist', text') /\ Ordered(hist', serial')
        /\ BackTo(hist', text', serial', began') /\ Current(hist', text', serial', began')
    BY <1>t, <2>1, <2>2, EmptyIsSound
  <2>4. hist'.done = <<>>  BY <2>1 DEF EmptyHistory
  <2>5. Types'  BY <2>1, <2>2 DEF IInv, Types
  <2> QED  BY <2>1, <2>3, <2>4, <2>5 DEF IInv
<1>4. CASE ToggleReadOnly
  <2>1. /\ readOnly' = ~readOnly
        /\ UNCHANGED <<text, file, modified, hist, undoMode, serial, run, lastKind, open, began>>
    BY <1>4 DEF ToggleReadOnly, keyVars
  <2>2. Types'  BY <2>1 DEF IInv, Types
  <2> QED  BY <2>1, <2>2 DEF IInv
<1> QED  BY <1>1, <1>2, <1>3, <1>4

(* After an undo or a redo the newest group is not the command's.            *)
LEMMA StepKeeps ==
  ASSUME IInv, Undo \/ Redo
  PROVE  IInv' /\ serial' = serial + 1
<1>1. UndoBoundary("other") /\ open' = FALSE /\ UNCHANGED <<file, readOnly, undoMode>>
  BY DEF Undo, Redo
<1>2. /\ Editing(serial', began') /\ serial' = serial + 1
      /\ run' \in {1} \cup 0..Amalgamate /\ lastKind' = "other"
  BY <1>1, BoundaryOpens
<1>3. /\ hist' \in Histories /\ Sound(hist', text') /\ Ordered(hist', serial')
      /\ hist'.blocked = hist.blocked /\ modified' \in BOOLEAN
  BY UndoMoves, RedoMoves
<1>4. serial \in Nat \ {0} /\ hist.blocked \in Int /\ hist.blocked <= serial
  BY DEF IInv, Types, Sound, Histories, Ordered
<1>5. hist'.blocked # serial'  BY <1>2, <1>3, <1>4
<1>6. hist'.done # <<>> => hist'.done[1].id # serial'
  <2>1. hist.done \in Seq(Groups) /\ hist.undone \in Seq(Groups) /\ hist'.done \in Seq(Groups)
    BY <1>3 DEF IInv, Sound, Histories
  <2>2. IdsBelow(hist.done, serial + 1) /\ IdsBelow(hist.undone, serial + 1)  BY DEF IInv, Ordered
  <2>3. IdsBelow(hist'.done, serial + 1)
    <3>1. CASE Undo
      <4>1. hist.done # <<>> /\ hist'.done = Tail(hist.done)  BY <3>1, UndoMoves
      <4> QED  BY <2>1, <2>2, <4>1, IdsLess
    <3>2. CASE Redo
      <4>1. hist.undone # <<>> /\ hist'.done = <<Head(hist.undone)>> \o hist.done  BY <3>2, RedoMoves
      <4>2. Head(hist.undone) \in Groups /\ Head(hist.undone).id < serial + 1  BY <2>1, <2>2, <4>1, IdsLess
      <4> QED  BY <2>1, <2>2, <4>1, <4>2, IdsMore
    <3> QED  BY <3>1, <3>2
  <2>4. hist'.done # <<>> => 1 \in 1..Len(hist'.done) /\ hist'.done[1] \in Groups  BY <2>1
  <2>5. hist'.done # <<>> => hist'.done[1].id \in Nat  BY <2>4 DEF Groups
  <2>6. hist'.done # <<>> => hist'.done[1].id < serial + 1  BY <2>3, <2>4 DEF IdsBelow
  <2> QED  BY <1>2, <1>4, <2>5, <2>6
<1>7. BackTo(hist', text', serial', began')  BY <1>6 DEF BackTo
<1>8. Types'  BY <1>1, <1>2, <1>3 DEF IInv, Types, Editing
<1>9. IInv'  BY <1>1, <1>2, <1>3, <1>5, <1>7, <1>8 DEF IInv
<1> QED  BY <1>2, <1>9

(* Every step keeps the invariant.                                          *)
LEMMA NextKeeps == IInv /\ [Next]_vars => IInv'
<1> SUFFICES ASSUME IInv, [Next]_vars PROVE IInv'  OBVIOUS
<1>1. CASE TypeKey \/ DeleteKey \/ OverwriteKey  BY <1>1, KeyKeeps
<1>2. CASE CommandInsert \/ CommandDelete  BY <1>2, CommandEditKeeps
<1>3. CASE CommandKey \/ SaveBuffer \/ LoadFile \/ ToggleReadOnly  BY <1>3, OtherKeeps
<1>4. CASE Undo \/ Redo  BY <1>4, StepKeeps
<1>5. CASE UNCHANGED vars
  <2>1. UNCHANGED <<text, file, modified, readOnly, hist, undoMode, serial, run, lastKind, open, began>>
    BY <1>5 DEF vars
  <2>2. Types'  BY <2>1 DEF IInv, Types
  <2> QED  BY <2>1, <2>2 DEF IInv
<1> QED  BY <1>1, <1>2, <1>3, <1>4, <1>5 DEF Next

(***************************************************************************)
(* The history of a buffer always is a sound one: its groups lead from     *)
(* text to text, its ids are in order, it is within the limits, and the    *)
(* newest group holds all that the current command did (scheme/undo.scm).  *)
(***************************************************************************)
THEOREM IInvHolds == Spec => []IInv
  BY InitOK, NextKeeps, PTL DEF Spec

-----------------------------------------------------------------------------
(* What a sound history gives                                                *)

(* The groups of a history that satisfies the invariant are typed and within *)
(* the limits.                                                               *)
LEMMA IsBounded == IInv => Bounded
<1> SUFFICES ASSUME IInv PROVE Bounded  OBVIOUS
<1>1. text \in Strs /\ file \in Strs /\ began \in Strs  BY TextInTexts, TextsAre DEF IInv, Types
<1>2. /\ hist.done \in Seq(Groups) /\ hist.undone \in Seq(Groups)
      /\ hist.bytes \in Nat /\ hist.savedId \in Int /\ hist.blocked \in Int
  BY DEF IInv, Sound, Histories
<1>3. TypeOK  BY <1>1, <1>2 DEF IInv, Types, TypeOK, Strs
<1> QED  BY <1>3 DEF IInv, Sound, Bounded

(* The newest group of each stack leads from the text to another one and     *)
(* back.                                                                     *)
LEMMA IsReversible == IInv => UndoThenRedo
<1> SUFFICES ASSUME IInv PROVE UndoThenRedo  OBVIOUS
<1>1. /\ hist.done \in Seq(Groups) /\ hist.undone \in Seq(Groups)
      /\ Linked(FALSE, hist.done, text) /\ Linked(TRUE, hist.undone, text)
  BY DEF IInv, Sound, Histories
<1>2. ASSUME hist.done # <<>>
      PROVE  ApplyGroup(RevertGroup(text, Head(hist.done)), Head(hist.done)) = text
  <2> DEFINE g == Head(hist.done)
  <2>1. g \in Groups /\ \E m : Beyond(FALSE, hist.done, text, m)  BY <1>1, <1>2, LinkLess
  <2>2. PICK m : Beyond(FALSE, hist.done, text, m)  BY <2>1
  <2>3. MadeBy(g.changes, m, text)  BY <2>2 DEF Beyond, Link
  <2>4. g.changes \in Seq(Changes)  BY <2>1 DEF Groups
  <2> HIDE DEF g
  <2>5. RevertGroup(text, g) = m /\ ApplyGroup(m, g) = text  BY <2>3, <2>4, GroupMoves
  <2> QED  BY <2>5 DEF g
<1>3. ASSUME hist.undone # <<>>
      PROVE  RevertGroup(ApplyGroup(text, Head(hist.undone)), Head(hist.undone)) = text
  <2> DEFINE g == Head(hist.undone)
  <2>1. g \in Groups /\ \E m : Beyond(TRUE, hist.undone, text, m)  BY <1>1, <1>3, LinkLess
  <2>2. PICK m : Beyond(TRUE, hist.undone, text, m)  BY <2>1
  <2>3. MadeBy(g.changes, text, m)  BY <2>2 DEF Beyond, Link
  <2>4. g.changes \in Seq(Changes)  BY <2>1 DEF Groups
  <2> HIDE DEF g
  <2>5. ApplyGroup(text, g) = m /\ RevertGroup(m, g) = text  BY <2>3, <2>4, GroupMoves
  <2> QED  BY <2>5 DEF g
<1> QED  BY <1>2, <1>3 DEF UndoThenRedo

(* The group of the current command leads back to the text it found.         *)
LEMMA IsWhole == IInv => WholeCommand
<1> SUFFICES ASSUME IInv PROVE WholeCommand  OBVIOUS
<1>1. hist.done \in Seq(Groups)  BY DEF IInv, Sound, Histories
<1>2. ASSUME hist.done # <<>>, Head(hist.done).id = serial
      PROVE  RevertGroup(text, Head(hist.done)) = began
  <2> DEFINE g == Head(hist.done)
  <2>1. g = hist.done[1] /\ g \in Groups
    <3>1. 1 \in 1..Len(hist.done)  BY <1>1, <1>2
    <3> QED  BY <1>1, <1>2, <3>1
  <2>2. MadeBy(g.changes, began, text)  BY <1>2, <2>1 DEF IInv, BackTo
  <2>3. g.changes \in Seq(Changes)  BY <2>1 DEF Groups
  <2> HIDE DEF g
  <2>4. RevertGroup(text, g) = began  BY <2>2, <2>3, GroupMoves
  <2> QED  BY <2>4 DEF g
<1>3. ASSUME hist.blocked = serial
      PROVE  \A g \in {hist.done[i] : i \in DOMAIN hist.done} : g.id # serial
  <2>1. hist.done = <<>>  BY <1>3 DEF IInv
  <2>2. DOMAIN hist.done = {}  BY <2>1
  <2> QED  BY <2>2
<1> QED  BY <1>2, <1>3 DEF WholeCommand

(* The invariant's order of the ids, in the words of the run's property.     *)
LEMMA IsInOrder == IInv => IdsOrdered
<1> SUFFICES ASSUME IInv PROVE IdsOrdered  OBVIOUS
<1> DEFINE d == hist.done  u == hist.undone
<1>1. d \in Seq(Groups) /\ u \in Seq(Groups) /\ serial \in Nat  BY DEF IInv, Sound, Histories, Types
<1>2. /\ IdsFall(d) /\ IdsRise(u) /\ \A i \in 1..Len(d) : IdsAbove(u, d[i].id)
      /\ IdsBelow(d, serial + 1) /\ IdsBelow(u, serial + 1)
  BY DEF IInv, Ordered
<1>3. DOMAIN d = 1..Len(d) /\ DOMAIN u = 1..Len(u)  BY <1>1
<1>4. /\ \A i \in 1..Len(d) : d[i].id \in Nat
      /\ \A i \in 1..Len(u) : u[i].id \in Nat
  <2>1. (\A i \in 1..Len(d) : d[i] \in Groups) /\ (\A i \in 1..Len(u) : u[i] \in Groups)  BY <1>1
  <2> QED  BY <2>1 DEF Groups
<1>f. d = hist.done /\ u = hist.undone  OBVIOUS
<1> HIDE DEF d, u
<1>5. \A i, j \in DOMAIN d : i < j => d[i].id > d[j].id  BY <1>2, <1>3 DEF IdsFall
<1>6. \A i, j \in DOMAIN u : i < j => u[i].id < u[j].id  BY <1>2, <1>3 DEF IdsRise
<1>7. \A i \in DOMAIN d, j \in DOMAIN u : d[i].id < u[j].id  BY <1>2, <1>3, <1>4 DEF IdsAbove
<1>8. \A i \in DOMAIN d : d[i].id <= serial  BY <1>1, <1>2, <1>3, <1>4 DEF IdsBelow
<1>9. \A i \in DOMAIN u : u[i].id <= serial  BY <1>1, <1>2, <1>3, <1>4 DEF IdsBelow
<1> QED  BY <1>f, <1>5, <1>6, <1>7, <1>8, <1>9 DEF IdsOrdered

(***************************************************************************)
(* Bounded holds for limits of any size: both stacks together stay within  *)
(* *undo-limit*, *undo-group-limit* and *undo-change-limit* after every    *)
(* step, and the history's count of bytes is the bytes its changes hold    *)
(* (trim-history!, scheme/undo.scm).                                       *)
(***************************************************************************)
THEOREM BoundedHolds == Spec => []Bounded
  BY IInvHolds, IsBounded, PTL

(***************************************************************************)
(* Undo followed by redo, and redo followed by undo, give back the text,   *)
(* whatever changes merge-change joined into one.                          *)
(***************************************************************************)
THEOREM UndoThenRedoHolds == Spec => []UndoThenRedo
  BY IInvHolds, IsReversible, PTL

(***************************************************************************)
(* Undo takes back the whole of the current command, and of a command too  *)
(* large to keep no part is kept.                                          *)
(***************************************************************************)
THEOREM WholeCommandHolds == Spec => []WholeCommand
  BY IInvHolds, IsWhole, PTL

(***************************************************************************)
(* An id names one group, and what can be redone is newer than what can be *)
(* undone.                                                                 *)
(***************************************************************************)
THEOREM IdsOrderedHolds == Spec => []IdsOrdered
  BY IInvHolds, IsInOrder, PTL

(***************************************************************************)
(* A read-only buffer keeps its text, and undo and redo keep the groups of *)
(* one: they give up before they pop a group.                              *)
(***************************************************************************)
THEOREM ReadOnlyKeptHolds == Spec => ReadOnlyKept
<1> DEFINE Kept == readOnly /\ readOnly' /\ ~LoadFile
                     => text' = text /\ hist'.done = hist.done /\ hist'.undone = hist.undone
<1>1. ASSUME IInv, [Next]_vars PROVE [Kept]_vars
  <2> SUFFICES ASSUME Next, readOnly, ~LoadFile
               PROVE  text' = text /\ hist'.done = hist.done /\ hist'.undone = hist.undone
    BY <1>1
  <2>1. ~(TypeKey \/ DeleteKey \/ OverwriteKey \/ CommandInsert \/ CommandDelete \/ Undo \/ Redo)
    BY DEF TypeKey, DeleteKey, OverwriteKey, CommandInsert, CommandDelete, CoreInsert, CoreDelete,
           Undo, Redo, ReadOnlyRefuses
  <2>2. CASE CommandKey  BY <2>2 DEF CommandKey
  <2>3. CASE ToggleReadOnly  BY <2>3 DEF ToggleReadOnly
  <2>4. CASE SaveBuffer
    <3> DEFINE i == TopId(hist)
    <3>1. text' = text /\ hist' = [hist EXCEPT !.savedId = i]  BY <2>4 DEF SaveBuffer
    <3>2. hist \in Histories  BY <1>1 DEF IInv, Sound
    <3> HIDE DEF i
    <3> QED  BY <3>1, <3>2 DEF Histories
  <2> QED  BY <2>1, <2>2, <2>3, <2>4 DEF Next
<1> QED  BY <1>1, IInvHolds, PTL DEF Spec, ReadOnlyKept

-----------------------------------------------------------------------------
(* The history implements UndoStack                                          *)

(* The stacks that UndoStack is given are the views of the history's.        *)
LEMMA TextsAreViews ==
  /\ DoneTexts = View(FALSE, hist.done, text)
  /\ UndoneTexts = View(TRUE, hist.undone, text)
  /\ DoneTexts' = View(FALSE, hist'.done, text')
  /\ UndoneTexts' = View(TRUE, hist'.undone, text')
<1>1. \A s, t, i : Reached(FALSE, s, t, i) = FoldLeft(RevertGroup, t, SubSeq(s, 1, i))
                   /\ Reached(TRUE, s, t, i) = FoldLeft(ApplyGroup, t, SubSeq(s, 1, i))
  BY DEF Reached
<1>2. DoneTexts = View(FALSE, hist.done, text)
  BY <1>1 DEF DoneTexts, View, Mark, Back
<1>3. UndoneTexts = View(TRUE, hist.undone, text)
  BY <1>1 DEF UndoneTexts, View, Mark, Forth
<1>4. DoneTexts' = View(FALSE, hist'.done, text')
  BY <1>1 DEF DoneTexts, View, Mark, Back
<1>5. UndoneTexts' = View(TRUE, hist'.undone, text')
  BY <1>1 DEF UndoneTexts, View, Mark, Forth
<1> QED  BY <1>2, <1>3, <1>4, <1>5

(* A stack with one more group in front.                                     *)
LEMMA InFront ==
  ASSUME NEW S, NEW x \in S, NEW r \in Seq(S)
  PROVE  <<x>> \o r # <<>> /\ (<<x>> \o r)[1] = x /\ Tail(<<x>> \o r) = r
<1> DEFINE s == <<x>> \o r  n == Len(r)
<1>1. n \in Nat /\ s \in Seq(S) /\ Len(s) = n + 1 /\ s[1] = x /\ \A i \in 1..n : s[i + 1] = r[i]
  OBVIOUS
<1> HIDE DEF s
<1>2. Tail(s) \in Seq(S) /\ Len(Tail(s)) = n /\ \A i \in 1..n : Tail(s)[i] = s[i + 1]  BY <1>1
<1> DEFINE w == Tail(s)
<1>3. w \in Seq(S) /\ Len(w) = Len(r) /\ \A i \in 1..Len(r) : w[i] = r[i]  BY <1>1, <1>2
<1> HIDE DEF w
<1>4. w = r  BY <1>3, SeqEqual
<1>5. s # <<>>  BY <1>1
<1> QED  BY <1>1, <1>4, <1>5 DEF s, w

(* The initial states are initial states of UndoStack.                       *)
LEMMA InitMaps == Init => Stack!Init
<1> SUFFICES ASSUME Init PROVE Stack!Init  OBVIOUS
<1>1. text \in Texts /\ hist.done = <<>> /\ hist.undone = <<>> /\ hist.savedId = 0
  BY DEF Init, EmptyHistory
<1>2. DoneTexts = <<>> /\ UndoneTexts = <<>>  BY <1>1, TextsAreViews, NoLinks
<1> QED  BY <1>1, <1>2 DEF Init, Stack!Init

(* A change is a change of UndoStack, recorded unless its command is already *)
(* too large.                                                                *)
LEMMA EditMaps ==
  ASSUME IInv, Editing(serial', began'), Edited(serial', began'), serial' \in {serial, serial + 1}
  PROVE  Stack!Change \/ Stack!UnrecordedChange
<1>1. /\ text' \in Texts /\ modified' = TRUE /\ file' = file
      /\ Records(hist, text, serial', began', text', hist')
      /\ Current(hist, text, serial', began')
  BY DEF Edited, Editing
<1>t. text \in Texts  BY TextInTexts DEF IInv
<1>2. CASE Blocked(hist, serial')
  <2>1. hist' = hist  BY <1>1, <1>2 DEF Records
  <2>2. hist.done = <<>> /\ hist.undone = <<>> /\ hist.savedId # 0
    BY <1>1, <1>2 DEF Blocked, Current
  <2>3. serial' = serial
    <3>1. hist.blocked = serial' /\ hist.blocked <= serial /\ serial \in Nat
      BY <1>2 DEF Blocked, IInv, Ordered, Types
    <3> QED  BY <3>1
  <2>4. DoneTexts = <<>> /\ UndoneTexts = <<>> /\ DoneTexts' = <<>> /\ UndoneTexts' = <<>>
    BY <1>1, <1>t, <2>1, <2>2, TextsAreViews, NoLinks
  <2>5. Stack!UnrecordedChange  BY <1>1, <2>1, <2>2, <2>3, <2>4 DEF Stack!UnrecordedChange
  <2> QED  BY <2>5
<1>3. CASE ~Blocked(hist, serial')
  <2> DEFINE D == DoneTexts  E == DoneTexts'  F == Extended(D, serial', text, text')
  <2>1. /\ hist'.undone = <<>>
        /\ StackChange(D, hist.savedId, serial', text, text', E, hist'.savedId)
    BY <1>1, <1>3, TextsAreViews DEF Records
  <2>2. PICK k \in 0..Len(F) : E = SubSeq(F, 1, k) /\ hist'.savedId = SavedAfter(F, hist.savedId, k)
    BY <2>1 DEF StackChange
  <2>3. hist.savedId # serial'  BY <1>1 DEF Current
  <2>4. UndoneTexts' = <<>>  BY <1>1, <2>1, TextsAreViews, NoLinks
  <2>5. F = Stack!Extended(text')  BY DEF Extended, Stack!Extended
  <2>6. SavedAfter(F, hist.savedId, k) = Stack!SavedAfterDrop(F, k)
    BY DEF SavedAfter, Stack!SavedAfterDrop, Stack!Lost
  <2>7. E = Stack!Kept(F, k)  BY <2>2 DEF Stack!Kept
  <2> HIDE DEF F, E
  <2>8. \E t \in Texts :
          /\ text' = t
          /\ \E j \in 0..Len(Stack!Extended(t)) :
               /\ E = Stack!Kept(Stack!Extended(t), j)
               /\ hist'.savedId = Stack!SavedAfterDrop(Stack!Extended(t), j)
    BY <1>1, <2>2, <2>5, <2>6, <2>7
  <2>9. Stack!Change  BY <1>1, <2>3, <2>4, <2>8 DEF Stack!Change, E
  <2> QED  BY <2>9
<1> QED  BY <1>2, <1>3

(* What a save notes as the saved group is what UndoStack notes.             *)
LEMMA TopIds == IInv => TopId(hist) = Stack!TopId(DoneTexts)
<1> SUFFICES ASSUME IInv PROVE TopId(hist) = Stack!TopId(DoneTexts)  OBVIOUS
<1> DEFINE s == hist.done  V == DoneTexts
<1>1. s \in Seq(Groups) /\ Linked(FALSE, s, text)  BY DEF IInv, Sound, Histories
<1>2. V = View(FALSE, s, text)  BY TextsAreViews
<1>3. V \in Seq(Stack!Groups) /\ Len(V) = Len(s) /\ \A i \in 1..Len(s) : V[i].id = s[i].id
  BY <1>1, <1>2, ViewShape
<1>f. s = hist.done /\ V = DoneTexts  OBVIOUS
<1> HIDE DEF s, V
<1>4. CASE s = <<>>
  <2>1. V = <<>>  BY <1>3, <1>4
  <2> QED  BY <1>f, <1>4, <2>1 DEF TopId, Stack!TopId
<1>5. CASE s # <<>>
  <2>1. 1 \in 1..Len(s) /\ Head(s) = s[1]  BY <1>1, <1>5
  <2>2. V # <<>>  BY <1>3, <2>1
  <2>3. V[1].id = s[1].id  BY <1>3, <2>1
  <2> QED  BY <1>f, <1>5, <2>1, <2>2, <2>3 DEF TopId, Stack!TopId
<1> QED  BY <1>4, <1>5

(* Of the texts V and W of two stacks, with a group x that leads from t to m:  *)
(* V without x is V1, and W with x is W1; y is the stack of the texts V1.    *)
Passed(x, V, V1, W, W1, y) ==
  /\ V # <<>> /\ V[1] = x /\ Tail(V) = V1
  /\ W1 = <<x>> \o W /\ W1[1] = x
  /\ V1 = <<>> <=> y = <<>>
  /\ V1 # <<>> => V1[1].id = y[1].id

(* So it is of the views of the stacks when a group goes from one to the     *)
(* other.                                                                    *)
LEMMA OffAndOn ==
  ASSUME NEW up \in BOOLEAN, NEW down \in BOOLEAN, NEW s, NEW r \in Seq(Groups), NEW t, NEW m,
         Shifted(up, down, s, r, t, m), NEW V, V = View(up, s, t), NEW W, W = View(down, r, t),
         t \in Texts, Linked(down, r, t)
  PROVE  Passed(Mark(up, Head(s).id, m, t), V, View(up, Tail(s), m), W, View(down, <<Head(s)>> \o r, m), Tail(s))
<1> DEFINE x == Mark(up, Head(s).id, m, t)  V1 == View(up, Tail(s), m)  W1 == View(down, <<Head(s)>> \o r, m)
<1>1. /\ Head(s) \in Groups /\ Tail(s) \in Seq(Groups) /\ m \in Texts
      /\ Linked(up, Tail(s), m)
      /\ V = <<x>> \o V1 /\ W1 = <<x>> \o W
  BY DEF Shifted
<1>2. /\ V1 \in Seq(Stack!Groups) /\ Len(V1) = Len(Tail(s))
      /\ \A i \in 1..Len(Tail(s)) : V1[i].id = Tail(s)[i].id
  <2> DEFINE y == Tail(s)
  <2>1. y \in Seq(Groups) /\ Linked(up, y, m) /\ V1 = View(up, y, m)  BY <1>1
  <2> HIDE DEF y, V1
  <2>2. /\ View(up, y, m) \in Seq(Stack!Groups) /\ Len(View(up, y, m)) = Len(y)
        /\ \A i \in 1..Len(y) : View(up, y, m)[i].id = y[i].id
    BY <2>1, ViewShape
  <2>3. /\ V1 \in Seq(Stack!Groups) /\ Len(V1) = Len(y) /\ \A i \in 1..Len(y) : V1[i].id = y[i].id
    BY <2>1, <2>2
  <2> QED  BY <2>3 DEF y
<1>3. W \in Seq(Stack!Groups)  BY ViewShape
<1>4. x \in Stack!Groups
  <2>1. Head(s).id \in Nat \ {0}  BY <1>1 DEF Groups
  <2> QED  BY <1>1, <2>1 DEF Mark, Stack!Groups
<1>f. x = Mark(up, Head(s).id, m, t)  OBVIOUS
<1> DEFINE y == Tail(s)
<1> HIDE DEF x, V1, W1, y
<1>5. V # <<>> /\ V[1] = x /\ Tail(V) = V1  BY <1>1, <1>2, <1>4, InFront
<1>6. W1 = <<x>> \o W /\ W1[1] = x  BY <1>1, <1>3, <1>4, InFront
<1>7. y \in Seq(Groups) /\ Len(V1) = Len(y) /\ \A i \in 1..Len(y) : V1[i].id = y[i].id  BY <1>1, <1>2 DEF y
<1>8. V1 = <<>> <=> y = <<>>  BY <1>2, <1>7
<1>9. V1 # <<>> => V1[1].id = y[1].id
  <2>1. V1 # <<>> => 1 \in 1..Len(y)  BY <1>2, <1>7, <1>8
  <2> QED  BY <1>7, <2>1
<1> QED  BY <1>5, <1>6, <1>8, <1>9 DEF x, V1, W1, y, Passed

(* Undo is UndoStack's undo.                                                 *)
LEMMA UndoMaps == IInv /\ Undo => Stack!Undo
<1> SUFFICES ASSUME IInv, Undo PROVE Stack!Undo  OBVIOUS
<1> DEFINE s == hist.done  r == hist.undone  D == DoneTexts  U == UndoneTexts
           x == Mark(FALSE, Head(s).id, text', text)
<1>1. /\ Shifted(FALSE, TRUE, s, r, text, text')
      /\ hist' \in Histories /\ hist'.done = Tail(s) /\ hist'.undone = <<Head(s)>> \o r
      /\ hist'.savedId = hist.savedId /\ modified' = (TopId(hist') # hist'.savedId)
  BY UndoMoves
<1>2. r \in Seq(Groups) /\ Linked(TRUE, r, text) /\ text \in Texts
  BY TextInTexts DEF IInv, Sound, Histories
<1>3. /\ D = View(FALSE, s, text) /\ U = View(TRUE, r, text)
      /\ D' = View(FALSE, Tail(s), text') /\ U' = View(TRUE, <<Head(s)>> \o r, text')
  BY <1>1, TextsAreViews
<1>4. /\ D # <<>> /\ D[1] = x /\ Tail(D) = D'
      /\ U' = <<x>> \o U /\ U'[1] = x
      /\ D' = <<>> <=> Tail(s) = <<>>
      /\ D' # <<>> => D'[1].id = Tail(s)[1].id
  <2>1. Passed(x, D, D', U, U', Tail(s))
    <3>1. FALSE \in BOOLEAN /\ TRUE \in BOOLEAN  OBVIOUS
    <3>2. Passed(x, D, View(FALSE, Tail(s), text'), U, View(TRUE, <<Head(s)>> \o r, text'), Tail(s))
      <4> HIDE DEF s, r, D, U
      <4> QED  BY <1>1, <1>2, <1>3, <3>1, OffAndOn DEF x
    <3> QED  BY <1>3, <3>2
  <2> HIDE DEF x, s, r, D, U
  <2> QED  BY <2>1 DEF Passed
<1>5. x.before = text'  BY DEF Mark
<1>6. TopId(hist') = Stack!TopId(D')
  <2>1. hist'.done \in Seq(Groups)  BY <1>1 DEF Histories
  <2>2. hist'.done # <<>> => Head(hist'.done) = hist'.done[1]  BY <2>1
  <2> HIDE DEF s, D
  <2> QED  BY <1>1, <1>4, <2>2 DEF TopId, Stack!TopId
<1>7. serial' = serial + 1 /\ file' = file
  <2>1. UndoBoundary("other") /\ file' = file  BY DEF Undo
  <2> QED  BY <2>1 DEF UndoBoundary, Joins
<1>8. modified' = (Stack!TopId(Tail(D)) # hist.savedId)  BY <1>1, <1>4, <1>6
<1> HIDE DEF x, s, r
<1> QED  BY <1>1, <1>4, <1>5, <1>7, <1>8 DEF Stack!Undo

(* Redo is UndoStack's redo.                                                *)
LEMMA RedoMaps == IInv /\ Redo => Stack!Redo
<1> SUFFICES ASSUME IInv, Redo PROVE Stack!Redo  OBVIOUS
<1> DEFINE s == hist.undone  r == hist.done  D == DoneTexts  U == UndoneTexts
           x == Mark(TRUE, Head(s).id, text', text)
<1>1. /\ Shifted(TRUE, FALSE, s, r, text, text')
      /\ hist' \in Histories /\ hist'.undone = Tail(s) /\ hist'.done = <<Head(s)>> \o r
      /\ hist'.savedId = hist.savedId /\ modified' = (TopId(hist') # hist'.savedId)
  BY RedoMoves
<1>2. r \in Seq(Groups) /\ Linked(FALSE, r, text) /\ text \in Texts
  BY TextInTexts DEF IInv, Sound, Histories
<1>3. /\ U = View(TRUE, s, text) /\ D = View(FALSE, r, text)
      /\ U' = View(TRUE, Tail(s), text') /\ D' = View(FALSE, <<Head(s)>> \o r, text')
  BY <1>1, TextsAreViews
<1>4. /\ U # <<>> /\ U[1] = x /\ Tail(U) = U'
      /\ D' = <<x>> \o D /\ D'[1] = x
  <2>1. Passed(x, U, U', D, D', Tail(s))
    <3>1. FALSE \in BOOLEAN /\ TRUE \in BOOLEAN  OBVIOUS
    <3>2. Passed(x, U, View(TRUE, Tail(s), text'), D, View(FALSE, <<Head(s)>> \o r, text'), Tail(s))
      <4> HIDE DEF s, r, D, U
      <4> QED  BY <1>1, <1>2, <1>3, <3>1, OffAndOn DEF x
    <3> QED  BY <1>3, <3>2
  <2> HIDE DEF x, s, r, D, U
  <2> QED  BY <2>1 DEF Passed
<1>5. x.after = text' /\ x.id = Head(s).id  BY DEF Mark
<1>6. TopId(hist') = U[1].id
  <2>1. Head(s) \in Groups  BY <1>1 DEF Shifted
  <2>2. hist'.done # <<>> /\ Head(hist'.done) = Head(s)
    <3> DEFINE g == Head(s)
    <3>1. g \in Groups /\ hist'.done = <<g>> \o r  BY <1>1, <2>1
    <3> HIDE DEF g, r
    <3>2. hist'.done # <<>> /\ Head(hist'.done) = g  BY <1>2, <3>1
    <3> QED  BY <3>2 DEF g
  <2> QED  BY <1>4, <1>5, <2>2 DEF TopId
<1>7. serial' = serial + 1 /\ file' = file
  <2>1. UndoBoundary("other") /\ file' = file  BY DEF Redo
  <2> QED  BY <2>1 DEF UndoBoundary, Joins
<1>8. modified' = (U[1].id # hist.savedId)  BY <1>1, <1>6
<1> HIDE DEF x, s, r
<1> QED  BY <1>1, <1>4, <1>5, <1>7, <1>8 DEF Stack!Redo

(* The other steps.                                                          *)
LEMMA OtherMaps ==
  ASSUME IInv, CommandKey \/ SaveBuffer \/ LoadFile \/ ToggleReadOnly
  PROVE  Stack!Boundary \/ Stack!Save \/ Stack!Load \/ UNCHANGED Stack!vars
<1>1. CASE CommandKey
  <2>1. UndoBoundary("other") /\ UNCHANGED <<text, file, modified, hist>>  BY <1>1 DEF CommandKey
  <2>2. serial' \in {serial, serial + 1}  BY <2>1 DEF UndoBoundary
  <2>3. DoneTexts' = DoneTexts /\ UndoneTexts' = UndoneTexts  BY <2>1, TextsAreViews
  <2> QED  BY <2>1, <2>2, <2>3 DEF Stack!Boundary
<1>2. CASE SaveBuffer
  <2> DEFINE i == TopId(hist)
  <2>1. /\ file' = text /\ modified' = FALSE /\ hist' = [hist EXCEPT !.savedId = i]
        /\ UNCHANGED <<text, serial>>
    BY <1>2 DEF SaveBuffer, keyVars
  <2>2. hist \in Histories  BY DEF IInv, Sound
  <2>3. i = Stack!TopId(DoneTexts)  BY TopIds
  <2> HIDE DEF i
  <2>4. hist'.done = hist.done /\ hist'.undone = hist.undone /\ hist'.savedId = i  BY <2>1, <2>2 DEF Histories
  <2>5. DoneTexts' = DoneTexts /\ UndoneTexts' = UndoneTexts  BY <2>1, <2>4, TextsAreViews
  <2> QED  BY <2>1, <2>3, <2>4, <2>5 DEF Stack!Save
<1>3. CASE LoadFile
  <2>1. /\ file' = text' /\ modified' = FALSE /\ hist' = EmptyHistory /\ serial' = serial
    BY <1>3 DEF LoadFile, keyVars
  <2>2. text' \in Texts
    <3>1. IInv'  BY <1>3, OtherKeeps
    <3> QED  BY <2>1, <3>1 DEF IInv, Types
  <2>3. hist'.done = <<>> /\ hist'.undone = <<>> /\ hist'.savedId = 0  BY <2>1 DEF EmptyHistory
  <2>4. DoneTexts' = <<>> /\ UndoneTexts' = <<>>  BY <2>2, <2>3, TextsAreViews, NoLinks
  <2> QED  BY <2>1, <2>2, <2>3, <2>4 DEF Stack!Load
<1>4. CASE ToggleReadOnly
  <2>1. UNCHANGED <<text, file, modified, hist, serial>>  BY <1>4 DEF ToggleReadOnly, keyVars
  <2>2. DoneTexts' = DoneTexts /\ UndoneTexts' = UndoneTexts  BY <2>1, TextsAreViews
  <2> QED  BY <2>1, <2>2 DEF Stack!vars
<1> QED  BY <1>1, <1>2, <1>3, <1>4

(* Every step is a step of UndoStack or none.                                *)
LEMMA NextMaps == IInv /\ [Next]_vars => [Stack!Next]_(Stack!vars)
<1> SUFFICES ASSUME IInv, [Next]_vars PROVE Stack!Next \/ UNCHANGED Stack!vars  OBVIOUS
<1>1. CASE TypeKey \/ DeleteKey \/ OverwriteKey
  <2>1. Editing(serial', began') /\ Edited(serial', began') /\ serial' \in {serial, serial + 1}
    BY <1>1, KeyKeeps
  <2> QED  BY <2>1, EditMaps DEF Stack!Next
<1>2. CASE CommandInsert \/ CommandDelete
  <2>1. Editing(serial', began') /\ Edited(serial', began') /\ serial' \in {serial, serial + 1}
    BY <1>2, CommandEditKeeps
  <2> QED  BY <2>1, EditMaps DEF Stack!Next
<1>3. CASE CommandKey \/ SaveBuffer \/ LoadFile \/ ToggleReadOnly  BY <1>3, OtherMaps DEF Stack!Next
<1>4. CASE Undo \/ Redo  BY <1>4, UndoMaps, RedoMaps DEF Stack!Next
<1>5. CASE UNCHANGED vars
  <2>1. UNCHANGED <<text, file, modified, hist, serial>>  BY <1>5 DEF vars
  <2>2. DoneTexts' = DoneTexts /\ UndoneTexts' = UndoneTexts  BY <2>1, TextsAreViews
  <2> QED  BY <2>1, <2>2 DEF Stack!vars
<1> QED  BY <1>1, <1>2, <1>3, <1>4, <1>5 DEF Next

(***************************************************************************)
(* The history, which keeps edits, implements UndoStack, which keeps       *)
(* texts: every undo and redo goes to the text that the buffer held, along *)
(* a chain that only a new change or the limits cut.                       *)
(***************************************************************************)
THEOREM Implements == Spec => ImplementsUndoStack
<1>1. Init => Stack!Init  BY InitMaps
<1>2. IInv /\ [Next]_vars => [Stack!Next]_(Stack!vars)  BY NextMaps
<1> QED  BY <1>1, <1>2, IInvHolds, PTL DEF Spec, ImplementsUndoStack, Stack!Spec

-----------------------------------------------------------------------------
(* UndoStack keeps the mark honest                                          *)

(* An id marks at most one group, the groups form a chain through the text,   *)
(* and savedId marks the saved text: together they are inductive, and each is *)
(* needed to show that an undo or a redo sets the mark right.                 *)
StackInv == Stack!TypeOK /\ Stack!IdsOrdered /\ Stack!Chained /\ Stack!SavedMarked /\ Stack!FlagSound

(* The fields of a group, and a group made of such fields.                    *)
LEMMA GroupFields ==
  ASSUME NEW g \in Stack!Groups
  PROVE  g.id \in Nat \ {0} /\ g.before \in Texts /\ g.after \in Texts
  BY DEF Stack!Groups

LEMMA NewGroup ==
  ASSUME NEW n \in Nat \ {0}, NEW t \in Texts, NEW u \in Texts
  PROVE  LET g == [id |-> n, before |-> t, after |-> u]
         IN  g \in Stack!Groups /\ g.id = n /\ g.before = t /\ g.after = u
  BY DEF Stack!Groups

LEMMA LongerGroup ==
  ASSUME NEW g \in Stack!Groups, NEW t \in Texts
  PROVE  LET h == [g EXCEPT !.after = t]
         IN  h \in Stack!Groups /\ h.id = g.id /\ h.before = g.before /\ h.after = t
  BY DEF Stack!Groups

(* What the invariant's proofs need of the two stacks: they are sequences,    *)
(* and each of their groups has an id and two texts.                          *)
Stacked(s) ==
  /\ s \in Seq(Stack!Groups)
  /\ Len(s) \in Nat
  /\ s # <<>> <=> Len(s) > 0
  /\ \A i \in 1..Len(s) : s[i] \in Stack!Groups /\ s[i].id \in Nat \ {0} /\ s[i].before \in Texts /\ s[i].after \in Texts

LEMMA StackedSeq ==
  ASSUME NEW s \in Seq(Stack!Groups)
  PROVE  Stacked(s)
<1>1. Len(s) \in Nat /\ (s # <<>> <=> Len(s) > 0)
  BY EmptySeq
<1>2. \A i \in 1..Len(s) : s[i] \in Stack!Groups
  BY ElementOfSeq
<1> QED BY <1>1, <1>2, GroupFields DEF Stacked

(* Popping and pushing, index by index.                                       *)
LEMMA Popped ==
  ASSUME NEW s \in Seq(Stack!Groups), s # <<>>
  PROVE  /\ Tail(s) \in Seq(Stack!Groups)
         /\ Len(Tail(s)) = Len(s) - 1
         /\ \A i \in 1..(Len(s) - 1) : Tail(s)[i] = s[i + 1]
  BY HeadTailProperties

LEMMA Pushed ==
  ASSUME NEW s \in Seq(Stack!Groups), NEW g \in Stack!Groups
  PROVE  /\ <<g>> \o s \in Seq(Stack!Groups)
         /\ Len(<<g>> \o s) = Len(s) + 1
         /\ (<<g>> \o s)[1] = g
         /\ \A i \in 2..(Len(s) + 1) : (<<g>> \o s)[i] = s[i - 1]
<1>1. <<g>> \in Seq(Stack!Groups) /\ Len(<<g>>) = 1 /\ <<g>>[1] = g
  OBVIOUS
<1> QED BY <1>1, ConcatProperties, EmptySeq

LEMMA BelowMore ==
  ASSUME NEW s \in Seq(Stack!Groups), NEW n \in Nat, Stack!Below(s, n)
  PROVE  Stack!Below(s, n + 1)
<1> SUFFICES ASSUME NEW i \in 1..Len(s) PROVE s[i].id < n + 1
  BY DEF Stack!Below
<1>1. s[i].id \in Nat /\ s[i].id < n
  BY StackedSeq DEF Stacked, Stack!Below
<1> QED BY <1>1

(* The order of ids, when a group is popped and when one is pushed.           *)
LEMMA PopOrdered ==
  ASSUME NEW s \in Seq(Stack!Groups), s # <<>>
  PROVE  /\ Stack!Falling(s) => Stack!Falling(Tail(s)) /\ Stack!Below(Tail(s), s[1].id)
         /\ Stack!Rising(s) => Stack!Rising(Tail(s)) /\ Stack!Above(Tail(s), s[1].id)
         /\ \A n \in Nat : Stack!Below(s, n) => Stack!Below(Tail(s), n)
         /\ \A n \in Nat : Stack!Above(s, n) => Stack!Above(Tail(s), n)
<1> DEFINE t == Tail(s)
<1>1. /\ Stacked(s) /\ Len(s) > 0 /\ Len(t) = Len(s) - 1
      /\ \A i \in 1..Len(t) : i + 1 \in 1..Len(s) /\ t[i] = s[i + 1]
      /\ 1 \in 1..Len(s)
  BY StackedSeq, Popped DEF Stacked
<1> HIDE DEF t
<1>2. ASSUME Stack!Falling(s) PROVE Stack!Falling(t) /\ Stack!Below(t, s[1].id)
  <2>1. ASSUME NEW i \in 1..Len(t), NEW j \in 1..Len(t), i < j PROVE t[i].id > t[j].id
    <3>1. /\ i + 1 \in 1..Len(s) /\ j + 1 \in 1..Len(s) /\ i + 1 < j + 1
          /\ t[i] = s[i + 1] /\ t[j] = s[j + 1]
      BY <1>1, <2>1 DEF Stacked
    <3> QED BY <3>1, <1>2 DEF Stack!Falling
  <2>2. ASSUME NEW i \in 1..Len(t) PROVE s[1].id > t[i].id
    <3>1. i + 1 \in 1..Len(s) /\ 1 < i + 1 /\ t[i] = s[i + 1]
      BY <1>1 DEF Stacked
    <3> QED BY <3>1, <1>1, <1>2 DEF Stack!Falling
  <2>3. \A i \in 1..Len(t) : t[i].id \in Nat /\ s[1].id \in Nat
    BY <1>1 DEF Stacked
  <2> QED BY <2>1, <2>2, <2>3 DEF Stack!Falling, Stack!Below
<1>3. ASSUME Stack!Rising(s) PROVE Stack!Rising(t) /\ Stack!Above(t, s[1].id)
  <2>1. ASSUME NEW i \in 1..Len(t), NEW j \in 1..Len(t), i < j PROVE t[i].id < t[j].id
    <3>1. /\ i + 1 \in 1..Len(s) /\ j + 1 \in 1..Len(s) /\ i + 1 < j + 1
          /\ t[i] = s[i + 1] /\ t[j] = s[j + 1]
      BY <1>1, <2>1 DEF Stacked
    <3> QED BY <3>1, <1>3 DEF Stack!Rising
  <2>2. ASSUME NEW i \in 1..Len(t) PROVE s[1].id < t[i].id
    <3>1. i + 1 \in 1..Len(s) /\ 1 < i + 1 /\ t[i] = s[i + 1]
      BY <1>1 DEF Stacked
    <3> QED BY <3>1, <1>1, <1>3 DEF Stack!Rising
  <2>3. \A i \in 1..Len(t) : t[i].id \in Nat /\ s[1].id \in Nat
    BY <1>1 DEF Stacked
  <2> QED BY <2>1, <2>2, <2>3 DEF Stack!Rising, Stack!Above
<1>4. \A n \in Nat : (Stack!Below(s, n) => Stack!Below(t, n)) /\ (Stack!Above(s, n) => Stack!Above(t, n))
  BY <1>1 DEF Stack!Below, Stack!Above, Stacked
<1> QED BY <1>2, <1>3, <1>4 DEF t

LEMMA PushOrdered ==
  ASSUME NEW s \in Seq(Stack!Groups), NEW g \in Stack!Groups
  PROVE  LET t == <<g>> \o s
         IN  /\ Stack!Falling(s) /\ Stack!Below(s, g.id) => Stack!Falling(t)
             /\ Stack!Rising(s) /\ Stack!Above(s, g.id) => Stack!Rising(t)
             /\ \A n \in Nat : Stack!Below(s, n) /\ g.id < n => Stack!Below(t, n)
             /\ \A n \in Nat : Stack!Above(s, n) /\ g.id > n => Stack!Above(t, n)
<1> DEFINE t == <<g>> \o s
<1>1. /\ Stacked(s) /\ Len(t) = Len(s) + 1 /\ t[1] = g
      /\ \A i \in 1..Len(t) : i = 1 \/ (i - 1 \in 1..Len(s) /\ t[i] = s[i - 1])
      /\ g.id \in Nat
  BY StackedSeq, Pushed, GroupFields DEF Stacked
<1> HIDE DEF t
<1>2. ASSUME Stack!Falling(s), Stack!Below(s, g.id) PROVE Stack!Falling(t)
  <2> SUFFICES ASSUME NEW i \in 1..Len(t), NEW j \in 1..Len(t), i < j PROVE t[i].id > t[j].id
    BY DEF Stack!Falling
  <2>1. j - 1 \in 1..Len(s) /\ t[j] = s[j - 1] /\ s[j - 1].id \in Nat
    BY <1>1 DEF Stacked
  <2>2. CASE i = 1
    BY <2>1, <2>2, <1>1, <1>2 DEF Stack!Below
  <2>3. CASE i # 1
    <3>1. i - 1 \in 1..Len(s) /\ t[i] = s[i - 1] /\ i - 1 < j - 1
      BY <1>1, <2>3 DEF Stacked
    <3> QED BY <2>1, <3>1, <1>2 DEF Stack!Falling
  <2> QED BY <2>2, <2>3
<1>3. ASSUME Stack!Rising(s), Stack!Above(s, g.id) PROVE Stack!Rising(t)
  <2> SUFFICES ASSUME NEW i \in 1..Len(t), NEW j \in 1..Len(t), i < j PROVE t[i].id < t[j].id
    BY DEF Stack!Rising
  <2>1. j - 1 \in 1..Len(s) /\ t[j] = s[j - 1] /\ s[j - 1].id \in Nat
    BY <1>1 DEF Stacked
  <2>2. CASE i = 1
    BY <2>1, <2>2, <1>1, <1>3 DEF Stack!Above
  <2>3. CASE i # 1
    <3>1. i - 1 \in 1..Len(s) /\ t[i] = s[i - 1] /\ i - 1 < j - 1
      BY <1>1, <2>3 DEF Stacked
    <3> QED BY <2>1, <3>1, <1>3 DEF Stack!Rising
  <2> QED BY <2>2, <2>3
<1>4. \A n \in Nat : Stack!Below(s, n) /\ g.id < n => Stack!Below(t, n)
  BY <1>1 DEF Stack!Below, Stacked
<1>5. \A n \in Nat : Stack!Above(s, n) /\ g.id > n => Stack!Above(t, n)
  BY <1>1 DEF Stack!Above, Stacked
<1> QED BY <1>2, <1>3, <1>4, <1>5 DEF t

-------------------------------------------------------------------------------
(* The initial states satisfy the invariant: nothing is done yet, and the     *)
(* text is the saved one.                                                     *)
LEMMA InitInv == Stack!Init => StackInv
<1> SUFFICES ASSUME Stack!Init PROVE StackInv
  OBVIOUS
<1>1. /\ DoneTexts = <<>> /\ UndoneTexts = <<>> /\ Len(DoneTexts) = 0 /\ Len(UndoneTexts) = 0
      /\ DoneTexts \in Seq(Stack!Groups) /\ UndoneTexts \in Seq(Stack!Groups)
  BY EmptySeq DEF Stack!Init
<1>2. Stack!TypeOK
  <2>1. hist.savedId \in Nat \cup {Stack!Lost} /\ serial \in Nat \ {0}
    BY DEF Stack!Init
  <2>2. text \in Texts /\ file \in Texts /\ modified \in BOOLEAN
    BY DEF Stack!Init
  <2> QED BY <1>1, <2>1, <2>2 DEF Stack!TypeOK
<1>3. Stack!IdsOrdered /\ Stack!Chained /\ Stack!SavedMarked /\ Stack!FlagSound
  BY <1>1 DEF Stack!Init, Stack!IdsOrdered, Stack!Falling, Stack!Rising, Stack!Above, Stack!Below, Stack!Chained, Stack!SavedMarked, Stack!FlagSound, Stack!Oldest
<1> QED BY <1>2, <1>3 DEF StackInv

(* Saving marks the newest group, or the empty history, as the saved one.     *)
LEMMA SaveInv == StackInv /\ Stack!Save => StackInv'
<1> SUFFICES ASSUME StackInv, Stack!Save PROVE StackInv'
  OBVIOUS
<1> USE DEF StackInv
<1>0. Stacked(DoneTexts) /\ Stacked(UndoneTexts)
  BY StackedSeq DEF Stack!TypeOK
<1>1. hist.savedId' = (IF DoneTexts = <<>> THEN 0 ELSE DoneTexts[1].id) /\ hist.savedId' \in Nat
  BY <1>0 DEF Stack!Save, Stack!TopId, Stacked
<1>2. Stack!TypeOK'
  BY <1>1 DEF Stack!TypeOK, Stack!Save
<1>3. Stack!IdsOrdered' /\ Stack!Chained' /\ Stack!FlagSound'
  BY DEF Stack!Save, Stack!IdsOrdered, Stack!Chained, Stack!FlagSound
<1>4. Stack!SavedMarked'
  <2>1. \A i \in 1..Len(DoneTexts) : DoneTexts[i].id = hist.savedId' => DoneTexts[i].after = text
    <3> SUFFICES ASSUME NEW i \in 1..Len(DoneTexts), DoneTexts[i].id = hist.savedId'
                 PROVE  DoneTexts[i].after = text
      OBVIOUS
    <3>1. 1 \in 1..Len(DoneTexts) /\ DoneTexts # <<>> /\ hist.savedId' = DoneTexts[1].id /\ DoneTexts[1].id \in Nat
      BY <1>0, <1>1 DEF Stacked
    <3>2. ~(1 < i)
      BY <3>1 DEF Stack!IdsOrdered, Stack!Falling
    <3> QED BY <3>1, <3>2 DEF Stack!Chained
  <2>2. \A i \in 1..Len(UndoneTexts) : UndoneTexts[i].id # hist.savedId'
    <3> TAKE i \in 1..Len(UndoneTexts)
    <3>1. UndoneTexts[i].id \in Nat \ {0}
      BY <1>0 DEF Stacked
    <3>2. CASE DoneTexts = <<>>
      BY <1>1, <3>1, <3>2
    <3>3. CASE DoneTexts # <<>>
      <4>1. 1 \in 1..Len(DoneTexts) /\ DoneTexts[1].id \in Nat
        BY <1>0, <3>3 DEF Stacked
      <4> QED BY <1>1, <3>1, <3>3, <4>1 DEF Stack!IdsOrdered, Stack!Above
    <3> QED BY <3>2, <3>3
  <2>3. hist.savedId' = 0 => Stack!Oldest = text
    BY <1>0, <1>1 DEF Stacked, Stack!Oldest
  <2> QED BY <2>1, <2>2, <2>3 DEF Stack!Save, Stack!SavedMarked, Stack!Oldest
<1> QED BY <1>2, <1>3, <1>4

(* Reading a file forgets the history.                                        *)
LEMMA LoadInv == StackInv /\ Stack!Load => StackInv'
<1> SUFFICES ASSUME StackInv, Stack!Load PROVE StackInv'
  OBVIOUS
<1>1. /\ DoneTexts' = <<>> /\ UndoneTexts' = <<>> /\ Len(DoneTexts') = 0 /\ Len(UndoneTexts') = 0
      /\ DoneTexts' \in Seq(Stack!Groups) /\ UndoneTexts' \in Seq(Stack!Groups)
  BY EmptySeq DEF Stack!Load
<1>2. Stack!TypeOK'
  <2>1. hist.savedId' \in Nat \cup {Stack!Lost} /\ serial' \in Nat \ {0}
    BY DEF StackInv, Stack!Load, Stack!TypeOK
  <2>2. text' \in Texts /\ file' \in Texts /\ modified' \in BOOLEAN
    BY DEF Stack!Load
  <2> QED BY <1>1, <2>1, <2>2 DEF Stack!TypeOK
<1>3. Stack!IdsOrdered' /\ Stack!Chained' /\ Stack!SavedMarked' /\ Stack!FlagSound'
  BY <1>1 DEF Stack!Load, Stack!IdsOrdered, Stack!Falling, Stack!Rising, Stack!Above, Stack!Below, Stack!Chained, Stack!SavedMarked, Stack!FlagSound, Stack!Oldest
<1> QED BY <1>2, <1>3 DEF StackInv

LEMMA BelowLater ==
  ASSUME NEW s, Stacked(s), NEW n \in Nat \ {0}, NEW m \in Nat \ {0}, n <= m, Stack!Below(s, n + 1)
  PROVE  Stack!Below(s, m + 1)
<1>1. ASSUME NEW i \in 1..Len(s) PROVE s[i].id < m + 1
  <2>1. s[i].id \in Nat /\ s[i].id < n + 1  BY DEF Stacked, Stack!Below
  <2> QED  BY <2>1
<1> QED  BY <1>1 DEF Stack!Below

(* A key only lets the serial grow.                                           *)
LEMMA BoundaryInv == StackInv /\ Stack!Boundary => StackInv'
<1> SUFFICES ASSUME StackInv, Stack!Boundary PROVE StackInv'
  OBVIOUS
<1> USE DEF StackInv
<1>1. serial \in Nat \ {0} /\ serial' \in Nat \ {0} /\ serial <= serial'
  BY DEF Stack!Boundary, Stack!TypeOK
<1>2. Stack!TypeOK'
  BY <1>1 DEF Stack!Boundary, Stack!TypeOK
<1>3. Stack!IdsOrdered'
  <2>1. Stacked(DoneTexts) /\ Stacked(UndoneTexts) /\ DoneTexts' = DoneTexts /\ UndoneTexts' = UndoneTexts
    BY StackedSeq DEF Stack!TypeOK, Stack!Boundary
  <2>2. Stack!Below(DoneTexts, serial' + 1) /\ Stack!Below(UndoneTexts, serial' + 1)
    BY <1>1, <2>1, BelowLater DEF Stack!IdsOrdered, Stacked
  <2> QED BY <2>1, <2>2 DEF Stack!IdsOrdered
<1>4. Stack!Chained' /\ Stack!SavedMarked' /\ Stack!FlagSound'
  BY DEF Stack!Boundary, Stack!Chained, Stack!SavedMarked, Stack!FlagSound, Stack!Oldest
<1> QED BY <1>2, <1>3, <1>4

(* What is not recorded happens to an empty history that is not the saved one.*)
LEMMA UnrecordedInv == StackInv /\ Stack!UnrecordedChange => StackInv'
<1> SUFFICES ASSUME StackInv, Stack!UnrecordedChange PROVE StackInv'
  OBVIOUS
<1> USE DEF StackInv
<1>1. Stack!TypeOK'
  BY DEF Stack!UnrecordedChange, Stack!TypeOK
<1>2. Stack!IdsOrdered' /\ Stack!Chained' /\ Stack!SavedMarked' /\ Stack!FlagSound'
  BY EmptySeq DEF Stack!UnrecordedChange, Stack!IdsOrdered, Stack!Chained, Stack!SavedMarked, Stack!FlagSound
<1> QED BY <1>1, <1>2

-------------------------------------------------------------------------------
(* Undo moves the newest group to the other stack, and the text back over it. *)
LEMMA UndoInv == StackInv /\ Stack!Undo => StackInv'
<1> SUFFICES ASSUME StackInv, Stack!Undo PROVE StackInv'
  OBVIOUS
<1> USE DEF StackInv
<1> DEFINE g == DoneTexts[1]
<1>0. /\ Stacked(DoneTexts) /\ Stacked(UndoneTexts) /\ Len(DoneTexts) > 0
      /\ g \in Stack!Groups /\ g.id \in Nat \ {0} /\ g.before \in Texts
      /\ serial \in Nat \ {0} /\ serial' = serial + 1
  BY StackedSeq DEF Stack!TypeOK, Stack!Undo, Stacked
<1>len. Len(DoneTexts) \in Nat /\ Len(UndoneTexts) \in Nat /\ Len(DoneTexts) > 0
  BY <1>0 DEF Stacked
<1>1. /\ DoneTexts' \in Seq(Stack!Groups) /\ Len(DoneTexts') = Len(DoneTexts) - 1
      /\ \A i \in 1..(Len(DoneTexts) - 1) : DoneTexts'[i] = DoneTexts[i + 1]
  BY Popped DEF Stack!Undo, Stack!TypeOK
<1>2. /\ UndoneTexts' \in Seq(Stack!Groups) /\ Len(UndoneTexts') = Len(UndoneTexts) + 1
      /\ UndoneTexts'[1] = g
      /\ \A i \in 2..(Len(UndoneTexts) + 1) : UndoneTexts'[i] = UndoneTexts[i - 1]
  BY <1>0, Pushed DEF Stack!Undo, Stack!TypeOK
<1>3. Stack!TypeOK'
  BY <1>0, <1>1, <1>2 DEF Stack!TypeOK, Stack!Undo
<1>4. Stack!IdsOrdered'
  <2>1. DoneTexts \in Seq(Stack!Groups) /\ UndoneTexts \in Seq(Stack!Groups) /\ DoneTexts # <<>>
    BY DEF Stack!TypeOK, Stack!Undo
  <2>2. Stack!Falling(DoneTexts') /\ Stack!Below(DoneTexts', g.id) /\ Stack!Below(DoneTexts', serial + 1)
    BY <1>0, <2>1, PopOrdered DEF Stack!IdsOrdered, Stack!Undo
  <2>3. Stack!Above(UndoneTexts, g.id) /\ g.id < serial + 1
    BY <1>0 DEF Stack!IdsOrdered, Stack!Below, Stacked
  <2>4. Stack!Rising(UndoneTexts') /\ Stack!Below(UndoneTexts', serial + 1)
    BY <1>0, <2>1, <2>3, PushOrdered DEF Stack!IdsOrdered, Stack!Undo
  <2>5. \A i \in 1..Len(DoneTexts') : Stack!Above(UndoneTexts', DoneTexts'[i].id)
    <3> TAKE i \in 1..Len(DoneTexts')
    <3>1. i + 1 \in 1..Len(DoneTexts) /\ DoneTexts'[i] = DoneTexts[i + 1] /\ DoneTexts'[i].id \in Nat
      <4>1. i + 1 \in 1..Len(DoneTexts) /\ DoneTexts'[i] = DoneTexts[i + 1]
        BY <1>len, <1>1
      <4> QED BY <1>0, <4>1 DEF Stacked
    <3>2. Stack!Above(UndoneTexts, DoneTexts'[i].id) /\ DoneTexts'[i].id < g.id
      BY <2>2, <3>1 DEF Stack!IdsOrdered, Stack!Below
    <3> QED BY <1>0, <2>1, <3>1, <3>2, PushOrdered DEF Stack!Undo
  <2>6. Stack!Below(DoneTexts', serial' + 1) /\ Stack!Below(UndoneTexts', serial' + 1)
    <3>1. serial + 1 \in Nat /\ serial' = serial + 1
      BY <1>0
    <3>2. DoneTexts' \in Seq(Stack!Groups) /\ UndoneTexts' \in Seq(Stack!Groups)
      BY <1>1, <1>2
    <3> QED BY <3>1, <3>2, <2>2, <2>4, BelowMore
  <2> QED BY <2>2, <2>4, <2>5, <2>6 DEF Stack!IdsOrdered
<1>5. Stack!Chained'
  <2>1. text' = g.before
    BY DEF Stack!Undo
  <2>2. DoneTexts' # <<>> => DoneTexts'[1].after = text'
    BY <1>0, <1>1, <2>1, EmptySeq DEF Stack!Chained, Stacked
  <2>3. \A i \in 1..(Len(DoneTexts') - 1) : DoneTexts'[i].before = DoneTexts'[i + 1].after
    <3> TAKE i \in 1..(Len(DoneTexts') - 1)
    <3>1. /\ i + 1 \in 1..(Len(DoneTexts) - 1) /\ DoneTexts'[i] = DoneTexts[i + 1]
          /\ DoneTexts'[i + 1] = DoneTexts[(i + 1) + 1]
      <4>1. i \in 1..(Len(DoneTexts) - 1) /\ i + 1 \in 1..(Len(DoneTexts) - 1)
        BY <1>len, <1>1
      <4> QED BY <1>1, <4>1
    <3> QED BY <3>1 DEF Stack!Chained
  <2>4. \A i \in 1..(Len(UndoneTexts') - 1) : UndoneTexts'[i].after = UndoneTexts'[i + 1].before
    <3> TAKE i \in 1..(Len(UndoneTexts') - 1)
    <3>1. CASE i = 1
      <4>1. UndoneTexts # <<>> /\ UndoneTexts'[2] = UndoneTexts[1]
        BY <3>1, <1>0, <1>2 DEF Stacked
      <4> QED BY <3>1, <4>1, <1>0, <1>2 DEF Stack!Chained
    <3>2. CASE i # 1
      <4>1. /\ i - 1 \in 1..(Len(UndoneTexts) - 1) /\ UndoneTexts'[i] = UndoneTexts[i - 1]
            /\ UndoneTexts'[i + 1] = UndoneTexts[(i - 1) + 1]
        BY <3>2, <1>len, <1>2
      <4> QED BY <4>1 DEF Stack!Chained
    <3> QED BY <3>1, <3>2
  <2> QED BY <2>1, <2>2, <2>3, <2>4, <1>2 DEF Stack!Chained
<1>6. Stack!SavedMarked'
  <2>1. file' = file /\ hist.savedId' = hist.savedId
    BY DEF Stack!Undo
  <2>2. \A i \in 1..Len(DoneTexts') : DoneTexts'[i].id = hist.savedId => DoneTexts'[i].after = file
    <3> TAKE i \in 1..Len(DoneTexts')
    <3>1. i + 1 \in 1..Len(DoneTexts) /\ DoneTexts'[i] = DoneTexts[i + 1]
      BY <1>len, <1>1
    <3> QED BY <3>1 DEF Stack!SavedMarked
  <2>3. \A i \in 1..Len(UndoneTexts') : UndoneTexts'[i].id = hist.savedId => UndoneTexts'[i].after = file
    <3> TAKE i \in 1..Len(UndoneTexts')
    <3>1. i = 1 \/ (i - 1 \in 1..Len(UndoneTexts) /\ UndoneTexts'[i] = UndoneTexts[i - 1])
      <4>1. i = 1 \/ (i - 1 \in 1..Len(UndoneTexts) /\ i \in 2..(Len(UndoneTexts) + 1))
        BY <1>len, <1>2
      <4> QED BY <1>2, <4>1
    <3>2. 1 \in 1..Len(DoneTexts) /\ UndoneTexts'[1] = DoneTexts[1]
      BY <1>len, <1>2
    <3> QED BY <3>1, <3>2 DEF Stack!SavedMarked
  <2>4. Stack!Oldest' = Stack!Oldest
    <3>1. CASE Len(DoneTexts) = 1
      BY <3>1, <1>0, <1>1, EmptySeq DEF Stack!Oldest, Stack!Undo, Stacked
    <3>2. CASE Len(DoneTexts) # 1
      <4>1. Len(DoneTexts') \in 1..(Len(DoneTexts) - 1) /\ Len(DoneTexts') + 1 = Len(DoneTexts)
        BY <3>2, <1>0, <1>1 DEF Stacked
      <4>2. DoneTexts' # <<>> /\ DoneTexts # <<>> /\ DoneTexts'[Len(DoneTexts')] = DoneTexts[Len(DoneTexts)]
        <5>1. DoneTexts # <<>> /\ DoneTexts'[Len(DoneTexts')] = DoneTexts[Len(DoneTexts)]
          BY <4>1, <1>1 DEF Stack!Undo
        <5>2. Len(DoneTexts') # Len(<<>>)
          BY <4>1, EmptySeq
        <5> QED BY <5>1, <5>2
      <4> QED BY <4>2 DEF Stack!Oldest
    <3> QED BY <3>1, <3>2
  <2> QED BY <2>1, <2>2, <2>3, <2>4 DEF Stack!SavedMarked
<1>7. Stack!FlagSound'
  <2>1. modified' = (Stack!TopId(DoneTexts') # hist.savedId') /\ hist.savedId' = hist.savedId
    BY DEF Stack!Undo
  <2>2. SUFFICES ASSUME ~modified' PROVE text' = file'
    BY DEF Stack!FlagSound
  <2>3. Stack!TopId(DoneTexts') = hist.savedId'
    BY <2>1, <2>2
  <2>4. CASE DoneTexts' = <<>>
    BY <2>3, <2>4, <1>6 DEF Stack!TopId, Stack!SavedMarked, Stack!Oldest
  <2>5. CASE DoneTexts' # <<>>
    <3>1. Len(DoneTexts') > 0 /\ Len(DoneTexts') \in Nat /\ DoneTexts'[1].after = text'
      BY <2>5, <1>1, <1>5, EmptySeq DEF Stack!Chained
    <3> QED BY <2>3, <2>5, <3>1, <1>6 DEF Stack!TopId, Stack!SavedMarked
  <2> QED BY <2>4, <2>5
<1> QED BY <1>3, <1>4, <1>5, <1>6, <1>7

(* Redo moves it back.                                                        *)
LEMMA RedoInv == StackInv /\ Stack!Redo => StackInv'
<1> SUFFICES ASSUME StackInv, Stack!Redo PROVE StackInv'
  OBVIOUS
<1> USE DEF StackInv
<1> DEFINE g == UndoneTexts[1]
<1>0. /\ Stacked(DoneTexts) /\ Stacked(UndoneTexts) /\ Len(UndoneTexts) > 0
      /\ g \in Stack!Groups /\ g.id \in Nat \ {0} /\ g.after \in Texts
      /\ serial \in Nat \ {0} /\ serial' = serial + 1
  BY StackedSeq DEF Stack!TypeOK, Stack!Redo, Stacked
<1>len. Len(DoneTexts) \in Nat /\ Len(UndoneTexts) \in Nat /\ Len(UndoneTexts) > 0
  BY <1>0 DEF Stacked
<1>1. /\ UndoneTexts' \in Seq(Stack!Groups) /\ Len(UndoneTexts') = Len(UndoneTexts) - 1
      /\ \A i \in 1..(Len(UndoneTexts) - 1) : UndoneTexts'[i] = UndoneTexts[i + 1]
  BY Popped DEF Stack!Redo, Stack!TypeOK
<1>2. /\ DoneTexts' \in Seq(Stack!Groups) /\ Len(DoneTexts') = Len(DoneTexts) + 1
      /\ DoneTexts'[1] = g
      /\ \A i \in 2..(Len(DoneTexts) + 1) : DoneTexts'[i] = DoneTexts[i - 1]
  BY <1>0, Pushed DEF Stack!Redo, Stack!TypeOK
<1>3. Stack!TypeOK'
  BY <1>0, <1>1, <1>2 DEF Stack!TypeOK, Stack!Redo
<1>4. Stack!IdsOrdered'
  <2>1. DoneTexts \in Seq(Stack!Groups) /\ UndoneTexts \in Seq(Stack!Groups) /\ UndoneTexts # <<>>
    BY DEF Stack!TypeOK, Stack!Redo
  <2>2. Stack!Rising(UndoneTexts') /\ Stack!Above(UndoneTexts', g.id) /\ Stack!Below(UndoneTexts', serial + 1)
    BY <1>0, <2>1, PopOrdered DEF Stack!IdsOrdered, Stack!Redo
  <2>3. Stack!Below(DoneTexts, g.id) /\ g.id < serial + 1
    BY <1>0 DEF Stack!IdsOrdered, Stack!Above, Stack!Below, Stacked
  <2>4. Stack!Falling(DoneTexts') /\ Stack!Below(DoneTexts', serial + 1)
    BY <1>0, <2>1, <2>3, PushOrdered DEF Stack!IdsOrdered, Stack!Redo
  <2>5. \A i \in 1..Len(DoneTexts') : Stack!Above(UndoneTexts', DoneTexts'[i].id)
    <3> TAKE i \in 1..Len(DoneTexts')
    <3>1. CASE i = 1
      BY <1>2, <2>2, <3>1
    <3>2. CASE i # 1
      <4>1. i - 1 \in 1..Len(DoneTexts) /\ DoneTexts'[i] = DoneTexts[i - 1] /\ DoneTexts'[i].id \in Nat
        BY <1>0, <1>2, <3>2 DEF Stacked
      <4>2. Stack!Above(UndoneTexts, DoneTexts'[i].id)
        BY <4>1 DEF Stack!IdsOrdered
      <4> QED BY <2>1, <4>1, <4>2, PopOrdered DEF Stack!Redo
    <3> QED BY <3>1, <3>2
  <2>6. Stack!Below(DoneTexts', serial' + 1) /\ Stack!Below(UndoneTexts', serial' + 1)
    <3>1. serial + 1 \in Nat /\ serial' = serial + 1
      BY <1>0
    <3>2. DoneTexts' \in Seq(Stack!Groups) /\ UndoneTexts' \in Seq(Stack!Groups)
      BY <1>1, <1>2
    <3> QED BY <3>1, <3>2, <2>2, <2>4, BelowMore
  <2> QED BY <2>2, <2>4, <2>5, <2>6 DEF Stack!IdsOrdered
<1>5. Stack!Chained'
  <2>1. text' = g.after
    BY DEF Stack!Redo
  <2>2. UndoneTexts' # <<>> => UndoneTexts'[1].before = text'
    BY <1>0, <1>1, <2>1, EmptySeq DEF Stack!Chained, Stacked
  <2>3. \A i \in 1..(Len(UndoneTexts') - 1) : UndoneTexts'[i].after = UndoneTexts'[i + 1].before
    <3> TAKE i \in 1..(Len(UndoneTexts') - 1)
    <3>1. /\ i + 1 \in 1..(Len(UndoneTexts) - 1) /\ UndoneTexts'[i] = UndoneTexts[i + 1]
          /\ UndoneTexts'[i + 1] = UndoneTexts[(i + 1) + 1]
      <4>1. i \in 1..(Len(UndoneTexts) - 1) /\ i + 1 \in 1..(Len(UndoneTexts) - 1)
        BY <1>len, <1>1
      <4> QED BY <1>1, <4>1
    <3> QED BY <3>1 DEF Stack!Chained
  <2>4. \A i \in 1..(Len(DoneTexts') - 1) : DoneTexts'[i].before = DoneTexts'[i + 1].after
    <3> TAKE i \in 1..(Len(DoneTexts') - 1)
    <3>1. CASE i = 1
      <4>1. DoneTexts # <<>> /\ DoneTexts'[2] = DoneTexts[1]
        BY <3>1, <1>0, <1>2 DEF Stacked
      <4>2. UndoneTexts # <<>>
        BY DEF Stack!Redo
      <4> QED BY <3>1, <4>1, <4>2, <1>0, <1>2 DEF Stack!Chained
    <3>2. CASE i # 1
      <4>1. /\ i - 1 \in 1..(Len(DoneTexts) - 1) /\ DoneTexts'[i] = DoneTexts[i - 1]
            /\ DoneTexts'[i + 1] = DoneTexts[(i - 1) + 1]
        BY <3>2, <1>len, <1>2
      <4> QED BY <4>1 DEF Stack!Chained
    <3> QED BY <3>1, <3>2
  <2> QED BY <2>1, <2>2, <2>3, <2>4, <1>2 DEF Stack!Chained
<1>6. Stack!SavedMarked'
  <2>1. file' = file /\ hist.savedId' = hist.savedId
    BY DEF Stack!Redo
  <2>2. \A i \in 1..Len(DoneTexts') : DoneTexts'[i].id = hist.savedId => DoneTexts'[i].after = file
    <3> TAKE i \in 1..Len(DoneTexts')
    <3>1. i = 1 \/ (i - 1 \in 1..Len(DoneTexts) /\ DoneTexts'[i] = DoneTexts[i - 1])
      BY <1>0, <1>2 DEF Stacked
    <3>2. 1 \in 1..Len(UndoneTexts) /\ DoneTexts'[1] = UndoneTexts[1]
      BY <1>0, <1>2 DEF Stacked
    <3> QED BY <3>1, <3>2 DEF Stack!SavedMarked
  <2>3. \A i \in 1..Len(UndoneTexts') : UndoneTexts'[i].id = hist.savedId => UndoneTexts'[i].after = file
    <3> TAKE i \in 1..Len(UndoneTexts')
    <3>1. i + 1 \in 1..Len(UndoneTexts) /\ UndoneTexts'[i] = UndoneTexts[i + 1]
      BY <1>0, <1>1 DEF Stacked
    <3> QED BY <3>1 DEF Stack!SavedMarked
  <2>4. Stack!Oldest' = Stack!Oldest
    <3>1. CASE Len(DoneTexts) = 0
      <4>1. Stack!Oldest = text /\ UndoneTexts # <<>>
        BY <3>1, <1>0 DEF Stack!Oldest, Stacked, Stack!Redo
      <4>2. Len(DoneTexts') = 1 /\ DoneTexts' # <<>> /\ DoneTexts'[1] = UndoneTexts[1]
        <5>1. Len(DoneTexts') = 1 /\ DoneTexts'[1] = UndoneTexts[1]
          BY <3>1, <1>2
        <5>2. Len(<<>>) = 0
          BY EmptySeq
        <5> QED BY <5>1, <5>2
      <4> QED BY <4>1, <4>2 DEF Stack!Oldest, Stack!Chained
    <3>2. CASE Len(DoneTexts) > 0
      BY <3>2, <1>0, <1>2, EmptySeq DEF Stack!Oldest, Stacked
    <3> QED BY <3>1, <3>2, <1>0 DEF Stacked
  <2> QED BY <2>1, <2>2, <2>3, <2>4 DEF Stack!SavedMarked
<1>7. Stack!FlagSound'
  <2>1. modified' = (g.id # hist.savedId') /\ text' = g.after
    BY DEF Stack!Redo
  <2>2. 1 \in 1..Len(DoneTexts') /\ DoneTexts'[1] = g
    BY <1>0, <1>2 DEF Stacked
  <2> QED BY <2>1, <2>2, <1>6 DEF Stack!FlagSound, Stack!SavedMarked
<1> QED BY <1>3, <1>4, <1>5, <1>6, <1>7

-------------------------------------------------------------------------------
(* The stack a change leaves before trimming: its newest group is the current *)
(* command's and ends in the new text, and nothing in it is marked wrongly.   *)
LEMMA ExtendedStack ==
  ASSUME StackInv, NEW t \in Texts, serial' \in {serial, serial + 1}, hist.savedId # serial'
  PROVE  LET e == Stack!Extended(t)
         IN  /\ e \in Seq(Stack!Groups) /\ Len(e) > 0
             /\ Stack!Falling(e) /\ Stack!Below(e, serial' + 1)
             /\ e[1].after = t
             /\ \A i \in 1..(Len(e) - 1) : e[i].before = e[i + 1].after
             /\ \A i \in 1..Len(e) : e[i].id = hist.savedId => e[i].after = file
             /\ hist.savedId = 0 => e[Len(e)].before = file
<1> DEFINE e == Stack!Extended(t)
<1> USE DEF StackInv
<1>1. /\ DoneTexts \in Seq(Stack!Groups) /\ Stacked(DoneTexts) /\ text \in Texts
      /\ serial \in Nat \ {0} /\ serial' \in Nat \ {0} /\ serial <= serial'
      /\ Stack!Falling(DoneTexts) /\ Stack!Below(DoneTexts, serial + 1)
  BY StackedSeq DEF Stack!TypeOK, Stack!IdsOrdered
<1>2. CASE DoneTexts # <<>> /\ DoneTexts[1].id = serial'
  <2> DEFINE g == [DoneTexts[1] EXCEPT !.after = t]
  <2>1. /\ g \in Stack!Groups /\ g.id = serial' /\ g.before = DoneTexts[1].before /\ g.after = t
        /\ 1 \in 1..Len(DoneTexts)
    <3>1. 1 \in 1..Len(DoneTexts) /\ DoneTexts[1] \in Stack!Groups
      BY <1>1, <1>2 DEF Stacked
    <3> QED BY <1>2, <3>1, LongerGroup
  <2>2. e = [DoneTexts EXCEPT ![1] = g]
    BY <1>2 DEF Stack!Extended
  <2>3. /\ e \in Seq(Stack!Groups) /\ Len(e) = Len(DoneTexts) /\ e[1] = g
        /\ \A i \in 2..Len(DoneTexts) : e[i] = DoneTexts[i]
    <3>1. 1 \in 1..Len(DoneTexts) /\ \A i \in 2..Len(DoneTexts) : i \in 1..Len(DoneTexts) /\ i # 1
      BY <2>1
    <3> HIDE DEF g
    <3> QED BY <1>1, <2>1, <2>2, <3>1, ExceptSeq
  <2> HIDE DEF g, e
  <2>4. /\ Len(DoneTexts) \in Nat /\ Len(DoneTexts) > 0
        /\ \A i \in 1..Len(DoneTexts) : e[i].id = DoneTexts[i].id /\ e[i].before = DoneTexts[i].before /\ DoneTexts[i].id \in Nat
    BY <1>1, <1>2, <2>1, <2>3 DEF Stacked
  <2>5. Stack!Falling(e)
    BY <1>1, <2>3, <2>4 DEF Stack!Falling
  <2>6. Stack!Below(e, serial' + 1)
    BY <1>1, <2>3, <2>4 DEF Stack!Below
  <2>7. \A i \in 1..(Len(e) - 1) : e[i].before = e[i + 1].after
    <3> TAKE i \in 1..(Len(e) - 1)
    <3>1. i \in 1..(Len(DoneTexts) - 1) /\ i \in 1..Len(DoneTexts) /\ i + 1 \in 2..Len(DoneTexts)
      BY <2>3, <2>4
    <3> QED BY <2>3, <2>4, <3>1 DEF Stack!Chained
  <2>8. \A i \in 1..Len(e) : e[i].id = hist.savedId => e[i].after = file
    <3> TAKE i \in 1..Len(e)
    <3>1. CASE i = 1
      BY <2>1, <2>3, <3>1
    <3>2. CASE i # 1
      <4>1. i \in 2..Len(DoneTexts) /\ i \in 1..Len(DoneTexts)
        BY <2>3, <2>4, <3>2
      <4> QED BY <2>3, <4>1 DEF Stack!SavedMarked
    <3> QED BY <3>1, <3>2
  <2>9. hist.savedId = 0 => e[Len(e)].before = file
    <3>1. Len(DoneTexts) \in 1..Len(DoneTexts)
      BY <2>4
    <3> QED BY <1>2, <2>3, <2>4, <3>1 DEF Stack!SavedMarked, Stack!Oldest
  <2> QED BY <2>1, <2>3, <2>4, <2>5, <2>6, <2>7, <2>8, <2>9 DEF e
<1>3. CASE ~(DoneTexts # <<>> /\ DoneTexts[1].id = serial')
  <2> DEFINE g == [id |-> serial', before |-> text, after |-> t]
  <2>1. g \in Stack!Groups /\ g.id = serial' /\ g.before = text /\ g.after = t
    BY <1>1, NewGroup
  <2>2. e = <<g>> \o DoneTexts
    BY <1>3 DEF Stack!Extended
  <2> HIDE DEF g, e
  <2>3. /\ e \in Seq(Stack!Groups) /\ Len(e) = Len(DoneTexts) + 1 /\ e[1] = g
        /\ \A i \in 2..(Len(DoneTexts) + 1) : e[i] = DoneTexts[i - 1]
    BY <1>1, <2>1, <2>2, Pushed
  <2>4. Len(DoneTexts) \in Nat
    BY <1>1 DEF Stacked
  <2>5. Stack!Below(DoneTexts, serial')
    <3> SUFFICES ASSUME NEW i \in 1..Len(DoneTexts) PROVE DoneTexts[i].id < serial'
      BY DEF Stack!Below
    <3>1. /\ DoneTexts # <<>> /\ 1 \in 1..Len(DoneTexts) /\ DoneTexts[i].id \in Nat
          /\ DoneTexts[1].id \in Nat /\ DoneTexts[1].id # serial' /\ DoneTexts[1].id < serial + 1
      BY <1>1, <1>3, <2>4 DEF Stacked, Stack!Below
    <3>2. DoneTexts[i].id <= DoneTexts[1].id
      BY <1>1, <2>4, <3>1 DEF Stack!Falling
    <3> QED BY <1>1, <3>1, <3>2
  <2>6. Stack!Falling(e) /\ Stack!Below(e, serial' + 1)
    <3>1. Stack!Below(DoneTexts, serial' + 1)
      BY <1>1, <2>5, BelowMore
    <3>2. g.id < serial' + 1 /\ serial' + 1 \in Nat /\ Stack!Below(DoneTexts, g.id)
      <4>1. g.id = serial' /\ Stack!Below(DoneTexts, g.id)
        BY <2>1, <2>5
      <4>2. \A n \in Nat : n + 1 \in Nat /\ n < n + 1
        OBVIOUS
      <4>3. serial' \in Nat
        BY <1>1
      <4> QED BY <4>1, <4>2, <4>3
    <3> QED BY <1>1, <2>1, <2>2, <3>1, <3>2, PushOrdered
  <2>7. \A i \in 1..(Len(e) - 1) : e[i].before = e[i + 1].after
    <3> TAKE i \in 1..(Len(e) - 1)
    <3>1. CASE i = 1
      <4>1. DoneTexts # <<>> /\ e[2] = DoneTexts[1] /\ e[1].before = text
        BY <1>1, <2>1, <2>3, <2>4, <3>1 DEF Stacked
      <4> QED BY <3>1, <4>1 DEF Stack!Chained
    <3>2. CASE i # 1
      <4>1. /\ i - 1 \in 1..(Len(DoneTexts) - 1) /\ e[i] = DoneTexts[i - 1]
            /\ e[i + 1] = DoneTexts[(i - 1) + 1]
        BY <2>3, <2>4, <3>2
      <4> QED BY <4>1 DEF Stack!Chained
    <3> QED BY <3>1, <3>2
  <2>8. \A i \in 1..Len(e) : e[i].id = hist.savedId => e[i].after = file
    <3> TAKE i \in 1..Len(e)
    <3>1. i = 1 \/ (i - 1 \in 1..Len(DoneTexts) /\ e[i] = DoneTexts[i - 1])
      BY <2>3, <2>4
    <3> QED BY <2>1, <2>3, <3>1 DEF Stack!SavedMarked
  <2>9. hist.savedId = 0 => e[Len(e)].before = file
    <3>1. CASE DoneTexts = <<>>
      <4>1. Len(e) = 1
        BY <2>3, <3>1, EmptySeq
      <4> QED BY <2>1, <2>3, <3>1, <4>1 DEF Stack!SavedMarked, Stack!Oldest
    <3>2. CASE DoneTexts # <<>>
      <4>1. e[Len(e)] = DoneTexts[Len(DoneTexts)]
        BY <1>1, <2>3, <2>4, <3>2 DEF Stacked
      <4> QED BY <3>2, <4>1 DEF Stack!SavedMarked, Stack!Oldest
    <3> QED BY <3>1, <3>2
  <2> QED BY <2>1, <2>3, <2>4, <2>6, <2>7, <2>8, <2>9 DEF e
<1> QED BY <1>2, <1>3

(* A recorded change, and what trimming makes of the stack it leaves.         *)
LEMMA ChangeInv == StackInv /\ Stack!Change => StackInv'
<1> SUFFICES ASSUME StackInv, Stack!Change PROVE StackInv'
  OBVIOUS
<1>1. PICK t \in Texts :
        /\ text' = t
        /\ \E k \in 0..Len(Stack!Extended(t)) :
             /\ DoneTexts' = Stack!Kept(Stack!Extended(t), k)
             /\ hist.savedId' = Stack!SavedAfterDrop(Stack!Extended(t), k)
  BY DEF Stack!Change
<1> DEFINE e == Stack!Extended(t)
<1>2. PICK k \in 0..Len(e) : DoneTexts' = Stack!Kept(e, k) /\ hist.savedId' = Stack!SavedAfterDrop(e, k)
  BY <1>1
<1>3. /\ e \in Seq(Stack!Groups) /\ Len(e) > 0
      /\ Stack!Falling(e) /\ Stack!Below(e, serial' + 1)
      /\ e[1].after = t
      /\ \A i \in 1..(Len(e) - 1) : e[i].before = e[i + 1].after
      /\ \A i \in 1..Len(e) : e[i].id = hist.savedId => e[i].after = file
      /\ hist.savedId = 0 => e[Len(e)].before = file
  BY ExtendedStack DEF Stack!Change
<1> HIDE DEF e
<1>4. /\ UndoneTexts' = <<>> /\ Len(UndoneTexts') = 0 /\ UndoneTexts' \in Seq(Stack!Groups)
      /\ file' = file /\ modified' = TRUE
  BY EmptySeq DEF Stack!Change
<1>5. /\ Len(e) \in Nat /\ DoneTexts' \in Seq(Stack!Groups) /\ Len(DoneTexts') = k
      /\ \A i \in 1..k : i \in 1..Len(e) /\ DoneTexts'[i] = e[i]
  <2>1. \A i \in 1..k : i \in 1..Len(e) /\ e[i] \in Stack!Groups
    BY <1>3, ElementOfSeq, EmptySeq
  <2>2. k \in Nat /\ Len(e) \in Nat
    BY <1>3, EmptySeq
  <2>3. DoneTexts' = SubSeq(e, 1, k)
    BY <1>2 DEF Stack!Kept
  <2> QED BY <2>1, <2>2, <2>3, SubSeqProperties
<1>6. /\ hist.savedId' = Stack!Lost \/ hist.savedId' = hist.savedId
      /\ hist.savedId' = 0 => hist.savedId = 0 /\ k = Len(e)
  BY <1>2, <1>3, <1>5 DEF Stack!SavedAfterDrop, Stack!Lost
<1>7. Stack!TypeOK'
  <2>1. hist.savedId' \in Nat \cup {Stack!Lost} /\ serial' \in Nat \ {0}
    BY <1>6 DEF StackInv, Stack!TypeOK, Stack!Change
  <2>2. text' \in Texts /\ file' \in Texts
    BY <1>1, <1>4 DEF StackInv, Stack!TypeOK
  <2>3. modified' \in BOOLEAN
    BY <1>4
  <2> QED BY <1>4, <1>5, <2>1, <2>2, <2>3 DEF Stack!TypeOK
<1>8. Stack!IdsOrdered'
  <2>1. Stack!Falling(DoneTexts') /\ Stack!Below(DoneTexts', serial' + 1)
    BY <1>3, <1>5 DEF Stack!Falling, Stack!Below
  <2>2. Stack!Rising(UndoneTexts') /\ Stack!Below(UndoneTexts', serial' + 1) /\ \A n : Stack!Above(UndoneTexts', n)
    BY <1>4 DEF Stack!Rising, Stack!Below, Stack!Above
  <2> QED BY <2>1, <2>2 DEF Stack!IdsOrdered
<1>9. Stack!Chained'
  <2>1. DoneTexts' # <<>> => DoneTexts'[1].after = text'
    BY <1>1, <1>3, <1>5, EmptySeq
  <2>2. \A i \in 1..(Len(DoneTexts') - 1) : DoneTexts'[i].before = DoneTexts'[i + 1].after
    <3> TAKE i \in 1..(Len(DoneTexts') - 1)
    <3>1. i \in 1..k /\ i + 1 \in 1..k /\ i \in 1..(Len(e) - 1)
      BY <1>5
    <3> QED BY <1>3, <1>5, <3>1
  <2> QED BY <1>4, <2>1, <2>2 DEF Stack!Chained
<1>10. Stack!SavedMarked'
  <2>1. \A i \in 1..Len(DoneTexts') : DoneTexts'[i].id = hist.savedId' => DoneTexts'[i].after = file
    <3> SUFFICES ASSUME NEW i \in 1..k, e[i].id = hist.savedId' PROVE e[i].after = file
      BY <1>5
    <3>1. e[i].id \in Nat /\ i \in 1..Len(e)
      BY <1>3, <1>5, StackedSeq DEF Stacked
    <3>2. hist.savedId' = hist.savedId
      BY <1>6, <3>1 DEF Stack!Lost
    <3> QED BY <1>3, <3>1, <3>2
  <2>2. hist.savedId' = 0 => Stack!Oldest' = file
    <3> SUFFICES ASSUME hist.savedId' = 0 PROVE Stack!Oldest' = file
      OBVIOUS
    <3>1. hist.savedId = 0 /\ k = Len(e) /\ k \in 1..k
      BY <1>3, <1>5, <1>6
    <3>2. DoneTexts' # <<>> /\ DoneTexts'[Len(DoneTexts')] = e[Len(e)]
      BY <1>5, <3>1, EmptySeq
    <3> QED BY <1>3, <3>1, <3>2 DEF Stack!Oldest
  <2> QED BY <1>4, <2>1, <2>2 DEF Stack!SavedMarked
<1>11. Stack!FlagSound'
  BY <1>4 DEF Stack!FlagSound
<1> QED BY <1>7, <1>8, <1>9, <1>10, <1>11 DEF StackInv

-------------------------------------------------------------------------------
LEMMA StutterInv == StackInv /\ UNCHANGED Stack!vars => StackInv'
  BY DEF Stack!vars, StackInv, Stack!TypeOK, Stack!IdsOrdered, Stack!Falling, Stack!Rising, Stack!Above, Stack!Below, Stack!Chained, Stack!SavedMarked, Stack!FlagSound, Stack!Oldest

LEMMA NextInv == StackInv /\ [Stack!Next]_(Stack!vars) => StackInv'
  BY BoundaryInv, ChangeInv, UnrecordedInv, SaveInv, UndoInv, RedoInv, LoadInv, StutterInv DEF Stack!Next

(* The invariant holds in every reachable state.                              *)
LEMMA Inductive == Stack!Spec => []StackInv
  BY InitInv, NextInv, PTL DEF Stack!Spec

(* The variables of undo.scm's abstract history keep their types.             *)
THEOREM TypeCorrect == Stack!Spec => []Stack!TypeOK
<1>1. StackInv => Stack!TypeOK
  BY DEF StackInv
<1> QED BY Inductive, <1>1, PTL

(* The mark is honest: whatever is typed, undone, redone, trimmed, saved and  *)
(* read again, a buffer shown as unmodified holds the text of its file.       *)
THEOREM FlagSoundness == Stack!Spec => []Stack!FlagSound
<1>1. StackInv => Stack!FlagSound
  BY DEF StackInv
<1> QED BY Inductive, <1>1, PTL

(***************************************************************************)
(* The mark goes with the file: an unmodified buffer holds its file's      *)
(* text, whatever was undone, redone, trimmed and saved before.            *)
(***************************************************************************)
THEOREM FlagSoundHolds == Spec => []FlagSound
<1>1. Stack!FlagSound => FlagSound  BY DEF Stack!FlagSound, FlagSound
<1> QED  BY <1>1, Implements, FlagSoundness, PTL DEF ImplementsUndoStack
=============================================================================
