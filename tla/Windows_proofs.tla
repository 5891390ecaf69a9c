---------------------------- MODULE Windows_proofs ----------------------------
(***************************************************************************)
(* Proofs about Windows: with any buffer names, any screen and any number   *)
(* of windows, the count of every buffer is that of its windows, the        *)
(* selected window shows curbp until M-x gives it back, and a window is     *)
(* left with a buffer that was freed only by killing one to which a window  *)
(* leads otherwise than by selecting it.                                    *)
(***************************************************************************)
EXTENDS Windows, SequenceTheorems, FiniteSetTheorems, TLAPS

-----------------------------------------------------------------------------
(* Sequences of windows                                                     *)

(* A sequence, of whatever elements.                                        *)
IsSeq(w) == Len(w) \in Nat /\ w = [i \in 1..Len(w) |-> w[i]]

(* A sequence is one over the set of its elements.                          *)
LEMMA SeqOfItsElements ==
  ASSUME NEW w, IsSeq(w)
  PROVE  DOMAIN w = 1..Len(w) /\ \E S : w \in Seq(S)
<1>1. DOMAIN w = 1..Len(w)  BY DEF IsSeq
<1>2. w \in [1..Len(w) -> {w[i] : i \in 1..Len(w)}]  BY DEF IsSeq
<1>3. w \in Seq({w[i] : i \in 1..Len(w)})  BY <1>2 DEF IsSeq
<1> QED  BY <1>1, <1>3

(* A function on the first n numbers is a sequence of length n.             *)
LEMMA FunctionIsSeq ==
  ASSUME NEW n \in Nat, NEW w, w = [i \in 1..n |-> w[i]]
  PROVE  IsSeq(w) /\ Len(w) = n
<1>1. w \in [1..n -> {w[i] : i \in 1..n}]  OBVIOUS
<1>2. w \in Seq({w[i] : i \in 1..n})  BY <1>1
<1>3. Len(w) = n  BY <1>1, <1>2
<1> QED  BY <1>3 DEF IsSeq

(* One element more.                                                        *)
LEMMA Inserted ==
  ASSUME NEW w, IsSeq(w), NEW c \in 1..(Len(w) + 1), NEW e
  PROVE  LET u == InsertAt(w, c, e)
         IN  /\ IsSeq(u) /\ Len(u) = Len(w) + 1
             /\ \A i \in 1..(Len(w) + 1) : u[i] = IF i < c THEN w[i] ELSE IF i = c THEN e ELSE w[i - 1]
<1>1. Len(w) \in Nat  BY DEF IsSeq
<1>2. PICK S : w \in Seq(S)  BY SeqOfItsElements
<1> DEFINE n == Len(w)  T == S \cup {e}  a == SubSeq(w, 1, c - 1)  z == SubSeq(w, c, n)  u == (a \o <<e>>) \o z
<1>3. w \in Seq(T)  BY <1>1, <1>2
<1>4. a \in Seq(T) /\ Len(a) = c - 1 /\ \A i \in 1..(c - 1) : a[i] = w[i]  BY <1>1, <1>3
<1>5. z \in Seq(T) /\ Len(z) = n - c + 1 /\ \A i \in 1..(n - c + 1) : z[i] = w[c + i - 1]  BY <1>1, <1>3
<1>6. <<e>> \in Seq(T) /\ Len(<<e>>) = 1 /\ <<e>>[1] = e  OBVIOUS
<1>7. InsertAt(w, c, e) = u  BY DEF InsertAt
<1> HIDE DEF a, z
<1> DEFINE d == a \o <<e>>
<1>8. d \in Seq(T) /\ Len(d) = c /\ (\A i \in 1..(c - 1) : d[i] = w[i]) /\ d[c] = e
  BY <1>1, <1>4, <1>6
<1> HIDE DEF d
<1>9. u \in Seq(T) /\ Len(u) = n + 1 /\ (\A i \in 1..c : u[i] = d[i]) /\ \A i \in (c + 1)..(n + 1) : u[i] = z[i - c]
  BY SMTT(40), <1>1, <1>5, <1>8 DEF d
<1> HIDE DEF u
<1>10. ASSUME NEW i \in 1..(n + 1) PROVE u[i] = IF i < c THEN w[i] ELSE IF i = c THEN e ELSE w[i - 1]
  <2>1. CASE i <= c  BY <1>1, <1>8, <1>9, <2>1
  <2>2. CASE i > c
    <3>1. i - c \in 1..(n - c + 1) /\ c + (i - c) - 1 = i - 1  BY <1>1, <2>2
    <3> QED  BY <1>1, <1>5, <1>9, <2>2, <3>1
  <2> QED  BY <2>1, <2>2
<1>11. IsSeq(u)  BY <1>9 DEF IsSeq
<1> QED  BY <1>7, <1>9, <1>10, <1>11

(* One element less.                                                        *)
LEMMA Removed ==
  ASSUME NEW w, IsSeq(w), NEW c \in 1..Len(w)
  PROVE  LET u == RemoveAt(w, c)
         IN  /\ IsSeq(u) /\ Len(u) = Len(w) - 1
             /\ \A i \in 1..(Len(w) - 1) : u[i] = IF i < c THEN w[i] ELSE w[i + 1]
<1>1. Len(w) \in Nat  BY DEF IsSeq
<1>2. PICK S : w \in Seq(S)  BY SeqOfItsElements
<1> DEFINE n == Len(w)  a == SubSeq(w, 1, c - 1)  z == SubSeq(w, c + 1, n)  u == a \o z
<1>4. a \in Seq(S) /\ Len(a) = c - 1 /\ \A i \in 1..(c - 1) : a[i] = w[i]  BY <1>1, <1>2
<1>5. z \in Seq(S) /\ Len(z) = n - c /\ \A i \in 1..(n - c) : z[i] = w[c + i]  BY <1>1, <1>2
<1>7. RemoveAt(w, c) = u  BY DEF RemoveAt
<1> HIDE DEF a, z
<1>9. /\ u \in Seq(S) /\ Len(u) = n - 1 /\ (\A i \in 1..(c - 1) : u[i] = a[i])
      /\ \A i \in c..(n - 1) : u[i] = z[i - (c - 1)]
  <2>1. Len(u) = n - 1 /\ u \in Seq(S)
    <3>1. u \in Seq(S) /\ Len(u) = Len(a) + Len(z)  BY <1>4, <1>5, ConcatProperties
    <3>2. (c - 1) + (n - c) = n - 1  BY <1>1
    <3> QED  BY <1>4, <1>5, <3>1, <3>2
  <2>2. ASSUME NEW i \in 1..(n - 1) PROVE u[i] = IF i <= c - 1 THEN a[i] ELSE z[i - (c - 1)]
    BY <1>1, <1>4, <1>5, ConcatProperties
  <2>3. \A i \in 1..(c - 1) : i \in 1..(n - 1) /\ i <= c - 1  BY <1>1
  <2>4. \A i \in c..(n - 1) : i \in 1..(n - 1) /\ ~(i <= c - 1)  BY <1>1
  <2> HIDE DEF u
  <2> QED  BY <2>1, <2>2, <2>3, <2>4
<1> HIDE DEF u
<1>10. ASSUME NEW i \in 1..(n - 1) PROVE u[i] = IF i < c THEN w[i] ELSE w[i + 1]
  <2>1. CASE i < c  BY <1>1, <1>4, <1>9, <2>1
  <2>2. CASE ~(i < c)
    <3>1. i - (c - 1) \in 1..(n - c) /\ c + (i - (c - 1)) = i + 1  BY <1>1, <2>2
    <3> QED  BY <1>1, <1>5, <1>9, <2>2, <3>1
  <2> QED  BY <2>1, <2>2
<1>11. IsSeq(u)  BY <1>9 DEF IsSeq
<1> QED  BY <1>7, <1>9, <1>10, <1>11

-----------------------------------------------------------------------------
(* The windows that show a buffer                                           *)

(* The windows that show b, how many they are, and whether i is one of them.*)
At(w, b) == {i \in DOMAIN w : w[i].buf = b}
Shown(w, b) == Cardinality(At(w, b))
One(w, i, b) == IF w[i].buf = b THEN 1 ELSE 0

(* A set without one of its elements.                                       *)
LEMMA OneLess ==
  ASSUME NEW A, IsFiniteSet(A), NEW x
  PROVE  Cardinality(A) \in Nat /\ Cardinality(A \ {x}) = Cardinality(A) - IF x \in A THEN 1 ELSE 0
<1>1. Cardinality(A) \in Nat  BY FS_CardinalityType
<1>2. Cardinality(A \ {x}) = IF x \in A THEN Cardinality(A) - 1 ELSE Cardinality(A)  BY FS_RemoveElement
<1>3. CASE x \in A  BY <1>1, <1>2, <1>3
<1>4. CASE x \notin A  BY <1>1, <1>2, <1>4
<1> QED  BY <1>3, <1>4

(* They are finitely many.                                                  *)
LEMMA ShownIsNat ==
  ASSUME NEW w, IsSeq(w), NEW b
  PROVE  IsFiniteSet(At(w, b)) /\ Shown(w, b) \in Nat
<1>1. DOMAIN w = 1..Len(w) /\ Len(w) \in Nat  BY SeqOfItsElements DEF IsSeq
<1>2. IsFiniteSet(1..Len(w))  BY <1>1, FS_Interval
<1>3. At(w, b) \in SUBSET (1..Len(w))  BY <1>1 DEF At
<1>4. IsFiniteSet(At(w, b))  BY <1>2, <1>3, FS_Subset
<1> QED  BY <1>4, FS_CardinalityType DEF Shown

(* Another buffer in one window.                                            *)
LEMMA ShownChanged ==
  ASSUME NEW w, IsSeq(w), NEW u, IsSeq(u), Len(u) = Len(w), NEW i \in 1..Len(w),
         \A j \in 1..Len(w) : j # i => u[j].buf = w[j].buf,
         NEW b
  PROVE  Shown(u, b) = Shown(w, b) - One(w, i, b) + One(u, i, b)
<1>1. DOMAIN w = 1..Len(w) /\ DOMAIN u = 1..Len(w)  BY SeqOfItsElements
<1>2. At(u, b) \ {i} = At(w, b) \ {i}  BY <1>1 DEF At
<1>3. i \in At(w, b) <=> w[i].buf = b  BY <1>1 DEF At
<1>4. i \in At(u, b) <=> u[i].buf = b  BY <1>1 DEF At
<1>5. Cardinality(At(w, b) \ {i}) = Shown(w, b) - One(w, i, b) /\ Shown(w, b) \in Nat
  <2>1. IsFiniteSet(At(w, b)) /\ Shown(w, b) \in Nat  BY ShownIsNat
  <2>2. Cardinality(At(w, b) \ {i}) = Shown(w, b) - IF i \in At(w, b) THEN 1 ELSE 0  BY <2>1, OneLess DEF Shown
  <2> QED  BY <1>3, <2>1, <2>2 DEF One
<1>6. Cardinality(At(u, b) \ {i}) = Shown(u, b) - One(u, i, b) /\ Shown(u, b) \in Nat
  <2>1. IsFiniteSet(At(u, b)) /\ Shown(u, b) \in Nat  BY ShownIsNat
  <2>2. Cardinality(At(u, b) \ {i}) = Shown(u, b) - IF i \in At(u, b) THEN 1 ELSE 0  BY <2>1, OneLess DEF Shown
  <2> QED  BY <1>4, <2>1, <2>2 DEF One
<1>7. One(u, i, b) \in Nat /\ One(w, i, b) \in Nat  BY DEF One
<1>8. Cardinality(At(u, b) \ {i}) = Cardinality(At(w, b) \ {i})  BY <1>2
<1>9. Shown(u, b) - One(u, i, b) = Shown(w, b) - One(w, i, b)  BY <1>5, <1>6, <1>8
<1>10. Shown(u, b) \in Nat /\ Shown(w, b) \in Nat  BY ShownIsNat
<1> QED  BY <1>7, <1>9, <1>10

(* A window more.                                                           *)
LEMMA ShownInserted ==
  ASSUME NEW w, IsSeq(w), NEW c \in 1..(Len(w) + 1), NEW u, IsSeq(u), Len(u) = Len(w) + 1,
         \A i \in 1..(Len(w) + 1) : i # c => u[i].buf = (IF i < c THEN w[i] ELSE w[i - 1]).buf,
         NEW b
  PROVE  Shown(u, b) = Shown(w, b) + One(u, c, b)
<1>1. DOMAIN w = 1..Len(w) /\ DOMAIN u = 1..(Len(w) + 1) /\ Len(w) \in Nat  BY SeqOfItsElements DEF IsSeq
<1> DEFINE A == At(w, b)  B == At(u, b) \ {c}
           f == [i \in A |-> IF i < c THEN i ELSE i + 1]
<1>2. \A i \in A : i \in 1..Len(w) /\ w[i].buf = b  BY <1>1 DEF At
<1>3. \A i : i \in B <=> i \in 1..(Len(w) + 1) /\ u[i].buf = b /\ i # c  BY <1>1 DEF At
<1>4. ASSUME NEW i \in A PROVE (IF i < c THEN i ELSE i + 1) \in B
  <2>1. CASE i < c  BY <1>1, <1>2, <1>3, <2>1
  <2>2. CASE ~(i < c)
    <3>1. i + 1 \in 1..(Len(w) + 1) /\ i + 1 # c /\ ~(i + 1 < c) /\ (i + 1) - 1 = i  BY <1>1, <1>2, <2>2
    <3>2. u[i + 1].buf = w[i].buf  BY <3>1
    <3> QED  BY <1>2, <1>3, <2>2, <3>1, <3>2
  <2> QED  BY <2>1, <2>2
<1>5. ASSUME NEW j \in B PROVE \E i \in A : j = IF i < c THEN i ELSE i + 1
  <2>1. CASE j < c
    <3>1. j \in 1..Len(w) /\ w[j].buf = b  BY <1>1, <1>3, <2>1
    <3>2. j \in A  BY <1>1, <3>1 DEF At
    <3> QED  BY <2>1, <3>2
  <2>2. CASE ~(j < c)
    <3>1. j \in 1..(Len(w) + 1) /\ j # c /\ j - 1 \in 1..Len(w) /\ ~(j - 1 < c) /\ (j - 1) + 1 = j
      BY <1>1, <1>3, <2>2
    <3>2. w[j - 1].buf = b  BY <1>3, <2>2, <3>1
    <3>3. j - 1 \in A  BY <1>1, <3>1, <3>2 DEF At
    <3> QED  BY <3>1, <3>3
  <2> QED  BY <2>1, <2>2
<1>6. ASSUME NEW i \in A, NEW j \in A, (IF i < c THEN i ELSE i + 1) = (IF j < c THEN j ELSE j + 1)
      PROVE  i = j
  <2>1. i \in Int /\ j \in Int /\ c \in Int  BY <1>2
  <2> QED  BY <1>6, <2>1
<1>7. IsFiniteSet(A) /\ Cardinality(A) = Shown(w, b) /\ Shown(w, b) \in Nat  BY ShownIsNat DEF Shown
<1>8. IsFiniteSet(At(u, b)) /\ Shown(u, b) \in Nat  BY ShownIsNat
<1> HIDE DEF A, B
<1>9. f \in Bijection(A, B)
  <2>1. f \in [A -> B]  BY <1>4
  <2>2. \A i, j \in A : f[i] = f[j] => i = j  BY <1>6
  <2>3. \A j \in B : \E i \in A : f[i] = j  BY <1>5
  <2> HIDE DEF f
  <2>4. f \in Injection(A, B)  BY <2>1, <2>2 DEF Injection, IsInjective
  <2>5. f \in Surjection(A, B)  BY <2>1, <2>3 DEF Surjection
  <2> QED  BY <2>4, <2>5 DEF Bijection
<1>10. Cardinality(B) = Shown(w, b)
  <2>1. ExistsBijection(A, B)  BY <1>9 DEF ExistsBijection
  <2> QED  BY <1>7, <2>1, FS_Bijection
<1>11. Cardinality(B) = Shown(u, b) - One(u, c, b)
  <2>1. c \in At(u, b) <=> u[c].buf = b  BY <1>1 DEF At
  <2>2. Cardinality(At(u, b) \ {c}) = Shown(u, b) - IF c \in At(u, b) THEN 1 ELSE 0  BY <1>8, OneLess DEF Shown
  <2> QED  BY <2>1, <2>2 DEF B, One
<1>12. One(u, c, b) \in Nat  BY DEF One
<1> QED  BY <1>7, <1>8, <1>10, <1>11, <1>12

(* A window less.                                                           *)
LEMMA ShownRemoved ==
  ASSUME NEW w, IsSeq(w), NEW c \in 1..Len(w), NEW b
  PROVE  Shown(RemoveAt(w, c), b) = Shown(w, b) - One(w, c, b)
<1> DEFINE u == RemoveAt(w, c)
<1>1. Len(w) \in Nat  BY DEF IsSeq
<1>2. IsSeq(u) /\ Len(u) = Len(w) - 1 /\ \A i \in 1..(Len(w) - 1) : u[i] = IF i < c THEN w[i] ELSE w[i + 1]
  BY Removed
<1> HIDE DEF u
<1>3. c \in 1..(Len(u) + 1) /\ Len(w) = Len(u) + 1  BY <1>1, <1>2
<1>4. ASSUME NEW i \in 1..(Len(u) + 1), i # c PROVE w[i].buf = (IF i < c THEN u[i] ELSE u[i - 1]).buf
  <2>1. CASE i < c
    <3>1. i \in 1..(Len(w) - 1)  BY <1>1, <1>3, <2>1
    <3> QED  BY <1>2, <2>1, <3>1
  <2>2. CASE ~(i < c)
    <3>1. i - 1 \in 1..(Len(w) - 1) /\ ~(i - 1 < c) /\ (i - 1) + 1 = i  BY <1>1, <1>3, <1>4, <2>2
    <3> QED  BY <1>2, <2>2, <3>1
  <2> QED  BY <2>1, <2>2
<1>5. Shown(w, b) = Shown(u, b) + One(w, c, b)  BY SMTT(40), <1>2, <1>3, <1>4, ShownInserted
<1>6. Shown(u, b) \in Nat /\ One(w, c, b) \in Nat  BY <1>2, ShownIsNat DEF One
<1> QED  BY <1>5, <1>6 DEF u

(* The same buffers in as many windows.                                     *)
LEMMA ShownAlike ==
  ASSUME NEW w, IsSeq(w), NEW u, IsSeq(u), Len(u) = Len(w), \A i \in 1..Len(w) : u[i].buf = w[i].buf, NEW b
  PROVE  Shown(u, b) = Shown(w, b)
<1>1. DOMAIN w = 1..Len(w) /\ DOMAIN u = 1..Len(w)  BY SeqOfItsElements
<1>2. At(u, b) = At(w, b)  BY <1>1 DEF At
<1> QED  BY <1>2 DEF Shown

-----------------------------------------------------------------------------
(* Buffers and windows                                                      *)

(* A window has four fields.                                                *)
Frame(f) == f = [buf |-> f.buf, hijack |-> f.hijack, top |-> f.top, rows |-> f.rows]

(* The buffers that windows show, or are to get back, are there.            *)
Held(bs, w) == \A i \in 1..Len(w) : w[i].buf \in DOMAIN bs /\ w[i].hijack \in DOMAIN bs \cup {None}

(* Every count is the one that the windows and those dropped make.          *)
Counted(bs, w) == \A b \in DOMAIN bs : bs[b].cnt = Shown(w, b) + bs[b].lost

(* A list of buffers.                                                       *)
Buffers(bs) ==
  /\ bs = [b \in DOMAIN bs |-> [cnt |-> bs[b].cnt, lost |-> bs[b].lost]]
  /\ DOMAIN bs \subseteq Names
  /\ \A b \in DOMAIN bs : bs[b].cnt \in Int /\ bs[b].lost \in Nat
(* A list of windows.                                                       *)
Frames(w) == IsSeq(w) /\ \A i \in 1..Len(w) : Frame(w[i])

(* The two lists, as they should be for each other.                         *)
Sound(s) ==
  /\ s = [buf |-> s.buf, win |-> s.win]
  /\ Buffers(s.buf) /\ Frames(s.win) /\ Held(s.buf, s.win) /\ Counted(s.buf, s.win)

(* One field of one window changed.                                         *)
LEMMA FrameChanged ==
  ASSUME NEW w, Frames(w), NEW i \in 1..Len(w), NEW f, Frame(f)
  PROVE  LET u == [w EXCEPT ![i] = f]
         IN  Frames(u) /\ Len(u) = Len(w) /\ \A j \in 1..Len(w) : u[j] = IF j = i THEN f ELSE w[j]
<1> DEFINE u == [w EXCEPT ![i] = f]
<1>1. Len(w) \in Nat /\ DOMAIN w = 1..Len(w)  BY SeqOfItsElements DEF Frames, IsSeq
<1>2. \A j \in 1..Len(w) : u[j] = IF j = i THEN f ELSE w[j]  BY <1>1
<1>3. u = [j \in 1..Len(w) |-> u[j]]  BY <1>1
<1> HIDE DEF u
<1>4. IsSeq(u) /\ Len(u) = Len(w)  BY <1>1, <1>3, FunctionIsSeq
<1>5. Frames(u)  BY <1>2, <1>4 DEF Frames
<1> QED  BY <1>2, <1>4, <1>5 DEF u

(* Counting k windows more for a buffer.                                    *)
Recount(bs, o, k) == [bs EXCEPT ![o].cnt = @ + k]

(* ... leaves a list of buffers, the others as they were.                   *)
LEMMA CountChanged ==
  ASSUME NEW bs, Buffers(bs), NEW o \in DOMAIN bs, NEW k \in Int
  PROVE  LET cs == Recount(bs, o, k)
         IN  /\ Buffers(cs) /\ DOMAIN cs = DOMAIN bs
             /\ \A n \in DOMAIN bs : cs[n] = [cnt |-> bs[n].cnt + (IF n = o THEN k ELSE 0), lost |-> bs[n].lost]
<1> DEFINE cs == [bs EXCEPT ![o].cnt = @ + k]
<1>1. DOMAIN cs = DOMAIN bs  OBVIOUS
<1>2. ASSUME NEW n \in DOMAIN bs
      PROVE  cs[n] = [cnt |-> bs[n].cnt + (IF n = o THEN k ELSE 0), lost |-> bs[n].lost]
  <2>1. bs[n] = [cnt |-> bs[n].cnt, lost |-> bs[n].lost] /\ bs[n].cnt \in Int  BY DEF Buffers
  <2>2. CASE n = o
    <3>1. cs[n] = [bs[n] EXCEPT !.cnt = bs[n].cnt + k]  BY <2>2
    <3> QED  BY <2>1, <2>2, <3>1
  <2>3. CASE n # o
    <3>1. cs[n] = bs[n]  BY <2>3
    <3> QED  BY <2>1, <2>3, <3>1
  <2> QED  BY <2>2, <2>3
<1>3. cs = [n \in DOMAIN cs |-> cs[n]]  OBVIOUS
<1> HIDE DEF cs
<1>4. Buffers(cs)  BY <1>1, <1>2, <1>3 DEF Buffers
<1> QED  BY <1>1, <1>2, <1>4 DEF cs, Recount

(* What disassociate_b and associate_b2w change.                            *)
LEMMA DisassociateIs ==
  ASSUME NEW s, Sound(s), NEW i \in 1..Len(s.win)
  PROVE  Disassociate(s, i) = [buf |-> Recount(s.buf, s.win[i].buf, -1), win |-> s.win]
<1> DEFINE o == s.win[i].buf
<1>1. s = [buf |-> s.buf, win |-> s.win] /\ o \in DOMAIN s.buf  BY DEF Sound, Held
<1>2. s.buf[o].cnt \in Int  BY <1>1 DEF Sound, Buffers
<1>3. s.buf[o].cnt - 1 = s.buf[o].cnt + (-1)  BY <1>2
<1>4. [s.buf EXCEPT ![o].cnt = @ - 1] = [s.buf EXCEPT ![o].cnt = @ + (-1)]  BY <1>3
<1>5. Disassociate(s, i) = [s EXCEPT !.buf = [s.buf EXCEPT ![o].cnt = @ - 1]]  BY <1>1 DEF Disassociate
<1>6. \A bs : [s EXCEPT !.buf = bs] = [buf |-> bs, win |-> s.win]  BY <1>1
<1> QED  BY <1>4, <1>5, <1>6 DEF Recount

(* ... and what associate_b2w changes.                                      *)
LEMMA AssociateIs ==
  ASSUME NEW bs, NEW w, NEW b, NEW i \in DOMAIN w, Frame(w[i]), NEW s, s = [buf |-> bs, win |-> w]
  PROVE  LET f == [buf |-> b, hijack |-> w[i].hijack, top |-> w[i].top, rows |-> w[i].rows]
         IN  Associate(s, b, i) = [buf |-> Recount(bs, b, 1), win |-> [w EXCEPT ![i] = f]]
<1> DEFINE f == [buf |-> b, hijack |-> w[i].hijack, top |-> w[i].top, rows |-> w[i].rows]
<1>1. [w[i] EXCEPT !.buf = b] = f
  <2>1. PICK x, y, z, v : w[i] = [buf |-> x, hijack |-> y, top |-> z, rows |-> v]  BY DEF Frame
  <2>2. w[i].hijack = y /\ w[i].top = z /\ w[i].rows = v  BY <2>1
  <2>3. [w[i] EXCEPT !.buf = b] = [buf |-> b, hijack |-> y, top |-> z, rows |-> v]  BY <2>1
  <2> QED  BY <2>2, <2>3
<1>2. [w EXCEPT ![i].buf = b] = [w EXCEPT ![i] = f]  BY <1>1
<1>3. Associate(s, b, i) = [buf |-> Recount(bs, b, 1), win |-> [w EXCEPT ![i].buf = b]]
  <2>1. s.win = w /\ s.buf = bs  OBVIOUS
  <2>2. ASSUME NEW x, NEW y PROVE [s EXCEPT !.win = x, !.buf = y] = [buf |-> y, win |-> x]
    <3>1. [s EXCEPT !.win = x] = [buf |-> bs, win |-> x]  OBVIOUS
    <3>2. [[buf |-> bs, win |-> x] EXCEPT !.buf = y] = [buf |-> y, win |-> x]  OBVIOUS
    <3> QED  BY <3>1, <3>2
  <2>3. Associate(s, b, i) = [s EXCEPT !.win = [s.win EXCEPT ![i].buf = b], !.buf = [s.buf EXCEPT ![b].cnt = @ + 1]]
    BY <2>1 DEF Associate
  <2> QED  BY <2>1, <2>2, <2>3 DEF Recount
<1> QED  BY <1>2, <1>3

(* Another buffer in a window.                                              *)
ShownIn(t, s, b, i) ==
  /\ Sound(t) /\ Len(t.win) = Len(s.win) /\ DOMAIN t.buf = DOMAIN s.buf
  /\ t.win[i] = [buf |-> b, hijack |-> s.win[i].hijack, top |-> s.win[i].top, rows |-> s.win[i].rows]
  /\ \A j \in 1..Len(s.win) : j # i => t.win[j] = s.win[j]

(* ... is what disassociate_b and associate_b2w make of it.                 *)
LEMMA ShowSound ==
  ASSUME NEW s, Sound(s), NEW b \in DOMAIN s.buf, NEW i \in 1..Len(s.win)
  PROVE  ShownIn(Show(s, b, i), s, b, i)
<1> DEFINE w  == s.win
           o  == w[i].buf
           f  == [buf |-> b, hijack |-> w[i].hijack, top |-> w[i].top, rows |-> w[i].rows]
           u  == [w EXCEPT ![i] = f]
           ds == Recount(s.buf, o, -1)
           cs == Recount(ds, b, 1)
<1>1. /\ Buffers(s.buf) /\ Frames(w) /\ Held(s.buf, w) /\ Counted(s.buf, w) /\ IsSeq(w)
      /\ Frame(w[i]) /\ o \in DOMAIN s.buf /\ Len(w) \in Nat /\ DOMAIN w = 1..Len(w)
  BY SeqOfItsElements DEF Sound, Frames, Held, IsSeq
<1>2. Show(s, b, i) = [buf |-> cs, win |-> u]
  <2>1. Disassociate(s, i) = [buf |-> ds, win |-> w]  BY DisassociateIs
  <2> HIDE DEF ds, w
  <2>2. i \in DOMAIN w  BY <1>1 DEF w
  <2>3. Associate([buf |-> ds, win |-> w], b, i) = [buf |-> cs, win |-> u]  BY <1>1, <2>2, AssociateIs
  <2> QED  BY <2>1, <2>3 DEF Show
<1>3. /\ Buffers(ds) /\ DOMAIN ds = DOMAIN s.buf
      /\ \A n \in DOMAIN s.buf : ds[n] = [cnt |-> s.buf[n].cnt + (IF n = o THEN -1 ELSE 0), lost |-> s.buf[n].lost]
  BY <1>1, CountChanged
<1> HIDE DEF ds
<1>4. /\ Buffers(cs) /\ DOMAIN cs = DOMAIN ds
      /\ \A n \in DOMAIN ds : cs[n] = [cnt |-> ds[n].cnt + (IF n = b THEN 1 ELSE 0), lost |-> ds[n].lost]
  BY <1>3, CountChanged
<1>5. Frames(u) /\ Len(u) = Len(w) /\ \A j \in 1..Len(w) : u[j] = IF j = i THEN f ELSE w[j]
  <2>1. Frame(f)  BY DEF Frame
  <2> HIDE DEF f, w
  <2> QED  BY <1>1, <2>1, FrameChanged DEF w
<1>f. f.buf = b /\ f.hijack = w[i].hijack  OBVIOUS
<1> HIDE DEF cs, u, f
<1>6. Held(cs, u)
  <2> SUFFICES ASSUME NEW j \in 1..Len(u) PROVE u[j].buf \in DOMAIN cs /\ u[j].hijack \in DOMAIN cs \cup {None}
    BY DEF Held
  <2>1. j \in 1..Len(w) /\ w[j].buf \in DOMAIN s.buf /\ w[j].hijack \in DOMAIN s.buf \cup {None}  BY <1>1, <1>5 DEF Held
  <2> QED  BY <1>3, <1>4, <1>5, <1>f, <2>1
<1>7. Counted(cs, u)
  <2> SUFFICES ASSUME NEW n \in DOMAIN s.buf PROVE cs[n].cnt = Shown(u, n) + cs[n].lost
    BY <1>3, <1>4 DEF Counted
  <2>1. Shown(u, n) = Shown(w, n) - One(w, i, n) + One(u, i, n)
    <3>1. IsSeq(u) /\ \A j \in 1..Len(w) : j # i => u[j].buf = w[j].buf  BY <1>5 DEF Frames
    <3> HIDE DEF w
    <3>2. i \in 1..Len(w)  BY DEF w
    <3> QED  BY <1>1, <1>5, <3>1, <3>2, ShownChanged
  <2>2. One(w, i, n) = (IF n = o THEN 1 ELSE 0) /\ One(u, i, n) = (IF n = b THEN 1 ELSE 0)  BY <1>5, <1>f DEF One
  <2>3. /\ cs[n].cnt = (s.buf[n].cnt + (IF n = o THEN -1 ELSE 0)) + (IF n = b THEN 1 ELSE 0)
        /\ cs[n].lost = s.buf[n].lost
    <3>1. cs[n] = [cnt |-> ds[n].cnt + (IF n = b THEN 1 ELSE 0), lost |-> ds[n].lost]  BY <1>3, <1>4
    <3>2. ds[n] = [cnt |-> s.buf[n].cnt + (IF n = o THEN -1 ELSE 0), lost |-> s.buf[n].lost]  BY <1>3
    <3> QED  BY <3>1, <3>2
  <2>4. s.buf[n].cnt = Shown(w, n) + s.buf[n].lost  BY <1>1 DEF Counted
  <2>5. Shown(w, n) \in Nat /\ s.buf[n].lost \in Nat /\ s.buf[n].cnt \in Int  BY <1>1, ShownIsNat DEF Buffers
  <2> QED  BY <2>1, <2>2, <2>3, <2>4, <2>5
<1>8. Sound([buf |-> cs, win |-> u])  BY <1>4, <1>5, <1>6, <1>7 DEF Sound
<1>9. u[i] = f /\ \A j \in 1..Len(w) : j # i => u[j] = w[j]  BY <1>5
<1> QED  BY <1>2, <1>3, <1>4, <1>5, <1>8, <1>9 DEF ShownIn, f

(* It is the buffer of that window then.                                    *)
LEMMA ShownThere ==
  ASSUME NEW t, NEW s, NEW b, NEW i, ShownIn(t, s, b, i)
  PROVE  t.win[i].buf = b
  BY DEF ShownIn

(* A buffer made when there is none of the name.                            *)
LEMMA FindSound ==
  ASSUME NEW s, Sound(s), NEW b \in Names
  PROVE  LET t == FindBuffer(s, b)
         IN  Sound(t) /\ t.win = s.win /\ DOMAIN t.buf = DOMAIN s.buf \cup {b}
<1> DEFINE D == DOMAIN s.buf
           cs == [n \in D \cup {b} |-> IF n \in D THEN s.buf[n] ELSE NewBuffer]
           w == s.win
<1>1. s = [buf |-> s.buf, win |-> w] /\ Buffers(s.buf) /\ Frames(w) /\ Held(s.buf, w) /\ Counted(s.buf, w)
  BY DEF Sound
<1>2. FindBuffer(s, b) = [buf |-> cs, win |-> w]
  <2>1. FindBuffer(s, b) = [s EXCEPT !.buf = cs]  BY DEF FindBuffer
  <2> HIDE DEF cs, w
  <2>2. [s EXCEPT !.buf = cs] = [buf |-> cs, win |-> w]  BY <1>1
  <2> QED  BY <2>1, <2>2
<1>3. DOMAIN cs = D \cup {b} /\ \A n \in D : cs[n] = s.buf[n]  OBVIOUS
<1>4. b \notin D => cs[b] = [cnt |-> 0, lost |-> 0]  BY DEF NewBuffer
<1>5. cs = [n \in DOMAIN cs |-> cs[n]]  OBVIOUS
<1> HIDE DEF cs
<1>6. Buffers(cs)
  <2>1. ASSUME NEW n \in DOMAIN cs
        PROVE  cs[n] = [cnt |-> cs[n].cnt, lost |-> cs[n].lost] /\ cs[n].cnt \in Int /\ cs[n].lost \in Nat
    <3>1. CASE n \in D
      <4>1. s.buf[n] = [cnt |-> s.buf[n].cnt, lost |-> s.buf[n].lost] /\ s.buf[n].cnt \in Int /\ s.buf[n].lost \in Nat
        BY <1>1, <3>1 DEF Buffers
      <4> QED  BY <1>3, <3>1, <4>1
    <3>2. CASE n \notin D
      <4>1. n = b  BY <1>3, <3>2
      <4>2. cs[n] = [cnt |-> 0, lost |-> 0]  BY <1>4, <3>2, <4>1
      <4> QED  BY <4>2
    <3> QED  BY <3>1, <3>2
  <2>2. DOMAIN cs \subseteq Names  BY <1>1, <1>3 DEF Buffers
  <2> QED  BY <1>5, <2>1, <2>2 DEF Buffers
<1>7. Held(cs, w)  BY <1>1, <1>3 DEF Held
<1>8. Counted(cs, w)
  <2> SUFFICES ASSUME NEW n \in DOMAIN cs PROVE cs[n].cnt = Shown(w, n) + cs[n].lost  BY DEF Counted
  <2>1. CASE n \in D  BY <1>1, <1>3, <2>1 DEF Counted
  <2>2. CASE n \notin D
    <3>1. n = b /\ cs[n] = [cnt |-> 0, lost |-> 0]  BY <1>3, <1>4, <2>2
    <3>2. At(w, n) = {}
      <4>1. DOMAIN w = 1..Len(w)  BY <1>1, SeqOfItsElements DEF Frames
      <4>2. \A i \in 1..Len(w) : w[i].buf # n  BY <1>1, <2>2 DEF Held
      <4> QED  BY <4>1, <4>2 DEF At
    <3>3. Shown(w, n) = 0  BY <3>2, FS_EmptySet DEF Shown
    <3> QED  BY <3>1, <3>3
  <2> QED  BY <2>1, <2>2
<1>9. Sound([buf |-> cs, win |-> w])  BY <1>1, <1>6, <1>7, <1>8 DEF Sound
<1> QED  BY <1>2, <1>3, <1>9

(* Other rows for the windows.                                              *)
LEMMA RowsSound ==
  ASSUME NEW s, Sound(s), NEW w, Frames(w), Len(w) = Len(s.win),
         \A i \in 1..Len(w) : w[i].buf = s.win[i].buf /\ w[i].hijack = s.win[i].hijack
  PROVE  Sound([buf |-> s.buf, win |-> w])
<1>1. Buffers(s.buf) /\ IsSeq(s.win) /\ Held(s.buf, s.win) /\ Counted(s.buf, s.win)  BY DEF Sound, Frames
<1>2. Held(s.buf, w)  BY <1>1 DEF Held
<1>3. ASSUME NEW b PROVE Shown(w, b) = Shown(s.win, b)  BY <1>1, ShownAlike DEF Frames
<1>4. Counted(s.buf, w)  BY <1>1, <1>3 DEF Counted
<1> QED  BY <1>1, <1>2, <1>4 DEF Sound

(* A window more on the buffer of window c.                                 *)
LEMMA SplitSound ==
  ASSUME NEW s, Sound(s), NEW c \in 1..Len(s.win)
  PROVE  LET t == SplitWindow(s, c)
         IN  /\ Sound(t) /\ Len(t.win) = Len(s.win) + 1 /\ DOMAIN t.buf = DOMAIN s.buf
             /\ t.win[c].buf = s.win[c].buf /\ t.win[c + 1].buf = s.win[c].buf
<1> DEFINE w     == s.win
           b     == w[c].buf
           rows  == w[c].rows
           upper == (rows - 1) \div 2
           lower == (rows - 1) - upper
           new   == [NewWindow(b) EXCEPT !.top = w[c].top + upper + 1, !.rows = lower]
           f     == [w[c] EXCEPT !.rows = upper]
           v     == [w EXCEPT ![c] = f]
           u     == InsertAt(v, c + 1, new)
           t     == [buf |-> s.buf, win |-> u]
           g     == [buf |-> b, hijack |-> u[c + 1].hijack, top |-> u[c + 1].top, rows |-> u[c + 1].rows]
           x     == [u EXCEPT ![c + 1] = g]
           cs    == Recount(s.buf, b, 1)
<1>1. /\ s = [buf |-> s.buf, win |-> w] /\ Buffers(s.buf) /\ Frames(w) /\ Held(s.buf, w) /\ Counted(s.buf, w)
      /\ Frame(w[c]) /\ b \in DOMAIN s.buf /\ w[c].hijack \in DOMAIN s.buf \cup {None} /\ Len(w) \in Nat /\ IsSeq(w)
  BY DEF Sound, Frames, Held, IsSeq
<1>2. new = [buf |-> b, hijack |-> None, top |-> w[c].top + upper + 1, rows |-> lower]
  <2>1. NewWindow(b) = [buf |-> b, hijack |-> None, top |-> 0, rows |-> 0]  BY DEF NewWindow
  <2>2. ASSUME NEW k, NEW l, NEW m
        PROVE  [[buf |-> k, hijack |-> None, top |-> 0, rows |-> 0] EXCEPT !.top = l, !.rows = m]
                 = [buf |-> k, hijack |-> None, top |-> l, rows |-> m]
    <3>1. [[buf |-> k, hijack |-> None, top |-> 0, rows |-> 0] EXCEPT !.top = l]
            = [buf |-> k, hijack |-> None, top |-> l, rows |-> 0]
      OBVIOUS
    <3>2. [[buf |-> k, hijack |-> None, top |-> l, rows |-> 0] EXCEPT !.rows = m]
            = [buf |-> k, hijack |-> None, top |-> l, rows |-> m]
      OBVIOUS
    <3> QED  BY <3>1, <3>2
  <2> DEFINE l == w[c].top + upper + 1  m == lower  k == b
  <2>3. new = [[buf |-> k, hijack |-> None, top |-> 0, rows |-> 0] EXCEPT !.top = l, !.rows = m]  BY <2>1
  <2> HIDE DEF k, l, m, new
  <2>4. new = [buf |-> k, hijack |-> None, top |-> l, rows |-> m]  BY <2>2, <2>3
  <2> QED  BY <2>4 DEF k, l, m
<1>3. f = [buf |-> b, hijack |-> w[c].hijack, top |-> w[c].top, rows |-> upper]
  <2>1. PICK k, l, m, n : w[c] = [buf |-> k, hijack |-> l, top |-> m, rows |-> n]  BY <1>1 DEF Frame
  <2>2. w[c].buf = k /\ w[c].hijack = l /\ w[c].top = m  BY <2>1
  <2> HIDE DEF upper
  <2>3. f = [buf |-> k, hijack |-> l, top |-> m, rows |-> upper]  BY <2>1
  <2> QED  BY <2>2, <2>3
<1>4. SplitWindow(s, c) = Associate(t, b, c + 1)
  <2> HIDE DEF upper, lower
  <2>1. [w EXCEPT ![c].rows = upper] = v  OBVIOUS
  <2>2. new.buf = b  BY <1>2
  <2> HIDE DEF v, new
  <2>3. [s EXCEPT !.win = u] = t
    <3> HIDE DEF u, w
    <3> QED  BY <1>1
  <2>4. SplitWindow(s, c) = Associate([s EXCEPT !.win = InsertAt([w EXCEPT ![c].rows = upper], c + 1, new)], new.buf, c + 1)
    BY DEF SplitWindow, upper, lower, new
  <2> QED  BY <2>1, <2>2, <2>3, <2>4
<1>f. Frame(f) /\ f.buf = b /\ f.hijack = w[c].hijack /\ Frame(new) /\ new.buf = b /\ new.hijack = None
  <2> HIDE DEF f, new
  <2> QED  BY <1>2, <1>3 DEF Frame
<1> HIDE DEF f, new, w
<1>5. Frames(v) /\ Len(v) = Len(w) /\ \A j \in 1..Len(w) : v[j] = IF j = c THEN f ELSE w[j]
  <2>1. c \in 1..Len(w)  BY DEF w
  <2> QED  BY <1>1, <1>f, <2>1, FrameChanged
<1> HIDE DEF v
<1>c. c \in 1..Len(w) /\ c + 1 \in 1..(Len(w) + 1)  BY <1>1 DEF w
<1>6. /\ IsSeq(u) /\ Len(u) = Len(w) + 1
      /\ \A j \in 1..(Len(w) + 1) : u[j] = IF j < c + 1 THEN v[j] ELSE IF j = c + 1 THEN new ELSE v[j - 1]
  BY SMTT(40), <1>5, <1>c, Inserted DEF Frames
<1> HIDE DEF u
<1>7. u[c + 1] = new  BY <1>6, <1>c
<1>g. g = new  BY <1>2, <1>7 DEF Frame
<1>8. x = u
  <2>1. u = [j \in 1..Len(u) |-> u[j]]  BY <1>6 DEF IsSeq
  <2> QED  BY <1>7, <1>g, <2>1
<1>9. Associate(t, b, c + 1) = [buf |-> cs, win |-> u]
  <2>1. c + 1 \in DOMAIN u /\ Frame(u[c + 1])  BY <1>6, <1>7, <1>c, <1>f, SeqOfItsElements
  <2> HIDE DEF b, g, cs
  <2>2. Associate(t, b, c + 1)
          = [buf |-> Recount(s.buf, b, 1),
             win |-> [u EXCEPT ![c + 1] = [buf |-> b, hijack |-> u[c + 1].hijack,
                                           top |-> u[c + 1].top, rows |-> u[c + 1].rows]]]
    BY <2>1, AssociateIs
  <2>3. Associate(t, b, c + 1) = [buf |-> cs, win |-> x]  BY <2>2 DEF cs, g
  <2> QED  BY <1>8, <2>3
<1>10. /\ Buffers(cs) /\ DOMAIN cs = DOMAIN s.buf
       /\ \A n \in DOMAIN s.buf : cs[n] = [cnt |-> s.buf[n].cnt + (IF n = b THEN 1 ELSE 0), lost |-> s.buf[n].lost]
  BY <1>1, CountChanged
<1> HIDE DEF cs, g, x
<1>11. ASSUME NEW j \in 1..(Len(w) + 1)
       PROVE  /\ Frame(u[j]) /\ u[j].buf \in DOMAIN s.buf /\ u[j].hijack \in DOMAIN s.buf \cup {None}
              /\ j # c + 1 => u[j].buf = (IF j < c + 1 THEN w[j] ELSE w[j - 1]).buf
  <2>1. CASE j < c + 1
    <3>1. j \in 1..Len(w) /\ u[j] = v[j] /\ v[j] = IF j = c THEN f ELSE w[j]  BY <1>1, <1>5, <1>6, <1>c, <2>1
    <3>2. Frame(w[j]) /\ w[j].buf \in DOMAIN s.buf /\ w[j].hijack \in DOMAIN s.buf \cup {None}
      BY <1>1, <3>1 DEF Frames, Held
    <3> QED  BY <1>1, <1>f, <2>1, <3>1, <3>2
  <2>2. CASE j = c + 1  BY <1>1, <1>7, <1>f, <2>2
  <2>3. CASE ~(j < c + 1) /\ j # c + 1
    <3>1. j - 1 \in 1..Len(w) /\ j - 1 # c  BY <1>1, <1>c, <2>3
    <3>2. u[j] = w[j - 1]  BY <1>5, <1>6, <2>3, <3>1
    <3>3. Frame(w[j - 1]) /\ w[j - 1].buf \in DOMAIN s.buf /\ w[j - 1].hijack \in DOMAIN s.buf \cup {None}
      BY <1>1, <3>1 DEF Frames, Held
    <3> QED  BY <2>3, <3>2, <3>3
  <2> QED  BY <2>1, <2>2, <2>3
<1>12. Frames(u) /\ Held(cs, u)  BY <1>6, <1>10, <1>11 DEF Frames, Held
<1>13. Counted(cs, u)
  <2> SUFFICES ASSUME NEW n \in DOMAIN s.buf PROVE cs[n].cnt = Shown(u, n) + cs[n].lost
    BY <1>10 DEF Counted
  <2>1. Shown(u, n) = Shown(w, n) + One(u, c + 1, n)  BY <1>1, <1>6, <1>11, <1>c, ShownInserted
  <2>2. One(u, c + 1, n) = IF n = b THEN 1 ELSE 0  BY <1>7, <1>f DEF One
  <2>3. cs[n].cnt = s.buf[n].cnt + (IF n = b THEN 1 ELSE 0) /\ cs[n].lost = s.buf[n].lost
    <3>1. cs[n] = [cnt |-> s.buf[n].cnt + (IF n = b THEN 1 ELSE 0), lost |-> s.buf[n].lost]  BY <1>10
    <3> QED  BY <3>1
  <2>4. s.buf[n].cnt = Shown(w, n) + s.buf[n].lost  BY <1>1 DEF Counted
  <2>5. Shown(w, n) \in Nat /\ s.buf[n].lost \in Nat /\ s.buf[n].cnt \in Int  BY <1>1, ShownIsNat DEF Buffers
  <2> QED  BY <2>1, <2>2, <2>3, <2>4, <2>5
<1>14. Sound([buf |-> cs, win |-> u])  BY <1>10, <1>12, <1>13 DEF Sound
<1>15. SplitWindow(s, c) = [buf |-> cs, win |-> u]  BY <1>4, <1>9
<1>16. Len(u) = Len(s.win) + 1 /\ DOMAIN cs = DOMAIN s.buf  BY <1>6, <1>10 DEF w
<1>17. u[c].buf = b /\ u[c + 1].buf = b
  <2>1. c \in 1..(Len(w) + 1) /\ c < c + 1  BY <1>1, <1>c
  <2> QED  BY <1>5, <1>6, <1>7, <1>c, <1>f, <2>1
<1> QED  BY <1>14, <1>15, <1>16, <1>17 DEF w

(* A window deleted, with its buffer disassociated.                         *)
LEMMA CloseSound ==
  ASSUME NEW s, Sound(s), NEW c \in 1..Len(s.win)
  PROVE  LET t == [Disassociate(s, c) EXCEPT !.win = RemoveAt(@, c)]
         IN  /\ Sound(t) /\ Len(t.win) = Len(s.win) - 1
             /\ \A i \in 1..(Len(s.win) - 1) : t.win[i] = IF i < c THEN s.win[i] ELSE s.win[i + 1]
<1> DEFINE w == s.win
           b == w[c].buf
           cs == Recount(s.buf, b, -1)
           u == RemoveAt(w, c)
<1>1. /\ Buffers(s.buf) /\ Frames(w) /\ Held(s.buf, w) /\ Counted(s.buf, w)
      /\ b \in DOMAIN s.buf /\ Len(w) \in Nat /\ IsSeq(w)
  BY DEF Sound, Frames, Held, IsSeq
<1>2. [Disassociate(s, c) EXCEPT !.win = RemoveAt(@, c)] = [buf |-> cs, win |-> u]
  <2>1. Disassociate(s, c) = [buf |-> cs, win |-> w]  BY DisassociateIs
  <2> HIDE DEF cs, w
  <2> QED  BY <2>1
<1>3. /\ Buffers(cs) /\ DOMAIN cs = DOMAIN s.buf
      /\ \A n \in DOMAIN s.buf : cs[n] = [cnt |-> s.buf[n].cnt + (IF n = b THEN -1 ELSE 0), lost |-> s.buf[n].lost]
  <2> HIDE DEF b, w
  <2> DEFINE k == -1
  <2>1. k \in Int /\ Buffers(s.buf) /\ b \in DOMAIN s.buf  BY <1>1
  <2> HIDE DEF k
  <2>2. /\ Buffers(Recount(s.buf, b, k)) /\ DOMAIN Recount(s.buf, b, k) = DOMAIN s.buf
        /\ \A n \in DOMAIN s.buf : Recount(s.buf, b, k)[n]
                                    = [cnt |-> s.buf[n].cnt + (IF n = b THEN k ELSE 0), lost |-> s.buf[n].lost]
    BY SMTT(40), <2>1, CountChanged
  <2> QED  BY <2>2 DEF k
<1>4. IsSeq(u) /\ Len(u) = Len(w) - 1 /\ \A i \in 1..(Len(w) - 1) : u[i] = IF i < c THEN w[i] ELSE w[i + 1]
  BY <1>1, Removed
<1> HIDE DEF cs, u
<1>5. ASSUME NEW i \in 1..Len(u)
      PROVE  Frame(u[i]) /\ u[i].buf \in DOMAIN cs /\ u[i].hijack \in DOMAIN cs \cup {None}
  <2>1. PICK j \in 1..Len(w) : u[i] = w[j]
    <3>1. i \in 1..(Len(w) - 1) /\ i \in 1..Len(w) /\ i + 1 \in 1..Len(w)  BY <1>1, <1>4
    <3> QED  BY <1>4, <3>1
  <2> QED  BY <1>1, <1>3, <2>1 DEF Frames, Held
<1>6. Frames(u) /\ Held(cs, u)  BY <1>4, <1>5 DEF Frames, Held
<1>7. Counted(cs, u)
  <2> SUFFICES ASSUME NEW n \in DOMAIN s.buf PROVE cs[n].cnt = Shown(u, n) + cs[n].lost
    BY <1>3 DEF Counted
  <2>1. Shown(u, n) = Shown(w, n) - One(w, c, n)  BY <1>1, ShownRemoved DEF u
  <2>2. One(w, c, n) = IF n = b THEN 1 ELSE 0  BY DEF One
  <2>3. cs[n].cnt = s.buf[n].cnt + (IF n = b THEN -1 ELSE 0) /\ cs[n].lost = s.buf[n].lost
    <3>1. cs[n] = [cnt |-> s.buf[n].cnt + (IF n = b THEN -1 ELSE 0), lost |-> s.buf[n].lost]  BY <1>3
    <3> QED  BY <3>1
  <2>4. s.buf[n].cnt = Shown(w, n) + s.buf[n].lost  BY <1>1 DEF Counted
  <2>5. Shown(w, n) \in Nat /\ s.buf[n].lost \in Nat /\ s.buf[n].cnt \in Int  BY <1>1, ShownIsNat DEF Buffers
  <2> QED  BY <2>1, <2>2, <2>3, <2>4, <2>5
<1>8. Sound([buf |-> cs, win |-> u])  BY <1>3, <1>6, <1>7 DEF Sound
<1> QED  BY <1>2, <1>4, <1>8

(* All windows but c deleted.                                               *)
LEMMA OnlySound ==
  ASSUME NEW s, Sound(s), NEW c \in 1..Len(s.win)
  PROVE  LET t == OnlyWindow(s, c)
         IN  /\ Sound(t) /\ Len(t.win) = 1 /\ DOMAIN t.buf = DOMAIN s.buf
             /\ t.win[1].buf = s.win[c].buf
<1> DEFINE w == s.win
           freed(b) == {i \in DOMAIN w \ {c} : w[i].buf = b}
           cs == [b \in DOMAIN s.buf |-> [s.buf[b] EXCEPT !.cnt = @ - Cardinality(freed(b))]]
           f == [w[c] EXCEPT !.top = 0, !.rows = screen - 2]
           u == <<f>>
<1>1. /\ s = [buf |-> s.buf, win |-> w] /\ Buffers(s.buf) /\ Frames(w) /\ Held(s.buf, w) /\ Counted(s.buf, w)
      /\ Frame(w[c]) /\ w[c].buf \in DOMAIN s.buf /\ w[c].hijack \in DOMAIN s.buf \cup {None}
      /\ Len(w) \in Nat /\ IsSeq(w) /\ DOMAIN w = 1..Len(w)
  BY SeqOfItsElements DEF Sound, Frames, Held, IsSeq
<1>2. OnlyWindow(s, c) = [buf |-> cs, win |-> u]
  BY DEF OnlyWindow
<1>3. Frame(f) /\ f.buf = w[c].buf /\ f.hijack = w[c].hijack
  <2>1. PICK k, l, m, n : w[c] = [buf |-> k, hijack |-> l, top |-> m, rows |-> n]  BY <1>1 DEF Frame
  <2>2. w[c].buf = k /\ w[c].hijack = l  BY <2>1
  <2> DEFINE r == screen - 2
  <2> HIDE DEF r
  <2>3. [w[c] EXCEPT !.top = 0] = [buf |-> k, hijack |-> l, top |-> 0, rows |-> n]  BY <2>1
  <2>4. [[buf |-> k, hijack |-> l, top |-> 0, rows |-> n] EXCEPT !.rows = r] = [buf |-> k, hijack |-> l, top |-> 0, rows |-> r]
    OBVIOUS
  <2>5. f = [buf |-> k, hijack |-> l, top |-> 0, rows |-> r]  BY <2>3, <2>4 DEF r
  <2> HIDE DEF f
  <2> QED  BY <2>2, <2>5 DEF Frame
<1> HIDE DEF f
<1>4. IsSeq(u) /\ Len(u) = 1 /\ u[1] = f
  <2>1. Len(u) = 1 /\ u[1] = f /\ u = [i \in 1..1 |-> u[i]]  OBVIOUS
  <2> QED  BY <2>1 DEF IsSeq
<1>5. ASSUME NEW b \in DOMAIN s.buf
      PROVE  /\ cs[b] = [cnt |-> s.buf[b].cnt - Cardinality(freed(b)), lost |-> s.buf[b].lost]
             /\ Cardinality(freed(b)) = Shown(w, b) - One(w, c, b) /\ One(w, c, b) \in Nat
             /\ Shown(w, b) \in Nat /\ s.buf[b].cnt \in Int /\ s.buf[b].lost \in Nat
  <2>1. s.buf[b] = [cnt |-> s.buf[b].cnt, lost |-> s.buf[b].lost] /\ s.buf[b].cnt \in Int /\ s.buf[b].lost \in Nat
    BY <1>1 DEF Buffers
  <2>2. IsFiniteSet(At(w, b)) /\ Shown(w, b) \in Nat  BY <1>1, ShownIsNat
  <2>3. freed(b) = At(w, b) \ {c} /\ (c \in At(w, b) <=> w[c].buf = b)  BY <1>1 DEF At
  <2>4. Cardinality(At(w, b) \ {c}) = Shown(w, b) - IF c \in At(w, b) THEN 1 ELSE 0  BY <2>2, OneLess DEF Shown
  <2>5. One(w, c, b) = IF w[c].buf = b THEN 1 ELSE 0  BY DEF One
  <2>6. Cardinality(freed(b)) = Shown(w, b) - One(w, c, b)  BY <2>3, <2>4, <2>5
  <2>7. One(w, c, b) \in Nat  BY <2>5
  <2>8. cs[b] = [s.buf[b] EXCEPT !.cnt = s.buf[b].cnt - Cardinality(freed(b))]  OBVIOUS
  <2> HIDE DEF cs, freed, w
  <2>9. cs[b] = [cnt |-> s.buf[b].cnt - Cardinality(freed(b)), lost |-> s.buf[b].lost]  BY <2>1, <2>8
  <2> QED  BY <2>1, <2>2, <2>6, <2>7, <2>9
<1>6. DOMAIN cs = DOMAIN s.buf /\ cs = [b \in DOMAIN cs |-> cs[b]]  OBVIOUS
<1> HIDE DEF cs, freed, u, w
<1>7. ASSUME NEW b \in DOMAIN s.buf
      PROVE  /\ cs[b] = [cnt |-> cs[b].cnt, lost |-> cs[b].lost] /\ cs[b].cnt \in Int /\ cs[b].lost \in Nat
             /\ cs[b].cnt = Shown(u, b) + cs[b].lost
  <2>1. cs[b].cnt = s.buf[b].cnt - (Shown(w, b) - One(w, c, b)) /\ cs[b].lost = s.buf[b].lost
    <3>1. cs[b] = [cnt |-> s.buf[b].cnt - Cardinality(freed(b)), lost |-> s.buf[b].lost]  BY <1>5
    <3>2. Cardinality(freed(b)) = Shown(w, b) - One(w, c, b)  BY <1>5
    <3> QED  BY <3>1, <3>2
  <2>a. One(w, c, b) \in Nat /\ Shown(w, b) \in Nat /\ s.buf[b].cnt \in Int /\ s.buf[b].lost \in Nat  BY <1>5
  <2>2. s.buf[b].cnt = Shown(w, b) + s.buf[b].lost  BY <1>1 DEF Counted
  <2>3. cs[b].cnt = One(w, c, b) + s.buf[b].lost  BY <2>a, <2>1, <2>2
  <2>4. Shown(u, b) = One(w, c, b)
    <3>1. DOMAIN u = 1..1 /\ 1..1 = {1}  BY <1>4, SeqOfItsElements
    <3>2. At(u, b) = IF f.buf = b THEN {1} ELSE {}  BY <1>4, <3>1 DEF At
    <3> QED  BY <1>3, <3>2, FS_EmptySet, FS_Singleton DEF Shown, One
  <2>5. cs[b].cnt \in Int /\ cs[b].lost \in Nat  BY <2>a, <2>1, <2>3
  <2>6. cs[b] = [cnt |-> cs[b].cnt, lost |-> cs[b].lost]
    <3>1. cs[b] = [cnt |-> s.buf[b].cnt - Cardinality(freed(b)), lost |-> s.buf[b].lost]  BY <1>5
    <3> QED  BY <3>1
  <2> QED  BY <2>1, <2>3, <2>4, <2>5, <2>6
<1>8. Buffers(cs) /\ Counted(cs, u)  BY <1>1, <1>6, <1>7 DEF Buffers, Counted
<1>9. Frames(u) /\ Held(cs, u)  BY <1>1, <1>3, <1>4, <1>6 DEF Frames, Held
<1>10. u[1].buf = s.win[c].buf  BY <1>3, <1>4 DEF w
<1> QED  BY <1>2, <1>4, <1>6, <1>8, <1>9, <1>10 DEF Sound

(* Which window gets back which buffer, changed in window i.                *)
Kept(t, i, h) == [t EXCEPT !.win[i].hijack = h]

(* ... without a change of what the windows show.                           *)
LEMMA HijackSound ==
  ASSUME NEW t, Sound(t), NEW i \in 1..Len(t.win), NEW h \in DOMAIN t.buf \cup {None}
  PROVE  LET u == Kept(t, i, h)
         IN  /\ Sound(u) /\ Len(u.win) = Len(t.win) /\ u.buf = t.buf
             /\ \A j \in 1..Len(t.win) : u.win[j].buf = t.win[j].buf
<1> DEFINE w == t.win
           f == [buf |-> w[i].buf, hijack |-> h, top |-> w[i].top, rows |-> w[i].rows]
           v == [w EXCEPT ![i] = f]
<1>1. /\ t = [buf |-> t.buf, win |-> w] /\ Buffers(t.buf) /\ Frames(w) /\ Held(t.buf, w) /\ Counted(t.buf, w)
      /\ Frame(w[i]) /\ w[i].buf \in DOMAIN t.buf /\ IsSeq(w)
  BY DEF Sound, Frames, Held
<1>2. Kept(t, i, h) = [buf |-> t.buf, win |-> v]
  <2>1. [w[i] EXCEPT !.hijack = h] = f
    <3>1. PICK k, l, m, n : w[i] = [buf |-> k, hijack |-> l, top |-> m, rows |-> n]  BY <1>1 DEF Frame
    <3>2. w[i].buf = k /\ w[i].top = m /\ w[i].rows = n  BY <3>1
    <3>3. [w[i] EXCEPT !.hijack = h] = [buf |-> k, hijack |-> h, top |-> m, rows |-> n]  BY <3>1
    <3> QED  BY <3>2, <3>3
  <2>2. [w EXCEPT ![i].hijack = h] = v  BY <2>1
  <2>3. Kept(t, i, h) = [t EXCEPT !.win = v]  BY <2>2 DEF Kept
  <2> HIDE DEF w, v
  <2> QED  BY <1>1, <2>3
<1>3. Frame(f) /\ f.buf = w[i].buf /\ f.hijack = h  BY DEF Frame
<1> HIDE DEF f
<1>4. Frames(v) /\ Len(v) = Len(w) /\ \A j \in 1..Len(w) : v[j] = IF j = i THEN f ELSE w[j]
  BY <1>1, <1>3, FrameChanged
<1> HIDE DEF v
<1>5. \A j \in 1..Len(w) : v[j].buf = w[j].buf  BY <1>3, <1>4
<1>6. Held(t.buf, v)  BY <1>1, <1>3, <1>4 DEF Held
<1>7. ASSUME NEW b PROVE Shown(v, b) = Shown(w, b)
  <2>1. IsSeq(v)  BY <1>4 DEF Frames
  <2> HIDE DEF w
  <2> QED  BY <1>1, <1>4, <1>5, <2>1, ShownAlike
<1>8. Counted(t.buf, v)  BY <1>1, <1>7 DEF Counted
<1>9. Sound([buf |-> t.buf, win |-> v])  BY <1>1, <1>4, <1>6, <1>8 DEF Sound
<1> QED  BY <1>2, <1>4, <1>5, <1>9

(* A window given back to the buffer it had before the popup.               *)
LEMMA RestoredSound ==
  ASSUME NEW s, Sound(s), NEW i \in 1..Len(s.win)
  PROVE  LET t == Restored(s, i)
         IN  /\ Sound(t) /\ Len(t.win) = Len(s.win) /\ DOMAIN t.buf = DOMAIN s.buf
             /\ \A j \in 1..Len(s.win) : j # i => t.win[j].buf = s.win[j].buf
             /\ s.win[i].hijack # None => t.win[i].buf = s.win[i].hijack
<1>1. CASE s.win[i].hijack = None  BY <1>1 DEF Restored
<1>2. CASE s.win[i].hijack # None
  <2> DEFINE b == s.win[i].hijack
             t == Show(s, b, i)
             u == Kept(t, i, None)
  <2>1. b \in DOMAIN s.buf  BY <1>2 DEF Sound, Held
  <2>2. ShownIn(t, s, b, i)  BY <2>1, ShowSound
  <2>3. Restored(s, i) = u  BY <1>2 DEF Restored, Kept
  <2> HIDE DEF t, b
  <2>4. /\ Sound(t) /\ i \in 1..Len(t.win) /\ Len(t.win) = Len(s.win) /\ DOMAIN t.buf = DOMAIN s.buf
        /\ t.win[i].buf = b /\ \A j \in 1..Len(s.win) : j # i => t.win[j].buf = s.win[j].buf
    BY <2>2 DEF ShownIn
  <2>5. /\ Sound(u) /\ Len(u.win) = Len(t.win) /\ u.buf = t.buf
        /\ \A j \in 1..Len(t.win) : u.win[j].buf = t.win[j].buf
    BY <2>4, HijackSound
  <2>6. u.win[i].buf = s.win[i].hijack  BY <2>4, <2>5 DEF b
  <2>7. \A j \in 1..Len(s.win) : j # i => u.win[j].buf = s.win[j].buf  BY <2>4, <2>5
  <2> QED  BY <2>3, <2>4, <2>5, <2>6, <2>7
<1> QED  BY <1>1, <1>2

(* A window taken over for a popup.                                         *)
LEMMA HijackedSound ==
  ASSUME NEW s, Sound(s), NEW b \in DOMAIN s.buf, NEW i \in 1..Len(s.win)
  PROVE  LET t == Hijacked(s, b, i)
         IN  /\ Sound(t) /\ Len(t.win) = Len(s.win) /\ t.win[i].buf = b /\ DOMAIN t.buf = DOMAIN s.buf
             /\ \A j \in 1..Len(s.win) : j # i => t.win[j].buf = s.win[j].buf
<1> DEFINE h == s.win[i].buf
           t == Show(s, b, i)
           u == Kept(t, i, h)
<1>1. h \in DOMAIN s.buf  BY DEF Sound, Held
<1>2. ShownIn(t, s, b, i)  BY ShowSound
<1>3. Hijacked(s, b, i) = u  BY DEF Hijacked, Kept
<1> HIDE DEF t, h
<1>4. /\ Sound(t) /\ i \in 1..Len(t.win) /\ Len(t.win) = Len(s.win) /\ DOMAIN t.buf = DOMAIN s.buf /\ t.win[i].buf = b
      /\ \A j \in 1..Len(s.win) : j # i => t.win[j].buf = s.win[j].buf
  BY <1>2 DEF ShownIn
<1>a. h \in DOMAIN t.buf \cup {None}  BY <1>1, <1>4
<1>5. Sound(u) /\ Len(u.win) = Len(t.win) /\ u.buf = t.buf /\ \A j \in 1..Len(t.win) : u.win[j].buf = t.win[j].buf
  BY <1>a, <1>4, HijackSound
<1> QED  BY <1>3, <1>4, <1>5

-----------------------------------------------------------------------------
(* The next and the previous buffer                                         *)

(* A set of natural numbers has a least element.                            *)
LEMMA Least ==
  ASSUME NEW S, S \subseteq Nat, S # {}
  PROVE  \E n \in S : \A m \in S : n <= m
<1> DEFINE R == OpToRel(<, Nat)
<1>1. IsWellFoundedOn(R, Nat)  BY NatLessThanWellFounded
<1>2. \A a, b \in Nat : <<a, b>> \in R <=> a < b  BY DEF OpToRel
<1> HIDE DEF R
<1>3. PICK n \in S : \A m \in S : <<m, n>> \notin R  BY <1>1, WFMin
<1>4. \A m \in S : ~(m < n) /\ m \in Nat /\ n \in Nat  BY <1>2, <1>3
<1> QED  BY <1>4

(* ... and a finite one has a greatest: the one with the fewest above it.   *)
LEMMA Greatest ==
  ASSUME NEW S, S \subseteq Nat, IsFiniteSet(S), S # {}
  PROVE  \E n \in S : \A m \in S : n >= m
<1> DEFINE above(n) == {m \in S : m > n}
           T == {Cardinality(above(n)) : n \in S}
<1>1. \A n \in S : IsFiniteSet(above(n)) /\ Cardinality(above(n)) \in Nat
  BY FS_Subset, FS_CardinalityType
<1>2. T \subseteq Nat /\ T # {}  BY <1>1
<1> HIDE DEF T
<1>3. PICK k \in T : \A l \in T : k <= l  BY <1>2, Least
<1>4. PICK n \in S : k = Cardinality(above(n))  BY DEF T
<1>5. SUFFICES ASSUME NEW m \in S, m > n PROVE FALSE
  <2>1. \A m \in S : ~(m > n) => n >= m  OBVIOUS
  <2> QED  BY <2>1
<1>6. Cardinality(above(m)) \in T  BY DEF T
<1>7. above(m) \in SUBSET above(n) /\ above(m) # above(n)
  <2>1. m \in above(n) /\ m \notin above(m)  BY <1>5
  <2>2. \A x \in S : x > m => x > n  BY <1>5
  <2> QED  BY <2>1, <2>2
<1>8. Cardinality(above(m)) <= Cardinality(above(n)) /\ Cardinality(above(m)) # Cardinality(above(n))
  BY <1>1, <1>7, FS_Subset
<1> QED  BY <1>1, <1>3, <1>4, <1>6, <1>8

(* Next and previous are buffers of the list, and the next of a list with   *)
(* another one is another one.                                              *)
LEMMA NextAndPrevious ==
  ASSUME NEW bs, bs \subseteq Names, NEW b \in bs
  PROVE  /\ NextOf(bs, b) \in bs /\ PreviousOf(bs, b) \in bs
         /\ bs # {b} => NextOf(bs, b) # b
<1>1. bs \subseteq Nat /\ IsFiniteSet(bs)  BY WindowSizes, FS_Subset
<1>2. ASSUME NEW S, S \subseteq bs, S # {}
      PROVE  /\ Min(S) \in S /\ \A m \in S : Min(S) <= m
             /\ Max(S) \in S
  <2>1. S \subseteq Nat /\ IsFiniteSet(S)  BY <1>1, <1>2, FS_Subset
  <2>2. \E n \in S : \A m \in S : n <= m  BY <1>2, <2>1, Least
  <2>3. \E n \in S : \A m \in S : n >= m  BY <1>2, <2>1, Greatest
  <2> QED  BY <2>2, <2>3 DEF Min, Max
<1> DEFINE later == {n \in bs : n > b}  earlier == {n \in bs : n < b}
<1>3. CASE later # {}
  <2>1. Min(later) \in later  BY <1>2, <1>3
  <2>2. NextOf(bs, b) = Min(later)  BY <1>3 DEF NextOf
  <2>3. NextOf(bs, b) \in bs /\ NextOf(bs, b) # b  BY <1>1, <2>1, <2>2
  <2> QED  BY <1>2, <2>3 DEF PreviousOf
<1>4. CASE later = {}
  <2>1. NextOf(bs, b) = Min(bs)  BY <1>4 DEF NextOf
  <2>2. Min(bs) \in bs /\ \A m \in bs : Min(bs) <= m  BY <1>2
  <2>3. ASSUME NEW x \in bs, x # b PROVE Min(bs) # b
    <3>1. x < b  BY <1>1, <1>4, <2>3
    <3> QED  BY <1>1, <2>2, <3>1
  <2> QED  BY <1>2, <2>1, <2>2, <2>3 DEF PreviousOf
<1> QED  BY <1>3, <1>4

-----------------------------------------------------------------------------
(* The steps                                                                *)

(* The two lists, whether or not the windows lead to buffers of the list.   *)
Whole(s) ==
  /\ s = [buf |-> s.buf, win |-> s.win]
  /\ Buffers(s.buf) /\ Frames(s.win) /\ Counted(s.buf, s.win)

(* The inductive invariant; and a state in which a command can run.         *)
IInv == Whole(Now) /\ cur \in 1..Len(win) /\ curbp \in DOMAIN buf
Fit == Sound(Now) /\ cur \in 1..Len(win) /\ curbp \in DOMAIN buf

(* Windows that do not dangle are held.                                     *)
LEMMA HeldIs ==
  ASSUME NEW bs, NEW w, Frames(w)
  PROVE  Dangles(bs, w) <=> ~Held(bs, w)
<1>1. DOMAIN w = 1..Len(w)  BY SeqOfItsElements DEF Frames
<1> QED  BY <1>1 DEF Dangles, Held

(* What the invariant says of the variables.                                *)
LEMMA InvParts ==
  ASSUME Fit
  PROVE  /\ Sound(Now) /\ Now.buf = buf /\ Now.win = win
         /\ Frames(win) /\ Held(buf, win) /\ Counted(buf, win) /\ Buffers(buf)
         /\ IsSeq(win) /\ Len(win) \in Nat /\ DOMAIN win = 1..Len(win)
         /\ cur \in 1..Len(win) /\ curbp \in DOMAIN buf
<1>1. Sound(Now) /\ Now.buf = buf /\ Now.win = win /\ cur \in 1..Len(win) /\ curbp \in DOMAIN buf
  BY DEF Fit, Now
<1>2. Frames(win) /\ Held(buf, win) /\ Counted(buf, win) /\ Buffers(buf)  BY <1>1 DEF Sound
<1>3. IsSeq(win) /\ Len(win) \in Nat /\ DOMAIN win = 1..Len(win)
  BY <1>2, SeqOfItsElements DEF Frames, IsSeq
<1> QED  BY <1>1, <1>2, <1>3

(* What every step does.                                                    *)
LinkedStep == CurrentStep /\ LinkStep /\ curbp' \in DOMAIN buf'

(* A command that leaves sound buffers and windows, a window selected, and  *)
(* its buffer in curbp unless M-x gave it back.                             *)
LEMMA BecomeSound ==
  ASSUME NEW s, Sound(s), NEW c \in 1..Len(s.win), NEW b \in DOMAIN s.buf, Become(s, c, b),
         curbp = win[cur].buf /\ b # s.win[c].buf =>
           c = cur /\ win[cur].buf = Completions /\ win[cur].hijack = s.win[cur].buf
  PROVE  IInv' /\ LinkedStep
<1>1. buf' = s.buf /\ win' = s.win /\ cur' = c /\ curbp' = b  BY DEF Become
<1>2. Now' = s  BY <1>1 DEF Now, Sound
<1>3. Whole(s) /\ Frames(s.win) /\ Held(s.buf, s.win)  BY DEF Sound, Whole
<1>4. IInv'  BY <1>1, <1>2, <1>3 DEF IInv
<1>5. CurrentStep  BY <1>1 DEF CurrentStep
<1>6. ~Dangles(buf', win')  BY <1>1, <1>3, HeldIs
<1> QED  BY <1>1, <1>4, <1>5, <1>6 DEF LinkedStep, LinkStep

(* A command that leaves everything as it is.                               *)
LEMMA SameSound ==
  ASSUME Fit, UNCHANGED <<buf, win, cur, curbp>>
  PROVE  IInv' /\ LinkedStep
<1>1. /\ Now = [buf |-> buf, win |-> win] /\ Now' = Now /\ Buffers(buf) /\ Frames(win) /\ Held(buf, win)
      /\ Counted(buf, win) /\ cur \in 1..Len(win) /\ curbp \in DOMAIN buf
  BY InvParts DEF Now
<1>2. IInv'  BY <1>1 DEF IInv, Whole
<1>3. ~Dangles(buf', win')  BY <1>1, HeldIs
<1>4. CurrentStep  BY DEF CurrentStep
<1> QED  BY <1>1, <1>2, <1>3, <1>4 DEF LinkedStep, LinkStep

(* Windows with the same buffers in them.                                   *)
Alike(u, w) ==
  /\ Frames(u) /\ Len(u) = Len(w)
  /\ \A i \in 1..Len(w) : u[i].buf = w[i].buf /\ u[i].hijack = w[i].hijack

(* A window with other rows, or another top, is alike.                      *)
LEMMA FieldsAlike ==
  ASSUME NEW w, Frames(w), NEW i \in 1..Len(w), NEW e
  PROVE  Alike([w EXCEPT ![i].rows = e], w) /\ Alike([w EXCEPT ![i].top = e], w)
<1>1. PICK k, l, m, n : w[i] = [buf |-> k, hijack |-> l, top |-> m, rows |-> n]  BY DEF Frames, Frame
<1>2. w[i].buf = k /\ w[i].hijack = l  BY <1>1
<1> DEFINE f == [buf |-> k, hijack |-> l, top |-> m, rows |-> e]
           g == [buf |-> k, hijack |-> l, top |-> e, rows |-> n]
<1>3. [w EXCEPT ![i].rows = e] = [w EXCEPT ![i] = f]
  <2>1. [w[i] EXCEPT !.rows = e] = f  BY <1>1
  <2> QED  BY <2>1
<1>4. [w EXCEPT ![i].top = e] = [w EXCEPT ![i] = g]
  <2>1. [w[i] EXCEPT !.top = e] = g  BY <1>1
  <2> QED  BY <2>1
<1>5. Frame(f) /\ f.buf = k /\ f.hijack = l /\ Frame(g) /\ g.buf = k /\ g.hijack = l  BY DEF Frame
<1> HIDE DEF f, g
<1>6. ASSUME NEW h, Frame(h), h.buf = k, h.hijack = l PROVE Alike([w EXCEPT ![i] = h], w)
  <2> DEFINE u == [w EXCEPT ![i] = h]
  <2>1. Frames(u) /\ Len(u) = Len(w) /\ \A j \in 1..Len(w) : u[j] = IF j = i THEN h ELSE w[j]  BY <1>6, FrameChanged
  <2> HIDE DEF u
  <2>2. Alike(u, w)  BY <1>2, <1>6, <2>1 DEF Alike
  <2> QED  BY <2>2 DEF u
<1> QED  BY <1>3, <1>4, <1>5, <1>6

(* Alike twice is alike.                                                    *)
LEMMA AlikeAlike ==
  ASSUME NEW w, NEW u, NEW v, Alike(u, w), Alike(v, u)
  PROVE  Alike(v, w)
  BY DEF Alike

(* Windows alike are as sound.                                              *)
LEMMA AlikeSound ==
  ASSUME NEW s, Sound(s), NEW w, Alike(w, s.win)
  PROVE  Sound([buf |-> s.buf, win |-> w])
<1>1. /\ Frames(w) /\ Len(w) = Len(s.win)
      /\ \A i \in 1..Len(w) : w[i].buf = s.win[i].buf /\ w[i].hijack = s.win[i].hijack
  BY DEF Alike
<1> QED  BY <1>1, RowsSound

(* The first window, of the first buffer.                                   *)
LEMMA InitIInv == Init => IInv
<1> SUFFICES ASSUME Init PROVE IInv  OBVIOUS
<1> DEFINE f == [buf |-> Scratch, hijack |-> None, top |-> 0, rows |-> screen - 2]
           g == [cnt |-> 1, lost |-> 0]
<1>1. win = <<f>>
  <2>1. [NewWindow(Scratch) EXCEPT !.rows = screen - 2] = f
    <3> DEFINE r == screen - 2
    <3> HIDE DEF r
    <3>1. [[buf |-> Scratch, hijack |-> None, top |-> 0, rows |-> 0] EXCEPT !.rows = r]
            = [buf |-> Scratch, hijack |-> None, top |-> 0, rows |-> r]
      OBVIOUS
    <3> QED  BY <3>1 DEF NewWindow, r
  <2> QED  BY <2>1 DEF Init
<1>2. buf = [b \in {Scratch} |-> g]
  <2>1. [NewBuffer EXCEPT !.cnt = 1] = g  BY DEF NewBuffer
  <2> QED  BY <2>1 DEF Init
<1>3. cur = 1 /\ curbp = Scratch  BY DEF Init
<1>4. IsSeq(win) /\ Len(win) = 1 /\ win[1] = f
  <2>1. Len(win) = 1 /\ win[1] = f /\ win = [i \in 1..1 |-> win[i]]  BY <1>1
  <2> QED  BY <2>1 DEF IsSeq
<1>5. Frame(f) /\ f.buf = Scratch /\ f.hijack = None  BY DEF Frame
<1>6. DOMAIN buf = {Scratch} /\ buf[Scratch] = [cnt |-> 1, lost |-> 0] /\ buf = [b \in DOMAIN buf |-> buf[b]]
  BY <1>2
<1> HIDE DEF f
<1>7. Frames(win) /\ Held(buf, win)  BY <1>4, <1>5, <1>6 DEF Frames, Held
<1>8. Buffers(buf)  BY <1>6, WindowSizes DEF Buffers
<1>9. Counted(buf, win)
  <2>1. DOMAIN win = 1..1 /\ 1..1 = {1}  BY <1>4, SeqOfItsElements
  <2>2. At(win, Scratch) = {1}  BY <1>4, <1>5, <2>1 DEF At
  <2>3. Shown(win, Scratch) = 1  BY <2>2, FS_Singleton DEF Shown
  <2> QED  BY <1>6, <2>3 DEF Counted
<1>10. Whole(Now)  BY <1>7, <1>8, <1>9 DEF Whole, Now
<1> QED  BY <1>3, <1>4, <1>6, <1>10 DEF IInv

(* Windows split, selected, deleted and given other rows.                   *)
LEMMA WindowSteps ==
  ASSUME Fit, Split \/ OtherWindow \/ DeleteOtherWindows \/ DeleteWindow \/ EnlargeWindow
  PROVE  IInv' /\ LinkedStep
<1>1. /\ Sound(Now) /\ Now.buf = buf /\ Now.win = win /\ Frames(win) /\ Held(buf, win)
      /\ Len(win) \in Nat /\ DOMAIN win = 1..Len(win) /\ cur \in 1..Len(win) /\ curbp \in DOMAIN buf
  BY InvParts
<1>2. CASE Split
  <2> DEFINE t == SplitWindow(Now, cur)
  <2>1. Sound(t) /\ Len(t.win) = Len(win) + 1 /\ DOMAIN t.buf = DOMAIN buf /\ t.win[cur].buf = win[cur].buf
    BY <1>1, SplitSound
  <2>2. cur \in 1..Len(t.win) /\ curbp \in DOMAIN t.buf /\ Become(t, cur, curbp)  BY <1>1, <1>2, <2>1 DEF Split
  <2> HIDE DEF t
  <2> QED  BY <2>1, <2>2, BecomeSound
<1>3. CASE OtherWindow
  <2>1. PICK i \in 1..Len(win) : Become(Now, i, win[i].buf)  BY <1>1, <1>3 DEF OtherWindow
  <2>2. win[i].buf \in DOMAIN Now.buf /\ win[i].buf = Now.win[i].buf  BY <1>1 DEF Held
  <2> DEFINE b == win[i].buf
  <2>3. Become(Now, i, b) /\ b \in DOMAIN Now.buf /\ b = Now.win[i].buf /\ i \in 1..Len(Now.win)  BY <1>1, <2>1, <2>2
  <2> HIDE DEF b
  <2> QED  BY <1>1, <2>3, BecomeSound
<1>4. CASE DeleteOtherWindows
  <2> DEFINE t == OnlyWindow(Now, cur)
  <2>1. Sound(t) /\ Len(t.win) = 1 /\ DOMAIN t.buf = DOMAIN buf /\ t.win[1].buf = win[cur].buf  BY <1>1, OnlySound
  <2>2. 1 \in 1..Len(t.win) /\ curbp \in DOMAIN t.buf /\ Become(t, 1, curbp)  BY <1>1, <1>4, <2>1 DEF DeleteOtherWindows
  <2> HIDE DEF t
  <2> QED  BY <2>1, <2>2, BecomeSound
<1>5. CASE DeleteWindow
  <2> DEFINE heir == IF cur = 1 THEN 2 ELSE cur - 1
             e1 == win[heir].rows + win[cur].rows + 1
             u1 == [win EXCEPT ![heir].rows = e1]
             e2 == IF cur = 1 THEN win[cur].top ELSE win[heir].top
             u2 == [u1 EXCEPT ![heir].top = e2]
             grown == [win EXCEPT ![heir].rows = @ + win[cur].rows + 1,
                                  ![heir].top = IF cur = 1 THEN win[cur].top ELSE @]
             g == [buf |-> buf, win |-> grown]
             r == Restored(g, cur)
             t == [Disassociate(r, cur) EXCEPT !.win = RemoveAt(@, cur)]
             at == IF cur = 1 THEN 1 ELSE heir
  <2>1. Len(win) > 1 /\ heir \in 1..Len(win) /\ at \in 1..(Len(win) - 1) /\ Become(t, at, win[heir].buf)
    BY <1>1, <1>5 DEF DeleteWindow
  <2>h. heir # cur /\ (IF at < cur THEN at ELSE at + 1) = heir  BY <1>1
  <2>2. grown = u2
    <3>1. u1[heir].top = win[heir].top  BY <1>1, <2>1
    <3> QED  BY <3>1
  <2> HIDE DEF heir, e1, e2, grown, at
  <2>3. Alike(u1, win)  BY <1>1, <2>1, FieldsAlike
  <2> HIDE DEF u1
  <2>4. Alike(u2, u1)
    <3>1. Frames(u1) /\ heir \in 1..Len(u1)  BY <2>1, <2>3 DEF Alike
    <3> QED  BY <3>1, FieldsAlike
  <2>5. Alike(grown, win)  BY <2>2, <2>3, <2>4, AlikeAlike
  <2>6. Sound(g) /\ Len(g.win) = Len(win) /\ g.win[heir].buf = win[heir].buf
    <3>1. Sound([buf |-> Now.buf, win |-> grown])  BY <1>1, <2>5, AlikeSound
    <3>2. Len(grown) = Len(win) /\ grown[heir].buf = win[heir].buf  BY <2>1, <2>5 DEF Alike
    <3> QED  BY <1>1, <3>1, <3>2
  <2> HIDE DEF g
  <2>7. Sound(r) /\ Len(r.win) = Len(win) /\ r.win[heir].buf = win[heir].buf
    BY <1>1, <2>1, <2>6, <2>h, RestoredSound
  <2> HIDE DEF r
  <2>8. /\ Sound(t) /\ Len(t.win) = Len(win) - 1
        /\ \A i \in 1..(Len(win) - 1) : t.win[i] = IF i < cur THEN r.win[i] ELSE r.win[i + 1]
    BY <1>1, <2>7, CloseSound
  <2> HIDE DEF t
  <2>9. at \in 1..Len(t.win)  BY <2>1, <2>8
  <2>10. t.win[at].buf = win[heir].buf
    <3>1. t.win[at] = r.win[heir]  BY <2>1, <2>8, <2>h
    <3> QED  BY <2>7, <3>1
  <2> DEFINE b == win[heir].buf
  <2>11. b = t.win[at].buf /\ Become(t, at, b)  BY <2>1, <2>10
  <2>12. b \in DOMAIN t.buf  BY <2>8, <2>9, <2>10 DEF Sound, Held
  <2> HIDE DEF b
  <2> QED  BY <2>8, <2>9, <2>11, <2>12, BecomeSound
<1>6. CASE EnlargeWindow
  <2> DEFINE below == cur < Len(win) /\ win[cur + 1].rows > 1
             above == cur > 1 /\ win[cur - 1].rows > 1
             w1 == [win EXCEPT ![cur].rows = @ + 1, ![cur + 1].top = @ + 1, ![cur + 1].rows = @ - 1]
             w2 == [win EXCEPT ![cur - 1].rows = @ - 1, ![cur].top = @ - 1, ![cur].rows = @ + 1]
             w  == IF below THEN w1 ELSE w2
             t  == [buf |-> buf, win |-> w]
  <2>1. (below \/ above) /\ Become(t, cur, curbp)  BY <1>6 DEF EnlargeWindow
  <2>2. ASSUME NEW i \in 1..Len(win), NEW j \in 1..Len(win), NEW k \in 1..Len(win), NEW x, NEW y, NEW z
        PROVE  /\ Alike([win EXCEPT ![i].rows = x, ![j].top = y, ![k].rows = z], win)
    <3> DEFINE u1 == [win EXCEPT ![i].rows = x]
               u2 == [u1 EXCEPT ![j].top = y]
               u3 == [u2 EXCEPT ![k].rows = z]
    <3>1. Alike(u1, win)  BY <1>1, FieldsAlike
    <3> HIDE DEF u1
    <3>2. Frames(u1) /\ Len(u1) = Len(win)  BY <3>1 DEF Alike
    <3>3. Alike(u2, u1)  BY <3>2, FieldsAlike
    <3> HIDE DEF u2
    <3>4. Frames(u2) /\ Len(u2) = Len(win)  BY <3>2, <3>3 DEF Alike
    <3>5. Alike(u3, u2)  BY <3>4, FieldsAlike
    <3> HIDE DEF u3
    <3>6. Alike(u3, win)  BY <3>1, <3>3, <3>5, AlikeAlike
    <3> QED  BY <3>6 DEF u1, u2, u3
  <2>3. below => Alike(w1, win)
    <3> SUFFICES ASSUME below PROVE Alike(w1, win)  OBVIOUS
    <3> DEFINE x == win[cur].rows + 1  y == win[cur + 1].top + 1  z == win[cur + 1].rows - 1
    <3>1. cur + 1 \in 1..Len(win) /\ cur # cur + 1  BY <1>1
    <3>2. w1 = [win EXCEPT ![cur].rows = x, ![cur + 1].top = y, ![cur + 1].rows = z]  BY <1>1, <3>1
    <3> HIDE DEF x, y, z, w1
    <3> QED  BY <1>1, <2>2, <3>1, <3>2
  <2>4. above => Alike(w2, win)
    <3> SUFFICES ASSUME above PROVE Alike(w2, win)  OBVIOUS
    <3> DEFINE x == win[cur - 1].rows - 1  y == win[cur].top - 1  z == win[cur].rows + 1
    <3>1. cur - 1 \in 1..Len(win) /\ cur # cur - 1  BY <1>1
    <3>2. w2 = [win EXCEPT ![cur - 1].rows = x, ![cur].top = y, ![cur].rows = z]  BY <1>1, <3>1
    <3> HIDE DEF x, y, z, w2
    <3> QED  BY <1>1, <2>2, <3>1, <3>2
  <2> HIDE DEF w1, w2
  <2>5. Alike(w, win)  BY <2>1, <2>3, <2>4
  <2> HIDE DEF w
  <2>6. Sound(t) /\ Len(t.win) = Len(win) /\ t.buf = buf /\ t.win[cur].buf = win[cur].buf
    <3>1. Sound([buf |-> Now.buf, win |-> w])  BY <1>1, <2>5, AlikeSound
    <3>2. Len(w) = Len(win) /\ w[cur].buf = win[cur].buf  BY <1>1, <2>5 DEF Alike
    <3> QED  BY <1>1, <3>1, <3>2
  <2> HIDE DEF t
  <2>7. cur \in 1..Len(t.win) /\ curbp \in DOMAIN t.buf  BY <1>1, <2>6
  <2> QED  BY <2>1, <2>6, <2>7, BecomeSound
<1> QED  BY <1>2, <1>3, <1>4, <1>5, <1>6

(* Other buffers in the selected window.                                    *)
LEMMA BufferSteps ==
  ASSUME Fit, SelectBuffer \/ NextBuffer \/ PreviousBuffer
  PROVE  IInv' /\ LinkedStep
<1>1. /\ Sound(Now) /\ Now.buf = buf /\ Now.win = win /\ DOMAIN buf \subseteq Names
      /\ cur \in 1..Len(win) /\ curbp \in DOMAIN buf
  BY InvParts DEF Buffers
<1>2. ASSUME NEW s, Sound(s), s.win = win, NEW b \in DOMAIN s.buf, Become(Show(s, b, cur), cur, b)
      PROVE  IInv' /\ LinkedStep
  <2> DEFINE t == Show(s, b, cur)
  <2>1. ShownIn(t, s, b, cur)  BY <1>1, <1>2, ShowSound
  <2>2. Become(t, cur, b)  BY <1>2
  <2> HIDE DEF t
  <2>3. Sound(t) /\ cur \in 1..Len(t.win) /\ DOMAIN t.buf = DOMAIN s.buf /\ t.win[cur].buf = b
    BY <1>1, <1>2, <2>1, ShownThere DEF ShownIn
  <2>4. b \in DOMAIN t.buf  BY <2>3
  <2> QED  BY <2>2, <2>3, <2>4, BecomeSound
<1>3. CASE SelectBuffer
  <2>1. PICK b \in Names : Become(Show(FindBuffer(Now, b), b, cur), cur, b)
    BY <1>3 DEF SelectBuffer
  <2> DEFINE s == FindBuffer(Now, b)
  <2>2. Sound(s) /\ s.win = win /\ b \in DOMAIN s.buf  BY <1>1, FindSound
  <2>3. Become(Show(s, b, cur), cur, b)  BY <2>1
  <2> HIDE DEF s
  <2> QED  BY <1>2, <2>2, <2>3
<1>4. CASE NextBuffer
  <2>1. Following(Now) \in DOMAIN buf  BY <1>1, NextAndPrevious DEF Following
  <2>2. Become(Show(Now, Following(Now), cur), cur, Following(Now))  BY <1>4 DEF NextBuffer, GivenWay
  <2> QED  BY <1>1, <1>2, <2>1, <2>2
<1>5. CASE PreviousBuffer
  <2>1. PreviousOf(DOMAIN buf, curbp) \in DOMAIN buf  BY <1>1, NextAndPrevious
  <2> QED  BY <1>1, <1>2, <1>5, <2>1 DEF PreviousBuffer
<1> QED  BY <1>3, <1>4, <1>5

(* A buffer deleted, whatever the windows lead to.                          *)
LEMMA WithoutWhole ==
  ASSUME NEW s, Whole(s), NEW b
  PROVE  Whole(Without(s, b)) /\ Without(s, b).win = s.win /\ DOMAIN Without(s, b).buf = DOMAIN s.buf \ {b}
<1> DEFINE D == DOMAIN s.buf \ {b}
           cs == [n \in D |-> s.buf[n]]
           w == s.win
<1>1. s = [buf |-> s.buf, win |-> w] /\ Buffers(s.buf) /\ Frames(w) /\ Counted(s.buf, w)
  BY DEF Whole
<1>2. Without(s, b) = [buf |-> cs, win |-> w]
  <2>1. Without(s, b) = [s EXCEPT !.buf = cs]  BY DEF Without
  <2> HIDE DEF cs, w
  <2>2. [s EXCEPT !.buf = cs] = [buf |-> cs, win |-> w]  BY <1>1
  <2> QED  BY <2>1, <2>2
<1>3. DOMAIN cs = D /\ \A n \in D : n \in DOMAIN s.buf /\ cs[n] = s.buf[n]  OBVIOUS
<1>4. cs = [n \in DOMAIN cs |-> cs[n]]  OBVIOUS
<1> HIDE DEF cs
<1>5. Buffers(cs)  BY <1>1, <1>3, <1>4 DEF Buffers
<1>6. Counted(cs, w)  BY <1>1, <1>3 DEF Counted
<1> QED  BY <1>1, <1>2, <1>3, <1>5, <1>6 DEF Whole

(* t is what next_buffer made of the windows, with g no longer in the       *)
(* selected one, or it is the windows as they were, and g is not curbp.     *)
Parted(t, g) ==
  /\ Sound(t) /\ Len(t.win) = Len(win) /\ g \in DOMAIN t.buf
  /\ t.win[cur].hijack = win[cur].hijack
  /\ \A j \in 1..Len(win) : j # cur => t.win[j] = win[j]
  /\ t.win[cur].buf # g \/ (t.win[cur] = win[cur] /\ curbp # g)

(* Buffer g deleted: the windows that still lead to it led to it before.    *)
LEMMA DeleteLinks ==
  ASSUME Fit, NEW t, NEW g, Parted(t, g), NEW b \in DOMAIN t.buf \ {g},
         Become(Without(t, g), cur, b),
         curbp = win[cur].buf => b = t.win[cur].buf
  PROVE  IInv' /\ LinkedStep
<1> DEFINE u == Without(t, g)
<1>1. /\ Frames(win) /\ Held(buf, win) /\ DOMAIN win = 1..Len(win) /\ cur \in 1..Len(win) /\ Buffers(buf)
      /\ Whole(t) /\ Frames(t.win) /\ Held(t.buf, t.win) /\ Sound(t)
      /\ Len(t.win) = Len(win) /\ g \in DOMAIN t.buf
  BY InvParts DEF Parted, Sound, Whole
<1>2. Whole(u) /\ u.win = t.win /\ DOMAIN u.buf = DOMAIN t.buf \ {g}  BY <1>1, WithoutWhole
<1>3. Become(u, cur, b)  OBVIOUS
<1> HIDE DEF u
<1>4. buf' = u.buf /\ win' = t.win /\ cur' = cur /\ curbp' = b /\ Now' = u
  BY <1>2, <1>3 DEF Become, Now, Whole
<1>5. IInv' /\ curbp' \in DOMAIN buf'  BY <1>1, <1>2, <1>4 DEF IInv
<1>6. CurrentStep  BY <1>4 DEF CurrentStep
<1>7. LinkStep
  <2> SUFFICES ASSUME Dangles(buf', win')
               PROVE  \E x \in DOMAIN buf \ DOMAIN buf' :
                        \E i \in DOMAIN win : win[i].hijack = x \/ (win[i].buf = x /\ (i # cur \/ curbp # x))
    BY DEF LinkStep
  <2>1. PICK i \in 1..Len(win) :
          ~(t.win[i].buf \in DOMAIN u.buf /\ t.win[i].hijack \in DOMAIN u.buf \cup {None})
    <3>1. ~Held(u.buf, t.win)  BY <1>1, <1>4, HeldIs
    <3> QED  BY <1>1, <3>1 DEF Held
  <2>2. t.win[i].buf \in DOMAIN t.buf /\ t.win[i].hijack \in DOMAIN t.buf \cup {None}  BY <1>1 DEF Held
  <2>3. t.win[i].buf = g \/ (t.win[i].hijack = g /\ g # None)  BY <1>2, <2>1, <2>2
  <2>4. win[i].hijack = g \/ (win[i].buf = g /\ (i # cur \/ curbp # g))
    <3>1. CASE i # cur
      <4>1. t.win[i] = win[i]  BY <3>1 DEF Parted
      <4> QED  BY <2>3, <3>1, <4>1
    <3>2. CASE i = cur
      <4>1. /\ t.win[cur].hijack = win[cur].hijack
            /\ t.win[cur].buf # g \/ (t.win[cur] = win[cur] /\ curbp # g)
        BY DEF Parted
      <4> QED  BY <2>3, <3>2, <4>1
    <3> QED  BY <3>1, <3>2
  <2>5. g \in DOMAIN buf
    <3>1. win[i].buf \in DOMAIN buf /\ win[i].hijack \in DOMAIN buf \cup {None}  BY <1>1 DEF Held
    <3>2. CASE win[i].buf = g  BY <3>1, <3>2
    <3>3. CASE win[i].hijack = g /\ g # None  BY <3>1, <3>3
    <3>4. g # None
      <4>1. g \in DOMAIN t.buf  BY <1>1
      <4>2. DOMAIN t.buf \subseteq Names  BY <1>1 DEF Whole, Buffers
      <4> QED  BY <4>1, <4>2, WindowSizes DEF None
    <3> QED  BY <2>4, <3>2, <3>3, <3>4
  <2>6. g \notin DOMAIN buf'  BY <1>2, <1>4
  <2> QED  BY <1>1, <2>4, <2>5, <2>6
<1> QED  BY <1>5, <1>6, <1>7 DEF LinkedStep

(* curbp gives way to the next one, when there is one, and is deleted.      *)
LEMMA DeleteCurrent ==
  ASSUME Fit, NEW s, Sound(s), s.win = win, curbp \in DOMAIN s.buf, Following(s) # curbp,
         Become(Without(GivenWay(s), curbp), cur, Following(s))
  PROVE  IInv' /\ LinkedStep
<1> DEFINE n == Following(s)
           t == GivenWay(s)
<1>1. cur \in 1..Len(win) /\ DOMAIN s.buf \subseteq Names  BY InvParts DEF Sound, Buffers
<1>2. n \in DOMAIN s.buf  BY <1>1, NextAndPrevious DEF Following
<1>3. t = Show(s, n, cur) /\ n # curbp /\ Become(Without(t, curbp), cur, n)  BY DEF GivenWay
<1> HIDE DEF n, t
<1>4. ShownIn(t, s, n, cur)  BY <1>1, <1>2, <1>3, ShowSound
<1>5. t.win[cur].buf = n /\ t.win[cur].hijack = win[cur].hijack
  <2>1. t.win[cur] = [buf |-> n, hijack |-> s.win[cur].hijack, top |-> s.win[cur].top, rows |-> s.win[cur].rows]
    BY <1>4 DEF ShownIn
  <2> QED  BY <2>1
<1>6. Parted(t, curbp)  BY <1>3, <1>4, <1>5 DEF ShownIn, Parted
<1>7. n \in DOMAIN t.buf \ {curbp}  BY <1>2, <1>3, <1>4 DEF ShownIn
<1> QED  BY <1>3, <1>5, <1>6, <1>7, DeleteLinks

(* Buffers deleted, whether or not a window leads to them.                  *)
LEMMA DeleteSteps ==
  ASSUME Fit, KillBuffer \/ DeleteBufferByName
  PROVE  IInv' /\ LinkedStep
<1>1. /\ Sound(Now) /\ Now.buf = buf /\ Now.win = win /\ DOMAIN buf \subseteq Names
      /\ DOMAIN win = 1..Len(win) /\ cur \in 1..Len(win) /\ curbp \in DOMAIN buf
  BY InvParts DEF Buffers
<1>2. CASE KillBuffer
  <2> DEFINE s == IF DOMAIN buf = {curbp} THEN FindBuffer(Now, Scratch) ELSE Now
             t == GivenWay(s)
  <2>1. DOMAIN buf # {Scratch} /\ Become(Without(t, curbp), cur, Following(s))
    BY <1>2 DEF KillBuffer
  <2>2. Sound(s) /\ s.win = win /\ curbp \in DOMAIN s.buf /\ DOMAIN s.buf # {curbp}
    <3>1. CASE DOMAIN buf = {curbp}
      <4>1. Sound(FindBuffer(Now, Scratch)) /\ FindBuffer(Now, Scratch).win = win
            /\ DOMAIN FindBuffer(Now, Scratch).buf = DOMAIN buf \cup {Scratch}
        BY <1>1, WindowSizes, FindSound
      <4>2. curbp # Scratch /\ s = FindBuffer(Now, Scratch)  BY <2>1, <3>1
      <4> HIDE DEF s
      <4>3. DOMAIN s.buf = {curbp, Scratch}  BY <3>1, <4>1, <4>2
      <4>4. Sound(s) /\ s.win = win  BY <4>1, <4>2
      <4>5. Scratch \in DOMAIN s.buf /\ curbp \in DOMAIN s.buf /\ Scratch \notin {curbp}  BY <4>2, <4>3
      <4> QED  BY <4>4, <4>5
    <3>2. CASE DOMAIN buf # {curbp}  BY <1>1, <3>2
    <3> QED  BY <3>1, <3>2
  <2> HIDE DEF s
  <2>3. Following(s) # curbp
    <3>1. DOMAIN s.buf \subseteq Names  BY <2>2 DEF Sound, Buffers
    <3> QED  BY <2>2, <3>1, NextAndPrevious DEF Following
  <2> QED  BY <1>1, <2>1, <2>2, <2>3, DeleteCurrent
<1>3. CASE DeleteBufferByName
  <2>1. PICK name \in DOMAIN buf :
          LET gone == IF DOMAIN buf = {name} THEN Scratch ELSE name
              s    == FindBuffer(Now, gone)
          IN  /\ aborted' = (gone = curbp /\ Following(s) = gone)
              /\ IF aborted' THEN UNCHANGED <<buf, win, cur, curbp>>
                 ELSE IF gone = curbp THEN Become(Without(GivenWay(s), gone), cur, Following(s))
                 ELSE Become(Without(s, gone), cur, curbp)
    BY <1>3 DEF DeleteBufferByName
  <2> DEFINE gone == IF DOMAIN buf = {name} THEN Scratch ELSE name
             s    == FindBuffer(Now, gone)
  <2>2. \/ UNCHANGED <<buf, win, cur, curbp>>
        \/ gone = curbp /\ Following(s) # curbp /\ Become(Without(GivenWay(s), curbp), cur, Following(s))
        \/ gone # curbp /\ Become(Without(s, gone), cur, curbp)
    BY <2>1
  <2>3. gone \in Names  BY <1>1, WindowSizes
  <2>4. Sound(s) /\ s.win = win /\ DOMAIN s.buf = DOMAIN buf \cup {gone}  BY <1>1, <2>3, FindSound
  <2> HIDE DEF gone, s
  <2>5. CASE UNCHANGED <<buf, win, cur, curbp>>  BY <2>5, SameSound
  <2>6. CASE gone = curbp /\ Following(s) # curbp /\ Become(Without(GivenWay(s), curbp), cur, Following(s))
    <3>1. curbp \in DOMAIN s.buf  BY <1>1, <2>4
    <3> QED  BY <2>4, <2>6, <3>1, DeleteCurrent
  <2>7. CASE gone # curbp /\ Become(Without(s, gone), cur, curbp)
    <3>1. Parted(s, gone)  BY <2>4, <2>7 DEF Parted
    <3>2. curbp \in DOMAIN s.buf \ {gone}  BY <1>1, <2>4, <2>7
    <3>3. curbp = win[cur].buf => curbp = s.win[cur].buf  BY <2>4
    <3> QED  BY <2>7, <3>1, <3>2, <3>3, DeleteLinks
  <2> QED  BY <2>2, <2>5, <2>6, <2>7
<1> QED  BY <1>2, <1>3

(* A buffer popped up: some window shows it then, and the selected window   *)
(* shows what it did, or what is in curbp.                                  *)
LEMMA PopupSound ==
  ASSUME Fit, NEW s, Sound(s), s.win = win, DOMAIN buf \subseteq DOMAIN s.buf, NEW b \in DOMAIN s.buf
  PROVE  LET p == PopupWindow(s, b)
         IN  /\ Sound(p.state) /\ p.at \in 1..Len(p.state.win) /\ p.current \in DOMAIN p.state.buf
             /\ curbp = win[cur].buf => p.current = p.state.win[p.at].buf
             /\ \E i \in 1..Len(p.state.win) : p.state.win[i].buf = b
             /\ p.state.win[p.at].buf = b => p.at = cur /\ p.state.win = win
<1>1. /\ Len(win) \in Nat /\ DOMAIN win = 1..Len(win) /\ cur \in 1..Len(win) /\ curbp \in DOMAIN s.buf
      /\ \A i \in 1..Len(win) : win[i].buf \in DOMAIN buf
  BY InvParts DEF Held
<1>2. CASE \E i \in DOMAIN s.win : s.win[i].buf = b
  <2>1. PopupWindow(s, b) = [state |-> s, at |-> cur, current |-> curbp]  BY <1>2 DEF PopupWindow
  <2> QED  BY <1>1, <1>2, <2>1
<1>3. CASE ~(\E i \in DOMAIN s.win : s.win[i].buf = b) /\ Len(s.win) > 1
  <2> DEFINE v == Victim(cur)
             t == Hijacked(s, b, v)
  <2>1. PopupWindow(s, b) = [state |-> t, at |-> cur, current |-> curbp]  BY <1>3 DEF PopupWindow
  <2>2. v \in 1..Len(s.win) /\ v # cur  BY <1>1, <1>3 DEF Victim
  <2>3. /\ Sound(t) /\ Len(t.win) = Len(s.win) /\ t.win[v].buf = b /\ DOMAIN t.buf = DOMAIN s.buf
        /\ \A j \in 1..Len(s.win) : j # v => t.win[j].buf = s.win[j].buf
    BY <2>2, HijackedSound
  <2> HIDE DEF t
  <2>4. t.win[cur].buf = win[cur].buf /\ t.win[cur].buf # b  BY <1>1, <1>3, <2>2, <2>3
  <2> QED  BY <1>1, <2>1, <2>2, <2>3, <2>4
<1>4. CASE ~(\E i \in DOMAIN s.win : s.win[i].buf = b) /\ ~(Len(s.win) > 1)
  <2> DEFINE r == SplitWindow(s, 1)
             t == Show(r, b, 1)
             o == t.win[2].buf
  <2>1. PopupWindow(s, b) = [state |-> t, at |-> 2, current |-> o]  BY <1>4 DEF PopupWindow
  <2>2. 1 \in 1..Len(s.win) /\ Len(s.win) + 1 = 2  BY <1>1, <1>4
  <2>3. Sound(r) /\ Len(r.win) = 2 /\ DOMAIN r.buf = DOMAIN s.buf /\ r.win[1 + 1].buf = s.win[1].buf
    BY <2>2, SplitSound
  <2>n. r.win[2].buf = s.win[1].buf  BY <2>3
  <2> HIDE DEF r
  <2>a. 1 \in 1..Len(r.win) /\ b \in DOMAIN r.buf  BY <2>3
  <2>4. ShownIn(t, r, b, 1)  BY <2>3, <2>a, ShowSound
  <2>5. Sound(t) /\ Len(t.win) = 2 /\ t.win[1].buf = b /\ t.win[2] = r.win[2]
    <3>1. 2 \in 1..Len(r.win) /\ 2 # 1  BY <2>3
    <3> QED  BY <2>3, <2>4, <3>1 DEF ShownIn
  <2>6. o \in DOMAIN t.buf
    <3>1. 2 \in 1..Len(t.win)  BY <2>5
    <3> QED  BY <2>5, <3>1 DEF Sound, Held
  <2>7. o # b  BY <1>1, <1>4, <2>2, <2>5, <2>n
  <2>8. 1 \in 1..Len(t.win) /\ 2 \in 1..Len(t.win)  BY <2>5
  <2> DEFINE p == PopupWindow(s, b)
  <2>9. p.state = t /\ p.at = 2 /\ p.current = o  BY <2>1
  <2> HIDE DEF p, t
  <2> QED  BY <2>5, <2>6, <2>7, <2>8, <2>9 DEF p
<1> QED  BY <1>2, <1>3, <1>4

(* What a popup leaves, with the windows as they then are.                  *)
LEMMA PoppedUp ==
  ASSUME Fit, NEW b \in Names
  PROVE  LET p == PopupWindow(FindBuffer(Now, b), b)
             at == Min({i \in DOMAIN p.state.win : p.state.win[i].buf = b})
         IN  /\ Sound(p.state) /\ p.at \in 1..Len(p.state.win) /\ p.current \in DOMAIN p.state.buf
             /\ curbp = win[cur].buf => p.current = p.state.win[p.at].buf
             /\ at \in 1..Len(p.state.win) /\ p.state.win[at].buf = b
             /\ p.state.win[p.at].buf = b => p.at = cur /\ p.state.win = win
<1> DEFINE s == FindBuffer(Now, b)
           p == PopupWindow(s, b)
           S == {i \in DOMAIN p.state.win : p.state.win[i].buf = b}
<1>1. Sound(Now) /\ Now.win = win /\ Now.buf = buf /\ cur \in 1..Len(win)  BY InvParts
<1>2. Sound(s) /\ s.win = win /\ b \in DOMAIN s.buf /\ DOMAIN buf \subseteq DOMAIN s.buf  BY <1>1, FindSound
<1> HIDE DEF s
<1>3. /\ Sound(p.state) /\ p.at \in 1..Len(p.state.win) /\ p.current \in DOMAIN p.state.buf
      /\ curbp = win[cur].buf => p.current = p.state.win[p.at].buf
      /\ \E i \in 1..Len(p.state.win) : p.state.win[i].buf = b
      /\ p.state.win[p.at].buf = b => p.at = cur /\ p.state.win = win
  BY <1>2, PopupSound
<1> HIDE DEF p
<1>4. DOMAIN p.state.win = 1..Len(p.state.win)  BY <1>3, SeqOfItsElements DEF Sound, Frames
<1>5. S \subseteq Nat /\ S # {} /\ \A i \in S : i \in 1..Len(p.state.win) /\ p.state.win[i].buf = b  BY <1>3, <1>4
<1> HIDE DEF S
<1>6. \E n \in S : \A m \in S : n <= m  BY <1>5, Least
<1>7. Min(S) \in S  BY <1>6 DEF Min
<1>8. Min(S) \in 1..Len(p.state.win) /\ p.state.win[Min(S)].buf = b  BY <1>5, <1>7
<1> QED  BY <1>3, <1>8 DEF S, p, s

(* Popups, and the window that M-x takes over and gives back.               *)
LEMMA PopupSteps ==
  ASSUME Fit, PopUp \/ ExecuteCommand
  PROVE  IInv' /\ LinkedStep
<1>1. CASE UNCHANGED <<buf, win, cur, curbp>>  BY <1>1, SameSound
<1>2. CASE PopUp
  <2> DEFINE p == PopupWindow(FindBuffer(Now, Help), Help)
             s == p.state
             c == p.at
             b == p.current
  <2>1. Sound(s) /\ c \in 1..Len(s.win) /\ b \in DOMAIN s.buf /\ (curbp = win[cur].buf => b = s.win[c].buf)
    BY WindowSizes, PoppedUp
  <2>2. UNCHANGED <<buf, win, cur, curbp>> \/ Become(s, c, b)  BY <1>2 DEF PopUp
  <2> HIDE DEF s, c, b, p
  <2>3. CASE Become(s, c, b)  BY <2>1, <2>3, BecomeSound
  <2> QED  BY <1>1, <2>2, <2>3
<1>3. CASE ExecuteCommand
  <2> DEFINE p == PopupWindow(FindBuffer(Now, Completions), Completions)
             s == p.state
             c == p.at
             b == p.current
             at == Min({i \in DOMAIN s.win : s.win[i].buf = Completions})
  <2>1. /\ Sound(s) /\ c \in 1..Len(s.win) /\ b \in DOMAIN s.buf /\ (curbp = win[cur].buf => b = s.win[c].buf)
        /\ at \in 1..Len(s.win) /\ s.win[at].buf = Completions
        /\ s.win[c].buf = Completions => c = cur /\ s.win = win
    BY WindowSizes, PoppedUp
  <2>2. \/ UNCHANGED <<buf, win, cur, curbp>>
        \/ s.win[at].hijack # None /\ Become(Restored(s, at), c, b)
        \/ Become(OnlyWindow(s, c), 1, b)
        \/ Become(s, c, b)
    BY <1>3 DEF ExecuteCommand
  <2> HIDE DEF s, at, c, b, p
  <2>3. CASE s.win[at].hijack # None /\ Become(Restored(s, at), c, b)
    <3> DEFINE t == Restored(s, at)
    <3>1. /\ Sound(t) /\ Len(t.win) = Len(s.win) /\ DOMAIN t.buf = DOMAIN s.buf
          /\ \A j \in 1..Len(s.win) : j # at => t.win[j].buf = s.win[j].buf
          /\ t.win[at].buf = s.win[at].hijack
      BY <2>1, <2>3, RestoredSound
    <3>2. Become(t, c, b)  BY <2>3
    <3> HIDE DEF t
    <3>3. c \in 1..Len(t.win) /\ b \in DOMAIN t.buf  BY <2>1, <3>1
    <3>4. CASE c = at
      <4>1. c = cur /\ win[cur].buf = Completions /\ win[cur].hijack = t.win[cur].buf  BY <2>1, <3>1, <3>4
      <4> QED  BY <3>1, <3>2, <3>3, <4>1, BecomeSound
    <3>5. CASE c # at
      <4>1. curbp = win[cur].buf => b = t.win[c].buf  BY <2>1, <3>1, <3>5
      <4> QED  BY <3>1, <3>2, <3>3, <4>1, BecomeSound
    <3> QED  BY <3>4, <3>5
  <2>4. CASE Become(OnlyWindow(s, c), 1, b)
    <3> DEFINE t == OnlyWindow(s, c)
    <3>1. Sound(t) /\ Len(t.win) = 1 /\ DOMAIN t.buf = DOMAIN s.buf /\ t.win[1].buf = s.win[c].buf
      BY <2>1, OnlySound
    <3>2. Become(t, 1, b)  BY <2>4
    <3> HIDE DEF t
    <3>3. 1 \in 1..Len(t.win) /\ b \in DOMAIN t.buf  BY <2>1, <3>1
    <3>4. curbp = win[cur].buf => b = t.win[1].buf  BY <2>1, <3>1
    <3> QED  BY <3>1, <3>2, <3>3, <3>4, BecomeSound
  <2>5. CASE Become(s, c, b)  BY <2>1, <2>5, BecomeSound
  <2> QED  BY <1>1, <2>2, <2>3, <2>4, <2>5
<1> QED  BY <1>2, <1>3

(* The windows that stay when there is room for n of them, c among them, and*)
(* where the i-th one was.                                                  *)
Survivors(n, c) == IF c <= n THEN 1..n ELSE 1..(n - 1) \cup {c}
Was(n, c, i) == IF i \in Survivors(n, c) THEN i ELSE c

(* Each one that stays has one place.                                       *)
OnePlace(n, c) ==
  /\ \A i \in 1..n : Was(n, c, i) \in Survivors(n, c)
  /\ \A i, j \in 1..n : Was(n, c, i) = Was(n, c, j) => i = j
  /\ \A k \in Survivors(n, c) : \E i \in 1..n : Was(n, c, i) = k

(* ... whether or not c is among the first n.                               *)
LEMMA Places ==
  ASSUME NEW n \in Nat \ {0}, NEW c \in Nat \ {0}
  PROVE  OnePlace(n, c)
<1> SUFFICES /\ \A i \in 1..n : Was(n, c, i) \in Survivors(n, c)
             /\ \A i, j \in 1..n : Was(n, c, i) = Was(n, c, j) => i = j
             /\ \A k \in Survivors(n, c) : \E i \in 1..n : Was(n, c, i) = k
  BY DEF OnePlace
<1>1. CASE c <= n
  <2>1. Survivors(n, c) = 1..n  BY <1>1 DEF Survivors
  <2>2. \A i \in 1..n : Was(n, c, i) = i  BY <2>1 DEF Was
  <2> QED  BY <2>1, <2>2
<1>2. CASE ~(c <= n)
  <2>1. \A k : k \in Survivors(n, c) <=> k \in 1..(n - 1) \/ k = c  BY <1>2 DEF Survivors
  <2>2. \A i \in 1..n : i \in 1..(n - 1) \/ i = n  OBVIOUS
  <2>3. n \notin 1..(n - 1) /\ n # c /\ c \notin 1..n /\ \A i \in 1..(n - 1) : i \in 1..n  BY <1>2
  <2>4. \A i \in 1..(n - 1) : Was(n, c, i) = i  BY <2>1 DEF Was
  <2>5. Was(n, c, n) = c  BY <2>1, <2>3 DEF Was
  <2>6. n \in 1..n  OBVIOUS
  <2> QED  BY <2>1, <2>2, <2>3, <2>4, <2>5, <2>6
<1> QED  BY <1>1, <1>2

(* The windows that go, of those that showed a buffer.                      *)
Dropped(w, n, c, b) == {i \in DOMAIN w \ Survivors(n, c) : w[i].buf = b}

(* What the windows that stay show, and what those that go showed.          *)
LEMMA ShownDropped ==
  ASSUME NEW w, IsSeq(w), NEW n \in 1..Len(w), NEW c \in 1..Len(w), NEW b,
         NEW u, IsSeq(u), Len(u) = n, \A i \in 1..n : u[i].buf = w[Was(n, c, i)].buf
  PROVE  Shown(w, b) = Shown(u, b) + Cardinality(Dropped(w, n, c, b))
<1> DEFINE S == Survivors(n, c)
           K == {i \in S : w[i].buf = b}
           G == {i \in DOMAIN w \ S : w[i].buf = b}
           A == At(u, b)
           f == [i \in A |-> Was(n, c, i)]
<1>1. Len(w) \in Nat /\ DOMAIN w = 1..Len(w) /\ DOMAIN u = 1..n  BY SeqOfItsElements DEF IsSeq
<1>2. S \subseteq 1..Len(w)
  <2>1. \A k \in S : k \in 1..n \/ k \in 1..(n - 1) \/ k = c  BY DEF Survivors
  <2>2. \A k \in 1..n : k \in 1..Len(w)  BY <1>1
  <2>3. \A k \in 1..(n - 1) : k \in 1..Len(w)  BY <1>1
  <2> HIDE DEF S
  <2> QED  BY <2>1, <2>2, <2>3
<1>3. n \in Nat \ {0} /\ c \in Nat \ {0}  BY <1>1
<1>4. /\ \A i \in 1..n : Was(n, c, i) \in S
      /\ \A i, j \in 1..n : Was(n, c, i) = Was(n, c, j) => i = j
      /\ \A k \in S : \E i \in 1..n : Was(n, c, i) = k
  <2>1. OnePlace(n, c)  BY <1>3, Places
  <2> QED  BY <2>1 DEF OnePlace
<1> HIDE DEF S
<1>5. \A i : i \in A <=> i \in 1..n /\ u[i].buf = b  BY <1>1 DEF At
<1>6. \A k : k \in K <=> k \in S /\ w[k].buf = b  OBVIOUS
<1>7. IsFiniteSet(A) /\ Shown(u, b) = Cardinality(A) /\ Shown(u, b) \in Nat  BY ShownIsNat DEF Shown
<1> HIDE DEF A, K
<1>8. f \in Bijection(A, K)
  <2>1. f \in [A -> K]  BY <1>4, <1>5, <1>6
  <2>2. \A i, j \in A : f[i] = f[j] => i = j  BY <1>4, <1>5
  <2>3. ASSUME NEW k \in K PROVE \E i \in A : f[i] = k
    <3>1. PICK i \in 1..n : Was(n, c, i) = k  BY <1>4, <1>6
    <3>2. i \in A  BY <1>5, <1>6, <3>1
    <3> QED  BY <3>1, <3>2
  <2> HIDE DEF f
  <2>4. f \in Injection(A, K)  BY <2>1, <2>2 DEF Injection, IsInjective
  <2>5. f \in Surjection(A, K)  BY <2>1, <2>3 DEF Surjection
  <2> QED  BY <2>4, <2>5 DEF Bijection
<1>9. Cardinality(K) = Shown(u, b) /\ IsFiniteSet(K)
  <2>1. ExistsBijection(A, K)  BY <1>8 DEF ExistsBijection
  <2> QED  BY <1>7, <2>1, FS_Bijection
<1>10. IsFiniteSet(At(w, b)) /\ Shown(w, b) = Cardinality(At(w, b))  BY ShownIsNat DEF Shown
<1>11. At(w, b) = K \cup G /\ K \cap G = {}  BY <1>1, <1>2, <1>6 DEF At
<1>12. IsFiniteSet(G) /\ Cardinality(G) \in Nat
  <2>1. G \in SUBSET At(w, b)  BY <1>11
  <2> HIDE DEF G
  <2> QED  BY <1>10, <2>1, FS_Subset, FS_CardinalityType
<1> HIDE DEF G
<1>13. Cardinality(K \cup G) = Cardinality(K) + Cardinality(G) - Cardinality(K \cap G)  BY <1>9, <1>12, FS_Union
<1>14. Cardinality(K \cap G) = 0  BY <1>11, FS_EmptySet
<1>15. Shown(w, b) = Shown(u, b) + Cardinality(G)
  BY <1>7, <1>9, <1>10, <1>11, <1>12, <1>13, <1>14
<1> QED  BY <1>15 DEF G, S, Dropped

(* The rows that relayout_windows gives the windows do not change what they *)
(* show.                                                                    *)
LEMMA LaidAlike ==
  ASSUME NEW w, Frames(w), NEW avail
  PROVE  Alike(Laid(w, avail), w)
<1>1. PICK used : Laid(w, avail) =
        [k \in DOMAIN w |-> [w[k] EXCEPT !.top = used[k - 1], !.rows = used[k] - used[k - 1] - 1]]
  BY DEF Laid
<1> DEFINE u == Laid(w, avail)
<1>2. IsSeq(w) /\ DOMAIN w = 1..Len(w) /\ Len(w) \in Nat  BY SeqOfItsElements DEF Frames, IsSeq
<1>3. ASSUME NEW k \in 1..Len(w)
      PROVE  Frame(u[k]) /\ u[k].buf = w[k].buf /\ u[k].hijack = w[k].hijack
  <2> DEFINE x == used[k - 1]  y == used[k] - used[k - 1] - 1
  <2>1. u[k] = [w[k] EXCEPT !.top = x, !.rows = y]  BY <1>1, <1>2
  <2>2. PICK a, b, c, d : w[k] = [buf |-> a, hijack |-> b, top |-> c, rows |-> d]  BY DEF Frames, Frame
  <2> HIDE DEF x, y, u
  <2>3. [w[k] EXCEPT !.top = x] = [buf |-> a, hijack |-> b, top |-> x, rows |-> d]  BY <2>2
  <2>4. [[buf |-> a, hijack |-> b, top |-> x, rows |-> d] EXCEPT !.rows = y] = [buf |-> a, hijack |-> b, top |-> x, rows |-> y]
    OBVIOUS
  <2>5. u[k] = [buf |-> a, hijack |-> b, top |-> x, rows |-> y]  BY <2>1, <2>3, <2>4
  <2>6. w[k].buf = a /\ w[k].hijack = b  BY <2>2
  <2>7. u[k].buf = a /\ u[k].hijack = b /\ u[k].top = x /\ u[k].rows = y  BY <2>5
  <2> QED  BY <2>5, <2>6, <2>7 DEF Frame
<1>4. u = [k \in 1..Len(w) |-> u[k]]  BY <1>1, <1>2
<1> HIDE DEF u
<1>5. IsSeq(u) /\ Len(u) = Len(w)  BY <1>2, <1>4, FunctionIsSeq
<1>6. Frames(u)  BY <1>3, <1>5 DEF Frames
<1> QED  BY <1>3, <1>5, <1>6 DEF Alike, u

(* The least and the greatest of two.                                       *)
LEMMA OfTwo ==
  ASSUME NEW a \in Int, NEW b \in Int
  PROVE  /\ Min({a, b}) = (IF a <= b THEN a ELSE b)
         /\ Max({a, b}) = (IF a >= b THEN a ELSE b)
<1>1. Min({a, b}) = CHOOSE x \in {a, b} : \A y \in {a, b} : x <= y  BY DEF Min
<1>2. Max({a, b}) = CHOOSE x \in {a, b} : \A y \in {a, b} : x >= y  BY DEF Max
<1>3. Min({a, b}) \in {a, b} /\ \A y \in {a, b} : Min({a, b}) <= y
  <2>1. \E x \in {a, b} : \A y \in {a, b} : x <= y
    <3>1. CASE a <= b  BY <3>1
    <3>2. CASE ~(a <= b)  BY <3>2
    <3> QED  BY <3>1, <3>2
  <2> QED  BY <1>1, <2>1
<1>4. Max({a, b}) \in {a, b} /\ \A y \in {a, b} : Max({a, b}) >= y
  <2>1. \E x \in {a, b} : \A y \in {a, b} : x >= y
    <3>1. CASE a >= b  BY <3>1
    <3>2. CASE ~(a >= b)  BY <3>2
    <3> QED  BY <3>1, <3>2
  <2> QED  BY <1>2, <2>1
<1> QED  BY <1>3, <1>4

(* Windows dropped by relayout_windows: what they leave ...                 *)
Remaining(w, n, c) == [i \in 1..n |-> w[Was(n, c, i)]]
(* ... and what it costs the buffers.                                       *)
WithLost(bs, w, n, c) ==
  [b \in DOMAIN bs |-> [bs[b] EXCEPT !.lost = @ + Cardinality(Dropped(w, n, c, b))]]

(* What is left is sound.                                                   *)
LEMMA DroppedSound ==
  ASSUME NEW s, Sound(s), NEW n \in 1..Len(s.win), NEW c \in 1..Len(s.win)
  PROVE  LET t == [buf |-> WithLost(s.buf, s.win, n, c), win |-> Remaining(s.win, n, c)]
         IN  /\ Sound(t) /\ Len(t.win) = n /\ DOMAIN t.buf = DOMAIN s.buf
             /\ \A i \in 1..n : t.win[i] = s.win[Was(n, c, i)]
<1> DEFINE w == s.win
           u == Remaining(w, n, c)
           cs == WithLost(s.buf, w, n, c)
           gone(b) == Dropped(w, n, c, b)
<1>1. /\ Buffers(s.buf) /\ Frames(w) /\ Held(s.buf, w) /\ Counted(s.buf, w)
      /\ Len(w) \in Nat /\ IsSeq(w) /\ DOMAIN w = 1..Len(w) /\ n \in Nat \ {0} /\ c \in Nat \ {0}
  BY SeqOfItsElements DEF Sound, Frames, IsSeq
<1>2. \A i \in 1..n : Was(n, c, i) \in 1..Len(w)
  <2>1. \A i \in 1..n : Was(n, c, i) = i \/ Was(n, c, i) = c  BY DEF Was
  <2>2. \A i \in 1..n : i \in 1..Len(w)  BY <1>1
  <2> QED  BY <2>1, <2>2
<1>3. u = [i \in 1..n |-> u[i]] /\ \A i \in 1..n : u[i] = w[Was(n, c, i)]  BY DEF Remaining
<1> HIDE DEF u
<1>4. IsSeq(u) /\ Len(u) = n  BY <1>1, <1>3, FunctionIsSeq
<1>5. Frames(u)  BY <1>1, <1>2, <1>3, <1>4 DEF Frames
<1>6. DOMAIN cs = DOMAIN s.buf /\ cs = [b \in DOMAIN cs |-> cs[b]]  BY DEF WithLost
<1>7. ASSUME NEW b \in DOMAIN s.buf
      PROVE  /\ cs[b] = [cnt |-> s.buf[b].cnt, lost |-> s.buf[b].lost + Cardinality(gone(b))]
             /\ s.buf[b].cnt \in Int /\ s.buf[b].lost \in Nat
  <2>1. s.buf[b] = [cnt |-> s.buf[b].cnt, lost |-> s.buf[b].lost] /\ s.buf[b].cnt \in Int /\ s.buf[b].lost \in Nat
    BY <1>1 DEF Buffers
  <2>2. cs[b] = [s.buf[b] EXCEPT !.lost = s.buf[b].lost + Cardinality(gone(b))]  BY DEF WithLost
  <2> HIDE DEF cs, gone, w
  <2> QED  BY <2>1, <2>2
<1>8. ASSUME NEW b PROVE Shown(w, b) = Shown(u, b) + Cardinality(gone(b)) /\ Cardinality(gone(b)) \in Nat
  <2>1. c \in 1..Len(w) /\ n \in 1..Len(w)  OBVIOUS
  <2>2. \A i \in 1..n : u[i].buf = w[Was(n, c, i)].buf  BY <1>3
  <2>3. IsFiniteSet(At(w, b))  BY <1>1, ShownIsNat
  <2>4. gone(b) \in SUBSET At(w, b)  BY DEF At, Dropped
  <2>5. Cardinality(gone(b)) \in Nat
    <3> HIDE DEF gone
    <3> QED  BY <2>3, <2>4, FS_Subset, FS_CardinalityType
  <2> HIDE DEF w
  <2>6. Shown(w, b) = Shown(u, b) + Cardinality(Dropped(w, n, c, b))
    BY <1>1, <1>4, <2>1, <2>2, ShownDropped
  <2> QED  BY <2>5, <2>6
<1> HIDE DEF cs, gone
<1>9. ASSUME NEW b \in DOMAIN s.buf
      PROVE  /\ cs[b] = [cnt |-> cs[b].cnt, lost |-> cs[b].lost] /\ cs[b].cnt \in Int /\ cs[b].lost \in Nat
             /\ cs[b].cnt = Shown(u, b) + cs[b].lost
  <2> DEFINE k == Cardinality(gone(b))
  <2>1. cs[b] = [cnt |-> s.buf[b].cnt, lost |-> s.buf[b].lost + k]  BY <1>7
  <2> HIDE DEF k
  <2>2. cs[b].cnt = s.buf[b].cnt /\ cs[b].lost = s.buf[b].lost + k  BY <2>1
  <2>3. s.buf[b].cnt \in Int /\ s.buf[b].lost \in Nat /\ k \in Nat /\ Shown(w, b) = Shown(u, b) + k
    BY <1>7, <1>8 DEF k
  <2>4. s.buf[b].cnt = Shown(w, b) + s.buf[b].lost  BY <1>1 DEF Counted
  <2>5. Shown(u, b) \in Nat  BY <1>4, ShownIsNat
  <2>6. cs[b].cnt \in Int /\ cs[b].lost \in Nat /\ cs[b].cnt = Shown(u, b) + cs[b].lost  BY <2>2, <2>3, <2>4, <2>5
  <2>7. cs[b] = [cnt |-> cs[b].cnt, lost |-> cs[b].lost]  BY <2>1, <2>2
  <2> QED  BY <2>6, <2>7
<1>10. Buffers(cs) /\ Counted(cs, u)  BY <1>1, <1>6, <1>9 DEF Buffers, Counted
<1>11. Held(cs, u)  BY <1>1, <1>2, <1>3, <1>4, <1>6 DEF Held
<1>12. Sound([buf |-> cs, win |-> u])  BY <1>5, <1>10, <1>11 DEF Sound
<1> QED  BY <1>3, <1>4, <1>6, <1>12 DEF cs, u

(* The screen made taller or shorter.                                       *)
LEMMA ResizeStep ==
  ASSUME Fit, Resize
  PROVE  IInv' /\ LinkedStep
<1>1. /\ Sound(Now) /\ Now.buf = buf /\ Now.win = win
      /\ Len(win) \in Nat /\ DOMAIN win = 1..Len(win) /\ cur \in 1..Len(win) /\ curbp \in DOMAIN buf
  BY InvParts
<1>2. PICK rows \in Heights :
        LET avail == rows - 1
            room  == Max({1, Min({Len(win), avail \div 2})})
            kept  == IF cur <= room THEN 1..room ELSE 1..(room - 1) \cup {cur}
            stay  == [i \in 1..room |-> win[IF i \in kept THEN i ELSE cur]]
            gone  == DOMAIN win \ kept
            bs    == [b \in DOMAIN buf |-> [buf[b] EXCEPT
                        !.lost = @ + Cardinality({i \in gone : win[i].buf = b})]]
        IN  Become([buf |-> bs, win |-> Laid(stay, avail)], Min({cur, room}), curbp)
  BY DEF Resize
<1> DEFINE avail == rows - 1
           room  == Max({1, Min({Len(win), avail \div 2})})
           stay  == Remaining(win, room, cur)
           bs    == WithLost(buf, win, room, cur)
           t     == [buf |-> bs, win |-> Laid(stay, avail)]
           at    == Min({cur, room})
<1>3. Become(t, at, curbp)
  BY <1>2 DEF Remaining, WithLost, Dropped, Survivors, Was
<1>4. avail \div 2 \in Int
  <2>1. rows \in Int  BY WindowSizes
  <2> QED  BY <2>1
<1>5. room \in 1..Len(win)
  <2> DEFINE half == avail \div 2
             n == Len(win)
             one == 1
             least == Min({n, half})
  <2>1. half \in Int /\ n \in Int /\ one \in Int /\ one = 1 /\ 1 <= n  BY <1>1, <1>4
  <2> HIDE DEF half, n, one
  <2>2. least = IF n <= half THEN n ELSE half  BY <2>1, OfTwo
  <2>3. least \in Int /\ least <= n  BY <2>1, <2>2
  <2> HIDE DEF least
  <2>4. Max({one, least}) = IF one >= least THEN one ELSE least  BY <2>1, <2>3, OfTwo
  <2>5. Max({one, least}) \in 1..n  BY <2>1, <2>3, <2>4
  <2> QED  BY <2>5 DEF least, half, n, one
<1> HIDE DEF room, avail
<1>6. at \in 1..room /\ Was(room, cur, at) = cur
  <2>1. at = IF cur <= room THEN cur ELSE room  BY <1>1, <1>5, OfTwo
  <2> HIDE DEF at
  <2>2. room \in Nat /\ cur \in Nat /\ 1 <= cur /\ 1 <= room  BY <1>1, <1>5
  <2>3. CASE cur <= room
    <3>1. at = cur /\ cur \in 1..room  BY <2>1, <2>2, <2>3
    <3> QED  BY <3>1 DEF Was
  <2>4. CASE ~(cur <= room)
    <3>1. at = room /\ room \in 1..room /\ room \notin 1..(room - 1) /\ room # cur  BY <2>1, <2>2, <2>4
    <3>2. room \notin Survivors(room, cur)  BY <2>4, <3>1 DEF Survivors
    <3> QED  BY <3>1, <3>2 DEF Was
  <2> QED  BY <2>3, <2>4
<1> HIDE DEF at
<1> DEFINE r == [buf |-> bs, win |-> stay]
<1>7. Sound(r) /\ Len(stay) = room /\ DOMAIN bs = DOMAIN buf /\ stay[at] = win[cur]
  <2>1. Sound(r) /\ Len(stay) = room /\ DOMAIN bs = DOMAIN buf /\ \A i \in 1..room : stay[i] = win[Was(room, cur, i)]
    BY <1>1, <1>5, DroppedSound
  <2> HIDE DEF bs, stay
  <2> QED  BY <1>6, <2>1
<1> HIDE DEF bs, stay
<1>8. Frames(stay)  BY <1>7 DEF Sound
<1>9. Alike(Laid(stay, avail), stay)  BY <1>8, LaidAlike
<1>10. Sound(t) /\ Len(t.win) = room /\ t.buf = bs /\ t.win[at].buf = win[cur].buf
  <2> DEFINE v == Laid(stay, avail)
  <2>1. r.buf = bs /\ r.win = stay  OBVIOUS
  <2> HIDE DEF v, r
  <2>2. Alike(v, r.win)  BY <1>9, <2>1 DEF v
  <2>3. Sound([buf |-> r.buf, win |-> v])  BY <1>7, <2>2, AlikeSound
  <2>4. Len(v) = room /\ v[at].buf = stay[at].buf  BY <1>6, <1>7, <2>1, <2>2 DEF Alike
  <2> QED  BY <1>7, <2>1, <2>3, <2>4 DEF v
<1> HIDE DEF t
<1>11. at \in 1..Len(t.win) /\ curbp \in DOMAIN t.buf  BY <1>1, <1>6, <1>7, <1>10
<1> QED  BY <1>3, <1>10, <1>11, BecomeSound

(* Every step keeps the invariant, and the links as it should.              *)
LEMMA StepIInv ==
  ASSUME IInv, Next
  PROVE  IInv' /\ LinkedStep
<1>0. Fit
  <2>1. Frames(win) /\ ~Dangles(buf, win)  BY DEF IInv, Whole, Now, Next
  <2>2. Held(buf, win)  BY <2>1, HeldIs
  <2> QED  BY <2>2 DEF IInv, Fit, Whole, Sound, Now
<1>1. CASE Split \/ OtherWindow \/ DeleteOtherWindows \/ DeleteWindow \/ EnlargeWindow
  BY <1>0, <1>1, WindowSteps
<1>2. CASE Resize  BY <1>0, <1>2, ResizeStep
<1>3. CASE SelectBuffer \/ NextBuffer \/ PreviousBuffer  BY <1>0, <1>3, BufferSteps
<1>4. CASE KillBuffer \/ DeleteBufferByName  BY <1>0, <1>4, DeleteSteps
<1>5. CASE PopUp \/ ExecuteCommand  BY <1>0, <1>5, PopupSteps
<1> QED  BY <1>1, <1>2, <1>3, <1>4, <1>5 DEF Next

(* The invariant holds of every reachable state.                            *)
LEMMA Inductive == Spec => []IInv
<1>1. Init => IInv  BY InitIInv
<1>2. IInv /\ [Next]_vars => IInv'
  <2> SUFFICES ASSUME IInv, [Next]_vars PROVE IInv'  OBVIOUS
  <2>1. CASE Next  BY <2>1, StepIInv
  <2>2. CASE UNCHANGED vars
    <3>1. UNCHANGED <<buf, win, cur, curbp>>  BY <2>2 DEF vars
    <3> QED  BY <3>1 DEF IInv, Now
  <2> QED  BY <2>1, <2>2
<1> QED  BY <1>1, <1>2, PTL DEF Spec

(* b_cnt counts the windows of a buffer and those that the screen dropped,  *)
(* whatever is split, deleted, resized, popped up, given back and killed.   *)
THEOREM CountsStayHonest == Spec => []CountsHonest
<1>1. IInv => CountsHonest
  <2> SUFFICES ASSUME IInv, NEW b \in DOMAIN buf
               PROVE  buf[b].cnt = Cardinality({i \in DOMAIN win : win[i].buf = b}) + buf[b].lost
    BY DEF CountsHonest
  <2>1. Counted(buf, win)  BY DEF IInv, Whole, Now
  <2> QED  BY <2>1 DEF Counted, Shown, At
<1>2. Spec => []IInv  BY Inductive
<1> QED  BY <1>1, <1>2, PTL

(* curbp is a buffer of the list; it stops being the selected window's only *)
(* where M-x gives that window back, and a window loses its buffer only to  *)
(* a kill of one that a window leads to otherwise than by selecting it.     *)
THEOREM LinksAreKept == Spec => LinksKept
<1>1. IInv /\ [Next]_vars => [CurrentStep /\ LinkStep /\ curbp' \in DOMAIN buf']_vars
  BY StepIInv DEF LinkedStep
<1>2. Spec => []IInv  BY Inductive
<1> QED  BY <1>1, <1>2, PTL DEF Spec, LinksKept
=============================================================================
