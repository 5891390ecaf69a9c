--------------------------- MODULE GapBuffer_proofs ---------------------------
(***************************************************************************)
(* Proofs about GapBuffer: for stores of any size and texts of any length  *)
(* the pointers stay in order, no byte of the gap gets into the text, what *)
(* a step reports to record_change is the change it made, and moving and   *)
(* deleting by characters keeps characters whole, as long as none of the   *)
(* steps named in ExtraSteps is taken.                                     *)
(***************************************************************************)
EXTENDS GapBuffer, SequenceTheorems, TLAPS

(* A store in order: the text on both sides of the gap.                      *)
InGap(b, i) == b.gap <= i /\ i < b.egap

(* The pointers in order, and a byte in every cell outside the gap.         *)
Sound(b) ==
  /\ b = [store |-> b.store, cap |-> b.cap, gap |-> b.gap, egap |-> b.egap]
  /\ b.cap \in Nat /\ b.gap \in Nat /\ b.egap \in Nat
  /\ b.gap <= b.egap /\ b.egap <= b.cap
  /\ b.store \in [0..(b.cap - 1) -> Cells]
  /\ \A i \in 0..(b.cap - 1) : InGap(b, i) \/ b.store[i] \in Bytes

(* The inductive invariant.                                                 *)
IInv ==
  /\ Sound(buf)
  /\ point \in 0..Size(buf)
  /\ mark \in Nat \cup {NoMark}
  /\ overwrite \in BOOLEAN

-----------------------------------------------------------------------------
(* The store                                                                 *)

(* A store is a record of four fields, and stays one.                        *)
LEMMA Fields ==
  ASSUME NEW b, Sound(b), NEW st
  PROVE  /\ [b EXCEPT !.store = st] = [store |-> st, cap |-> b.cap, gap |-> b.gap, egap |-> b.egap]
         /\ DOMAIN b.store = 0..(b.cap - 1)
<1>1. PICK c, s1, g1, e1 : b = [store |-> s1, cap |-> c, gap |-> g1, egap |-> e1]  BY DEF Sound
<1>2. b.cap = c /\ b.gap = g1 /\ b.egap = e1  BY <1>1
<1>3. DOMAIN b.store = 0..(b.cap - 1)  BY DEF Sound
<1>4. [b EXCEPT !.store = st] = [store |-> st, cap |-> c, gap |-> g1, egap |-> e1]  BY <1>1
<1> QED  BY <1>2, <1>3, <1>4

(* Scrubbing keeps a store in order.                                         *)
LEMMA ScrubSound ==
  ASSUME NEW b, Sound(b)
  PROVE  /\ Sound(Scrub(b))
         /\ Scrub(b).cap = b.cap /\ Scrub(b).gap = b.gap /\ Scrub(b).egap = b.egap
         /\ \A i \in 0..(b.cap - 1) : ~InGap(b, i) => Scrub(b).store[i] = b.store[i]
<1> DEFINE clean == [i \in 0..(b.cap - 1) |-> IF b.gap <= i /\ i < b.egap THEN Junk ELSE b.store[i]]
<1>1. Scrub(b) = [store |-> clean, cap |-> b.cap, gap |-> b.gap, egap |-> b.egap]
  BY Fields DEF Scrub
<1>2. clean \in [0..(b.cap - 1) -> Cells]
  BY DEF Sound, Cells
<1>3. \A i \in 0..(b.cap - 1) : ~InGap(b, i) => clean[i] = b.store[i]
  BY DEF InGap
<1> HIDE DEF clean
<1>4. Scrub(b).store = clean /\ Scrub(b).cap = b.cap /\ Scrub(b).gap = b.gap /\ Scrub(b).egap = b.egap
  BY <1>1
<1>5. Sound(Scrub(b))
  BY <1>1, <1>2, <1>3, <1>4 DEF Sound, InGap
<1> QED  BY <1>3, <1>4, <1>5

(* How many bytes a text has, and where each of them is.                     *)
LEMMA SizeAndIndex ==
  ASSUME NEW b, Sound(b)
  PROVE  /\ Room(b) \in Nat /\ Size(b) \in Nat
         /\ b.gap <= Size(b) /\ b.gap + (b.cap - b.egap) = Size(b)
         /\ \A p \in 0..(Size(b) - 1) : Index(b, p) \in 0..(b.cap - 1) /\ ~InGap(b, Index(b, p))
  BY SMTT(40) DEF Sound, Size, Room, Index, InGap

(* Every byte of the text is a byte.                                         *)
LEMMA TextIsBytes ==
  ASSUME NEW b, Sound(b)
  PROVE  \A k \in 1..Size(b) : TextOf(b)[k] \in Bytes
<1> TAKE k \in 1..Size(b)
<1>1. k - 1 \in 0..(Size(b) - 1)  BY SizeAndIndex
<1>2. Index(b, k - 1) \in 0..(b.cap - 1) /\ ~InGap(b, Index(b, k - 1))  BY <1>1, SizeAndIndex
<1>3. Cell(b, Index(b, k - 1)) \in Bytes  BY <1>2 DEF Sound, Cell
<1> QED  BY <1>3 DEF TextOf, ByteAt

(* The gap moves to any position of the text, and keeps its size.            *)
LEMMA MoveGapSound ==
  ASSUME NEW b, Sound(b), NEW p \in 0..Size(b)
  PROVE  /\ Sound(MoveGap(b, p))
         /\ MoveGap(b, p).cap = b.cap /\ MoveGap(b, p).gap = p
         /\ MoveGap(b, p).egap = p + Room(b)
         /\ Size(MoveGap(b, p)) = Size(b) /\ Room(MoveGap(b, p)) = Room(b)
<1> DEFINE moved == [store |-> Shifted(b, p), cap |-> b.cap, gap |-> p, egap |-> p + Room(b)]
<1>1. moved = [store |-> Shifted(b, p), cap |-> b.cap, gap |-> p, egap |-> p + Room(b)]
  OBVIOUS
<1>2. Room(b) \in Nat /\ Size(b) \in Nat /\ p + Room(b) <= b.cap /\ b.cap \in Nat /\ p \in Nat
  BY SizeAndIndex DEF Sound, Size, Room
<1>3. ASSUME NEW i \in 0..(b.cap - 1)
      PROVE  Shifted(b, p)[i] =
               IF p + Room(b) <= i /\ i < b.egap THEN b.store[i - Room(b)]
               ELSE IF b.gap <= i /\ i < p THEN b.store[i + Room(b)] ELSE b.store[i]
  <2>1. ~(p + Room(b) <= i /\ i < b.egap /\ b.gap <= i /\ i < p)  BY <1>2
  <2>2. i \in DOMAIN b.store  BY DEF Sound
  <2> QED  BY <2>1, <2>2 DEF Shifted
<1>4. Shifted(b, p) \in [0..(b.cap - 1) -> Cells]
  <2>1. \A i \in 0..(b.cap - 1) : Shifted(b, p)[i] \in Cells
    <3> TAKE i \in 0..(b.cap - 1)
    <3>1. CASE p + Room(b) <= i /\ i < b.egap
      <4>1. i - Room(b) \in 0..(b.cap - 1)  BY <3>1, <1>2
      <4> QED  BY <3>1, <4>1, <1>3 DEF Sound
    <3>2. CASE ~(p + Room(b) <= i /\ i < b.egap) /\ b.gap <= i /\ i < p
      <4>1. i + Room(b) \in 0..(b.cap - 1)  BY <3>2, <1>2
      <4> QED  BY <3>2, <4>1, <1>3 DEF Sound
    <3>3. CASE ~(p + Room(b) <= i /\ i < b.egap) /\ ~(b.gap <= i /\ i < p)
      BY <3>3, <1>3 DEF Sound
    <3> QED  BY <3>1, <3>2, <3>3
  <2>2. DOMAIN b.store = 0..(b.cap - 1)  BY DEF Sound
  <2> QED  BY <2>1, <2>2 DEF Shifted
<1>5. ASSUME NEW i \in 0..(b.cap - 1), ~(p <= i /\ i < p + Room(b))
      PROVE  Shifted(b, p)[i] \in Bytes
  <2>1. CASE p + Room(b) <= i /\ i < b.egap
    <3>1. Shifted(b, p)[i] = b.store[i - Room(b)]  BY <2>1, <1>3
    <3>2. i - Room(b) \in 0..(b.cap - 1) /\ ~InGap(b, i - Room(b))  BY <2>1, <1>2 DEF Sound, Room, InGap
    <3> QED  BY <3>1, <3>2 DEF Sound
  <2>2. CASE b.gap <= i /\ i < p
    <3>1. ~(p + Room(b) <= i /\ i < b.egap)  BY <2>2, <1>2 DEF Sound
    <3>2. Shifted(b, p)[i] = b.store[i + Room(b)]  BY <2>2, <3>1, <1>3
    <3>3. i + Room(b) \in 0..(b.cap - 1) /\ ~InGap(b, i + Room(b))  BY <2>2, <1>2 DEF Sound, Room, InGap
    <3> QED  BY <3>2, <3>3 DEF Sound
  <2>3. CASE ~(p + Room(b) <= i /\ i < b.egap) /\ ~(b.gap <= i /\ i < p)
    <3>1. Shifted(b, p)[i] = b.store[i]  BY <2>3, <1>3
    <3>2. ~InGap(b, i)  BY <2>3, <1>5, <1>2 DEF Sound, InGap, Room
    <3> QED  BY <3>1, <3>2 DEF Sound
  <2> QED  BY <2>1, <2>2, <2>3
<1>6. Sound(moved)
  <2> HIDE DEF moved
  <2> QED  BY <1>1, <1>2, <1>4, <1>5 DEF Sound, InGap
<1>7. MoveGap(b, p) = Scrub(moved)  BY DEF MoveGap
<1> HIDE DEF moved
<1>8. /\ Sound(MoveGap(b, p)) /\ MoveGap(b, p).cap = b.cap /\ MoveGap(b, p).gap = p
      /\ MoveGap(b, p).egap = p + Room(b)
  BY <1>1, <1>6, <1>7, ScrubSound
<1>9. b.cap \in Int /\ p \in Int  BY DEF Sound
<1> QED  BY <1>2, <1>8, <1>9 DEF Size, Room

(* Moving the gap does not change the text.                                  *)
THEOREM MoveGapKeepsText ==
  ASSUME NEW b, Sound(b), NEW p \in 0..Size(b)
  PROVE  TextOf(MoveGap(b, p)) = TextOf(b)
<1> DEFINE m == MoveGap(b, p)
           moved == [store |-> Shifted(b, p), cap |-> b.cap, gap |-> p, egap |-> p + Room(b)]
<1>1. Sound(m) /\ m.cap = b.cap /\ m.gap = p /\ m.egap = p + Room(b) /\ Size(m) = Size(b) /\ Room(m) = Room(b)
  BY MoveGapSound
<1>2. /\ Room(b) \in Nat /\ Size(b) \in Nat /\ p + Room(b) <= b.cap /\ b.cap \in Nat /\ p \in Nat
      /\ b.gap \in Nat /\ b.egap = b.gap + Room(b) /\ Size(b) + Room(b) = b.cap
  <2>1. Room(b) \in Nat /\ Size(b) \in Nat  BY SizeAndIndex
  <2>2. b.cap \in Nat /\ b.gap \in Nat /\ b.egap \in Nat  BY DEF Sound
  <2>3. b.egap = b.gap + Room(b) /\ Size(b) + Room(b) = b.cap  BY <2>2 DEF Size, Room
  <2> QED  BY <2>1, <2>2, <2>3
<1>3. ASSUME NEW q \in 0..(Size(b) - 1)
      PROVE  ByteAt(m, q) = ByteAt(b, q)
  <2> DEFINE i == IF q < p THEN q ELSE q + Room(b)
  <2>1. Index(m, q) = i /\ i \in 0..(b.cap - 1) /\ ~(p <= i /\ i < p + Room(b))
    BY <1>1, <1>2 DEF Index
  <2>2. m.store[i] = Shifted(b, p)[i]
    <3>1. m.store = [j \in DOMAIN Shifted(b, p) |-> IF p <= j /\ j < p + Room(b) THEN Junk ELSE Shifted(b, p)[j]]
      <4>1. moved.store = Shifted(b, p) /\ moved.gap = p /\ moved.egap = p + Room(b)  OBVIOUS
      <4>2. m = Scrub(moved)  BY DEF MoveGap
      <4>3. DOMAIN moved = {"store", "cap", "gap", "egap"}  OBVIOUS
      <4> HIDE DEF moved, m
      <4> QED  BY <4>1, <4>2, <4>3 DEF Scrub
    <3>2. DOMAIN Shifted(b, p) = 0..(b.cap - 1)  BY DEF Shifted, Sound
    <3> QED  BY <2>1, <3>1, <3>2
  <2>3. Shifted(b, p)[i] = b.store[Index(b, q)]
    <3>1. i \in DOMAIN b.store  BY <2>1 DEF Sound
    <3>2. ~(p + Room(b) <= i /\ i < b.egap /\ b.gap <= i /\ i < p)  BY <1>2
    <3>3. Shifted(b, p)[i] =
            IF p + Room(b) <= i /\ i < b.egap THEN b.store[i - Room(b)]
            ELSE IF b.gap <= i /\ i < p THEN b.store[i + Room(b)] ELSE b.store[i]
      BY <3>1, <3>2 DEF Shifted
    <3>4. CASE p + Room(b) <= i /\ i < b.egap
      <4>1. i - Room(b) = q /\ q < b.gap  BY <1>2, <3>4
      <4> QED  BY <3>3, <3>4, <4>1 DEF Index
    <3>5. CASE ~(p + Room(b) <= i /\ i < b.egap) /\ b.gap <= i /\ i < p
      <4>1. i = q /\ ~(q < b.gap)  BY <1>2, <3>5
      <4> QED  BY <3>3, <3>5, <4>1 DEF Index
    <3>6. CASE ~(p + Room(b) <= i /\ i < b.egap) /\ ~(b.gap <= i /\ i < p)
      <4>1. i = IF q < b.gap THEN q ELSE q + Room(b)  BY <1>2, <2>1, <3>6
      <4> QED  BY <3>3, <3>6, <4>1 DEF Index
    <3> QED  BY <3>4, <3>5, <3>6
  <2>4. Index(b, q) \in 0..(b.cap - 1)  BY SizeAndIndex
  <2> HIDE DEF m, i
  <2> QED  BY <1>1, <2>1, <2>2, <2>3, <2>4 DEF ByteAt, Cell
<1>4. \A k \in 1..Size(b) : ByteAt(m, k - 1) = ByteAt(b, k - 1)
  <2> TAKE k \in 1..Size(b)
  <2>1. k - 1 \in 0..(Size(b) - 1)  BY <1>2
  <2> HIDE DEF m
  <2> QED  BY <1>3, <2>1
<1> HIDE DEF m
<1>5. TextOf(m) = TextOf(b)  BY <1>1, <1>4 DEF TextOf
<1> QED  BY <1>5 DEF m

(* growgap gives at least the room asked for, and moves nothing.             *)
LEMMA GrowGapSound ==
  ASSUME NEW b, Sound(b), NEW n \in Nat, NEW g \in GrowGap(b, n)
  PROVE  /\ Sound(g) /\ Size(g) = Size(b) /\ Room(g) >= Room(b) + n /\ Room(g) > Room(b)
         /\ g.gap = b.gap
<1> DEFINE more == Bigger(n, MinGap)
           larger == [i \in 0..(b.cap + more - 1) |->
                        CASE i < b.gap -> b.store[i]
                          [] i >= b.egap + more -> b.store[i - more]
                          [] OTHER -> Junk]
<1>1. more \in Nat /\ more >= n /\ more > 0  BY SizesAreNat DEF Bigger
<1>2. g = [store |-> larger, cap |-> b.cap + more, gap |-> b.gap, egap |-> b.egap + more]
  BY DEF GrowGap
<1> HIDE DEF more
<1>3. \A i \in 0..(b.cap + more - 1) :
        /\ larger[i] \in Cells
        /\ (i < b.gap \/ i >= b.egap + more) => larger[i] \in Bytes
  <2> TAKE i \in 0..(b.cap + more - 1)
  <2>1. CASE i < b.gap
    BY <2>1, <1>1 DEF Sound, InGap, Cells
  <2>2. CASE i >= b.egap + more
    <3>1. larger[i] = b.store[i - more] /\ i - more \in 0..(b.cap - 1) /\ ~InGap(b, i - more)
      BY <2>2, <1>1 DEF Sound, InGap
    <3> QED  BY <3>1 DEF Sound, Cells
  <2>3. CASE ~(i < b.gap) /\ ~(i >= b.egap + more)
    BY <2>3 DEF Cells
  <2> QED  BY <2>1, <2>2, <2>3
<1>4. larger \in [0..(b.cap + more - 1) -> Cells]  BY <1>3
<1> HIDE DEF larger
<1>5. Sound(g)
  BY <1>1, <1>2, <1>3, <1>4 DEF Sound, InGap
<1>6. g.cap = b.cap + more /\ g.gap = b.gap /\ g.egap = b.egap + more  BY <1>2
<1>7. b.cap \in Nat /\ b.gap \in Nat /\ b.egap \in Nat  BY DEF Sound
<1> QED  BY <1>1, <1>5, <1>6, <1>7 DEF Size, Room

(* Bytes written into a gap with room for them.                              *)
LEMMA FillSound ==
  ASSUME NEW b, Sound(b), NEW s \in Seq(Bytes), Len(s) <= Room(b)
  PROVE  /\ Sound(Fill(b, s)) /\ Size(Fill(b, s)) = Size(b) + Len(s)
         /\ Fill(b, s).gap = b.gap + Len(s) /\ Fill(b, s).egap = b.egap /\ Fill(b, s).cap = b.cap
<1> DEFINE f == Fill(b, s)
           written == [j \in 0..(b.cap - 1) |->
                         IF b.gap <= j /\ j < b.gap + Len(s) THEN s[j - b.gap + 1] ELSE b.store[j]]
<1>1. Len(s) \in Nat /\ b.gap + Len(s) <= b.egap  BY DEF Sound, Room
<1>2. f = [store |-> written, cap |-> b.cap, gap |-> b.gap + Len(s), egap |-> b.egap]
  <2>1. Write(b, b.gap, s) = [store |-> written, cap |-> b.cap, gap |-> b.gap, egap |-> b.egap]
    BY Fields DEF Write
  <2> HIDE DEF written
  <2> QED  BY <2>1 DEF Fill
<1>3. \A j \in 0..(b.cap - 1) :
        /\ written[j] \in Cells
        /\ ~(b.gap + Len(s) <= j /\ j < b.egap) => written[j] \in Bytes
  <2> TAKE j \in 0..(b.cap - 1)
  <2>1. CASE b.gap <= j /\ j < b.gap + Len(s)
    <3>1. j - b.gap + 1 \in 1..Len(s)  BY <2>1, <1>1 DEF Sound
    <3>2. s[j - b.gap + 1] \in Bytes  BY <3>1
    <3> QED  BY <2>1, <3>2 DEF Cells
  <2>2. CASE ~(b.gap <= j /\ j < b.gap + Len(s))
    <3>1. written[j] = b.store[j]  BY <2>2
    <3>2. ~(b.gap + Len(s) <= j /\ j < b.egap) => ~InGap(b, j)  BY <2>2, <1>1 DEF Sound, InGap
    <3> QED  BY <3>1, <3>2 DEF Sound, Cells
  <2> QED  BY <2>1, <2>2
<1>4. written \in [0..(b.cap - 1) -> Cells]  BY <1>3
<1> HIDE DEF written
<1>5. Sound(f)
  <2> HIDE DEF f
  <2> QED  BY <1>1, <1>2, <1>3, <1>4 DEF Sound, InGap
<1> QED  BY <1>1, <1>2, <1>5 DEF Sound, Size, Room

(* Bytes given to the gap, before it or after it.                           *)
LEMMA DropSound ==
  ASSUME NEW b, Sound(b), NEW n \in Nat
  PROVE  /\ n <= b.gap =>
              /\ Sound(DropBefore(b, n)) /\ Size(DropBefore(b, n)) = Size(b) - n
              /\ DropBefore(b, n).gap = b.gap - n /\ DropBefore(b, n).egap = b.egap
              /\ DropBefore(b, n).cap = b.cap
         /\ b.egap + n <= b.cap =>
              /\ Sound(DropAfter(b, n)) /\ Size(DropAfter(b, n)) = Size(b) - n
              /\ DropAfter(b, n).gap = b.gap /\ DropAfter(b, n).egap = b.egap + n
              /\ DropAfter(b, n).cap = b.cap
<1>1. ASSUME n <= b.gap
      PROVE  /\ Sound(DropBefore(b, n)) /\ Size(DropBefore(b, n)) = Size(b) - n
             /\ DropBefore(b, n).gap = b.gap - n /\ DropBefore(b, n).egap = b.egap
             /\ DropBefore(b, n).cap = b.cap
  <2> DEFINE d == [b EXCEPT !.gap = @ - n]
  <2>1. d = [store |-> b.store, cap |-> b.cap, gap |-> b.gap - n, egap |-> b.egap]  BY DEF Sound
  <2>2. Sound(d)
    <3> HIDE DEF d
    <3> QED  BY <1>1, <2>1 DEF Sound, InGap
  <2>3. DropBefore(b, n) = Scrub(d)  BY DEF DropBefore
  <2> HIDE DEF d
  <2>4. /\ d.gap = b.gap - n /\ d.egap = b.egap /\ d.cap = b.cap
        /\ {b.cap, b.gap, b.egap} \subseteq Int
    BY <2>1 DEF Sound
  <2> QED  BY <2>2, <2>3, <2>4, ScrubSound DEF Size, Room
<1>2. ASSUME b.egap + n <= b.cap
      PROVE  /\ Sound(DropAfter(b, n)) /\ Size(DropAfter(b, n)) = Size(b) - n
             /\ DropAfter(b, n).gap = b.gap /\ DropAfter(b, n).egap = b.egap + n
             /\ DropAfter(b, n).cap = b.cap
  <2> DEFINE d == [b EXCEPT !.egap = @ + n]
  <2>1. d = [store |-> b.store, cap |-> b.cap, gap |-> b.gap, egap |-> b.egap + n]  BY DEF Sound
  <2>2. Sound(d)
    <3> HIDE DEF d
    <3> QED  BY <1>2, <2>1 DEF Sound, InGap
  <2>3. DropAfter(b, n) = Scrub(d)  BY DEF DropAfter
  <2> HIDE DEF d
  <2>4. /\ d.gap = b.gap /\ d.egap = b.egap + n /\ d.cap = b.cap
        /\ {b.cap, b.gap, b.egap} \subseteq Int
    BY <2>1 DEF Sound
  <2> QED  BY <2>2, <2>3, <2>4, ScrubSound DEF Size, Room
<1> QED  BY <1>1, <1>2

(* Writing bytes leaves bytes.                                               *)
LEMMA WriteSound ==
  ASSUME NEW b, Sound(b), NEW s \in Seq(Bytes), NEW i \in Nat
  PROVE  /\ Sound(Write(b, i, s)) /\ Size(Write(b, i, s)) = Size(b)
         /\ Write(b, i, s).gap = b.gap
<1> DEFINE w == [j \in 0..(b.cap - 1) |-> IF i <= j /\ j < i + Len(s) THEN s[j - i + 1] ELSE b.store[j]]
<1>1. Write(b, i, s) = [store |-> w, cap |-> b.cap, gap |-> b.gap, egap |-> b.egap]
  BY Fields DEF Write
<1>2. \A j \in 0..(b.cap - 1) : w[j] \in Cells /\ (InGap(b, j) \/ w[j] \in Bytes)
  <2> TAKE j \in 0..(b.cap - 1)
  <2>1. CASE i <= j /\ j < i + Len(s)
    <3>1. j - i + 1 \in 1..Len(s)  BY <2>1
    <3>2. s[j - i + 1] \in Bytes  BY <3>1
    <3> QED  BY <2>1, <3>2 DEF Cells
  <2>2. CASE ~(i <= j /\ j < i + Len(s))
    BY <2>2 DEF Sound
  <2> QED  BY <2>1, <2>2
<1>3. w \in [0..(b.cap - 1) -> Cells]  BY <1>2
<1> HIDE DEF w
<1>4. Sound(Write(b, i, s))  BY <1>1, <1>2, <1>3 DEF Sound, InGap
<1> QED  BY <1>1, <1>4 DEF Size, Room

(* A replacement that ends where the gap begins, whatever cells it covers.   *)
LEMMA ReplaceSound ==
  ASSUME NEW b, Sound(b), NEW s \in Seq(Bytes), NEW p \in 0..b.gap,
         p + Len(s) <= b.egap,
         NEW i \in Nat, s # <<>> => i = p
  PROVE  LET g == [b EXCEPT !.gap = p + Len(s)]
             r == Scrub(Write(g, i, s))
         IN  Sound(r) /\ p + Len(s) \in 0..Size(r)
<1> DEFINE g == [b EXCEPT !.gap = p + Len(s)]
           w == [j \in 0..(b.cap - 1) |-> IF i <= j /\ j < i + Len(s) THEN s[j - i + 1] ELSE b.store[j]]
           r == Write(g, i, s)
<1>1. g = [store |-> b.store, cap |-> b.cap, gap |-> p + Len(s), egap |-> b.egap]
  <2>1. PICK c, s1, g1, e1 : b = [store |-> s1, cap |-> c, gap |-> g1, egap |-> e1]  BY DEF Sound
  <2> QED  BY <2>1
<1>2. r = [store |-> w, cap |-> b.cap, gap |-> p + Len(s), egap |-> b.egap]
  <2>1. g.store = b.store /\ DOMAIN b.store = 0..(b.cap - 1)  BY <1>1 DEF Sound
  <2> HIDE DEF g
  <2>2. r = [g EXCEPT !.store = w]  BY <2>1 DEF Write
  <2> HIDE DEF w
  <2> QED  BY <1>1, <2>2
<1>3. ASSUME NEW j \in 0..(b.cap - 1)
      PROVE  w[j] \in Cells /\ (j < p + Len(s) \/ b.egap <= j => w[j] \in Bytes)
  <2>1. CASE s = <<>>
    <3>1. Len(s) = 0  BY <2>1
    <3>2. w[j] = b.store[j]  BY <3>1
    <3> QED  BY <3>1, <3>2 DEF Sound, InGap
  <2>2. CASE s # <<>> /\ p <= j /\ j < p + Len(s)
    <3>1. j - p + 1 \in 1..Len(s)  BY <2>2
    <3>2. s[j - p + 1] \in Bytes  BY <3>1
    <3> QED  BY <2>2, <3>2 DEF Cells
  <2>3. CASE s # <<>> /\ ~(p <= j /\ j < p + Len(s))
    <3>1. w[j] = b.store[j]  BY <2>3
    <3>2. (j < p + Len(s) \/ b.egap <= j) => ~InGap(b, j)  BY <2>3 DEF Sound, InGap
    <3> QED  BY <3>1, <3>2 DEF Sound
  <2> QED  BY <2>1, <2>2, <2>3
<1>4. w \in [0..(b.cap - 1) -> Cells]  BY <1>3
<1> HIDE DEF w
<1>5. Sound(r)
  <2> HIDE DEF r
  <2> QED  BY <1>2, <1>3, <1>4 DEF Sound, InGap
<1>6. r.gap = p + Len(s) /\ r.egap = b.egap /\ r.cap = b.cap  BY <1>2
<1>7. Len(s) \in Nat  OBVIOUS
<1> HIDE DEF r
<1>8. Sound(Scrub(r)) /\ p + Len(s) \in 0..Size(Scrub(r))
  <2>1. /\ Sound(Scrub(r))
        /\ Scrub(r).gap = p + Len(s) /\ Scrub(r).egap = b.egap /\ Scrub(r).cap = b.cap
    BY <1>5, <1>6, ScrubSound
  <2>2. b.cap \in Nat /\ b.egap \in Nat /\ b.egap <= b.cap  BY DEF Sound
  <2> QED  BY <1>7, <2>1, <2>2 DEF Size, Room
<1> QED  BY <1>8 DEF r

-----------------------------------------------------------------------------
(* The characters                                                            *)

LEMMA LeftInText ==
  ASSUME NEW b, NEW p \in Nat
  PROVE  /\ PrevUtf8CharSize(b, p) \in 1..4
         /\ PrevUtf8CharSize(b, p) > 1 => PrevUtf8CharSize(b, p) <= p
         /\ LeftOf(b, p) \in 0..p
<1> DEFINE P(n) == p - n >= 0 /\ Utf8Size(ByteAt(b, p - n)) = n
<1>1. CASE \E n \in 2..4 : P(n)
  <2>1. PrevUtf8CharSize(b, p) = CHOOSE n \in 2..4 : P(n)  BY <1>1 DEF PrevUtf8CharSize
  <2>2. PrevUtf8CharSize(b, p) \in 2..4 /\ P(PrevUtf8CharSize(b, p))  BY <1>1, <2>1
  <2> QED  BY <2>2 DEF LeftOf, Bigger
<1>2. CASE ~\E n \in 2..4 : P(n)
  <2>1. PrevUtf8CharSize(b, p) = 1  BY <1>2 DEF PrevUtf8CharSize
  <2> QED  BY <2>1 DEF LeftOf, Bigger
<1> QED  BY <1>1, <1>2

(* Going right over a character stays in the text.                          *)
LEMMA RightInText ==
  ASSUME NEW b, NEW p \in Nat, Size(b) \in Nat, p <= Size(b)
  PROVE  RightOf(b, p) \in 0..Size(b)
  BY DEF RightOf, Utf8Size

(* The end of a line is in the text.                                        *)
LEMMA LineEndInText ==
  ASSUME NEW b, Size(b) \in Nat, NEW p \in Nat, NEW end \in LineEnd(b, p)
  PROVE  end \in 0..Size(b)
<1>1. PICK next \in NextLine(b, p) : end \in {LeftOf(b, next), next}  BY DEF LineEnd
<1>2. next \in 0..Size(b)  BY DEF NextLine
<1> QED  BY <1>1, <1>2, LeftInText

(* A string that a script inserts is a sequence of bytes.                   *)
LEMMA StringsAreSequences ==
  ASSUME NEW n, n \in Nat, NEW s \in Strings(n)
  PROVE  s \in Seq(Bytes) /\ Len(s) \in Nat
<1>1. PICK k \in 0..n : s \in [1..k -> Bytes]  BY DEF Strings
<1> QED  BY <1>1

(* The position of the first byte after the gap is where the gap is.        *)
LEMMA AtEndOfGap ==
  ASSUME NEW b, Sound(b)
  PROVE  Position(b, b.egap) = b.gap /\ b.gap \in 0..Size(b)
  BY SizeAndIndex DEF Position, Room, Sound

-----------------------------------------------------------------------------
(* The steps                                                                 *)

(* An empty buffer is in order.                                             *)
LEMMA InitIInv == Init => IInv
<1> SUFFICES ASSUME Init PROVE IInv  OBVIOUS
<1>1. /\ buf.store = [i \in 0..(MinGap - 1) |-> Junk]
      /\ buf.cap = MinGap /\ buf.gap = 0 /\ buf.egap = MinGap
      /\ MinGap \in Nat
  BY SizesAreNat DEF Init
<1>2. Sound(buf)
  <2>1. buf.store \in [0..(buf.cap - 1) -> Cells]  BY <1>1 DEF Cells
  <2>2. \A i \in 0..(buf.cap - 1) : InGap(buf, i)  BY <1>1 DEF InGap
  <2>3. buf = [store |-> buf.store, cap |-> buf.cap, gap |-> buf.gap, egap |-> buf.egap]
    BY DEF Init
  <2> QED  BY <1>1, <2>1, <2>2, <2>3 DEF Sound
<1>3. Size(buf) = 0  BY <1>1 DEF Size, Room
<1>4. point \in 0..Size(buf)  BY <1>3 DEF Init
<1>5. mark \in Nat \cup {NoMark} /\ overwrite \in BOOLEAN  BY DEF Init
<1> QED  BY <1>2, <1>4, <1>5 DEF IInv

(* C-d, alone and as kill-line's end.                                        *)
LEMMA DropCharKeeps ==
  ASSUME IInv, Extras = {}, DropChar
  PROVE  Sound(buf)' /\ point' \in 0..Size(buf')
<1> DEFINE b == MoveGap(buf, point)
           n == Utf8Size(ByteAt(b, point))
<1>1. Sound(b) /\ b.gap = point /\ Size(b) = Size(buf)  BY MoveGapSound DEF IInv
<1>2. n \in Nat  BY DEF Utf8Size
<1>3. \/ /\ b.egap + n <= b.cap
         /\ buf' = DropAfter(b, n)
         /\ point' = Position(buf', buf'.egap)
      \/ buf' = b /\ point' = point
  BY DEF DropChar
<1> HIDE DEF b, n
<1>4. CASE buf' = b /\ point' = point  BY <1>1, <1>4 DEF IInv
<1>5. CASE b.egap + n <= b.cap /\ buf' = DropAfter(b, n) /\ point' = Position(buf', buf'.egap)
  <2>1. Sound(buf')  BY <1>1, <1>2, <1>5, DropSound
  <2> QED  BY <2>1, <1>5, AtEndOfGap
<1> QED  BY <1>3, <1>4, <1>5

(* A region of the text goes, and the cursor is where it was.                *)
LEMMA CutRegionKeeps ==
  ASSUME IInv, Extras = {}, NEW p \in 0..Size(buf), NEW m \in Nat, CutRegion(p, m)
  PROVE  Sound(buf)' /\ point' \in 0..Size(buf') /\ mark' = NoMark
<1> DEFINE r == Region(p, m)
           b == MoveGap(buf, r.from)
<1>1. m <= Size(buf)  BY DEF CutRegion
<1>2. r.from \in 0..Size(buf) /\ r.length \in Nat /\ r.from + r.length <= Size(buf)
  BY <1>1, SizeAndIndex DEF Region, IInv
<1>3. Sound(b) /\ b.gap = r.from /\ Size(b) = Size(buf)  BY <1>2, MoveGapSound DEF IInv
<1>4. buf' = DropAfter(b, r.length) /\ point' = Position(buf', buf'.egap) /\ mark' = NoMark
  BY DEF CutRegion
<1> HIDE DEF b, r
<1>5. b.egap + r.length <= b.cap  BY <1>2, <1>3 DEF Sound, Size, Room
<1>6. Sound(buf')  BY <1>2, <1>3, <1>4, <1>5, DropSound
<1> QED  BY <1>4, <1>6, AtEndOfGap

(* zero_buffer leaves an empty text in the same store.                       *)
LEMMA EmptiedSound ==
  ASSUME NEW b, Sound(b)
  PROVE  Sound(Emptied(b))
<1> DEFINE z == [store |-> b.store, cap |-> b.cap, gap |-> 0, egap |-> b.cap]
<1>1. z = [store |-> b.store, cap |-> b.cap, gap |-> 0, egap |-> b.cap]  OBVIOUS
<1>2. Emptied(b) = Scrub(z)  BY DEF Emptied
<1> HIDE DEF z
<1>3. Sound(z)  BY <1>1 DEF Sound, InGap
<1> QED  BY <1>2, <1>3, ScrubSound

(* Text inserted at a position, with room made for it.                       *)
LEMMA FillKeeps ==
  ASSUME NEW b, Sound(b), NEW s \in Seq(Bytes), NEW p \in 0..Size(b),
         NEW n \in Nat, Len(s) <= n, NEW room,
         \/ room = b /\ Len(s) <= Room(b)
         \/ room \in GrowGap(b, n),
         NEW f, f = Fill(MoveGap(room, p), s)
  PROVE  /\ Sound(f) /\ Size(f) = Size(b) + Len(s)
         /\ Position(f, f.egap) \in 0..Size(f)
<1>1. Len(s) \in Nat  OBVIOUS
<1>2. Sound(room) /\ Size(room) = Size(b) /\ Len(s) <= Room(room)
  <2>1. CASE room = b /\ Len(s) <= Room(b)  BY <2>1
  <2>2. CASE room \in GrowGap(b, n)
    <3>1. Sound(room) /\ Size(room) = Size(b) /\ Room(room) >= Room(b) + n
      BY <2>2, GrowGapSound
    <3>2. Room(room) \in Nat /\ Room(b) \in Nat  BY <3>1, SizeAndIndex
    <3> QED  BY <1>1, <3>1, <3>2
  <2> QED  BY <2>1, <2>2
<1>3. /\ Sound(MoveGap(room, p)) /\ Size(MoveGap(room, p)) = Size(b)
      /\ Room(MoveGap(room, p)) = Room(room)
  BY <1>2, MoveGapSound
<1>4. Sound(f) /\ Size(f) = Size(b) + Len(s)  BY <1>1, <1>2, <1>3, FillSound
<1> QED  BY <1>4, AtEndOfGap

(* Every step keeps the store in order and the cursor in the text.           *)
LEMMA StepIInv ==
  ASSUME IInv, [Next]_vars, Extras = {}
  PROVE  IInv'
<1>1. /\ Sound(buf) /\ point \in 0..Size(buf) /\ Size(buf) \in Nat /\ Room(buf) \in Nat
      /\ mark \in Nat \cup {NoMark} /\ overwrite \in BOOLEAN
  BY SizeAndIndex DEF IInv
<1>2. /\ \A s \in Strings(MaxInsert) : s \in Seq(Bytes) /\ Len(s) \in Nat
      /\ Chunk \in Nat /\ Chunk >= 1
  BY SizesAreNat, StringsAreSequences
<1>3. CASE Insert
  <2>1. PICK key \in Bytes \cup {Return}, room \in WithRoom(buf, Room(buf) > 0, Chunk) :
          LET b == MoveGap(room, point)
          IN  \/ /\ key # Return
                 /\ point < Size(b)
                 /\ buf' = Write(b, Index(b, point), <<key>>)
                 /\ point' = point + 1
              \/ /\ buf' = Fill(b, <<TypedByte(key)>>)
                 /\ point' = Position(buf', buf'.egap)
    BY <1>3 DEF Insert
  <2> DEFINE b == MoveGap(room, point)
  <2>2. UNCHANGED <<mark, overwrite>>  BY <1>3 DEF Insert
  <2>7. (room = buf /\ Room(buf) > 0) \/ room \in GrowGap(buf, Chunk)  BY DEF WithRoom
  <2>3. Sound(room) /\ Size(room) = Size(buf)  BY <1>1, <1>2, <2>7, GrowGapSound
  <2>4. Sound(b) /\ Size(b) = Size(buf)  BY <1>1, <2>3, MoveGapSound
  <2>5. CASE /\ key # Return /\ point < Size(b)
             /\ buf' = Write(b, Index(b, point), <<key>>) /\ point' = point + 1
    <3>1. <<key>> \in Seq(Bytes)  BY <2>5
    <3> HIDE DEF b
    <3>2. Index(b, point) \in Nat
      <4>1. Room(b) \in Nat  BY <2>4, SizeAndIndex
      <4> QED  BY <1>1, <4>1 DEF Index
    <3>3. Sound(buf') /\ Size(buf') = Size(buf)  BY <2>4, <2>5, <3>1, <3>2, WriteSound
    <3> QED  BY <1>1, <2>2, <2>4, <2>5, <3>3 DEF IInv
  <2>6. CASE buf' = Fill(b, <<TypedByte(key)>>) /\ point' = Position(buf', buf'.egap)
    <3>1. <<TypedByte(key)>> \in Seq(Bytes) /\ Len(<<TypedByte(key)>>) = 1  BY DEF TypedByte, Bytes
    <3>2. (room = buf /\ 1 <= Room(buf)) \/ room \in GrowGap(buf, Chunk)  BY <1>1, <2>7
    <3>3. Sound(buf)' /\ Position(buf', buf'.egap) \in 0..Size(buf')
      BY <1>1, <1>2, <2>6, <3>1, <3>2, FillKeeps
    <3> QED  BY <1>1, <2>2, <2>6, <3>3 DEF IInv
  <2> QED  BY <2>1, <2>5, <2>6
<1>4. CASE Backspace
  <2> DEFINE n == PrevUtf8CharSize(buf, point)
             b == MoveGap(buf, point)
  <2>1. /\ UNCHANGED <<mark, overwrite>>
        /\ \/ b.gap - (n - 1) > 0 /\ buf' = DropBefore(b, n) /\ point' = Position(buf', buf'.egap)
           \/ buf' = b /\ point' = point
    BY <1>4 DEF Backspace
  <2>2. Sound(b) /\ b.gap = point /\ Size(b) = Size(buf)  BY <1>1, MoveGapSound
  <2>3. n \in Nat  BY <1>1, LeftInText
  <2> HIDE DEF b, n
  <2>4. CASE b.gap - (n - 1) > 0 /\ buf' = DropBefore(b, n) /\ point' = Position(buf', buf'.egap)
    <3>1. n <= b.gap  BY <1>1, <2>2, <2>3, <2>4
    <3>2. Sound(buf')  BY <2>2, <2>3, <2>4, <3>1, DropSound
    <3> QED  BY <1>1, <2>1, <2>4, <3>2, AtEndOfGap DEF IInv
  <2>5. CASE buf' = b /\ point' = point
    BY <1>1, <2>1, <2>2, <2>5 DEF IInv
  <2> QED  BY <2>1, <2>4, <2>5
<1>5. CASE Delete
  <2>1. DropChar /\ mark' = mark /\ overwrite' = overwrite  BY <1>5 DEF Delete
  <2> QED  BY <1>1, <2>1, DropCharKeeps DEF IInv
<1>6. CASE InsertString
  <2>1. PICK s \in Strings(MaxInsert) \ {<<>>} : \E room \in WithRoom(buf, Len(s) < Room(buf), Len(s)) :
          buf' = Fill(MoveGap(room, point), s)
    BY <1>6 DEF InsertString
  <2>2. point' = Position(buf', buf'.egap) /\ UNCHANGED <<mark, overwrite>>  BY <1>6 DEF InsertString
  <2>3. Sound(buf)' /\ Position(buf', buf'.egap) \in 0..Size(buf')
    <3>1. PICK room : /\ \/ room = buf /\ Len(s) <= Room(buf)
                         \/ room \in GrowGap(buf, Len(s))
                      /\ buf' = Fill(MoveGap(room, point), s)
      BY <1>1, <1>2, <2>1 DEF WithRoom
    <3>2. s \in Seq(Bytes) /\ Len(s) \in Nat /\ Len(s) <= Len(s)  BY <1>2
    <3> QED  BY <1>1, <3>1, <3>2, FillKeeps
  <2> QED  BY <1>1, <2>2, <2>3 DEF IInv
<1>7. CASE AppendString
  <2>1. PICK s \in Strings(MaxInsert) \ {<<>>} :
          \/ \E room \in WithRoom(buf, Len(s) < Room(buf), Len(s)) :
               buf' = Fill(MoveGap(room, Size(buf)), s)
          \/ buf' = buf
    BY <1>7 DEF AppendString
  <2>2. point' = Size(buf') /\ UNCHANGED <<mark, overwrite>>  BY <1>7 DEF AppendString
  <2>3. Sound(buf')
    <3>1. CASE buf' = buf  BY <1>1, <3>1
    <3>2. ASSUME NEW room, (room = buf /\ Len(s) <= Room(buf)) \/ room \in GrowGap(buf, Len(s)),
                 buf' = Fill(MoveGap(room, Size(buf)), s)
          PROVE  Sound(buf')
      <4>1. s \in Seq(Bytes) /\ Len(s) \in Nat /\ Len(s) <= Len(s)  BY <1>2
      <4>2. Size(buf) \in 0..Size(buf)  BY <1>1
      <4>3. Sound(buf)  BY <1>1
      <4> QED  BY <3>2, <4>1, <4>2, <4>3, FillKeeps
    <3>3. \/ buf' = buf
          \/ \E room : /\ (room = buf /\ Len(s) <= Room(buf)) \/ room \in GrowGap(buf, Len(s))
                       /\ buf' = Fill(MoveGap(room, Size(buf)), s)
      BY <1>1, <1>2, <2>1 DEF WithRoom
    <3> QED  BY <3>1, <3>2, <3>3
  <2> QED  BY <1>1, <2>2, <2>3, SizeAndIndex DEF IInv
<1>8. CASE InsertFile
  <2>1. PICK s \in Strings(MaxInsert) : \E room \in WithRoom(buf, Room(buf) >= Len(s), Len(s)) :
          buf' = Fill(MoveGap(room, point), s)
    BY <1>8 DEF InsertFile
  <2>2. UNCHANGED <<point, mark>> /\ overwrite' = FALSE  BY <1>8 DEF InsertFile
  <2>3. Sound(buf)' /\ Size(buf') = Size(buf) + Len(s)
    <3>1. PICK room : /\ \/ room = buf /\ Len(s) <= Room(buf)
                         \/ room \in GrowGap(buf, Len(s))
                      /\ buf' = Fill(MoveGap(room, point), s)
      BY <1>1, <1>2, <2>1 DEF WithRoom
    <3>2. s \in Seq(Bytes) /\ Len(s) \in Nat /\ Len(s) <= Len(s)  BY <1>2
    <3> QED  BY <1>1, <3>1, <3>2, FillKeeps
  <2>4. point' \in 0..Size(buf')  BY <1>1, <1>2, <2>2, <2>3
  <2>5. mark' \in Nat \cup {NoMark} /\ overwrite' \in BOOLEAN  BY <1>1, <2>2
  <2> QED  BY <2>3, <2>4, <2>5 DEF IInv
<1>9. CASE DeleteRegion
  <2>1. PICK start \in 0..Size(buf), end \in 0..Size(buf) :
          /\ start < end
          /\ buf' = DropAfter(MoveGap(buf, start), end - start)
          /\ point' = start
          /\ mark' = MarkAfterDelete(start, end)
    BY <1>1, <1>9 DEF DeleteRegion
  <2>2. overwrite' = overwrite  BY <1>9 DEF DeleteRegion
  <2> DEFINE b == MoveGap(buf, start)
  <2>3. Sound(b) /\ b.gap = start /\ Size(b) = Size(buf)  BY <1>1, MoveGapSound
  <2> HIDE DEF b
  <2>4. end - start \in Nat /\ b.egap + (end - start) <= b.cap
    <3>1. end - start \in Nat /\ end <= b.cap - (b.egap - b.gap)  BY <1>1, <2>1, <2>3 DEF Size, Room
    <3>2. b.cap \in Nat /\ b.gap \in Nat /\ b.egap \in Nat  BY <2>3 DEF Sound
    <3> QED  BY <2>1, <2>3, <3>1, <3>2
  <2>5. Sound(buf') /\ Size(buf') = Size(buf) - (end - start)
    BY <2>1, <2>3, <2>4, DropSound DEF b
  <2>6. mark' \in Nat \cup {NoMark}  BY <1>1, <2>1 DEF MarkAfterDelete, NoMark
  <2> QED  BY <1>1, <2>1, <2>2, <2>5, <2>6 DEF IInv
<1>10. CASE InsertBytes
  <2>1. PICK p \in 0..Size(buf), s \in Strings(MaxInsert) \ {<<>>} :
          /\ \E room \in WithRoom(buf, Len(s) < Room(buf), Len(s)) : buf' = Fill(MoveGap(room, p), s)
          /\ point' = p + Len(s)
          /\ mark' = IF mark >= p THEN mark + Len(s) ELSE mark
    BY <1>10 DEF InsertBytes
  <2>2. overwrite' = overwrite  BY <1>10 DEF InsertBytes
  <2>3. Sound(buf)' /\ Size(buf') = Size(buf) + Len(s)
    <3>1. PICK room : /\ \/ room = buf /\ Len(s) <= Room(buf)
                         \/ room \in GrowGap(buf, Len(s))
                      /\ buf' = Fill(MoveGap(room, p), s)
      BY <1>1, <1>2, <2>1 DEF WithRoom
    <3>2. s \in Seq(Bytes) /\ Len(s) \in Nat /\ Len(s) <= Len(s)  BY <1>2
    <3> QED  BY <1>1, <3>1, <3>2, FillKeeps
  <2>4. mark' \in Nat \cup {NoMark}  BY <1>1, <1>2, <2>1 DEF NoMark
  <2> QED  BY <1>1, <1>2, <2>1, <2>2, <2>3, <2>4 DEF IInv
<1>11. CASE Cut
  <2>1. mark \in Nat /\ CutRegion(point, mark) /\ overwrite' = overwrite  BY <1>1, <1>11 DEF Cut
  <2>2. Sound(buf)' /\ point' \in 0..Size(buf') /\ mark' = NoMark  BY <1>1, <2>1, CutRegionKeeps
  <2> QED  BY <1>1, <2>1, <2>2 DEF IInv
<1>12. CASE Copy
  <2>1. /\ buf' = MoveGap(buf, Region(point, mark).from)
        /\ mark' = NoMark /\ point' = point /\ overwrite' = overwrite /\ mark \in Nat
    BY <1>1, <1>12 DEF Copy
  <2>2. Region(point, mark).from \in 0..Size(buf)  BY <1>1, <2>1 DEF Region
  <2>3. Sound(buf') /\ Size(buf') = Size(buf)  BY <1>1, <2>1, <2>2, MoveGapSound
  <2> QED  BY <1>1, <2>1, <2>3 DEF IInv
<1>13. CASE KillToEol
  <2>1. overwrite' = overwrite  BY <1>13 DEF KillToEol
  <2>2. \/ DropChar /\ mark' = mark
        \/ \E end \in LineEnd(buf, point) : CutRegion(end, point)
        \/ mark' = point /\ buf' = buf /\ point' = point
    BY <1>13 DEF KillToEol
  <2>3. CASE DropChar /\ mark' = mark  BY <1>1, <2>1, <2>3, DropCharKeeps DEF IInv
  <2>4. ASSUME NEW end \in LineEnd(buf, point), CutRegion(end, point)
        PROVE  IInv'
    <3>1. end \in 0..Size(buf)  BY <1>1, LineEndInText
    <3>2. Sound(buf)' /\ point' \in 0..Size(buf') /\ mark' = NoMark  BY <1>1, <2>4, <3>1, CutRegionKeeps
    <3> QED  BY <1>1, <2>1, <3>2 DEF IInv
  <2>5. CASE mark' = point /\ buf' = buf /\ point' = point  BY <1>1, <2>1, <2>5 DEF IInv
  <2> QED  BY <2>2, <2>3, <2>4, <2>5
<1>14. CASE Replace
  <2>1. PICK n \in 1..MaxInsert, to \in Strings(MaxInsert), p \in 0..Size(buf) :
          LET from == SubSeq(TextOf(buf), p + 1, p + n)
          IN  /\ p + n <= Size(buf)
              /\ \E b \in Resized(p, from, to) : buf' = Scrub(Write(b, Index(b, p), to))
              /\ point' = p + Len(to)
    <3>1. PICK n \in 1..MaxInsert, to \in Strings(MaxInsert) : \E p \in point..(Size(buf) - n) :
            /\ \E b \in Resized(p, SubSeq(TextOf(buf), p + 1, p + n), to) :
                 buf' = Scrub(Write(b, Index(b, p), to))
            /\ point' = p + Len(to)
      BY <1>14 DEF Replace
    <3>2. PICK p \in point..(Size(buf) - n) :
            /\ \E b \in Resized(p, SubSeq(TextOf(buf), p + 1, p + n), to) :
                 buf' = Scrub(Write(b, Index(b, p), to))
            /\ point' = p + Len(to)
      BY <3>1
    <3>3. p \in 0..Size(buf) /\ p + n <= Size(buf)  BY <1>1, SizesAreNat
    <3> QED  BY <3>2, <3>3
  <2>2. UNCHANGED <<mark, overwrite>>  BY <1>14 DEF Replace
  <2> DEFINE from == SubSeq(TextOf(buf), p + 1, p + n)
             moved == MoveGap(buf, p + n)
             more == Len(to) - n
  <2>3. /\ n \in Nat /\ p \in Nat /\ p + n <= Size(buf)
        /\ to \in Seq(Bytes) /\ Len(to) \in Nat /\ more \in Int
    BY <1>1, <1>2, <2>1, SizesAreNat
  <2>4. Len(from) = n
    BY <2>3 DEF TextOf
  <2>5. PICK b \in Resized(p, from, to) : buf' = Scrub(Write(b, Index(b, p), to))  BY <2>1
  <2>6. Sound(moved) /\ moved.gap = p + n
    <3>1. p + n \in 0..Size(buf)  BY <1>1, <2>3
    <3> QED  BY <1>1, <3>1, MoveGapSound
  <2>7. \/ more = 0 /\ b = buf
        \/ more < 0 /\ b = [moved EXCEPT !.gap = @ + more]
        \/ more > 0 /\ more < Room(moved) /\ b = [moved EXCEPT !.gap = @ + more]
        \/ more > 0 /\ \E m \in GrowGap(moved, more) : b = [m EXCEPT !.gap = @ + more]
    <3> HIDE DEF from, moved
    <3>1. p + Len(from) = p + n /\ Len(to) - Len(from) = more  BY <2>4
    <3> HIDE DEF more
    <3> QED  BY <1>1, <2>3, <2>5, <3>1 DEF Resized, moved
  <2>8. CASE more = 0 /\ b = buf
    <3>1. buf.gap \in Nat  BY <1>1 DEF Sound
    <3>5. Index(buf, p) \in Nat  BY <1>1, <2>3, <3>1 DEF Index
    <3>2. Sound(Write(buf, Index(buf, p), to)) /\ Size(Write(buf, Index(buf, p), to)) = Size(buf)
      BY <1>1, <2>3, <3>5, WriteSound
    <3>3. Sound(buf') /\ Size(buf') = Size(buf)
      BY <2>5, <2>8, <3>2, ScrubSound DEF Size, Room
    <3> QED  BY <1>1, <2>1, <2>2, <2>3, <2>8, <3>3 DEF IInv
  <2>9. ASSUME NEW m, Sound(m), m.gap = p + n, m.gap + more <= m.egap,
               b = [m EXCEPT !.gap = @ + more]
        PROVE  IInv'
    <3>1. p + Len(to) = m.gap + more /\ p \in 0..m.gap  BY <2>3, <2>9
    <3>2. b = [m EXCEPT !.gap = p + Len(to)]  BY <2>9, <3>1
    <3>3. b.gap = p + Len(to) /\ Room(b) \in Nat
      <4>1. PICK c, s1, g1, e1 : m = [store |-> s1, cap |-> c, gap |-> g1, egap |-> e1]  BY <2>9 DEF Sound
      <4>2. b.gap = p + Len(to) /\ b.egap = m.egap  BY <3>2, <4>1
      <4>3. m.gap \in Nat /\ m.egap \in Nat  BY <2>9 DEF Sound
      <4>4. b.egap - b.gap = m.egap - (m.gap + more)  BY <3>1, <4>2
      <4>5. m.egap - (m.gap + more) \in Nat  BY <2>3, <2>9, <4>3
      <4> QED  BY <4>2, <4>4, <4>5 DEF Room
    <3>4. to # <<>> => Len(to) > 0  BY <2>3
    <3>5. Index(b, p) \in Nat /\ (to # <<>> => Index(b, p) = p)  BY <2>3, <3>3, <3>4 DEF Index
    <3>6. Sound(buf') /\ p + Len(to) \in 0..Size(buf')
      <4> HIDE DEF more
      <4>1. p + Len(to) <= m.egap  BY <2>9, <3>1
      <4> QED  BY <2>3, <2>5, <2>9, <3>1, <3>2, <3>5, <4>1, ReplaceSound
    <3> QED  BY <1>1, <2>1, <2>2, <3>6 DEF IInv
  <2>10. CASE more < 0 /\ b = [moved EXCEPT !.gap = @ + more]
    <3>1. moved.gap + more <= moved.egap  BY <2>3, <2>6, <2>10 DEF Sound
    <3> HIDE DEF moved, more
    <3> QED  BY <2>6, <2>9, <2>10, <3>1
  <2>11. CASE more > 0 /\ more < Room(moved) /\ b = [moved EXCEPT !.gap = @ + more]
    <3>1. moved.gap + more <= moved.egap  BY <2>3, <2>6, <2>11 DEF Sound, Room
    <3> HIDE DEF moved, more
    <3> QED  BY <2>6, <2>9, <2>11, <3>1
  <2>12. ASSUME more > 0, NEW m \in GrowGap(moved, more), b = [m EXCEPT !.gap = @ + more]
         PROVE  IInv'
    <3>1. more \in Nat  BY <2>3, <2>12
    <3> HIDE DEF moved, more
    <3>2. Sound(m) /\ Room(m) >= Room(moved) + more /\ m.gap = moved.gap  BY <2>6, <2>12, <3>1, GrowGapSound
    <3>3. Room(moved) \in Nat  BY <2>6, SizeAndIndex
    <3>4. m.gap + more <= m.egap  BY <3>1, <3>2, <3>3 DEF Sound, Room
    <3> QED  BY <2>6, <2>9, <2>12, <3>2, <3>4
  <2> HIDE DEF moved, more
  <2> QED  BY <2>7, <2>8, <2>10, <2>11, <2>12
<1>15. CASE Left
  <2>1. LeftOf(buf, point) \in 0..point  BY <1>1, LeftInText
  <2> QED  BY <1>1, <1>15, <2>1 DEF Left, IInv
<1>16. CASE Right
  <2>1. RightOf(buf, point) \in 0..Size(buf)  BY <1>1, RightInText
  <2> QED  BY <1>1, <1>16, <2>1 DEF Right, IInv
<1>17. CASE SetPoint  BY <1>1, <1>17 DEF SetPoint, IInv
<1>18. CASE SetMark  BY <1>1, <1>18 DEF SetMark, IInv
<1>19. CASE ToggleOverwrite  BY <1>1, <1>19 DEF ToggleOverwrite, IInv
<1>20. CASE LoadFile
  <2> DEFINE empty == Emptied(buf)
  <2>1. PICK s \in Strings(MaxInsert) :
          \E room \in WithRoom(empty, Room(empty) >= Len(s), Len(s)) : buf' = Fill(MoveGap(room, 0), s)
    BY <1>20 DEF LoadFile
  <2>2. PICK room \in WithRoom(empty, Room(empty) >= Len(s), Len(s)) : buf' = Fill(MoveGap(room, 0), s)
    BY <2>1
  <2>3. point' = 0 /\ mark' = NoMark /\ overwrite' = overwrite  BY <1>20 DEF LoadFile
  <2>4. Sound(empty) /\ 0 \in 0..Size(empty)
    <3>1. Sound(empty)  BY <1>1, EmptiedSound
    <3> QED  BY <3>1, SizeAndIndex
  <2>5. \/ room = empty /\ Len(s) <= Room(empty)
        \/ room \in GrowGap(empty, Len(s))
    <3>1. Room(empty) \in Nat  BY <2>4, SizeAndIndex
    <3> QED  BY <1>2, <2>2, <3>1 DEF WithRoom
  <2>6. Sound(buf')
    <3>1. s \in Seq(Bytes) /\ Len(s) \in Nat /\ Len(s) <= Len(s)  BY <1>2
    <3> QED  BY <2>2, <2>4, <2>5, <3>1, FillKeeps
  <2> QED  BY <1>1, <2>3, <2>6, SizeAndIndex DEF IInv
<1>21. CASE UNCHANGED vars  BY <1>1, <1>21 DEF vars, IInv
<1> QED
  BY <1>3, <1>4, <1>5, <1>6, <1>7, <1>8, <1>9, <1>10, <1>11, <1>12, <1>13, <1>14,
     <1>15, <1>16, <1>17, <1>18, <1>19, <1>20, <1>21 DEF Next

-----------------------------------------------------------------------------
(* The theorems                                                              *)

(* The inductive invariant holds without the steps of ExtraSteps.           *)
LEMMA Inductive ==
  ASSUME Extras = {}
  PROVE  Spec => []IInv
<1>1. Init => IInv  BY InitIInv
<1>2. IInv /\ [Next]_vars => IInv'  BY StepIInv
<1> QED  BY <1>1, <1>2, PTL DEF Spec

(* Whatever sequence of edits, motions and marks: the store is a store, and  *)
(* the cursor and the mark are positions.                                    *)
THEOREM TypeCorrect ==
  ASSUME Extras = {}
  PROVE  Spec => []TypeOK
<1>1. IInv => TypeOK
  <2> SUFFICES ASSUME IInv PROVE TypeOK  OBVIOUS
  <2>1. buf \in [store : [0..(buf.cap - 1) -> Cells], cap : Nat, gap : Nat, egap : Nat]
    BY DEF IInv, Sound
  <2> QED  BY <2>1, SizeAndIndex DEF IInv, TypeOK
<1> QED  BY <1>1, Inductive, PTL

(* The assertions of gap.c hold for stores, texts and growths of any size.   *)
THEOREM AssertionsHold ==
  ASSUME Extras = {}
  PROVE  Spec => []GapOrdered
<1>1. IInv => GapOrdered  BY DEF IInv, Sound, GapOrdered, Size, Room
<1> QED  BY <1>1, Inductive, PTL

(* Nor does any byte of the gap, or of the memory after the store, ever show *)
(* in a text.                                                                *)
THEOREM NoJunkShown ==
  ASSUME Extras = {}
  PROVE  Spec => []NoJunkInText
<1>1. IInv => NoJunkInText  BY TextIsBytes DEF IInv, NoJunkInText
<1> QED  BY <1>1, Inductive, PTL

-----------------------------------------------------------------------------
(* The text as a sequence                                                    *)

(* n bytes at p give way to s, byte by byte.                                 *)
Spliced(t, p, n, s) ==
  [k \in 1..(Len(t) - n + Len(s)) |->
     IF k <= p THEN t[k] ELSE IF k <= p + Len(s) THEN s[k - p] ELSE t[k - Len(s) + n]]

(* There are n bytes at p in the text t.                                    *)
Splice(t, p, n) == /\ t \in Seq(Bytes) /\ Len(t) \in Nat
                   /\ p \in Nat /\ n \in Nat /\ p + n <= Len(t)

(* u is the text t with the n bytes at p replaced by s, read byte by byte.  *)
SplicedIs(t, p, n, s, u) ==
  /\ u \in Seq(Bytes) /\ Len(u) = Len(t) - n + Len(s)
  /\ \A k \in 1..(Len(t) - n + Len(s)) :
       u[k] = IF k <= p THEN t[k] ELSE IF k <= p + Len(s) THEN s[k - p] ELSE t[k - Len(s) + n]

(* A text with a part replaced is a text.                                    *)
LEMMA SplicedText ==
  ASSUME NEW t, NEW p, NEW n, Splice(t, p, n), NEW s \in Seq(Bytes)
  PROVE  SplicedIs(t, p, n, s, Spliced(t, p, n, s))
<1> DEFINE u == Spliced(t, p, n, s)
           v(k) == IF k <= p THEN t[k] ELSE IF k <= p + Len(s) THEN s[k - p] ELSE t[k - Len(s) + n]
<1>1. Len(s) \in Nat /\ Len(t) - n + Len(s) \in Nat  BY DEF Splice
<1>2. ASSUME NEW k \in 1..(Len(t) - n + Len(s)) PROVE v(k) \in Bytes
  <2>1. CASE k <= p
    <3>1. k \in 1..Len(t)  BY <1>1, <2>1 DEF Splice
    <3> QED  BY <2>1, <3>1 DEF Splice
  <2>2. CASE ~(k <= p) /\ k <= p + Len(s)
    <3>1. k - p \in 1..Len(s)  BY <1>1, <2>2 DEF Splice
    <3> QED  BY <2>2, <3>1
  <2>3. CASE ~(k <= p) /\ ~(k <= p + Len(s))
    <3>1. k - Len(s) + n \in 1..Len(t)  BY <1>1, <2>3 DEF Splice
    <3> QED  BY <2>3, <3>1 DEF Splice
  <2> QED  BY <2>1, <2>2, <2>3
<1>3. u = [k \in 1..(Len(t) - n + Len(s)) |-> v(k)]  BY DEF Spliced
<1> HIDE DEF u, v
<1>4. u \in Seq(Bytes) /\ Len(u) = Len(t) - n + Len(s)  BY <1>1, <1>2, <1>3
<1>5. \A k \in 1..(Len(t) - n + Len(s)) : u[k] = v(k)  BY <1>3
<1> QED  BY <1>4, <1>5 DEF u, v, SplicedIs

(* What Applied says, byte by byte.                                          *)
LEMMA InsertedText ==
  ASSUME NEW t, NEW p, Splice(t, p, 0), NEW s \in Seq(Bytes), NEW c,
         c.kind = "insert", c.pos = p, c.text = s
  PROVE  Applied(t, c) = Spliced(t, p, 0, s)
<1> DEFINE a == SubSeq(t, 1, p)  z == SubSeq(t, p + 1, Len(t))  u == Spliced(t, p, 0, s)
<1>1. Applied(t, c) = a \o s \o z  BY DEF Applied
<1>2. /\ a \in Seq(Bytes) /\ Len(a) = p /\ \A k \in 1..p : a[k] = t[k]
  BY DEF Splice
<1>3. /\ z \in Seq(Bytes) /\ Len(z) = Len(t) - p /\ \A k \in 1..(Len(t) - p) : z[k] = t[k + p]
  BY DEF Splice
<1>4. /\ u \in Seq(Bytes) /\ Len(u) = Len(t) + Len(s)
      /\ \A k \in 1..(Len(t) + Len(s)) : u[k] =
              IF k <= p THEN t[k] ELSE IF k <= p + Len(s) THEN s[k - p] ELSE t[k - Len(s)]
  <2>1. Len(t) - 0 + Len(s) = Len(t) + Len(s) /\ \A k \in Int : k - Len(s) + 0 = k - Len(s)  BY DEF Splice
  <2>2. 0 \in Nat  OBVIOUS
  <2>3. SplicedIs(t, p, 0, s, u)  BY <2>2, SplicedText
  <2> HIDE DEF u
  <2>4. 1..(Len(t) + Len(s)) \subseteq Int  OBVIOUS
  <2> QED  BY <2>1, <2>3, <2>4 DEF SplicedIs
<1>5. Len(s) \in Nat /\ Len(t) \in Nat /\ p \in Nat /\ p <= Len(t)  BY DEF Splice
<1> HIDE DEF a, z, u
<1>6. /\ a \o s \in Seq(Bytes) /\ Len(a \o s) = p + Len(s)
      /\ \A k \in 1..(p + Len(s)) : (a \o s)[k] = IF k <= p THEN a[k] ELSE s[k - p]
  BY <1>2, <1>5, ConcatProperties
<1> DEFINE h == a \o s
<1>7. /\ h \o z \in Seq(Bytes) /\ Len(h \o z) = Len(t) + Len(s)
      /\ \A k \in 1..(Len(t) + Len(s)) : (h \o z)[k] = IF k <= p + Len(s) THEN h[k] ELSE z[k - (p + Len(s))]
  <2>1. h \in Seq(Bytes) /\ Len(h) = p + Len(s)  BY <1>6
  <2> HIDE DEF h
  <2>2. Len(h) + Len(z) = Len(t) + Len(s)  BY <1>3, <1>5, <2>1
  <2>3. /\ h \o z \in Seq(Bytes) /\ Len(h \o z) = Len(h) + Len(z)
        /\ \A i \in 1..(Len(h) + Len(z)) : (h \o z)[i] = IF i <= Len(h) THEN h[i] ELSE z[i - Len(h)]
    BY <1>3, <2>1, ConcatProperties
  <2> QED  BY <2>1, <2>2, <2>3
<1>8. \A k \in 1..(Len(t) + Len(s)) : (h \o z)[k] = u[k]
  <2> TAKE k \in 1..(Len(t) + Len(s))
  <2>1. CASE k <= p
    <3>1. k \in 1..p /\ k \in 1..(p + Len(s)) /\ k <= p + Len(s)  BY <1>5, <2>1
    <3> QED  BY <1>2, <1>4, <1>6, <1>7, <2>1, <3>1
  <2>2. CASE ~(k <= p) /\ k <= p + Len(s)
    <3>1. k \in 1..(p + Len(s))  BY <1>5, <2>2
    <3> QED  BY <1>4, <1>6, <1>7, <2>2, <3>1
  <2>3. CASE ~(k <= p) /\ ~(k <= p + Len(s))
    <3>1. k - (p + Len(s)) \in 1..(Len(t) - p) /\ (k - (p + Len(s))) + p = k - Len(s)  BY <1>5, <2>3
    <3>2. (h \o z)[k] = z[k - (p + Len(s))]  BY <1>7, <2>3
    <3>3. u[k] = t[k - Len(s)]  BY <1>4, <2>3
    <3> HIDE DEF h
    <3>4. z[k - (p + Len(s))] = t[(k - (p + Len(s))) + p]  BY <1>3, <3>1
    <3> QED  BY <3>1, <3>2, <3>3, <3>4
  <2> QED  BY <2>1, <2>2, <2>3
<1>9. h \o z = u  BY <1>4, <1>7, <1>8, SeqEqual
<1> QED  BY <1>1, <1>9 DEF h, u

(* Applying a deletion takes its bytes out.                                 *)
LEMMA DeletedText ==
  ASSUME NEW t, NEW p, NEW s \in Seq(Bytes), Splice(t, p, Len(s)), NEW c,
         c.kind = "delete", c.pos = p, c.text = s
  PROVE  Applied(t, c) = Spliced(t, p, Len(s), <<>>)
<1> DEFINE a == SubSeq(t, 1, p)  n == Len(s)  z == SubSeq(t, p + n + 1, Len(t))  u == Spliced(t, p, n, <<>>)
<1>1. Applied(t, c) = a \o z  BY DEF Applied
<1>2. /\ a \in Seq(Bytes) /\ Len(a) = p /\ \A k \in 1..p : a[k] = t[k]
  BY DEF Splice
<1>3. /\ z \in Seq(Bytes) /\ Len(z) = Len(t) - n - p /\ \A k \in 1..(Len(t) - n - p) : z[k] = t[k + p + n]
  BY DEF Splice
<1>5. n \in Nat /\ Len(t) \in Nat /\ p \in Nat /\ p + n <= Len(t)  BY DEF Splice
<1>4. /\ u \in Seq(Bytes) /\ Len(u) = Len(t) - n
      /\ \A k \in 1..(Len(t) - n) : u[k] = IF k <= p THEN t[k] ELSE t[k + n]
  <2>1. Len(t) - n + 0 = Len(t) - n /\ Len(<<>>) = 0 /\ <<>> \in Seq(Bytes)  BY <1>5
  <2>2. \A k \in Int : k - 0 + n = k + n /\ (k <= p + 0 <=> k <= p)  BY <1>5
  <2>3. n \in Nat /\ Splice(t, p, n)  BY <1>5
  <2> HIDE DEF n
  <2>4. SplicedIs(t, p, n, <<>>, u)  BY <2>1, <2>3, SplicedText
  <2>5. 1..(Len(t) - n) \subseteq Int  OBVIOUS
  <2> HIDE DEF u
  <2> QED  BY <2>1, <2>2, <2>4, <2>5 DEF SplicedIs
<1> HIDE DEF a, z, u, n
<1>6. /\ a \o z \in Seq(Bytes) /\ Len(a \o z) = Len(t) - n
      /\ \A k \in 1..(Len(t) - n) : (a \o z)[k] = IF k <= p THEN a[k] ELSE z[k - p]
  <2>1. Len(a) + Len(z) = Len(t) - n  BY <1>2, <1>3, <1>5
  <2>2. /\ a \o z \in Seq(Bytes) /\ Len(a \o z) = Len(a) + Len(z)
        /\ \A i \in 1..(Len(a) + Len(z)) : (a \o z)[i] = IF i <= Len(a) THEN a[i] ELSE z[i - Len(a)]
    BY <1>2, <1>3, ConcatProperties
  <2> QED  BY <1>2, <2>1, <2>2
<1>8. \A k \in 1..(Len(t) - n) : (a \o z)[k] = u[k]
  <2> TAKE k \in 1..(Len(t) - n)
  <2>1. CASE k <= p
    <3>1. k \in 1..p  BY <1>5, <2>1
    <3> QED  BY <1>2, <1>4, <1>6, <2>1, <3>1
  <2>2. CASE ~(k <= p)
    <3>1. k - p \in 1..(Len(t) - n - p) /\ k - p + p + n = k + n  BY <1>5, <2>2
    <3> QED  BY <1>3, <1>4, <1>6, <2>2, <3>1
  <2> QED  BY <2>1, <2>2
<1>9. a \o z = u  BY <1>4, <1>6, <1>8, SeqEqual
<1> QED  BY <1>1, <1>9 DEF n, u

(* Deleting and then inserting at the same place replaces.                   *)
LEMMA SpliceTwice ==
  ASSUME NEW t, NEW p, NEW n, Splice(t, p, n), NEW s \in Seq(Bytes)
  PROVE  /\ Splice(Spliced(t, p, n, <<>>), p, 0)
         /\ Spliced(Spliced(t, p, n, <<>>), p, 0, s) = Spliced(t, p, n, s)
<1> DEFINE v == Spliced(t, p, n, <<>>)  u == Spliced(t, p, n, s)  w == Spliced(v, p, 0, s)
<1>1. /\ <<>> \in Seq(Bytes) /\ Len(<<>>) = 0 /\ Len(s) \in Nat /\ 0 \in Nat
      /\ Len(t) \in Nat /\ p \in Nat /\ n \in Nat /\ p + n <= Len(t)
  BY DEF Splice
<1>2. SplicedIs(t, p, n, <<>>, v) /\ SplicedIs(t, p, n, s, u)  BY <1>1, SplicedText
<1> HIDE DEF u, v
<1>3. v \in Seq(Bytes) /\ Len(v) = Len(t) - n  BY <1>1, <1>2 DEF SplicedIs
<1>4. Splice(v, p, 0)  BY <1>1, <1>3 DEF Splice
<1>5. SplicedIs(v, p, 0, s, w)  BY <1>4, SplicedText
<1> HIDE DEF w
<1>6. Len(v) - 0 + Len(s) = Len(t) - n + Len(s)  BY <1>1, <1>3
<1>7. ASSUME NEW k \in 1..(Len(t) - n + Len(s)) PROVE w[k] = u[k]
  <2>1. /\ w[k] = IF k <= p THEN v[k] ELSE IF k <= p + Len(s) THEN s[k - p] ELSE v[k - Len(s) + 0]
        /\ u[k] = IF k <= p THEN t[k] ELSE IF k <= p + Len(s) THEN s[k - p] ELSE t[k - Len(s) + n]
    BY <1>2, <1>5, <1>6 DEF SplicedIs
  <2>2. CASE k <= p
    <3>1. k \in 1..(Len(t) - n + Len(<<>>))  BY <1>1, <2>2
    <3> QED  BY <1>2, <2>1, <2>2, <3>1 DEF SplicedIs
  <2>3. CASE ~(k <= p) /\ ~(k <= p + Len(s))
    <3> DEFINE j == k - Len(s) + 0
    <3>1. /\ j \in 1..(Len(t) - n + Len(<<>>)) /\ ~(j <= p) /\ ~(j <= p + Len(<<>>))
          /\ j - Len(<<>>) + n = k - Len(s) + n
      BY <1>1, <2>3
    <3> HIDE DEF j
    <3>2. v[j] = t[j - Len(<<>>) + n]  BY <1>2, <3>1 DEF SplicedIs
    <3> QED  BY <2>1, <2>3, <3>1, <3>2 DEF j
  <2> QED  BY <2>1, <2>2, <2>3
<1>8. w = u
  <2>1. w \in Seq(Bytes) /\ Len(w) = Len(t) - n + Len(s) /\ u \in Seq(Bytes) /\ Len(u) = Len(t) - n + Len(s)
    BY <1>2, <1>5, <1>6 DEF SplicedIs
  <2> QED  BY <1>7, <2>1, SeqEqual
<1> QED  BY <1>4, <1>8 DEF u, v, w

(* What was replaced, put back in place of what replaced it, gives the old   *)
(* text.                                                                     *)
LEMMA SpliceBack ==
  ASSUME NEW t, NEW p, NEW n, Splice(t, p, n), NEW s \in Seq(Bytes)
  PROVE  /\ Splice(Spliced(t, p, n, s), p, Len(s))
         /\ SubSeq(t, p + 1, p + n) \in Seq(Bytes) /\ Len(SubSeq(t, p + 1, p + n)) = n
         /\ Spliced(Spliced(t, p, n, s), p, Len(s), SubSeq(t, p + 1, p + n)) = t
<1> DEFINE u == Spliced(t, p, n, s)  d == SubSeq(t, p + 1, p + n)  w == Spliced(u, p, Len(s), d)
<1>1. /\ Len(s) \in Nat /\ t \in Seq(Bytes)
      /\ Len(t) \in Nat /\ p \in Nat /\ n \in Nat /\ p + n <= Len(t)
  BY DEF Splice
<1>2. SplicedIs(t, p, n, s, u)  BY SplicedText
<1>3. d \in Seq(Bytes) /\ Len(d) = n /\ \A k \in 1..n : d[k] = t[k + p]
  <2>1. d \in Seq(Bytes)  BY <1>1
  <2>2. (p + n) - (p + 1) + 1 = n /\ p + 1 \in Nat /\ p + n \in Nat  BY <1>1
  <2>3. Len(d) = n  BY <1>1, <2>2
  <2>4. ASSUME NEW k \in 1..n PROVE d[k] = t[k + p]
    <3>1. (p + 1) + k - 1 = k + p  BY <1>1
    <3> QED  BY <1>1, <2>3, <3>1
  <2> QED  BY <2>1, <2>3, <2>4
<1> HIDE DEF u, d
<1>4. u \in Seq(Bytes) /\ Len(u) = Len(t) - n + Len(s)  BY <1>2 DEF SplicedIs
<1>5. Splice(u, p, Len(s))  BY <1>1, <1>4 DEF Splice
<1>6. SplicedIs(u, p, Len(s), d, w)  BY <1>3, <1>5, SplicedText
<1> HIDE DEF w
<1>7. Len(u) - Len(s) + Len(d) = Len(t)  BY <1>1, <1>3, <1>4
<1>8. ASSUME NEW k \in 1..Len(t) PROVE w[k] = t[k]
  <2>1. w[k] = IF k <= p THEN u[k] ELSE IF k <= p + n THEN d[k - p] ELSE u[k - n + Len(s)]
    BY <1>3, <1>6, <1>7 DEF SplicedIs
  <2>2. CASE k <= p
    <3>1. k \in 1..(Len(t) - n + Len(s))  BY <1>1, <2>2
    <3> QED  BY <1>2, <2>1, <2>2, <3>1 DEF SplicedIs
  <2>3. CASE ~(k <= p) /\ k <= p + n
    <3>1. k - p \in 1..n /\ (k - p) + p = k  BY <1>1, <2>3
    <3> QED  BY <1>3, <2>1, <2>3, <3>1
  <2>4. CASE ~(k <= p) /\ ~(k <= p + n)
    <3> DEFINE j == k - n + Len(s)
    <3>1. /\ j \in 1..(Len(t) - n + Len(s)) /\ ~(j <= p) /\ ~(j <= p + Len(s))
          /\ j - Len(s) + n = k
      BY <1>1, <2>4
    <3> HIDE DEF j
    <3>2. u[j] = t[j - Len(s) + n]  BY <1>2, <3>1 DEF SplicedIs
    <3> QED  BY <2>1, <2>4, <3>1, <3>2 DEF j
  <2> QED  BY <2>2, <2>3, <2>4
<1>9. w = t
  <2>1. w \in Seq(Bytes) /\ Len(w) = Len(t)  BY <1>6, <1>7 DEF SplicedIs
  <2> QED  BY <1>1, <1>8, <2>1, SeqEqual
<1> QED  BY <1>3, <1>5, <1>9 DEF u, d, w

-----------------------------------------------------------------------------
(* Reports                                                                   *)

(* The lemmas on folds, for applying changes and for reverting them.        *)
AP == INSTANCE Folding WITH Op <- Applied
RV == INSTANCE Folding WITH Op <- Reverted

(* A step reports at most two changes: a fold over them is written out.      *)
TwoApplied(t, r, n) ==
  IF n = 0 THEN t ELSE IF n = 1 THEN Applied(t, r[1]) ELSE Applied(Applied(t, r[1]), r[2])
TwoReverted(t, r, n) ==
  IF n = 0 THEN t ELSE IF n = 1 THEN Reverted(t, r[1]) ELSE Reverted(Reverted(t, r[1]), r[2])

(* A fold over at most two reports, applied or reverted, is the one         *)
(* written out.                                                             *)
LEMMA FoldOfTwo ==
  ASSUME NEW t, NEW r, NEW n \in 0..2, DOMAIN r = 1..n
  PROVE  FoldLeft(Applied, t, r) = TwoApplied(t, r, n) /\ FoldLeft(Reverted, t, r) = TwoReverted(t, r, n)
<1>1. n \in Nat /\ n \in {0, 1, 2}  OBVIOUS
<1>2. FoldLeft(Applied, t, r) = TwoApplied(t, r, n)
  <2> DEFINE g == [i \in 0..n |-> TwoApplied(t, r, i)]
  <2>1. AP!Along(g, t, r, n)
    <3>1. g[0] = t  BY DEF TwoApplied
    <3>2. \A i \in 1..n : g[i] = Applied(g[i - 1], r[i])
      <4> TAKE i \in 1..n
      <4>1. i \in {1, 2} /\ i \in 0..n /\ i - 1 \in 0..n  BY <1>1
      <4>2. g[i] = TwoApplied(t, r, i) /\ g[i - 1] = TwoApplied(t, r, i - 1)  BY <4>1
      <4> HIDE DEF g
      <4>3. CASE i = 1  BY <4>2, <4>3 DEF TwoApplied
      <4>4. CASE i = 2  BY <4>2, <4>4 DEF TwoApplied
      <4> QED  BY <4>1, <4>3, <4>4
    <3> HIDE DEF g
    <3> QED  BY <3>1, <3>2 DEF AP!Along
  <2>2. g[n] = TwoApplied(t, r, n)  OBVIOUS
  <2> HIDE DEF g
  <2>3. AP!Fold(t, r) = g[n]  BY <1>1, <2>1, AP!FoldIs
  <2>4. FoldLeft(Applied, t, r) = AP!Fold(t, r)  BY DEF AP!Fold, AP!LastOf, FoldLeft, MapThenFoldSet, Max
  <2> QED  BY <2>2, <2>3, <2>4
<1>3. FoldLeft(Reverted, t, r) = TwoReverted(t, r, n)
  <2> DEFINE g == [i \in 0..n |-> TwoReverted(t, r, i)]
  <2>1. RV!Along(g, t, r, n)
    <3>1. g[0] = t  BY DEF TwoReverted
    <3>2. \A i \in 1..n : g[i] = Reverted(g[i - 1], r[i])
      <4> TAKE i \in 1..n
      <4>1. i \in {1, 2} /\ i \in 0..n /\ i - 1 \in 0..n  BY <1>1
      <4>2. g[i] = TwoReverted(t, r, i) /\ g[i - 1] = TwoReverted(t, r, i - 1)  BY <4>1
      <4> HIDE DEF g
      <4>3. CASE i = 1  BY <4>2, <4>3 DEF TwoReverted
      <4>4. CASE i = 2  BY <4>2, <4>4 DEF TwoReverted
      <4> QED  BY <4>1, <4>3, <4>4
    <3> HIDE DEF g
    <3> QED  BY <3>1, <3>2 DEF RV!Along
  <2>2. g[n] = TwoReverted(t, r, n)  OBVIOUS
  <2> HIDE DEF g
  <2>3. RV!Fold(t, r) = g[n]  BY <1>1, <2>1, RV!FoldIs
  <2>4. FoldLeft(Reverted, t, r) = RV!Fold(t, r)  BY DEF RV!Fold, RV!LastOf, FoldLeft, MapThenFoldSet, Max
  <2> QED  BY <2>2, <2>3, <2>4
<1> QED  BY <1>2, <1>3

(* Sequences of at most two elements.                                        *)
LEMMA TwoAtMost ==
  ASSUME NEW x, NEW y
  PROVE  /\ <<x>> \o <<y>> = <<x, y>> /\ <<x>> \o <<>> = <<x>> /\ <<>> \o <<y>> = <<y>> /\ <<>> \o <<>> = <<>>
         /\ Reverse(<<x, y>>) = <<y, x>> /\ Reverse(<<x>>) = <<x>> /\ Reverse(<<>>) = <<>>
<1>1. Reverse(<<x, y>>) = <<y, x>>
  <2>1. Len(<<x, y>>) = 2 /\ <<x, y>>[1] = x /\ <<x, y>>[2] = y  OBVIOUS
  <2>2. Reverse(<<x, y>>) = [i \in 1..2 |-> <<x, y>>[(2 - i) + 1]]  BY <2>1 DEF Reverse
  <2>3. \A i \in 1..2 : <<x, y>>[(2 - i) + 1] = <<y, x>>[i]
    <3> TAKE i \in 1..2
    <3>1. CASE i = 1  BY <3>1
    <3>2. CASE i = 2  BY <3>2
    <3> QED  BY <3>1, <3>2
  <2>4. <<y, x>> = [i \in 1..2 |-> <<y, x>>[i]]  OBVIOUS
  <2> QED  BY <2>2, <2>3, <2>4
<1>2. Reverse(<<x>>) = <<x>>
  <2>1. Reverse(<<x>>) = [i \in 1..1 |-> <<x>>[(1 - i) + 1]]  BY DEF Reverse
  <2>2. \A i \in 1..1 : <<x>>[(1 - i) + 1] = <<x>>[i]
    <3> TAKE i \in 1..1
    <3>1. i = 1  OBVIOUS
    <3> QED  BY <3>1
  <2>3. <<x>> = [i \in 1..1 |-> <<x>>[i]]  OBVIOUS
  <2> QED  BY <2>1, <2>2, <2>3
<1>3. Reverse(<<>>) = <<>>  BY DEF Reverse
<1>4. <<x>> \o <<y>> = <<x, y>>
  <2> DEFINE S == {x, y}  a == <<x>>  b == <<y>>  c == <<x, y>>
  <2>1. a \in Seq(S) /\ b \in Seq(S) /\ c \in Seq(S)  OBVIOUS
  <2>2. Len(a) = 1 /\ Len(b) = 1 /\ Len(c) = 2 /\ a[1] = x /\ b[1] = y /\ c[1] = x /\ c[2] = y  OBVIOUS
  <2> HIDE DEF S, a, b, c
  <2>7. a \o b \in Seq(S) /\ Len(a \o b) = Len(a) + Len(b)  BY <2>1, ConcatProperties
  <2>3. a \o b \in Seq(S) /\ Len(a \o b) = 2  BY <2>2, <2>7
  <2>4. \A i \in 1..2 : (a \o b)[i] = IF i <= 1 THEN a[i] ELSE b[i - 1]  BY <2>1, <2>2, ConcatProperties
  <2>5. \A i \in 1..2 : (a \o b)[i] = c[i]  BY <2>2, <2>4
  <2>6. a \o b = c  BY <2>1, <2>2, <2>3, <2>5, SeqEqual
  <2> QED  BY <2>6 DEF a, b, c
<1>5. <<x>> \o <<>> = <<x>>
  <2>1. <<x>> \in Seq({x})  OBVIOUS
  <2> QED  BY <2>1, ConcatEmptySeq
<1>6. <<>> \o <<y>> = <<y>>
  <2>1. <<y>> \in Seq({y})  OBVIOUS
  <2> QED  BY <2>1, ConcatEmptySeq
<1>7. <<>> \o <<>> = <<>>
  <2>1. <<>> \in Seq({x})  OBVIOUS
  <2> QED  BY <2>1, ConcatEmptySeq
<1> QED  BY <1>1, <1>2, <1>3, <1>4, <1>5, <1>6, <1>7

(* The reports r lead from the text t to u, and reverted in reverse order   *)
(* back again.                                                              *)
Explained(t, r, u) ==
  /\ u = FoldLeft(Applied, t, r)
  /\ t = FoldLeft(Reverted, u, Reverse(r))

(* One change, applied and reverted.                                         *)
LEMMA OneChange ==
  ASSUME NEW p, NEW s \in Seq(Bytes)
  PROVE  LET ins == [kind |-> "insert", pos |-> p, text |-> s]
             del == [kind |-> "delete", pos |-> p, text |-> s]
         IN  /\ \A t : Splice(t, p, 0) => Applied(t, ins) = Spliced(t, p, 0, s) /\ Reverted(t, del) = Spliced(t, p, 0, s)
             /\ \A t : Splice(t, p, Len(s)) =>
                  Applied(t, del) = Spliced(t, p, Len(s), <<>>) /\ Reverted(t, ins) = Spliced(t, p, Len(s), <<>>)
<1> DEFINE ins == [kind |-> "insert", pos |-> p, text |-> s]
           del == [kind |-> "delete", pos |-> p, text |-> s]
<1>1. \A t : Reverted(t, ins) = Applied(t, del) /\ Reverted(t, del) = Applied(t, ins)
  <2>1. [ins EXCEPT !.kind = IF @ = "insert" THEN "delete" ELSE "insert"] = del  OBVIOUS
  <2>2. [del EXCEPT !.kind = IF @ = "insert" THEN "delete" ELSE "insert"] = ins  OBVIOUS
  <2> QED  BY <2>1, <2>2 DEF Reverted
<1>2. ins.kind = "insert" /\ ins.pos = p /\ ins.text = s /\ del.kind = "delete" /\ del.pos = p /\ del.text = s
  OBVIOUS
<1> HIDE DEF ins, del
<1>3. \A t : Splice(t, p, 0) => Applied(t, ins) = Spliced(t, p, 0, s)  BY <1>2, InsertedText
<1>4. \A t : Splice(t, p, Len(s)) => Applied(t, del) = Spliced(t, p, Len(s), <<>>)  BY <1>2, DeletedText
<1> QED  BY <1>1, <1>3, <1>4 DEF ins, del

(* No bytes in place of no bytes.                                            *)
LEMMA NothingSpliced ==
  ASSUME NEW t, NEW p, Splice(t, p, 0)
  PROVE  Spliced(t, p, 0, <<>>) = t
<1> DEFINE u == Spliced(t, p, 0, <<>>)
<1>1. <<>> \in Seq(Bytes) /\ Len(<<>>) = 0 /\ Len(t) \in Nat /\ t \in Seq(Bytes) /\ p \in Nat  BY DEF Splice
<1>2. SplicedIs(t, p, 0, <<>>, u)  BY <1>1, SplicedText
<1> HIDE DEF u
<1>3. u \in Seq(Bytes) /\ Len(u) = Len(t)  BY <1>1, <1>2 DEF SplicedIs
<1>4. ASSUME NEW k \in 1..Len(t) PROVE u[k] = t[k]
  <2>1. k \in 1..(Len(t) - 0 + Len(<<>>)) /\ k - Len(<<>>) + 0 = k /\ (k <= p + Len(<<>>) <=> k <= p)  BY <1>1
  <2> QED  BY <1>2, <2>1 DEF SplicedIs
<1> QED  BY <1>1, <1>3, <1>4, SeqEqual DEF u

(* A replacement, reported as what went and what came, is explained.         *)
LEMMA SpliceExplained ==
  ASSUME NEW t, NEW p, NEW n, Splice(t, p, n), NEW s \in Seq(Bytes)
  PROVE  Explained(t, Report("delete", p, SubSeq(t, p + 1, p + n)) \o Report("insert", p, s), Spliced(t, p, n, s))
<1> DEFINE d == SubSeq(t, p + 1, p + n)  u == Spliced(t, p, n, s)
           v == Spliced(t, p, n, <<>>)
           ins == [kind |-> "insert", pos |-> p, text |-> s]
           del == [kind |-> "delete", pos |-> p, text |-> d]
           r == Report("delete", p, d) \o Report("insert", p, s)
<1>1. /\ <<>> \in Seq(Bytes) /\ Len(<<>>) = 0 /\ Len(s) \in Nat /\ 0 \in Nat
      /\ Len(t) \in Nat /\ p \in Nat /\ n \in Nat /\ p + n <= Len(t)
  BY DEF Splice
<1>2. d \in Seq(Bytes) /\ Len(d) = n /\ Splice(u, p, Len(s)) /\ Spliced(u, p, Len(s), d) = t  BY SpliceBack
<1>3. Splice(v, p, 0) /\ Spliced(v, p, 0, s) = u  BY SpliceTwice
<1>4. Spliced(u, p, Len(s), <<>>) = v
  <2>1. Splice(v, p, 0)  BY <1>3
  <2>2. SubSeq(v, p + 1, p + 0) = <<>>
    <3>1. p + 0 = p /\ p + 1 \in Nat /\ v \in Seq(Bytes)  BY <1>1, <1>3 DEF Splice
    <3>2. SubSeq(v, p + 1, p) = <<>>
      <4> HIDE DEF v
      <4>1. SubSeq(v, p + 1, p) = [i \in 1..(p - (p + 1) + 1) |-> v[p + 1 + i - 1]]  BY <1>1, <3>1
      <4>2. p - (p + 1) + 1 = 0  BY <1>1
      <4> DEFINE z == SubSeq(v, p + 1, p)
      <4>3. z \in Seq(Bytes) /\ Len(z) = 0  BY <1>1, <3>1
      <4> HIDE DEF z
      <4>4. z = <<>>  BY <4>3
      <4> QED  BY <4>4 DEF z
    <3> QED  BY <3>1, <3>2
  <2>3. Spliced(Spliced(v, p, 0, s), p, Len(s), SubSeq(v, p + 1, p + 0)) = v  BY <2>1, SpliceBack
  <2> QED  BY <1>3, <2>2, <2>3
<1>5. Spliced(v, p, 0, d) = t
  <2>1. Spliced(Spliced(u, p, Len(s), <<>>), p, 0, d) = Spliced(u, p, Len(s), d)  BY ZenonT(60), <1>2, SpliceTwice
  <2> QED  BY <1>2, <1>4, <2>1
<1>6. s = <<>> => u = v /\ Len(s) = 0  BY <1>1
<1>7. d = <<>> => n = 0 /\ v = t  
  <2>1. ASSUME d = <<>> PROVE n = 0 /\ v = t
    <3>1. n = 0  BY <1>1, <1>2, <2>1
    <3> QED  BY <3>1, NothingSpliced
  <2> QED  BY <2>1
<1>8. /\ Applied(t, del) = v /\ Reverted(v, del) = t
      /\ Applied(v, ins) = u /\ Reverted(u, ins) = v
  <2>1. Splice(t, p, Len(d)) /\ Spliced(t, p, Len(d), <<>>) = v  BY <1>2
  <2> QED  BY ZenonT(60), <1>2, <1>3, <1>4, <1>5, <2>1, OneChange
<1> HIDE DEF d, u, v, ins, del
<1>9. CASE d # <<>> /\ s # <<>>
  <2>1. r = <<del, ins>>
    <3>1. Report("delete", p, d) = <<del>> /\ Report("insert", p, s) = <<ins>>  BY <1>9 DEF Report, del, ins
    <3> QED  BY <3>1, TwoAtMost
  <2>2. Reverse(r) = <<ins, del>>  BY <2>1, TwoAtMost
  <2>3. FoldLeft(Applied, t, <<del, ins>>) = u
    <3>1. FoldLeft(Applied, t, <<del, ins>>) = TwoApplied(t, <<del, ins>>, 2)  BY FoldOfTwo
    <3> QED  BY <1>8, <3>1 DEF TwoApplied
  <2>4. FoldLeft(Reverted, u, <<ins, del>>) = t
    <3>1. FoldLeft(Reverted, u, <<ins, del>>) = TwoReverted(u, <<ins, del>>, 2)  BY FoldOfTwo
    <3> QED  BY <1>8, <3>1 DEF TwoReverted
  <2> QED  BY <2>1, <2>2, <2>3, <2>4 DEF Explained, d, u
<1>10. CASE d # <<>> /\ s = <<>>
  <2>1. r = <<del>>
    <3>1. Report("delete", p, d) = <<del>> /\ Report("insert", p, s) = <<>>  BY <1>10 DEF Report, del
    <3> QED  BY <3>1, TwoAtMost
  <2>2. Reverse(r) = <<del>>  BY <2>1, TwoAtMost
  <2>3. FoldLeft(Applied, t, <<del>>) = v
    <3>1. FoldLeft(Applied, t, <<del>>) = TwoApplied(t, <<del>>, 1)  BY FoldOfTwo
    <3> QED  BY <1>8, <3>1 DEF TwoApplied
  <2>4. FoldLeft(Reverted, v, <<del>>) = t
    <3>1. FoldLeft(Reverted, v, <<del>>) = TwoReverted(v, <<del>>, 1)  BY FoldOfTwo
    <3> QED  BY <1>8, <3>1 DEF TwoReverted
  <2> QED  BY <1>6, <1>10, <2>1, <2>2, <2>3, <2>4 DEF Explained, d, u
<1>11. CASE d = <<>> /\ s # <<>>
  <2>1. r = <<ins>>
    <3>1. Report("delete", p, d) = <<>> /\ Report("insert", p, s) = <<ins>>  BY <1>11 DEF Report, ins
    <3> QED  BY <3>1, TwoAtMost
  <2>2. Reverse(r) = <<ins>>  BY <2>1, TwoAtMost
  <2>3. FoldLeft(Applied, t, <<ins>>) = u
    <3>1. FoldLeft(Applied, t, <<ins>>) = TwoApplied(t, <<ins>>, 1)  BY FoldOfTwo
    <3> QED  BY <1>7, <1>8, <1>11, <3>1 DEF TwoApplied
  <2>4. FoldLeft(Reverted, u, <<ins>>) = t
    <3>1. FoldLeft(Reverted, u, <<ins>>) = TwoReverted(u, <<ins>>, 1)  BY FoldOfTwo
    <3> QED  BY <1>7, <1>8, <1>11, <3>1 DEF TwoReverted
  <2> QED  BY <2>1, <2>2, <2>3, <2>4 DEF Explained, d, u
<1>12. CASE d = <<>> /\ s = <<>>
  <2>1. r = <<>>  BY <1>12, TwoAtMost DEF Report
  <2>2. Reverse(r) = <<>>  BY <2>1, TwoAtMost
  <2>3. FoldLeft(Applied, t, <<>>) = t /\ FoldLeft(Reverted, t, <<>>) = t
    <3>1. DOMAIN <<>> = 1..0 /\ 0 \in 0..2  OBVIOUS
    <3>2. FoldLeft(Applied, t, <<>>) = TwoApplied(t, <<>>, 0) /\ FoldLeft(Reverted, t, <<>>) = TwoReverted(t, <<>>, 0)
      BY <3>1, FoldOfTwo
    <3> QED  BY <3>2 DEF TwoApplied, TwoReverted
  <2> QED  BY <1>6, <1>7, <1>12, <2>1, <2>2, <2>3 DEF Explained, d, u
<1> QED  BY <1>9, <1>10, <1>11, <1>12

-----------------------------------------------------------------------------
(* The text of a store                                                       *)

(* The text is read off the store.                                           *)
LEMMA TextHeld ==
  ASSUME NEW b, Sound(b)
  PROVE  /\ TextOf(b) \in Seq(Bytes) /\ Len(TextOf(b)) = Size(b)
         /\ \A q \in 0..(Size(b) - 1) :
              /\ TextOf(b)[q + 1] = b.store[Index(b, q)] /\ ByteAt(b, q) = b.store[Index(b, q)]
<1>1. Size(b) \in Nat /\ TextOf(b) = [k \in 1..Size(b) |-> ByteAt(b, k - 1)]  BY SizeAndIndex DEF TextOf
<1>2. \A k \in 1..Size(b) : TextOf(b)[k] \in Bytes  BY TextIsBytes
<1>3. TextOf(b) \in Seq(Bytes) /\ Len(TextOf(b)) = Size(b)  BY <1>1, <1>2
<1>4. ASSUME NEW q \in 0..(Size(b) - 1)
      PROVE  TextOf(b)[q + 1] = b.store[Index(b, q)] /\ ByteAt(b, q) = b.store[Index(b, q)]
  <2>1. q + 1 \in 1..Size(b) /\ (q + 1) - 1 = q  BY <1>1
  <2>2. Index(b, q) \in 0..(b.cap - 1)  BY SizeAndIndex
  <2> QED  BY <1>1, <2>1, <2>2 DEF ByteAt, Cell
<1> QED  BY <1>3, <1>4

(* ... and what can be read off it is the text.                              *)
LEMMA TextIs ==
  ASSUME NEW b, Sound(b), NEW u \in Seq(Bytes), Len(u) = Size(b),
         \A q \in 0..(Size(b) - 1) : b.store[Index(b, q)] = u[q + 1]
  PROVE  TextOf(b) = u
<1>1. TextOf(b) \in Seq(Bytes) /\ Len(TextOf(b)) = Size(b)  BY TextHeld
<1>2. ASSUME NEW k \in 1..Len(u) PROVE TextOf(b)[k] = u[k]
  <2>1. k - 1 \in 0..(Size(b) - 1) /\ (k - 1) + 1 = k  BY SizeAndIndex
  <2>2. TextOf(b)[(k - 1) + 1] = b.store[Index(b, k - 1)]  BY <2>1, TextHeld
  <2> QED  BY <2>1, <2>2
<1> QED  BY <1>1, <1>2, SeqEqual

(* Growing the gap does not change the text.                                 *)
LEMMA GrowGapKeepsText ==
  ASSUME NEW b, Sound(b), NEW n \in Nat, NEW g \in GrowGap(b, n)
  PROVE  TextOf(g) = TextOf(b)
<1> DEFINE more == Bigger(n, MinGap)
           larger == [i \in 0..(b.cap + more - 1) |->
                        CASE i < b.gap -> b.store[i]
                          [] i >= b.egap + more -> b.store[i - more]
                          [] OTHER -> Junk]
<1>1. more \in Nat  BY SizesAreNat DEF Bigger
<1>2. g = [store |-> larger, cap |-> b.cap + more, gap |-> b.gap, egap |-> b.egap + more]
  BY DEF GrowGap
<1> HIDE DEF more
<1>3. g.store = larger /\ g.cap = b.cap + more /\ g.gap = b.gap /\ g.egap = b.egap + more
  <2> HIDE DEF larger
  <2> QED  BY <1>2
<1>4. Sound(g) /\ Size(g) = Size(b)  BY GrowGapSound
<1>5. b.cap \in Nat /\ b.gap \in Nat /\ b.egap \in Nat /\ b.gap <= b.egap /\ b.egap <= b.cap  BY DEF Sound
<1>6. ASSUME NEW q \in 0..(Size(b) - 1) PROVE g.store[Index(g, q)] = b.store[Index(b, q)]
  <2>1. CASE q < b.gap
    <3>1. Index(g, q) = q /\ Index(b, q) = q  BY <1>3, <2>1 DEF Index
    <3>2. q \in 0..(b.cap + more - 1)  BY <1>1, <1>5, <2>1
    <3>3. larger[q] = b.store[q]  BY <2>1, <3>2, <1>1, <1>5
    <3> QED  BY <1>3, <3>1, <3>3
  <2>2. CASE ~(q < b.gap)
    <3> DEFINE j == q + Room(b)
    <3>1. Index(b, q) = j /\ Index(g, q) = j + more  BY <1>1, <1>3, <1>5, <2>2 DEF Index, Room
    <3>2. j \in Nat /\ j + more >= b.egap + more /\ j + more \in 0..(b.cap + more - 1) /\ (j + more) - more = j
      BY <1>1, <1>5, <2>2 DEF Room, Size
    <3>3. ~(j + more < b.gap)  BY <1>1, <1>5, <2>2, <3>2
    <3> HIDE DEF j
    <3>4. larger[j + more] = b.store[(j + more) - more]  BY <3>2, <3>3
    <3> HIDE DEF larger
    <3> QED  BY <1>3, <3>1, <3>2, <3>4
  <2> QED  BY <2>1, <2>2
<1>7. \A q \in 0..(Size(g) - 1) : g.store[Index(g, q)] = TextOf(b)[q + 1]
  BY <1>4, <1>6, TextHeld
<1> QED  BY <1>4, <1>7, TextHeld, TextIs

(* Bytes written into the gap stand in the text at the gap.                  *)
LEMMA FillText ==
  ASSUME NEW b, Sound(b), NEW s \in Seq(Bytes), Len(s) <= Room(b)
  PROVE  /\ Splice(TextOf(b), b.gap, 0)
         /\ TextOf(Fill(b, s)) = Spliced(TextOf(b), b.gap, 0, s)
<1> DEFINE f == Fill(b, s)  t == TextOf(b)  u == Spliced(t, b.gap, 0, s)
           written == [j \in 0..(b.cap - 1) |->
                         IF b.gap <= j /\ j < b.gap + Len(s) THEN s[j - b.gap + 1] ELSE b.store[j]]
<1>1. /\ Len(s) \in Nat /\ b.gap + Len(s) <= b.egap /\ b.gap <= Size(b) /\ Size(b) \in Nat
      /\ b.cap \in Nat /\ b.gap \in Nat /\ b.egap \in Nat /\ b.gap <= b.egap /\ b.egap <= b.cap
      /\ Size(b) = b.cap - (b.egap - b.gap)
  <2>1. b.cap \in Nat /\ b.gap \in Nat /\ b.egap \in Nat /\ b.gap <= b.egap /\ b.egap <= b.cap  BY DEF Sound
  <2>2. Len(s) \in Nat  OBVIOUS
  <2> QED  BY <2>1, <2>2, SizeAndIndex DEF Size, Room
<1>2. f.store = written
  <2>1. Write(b, b.gap, s) = [store |-> written, cap |-> b.cap, gap |-> b.gap, egap |-> b.egap]
    BY Fields DEF Write
  <2> HIDE DEF written
  <2> QED  BY <2>1 DEF Fill
<1>3. /\ Sound(f) /\ Size(f) = Size(b) + Len(s)
      /\ f.gap = b.gap + Len(s) /\ f.egap = b.egap /\ f.cap = b.cap
  BY FillSound
<1>4. t \in Seq(Bytes) /\ Len(t) = Size(b)  BY TextHeld
<1>5. Splice(t, b.gap, 0)  BY <1>1, <1>4 DEF Splice
<1>6. SplicedIs(t, b.gap, 0, s, u)  BY <1>5, SplicedText
<1>7. u \in Seq(Bytes) /\ Len(u) = Size(b) + Len(s)
  <2> HIDE DEF u
  <2> QED  BY <1>1, <1>4, <1>6 DEF SplicedIs
<1>8. ASSUME NEW q \in 0..(Size(b) + Len(s) - 1) PROVE f.store[Index(f, q)] = u[q + 1]
  <2>1. q + 1 \in 1..(Len(t) - 0 + Len(s))  BY <1>1, <1>4
  <2> HIDE DEF u, f, t
  <2>2. u[q + 1] = IF q + 1 <= b.gap THEN t[q + 1] ELSE IF q + 1 <= b.gap + Len(s) THEN s[(q + 1) - b.gap]
                   ELSE t[(q + 1) - Len(s) + 0]
    <3>1. \A k \in 1..(Len(t) - 0 + Len(s)) :
            u[k] = IF k <= b.gap THEN t[k] ELSE IF k <= b.gap + Len(s) THEN s[k - b.gap] ELSE t[k - Len(s) + 0]
      BY <1>6 DEF SplicedIs
    <3> HIDE DEF t
    <3> QED  BY <2>1, <3>1
  <2>3. CASE q < b.gap
    <3>1. Index(f, q) = q /\ Index(b, q) = q /\ q \in 0..(Size(b) - 1) /\ q \in 0..(b.cap - 1)
      BY SMTT(40), <1>1, <1>3, <2>3 DEF Index
    <3>2. t[q + 1] = b.store[q]  BY <3>1, TextHeld DEF t
    <3>3. written[q] = b.store[q]  BY <1>1, <2>3, <3>1
    <3> HIDE DEF written
    <3> QED  BY <1>1, <1>2, <2>2, <2>3, <3>1, <3>2, <3>3
  <2>4. CASE ~(q < b.gap) /\ q < b.gap + Len(s)
    <3>5. q \in 0..(b.cap - 1)  BY <1>1, <2>4
    <3>7. q \in Int /\ b.gap \in Int  BY <1>1
    <3>6. (q + 1) - b.gap = q - b.gap + 1  BY <3>7
    <3>1. q \in 0..(b.cap - 1) /\ (q + 1) - b.gap = q - b.gap + 1  BY <3>5, <3>6
    <3>2. written[q] = s[q - b.gap + 1]  BY <1>1, <2>4, <3>1
    <3>3. Index(f, q) = q  BY <1>3, <2>4 DEF Index
    <3>4. u[q + 1] = s[(q + 1) - b.gap]  BY <1>1, <2>2, <2>4
    <3> HIDE DEF written
    <3> QED  BY <1>2, <3>1, <3>2, <3>3, <3>4
  <2>5. CASE ~(q < b.gap) /\ ~(q < b.gap + Len(s))
    <3> DEFINE j == q - Len(s)
    <3>6. j \in 0..(Size(b) - 1) /\ ~(j < b.gap)  BY <1>1, <2>5
    <3>7. (q + 1) - Len(s) + 0 = j + 1  BY <1>1
    <3>8. Index(f, q) = q + (b.egap - (b.gap + Len(s)))  BY <1>3, <2>5 DEF Index, Room
    <3>9. Index(b, j) = j + (b.egap - b.gap)  BY <3>6 DEF Index, Room
    <3>1. /\ Index(f, q) = q + (b.egap - (b.gap + Len(s))) /\ Index(b, j) = j + (b.egap - b.gap)
          /\ j \in 0..(Size(b) - 1) /\ (q + 1) - Len(s) + 0 = j + 1
      BY <3>6, <3>7, <3>8, <3>9
    <3>2. Index(f, q) = Index(b, j) /\ Index(b, j) \in 0..(b.cap - 1) /\ ~(Index(b, j) < b.gap + Len(s))
      <4>1. Index(b, j) \in 0..(b.cap - 1)  BY <3>1, SizeAndIndex
      <4>2. j \in Int /\ ~(j < b.gap)  BY <1>1, <3>6
      <4>3. j + (b.egap - b.gap) = q + (b.egap - (b.gap + Len(s)))
        <5>1. q \in Int /\ b.gap \in Int /\ b.egap \in Int /\ Len(s) \in Int  BY <1>1
        <5> QED  BY <5>1
      <4>4. Index(f, q) = Index(b, j)  BY <3>1, <4>3
      <4>6. j + (b.egap - b.gap) >= b.egap
        <5>1. j \in Int /\ b.gap \in Int /\ b.egap \in Int /\ ~(j < b.gap)  BY <1>1, <4>2
        <5> QED  BY <5>1
      <4>5. ~(Index(b, j) < b.gap + Len(s))
        <5>1. b.gap + Len(s) <= b.egap /\ b.gap + Len(s) \in Int /\ b.egap \in Int  BY <1>1
        <5>2. Index(b, j) >= b.egap  BY <3>1, <4>6
        <5>3. Index(b, j) \in Int  BY <4>1
        <5> QED  BY <5>1, <5>2, <5>3
      <4> QED  BY <4>1, <4>4, <4>5
    <3> HIDE DEF j
    <3>3. t[j + 1] = b.store[Index(b, j)]  BY <3>1, TextHeld DEF t
    <3>4. written[Index(b, j)] = b.store[Index(b, j)]  BY <3>2
    <3>5. u[q + 1] = t[(q + 1) - Len(s) + 0]  BY <1>1, <2>2, <2>5
    <3> HIDE DEF written
    <3> QED  BY <1>2, <3>1, <3>2, <3>3, <3>4, <3>5
  <2> QED  BY <2>3, <2>4, <2>5
<1> HIDE DEF f, u, t
<1>9. TextOf(f) = u
  <2>3. Size(f) - 1 = Size(b) + Len(s) - 1
    <3>1. Size(f) = Size(b) + Len(s) /\ Size(b) \in Int /\ Len(s) \in Int  BY <1>1, <1>3
    <3> QED  BY <3>1
  <2>1. \A q \in 0..(Size(f) - 1) : f.store[Index(f, q)] = u[q + 1]  BY <1>8, <2>3
  <2>2. Len(u) = Size(f)  BY <1>3, <1>7
  <2> QED  BY <1>3, <1>7, <2>1, <2>2, TextIs
<1> QED  BY <1>5, <1>9 DEF f, u, t

(* A store that holds the bytes before p, then those of s, then those from p *)
(* + n on holds the text with s in place of n bytes at p.                    *)
Shows(f, b, p, n, s) ==
  /\ Sound(b) /\ Sound(f) /\ p \in Nat /\ n \in Nat /\ p + n <= Size(b)
  /\ s \in Seq(Bytes) /\ Size(f) = Size(b) - n + Len(s)
  /\ \A q \in 0..(p - 1) : f.store[Index(f, q)] = b.store[Index(b, q)]
  /\ \A k \in 1..Len(s) : f.store[Index(f, p + k - 1)] = s[k]
  /\ \A q \in (p + n)..(Size(b) - 1) : f.store[Index(f, q - n + Len(s))] = b.store[Index(b, q)]

(* A store that shows the text of another one with a part replaced holds    *)
(* that text.                                                               *)
LEMMA SplicedStore ==
  ASSUME NEW b, NEW f, NEW p, NEW n, NEW s, Shows(f, b, p, n, s)
  PROVE  Splice(TextOf(b), p, n) /\ TextOf(f) = Spliced(TextOf(b), p, n, s)
<1> DEFINE t == TextOf(b)  u == Spliced(t, p, n, s)
<1>a. /\ Sound(b) /\ Sound(f) /\ p \in Nat /\ n \in Nat /\ p + n <= Size(b)
      /\ s \in Seq(Bytes) /\ Size(f) = Size(b) - n + Len(s)
  BY DEF Shows
<1>b. \A q \in 0..(p - 1) : f.store[Index(f, q)] = b.store[Index(b, q)]  BY DEF Shows
<1>c. \A k \in 1..Len(s) : f.store[Index(f, p + k - 1)] = s[k]  BY DEF Shows
<1>d. \A q \in (p + n)..(Size(b) - 1) : f.store[Index(f, q - n + Len(s))] = b.store[Index(b, q)]  BY DEF Shows
<1>1. Size(b) \in Nat /\ Len(s) \in Nat /\ t \in Seq(Bytes) /\ Len(t) = Size(b)  BY <1>a, SizeAndIndex, TextHeld
<1>2. Splice(t, p, n)  BY <1>a, <1>1 DEF Splice
<1>3. SplicedIs(t, p, n, s, u)  BY <1>a, <1>2, SplicedText
<1>4. \A q \in 0..(Size(b) - 1) : t[q + 1] = b.store[Index(b, q)]  BY <1>a, TextHeld
<1> HIDE DEF t, u
<1>5. u \in Seq(Bytes) /\ Len(u) = Size(f)  BY <1>a, <1>1, <1>3 DEF SplicedIs
<1>6. ASSUME NEW q \in 0..(Size(f) - 1) PROVE f.store[Index(f, q)] = u[q + 1]
  <2>1. q \in Nat /\ q < Size(b) - n + Len(s)  BY <1>a, <1>1
  <2>2. q + 1 \in 1..(Len(t) - n + Len(s))  BY <1>a, <1>1, <2>1
  <2>3. u[q + 1] = IF q + 1 <= p THEN t[q + 1] ELSE IF q + 1 <= p + Len(s) THEN s[(q + 1) - p]
                   ELSE t[(q + 1) - Len(s) + n]
    BY <1>3, <2>2 DEF SplicedIs
  <2>4. CASE q < p
    <3>1. q \in 0..(p - 1) /\ q \in 0..(Size(b) - 1) /\ q + 1 <= p  BY <1>a, <1>1, <2>1, <2>4
    <3>2. u[q + 1] = t[q + 1]  BY <2>3, <3>1
    <3>3. t[q + 1] = b.store[Index(b, q)]  BY <1>4, <3>1
    <3> QED  BY <1>b, <3>1, <3>2, <3>3
  <2>5. CASE ~(q < p) /\ q < p + Len(s)
    <3>4. p \in Int /\ q \in Int /\ Len(s) \in Int  BY <1>a, <1>1, <2>1
    <3>5. (q + 1) - p \in 1..Len(s)  BY <2>5, <3>4
    <3>6. p + ((q + 1) - p) - 1 = q  BY <3>4
    <3>7. ~(q + 1 <= p) /\ q + 1 <= p + Len(s)  BY <2>5, <3>4
    <3>1. (q + 1) - p \in 1..Len(s) /\ p + ((q + 1) - p) - 1 = q /\ ~(q + 1 <= p) /\ q + 1 <= p + Len(s)
      BY <3>5, <3>6, <3>7
    <3>2. u[q + 1] = s[(q + 1) - p]  BY <2>3, <3>1
    <3>3. f.store[Index(f, p + ((q + 1) - p) - 1)] = s[(q + 1) - p]  BY <1>c, <3>1
    <3> QED  BY <3>1, <3>2, <3>3
  <2>6. CASE ~(q < p + Len(s))
    <3> DEFINE j == q - Len(s) + n
    <3>1. j \in (p + n)..(Size(b) - 1) /\ j \in 0..(Size(b) - 1)  BY <1>a, <1>1, <2>1, <2>6
    <3>2. j - n + Len(s) = q /\ (q + 1) - Len(s) + n = j + 1  BY <1>a, <1>1, <2>1
    <3>3. ~(q + 1 <= p) /\ ~(q + 1 <= p + Len(s))  BY <1>a, <1>1, <2>1, <2>6
    <3>4. u[q + 1] = t[(q + 1) - Len(s) + n]  BY <2>3, <3>3
    <3> HIDE DEF j
    <3>5. t[j + 1] = b.store[Index(b, j)]  BY <1>4, <3>1
    <3>6. f.store[Index(f, j - n + Len(s))] = b.store[Index(b, j)]  BY <1>d, <3>1
    <3> QED  BY <3>2, <3>4, <3>5, <3>6
  <2> QED  BY <2>4, <2>5, <2>6
<1>7. TextOf(f) = u  BY <1>a, <1>5, <1>6, TextIs
<1> QED  BY <1>2, <1>7 DEF t, u

(* The numbers of a store.                                                   *)
LEMMA Numbers ==
  ASSUME NEW b, Sound(b)
  PROVE  /\ b.cap \in Nat /\ b.gap \in Nat /\ b.egap \in Nat /\ b.gap <= b.egap /\ b.egap <= b.cap
         /\ Size(b) = b.cap - (b.egap - b.gap) /\ Room(b) = b.egap - b.gap
  BY DEF Sound, Size, Room

(* Bytes dropped before the gap, or after it, go from the text.              *)
LEMMA DropBeforeText ==
  ASSUME NEW b, Sound(b), NEW n \in Nat, n <= b.gap
  PROVE  /\ Splice(TextOf(b), b.gap - n, n)
         /\ TextOf(DropBefore(b, n)) = Spliced(TextOf(b), b.gap - n, n, <<>>)
         /\ Before(b, n) = SubSeq(TextOf(b), (b.gap - n) + 1, (b.gap - n) + n)
<1> DEFINE d == [b EXCEPT !.gap = @ - n]  f == DropBefore(b, n)  p == b.gap - n  t == TextOf(b)
<1>1. d = [store |-> b.store, cap |-> b.cap, gap |-> b.gap - n, egap |-> b.egap]  BY DEF Sound
<1>2. d.store = b.store /\ d.gap = p /\ d.egap = b.egap /\ d.cap = b.cap
  <2> HIDE DEF d
  <2> QED  BY <1>1
<1>3. p \in Nat /\ p + n = b.gap /\ p <= b.gap  BY Numbers
<1>4. Sound(d)
  <2> HIDE DEF d
  <2> QED  BY <1>1, <1>3 DEF Sound, InGap
<1>5. f = Scrub(d)  BY DEF DropBefore
<1> HIDE DEF d
<1>6. /\ Sound(f) /\ f.gap = p /\ f.egap = b.egap /\ f.cap = b.cap
      /\ \A i \in 0..(b.cap - 1) : ~(p <= i /\ i < b.egap) => f.store[i] = b.store[i]
  BY <1>2, <1>4, <1>5, ScrubSound DEF InGap
<1> HIDE DEF f, p
<1>7. Size(f) = Size(b) - n /\ Size(b) \in Nat /\ b.gap <= Size(b)
  <2>1. Size(f) = b.cap - (b.egap - p)  BY <1>6, Numbers
  <2> QED  BY <1>3, <2>1, Numbers, SizeAndIndex
<1>8. ASSUME NEW q \in 0..(p - 1) PROVE f.store[Index(f, q)] = b.store[Index(b, q)]
  <2>1. q < p /\ q < b.gap /\ q \in 0..(b.cap - 1)  BY <1>3, Numbers
  <2>2. Index(f, q) = q /\ Index(b, q) = q  BY <1>6, <2>1 DEF Index
  <2>3. ~(p <= q /\ q < b.egap)  BY <1>3, <2>1
  <2> QED  BY <1>6, <2>1, <2>2, <2>3
<1>9. ASSUME NEW q \in b.gap..(Size(b) - 1) PROVE f.store[Index(f, q - n)] = b.store[Index(b, q)]
  <2>1. ~(q < b.gap) /\ ~(q - n < p)  BY <1>3, Numbers
  <2>2. Index(b, q) = q + (b.egap - b.gap)  BY <2>1, Numbers DEF Index
  <2>3. Index(f, q - n) = (q - n) + (b.egap - p)  BY <1>6, <2>1, Numbers DEF Index
  <2>4. (q - n) + (b.egap - p) = q + (b.egap - b.gap)  BY <1>3, Numbers
  <2>5. q + (b.egap - b.gap) \in b.egap..(b.cap - 1)  BY <2>1, Numbers
  <2>6. q + (b.egap - b.gap) \in 0..(b.cap - 1) /\ ~(q + (b.egap - b.gap) < b.egap)  BY <2>5, Numbers
  <2> QED  BY <1>6, <2>2, <2>3, <2>4, <2>6
<1>10. Splice(t, p, n) /\ TextOf(f) = Spliced(t, p, n, <<>>)
  <2>1. <<>> \in Seq(Bytes) /\ Len(<<>>) = 0 /\ \A k \in 1..Len(<<>>) : FALSE  OBVIOUS
  <2>2. \A q \in (p + n)..(Size(b) - 1) : f.store[Index(f, q - n + Len(<<>>))] = b.store[Index(b, q)]
    <3> TAKE q \in (p + n)..(Size(b) - 1)
    <3>1. q \in b.gap..(Size(b) - 1) /\ q - n + Len(<<>>) = q - n  BY <1>3, <2>1
    <3> QED  BY <1>9, <3>1
  <2>3. p + n <= Size(b) /\ Size(f) = Size(b) - n + Len(<<>>)  BY <1>3, <1>7, <2>1
  <2>4. \A k \in 1..Len(<<>>) : f.store[Index(f, p + k - 1)] = <<>>[k]  BY <2>1
  <2>5. \A q \in 0..(p - 1) : f.store[Index(f, q)] = b.store[Index(b, q)]  BY <1>8
  <2> HIDE DEF t
  <2>6. Splice(TextOf(b), p, n) /\ TextOf(f) = Spliced(TextOf(b), p, n, <<>>)
    <3>1. Shows(f, b, p, n, <<>>)  BY <1>3, <1>6, <2>1, <2>2, <2>3, <2>4, <2>5 DEF Shows
    <3> QED  BY <3>1, SplicedStore
  <2> QED  BY <2>6 DEF t
<1>11. Before(b, n) = SubSeq(t, p + 1, p + n)
  <2>1. t \in Seq(Bytes) /\ Len(t) = Size(b)  BY TextHeld
  <2>2. SubSeq(t, p + 1, p + n) \in Seq(Bytes) /\ Len(SubSeq(t, p + 1, p + n)) = n  BY <1>10, <2>1, SpliceBack
  <2>3. ASSUME NEW k \in 1..n PROVE Before(b, n)[k] = SubSeq(t, p + 1, p + n)[k]
    <3> DEFINE q == b.gap - n + k - 1
    <3>1. q \in 0..(Size(b) - 1) /\ q < b.gap /\ q \in 0..(b.cap - 1) /\ q = p + k - 1  BY <1>3, <1>7, Numbers
    <3>2. Before(b, n)[k] = Cell(b, q)  BY DEF Before
    <3>3. t[q + 1] = b.store[q]  BY <3>1, TextHeld DEF Index
    <3>4. SubSeq(t, p + 1, p + n)[k] = t[p + k]
      <4>1. (p + 1) + k - 1 = p + k  BY <1>3
      <4> HIDE DEF t
      <4> QED  BY <1>3, <2>1, <2>2, <4>1
    <3>5. q + 1 = p + k  BY <1>3, <3>1
    <3> HIDE DEF q
    <3> QED  BY <3>1, <3>2, <3>3, <3>4, <3>5 DEF Cell
  <2>4. SubSeq(t, p + 1, p + n) = [k \in 1..n |-> SubSeq(t, p + 1, p + n)[k]]  BY <2>2
  <2>5. Before(b, n) = [k \in 1..n |-> Before(b, n)[k]]  BY DEF Before
  <2> QED  BY <2>3, <2>4, <2>5
<1> QED  BY <1>10, <1>11 DEF f, p

(* Bytes given to the gap after it are cut out of the text there.           *)
LEMMA DropAfterText ==
  ASSUME NEW b, Sound(b), NEW n \in Nat, b.egap + n <= b.cap
  PROVE  /\ Splice(TextOf(b), b.gap, n)
         /\ TextOf(DropAfter(b, n)) = Spliced(TextOf(b), b.gap, n, <<>>)
         /\ After(b, n) = SubSeq(TextOf(b), b.gap + 1, b.gap + n)
<1> DEFINE d == [b EXCEPT !.egap = @ + n]  f == DropAfter(b, n)  p == b.gap  e == b.egap + n  t == TextOf(b)
<1>1. d = [store |-> b.store, cap |-> b.cap, gap |-> b.gap, egap |-> b.egap + n]  BY DEF Sound
<1>2. d.store = b.store /\ d.gap = p /\ d.egap = e /\ d.cap = b.cap
  <2> HIDE DEF d
  <2> QED  BY <1>1
<1>3. p \in Nat /\ e \in Nat /\ e <= b.cap /\ p + n <= Size(b) /\ p <= e
  <2>1. p \in Nat /\ e \in Nat /\ e <= b.cap /\ p <= e  BY Numbers
  <2>2. p + n <= b.cap - (b.egap - b.gap)  BY Numbers
  <2> QED  BY <2>1, <2>2, Numbers
<1>4. Sound(d)
  <2> HIDE DEF d
  <2> QED  BY <1>1, <1>3 DEF Sound, InGap
<1>5. f = Scrub(d)  BY DEF DropAfter
<1> HIDE DEF d
<1>6. /\ Sound(f) /\ f.gap = p /\ f.egap = e /\ f.cap = b.cap
      /\ \A i \in 0..(b.cap - 1) : ~(p <= i /\ i < e) => f.store[i] = b.store[i]
  BY <1>2, <1>4, <1>5, ScrubSound DEF InGap
<1> HIDE DEF f
<1>7. Size(f) = Size(b) - n /\ Size(b) \in Nat
  <2>1. Size(f) = b.cap - (e - p)  BY <1>6, Numbers
  <2> QED  BY <2>1, Numbers, SizeAndIndex
<1>8. ASSUME NEW q \in 0..(p - 1) PROVE f.store[Index(f, q)] = b.store[Index(b, q)]
  <2>1. q < p /\ q \in 0..(b.cap - 1)  BY <1>3, Numbers
  <2>2. Index(f, q) = q /\ Index(b, q) = q  BY <1>6, <2>1 DEF Index
  <2>3. ~(p <= q /\ q < e)  BY <1>3, <2>1
  <2> HIDE DEF p
  <2> QED  BY <1>6, <2>1, <2>2, <2>3
<1>9. ASSUME NEW q \in (p + n)..(Size(b) - 1) PROVE f.store[Index(f, q - n)] = b.store[Index(b, q)]
  <2>1. ~(q < p) /\ ~(q - n < p)  BY <1>3
  <2>2. Index(b, q) = q + (b.egap - b.gap)  BY <2>1, Numbers DEF Index
  <2>3. Index(f, q - n) = (q - n) + (e - p)  BY <1>6, <2>1, Numbers DEF Index
  <2>4. (q - n) + (e - p) = q + (b.egap - b.gap)  BY Numbers
  <2>5. q + (b.egap - b.gap) \in e..(b.cap - 1)  BY <2>1, Numbers
  <2>6. q + (b.egap - b.gap) \in 0..(b.cap - 1) /\ ~(q + (b.egap - b.gap) < e)  BY <1>3, <2>5, Numbers
  <2> HIDE DEF e, p
  <2> QED  BY <1>6, <2>2, <2>3, <2>4, <2>6
<1>10. Splice(t, p, n) /\ TextOf(f) = Spliced(t, p, n, <<>>)
  <2>1. <<>> \in Seq(Bytes) /\ Len(<<>>) = 0 /\ \A k \in 1..Len(<<>>) : FALSE  OBVIOUS
  <2>2. \A q \in (p + n)..(Size(b) - 1) : f.store[Index(f, q - n + Len(<<>>))] = b.store[Index(b, q)]
    <3> TAKE q \in (p + n)..(Size(b) - 1)
    <3>1. q - n + Len(<<>>) = q - n  BY <1>3, <2>1
    <3> QED  BY <1>9, <3>1
  <2>3. Size(f) = Size(b) - n + Len(<<>>)  BY <1>7, <2>1
  <2>4. \A k \in 1..Len(<<>>) : f.store[Index(f, p + k - 1)] = <<>>[k]  BY <2>1
  <2>5. \A q \in 0..(p - 1) : f.store[Index(f, q)] = b.store[Index(b, q)]  BY <1>8
  <2> HIDE DEF t, p
  <2>6. Shows(f, b, p, n, <<>>)  BY <1>3, <1>6, <2>1, <2>2, <2>3, <2>4, <2>5 DEF Shows
  <2> QED  BY <2>6, SplicedStore DEF t
<1>11. After(b, n) = SubSeq(t, p + 1, p + n)
  <2>1. t \in Seq(Bytes) /\ Len(t) = Size(b)  BY TextHeld
  <2>2. SubSeq(t, p + 1, p + n) \in Seq(Bytes) /\ Len(SubSeq(t, p + 1, p + n)) = n  BY <1>10, <2>1, SpliceBack
  <2>3. ASSUME NEW k \in 1..n PROVE After(b, n)[k] = SubSeq(t, p + 1, p + n)[k]
    <3> DEFINE q == p + k - 1  i == b.egap + k - 1
    <3>1. q \in 0..(Size(b) - 1) /\ ~(q < b.gap) /\ i \in 0..(b.cap - 1)  BY <1>3, <1>7, Numbers
    <3>2. After(b, n)[k] = Cell(b, i)  BY DEF After
    <3>6. Index(b, q) = i  
      <4>1. Index(b, q) = q + (b.egap - b.gap)  BY <3>1, Numbers DEF Index
      <4> QED  BY <4>1, Numbers
    <3>3. t[q + 1] = b.store[Index(b, q)]  BY <3>1, TextHeld
    <3>4. SubSeq(t, p + 1, p + n)[k] = t[p + k]
      <4>1. (p + 1) + k - 1 = p + k  BY <1>3
      <4> HIDE DEF t, p
      <4> QED  BY <1>3, <2>1, <2>2, <4>1
    <3>5. q + 1 = p + k  BY <1>3
    <3> HIDE DEF q, i
    <3> QED  BY <3>1, <3>2, <3>3, <3>4, <3>5, <3>6 DEF Cell
  <2>4. SubSeq(t, p + 1, p + n) = [k \in 1..n |-> SubSeq(t, p + 1, p + n)[k]]  BY SMTT(40), <2>2
  <2>5. After(b, n) = [k \in 1..n |-> After(b, n)[k]]  BY DEF After
  <2> QED  BY <2>3, <2>4, <2>5
<1> QED  BY <1>10, <1>11 DEF f, p

(* Bytes written over as many others, on one side of the gap.                *)
LEMMA WriteText ==
  ASSUME NEW b, Sound(b), NEW s \in Seq(Bytes), NEW p \in Nat, p + Len(s) <= Size(b), ~Straddles(b, p, Len(s)),
         NEW f, f = Write(b, Index(b, p), s)
  PROVE  Splice(TextOf(b), p, Len(s)) /\ TextOf(f) = Spliced(TextOf(b), p, Len(s), s)
<1> DEFINE n == Len(s)  i == Index(b, p)
           w == [j \in 0..(b.cap - 1) |-> IF i <= j /\ j < i + n THEN s[j - i + 1] ELSE b.store[j]]
<1>1. n \in Nat  OBVIOUS
<1>2. f = [store |-> w, cap |-> b.cap, gap |-> b.gap, egap |-> b.egap]  BY Fields DEF Write
<1>3. i \in Nat /\ (p < b.gap => i = p /\ p + n <= b.gap) /\ (~(p < b.gap) => i = p + (b.egap - b.gap))
  BY <1>1, Numbers DEF Index, Straddles
<1>4. f.store = w /\ f.gap = b.gap /\ f.egap = b.egap /\ f.cap = b.cap
  <2> HIDE DEF w
  <2> QED  BY <1>2
<1>5. Sound(f) /\ Size(f) = Size(b) /\ \A q : Index(f, q) = Index(b, q)
  <2>1. Sound(f) /\ Size(f) = Size(b)
    <3> HIDE DEF i
    <3> QED  BY <1>3, WriteSound DEF i
  <2>2. ASSUME NEW q PROVE Index(f, q) = Index(b, q)
    <3> HIDE DEF w
    <3> QED  BY <1>4 DEF Index, Room
  <2> QED  BY <2>1, <2>2
<1>6. Size(b) \in Nat /\ \A q \in 0..(Size(b) - 1) : Index(b, q) \in 0..(b.cap - 1)  BY SizeAndIndex
<1> HIDE DEF n, i
<1>7. ASSUME NEW q \in 0..(Size(b) - 1), ~(p <= q /\ q < p + n)
      PROVE  f.store[Index(f, q)] = b.store[Index(b, q)]
  <2>1. ~(i <= Index(b, q) /\ Index(b, q) < i + n)
    <3>1. CASE q < b.gap
      <4>1. Index(b, q) = q  BY <3>1 DEF Index
      <4>2. CASE p < b.gap  BY <1>1, <1>3, <1>7, <4>1, <4>2
      <4>3. CASE ~(p < b.gap)
        <5>1. i = p + (b.egap - b.gap) /\ i >= b.egap  BY <1>3, <4>3, Numbers
        <5>2. Index(b, q) < b.egap  BY <3>1, <4>1, Numbers
        <5> QED  BY <1>3, <4>1, <5>1, <5>2, Numbers
      <4> QED  BY <4>2, <4>3
    <3>2. CASE ~(q < b.gap)
      <4>1. Index(b, q) = q + (b.egap - b.gap)  BY <3>2, Numbers DEF Index
      <4>2. CASE p < b.gap
        <5>1. i + n <= b.gap /\ Index(b, q) >= b.gap  BY <1>3, <3>2, <4>1, <4>2, Numbers
        <5> QED  BY <1>1, <1>3, <1>6, <5>1, Numbers
      <4>3. CASE ~(p < b.gap)
        <5>1. i = p + (b.egap - b.gap) /\ b.egap - b.gap \in Nat  BY <1>3, <4>3, Numbers
        <5> DEFINE r == b.egap - b.gap
        <5> HIDE DEF r
        <5>2. i = p + r /\ Index(b, q) = q + r /\ r \in Nat  BY <4>1, <5>1 DEF r
        <5> QED  BY <1>1, <1>7, <5>2
      <4> QED  BY <4>2, <4>3
    <3> QED  BY <3>1, <3>2
  <2>2. Index(b, q) \in 0..(b.cap - 1)  BY <1>6
  <2>3. w[Index(b, q)] = b.store[Index(b, q)]  BY <2>1, <2>2
  <2> HIDE DEF w
  <2> QED  BY <1>4, <1>5, <2>3
<1>8. ASSUME NEW k \in 1..n PROVE f.store[Index(f, p + k - 1)] = s[k]
  <2> DEFINE q == p + k - 1
  <2>1. q \in 0..(Size(b) - 1)  BY <1>1, <1>6 DEF n
  <2>2. Index(b, q) = i + k - 1
    <3>1. CASE p < b.gap
      <4>1. q < b.gap  BY <1>1, <1>3, <3>1, Numbers
      <4> HIDE DEF q
      <4>2. Index(b, q) = q  BY <4>1 DEF Index
      <4> QED  BY <1>3, <3>1, <4>2 DEF q
    <3>2. CASE ~(p < b.gap)
      <4>1. ~(q < b.gap)  BY <1>1, <3>2, Numbers
      <4>3. q + (b.egap - b.gap) = p + (b.egap - b.gap) + k - 1  BY Numbers
      <4> HIDE DEF q
      <4>2. Index(b, q) = q + (b.egap - b.gap)  BY <4>1, Numbers DEF Index
      <4> QED  BY <1>3, <3>2, <4>2, <4>3
    <3> QED  BY <3>1, <3>2
  <2>3. Index(b, q) \in 0..(b.cap - 1)
    <3> HIDE DEF q
    <3> QED  BY <1>6, <2>1
  <2>4. i <= i + k - 1 /\ i + k - 1 < i + n /\ (i + k - 1) - i + 1 = k  BY <1>1, <1>3
  <2>5. w[i + k - 1] = s[(i + k - 1) - i + 1]  BY <2>2, <2>3, <2>4
  <2> HIDE DEF w, q
  <2>6. f.store[Index(f, q)] = s[k]  BY <1>4, <1>5, <2>2, <2>4, <2>5
  <2> QED  BY <2>6 DEF q
<1> HIDE DEF w
<1>9. Shows(f, b, p, n, s)
  <2>1. p + n <= Size(b) /\ Size(f) = Size(b) - n + Len(s)  BY <1>1, <1>5, <1>6 DEF n
  <2>2. \A q \in 0..(p - 1) : f.store[Index(f, q)] = b.store[Index(b, q)]
    <3> TAKE q \in 0..(p - 1)
    <3>1. q \in 0..(Size(b) - 1) /\ ~(p <= q /\ q < p + n)  BY <1>1, <1>6, <2>1
    <3> QED  BY <1>7, <3>1
  <2>3. \A q \in (p + n)..(Size(b) - 1) : f.store[Index(f, q - n + Len(s))] = b.store[Index(b, q)]
    <3> TAKE q \in (p + n)..(Size(b) - 1)
    <3>1. q \in 0..(Size(b) - 1) /\ ~(p <= q /\ q < p + n)  BY <1>1
    <3>2. q - n + Len(s) = q  BY <1>1 DEF n
    <3> QED  BY <1>7, <3>1, <3>2
  <2>4. \A k \in 1..Len(s) : f.store[Index(f, p + k - 1)] = s[k]  BY <1>8 DEF n
  <2> QED  BY <1>1, <1>5, <2>1, <2>2, <2>3, <2>4 DEF Shows
<1> QED  BY <1>9, SplicedStore DEF n

(* A replacement written up to where the gap will begin.                     *)
LEMMA ReplaceText ==
  ASSUME NEW b, Sound(b), NEW s \in Seq(Bytes), NEW p \in Nat, NEW n \in Nat, p + n = b.gap,
         p + Len(s) <= b.egap,
         NEW i \in Nat, s # <<>> => i = p,
         NEW f, f = Scrub(Write([b EXCEPT !.gap = p + Len(s)], i, s)), Sound(f)
  PROVE  Splice(TextOf(b), p, n) /\ TextOf(f) = Spliced(TextOf(b), p, n, s)
<1> DEFINE g == [b EXCEPT !.gap = p + Len(s)]
           w == [j \in 0..(b.cap - 1) |-> IF i <= j /\ j < i + Len(s) THEN s[j - i + 1] ELSE b.store[j]]
           r == Write(g, i, s)
<1>1. g = [store |-> b.store, cap |-> b.cap, gap |-> p + Len(s), egap |-> b.egap]
  <2>1. PICK c, s1, g1, e1 : b = [store |-> s1, cap |-> c, gap |-> g1, egap |-> e1]  BY DEF Sound
  <2> QED  BY <2>1
<1>2. r = [store |-> w, cap |-> b.cap, gap |-> p + Len(s), egap |-> b.egap]
  <2>1. g.store = b.store /\ DOMAIN b.store = 0..(b.cap - 1)  BY <1>1 DEF Sound
  <2> HIDE DEF g
  <2>2. r = [g EXCEPT !.store = w]  BY <2>1 DEF Write
  <2> HIDE DEF w
  <2> QED  BY <1>1, <2>2
<1>3. r.store = w /\ r.cap = b.cap /\ r.gap = p + Len(s) /\ r.egap = b.egap /\ f = Scrub(r)
  <2> HIDE DEF w
  <2> QED  BY <1>2
<1> DEFINE clean == [j \in 0..(b.cap - 1) |-> IF p + Len(s) <= j /\ j < b.egap THEN Junk ELSE w[j]]
<1>4. f = [store |-> clean, cap |-> b.cap, gap |-> p + Len(s), egap |-> b.egap]
  <2>1. DOMAIN w = 0..(b.cap - 1)  OBVIOUS
  <2> DEFINE F == [j \in DOMAIN r.store |-> IF r.gap <= j /\ j < r.egap THEN Junk ELSE r.store[j]]
  <2>2. f = [r EXCEPT !.store = F]  BY <1>3 DEF Scrub
  <2> HIDE DEF w, r
  <2>3. F = clean  BY <1>3, <2>1
  <2> HIDE DEF F, clean
  <2> QED  BY <1>2, <2>2, <2>3
<1>5. f.store = clean /\ f.cap = b.cap /\ f.gap = p + Len(s) /\ f.egap = b.egap
  <2> HIDE DEF clean
  <2> QED  BY <1>4
<1> HIDE DEF g, r
<1>0. /\ Len(s) \in Int /\ Len(s) >= 0 /\ b.cap \in Int /\ b.egap \in Int /\ b.gap \in Int
      /\ b.gap <= b.egap /\ b.egap <= b.cap /\ p + Len(s) <= b.egap /\ p + n = b.gap
      /\ p \in Int /\ p >= 0 /\ n \in Int /\ n >= 0
  BY Numbers
<1>6. Len(s) \in Nat  OBVIOUS
<1>7. ASSUME NEW j \in 0..(b.cap - 1), ~(p <= j /\ j < b.egap)
      PROVE  f.store[j] = b.store[j]
  <2>1. ~(p + Len(s) <= j /\ j < b.egap)  BY <1>6, <1>7
  <2>2. w[j] = b.store[j]
    <3>1. CASE s = <<>>
      <4>1. Len(s) = 0  BY <3>1
      <4>2. ~(i <= j /\ j < i + Len(s))  BY <4>1
      <4> QED  BY <4>2
    <3>2. CASE s # <<>>
      <4>1. i = p  BY <3>2
      <4>2. ~(i <= j /\ j < i + Len(s))  BY <1>6, <1>7, <4>1, Numbers
      <4> QED  BY <4>2
    <3> QED  BY <3>1, <3>2
  <2>3. clean[j] = w[j]
    <3> HIDE DEF w
    <3> QED  BY <2>1
  <2> HIDE DEF clean, w
  <2> QED  BY <1>5, <2>2, <2>3
<1>8. ASSUME NEW k \in 1..Len(s) PROVE f.store[p + k - 1] = s[k]
  <2> DEFINE j == p + k - 1
  <2>1. i = p  BY <1>6, <1>8
  <2>2. j \in 0..(b.cap - 1) /\ ~(p + Len(s) <= j) /\ p <= j /\ j < p + Len(s) /\ j - p + 1 = k  BY SMTT(40), <1>0
  <2>3. w[j] = s[j - p + 1]  BY <2>1, <2>2
  <2>4. clean[j] = w[j]
    <3> HIDE DEF w, j
    <3> QED  BY <2>2
  <2> HIDE DEF clean, w, j
  <2>5. f.store[j] = s[k]  BY <1>5, <2>2, <2>3, <2>4
  <2> QED  BY <2>5 DEF j
<1> HIDE DEF clean, w
<1>9. Size(b) \in Nat /\ Size(f) = Size(b) - n + Len(s) /\ p + n <= Size(b)
  <2>1. Size(f) = b.cap - (b.egap - (p + Len(s)))  BY <1>5, Numbers
  <2>2. Size(b) = b.cap - (b.egap - (p + n))  BY Numbers
  <2>4. p + n <= Size(b)  BY <1>0, <2>2
  <2>5. b.cap - (b.egap - (p + Len(s))) = (b.cap - (b.egap - (p + n))) - n + Len(s)  BY SMTT(40), <1>0
  <2>3. Size(f) = Size(b) - n + Len(s) /\ p + n <= Size(b)  BY <2>1, <2>2, <2>4, <2>5
  <2> QED  BY <2>3, SizeAndIndex
<1>10. Shows(f, b, p, n, s)
  <2>1. ASSUME NEW q \in 0..(p - 1) PROVE f.store[Index(f, q)] = b.store[Index(b, q)]
    <3>1. q < p + Len(s) /\ q < b.gap /\ q \in 0..(b.cap - 1) /\ ~(p <= q)  BY <1>0
    <3>2. Index(f, q) = q /\ Index(b, q) = q  BY <1>5, <3>1 DEF Index
    <3> QED  BY <1>7, <3>1, <3>2
  <2>2. ASSUME NEW q \in (p + n)..(Size(b) - 1) PROVE f.store[Index(f, q - n + Len(s))] = b.store[Index(b, q)]
    <3> DEFINE j == q + (b.egap - b.gap)
    <3>1. ~(q < b.gap) /\ ~(q - n + Len(s) < p + Len(s))  BY <1>6
    <3>2. Index(b, q) = j  BY <3>1, Numbers DEF Index
    <3>3. Index(f, q - n + Len(s)) = (q - n + Len(s)) + (b.egap - (p + Len(s)))  BY <1>5, <3>1, Numbers DEF Index
    <3>4. (q - n + Len(s)) + (b.egap - (p + Len(s))) = j  BY <1>6, Numbers
    <3>5. j \in b.egap..(b.cap - 1)
      <4>1. Size(b) = b.cap - (b.egap - b.gap)  BY Numbers
      <4>2. q <= (b.cap - (b.egap - b.gap)) - 1 /\ q >= b.gap /\ q \in Int  BY <1>0, <4>1
      <4>3. ASSUME NEW x \in Int, NEW c \in Int, NEW e \in Int, NEW h \in Int, x <= (c - (e - h)) - 1, x >= h
            PROVE  x + (e - h) \in e..(c - 1)
        BY SMTT(40), <4>3
      <4> QED  BY <1>0, <4>2, <4>3
    <3>6. j \in 0..(b.cap - 1) /\ ~(j < b.egap)  BY <3>5, Numbers
    <3> HIDE DEF j
    <3> QED  BY <1>7, <3>2, <3>3, <3>4, <3>6
  <2>3. ASSUME NEW k \in 1..Len(s) PROVE f.store[Index(f, p + k - 1)] = s[k]
    <3>1. p + k - 1 < p + Len(s)  BY <1>6
    <3>2. Index(f, p + k - 1) = p + k - 1  BY <1>5, <3>1 DEF Index
    <3> QED  BY <1>8, <3>2
  <2> QED  BY <1>9, <2>1, <2>2, <2>3 DEF Shows
<1> QED  BY <1>10, SplicedStore

-----------------------------------------------------------------------------
(* What the steps report                                                     *)

(* A text that stays is explained by no report.                              *)
LEMMA NothingExplained ==
  ASSUME NEW t
  PROVE  Explained(t, <<>>, t)
<1>1. DOMAIN <<>> = 1..0 /\ 0 \in 0..2  OBVIOUS
<1>2. FoldLeft(Applied, t, <<>>) = TwoApplied(t, <<>>, 0) /\ FoldLeft(Reverted, t, <<>>) = TwoReverted(t, <<>>, 0)
  BY <1>1, FoldOfTwo
<1>3. Reverse(<<>>) = <<>>  BY TwoAtMost
<1> QED  BY <1>2, <1>3 DEF Explained, TwoApplied, TwoReverted

(* A report alone, with nothing before it or after it.                       *)
LEMMA ReportAlone ==
  ASSUME NEW kind, NEW p, NEW s
  PROVE  /\ Report(kind, p, s) \o <<>> = Report(kind, p, s)
         /\ <<>> \o Report(kind, p, s) = Report(kind, p, s)
         /\ Report(kind, p, <<>>) = <<>>
<1> DEFINE c == [kind |-> kind, pos |-> p, text |-> s]
<1>1. Report(kind, p, s) = <<>> \/ Report(kind, p, s) = <<c>>  BY DEF Report
<1>2. Report(kind, p, <<>>) = <<>>  BY DEF Report
<1> HIDE DEF c
<1> QED  BY <1>1, <1>2, TwoAtMost

(* Text inserted at a position, wherever the room for it was.                *)
LEMMA FillExplained ==
  ASSUME NEW b, Sound(b), NEW s \in Seq(Bytes), NEW p \in 0..Size(b),
         NEW n \in Nat, Len(s) <= n, NEW room,
         \/ room = b /\ Len(s) <= Room(b)
         \/ room \in GrowGap(b, n),
         NEW f, f = Fill(MoveGap(room, p), s)
  PROVE  Explained(TextOf(b), Report("insert", p, s), TextOf(f))
<1>1. Len(s) \in Nat  OBVIOUS
<1>2. Sound(room) /\ Size(room) = Size(b) /\ Len(s) <= Room(room) /\ TextOf(room) = TextOf(b)
  <2>1. CASE room = b /\ Len(s) <= Room(b)  BY <2>1
  <2>2. CASE room \in GrowGap(b, n)
    <3>1. Sound(room) /\ Size(room) = Size(b) /\ Room(room) >= Room(b) + n
      BY <2>2, GrowGapSound
    <3>2. Room(room) \in Nat /\ Room(b) \in Nat  BY <3>1, SizeAndIndex
    <3>3. TextOf(room) = TextOf(b)  BY <2>2, GrowGapKeepsText
    <3> QED  BY <1>1, <3>1, <3>2, <3>3
  <2> QED  BY <2>1, <2>2
<1> DEFINE m == MoveGap(room, p)  t == TextOf(b)
<1>3. Sound(m) /\ Room(m) = Room(room) /\ m.gap = p /\ TextOf(m) = t
  BY <1>2, MoveGapSound, MoveGapKeepsText
<1> HIDE DEF m
<1>4. Splice(t, p, 0) /\ TextOf(f) = Spliced(t, p, 0, s)
  <2>1. f = Fill(m, s)  BY DEF m
  <2>2. Splice(TextOf(m), m.gap, 0) /\ TextOf(Fill(m, s)) = Spliced(TextOf(m), m.gap, 0, s)
    BY <1>2, <1>3, FillText
  <2> QED  BY <1>3, <2>1, <2>2
<1> HIDE DEF t
<1>5. SubSeq(t, p + 1, p + 0) = <<>>
  <2>1. SubSeq(t, p + 1, p + 0) \in Seq(Bytes) /\ Len(SubSeq(t, p + 1, p + 0)) = 0  BY <1>4, SpliceBack
  <2> QED  BY <2>1
<1>6. Explained(t, Report("delete", p, <<>>) \o Report("insert", p, s), Spliced(t, p, 0, s))
  BY <1>4, <1>5, SpliceExplained
<1>7. Report("delete", p, <<>>) \o Report("insert", p, s) = Report("insert", p, s)
  <2>1. Report("delete", p, <<>>) = <<>>  BY ReportAlone
  <2>2. <<>> \o Report("insert", p, s) = Report("insert", p, s)  BY ReportAlone
  <2> QED  BY <2>1, <2>2
<1> QED  BY <1>4, <1>6, <1>7 DEF t

(* Text deleted on either side of the gap.                                   *)
LEMMA DropExplained ==
  ASSUME NEW b, Sound(b), NEW p \in 0..Size(b), NEW n \in Nat, NEW m, m = MoveGap(b, p)
  PROVE  /\ p + n <= Size(b) => Explained(TextOf(b), Report("delete", p, After(m, n)), TextOf(DropAfter(m, n)))
         /\ n <= p => Explained(TextOf(b), Report("delete", p - n, Before(m, n)), TextOf(DropBefore(m, n)))
<1> DEFINE t == TextOf(b)
<1>1. Sound(m) /\ Size(m) = Size(b) /\ m.gap = p /\ TextOf(m) = t  BY MoveGapSound, MoveGapKeepsText
<1>2. <<>> \in Seq(Bytes)  OBVIOUS
<1> HIDE DEF t
<1>3. ASSUME p + n <= Size(b)
      PROVE  Explained(t, Report("delete", p, After(m, n)), TextOf(DropAfter(m, n)))
  <2>1. m.egap + n <= m.cap
    <3>1. ASSUME NEW c \in Int, NEW e \in Int, NEW h \in Int, h + n <= c - (e - h) PROVE e + n <= c
      BY <3>1
    <3>2. m.gap + n <= m.cap - (m.egap - m.gap)  BY <1>1, <1>3, Numbers
    <3> QED  BY <1>1, <3>1, <3>2, Numbers
  <2>2. /\ Splice(t, p, n) /\ TextOf(DropAfter(m, n)) = Spliced(t, p, n, <<>>)
        /\ After(m, n) = SubSeq(t, p + 1, p + n)
    <3>1. /\ Splice(TextOf(m), m.gap, n) /\ TextOf(DropAfter(m, n)) = Spliced(TextOf(m), m.gap, n, <<>>)
          /\ After(m, n) = SubSeq(TextOf(m), m.gap + 1, m.gap + n)
      BY <1>1, <2>1, DropAfterText
    <3> QED  BY <1>1, <3>1
  <2>3. Explained(t, Report("delete", p, SubSeq(t, p + 1, p + n)) \o Report("insert", p, <<>>), Spliced(t, p, n, <<>>))
    BY <1>2, <2>2, SpliceExplained
  <2>4. Report("insert", p, <<>>) = <<>>  BY ReportAlone
  <2>5. Report("delete", p, SubSeq(t, p + 1, p + n)) \o <<>> = Report("delete", p, SubSeq(t, p + 1, p + n))  BY ReportAlone
  <2> QED  BY <2>2, <2>3, <2>4, <2>5
<1>4. ASSUME n <= p
      PROVE  Explained(t, Report("delete", p - n, Before(m, n)), TextOf(DropBefore(m, n)))
  <2> DEFINE h == p - n
  <2>2. /\ Splice(t, h, n) /\ TextOf(DropBefore(m, n)) = Spliced(t, h, n, <<>>)
        /\ Before(m, n) = SubSeq(t, h + 1, h + n)
    <3>1. /\ Splice(TextOf(m), m.gap - n, n) /\ TextOf(DropBefore(m, n)) = Spliced(TextOf(m), m.gap - n, n, <<>>)
          /\ Before(m, n) = SubSeq(TextOf(m), (m.gap - n) + 1, (m.gap - n) + n)
      BY <1>1, <1>4, DropBeforeText
    <3> QED  BY <1>1, <3>1
  <2> HIDE DEF h
  <2>3. Explained(t, Report("delete", h, SubSeq(t, h + 1, h + n)) \o Report("insert", h, <<>>), Spliced(t, h, n, <<>>))
    BY <1>2, <2>2, SpliceExplained
  <2>4. Report("insert", h, <<>>) = <<>>  BY ReportAlone
  <2>5. Report("delete", h, SubSeq(t, h + 1, h + n)) \o <<>> = Report("delete", h, SubSeq(t, h + 1, h + n))  BY ReportAlone
  <2> QED  BY <2>2, <2>3, <2>4, <2>5 DEF h
<1> QED  BY <1>3, <1>4 DEF t

(* C-d and C-w.                                                              *)
LEMMA DropCharExplained ==
  ASSUME IInv, Extras = {}, DropChar
  PROVE  Explained(TextOf(buf), reported', TextOf(buf'))
<1> DEFINE b == MoveGap(buf, point)
           n == Utf8Size(ByteAt(b, point))
<1>1. Sound(buf) /\ point \in 0..Size(buf)  BY DEF IInv
<1>2. Sound(b) /\ b.gap = point /\ Size(b) = Size(buf) /\ TextOf(b) = TextOf(buf)
  BY <1>1, MoveGapSound, MoveGapKeepsText
<1>3. n \in Nat  BY DEF Utf8Size
<1>4. \/ /\ b.egap + n <= b.cap
         /\ buf' = DropAfter(b, n)
         /\ point' = Position(buf', buf'.egap)
         /\ reported' = Report("delete", point', After(b, n))
      \/ buf' = b /\ reported' = <<>>
  BY DEF DropChar
<1>b. b = MoveGap(buf, point)  OBVIOUS
<1> HIDE DEF b, n
<1>5. CASE buf' = b /\ reported' = <<>>  BY <1>2, <1>5, NothingExplained
<1>6. CASE /\ b.egap + n <= b.cap
           /\ buf' = DropAfter(b, n)
           /\ point' = Position(buf', buf'.egap)
           /\ reported' = Report("delete", point', After(b, n))
  <2>1. Sound(buf') /\ buf'.gap = b.gap  BY <1>2, <1>3, <1>6, DropSound
  <2>2. point' = point  BY <1>2, <1>6, <2>1, AtEndOfGap
  <2>3. point + n <= Size(buf)
    <3>1. ASSUME NEW c \in Int, NEW e \in Int, NEW h \in Int, e + n <= c PROVE h + n <= c - (e - h)
      BY <1>3, <3>1
    <3>2. b.gap + n <= b.cap - (b.egap - b.gap)  BY <1>2, <1>6, <3>1, Numbers
    <3> QED  BY <1>2, <3>2, Numbers
  <2> QED  BY <1>1, <1>3, <1>b, <1>6, <2>2, <2>3, DropExplained
<1> QED  BY <1>4, <1>5, <1>6

(* Cutting the region, by C-w or by a script.                               *)
LEMMA CutRegionExplained ==
  ASSUME IInv, Extras = {}, NEW p \in 0..Size(buf), NEW m \in Nat, CutRegion(p, m)
  PROVE  Explained(TextOf(buf), reported', TextOf(buf'))
<1> DEFINE r == Region(p, m)
           b == MoveGap(buf, r.from)
<1>1. Sound(buf) /\ m <= Size(buf)  BY DEF CutRegion, IInv
<1>2. r.from \in 0..Size(buf) /\ r.length \in Nat /\ r.from + r.length <= Size(buf)
  BY <1>1, SizeAndIndex DEF Region
<1>3. buf' = DropAfter(b, r.length) /\ reported' = Report("delete", r.from, After(b, r.length))
  BY DEF CutRegion
<1>4. b = MoveGap(buf, r.from)  OBVIOUS
<1> HIDE DEF b, r
<1> QED  BY <1>1, <1>2, <1>3, <1>4, DropExplained

(* Overwriting a byte by a typed one.                                        *)
LEMMA OverwriteExplained ==
  ASSUME NEW b, Sound(b), NEW p \in Nat, p < Size(b), b.gap = p, NEW key \in Bytes,
         NEW f, f = Write(b, Index(b, p), <<key>>)
  PROVE  Explained(TextOf(b), Report("delete", p, <<ByteAt(b, p)>>) \o Report("insert", p, <<key>>), TextOf(f))
<1> DEFINE t == TextOf(b)  s == <<key>>
<1>1. s \in Seq(Bytes) /\ Len(s) = 1  OBVIOUS
<1>2. t \in Seq(Bytes) /\ Len(t) = Size(b) /\ t[p + 1] = b.store[Index(b, p)] /\ ByteAt(b, p) = b.store[Index(b, p)]
  <2>1. p \in 0..(Size(b) - 1)  BY SizeAndIndex
  <2> QED  BY <2>1, TextHeld
<1> HIDE DEF t, s
<1>3. Splice(t, p, 1) /\ TextOf(f) = Spliced(t, p, 1, s)
  <2>1. ~Straddles(b, p, Len(s)) /\ p + Len(s) <= Size(b)  BY <1>1, SizeAndIndex DEF Straddles
  <2>2. Splice(TextOf(b), p, Len(s)) /\ TextOf(f) = Spliced(TextOf(b), p, Len(s), s)
    <3>1. f = Write(b, Index(b, p), s)  BY DEF s
    <3> QED  BY <1>1, <2>1, <3>1, WriteText
  <2> QED  BY <1>1, <2>2 DEF t
<1>4. SubSeq(t, p + 1, p + 1) = <<t[p + 1]>>
  <2>1. 1 \in Nat  OBVIOUS
  <2>2. SubSeq(t, p + 1, p + 1) \in Seq(Bytes) /\ Len(SubSeq(t, p + 1, p + 1)) = 1  BY <1>1, <1>3, <2>1, SpliceBack
  <2>3. SubSeq(t, p + 1, p + 1)[1] = t[p + 1]  BY <1>2, <2>2
  <2> DEFINE z == SubSeq(t, p + 1, p + 1)
  <2> HIDE DEF z
  <2>4. z \in Seq(Bytes) /\ Len(z) = 1 /\ z[1] = t[p + 1]  BY <2>2, <2>3 DEF z
  <2>5. z = <<t[p + 1]>>  BY <2>4
  <2> QED  BY <2>5 DEF z
<1>5. Explained(t, Report("delete", p, SubSeq(t, p + 1, p + 1)) \o Report("insert", p, s), Spliced(t, p, 1, s))
  BY <1>1, <1>3, SpliceExplained
<1> QED  BY <1>2, <1>3, <1>4, <1>5 DEF t, s

(* Query-replace.                                                            *)
LEMMA ReplaceExplained ==
  ASSUME IInv, IInv', Extras = {}, Replace
  PROVE  Explained(TextOf(buf), reported', TextOf(buf'))
<1>1. Sound(buf) /\ Sound(buf') /\ Size(buf) \in Nat /\ Room(buf) \in Nat /\ point \in 0..Size(buf)
  <2>1. Sound(buf) /\ Sound(buf') /\ point \in 0..Size(buf)  BY DEF IInv
  <2> QED  BY <2>1, SizeAndIndex
<1>2. PICK n \in 1..MaxInsert, to \in Strings(MaxInsert), p \in Nat :
        /\ p + n <= Size(buf)
        /\ ~(n = Len(to) /\ Straddles(buf, p, n))
        /\ \E b \in Resized(p, SubSeq(TextOf(buf), p + 1, p + n), to) : buf' = Scrub(Write(b, Index(b, p), to))
        /\ reported' = Report("delete", p, SubSeq(TextOf(buf), p + 1, p + n)) \o Report("insert", p, to)
  <2>1. PICK n \in 1..MaxInsert, to \in Strings(MaxInsert) : \E p \in point..(Size(buf) - n) :
          /\ ~(n = Len(to) /\ Straddles(buf, p, n))
          /\ \E b \in Resized(p, SubSeq(TextOf(buf), p + 1, p + n), to) :
               buf' = Scrub(Write(b, Index(b, p), to))
          /\ reported' = Report("delete", p, SubSeq(TextOf(buf), p + 1, p + n)) \o Report("insert", p, to)
    BY DEF Replace
  <2>2. PICK p \in point..(Size(buf) - n) :
          /\ ~(n = Len(to) /\ Straddles(buf, p, n))
          /\ \E b \in Resized(p, SubSeq(TextOf(buf), p + 1, p + n), to) :
               buf' = Scrub(Write(b, Index(b, p), to))
          /\ reported' = Report("delete", p, SubSeq(TextOf(buf), p + 1, p + n)) \o Report("insert", p, to)
    BY <2>1
  <2>3. p \in Nat /\ p + n <= Size(buf)  BY <1>1, SizesAreNat
  <2> QED  BY <2>2, <2>3
<1> DEFINE t == TextOf(buf)  from == SubSeq(t, p + 1, p + n)  moved == MoveGap(buf, p + n)  more == Len(to) - n
<1>3. n \in Nat /\ to \in Seq(Bytes) /\ Len(to) \in Nat /\ more \in Int
  BY SizesAreNat, StringsAreSequences
<1>4. t \in Seq(Bytes) /\ Len(t) = Size(buf)  BY <1>1, TextHeld
<1>5. Splice(t, p, n)  BY <1>1, <1>2, <1>3, <1>4 DEF Splice
<1>6. Len(from) = n  BY <1>5, <1>3, SpliceBack
<1>7. SUFFICES TextOf(buf') = Spliced(t, p, n, to)
  <2>1. Explained(t, Report("delete", p, from) \o Report("insert", p, to), Spliced(t, p, n, to))
    BY <1>3, <1>5, SpliceExplained
  <2> HIDE DEF t
  <2> QED  BY <1>2, <1>7, <2>1 DEF t
<1>8. PICK b \in Resized(p, from, to) : buf' = Scrub(Write(b, Index(b, p), to))  BY <1>2
<1>9. Sound(moved) /\ moved.gap = p + n /\ TextOf(moved) = t
  <2>1. p + n \in 0..Size(buf)  BY <1>1, <1>2, <1>3
  <2> QED  BY <1>1, <2>1, MoveGapSound, MoveGapKeepsText
<1>10. \/ more = 0 /\ b = buf
       \/ more < 0 /\ b = [moved EXCEPT !.gap = @ + more]
       \/ more > 0 /\ more < Room(moved) /\ b = [moved EXCEPT !.gap = @ + more]
       \/ more > 0 /\ \E m \in GrowGap(moved, more) : b = [m EXCEPT !.gap = @ + more]
  <2> HIDE DEF from, moved
  <2>1. p + Len(from) = p + n /\ Len(to) - Len(from) = more  BY <1>6
  <2> HIDE DEF more
  <2> QED  BY <1>1, <1>3, <1>8, <2>1 DEF Resized, moved
<1> HIDE DEF from, t
<1>11. CASE more = 0 /\ b = buf
  <2>1. n = Len(to)  BY <1>3, <1>11
  <2> DEFINE f == Write(buf, Index(buf, p), to)
  <2>2. TextOf(f) = Spliced(t, p, n, to)
    <3>1. p + Len(to) <= Size(buf) /\ ~Straddles(buf, p, Len(to))  BY <1>2, <2>1
    <3> QED  BY <1>1, <1>3, <2>1, <3>1, WriteText DEF t
  <2>3. Sound(f) /\ buf' = Scrub(f)
    <3>1. buf.gap \in Nat  BY <1>1, Numbers
    <3>2. Index(buf, p) \in Nat  BY <1>1, <3>1 DEF Index
    <3> QED  BY <1>1, <1>3, <1>8, <1>11, <3>2, WriteSound
  <2> HIDE DEF f
  <2>4. TextOf(Scrub(f)) = TextOf(f)
    <3>1. /\ Sound(Scrub(f)) /\ Scrub(f).cap = f.cap /\ Scrub(f).gap = f.gap /\ Scrub(f).egap = f.egap
          /\ \A i \in 0..(f.cap - 1) : ~InGap(f, i) => Scrub(f).store[i] = f.store[i]
      BY <2>3, ScrubSound
    <3>2. Size(Scrub(f)) = Size(f) /\ \A q : Index(Scrub(f), q) = Index(f, q)  BY <3>1 DEF Size, Room, Index
    <3>3. \A q \in 0..(Size(f) - 1) : Scrub(f).store[Index(Scrub(f), q)] = TextOf(f)[q + 1]
      BY <2>3, <3>1, <3>2, SizeAndIndex, TextHeld
    <3>4. TextOf(f) \in Seq(Bytes) /\ Len(TextOf(f)) = Size(f)  BY <2>3, TextHeld
    <3> QED  BY <3>1, <3>2, <3>3, <3>4, TextIs
  <2> QED  BY <2>2, <2>3, <2>4
<1>12. ASSUME NEW m, Sound(m), m.gap = p + n, m.gap + more <= m.egap, TextOf(m) = t,
              b = [m EXCEPT !.gap = @ + more]
       PROVE  TextOf(buf') = Spliced(t, p, n, to)
  <2>1. p + Len(to) = m.gap + more  BY <1>3, <1>12
  <2>2. b = [m EXCEPT !.gap = p + Len(to)]  BY <1>12, <2>1
  <2>3. b.gap = p + Len(to) /\ b.egap = m.egap
    <3>1. PICK c, s1, g1, e1 : m = [store |-> s1, cap |-> c, gap |-> g1, egap |-> e1]  BY <1>12 DEF Sound
    <3> QED  BY <2>2, <3>1
  <2>4. Room(b) \in Nat
    <3>1. m.egap \in Nat /\ p + Len(to) <= m.egap  BY <1>12, <2>1, Numbers
    <3> QED  BY <1>3, <2>3, <3>1 DEF Room
  <2>5. to # <<>> => Len(to) > 0  BY <1>3
  <2>6. Index(b, p) \in Nat /\ (to # <<>> => Index(b, p) = p)  BY <1>3, <2>3, <2>4, <2>5 DEF Index
  <2> HIDE DEF more
  <2>7. p + Len(to) <= m.egap /\ p + n = m.gap  BY <1>12, <2>1
  <2>8. buf' = Scrub(Write([m EXCEPT !.gap = p + Len(to)], Index(b, p), to))  BY <1>8, <2>2
  <2>9. ASSUME NEW i \in Nat, to # <<>> => i = p, NEW f, Sound(f),
               f = Scrub(Write([m EXCEPT !.gap = p + Len(to)], i, to))
        PROVE  TextOf(f) = Spliced(TextOf(m), p, n, to)
    <3>1. Sound(m) /\ to \in Seq(Bytes) /\ p \in Nat /\ n \in Nat  BY <1>2, <1>3, <1>12
    <3>2. Splice(TextOf(m), p, n) /\ TextOf(f) = Spliced(TextOf(m), p, n, to)
      BY <2>7, <2>9, <3>1, ReplaceText
    <3> QED  BY <3>2
  <2>10. TextOf(buf') = Spliced(TextOf(m), p, n, to)  BY <1>1, <2>6, <2>8, <2>9
  <2> QED  BY <1>12, <2>10
<1>13. CASE more < 0 /\ b = [moved EXCEPT !.gap = @ + more]
  <2>1. moved.gap + more <= moved.egap  BY <1>3, <1>9, <1>13 DEF Sound
  <2> HIDE DEF moved, more
  <2> QED  BY <1>9, <1>12, <1>13, <2>1
<1>14. CASE more > 0 /\ more < Room(moved) /\ b = [moved EXCEPT !.gap = @ + more]
  <2>1. moved.gap + more <= moved.egap  BY <1>3, <1>9, <1>14 DEF Sound, Room
  <2> HIDE DEF moved, more
  <2> QED  BY <1>9, <1>12, <1>14, <2>1
<1>15. ASSUME more > 0, NEW m \in GrowGap(moved, more), b = [m EXCEPT !.gap = @ + more]
       PROVE  TextOf(buf') = Spliced(t, p, n, to)
  <2>1. more \in Nat  BY <1>3, <1>15
  <2> HIDE DEF moved, more
  <2>2. Sound(m) /\ Room(m) >= Room(moved) + more /\ m.gap = moved.gap  BY <1>9, <1>15, <2>1, GrowGapSound
  <2>3. Room(moved) \in Nat  BY <1>9, SizeAndIndex
  <2>4. m.gap + more <= m.egap  BY <2>1, <2>2, <2>3 DEF Sound, Room
  <2>5. TextOf(m) = t  BY <1>9, <1>15, <2>1, GrowGapKeepsText
  <2> QED  BY <1>9, <1>12, <1>15, <2>2, <2>4, <2>5
<1> HIDE DEF moved, more
<1> QED  BY <1>10, <1>11, <1>13, <1>14, <1>15

(* Every step explains itself.                                               *)
LEMMA StepExplained ==
  ASSUME IInv, IInv', Next, Extras = {}
  PROVE  reported' = Reset \/ Explained(TextOf(buf), reported', TextOf(buf'))
<1>1. /\ Sound(buf) /\ point \in 0..Size(buf) /\ Size(buf) \in Nat /\ Room(buf) \in Nat
      /\ mark \in Nat \cup {NoMark} /\ overwrite \in BOOLEAN
  BY SizeAndIndex DEF IInv
<1>2. /\ \A s \in Strings(MaxInsert) : s \in Seq(Bytes) /\ Len(s) \in Nat
      /\ Chunk \in Nat /\ Chunk >= 1
  BY SizesAreNat, StringsAreSequences
<1>3. ASSUME NEW s \in Strings(MaxInsert), NEW p \in 0..Size(buf), NEW room,
             (room = buf /\ Len(s) <= Room(buf)) \/ room \in GrowGap(buf, Len(s)),
             buf' = Fill(MoveGap(room, p), s), reported' = Report("insert", p, s)
      PROVE  Explained(TextOf(buf), reported', TextOf(buf'))
  <2>1. s \in Seq(Bytes) /\ Len(s) \in Nat /\ Len(s) <= Len(s)  BY <1>2
  <2> QED  BY <1>1, <1>3, <2>1, FillExplained
<1>4. CASE Insert
  <2>1. PICK key \in Bytes \cup {Return}, room \in WithRoom(buf, Room(buf) > 0, Chunk) :
          LET b == MoveGap(room, point)
          IN  \/ /\ key # Return
                 /\ point < Size(b)
                 /\ buf' = Write(b, Index(b, point), <<key>>)
                 /\ reported' = Report("delete", point, <<ByteAt(b, point)>>) \o Report("insert", point, <<key>>)
              \/ /\ buf' = Fill(b, <<TypedByte(key)>>)
                 /\ reported' = Report("insert", point, <<TypedByte(key)>>)
    BY <1>4 DEF Insert
  <2> DEFINE b == MoveGap(room, point)
  <2>2. (room = buf /\ Room(buf) > 0) \/ room \in GrowGap(buf, Chunk)  BY <2>1 DEF WithRoom
  <2>3. CASE /\ key # Return
             /\ point < Size(b)
             /\ buf' = Write(b, Index(b, point), <<key>>)
             /\ reported' = Report("delete", point, <<ByteAt(b, point)>>) \o Report("insert", point, <<key>>)
    <3>1. Sound(room) /\ Size(room) = Size(buf) /\ TextOf(room) = TextOf(buf)
      BY <1>1, <1>2, <2>2, GrowGapSound, GrowGapKeepsText
    <3>2. Sound(b) /\ b.gap = point /\ TextOf(b) = TextOf(buf)  BY <1>1, <3>1, MoveGapSound, MoveGapKeepsText
    <3>3. key \in Bytes /\ point \in Nat  BY <1>1, <2>1, <2>3
    <3> HIDE DEF b
    <3> QED  BY <2>3, <3>2, <3>3, OverwriteExplained
  <2>4. CASE /\ buf' = Fill(b, <<TypedByte(key)>>)
             /\ reported' = Report("insert", point, <<TypedByte(key)>>)
    <3> DEFINE s == <<TypedByte(key)>>
    <3>1. s \in Seq(Bytes) /\ Len(s) = 1  BY <2>1 DEF TypedByte, Bytes
    <3>2. (room = buf /\ Len(s) <= Room(buf)) \/ room \in GrowGap(buf, Chunk)  BY <1>1, <2>2, <3>1
    <3>3. buf' = Fill(MoveGap(room, point), s) /\ reported' = Report("insert", point, s)  BY <2>4
    <3>4. Len(s) <= Chunk  BY <1>2, <3>1
    <3> HIDE DEF s
    <3> QED  BY <1>1, <1>2, <3>1, <3>2, <3>3, <3>4, FillExplained
  <2> QED  BY <2>1, <2>3, <2>4
<1>5. CASE Backspace
  <2> DEFINE n == PrevUtf8CharSize(buf, point)
             b == MoveGap(buf, point)
  <2>1. \/ /\ b.gap - (n - 1) > 0 /\ buf' = DropBefore(b, n) /\ point' = Position(buf', buf'.egap)
           /\ reported' = Report("delete", point', Before(b, n))
        \/ buf' = b /\ reported' = <<>>
    BY <1>5 DEF Backspace
  <2>2. Sound(b) /\ b.gap = point /\ TextOf(b) = TextOf(buf)  BY <1>1, MoveGapSound, MoveGapKeepsText
  <2>3. n \in Nat  BY <1>1, LeftInText
  <2>4. b = MoveGap(buf, point)  OBVIOUS
  <2> HIDE DEF b, n
  <2>5. CASE /\ b.gap - (n - 1) > 0 /\ buf' = DropBefore(b, n) /\ point' = Position(buf', buf'.egap)
             /\ reported' = Report("delete", point', Before(b, n))
    <3>1. n <= b.gap /\ n <= point  BY <1>1, <2>2, <2>3, <2>5
    <3>2. Sound(buf') /\ buf'.gap = point - n  BY <2>2, <2>3, <2>5, <3>1, DropSound
    <3>3. point' = point - n  BY <2>5, <3>2, AtEndOfGap
    <3> QED  BY <1>1, <2>3, <2>4, <2>5, <3>1, <3>3, DropExplained
  <2>6. CASE buf' = b /\ reported' = <<>>  BY <2>2, <2>6, NothingExplained
  <2> QED  BY <2>1, <2>5, <2>6
<1>6. CASE Delete
  <2>1. DropChar  BY <1>6 DEF Delete
  <2> QED  BY <2>1, DropCharExplained
<1>7. CASE InsertString
  <2>4. PICK s \in Strings(MaxInsert) \ {<<>>} : \E room \in WithRoom(buf, Len(s) < Room(buf), Len(s)) :
          buf' = Fill(MoveGap(room, point), s) /\ reported' = Report("insert", point, s)
    BY <1>7 DEF InsertString
  <2>1. PICK room \in WithRoom(buf, Len(s) < Room(buf), Len(s)) :
          buf' = Fill(MoveGap(room, point), s) /\ reported' = Report("insert", point, s)
    BY <2>4
  <2>2. s \in Strings(MaxInsert)  BY <2>4
  <2>3. (room = buf /\ Len(s) <= Room(buf)) \/ room \in GrowGap(buf, Len(s))  BY <1>1, <1>2, <2>1, <2>2 DEF WithRoom
  <2> QED  BY <1>1, <1>3, <2>1, <2>2, <2>3
<1>8. CASE AppendString
  <2>1. PICK s \in Strings(MaxInsert) :
          \/ \E room \in WithRoom(buf, Len(s) < Room(buf), Len(s)) :
               buf' = Fill(MoveGap(room, Size(buf)), s) /\ reported' = Report("insert", Size(buf), s)
          \/ buf' = buf /\ reported' = <<>>
    BY <1>8 DEF AppendString
  <2>2. ASSUME NEW room \in WithRoom(buf, Len(s) < Room(buf), Len(s)),
               buf' = Fill(MoveGap(room, Size(buf)), s), reported' = Report("insert", Size(buf), s)
        PROVE  Explained(TextOf(buf), reported', TextOf(buf'))
    <3>1. (room = buf /\ Len(s) <= Room(buf)) \/ room \in GrowGap(buf, Len(s))  BY <1>1, <1>2, <2>1, <2>2 DEF WithRoom
    <3>2. Size(buf) \in 0..Size(buf)  BY <1>1
    <3> QED  BY <1>3, <2>1, <2>2, <3>1, <3>2
  <2>3. CASE buf' = buf /\ reported' = <<>>  BY <2>3, NothingExplained
  <2> QED  BY <2>1, <2>2, <2>3
<1>9. CASE InsertFile
  <2>4. PICK s \in Strings(MaxInsert) : \E room \in WithRoom(buf, Room(buf) >= Len(s), Len(s)) :
          buf' = Fill(MoveGap(room, point), s) /\ reported' = Report("insert", point, s)
    BY <1>9 DEF InsertFile
  <2>1. PICK room \in WithRoom(buf, Room(buf) >= Len(s), Len(s)) :
          buf' = Fill(MoveGap(room, point), s) /\ reported' = Report("insert", point, s)
    BY <2>4
  <2>3. (room = buf /\ Len(s) <= Room(buf)) \/ room \in GrowGap(buf, Len(s))  BY <1>1, <1>2, <2>1 DEF WithRoom
  <2> QED  BY <1>1, <1>3, <2>1, <2>3
<1>10. CASE LoadFile  BY <1>10 DEF LoadFile
<1>11. CASE DeleteRegion
  <2>1. PICK start \in 0..Size(buf), end \in 0..Size(buf) :
          /\ start < end
          /\ buf' = DropAfter(MoveGap(buf, start), end - start)
          /\ reported' = Report("delete", start, After(MoveGap(buf, start), end - start))
    BY <1>1, <1>11 DEF DeleteRegion
  <2>2. end - start \in Nat /\ start + (end - start) <= Size(buf)  BY <1>1, <2>1
  <2> QED  BY <1>1, <2>1, <2>2, DropExplained
<1>12. CASE InsertBytes
  <2>1. PICK p \in 0..Size(buf), s \in Strings(MaxInsert) \ {<<>>} :
          /\ \E room \in WithRoom(buf, Len(s) < Room(buf), Len(s)) : buf' = Fill(MoveGap(room, p), s)
          /\ reported' = Report("insert", p, s)
    BY <1>12 DEF InsertBytes
  <2>2. PICK room \in WithRoom(buf, Len(s) < Room(buf), Len(s)) : buf' = Fill(MoveGap(room, p), s)  BY <2>1
  <2>4. s \in Strings(MaxInsert)  BY <2>1
  <2>3. (room = buf /\ Len(s) <= Room(buf)) \/ room \in GrowGap(buf, Len(s))  BY <1>1, <1>2, <2>2, <2>4 DEF WithRoom
  <2> QED  BY <1>3, <2>1, <2>2, <2>3, <2>4
<1>13. CASE Cut
  <2>1. mark \in Nat /\ CutRegion(point, mark)  BY <1>1, <1>13 DEF Cut
  <2> QED  BY <1>1, <2>1, CutRegionExplained
<1>14. CASE Copy
  <2>1. buf' = MoveGap(buf, Region(point, mark).from) /\ reported' = <<>> /\ mark \in Nat
    BY <1>1, <1>14 DEF Copy
  <2>2. Region(point, mark).from \in 0..Size(buf)  BY <1>1, <2>1 DEF Region
  <2>3. TextOf(buf') = TextOf(buf)  BY <1>1, <2>1, <2>2, MoveGapKeepsText
  <2> QED  BY <2>1, <2>3, NothingExplained
<1>15. CASE KillToEol
  <2>1. \/ DropChar
        \/ \E end \in LineEnd(buf, point) : CutRegion(end, point)
        \/ buf' = buf /\ reported' = <<>>
    BY <1>15 DEF KillToEol
  <2>2. CASE DropChar  BY <2>2, DropCharExplained
  <2>3. ASSUME NEW end \in LineEnd(buf, point), CutRegion(end, point)
        PROVE  Explained(TextOf(buf), reported', TextOf(buf'))
    <3>1. end \in 0..Size(buf) /\ point \in Nat  BY <1>1, LineEndInText
    <3> QED  BY <2>3, <3>1, CutRegionExplained
  <2>4. CASE buf' = buf /\ reported' = <<>>  BY <2>4, NothingExplained
  <2> QED  BY <2>1, <2>2, <2>3, <2>4
<1>16. CASE Replace  BY <1>16, ReplaceExplained
<1>17. CASE Left \/ Right \/ SetPoint \/ SetMark \/ ToggleOverwrite
  <2>1. buf' = buf /\ reported' = <<>>  BY <1>17 DEF Left, Right, SetPoint, SetMark, ToggleOverwrite
  <2> QED  BY <2>1, NothingExplained
<1> QED
  BY <1>4, <1>5, <1>6, <1>7, <1>8, <1>9, <1>10, <1>11, <1>12, <1>13, <1>14, <1>15, <1>16, <1>17 DEF Next

(* undo.c: "Every function that changes a buffer calls record_change(), so   *)
(* nothing escapes the history".  Whatever the sizes: what a step reports,   *)
(* applied to the old text, gives the new text, and reverted gives it back,  *)
(* unless the history is told to forget everything.                          *)
THEOREM ReportsHold ==
  ASSUME Extras = {}
  PROVE  Spec => ReportsAreTheChange
<1> DEFINE A == \/ reported' = Reset
                \/ /\ TextOf(buf)' = FoldLeft(Applied, TextOf(buf), reported')
                   /\ TextOf(buf) = FoldLeft(Reverted, TextOf(buf)', Reverse(reported'))
<1>1. IInv /\ IInv' /\ [Next]_vars => [A]_vars
  <2> SUFFICES ASSUME IInv, IInv', Next PROVE A  OBVIOUS
  <2>1. reported' = Reset \/ Explained(TextOf(buf), reported', TextOf(buf'))  BY StepExplained
  <2>2. TextOf(buf') = TextOf(buf)'  OBVIOUS
  <2> QED  BY <2>1, <2>2 DEF Explained
<1>2. Spec => []IInv  BY Inductive
<1>3. Spec => [][A]_vars  BY <1>1, <1>2, PTL DEF Spec
<1> QED  BY <1>3 DEF ReportsAreTheChange

-----------------------------------------------------------------------------
(* Whole characters                                                          *)

(* Going left over a whole character.                                        *)
LEMMA LeftOverCharacter ==
  ASSUME NEW b, Sound(b), NEW p \in 0..Size(b), WellFormed(TextOf(b)), AtBoundary(TextOf(b), p)
  PROVE  /\ PrevUtf8CharSize(b, p) \in {1, 2}
         /\ PrevUtf8CharSize(b, p) <= p => AtBoundary(TextOf(b), p - PrevUtf8CharSize(b, p))
<1> DEFINE t == TextOf(b)  P(n) == p - n >= 0 /\ Utf8Size(ByteAt(b, p - n)) = n
<1>1. Size(b) \in Nat /\ Len(t) = Size(b) /\ \A q \in 0..(Size(b) - 1) : ByteAt(b, q) = t[q + 1]
  BY SizeAndIndex, TextHeld
<1>2. \A n \in 2..4 : P(n) => n = 2  BY DEF Utf8Size
<1>3. CASE P(2)
  <2>1. \E n \in 2..4 : P(n)  BY <1>3
  <2>2. PrevUtf8CharSize(b, p) = CHOOSE n \in 2..4 : P(n)  BY <2>1 DEF PrevUtf8CharSize
  <2>3. PrevUtf8CharSize(b, p) = 2
    <3> HIDE DEF P
    <3> QED  BY <1>2, <2>1, <2>2
  <2>4. p - 2 \in 0..(Size(b) - 1) /\ ByteAt(b, p - 2) = Lead  BY <1>1, <1>3 DEF Utf8Size
  <2>5. t[(p - 2) + 1] # Cont  BY <1>1, <2>4, BytesDiffer
  <2> QED  BY <2>3, <2>5 DEF AtBoundary
<1>4. CASE ~P(2)
  <2>1. ~\E n \in 2..4 : P(n)  BY <1>2, <1>4
  <2>2. PrevUtf8CharSize(b, p) = 1  BY <2>1 DEF PrevUtf8CharSize
  <2>3. ASSUME 1 <= p PROVE t[(p - 1) + 1] # Cont
    <3>1. SUFFICES ASSUME t[p] = Cont PROVE FALSE
      <4>1. (p - 1) + 1 = p  OBVIOUS
      <4> QED  BY <3>1, <4>1
    <3>2. p \in 1..Len(t)  BY <1>1, <2>3
    <3> HIDE DEF t
    <3>3. p > 1 /\ t[p - 1] = Lead  BY <3>1, <3>2 DEF WellFormed, t
    <3>4. p - 2 \in 0..(Size(b) - 1) /\ (p - 2) + 1 = p - 1  BY <1>1, <3>2, <3>3
    <3>5. ByteAt(b, p - 2) = Lead  BY <1>1, <3>3, <3>4
    <3> QED  BY <1>4, <3>4, <3>5 DEF Utf8Size
  <2> QED  BY <2>2, <2>3 DEF AtBoundary
<1> QED  BY <1>3, <1>4

(* Going right over a whole character.                                       *)
LEMMA RightOverCharacter ==
  ASSUME NEW t, Len(t) \in Nat, NEW p \in 0..(Len(t) - 1), WellFormed(t), AtBoundary(t, p)
  PROVE  /\ Utf8Size(t[p + 1]) \in {1, 2} /\ p + Utf8Size(t[p + 1]) <= Len(t)
         /\ AtBoundary(t, p + Utf8Size(t[p + 1]))
<1>1. p + 1 \in 1..Len(t) /\ p # Len(t)  OBVIOUS
<1>2. CASE t[p + 1] = Lead
  <2>1. p + 1 < Len(t) /\ t[(p + 1) + 1] = Cont  BY <1>1, <1>2 DEF WellFormed
  <2>2. ASSUME p + 2 # Len(t) PROVE t[(p + 2) + 1] # Cont
    <3>1. (p + 2) + 1 \in 1..Len(t) /\ ((p + 2) + 1) - 1 = (p + 1) + 1  BY <2>1, <2>2
    <3>2. t[(p + 2) + 1] = Cont => t[(p + 1) + 1] = Lead  BY <3>1 DEF WellFormed
    <3> QED  BY <2>1, <3>2, BytesDiffer
  <2> QED  BY <1>2, <2>1, <2>2 DEF AtBoundary, Utf8Size
<1>3. CASE t[p + 1] # Lead
  <2>1. ASSUME p + 1 # Len(t) PROVE t[(p + 1) + 1] # Cont
    <3>1. (p + 1) + 1 \in 1..Len(t) /\ ((p + 1) + 1) - 1 = p + 1  BY <1>1, <2>1
    <3>2. t[(p + 1) + 1] = Cont => t[p + 1] = Lead  BY <3>1 DEF WellFormed
    <3> QED  BY <1>3, <3>2
  <2> QED  BY <1>1, <1>3, <2>1 DEF AtBoundary, Utf8Size
<1> QED  BY <1>2, <1>3

(* Characters cut out between two boundaries leave whole characters.         *)
LEMMA CutOutWhole ==
  ASSUME NEW t, NEW p, NEW n, Splice(t, p, n), n > 0, WellFormed(t), AtBoundary(t, p), AtBoundary(t, p + n)
  PROVE  WellFormed(Spliced(t, p, n, <<>>)) /\ AtBoundary(Spliced(t, p, n, <<>>), p)
<1> DEFINE u == Spliced(t, p, n, <<>>)
<1>1. <<>> \in Seq(Bytes) /\ Len(<<>>) = 0  OBVIOUS
<1>2. SplicedIs(t, p, n, <<>>, u)  BY <1>1, SplicedText
<1>3. Len(t) \in Nat /\ p \in Nat /\ n \in Nat /\ p + n <= Len(t)  BY DEF Splice
<1> HIDE DEF u
<1>4. Len(u) = Len(t) - n /\ \A k \in 1..(Len(t) - n) : u[k] = IF k <= p THEN t[k] ELSE t[k + n]
  <2>1. Len(t) - n + Len(<<>>) = Len(t) - n  BY <1>1, <1>3
  <2>2. ASSUME NEW k \in 1..(Len(t) - n) PROVE u[k] = IF k <= p THEN t[k] ELSE t[k + n]
    <3>1. k - Len(<<>>) + n = k + n /\ (k <= p + Len(<<>>) <=> k <= p)  BY <1>1, <1>3
    <3> QED  BY <1>2, <2>1, <3>1 DEF SplicedIs
  <2> QED  BY <1>2, <2>1, <2>2 DEF SplicedIs
<1>5. p # Len(t) /\ t[p + 1] # Cont  BY <1>3 DEF AtBoundary
<1>6. ASSUME NEW k \in 1..Len(u), u[k] = Lead PROVE k < Len(u) /\ u[k + 1] = Cont
  <2>1. CASE k <= p
    <3>1. t[k] = Lead /\ k \in 1..Len(t)  BY <1>3, <1>4, <1>6, <2>1
    <3>2. k < Len(t) /\ t[k + 1] = Cont  BY <3>1 DEF WellFormed
    <3>3. k # p  BY <1>5, <3>2
    <3>4. k + 1 \in 1..(Len(t) - n) /\ k + 1 <= p  BY <1>3, <2>1, <3>3
    <3> QED  BY <1>3, <1>4, <3>2, <3>4
  <2>2. CASE ~(k <= p)
    <3>1. t[k + n] = Lead /\ k + n \in 1..Len(t)  BY <1>3, <1>4, <1>6, <2>2
    <3>2. k + n < Len(t) /\ t[(k + n) + 1] = Cont  BY <3>1 DEF WellFormed
    <3>3. k + 1 \in 1..(Len(t) - n) /\ ~(k + 1 <= p) /\ (k + 1) + n = (k + n) + 1  BY <1>3, <2>2, <3>2
    <3> QED  BY <1>3, <1>4, <3>2, <3>3
  <2> QED  BY <2>1, <2>2
<1>7. ASSUME NEW k \in 1..Len(u), u[k] = Cont PROVE k > 1 /\ u[k - 1] = Lead
  <2>1. CASE k <= p
    <3>1. t[k] = Cont /\ k \in 1..Len(t)  BY <1>3, <1>4, <1>7, <2>1
    <3>2. k > 1 /\ t[k - 1] = Lead  BY <3>1 DEF WellFormed
    <3>3. k - 1 \in 1..(Len(t) - n) /\ k - 1 <= p  BY <1>3, <1>4, <2>1, <3>2
    <3> QED  BY <1>3, <1>4, <3>2, <3>3
  <2>2. CASE ~(k <= p)
    <3>1. t[k + n] = Cont /\ k + n \in 1..Len(t)  BY <1>3, <1>4, <1>7, <2>2
    <3>2. k + n > 1 /\ t[(k + n) - 1] = Lead  BY <3>1 DEF WellFormed
    <3>3. k # p + 1
      <4>1. SUFFICES ASSUME k = p + 1 PROVE FALSE  OBVIOUS
      <4>2. p + n # Len(t) /\ k + n = (p + n) + 1  BY <1>3, <3>1, <4>1
      <4> QED  BY <3>1, <4>2 DEF AtBoundary
    <3>4. k - 1 \in 1..(Len(t) - n) /\ ~(k - 1 <= p) /\ (k - 1) + n = (k + n) - 1  BY <1>3, <1>4, <2>2, <3>3
    <3> QED  BY <1>3, <1>4, <3>2, <3>4
  <2> QED  BY <2>1, <2>2
<1>8. AtBoundary(u, p)
  <2>1. SUFFICES ASSUME p # Len(u) PROVE u[p + 1] # Cont  BY DEF AtBoundary
  <2>2. p + n # Len(t) /\ p + 1 \in 1..(Len(t) - n) /\ (p + 1) + n = (p + n) + 1  BY <1>3, <1>4, <2>1
  <2>3. t[(p + n) + 1] # Cont  BY <2>2 DEF AtBoundary
  <2>4. ~(p + 1 <= p)  BY <1>3
  <2> QED  BY <1>4, <2>2, <2>3, <2>4
<1> QED  BY <1>6, <1>7, <1>8 DEF WellFormed, u

(* Moving and deleting by characters.                                        *)
LEMMA StepKeepsWhole ==
  ASSUME IInv, Extras = {}, WellFormed(TextOf(buf)), AtBoundary(TextOf(buf), point),
         Left \/ Right \/ Backspace \/ Delete
  PROVE  WellFormed(TextOf(buf')) /\ AtBoundary(TextOf(buf'), point')
<1> DEFINE t == TextOf(buf)
<1>1. /\ Sound(buf) /\ point \in 0..Size(buf) /\ Size(buf) \in Nat
      /\ t \in Seq(Bytes) /\ Len(t) = Size(buf)
  BY SizeAndIndex, TextHeld DEF IInv
<1> DEFINE n == PrevUtf8CharSize(buf, point)
<1>2. n \in {1, 2} /\ (n <= point => AtBoundary(t, point - n))  BY <1>1, LeftOverCharacter
<1> HIDE DEF n
<1>3. CASE Left
  <2>1. buf' = buf /\ point' = LeftOf(buf, point)  BY <1>3 DEF Left
  <2>2. LeftOf(buf, point) = IF n <= point THEN point - n ELSE 0  BY <1>1, <1>2 DEF LeftOf, Bigger, n
  <2>3. CASE n <= point  BY <1>2, <2>1, <2>2, <2>3
  <2>4. CASE ~(n <= point)
    <3>1. n = 2 => point \in {0, 1}  BY <1>1, <1>2, <2>4
    <3>2. point = 0
      <4>1. n > 1 => n <= point  BY <1>1, LeftInText DEF n
      <4> QED  BY <1>1, <1>2, <2>4, <4>1
    <3> QED  BY <2>1, <2>2, <2>4, <3>2
  <2> QED  BY <2>3, <2>4
<1>4. CASE Right
  <2>1. buf' = buf /\ point' = RightOf(buf, point)  BY <1>4 DEF Right
  <2>2. CASE point = Size(buf)
    <3>1. RightOf(buf, point) = Size(buf)  BY <1>1, <2>2 DEF RightOf, Utf8Size
    <3> QED  BY <1>1, <2>1, <2>2, <3>1
  <2>3. CASE point # Size(buf)
    <3>1. point \in 0..(Size(buf) - 1)  BY <1>1, <2>3
    <3>2. ByteAt(buf, point) = t[point + 1]  BY <1>1, <3>1, TextHeld
    <3> DEFINE k == Utf8Size(t[point + 1])
    <3>3. k \in {1, 2} /\ point + k <= Len(t) /\ AtBoundary(t, point + k)
      <4> HIDE DEF t
      <4>1. point \in 0..(Len(t) - 1)  BY <1>1, <3>1
      <4> QED  BY <1>1, <4>1, RightOverCharacter DEF t
    <3>4. RightOf(buf, point) = point + k
      <4> HIDE DEF t, k
      <4>1. RightOf(buf, point) = IF point + k < Size(buf) THEN point + k ELSE Size(buf)  BY <3>2 DEF RightOf, k
      <4> QED  BY <1>1, <3>3, <4>1
    <3> QED  BY <2>1, <3>3, <3>4
  <2> QED  BY <2>2, <2>3
<1>5. CASE Backspace
  <2> DEFINE b == MoveGap(buf, point)
  <2>1. \/ b.gap - (n - 1) > 0 /\ buf' = DropBefore(b, n) /\ point' = Position(buf', buf'.egap)
        \/ buf' = b /\ point' = point
    BY <1>5 DEF Backspace, n
  <2>2. Sound(b) /\ b.gap = point /\ TextOf(b) = t  BY <1>1, MoveGapSound, MoveGapKeepsText
  <2> HIDE DEF b
  <2>3. CASE b.gap - (n - 1) > 0 /\ buf' = DropBefore(b, n) /\ point' = Position(buf', buf'.egap)
    <3>1. n \in Nat /\ n > 0 /\ n <= b.gap /\ n <= point /\ (point - n) + n = point  BY <1>1, <1>2, <2>2, <2>3
    <3>2. Sound(buf') /\ buf'.gap = point - n  BY <2>2, <2>3, <3>1, DropSound
    <3>3. point' = point - n  BY <2>3, <3>2, AtEndOfGap
    <3> DEFINE h == point - n
    <3>4. Splice(t, h, n) /\ TextOf(buf') = Spliced(t, h, n, <<>>)
      <4>1. /\ Splice(TextOf(b), b.gap - n, n) /\ TextOf(DropBefore(b, n)) = Spliced(TextOf(b), b.gap - n, n, <<>>)
        BY <2>2, <3>1, DropBeforeText
      <4> QED  BY <2>2, <2>3, <4>1
    <3>5. AtBoundary(t, h) /\ AtBoundary(t, h + n)  BY <1>2, <3>1
    <3> HIDE DEF h, t
    <3>6. WellFormed(t)  BY DEF t
    <3>7. WellFormed(Spliced(t, h, n, <<>>)) /\ AtBoundary(Spliced(t, h, n, <<>>), h)
      BY <3>1, <3>4, <3>5, <3>6, CutOutWhole
    <3> QED  BY <3>3, <3>4, <3>7 DEF h
  <2>4. CASE buf' = b /\ point' = point  BY <2>2, <2>4
  <2> QED  BY <2>1, <2>3, <2>4
<1>6. CASE Delete
  <2> DEFINE b == MoveGap(buf, point)
             k == Utf8Size(ByteAt(b, point))
  <2>1. \/ /\ b.egap < b.cap /\ b.egap + k <= b.cap
           /\ buf' = DropAfter(b, k)
           /\ point' = Position(buf', buf'.egap)
        \/ buf' = b /\ point' = point
    BY <1>6 DEF Delete, DropChar
  <2>2. Sound(b) /\ b.gap = point /\ Size(b) = Size(buf) /\ TextOf(b) = t  BY <1>1, MoveGapSound, MoveGapKeepsText
  <2>a. k = Utf8Size(ByteAt(b, point))  OBVIOUS
  <2> HIDE DEF b, k
  <2>3. CASE /\ b.egap < b.cap /\ b.egap + k <= b.cap
             /\ buf' = DropAfter(b, k)
             /\ point' = Position(buf', buf'.egap)
    <3>1. point \in 0..(Size(buf) - 1)
      <4>1. ASSUME NEW c \in Int, NEW e \in Int, NEW h \in Int, e < c PROVE h <= (c - (e - h)) - 1
        BY <4>1
      <4>2. b.gap <= (b.cap - (b.egap - b.gap)) - 1  BY <2>2, <2>3, <4>1, Numbers
      <4>3. point <= Size(buf) - 1  BY <2>2, <4>2, Numbers
      <4> QED  BY <1>1, <4>3
    <3>2. k = Utf8Size(t[point + 1])
      <4>1. ByteAt(b, point) = b.store[Index(b, point)] /\ TextOf(b)[point + 1] = b.store[Index(b, point)]
        BY <2>2, <3>1, TextHeld
      <4> QED  BY <2>2, <2>a, <4>1
    <3> HIDE DEF t
    <3>3. k \in {1, 2} /\ AtBoundary(t, point + k) /\ WellFormed(t) /\ AtBoundary(t, point)
      <4>1. point \in 0..(Len(t) - 1)  BY <1>1, <3>1
      <4>2. WellFormed(t) /\ AtBoundary(t, point)  BY DEF t
      <4> QED  BY <1>1, <3>2, <4>1, <4>2, RightOverCharacter
    <3>4. k \in Nat /\ k > 0  BY <3>3
    <3>5. Sound(buf') /\ buf'.gap = b.gap  BY <2>2, <2>3, <3>4, DropSound
    <3>6. point' = point  BY <2>2, <2>3, <3>5, AtEndOfGap
    <3>7. Splice(t, point, k) /\ TextOf(buf') = Spliced(t, point, k, <<>>)
      <4>1. Splice(TextOf(b), b.gap, k) /\ TextOf(DropAfter(b, k)) = Spliced(TextOf(b), b.gap, k, <<>>)
        BY <2>2, <2>3, <3>4, DropAfterText
      <4> QED  BY <2>2, <2>3, <4>1
    <3>8. WellFormed(Spliced(t, point, k, <<>>)) /\ AtBoundary(Spliced(t, point, k, <<>>), point)
      BY <3>3, <3>4, <3>7, CutOutWhole
    <3> QED  BY <3>6, <3>7, <3>8
  <2>4. CASE buf' = b /\ point' = point  BY <2>2, <2>4
  <2> QED  BY <2>1, <2>3, <2>4
<1> QED  BY <1>3, <1>4, <1>5, <1>6

(* Moving and deleting by characters keeps a text of whole characters whole, *)
(* and the cursor between two of them, in texts of any length.  Nothing is   *)
(* said of typing, which in overwrite mode does split characters.            *)
THEOREM CharactersKeptWhole ==
  ASSUME Extras = {}
  PROVE  Spec => CharactersStayWhole
<1> DEFINE A == (/\ WellFormed(TextOf(buf)) /\ AtBoundary(TextOf(buf), point)
                 /\ (Left \/ Right \/ Backspace \/ Delete))
                => WellFormed(TextOf(buf)') /\ AtBoundary(TextOf(buf)', point')
<1>1. IInv => [A]_vars
  <2> SUFFICES ASSUME IInv, WellFormed(TextOf(buf)), AtBoundary(TextOf(buf), point),
                      Left \/ Right \/ Backspace \/ Delete
               PROVE  WellFormed(TextOf(buf)') /\ AtBoundary(TextOf(buf)', point')
    OBVIOUS
  <2>1. WellFormed(TextOf(buf')) /\ AtBoundary(TextOf(buf'), point')  BY StepKeepsWhole
  <2> QED  BY <2>1
<1>2. Spec => []IInv  BY Inductive
<1>3. Spec => [][A]_vars  BY <1>1, <1>2, PTL
<1> QED  BY <1>3 DEF CharactersStayWhole
=============================================================================
