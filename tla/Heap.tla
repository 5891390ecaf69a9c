-------------------------------- MODULE Heap --------------------------------
(* The memory of Femtoscheme (femtoscheme/flisp.c): two semi-spaces of words,
   the value stack, the frames on it, the bindings of symbols and the handles
   C code gives the collector. The collector moves what it can reach from
   these into the other space and swaps the two.

   A value is a pair <<tag, contents>>; what lives in the heap has the address
   of its first word as contents. An address counts from SpaceGap in the second
   space, so that a pointer left behind by a collection is never an address
   of the space in use. Words of the stack and of the heap that are not values
   (frame links, counts, sizes) carry the tag "raw".

   Strings, numbers that are no fixnums, generated symbols and vectors that
   have grown are relocated by the same two rules (copy the words, leave a
   forwarding pointer) and have no cells here; the code of a function is pinned
   outside the heap.                                                         *)
EXTENDS Integers, Sequences, SequencesExt

CONSTANT SpaceGap  \* distance of the two spaces in addresses

Con(c) == <<"con", c>>
T       == Con("T")
F       == Con("F")
NIL     == Con("NIL")
UNBOUND == Con("UNBOUND")
FWD     == Con("FWD")
Fix(n)  == <<"fix", n>>
Raw(n)  == <<"raw", n>>

InHeap(v) == v[1] \in {"cons", "vec", "fun"}
isCons(v) == v[1] = "cons"

-----------------------------------------------------------------------------
(* A heap: the words used so far of the space in use, which of the two it is,
   the size the spaces should have, whether only one has it already (the code's
   "grew") and the place of the last cons of the space (the code's lim).     *)

NewHeap(words) == [mem |-> <<>>, space |-> 0, size |-> words, grew |-> FALSE,
                   lim |-> words - 2]

Base(h)    == h.space * SpaceGap
Word(h, a) == h.mem[a - Base(h)]
Put(h, a, v) == [h EXCEPT !.mem[a - Base(h)] = v]
Live(h, a) == a - Base(h) \in 1..Len(h.mem)

Even(n) == n + (n % 2)

\* Words of the object v points to, whose first word is w.
Extent(v, w) == CASE v[1] = "cons" -> 2
                  [] v[1] = "fun"  -> 4
                  [] OTHER         -> Even(w[2] + 1)

\* The words of such an object that hold values, in the order they are moved.
Parts(v, w) == CASE v[1] = "cons" -> <<0, 1>>
                 [] v[1] = "fun"  -> <<2, 1>>
                 [] OTHER         -> [i \in 1..w[2] |-> i]

vectorSize(h, v)   == Word(h, v[2])[2]
vectorElt(h, v, i) == Word(h, v[2] + 1 + i)
car(h, v)    == Word(h, v[2])
cdr(h, v)    == Word(h, v[2] + 1)
fnCode(h, v) == Word(h, v[2])[2]
fnVals(h, v) == Word(h, v[2] + 1)
fnEnv(h, v)  == Word(h, v[2] + 2)

-----------------------------------------------------------------------------
(* Moving one value: g is both spaces during a collection. An object is copied
   the first time, its first words then say where it went, and what the copy
   points to is moved after it.                                              *)
RECURSIVE relocate(_, _), relocateWord(_, _)

\* The object at the place at, whose first word is w, goes to where nc points.
CopiedTo(g, at, nc, w) ==
    FoldLeft(relocateWord,
             [g EXCEPT !.to = @ \o SubSeq(g.from, at, at + Extent(nc, w) - 1),
                       !.from[at] = FWD, !.from[at + 1] = nc],
             [i \in DOMAIN Parts(nc, w) |-> Len(g.to) + 1 + Parts(nc, w)[i]])

relocate(g, v) ==
    LET at == v[2] - g.fromBase
        nc == <<v[1], g.toBase + Len(g.to) + 1>>
    IN IF ~(InHeap(v) /\ at \in 1..Len(g.from)) THEN [g |-> g, v |-> v]
       ELSE IF g.from[at] = FWD THEN [g |-> g, v |-> g.from[at + 1]]
       ELSE [g |-> CopiedTo(g, at, nc, g.from[at]), v |-> nc]

relocateWord(g, i) == LET c == relocate(g, g.to[i])
                      IN [c.g EXCEPT !.to[i] = c.v]

\* Moving every value of the sequence vs.
relocateAll(g, vs) ==
    FoldLeft(LAMBDA acc, v : LET c == relocate(acc.g, v)
                             IN [g |-> c.g, vs |-> Append(acc.vs, c.v)],
             [g |-> g, vs |-> <<>>], vs)

-----------------------------------------------------------------------------
(* The memory m: [heap, stack, nstack, sp, frame, bind, hnd, lasterror,
   throwing]. A frame is <func> <args> <env> <caller's frame> <nargs> <ip>
   <captured>, and frame is the place after it.                              *)

\* Places of the stack that hold values, from the top frame down: all but the
\* four words that end a frame.
RECURSIVE ValuePlaces(_, _, _)
ValuePlaces(stack, f, top) ==
    [i \in 1..(top - f) |-> f + i - 1]
      \o IF f = 0 THEN <<>> ELSE ValuePlaces(stack, stack[f - 4][2], f - 4)

\* An exception that is on its way keeps the frame it was raised in.
StackRoots(m) ==
    IF m.throwing > m.frame
    THEN ValuePlaces(m.stack, m.stack[m.throwing - 4][2], m.throwing - 4)
    ELSE ValuePlaces(m.stack, m.frame, m.sp)

\* The space that is collected, and the one it is collected into.
Spaces(h) == [from |-> h.mem, fromBase |-> Base(h), to |-> <<>>,
              toBase |-> (1 - h.space) * SpaceGap]

\* What the collector starts from: the stack, the handles, the bindings of the
\* symbols names and the last error.
GcRoots(m, places, names) ==
    [i \in 1..Len(places) |-> m.stack[places[i]]] \o m.hnd
      \o [i \in 1..Len(names) |-> m.bind[names[i]]] \o <<m.lasterror>>

\* The heap after its words became to: both spaces grow one after the other.
Swapped(h, to, mustgrow) ==
    LET lim  == (IF h.grew THEN 2 * h.size ELSE h.size) - 2
        grow == h.grew \/ mustgrow \/ (lim - Len(to)) * 8 < (h.size * 8) \div 5
    IN [mem |-> to, space |-> 1 - h.space, lim |-> lim,
        grew |-> IF grow THEN ~h.grew ELSE h.grew,
        size |-> IF h.grew THEN 2 * h.size ELSE h.size]

\* done is the outcome of moving the roots.
Collected(m, mustgrow, places, names, done) ==
    [m EXCEPT
        !.heap = Swapped(@, done.g.to, mustgrow),
        !.stack = [p \in DOMAIN @ |-> IF p \in ToSet(places)
                     THEN done.vs[SelectInSeq(places, LAMBDA q : q = p)] ELSE @[p]],
        !.hnd = SubSeq(done.vs, Len(places) + 1, Len(places) + Len(@)),
        !.bind = [x \in DOMAIN @ |->
                    done.vs[Len(places) + Len(m.hnd)
                              + SelectInSeq(names, LAMBDA y : y = x)]],
        !.lasterror = Last(done.vs)]

CollectFrom(m, mustgrow, places, names) ==
    Collected(m, mustgrow, places, names,
              relocateAll(Spaces(m.heap), GcRoots(m, places, names)))

\* A collection, and another one when all of the space is in use.
RECURSIVE gc(_, _)
AgainIfFull(m) == IF Len(m.heap.mem) > m.heap.lim THEN gc(m, FALSE) ELSE m
gc(m, mustgrow) ==
    AgainIfFull(CollectFrom(m, mustgrow, StackRoots(m), SetToSeq(DOMAIN m.bind)))

-----------------------------------------------------------------------------
(* Allocation. The room is made first; what goes into the new object is read
   from the stack and the handles afterwards.                                *)

RECURSIVE GrowUntilRoom(_, _)
GrowUntilRoom(m, n) == IF Len(m.heap.mem) > m.heap.lim + 2 - n
                       THEN GrowUntilRoom(gc(m, TRUE), n) ELSE m

\* Room for n words (an even number) made by alloc_words.
Room(m, n) == IF Len(m.heap.mem) > m.heap.lim + 2 - n
              THEN GrowUntilRoom(gc(m, FALSE), n) ELSE m

\* Room for one cons, as mk_cons and the instruction cons make it.
RoomForCons(m) == IF Len(m.heap.mem) > m.heap.lim THEN gc(m, FALSE) ELSE m

RoomForOneCons(m) == RoomForCons(m)                            \* mutant

\* Room for a function, as the instruction closure makes it: one collection,
\* and what it leaves is taken to be enough.
RoomForFunction(m) == IF Len(m.heap.mem) > m.heap.lim - 2
                      THEN gc(m, FALSE) ELSE m

\* An object with the tag t in the next words, which are its contents.
Place(m, words) == [m EXCEPT !.heap.mem = @ \o words]
Here(m, t) == <<t, Base(m.heap) + Len(m.heap.mem) + 1>>

\* A list of the values vs in consecutive conses; the room is there.
ListWords(m, vs) ==
    LET first == Here(m, "cons")[2]
    IN FlattenSeq([i \in 1..Len(vs) |->
         <<vs[i], IF i = Len(vs) THEN NIL ELSE <<"cons", first + 2 * i>>>>])

-----------------------------------------------------------------------------
(* The value stack.                                                          *)

Push(m, v)     == [m EXCEPT !.stack[m.sp] = v, !.sp = @ + 1]
PopN(m, n)     == [m EXCEPT !.sp = @ - n]
At(m, k)       == m.stack[m.sp - k]
SetAt(m, k, v) == [m EXCEPT !.stack[m.sp - k] = v]
Args(m, n)     == [i \in 1..n |-> m.stack[m.sp - n + i - 1]]

\* The code allocates half as much again; reads and writes of the three words
\* above the limit, which C helpers use, are kept.
RECURSIVE GrowStack(_, _)
GrowStack(m, need) ==
    IF m.sp + need <= m.nstack THEN m
    ELSE LET n == m.nstack + m.nstack \div 2
         IN GrowStack([m EXCEPT !.nstack = n,
                !.stack = [i \in 0..(n + 3) |->
                             IF i \in DOMAIN @ THEN @[i] ELSE UNBOUND]], need)

\* A list of vs, which are pushed while room is made for it.
Listed(m, n) == [m |-> PopN(Place(m, ListWords(m, Args(m, n))), n),
                 v |-> Here(m, "cons")]

fl_listn(m, vs) ==
    Listed(Room(FoldLeft(Push, GrowStack(m, Len(vs)), vs), 2 * Len(vs)), Len(vs))
=============================================================================
