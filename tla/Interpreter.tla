---------------------------- MODULE Interpreter ----------------------------
(* Compiler and machine together, held against what the expressions mean:
   every program is compiled, run from a heap with little room and garbage in
   it and a small stack, and must give what Scheme's evaluator gives.        *)
EXTENDS Machine

Source == INSTANCE Scheme

-----------------------------------------------------------------------------
(* Results are compared as trees; a function is only known to be one.        *)

RECURSIVE MachineTree(_, _), SourceTree(_, _)

MachineTree(h, v) ==
    CASE v[1] = "cons" -> <<"cons", MachineTree(h, car(h, v)), MachineTree(h, cdr(h, v))>>
      [] v[1] = "vec" -> <<"vec", [i \in 1..vectorSize(h, v) |->
                                     MachineTree(h, vectorElt(h, v, i - 1))]>>
      [] v[1] = "fun" -> <<"fun">>
      [] OTHER -> v

SourceTree(s, v) ==
    LET parts == [i \in DOMAIN Source!Cell(s, v) |-> SourceTree(s, Source!Cell(s, v)[i])]
    IN CASE v[1] = "cons" -> <<"cons">> \o parts
         [] v[1] = "vec" -> <<"vec", parts>>
         [] v[1] = "fun" -> <<"fun">>
         [] OTHER -> v

\* The store and the globals a program starts with.
SourceStart(p) ==
    LET Field(v) == IF v[1] = "node" THEN <<"cons", v[2]>> ELSE v
    IN [store |-> [i \in DOMAIN p.graph |-> <<Field(p.graph[i][1]), Field(p.graph[i][2])>>],
        glob |-> IF p.graph = <<>> THEN [x \in {} |-> NIL]
                 ELSE "g1" :> <<"cons", 1>> @@ "g2" :> <<"cons", 2>>]

Meaning == [p \in Programs |->
    LET x == Source!Body(p.e, [v \in {} |-> 0], SourceStart(p))
    IN <<IF x.k = "val" THEN "done" ELSE "died", SourceTree(x.s, x.v)>>]

-----------------------------------------------------------------------------
(* Properties.                                                               *)

\* Values that count: when a function has just returned to C its frame is gone
\* from the stack, and its value is in a register.
Roots == ToSet(m.hnd) \cup {m.bind[x] : x \in DOMAIN m.bind} \cup {m.lasterror}
           \cup (IF mode \in {"run", "throw"}
                 THEN {m.stack[p] : p \in ToSet(StackRoots(m))} ELSE {})
           \cup (IF mode \in {"return", "done"} THEN {r.val} ELSE {})

Tags == {"con", "fix", "sym", "key", "keys", "bi", "cb", "raw", "cons", "vec", "fun"}

\* The memory, the registers and the C stack are what the code's types say.
TypeOK ==
    /\ prog.src \in Programs
    /\ mode \in Modes
    /\ m.heap.space \in {0, 1} /\ m.heap.grew \in BOOLEAN
    /\ Len(m.heap.mem) % 2 = 0
    /\ m.sp \in Nat /\ m.frame \in 0..m.sp
    /\ DOMAIN m.stack = 0..(m.nstack + 3)
    /\ \A i \in DOMAIN m.heap.mem : m.heap.mem[i][1] \in Tags
    /\ \A i \in DOMAIN ctl : ctl[i].k \in {"for", "try", "catch", "map"}
    /\ r.ip \in Nat /\ r.nargs \in Nat /\ r.bp \in Nat /\ r.captured \in BOOLEAN

\* A program ends with the value, or dies with the error, its source has, no
\* matter when the heap was collected, the stack grown, frames captured,
\* instructions fused or calls turned into jumps (flisp.c apply_cl and gc,
\* compiler.scm).
ComputesSource ==
    mode \in {"done", "died"} =>
        <<mode, MachineTree(m.heap, IF mode = "done" THEN r.val ELSE m.lasterror)>>
          = Meaning[prog.src]

\* No value the program or C code still holds points into the space a
\* collection left, or at anything but the beginning of an object of its kind;
\* and no forwarding mark is left in the space in use (flisp.c relocate, gc:
\* every root is traced and every register loaded again after an allocation).
PointersFollowed ==
    LET h == m.heap
        Sound(v) == InHeap(v) =>
            /\ Live(h, v[2])
            /\ LET w == Word(h, v[2])
               IN /\ v[1] = "cons" => w[1] # "raw"
                  /\ v[1] = "vec" => w[1] = "raw" /\ Live(h, v[2] + w[2])
                  /\ v[1] = "fun" => w[1] = "raw" /\ w[2] \in DOMAIN prog.funs
    IN /\ \A v \in Roots : Sound(v)
       /\ \A i \in DOMAIN h.mem : Sound(h.mem[i]) /\ h.mem[i] # FWD

\* Nothing is written past the end of the space in use, which mk_cons,
\* alloc_words and gc see to, nor past the end of the stack: what a function
\* was promised when it was entered is enough for all its instructions, and
\* its frame stays above its arguments (flisp.c compute_maxstack, grow_stack).
MemoryFits ==
    /\ TypeOK
    /\ Len(m.heap.mem) <= m.heap.lim + 2
    /\ mode = "run" => /\ m.sp <= m.nstack
                       /\ r.bp + r.nargs + 5 = m.frame
                       /\ m.sp >= m.frame

\* The handles C code left are those of the maps that are under way: none is
\* lost and none stays when an exception passes map (flisp.c fl_map1,
\* fl_free_gc_handles, FL_TRY).
HandlesBalanced ==
    LET maps == {i \in DOMAIN ctl : ctl[i].k = "map" /\ ctl[i].h # 0}
    IN mode # "throw" => Len(m.hnd) = 2 * Cardinality(maps)

\* Frames between the top and the bottom of the stack.
RECURSIVE Depth(_)
Depth(f) == IF f = 0 THEN 0 ELSE 1 + Depth(m.stack[f - 4][2])

\* A loop of tail calls needs no more frames than its program says, however
\* long it runs (flisp.c do_tcall, compiler.scm compile-app).
TailCallsFlat == mode = "run" => Depth(m.frame) <= prog.src.frames
=============================================================================
