------------------------------- MODULE Machine -------------------------------
(* The virtual machine of Femtoscheme (femtoscheme/flisp.c, apply_cl and the C
   functions that call it), running the functions Compiler makes on the memory
   of Heap. One step is one instruction, or the return to or the unwinding of
   a C function that called apply_cl.

   The C stack is the sequence ctl: each entry is a C function that waits for
   apply_cl to return, with the registers of the apply_cl that called it.    *)
EXTENDS Builtins, Compiler

CONSTANTS
    Programs,      \* the programs: [e, graph, frames]
    Rooms,         \* words free in the heap when a program starts
    Garbage,       \* words of garbage in the heap then
    StackRooms     \* words of the value stack at the start

VARIABLES
    prog,  \* the program that runs: src, one of Programs, funs, the functions
           \* it is compiled to, and maxstack, how much stack each may need
    m,     \* the memory: see Heap
    r,     \* registers of the running apply_cl: top (frame of its caller in
           \* C), bp, ip, nargs, captured, and val, what it returned to C
    ctl,   \* the C functions waiting for apply_cl, the innermost last
    mode   \* what goes on: see Modes

vars == <<prog, m, r, ctl, mode>>

Modes == {"run", "return", "throw", "done", "died"}

-----------------------------------------------------------------------------
(* compute_maxstack: how far an instruction moves the top of the stack, added
   up along the code whatever jumps there are.                               *)

Delta(i) ==
    CASE i[1] = "vargc"   -> i[2] + 2
      [] i[1] = "optargs" -> (IF i[3] < 0 THEN -i[3] ELSE i[3]) - i[2]
      [] i[1] = "keyargs" -> (IF i[4] < 0 THEN -i[4] ELSE i[4]) - i[2]
      [] i[1] \in {"call", "tcall"} -> -i[2]
      [] i[1] \in {"list", "vector", "+", "-", "*", "apply", "tapply"} -> 1 - i[2]
      [] i[1] \in {"brne", "aset!", "for"} -> -2
      [] i[1] \in {"brf", "brt", "brn", "brnn", "ret", "pop", "trycatch"} -> -1
      [] i[1] \in {"dup", "num", "const", "loada", "loadc", "loadg", "loadv",
                   "brbound"} -> 1
      [] i[1] \in DOMAIN Operands -> 1 - Operands[i[1]]
      [] OTHER -> 0

compute_maxstack(code) ==
    LET Step(acc, i) ==
            LET sp == acc.sp + Delta(i)
                most == IF i[1] = "for" /\ acc.sp + 2 > acc.max THEN acc.sp + 2
                        ELSE acc.max
            IN [sp |-> sp, max |-> IF sp > most THEN sp ELSE most]
    IN FoldLeft(Step, [sp |-> 0, max |-> 0], code).max + 5

-----------------------------------------------------------------------------
(* Registers and frames.                                                     *)

Fn    == m.stack[r.bp - 1]
Instr == prog.funs[fnCode(m.heap, Fn)].code[r.ip]
Const(k) == vectorElt(m.heap, fnVals(m.heap, Fn), k - 1)
At_ip(name) == mode = "run" /\ Instr[1] = name

\* apply_cl on the function and the n arguments on top of the stack of mm,
\* called with the frame top: the new frame, and the registers. Functions need
\* as much of the stack as maxstack says.
Framed(m1, f, n) ==
    LET m2 == Push(Push(Push(m1, fnEnv(m1.heap, f)), Raw(m1.frame)), Raw(n))
        m3 == Push([m2 EXCEPT !.sp = @ + 1], Raw(0))
    IN [m3 EXCEPT !.frame = m3.sp]

Applied(mm, n, top, maxstack) ==
    LET f == At(mm, n + 1)
    IN [m |-> Framed(GrowStack(mm, maxstack[fnCode(mm.heap, f)]), f, n),
        r |-> [top |-> top, bp |-> mm.sp - n, ip |-> 1, nargs |-> n,
               captured |-> FALSE, val |-> NIL]]

\* The memory becomes mm; the program stays what it is.
Memory(mm) == m' = mm /\ UNCHANGED prog

Become(a) == Memory(a.m) /\ r' = a.r
Enter(mm, n, top) == Become(Applied(mm, n, top, prog.maxstack))

Throw(mm, e) == /\ Memory([mm EXCEPT !.lasterror = e,
                                    !.throwing = IF @ = 0 THEN mm.frame ELSE @])
                /\ mode' = "throw"
                /\ UNCHANGED <<r, ctl>>

Thrown(e) == Throw(e.m, e.v)
Raise(mm, ws) == Thrown(fl_listn(mm, ws))

Continue(mm) == /\ Memory(mm)
                /\ r' = [r EXCEPT !.ip = @ + 1]
                /\ UNCHANGED <<ctl, mode>>

\* A value for the n on top of the stack.
Replace(mm, n, v) == Push(PopN(mm, n), v)

\* What a builtin gave for the n values on top of the stack.
Finish(res, n) == IF res.err = <<>> THEN Continue(Replace(res.m, n, res.v))
                  ELSE Raise(res.m, res.err)

-----------------------------------------------------------------------------
(* Instructions on the stack, constants and variables.                       *)


RunBuiltin ==
    /\ mode = "run" /\ Instr[1] \in DOMAIN Operands \cup Counted
    /\ LET n == IF Instr[1] \in Counted THEN Instr[2] ELSE Operands[Instr[1]]
       IN Finish(Builtin(m, Instr[1], n), n)

Load ==
    \/ At_ip("num")   /\ Continue(Push(m, Fix(Instr[2])))
    \/ At_ip("const") /\ Continue(Push(m, Con(Instr[2])))
    \/ At_ip("loadv") /\ Continue(Push(m, Const(Instr[2])))
    \/ At_ip("dup")   /\ Continue(Push(m, At(m, 1)))
    \/ At_ip("pop")   /\ Continue(PopN(m, 1))

Global(s) == IF s \in DOMAIN m.bind THEN m.bind[s] ELSE UNBOUND

LoadGlobal ==
    /\ At_ip("loadg")
    /\ LET s == Const(Instr[2])
       IN IF Global(s[2]) = UNBOUND THEN Raise(m, <<Sym("unbound-error"), s>>)
          ELSE Continue(Push(m, Global(s[2])))

SetGlobal ==
    /\ At_ip("setg")
    /\ LET s == Const(Instr[2])[2]
       IN Continue([m EXCEPT !.bind = IF s \in Constants THEN @
                                      ELSE (s :> At(m, 1)) @@ @])

VariableOnStack(i) == m.stack[r.bp + i]                        \* mutant

\* Once the frame is captured its variables are in the heap.
Variable(i) == IF r.captured THEN vectorElt(m.heap, m.stack[r.bp], i)
               ELSE m.stack[r.bp + i]

LoadArg == At_ip("loada") /\ Continue(Push(m, Variable(Instr[2])))

SetArg ==
    /\ At_ip("seta")
    /\ Continue(IF r.captured
                THEN [m EXCEPT !.heap = Put(@, m.stack[r.bp][2] + 1 + Instr[2], At(m, 1))]
                ELSE [m EXCEPT !.stack[r.bp + Instr[2]] = At(m, 1)])

\* The captured frame s levels out; the last element of one is the next.
RECURSIVE Outer(_, _)
Outer(v, s) == IF s = 0 THEN v
               ELSE Outer(vectorElt(m.heap, v, vectorSize(m.heap, v) - 1), s - 1)

Captured == Outer(m.stack[r.bp + r.nargs], Instr[2])

LoadCaptured == At_ip("loadc")
                /\ Continue(Push(m, vectorElt(m.heap, Captured, Instr[3])))

SetCaptured ==
    /\ At_ip("setc")
    /\ Continue([m EXCEPT !.heap = Put(@, Captured[2] + 1 + Instr[3], At(m, 1))])

Bound == At_ip("brbound") /\ Continue(Push(m, Bool(Variable(Instr[2]) # UNBOUND)))

\* Jumps, and how many values each takes off the stack.
Jump ==
    LET v == At(m, 1)
        To(jump, n) == /\ Memory(PopN(m, n))
                       /\ r' = [r EXCEPT !.ip = IF jump THEN Instr[2] ELSE @ + 1]
                       /\ UNCHANGED <<ctl, mode>>
    IN \/ At_ip("jmp")  /\ To(TRUE, 0)
       \/ At_ip("brf")  /\ To(v = F, 1)
       \/ At_ip("brt")  /\ To(v # F, 1)
       \/ At_ip("brn")  /\ To(v = NIL, 1)
       \/ At_ip("brnn") /\ To(v # NIL, 1)
       \/ At_ip("brne") /\ To(At(m, 2) # v, 2)

-----------------------------------------------------------------------------
(* The arguments of the function that was entered.                           *)

CheckArgs ==
    /\ At_ip("argc")
    /\ IF r.nargs = Instr[2] THEN Continue(m)
       ELSE Raise(m, ArgErr(IF r.nargs > Instr[2] THEN "too many" ELSE "too few"))

\* The same frame after the arguments have become n: its four last words are
\* written anew behind them.
Reframed(mm, n, env, link) ==
    LET m1 == [mm EXCEPT !.sp = r.bp + n]
        m2 == Push(Push(Push(m1, env), link), Raw(n))
        m3 == Push([m2 EXCEPT !.sp = @ + 1], Raw(0))
    IN [m3 EXCEPT !.frame = m3.sp]

Entered(mm, n) == /\ Memory(mm)
                  /\ r' = [r EXCEPT !.ip = @ + 1, !.nargs = n]
                  /\ UNCHANGED <<ctl, mode>>

\* Arguments from i on, s of them, become a list for which m1 has room.
WithRest(m1, i, s) ==
    LET args == [k \in 1..s |-> m1.stack[r.bp + i + k - 1]]
        m2 == IF s = 0 THEN m1 ELSE Place(m1, ListWords(m1, args))
        m3 == IF s = 1 THEN m2
              ELSE Reframed(m2, i + 1, m2.stack[m2.frame - 5], m2.stack[m2.frame - 4])
    IN [m3 EXCEPT !.stack[r.bp + i] = IF s = 0 THEN NIL ELSE Here(m1, "cons")]

RestArgs ==
    /\ At_ip("vargc")
    /\ LET i == Instr[2]
           s == r.nargs - i
       IN IF s < 0 THEN Raise(m, ArgErr("too few"))
          ELSE Entered(WithRest(IF s = 0 THEN m ELSE Room(m, 2 * s), i, s), i + 1)

\* Optional arguments that are missing are left unbound.
OptArgs ==
    /\ At_ip("optargs")
    /\ LET most == IF Instr[3] < 0 THEN -Instr[3] ELSE Instr[3]
           m1 == Reframed(m, most, m.stack[m.frame - 5], m.stack[m.frame - 4])
           m2 == [m1 EXCEPT !.stack = [p \in DOMAIN @ |->
                    IF p \in (r.bp + r.nargs)..(r.bp + most - 1) THEN UNBOUND ELSE @[p]]]
       IN CASE r.nargs < Instr[2] -> Raise(m, ArgErr("too few"))
            [] Instr[3] > 0 /\ r.nargs > most -> Raise(m, ArgErr("too many"))
            [] r.nargs >= Instr[2] /\ most > r.nargs -> Entered(m2, most)
            [] OTHER -> Continue(m)

\* Positional arguments, then keywords with theirs from k0 to k1, then the rest.
IsKey(i) == m.stack[r.bp + i][1] = "key"
First(S) == CHOOSE i \in S : \A j \in S : i <= j

FirstKey(nreq, nopt) ==
    First({i \in nreq..(r.nargs + nreq) : i >= r.nargs \/ IsKey(i) \/ i - nreq >= nopt})

AfterKeys(k0) ==
    IF k0 >= r.nargs \/ ~IsKey(k0) THEN k0
    ELSE First({i \in (k0 + 2)..(r.nargs + 1) :
                  (i - k0) % 2 = 0 /\ (i >= r.nargs \/ ~IsKey(i))})

\* bad are the places of keywords that are wrong, value the value of the k-th
\* keyword of the function and rest what comes after them.
Bind(nreq, nopt, nkw, k0, bad, value, rest) ==
    LET extra == [a \in 1..(nopt + nkw) |->
                    IF a > nopt THEN value[a - nopt]
                    ELSE IF nreq + a - 1 < k0 THEN m.stack[r.bp + nreq + a - 1]
                    ELSE UNBOUND] \o rest
        n  == nreq + Len(extra)
        m1 == [m EXCEPT !.stack = [p \in DOMAIN @ |->
                 IF p \in (r.bp + nreq)..(r.bp + n - 1)
                 THEN extra[p - r.bp - nreq + 1] ELSE @[p]]]
        wrong == CASE r.nargs < nreq -> "too few"
                   [] r.nargs >= nreq /\ bad # {} ->
                        IF First(bad) + 1 >= r.nargs THEN "keyword alone" ELSE "keyword"
                   [] OTHER -> IF Instr[4] > 0 /\ rest # <<>> THEN "too many" ELSE ""
    IN IF wrong # "" THEN Raise(m, ArgErr(wrong))
       ELSE Entered(Reframed(m1, n, m.stack[m.frame - 5], m.stack[m.frame - 4]), n)

BindKeys(nreq, nopt, keys, k0, k1) ==
    LET Used == {i \in k0..(k1 - 1) : (i - k0) % 2 = 0}
        Index(i) == SelectInSeq(keys, LAMBDA x : x = m.stack[r.bp + i][2])
        Of(k) == {i \in Used : Index(i) = k}
    IN Bind(nreq, nopt, Len(keys), k0,
            {i \in Used : i + 1 >= r.nargs \/ Index(i) = 0},
            [k \in DOMAIN keys |-> IF Of(k) = {} THEN UNBOUND
                                  ELSE m.stack[r.bp + First(Of(k)) + 1]],
            [a \in 1..(r.nargs - k1) |-> m.stack[r.bp + k1 + a - 1]])

KeyArgs ==
    /\ At_ip("keyargs")
    /\ LET nreq == Instr[2]
           ntot == IF Instr[4] < 0 THEN -Instr[4] ELSE Instr[4]
           nopt == ntot - nreq - Instr[3]
           k0   == FirstKey(nreq, nopt)
       IN BindKeys(nreq, nopt, Const(1)[2], k0, AfterKeys(k0))

-----------------------------------------------------------------------------
(* Closures: the frame becomes a vector of its variables and the environment
   the first time one is made in it, and everybody sees it from then on.     *)

CaptureFrame(m1) ==
    LET v  == Here(m1, "vec")
        m2 == Place(m1, VectorWords([k \in 1..(r.nargs + 1) |->
                                       m1.stack[r.bp + k - 1]]))
    IN Push([m2 EXCEPT !.stack[m.frame - 1] = Raw(1), !.stack[r.bp] = v], v)

\* The function under the environment on top of the stack, with it.
Closed(m1) ==
    LET f == At(m1, 2)[2]
        words == <<Word(m1.heap, f), Word(m1.heap, f + 1), At(m1, 1),
                   Word(m1.heap, f + 3)>>
    IN Replace(Place(m1, words), 2, Here(m1, "fun"))

MakeClosure ==
    /\ At_ip("closure")
    /\ LET capture == r.nargs > 0 /\ ~r.captured
       IN /\ Memory(Closed(RoomForFunction(
                    IF capture THEN CaptureFrame(Room(m, Even(r.nargs + 2)))
                    ELSE Push(m, m.stack[r.bp]))))
          /\ r' = [r EXCEPT !.ip = @ + 1, !.captured = capture \/ @]
    /\ UNCHANGED <<ctl, mode>>

-----------------------------------------------------------------------------
(* Calls.                                                                    *)

\* The list on top of the stack becomes arguments.
RECURSIVE Spread(_)
Spread(mm) ==
    LET l  == At(mm, 1)
        m1 == GrowStack(mm, 0)
    IN IF ~isCons(l) THEN PopN(mm, 1)
       ELSE Spread(Push(SetAt(m1, 1, car(m1.heap, l)), cdr(m1.heap, l)))

\* A builtin takes its n arguments without itself under them.
WithoutFunction(mm, n) ==
    PopN([mm EXCEPT !.stack = [p \in DOMAIN @ |->
            IF p \in (mm.sp - n - 1)..(mm.sp - 2) THEN mm.stack[p + 1] ELSE @[p]]], 1)

\* The call that is left when every builtin apply is done: [m, n].
RECURSIVE Unapplied(_, _)
Unapplied(mm, n) ==
    LET m1 == WithoutFunction(mm, n)
        m2 == Spread(m1)
    IN IF At(mm, n + 1) = <<"bi", "apply">> /\ n >= 2
       THEN Unapplied(m2, m2.sp - (m1.sp - n) - 1)
       ELSE [m |-> mm, n |-> n]

InPlaceAsCall(mm, n) == [mm EXCEPT !.stack[mm.frame - 2] = Raw(r.ip + 1)] \* mutant

\* A tail call moves function and arguments over those of its frame.
InPlace(mm, n) ==
    [mm EXCEPT !.frame = mm.stack[mm.frame - 4][2], !.sp = r.bp + n,
       !.stack = [p \in DOMAIN @ |-> IF p \in (r.bp - 1)..(r.bp + n - 1)
                                     THEN mm.stack[mm.sp - n + p - r.bp] ELSE @[p]]]

Suspended(mm) == [mm EXCEPT !.stack[mm.frame - 2] = Raw(r.ip + 1)]

\* A C function e waits for the function under the n arguments on top.
\* Builtins have functions of their own for this in the vector *builtins*.
BuiltinTable == <<"car", "cons">>

BuiltinFunction(mm, b) ==
    vectorElt(mm.heap, mm.bind["*builtins*"],
              SelectInSeq(BuiltinTable, LAMBDA x : x = b) - 1)

\* A C function answers at once.
Answered(res, e, waiting) ==
    IF res.err = <<>>
    THEN /\ Memory(res.m) /\ r' = [r EXCEPT !.val = res.v]
         /\ ctl' = Append(waiting, e) /\ mode' = "return"
    ELSE Raise(res.m, res.err)

CallBack(mm, n, e, waiting) ==
    LET f == At(mm, n + 1)
    IN CASE f[1] \in {"fun", "bi"} ->
              /\ Enter(IF f[1] = "fun" THEN mm
                       ELSE SetAt(mm, n + 1, BuiltinFunction(mm, f[2])), n, mm.frame)
              /\ ctl' = Append(waiting, e) /\ mode' = "run"
         [] f[1] = "cb" -> Answered(CFunction(mm, f[2], n), e, waiting)
         [] OTHER -> Raise(mm, TypeErr("apply", "function", f))

\* map's next call: the function and an element of each list.
Lists(mm, e) == [i \in 1..(e.n - 1) |-> mm.stack[e.s - e.n + i]]

MapNext(mm, e, waiting) ==
    LET ls == Lists(mm, e)
        m1 == GrowStack([mm EXCEPT !.sp = e.s], e.n + 1)
        m2 == FoldLeft(Push, Push(m1, m1.stack[e.s - e.n]),
                       [i \in DOMAIN ls |-> car(mm.heap, ls[i])])
        \* with several lists each is already past its element
        m3 == [m2 EXCEPT !.stack = [p \in DOMAIN @ |->
                 IF e.n > 2 /\ p \in (e.s - e.n + 1)..(e.s - 1)
                 THEN cdr(mm.heap, @[p]) ELSE @[p]]]
        bad == SelectSeq(ls, LAMBDA l : ~isCons(l))
    IN IF bad # <<>> THEN Raise(m1, TypeErr("car", "cons", bad[1]))
       ELSE CallBack(m3, e.n - 1, e, waiting)

StartMap(mm, n) ==
    LET e == [k |-> "map", r |-> [r EXCEPT !.ip = @ + 1], s |-> mm.sp, n |-> n, h |-> 0]
    IN CASE n < 2 -> Raise(mm, ArgErr("map: too few arguments"))
         [] n >= 2 /\ ~isCons(At(mm, n - 1)) -> Continue(Replace(mm, n + 1, NIL))
         [] OTHER -> MapNext(mm, e, ctl)

CallOn(tail, mm, n, f) ==
    CASE f[1] = "fun" -> /\ Enter(IF tail THEN InPlace(mm, n) ELSE Suspended(mm), n, r.top)
                         /\ UNCHANGED <<ctl, mode>>
      [] f[1] = "bi" /\ ~ArgsFit(f[2], n) -> Raise(mm, ArgErr(f[2]))
      [] f[1] = "bi" /\ ArgsFit(f[2], n) ->
           Finish(Builtin(WithoutFunction(mm, n), f[2], n), n)
      [] f = <<"cb", "map">> -> StartMap(mm, n)
      [] f = <<"cb", "raise">> ->
           IF n = 1 THEN Throw(mm, At(mm, 1)) ELSE Raise(mm, ArgErr("raise"))
      [] f[1] = "cb" /\ f[2] \notin {"map", "raise"} ->
           Finish(CFunction(mm, f[2], n), n + 1)
      [] OTHER -> Raise(mm, TypeErr("apply", "function", f))

CallOf(tail, c) == CallOn(tail, c.m, c.n, At(c.m, c.n + 1))
\* The n values on top of m, the last of them a list, are spread over m1.
SpreadCall(tail, m1, n) == CallOf(tail, Unapplied(m1, m1.sp - (m.sp - n) - 1))

CallFunction(tail) ==
    IF Instr[1] \in {"apply", "tapply"} THEN SpreadCall(tail, Spread(m), Instr[2])
    ELSE CallOf(tail, Unapplied(m, Instr[2]))

CallOp     == mode = "run" /\ Instr[1] \in {"call", "apply"} /\ CallFunction(FALSE)
TailCallOp == mode = "run" /\ Instr[1] \in {"tcall", "tapply"} /\ CallFunction(TRUE)

\* A return to the function that called, or to the C function that did.
Return ==
    /\ At_ip("ret")
    /\ LET v  == At(m, 1)
           up == m.stack[m.frame - 4][2]
           m1 == [m EXCEPT !.sp = m.frame, !.frame = up]
           m2 == PopN(m1, 5 + r.nargs)
           nargs == m.stack[up - 3][2]
       IN IF up = r.top
          THEN /\ Memory(m1)
               /\ r' = [r EXCEPT !.val = v]
               /\ mode' = IF ctl = <<>> THEN "done" ELSE "return"
               /\ UNCHANGED ctl
          ELSE /\ Memory(SetAt(m2, 1, v))
               /\ r' = [r EXCEPT !.captured = m.stack[up - 1] = Raw(1),
                                 !.ip = m.stack[up - 2][2],
                                 !.nargs = nargs, !.bp = up - 5 - nargs]
               /\ UNCHANGED <<ctl, mode>>

-----------------------------------------------------------------------------
(* for, trycatch and map: the C functions that call apply_cl.                *)

Loop ==
    /\ At_ip("for")
    /\ LET lo == At(m, 3)
           hi == At(m, 2)
           m1 == [m EXCEPT !.sp = @ + 2]
           m2 == SetAt(SetAt(m1, 2, At(m, 1)), 1, lo)
           e  == [k |-> "for", r |-> [r EXCEPT !.ip = @ + 1], s |-> lo[2],
                  hi |-> hi[2], n |-> m1.sp]
       IN CASE lo[1] # "fix" -> Raise(m, TypeErr("for", "fixnum", lo))
            [] lo[1] = "fix" /\ hi[1] # "fix" -> Raise(m, TypeErr("for", "fixnum", hi))
            [] lo[1] = "fix" /\ hi[1] = "fix" /\ lo[2] > hi[2] ->
                 Continue(Replace(m, 3, T))
            [] OTHER -> /\ Enter(m2, 1, m.frame)
                        /\ ctl' = Append(ctl, e) /\ UNCHANGED mode

Waiting(k) == mode = "return" /\ Last(ctl).k = k

\* What waited goes on with the memory mm after its instruction.
Resume(mm) == Memory(mm) /\ r' = Last(ctl).r /\ ctl' = Front(ctl) /\ mode' = "run"

ResumeLoop ==
    /\ Waiting("for")
    /\ LET e  == Last(ctl)
           m1 == [m EXCEPT !.sp = e.n]
       IN IF e.s < e.hi
          THEN /\ Enter(SetAt(SetAt(m1, 2, At(m1, 3)), 1, Fix(e.s + 1)), 1, m.frame)
               /\ ctl' = Append(Front(ctl), [e EXCEPT !.s = @ + 1])
               /\ mode' = "run"
          ELSE Resume(SetAt(PopN(m1, 4), 1, r.val))

\* The thunk is called with the handler under it.
TryCatch ==
    /\ At_ip("trycatch")
    /\ Enter(SetAt(SetAt(m, 2, At(m, 1)), 1, At(m, 2)), 0, m.frame)
    /\ ctl' = Append(ctl, [k |-> "try", r |-> [r EXCEPT !.ip = @ + 1], save |-> m.sp,
                           frame |-> m.frame, nhnd |-> Len(m.hnd)])
    /\ UNCHANGED mode

KeptHandles(hnd, e) == hnd                                     \* mutant

\* Handles of C functions that an exception passed are given up.
HandlesOf(hnd, e) == SubSeq(hnd, 1, e.nhnd)

\* An exception: the innermost trycatch calls its handler on top of the stack
\* of the function that threw; without one the program dies.
Unwind ==
    /\ mode = "throw"
    /\ LET tries == {i \in DOMAIN ctl : ctl[i].k = "try"}
           i  == CHOOSE i \in tries : \A j \in tries : j <= i
           m1 == [m EXCEPT !.hnd = HandlesOf(@, ctl[i])]
           m2 == Push(Push(m1, m.stack[ctl[i].save - 2]), m.lasterror)
       IN IF tries = {}
          THEN /\ mode' = "died" /\ ctl' = <<>>
               /\ Memory([m EXCEPT !.hnd = <<>>]) /\ UNCHANGED r
          ELSE /\ Enter(m2, 1, m.frame)
               /\ ctl' = Append(SubSeq(ctl, 1, i - 1), [ctl[i] EXCEPT !.k = "catch"])
               /\ mode' = "run"

ResumeTry ==
    /\ Waiting("try") \/ Waiting("catch")
    /\ LET e  == Last(ctl)
           m1 == IF e.k = "try" THEN m
                 ELSE [m EXCEPT !.lasterror = NIL, !.throwing = 0, !.frame = e.frame]
       IN Resume(Replace([m1 EXCEPT !.sp = e.save], 2, r.val))

\* A value of map's function goes to the end of the list map builds, whose
\* first and last cons are handles.
MapEnds(m1, e) ==
    IF isCons(Lists(m1, e)[1]) THEN MapNext(m1, e, Front(ctl))
    ELSE Resume(Replace([m1 EXCEPT !.hnd = SubSeq(@, 1, e.h - 1), !.sp = e.s],
                        e.n + 1, m1.hnd[e.h]))

MapGoesOn(m1, e) ==
    LET c  == Here(m1, "cons")
        m2 == PopN(Place(m1, <<At(m1, 1), NIL>>), 1)
        m3 == IF e.h = 0 THEN [m2 EXCEPT !.hnd = @ \o <<c, c>>]
              ELSE [m2 EXCEPT !.heap = Put(@, m2.hnd[e.h + 1][2] + 1, c),
                              !.hnd[e.h + 1] = c]
        m4 == IF e.n > 2 THEN m3 ELSE [m3 EXCEPT !.stack[e.s - 1] = cdr(m3.heap, @)]
    IN MapEnds(m4, IF e.h = 0 THEN [e EXCEPT !.h = Len(m2.hnd) + 1] ELSE e)

ResumeMap ==
    /\ Waiting("map")
    /\ LET e == Last(ctl)
       IN MapGoesOn(RoomForCons(
            Push([m EXCEPT !.sp = e.s + IF e.n = 2 THEN 2 ELSE 0], r.val)), e)

-----------------------------------------------------------------------------
(* A program starts with its functions and constants in the heap, between
   garbage and room that may be too little for the first thing it makes.     *)

\* The constants of one function, its lists made and its functions found.
WithConst(a, v) ==
    IF v[1] = "lam" THEN [a EXCEPT !.vs = Append(@, a.funs[v[2]])]
    ELSE IF v[1] = "list" THEN [a EXCEPT !.vs = Append(@, Here(a.m, "cons")),
                                        !.m = Place(@, ListWords(@, v[2]))]
    ELSE [a EXCEPT !.vs = Append(@, v)]

\* The function itself, behind its constants vs.
WithFunction(a) ==
    LET m1 == Place(a.m, VectorWords(a.vs))
    IN [m |-> Place(m1, <<Raw(Len(a.funs) + 1), Here(a.m, "vec"), NIL, Sym("lambda")>>),
        funs |-> Append(a.funs, Here(m1, "fun")), vs |-> <<>>]

LoadFunction(acc, f) == WithFunction(FoldLeft(WithConst, acc, f.vals))

\* The conses of the graph, the first two of which are called g1 and g2.
GraphWords(graph) ==
    FlattenSeq([i \in DOMAIN graph |-> [k \in 1..2 |->
        IF graph[i][k][1] = "node" THEN <<"cons", 2 * graph[i][k][2] - 1>>
        ELSE graph[i][k]]])

\* The thunk on the stack, and room words free.
Ready(all, room) ==
    LET words == Len(all.m.heap.mem) + room
    IN Push([all.m EXCEPT !.heap.size = words, !.heap.lim = words - 2], Last(all.funs))

Loaded(graph, funs, room, garbage, stackroom) ==
    LET m0 == [heap |-> NewHeap(0), stack |-> [i \in 0..(stackroom + 3) |-> UNBOUND],
               nstack |-> stackroom, sp |-> 0, frame |-> 0, hnd |-> <<>>,
               bind |-> IF graph = <<>> THEN [x \in {} |-> NIL]
                        ELSE "g1" :> <<"cons", 1>> @@ "g2" :> <<"cons", 3>>,
               lasterror |-> NIL, throwing |-> 0]
        start == Place(m0, GraphWords(graph) \o [i \in 1..garbage |-> Fix(0)])
    IN Ready(FoldLeft(LoadFunction, [m |-> start, funs |-> <<>>, vs |-> <<>>], funs), room)

Linked(p, funs) == [src |-> p, funs |-> funs,
                    maxstack |-> [k \in DOMAIN funs |-> compute_maxstack(funs[k].code)]]
Compiled == {Linked(p, compile_thunk(p.e)) : p \in Programs}

\* How a run begins: with any program, room, garbage and stack.
Starts ==
    {[prog |-> p,
      at |-> Applied(Loaded(p.src.graph, p.funs, room, garbage, stackroom), 0, 0, p.maxstack)] :
       p \in Compiled, room \in Rooms, garbage \in Garbage, stackroom \in StackRooms}

Init ==
    /\ \E s \in Starts : prog = s.prog /\ m = s.at.m /\ r = s.at.r
    /\ ctl = <<>>
    /\ mode = "run"

Halted == mode \in {"done", "died"} /\ UNCHANGED vars

Next == \/ RunBuiltin \/ Load \/ LoadGlobal \/ SetGlobal \/ LoadArg \/ SetArg
        \/ LoadCaptured \/ SetCaptured \/ Bound \/ Jump
        \/ CheckArgs \/ RestArgs \/ OptArgs \/ KeyArgs \/ MakeClosure
        \/ CallOp \/ TailCallOp \/ Return
        \/ Loop \/ ResumeLoop \/ TryCatch \/ Unwind \/ ResumeTry \/ ResumeMap
        \/ Halted

Spec == Init /\ [][Next]_vars
=============================================================================
