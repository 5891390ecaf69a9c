------------------------------ MODULE ByteFile ------------------------------
(***************************************************************************)
(* What a program expects of a stream: bytes, a position in them, and      *)
(* operations that give back what is there (the promise of io.getc,        *)
(* io.read, io.write and their like; src/femtoscheme/llt/ios.h).  There    *)
(* is no buffer.                                                           *)
(***************************************************************************)
EXTENDS Integers, Sequences
LOCAL INSTANCE SequencesExt
LOCAL INSTANCE FiniteSetsExt

CONSTANTS Data          \* what a program may write

VARIABLES
  text, at,             \* the bytes, and how many of them are before the position
  open,                 \* not closed
  kind,                 \* what it is: see Kinds
  got                   \* the result of the last operation

Kinds == {"read", "file", "memory"}      \* a file only to be read; any other; a stream in memory

EOF == <<"EOF">>
Newline == "nl"
Lead == "hi"            \* the first byte of a character of two bytes
Continuation == "lo"

Left == IF open THEN Len(text) - at ELSE 0
Ahead(n) == SubSeq(text, at + 1, at + n)
Least(a, b) == IF a < b THEN a ELSE b

\* d over t from offset p on; what a seek skipped is zeros
Over(t, p, d) ==
  [i \in 1..(IF d # <<>> /\ p + Len(d) > Len(t) THEN p + Len(d) ELSE Len(t)) |->
     IF i \in (p + 1)..(p + Len(d)) THEN d[i - p] ELSE IF i <= Len(t) THEN t[i] ELSE "nul"]

Keep == UNCHANGED <<text, open, kind>>

\* The length of the character that begins the text t
CharLength(t) == IF Len(t) > 1 /\ t[1] = Lead /\ t[2] = Continuation THEN 2 ELSE 1

GetChar == LET n == IF Left = 0 THEN 0 ELSE CharLength(Ahead(Left)) IN
  Keep /\ at' = at + n /\ got' = IF n = 0 THEN EOF ELSE Ahead(n)
PeekChar == LET n == IF Left = 0 THEN 0 ELSE CharLength(Ahead(Left)) IN
  Keep /\ at' = at /\ got' = IF n = 0 THEN EOF ELSE Ahead(n)

\* A byte given back is the one before the position
UngetByte == at > 0 /\ Keep /\ at' = at - 1 /\ got' = <<text[at]>>

Read == \E n \in 1..(Len(text) + 1) :
  Keep /\ at' = at + Least(n, Left) /\ got' = IF n > Left THEN EOF ELSE Ahead(n)

\* readuntil, copyuntil: to the delimiter and with it, or to the end
LineLength(t) == IF \E i \in DOMAIN t : t[i] = Newline THEN Min({i \in DOMAIN t : t[i] = Newline}) ELSE Len(t)
ReadLine == LET n == LineLength(Ahead(Left)) IN
  Keep /\ at' = at + n /\ got' = IF n = 0 THEN EOF ELSE Ahead(n)

Copy == \E n \in 0..Left : Keep /\ at' = at + n /\ got' = Ahead(n)

Write == \E d \in Data :
  /\ open /\ kind # "read" /\ text' = Over(text, at, d) /\ at' = at + Len(d) /\ got' = <<"wrote", Len(d)>>
  /\ UNCHANGED <<open, kind>>

WriteRefused == (~open \/ kind = "read") /\ Keep /\ at' = at /\ got' = <<"wrote", 0>>

Seek == \E p \in 0..Len(text) : open /\ Keep /\ at' = p /\ got' = <<"ok">>
SeekRefused == ~open /\ Keep /\ at' = at /\ got' = <<"failed">>
Position == (open \/ kind = "memory") /\ Keep /\ at' = at /\ got' = <<"at", at>>
Discard == Keep /\ at' \in at..Len(text) /\ got' = <<"ok">>
Flush == Keep /\ at' = at /\ got' = <<"ok">>

\* tostring! takes all there is, and leaves a stream in memory empty
TakeAll == kind = "memory" /\ got' = text /\ text' = <<>> /\ at' = 0 /\ UNCHANGED <<open, kind>>

\* A stream in memory is empty once it is closed, and can be used again
Close ==
  /\ got' = <<"ok">> /\ at' = 0 /\ UNCHANGED kind
  /\ IF kind = "memory" THEN text' = <<>> /\ UNCHANGED open ELSE open' = FALSE /\ UNCHANGED text

Init ==
  /\ text \in Seq(STRING) /\ at \in 0..Len(text) /\ open = TRUE /\ kind \in Kinds /\ got = <<>>

Next ==
  \/ GetChar \/ PeekChar \/ UngetByte \/ Read \/ ReadLine \/ Copy \/ Write \/ WriteRefused
  \/ Seek \/ SeekRefused \/ Position \/ Discard \/ Flush \/ TakeAll \/ Close

Spec == Init /\ [][Next]_<<text, at, open, kind, got>>
=============================================================================
