------------------------------ MODULE Streams ------------------------------
(***************************************************************************)
(* Buffered streams (src/femtoscheme/llt/ios.c) and the builtins that use  *)
(* them (src/femtoscheme/iostream.c): one stream, on a file, on an output  *)
(* of the process or in memory, and everything a program can ask of it.    *)
(*                                                                         *)
(* Operators take a world - the stream, the file and the position of its   *)
(* descriptor - and give another, with a result where the function has     *)
(* one: [w, r].  Errors of the system, inputs that deliver less than was   *)
(* asked for (pipes) and line numbers are left out.                        *)
(***************************************************************************)
EXTENDS Integers, Sequences, FiniteSets
LOCAL INSTANCE SequencesExt
LOCAL INSTANCE FiniteSetsExt

CONSTANTS
  BufferSize,           \* IOS_BUFSIZE
  InlineSize,           \* IOS_INLSIZE
  LineChunk,            \* LINE_CHUNK_SIZE
  Texts, Rewritten,     \* what files hold at the start; those that are written
  Data, Lines,          \* what is written, and what to the standard output
  MaxFile,              \* bound: bytes of a file or a stream in memory
  MaxBuffer,            \* bound: bytes to which the buffer of a file grows
  Extras                \* which of the steps named in ExtraSteps are taken

ExtraSteps == {"write after read", "split character", "old position", "long line"}

ASSUME StreamSizes ==
  /\ {BufferSize, InlineSize, LineChunk} \subseteq Nat \ {0} /\ {MaxFile, MaxBuffer} \subseteq Nat
  /\ Texts \cup Rewritten \subseteq Seq(STRING) /\ Data \cup Lines \subseteq Seq(STRING) /\ Extras \subseteq ExtraSteps

VARIABLES
  s,                    \* ios_t: bm, state, buf (maxsize bytes), size, bpos, ndirty, fpos, eof, readonly, rereadable
  fd,                   \* it has a descriptor
  file, fdpos,          \* the file, and the position of the descriptor
  got                   \* the result of the last builtin

vars == <<s, fd, file, fdpos, got>>

World == [s |-> s, fd |-> fd, file |-> file, fdpos |-> fdpos]

EOF == <<"EOF">>
Newline == "nl"
Lead == "hi"
Continuation == "lo"

Least(a, b) == IF a < b THEN a ELSE b
Most(a, b) == IF a > b THEN a ELSE b
MostOf(n) == n - n \div 16
Fresh(n) == [i \in 1..n |-> "nul"]

\* d over t from offset p on: memcpy to a buffer, write to a file
Over(t, p, d) ==
  [i \in 1..(IF d # <<>> /\ p + Len(d) > Len(t) THEN p + Len(d) ELSE Len(t)) |->
     IF i \in (p + 1)..(p + Len(d)) THEN d[i - p] ELSE IF i <= Len(t) THEN t[i] ELSE "nul"]

maxsize(w) == Len(w.s.buf)
avail(w) == w.s.size - w.s.bpos
Here(w, n) == SubSeq(w.s.buf, w.s.bpos + 1, w.s.bpos + n)

-----------------------------------------------------------------------------
(* The system and the buffer                                                 *)

OsRead(w, n) ==
  LET k == Least(n, Most(Len(w.file) - w.fdpos, 0))
  IN  [w |-> [w EXCEPT !.fdpos = @ + k], r |-> SubSeq(w.file, w.fdpos + 1, w.fdpos + k)]

OsWrite(w, d) ==
  IF ~w.fd THEN [w |-> w, r |-> 0]
  ELSE [w |-> [w EXCEPT !.file = Over(@, w.fdpos, d), !.fdpos = @ + Len(d)], r |-> Len(d)]

\* _buf_realloc; a first buffer of up to InlineSize bytes is in the stream
Realloc(w, n) ==
  IF maxsize(w) = 0 /\ n <= InlineSize THEN [w EXCEPT !.s.buf = Fresh(InlineSize)]
  ELSE IF n <= maxsize(w) THEN w ELSE [w EXCEPT !.s.buf = @ \o Fresh(n - Len(@))]

Emptied(w) == [w EXCEPT !.s.bpos = 0, !.s.size = 0]

Flushed(w) ==
  LET dirty == SubSeq(w.s.buf, 1, w.s.ndirty)
      clean == [w EXCEPT !.s.ndirty = 0, !.s.fpos = -1]
  IN  IF w.s.ndirty = 0 \/ w.s.bm = "mem" \/ ~w.fd THEN w
      ELSE IF w.s.state = "rd" THEN [clean EXCEPT !.file = Over(@, w.fdpos - w.s.size, dirty)]
      ELSE [clean EXCEPT !.file = Over(@, w.fdpos, dirty), !.fdpos = @ + w.s.bpos, !.s.bpos = 0,
                         !.s.buf = Over(@, 0, SubSeq(@, w.s.ndirty + 1, w.s.size)),
                         !.s.size = @ - w.s.ndirty]

-----------------------------------------------------------------------------
(* Reading                                                                   *)

\* _ios_read, with what it has read so far
RECURSIVE ReadOn(_, _, _)
ReadOn(w, n, before) ==
  LET now  == before \o Here(w, Least(n, avail(w)))
      took == [w EXCEPT !.s.bpos = @ + Least(n, avail(w)), !.s.state = "rd"]
      more == n - avail(w)
      w1   == [Emptied(Flushed(w)) EXCEPT !.s.state = "rd", !.s.fpos = -1]
      os   == OsRead(w1, IF more > MostOf(maxsize(w)) THEN more ELSE maxsize(w))
      ended == [os.w EXCEPT !.s.eof = @ \/ os.r = <<>>]
  IN  IF more <= 0 THEN [w |-> took, r |-> now]
      ELSE IF w.s.bm = "mem" \/ ~w.fd THEN [w |-> [took EXCEPT !.s.eof = @ \/ avail(w) = 0], r |-> now]
      ELSE IF more > MostOf(maxsize(w)) \/ os.r = <<>> THEN [w |-> ended, r |-> now \o os.r]
      ELSE ReadOn([ended EXCEPT !.s.buf = Over(@, 0, os.r), !.s.size = Len(os.r)], more, now)

ios_read(w, n) == ReadOn(w, n, <<>>)

\* room for n bytes from bpos on
RoomToRead(w, n) ==
  IF maxsize(w) >= w.s.bpos + n THEN w
  ELSE IF n <= maxsize(w) /\ avail(w) <= maxsize(w) \div 4
       THEN [w EXCEPT !.s.buf = Over(@, 0, Here(w, avail(w))), !.s.size = avail(w), !.s.bpos = 0]
       ELSE Realloc(w, w.s.bpos + n)
Fill(w, os) == [os.w EXCEPT !.s.buf = Over(@, w.s.size, os.r), !.s.size = @ + Len(os.r)]
FillUp(w) == Fill(w, OsRead(w, maxsize(w) - w.s.size))
TurnToRead(w) ==
  [IF w.s.state = "wr" /\ w.s.bm # "mem" THEN Emptied(Flushed(w)) ELSE w EXCEPT !.s.state = "rd"]
Prepared(w, n) ==
  IF avail(w) >= n \/ w.s.bm = "mem" \/ ~w.fd THEN w ELSE FillUp(RoomToRead(w, n))

\* n bytes in the buffer, if there are so many
ios_readprep(w, n) == Prepared(TurnToRead(w), n)

ios_getc(w) ==
  IF w.s.state = "rd" /\ avail(w) > 0 THEN [w |-> [w EXCEPT !.s.bpos = @ + 1], r |-> Here(w, 1)]
  ELSE IF w.s.eof THEN [w |-> w, r |-> EOF]
  ELSE LET x == ios_read(w, 1) IN [x EXCEPT !.r = IF @ = <<>> THEN EOF ELSE @]

FirstByte(w) == [w |-> w, r |-> IF avail(w) = 0 THEN EOF ELSE Here(w, 1)]
ios_peekc(w) ==
  IF avail(w) > 0 THEN FirstByte(w)
  ELSE IF w.s.eof THEN [w |-> w, r |-> EOF] ELSE FirstByte(ios_readprep(w, 1))

UngetcAtEnd(w, c) ==                                                    \* mutant
  IF w.s.state = "rd" /\ w.s.bpos > 0 THEN [w |-> [w EXCEPT !.s.bpos = @ - 1], r |-> <<c>>]
  ELSE [w |-> w, r |-> EOF]

ios_ungetc(w, c) ==
  LET w1 == IF w.s.size = maxsize(w) THEN Realloc(w, 2 * maxsize(w)) ELSE w
  IN  IF w.s.state = "wr" THEN [w |-> w, r |-> EOF]
      ELSE [r |-> <<c>>, w |->
              IF w.s.bpos > 0 THEN [w EXCEPT !.s.bpos = @ - 1, !.s.eof = FALSE, !.s.buf = Over(@, w.s.bpos - 1, <<c>>)]
              ELSE [w1 EXCEPT !.s.size = @ + 1, !.s.eof = FALSE,
                              !.s.buf = Over(@, 0, <<c>> \o SubSeq(@, 1, w.s.size))]]

\* u8_seqlen: what the first byte says
SeqLen(c) == IF c = Lead THEN 2 ELSE 1
Ascii(c) == c \notin {Lead, Continuation}

\* u8_nextchar: the first byte and what continues it, be it in the stream or
\* left in the buffer; where it ends, one byte past the buffer is looked at
NextChar(w) ==
  LET rest == {i \in (w.s.bpos + 2)..maxsize(w) : w.s.buf[i] # Continuation} \cup {maxsize(w) + 1}
  IN  SubSeq(w.s.buf, w.s.bpos + 1, Min(rest) - 1)

\* the character of n bytes that starts here, taken or only looked at
TakeChar(w, n) == IF avail(w) < n - 1 THEN [w |-> w, r |-> EOF] ELSE [w |-> ios_read(w, n).w, r |-> NextChar(w)]
LookAtChar(w, n) == [w |-> w, r |-> IF avail(w) < n - 1 THEN EOF ELSE NextChar(w)]

\* c is the first byte, and the stream after it
GetRest(c) ==
  IF c.r = EOF \/ Ascii(c.r[1]) THEN c
  ELSE TakeChar(ios_readprep(ios_ungetc(c.w, c.r[1]).w, SeqLen(c.r[1]) - 1), SeqLen(c.r[1]))
PeekRest(c) ==
  IF c.r = EOF \/ Ascii(c.r[1]) THEN c
  ELSE LookAtChar(ios_readprep(c.w, SeqLen(c.r[1]) - 1), SeqLen(c.r[1]))
ios_getutf8(w) == GetRest(ios_getc(w))
ios_peekutf8(w) == PeekRest(ios_peekc(w))

ios_eof(w) == w.s.eof \/ (w.s.bm # "mem" /\ ~w.fd)

\* The line and its end: from what is in the buffer, or from that and the next
\* chunk; the stream has ended if the end of the line is in neither
LineEnds(w) == {i \in 1..avail(w) : Here(w, i)[i] = Newline}
Past(w, n) == [w EXCEPT !.s.bpos = @ + n]
LineUpto(w, n, before) == [w |-> Past(w, n), r |-> before \o Here(w, n)]
RestOfLine(w, before) ==
  IF LineEnds(w) # {} THEN LineUpto(w, Min(LineEnds(w)), before)
  ELSE LineUpto([w EXCEPT !.s.eof = TRUE], avail(w), before)
ios_copyuntil(w) ==
  IF ios_eof(w) THEN [w |-> w, r |-> <<>>]
  ELSE IF LineEnds(w) # {} THEN LineUpto(w, Min(LineEnds(w)), <<>>)
  ELSE RestOfLine(ios_readprep(Past(w, avail(w)), LineChunk), Here(w, avail(w)))

\* ios_copy_ to a stream in memory: n bytes, or all
RECURSIVE CopyOn(_, _, _)
CopyBuffer(w, n, before) ==
  IF avail(w) = 0 THEN [w |-> [w EXCEPT !.s.eof = TRUE], r |-> before]
  ELSE IF avail(w) >= n THEN [w |-> Past(w, n), r |-> before \o Here(w, n)]
  ELSE CopyOn(Past(w, avail(w)), n - avail(w), before \o Here(w, avail(w)))
CopyOn(w, n, before) ==
  IF ios_eof(w) THEN [w |-> w, r |-> before]
  ELSE CopyBuffer(ios_readprep(w, BufferSize \div 2), n, before)

-----------------------------------------------------------------------------
(* Writing                                                                   *)

UpdatePos(w) == [w EXCEPT !.s.ndirty = Most(@, w.s.bpos), !.s.size = Most(@, w.s.bpos)]
Placed(w, d) == [w EXCEPT !.s.buf = Over(@, w.s.bpos, d), !.s.bpos = @ + Len(d)]

\* _write_grow: a buffer twice as large, as often as it takes
RECURSIVE Doubled(_, _)
Doubled(n, need) == IF need <= n THEN n ELSE Doubled(2 * n, need)
WriteGrow(w, d) ==
  LET need == w.s.bpos + Len(d)
      w1   == IF need > maxsize(w) THEN Realloc(w, Doubled(IF maxsize(w) = 0 THEN 8 ELSE maxsize(w), need)) ELSE w
  IN  Placed([w1 EXCEPT !.s.size = Most(@, need)], d)

ToFirstNewline(d) ==                                                   \* mutant
  LET ends == {i \in DOMAIN d : d[i] = Newline} IN IF ends = {} THEN 0 ELSE Min(ends)

ToLastNewline(d) == Max({0} \cup {i \in DOMAIN d : d[i] = Newline})

RECURSIVE ios_write(_, _)
ios_write(w, d) ==
  LET n  == Len(d)
      w1 == IF w.s.state = "none" THEN [w EXCEPT !.s.state = "wr"]
            ELSE IF w.s.state = "rd" /\ ~w.s.rereadable THEN Emptied(w) ELSE w
      space == IF w1.s.state = "rd" THEN avail(w1) ELSE maxsize(w1) - w1.s.bpos
      k  == ToLastNewline(d)
      \* bm_line: up to the last newline at once
      line == [Flushed(ios_write([w1 EXCEPT !.s.bm = "block"], SubSeq(d, 1, k)).w) EXCEPT !.s.bm = "line"]
      full == Flushed([w1 EXCEPT !.s.state = "wr"])
  IN  IF w.s.readonly \/ n = 0 THEN [w |-> w, r |-> 0]
      ELSE IF w.s.bm = "mem" THEN [w |-> UpdatePos(WriteGrow(w1, d)), r |-> n]
      ELSE IF w.s.bm = "none" THEN OsWrite([w1 EXCEPT !.s.fpos = -1], d)
      ELSE IF n <= space THEN
        [w |-> UpdatePos(IF w.s.bm = "line" /\ k > 0 THEN Placed(line, SubSeq(d, k + 1, n)) ELSE Placed(w1, d)), r |-> n]
      ELSE IF n > MostOf(maxsize(w1)) THEN OsWrite(full, d)
      ELSE IF n > maxsize(full) - full.s.bpos THEN [w |-> full, r |-> -1]     \* calls itself for ever
      ELSE ios_write(full, d)

ios_putc(w, c) ==
  LET put == UpdatePos(Placed(w, <<c>>))
  IN  IF w.s.state = "wr" /\ w.s.bpos < maxsize(w) /\ w.s.bm # "none"
      THEN [r |-> 1, w |-> IF w.s.bm = "line" /\ c = Newline THEN Flushed(put) ELSE put]
      ELSE ios_write(w, <<c>>)

-----------------------------------------------------------------------------
(* Where in the file                                                         *)

SeekKeepingBuffer(w, p) ==                                              \* mutant
  LET w1 == [Flushed(w) EXCEPT !.s.eof = FALSE]
  IN  IF w.s.bm = "mem" THEN [w |-> [w1 EXCEPT !.s.bpos = Least(p, w.s.size)], r |-> p <= w.s.size]
      ELSE [w |-> [w1 EXCEPT !.fdpos = p], r |-> w.fd]

ios_seek(w, p) ==
  LET w1 == [w EXCEPT !.s.eof = FALSE]
  IN  IF w.s.bm = "mem" THEN (IF p > w.s.size THEN [w |-> w1, r |-> FALSE] ELSE [w |-> [w1 EXCEPT !.s.bpos = p], r |-> TRUE])
      ELSE IF ~w.fd THEN [w |-> Flushed(w1), r |-> FALSE]
      ELSE [w |-> Emptied([Flushed(w1) EXCEPT !.fdpos = p]), r |-> TRUE]

ios_seek_end(w) == Emptied([Flushed(w) EXCEPT !.fdpos = Len(w.file), !.s.eof = TRUE])

\* the position of the descriptor is asked for once and then remembered
ios_pos(w) ==
  LET p == IF w.s.fpos = -1 THEN w.fdpos ELSE w.s.fpos
  IN  IF w.s.bm = "mem" THEN [w |-> w, r |-> w.s.bpos]
      ELSE [w |-> [w EXCEPT !.s.fpos = p],
            r |-> CASE w.s.state = "wr" -> p + w.s.bpos [] w.s.state = "rd" -> p - avail(w) [] OTHER -> p]

ios_purge(w) == IF w.s.state = "rd" THEN [w EXCEPT !.s.bpos = w.s.size] ELSE w

ios_close(w) == [Emptied(Flushed(w)) EXCEPT !.fd = FALSE, !.s.buf = <<>>]

\* stream_to_string: ios_trunc if the bytes are in the stream, else ios_takebuf
StreamToString(w) ==
  [r |-> SubSeq(w.s.buf, 1, w.s.size),
   w |-> IF maxsize(w) = InlineSize THEN Emptied(w) ELSE [Emptied(w) EXCEPT !.s.buf = Fresh(InlineSize)]]

-----------------------------------------------------------------------------
(* The streams there are                                                     *)

NewStream == [bm |-> "block", state |-> "none", buf |-> Fresh(BufferSize), size |-> 0, bpos |-> 0,
              ndirty |-> 0, fpos |-> -1, eof |-> FALSE, readonly |-> FALSE, rereadable |-> TRUE]

\* fl_file, fl_buffer, ios_init_stdstreams
Opened ==
  {[s |-> [NewStream EXCEPT !.readonly = TRUE], fd |-> TRUE, file |-> t, fdpos |-> 0] : t \in Texts}
  \cup {[s |-> NewStream, fd |-> TRUE, file |-> t, fdpos |-> 0] : t \in Rewritten}
  \cup {ios_seek_end([s |-> NewStream, fd |-> TRUE, file |-> t, fdpos |-> 0]) : t \in Rewritten}
  \cup {[s |-> [NewStream EXCEPT !.bm = how, !.rereadable = FALSE], fd |-> TRUE, file |-> <<>>, fdpos |-> 0] :
          how \in {"line", "none"}}
  \cup {[s |-> [NewStream EXCEPT !.bm = "mem", !.rereadable = FALSE, !.buf = Fresh(InlineSize)],
         fd |-> FALSE, file |-> <<>>, fdpos |-> 0]}

Init == \E w \in Opened : s = w.s /\ fd = w.fd /\ file = w.file /\ fdpos = w.fdpos /\ got = <<>>

Dirty == SubSeq(s.buf, 1, s.ndirty)

\* What the stream stands for: the file under what is still to be written, or
\* the bytes in memory (ios.h: "reading: at the end. writing: at the beginning")
Text == CASE s.bm = "mem" -> SubSeq(s.buf, 1, s.size)
          [] s.state = "rd" -> Over(file, fdpos - s.size, Dirty)
          [] OTHER -> Over(file, fdpos, Dirty)
At == CASE s.bm = "mem" -> s.bpos
        [] ~fd -> 0
        [] s.state = "rd" -> fdpos - avail(World)
        [] OTHER -> fdpos + s.bpos

Become(w, r) ==
  /\ s.bm = "mem" \/ Len(w.s.buf) <= MaxBuffer
  /\ s' = w.s /\ fd' = w.fd /\ file' = w.file /\ fdpos' = w.fdpos /\ got' = r

Input == s.bm # "line" /\ s.bm # "none"
Room(n) == (IF s.bm = "mem" THEN s.bpos ELSE Len(file) + s.ndirty) + n <= MaxFile

\* The character was in the buffer as a whole, and what followed it there did
\* not continue it
Whole(r) == Len(r) = SeqLen(r[1])

\* A stream that was read takes writes again only after a seek, and one in
\* memory or of the process does not: ios_write drops what it had not read
MayWrite == "write after read" \in Extras \/ s.state # "rd" \/ (s.rereadable /\ s.size = 0)

IoGetc == Input /\ \E x \in {ios_getutf8(World)} :
  ("split character" \in Extras \/ Whole(x.r)) /\ Become(x.w, x.r)
IoPeekc == Input /\ \E x \in {ios_peekutf8(World)} :
  ("split character" \in Extras \/ Whole(x.r)) /\ Become(x.w, x.r)

\* what is given back is what was read
IoUngetc ==
  /\ Input /\ s.state = "rd" /\ At > 0 /\ Ascii(Text[At])
  /\ \E x \in {ios_ungetc(World, Text[At])} : Become(x.w, x.r)

IoRead == Input /\ \E n \in 1..(BufferSize + 1) :
  \E x \in {ios_read(World, n)} : Become(x.w, IF Len(x.r) < n THEN EOF ELSE x.r)

\* io.readuntil, io.copyuntil
IoReadUntil ==
  /\ Input
  /\ \E x \in {ios_copyuntil(World)} :
       /\ "long line" \in Extras \/ (x.w.s.eof => x.w.fdpos >= Len(file) \/ s.bm = "mem")
       /\ Become(x.w, IF x.r = <<>> THEN EOF ELSE x.r)

IoCopy == Input /\ \E n \in 0..(MaxFile + 1) : \E x \in {CopyOn(World, n, <<>>)} : Become(x.w, x.r)

Writes == IF s.bm = "line" THEN Lines ELSE Data

IoPutc == MayWrite /\ Room(1) /\ \E d \in Writes :
  Len(d) = 1 /\ \E x \in {ios_putc(World, d[1])} : Become(x.w, <<"wrote", x.r>>)

IoWrite == MayWrite /\ \E d \in Writes :
  Room(Len(d)) /\ \E x \in {ios_write(World, d)} : Become(x.w, <<"wrote", x.r>>)

IoFlush == Become(Flushed(World), <<"ok">>)

IoSeek == Input /\ \E p \in 0..Len(IF s.bm = "mem" THEN SubSeq(s.buf, 1, s.size) ELSE Flushed(World).file) :
  \E x \in {ios_seek(World, p)} : Become(x.w, <<IF x.r THEN "ok" ELSE "failed">>)

IoPos ==
  /\ fd \/ s.bm = "mem"
  /\ "old position" \in Extras \/ s.fpos \in {-1, fdpos}
  /\ \E x \in {ios_pos(World)} : Become(x.w, <<"at", x.r>>)

IoDiscardBuffer == Become(ios_purge(World), <<"ok">>)

IoToString == s.bm = "mem" /\ \E x \in {StreamToString(World)} : Become(x.w, x.r)

\* also when the collector finds that the stream is not used any more
IoClose == Become(ios_close(World), <<"ok">>)

Next ==
  \/ IoGetc \/ IoPeekc \/ IoUngetc \/ IoRead \/ IoReadUntil \/ IoCopy \/ IoPutc \/ IoWrite
  \/ IoFlush \/ IoSeek \/ IoPos \/ IoDiscardBuffer \/ IoToString \/ IoClose

Spec == Init /\ [][Next]_vars

-----------------------------------------------------------------------------
(* Properties                                                                *)

TypeOK ==
  /\ s.bm \in {"mem", "block", "line", "none"} /\ s.state \in {"none", "rd", "wr"}
  /\ (s.bm # "mem" => s.ndirty <= s.size) /\ s.bpos <= s.size /\ s.size <= Len(s.buf)
  /\ file \in Seq(STRING) /\ fdpos \in Nat

Promise == INSTANCE ByteFile WITH
  Data <- Data \cup Lines,
  text <- Text, at <- At, open <- fd \/ s.bm = "mem",
  kind <- IF s.bm = "mem" THEN "memory" ELSE IF s.readonly THEN "read" ELSE "file"

\* A stream gives what is in the file from its position on, writes where it is,
\* and loses nothing when it is flushed, moved or closed, whatever was left in
\* its buffer when.
ImplementsByteFile == Promise!Spec

\* io.eof? is not true while there is something left to read.
EofHonest == ios_eof(World) /\ fd => At = Len(Text)

\* What was written to the standard output is out as soon as its line is ended,
\* and what was written to the standard error at once.
LinesAreOut ==
  /\ TypeOK
  /\ s.bm = "none" => s.ndirty = 0
  /\ s.bm = "line" => Newline \notin {s.buf[i] : i \in 1..s.ndirty}
=============================================================================
