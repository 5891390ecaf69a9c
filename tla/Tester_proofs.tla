---------------------------- MODULE Tester_proofs ----------------------------
(***************************************************************************)
(* Proofs about Tester, for every set of editors, any size of the journal  *)
(* and of a batch, with crashes and with checkers that break the protocol: *)
(* the types, that what was not acknowledged is in the journal, that a run *)
(* which passes was checked, that the two sides agree on the protocol, and *)
(* that the user gets everything back.                                     *)
(***************************************************************************)
EXTENDS Tester, SequenceTheorems, TLAPS

(***************************************************************************)
(* Types.                                                                  *)
(***************************************************************************)
Preparing == {"header", "heading", "send header"}
Places == {"idle", "prepare", "fail", "stop", "reap", "finish", "unlock", "dead"} \cup Fallible

Runs == [kind : Kinds, keep : BOOLEAN, plan : BOOLEAN, seq : 0..MaxSeq, acked : 0..MaxSeq,
         pending : 0..Batch, file : 0..Texts, used : Seq(Lines), over : BOOLEAN, locked : BOOLEAN,
         success : BOOLEAN, bad : BOOLEAN, lied : BOOLEAN]

Whose == {"user", "tester"}
Users == [shown : {"origin", "fixture"}, fixture : BOOLEAN, mark : Whose, clip : Whose,
          kills : Whose \cup {"left aside", "not begun"}, search : Whose]

Nexts == {"start", "header", "lines", "ready", "between", "base", "in a text", "result", "clean",
          "complete", "silent"}
Checkers == [count : 0..MaxSeq, file : 0..Texts, batch : 0..Batch, next : Nexts]

\* what the editor writes to the checker, and what it is told
Observations == {"S", "R"} \X (0..(MaxSeq - 1)) \X BOOLEAN
Sent == {<<"H">>, <<"READY">>, <<"BASE">>, <<"CLEAN">>, <<"COMPLETE">>, Closed}
          \cup Observations \cup ({"B", "Z"} \X (0..MaxSeq))
Said == {<<"READY">>, <<"FAIL">>} \cup ({"PLAN"} \X Kinds \X BOOLEAN)
          \cup ({"ACK", "PASS", "FILE", "E", "CLOSE", "DONE"} \X Int)

Types ==
  /\ pc \in [Editors -> Places] /\ run \in [Editors -> Runs] /\ user \in [Editors -> Users]
  /\ to \in [Editors -> Seq(Sent)] /\ from \in [Editors -> Seq(Said)]
  /\ child \in [Editors -> {"none", "runs", "exit 0", "exit 1"}]
  /\ checker \in [Editors -> Checkers]
  /\ lock \in BOOLEAN /\ journal \in Seq(Lines) /\ failure \in Seq(Lines)

(***************************************************************************)
(* The numbers of a run, by its place.                                     *)
(***************************************************************************)
Unstarted == {"spawn", "plan", "header", "heading", "send header", "ready", "fixture", "isolated",
              "heading of edits", "send READY"}
InBatch == {"step", "send", "batch", "ack"}
AllAcknowledged == {"renew", "renewing", "end", "pass", "base", "command", "obey", "result",
                    "renew edits", "heading of next", "clean", "complete"}

Numbers(e) ==
  /\ run[e].acked <= run[e].seq
  /\ pc[e] \in {"idle", "prepare"} => run[e] = NewRun
  /\ pc[e] \in Unstarted => run[e].seq = 0 /\ run[e].pending = 0
  /\ pc[e] \in InBatch => run[e].acked + run[e].pending = run[e].seq
  /\ pc[e] \in {"step", "send"} => run[e].pending < Batch
  /\ pc[e] \in {"batch", "ack"} => run[e].pending > 0
  /\ pc[e] \in AllAcknowledged => run[e].acked = run[e].seq
  /\ pc[e] \in {"renew", "renewing", "end"} => run[e].pending = 0
  /\ pc[e] \in {"send", "obey", "result"} => run[e].seq < MaxSeq
  /\ pc[e] = "send" => run[e].used # <<>> /\ run[e].used[Len(run[e].used)] = <<"S", run[e].seq>>
  /\ pc[e] = "result" => run[e].used # <<>> /\ run[e].used[Len(run[e].used)] = <<"R", run[e].seq>>

(***************************************************************************)
(* The directory has one owner, from prepare_output on, alive or not.      *)
(***************************************************************************)
Owner(e) ==
  /\ pc[e] \in Fallible => run[e].locked
  /\ run[e].locked => lock

OneOwner == \A e, f \in Editors : run[e].locked /\ run[f].locked => e = f

Within(j, n) == \E i \in DOMAIN j : j[i][1] \in {"S", "R"} /\ j[i][2] = n

Evidence(e) ==
  /\ run[e].locked => \A n \in run[e].acked..(run[e].seq - 1) : Within(journal, n)
  /\ pc[e] \in {"send", "result"} => Within(journal, run[e].seq)

\* success is only noted for a run that was acknowledged
Succeeds(e) ==
  run[e].success => /\ pc[e] \in {"stop", "reap", "finish", "unlock"}
                    /\ run[e].locked /\ run[e].acked = run[e].seq

(***************************************************************************)
(* What the tester has of its user, and which places have no process.      *)
(***************************************************************************)
Isolated == {"isolated", "heading of edits", "send READY", "base", "command", "obey", "result",
             "ack of result", "renew edits", "heading of next", "clean", "fail"}

Trusted(u) == u.clip = "user" /\ u.kills \in {"user", "left aside"} /\ u.search = "user"

Returned(e) ==
  /\ pc[e] \in {"idle", "prepare", "spawn", "unlock"} => HandedBack(user[e])
  /\ pc[e] \notin Isolated => Trusted(user[e])
  /\ pc[e] \in {"idle", "prepare", "spawn", "finish", "unlock", "dead"} => child[e] = "none"

(***************************************************************************)
(* The protocol, with a checker that keeps to it: what is in the two pipes *)
(* and what the checker waits for, by the place of the editor.             *)
(***************************************************************************)
Rejected(e) == child[e] = "exit 1" /\ run[e].bad /\ from[e] = <<<<"FAIL">>>>

\* the checker runs, has counted n observations, all of them right
Agree(e, n) == child[e] = "runs" /\ checker[e].count = n /\ ~run[e].bad
Waits(e, next) ==
  Agree(e, run[e].seq) /\ checker[e].next = next /\ to[e] = <<>> /\ from[e] = <<>>
Hearing(e, next, line) ==
  Agree(e, run[e].seq) /\ checker[e].next = next /\ to[e] = <<line>> /\ from[e] = <<>>
Answered(e, next, line) ==
  Agree(e, run[e].seq) /\ checker[e].next = next /\ to[e] = <<>> /\ from[e] = <<line>>

\* n observations are on their way to the checker
Telling(e, n) ==
  /\ child[e] = "runs" /\ checker[e].next = "lines" /\ from[e] = <<>>
  /\ checker[e].count + n = run[e].seq /\ checker[e].batch + n = run[e].pending
  /\ \A i \in 1..n : to[e][i] = <<"S", checker[e].count + i - 1, to[e][i][3]>>
WrongAmong(e, n) == \E i \in 1..n : ~to[e][i][3]

HeaderNext(e) == IF run[e].plan THEN "header" ELSE "start"

PlanProtocol(e) ==
  \/ Waits(e, "start") /\ run[e].plan
  \/ \E keep \in BOOLEAN : Answered(e, "header", <<"PLAN", "read", keep>>) /\ run[e].plan
  \/ \E keep \in BOOLEAN, kind \in {"edit", "search"} :
       Answered(e, "ready", <<"PLAN", kind, keep>>) /\ run[e].plan

AckProtocol(e) ==
  \/ Rejected(e)
  \/ \E n \in 0..(Len(to[e]) - 1) :
       /\ Telling(e, n) /\ Len(to[e]) = n + 1 /\ to[e][n + 1] = <<"B", run[e].seq>>
       /\ run[e].bad <=> WrongAmong(e, n)
  \/ Answered(e, "lines", <<"ACK", run[e].seq>>) /\ checker[e].batch = 0

\* in a text the checker offers the next command at once, behind what it said
Ahead(e, before) ==
  /\ Agree(e, run[e].seq) /\ to[e] = <<>>
  /\ \/ checker[e].next = "in a text" /\ from[e] = before
     \/ checker[e].next = "result" /\ from[e] = before \o <<<<"E", run[e].seq>>>>
     \/ checker[e].next = "clean" /\ from[e] = before \o <<<<"CLOSE", checker[e].file - 1>>>>

CommandProtocol(e) ==
  \/ Hearing(e, "ready", <<"READY">>) \/ Hearing(e, "clean", <<"CLEAN">>)
  \/ Hearing(e, "base", <<"BASE">>) \/ Waits(e, "between") \/ Ahead(e, <<>>)
  \/ Answered(e, "base", <<"FILE", checker[e].file - 1>>)
  \/ Answered(e, "complete", <<"DONE", run[e].seq>>)

ResultProtocol(e) ==
  \/ Rejected(e)
  \/ /\ child[e] = "runs" /\ checker[e].count = run[e].seq - 1 /\ checker[e].next = "result"
     /\ to[e] = <<<<"R", run[e].seq - 1, ~run[e].bad>>>> /\ from[e] = <<>>
  \/ Ahead(e, <<<<"ACK", run[e].seq>>>>)

PassProtocol(e) ==
  \/ /\ Agree(e, run[e].seq) /\ checker[e].next = "lines" /\ checker[e].batch = 0
     /\ to[e] = <<<<"Z", run[e].seq>>, Closed>> /\ from[e] = <<>>
  \/ Hearing(e, "complete", <<"COMPLETE">>)
  \/ child[e] = "exit 0" /\ ~run[e].bad

Protocol(e) ==
  /\ pc[e] \in {"idle", "prepare", "spawn"} \/ run[e].success => ~run[e].bad
  /\ pc[e] = "plan" => PlanProtocol(e)
  /\ pc[e] \in Preparing => Waits(e, HeaderNext(e))
  /\ pc[e] = "ready" => Hearing(e, HeaderNext(e), <<"H">>) \/ Answered(e, "lines", <<"READY">>)
  /\ pc[e] \in Unstarted \ {"spawn"} => checker[e].batch = 0
  /\ pc[e] = "fixture" => Waits(e, "lines")
  /\ pc[e] = "step" => \/ Rejected(e)
                       \/ Telling(e, Len(to[e])) /\ (run[e].bad <=> WrongAmong(e, Len(to[e])))
  /\ pc[e] = "send" => \/ Rejected(e)
                       \/ Telling(e, Len(to[e])) /\ (WrongAmong(e, Len(to[e])) => run[e].bad)
  /\ pc[e] = "batch" => \/ Rejected(e)
                        \/ Telling(e, Len(to[e])) /\ (run[e].bad <=> WrongAmong(e, Len(to[e])))
  /\ pc[e] = "ack" => AckProtocol(e)
  /\ pc[e] \in {"renew", "renewing"} => Waits(e, "lines") /\ checker[e].batch = 0
  /\ pc[e] = "end" => Rejected(e) \/ (Waits(e, "lines") /\ checker[e].batch = 0)
  /\ pc[e] = "pass" => PassProtocol(e)
  /\ pc[e] \in {"isolated", "heading of edits", "send READY"} => Waits(e, "ready")
  /\ pc[e] = "command" => CommandProtocol(e)
  /\ pc[e] = "base" => Waits(e, "base")
  /\ pc[e] = "obey" => Waits(e, "result")
  /\ pc[e] = "result" => /\ child[e] = "runs" /\ checker[e].count = run[e].seq
                         /\ checker[e].next = "result" /\ to[e] = <<>> /\ from[e] = <<>>
  /\ pc[e] = "ack of result" => ResultProtocol(e)
  /\ pc[e] \in {"renew edits", "heading of next"} => Ahead(e, <<>>)
  /\ pc[e] = "clean" => Waits(e, "clean")
  /\ pc[e] = "complete" => Waits(e, "complete")

\* what holds whatever the checker does, and what a checker that keeps to its protocol adds
Core ==
  /\ Types /\ OneOwner
  /\ \A e \in Editors : Numbers(e) /\ Owner(e) /\ Evidence(e) /\ Returned(e) /\ Succeeds(e)

IInv == Core /\ \A e \in Editors : ~run[e].lied => Protocol(e)
-----------------------------------------------------------------------------
(***************************************************************************)
(* What the steps write: lines, and the records of a run, a user and a     *)
(* checker.                                                                *)
(***************************************************************************)
LEMMA LineFacts ==
  /\ {<<"H">>, <<"READY">>, <<"BASE">>, <<"CLEAN">>, <<"COMPLETE">>, Closed} \subseteq Sent
  /\ \A n \in 0..MaxSeq : <<"B", n>> \in Sent /\ <<"Z", n>> \in Sent
  /\ \A n \in 0..(MaxSeq - 1), ok \in BOOLEAN : <<"S", n, ok>> \in Sent /\ <<"R", n, ok>> \in Sent
  /\ <<"H">> \in Lines
  /\ \A n \in 0..MaxSeq, k \in {"C", "B", "Z", "E", "S", "R"} : <<k, n>> \in Lines
  /\ \A line \in Sent : line[1] \in {"S", "R"} => line[2] \in 0..(MaxSeq - 1) /\ line[3] \in BOOLEAN
  /\ {<<"READY">>, <<"FAIL">>} \subseteq Said
  /\ \A kind \in Kinds, keep \in BOOLEAN : <<"PLAN", kind, keep>> \in Said
  /\ \A n \in Int : /\ <<"ACK", n>> \in Said /\ <<"PASS", n>> \in Said /\ <<"FILE", n>> \in Said
                    /\ <<"E", n>> \in Said /\ <<"CLOSE", n>> \in Said /\ <<"DONE", n>> \in Said
<1> USE TesterSizes
<1>1. /\ {<<"H">>, <<"READY">>, <<"BASE">>, <<"CLEAN">>, <<"COMPLETE">>, Closed} \subseteq Sent
      /\ \A n \in 0..MaxSeq : <<"B", n>> \in Sent /\ <<"Z", n>> \in Sent
  BY DEF Sent
<1>2. \A n \in 0..(MaxSeq - 1), ok \in BOOLEAN : <<"S", n, ok>> \in Sent /\ <<"R", n, ok>> \in Sent
  BY DEF Sent, Observations
<1>3. /\ <<"H">> \in Lines
      /\ \A n \in 0..MaxSeq, k \in {"C", "B", "Z", "E", "S", "R"} : <<k, n>> \in Lines
  BY DEF Lines
<1>4. \A line \in Sent : line[1] \in {"S", "R"} => line[2] \in 0..(MaxSeq - 1) /\ line[3] \in BOOLEAN
  BY DEF Sent, Observations, Closed
<1>5. /\ {<<"READY">>, <<"FAIL">>} \subseteq Said
      /\ \A kind \in Kinds, keep \in BOOLEAN : <<"PLAN", kind, keep>> \in Said
  BY DEF Said
<1>6. \A n \in Int : /\ <<"ACK", n>> \in Said /\ <<"PASS", n>> \in Said /\ <<"FILE", n>> \in Said
                     /\ <<"E", n>> \in Said /\ <<"CLOSE", n>> \in Said /\ <<"DONE", n>> \in Said
  BY DEF Said
<1> QED BY <1>1, <1>2, <1>3, <1>4, <1>5, <1>6

LEMMA UserFacts ==
  ASSUME NEW u \in Users
  PROVE  /\ InFixture(u) \in Users /\ AtOrigin(u) \in Users /\ Restored(u) \in Users
         /\ \A kind \in Kinds : Aside(u, kind) \in Users
         /\ Mine \in Users /\ Trusted(Mine) /\ Trusted(Restored(u))
         /\ Trusted(u) => Trusted(InFixture(u)) /\ Trusted(AtOrigin(u))
         /\ [AtOrigin(u) EXCEPT !.mark = "user"] \in Users
         /\ Trusted(u) => HandedBack([AtOrigin(u) EXCEPT !.mark = "user"])
         /\ HandedBack(Mine) /\ (HandedBack(u) => Trusted(u))
         /\ \A kills \in {u.kills, "user", "left aside"} : [Restored(u) EXCEPT !.kills = kills] \in Users
         /\ \A kills \in {"user", "left aside"} : Trusted([Restored(u) EXCEPT !.kills = kills])
<1>1. InFixture(u) \in Users /\ (Trusted(u) => Trusted(InFixture(u)))
  BY DEF Users, Whose, InFixture, Trusted
<1>2. AtOrigin(u) \in Users /\ (Trusted(u) => Trusted(AtOrigin(u)))
  BY DEF Users, Whose, AtOrigin, Trusted
<1>3. Restored(u) \in Users /\ Trusted(Restored(u))
  BY DEF Users, Whose, Restored, Trusted
<1>4. Mine \in Users /\ Trusted(Mine)
  BY DEF Users, Whose, Mine, Trusted
<1>5. ASSUME NEW kind \in Kinds
      PROVE  Aside(u, kind) \in Users
  BY DEF Users, Whose, Aside
<1>6. [AtOrigin(u) EXCEPT !.mark = "user"] \in Users
  BY DEF Users, Whose, AtOrigin
<1>7. ASSUME Trusted(u)
      PROVE  HandedBack([AtOrigin(u) EXCEPT !.mark = "user"])
  <2> DEFINE v == [AtOrigin(u) EXCEPT !.mark = "user"]
             w == [v EXCEPT !.kills = "user"]
  <2>1. v.kills \in {"user", "left aside"}
    BY <1>7 DEF Users, AtOrigin, Trusted
  <2>2. /\ w.shown = "origin" /\ w.fixture = FALSE /\ w.mark = "user"
        /\ w.clip = "user" /\ w.kills = "user" /\ w.search = "user"
    BY <1>7 DEF Users, AtOrigin, Trusted
  <2>3. w \in Users
    BY <1>6 DEF Users, Whose
  <2>4. w = [shown |-> w.shown, fixture |-> w.fixture, mark |-> w.mark, clip |-> w.clip,
             kills |-> w.kills, search |-> w.search]
    <3> HIDE DEF v, w
    <3> QED BY <2>3 DEF Users
  <2>5. w = Mine
    <3> HIDE DEF v, w
    <3> QED BY <2>2, <2>3, <2>4 DEF Mine
  <2> QED BY <2>1, <2>5 DEF HandedBack
<1>8. HandedBack(Mine) /\ (HandedBack(u) => Trusted(u))
  <2>1. [Mine EXCEPT !.kills = "user"] = Mine /\ Mine.kills = "user"
    BY DEF Mine
  <2>2. ASSUME HandedBack(u) PROVE Trusted(u)
    <3>1. [u EXCEPT !.kills = "user"].clip = u.clip /\ [u EXCEPT !.kills = "user"].search = u.search
      BY DEF Users
    <3>2. Mine.clip = "user" /\ Mine.search = "user"
      BY DEF Mine
    <3> QED BY <2>2, <3>1, <3>2 DEF HandedBack, Trusted
  <2> QED BY <2>1, <2>2 DEF HandedBack
<1>9. ASSUME NEW kills \in {u.kills, "user", "left aside"}
      PROVE  [Restored(u) EXCEPT !.kills = kills] \in Users
  BY DEF Users, Whose, Restored
<1>10. ASSUME NEW kills \in {"user", "left aside"}
       PROVE  Trusted([Restored(u) EXCEPT !.kills = kills])
  BY DEF Users, Whose, Restored, Trusted
<1> QED BY <1>1, <1>2, <1>3, <1>4, <1>5, <1>6, <1>7, <1>8, <1>9, <1>10

LEMMA PipeFacts ==
  ASSUME NEW S, NEW q \in Seq(S)
  PROVE  /\ \A x \in S : Append(q, x) \in Seq(S)
         /\ q # <<>> => Head(q) \in S /\ Tail(q) \in Seq(S)
         /\ \A n \in Nat : SubSeq(q, n + 1, Len(q)) \in Seq(S)
<1>1. \A x \in S : Append(q, x) \in Seq(S)
  OBVIOUS
<1>2. q # <<>> => Head(q) \in S /\ Tail(q) \in Seq(S)
  BY HeadTailProperties
<1>3. ASSUME NEW n \in Nat
      PROVE  SubSeq(q, n + 1, Len(q)) \in Seq(S)
  <2>1. n + 1 \in Int /\ Len(q) \in Int /\ \A i \in (n + 1)..Len(q) : q[i] \in S
    BY LenProperties
  <2> QED BY <2>1, SubSeqProperties
<1> QED BY <1>1, <1>2, <1>3

LEMMA Received ==
  ASSUME Types, NEW e \in Editors, NEW line, Receives(e, line)
  PROVE  from' \in [Editors -> Seq(Said)]
<1>1. from \in [Editors -> Seq(Said)] /\ from[e] \in Seq(Said)
  BY DEF Types
<1>2. Tail(from[e]) \in Seq(Said) /\ from' = [from EXCEPT ![e] = Tail(from[e])]
  BY <1>1, PipeFacts DEF Receives
<1> QED BY <1>1, <1>2

LEMMA SentOn ==
  ASSUME Types, NEW e \in Editors, NEW line \in Sent, Sends(e, line)
  PROVE  to' \in [Editors -> Seq(Sent)]
<1>1. to \in [Editors -> Seq(Sent)] /\ to[e] \in Seq(Sent)
  BY DEF Types
<1>2. Append(to[e], line) \in Seq(Sent) /\ to' = [to EXCEPT ![e] = Append(to[e], line)]
  BY <1>1, PipeFacts DEF Sends
<1> QED BY <1>1, <1>2

LEMMA Written ==
  ASSUME Types, NEW e \in Editors, NEW r \in Runs, NEW line \in Lines, Journalled(e, r, line)
  PROVE  journal' \in Seq(Lines) /\ run' \in [Editors -> Runs]
<1> DEFINE s == [r EXCEPT !.used = Append(@, line)]
<1>1. s \in Runs
  BY SMTT(40) DEF Runs
<1>2. run' = [run EXCEPT ![e] = s] /\ journal' = Append(journal, line)
  BY DEF Journalled, Became
<1> HIDE DEF s
<1>3. journal \in Seq(Lines) /\ run \in [Editors -> Runs]
  BY DEF Types
<1> QED BY <1>1, <1>2, <1>3, PipeFacts

Moves(e) == Begin(e) \/ Working(e) \/ Checking(e) \/ Misbehaves(e) \/ Crash(e)

LEMMA Sizes == MaxSeq \in Nat /\ Batch \in Nat /\ Texts \in Nat /\ Batch >= 2
  BY TesterSizes

LEMMA RunFields ==
  ASSUME NEW r \in Runs
  PROVE  /\ r.seq \in 0..MaxSeq /\ r.acked \in 0..MaxSeq /\ r.pending \in 0..Batch
         /\ r.file \in 0..Texts /\ r.used \in Seq(Lines) /\ r.kind \in Kinds
         /\ r.keep \in BOOLEAN /\ r.plan \in BOOLEAN /\ r.over \in BOOLEAN
         /\ r.locked \in BOOLEAN /\ r.success \in BOOLEAN /\ r.bad \in BOOLEAN
         /\ r.lied \in BOOLEAN
  BY DEF Runs

LEMMA RunUpdates ==
  ASSUME NEW r \in Runs, NEW n \in 0..MaxSeq, NEW p \in 0..Batch, NEW f \in 0..Texts
  PROVE  /\ [r EXCEPT !.seq = n] \in Runs /\ [r EXCEPT !.acked = n] \in Runs
         /\ [r EXCEPT !.seq = n, !.pending = p] \in Runs
         /\ [r EXCEPT !.acked = n, !.pending = p] \in Runs
         /\ [r EXCEPT !.file = f] \in Runs
  BY DEF Runs

LEMMA CheckerFields ==
  ASSUME NEW c \in Checkers
  PROVE  /\ c.count \in 0..MaxSeq /\ c.file \in 0..Texts /\ c.batch \in 0..Batch
         /\ c.next \in Nexts
  BY DEF Checkers

LEMMA CheckerUpdates ==
  ASSUME NEW c \in Checkers, NEW n \in 0..MaxSeq, NEW b \in 0..Batch, NEW f \in 0..Texts,
         NEW next \in Nexts
  PROVE  /\ [c EXCEPT !.next = next] \in Checkers /\ [c EXCEPT !.batch = b] \in Checkers
         /\ [c EXCEPT !.count = n, !.batch = b] \in Checkers
         /\ [c EXCEPT !.count = n, !.next = next] \in Checkers
         /\ [c EXCEPT !.file = f, !.next = next] \in Checkers
  BY DEF Checkers

LEMMA AllNexts ==
  {"start", "header", "lines", "ready", "between", "base", "in a text", "result", "clean",
   "complete", "silent"} \subseteq Nexts
  BY DEF Nexts

LEMMA NewRecords == NewRun \in Runs /\ NewChecker \in Checkers /\ <<>> \in Seq(Lines)
<1>1. 0 \in 0..MaxSeq /\ 0 \in 0..Batch /\ 0 \in 0..Texts
  BY Sizes
<1>2. "read" \in Kinds /\ <<>> \in Seq(Lines)
  BY DEF Kinds
<1>3. NewRun \in Runs
  BY <1>1, <1>2 DEF NewRun, Runs
<1>4. NewChecker \in Checkers
  BY <1>1, AllNexts DEF NewChecker, Checkers
<1> QED BY <1>2, <1>3, <1>4

LEMMA ObservedIs ==
  ASSUME NEW r \in Runs, r.used # <<>>, NEW k, NEW n, r.used[Len(r.used)] = <<k, n>>
  PROVE  Observed(r) = <<k, n, ~r.bad>>
<1>1. Observed(r) = <<k, n>> \o <<~r.bad>>
  BY DEF Observed
<1> DEFINE a == ~r.bad
           S == {k, n, a}
<1>2. <<k, n>> \in Seq(S) /\ <<a>> \in Seq(S) /\ <<k, n, a>> \in Seq(S)
  OBVIOUS
<1>3. <<k, n>> \o <<a>> \in Seq(S) /\ Len(<<k, n>> \o <<a>>) = 3
  BY <1>2, ConcatProperties
<1>4. \A i \in 1..3 : (<<k, n>> \o <<a>>)[i] = <<k, n, a>>[i]
  BY <1>2, ConcatProperties
<1>5. <<k, n>> \o <<a>> = <<k, n, a>>
  <2> HIDE DEF S, a
  <2> QED BY <1>2, <1>3, <1>4, SeqEqual
<1> QED BY <1>1, <1>5

LEMMA CheckerTypes ==
  ASSUME Types, NEW e \in Editors, Checking(e)
  PROVE  Types'
<1>0. checker[e] \in Checkers /\ to[e] \in Seq(Sent) /\ from[e] \in Seq(Said)
  BY DEF Types
<1>1. ASSUME NEW n \in Nat, NEW lines \in Seq(Said), NEW c \in Checkers,
             NEW status \in {"none", "runs", "exit 0", "exit 1"}, Says(e, n, lines, c, status)
      PROVE  Types'
  <2>1. SubSeq(to[e], n + 1, Len(to[e])) \in Seq(Sent) /\ from[e] \o lines \in Seq(Said)
    BY <1>0, PipeFacts, ConcatProperties
  <2> QED BY <1>1, <2>1 DEF Says, Types, Files
<1>2. \A line \in Said : <<line>> \in Seq(Said) /\ <<>> \in Seq(Said)
  OBVIOUS
<1>3. \A n \in Nat : Rejects(e, n) => Types'
  BY <1>0, <1>1, <1>2, LineFacts DEF Rejects
<1>4. ASSUME NEW n \in Nat, NEW lines \in Seq(Said), NEW c \in Checkers, Goes(e, n, lines, c)
      PROVE  Types'
  BY <1>1, <1>4 DEF Goes
<1> DEFINE c == checker[e]
           line == Head(to[e])
<1>c. /\ c.count \in 0..MaxSeq /\ c.file \in 0..Texts /\ c.batch \in 0..Batch /\ c \in Checkers
      /\ MaxSeq \in Nat /\ Batch \in Nat /\ Texts \in Nat
  BY <1>0, CheckerFields, Sizes
<1>d. /\ c.count \in Int /\ c.count + 1 \in Int /\ c.file \in Int /\ c.file - 1 \in Int
      /\ 0 \in 0..Batch
  BY <1>c
<1>e. \A next \in Nexts : [c EXCEPT !.next = next] \in Checkers
  BY <1>c, CheckerUpdates
<1>f. <<>> \in Seq(Said)
  OBVIOUS
<1>5. CASE Plans(e)
  <2>1. [c EXCEPT !.next = "header"] \in Checkers /\ [c EXCEPT !.next = "ready"] \in Checkers
    BY <1>e, AllNexts
  <2>2. \A kind \in Kinds, keep \in BOOLEAN : <<<<"PLAN", kind, keep>>>> \in Seq(Said)
    BY <1>2, LineFacts
  <2> QED BY <1>4, <1>5, <2>1, <2>2 DEF Plans
<1>6. CASE Checks(e)
  <2>1. line \in Sent
    BY <1>0, <1>6, PipeFacts DEF Checks
  <2>2. [c EXCEPT !.next = "lines"] \in Checkers /\ [c EXCEPT !.batch = 0] \in Checkers
    BY <1>c, <1>d, <1>e, AllNexts, CheckerUpdates
  <2>3. <<<<"READY">>>> \in Seq(Said)
    BY <1>2, LineFacts
  <2>4. <<<<"ACK", c.count>>>> \in Seq(Said) /\ <<<<"PASS", c.count>>>> \in Seq(Said)
    BY <1>2, <1>d, LineFacts
  <2>5. ASSUME line[1] = "S", line[2] = c.count, c.batch < Batch
        PROVE  [c EXCEPT !.count = @ + 1, !.batch = @ + 1] \in Checkers
    <3>1. line[2] \in 0..(MaxSeq - 1)
      BY <2>1, <2>5, LineFacts
    <3>2. c.count + 1 \in 0..MaxSeq /\ c.batch + 1 \in 0..Batch
      BY <1>c, <2>5, <3>1
    <3>3. c.next \in Nexts
      BY <1>c, CheckerFields
    <3> QED BY <1>c, <3>2, <3>3, CheckerUpdates
  <2>6. \/ Goes(e, 1, <<<<"READY">>>>, [c EXCEPT !.next = "lines"])
        \/ /\ line[1] = "S" /\ line[2] = c.count /\ c.batch < Batch
           /\ Goes(e, 1, <<>>, [c EXCEPT !.count = @ + 1, !.batch = @ + 1])
        \/ Goes(e, 1, <<<<"ACK", c.count>>>>, [c EXCEPT !.batch = 0])
        \/ Says(e, 2, <<<<"PASS", c.count>>>>, c, "exit 0")
        \/ Rejects(e, 1)
    BY <1>6 DEF Checks
  <2> QED BY <1>1, <1>3, <1>4, <1>c, <1>f, <2>2, <2>3, <2>4, <2>5, <2>6
<1>7. CASE Commands(e)
  <2>1. /\ [c EXCEPT !.next = "complete"] \in Checkers /\ [c EXCEPT !.next = "result"] \in Checkers
        /\ [c EXCEPT !.next = "clean"] \in Checkers
    BY <1>e, AllNexts
  <2>2. ASSUME c.file < Texts
        PROVE  [c EXCEPT !.file = @ + 1, !.next = "base"] \in Checkers
    <3>1. c.file + 1 \in 0..Texts
      BY <1>c, <2>2
    <3> QED BY <1>c, <3>1, AllNexts, CheckerUpdates
  <2>3. /\ <<<<"FILE", c.file>>>> \in Seq(Said) /\ <<<<"DONE", c.count>>>> \in Seq(Said)
        /\ <<<<"E", c.count>>>> \in Seq(Said) /\ <<<<"CLOSE", c.file - 1>>>> \in Seq(Said)
    BY <1>2, <1>d, LineFacts
  <2>4. \/ c.file < Texts /\ Goes(e, 0, <<<<"FILE", c.file>>>>, [c EXCEPT !.file = @ + 1, !.next = "base"])
        \/ Goes(e, 0, <<<<"DONE", c.count>>>>, [c EXCEPT !.next = "complete"])
        \/ Goes(e, 0, <<<<"E", c.count>>>>, [c EXCEPT !.next = "result"])
        \/ Goes(e, 0, <<<<"CLOSE", c.file - 1>>>>, [c EXCEPT !.next = "clean"])
    BY <1>7 DEF Commands
  <2> QED BY <1>4, <2>1, <2>2, <2>3, <2>4
<1>8. CASE Hears(e)
  <2>1. line \in Sent
    BY <1>0, <1>8, PipeFacts DEF Hears
  <2>2. /\ [c EXCEPT !.next = "between"] \in Checkers /\ [c EXCEPT !.next = "in a text"] \in Checkers
    BY <1>e, AllNexts
  <2>3. ASSUME line[1] = "R", line[2] = c.count
        PROVE  [c EXCEPT !.count = @ + 1, !.next = "in a text"] \in Checkers
    <3>1. line[2] \in 0..(MaxSeq - 1)
      BY <2>1, <2>3, LineFacts
    <3>2. c.count + 1 \in 0..MaxSeq
      BY <1>c, <2>3, <3>1
    <3> QED BY <1>c, <3>2, AllNexts, CheckerUpdates
  <2>4. <<<<"ACK", c.count + 1>>>> \in Seq(Said) /\ <<<<"PASS", c.count>>>> \in Seq(Said)
    BY <1>2, <1>d, LineFacts
  <2>5. \/ Goes(e, 1, <<>>, [c EXCEPT !.next = "between"])
        \/ Goes(e, 1, <<>>, [c EXCEPT !.next = "in a text"])
        \/ /\ line[1] = "R" /\ line[2] = c.count
           /\ Goes(e, 1, <<<<"ACK", c.count + 1>>>>, [c EXCEPT !.count = @ + 1, !.next = "in a text"])
        \/ Rejects(e, 1)
        \/ Says(e, 1, <<<<"PASS", c.count>>>>, c, "exit 0")
    BY <1>8 DEF Hears
  <2> QED BY <1>1, <1>3, <1>4, <1>c, <1>f, <2>2, <2>3, <2>4, <2>5
<1> QED BY <1>5, <1>6, <1>7, <1>8 DEF Checking

(***************************************************************************)
(* Every step keeps the types.                                             *)
(***************************************************************************)
LEMMA TypesStep ==
  ASSUME Types, NEW e \in Editors, Numbers(e), Moves(e)
  PROVE  Types'
<1> DEFINE r == run[e]
<1>0. /\ r \in Runs /\ user[e] \in Users /\ checker[e] \in Checkers
      /\ to[e] \in Seq(Sent) /\ from[e] \in Seq(Said) /\ pc[e] \in Places
  BY DEF Types
<1>c. NewChecker \in Checkers
  BY NewRecords
<1>d. /\ r.seq \in 0..MaxSeq /\ r.acked \in 0..MaxSeq /\ r.pending \in 0..Batch
      /\ r.file \in 0..Texts /\ 0 \in 0..Batch /\ 0 \in 0..Texts
  BY <1>0, RunFields, Sizes
<1>1. CASE Begin(e)
  BY <1>0, <1>1 DEF Begin, Types, Places, Fallible, Go, Process, Pipes, Files
<1>2. CASE Prepare(e)
  <2>1. \A plan, keep \in BOOLEAN :
          [r EXCEPT !.locked = TRUE, !.plan = plan, !.keep = keep] \in Runs
    BY <1>0 DEF Runs
  <2>2. <<>> \in Seq(Lines)
    OBVIOUS
  <2>3. run' \in [Editors -> Runs] /\ lock' \in BOOLEAN /\ journal' \in Seq(Lines)
        /\ failure' \in Seq(Lines)
    BY ZenonT(40), <1>2, <2>1, <2>2 DEF Prepare, Became, Types, Files
  <2>4. pc' \in [Editors -> Places]
    BY ZenonT(40), <1>2 DEF Prepare, Go, Types, Places, Fallible
  <2> QED BY <1>2, <2>3, <2>4 DEF Prepare, Types, Process, Pipes
<1>3. CASE StartChecker(e)
  <2>1. <<>> \in Seq(Sent) /\ <<>> \in Seq(Said)
    OBVIOUS
  <2> QED BY <1>0, <1>3, <2>1, <1>c
      DEF StartChecker, Types, Places, Fallible, Go, Process, Pipes, Files
<1>4. CASE ReadPlan(e)
  <2>1. \A kind \in Kinds, keep \in BOOLEAN :
          [r EXCEPT !.kind = kind, !.keep = keep /\ kind = "read"] \in Runs
    BY <1>0 DEF Runs
  <2>2. \A kind \in Kinds : Aside(user[e], kind) \in Users
    BY <1>0, UserFacts
  <2>3. from' \in [Editors -> Seq(Said)]
    BY <1>4, Received DEF ReadPlan
  <2>4. run' \in [Editors -> Runs]
    BY <1>4, <2>1 DEF ReadPlan, Became, Types
  <2>5. user' \in [Editors -> Users]
    BY <1>4, <2>2 DEF ReadPlan, Finds, Types
  <2>6. pc' \in [Editors -> Places]
    <3>1. Go(e, "header") \/ Go(e, "isolated")
      BY <1>4 DEF ReadPlan
    <3> QED BY <3>1 DEF Go, Types, Places, Fallible
  <2> QED BY <1>4, <2>3, <2>4, <2>5, <2>6 DEF ReadPlan, Types, Process, Files
<1>5. CASE NewBatch(e)
  <2>1. <<>> \in Seq(Lines) /\ [r EXCEPT !.used = <<>>] \in Runs
    BY <1>0, EmptySeq DEF Runs
  <2>2. <<"H">> \in Lines /\ <<"C", r.acked>> \in Lines
    BY <1>0, LineFacts DEF Runs
  <2>3. Heading(r) \in Seq(Lines)
    BY <2>2 DEF Heading
  <2>4. [r EXCEPT !.used = @ \o Heading(r)] \in Runs
    BY <1>0, <2>3, ConcatProperties DEF Runs
  <2>5. journal \o Heading(r) \in Seq(Lines)
    BY <2>3, ConcatProperties DEF Types
  <2>6. \/ journal' = <<>> /\ Became(e, [r EXCEPT !.used = <<>>])
        \/ journal' = journal \o Heading(r) /\ Became(e, [r EXCEPT !.used = @ \o Heading(r)])
    BY <1>5 DEF NewBatch, Truncate, WriteHeading
  <2>7. \E next \in Places : Go(e, next)
    BY <1>5 DEF NewBatch, Truncate, WriteHeading, AfterBatch, Places, Fallible
  <2>8. UNCHANGED <<user, to, from, child, checker, lock, failure>>
    BY <1>5 DEF NewBatch, Truncate, WriteHeading, Pipes, Process
  <2> QED BY <1>0, <2>1, <2>4, <2>5, <2>6, <2>7, <2>8 DEF Types, Became, Go
<1>6. CASE SendHeader(e)
  <2>1. to' \in [Editors -> Seq(Sent)]
    BY <1>6, SentOn, LineFacts DEF SendHeader
  <2> QED BY <1>0, <1>6, <2>1 DEF SendHeader, Types, Places, Fallible, Go, Process, Pipes, Files
<1>7. CASE Ready(e)
  <2>1. from' \in [Editors -> Seq(Said)]
    BY <1>7, Received DEF Ready
  <2> QED BY <1>0, <1>7, <2>1 DEF Ready, Types, Places, Fallible, Go, Process, Pipes, Files
<1>8. CASE Fixture(e)
  <2>1. InFixture(user[e]) \in Users
    BY <1>0, UserFacts
  <2> QED BY <1>0, <1>8, <2>1
      DEF Fixture, Finds, Types, Places, Fallible, Go, Process, Pipes, Files
<1>9. CASE Step(e)
  <2>1. \A good \in BOOLEAN : [r EXCEPT !.bad = @ \/ ~good] \in Runs
    BY <1>0 DEF Runs
  <2>2. <<"S", r.seq>> \in Lines
    BY <1>0, LineFacts DEF Runs
  <2>3. [r EXCEPT !.over = TRUE] \in Runs
    BY <1>0 DEF Runs
  <2>4. journal' \in Seq(Lines) /\ run' \in [Editors -> Runs]
    BY <1>9, <2>1, <2>2, <2>3, Written DEF Step, Became, Types
  <2> QED BY <1>0, <1>9, <2>1, <2>2, <2>3, <2>4
      DEF Step, Types, Places, Fallible, Go, Process, Pipes, Files
<1>10. CASE Send(e)
  <2>1. r.seq < MaxSeq /\ r.pending < Batch
    BY <1>10 DEF Numbers, Send
  <2>2. [r EXCEPT !.seq = @ + 1, !.pending = @ + 1] \in Runs
    <3>1. r.seq + 1 \in 0..MaxSeq /\ r.pending + 1 \in 0..Batch
      BY <1>d, <2>1, Sizes
    <3> QED BY <1>0, <1>d, <3>1, RunUpdates
  <2>3. Observed(r) \in Sent
    <3>1. r.used # <<>> /\ r.used[Len(r.used)] = <<"S", r.seq>>
      BY <1>10 DEF Numbers, Send
    <3>2. Observed(r) = <<"S", r.seq, ~r.bad>>
      BY <1>0, <3>1, ObservedIs
    <3>3. r.seq \in 0..(MaxSeq - 1)
      BY <1>d, <2>1, Sizes
    <3> QED BY <3>2, <3>3, LineFacts
  <2>4. to' \in [Editors -> Seq(Sent)]
    BY <1>10, <2>3, SentOn DEF Send
  <2> QED BY <1>0, <1>10, <2>1, <2>2, <2>3, <2>4
      DEF Send, Became, Types, Places, Fallible, Go, Process, Pipes, Files
<1>11. CASE AcknowledgeBatch(e)
  <2>1. <<"B", r.seq>> \in Lines /\ <<"B", r.seq>> \in Sent
    BY <1>0, LineFacts DEF Runs
  <2>2. journal' \in Seq(Lines) /\ run' \in [Editors -> Runs]
    BY <1>0, <1>11, <2>1, Written DEF AcknowledgeBatch, Types
  <2>3. to' \in [Editors -> Seq(Sent)]
    BY <1>11, <2>1, SentOn DEF AcknowledgeBatch
  <2> QED BY <1>0, <1>11, <2>1, <2>2, <2>3
      DEF AcknowledgeBatch, Types, Places, Fallible, Go, Process, Pipes, Files
<1>12. CASE Acknowledged(e)
  <2>1. [r EXCEPT !.acked = r.seq, !.pending = 0] \in Runs
    BY <1>0, <1>d, RunUpdates
  <2>2. from' \in [Editors -> Seq(Said)]
    BY <1>12, Received DEF Acknowledged
  <2> QED BY <1>0, <1>12, <2>1, <2>2
      DEF Acknowledged, AfterBatch, Became, Types, Places, Fallible, Go, Process, Pipes, Files
<1>13. CASE SendEnd(e)
  <2>1. <<"Z", r.seq>> \in Lines /\ <<"Z", r.seq>> \in Sent /\ Closed \in Sent
    BY <1>0, LineFacts DEF Runs
  <2>2. journal' \in Seq(Lines) /\ run' \in [Editors -> Runs]
    BY <1>0, <1>13, <2>1, Written DEF SendEnd, Types
  <2>3. to[e] \o <<<<"Z", r.seq>>, Closed>> \in Seq(Sent)
    BY <1>0, <2>1
  <2> QED BY <1>0, <1>13, <2>1, <2>2, <2>3
      DEF SendEnd, Types, Places, Fallible, Go, Process, Pipes, Files
<1>14. CASE SendReady(e)
  <2>1. to' \in [Editors -> Seq(Sent)]
    BY <1>14, SentOn, LineFacts DEF SendReady
  <2> QED BY <1>0, <1>14, <2>1 DEF SendReady, Types, Places, Fallible, Go, Process, Pipes, Files
<1>15. CASE File(e)
  <2>1. [r EXCEPT !.file = @ + 1] \in Runs
    <3>1. r.file + 1 \in 0..Texts
      BY <1>15, <1>d, Sizes DEF File
    <3> QED BY <1>0, <1>d, <3>1, RunUpdates
  <2>2. InFixture(user[e]) \in Users
    BY <1>0, UserFacts
  <2>3. from' \in [Editors -> Seq(Said)]
    BY <1>15, Received DEF File
  <2> QED BY <1>0, <1>15, <2>1, <2>2, <2>3
      DEF File, Became, Finds, Types, Places, Fallible, Go, Process, Pipes, Files
<1>16. CASE Base(e)
  <2>1. to' \in [Editors -> Seq(Sent)]
    BY <1>16, SentOn, LineFacts DEF Base
  <2> QED BY <1>0, <1>16, <2>1 DEF Base, Types, Places, Fallible, Go, Process, Pipes, Files
<1>17. CASE Command(e)
  <2>1. <<"E", r.seq>> \in Lines
    BY <1>0, LineFacts DEF Runs
  <2>2. journal' \in Seq(Lines) /\ run' \in [Editors -> Runs]
    BY <1>0, <1>17, <2>1, Written DEF Command
  <2>3. from' \in [Editors -> Seq(Said)]
    BY <1>17, Received DEF Command
  <2> QED BY <1>0, <1>17, <2>1, <2>2, <2>3
      DEF Command, Types, Places, Fallible, Go, Process, Pipes, Files
<1>18. CASE Obey(e)
  <2>1. \A good \in BOOLEAN : [r EXCEPT !.bad = @ \/ ~good] \in Runs
    BY <1>0 DEF Runs
  <2>2. <<"R", r.seq>> \in Lines
    BY <1>0, LineFacts DEF Runs
  <2>3. journal' \in Seq(Lines) /\ run' \in [Editors -> Runs]
    BY <1>18, <2>1, <2>2, Written DEF Obey
  <2> QED BY <1>0, <1>18, <2>1, <2>2, <2>3
      DEF Obey, Types, Places, Fallible, Go, Process, Pipes, Files
<1>19. CASE Result(e)
  <2>1. r.seq < MaxSeq
    BY <1>19 DEF Numbers, Result
  <2>2. [r EXCEPT !.seq = @ + 1] \in Runs
    <3>1. r.seq + 1 \in 0..MaxSeq
      BY <1>d, <2>1, Sizes
    <3> QED BY <1>0, <1>d, <3>1, RunUpdates
  <2>3. Observed(r) \in Sent
    <3>1. r.used # <<>> /\ r.used[Len(r.used)] = <<"R", r.seq>>
      BY <1>19 DEF Numbers, Result
    <3>2. Observed(r) = <<"R", r.seq, ~r.bad>>
      BY <1>0, <3>1, ObservedIs
    <3>3. r.seq \in 0..(MaxSeq - 1)
      BY <1>d, <2>1, Sizes
    <3> QED BY <3>2, <3>3, LineFacts
  <2>4. to' \in [Editors -> Seq(Sent)]
    BY <1>19, <2>3, SentOn DEF Result
  <2> QED BY <1>0, <1>19, <2>1, <2>2, <2>3, <2>4
      DEF Result, Became, Types, Places, Fallible, Go, Process, Pipes, Files
<1>20. CASE ResultAcknowledged(e)
  <2>1. [r EXCEPT !.acked = r.seq] \in Runs
    BY <1>0 DEF Runs
  <2>2. from' \in [Editors -> Seq(Said)]
    BY <1>20, Received DEF ResultAcknowledged
  <2> QED BY <1>0, <1>20, <2>1, <2>2
      DEF ResultAcknowledged, Became, Types, Places, Fallible, Go, Process, Pipes, Files
<1>21. CASE CloseFile(e)
  <2>1. AtOrigin(user[e]) \in Users
    BY <1>0, UserFacts
  <2>2. from' \in [Editors -> Seq(Said)]
    BY <1>21, Received DEF CloseFile
  <2> QED BY <1>0, <1>21, <2>1, <2>2
      DEF CloseFile, Finds, Types, Places, Fallible, Go, Process, Pipes, Files
<1>22. CASE Clean(e)
  <2>1. to' \in [Editors -> Seq(Sent)]
    BY <1>22, SentOn, LineFacts DEF Clean
  <2> QED BY <1>0, <1>22, <2>1 DEF Clean, Types, Places, Fallible, Go, Process, Pipes, Files
<1>23. CASE Done(e)
  <2>1. Restored(user[e]) \in Users
    BY <1>0, UserFacts
  <2>2. from' \in [Editors -> Seq(Said)]
    BY <1>23, Received DEF Done
  <2> QED BY <1>0, <1>23, <2>1, <2>2
      DEF Done, Finds, Types, Places, Fallible, Go, Process, Pipes, Files
<1>24. CASE Complete(e)
  <2>1. to' \in [Editors -> Seq(Sent)]
    BY <1>24, SentOn, LineFacts DEF Complete
  <2> QED BY <1>0, <1>24, <2>1 DEF Complete, Types, Places, Fallible, Go, Process, Pipes, Files
<1>25. CASE Pass(e)
  <2>1. [r EXCEPT !.success = TRUE] \in Runs
    BY <1>0 DEF Runs
  <2>2. from' \in [Editors -> Seq(Said)]
    BY <1>25, Received DEF Pass
  <2> QED BY <1>0, <1>25, <2>1, <2>2
      DEF Pass, Became, Types, Places, Fallible, Go, Process, Pipes, Files
<1>26. CASE GoesWrong(e)
  BY <1>0, <1>26 DEF GoesWrong, Types, Places, Fallible, Go, Process, Pipes, Files
<1>27. CASE WriteFails(e)
  <2>1. <<"S", r.seq>> \in Lines /\ <<"R", r.seq>> \in Lines
    BY <1>0, LineFacts DEF Runs
  <2>2. \A line \in Lines : Append(journal, line) \in Seq(Lines)
    BY PipeFacts DEF Types
  <2> QED BY ZenonT(40), <1>0, <1>27, <2>1, <2>2
      DEF WriteFails, AppendFails, Types, Places, Fallible, Go, Process, Pipes, Files
<1>28. CASE Fail(e)
  <2>1. \E u \in Users : Finds(e, u)
    <3>1. \A kills \in {user[e].kills, "user", "left aside"} :
            [Restored(user[e]) EXCEPT !.kills = kills] \in Users
      BY <1>0, UserFacts
    <3> QED BY <1>28, <3>1 DEF Fail
  <2>2. <<Closed>> \in Seq(Sent) /\ <<>> \in Seq(Said)
    BY LineFacts
  <2> QED BY <1>0, <1>28, <2>1, <2>2, <1>c
      DEF Fail, Finds, Terminated, Types, Places, Fallible, Go, Process, Pipes, Files
<1>29. CASE StopChecker(e)
  <2>1. Append(to[e], Closed) \in Seq(Sent) /\ <<>> \in Seq(Said)
    BY <1>0, LineFacts, PipeFacts
  <2> QED BY <1>0, <1>29, <2>1
      DEF StopChecker, Types, Places, Fallible, Go, Process, Pipes, Files
<1>30. CASE Reap(e)
  <2>1. \A b \in BOOLEAN : [r EXCEPT !.success = b] \in Runs
    BY <1>0 DEF Runs
  <2>2. (r.success /\ child[e] = "exit 0") \in BOOLEAN /\ <<>> \in Seq(Sent)
    BY <1>0 DEF Runs
  <2> QED BY <1>0, <1>30, <2>1, <2>2, <1>c
      DEF Reap, Became, Types, Places, Fallible, Go, Process, Pipes, Files
<1>31. CASE Finish(e)
  <2>1. [AtOrigin(user[e]) EXCEPT !.mark = "user"] \in Users
    BY <1>0, UserFacts
  <2>2. r.used \in Seq(Lines) /\ <<>> \in Seq(Lines)
    BY <1>0 DEF Runs
  <2> QED BY <1>0, <1>31, <2>1, <2>2
      DEF Finish, Finds, Types, Places, Fallible, Go, Process, Pipes, Files
<1>32. CASE Unlock(e)
  <2>1. NewRun \in Runs
    BY NewRecords
  <2> QED BY <1>0, <1>32, <2>1
      DEF Unlock, Became, Types, Places, Fallible, Go, Process, Pipes, Files
<1>33. CASE Plans(e)
  BY <1>33, CheckerTypes DEF Checking
<1>34. CASE Checks(e)
  BY <1>34, CheckerTypes DEF Checking
<1>35. CASE Commands(e)
  BY <1>35, CheckerTypes DEF Checking
<1>36. CASE Hears(e)
  BY <1>36, CheckerTypes DEF Checking
<1>37. CASE Misbehaves(e)
  <2>1. [r EXCEPT !.lied = TRUE] \in Runs
    BY <1>0 DEF Runs
  <2>2. [checker[e] EXCEPT !.next = "silent"] \in Checkers
    BY <1>0 DEF Checkers, Nexts
  <2>3. \A line \in Replies(r) : Append(from[e], line) \in Seq(Said)
    <3>1. r.acked \in Int /\ r.seq \in Int
      BY <1>d
    <3>2. \A n \in Int : <<"ACK", n>> \in Said /\ <<"PASS", n>> \in Said
      BY LineFacts
    <3>3. <<"READY">> \in Said /\ <<"FAIL">> \in Said
      BY LineFacts
    <3>4. ASSUME NEW line \in Replies(r)
          PROVE  line \in Said
      <4>1. \/ line \in {<<"READY">>, <<"FAIL">>}
            \/ \E k \in {"ACK", "PASS"}, n \in {r.acked, r.seq} : line = <<k, n>>
        BY DEF Replies
      <4> QED BY <3>1, <3>2, <3>3, <4>1
    <3> QED BY <1>0, <3>4, PipeFacts
  <2> QED BY <1>0, <1>37, <2>1, <2>2, <2>3
      DEF Misbehaves, Became, Types, Places, Fallible, Go, Process, Pipes, Files
<1>38. CASE Crash(e)
  <2>1. [NewRun EXCEPT !.seq = r.seq, !.acked = r.acked, !.locked = r.locked] \in Runs
    <3>1. r.locked \in BOOLEAN
      BY <1>0, RunFields
    <3>2. \A s \in Runs : \A n, m \in 0..MaxSeq, b \in BOOLEAN :
            [s EXCEPT !.seq = n, !.acked = m, !.locked = b] \in Runs
      BY DEF Runs
    <3> QED BY <1>d, <3>1, <3>2, NewRecords
  <2>2. Mine \in Users /\ <<>> \in Seq(Sent) /\ <<>> \in Seq(Said)
    BY DEF Mine, Users, Whose
  <2> QED BY <1>0, <1>38, <2>1, <2>2, <1>c
      DEF Crash, Became, Finds, Types, Places, Fallible, Go, Process, Pipes, Files
<1> QED
  BY <1>1, <1>2, <1>3, <1>4, <1>5, <1>6, <1>7, <1>8, <1>9, <1>10, <1>11, <1>12, <1>13, <1>14, <1>15, <1>16,
     <1>17, <1>18, <1>19, <1>20, <1>21, <1>22, <1>23, <1>24, <1>25, <1>26, <1>27, <1>28, <1>29, <1>30, <1>31,
     <1>32, <1>33, <1>34, <1>35, <1>36, <1>37, <1>38
  DEF Moves, Working, Checking

(***************************************************************************)
(* Every step keeps the numbers of the run that makes it.                  *)
(***************************************************************************)
LEMMA CommandRoom ==
  ASSUME NEW n \in Nat, NEW f \in 0..Texts, n < f * Cycles
  PROVE  n < MaxSeq
<1>1. f \in Nat /\ Texts \in Nat /\ Cycles \in Nat /\ MaxSeq \in Nat /\ f <= Texts /\ Texts * Cycles <= MaxSeq
  BY TesterSizes
<1>2. f * Cycles <= Texts * Cycles
  BY <1>1
<1>3. f * Cycles \in Nat /\ Texts * Cycles \in Nat
  BY <1>1
<1> QED BY <1>1, <1>2, <1>3

LEMMA JournalledLast ==
  ASSUME run \in [Editors -> Runs], NEW e \in Editors, NEW r \in Runs, NEW line, Journalled(e, r, line)
  PROVE  /\ run'[e].used # <<>> /\ run'[e].used[Len(run'[e].used)] = line
         /\ run'[e].used = Append(r.used, line)
         /\ run'[e].seq = r.seq /\ run'[e].acked = r.acked /\ run'[e].pending = r.pending
         /\ run'[e].bad = r.bad /\ run'[e].lied = r.lied /\ run'[e].locked = r.locked
         /\ run'[e].success = r.success /\ run'[e].keep = r.keep /\ run'[e].plan = r.plan
         /\ run'[e].over = r.over /\ run'[e].kind = r.kind /\ run'[e].file = r.file
<1>1. run'[e] = [r EXCEPT !.used = Append(r.used, line)]
  BY DEF Journalled, Became
<1>2. r.used \in Seq(Lines)
  BY RunFields
<1>3. Append(r.used, line) # <<>> /\ Append(r.used, line)[Len(Append(r.used, line))] = line
  BY <1>2, AppendProperties
<1> QED BY <1>1, <1>3 DEF Runs

LEMMA BadIn ==
  ASSUME NEW r \in Runs, NEW good \in BOOLEAN
  PROVE  [r EXCEPT !.bad = @ \/ ~good] \in Runs
  BY DEF Runs

LEMMA NumbersStep ==
  ASSUME Types, NEW e \in Editors, Numbers(e), Moves(e)
  PROVE  Numbers(e)'
<1> DEFINE r == run[e]
<1>0. /\ pc \in [Editors -> Places] /\ run \in [Editors -> Runs] /\ r \in Runs
      /\ r.seq \in 0..MaxSeq /\ r.acked \in 0..MaxSeq /\ r.pending \in 0..Batch
      /\ MaxSeq \in Nat /\ Batch \in Nat
  BY RunFields, Sizes DEF Types
<1>1. CASE Begin(e)
  BY <1>0, <1>1 DEF Begin, Numbers, Unstarted, InBatch, AllAcknowledged, Go, Process, Pipes, Files
<1>2. CASE Prepare(e)
  <2>1. pc[e] = "prepare" /\ r = NewRun
    BY <1>2 DEF Prepare, Numbers
  <2>2. CASE lock
    <3>1. pc'[e] = "fail" /\ run' = run
      BY <1>0, <1>2, <2>2 DEF Prepare, Go
    <3> QED BY <1>0, <2>1, <3>1 DEF Numbers, Unstarted, InBatch, AllAcknowledged
  <2>3. CASE ~lock
    <3>1. pc'[e] = "spawn"
      BY <1>0, <1>2, <2>3 DEF Prepare, Go
    <3>2. run'[e].seq = r.seq /\ run'[e].acked = r.acked /\ run'[e].pending = r.pending
      <4>1. \E plan, keep \in BOOLEAN :
              run' = [run EXCEPT ![e] = [r EXCEPT !.locked = TRUE, !.plan = plan, !.keep = keep]]
        BY <1>2, <2>3 DEF Prepare, Became
      <4> QED BY <1>0, <4>1 DEF Runs
    <3>3. r.seq = 0 /\ r.acked = 0 /\ r.pending = 0
      BY <2>1 DEF NewRun
    <3> QED BY <1>0, <3>1, <3>2, <3>3 DEF Numbers, Unstarted, InBatch, AllAcknowledged
  <2> QED BY <2>2, <2>3
<1>3. CASE StartChecker(e)
  BY <1>0, <1>3 DEF StartChecker, Numbers, Unstarted, InBatch, AllAcknowledged, Go, Process, Pipes, Files
<1>4. CASE ReadPlan(e)
  <2>1. pc[e] = "plan" /\ pc'[e] \in {"header", "isolated"}
    BY <1>0, <1>4 DEF ReadPlan, Go
  <2>2. run'[e].seq = r.seq /\ run'[e].acked = r.acked /\ run'[e].pending = r.pending
    BY <1>0, <1>4 DEF ReadPlan, Go, Became, Runs
  <2> QED BY <1>0, <2>1, <2>2 DEF Numbers, Unstarted, InBatch, AllAcknowledged
<1>5. CASE NewBatch(e)
  <2>1. run'[e].seq = r.seq /\ run'[e].acked = r.acked /\ run'[e].pending = r.pending
    BY ZenonT(40), <1>0, <1>5 DEF NewBatch, Truncate, WriteHeading, Became, Runs
  <2>2. \/ pc[e] = "header" /\ pc'[e] = "heading"
        \/ pc[e] = "heading" /\ pc'[e] = "send header"
        \/ pc[e] = "renew" /\ pc'[e] = "renewing"
        \/ pc[e] = "renewing" /\ pc'[e] \in {"step", "end"}
        \/ pc[e] = "isolated" /\ pc'[e] = "heading of edits"
        \/ pc[e] = "heading of edits" /\ pc'[e] = "send READY"
        \/ pc[e] = "renew edits" /\ pc'[e] = "heading of next"
        \/ pc[e] = "heading of next" /\ pc'[e] = "command"
    BY <1>0, <1>5 DEF NewBatch, Truncate, WriteHeading, AfterBatch, Go
  <2>3. CASE pc[e] \in Unstarted
    <3>1. /\ pc'[e] \in Unstarted \cup {"command"} /\ pc'[e] \notin InBatch
          /\ pc'[e] \notin {"idle", "prepare", "send", "obey", "result", "step", "batch", "ack", "renew",
                          "renewing", "end"}
      BY <2>2, <2>3 DEF Unstarted, InBatch
    <3>2. r.seq = 0 /\ r.pending = 0 /\ r.acked <= r.seq
      BY <2>3 DEF Numbers
    <3>3. run'[e].acked = run'[e].seq /\ run'[e].seq = 0 /\ run'[e].pending = 0
      BY <1>0, <2>1, <3>2
    <3> QED BY <3>1, <3>3 DEF Numbers
  <2>4. CASE pc[e] \in {"renew", "renewing"}
    <3>1. /\ pc'[e] \in {"renewing", "step", "end"} /\ pc'[e] \notin Unstarted
          /\ pc'[e] \notin {"idle", "prepare", "send", "obey", "result", "batch", "ack"}
      BY <2>2, <2>4 DEF Unstarted
    <3>2. r.acked = r.seq /\ r.pending = 0
      BY <2>4 DEF Numbers, AllAcknowledged
    <3>3. run'[e].acked = run'[e].seq /\ run'[e].pending = 0 /\ run'[e].acked + 0 = run'[e].seq
          /\ run'[e].acked <= run'[e].seq /\ 0 < Batch
      BY <1>0, <2>1, <3>2, Sizes
    <3> QED BY <3>1, <3>3 DEF Numbers
  <2>5. CASE pc[e] \in {"renew edits", "heading of next"}
    <3>1. /\ pc'[e] \in {"heading of next", "command"} /\ pc'[e] \notin Unstarted /\ pc'[e] \notin InBatch
          /\ pc'[e] \notin {"idle", "prepare", "send", "obey", "result", "step", "batch", "ack", "renew",
                          "renewing", "end"}
      BY <2>2, <2>5 DEF Unstarted, InBatch
    <3>2. pc[e] \in AllAcknowledged
      BY <2>5 DEF AllAcknowledged
    <3>3. r.acked = r.seq /\ r.seq <= r.seq
      BY <1>0, <3>2 DEF Numbers
    <3> QED BY <2>1, <3>1, <3>3 DEF Numbers
  <2> QED BY <2>2, <2>3, <2>4, <2>5 DEF Unstarted
<1>6. CASE SendHeader(e)
  BY <1>0, <1>6 DEF SendHeader, Numbers, Unstarted, InBatch, AllAcknowledged, Go, Process, Pipes, Files
<1>7. CASE Ready(e)
  BY <1>0, <1>7 DEF Ready, Numbers, Unstarted, InBatch, AllAcknowledged, Go, Process, Pipes, Files
<1>8. CASE Fixture(e)
  <2>1. pc[e] = "fixture" /\ pc'[e] = "step"
    BY <1>0, <1>8 DEF Fixture, Go
  <2>2. run' = run
    BY <1>0, <1>8 DEF Fixture, Go, Became, Runs
  <2>3. 0 < Batch
    BY Sizes
  <2> QED BY <1>0, <2>1, <2>2, <2>3 DEF Numbers, Unstarted, InBatch, AllAcknowledged
<1>9. CASE Step(e)
  <2>1. pc[e] = "step" /\ run'[e].seq = r.seq /\ run'[e].acked = r.acked /\ run'[e].pending = r.pending
    <3>1. \A good \in BOOLEAN : [r EXCEPT !.bad = @ \/ ~good] \in Runs
      BY <1>0, BadIn
    <3>2. \A good \in BOOLEAN : /\ [r EXCEPT !.bad = @ \/ ~good].seq = r.seq
                              /\ [r EXCEPT !.bad = @ \/ ~good].acked = r.acked
                              /\ [r EXCEPT !.bad = @ \/ ~good].pending = r.pending
      BY <1>0 DEF Runs
    <3>3. CASE \E good \in BOOLEAN : Journalled(e, [r EXCEPT !.bad = @ \/ ~good], <<"S", r.seq>>)
      <4>1. PICK good \in BOOLEAN : Journalled(e, [r EXCEPT !.bad = @ \/ ~good], <<"S", r.seq>>)
        BY <3>3
      <4> DEFINE s == [r EXCEPT !.bad = @ \/ ~good]
      <4>2. s \in Runs /\ s.seq = r.seq /\ s.acked = r.acked /\ s.pending = r.pending
        BY <3>1, <3>2
      <4>3. Journalled(e, s, <<"S", r.seq>>)
        BY <4>1
      <4> HIDE DEF s
      <4>4. run'[e].seq = s.seq /\ run'[e].acked = s.acked /\ run'[e].pending = s.pending
        BY <1>0, <4>2, <4>3, JournalledLast
      <4> QED BY <1>9, <4>2, <4>4 DEF Step
    <3>4. CASE Became(e, [r EXCEPT !.over = TRUE])
      BY <1>0, <1>9, <3>4 DEF Step, Became, Runs
    <3> QED BY <1>9, <3>3, <3>4 DEF Step
  <2>2. \/ pc'[e] = "send" /\ r.seq < MaxSeq /\ \E good \in BOOLEAN :
              Journalled(e, [r EXCEPT !.bad = @ \/ ~good], <<"S", r.seq>>)
        \/ pc'[e] = "end" /\ r.pending = 0
        \/ pc'[e] = "batch" /\ r.pending # 0
    BY <1>0, <1>9 DEF Step, Go
  <2>3. \A good \in BOOLEAN : Journalled(e, [r EXCEPT !.bad = @ \/ ~good], <<"S", r.seq>>)
          => run'[e].used # <<>> /\ run'[e].used[Len(run'[e].used)] = <<"S", r.seq>>
    BY <1>0, JournalledLast, BadIn
  <2>4. r.acked + r.pending = r.seq /\ r.acked <= r.seq /\ r.pending < Batch
    BY <2>1 DEF Numbers, InBatch
  <2>5. (r.pending = 0 => r.acked = r.seq) /\ (r.pending # 0 => r.pending > 0)
    BY <1>0, <2>4
  <2>6. pc'[e] \notin Unstarted /\ pc'[e] \notin {"idle", "prepare", "ack", "obey", "result", "step", "renew"}
    BY <2>2 DEF Unstarted
  <2>7. pc'[e] \in AllAcknowledged => pc'[e] = "end"
    BY <2>2 DEF AllAcknowledged
  <2> QED BY <2>1, <2>2, <2>3, <2>4, <2>5, <2>6, <2>7 DEF Numbers
<1>10. CASE Send(e)
  BY <1>0, <1>10 DEF Send, Numbers, Unstarted, InBatch, AllAcknowledged, Go, Process, Pipes, Files, Became, Runs
<1>11. CASE AcknowledgeBatch(e)
  <2>1. pc[e] = "batch" /\ pc'[e] = "ack"
    BY <1>0, <1>11 DEF AcknowledgeBatch, Go, Journalled
  <2>2. run'[e].seq = r.seq /\ run'[e].acked = r.acked /\ run'[e].pending = r.pending
    BY <1>0, <1>11 DEF AcknowledgeBatch, Go, Became, Runs, Journalled
  <2> QED BY <1>0, <2>1, <2>2 DEF Numbers, Unstarted, InBatch, AllAcknowledged
<1>12. CASE Acknowledged(e)
  <2>1. pc[e] = "ack" /\ pc'[e] \in {"step", "end", "renew"}
    BY <1>0, <1>12 DEF Acknowledged, Go, AfterBatch
  <2>2. run'[e].seq = r.seq /\ run'[e].acked = r.seq /\ run'[e].pending = 0
    BY <1>0, <1>12 DEF Acknowledged, Go, Became, Runs, AfterBatch
  <2>3. 0 < Batch
    BY Sizes
  <2>4. pc'[e] \notin Unstarted /\ pc'[e] \notin {"idle", "prepare", "batch", "ack", "send", "obey", "result"}
    BY <2>1 DEF Unstarted
  <2> QED BY <1>0, <2>1, <2>2, <2>3, <2>4 DEF Numbers
<1>13. CASE SendEnd(e)
  <2>1. pc[e] = "end" /\ pc'[e] = "pass"
    BY <1>0, <1>13 DEF SendEnd, Go, Journalled
  <2>2. run'[e].seq = r.seq /\ run'[e].acked = r.acked /\ run'[e].pending = r.pending
    BY <1>0, <1>13 DEF SendEnd, Go, Became, Runs, Journalled
  <2>3. r.acked = r.seq /\ r.seq <= r.seq
    BY <1>0, <2>1 DEF Numbers, AllAcknowledged
  <2>4. pc'[e] \notin Unstarted /\ pc'[e] \notin InBatch
    BY <2>1 DEF Unstarted, InBatch
  <2> QED BY <2>1, <2>2, <2>3, <2>4 DEF Numbers
<1>14. CASE SendReady(e)
  <2>1. pc[e] = "send READY" /\ pc'[e] = "command"
    BY <1>0, <1>14 DEF SendReady, Go
  <2>2. run' = run
    BY <1>14 DEF SendReady
  <2>3. r.seq = 0 /\ r.acked <= r.seq
    BY <2>1 DEF Numbers, Unstarted
  <2>4. r.acked = r.seq
    BY <1>0, <2>3
  <2>5. pc'[e] \notin Unstarted /\ pc'[e] \notin InBatch
    BY <2>1 DEF Unstarted, InBatch
  <2> QED BY <2>1, <2>2, <2>3, <2>4, <2>5 DEF Numbers
<1>15. CASE File(e)
  BY <1>0, <1>15 DEF File, Numbers, Unstarted, InBatch, AllAcknowledged, Go, Process, Pipes, Files, Became, Runs
<1>16. CASE Base(e)
  BY <1>0, <1>16 DEF Base, Numbers, Unstarted, InBatch, AllAcknowledged, Go, Process, Pipes, Files
<1>17. CASE Command(e)
  <2>1. pc[e] = "command" /\ pc'[e] = "obey"
    BY <1>0, <1>17 DEF Command, Go, Journalled
  <2>2. run'[e].seq = r.seq /\ run'[e].acked = r.acked /\ run'[e].pending = r.pending
    BY <1>0, <1>17 DEF Command, Go, Became, Runs, Journalled
  <2>3. r.seq < MaxSeq
    <3>1. r.file \in 0..Texts /\ r.seq \in Nat /\ r.seq < r.file * Cycles
      BY <1>0, <1>17, RunFields DEF Command
    <3> QED BY <3>1, CommandRoom
  <2>4. pc[e] \in AllAcknowledged /\ pc'[e] \notin Unstarted /\ pc'[e] \notin InBatch
    BY <2>1 DEF Unstarted, InBatch, AllAcknowledged
  <2>5. r.acked = r.seq /\ r.seq <= r.seq
    BY <1>0, <2>4 DEF Numbers
  <2> QED BY <2>1, <2>2, <2>3, <2>4, <2>5 DEF Numbers
<1>18. CASE Obey(e)
  <2>1. pc[e] = "obey" /\ pc'[e] = "result"
    BY <1>0, <1>18 DEF Obey, Go
  <2>2. run'[e].seq = r.seq /\ run'[e].acked = r.acked /\ run'[e].pending = r.pending
    BY <1>0, <1>18 DEF Obey, Journalled, Became, Runs
  <2>3. run'[e].used # <<>> /\ run'[e].used[Len(run'[e].used)] = <<"R", r.seq>>
    BY <1>0, <1>18, JournalledLast, BadIn DEF Obey
  <2> QED BY <1>0, <2>1, <2>2, <2>3 DEF Numbers, Unstarted, InBatch, AllAcknowledged
<1>19. CASE Result(e)
  <2>1. pc[e] = "result" /\ pc'[e] = "ack of result"
    BY <1>0, <1>19 DEF Result, Go
  <2>2. run'[e].seq = r.seq + 1 /\ run'[e].acked = r.acked
    BY <1>0, <1>19 DEF Result, Go, Became, Runs
  <2>3. r.acked = r.seq /\ r.acked <= r.seq + 1
    <3>1. pc[e] \in AllAcknowledged
      BY <2>1 DEF AllAcknowledged
    <3>2. r.acked = r.seq
      BY <3>1 DEF Numbers
    <3> QED BY <1>0, <3>2
  <2>4. pc'[e] \notin Unstarted /\ pc'[e] \notin InBatch /\ pc'[e] \notin AllAcknowledged
    BY <2>1 DEF Unstarted, InBatch, AllAcknowledged
  <2> QED BY <2>1, <2>2, <2>3, <2>4 DEF Numbers, InBatch
<1>20. CASE ResultAcknowledged(e)
  <2>1. pc[e] = "ack of result" /\ pc'[e] = "renew edits"
    BY <1>0, <1>20 DEF ResultAcknowledged, Go
  <2>2. run'[e].seq = r.seq /\ run'[e].acked = r.seq
    BY <1>0, <1>20 DEF ResultAcknowledged, Go, Became, Runs
  <2>3. r.seq <= r.seq
    BY <1>0
  <2>4. pc'[e] \notin Unstarted /\ pc'[e] \notin InBatch
    BY <2>1 DEF Unstarted, InBatch, AllAcknowledged
  <2> QED BY <2>1, <2>2, <2>3, <2>4 DEF Numbers, InBatch
<1>21. CASE CloseFile(e)
  BY <1>0, <1>21 DEF CloseFile, Numbers, Unstarted, InBatch, AllAcknowledged, Go, Process, Pipes, Files
<1>22. CASE Clean(e)
  BY <1>0, <1>22 DEF Clean, Numbers, Unstarted, InBatch, AllAcknowledged, Go, Process, Pipes, Files
<1>23. CASE Done(e)
  BY <1>0, <1>23 DEF Done, Numbers, Unstarted, InBatch, AllAcknowledged, Go, Process, Pipes, Files
<1>24. CASE Complete(e)
  BY <1>0, <1>24 DEF Complete, Numbers, Unstarted, InBatch, AllAcknowledged, Go, Process, Pipes, Files
<1>25. CASE Pass(e)
  BY <1>0, <1>25 DEF Pass, Numbers, Unstarted, InBatch, AllAcknowledged, Go, Process, Pipes, Files, Became, Runs
<1>26. CASE GoesWrong(e)
  BY <1>0, <1>26 DEF GoesWrong, Fallible, Numbers, Unstarted, InBatch, AllAcknowledged, Go, Process, Pipes, Files
<1>27. CASE WriteFails(e)
  BY <1>0, <1>27 DEF WriteFails, AppendFails, Numbers, Unstarted, InBatch, AllAcknowledged, Go, Process, Pipes, Files
<1>28. CASE Fail(e)
  BY <1>0, <1>28 DEF Fail, Numbers, Unstarted, InBatch, AllAcknowledged, Go, Process, Pipes, Files
<1>29. CASE StopChecker(e)
  BY <1>0, <1>29 DEF StopChecker, Numbers, Unstarted, InBatch, AllAcknowledged, Go, Process, Pipes, Files
<1>30. CASE Reap(e)
  BY <1>0, <1>30 DEF Reap, Numbers, Unstarted, InBatch, AllAcknowledged, Go, Process, Pipes, Files, Became, Runs
<1>31. CASE Finish(e)
  BY <1>0, <1>31 DEF Finish, Numbers, Unstarted, InBatch, AllAcknowledged, Go, Process, Pipes, Files
<1>32. CASE Unlock(e)
  <2>1. pc[e] = "unlock" /\ pc'[e] = "idle"
    BY <1>0, <1>32 DEF Unlock, Go
  <2>2. run'[e] = NewRun /\ NewRun.seq = 0 /\ NewRun.acked = 0
    BY <1>0, <1>32 DEF Unlock, Became, NewRun
  <2> QED BY <1>0, <2>1, <2>2 DEF Numbers, Unstarted, InBatch, AllAcknowledged
<1>33. CASE Plans(e)
  BY <1>0, <1>33 DEF Plans, Goes, Says, Numbers, Unstarted, InBatch, AllAcknowledged, Go, Process, Pipes, Files
<1>34. CASE Checks(e)
  BY ZenonT(40), <1>0, <1>34 DEF Checks, Goes, Says, Rejects, Numbers, Unstarted, InBatch, AllAcknowledged, Go, Process, Pipes, Files
<1>35. CASE Commands(e)
  BY ZenonT(40), <1>0, <1>35 DEF Commands, Goes, Says, Numbers, Unstarted, InBatch, AllAcknowledged, Go, Process, Pipes, Files
<1>36. CASE Hears(e)
  BY <1>0, <1>36 DEF Hears, Goes, Says, Rejects, Numbers, Unstarted, InBatch, AllAcknowledged, Go, Process, Pipes, Files
<1>37. CASE Misbehaves(e)
  BY <1>0, <1>37 DEF Misbehaves, Numbers, Unstarted, InBatch, AllAcknowledged, Go, Process, Pipes, Files, Became, Runs
<1>38. CASE Crash(e)
  <2>1. pc'[e] = "dead"
    BY <1>0, <1>38 DEF Crash, Go, NewRun
  <2>2. run'[e].seq = r.seq /\ run'[e].acked = r.acked
    BY <1>0, <1>38 DEF Crash, Go, Became, Runs, NewRun
  <2> QED BY <1>0, <2>1, <2>2 DEF Numbers, Unstarted, InBatch, AllAcknowledged
<1> QED
  BY <1>1, <1>2, <1>3, <1>4, <1>5, <1>6, <1>7, <1>8, <1>9, <1>10, <1>11, <1>12, <1>13, <1>14, <1>15, <1>16,
     <1>17, <1>18, <1>19, <1>20, <1>21, <1>22, <1>23, <1>24, <1>25, <1>26, <1>27, <1>28, <1>29, <1>30, <1>31,
     <1>32, <1>33, <1>34, <1>35, <1>36, <1>37, <1>38
  DEF Moves, Working, Checking

(***************************************************************************)
(* A step is of one editor, and what is in the directory changes hands in  *)
(* prepare_output alone: nobody disturbs the journal of its owner.         *)
(***************************************************************************)
LEMMA Others ==
  ASSUME Types, NEW e \in Editors, NEW f \in Editors, f # e, Moves(e)
  PROVE  /\ pc'[f] = pc[f] /\ run'[f] = run[f] /\ user'[f] = user[f] /\ to'[f] = to[f]
         /\ from'[f] = from[f] /\ child'[f] = child[f] /\ checker'[f] = checker[f]
<1>0. /\ DOMAIN pc = Editors /\ DOMAIN run = Editors /\ DOMAIN user = Editors /\ DOMAIN to = Editors
      /\ DOMAIN from = Editors /\ DOMAIN child = Editors /\ DOMAIN checker = Editors
  BY DEF Types
<1>1. CASE Begin(e)
  BY <1>0, <1>1 DEF Begin, Go, Became, Finds, Process, Pipes, Files
<1>2. CASE Prepare(e)
  BY <1>0, <1>2 DEF Prepare, Go, Became, Finds, Process, Pipes, Files
<1>3. CASE StartChecker(e)
  BY <1>0, <1>3 DEF StartChecker, Go, Became, Finds, Process, Pipes, Files
<1>4. CASE ReadPlan(e)
  BY <1>0, <1>4 DEF ReadPlan, Receives, Go, Became, Finds, Process, Pipes, Files
<1>5. CASE NewBatch(e)
  BY <1>0, <1>5 DEF NewBatch, Truncate, WriteHeading, Go, Became, Finds, Process, Pipes, Files
<1>6. CASE SendHeader(e)
  BY <1>0, <1>6 DEF SendHeader, Sends, Go, Became, Finds, Process, Pipes, Files
<1>7. CASE Ready(e)
  BY <1>0, <1>7 DEF Ready, Receives, Go, Became, Finds, Process, Pipes, Files
<1>8. CASE Fixture(e)
  BY <1>0, <1>8 DEF Fixture, Go, Became, Finds, Process, Pipes, Files
<1>9. CASE Step(e)
  BY <1>0, <1>9 DEF Step, Journalled, Go, Became, Finds, Process, Pipes, Files
<1>10. CASE Send(e)
  BY <1>0, <1>10 DEF Send, Sends, Go, Became, Finds, Process, Pipes, Files
<1>11. CASE AcknowledgeBatch(e)
  BY <1>0, <1>11 DEF AcknowledgeBatch, Journalled, Sends, Go, Became, Finds, Process, Pipes, Files
<1>12. CASE Acknowledged(e)
  BY <1>0, <1>12 DEF Acknowledged, Receives, Go, Became, Finds, Process, Pipes, Files
<1>13. CASE SendEnd(e)
  BY <1>0, <1>13 DEF SendEnd, Journalled, Go, Became, Finds, Process, Pipes, Files
<1>14. CASE SendReady(e)
  BY <1>0, <1>14 DEF SendReady, Sends, Go, Became, Finds, Process, Pipes, Files
<1>15. CASE File(e)
  BY <1>0, <1>15 DEF File, Receives, Go, Became, Finds, Process, Pipes, Files
<1>16. CASE Base(e)
  BY <1>0, <1>16 DEF Base, Sends, Go, Became, Finds, Process, Pipes, Files
<1>17. CASE Command(e)
  BY <1>0, <1>17 DEF Command, Journalled, Receives, Go, Became, Finds, Process, Pipes, Files
<1>18. CASE Obey(e)
  BY <1>0, <1>18 DEF Obey, Journalled, Go, Became, Finds, Process, Pipes, Files
<1>19. CASE Result(e)
  BY <1>0, <1>19 DEF Result, Sends, Go, Became, Finds, Process, Pipes, Files
<1>20. CASE ResultAcknowledged(e)
  BY <1>0, <1>20 DEF ResultAcknowledged, Receives, Go, Became, Finds, Process, Pipes, Files
<1>21. CASE CloseFile(e)
  BY <1>0, <1>21 DEF CloseFile, Receives, Go, Became, Finds, Process, Pipes, Files
<1>22. CASE Clean(e)
  BY <1>0, <1>22 DEF Clean, Sends, Go, Became, Finds, Process, Pipes, Files
<1>23. CASE Done(e)
  BY <1>0, <1>23 DEF Done, Receives, Go, Became, Finds, Process, Pipes, Files
<1>24. CASE Complete(e)
  BY <1>0, <1>24 DEF Complete, Sends, Go, Became, Finds, Process, Pipes, Files
<1>25. CASE Pass(e)
  BY <1>0, <1>25 DEF Pass, Receives, Go, Became, Finds, Process, Pipes, Files
<1>26. CASE GoesWrong(e)
  BY <1>0, <1>26 DEF GoesWrong, Go, Became, Finds, Process, Pipes, Files
<1>27. CASE WriteFails(e)
  BY <1>0, <1>27 DEF WriteFails, AppendFails, Go, Became, Finds, Process, Pipes, Files
<1>28. CASE Fail(e)
  BY <1>0, <1>28 DEF Fail, Terminated, Go, Became, Finds, Process, Pipes, Files
<1>29. CASE StopChecker(e)
  BY <1>0, <1>29 DEF StopChecker, Go, Became, Finds, Process, Pipes, Files
<1>30. CASE Reap(e)
  BY <1>0, <1>30 DEF Reap, Go, Became, Finds, Process, Pipes, Files
<1>31. CASE Finish(e)
  BY <1>0, <1>31 DEF Finish, Go, Became, Finds, Process, Pipes, Files
<1>32. CASE Unlock(e)
  BY <1>0, <1>32 DEF Unlock, Go, Became, Finds, Process, Pipes, Files
<1>33. CASE Plans(e)
  BY <1>0, <1>33 DEF Plans, Goes, Says, Go, Became, Finds, Process, Pipes, Files
<1>34. CASE Checks(e)
  BY <1>0, <1>34 DEF Checks, Goes, Says, Rejects, Go, Became, Finds, Process, Pipes, Files
<1>35. CASE Commands(e)
  BY <1>0, <1>35 DEF Commands, Goes, Says, Go, Became, Finds, Process, Pipes, Files
<1>36. CASE Hears(e)
  BY <1>0, <1>36 DEF Hears, Goes, Says, Rejects, Go, Became, Finds, Process, Pipes, Files
<1>37. CASE Misbehaves(e)
  BY <1>0, <1>37 DEF Misbehaves, Go, Became, Finds, Process, Pipes, Files
<1>38. CASE Crash(e)
  BY <1>0, <1>38 DEF Crash, Go, Became, Finds, Process, Pipes, Files
<1> QED
  BY <1>1, <1>2, <1>3, <1>4, <1>5, <1>6, <1>7, <1>8, <1>9, <1>10, <1>11, <1>12, <1>13, <1>14, <1>15, <1>16,
     <1>17, <1>18, <1>19, <1>20, <1>21, <1>22, <1>23, <1>24, <1>25, <1>26, <1>27, <1>28, <1>29, <1>30, <1>31,
     <1>32, <1>33, <1>34, <1>35, <1>36, <1>37, <1>38
  DEF Moves, Working, Checking

LEMMA Directory ==
  ASSUME Types, NEW e \in Editors, Owner(e), Succeeds(e), Moves(e)
  PROVE  \/ lock' = lock /\ journal' = journal
         \/ ~lock /\ lock' = TRUE
         \/ run[e].locked
<1>1. CASE Begin(e)
  BY <1>1 DEF Begin, Owner, Succeeds, Fallible, Process, Pipes, Files
<1>2. CASE Prepare(e)
  BY <1>2 DEF Prepare, Owner, Succeeds, Fallible, Process, Pipes, Files
<1>3. CASE StartChecker(e)
  BY <1>3 DEF StartChecker, Owner, Succeeds, Fallible, Process, Pipes, Files
<1>4. CASE ReadPlan(e)
  BY <1>4 DEF ReadPlan, Receives, Owner, Succeeds, Fallible, Process, Pipes, Files
<1>5. CASE NewBatch(e)
  BY <1>5 DEF NewBatch, Truncate, WriteHeading, Owner, Succeeds, Fallible, Process, Pipes, Files
<1>6. CASE SendHeader(e)
  BY <1>6 DEF SendHeader, Sends, Owner, Succeeds, Fallible, Process, Pipes, Files
<1>7. CASE Ready(e)
  BY <1>7 DEF Ready, Receives, Owner, Succeeds, Fallible, Process, Pipes, Files
<1>8. CASE Fixture(e)
  BY <1>8 DEF Fixture, Owner, Succeeds, Fallible, Process, Pipes, Files
<1>9. CASE Step(e)
  BY <1>9 DEF Step, Journalled, Owner, Succeeds, Fallible, Process, Pipes, Files
<1>10. CASE Send(e)
  BY <1>10 DEF Send, Sends, Owner, Succeeds, Fallible, Process, Pipes, Files
<1>11. CASE AcknowledgeBatch(e)
  BY <1>11 DEF AcknowledgeBatch, Journalled, Sends, Owner, Succeeds, Fallible, Process, Pipes, Files
<1>12. CASE Acknowledged(e)
  BY <1>12 DEF Acknowledged, Receives, Owner, Succeeds, Fallible, Process, Pipes, Files
<1>13. CASE SendEnd(e)
  BY <1>13 DEF SendEnd, Journalled, Owner, Succeeds, Fallible, Process, Pipes, Files
<1>14. CASE SendReady(e)
  BY <1>14 DEF SendReady, Sends, Owner, Succeeds, Fallible, Process, Pipes, Files
<1>15. CASE File(e)
  BY <1>15 DEF File, Receives, Owner, Succeeds, Fallible, Process, Pipes, Files
<1>16. CASE Base(e)
  BY <1>16 DEF Base, Sends, Owner, Succeeds, Fallible, Process, Pipes, Files
<1>17. CASE Command(e)
  BY <1>17 DEF Command, Journalled, Receives, Owner, Succeeds, Fallible, Process, Pipes, Files
<1>18. CASE Obey(e)
  BY <1>18 DEF Obey, Journalled, Owner, Succeeds, Fallible, Process, Pipes, Files
<1>19. CASE Result(e)
  BY <1>19 DEF Result, Sends, Owner, Succeeds, Fallible, Process, Pipes, Files
<1>20. CASE ResultAcknowledged(e)
  BY <1>20 DEF ResultAcknowledged, Receives, Owner, Succeeds, Fallible, Process, Pipes, Files
<1>21. CASE CloseFile(e)
  BY <1>21 DEF CloseFile, Receives, Owner, Succeeds, Fallible, Process, Pipes, Files
<1>22. CASE Clean(e)
  BY <1>22 DEF Clean, Sends, Owner, Succeeds, Fallible, Process, Pipes, Files
<1>23. CASE Done(e)
  BY <1>23 DEF Done, Receives, Owner, Succeeds, Fallible, Process, Pipes, Files
<1>24. CASE Complete(e)
  BY <1>24 DEF Complete, Sends, Owner, Succeeds, Fallible, Process, Pipes, Files
<1>25. CASE Pass(e)
  BY <1>25 DEF Pass, Receives, Owner, Succeeds, Fallible, Process, Pipes, Files
<1>26. CASE GoesWrong(e)
  BY <1>26 DEF GoesWrong, Owner, Succeeds, Fallible, Process, Pipes, Files
<1>27. CASE WriteFails(e)
  BY <1>27 DEF WriteFails, AppendFails, Owner, Succeeds, Fallible, Process, Pipes, Files
<1>28. CASE Fail(e)
  BY <1>28 DEF Fail, Terminated, Owner, Succeeds, Fallible, Process, Pipes, Files
<1>29. CASE StopChecker(e)
  BY <1>29 DEF StopChecker, Owner, Succeeds, Fallible, Process, Pipes, Files
<1>30. CASE Reap(e)
  BY <1>30 DEF Reap, Owner, Succeeds, Fallible, Process, Pipes, Files
<1>31. CASE Finish(e)
  BY <1>31 DEF Finish, Owner, Succeeds, Fallible, Process, Pipes, Files
<1>32. CASE Unlock(e)
  <2>1. lock \in BOOLEAN /\ run[e].locked \in BOOLEAN /\ journal' = journal
    BY <1>32, RunFields DEF Types, Unlock
  <2> QED BY <1>32, <2>1 DEF Unlock
<1>33. CASE Plans(e)
  BY <1>33 DEF Plans, Goes, Says, Owner, Succeeds, Fallible, Process, Pipes, Files
<1>34. CASE Checks(e)
  BY <1>34 DEF Checks, Goes, Says, Rejects, Owner, Succeeds, Fallible, Process, Pipes, Files
<1>35. CASE Commands(e)
  BY <1>35 DEF Commands, Goes, Says, Owner, Succeeds, Fallible, Process, Pipes, Files
<1>36. CASE Hears(e)
  BY <1>36 DEF Hears, Goes, Says, Rejects, Owner, Succeeds, Fallible, Process, Pipes, Files
<1>37. CASE Misbehaves(e)
  BY <1>37 DEF Misbehaves, Owner, Succeeds, Fallible, Process, Pipes, Files
<1>38. CASE Crash(e)
  BY <1>38 DEF Crash, Owner, Succeeds, Fallible, Process, Pipes, Files
<1> QED
  BY <1>1, <1>2, <1>3, <1>4, <1>5, <1>6, <1>7, <1>8, <1>9, <1>10, <1>11, <1>12, <1>13, <1>14, <1>15, <1>16,
     <1>17, <1>18, <1>19, <1>20, <1>21, <1>22, <1>23, <1>24, <1>25, <1>26, <1>27, <1>28, <1>29, <1>30, <1>31,
     <1>32, <1>33, <1>34, <1>35, <1>36, <1>37, <1>38
  DEF Moves, Working, Checking

LEMMA Checked ==
  ASSUME NEW e \in Editors, Checking(e)
  PROVE  UNCHANGED <<pc, run, user, lock, journal, failure>> /\ child[e] = "runs"
<1>1. \A n, lines, c, status : Says(e, n, lines, c, status)
        => UNCHANGED <<pc, run, user, lock, journal, failure>>
  BY DEF Says, Files
<1>2. \A n, lines, c : Goes(e, n, lines, c) \/ Rejects(e, n)
        => UNCHANGED <<pc, run, user, lock, journal, failure>>
  BY <1>1 DEF Goes, Rejects
<1>3. CASE Plans(e)
  BY <1>2, <1>3 DEF Plans
<1>4. CASE Checks(e)
  BY <1>1, <1>2, <1>4 DEF Checks
<1>5. CASE Commands(e)
  BY <1>2, <1>5 DEF Commands
<1>6. CASE Hears(e)
  BY <1>1, <1>2, <1>6 DEF Hears
<1> QED BY <1>3, <1>4, <1>5, <1>6 DEF Checking

LEMMA OwnerStep ==
  ASSUME Types, NEW e \in Editors, Owner(e), Succeeds(e), Moves(e)
  PROVE  Owner(e)' /\ (run'[e].locked => run[e].locked \/ ~lock)
<1> DEFINE r == run[e]
<1>0. /\ pc \in [Editors -> Places] /\ run \in [Editors -> Runs] /\ r \in Runs
      /\ r.locked \in BOOLEAN /\ lock \in BOOLEAN
  BY RunFields DEF Types
<1>1. CASE Begin(e)
  BY <1>0, <1>1 DEF Begin, Owner, Fallible, Go, Process, Pipes, Files
<1>2. CASE Prepare(e)
  <2>1. CASE lock
    BY <1>0, <1>2, <2>1 DEF Prepare, Go, Owner, Fallible, Files
  <2>2. CASE ~lock
    <3>1. \E plan, keep \in BOOLEAN :
            run' = [run EXCEPT ![e] = [r EXCEPT !.locked = TRUE, !.plan = plan, !.keep = keep]]
      BY <1>2, <2>2 DEF Prepare, Became
    <3>2. run'[e].locked
      BY <1>0, <3>1 DEF Runs
    <3> QED BY <1>0, <1>2, <2>2, <3>2 DEF Prepare, Owner
  <2> QED BY <2>1, <2>2
<1>3. CASE StartChecker(e)
  BY <1>0, <1>3 DEF StartChecker, Owner, Fallible, Go, Process, Pipes, Files
<1>4. CASE ReadPlan(e)
  <2>1. pc[e] \in Fallible /\ lock' = lock
    BY <1>4 DEF ReadPlan, Fallible, Process, Pipes, Files
  <2>2. run'[e].locked = r.locked
    <3>1. \E kind \in Kinds, keep \in BOOLEAN :
            run' = [run EXCEPT ![e] = [r EXCEPT !.kind = kind, !.keep = keep /\ kind = "read"]]
      BY <1>4 DEF ReadPlan, Became
    <3> QED BY <1>0, <3>1 DEF Runs
  <2> QED BY <1>0, <2>1, <2>2 DEF Owner
<1>5. CASE NewBatch(e)
  <2>1. pc[e] \in Fallible /\ lock' = lock
    BY <1>5 DEF NewBatch, Truncate, WriteHeading, Fallible, Process, Pipes, Files
  <2>2. run'[e].locked = r.locked
    BY <1>0, <1>5 DEF NewBatch, Truncate, WriteHeading, Became, Runs
  <2> QED BY <1>0, <2>1, <2>2 DEF Owner
<1>6. CASE SendHeader(e)
  BY <1>0, <1>6 DEF SendHeader, Sends, Owner, Fallible, Go, Process, Pipes, Files
<1>7. CASE Ready(e)
  BY <1>0, <1>7 DEF Ready, Receives, Owner, Fallible, Go, Process, Pipes, Files
<1>8. CASE Fixture(e)
  BY <1>0, <1>8 DEF Fixture, Owner, Fallible, Go, Process, Pipes, Files
<1>9. CASE Step(e)
  <2>1. pc[e] \in Fallible /\ lock' = lock
    BY <1>9 DEF Step, Fallible, Process, Pipes, Files
  <2>2. run'[e].locked = r.locked
    <3>1. \/ \E good \in BOOLEAN, used \in {Append(r.used, <<"S", r.seq>>)} :
                 run' = [run EXCEPT ![e] = [[r EXCEPT !.bad = @ \/ ~good] EXCEPT !.used = used]]
          \/ run' = [run EXCEPT ![e] = [r EXCEPT !.over = TRUE]]
      <4>1. CASE \E good \in BOOLEAN : Journalled(e, [r EXCEPT !.bad = @ \/ ~good], <<"S", r.seq>>)
        BY <1>0, <4>1 DEF Journalled, Became, Runs
      <4>2. CASE Became(e, [r EXCEPT !.over = TRUE])
        BY <4>2 DEF Became
      <4> QED BY <1>9, <4>1, <4>2 DEF Step
    <3> QED BY <1>0, <3>1 DEF Runs
  <2> QED BY <1>0, <2>1, <2>2 DEF Owner
<1>10. CASE Send(e)
  BY <1>0, <1>10 DEF Send, Sends, Owner, Fallible, Go, Process, Pipes, Files, Became, Runs
<1>11. CASE AcknowledgeBatch(e)
  BY <1>0, <1>11 DEF AcknowledgeBatch, Journalled, Sends, Owner, Fallible, Go, Process, Pipes, Files, Became, Runs
<1>12. CASE Acknowledged(e)
  BY <1>0, <1>12 DEF Acknowledged, Receives, Owner, Fallible, Go, Process, Pipes, Files, Became, Runs
<1>13. CASE SendEnd(e)
  BY <1>0, <1>13 DEF SendEnd, Journalled, Owner, Fallible, Go, Process, Pipes, Files, Became, Runs
<1>14. CASE SendReady(e)
  BY <1>0, <1>14 DEF SendReady, Sends, Owner, Fallible, Go, Process, Pipes, Files
<1>15. CASE File(e)
  BY <1>0, <1>15 DEF File, Receives, Owner, Fallible, Go, Process, Pipes, Files, Became, Runs
<1>16. CASE Base(e)
  BY <1>0, <1>16 DEF Base, Sends, Owner, Fallible, Go, Process, Pipes, Files
<1>17. CASE Command(e)
  BY <1>0, <1>17 DEF Command, Journalled, Receives, Owner, Fallible, Go, Process, Pipes, Files, Became, Runs
<1>18. CASE Obey(e)
  BY <1>0, <1>18 DEF Obey, Journalled, Owner, Fallible, Go, Process, Pipes, Files, Became, Runs
<1>19. CASE Result(e)
  BY <1>0, <1>19 DEF Result, Sends, Owner, Fallible, Go, Process, Pipes, Files, Became, Runs
<1>20. CASE ResultAcknowledged(e)
  BY <1>0, <1>20 DEF ResultAcknowledged, Receives, Owner, Fallible, Go, Process, Pipes, Files, Became, Runs
<1>21. CASE CloseFile(e)
  BY <1>0, <1>21 DEF CloseFile, Receives, Owner, Fallible, Go, Process, Pipes, Files
<1>22. CASE Clean(e)
  BY <1>0, <1>22 DEF Clean, Sends, Owner, Fallible, Go, Process, Pipes, Files
<1>23. CASE Done(e)
  BY <1>0, <1>23 DEF Done, Receives, Owner, Fallible, Go, Process, Pipes, Files
<1>24. CASE Complete(e)
  BY <1>0, <1>24 DEF Complete, Sends, Owner, Fallible, Go, Process, Pipes, Files
<1>25. CASE Pass(e)
  BY <1>0, <1>25 DEF Pass, Receives, Owner, Fallible, Go, Process, Pipes, Files, Became, Runs
<1>26. CASE GoesWrong(e)
  BY <1>0, <1>26 DEF GoesWrong, Owner, Fallible, Go, Process, Pipes, Files
<1>27. CASE WriteFails(e)
  BY <1>0, <1>27 DEF WriteFails, AppendFails, Owner, Fallible, Go, Process, Pipes, Files
<1>28. CASE Fail(e)
  BY <1>0, <1>28 DEF Fail, Terminated, Owner, Fallible, Go, Process, Pipes, Files
<1>29. CASE StopChecker(e)
  BY <1>0, <1>29 DEF StopChecker, Owner, Fallible, Go, Process, Pipes, Files
<1>30. CASE Reap(e)
  BY <1>0, <1>30 DEF Reap, Owner, Fallible, Go, Process, Pipes, Files, Became, Runs
<1>31. CASE Finish(e)
  BY <1>0, <1>31 DEF Finish, Owner, Fallible, Go, Process, Pipes, Files
<1>32. CASE Unlock(e)
  BY <1>0, <1>32 DEF Unlock, Owner, Fallible, Go, Process, Pipes, Files, Became, Runs, NewRun
<1>33. CASE Plans(e)
  BY <1>33, Checked DEF Checking, Owner
<1>34. CASE Checks(e)
  BY <1>34, Checked DEF Checking, Owner
<1>35. CASE Commands(e)
  BY <1>35, Checked DEF Checking, Owner
<1>36. CASE Hears(e)
  BY <1>36, Checked DEF Checking, Owner
<1>37. CASE Misbehaves(e)
  BY <1>0, <1>37 DEF Misbehaves, Owner, Fallible, Go, Process, Pipes, Files, Became, Runs
<1>38. CASE Crash(e)
  BY <1>0, <1>38 DEF Crash, Owner, Fallible, Go, Process, Pipes, Files, Became, Runs, NewRun
<1> QED
  BY <1>1, <1>2, <1>3, <1>4, <1>5, <1>6, <1>7, <1>8, <1>9, <1>10, <1>11, <1>12, <1>13, <1>14, <1>15, <1>16,
     <1>17, <1>18, <1>19, <1>20, <1>21, <1>22, <1>23, <1>24, <1>25, <1>26, <1>27, <1>28, <1>29, <1>30, <1>31,
     <1>32, <1>33, <1>34, <1>35, <1>36, <1>37, <1>38
  DEF Moves, Working, Checking

(***************************************************************************)
(* What is not acknowledged stays in the journal.                          *)
(***************************************************************************)
LEMMA Grows ==
  ASSUME NEW j \in Seq(Lines)
  PROVE  /\ \A more \in Seq(Lines) : \A n : Within(j, n) => Within(j \o more, n)
         /\ \A line \in Lines : \A n : Within(j, n) => Within(Append(j, line), n)
         /\ \A n \in 0..MaxSeq : /\ Within(Append(j, <<"S", n>>), n)
                               /\ Within(Append(j, <<"R", n>>), n)
<1>1. ASSUME NEW more \in Seq(Lines), NEW n, Within(j, n)
      PROVE  Within(j \o more, n)
  <2>1. PICK i \in DOMAIN j : j[i][1] \in {"S", "R"} /\ j[i][2] = n
    BY <1>1 DEF Within
  <2>2. i \in 1..Len(j) /\ Len(j) \in Nat /\ Len(more) \in Nat
    OBVIOUS
  <2>3. i \in DOMAIN (j \o more) /\ (j \o more)[i] = j[i]
    BY <2>2, ConcatProperties
  <2> QED BY <2>1, <2>3 DEF Within
<1>2. ASSUME NEW line \in Lines
      PROVE  /\ \A n : Within(j, n) => Within(Append(j, line), n)
             /\ line[1] \in {"S", "R"} => Within(Append(j, line), line[2])
  <2>1. \A i \in DOMAIN j : i \in DOMAIN Append(j, line) /\ Append(j, line)[i] = j[i]
    OBVIOUS
  <2>2. Len(j) + 1 \in DOMAIN Append(j, line) /\ Append(j, line)[Len(j) + 1] = line
    OBVIOUS
  <2> HIDE <1>2
  <2> QED BY <2>1, <2>2 DEF Within
<1>3. \A n \in 0..MaxSeq : <<"S", n>> \in Lines /\ <<"R", n>> \in Lines
  BY LineFacts
<1>4. \A n : <<"S", n>>[1] = "S" /\ <<"S", n>>[2] = n /\ <<"R", n>>[1] = "R" /\ <<"R", n>>[2] = n
  OBVIOUS
<1> QED BY <1>1, <1>2, <1>3, <1>4

\* the same run, with at least the same journal
LEMMA SameEvidence ==
  ASSUME NEW e \in Editors, Evidence(e), \A n : Within(journal, n) => Within(journal', n),
         run'[e].seq = run[e].seq, run'[e].acked = run[e].acked,
         run'[e].locked => run[e].locked, pc'[e] \notin {"send", "result"}
  PROVE  Evidence(e)'
  BY DEF Evidence

LEMMA NoEvidence ==
  ASSUME NEW e \in Editors, run'[e].seq \in Int, run'[e].acked = run'[e].seq,
         pc'[e] \notin {"send", "result"}
  PROVE  Evidence(e)'
<1>1. run'[e].acked..(run'[e].seq - 1) = {}
  OBVIOUS
<1> QED BY <1>1 DEF Evidence

LEMMA EvidenceStep ==
  ASSUME Types, NEW e \in Editors, Numbers(e), Evidence(e), Succeeds(e), Moves(e)
  PROVE  Evidence(e)'
<1> DEFINE r == run[e]
<1>0. /\ pc \in [Editors -> Places] /\ run \in [Editors -> Runs] /\ r \in Runs
      /\ r.locked \in BOOLEAN /\ journal \in Seq(Lines) /\ r.seq \in Int /\ r.acked \in Int
      /\ r.seq \in 0..MaxSeq
  <2>1. pc \in [Editors -> Places] /\ run \in [Editors -> Runs] /\ r \in Runs /\ journal \in Seq(Lines)
    BY DEF Types
  <2>2. r.seq \in 0..MaxSeq /\ r.acked \in 0..MaxSeq /\ r.locked \in BOOLEAN
    BY <2>1, RunFields
  <2> QED BY <2>1, <2>2, Sizes
<1>1. CASE Begin(e)
  <2>1. run' = run /\ journal' = journal
    BY <1>1 DEF Begin, Files
  <2>2. pc'[e] \notin {"send", "result"}
    BY <1>0, <1>1 DEF Begin, Go
  <2> QED BY <2>1, <2>2, SameEvidence
<1>2. CASE Prepare(e)
  <2>1. r = NewRun
    BY <1>2 DEF Prepare, Numbers
  <2>2. CASE lock
    BY <1>0, <1>2, <2>2, SameEvidence DEF Prepare, Go, Files
  <2>3. CASE ~lock
    <3>1. \E plan, keep \in BOOLEAN :
            run' = [run EXCEPT ![e] = [r EXCEPT !.locked = TRUE, !.plan = plan, !.keep = keep]]
      BY <1>2, <2>3 DEF Prepare, Became
    <3>2. run'[e].seq = r.seq /\ run'[e].acked = r.acked
      BY <1>0, <3>1 DEF Runs
    <3>3. pc'[e] = "spawn"
      BY <1>0, <1>2, <2>3 DEF Prepare, Go
    <3>4. r.seq = 0 /\ r.acked = 0
      BY <2>1 DEF NewRun
    <3> QED BY <3>2, <3>3, <3>4, NoEvidence
  <2> QED BY <2>2, <2>3
<1>3. CASE StartChecker(e)
  <2>1. run' = run /\ journal' = journal
    BY <1>3 DEF StartChecker, Files
  <2>2. pc'[e] \notin {"send", "result"}
    BY <1>0, <1>3 DEF StartChecker, Go
  <2> QED BY <2>1, <2>2, SameEvidence
<1>4. CASE ReadPlan(e)
  <2>1. run'[e].seq = r.seq /\ run'[e].acked = r.acked /\ run'[e].locked = r.locked
    <3>1. \E kind \in Kinds, keep \in BOOLEAN :
            run' = [run EXCEPT ![e] = [r EXCEPT !.kind = kind, !.keep = keep /\ kind = "read"]]
      BY <1>4 DEF ReadPlan, Became
    <3> QED BY <1>0, <3>1 DEF Runs
  <2>2. journal' = journal
    BY <1>4 DEF ReadPlan, Files
  <2>3. pc'[e] \in {"header", "isolated"}
    BY <1>0, <1>4 DEF ReadPlan, Go
  <2> QED BY <2>1, <2>2, <2>3, SameEvidence
<1>5. CASE NewBatch(e)
  <2>1. run'[e].seq = r.seq /\ run'[e].acked = r.acked /\ run'[e].locked = r.locked
    BY <1>0, <1>5 DEF NewBatch, Truncate, WriteHeading, Became, Runs
  <2>2. \/ pc[e] \in {"header", "isolated", "renew", "renew edits"}
        \/ journal' = journal \o Heading(r)
    BY <1>5 DEF NewBatch, Truncate, WriteHeading
  <2>3. pc'[e] \notin {"send", "result"}
    BY <1>0, <1>5 DEF NewBatch, Truncate, WriteHeading, AfterBatch, Go
  <2>4. CASE pc[e] \in {"header", "isolated", "renew", "renew edits"}
    <3>1. CASE pc[e] \in {"header", "isolated"}
      <4>1. r.seq = 0 /\ r.acked <= r.seq
        BY <3>1 DEF Numbers, Unstarted
      <4>2. r.acked = r.seq
        BY <1>0, <4>1, RunFields
      <4> QED BY <1>0, <2>1, <2>3, <4>2, NoEvidence
    <3>2. CASE pc[e] \in {"renew", "renew edits"}
      <4>1. r.acked = r.seq
        BY <3>2 DEF Numbers, AllAcknowledged
      <4> QED BY <1>0, <2>1, <2>3, <4>1, NoEvidence
    <3> QED BY <2>4, <3>1, <3>2
  <2>5. CASE journal' = journal \o Heading(r)
    <3>1. r.acked \in 0..MaxSeq
      BY <1>0, RunFields
    <3>2. <<"H">> \in Lines /\ <<"C", r.acked>> \in Lines
      BY <3>1, LineFacts
    <3>3. Heading(r) \in Seq(Lines)
      BY <3>2 DEF Heading
    <3>4. \A n : Within(journal, n) => Within(journal', n)
      BY <1>0, <2>5, <3>3, Grows
    <3> QED BY <2>1, <2>3, <3>4, SameEvidence
  <2> QED BY <2>2, <2>4, <2>5
<1>6. CASE SendHeader(e)
  <2>1. run' = run /\ journal' = journal
    BY <1>6 DEF SendHeader, Files
  <2>2. pc'[e] \notin {"send", "result"}
    BY <1>0, <1>6 DEF SendHeader, Go
  <2> QED BY <2>1, <2>2, SameEvidence
<1>7. CASE Ready(e)
  <2>1. run' = run /\ journal' = journal
    BY <1>7 DEF Ready, Files
  <2>2. pc'[e] \notin {"send", "result"}
    BY <1>0, <1>7 DEF Ready, Go
  <2> QED BY <2>1, <2>2, SameEvidence
<1>8. CASE Fixture(e)
  <2>1. run' = run /\ journal' = journal
    BY <1>8 DEF Fixture, Files
  <2>2. pc'[e] \notin {"send", "result"}
    BY <1>0, <1>8 DEF Fixture, Go
  <2> QED BY <2>1, <2>2, SameEvidence
<1>9. CASE Step(e)
  <2>1. CASE \E good \in BOOLEAN : Journalled(e, [r EXCEPT !.bad = @ \/ ~good], <<"S", r.seq>>)
    <3>1. PICK good \in BOOLEAN : Journalled(e, [r EXCEPT !.bad = @ \/ ~good], <<"S", r.seq>>)
      BY <2>1, <1>9 DEF Step
    <3> DEFINE s == [r EXCEPT !.bad = @ \/ ~good]
    <3>2. s \in Runs /\ s.seq = r.seq /\ s.acked = r.acked /\ s.locked = r.locked
      BY SMTT(40), <1>0, BadIn DEF Runs
    <3>3. Journalled(e, s, <<"S", r.seq>>)
      BY <3>1
    <3> HIDE DEF s
    <3>4. run'[e].seq = r.seq /\ run'[e].acked = r.acked /\ run'[e].locked = r.locked
      BY <1>0, <3>2, <3>3, JournalledLast
    <3>5. journal' = Append(journal, <<"S", r.seq>>) /\ <<"S", r.seq>> \in Lines
      BY <1>0, <3>3, LineFacts DEF Journalled
    <3>6. Within(journal', r.seq) /\ \A n : Within(journal, n) => Within(journal', n)
      BY <1>0, <3>5, Grows
    <3> QED BY <3>4, <3>6 DEF Evidence
  <2>2. CASE Became(e, [r EXCEPT !.over = TRUE]) /\ journal' = journal /\ Go(e, IF r.pending = 0 THEN "end" ELSE "batch")
    <3>1. run'[e].seq = r.seq /\ run'[e].acked = r.acked /\ run'[e].locked = r.locked
      BY <1>0, <2>2 DEF Became, Runs
    <3>2. pc'[e] \notin {"send", "result"}
      BY <1>0, <2>2 DEF Go
    <3> QED BY <2>2, <3>1, <3>2, SameEvidence
  <2> QED BY <1>9, <2>1, <2>2 DEF Step
<1>10. CASE Send(e)
  <2>1. Within(journal, r.seq)
    BY <1>10 DEF Evidence, Send
  <2>2. run'[e].seq = r.seq + 1 /\ run'[e].acked = r.acked /\ run'[e].locked = r.locked
    BY <1>0, <1>10 DEF Send, Became, Runs
  <2>3. journal' = journal /\ pc'[e] \notin {"send", "result"}
    BY <1>0, <1>10 DEF Send, Go, Process, Files
  <2>4. \A n \in r.acked..((r.seq + 1) - 1) : n = r.seq \/ n \in r.acked..(r.seq - 1)
    BY <1>0
  <2> QED BY <2>1, <2>2, <2>3, <2>4 DEF Evidence
<1>11. CASE AcknowledgeBatch(e)
  <2>1. run'[e].seq = r.seq /\ run'[e].acked = r.acked /\ run'[e].locked = r.locked
    BY <1>0, <1>11 DEF AcknowledgeBatch, Journalled, Became, Runs
  <2>2. pc'[e] \notin {"send", "result"}
    BY <1>0, <1>11 DEF AcknowledgeBatch, Go
  <2>3. journal' = journal \/ journal' = Append(journal, <<"B", r.seq>>)
    BY <1>11 DEF AcknowledgeBatch, Journalled
  <2>4. <<"B", r.seq>> \in Lines
    BY <1>0, LineFacts
  <2> QED BY <1>0, <2>1, <2>2, <2>3, <2>4, Grows, SameEvidence
<1>12. CASE Acknowledged(e)
  <2>1. run'[e].seq = r.seq /\ run'[e].acked = r.seq
    BY <1>0, <1>12 DEF Acknowledged, Became, Runs
  <2>2. pc'[e] \notin {"send", "result"}
    BY <1>0, <1>12 DEF Acknowledged, Go, AfterBatch
  <2> QED BY <1>0, <2>1, <2>2, NoEvidence
<1>13. CASE SendEnd(e)
  <2>1. run'[e].seq = r.seq /\ run'[e].acked = r.acked /\ run'[e].locked = r.locked
    BY <1>0, <1>13 DEF SendEnd, Journalled, Became, Runs
  <2>2. pc'[e] \notin {"send", "result"}
    BY <1>0, <1>13 DEF SendEnd, Go
  <2>3. journal' = journal \/ journal' = Append(journal, <<"Z", r.seq>>)
    BY <1>13 DEF SendEnd, Journalled
  <2>4. <<"Z", r.seq>> \in Lines
    BY <1>0, LineFacts
  <2> QED BY <1>0, <2>1, <2>2, <2>3, <2>4, Grows, SameEvidence
<1>14. CASE SendReady(e)
  <2>1. run' = run /\ journal' = journal
    BY <1>14 DEF SendReady, Files
  <2>2. pc'[e] \notin {"send", "result"}
    BY <1>0, <1>14 DEF SendReady, Go
  <2> QED BY <2>1, <2>2, SameEvidence
<1>15. CASE File(e)
  <2>1. run'[e].seq = r.seq /\ run'[e].acked = r.acked /\ run'[e].locked = r.locked
    BY <1>0, <1>15 DEF File, Became, Runs
  <2>2. journal' = journal /\ pc'[e] \notin {"send", "result"}
    BY <1>0, <1>15 DEF File, Go, Process, Pipes, Files
  <2> QED BY <2>1, <2>2, SameEvidence
<1>16. CASE Base(e)
  <2>1. run' = run /\ journal' = journal
    BY <1>16 DEF Base, Files
  <2>2. pc'[e] \notin {"send", "result"}
    BY <1>0, <1>16 DEF Base, Go
  <2> QED BY <2>1, <2>2, SameEvidence
<1>17. CASE Command(e)
  <2>1. run'[e].seq = r.seq /\ run'[e].acked = r.acked /\ run'[e].locked = r.locked
    BY <1>0, <1>17 DEF Command, Journalled, Became, Runs
  <2>2. pc'[e] \notin {"send", "result"}
    BY <1>0, <1>17 DEF Command, Go
  <2>3. journal' = journal \/ journal' = Append(journal, <<"E", r.seq>>)
    BY <1>17 DEF Command, Journalled
  <2>4. <<"E", r.seq>> \in Lines
    BY <1>0, LineFacts
  <2> QED BY <1>0, <2>1, <2>2, <2>3, <2>4, Grows, SameEvidence
<1>18. CASE Obey(e)
  <2>1. PICK good \in BOOLEAN : Journalled(e, [r EXCEPT !.bad = @ \/ ~good], <<"R", r.seq>>)
    BY <1>18 DEF Obey
  <2> DEFINE s == [r EXCEPT !.bad = @ \/ ~good]
  <2>2. s \in Runs /\ s.seq = r.seq /\ s.acked = r.acked /\ s.locked = r.locked
    BY SMTT(40), <1>0, BadIn DEF Runs
  <2>3. Journalled(e, s, <<"R", r.seq>>)
    BY <2>1
  <2> HIDE DEF s
  <2>4. run'[e].seq = r.seq /\ run'[e].acked = r.acked /\ run'[e].locked = r.locked
    BY <1>0, <2>2, <2>3, JournalledLast
  <2>5. journal' = Append(journal, <<"R", r.seq>>) /\ <<"R", r.seq>> \in Lines
    BY <1>0, <2>3, LineFacts DEF Journalled
  <2>6. Within(journal', r.seq) /\ \A n : Within(journal, n) => Within(journal', n)
    BY <1>0, <2>5, Grows
  <2> QED BY <2>4, <2>6 DEF Evidence
<1>19. CASE Result(e)
  <2>1. Within(journal, r.seq)
    BY <1>19 DEF Evidence, Result
  <2>2. run'[e].seq = r.seq + 1 /\ run'[e].acked = r.acked /\ run'[e].locked = r.locked
    BY <1>0, <1>19 DEF Result, Became, Runs
  <2>3. journal' = journal /\ pc'[e] \notin {"send", "result"}
    BY <1>0, <1>19 DEF Result, Go, Process, Files
  <2>4. \A n \in r.acked..((r.seq + 1) - 1) : n = r.seq \/ n \in r.acked..(r.seq - 1)
    BY <1>0
  <2> QED BY <2>1, <2>2, <2>3, <2>4 DEF Evidence
<1>20. CASE ResultAcknowledged(e)
  <2>1. run'[e].seq = r.seq /\ run'[e].acked = r.seq
    BY <1>0, <1>20 DEF ResultAcknowledged, Became, Runs
  <2>2. pc'[e] \notin {"send", "result"}
    BY <1>0, <1>20 DEF ResultAcknowledged, Go
  <2> QED BY <1>0, <2>1, <2>2, NoEvidence
<1>21. CASE CloseFile(e)
  <2>1. run' = run /\ journal' = journal
    BY <1>21 DEF CloseFile, Files
  <2>2. pc'[e] \notin {"send", "result"}
    BY <1>0, <1>21 DEF CloseFile, Go
  <2> QED BY <2>1, <2>2, SameEvidence
<1>22. CASE Clean(e)
  <2>1. run' = run /\ journal' = journal
    BY <1>22 DEF Clean, Files
  <2>2. pc'[e] \notin {"send", "result"}
    BY <1>0, <1>22 DEF Clean, Go
  <2> QED BY <2>1, <2>2, SameEvidence
<1>23. CASE Done(e)
  <2>1. run' = run /\ journal' = journal
    BY <1>23 DEF Done, Files
  <2>2. pc'[e] \notin {"send", "result"}
    BY <1>0, <1>23 DEF Done, Go
  <2> QED BY <2>1, <2>2, SameEvidence
<1>24. CASE Complete(e)
  <2>1. run' = run /\ journal' = journal
    BY <1>24 DEF Complete, Files
  <2>2. pc'[e] \notin {"send", "result"}
    BY <1>0, <1>24 DEF Complete, Go
  <2> QED BY <2>1, <2>2, SameEvidence
<1>25. CASE Pass(e)
  <2>1. run'[e].seq = r.seq /\ run'[e].acked = r.acked /\ run'[e].locked = r.locked
    BY <1>0, <1>25 DEF Pass, Became, Runs
  <2>2. journal' = journal /\ pc'[e] \notin {"send", "result"}
    BY <1>0, <1>25 DEF Pass, Go, Process, Pipes, Files
  <2> QED BY <2>1, <2>2, SameEvidence
<1>26. CASE GoesWrong(e)
  <2>1. run' = run /\ journal' = journal
    BY <1>26 DEF GoesWrong, Files
  <2>2. pc'[e] \notin {"send", "result"}
    BY <1>0, <1>26 DEF GoesWrong, Go
  <2> QED BY <2>1, <2>2, SameEvidence
<1>27. CASE WriteFails(e)
  <2>1. pc'[e] = "fail" /\ run' = run
    BY <1>0, <1>27 DEF WriteFails, AppendFails, Go
  <2>2. \/ journal' = journal \/ journal' = Append(journal, <<"S", r.seq>>)
        \/ journal' = Append(journal, <<"R", r.seq>>)
    BY <1>27 DEF WriteFails, AppendFails
  <2>3. <<"S", r.seq>> \in Lines /\ <<"R", r.seq>> \in Lines
    BY <1>0, LineFacts
  <2> QED BY <1>0, <2>1, <2>2, <2>3, Grows, SameEvidence
<1>28. CASE Fail(e)
  <2>1. run' = run /\ journal' = journal
    BY <1>28 DEF Fail, Files
  <2>2. pc'[e] \notin {"send", "result"}
    BY <1>0, <1>28 DEF Fail, Go
  <2> QED BY <2>1, <2>2, SameEvidence
<1>29. CASE StopChecker(e)
  <2>1. run' = run /\ journal' = journal
    BY <1>29 DEF StopChecker, Files
  <2>2. pc'[e] \notin {"send", "result"}
    BY <1>0, <1>29 DEF StopChecker, Go
  <2> QED BY <2>1, <2>2, SameEvidence
<1>30. CASE Reap(e)
  <2>1. run'[e].seq = r.seq /\ run'[e].acked = r.acked /\ run'[e].locked = r.locked
    BY <1>0, <1>30 DEF Reap, Became, Runs
  <2>2. journal' = journal /\ pc'[e] \notin {"send", "result"}
    BY <1>0, <1>30 DEF Reap, Go, Process, Pipes, Files
  <2> QED BY <2>1, <2>2, SameEvidence
<1>31. CASE Finish(e)
  <2>1. pc'[e] = "unlock" /\ run' = run
    BY <1>0, <1>31 DEF Finish, Go
  <2>2. CASE r.success
    BY <1>0, <2>1, <2>2, NoEvidence DEF Succeeds
  <2>3. CASE ~r.success
    <3>1. journal' = journal
      BY <1>31, <2>3 DEF Finish
    <3> QED BY <2>1, <3>1, SameEvidence
  <2> QED BY <2>2, <2>3
<1>32. CASE Unlock(e)
  <2>1. run'[e] = NewRun /\ pc'[e] = "idle"
    BY <1>0, <1>32 DEF Unlock, Became, Go
  <2>2. NewRun.seq = 0 /\ NewRun.acked = 0
    BY DEF NewRun
  <2> QED BY <2>1, <2>2, NoEvidence
<1>33. CASE Plans(e)
  BY <1>33, Checked DEF Checking, Evidence
<1>34. CASE Checks(e)
  BY <1>34, Checked DEF Checking, Evidence
<1>35. CASE Commands(e)
  BY <1>35, Checked DEF Checking, Evidence
<1>36. CASE Hears(e)
  BY <1>36, Checked DEF Checking, Evidence
<1>37. CASE Misbehaves(e)
  <2>1. run'[e].seq = r.seq /\ run'[e].acked = r.acked /\ run'[e].locked = r.locked
    BY <1>0, <1>37 DEF Misbehaves, Became, Runs
  <2>2. journal' = journal /\ pc' = pc /\ pc[e] \notin {"send", "result"}
    BY <1>37 DEF Misbehaves, Files
  <2> QED BY <2>1, <2>2, SameEvidence
<1>38. CASE Crash(e)
  <2>1. run'[e].seq = r.seq /\ run'[e].acked = r.acked /\ run'[e].locked = r.locked
    BY <1>0, <1>38 DEF Crash, Became, NewRun
  <2>2. journal' = journal /\ pc'[e] = "dead"
    BY <1>0, <1>38 DEF Crash, Go, Files
  <2> QED BY <2>1, <2>2, SameEvidence
<1> QED
  BY <1>1, <1>2, <1>3, <1>4, <1>5, <1>6, <1>7, <1>8, <1>9, <1>10, <1>11, <1>12, <1>13, <1>14, <1>15, <1>16,
     <1>17, <1>18, <1>19, <1>20, <1>21, <1>22, <1>23, <1>24, <1>25, <1>26, <1>27, <1>28, <1>29, <1>30, <1>31,
     <1>32, <1>33, <1>34, <1>35, <1>36, <1>37, <1>38
  DEF Moves, Working, Checking

(***************************************************************************)
(* Success is of a run that was acknowledged.                              *)
(***************************************************************************)
LEMMA SucceedsStep ==
  ASSUME Types, NEW e \in Editors, Numbers(e), Owner(e), Succeeds(e), Moves(e)
  PROVE  Succeeds(e)'
<1> DEFINE r == run[e]
<1>0. /\ pc \in [Editors -> Places] /\ run \in [Editors -> Runs] /\ r \in Runs
      /\ r.success \in BOOLEAN
  BY RunFields DEF Types
<1>f. r.success => pc[e] \in {"stop", "reap", "finish", "unlock"}
  BY DEF Succeeds
<1>k. ASSUME run'[e].success = r.success, pc[e] \in Fallible \cup {"idle", "prepare"}
      PROVE  Succeeds(e)'
  BY <1>f, <1>k DEF Succeeds, Fallible
<1>1. CASE Begin(e)
  <2>1. run' = run /\ pc[e] \in Fallible \cup {"idle", "prepare"}
    BY <1>1 DEF Begin, Fallible
  <2> QED BY <1>k, <2>1
<1>2. CASE Prepare(e)
  <2>1. run'[e].success = r.success
    <3>1. CASE lock
      BY <1>2, <3>1 DEF Prepare
    <3>2. CASE ~lock
      <4>1. \E plan, keep \in BOOLEAN :
              run' = [run EXCEPT ![e] = [r EXCEPT !.locked = TRUE, !.plan = plan, !.keep = keep]]
        BY <1>2, <3>2 DEF Prepare, Became
      <4> QED BY <1>0, <4>1 DEF Runs
    <3> QED BY <3>1, <3>2
  <2>2. pc[e] \in Fallible \cup {"idle", "prepare"}
    BY <1>2 DEF Prepare
  <2> QED BY <1>k, <2>1, <2>2
<1>3. CASE StartChecker(e)
  <2>1. run' = run /\ pc[e] \in Fallible \cup {"idle", "prepare"}
    BY <1>3 DEF StartChecker, Fallible
  <2> QED BY <1>k, <2>1
<1>4. CASE ReadPlan(e)
  <2>1. run'[e].success = r.success
    <3>1. \E kind \in Kinds, keep \in BOOLEAN :
            run' = [run EXCEPT ![e] = [r EXCEPT !.kind = kind, !.keep = keep /\ kind = "read"]]
      BY <1>4 DEF ReadPlan, Became
    <3> QED BY <1>0, <3>1 DEF Runs
  <2>2. pc[e] \in Fallible
    BY <1>4 DEF ReadPlan, Fallible
  <2> QED BY <1>k, <2>1, <2>2
<1>5. CASE NewBatch(e)
  <2>1. run'[e].success = r.success
    BY <1>0, <1>5 DEF NewBatch, Truncate, WriteHeading, Became, Runs
  <2>2. pc[e] \in Fallible
    BY <1>5 DEF NewBatch, Truncate, WriteHeading, Fallible
  <2> QED BY <1>k, <2>1, <2>2
<1>6. CASE SendHeader(e)
  <2>1. run' = run /\ pc[e] \in Fallible \cup {"idle", "prepare"}
    BY <1>6 DEF SendHeader, Sends, Fallible
  <2> QED BY <1>k, <2>1
<1>7. CASE Ready(e)
  <2>1. run' = run /\ pc[e] \in Fallible \cup {"idle", "prepare"}
    BY <1>7 DEF Ready, Receives, Fallible
  <2> QED BY <1>k, <2>1
<1>8. CASE Fixture(e)
  <2>1. run' = run /\ pc[e] \in Fallible \cup {"idle", "prepare"}
    BY <1>8 DEF Fixture, Fallible
  <2> QED BY <1>k, <2>1
<1>9. CASE Step(e)
  <2>1. run'[e].success = r.success
    <3>1. CASE \E good \in BOOLEAN : Journalled(e, [r EXCEPT !.bad = @ \/ ~good], <<"S", r.seq>>)
      BY <1>0, <3>1 DEF Journalled, Became, Runs
    <3>2. CASE Became(e, [r EXCEPT !.over = TRUE])
      BY <1>0, <3>2 DEF Became, Runs
    <3> QED BY <1>9, <3>1, <3>2 DEF Step
  <2>2. pc[e] \in Fallible
    BY <1>9 DEF Step, Fallible
  <2> QED BY <1>k, <2>1, <2>2
<1>10. CASE Send(e)
  <2>1. run'[e].success = r.success
    BY <1>0, <1>10 DEF Send, Became, Runs
  <2>2. pc[e] \in Fallible
    BY <1>10 DEF Send, Fallible
  <2> QED BY <1>k, <2>1, <2>2
<1>11. CASE AcknowledgeBatch(e)
  <2>1. run'[e].success = r.success
    BY <1>0, <1>11 DEF AcknowledgeBatch, Journalled, Became, Runs
  <2>2. pc[e] \in Fallible
    BY <1>11 DEF AcknowledgeBatch, Fallible
  <2> QED BY <1>k, <2>1, <2>2
<1>12. CASE Acknowledged(e)
  <2>1. run'[e].success = r.success
    BY <1>0, <1>12 DEF Acknowledged, Became, Runs
  <2>2. pc[e] \in Fallible
    BY <1>12 DEF Acknowledged, Fallible
  <2> QED BY <1>k, <2>1, <2>2
<1>13. CASE SendEnd(e)
  <2>1. run'[e].success = r.success
    BY <1>0, <1>13 DEF SendEnd, Journalled, Became, Runs
  <2>2. pc[e] \in Fallible
    BY <1>13 DEF SendEnd, Fallible
  <2> QED BY <1>k, <2>1, <2>2
<1>14. CASE SendReady(e)
  <2>1. run' = run /\ pc[e] \in Fallible \cup {"idle", "prepare"}
    BY <1>14 DEF SendReady, Sends, Fallible
  <2> QED BY <1>k, <2>1
<1>15. CASE File(e)
  <2>1. run'[e].success = r.success
    BY <1>0, <1>15 DEF File, Became, Runs
  <2>2. pc[e] \in Fallible
    BY <1>15 DEF File, Fallible
  <2> QED BY <1>k, <2>1, <2>2
<1>16. CASE Base(e)
  <2>1. run' = run /\ pc[e] \in Fallible \cup {"idle", "prepare"}
    BY <1>16 DEF Base, Sends, Fallible
  <2> QED BY <1>k, <2>1
<1>17. CASE Command(e)
  <2>1. run'[e].success = r.success
    BY <1>0, <1>17 DEF Command, Journalled, Became, Runs
  <2>2. pc[e] \in Fallible
    BY <1>17 DEF Command, Fallible
  <2> QED BY <1>k, <2>1, <2>2
<1>18. CASE Obey(e)
  <2>1. run'[e].success = r.success
    <3>1. \E good \in BOOLEAN : Journalled(e, [r EXCEPT !.bad = @ \/ ~good], <<"R", r.seq>>)
      BY <1>18 DEF Obey
    <3> QED BY <1>0, <3>1 DEF Journalled, Became, Runs
  <2>2. pc[e] \in Fallible
    BY <1>18 DEF Obey, Fallible
  <2> QED BY <1>k, <2>1, <2>2
<1>19. CASE Result(e)
  <2>1. run'[e].success = r.success
    BY <1>0, <1>19 DEF Result, Became, Runs
  <2>2. pc[e] \in Fallible
    BY <1>19 DEF Result, Fallible
  <2> QED BY <1>k, <2>1, <2>2
<1>20. CASE ResultAcknowledged(e)
  <2>1. run'[e].success = r.success
    BY <1>0, <1>20 DEF ResultAcknowledged, Became, Runs
  <2>2. pc[e] \in Fallible
    BY <1>20 DEF ResultAcknowledged, Fallible
  <2> QED BY <1>k, <2>1, <2>2
<1>21. CASE CloseFile(e)
  <2>1. run' = run /\ pc[e] \in Fallible \cup {"idle", "prepare"}
    BY <1>21 DEF CloseFile, Receives, Fallible
  <2> QED BY <1>k, <2>1
<1>22. CASE Clean(e)
  <2>1. run' = run /\ pc[e] \in Fallible \cup {"idle", "prepare"}
    BY <1>22 DEF Clean, Sends, Fallible
  <2> QED BY <1>k, <2>1
<1>23. CASE Done(e)
  <2>1. run' = run /\ pc[e] \in Fallible \cup {"idle", "prepare"}
    BY <1>23 DEF Done, Receives, Fallible
  <2> QED BY <1>k, <2>1
<1>24. CASE Complete(e)
  <2>1. run' = run /\ pc[e] \in Fallible \cup {"idle", "prepare"}
    BY <1>24 DEF Complete, Sends, Fallible
  <2> QED BY <1>k, <2>1
<1>25. CASE Pass(e)
  <2>1. run'[e].locked = r.locked /\ run'[e].acked = r.acked /\ run'[e].seq = r.seq
    BY <1>0, <1>25 DEF Pass, Became, Runs
  <2>2. pc[e] = "pass" /\ pc'[e] = "stop"
    BY <1>0, <1>25 DEF Pass, Go
  <2>3. r.acked = r.seq /\ r.locked
    BY <2>2 DEF Numbers, Owner, AllAcknowledged, Fallible
  <2> QED BY <2>1, <2>2, <2>3 DEF Succeeds
<1>26. CASE GoesWrong(e)
  <2>1. run' = run /\ pc[e] \in Fallible \cup {"idle", "prepare"}
    BY <1>26 DEF GoesWrong, Fallible
  <2> QED BY <1>k, <2>1
<1>27. CASE WriteFails(e)
  <2>1. run' = run /\ pc[e] \in Fallible \cup {"idle", "prepare"}
    BY <1>27 DEF WriteFails, AppendFails, Fallible
  <2> QED BY <1>k, <2>1
<1>28. CASE Fail(e)
  <2>1. run' = run
    BY <1>28 DEF Fail
  <2>2. pc[e] # "fail" => pc'[e] \in {"reap", "unlock"}
    BY <1>0, <1>28 DEF Fail, Go
  <2>3. pc[e] = "fail" => ~r.success
    BY <1>f
  <2> QED BY <2>1, <2>2, <2>3, <1>28 DEF Succeeds, Fail
<1>29. CASE StopChecker(e)
  <2>1. run' = run
    BY <1>29 DEF StopChecker
  <2>2. pc[e] # "fail" => pc'[e] \in {"reap", "unlock"}
    BY <1>0, <1>29 DEF StopChecker, Go
  <2>3. pc[e] = "fail" => ~r.success
    BY <1>f
  <2> QED BY <2>1, <2>2, <2>3, <1>29 DEF Succeeds, StopChecker
<1>30. CASE Reap(e)
  <2>1. /\ run'[e].locked = r.locked /\ run'[e].acked = r.acked /\ run'[e].seq = r.seq
        /\ run'[e].success => r.success
    BY <1>0, <1>30 DEF Reap, Became, Runs
  <2>2. pc'[e] = "finish"
    BY <1>0, <1>30 DEF Reap, Go
  <2> QED BY <2>1, <2>2 DEF Succeeds
<1>31. CASE Finish(e)
  <2>1. run' = run
    BY <1>31 DEF Finish
  <2>2. pc[e] # "fail" => pc'[e] \in {"reap", "unlock"}
    BY <1>0, <1>31 DEF Finish, Go
  <2>3. pc[e] = "fail" => ~r.success
    BY <1>f
  <2> QED BY <2>1, <2>2, <2>3, <1>31 DEF Succeeds, Finish
<1>32. CASE Unlock(e)
  <2>1. ~run'[e].success
    BY <1>0, <1>32 DEF Unlock, Became, NewRun
  <2> QED BY <2>1 DEF Succeeds
<1>33. CASE Plans(e)
  BY <1>33, Checked DEF Checking, Succeeds
<1>34. CASE Checks(e)
  BY <1>34, Checked DEF Checking, Succeeds
<1>35. CASE Commands(e)
  BY <1>35, Checked DEF Checking, Succeeds
<1>36. CASE Hears(e)
  BY <1>36, Checked DEF Checking, Succeeds
<1>37. CASE Misbehaves(e)
  <2>1. run'[e].success = r.success /\ pc[e] \in Fallible
    BY <1>0, <1>37 DEF Misbehaves, Became, Runs, Fallible
  <2> QED BY <1>k, <2>1
<1>38. CASE Crash(e)
  <2>1. ~run'[e].success
    BY <1>0, <1>38 DEF Crash, Became, NewRun
  <2> QED BY <2>1 DEF Succeeds
<1> QED
  BY <1>1, <1>2, <1>3, <1>4, <1>5, <1>6, <1>7, <1>8, <1>9, <1>10, <1>11, <1>12, <1>13, <1>14, <1>15, <1>16,
     <1>17, <1>18, <1>19, <1>20, <1>21, <1>22, <1>23, <1>24, <1>25, <1>26, <1>27, <1>28, <1>29, <1>30, <1>31,
     <1>32, <1>33, <1>34, <1>35, <1>36, <1>37, <1>38
  DEF Moves, Working, Checking

(***************************************************************************)
(* The user gets back what was put aside.                                  *)
(***************************************************************************)
LEMMA ReturnedStep ==
  ASSUME Types, NEW e \in Editors, Returned(e), Moves(e)
  PROVE  Returned(e)'
<1>0. /\ pc \in [Editors -> Places] /\ user \in [Editors -> Users] /\ user[e] \in Users
      /\ DOMAIN child = Editors
  BY DEF Types
<1>1. CASE Begin(e)
  BY <1>0, <1>1, UserFacts DEF Begin, AfterBatch, Go, Process, Returned, Isolated, Fallible
<1>2. CASE Prepare(e)
  BY <1>0, <1>2, UserFacts DEF Prepare, AfterBatch, Go, Process, Returned, Isolated, Fallible
<1>3. CASE StartChecker(e)
  BY <1>0, <1>3, UserFacts DEF StartChecker, AfterBatch, Go, Process, Returned, Isolated, Fallible
<1>4. CASE ReadPlan(e)
  <2>1. pc[e] = "plan"
    BY <1>4 DEF ReadPlan
  <2>2. \/ pc'[e] = "header" /\ user' = user
        \/ pc'[e] = "isolated"
    BY <1>0, <1>4 DEF ReadPlan, Go
  <2> QED BY <2>1, <2>2 DEF Returned, Isolated
<1>5. CASE NewBatch(e)
  <2>1. user' = user /\ child' = child
    BY <1>5 DEF NewBatch, Truncate, WriteHeading, Process
  <2>2. \/ pc[e] \in Isolated /\ pc'[e] \in {"heading of edits", "send READY", "heading of next", "command"}
        \/ pc[e] \notin Isolated /\ pc'[e] \in {"heading", "send header", "renewing", "step", "end"}
    BY <1>0, <1>5 DEF NewBatch, Truncate, WriteHeading, AfterBatch, Go, Isolated
  <2> QED BY <2>1, <2>2 DEF Returned, Isolated
<1>6. CASE SendHeader(e)
  BY <1>0, <1>6, UserFacts DEF SendHeader, Sends, AfterBatch, Go, Process, Returned, Isolated, Fallible
<1>7. CASE Ready(e)
  BY <1>0, <1>7, UserFacts DEF Ready, Receives, AfterBatch, Go, Process, Returned, Isolated, Fallible
<1>8. CASE Fixture(e)
  <2>1. user'[e] = InFixture(user[e])
    BY <1>0, <1>8 DEF Fixture, Finds
  <2>2. Trusted(user[e]) => Trusted(InFixture(user[e]))
    BY <1>0, UserFacts
  <2>3. Trusted(user[e]) => Trusted(user'[e])
    BY <1>0, <2>1, <2>2, UserFacts
  <2> QED BY <1>0, <1>8, <2>3 DEF Fixture, Go, Returned, Isolated, Terminated
<1>9. CASE Step(e)
  BY <1>0, <1>9, UserFacts DEF Step, Journalled, AfterBatch, Go, Process, Returned, Isolated, Fallible
<1>10. CASE Send(e)
  BY <1>0, <1>10, UserFacts DEF Send, Sends, AfterBatch, Go, Process, Returned, Isolated, Fallible
<1>11. CASE AcknowledgeBatch(e)
  BY <1>0, <1>11, UserFacts DEF AcknowledgeBatch, Journalled, Sends, AfterBatch, Go, Process, Returned, Isolated, Fallible
<1>12. CASE Acknowledged(e)
  BY <1>0, <1>12, UserFacts DEF Acknowledged, Receives, AfterBatch, Go, Process, Returned, Isolated, Fallible
<1>13. CASE SendEnd(e)
  BY <1>0, <1>13, UserFacts DEF SendEnd, Journalled, AfterBatch, Go, Process, Returned, Isolated, Fallible
<1>14. CASE SendReady(e)
  BY <1>0, <1>14, UserFacts DEF SendReady, Sends, AfterBatch, Go, Process, Returned, Isolated, Fallible
<1>15. CASE File(e)
  <2>1. user'[e] = InFixture(user[e])
    BY <1>0, <1>15 DEF File, Finds
  <2>2. Trusted(user[e]) => Trusted(InFixture(user[e]))
    BY <1>0, UserFacts
  <2>3. Trusted(user[e]) => Trusted(user'[e])
    BY <1>0, <2>1, <2>2, UserFacts
  <2> QED BY <1>0, <1>15, <2>3 DEF File, Go, Returned, Isolated, Terminated
<1>16. CASE Base(e)
  BY <1>0, <1>16, UserFacts DEF Base, Sends, AfterBatch, Go, Process, Returned, Isolated, Fallible
<1>17. CASE Command(e)
  BY <1>0, <1>17, UserFacts DEF Command, Journalled, Receives, AfterBatch, Go, Process, Returned, Isolated, Fallible
<1>18. CASE Obey(e)
  BY <1>0, <1>18, UserFacts DEF Obey, Journalled, AfterBatch, Go, Process, Returned, Isolated, Fallible
<1>19. CASE Result(e)
  BY <1>0, <1>19, UserFacts DEF Result, Sends, AfterBatch, Go, Process, Returned, Isolated, Fallible
<1>20. CASE ResultAcknowledged(e)
  BY <1>0, <1>20, UserFacts DEF ResultAcknowledged, Receives, AfterBatch, Go, Process, Returned, Isolated, Fallible
<1>21. CASE CloseFile(e)
  <2>1. user'[e] = AtOrigin(user[e])
    BY <1>0, <1>21 DEF CloseFile, Finds
  <2>2. Trusted(user[e]) => Trusted(AtOrigin(user[e]))
    BY <1>0, UserFacts
  <2>3. Trusted(user[e]) => Trusted(user'[e])
    BY <1>0, <2>1, <2>2, UserFacts
  <2> QED BY <1>0, <1>21, <2>3 DEF CloseFile, Go, Returned, Isolated, Terminated
<1>22. CASE Clean(e)
  BY <1>0, <1>22, UserFacts DEF Clean, Sends, AfterBatch, Go, Process, Returned, Isolated, Fallible
<1>23. CASE Done(e)
  <2>1. user'[e] = Restored(user[e])
    BY <1>0, <1>23 DEF Done, Finds
  <2>2. Trusted(user[e]) => Trusted(Restored(user[e]))
    BY <1>0, UserFacts
  <2>3. Trusted(user'[e])
    BY <1>0, <2>1, <2>2, UserFacts
  <2> QED BY <1>0, <1>23, <2>3 DEF Done, Go, Returned, Isolated, Terminated
<1>24. CASE Complete(e)
  BY <1>0, <1>24, UserFacts DEF Complete, Sends, AfterBatch, Go, Process, Returned, Isolated, Fallible
<1>25. CASE Pass(e)
  BY <1>0, <1>25, UserFacts DEF Pass, Receives, AfterBatch, Go, Process, Returned, Isolated, Fallible
<1>26. CASE GoesWrong(e)
  BY <1>0, <1>26, UserFacts DEF GoesWrong, AfterBatch, Go, Process, Returned, Isolated, Fallible
<1>27. CASE WriteFails(e)
  BY <1>0, <1>27, UserFacts DEF WriteFails, AppendFails, AfterBatch, Go, Process, Returned, Isolated, Fallible
<1>28. CASE Fail(e)
  <2>1. PICK kills \in {"user", "left aside"} :
          user' = [user EXCEPT ![e] = [Restored(user[e]) EXCEPT !.kills = kills]]
    <3>1. user[e].kills \in {"user", "tester", "left aside", "not begun"}
      BY <1>0 DEF Users, Whose
    <3> QED BY <1>28, <3>1 DEF Fail, Finds
  <2>2. user'[e] = [Restored(user[e]) EXCEPT !.kills = kills]
    BY <1>0, <2>1
  <2>3. Trusted(user'[e])
    BY <1>0, <2>2, UserFacts
  <2> QED BY <1>0, <1>28, <2>3 DEF Fail, Go, Returned, Isolated, Terminated
<1>29. CASE StopChecker(e)
  BY <1>0, <1>29, UserFacts DEF StopChecker, AfterBatch, Go, Process, Returned, Isolated, Fallible
<1>30. CASE Reap(e)
  BY <1>0, <1>30, UserFacts DEF Reap, AfterBatch, Go, Process, Returned, Isolated, Fallible
<1>31. CASE Finish(e)
  <2>1. user'[e] = [AtOrigin(user[e]) EXCEPT !.mark = "user"]
    BY <1>0, <1>31 DEF Finish, Finds
  <2>2. pc[e] = "finish" /\ pc'[e] = "unlock" /\ child' = child
    BY <1>0, <1>31 DEF Finish, Go, Process
  <2>3. Trusted(user[e]) /\ child[e] = "none"
    BY <2>2 DEF Returned, Isolated
  <2>4. HandedBack(user'[e]) /\ Trusted(user'[e])
    <3>1. HandedBack(user'[e]) /\ user'[e] \in Users
      BY <1>0, <2>1, <2>3, UserFacts
    <3> QED BY <3>1, UserFacts
  <2> QED BY <2>2, <2>3, <2>4 DEF Returned
<1>32. CASE Unlock(e)
  BY <1>0, <1>32, UserFacts DEF Unlock, AfterBatch, Go, Process, Returned, Isolated, Fallible
<1>33. CASE Plans(e)
  <2>1. pc' = pc /\ user' = user /\ child[e] = "runs"
    BY <1>33, Checked DEF Checking
  <2> QED BY <2>1 DEF Returned
<1>34. CASE Checks(e)
  <2>1. pc' = pc /\ user' = user /\ child[e] = "runs"
    BY <1>34, Checked DEF Checking
  <2> QED BY <2>1 DEF Returned
<1>35. CASE Commands(e)
  <2>1. pc' = pc /\ user' = user /\ child[e] = "runs"
    BY <1>35, Checked DEF Checking
  <2> QED BY <2>1 DEF Returned
<1>36. CASE Hears(e)
  <2>1. pc' = pc /\ user' = user /\ child[e] = "runs"
    BY <1>36, Checked DEF Checking
  <2> QED BY <2>1 DEF Returned
<1>37. CASE Misbehaves(e)
  BY <1>0, <1>37, UserFacts DEF Misbehaves, AfterBatch, Go, Process, Returned, Isolated, Fallible
<1>38. CASE Crash(e)
  <2>1. user'[e] = Mine /\ pc'[e] = "dead" /\ child'[e] = "none"
    BY <1>0, <1>38 DEF Crash, Finds, Go
  <2> QED BY <1>0, <2>1, UserFacts DEF Returned
<1> QED
  BY <1>1, <1>2, <1>3, <1>4, <1>5, <1>6, <1>7, <1>8, <1>9, <1>10, <1>11, <1>12, <1>13, <1>14, <1>15, <1>16,
     <1>17, <1>18, <1>19, <1>20, <1>21, <1>22, <1>23, <1>24, <1>25, <1>26, <1>27, <1>28, <1>29, <1>30, <1>31,
     <1>32, <1>33, <1>34, <1>35, <1>36, <1>37, <1>38
  DEF Moves, Working, Checking

(***************************************************************************)
(* The part of the invariant that does not depend on the checker.          *)
(***************************************************************************)
LEMMA CoreInit == Init => Core
<1> SUFFICES ASSUME Init PROVE Core
  OBVIOUS
<1>1. Types
  <2>1. "idle" \in Places /\ Mine \in Users /\ <<>> \in Seq(Sent) /\ <<>> \in Seq(Said)
    BY DEF Places, Mine, Users, Whose
  <2> QED BY <2>1, NewRecords DEF Init, Types
<1>2. /\ NewRun.seq = 0 /\ NewRun.acked = 0 /\ NewRun.pending = 0 /\ NewRun.locked = FALSE
      /\ NewRun.success = FALSE
  BY DEF NewRun
<1>3. ASSUME NEW e \in Editors
      PROVE  Numbers(e) /\ Owner(e) /\ Evidence(e) /\ Returned(e) /\ Succeeds(e)
  <2>1. pc[e] = "idle" /\ run[e] = NewRun /\ user[e] = Mine /\ child[e] = "none"
    BY DEF Init
  <2>2. Numbers(e)
    BY <1>2, <2>1 DEF Numbers, Unstarted, InBatch, AllAcknowledged
  <2>3. Owner(e) /\ Evidence(e) /\ Succeeds(e)
    BY <1>2, <2>1 DEF Owner, Evidence, Succeeds, Fallible
  <2>4. Trusted(Mine) /\ HandedBack(Mine)
    <3>1. Mine \in Users
      BY DEF Mine, Users, Whose
    <3> QED BY <3>1, UserFacts
  <2> QED BY <2>1, <2>2, <2>3, <2>4 DEF Returned
<1>4. OneOwner
  BY <1>2 DEF Init, OneOwner
<1> QED BY <1>1, <1>3, <1>4 DEF Core

LEMMA CoreStep ==
  ASSUME Core, [Next]_vars
  PROVE  Core'
<1>1. CASE UNCHANGED vars
  <2>1. Types' /\ OneOwner'
    BY <1>1 DEF Core, vars, Types, OneOwner
  <2>2. ASSUME NEW e \in Editors
        PROVE  Numbers(e)' /\ Owner(e)' /\ Evidence(e)' /\ Returned(e)' /\ Succeeds(e)'
    <3>1. Numbers(e)' /\ Succeeds(e)'
      BY <1>1 DEF Core, vars, Numbers, Succeeds
    <3>2. Owner(e)' /\ Evidence(e)' /\ Returned(e)'
      BY <1>1 DEF Core, vars, Owner, Evidence, Returned
    <3> QED BY <3>1, <3>2
  <2> QED BY <2>1, <2>2 DEF Core
<1>2. ASSUME NEW e \in Editors, Moves(e)
      PROVE  Core'
  <2>0. /\ Types /\ OneOwner
        /\ \A f \in Editors : Numbers(f) /\ Owner(f) /\ Evidence(f) /\ Returned(f) /\ Succeeds(f)
    BY DEF Core
  <2>1. Types'
    BY <1>2, <2>0, TypesStep
  <2>2. Numbers(e)' /\ Owner(e)' /\ Evidence(e)' /\ Returned(e)' /\ Succeeds(e)'
    BY <1>2, <2>0, NumbersStep, OwnerStep, EvidenceStep, ReturnedStep, SucceedsStep
  <2>3. ASSUME NEW f \in Editors, f # e
        PROVE  Numbers(f)' /\ Owner(f)' /\ Evidence(f)' /\ Returned(f)' /\ Succeeds(f)'
    <3>1. pc'[f] = pc[f] /\ run'[f] = run[f] /\ user'[f] = user[f] /\ child'[f] = child[f]
      BY <1>2, <2>0, <2>3, Others
    <3>2. Numbers(f)' /\ Returned(f)' /\ Succeeds(f)'
      BY <2>0, <3>1 DEF Numbers, Returned, Succeeds
    <3>3. CASE run[f].locked
      <4>1. lock /\ ~run[e].locked
        BY <2>0, <2>3, <3>3 DEF Owner, OneOwner
      <4>2. lock' = lock /\ journal' = journal
        BY <1>2, <2>0, <4>1, Directory
      <4> QED BY <2>0, <3>1, <3>2, <4>2 DEF Owner, Evidence
    <3>4. CASE ~run[f].locked
      <4>1. pc[f] \notin {"send", "result"}
        BY <2>0, <3>4 DEF Owner, Fallible
      <4> QED BY <2>0, <3>1, <3>2, <3>4, <4>1 DEF Owner, Evidence
    <3> QED BY <3>3, <3>4
  <2>4. OneOwner'
    <3>1. ASSUME NEW f \in Editors, f # e, run'[e].locked
          PROVE  ~run'[f].locked
      <4>1. run'[f] = run[f]
        BY <1>2, <2>0, <3>1, Others
      <4>2. run[e].locked \/ ~lock
        BY <1>2, <2>0, <3>1, OwnerStep
      <4> QED BY <2>0, <3>1, <4>1, <4>2 DEF Owner, OneOwner
    <3>2. \A f \in Editors : f # e => run'[f] = run[f]
      BY <1>2, <2>0, Others
    <3> QED BY <2>0, <3>1, <3>2 DEF OneOwner
  <2> QED BY <2>1, <2>2, <2>3, <2>4 DEF Core
<1> QED BY <1>1, <1>2 DEF Next, Moves

\* What holds whatever the checker says or does: types, the numbers of a
\* run, one owner of the directory, the evidence in it, what is owed to the
\* user, and when success may be noted.
THEOREM CoreHolds == Spec => []Core
<1>1. Init => Core
  BY CoreInit
<1>2. Core /\ [Next]_vars => Core'
  BY CoreStep
<1> QED BY <1>1, <1>2, PTL DEF Spec

LEMMA CoreImplies == Core => EvidenceKept /\ HandsBack
<1> SUFFICES ASSUME Core PROVE EvidenceKept /\ HandsBack
  OBVIOUS
<1>1. ASSUME NEW e \in Editors
      PROVE  /\ run[e].kind \in Kinds /\ run[e].keep \in BOOLEAN /\ run[e].seq \in 0..MaxSeq
             /\ run[e].acked \in 0..run[e].seq /\ run[e].pending \in 0..Batch
             /\ run[e].used \in Seq(Lines) /\ child[e] \in {"none", "runs", "exit 0", "exit 1"}
             /\ checker[e].count \in 0..MaxSeq /\ checker[e].batch \in 0..Batch
  <2>1. run[e] \in Runs /\ checker[e] \in Checkers /\ child[e] \in {"none", "runs", "exit 0", "exit 1"}
        /\ run[e].acked <= run[e].seq
    BY DEF Core, Types, Numbers
  <2>2. run[e].acked \in 0..run[e].seq
    <3>1. run[e].acked \in 0..MaxSeq /\ run[e].seq \in 0..MaxSeq /\ run[e].acked <= run[e].seq
      BY <2>1, RunFields
    <3> QED BY <3>1, Sizes
  <2> QED BY <2>1, <2>2, RunFields, CheckerFields
<1>2. TypeOK
  BY <1>1 DEF TypeOK, Core, Types
<1>3. EvidenceKept
  BY <1>2 DEF EvidenceKept, Core, Evidence, Within
<1>4. HandsBack
  BY DEF HandsBack, Core, Returned
<1> QED BY <1>3, <1>4

\* What the checker has not acknowledged is in pending.trace, whatever is
\* lost, crashes or lies: EvidenceKept, for every number of editors, sizes
\* of the journal and of the batches.  (chez-tester.c, "Only a matching
\* acknowledgment permits deletion/reuse")
THEOREM EvidenceIsKept == Spec => []EvidenceKept
  BY CoreHolds, CoreImplies, PTL

\* Whatever happened in a run, its user has everything back at the end of it,
\* and no checker process is left: HandsBack.  (chez-tester.c, run_test)
THEOREM UserIsHandedBack == Spec => []HandsBack
  BY CoreHolds, CoreImplies, PTL

(***************************************************************************)
(* The protocol, step by step of the editor.                               *)
(***************************************************************************)
LEMMA TookOnly ==
  ASSUME from \in [Editors -> Seq(Said)], NEW e \in Editors, NEW line, Receives(e, line)
  PROVE  /\ from[e] # <<>>
         /\ \A x : from[e] = <<x>> => line = x /\ from'[e] = <<>>
         /\ \A x, y : from[e] = <<x, y>> => line = x /\ from'[e] = <<y>>
<1>1. from[e] # <<>> /\ Head(from[e]) = line /\ from'[e] = Tail(from[e])
  BY DEF Receives
<1>2. \A x : Head(<<x>>) = x /\ Tail(<<x>>) = <<>>
  OBVIOUS
<1>3. \A x, y : Head(<<x, y>>) = x /\ Tail(<<x, y>>) = <<y>>
  <2>1. \A x, y : Head(<<x, y>>) = x
    OBVIOUS
  <2>2. ASSUME NEW x, NEW y
        PROVE  Tail(<<x, y>>) = <<y>>
    <3>1. <<x, y>> \in Seq({x, y}) /\ <<x, y>> # <<>> /\ <<y>> \in Seq({x, y})
      OBVIOUS
    <3>2. Tail(<<x, y>>) \in Seq({x, y}) /\ Len(Tail(<<x, y>>)) = 1 /\ Tail(<<x, y>>)[1] = y
      BY <3>1, HeadTailProperties
    <3> QED BY <3>1, <3>2, SeqEqual
  <2> QED BY <2>1, <2>2
<1> QED BY <1>1, <1>2, <1>3

LEMMA SentAlone ==
  ASSUME to \in [Editors -> Seq(Sent)], NEW e \in Editors, NEW line, Sends(e, line), to[e] = <<>>
  PROVE  to'[e] = <<line>>
<1>1. to'[e] = Append(<<>>, line)
  BY DEF Sends
<1> QED BY <1>1

\* the end of a run asks nothing of the two sides but the success
LEMMA QuietEnd ==
  ASSUME NEW e \in Editors, pc'[e] \in {"fail", "stop", "reap", "finish", "unlock", "dead"},
         run'[e].success => ~run'[e].bad
  PROVE  Protocol(e)'
<1>1. /\ pc'[e] \notin {"idle", "prepare", "spawn"} /\ pc'[e] \notin Preparing /\ pc'[e] \notin Unstarted
      /\ pc'[e] \notin {"plan", "ready", "fixture", "step", "send", "batch", "ack", "renew", "renewing", "end"}
      /\ pc'[e] \notin {"pass", "isolated", "heading of edits", "send READY", "command", "base", "obey", "result"}
      /\ pc'[e] \notin {"ack of result", "renew edits", "heading of next", "clean", "complete"}
  BY DEF Preparing, Unstarted
<1> QED BY <1>1 DEF Protocol

KeepsRun(e) ==
  /\ run'[e].seq = run[e].seq /\ run'[e].pending = run[e].pending /\ run'[e].plan = run[e].plan
  /\ run'[e].success = run[e].success /\ run'[e].bad = run[e].bad
KeepsChecker(e) == child'[e] = child[e] /\ checker'[e] = checker[e]

LEMMA TwoLines ==
  \A x, y : /\ <<x>> \o <<y>> = <<x, y>> /\ <<>> \o <<y>> = <<y>> /\ <<>> \o <<x, y>> = <<x, y>>
<1> SUFFICES ASSUME NEW x, NEW y
             PROVE  /\ <<x>> \o <<y>> = <<x, y>> /\ <<>> \o <<y>> = <<y>> /\ <<>> \o <<x, y>> = <<x, y>>
  OBVIOUS
<1> DEFINE S == {x, y}
<1>1. <<x>> \in Seq(S) /\ <<y>> \in Seq(S) /\ <<x, y>> \in Seq(S)
  OBVIOUS
<1>2. <<x>> \o <<y>> \in Seq(S) /\ Len(<<x>> \o <<y>>) = 2
  BY <1>1, ConcatProperties
<1>3. \A i \in 1..2 : (<<x>> \o <<y>>)[i] = <<x, y>>[i]
  BY <1>1, ConcatProperties
<1> HIDE DEF S
<1>4. <<x>> \o <<y>> = <<x, y>>
  BY <1>1, <1>2, <1>3, SeqEqual
<1> QED BY <1>1, <1>4, ConcatEmptySeq

LEMMA EmptyThen == \A q, x, y : q = <<>> => q \o <<x, y>> = <<x, y>>
  BY TwoLines

\* nothing is on its way
LEMMA NothingTold ==
  ASSUME NEW e \in Editors, child'[e] = "runs", checker'[e].next = "lines", from'[e] = <<>>, to'[e] = <<>>,
         checker'[e].count = run'[e].seq, checker'[e].batch = 0, run'[e].pending = 0, run'[e].seq \in Int
  PROVE  Telling(e, Len(to[e]))' /\ ~WrongAmong(e, Len(to[e]))'
<1>1. Len(to'[e]) = 0 /\ 1..0 = {}
  OBVIOUS
<1> QED BY <1>1 DEF Telling, WrongAmong

\* when no observation waits for an acknowledgment, none is on its way
LEMMA AllTold ==
  ASSUME NEW e \in Editors, to[e] \in Seq(Sent), Telling(e, Len(to[e])), run[e].pending = 0,
         checker[e] \in Checkers, run[e].seq \in Int
  PROVE  /\ to[e] = <<>> /\ checker[e].batch = 0 /\ checker[e].count = run[e].seq
         /\ ~WrongAmong(e, Len(to[e]))
<1>1. checker[e].batch \in Nat /\ checker[e].count \in Nat /\ Len(to[e]) \in Nat
  BY CheckerFields, LenProperties, Sizes
<1>2. /\ checker[e].count + Len(to[e]) = run[e].seq /\ checker[e].batch + Len(to[e]) = 0
  BY DEF Telling
<1>3. Len(to[e]) = 0 /\ checker[e].batch = 0 /\ checker[e].count = run[e].seq
  BY <1>1, <1>2
<1>4. to[e] = <<>> /\ 1..0 = {}
  BY <1>3, EmptySeq
<1> QED BY <1>3, <1>4 DEF WrongAmong

LEMMA OneMore ==
  ASSUME NEW e \in Editors, NEW n \in Nat, Telling(e, n), run[e].seq \in Int, run[e].pending \in Int,
         checker[e].count \in Int, checker[e].batch \in Int
  PROVE  /\ checker[e].count + (n + 1) = run[e].seq + 1 /\ checker[e].batch + (n + 1) = run[e].pending + 1
         /\ checker[e].count + (n + 1) - 1 = run[e].seq
<1>1. checker[e].count + n = run[e].seq /\ checker[e].batch + n = run[e].pending
  BY DEF Telling
<1> QED BY <1>1

LEMMA ToldOne ==
  ASSUME NEW e \in Editors, to[e] \in Seq(Sent), Telling(e, Len(to[e])),
         WrongAmong(e, Len(to[e])) => run[e].bad, run[e].bad \in BOOLEAN,
         to'[e] = Append(to[e], <<"S", run[e].seq, ~run[e].bad>>), from' = from,
         child'[e] = child[e], checker'[e] = checker[e],
         run'[e].seq = run[e].seq + 1, run'[e].pending = run[e].pending + 1, run'[e].bad = run[e].bad,
         run[e].seq \in Int, run[e].pending \in Int, checker[e].count \in Int, checker[e].batch \in Int
  PROVE  Telling(e, Len(to[e]))' /\ (run'[e].bad <=> WrongAmong(e, Len(to[e]))')
<1> DEFINE n == Len(to[e])
           line == <<"S", run[e].seq, ~run[e].bad>>
<1>1. n \in Nat /\ Len(to'[e]) = n + 1
  BY LenProperties
<1>2. to'[e][n + 1] = line /\ \A i \in 1..n : to'[e][i] = to[e][i]
  OBVIOUS
<1>3. /\ child[e] = "runs" /\ checker[e].next = "lines" /\ from[e] = <<>>
      /\ checker[e].count + n = run[e].seq /\ checker[e].batch + n = run[e].pending
      /\ \A i \in 1..n : to[e][i] = <<"S", checker[e].count + i - 1, to[e][i][3]>>
  BY DEF Telling
<1>4. /\ checker[e].count + (n + 1) = run[e].seq + 1 /\ checker[e].batch + (n + 1) = run[e].pending + 1
      /\ checker[e].count + (n + 1) - 1 = run[e].seq
  BY <1>1, OneMore
<1>5. line[3] = ~run[e].bad /\ line = <<"S", run[e].seq, line[3]>>
  OBVIOUS
<1>6. 1..(n + 1) = (1..n) \cup {n + 1}
  BY <1>1
<1> HIDE DEF line, n
<1>7. \A i \in 1..(n + 1) : to'[e][i] = <<"S", checker[e].count + i - 1, to'[e][i][3]>>
  BY <1>2, <1>3, <1>4, <1>5, <1>6
<1>8. Telling(e, Len(to[e]))'
  BY <1>1, <1>3, <1>4, <1>7 DEF Telling
<1>9. (\E i \in 1..(n + 1) : ~to'[e][i][3]) <=> (run[e].bad \/ \E i \in 1..n : ~to[e][i][3])
  BY <1>2, <1>5, <1>6
<1>10. (\E i \in 1..n : ~to[e][i][3]) => run[e].bad
  BY DEF WrongAmong, n
<1> QED BY <1>1, <1>8, <1>9, <1>10 DEF WrongAmong

LEMMA ToldAll ==
  ASSUME NEW e \in Editors, to[e] \in Seq(Sent), Telling(e, Len(to[e])),
         run[e].bad <=> WrongAmong(e, Len(to[e])), to'[e] = Append(to[e], <<"B", run[e].seq>>),
         from' = from, child'[e] = child[e], checker'[e] = checker[e], run'[e].seq = run[e].seq,
         run'[e].pending = run[e].pending, run'[e].bad = run[e].bad
  PROVE  AckProtocol(e)'
<1> DEFINE n == Len(to[e])
<1>1. n \in Nat /\ Len(to'[e]) = n + 1 /\ n \in 0..(Len(to'[e]) - 1)
  BY LenProperties
<1>2. to'[e][n + 1] = <<"B", run[e].seq>> /\ \A i \in 1..n : to'[e][i] = to[e][i]
  OBVIOUS
<1> DEFINE T(m) == /\ child'[e] = "runs" /\ checker'[e].next = "lines" /\ from'[e] = <<>>
                   /\ checker'[e].count + m = run'[e].seq /\ checker'[e].batch + m = run'[e].pending
                   /\ \A i \in 1..m : to'[e][i] = <<"S", checker'[e].count + i - 1, to'[e][i][3]>>
<1>3. T(n) /\ (run'[e].bad <=> \E i \in 1..n : ~to'[e][i][3])
  BY <1>2 DEF Telling, WrongAmong
<1> HIDE DEF n
<1>4. PICK m \in 0..(Len(to'[e]) - 1) : m = n
  BY <1>1
<1>5. Telling(e, m)'
  BY <1>3, <1>4 DEF Telling
<1>6. run'[e].bad <=> WrongAmong(e, m)'
  BY <1>3, <1>4 DEF WrongAmong
<1>7. Len(to'[e]) = m + 1 /\ to'[e][m + 1] = <<"B", run'[e].seq>>
  BY <1>1, <1>2, <1>4
<1> QED BY <1>4, <1>5, <1>6, <1>7 DEF AckProtocol

\* which of the cases the next line belongs to
LEMMA CommandLines ==
  ASSUME NEW e \in Editors, CommandProtocol(e), from[e] # <<>>
  PROVE  /\ (\A x : from[e] = <<x>> => x[1] = "FILE") => Answered(e, "base", <<"FILE", checker[e].file - 1>>)
         /\ (\A x : from[e] = <<x>> => x[1] = "DONE") => Answered(e, "complete", <<"DONE", run[e].seq>>)
         /\ (\A x : from[e] = <<x>> => x[1] = "E") =>
              /\ Agree(e, run[e].seq) /\ to[e] = <<>> /\ checker[e].next = "result"
              /\ from[e] = <<<<"E", run[e].seq>>>>
         /\ (\A x : from[e] = <<x>> => x[1] = "CLOSE") =>
              /\ Agree(e, run[e].seq) /\ to[e] = <<>> /\ checker[e].next = "clean"
              /\ from[e] = <<<<"CLOSE", checker[e].file - 1>>>>
<1> DEFINE file == <<"FILE", checker[e].file - 1>>
           done == <<"DONE", run[e].seq>>
           command == <<"E", run[e].seq>>
           close == <<"CLOSE", checker[e].file - 1>>
<1>1. file[1] = "FILE" /\ done[1] = "DONE" /\ command[1] = "E" /\ close[1] = "CLOSE"
  OBVIOUS
<1>2. \/ Answered(e, "base", file) \/ Answered(e, "complete", done)
      \/ Agree(e, run[e].seq) /\ to[e] = <<>> /\ checker[e].next = "result" /\ from[e] = <<command>>
      \/ Agree(e, run[e].seq) /\ to[e] = <<>> /\ checker[e].next = "clean" /\ from[e] = <<close>>
  BY TwoLines DEF CommandProtocol, Hearing, Waits, Ahead
<1> HIDE DEF file, done, command, close
<1>3. \/ from[e] = <<file>> /\ Answered(e, "base", file)
      \/ from[e] = <<done>> /\ Answered(e, "complete", done)
      \/ from[e] = <<command>> /\ Agree(e, run[e].seq) /\ to[e] = <<>> /\ checker[e].next = "result"
      \/ from[e] = <<close>> /\ Agree(e, run[e].seq) /\ to[e] = <<>> /\ checker[e].next = "clean"
  BY <1>2 DEF Answered
<1> QED BY <1>1, <1>3 DEF file, done, command, close

LEMMA ProtocolWorks ==
  ASSUME Core, NEW e \in Editors, Protocol(e), Begin(e) \/ Working(e)
  PROVE  Protocol(e)'
<1> DEFINE r == run[e]
<1>0. /\ pc \in [Editors -> Places] /\ run \in [Editors -> Runs] /\ r \in Runs
      /\ to \in [Editors -> Seq(Sent)] /\ from \in [Editors -> Seq(Said)]
      /\ DOMAIN child = Editors /\ DOMAIN checker = Editors
  BY DEF Core, Types
<1>i. r.seq \in Int /\ r.pending \in Int /\ checker[e].count \in Int /\ checker[e].batch \in Int
  <2>1. checker[e] \in Checkers
    BY DEF Core, Types
  <2> QED BY <1>0, <2>1, RunFields, CheckerFields, Sizes
<1>n. Types /\ Numbers(e) /\ Succeeds(e)
  BY DEF Core
<1>s. r.success => ~r.bad
  BY DEF Protocol
<1>f. pc[e] \in Fallible \cup {"idle", "prepare"} => ~r.success
  BY <1>n DEF Succeeds, Fallible
<1>1. CASE Begin(e)
  <2>1. pc[e] = "idle" /\ pc'[e] = "prepare" /\ run' = run
    BY <1>0, <1>1 DEF Begin, Go
  <2>2. ~r.bad
    BY <2>1 DEF Protocol
  <2> QED BY <2>1, <2>2 DEF Protocol, Preparing, Unstarted
<1>2. CASE Prepare(e)
  <2>1. pc[e] = "prepare" /\ ~r.bad /\ ~r.success
    BY <1>2, <1>f DEF Prepare, Protocol
  <2>2. CASE lock
    <3>1. pc'[e] = "fail" /\ run' = run
      BY <1>0, <1>2, <2>2 DEF Prepare, Go
    <3> QED BY <2>1, <3>1, QuietEnd
  <2>3. CASE ~lock
    <3>1. \E plan, keep \in BOOLEAN :
            run' = [run EXCEPT ![e] = [r EXCEPT !.locked = TRUE, !.plan = plan, !.keep = keep]]
      BY <1>2, <2>3 DEF Prepare, Became
    <3>2. ~run'[e].bad
      BY <1>0, <2>1, <3>1 DEF Runs
    <3>3. pc'[e] = "spawn"
      BY <1>0, <1>2, <2>3 DEF Prepare, Go
    <3> QED BY <3>2, <3>3 DEF Protocol, Preparing, Unstarted
  <2> QED BY <2>2, <2>3
<1>3. CASE StartChecker(e)
  <2>1. /\ pc[e] = "spawn" /\ run' = run /\ child'[e] = "runs" /\ checker'[e] = NewChecker
        /\ to'[e] = <<>> /\ from'[e] = <<>> /\ pc'[e] = (IF r.plan THEN "plan" ELSE "header")
    BY <1>0, <1>3 DEF StartChecker, Go
  <2>2. ~r.bad /\ r.seq = 0
    BY <1>n, <2>1 DEF Protocol, Numbers, Unstarted
  <2>3. NewChecker.count = 0 /\ NewChecker.next = "start" /\ NewChecker.batch = 0
    BY DEF NewChecker
  <2>4. Waits(e, "start")' /\ checker'[e].batch = 0
    BY <2>1, <2>2, <2>3 DEF Waits, Agree
  <2>5. CASE r.plan
    BY <2>1, <2>2, <2>4, <2>5 DEF Protocol, PlanProtocol, Preparing, Unstarted
  <2>6. CASE ~r.plan
    <3>1. Waits(e, HeaderNext(e))'
      BY <2>1, <2>4, <2>6 DEF HeaderNext
    <3> QED BY <2>1, <2>2, <2>4, <2>6, <3>1 DEF Protocol, Preparing, Unstarted
  <2> QED BY <2>5, <2>6
<1>4. CASE ReadPlan(e)
  <2>1. /\ pc[e] = "plan" /\ KeepsChecker(e) /\ to' = to
    BY <1>4 DEF ReadPlan, KeepsChecker, Process
  <2>2. PICK kind \in Kinds, keep \in BOOLEAN :
          /\ Receives(e, <<"PLAN", kind, keep>>)
          /\ Became(e, [r EXCEPT !.kind = kind, !.keep = keep /\ kind = "read"])
          /\ Go(e, IF kind = "read" THEN "header" ELSE "isolated")
    BY <1>4 DEF ReadPlan
  <2>3. KeepsRun(e)
    BY <1>0, <2>2 DEF KeepsRun, Became, Runs
  <2>4. PlanProtocol(e) /\ checker[e].batch = 0
    BY <2>1 DEF Protocol, Unstarted
  <2>5. from[e] # <<>> /\ from[e] \in Seq(Said)
    BY <1>0, <2>2 DEF Receives
  <2>6. ASSUME NEW k, NEW b, from[e] = <<<<"PLAN", k, b>>>>
        PROVE  k = kind /\ from'[e] = <<>>
    <3>1. <<"PLAN", kind, keep>> = <<"PLAN", k, b>> /\ from'[e] = <<>>
      BY <1>0, <2>2, <2>5, <2>6, TookOnly
    <3> QED BY <3>1
  <2>7. CASE \E b \in BOOLEAN : Answered(e, "header", <<"PLAN", "read", b>>) /\ r.plan
    <3>1. kind = "read" /\ from'[e] = <<>>
      BY <2>6, <2>7 DEF Answered
    <3>2. pc'[e] = "header"
      BY <1>0, <2>2, <3>1 DEF Go
    <3>3. Waits(e, HeaderNext(e))'
      BY <2>1, <2>3, <2>7, <3>1 DEF Answered, Agree, Waits, KeepsRun, KeepsChecker, HeaderNext
    <3> QED BY <1>f, <2>1, <2>3, <2>4, <3>2, <3>3
        DEF Protocol, KeepsRun, KeepsChecker, Preparing, Unstarted, Fallible
  <2>8. CASE \E b \in BOOLEAN, k \in {"edit", "search"} : Answered(e, "ready", <<"PLAN", k, b>>) /\ r.plan
    <3>1. kind # "read" /\ from'[e] = <<>>
      BY <2>6, <2>8 DEF Answered
    <3>2. pc'[e] = "isolated"
      BY <1>0, <2>2, <3>1 DEF Go
    <3>3. Waits(e, "ready")'
      BY <2>1, <2>3, <2>8, <3>1 DEF Answered, Agree, Waits, KeepsRun, KeepsChecker
    <3> QED BY <1>f, <2>1, <2>3, <2>4, <3>2, <3>3
        DEF Protocol, KeepsRun, KeepsChecker, Preparing, Unstarted, Fallible
  <2> QED BY <2>4, <2>5, <2>7, <2>8 DEF PlanProtocol, Waits
<1>5. CASE NewBatch(e)
  <2>1. KeepsRun(e) /\ KeepsChecker(e) /\ to' = to /\ from' = from
    BY ZenonT(40), <1>0, <1>5 DEF NewBatch, Truncate, WriteHeading, KeepsRun, KeepsChecker, Became, Runs, Process, Pipes
  <2>2. \/ pc[e] = "header" /\ pc'[e] = "heading"
        \/ pc[e] = "heading" /\ pc'[e] = "send header"
        \/ pc[e] = "renew" /\ pc'[e] = "renewing"
        \/ pc[e] = "renewing" /\ pc'[e] = "step"
        \/ pc[e] = "renewing" /\ pc'[e] = "end"
        \/ pc[e] = "isolated" /\ pc'[e] = "heading of edits"
        \/ pc[e] = "heading of edits" /\ pc'[e] = "send READY"
        \/ pc[e] = "renew edits" /\ pc'[e] = "heading of next"
        \/ pc[e] = "heading of next" /\ pc'[e] = "command"
    BY <1>0, <1>5 DEF NewBatch, Truncate, WriteHeading, AfterBatch, Go
  <2>3. CASE pc[e] = "header" /\ pc'[e] = "heading"
    <3>1. Waits(e, HeaderNext(e)) /\ checker[e].batch = 0
      BY <2>3 DEF Protocol, Preparing, Unstarted
    <3>2. Waits(e, HeaderNext(e))' /\ checker'[e].batch = 0
      BY <1>i, <2>1, <3>1 DEF KeepsRun, KeepsChecker, Waits, Agree, HeaderNext
    <3> QED BY <1>f, <1>s, <2>1, <2>3, <3>2 DEF Protocol, KeepsRun, Fallible, Preparing, Unstarted
  <2>4. CASE pc[e] = "heading" /\ pc'[e] = "send header"
    <3>1. Waits(e, HeaderNext(e)) /\ checker[e].batch = 0
      BY <2>4 DEF Protocol, Preparing, Unstarted
    <3>2. Waits(e, HeaderNext(e))' /\ checker'[e].batch = 0
      BY <1>i, <2>1, <3>1 DEF KeepsRun, KeepsChecker, Waits, Agree, HeaderNext
    <3> QED BY <1>f, <1>s, <2>1, <2>4, <3>2 DEF Protocol, KeepsRun, Fallible, Preparing, Unstarted
  <2>5. CASE pc[e] = "renew" /\ pc'[e] = "renewing"
    <3>1. Waits(e, "lines") /\ checker[e].batch = 0
      BY <2>5 DEF Protocol
    <3>2. Waits(e, "lines")' /\ checker'[e].batch = 0
      BY <1>i, <2>1, <3>1 DEF KeepsRun, KeepsChecker, Waits, Agree
    <3> QED BY <1>f, <1>s, <2>1, <2>5, <3>2 DEF Protocol, KeepsRun, Fallible, Preparing, Unstarted
  <2>6. CASE pc[e] = "renewing" /\ pc'[e] = "step"
    <3>1. Waits(e, "lines") /\ checker[e].batch = 0
      BY <2>6 DEF Protocol
    <3>2. r.pending = 0
      BY <1>n, <2>6 DEF Numbers
    <3>3. Telling(e, Len(to[e]))' /\ ~run'[e].bad /\ ~WrongAmong(e, Len(to[e]))'
      BY <1>i, <2>1, <3>1, <3>2, NothingTold DEF KeepsRun, KeepsChecker, Waits, Agree
    <3> QED BY <2>6, <3>3 DEF Protocol, Preparing, Unstarted
  <2>7. CASE pc[e] = "renewing" /\ pc'[e] = "end"
    <3>1. Waits(e, "lines") /\ checker[e].batch = 0
      BY <2>7 DEF Protocol
    <3>2. Waits(e, "lines")' /\ checker'[e].batch = 0
      BY <1>i, <2>1, <3>1 DEF KeepsRun, KeepsChecker, Waits, Agree
    <3> QED BY <1>f, <1>s, <2>1, <2>7, <3>2 DEF Protocol, KeepsRun, Fallible, Preparing, Unstarted
  <2>8. CASE pc[e] = "isolated" /\ pc'[e] = "heading of edits"
    <3>1. Waits(e, "ready") /\ checker[e].batch = 0
      BY <2>8 DEF Protocol, Unstarted
    <3>2. Waits(e, "ready")' /\ checker'[e].batch = 0
      BY <1>i, <2>1, <3>1 DEF KeepsRun, KeepsChecker, Waits, Agree
    <3> QED BY <1>f, <1>s, <2>1, <2>8, <3>2 DEF Protocol, KeepsRun, Fallible, Preparing, Unstarted
  <2>9. CASE pc[e] = "heading of edits" /\ pc'[e] = "send READY"
    <3>1. Waits(e, "ready") /\ checker[e].batch = 0
      BY <2>9 DEF Protocol, Unstarted
    <3>2. Waits(e, "ready")' /\ checker'[e].batch = 0
      BY <1>i, <2>1, <3>1 DEF KeepsRun, KeepsChecker, Waits, Agree
    <3> QED BY <1>f, <1>s, <2>1, <2>9, <3>2 DEF Protocol, KeepsRun, Fallible, Preparing, Unstarted
  <2>10. CASE pc[e] = "renew edits" /\ pc'[e] = "heading of next"
    <3>1. Ahead(e, <<>>)
      BY <2>10 DEF Protocol
    <3>2. Ahead(e, <<>>)'
      BY <1>i, <2>1, <3>1 DEF KeepsRun, KeepsChecker, Ahead, Agree
    <3> QED BY <1>f, <1>s, <2>1, <2>10, <3>2 DEF Protocol, KeepsRun, Fallible, Preparing, Unstarted
  <2>11. CASE pc[e] = "heading of next" /\ pc'[e] = "command"
    <3>1. Ahead(e, <<>>)
      BY <2>11 DEF Protocol
    <3>2. CommandProtocol(e)'
      BY <1>i, <2>1, <3>1 DEF KeepsRun, KeepsChecker, Ahead, Agree, CommandProtocol
    <3> QED BY <1>f, <1>s, <2>1, <2>11, <3>2 DEF Protocol, KeepsRun, Fallible, Preparing, Unstarted
  <2> QED BY <2>2, <2>3, <2>4, <2>5, <2>6, <2>7, <2>8, <2>9, <2>10, <2>11
<1>6. CASE SendHeader(e)
  <2>1. pc[e] = "send header" /\ pc'[e] = "ready" /\ KeepsRun(e) /\ KeepsChecker(e)
    BY <1>0, <1>6 DEF SendHeader, KeepsRun, KeepsChecker, Go, Process
  <2>2. Waits(e, HeaderNext(e)) /\ checker[e].batch = 0
    BY <2>1 DEF Protocol, Preparing, Unstarted
  <2>3. from'[e] = from[e]
    BY <1>6 DEF SendHeader
  <2>4. to'[e] = <<<<"H">>>>
    BY <1>0, <1>6, <2>2, SentAlone DEF SendHeader, Waits
  <2>5. Hearing(e, HeaderNext(e), <<"H">>)' /\ checker'[e].batch = 0
    BY <2>1, <2>2, <2>3, <2>4 DEF Waits, Hearing, Agree, HeaderNext, KeepsRun, KeepsChecker
  <2> QED BY <1>f, <2>1, <2>5 DEF Protocol, KeepsRun, Preparing, Unstarted, Fallible
<1>7. CASE Ready(e)
  <2>1. pc[e] = "ready" /\ pc'[e] = "fixture" /\ KeepsRun(e) /\ KeepsChecker(e)
    BY <1>0, <1>7 DEF Ready, KeepsRun, KeepsChecker, Go, Process
  <2>2. (Hearing(e, HeaderNext(e), <<"H">>) \/ Answered(e, "lines", <<"READY">>)) /\ checker[e].batch = 0
    BY <2>1 DEF Protocol, Unstarted
  <2>3. to'[e] = to[e]
    BY <1>7 DEF Ready
  <2>4. from[e] # <<>>
    BY <1>7 DEF Ready, Receives
  <2>5. from'[e] = <<>> /\ Answered(e, "lines", <<"READY">>)
    BY <1>0, <1>7, <2>2, <2>4, TookOnly DEF Ready, Hearing, Answered
  <2>6. Waits(e, "lines")' /\ checker'[e].batch = 0
    BY <2>1, <2>2, <2>3, <2>4, <2>5 DEF Waits, Answered, Agree, KeepsRun, KeepsChecker
  <2> QED BY <1>f, <2>1, <2>6 DEF Protocol, KeepsRun, Preparing, Unstarted, Fallible
<1>8. CASE Fixture(e)
  <2>1. pc[e] = "fixture" /\ pc'[e] = "step" /\ KeepsRun(e) /\ KeepsChecker(e) /\ to' = to /\ from' = from
    BY <1>0, <1>8 DEF Fixture, KeepsRun, KeepsChecker, Go, Process, Pipes
  <2>2. Waits(e, "lines") /\ checker[e].batch = 0
    BY <2>1 DEF Protocol, Unstarted
  <2>3. r.pending = 0
    BY <1>n, <2>1 DEF Numbers, Unstarted
  <2>4. Telling(e, Len(to[e]))' /\ ~run'[e].bad /\ ~WrongAmong(e, Len(to[e]))'
    BY <1>i, <2>1, <2>2, <2>3, NothingTold DEF KeepsRun, KeepsChecker, Waits, Agree
  <2> QED BY <2>1, <2>4 DEF Protocol, Preparing, Unstarted
<1>9. CASE Step(e)
  <2>1. /\ pc[e] = "step" /\ KeepsChecker(e) /\ to' = to /\ from' = from
    BY <1>9 DEF Step, KeepsChecker, Process, Pipes
  <2>2. Rejected(e) \/ (Telling(e, Len(to[e])) /\ (r.bad <=> WrongAmong(e, Len(to[e]))))
    BY <2>1 DEF Protocol
  <2>3. CASE pc'[e] = "send" /\ \E good \in BOOLEAN :
               Journalled(e, [r EXCEPT !.bad = @ \/ ~good], <<"S", r.seq>>)
    <3>1. PICK good \in BOOLEAN : Journalled(e, [r EXCEPT !.bad = @ \/ ~good], <<"S", r.seq>>)
      BY <2>3
    <3> DEFINE s == [r EXCEPT !.bad = @ \/ ~good]
    <3>2. s \in Runs /\ s.seq = r.seq /\ s.pending = r.pending /\ (s.bad <=> r.bad \/ ~good)
      <4>1. s \in Runs
        BY <1>0, BadIn
      <4>2. \A v \in BOOLEAN : /\ [r EXCEPT !.bad = v].bad = v /\ [r EXCEPT !.bad = v].seq = r.seq
                              /\ [r EXCEPT !.bad = v].pending = r.pending
        BY <1>0 DEF Runs
      <4> QED BY <4>1, <4>2
    <3>3. Journalled(e, s, <<"S", r.seq>>)
      BY <3>1
    <3> HIDE DEF s
    <3>4. run'[e].seq = r.seq /\ run'[e].pending = r.pending /\ (run'[e].bad <=> r.bad \/ ~good)
      BY <1>0, <3>2, <3>3, JournalledLast
    <3>5. \/ Rejected(e)'
          \/ Telling(e, Len(to[e]))' /\ (WrongAmong(e, Len(to[e]))' => run'[e].bad)
      BY <2>1, <2>2, <3>4 DEF Rejected, Telling, WrongAmong, KeepsChecker
    <3>6. run'[e].success = r.success
      BY <1>0, <3>1 DEF Journalled, Became, Runs
    <3> QED BY <1>f, <2>1, <2>3, <3>5, <3>6 DEF Protocol, Preparing, Unstarted, Fallible
  <2>4. CASE /\ Became(e, [r EXCEPT !.over = TRUE])
             /\ pc'[e] = (IF r.pending = 0 THEN "end" ELSE "batch")
    <3>1. KeepsRun(e)
      BY <1>0, <2>4 DEF KeepsRun, Became, Runs
    <3>2. CASE r.pending = 0
      <4>1. Rejected(e)' \/ (Waits(e, "lines")' /\ checker'[e].batch = 0)
        <5>1. CASE Rejected(e)
          BY <2>1, <3>1, <5>1 DEF Rejected, KeepsRun, KeepsChecker
        <5>2. CASE Telling(e, Len(to[e])) /\ (r.bad <=> WrongAmong(e, Len(to[e])))
          <6>1. to[e] = <<>> /\ checker[e].batch = 0 /\ checker[e].count = r.seq /\ ~r.bad
            BY <1>0, <1>i, <1>n, <3>2, <5>2, AllTold DEF Types
          <6> QED BY <2>1, <3>1, <5>2, <6>1 DEF Telling, Waits, Agree, KeepsRun, KeepsChecker
        <5> QED BY <2>2, <5>1, <5>2
      <4> QED BY <1>f, <2>1, <2>4, <3>1, <3>2, <4>1 DEF Protocol, KeepsRun, Preparing, Unstarted, Fallible
    <3>3. CASE r.pending # 0
      <4>1. \/ Rejected(e)'
            \/ Telling(e, Len(to[e]))' /\ (run'[e].bad <=> WrongAmong(e, Len(to[e]))')
        BY <2>1, <2>2, <3>1 DEF Rejected, Telling, WrongAmong, KeepsRun, KeepsChecker
      <4> QED BY <1>f, <2>1, <2>4, <3>1, <3>3, <4>1 DEF Protocol, KeepsRun, Preparing, Unstarted, Fallible
    <3> QED BY <3>2, <3>3
  <2> QED BY <1>0, <1>9, <2>3, <2>4 DEF Step, Go
<1>10. CASE Send(e)
  <2>1. /\ pc[e] = "send" /\ pc'[e] \in {"step", "batch"} /\ KeepsChecker(e) /\ from' = from
        /\ Sends(e, Observed(r))
    BY <1>0, <1>10 DEF Send, Go, KeepsChecker, Process
  <2>2. /\ run'[e].seq = r.seq + 1 /\ run'[e].pending = r.pending + 1 /\ run'[e].bad = r.bad
        /\ run'[e].success = r.success
    BY <1>0, <1>10 DEF Send, Became, Runs
  <2>3. r.used # <<>> /\ r.used[Len(r.used)] = <<"S", r.seq>>
    BY <1>n, <2>1 DEF Numbers
  <2>4. Observed(r) = <<"S", r.seq, ~r.bad>>
    BY <1>0, <2>3, ObservedIs
  <2>5. child[e] = "runs" /\ to'[e] = Append(to[e], <<"S", r.seq, ~r.bad>>)
    BY <1>0, <2>1, <2>4 DEF Sends
  <2>6. Telling(e, Len(to[e])) /\ (WrongAmong(e, Len(to[e])) => r.bad)
    BY <2>1, <2>5 DEF Protocol, Rejected
  <2>7. Telling(e, Len(to[e]))' /\ (run'[e].bad <=> WrongAmong(e, Len(to[e]))')
    <3>1. r.bad \in BOOLEAN /\ to[e] \in Seq(Sent)
      BY <1>0, RunFields
    <3>2. child'[e] = child[e] /\ checker'[e] = checker[e] /\ from' = from
      BY <2>1 DEF KeepsChecker
    <3> QED BY <1>i, <2>2, <2>5, <2>6, <3>1, <3>2, ToldOne
  <2> QED BY <1>f, <2>1, <2>2, <2>7 DEF Protocol, Preparing, Unstarted, Fallible
<1>11. CASE AcknowledgeBatch(e)
  <2>1. /\ pc[e] = "batch" /\ pc'[e] = "ack" /\ KeepsRun(e) /\ KeepsChecker(e) /\ from' = from
        /\ Sends(e, <<"B", r.seq>>)
    BY <1>0, <1>11 DEF AcknowledgeBatch, KeepsRun, KeepsChecker, Go, Journalled, Became, Runs, Process
  <2>2. child[e] = "runs" /\ to'[e] = Append(to[e], <<"B", r.seq>>)
    BY <1>0, <2>1 DEF Sends
  <2>3. Telling(e, Len(to[e])) /\ (r.bad <=> WrongAmong(e, Len(to[e])))
    BY <2>1, <2>2 DEF Protocol, Rejected
  <2>4. AckProtocol(e)'
    BY <1>0, <2>1, <2>2, <2>3, ToldAll DEF KeepsChecker, KeepsRun
  <2> QED BY <1>f, <2>1, <2>4 DEF Protocol, KeepsRun, Preparing, Unstarted, Fallible
<1>12. CASE Acknowledged(e)
  <2>1. /\ pc[e] = "ack" /\ pc'[e] \in {"step", "end", "renew"} /\ KeepsChecker(e) /\ to' = to
        /\ Receives(e, <<"ACK", r.seq>>)
    BY <1>0, <1>12 DEF Acknowledged, AfterBatch, KeepsChecker, Go, Process
  <2>2. run'[e].seq = r.seq /\ run'[e].pending = 0 /\ run'[e].bad = r.bad /\ run'[e].success = r.success
    BY <1>0, <1>12 DEF Acknowledged, Became, Runs
  <2>3. AckProtocol(e) /\ from[e] # <<>> /\ from[e] \in Seq(Said)
    BY <1>0, <2>1 DEF Protocol, Receives
  <2>4. ~Rejected(e)
    <3>1. from[e] = <<<<"FAIL">>>> => <<"ACK", r.seq>> = <<"FAIL">>
      BY ZenonT(40), <1>0, <2>1, <2>3, TookOnly
    <3>2. <<"ACK", r.seq>>[1] # <<"FAIL">>[1]
      OBVIOUS
    <3> QED BY <3>1, <3>2 DEF Rejected
  <2>5. Answered(e, "lines", <<"ACK", r.seq>>) /\ checker[e].batch = 0
    BY <2>3, <2>4 DEF AckProtocol, Telling
  <2>6. from'[e] = <<>>
    BY <1>0, <2>1, <2>3, <2>5, TookOnly DEF Answered
  <2>7. Waits(e, "lines")' /\ checker'[e].batch = 0
    BY <2>1, <2>2, <2>5, <2>6 DEF Answered, Waits, Agree, KeepsChecker
  <2>8. Telling(e, Len(to[e]))' /\ ~run'[e].bad /\ ~WrongAmong(e, Len(to[e]))'
    BY <1>i, <2>1, <2>2, <2>7, NothingTold DEF Waits, Agree, KeepsChecker
  <2> QED BY <1>f, <2>1, <2>2, <2>7, <2>8 DEF Protocol, Preparing, Unstarted, Fallible
<1>13. CASE SendEnd(e)
  <2>1. /\ pc[e] = "end" /\ pc'[e] = "pass" /\ KeepsRun(e) /\ KeepsChecker(e) /\ from' = from
        /\ child[e] = "runs" /\ to'[e] = to[e] \o <<<<"Z", r.seq>>, Closed>>
    BY ZenonT(40), <1>0, <1>13 DEF SendEnd, KeepsRun, KeepsChecker, Go, Journalled, Became, Runs, Process
  <2>2. Waits(e, "lines") /\ checker[e].batch = 0
    BY <2>1 DEF Protocol, Rejected
  <2>3. to'[e] = <<<<"Z", r.seq>>, Closed>>
    BY <2>1, <2>2, EmptyThen DEF Waits
  <2>4. PassProtocol(e)'
    BY <2>1, <2>2, <2>3 DEF PassProtocol, Waits, Agree, KeepsRun, KeepsChecker
  <2> QED BY <1>f, <2>1, <2>4 DEF Protocol, KeepsRun, Preparing, Unstarted, Fallible
<1>14. CASE SendReady(e)
  <2>1. pc[e] = "send READY" /\ pc'[e] = "command" /\ KeepsRun(e) /\ KeepsChecker(e)
    BY <1>0, <1>14 DEF SendReady, KeepsRun, KeepsChecker, Go, Process
  <2>2. Waits(e, "ready")
    BY <2>1 DEF Protocol
  <2>3. from'[e] = from[e]
    BY <1>14 DEF SendReady
  <2>4. to'[e] = <<<<"READY">>>>
    BY <1>0, <1>14, <2>2, SentAlone DEF SendReady, Waits
  <2>5. Hearing(e, "ready", <<"READY">>)'
    BY <2>1, <2>2, <2>3, <2>4 DEF Waits, Hearing, Agree, KeepsRun, KeepsChecker
  <2>6. CommandProtocol(e)'
    BY <2>5 DEF CommandProtocol
  <2> QED BY <1>f, <2>1, <2>6 DEF Protocol, KeepsRun, Preparing, Unstarted, Fallible
<1>15. CASE File(e)
  <2>1. /\ pc[e] = "command" /\ pc'[e] = "base" /\ KeepsRun(e) /\ KeepsChecker(e) /\ to' = to
        /\ Receives(e, <<"FILE", r.file>>)
    BY <1>0, <1>15 DEF File, KeepsRun, KeepsChecker, Go, Process, Became, Runs
  <2>2. CommandProtocol(e) /\ from[e] # <<>> /\ from[e] \in Seq(Said)
    BY <1>0, <2>1 DEF Protocol, Receives
  <2>3. \A x : from[e] = <<x>> => x = <<"FILE", r.file>> /\ x[1] = "FILE" /\ from'[e] = <<>>
    <3>1. \A x : from[e] = <<x>> => x = <<"FILE", r.file>> /\ from'[e] = <<>>
      BY <1>0, <2>1, <2>2, TookOnly
    <3>2. <<"FILE", r.file>>[1] = "FILE"
      OBVIOUS
    <3> QED BY <3>1, <3>2
  <2>4. Answered(e, "base", <<"FILE", checker[e].file - 1>>)
    BY <2>2, <2>3, CommandLines
  <2>5. from'[e] = <<>>
    BY <2>3, <2>4 DEF Answered
  <2>6. Waits(e, "base")'
    BY <2>1, <2>4, <2>5 DEF Answered, Waits, Agree, KeepsRun, KeepsChecker
  <2> QED BY <1>f, <2>1, <2>6 DEF Protocol, KeepsRun, Preparing, Unstarted, Fallible
<1>16. CASE Base(e)
  <2>1. pc[e] = "base" /\ pc'[e] = "command" /\ KeepsRun(e) /\ KeepsChecker(e)
    BY <1>0, <1>16 DEF Base, KeepsRun, KeepsChecker, Go, Process
  <2>2. Waits(e, "base")
    BY <2>1 DEF Protocol
  <2>3. from'[e] = from[e]
    BY <1>16 DEF Base
  <2>4. to'[e] = <<<<"BASE">>>>
    BY <1>0, <1>16, <2>2, SentAlone DEF Base, Waits
  <2>5. Hearing(e, "base", <<"BASE">>)'
    BY <2>1, <2>2, <2>3, <2>4 DEF Waits, Hearing, Agree, KeepsRun, KeepsChecker
  <2>6. CommandProtocol(e)'
    BY <2>5 DEF CommandProtocol
  <2> QED BY <1>f, <2>1, <2>6 DEF Protocol, KeepsRun, Preparing, Unstarted, Fallible
<1>17. CASE Command(e)
  <2>1. /\ pc[e] = "command" /\ pc'[e] = "obey" /\ KeepsRun(e) /\ KeepsChecker(e) /\ to' = to
        /\ Receives(e, <<"E", r.seq>>)
    BY <1>0, <1>17 DEF Command, KeepsRun, KeepsChecker, Go, Process, Became, Runs, Journalled
  <2>2. CommandProtocol(e) /\ from[e] # <<>> /\ from[e] \in Seq(Said)
    BY <1>0, <2>1 DEF Protocol, Receives
  <2>3. \A x : from[e] = <<x>> => x = <<"E", r.seq>> /\ x[1] = "E" /\ from'[e] = <<>>
    <3>1. \A x : from[e] = <<x>> => x = <<"E", r.seq>> /\ from'[e] = <<>>
      BY <1>0, <2>1, <2>2, TookOnly
    <3>2. <<"E", r.seq>>[1] = "E"
      OBVIOUS
    <3> QED BY <3>1, <3>2
  <2>4. Agree(e, r.seq) /\ to[e] = <<>> /\ checker[e].next = "result" /\ from[e] = <<<<"E", r.seq>>>>
    BY <2>2, <2>3, CommandLines
  <2>5. from'[e] = <<>>
    BY <2>3, <2>4 DEF Answered
  <2>6. Waits(e, "result")'
    BY <2>1, <2>4, <2>5 DEF Answered, Waits, Agree, KeepsRun, KeepsChecker
  <2> QED BY <1>f, <2>1, <2>6 DEF Protocol, KeepsRun, Preparing, Unstarted, Fallible
<1>18. CASE Obey(e)
  <2>1. /\ pc[e] = "obey" /\ pc'[e] = "result" /\ KeepsChecker(e) /\ to' = to /\ from' = from
    BY <1>0, <1>18 DEF Obey, Go, KeepsChecker, Process, Pipes
  <2>2. Waits(e, "result")
    BY <2>1 DEF Protocol
  <2>3. run'[e].seq = r.seq /\ run'[e].success = r.success
    <3>1. PICK good \in BOOLEAN : Journalled(e, [r EXCEPT !.bad = @ \/ ~good], <<"R", r.seq>>)
      BY <1>18 DEF Obey
    <3> QED BY <1>0, <3>1 DEF Journalled, Became, Runs
  <2>4. child'[e] = "runs" /\ checker'[e].count = run'[e].seq /\ checker'[e].next = "result"
        /\ to'[e] = <<>> /\ from'[e] = <<>>
    BY <2>1, <2>2, <2>3 DEF Waits, Agree, KeepsChecker
  <2> QED BY <1>f, <2>1, <2>3, <2>4 DEF Protocol, Preparing, Unstarted, Fallible
<1>19. CASE Result(e)
  <2>1. /\ pc[e] = "result" /\ pc'[e] = "ack of result" /\ KeepsChecker(e) /\ from' = from
        /\ Sends(e, Observed(r))
    BY <1>0, <1>19 DEF Result, Go, KeepsChecker, Process
  <2>2. run'[e].seq = r.seq + 1 /\ run'[e].bad = r.bad /\ run'[e].success = r.success
    BY <1>0, <1>19 DEF Result, Became, Runs
  <2>3. r.used # <<>> /\ r.used[Len(r.used)] = <<"R", r.seq>>
    BY <1>n, <2>1 DEF Numbers
  <2>4. Observed(r) = <<"R", r.seq, ~r.bad>>
    BY <1>0, <2>3, ObservedIs
  <2>5. /\ child[e] = "runs" /\ checker[e].count = r.seq /\ checker[e].next = "result"
        /\ to[e] = <<>> /\ from[e] = <<>>
    BY <2>1 DEF Protocol
  <2>6. to'[e] = <<<<"R", r.seq, ~r.bad>>>>
    BY <1>0, <2>1, <2>4, <2>5, SentAlone
  <2>7. r.seq = run'[e].seq - 1
    BY <1>i, <2>2
  <2>8. ResultProtocol(e)'
    BY <2>1, <2>2, <2>5, <2>6, <2>7 DEF ResultProtocol, KeepsChecker
  <2> QED BY <1>f, <2>1, <2>2, <2>8 DEF Protocol, Preparing, Unstarted, Fallible
<1>20. CASE ResultAcknowledged(e)
  <2>1. /\ pc[e] = "ack of result" /\ pc'[e] = "renew edits" /\ KeepsChecker(e) /\ to' = to
        /\ Receives(e, <<"ACK", r.seq>>) /\ KeepsRun(e)
    BY <1>0, <1>20 DEF ResultAcknowledged, KeepsChecker, KeepsRun, Go, Became, Runs, Process
  <2>r. Receives(e, <<"ACK", r.seq>>) /\ from \in [Editors -> Seq(Said)]
    BY <1>0, <2>1
  <2>2. ResultProtocol(e) /\ from[e] # <<>> /\ from[e] \in Seq(Said)
    BY <1>0, <2>1 DEF Protocol, Receives
  <2>3. ~Rejected(e)
    <3>1. from[e] = <<<<"FAIL">>>> => <<"ACK", r.seq>> = <<"FAIL">>
      BY <2>r, TookOnly
    <3>2. <<"ACK", r.seq>>[1] # <<"FAIL">>[1]
      OBVIOUS
    <3> QED BY <3>1, <3>2 DEF Rejected
  <2>4. Ahead(e, <<<<"ACK", r.seq>>>>)
    BY <2>2, <2>3 DEF ResultProtocol
  <2>5. Ahead(e, <<>>)'
    <3>1. CASE checker[e].next = "in a text" /\ from[e] = <<<<"ACK", r.seq>>>>
      <4>1. from'[e] = <<>>
        BY <2>r, <3>1, TookOnly
      <4> QED BY <2>1, <2>4, <3>1, <4>1 DEF Ahead, Agree, KeepsRun, KeepsChecker
    <3>2. CASE checker[e].next = "result" /\ from[e] = <<<<"ACK", r.seq>>>> \o <<<<"E", r.seq>>>>
      <4>1. from[e] = <<<<"ACK", r.seq>>, <<"E", r.seq>>>>
        BY <3>2, TwoLines
      <4>2. from'[e] = <<<<"E", r.seq>>>>
        BY <2>r, <4>1, TookOnly
      <4>3. from'[e] = <<>> \o <<<<"E", r.seq>>>>
        BY <4>2, TwoLines
      <4> QED BY <2>1, <2>4, <3>2, <4>3 DEF Ahead, Agree, KeepsRun, KeepsChecker
    <3>3. CASE checker[e].next = "clean" /\ from[e] = <<<<"ACK", r.seq>>>> \o <<<<"CLOSE", checker[e].file - 1>>>>
      <4>1. from[e] = <<<<"ACK", r.seq>>, <<"CLOSE", checker[e].file - 1>>>>
        BY <3>3, TwoLines
      <4>2. from'[e] = <<<<"CLOSE", checker[e].file - 1>>>>
        BY <2>r, <4>1, TookOnly
      <4>3. from'[e] = <<>> \o <<<<"CLOSE", checker[e].file - 1>>>>
        BY <4>2, TwoLines
      <4> QED BY <2>1, <2>4, <3>3, <4>3 DEF Ahead, Agree, KeepsRun, KeepsChecker
    <3> QED BY <2>4, <3>1, <3>2, <3>3 DEF Ahead
  <2> QED BY <1>f, <2>1, <2>5 DEF Protocol, KeepsRun, Preparing, Unstarted, Fallible
<1>21. CASE CloseFile(e)
  <2>1. /\ pc[e] = "command" /\ pc'[e] = "clean" /\ KeepsRun(e) /\ KeepsChecker(e) /\ to' = to
        /\ Receives(e, <<"CLOSE", r.file - 1>>)
    BY <1>0, <1>21 DEF CloseFile, KeepsRun, KeepsChecker, Go, Process
  <2>2. CommandProtocol(e) /\ from[e] # <<>> /\ from[e] \in Seq(Said)
    BY <1>0, <2>1 DEF Protocol, Receives
  <2>3. \A x : from[e] = <<x>> => x = <<"CLOSE", r.file - 1>> /\ x[1] = "CLOSE" /\ from'[e] = <<>>
    <3>1. \A x : from[e] = <<x>> => x = <<"CLOSE", r.file - 1>> /\ from'[e] = <<>>
      BY <1>0, <2>1, <2>2, TookOnly
    <3>2. <<"CLOSE", r.file - 1>>[1] = "CLOSE"
      OBVIOUS
    <3> QED BY <3>1, <3>2
  <2>4. Agree(e, r.seq) /\ to[e] = <<>> /\ checker[e].next = "clean" /\ from[e] = <<<<"CLOSE", checker[e].file - 1>>>>
    BY <2>2, <2>3, CommandLines
  <2>5. from'[e] = <<>>
    BY <2>3, <2>4 DEF Answered
  <2>6. Waits(e, "clean")'
    BY <2>1, <2>4, <2>5 DEF Answered, Waits, Agree, KeepsRun, KeepsChecker
  <2> QED BY <1>f, <2>1, <2>6 DEF Protocol, KeepsRun, Preparing, Unstarted, Fallible
<1>22. CASE Clean(e)
  <2>1. pc[e] = "clean" /\ pc'[e] = "command" /\ KeepsRun(e) /\ KeepsChecker(e)
    BY <1>0, <1>22 DEF Clean, KeepsRun, KeepsChecker, Go, Process
  <2>2. Waits(e, "clean")
    BY <2>1 DEF Protocol
  <2>3. from'[e] = from[e]
    BY <1>22 DEF Clean
  <2>4. to'[e] = <<<<"CLEAN">>>>
    BY <1>0, <1>22, <2>2, SentAlone DEF Clean, Waits
  <2>5. Hearing(e, "clean", <<"CLEAN">>)'
    BY <2>1, <2>2, <2>3, <2>4 DEF Waits, Hearing, Agree, KeepsRun, KeepsChecker
  <2>6. CommandProtocol(e)'
    BY <2>5 DEF CommandProtocol
  <2> QED BY <1>f, <2>1, <2>6 DEF Protocol, KeepsRun, Preparing, Unstarted, Fallible
<1>23. CASE Done(e)
  <2>1. /\ pc[e] = "command" /\ pc'[e] = "complete" /\ KeepsRun(e) /\ KeepsChecker(e) /\ to' = to
        /\ Receives(e, <<"DONE", r.seq>>)
    BY <1>0, <1>23 DEF Done, KeepsRun, KeepsChecker, Go, Process
  <2>2. CommandProtocol(e) /\ from[e] # <<>> /\ from[e] \in Seq(Said)
    BY <1>0, <2>1 DEF Protocol, Receives
  <2>3. \A x : from[e] = <<x>> => x = <<"DONE", r.seq>> /\ x[1] = "DONE" /\ from'[e] = <<>>
    <3>1. \A x : from[e] = <<x>> => x = <<"DONE", r.seq>> /\ from'[e] = <<>>
      BY <1>0, <2>1, <2>2, TookOnly
    <3>2. <<"DONE", r.seq>>[1] = "DONE"
      OBVIOUS
    <3> QED BY <3>1, <3>2
  <2>4. Answered(e, "complete", <<"DONE", r.seq>>)
    BY <2>2, <2>3, CommandLines
  <2>5. from'[e] = <<>>
    BY <2>3, <2>4 DEF Answered
  <2>6. Waits(e, "complete")'
    BY <2>1, <2>4, <2>5 DEF Answered, Waits, Agree, KeepsRun, KeepsChecker
  <2> QED BY <1>f, <2>1, <2>6 DEF Protocol, KeepsRun, Preparing, Unstarted, Fallible
<1>24. CASE Complete(e)
  <2>1. pc[e] = "complete" /\ pc'[e] = "pass" /\ KeepsRun(e) /\ KeepsChecker(e)
    BY <1>0, <1>24 DEF Complete, KeepsRun, KeepsChecker, Go, Process
  <2>2. Waits(e, "complete")
    BY <2>1 DEF Protocol
  <2>3. from'[e] = from[e]
    BY <1>24 DEF Complete
  <2>4. to'[e] = <<<<"COMPLETE">>>>
    BY <1>0, <1>24, <2>2, SentAlone DEF Complete, Waits
  <2>5. Hearing(e, "complete", <<"COMPLETE">>)'
    BY <2>1, <2>2, <2>3, <2>4 DEF Waits, Hearing, Agree, KeepsRun, KeepsChecker
  <2>6. PassProtocol(e)'
    BY <2>5 DEF PassProtocol
  <2> QED BY <1>f, <2>1, <2>6 DEF Protocol, KeepsRun, Preparing, Unstarted, Fallible
<1>25. CASE Pass(e)
  <2>1. pc[e] = "pass" /\ pc'[e] = "stop" /\ run'[e].bad = r.bad /\ from[e] # <<>>
    BY <1>0, <1>25 DEF Pass, Go, Became, Runs, Receives
  <2>2. ~r.bad
    BY <2>1 DEF Protocol, PassProtocol, Hearing, Agree
  <2> QED BY <2>1, <2>2, QuietEnd
<1>26. CASE GoesWrong(e)
  <2>1. run' = run /\ pc'[e] \in {"fail", "stop", "reap", "finish", "unlock", "dead"}
    BY <1>0, <1>26 DEF GoesWrong, Go
  <2> QED BY <1>s, <2>1, QuietEnd
<1>27. CASE WriteFails(e)
  <2>1. run' = run /\ pc'[e] \in {"fail", "stop", "reap", "finish", "unlock", "dead"}
    BY <1>0, <1>27 DEF WriteFails, AppendFails, Go
  <2> QED BY <1>s, <2>1, QuietEnd
<1>28. CASE Fail(e)
  <2>1. run' = run /\ pc'[e] \in {"fail", "stop", "reap", "finish", "unlock", "dead"}
    BY <1>0, <1>28 DEF Fail, Go
  <2> QED BY <1>s, <2>1, QuietEnd
<1>29. CASE StopChecker(e)
  <2>1. run' = run /\ pc'[e] \in {"fail", "stop", "reap", "finish", "unlock", "dead"}
    BY <1>0, <1>29 DEF StopChecker, Go
  <2> QED BY <1>s, <2>1, QuietEnd
<1>30. CASE Reap(e)
  <2>1. run'[e].bad = r.bad /\ (run'[e].success => r.success) /\ pc'[e] = "finish"
    BY <1>0, <1>30 DEF Reap, Go, Became, Runs
  <2> QED BY <1>s, <2>1, QuietEnd
<1>31. CASE Finish(e)
  <2>1. run' = run /\ pc'[e] \in {"fail", "stop", "reap", "finish", "unlock", "dead"}
    BY <1>0, <1>31 DEF Finish, Go
  <2> QED BY <1>s, <2>1, QuietEnd
<1>32. CASE Unlock(e)
  <2>1. pc'[e] = "idle" /\ run'[e] = NewRun /\ ~NewRun.bad
    BY <1>0, <1>32 DEF Unlock, Go, Became, NewRun
  <2> QED BY <2>1 DEF Protocol, Preparing, Unstarted
<1> QED
  BY <1>1, <1>2, <1>3, <1>4, <1>5, <1>6, <1>7, <1>8, <1>9, <1>10, <1>11, <1>12, <1>13, <1>14, <1>15, <1>16,
     <1>17, <1>18, <1>19, <1>20, <1>21, <1>22, <1>23, <1>24, <1>25, <1>26, <1>27, <1>28, <1>29, <1>30, <1>31,
     <1>32
  DEF Working

(***************************************************************************)
(* The protocol, step by step of the checker.                              *)
(***************************************************************************)
LEMMA Quiet ==
  ASSUME NEW e \in Editors, to[e] = <<>>, checker[e].next \notin {"between", "in a text"},
         ~(checker[e].next = "start" /\ run[e].plan)
  PROVE  ~Checking(e)
  BY DEF Checking, Plans, Checks, Commands, Hears

LEMMA NoneLeft ==
  /\ \A x : SubSeq(<<x>>, 2, Len(<<x>>)) = <<>>
  /\ \A x, y : SubSeq(<<x, y>>, 3, Len(<<x, y>>)) = <<>>
  /\ SubSeq(<<>>, 1, Len(<<>>)) = <<>>
<1>1. ASSUME NEW x
      PROVE  SubSeq(<<x>>, 2, Len(<<x>>)) = <<>>
  <2>1. Len(<<x>>) = 1
    OBVIOUS
  <2> QED BY <2>1
<1>2. ASSUME NEW x, NEW y
      PROVE  SubSeq(<<x, y>>, 3, Len(<<x, y>>)) = <<>>
  <2>1. Len(<<x, y>>) = 2
    OBVIOUS
  <2> QED BY <2>1
<1>3. SubSeq(<<>>, 1, Len(<<>>)) = <<>>
  OBVIOUS
<1> QED BY <1>1, <1>2, <1>3

LEMMA SaidIs ==
  ASSUME Types, NEW e \in Editors, NEW n \in {0, 1, 2}, NEW lines, NEW c, NEW status, Says(e, n, lines, c, status)
  PROVE  /\ to'[e] = SubSeq(to[e], n + 1, Len(to[e])) /\ from'[e] = from[e] \o lines
         /\ checker'[e] = c /\ child'[e] = status /\ pc' = pc /\ run' = run
<1>1. /\ DOMAIN to = Editors /\ DOMAIN from = Editors /\ DOMAIN checker = Editors /\ DOMAIN child = Editors
  BY DEF Types
<1> QED BY <1>1 DEF Says

LEMMA SaidAlone ==
  ASSUME Types, NEW e \in Editors, NEW n \in {0, 1, 2}, NEW line, NEW c, NEW status,
         Says(e, n, <<line>>, c, status) \/ Says(e, n, <<>>, c, status), from[e] = <<>>,
         \/ n = 0 /\ to[e] = <<>>
         \/ n = 1 /\ \E x : to[e] = <<x>>
         \/ n = 2 /\ \E x, y : to[e] = <<x, y>>
  PROVE  /\ to'[e] = <<>> /\ checker'[e] = c /\ child'[e] = status /\ pc' = pc /\ run' = run
         /\ Says(e, n, <<line>>, c, status) => from'[e] = <<line>>
         /\ Says(e, n, <<>>, c, status) => from'[e] = <<>>
<1>1. to'[e] = SubSeq(to[e], n + 1, Len(to[e])) /\ checker'[e] = c /\ child'[e] = status /\ pc' = pc /\ run' = run
  BY SaidIs
<1>2. to'[e] = <<>>
  <2>1. CASE n = 0 /\ to[e] = <<>>
    BY <1>1, <2>1, NoneLeft
  <2>2. CASE n = 1 /\ \E x : to[e] = <<x>>
    BY <1>1, <2>2, NoneLeft
  <2>3. CASE n = 2 /\ \E x, y : to[e] = <<x, y>>
    BY <1>1, <2>3, NoneLeft
  <2> QED BY <2>1, <2>2, <2>3
<1>3. Says(e, n, <<line>>, c, status) => from'[e] = <<>> \o <<line>>
  BY SaidIs
<1>4. Says(e, n, <<>>, c, status) => from'[e] = <<>> \o <<>>
  BY SaidIs
<1>5. <<>> \o <<line>> = <<line>> /\ <<>> \o <<>> = <<>>
  BY TwoLines
<1> QED BY <1>1, <1>2, <1>3, <1>4, <1>5

LEMMA SaidNothing ==
  ASSUME Types, NEW e \in Editors, NEW c, NEW status, Says(e, 1, <<>>, c, status), from[e] = <<>>,
         \E x : to[e] = <<x>>
  PROVE  to'[e] = <<>> /\ checker'[e] = c /\ child'[e] = status /\ pc' = pc /\ run' = run /\ from'[e] = <<>>
<1>1. /\ to'[e] = SubSeq(to[e], 1 + 1, Len(to[e])) /\ checker'[e] = c /\ child'[e] = status
      /\ pc' = pc /\ run' = run /\ from'[e] = from[e] \o <<>>
  BY SMTT(40), SaidIs
<1>2. SubSeq(to[e], 2, Len(to[e])) = <<>>
  BY NoneLeft
<1> QED BY <1>1, <1>2

LEMMA CheckerIs ==
  ASSUME NEW c \in Checkers
  PROVE  /\ \A next : /\ [c EXCEPT !.next = next].next = next /\ [c EXCEPT !.next = next].count = c.count
                    /\ [c EXCEPT !.next = next].batch = c.batch /\ [c EXCEPT !.next = next].file = c.file
         /\ \A n, next : /\ [c EXCEPT !.count = n, !.next = next].count = n
                       /\ [c EXCEPT !.count = n, !.next = next].next = next
                       /\ [c EXCEPT !.count = n, !.next = next].file = c.file
         /\ \A f, next : /\ [c EXCEPT !.file = f, !.next = next].file = f
                       /\ [c EXCEPT !.file = f, !.next = next].next = next
                       /\ [c EXCEPT !.file = f, !.next = next].count = c.count
         /\ \A n, b : /\ [c EXCEPT !.count = n, !.batch = b].count = n
                    /\ [c EXCEPT !.count = n, !.batch = b].batch = b
                    /\ [c EXCEPT !.count = n, !.batch = b].next = c.next
         /\ \A b : /\ [c EXCEPT !.batch = b].batch = b /\ [c EXCEPT !.batch = b].count = c.count
                 /\ [c EXCEPT !.batch = b].next = c.next
  BY DEF Checkers

LEMMA CheckPlan ==
  ASSUME Types, NEW e \in Editors, PlanProtocol(e), checker[e].batch = 0, Checking(e)
  PROVE  PlanProtocol(e)' /\ checker'[e].batch = 0
<1>1. Waits(e, "start") /\ run[e].plan
  BY Quiet DEF PlanProtocol, Answered
<1>2. Plans(e)
  BY <1>1 DEF Waits, Checking, Checks, Commands, Hears
<1>3. PICK kind \in Kinds, keep \in BOOLEAN :
        Says(e, 0, <<<<"PLAN", kind, keep>>>>,
             [checker[e] EXCEPT !.next = IF kind = "read" THEN "header" ELSE "ready"], "runs")
  BY <1>2 DEF Plans, Goes
<1>4. checker[e] \in Checkers
  BY DEF Types
<1>5. /\ to'[e] = <<>> /\ child'[e] = "runs" /\ run' = run /\ from'[e] = <<<<"PLAN", kind, keep>>>>
      /\ checker'[e] = [checker[e] EXCEPT !.next = IF kind = "read" THEN "header" ELSE "ready"]
  BY <1>1, <1>3, SaidAlone DEF Waits
<1>6. /\ checker'[e].next = (IF kind = "read" THEN "header" ELSE "ready")
      /\ checker'[e].count = checker[e].count /\ checker'[e].batch = checker[e].batch
  BY <1>4, <1>5, CheckerIs
<1>7. Agree(e, run[e].seq)'
  BY <1>1, <1>5, <1>6 DEF Waits, Agree
<1>8. CASE kind = "read"
  BY <1>1, <1>5, <1>6, <1>7, <1>8 DEF PlanProtocol, Answered
<1>9. CASE kind \in {"edit", "search"}
  BY <1>1, <1>5, <1>6, <1>7, <1>9 DEF PlanProtocol, Answered
<1> QED BY <1>6, <1>8, <1>9 DEF Kinds

LEMMA CheckHeader ==
  ASSUME Types, NEW e \in Editors, Hearing(e, HeaderNext(e), <<"H">>) \/ Answered(e, "lines", <<"READY">>),
         checker[e].batch = 0, Checking(e)
  PROVE  Answered(e, "lines", <<"READY">>)' /\ checker'[e].batch = 0
<1>1. Hearing(e, HeaderNext(e), <<"H">>)
  BY Quiet DEF Answered
<1>2. /\ to[e] = <<<<"H">>>> /\ from[e] = <<>> /\ Agree(e, run[e].seq) /\ Head(to[e]) = <<"H">>
      /\ checker[e].next = (IF run[e].plan THEN "header" ELSE "start")
  BY <1>1 DEF Hearing, HeaderNext
<1>3. Checks(e)
  BY <1>2 DEF Checking, Plans, Commands, Hears
<1>4. <<"H">> # Closed
  BY DEF Closed
<1>5. Says(e, 1, <<<<"READY">>>>, [checker[e] EXCEPT !.next = "lines"], "runs")
  BY <1>2, <1>3, <1>4 DEF Checks, Goes
<1>6. checker[e] \in Checkers
  BY DEF Types
<1>7. /\ to'[e] = <<>> /\ child'[e] = "runs" /\ run' = run /\ from'[e] = <<<<"READY">>>>
      /\ checker'[e] = [checker[e] EXCEPT !.next = "lines"]
  BY <1>2, <1>5, SaidAlone
<1>8. /\ checker'[e].next = "lines" /\ checker'[e].count = checker[e].count
      /\ checker'[e].batch = checker[e].batch
  BY <1>6, <1>7, CheckerIs
<1> QED BY <1>2, <1>7, <1>8 DEF Answered, Agree

LEMMA Rejecting ==
  ASSUME Types, NEW e \in Editors, Rejects(e, 1), from[e] = <<>>, run[e].bad
  PROVE  Rejected(e)' /\ run' = run /\ pc' = pc
<1>1. Says(e, 1, <<<<"FAIL">>>>, checker[e], "exit 1")
  BY DEF Rejects
<1>2. child'[e] = "exit 1" /\ from'[e] = from[e] \o <<<<"FAIL">>>> /\ run' = run /\ pc' = pc
  <2>1. DOMAIN from = Editors /\ DOMAIN child = Editors
    BY DEF Types
  <2> QED BY <1>1, <2>1 DEF Says
<1> QED BY <1>2, TwoLines DEF Rejected

\* the checker takes the first of m + 1 observations
LEMMA CheckOne ==
  ASSUME Types, NEW e \in Editors, NEW m \in Nat, m + 1 <= Len(to[e]), Telling(e, m + 1), Checking(e),
         WrongAmong(e, m + 1) => run[e].bad
  PROVE  /\ run' = run /\ pc' = pc
         /\ \/ Rejected(e)'
            \/ /\ Telling(e, m)' /\ Len(to'[e]) = Len(to[e]) - 1
               /\ \A i \in 1..(Len(to[e]) - 1) : to'[e][i] = to[e][i + 1]
               /\ WrongAmong(e, m)' <=> WrongAmong(e, m + 1)
<1> DEFINE c == checker[e]
           line == Head(to[e])
           l == Len(to[e])
<1>1. /\ to[e] \in Seq(Sent) /\ l \in Nat /\ c \in Checkers /\ run[e] \in Runs /\ DOMAIN to[e] = 1..l
      /\ c.count \in Int /\ c.batch \in Int
  <2>1. to[e] \in Seq(Sent) /\ c \in Checkers /\ run[e] \in Runs
    BY DEF Types
  <2> QED BY <2>1, LenProperties, CheckerFields, Sizes
<1>2. /\ child[e] = "runs" /\ c.next = "lines" /\ from[e] = <<>>
      /\ c.count + (m + 1) = run[e].seq /\ c.batch + (m + 1) = run[e].pending
      /\ \A i \in 1..(m + 1) : to[e][i] = <<"S", c.count + i - 1, to[e][i][3]>>
  BY DEF Telling
<1>3. to[e] # <<>> /\ line = to[e][1] /\ 1 \in 1..(m + 1) /\ 1 \in 1..l
  BY <1>1
<1>4. line = <<"S", c.count, line[3]>>
  <2>1. c.count + 1 - 1 = c.count
    BY <1>1
  <2> QED BY <1>2, <1>3, <2>1
<1>5. line[1] = "S" /\ line[2] = c.count /\ line # <<"H">> /\ line # Closed
  BY <1>4 DEF Closed
<1>6. line[3] \in BOOLEAN
  <2>1. line \in Sent
    BY <1>1, <1>3
  <2> QED BY <1>5, <2>1, LineFacts
<1>7. c.batch < Batch
  <2>1. run[e].pending \in 0..Batch
    BY <1>1, RunFields
  <2> QED BY <1>1, <1>2, <2>1, Sizes
<1> HIDE DEF line
<1>8. Checks(e)
  BY <1>2, <1>3 DEF Checking, Plans, Commands, Hears
<1>9. IF line[3] THEN Goes(e, 1, <<>>, [c EXCEPT !.count = c.count + 1, !.batch = c.batch + 1]) ELSE Rejects(e, 1)
  BY <1>2, <1>5, <1>7, <1>8 DEF Checks, line
<1>10. CASE ~line[3]
  <2>1. WrongAmong(e, m + 1)
    BY <1>3, <1>10 DEF WrongAmong, line
  <2>2. Rejects(e, 1) /\ run[e].bad
    BY <1>9, <1>10, <2>1
  <2> QED BY <1>2, <2>2, Rejecting
<1>11. CASE line[3]
  <2>1. Says(e, 1, <<>>, [c EXCEPT !.count = c.count + 1, !.batch = c.batch + 1], "runs")
    BY <1>9, <1>11 DEF Goes
  <2> HIDE DEF c
  <2>a. /\ to'[e] = SubSeq(to[e], 1 + 1, Len(to[e])) /\ from'[e] = from[e] \o <<>> /\ child'[e] = "runs"
        /\ checker'[e] = [c EXCEPT !.count = c.count + 1, !.batch = c.batch + 1] /\ run' = run /\ pc' = pc
    <3>1. DOMAIN to = Editors /\ DOMAIN from = Editors /\ DOMAIN child = Editors /\ DOMAIN checker = Editors
      BY DEF Types
    <3> QED BY <2>1, <3>1 DEF Says
  <2>2. /\ to'[e] = SubSeq(to[e], 2, Len(to[e])) /\ from'[e] = <<>> \o <<>> /\ child'[e] = "runs"
        /\ checker'[e] = [c EXCEPT !.count = c.count + 1, !.batch = c.batch + 1] /\ run' = run /\ pc' = pc
    BY <1>2, <2>a
  <2>3. checker'[e].count = c.count + 1 /\ checker'[e].batch = c.batch + 1 /\ checker'[e].next = "lines"
    BY <1>1, <1>2, <2>2, CheckerIs
  <2>4. Len(to'[e]) = l - 1 /\ \A i \in 1..(l - 1) : to'[e][i] = to[e][i + 1]
    BY <1>1, <1>3, <2>2, SubSeqProperties
  <2>c. c.count + 1 + m = run[e].seq /\ c.batch + 1 + m = run[e].pending
    BY <1>1, <1>2
  <2>5. /\ c.count + 1 + m = run[e].seq /\ c.batch + 1 + m = run[e].pending
        /\ \A i \in 1..m : i \in 1..(l - 1) /\ i + 1 \in 1..(m + 1) /\ c.count + (i + 1) - 1 = c.count + 1 + i - 1
    <3>1. l \in Nat /\ m + 1 <= l /\ c.count \in Int
      BY <1>1
    <3> HIDE DEF l
    <3>2. \A i \in 1..m : i \in 1..(l - 1) /\ i + 1 \in 1..(m + 1) /\ c.count + (i + 1) - 1 = c.count + 1 + i - 1
      BY <3>1
    <3> QED BY <2>c, <3>2
  <2>6. ASSUME NEW i \in 1..m
        PROVE  to'[e][i] = <<"S", c.count + 1 + i - 1, to'[e][i][3]>>
    BY <1>2, <2>4, <2>5
  <2>7. from'[e] = <<>>
    BY <2>2
  <2>8. Telling(e, m)'
    BY <2>2, <2>3, <2>5, <2>6, <2>7 DEF Telling
  <2>9. WrongAmong(e, m)' <=> WrongAmong(e, m + 1)
    <3>1. ASSUME NEW i \in 1..(m + 1), ~to[e][i][3]
          PROVE  \E k \in 1..m : ~to'[e][k][3]
      <4>1. i # 1
        BY <1>3, <1>11, <3>1 DEF line
      <4>2. i - 1 \in 1..m /\ i = (i - 1) + 1
        BY <4>1
      <4>3. to'[e][i - 1] = to[e][i]
        BY <2>4, <2>5, <4>2
      <4> QED BY <3>1, <4>2, <4>3
    <3>2. ASSUME NEW k \in 1..m, ~to'[e][k][3]
          PROVE  \E i \in 1..(m + 1) : ~to[e][i][3]
      BY <2>4, <2>5, <3>2
    <3> QED BY <3>1, <3>2 DEF WrongAmong
  <2> QED BY <2>2, <2>4, <2>8, <2>9
<1> QED BY <1>6, <1>10, <1>11

\* the places where only observations are on their way
LEMMA CheckTelling ==
  ASSUME Types, NEW e \in Editors, Telling(e, Len(to[e])), Checking(e), WrongAmong(e, Len(to[e])) => run[e].bad
  PROVE  /\ run' = run /\ pc' = pc
         /\ \/ Rejected(e)'
            \/ Telling(e, Len(to[e]))' /\ (WrongAmong(e, Len(to[e]))' <=> WrongAmong(e, Len(to[e])))
<1>1. to[e] \in Seq(Sent) /\ Len(to[e]) \in Nat
  <2>1. to[e] \in Seq(Sent)
    BY DEF Types
  <2> QED BY <2>1, LenProperties
<1>2. Len(to[e]) # 0
  <2>1. SUFFICES ASSUME Len(to[e]) = 0
                 PROVE  FALSE
    OBVIOUS
  <2>2. to[e] = <<>> /\ checker[e].next = "lines"
    BY <1>1, <2>1, EmptySeq DEF Telling
  <2> QED BY <2>2, Quiet
<1>3. PICK m \in Nat : m + 1 = Len(to[e])
  <2>1. Len(to[e]) - 1 \in Nat /\ (Len(to[e]) - 1) + 1 = Len(to[e])
    BY <1>1, <1>2
  <2> QED BY <2>1
<1>4. Telling(e, m + 1) /\ (WrongAmong(e, m + 1) => run[e].bad) /\ m + 1 <= Len(to[e])
  BY <1>1, <1>3
<1>5. /\ run' = run /\ pc' = pc
      /\ \/ Rejected(e)'
         \/ /\ Telling(e, m)' /\ Len(to'[e]) = Len(to[e]) - 1
            /\ WrongAmong(e, m)' <=> WrongAmong(e, m + 1)
  BY <1>4, CheckOne
<1>6. Len(to[e]) - 1 = m
  BY <1>1, <1>3
<1>7. ASSUME Len(to'[e]) = m, Telling(e, m)'
      PROVE  Telling(e, Len(to[e]))'
  BY <1>7 DEF Telling
<1>8. ASSUME Len(to'[e]) = m
      PROVE  WrongAmong(e, Len(to[e]))' <=> WrongAmong(e, m)'
  BY <1>8 DEF WrongAmong
<1> QED BY <1>3, <1>5, <1>6, <1>7, <1>8

LEMMA Stopped ==
  ASSUME NEW e \in Editors, child[e] # "runs"
  PROVE  ~Checking(e)
  BY DEF Checking, Plans, Checks, Commands, Hears

LEMMA CheckBatch ==
  ASSUME Types, NEW e \in Editors, Telling(e, 0), to[e] = <<<<"B", run[e].seq>>>>, run[e].pending > 0,
         ~run[e].bad, Checking(e)
  PROVE  Answered(e, "lines", <<"ACK", run[e].seq>>)' /\ checker'[e].batch = 0 /\ run' = run
<1> DEFINE c == checker[e]
           line == Head(to[e])
<1>1. /\ c \in Checkers /\ c.count \in Int /\ c.batch \in Int /\ run[e].seq \in Int /\ run[e].pending \in Int
  <2>1. c \in Checkers /\ run[e] \in Runs
    BY DEF Types
  <2> QED BY <2>1, CheckerFields, RunFields, Sizes
<1>2. child[e] = "runs" /\ c.next = "lines" /\ from[e] = <<>> /\ c.count + 0 = run[e].seq /\ c.batch + 0 = run[e].pending
  BY DEF Telling
<1>3. c.count = run[e].seq /\ c.batch > 0
  BY <1>1, <1>2
<1>4. line = <<"B", run[e].seq>> /\ to[e] # <<>>
  OBVIOUS
<1>5. line[1] = "B" /\ line[2] = run[e].seq /\ line # <<"H">> /\ line # Closed
  BY <1>4 DEF Closed
<1>6. Checks(e)
  BY <1>2, <1>4 DEF Checking, Plans, Commands, Hears
<1> HIDE DEF line
<1>7. Says(e, 1, <<<<"ACK", c.count>>>>, [c EXCEPT !.batch = 0], "runs")
  BY <1>2, <1>3, <1>5, <1>6 DEF Checks, Goes, line
<1>8. \E x : to[e] = <<x>>
  OBVIOUS
<1>9. /\ to'[e] = <<>> /\ child'[e] = "runs" /\ run' = run /\ from'[e] = <<<<"ACK", c.count>>>>
      /\ checker'[e] = [c EXCEPT !.batch = 0]
  BY <1>2, <1>7, <1>8, SaidAlone
<1>10. checker'[e].next = "lines" /\ checker'[e].count = c.count /\ checker'[e].batch = 0
  BY <1>1, <1>2, <1>9, CheckerIs
<1> QED BY <1>3, <1>9, <1>10 DEF Answered, Agree

LEMMA CheckAck ==
  ASSUME Types, NEW e \in Editors, AckProtocol(e), run[e].pending > 0, Checking(e)
  PROVE  AckProtocol(e)' /\ run' = run
<1>1. /\ to[e] \in Seq(Sent) /\ Len(to[e]) \in Nat
  <2>1. to[e] \in Seq(Sent)
    BY DEF Types
  <2> QED BY <2>1, LenProperties
<1>2. PICK n \in 0..(Len(to[e]) - 1) :
        /\ Telling(e, n) /\ Len(to[e]) = n + 1 /\ to[e][n + 1] = <<"B", run[e].seq>>
        /\ run[e].bad <=> WrongAmong(e, n)
  BY Quiet, Stopped DEF AckProtocol, Answered, Rejected
<1>3. CASE n = 0
  <2>1. Telling(e, 0) /\ Len(to[e]) = 1 /\ to[e][1] = <<"B", run[e].seq>>
    BY <1>2, <1>3
  <2>2. to[e] = <<<<"B", run[e].seq>>>>
    <3> DEFINE line == <<"B", run[e].seq>>
    <3>1. to[e][1] = line /\ to[e] \in Seq(Sent) /\ Len(to[e]) = 1
      BY <1>1, <2>1
    <3>2. to[e][1] \in Sent
      BY <3>1
    <3> HIDE DEF line
    <3>3. <<line>> \in Seq(Sent) /\ Len(<<line>>) = 1 /\ <<line>>[1] = line
      BY <3>1, <3>2
    <3>4. \A i \in 1..Len(to[e]) : to[e][i] = <<line>>[i]
      BY <3>1, <3>3
    <3>5. to[e] = <<line>>
      BY <3>1, <3>3, <3>4, SeqEqual
    <3> QED BY <3>5 DEF line
  <2>3. ~run[e].bad
    <3>1. 1..0 = {}
      OBVIOUS
    <3> QED BY <1>2, <1>3, <3>1 DEF WrongAmong
  <2>4. Answered(e, "lines", <<"ACK", run[e].seq>>)' /\ checker'[e].batch = 0 /\ run' = run
    BY <2>1, <2>2, <2>3, CheckBatch
  <2> QED BY <2>4 DEF AckProtocol
<1>4. CASE n # 0
  <2>1. PICK m \in Nat : m + 1 = n
    <3>1. n - 1 \in Nat /\ (n - 1) + 1 = n
      BY <1>4
    <3> QED BY <3>1
  <2>2. Telling(e, m + 1) /\ (WrongAmong(e, m + 1) => run[e].bad) /\ m + 1 <= Len(to[e])
    BY <1>1, <1>2, <2>1
  <2>3. /\ run' = run /\ pc' = pc
        /\ \/ Rejected(e)'
           \/ /\ Telling(e, m)' /\ Len(to'[e]) = Len(to[e]) - 1
              /\ \A i \in 1..(Len(to[e]) - 1) : to'[e][i] = to[e][i + 1]
              /\ WrongAmong(e, m)' <=> WrongAmong(e, m + 1)
    BY <2>2, CheckOne
  <2>4. CASE Rejected(e)'
    BY <2>3, <2>4 DEF AckProtocol
  <2>5. CASE /\ Telling(e, m)' /\ Len(to'[e]) = Len(to[e]) - 1
             /\ \A i \in 1..(Len(to[e]) - 1) : to'[e][i] = to[e][i + 1]
             /\ WrongAmong(e, m)' <=> WrongAmong(e, m + 1)
    <3>1. /\ Len(to[e]) - 1 = m + 1 /\ m + 1 \in 1..(Len(to[e]) - 1) /\ (m + 1) + 1 = n + 1
          /\ m \in 0..(Len(to[e]) - 1 - 1)
      BY <1>1, <1>2, <2>1
    <3>2. Len(to'[e]) = m + 1 /\ m \in 0..(Len(to'[e]) - 1)
      BY <2>5, <3>1
    <3>3. to'[e][m + 1] = <<"B", run[e].seq>>
      BY <1>2, <2>5, <3>1
    <3>4. run'[e].bad <=> WrongAmong(e, m)'
      BY <1>2, <2>1, <2>3, <2>5
    <3> QED BY <2>3, <2>5, <3>2, <3>3, <3>4 DEF AckProtocol
  <2> QED BY <2>3, <2>4, <2>5
<1> QED BY <1>3, <1>4

LEMMA CheckingKeeps ==
  ASSUME NEW e \in Editors, Checking(e)
  PROVE  pc' = pc /\ run' = run /\ user' = user
<1>1. Plans(e) => pc' = pc /\ run' = run /\ user' = user
  BY DEF Plans, Goes, Says
<1>2. Checks(e) => pc' = pc /\ run' = run /\ user' = user
  BY DEF Checks, Goes, Rejects, Says
<1>3. Commands(e) => pc' = pc /\ run' = run /\ user' = user
  BY DEF Commands, Goes, Says
<1>4. Hears(e) => pc' = pc /\ run' = run /\ user' = user
  BY DEF Hears, Goes, Rejects, Says
<1> QED BY <1>1, <1>2, <1>3, <1>4 DEF Checking

\* the checker hears the one line it waits for
LEMMA CheckHearing ==
  ASSUME Types, NEW e \in Editors, NEW next \in {"ready", "base", "clean", "complete"}, NEW line,
         Hearing(e, next, line), line # Closed, Checking(e)
  PROVE  /\ next \in {"ready", "clean"} => Waits(e, "between")'
         /\ next = "base" => Waits(e, "in a text")'
         /\ next = "complete" => child'[e] = "exit 0" /\ ~run'[e].bad
<1> DEFINE c == checker[e]
<1>1. /\ child[e] = "runs" /\ c.count = run[e].seq /\ ~run[e].bad /\ c.next = next
      /\ to[e] = <<line>> /\ from[e] = <<>> /\ c \in Checkers
  BY DEF Hearing, Agree, Types
<1>2. Head(to[e]) = line /\ to[e] # <<>> /\ \E x : to[e] = <<x>>
  BY <1>1
<1>3. next \notin {"start", "header", "lines", "result"}
  OBVIOUS
<1>4. Hears(e)
  BY <1>1, <1>2, <1>3 DEF Checking, Plans, Commands, Checks
<1>5. \/ next = "complete" /\ Says(e, 1, <<<<"PASS", c.count>>>>, c, "exit 0")
      \/ next \in {"ready", "clean"} /\ Says(e, 1, <<>>, [c EXCEPT !.next = "between"], "runs")
      \/ next = "base" /\ Says(e, 1, <<>>, [c EXCEPT !.next = "in a text"], "runs")
  BY <1>1, <1>3, <1>4 DEF Hears, Goes
<1>6. ASSUME NEW n \in {"between", "in a text"}, Says(e, 1, <<>>, [c EXCEPT !.next = n], "runs")
      PROVE  Waits(e, n)'
  <2>1. /\ to'[e] = <<>> /\ from'[e] = <<>> /\ child'[e] = "runs" /\ run' = run
        /\ checker'[e] = [c EXCEPT !.next = n]
    BY ZenonT(40), <1>1, <1>2, <1>6, SaidNothing
  <2>2. checker'[e].next = n /\ checker'[e].count = c.count
    BY <1>1, <2>1 DEF Checkers
  <2> QED BY <1>1, <2>1, <2>2 DEF Waits, Agree
<1>7. CASE next = "complete"
  <2>1. Says(e, 1, <<<<"PASS", c.count>>>>, c, "exit 0")
    BY <1>5, <1>7
  <2>2. child'[e] = "exit 0" /\ run' = run
    <3>1. DOMAIN child = Editors
      BY DEF Types
    <3> QED BY <2>1, <3>1 DEF Says
  <2> QED BY <1>1, <1>7, <2>2
<1>8. CASE next \in {"ready", "clean"}
  BY <1>5, <1>6, <1>8
<1>9. CASE next = "base"
  BY <1>5, <1>6, <1>9
<1> QED BY <1>7, <1>8, <1>9

LEMMA CheckPass ==
  ASSUME Types, NEW e \in Editors, PassProtocol(e), Checking(e)
  PROVE  PassProtocol(e)'
<1> DEFINE c == checker[e]
<1>1. CASE Hearing(e, "complete", <<"COMPLETE">>)
  <2>1. <<"COMPLETE">> # Closed
    BY DEF Closed
  <2> QED BY <1>1, <2>1, CheckHearing DEF PassProtocol
<1>2. CASE child[e] = "exit 0" /\ ~run[e].bad
  BY <1>2, Stopped
<1>3. CASE /\ Agree(e, run[e].seq) /\ c.next = "lines" /\ c.batch = 0
           /\ to[e] = <<<<"Z", run[e].seq>>, Closed>> /\ from[e] = <<>>
  <2> DEFINE line == Head(to[e])
  <2>1. line = <<"Z", run[e].seq>> /\ to[e] # <<>> /\ to[e][2] = Closed /\ Len(to[e]) > 1
    BY <1>3
  <2>2. line[1] = "Z" /\ line[2] = run[e].seq /\ line # <<"H">> /\ line # Closed
    BY <2>1 DEF Closed
  <2>3. child[e] = "runs" /\ c.count = run[e].seq /\ ~run[e].bad
    BY <1>3 DEF Agree
  <2>4. Checks(e)
    BY <1>3, <2>1 DEF Checking, Plans, Commands, Hears
  <2> HIDE DEF line
  <2>5. Says(e, 2, <<<<"PASS", c.count>>>>, c, "exit 0")
    BY <1>3, <2>1, <2>2, <2>3, <2>4 DEF Checks, line
  <2>6. \E x, y : to[e] = <<x, y>>
    BY <1>3
  <2>7. child'[e] = "exit 0" /\ run' = run
    BY ZenonT(40), <1>3, <2>5, <2>6, SaidAlone
  <2> QED BY <2>3, <2>7 DEF PassProtocol
<1> QED BY <1>1, <1>2, <1>3 DEF PassProtocol

LEMMA CommandSaid ==
  ASSUME Types, NEW e \in Editors, Commands(e), Agree(e, run[e].seq)
  PROVE  /\ to'[e] = <<>> /\ child'[e] = "runs" /\ checker'[e].count = checker[e].count /\ run' = run
         /\ \/ /\ checker[e].next = "between" /\ from'[e] = from[e] \o <<<<"FILE", checker'[e].file - 1>>>>
               /\ checker'[e].next = "base"
            \/ /\ checker[e].next = "between" /\ from'[e] = from[e] \o <<<<"DONE", run[e].seq>>>>
               /\ checker'[e].next = "complete"
            \/ /\ checker[e].next = "in a text" /\ from'[e] = from[e] \o <<<<"E", run[e].seq>>>>
               /\ checker'[e].next = "result"
            \/ /\ checker[e].next = "in a text" /\ from'[e] = from[e] \o <<<<"CLOSE", checker'[e].file - 1>>>>
               /\ checker'[e].next = "clean"
<1> DEFINE c == checker[e]
<1>1. c \in Checkers /\ c.file \in Int /\ to[e] = <<>> /\ c.count = run[e].seq
  <2>1. c \in Checkers
    BY DEF Types
  <2>2. c.file \in Int
    BY <2>1, CheckerFields, Sizes
  <2>3. to[e] = <<>> /\ c.count = run[e].seq
    BY DEF Commands, Agree
  <2> QED BY <2>1, <2>2, <2>3
<1>2. \/ c.next = "between" /\ Says(e, 0, <<<<"FILE", c.file>>>>, [c EXCEPT !.file = c.file + 1, !.next = "base"], "runs")
      \/ c.next = "between" /\ Says(e, 0, <<<<"DONE", c.count>>>>, [c EXCEPT !.next = "complete"], "runs")
      \/ c.next = "in a text" /\ Says(e, 0, <<<<"E", c.count>>>>, [c EXCEPT !.next = "result"], "runs")
      \/ c.next = "in a text" /\ Says(e, 0, <<<<"CLOSE", c.file - 1>>>>, [c EXCEPT !.next = "clean"], "runs")
  BY DEF Commands, Goes
<1>3. ASSUME NEW lines, NEW d, Says(e, 0, lines, d, "runs")
      PROVE  /\ to'[e] = <<>> /\ child'[e] = "runs" /\ checker'[e] = d /\ run' = run
             /\ from'[e] = from[e] \o lines
  <2>1. /\ DOMAIN to = Editors /\ DOMAIN from = Editors /\ DOMAIN checker = Editors /\ DOMAIN child = Editors
    BY DEF Types
  <2>2. /\ to'[e] = SubSeq(to[e], 0 + 1, Len(to[e])) /\ child'[e] = "runs" /\ checker'[e] = d /\ run' = run
        /\ from'[e] = from[e] \o lines
    BY <1>3, <2>1 DEF Says
  <2> QED BY <1>1, <2>2, NoneLeft
<1>4. CASE /\ c.next = "between"
           /\ Says(e, 0, <<<<"FILE", c.file>>>>, [c EXCEPT !.file = c.file + 1, !.next = "base"], "runs")
  <2>1. /\ to'[e] = <<>> /\ child'[e] = "runs" /\ run' = run /\ from'[e] = from[e] \o <<<<"FILE", c.file>>>>
        /\ checker'[e] = [c EXCEPT !.file = c.file + 1, !.next = "base"]
    BY <1>3, <1>4
  <2>2. checker'[e].next = "base" /\ checker'[e].file = c.file + 1 /\ checker'[e].count = c.count
    BY <1>1, <2>1, CheckerIs
  <2>3. c.file = checker'[e].file - 1
    BY <1>1, <2>2
  <2> QED BY <1>4, <2>1, <2>2, <2>3
<1>5. CASE /\ c.next = "between"
           /\ Says(e, 0, <<<<"DONE", c.count>>>>, [c EXCEPT !.next = "complete"], "runs")
  <2>1. /\ to'[e] = <<>> /\ child'[e] = "runs" /\ run' = run /\ from'[e] = from[e] \o <<<<"DONE", c.count>>>>
        /\ checker'[e] = [c EXCEPT !.next = "complete"]
    BY <1>3, <1>5
  <2>2. checker'[e].next = "complete" /\ checker'[e].count = c.count
    BY <1>1, <2>1, CheckerIs
  <2> QED BY <1>1, <1>5, <2>1, <2>2
<1>6. CASE /\ c.next = "in a text"
           /\ Says(e, 0, <<<<"E", c.count>>>>, [c EXCEPT !.next = "result"], "runs")
  <2>1. /\ to'[e] = <<>> /\ child'[e] = "runs" /\ run' = run /\ from'[e] = from[e] \o <<<<"E", c.count>>>>
        /\ checker'[e] = [c EXCEPT !.next = "result"]
    BY <1>3, <1>6
  <2>2. checker'[e].next = "result" /\ checker'[e].count = c.count
    BY <1>1, <2>1, CheckerIs
  <2> QED BY <1>1, <1>6, <2>1, <2>2
<1>7. CASE /\ c.next = "in a text"
           /\ Says(e, 0, <<<<"CLOSE", c.file - 1>>>>, [c EXCEPT !.next = "clean"], "runs")
  <2>1. /\ to'[e] = <<>> /\ child'[e] = "runs" /\ run' = run /\ from'[e] = from[e] \o <<<<"CLOSE", c.file - 1>>>>
        /\ checker'[e] = [c EXCEPT !.next = "clean"]
    BY <1>3, <1>7
  <2>2. checker'[e].next = "clean" /\ checker'[e].count = c.count /\ checker'[e].file = c.file
    BY <1>1, <2>1, CheckerIs
  <2> QED BY <1>7, <2>1, <2>2
<1> QED BY <1>2, <1>4, <1>5, <1>6, <1>7

LEMMA CheckAhead ==
  ASSUME Types, NEW e \in Editors, NEW before, Ahead(e, before), Checking(e)
  PROVE  Ahead(e, before)'
<1>1. Agree(e, run[e].seq) /\ to[e] = <<>> /\ checker[e].next = "in a text" /\ from[e] = before
  BY Quiet DEF Ahead
<1>2. Commands(e)
  BY <1>1 DEF Checking, Plans, Checks, Hears
<1>3. /\ to'[e] = <<>> /\ child'[e] = "runs" /\ checker'[e].count = checker[e].count /\ run' = run
      /\ \/ from'[e] = before \o <<<<"E", run[e].seq>>>> /\ checker'[e].next = "result"
         \/ from'[e] = before \o <<<<"CLOSE", checker'[e].file - 1>>>> /\ checker'[e].next = "clean"
  BY <1>1, <1>2, CommandSaid
<1> QED BY <1>1, <1>3 DEF Ahead, Agree

LEMMA CheckCommand ==
  ASSUME Types, NEW e \in Editors, CommandProtocol(e), Checking(e)
  PROVE  CommandProtocol(e)'
<1>1. <<"READY">> # Closed /\ <<"CLEAN">> # Closed /\ <<"BASE">> # Closed
  BY DEF Closed
<1>2. CASE Hearing(e, "ready", <<"READY">>)
  BY <1>1, <1>2, CheckHearing DEF CommandProtocol
<1>3. CASE Hearing(e, "clean", <<"CLEAN">>)
  BY <1>1, <1>3, CheckHearing DEF CommandProtocol
<1>4. CASE Hearing(e, "base", <<"BASE">>)
  <2>1. Waits(e, "in a text")'
    BY <1>1, <1>4, CheckHearing
  <2> QED BY <2>1 DEF CommandProtocol, Ahead, Waits
<1>5. CASE Waits(e, "between")
  <2>1. Commands(e) /\ Agree(e, run[e].seq) /\ from[e] = <<>> /\ checker[e].next = "between"
    BY <1>5 DEF Waits, Checking, Plans, Checks, Hears
  <2>2. /\ to'[e] = <<>> /\ child'[e] = "runs" /\ checker'[e].count = checker[e].count /\ run' = run
        /\ \/ from'[e] = from[e] \o <<<<"FILE", checker'[e].file - 1>>>> /\ checker'[e].next = "base"
           \/ from'[e] = from[e] \o <<<<"DONE", run[e].seq>>>> /\ checker'[e].next = "complete"
    BY <2>1, CommandSaid
  <2>3. \/ from'[e] = <<<<"FILE", checker'[e].file - 1>>>> /\ checker'[e].next = "base"
        \/ from'[e] = <<<<"DONE", run[e].seq>>>> /\ checker'[e].next = "complete"
    BY <2>1, <2>2, TwoLines
  <2>4. Agree(e, run[e].seq)'
    BY <2>1, <2>2 DEF Agree
  <2> QED BY <2>2, <2>3, <2>4 DEF CommandProtocol, Answered
<1>6. CASE Ahead(e, <<>>)
  BY <1>6, CheckAhead DEF CommandProtocol
<1> QED BY <1>2, <1>3, <1>4, <1>5, <1>6, Quiet DEF CommandProtocol, Answered

LEMMA CheckResult ==
  ASSUME Types, NEW e \in Editors, ResultProtocol(e), Checking(e)
  PROVE  ResultProtocol(e)'
<1> DEFINE c == checker[e]
<1>1. run' = run
  BY CheckingKeeps
<1>2. CASE Ahead(e, <<<<"ACK", run[e].seq>>>>)
  <2>1. PICK before : before = <<<<"ACK", run[e].seq>>>>
    OBVIOUS
  <2>2. Ahead(e, before)
    BY <1>2, <2>1
  <2>3. Ahead(e, before)'
    BY <2>2, CheckAhead
  <2>4. before = <<<<"ACK", run'[e].seq>>>>
    BY <1>1, <2>1
  <2> QED BY <2>3, <2>4 DEF ResultProtocol
<1>3. CASE /\ child[e] = "runs" /\ c.count = run[e].seq - 1 /\ c.next = "result"
           /\ to[e] = <<<<"R", run[e].seq - 1, ~run[e].bad>>>> /\ from[e] = <<>>
  <2> DEFINE line == Head(to[e])
  <2>1. c \in Checkers /\ c.count \in Int /\ run[e].seq \in Int /\ run[e].bad \in BOOLEAN
    <3>1. c \in Checkers /\ run[e] \in Runs
      BY DEF Types
    <3> QED BY <3>1, CheckerFields, RunFields, Sizes
  <2>2. line = <<"R", run[e].seq - 1, ~run[e].bad>> /\ to[e] # <<>> /\ \E x : to[e] = <<x>>
    BY <1>3
  <2>3. line[1] = "R" /\ line[2] = c.count /\ line[3] = ~run[e].bad /\ line # Closed
    BY <1>3, <2>2 DEF Closed
  <2>4. Hears(e)
    BY <1>3, <2>2, <2>3 DEF Checking, Plans, Commands, Checks
  <2> HIDE DEF line
  <2>5. IF line[3]
          THEN Says(e, 1, <<<<"ACK", c.count + 1>>>>, [c EXCEPT !.count = c.count + 1, !.next = "in a text"], "runs")
          ELSE Rejects(e, 1)
    BY <1>3, <2>3, <2>4 DEF Hears, Goes, line
  <2>6. CASE run[e].bad
    <3>1. Rejects(e, 1)
      BY <2>3, <2>5, <2>6
    <3> QED BY <1>3, <2>6, <3>1, Rejecting DEF ResultProtocol
  <2>7. CASE ~run[e].bad
    <3>1. Says(e, 1, <<<<"ACK", c.count + 1>>>>, [c EXCEPT !.count = c.count + 1, !.next = "in a text"], "runs")
      BY <2>3, <2>5, <2>7
    <3>2. /\ to'[e] = <<>> /\ child'[e] = "runs" /\ from'[e] = <<<<"ACK", c.count + 1>>>>
          /\ checker'[e] = [c EXCEPT !.count = c.count + 1, !.next = "in a text"]
      BY <1>3, <2>2, <3>1, SaidAlone
    <3>3. checker'[e].count = c.count + 1 /\ checker'[e].next = "in a text"
      BY <2>1, <3>2, CheckerIs
    <3>4. c.count + 1 = run[e].seq
      BY <1>3, <2>1
    <3>5. Ahead(e, <<<<"ACK", run[e].seq>>>>)'
      BY <1>1, <2>7, <3>2, <3>3, <3>4 DEF Ahead, Agree
    <3> QED BY <3>5 DEF ResultProtocol
  <2> QED BY <2>1, <2>6, <2>7
<1> QED BY <1>2, <1>3, Stopped DEF ResultProtocol, Rejected

\* where the checker has nothing to do
LEMMA QuietPlaces ==
  ASSUME Core, NEW e \in Editors, Protocol(e),
         pc[e] \in {"idle", "prepare", "spawn", "finish", "unlock", "dead", "header", "heading", "send header",
                    "fixture", "renew", "renewing", "end", "isolated", "heading of edits", "send READY", "base",
                    "obey", "result", "clean", "complete"}
  PROVE  ~Checking(e)
<1>1. ASSUME NEW next \in {"header", "lines", "ready", "base", "result", "clean", "complete"}, Waits(e, next)
      PROVE  ~Checking(e)
  BY <1>1, Quiet DEF Waits
<1>2. CASE pc[e] \in {"idle", "prepare", "spawn", "finish", "unlock", "dead"}
  <2>1. child[e] = "none"
    BY <1>2 DEF Core, Returned
  <2> QED BY <2>1, Stopped
<1>3. CASE pc[e] \in Preparing
  <2>1. Waits(e, HeaderNext(e))
    BY <1>3 DEF Protocol
  <2>2. CASE run[e].plan
    BY <1>1, <2>1, <2>2 DEF HeaderNext
  <2>3. CASE ~run[e].plan
    <3>1. Waits(e, "start")
      BY <2>1, <2>3 DEF HeaderNext
    <3> QED BY <2>3, <3>1, Quiet DEF Waits
  <2> QED BY <2>2, <2>3
<1>4. CASE pc[e] \in {"fixture", "renew", "renewing"}
  BY <1>1, <1>4 DEF Protocol
<1>5. CASE pc[e] = "end"
  <2>1. Rejected(e) \/ Waits(e, "lines")
    BY <1>5 DEF Protocol
  <2> QED BY <1>1, <2>1, Stopped DEF Rejected
<1>6. CASE pc[e] \in {"isolated", "heading of edits", "send READY"}
  BY <1>1, <1>6 DEF Protocol
<1>7. CASE pc[e] \in {"base", "obey", "clean", "complete"}
  BY <1>1, <1>7 DEF Protocol
<1>8. CASE pc[e] = "result"
  <2>1. to[e] = <<>> /\ checker[e].next = "result"
    BY <1>8 DEF Protocol
  <2> QED BY <2>1, Quiet
<1> QED BY <1>2, <1>3, <1>4, <1>5, <1>6, <1>7, <1>8 DEF Preparing

LEMMA ProtocolChecks ==
  ASSUME Core, NEW e \in Editors, Protocol(e), Checking(e)
  PROVE  Protocol(e)'
<1>0. Types /\ Numbers(e) /\ run' = run /\ pc' = pc
  BY CheckingKeeps DEF Core
<1>1. pc[e] \in Places /\ (run[e].success => ~run[e].bad)
  BY <1>0 DEF Types, Protocol
<1>2. CASE pc[e] \in {"idle", "prepare", "spawn", "finish", "unlock", "dead", "header", "heading", "send header",
                    "fixture", "renew", "renewing", "end", "isolated", "heading of edits", "send READY", "base",
                    "obey", "result", "clean", "complete"}
  BY <1>2, QuietPlaces
<1>3. CASE pc[e] \in {"fail", "stop", "reap"}
  BY <1>0, <1>1, <1>3, QuietEnd
<1>4. CASE pc[e] = "plan"
  <2>1. PlanProtocol(e) /\ checker[e].batch = 0
    BY <1>4 DEF Protocol, Unstarted
  <2>2. PlanProtocol(e)' /\ checker'[e].batch = 0
    BY <1>0, <2>1, CheckPlan
  <2> QED BY <1>0, <1>1, <1>4, <2>2 DEF Protocol, Preparing, Unstarted
<1>5. CASE pc[e] = "ready"
  <2>1. checker[e].batch = 0 /\ (Hearing(e, HeaderNext(e), <<"H">>) \/ Answered(e, "lines", <<"READY">>))
    BY <1>5 DEF Protocol, Unstarted
  <2>2. Answered(e, "lines", <<"READY">>)' /\ checker'[e].batch = 0
    BY <1>0, <2>1, CheckHeader
  <2> QED BY <1>0, <1>1, <1>5, <2>2 DEF Protocol, Preparing, Unstarted
<1>6. CASE pc[e] \in {"step", "send", "batch"}
  <2>1. Telling(e, Len(to[e])) /\ (WrongAmong(e, Len(to[e])) => run[e].bad)
    BY <1>6, Stopped DEF Protocol, Rejected
  <2>2. \/ Rejected(e)'
        \/ Telling(e, Len(to[e]))' /\ (WrongAmong(e, Len(to[e]))' <=> WrongAmong(e, Len(to[e])))
    BY <1>0, <2>1, CheckTelling
  <2>3. pc[e] \in {"step", "batch"} => (run[e].bad <=> WrongAmong(e, Len(to[e])))
    BY Stopped DEF Protocol, Rejected
  <2> QED BY <1>0, <1>1, <1>6, <2>1, <2>2, <2>3 DEF Protocol, Preparing, Unstarted
<1>7. CASE pc[e] = "ack"
  <2>1. AckProtocol(e) /\ run[e].pending > 0
    BY <1>0, <1>7 DEF Protocol, Numbers
  <2>2. AckProtocol(e)'
    BY <1>0, <2>1, CheckAck
  <2> QED BY <1>0, <1>1, <1>7, <2>2 DEF Protocol, Preparing, Unstarted
<1>8. CASE pc[e] = "pass"
  <2>1. PassProtocol(e)'
    BY <1>0, <1>8, CheckPass DEF Protocol
  <2> QED BY <1>0, <1>1, <1>8, <2>1 DEF Protocol, Preparing, Unstarted
<1>9. CASE pc[e] = "command"
  <2>1. CommandProtocol(e)'
    BY <1>0, <1>9, CheckCommand DEF Protocol
  <2> QED BY <1>0, <1>1, <1>9, <2>1 DEF Protocol, Preparing, Unstarted
<1>10. CASE pc[e] = "ack of result"
  <2>1. ResultProtocol(e)'
    BY <1>0, <1>10, CheckResult DEF Protocol
  <2> QED BY <1>0, <1>1, <1>10, <2>1 DEF Protocol, Preparing, Unstarted
<1>11. CASE pc[e] \in {"renew edits", "heading of next"}
  <2>1. Ahead(e, <<>>)'
    BY <1>0, <1>11, CheckAhead DEF Protocol
  <2> QED BY <1>0, <1>1, <1>11, <2>1 DEF Protocol, Preparing, Unstarted
<1> QED
  BY <1>1, <1>2, <1>3, <1>4, <1>5, <1>6, <1>7, <1>8, <1>9, <1>10, <1>11 DEF Places, Fallible

(***************************************************************************)
(* The protocol is kept as long as the checker keeps to it.                *)
(***************************************************************************)
LEMMA SameProtocol ==
  ASSUME NEW e \in Editors, pc'[e] = pc[e], run'[e] = run[e], to'[e] = to[e], from'[e] = from[e],
         child'[e] = child[e], checker'[e] = checker[e], Protocol(e)
  PROVE  Protocol(e)'
<1>1. Rejected(e)' <=> Rejected(e)
  BY DEF Rejected
<1>2. ASSUME NEW next
      PROVE  Waits(e, next)' <=> Waits(e, next)
  BY DEF Waits, Agree
<1>3. HeaderNext(e)' = HeaderNext(e)
  BY DEF HeaderNext
<1>4. Waits(e, HeaderNext(e))' <=> Waits(e, HeaderNext(e))
  BY <1>3 DEF Waits, Agree
<1>5. /\ Telling(e, Len(to[e]))' <=> Telling(e, Len(to[e]))
      /\ WrongAmong(e, Len(to[e]))' <=> WrongAmong(e, Len(to[e]))
  BY DEF Telling, WrongAmong
<1>6. PlanProtocol(e)' <=> PlanProtocol(e)
  BY DEF PlanProtocol, Waits, Answered, Agree
<1>7. Hearing(e, HeaderNext(e), <<"H">>)' <=> Hearing(e, HeaderNext(e), <<"H">>)
  BY <1>3 DEF Hearing, Agree
<1>8. Answered(e, "lines", <<"READY">>)' <=> Answered(e, "lines", <<"READY">>)
  BY DEF Answered, Agree
<1>9. AckProtocol(e)' <=> AckProtocol(e)
  BY DEF AckProtocol, Rejected, Telling, WrongAmong, Answered, Agree
<1>10. PassProtocol(e)' <=> PassProtocol(e)
  BY DEF PassProtocol, Hearing, Agree
<1>11. CommandProtocol(e)' <=> CommandProtocol(e)
  BY DEF CommandProtocol, Hearing, Waits, Ahead, Answered, Agree
<1>12. ResultProtocol(e)' <=> ResultProtocol(e)
  BY DEF ResultProtocol, Rejected, Ahead, Agree
<1>13. Ahead(e, <<>>)' <=> Ahead(e, <<>>)
  BY DEF Ahead, Agree
<1>14. /\ pc'[e] \in {"idle", "prepare", "spawn"} \/ run'[e].success => ~run'[e].bad
       /\ pc'[e] = "plan" => PlanProtocol(e)'
       /\ pc'[e] \in Preparing => Waits(e, HeaderNext(e))'
       /\ pc'[e] = "ready" => Hearing(e, HeaderNext(e), <<"H">>)' \/ Answered(e, "lines", <<"READY">>)'
       /\ pc'[e] \in Unstarted \ {"spawn"} => checker'[e].batch = 0
       /\ pc'[e] = "fixture" => Waits(e, "lines")'
  BY <1>2, <1>4, <1>6, <1>7, <1>8 DEF Protocol
<1>15. /\ pc'[e] = "step" => \/ Rejected(e)'
                             \/ Telling(e, Len(to[e]))' /\ (run'[e].bad <=> WrongAmong(e, Len(to[e]))')
       /\ pc'[e] = "send" => \/ Rejected(e)'
                             \/ Telling(e, Len(to[e]))' /\ (WrongAmong(e, Len(to[e]))' => run'[e].bad)
       /\ pc'[e] = "batch" => \/ Rejected(e)'
                              \/ Telling(e, Len(to[e]))' /\ (run'[e].bad <=> WrongAmong(e, Len(to[e]))')
  BY <1>1, <1>5 DEF Protocol
<1>16. /\ pc'[e] = "ack" => AckProtocol(e)'
       /\ pc'[e] \in {"renew", "renewing"} => Waits(e, "lines")' /\ checker'[e].batch = 0
       /\ pc'[e] = "end" => Rejected(e)' \/ (Waits(e, "lines")' /\ checker'[e].batch = 0)
       /\ pc'[e] = "pass" => PassProtocol(e)'
       /\ pc'[e] \in {"isolated", "heading of edits", "send READY"} => Waits(e, "ready")'
       /\ pc'[e] = "command" => CommandProtocol(e)'
  BY <1>1, <1>2, <1>9, <1>10, <1>11 DEF Protocol
<1>17. /\ pc'[e] = "base" => Waits(e, "base")'
       /\ pc'[e] = "obey" => Waits(e, "result")'
       /\ pc'[e] = "result" => /\ child'[e] = "runs" /\ checker'[e].count = run'[e].seq
                               /\ checker'[e].next = "result" /\ to'[e] = <<>> /\ from'[e] = <<>>
       /\ pc'[e] = "ack of result" => ResultProtocol(e)'
       /\ pc'[e] \in {"renew edits", "heading of next"} => Ahead(e, <<>>)'
       /\ pc'[e] = "clean" => Waits(e, "clean")'
       /\ pc'[e] = "complete" => Waits(e, "complete")'
  BY <1>2, <1>12, <1>13 DEF Protocol
<1> QED BY <1>14, <1>15, <1>16, <1>17 DEF Protocol

\* only the end of a run forgets that its checker broke the protocol
LEMMA LiedStays ==
  ASSUME Types, NEW e \in Editors, Begin(e) \/ Working(e)
  PROVE  run'[e].lied = run[e].lied \/ Unlock(e)
<1> DEFINE r == run[e]
<1>0. run \in [Editors -> Runs] /\ r \in Runs
  BY DEF Types
<1>1. CASE run' = run
  BY <1>1
<1>2. ASSUME NEW s, Became(e, s)
      PROVE  run'[e] = s
  BY <1>0, <1>2 DEF Became
<1>3. ASSUME NEW s, NEW line, Journalled(e, s, line)
      PROVE  run'[e] = [s EXCEPT !.used = Append(@, line)]
  BY <1>0, <1>3 DEF Journalled, Became
<1>a. ASSUME NEW line, Journalled(e, r, line)
      PROVE  run'[e].lied = r.lied
  <2>1. \A u : [r EXCEPT !.used = u].lied = r.lied
    BY <1>0 DEF Runs
  <2>2. run'[e] = [r EXCEPT !.used = Append(r.used, line)]
    BY <1>3, <1>a
  <2> QED BY <2>1, <2>2
<1>4. CASE Prepare(e)
  BY <1>0, <1>2, <1>4 DEF Prepare, Runs
<1>5. CASE ReadPlan(e)
  BY <1>0, <1>2, <1>5 DEF ReadPlan, Runs
<1>6. CASE NewBatch(e)
  BY <1>0, <1>2, <1>6 DEF NewBatch, Truncate, WriteHeading, Runs
<1>7. CASE Step(e)
  <2>1. CASE Became(e, [r EXCEPT !.over = TRUE])
    BY <1>0, <1>2, <2>1 DEF Runs
  <2>2. CASE \E good \in BOOLEAN : Journalled(e, [r EXCEPT !.bad = @ \/ ~good], <<"S", r.seq>>)
    <3>1. PICK b \in BOOLEAN : Journalled(e, [r EXCEPT !.bad = b], <<"S", r.seq>>)
      BY <1>0, <2>2, BadIn
    <3>2. run'[e] = [[r EXCEPT !.bad = b] EXCEPT !.used = Append(@, <<"S", r.seq>>)]
      BY <1>3, <3>1
    <3> QED BY <1>0, <3>2 DEF Runs
  <2> QED BY <1>7, <2>1, <2>2 DEF Step
<1>8. CASE Send(e)
  BY <1>0, <1>2, <1>8 DEF Send, Runs
<1>9. CASE AcknowledgeBatch(e)
  BY <1>a, <1>9 DEF AcknowledgeBatch
<1>10. CASE Acknowledged(e)
  BY <1>0, <1>2, <1>10 DEF Acknowledged, Runs
<1>11. CASE SendEnd(e)
  BY <1>a, <1>11 DEF SendEnd
<1>12. CASE File(e)
  BY <1>0, <1>2, <1>12 DEF File, Runs
<1>13. CASE Command(e)
  BY <1>a, <1>13 DEF Command
<1>14. CASE Obey(e)
  <2>1. PICK b \in BOOLEAN : Journalled(e, [r EXCEPT !.bad = b], <<"R", r.seq>>)
    BY <1>0, <1>14, BadIn DEF Obey
  <2>2. run'[e] = [[r EXCEPT !.bad = b] EXCEPT !.used = Append(@, <<"R", r.seq>>)]
    BY <1>3, <2>1
  <2> QED BY <1>0, <2>2 DEF Runs
<1>15. CASE Result(e)
  BY <1>0, <1>2, <1>15 DEF Result, Runs
<1>16. CASE ResultAcknowledged(e)
  BY <1>0, <1>2, <1>16 DEF ResultAcknowledged, Runs
<1>17. CASE Pass(e)
  BY <1>0, <1>2, <1>17 DEF Pass, Runs
<1>18. CASE Reap(e)
  BY <1>0, <1>2, <1>18 DEF Reap, Runs
<1>19. \/ Begin(e) \/ StartChecker(e) \/ SendHeader(e) \/ Ready(e) \/ Fixture(e) \/ SendReady(e) \/ Base(e)
       \/ CloseFile(e) \/ Clean(e) \/ Done(e) \/ Complete(e) \/ GoesWrong(e) \/ WriteFails(e) \/ Fail(e)
       \/ StopChecker(e) \/ Finish(e)
       => run' = run
  BY DEF Begin, StartChecker, SendHeader, Ready, Fixture, SendReady, Base, CloseFile, Clean, Done, Complete,
         GoesWrong, WriteFails, AppendFails, Fail, StopChecker, Finish
<1> QED
  BY <1>1, <1>4, <1>5, <1>6, <1>7, <1>8, <1>9, <1>10, <1>11, <1>12, <1>13, <1>14, <1>15, <1>16, <1>17,
     <1>18, <1>19 DEF Working

LEMMA IInvInit == Init => IInv
<1> SUFFICES ASSUME Init PROVE IInv
  OBVIOUS
<1>1. Core
  BY CoreInit
<1>2. ASSUME NEW e \in Editors
      PROVE  Protocol(e)
  <2>1. pc[e] = "idle" /\ ~run[e].bad
    BY DEF Init, NewRun
  <2> QED BY <2>1 DEF Protocol, Preparing, Unstarted
<1> QED BY <1>1, <1>2 DEF IInv

LEMMA IInvStep ==
  ASSUME IInv, [Next]_vars
  PROVE  IInv'
<1>0. Core /\ Types /\ Core'
  BY CoreStep DEF IInv, Core
<1>1. CASE UNCHANGED vars
  <2>1. ASSUME NEW e \in Editors, ~run'[e].lied
        PROVE  Protocol(e)'
    <3>1. Protocol(e)
      BY <1>1, <2>1 DEF IInv, vars
    <3> QED BY <1>1, <3>1, SameProtocol DEF vars
  <2> QED BY <1>0, <2>1 DEF IInv
<1>2. ASSUME NEW e \in Editors, Moves(e)
      PROVE  IInv'
  <2>1. ASSUME ~run'[e].lied
        PROVE  Protocol(e)'
    <3>0. DOMAIN run = Editors /\ DOMAIN pc = Editors /\ run[e] \in Runs
      BY <1>0 DEF Types
    <3>1. CASE Unlock(e)
      <4>1. pc'[e] = "idle" /\ run'[e] = NewRun /\ ~NewRun.bad
        BY <3>0, <3>1 DEF Unlock, Go, Became, NewRun
      <4> QED BY <4>1 DEF Protocol, Preparing, Unstarted
    <3>2. CASE (Begin(e) \/ Working(e)) /\ ~Unlock(e)
      <4>1. Protocol(e)
        BY <1>0, <2>1, <3>2, LiedStays DEF IInv
      <4> QED BY <1>0, <3>2, <4>1, ProtocolWorks
    <3>3. CASE Checking(e)
      <4>1. Protocol(e)
        BY <2>1, <3>3, CheckingKeeps DEF IInv
      <4> QED BY <1>0, <3>3, <4>1, ProtocolChecks
    <3>4. CASE Misbehaves(e)
      <4>1. run'[e].lied
        BY <3>0, <3>4 DEF Misbehaves, Became, Runs
      <4> QED BY <2>1, <4>1
    <3>5. CASE Crash(e)
      <4>1. pc'[e] = "dead" /\ ~run'[e].success
        BY <3>0, <3>5 DEF Crash, Go, Became, NewRun
      <4> QED BY <4>1, QuietEnd
    <3> QED BY <1>2, <3>1, <3>2, <3>3, <3>4, <3>5 DEF Moves
  <2>2. ASSUME NEW f \in Editors, f # e, ~run'[f].lied
        PROVE  Protocol(f)'
    <3>1. /\ pc'[f] = pc[f] /\ run'[f] = run[f] /\ to'[f] = to[f]
          /\ from'[f] = from[f] /\ child'[f] = child[f] /\ checker'[f] = checker[f]
      BY <1>0, <1>2, <2>2, Others
    <3>2. Protocol(f)
      BY <2>2, <3>1 DEF IInv
    <3> QED BY <3>1, <3>2, SameProtocol
  <2> QED BY <1>0, <2>1, <2>2 DEF IInv
<1> QED BY <1>1, <1>2 DEF Next, Moves

\* The inductive invariant: what holds whatever the checker does, and as long
\* as it keeps to its protocol what is in the two pipes at every place of
\* run_test.
THEOREM IInvHolds == Spec => []IInv
<1>1. Init => IInv
  BY IInvInit
<1>2. IInv /\ [Next]_vars => IInv'
  BY IInvStep
<1> QED BY <1>1, <1>2, PTL DEF Spec

LEMMA IInvImplies == IInv => PassMeansChecked /\ CheckerAgrees
<1> SUFFICES ASSUME IInv PROVE PassMeansChecked /\ CheckerAgrees
  OBVIOUS
<1>1. PassMeansChecked
  <2>1. ASSUME NEW e \in Editors, run[e].success, ~run[e].lied
        PROVE  ~run[e].bad /\ run[e].acked = run[e].seq
    BY <2>1 DEF IInv, Core, Succeeds, Protocol
  <2> QED BY <2>1 DEF PassMeansChecked
<1>2. ASSUME NEW e \in Editors, child[e] = "exit 1", ~run[e].lied, ~run[e].bad,
             pc[e] \notin {"fail", "stop", "reap"}
      PROVE  FALSE
  <2>1. pc[e] \in Places /\ Protocol(e) /\ ~Rejected(e) /\ child[e] \notin {"runs", "none", "exit 0"}
    BY <1>2 DEF IInv, Core, Types, Rejected
  <2>2. \A n : ~Agree(e, n) /\ ~Telling(e, n)
    BY <2>1 DEF Agree, Telling
  <2>3. \A next, line : ~Waits(e, next) /\ ~Hearing(e, next, line) /\ ~Answered(e, next, line)
    BY <2>2 DEF Waits, Hearing, Answered
  <2>4. \A before : ~Ahead(e, before)
    BY <2>2 DEF Ahead
  <2>5. ~PlanProtocol(e) /\ ~AckProtocol(e)
    BY <2>1, <2>2, <2>3 DEF PlanProtocol, AckProtocol
  <2>6. ~CommandProtocol(e) /\ ~ResultProtocol(e) /\ ~PassProtocol(e)
    BY <2>1, <2>2, <2>3, <2>4 DEF CommandProtocol, ResultProtocol, PassProtocol
  <2>7. pc[e] \notin {"idle", "prepare", "spawn", "finish", "unlock", "dead"}
    BY <2>1 DEF IInv, Core, Returned
  <2>8. pc[e] \notin {"plan", "ready", "fixture", "step", "send", "batch", "ack"} \cup Preparing
    BY <2>1, <2>2, <2>3, <2>5 DEF Protocol
  <2>9. pc[e] \notin {"renew", "renewing", "end", "pass", "isolated", "heading of edits", "send READY", "command"}
    BY <2>1, <2>3, <2>6 DEF Protocol
  <2>10. pc[e] \notin {"base", "obey", "result", "ack of result", "renew edits", "heading of next", "clean",
                       "complete"}
    BY <2>1, <2>3, <2>4, <2>6 DEF Protocol
  <2> QED BY <1>2, <2>1, <2>7, <2>8, <2>9, <2>10 DEF Places, Fallible, Preparing
<1> QED BY <1>1, <1>2 DEF CheckerAgrees

\* A run that reports success, with a checker that keeps to its protocol,
\* observed nothing wrong and had everything acknowledged: PassMeansChecked.
\* (chez-tester.c, run_test; src/Lean, serve)
THEOREM PassIsChecked == Spec => []PassMeansChecked
  BY IInvHolds, IInvImplies, PTL

\* Editor and checker agree on every line of the protocol, in every order in
\* which the two take their steps: the checker rejects nothing but what was
\* observed wrong, CheckerAgrees.
THEOREM CheckerAgreement == Spec => []CheckerAgrees
  BY IInvHolds, IInvImplies, PTL
=============================================================================
