------------------------------- MODULE Tester -------------------------------
(***************************************************************************)
(* The tester of the editor (src/chez-tester.c, chez-edit-tester.h and     *)
(* chez-search-tester.h): it drives the editor through real keys, writes   *)
(* what it observes to a journal of limited size and to a checker process  *)
(* (src/Lean), and reuses the journal once the checker has acknowledged    *)
(* what is in it.  Several editors share the directory of the journal.     *)
(*                                                                         *)
(* A line is a tuple: its kind and, where it has them, its number and      *)
(* whether what it reports is right.  How long a traversal is, which texts *)
(* are moved and how a plan is read are left open; a wait that ends        *)
(* without the awaited line, a system call that fails and a user who       *)
(* cancels are one step, GoesWrong, from every place that has them.        *)
(***************************************************************************)
EXTENDS Integers, Sequences
LOCAL INSTANCE SequencesExt

CONSTANTS
  Editors,              \* editor processes with one CHEZ_TESTER_DIR
  Batch,                \* r.batch, BATCH_MAX
  TraceLines,           \* TRACE_CAP / LINE_CAP
  KeepLimit,            \* observations of a run that keeps its whole trace
  MaxSeq,               \* bound: observations of a run that presses Enter
  Texts, Cycles,        \* file_count, edit_cycles: what a plan asks for
  Mortal,               \* the editors that may crash
  Untrusted             \* the editors with a checker that may break its protocol

ASSUME TesterSizes ==
  /\ TraceLines \in Nat /\ Batch \in 2..(TraceLines - 2) /\ KeepLimit \in 1..(TraceLines - 3) /\ KeepLimit < Batch
  /\ MaxSeq \in Nat /\ Texts \in Nat \ {0} /\ Cycles \in Nat \ {0} /\ Texts * Cycles <= MaxSeq
  /\ Mortal \subseteq Editors /\ Untrusted \subseteq Editors

VARIABLES
  pc,                   \* where each editor is in run_test, or "dead"
  run,                  \* struct run of each
  user,                 \* what each has of its user: buffer shown, mark, clipboard, search
  to, from,             \* the two pipes of each run
  child,                \* the checker process: "none", "runs", "exit 0", "exit 1"
  checker,              \* what the checker knows
  lock,                 \* run.lock exists
  journal,              \* pending.trace
  failure               \* failure.trace

vars == <<pc, run, user, to, from, child, checker, lock, journal, failure>>

Kinds == {"read", "edit", "search"}

\* keep: keep_reference. used: the copy of the journal in memory.
\* over: the last pass has ended. bad, lied: history, of a wrong observation and of a checker that breaks the protocol
NewRun == [kind |-> "read", keep |-> FALSE, plan |-> FALSE, seq |-> 0, acked |-> 0, pending |-> 0,
           file |-> 0, used |-> <<>>, over |-> FALSE, locked |-> FALSE, success |-> FALSE, bad |-> FALSE, lied |-> FALSE]
NewChecker == [count |-> 0, file |-> 0, batch |-> 0, next |-> "start"]
Mine == [shown |-> "origin", fixture |-> FALSE, mark |-> "user", clip |-> "user", kills |-> "user",
         search |-> "user"]

Init ==
  /\ pc = [e \in Editors |-> "idle"] /\ run = [e \in Editors |-> NewRun]
  /\ user = [e \in Editors |-> Mine]
  /\ to = [e \in Editors |-> <<>>] /\ from = [e \in Editors |-> <<>>]
  /\ child = [e \in Editors |-> "none"] /\ checker = [e \in Editors |-> NewChecker]
  /\ lock = FALSE /\ journal = <<>> /\ failure = <<>>

Go(e, place) == pc' = [pc EXCEPT ![e] = place]
Became(e, r) == run' = [run EXCEPT ![e] = r]
Finds(e, u) == user' = [user EXCEPT ![e] = u]
Closed == <<"closed">>

Process == <<child, checker>>
Pipes == <<to, from>>
Files == <<lock, journal, failure>>

-----------------------------------------------------------------------------
(* The start of a run                                                        *)

Begin(e) ==                     \* chez_tester_poll, run_test
  /\ pc[e] = "idle" /\ Go(e, "prepare")
  /\ UNCHANGED <<run, user, Pipes, Process, Files>>

\* a directory that another run has, or has left in a crash, is refused
Prepare(e) ==                   \* prepare_output
  /\ pc[e] = "prepare"
  /\ IF lock THEN Go(e, "fail") /\ UNCHANGED <<run, Files>>
     ELSE /\ lock' = TRUE /\ journal' = <<>> /\ failure' = <<>>
          /\ \E plan, keep \in BOOLEAN :
               Became(e, [run[e] EXCEPT !.locked = TRUE, !.plan = plan, !.keep = keep])
          /\ Go(e, "spawn")
  /\ UNCHANGED <<user, Pipes, Process>>

StartChecker(e) ==
  /\ pc[e] = "spawn"
  /\ child' = [child EXCEPT ![e] = "runs"] /\ checker' = [checker EXCEPT ![e] = NewChecker]
  /\ to' = [to EXCEPT ![e] = <<>>] /\ from' = [from EXCEPT ![e] = <<>>]
  /\ Go(e, IF run[e].plan THEN "plan" ELSE "header")
  /\ UNCHANGED <<run, user, Files>>

\* The awaited line is the next one.
Receives(e, line) == from[e] # <<>> /\ Head(from[e]) = line /\ from' = [from EXCEPT ![e] = Tail(@)]

\* Writing to a checker that has ended is an error.
Sends(e, line) == child[e] = "runs" /\ to' = [to EXCEPT ![e] = Append(@, line)]

\* The clipboard and the kill ring are put aside, and the search.  A ring that an
\* earlier run left aside makes tester-history-begin fail.
Aside(u, kind) ==
  [u EXCEPT !.clip = "tester", !.kills = IF @ = "left aside" THEN "not begun" ELSE "tester",
            !.search = IF kind = "search" THEN "tester" ELSE @]

ReadPlan(e) ==
  /\ pc[e] = "plan"
  /\ \E kind \in Kinds, keep \in BOOLEAN :
       /\ Receives(e, <<"PLAN", kind, keep>>)
       /\ Became(e, [run[e] EXCEPT !.kind = kind, !.keep = keep /\ kind = "read"])
       /\ IF kind = "read" THEN Go(e, "header") /\ UNCHANGED user
          ELSE Go(e, "isolated") /\ Finds(e, Aside(user[e], kind))
  /\ UNCHANGED <<to, Process, Files>>

-----------------------------------------------------------------------------
(* The journal                                                               *)

HasRoom(r) == Len(r.used) < TraceLines

\* append_trace: to the file, then to memory
Journalled(e, r, line) ==
  /\ HasRoom(r)
  /\ journal' = Append(journal, line)
  /\ Became(e, [r EXCEPT !.used = Append(@, line)])

AppendFails(e, line) ==
  /\ journal' \in {journal, Append(journal, line)}
  /\ Go(e, "fail")
  /\ UNCHANGED <<run, user, Pipes, Process, lock, failure>>

\* new_batch: first the file is emptied ...
Truncate(e, place, next) ==
  /\ pc[e] = place
  /\ journal' = <<>> /\ Became(e, [run[e] EXCEPT !.used = <<>>])
  /\ Go(e, next)
  /\ UNCHANGED <<user, Pipes, Process, lock, failure>>

\* ... then it gets the header and the checkpoint
Heading(r) == IF r.keep THEN <<<<"H">>>> ELSE <<<<"H">>, <<"C", r.acked>>>>
WriteHeading(e, place, next) ==
  /\ pc[e] = place
  /\ journal' = journal \o Heading(run[e])
  /\ Became(e, [run[e] EXCEPT !.used = @ \o Heading(run[e])])
  /\ Go(e, next)
  /\ UNCHANGED <<user, Pipes, Process, lock, failure>>

AfterBatch(e) == IF run[e].over THEN "end" ELSE "step"

NewBatch(e) ==
  /\ pc[e] = "isolated" => user[e].kills = "tester"          \* tester-history-begin
  /\ \/ Truncate(e, "header", "heading") \/ WriteHeading(e, "heading", "send header")
     \/ Truncate(e, "renew", "renewing") \/ WriteHeading(e, "renewing", AfterBatch(e))
     \/ Truncate(e, "isolated", "heading of edits") \/ WriteHeading(e, "heading of edits", "send READY")
     \/ Truncate(e, "renew edits", "heading of next") \/ WriteHeading(e, "heading of next", "command")

-----------------------------------------------------------------------------
(* Pressing Enter through a text                                             *)

SendHeader(e) ==
  /\ pc[e] = "send header" /\ Sends(e, <<"H">>) /\ Go(e, "ready")
  /\ UNCHANGED <<run, user, from, Process, Files>>

Ready(e) ==
  /\ pc[e] = "ready" /\ Receives(e, <<"READY">>) /\ Go(e, "fixture")
  /\ UNCHANGED <<run, user, to, Process, Files>>

InFixture(u) == [u EXCEPT !.shown = "fixture", !.fixture = TRUE, !.mark = "tester"]

Fixture(e) ==
  /\ pc[e] = "fixture" /\ Finds(e, InFixture(user[e]))
  /\ Go(e, "step")
  /\ UNCHANGED <<run, Pipes, Process, Files>>

StepOrEnd(e) ==                                                         \* mutant
  /\ pc[e] = "step"
  /\ \/ /\ run[e].seq < MaxSeq /\ ~(run[e].keep /\ run[e].seq >= KeepLimit)
        /\ \E good \in BOOLEAN : Journalled(e, [run[e] EXCEPT !.bad = @ \/ ~good], <<"S", run[e].seq>>)
        /\ Go(e, "send")
     \/ /\ run[e].seq > 0 /\ Go(e, "end")
        /\ UNCHANGED <<run, journal>>
  /\ UNCHANGED <<user, Pipes, Process, lock, failure>>

\* A reset or an Enter, and what is seen of it; or the end of the last pass.
Step(e) ==
  /\ pc[e] = "step"
  /\ \/ /\ run[e].seq < MaxSeq /\ ~(run[e].keep /\ run[e].seq >= KeepLimit)
        /\ \E good \in BOOLEAN : Journalled(e, [run[e] EXCEPT !.bad = @ \/ ~good], <<"S", run[e].seq>>)
        /\ Go(e, "send")
     \/ /\ run[e].seq > 0 /\ Go(e, IF run[e].pending = 0 THEN "end" ELSE "batch")
        /\ Became(e, [run[e] EXCEPT !.over = TRUE]) /\ UNCHANGED journal
  /\ UNCHANGED <<user, Pipes, Process, lock, failure>>

ObservedText(r) == r.used[Len(r.used)] \o <<TRUE>>                       \* mutant

\* What has just been journalled, with what is wrong in it.  What is wrong
\* once stays wrong: the text, and the count of errors in Scheme.
Observed(r) == r.used[Len(r.used)] \o <<~r.bad>>

Send(e) ==                      \* the second half of observe
  /\ pc[e] = "send"
  /\ Sends(e, Observed(run[e]))
  /\ LET r == [run[e] EXCEPT !.seq = @ + 1, !.pending = @ + 1] IN
       Became(e, r) /\ Go(e, IF r.pending < Batch THEN "step" ELSE "batch")
  /\ UNCHANGED <<user, from, Process, Files>>

AcknowledgeBatch(e) ==
  /\ pc[e] = "batch"
  /\ IF run[e].keep THEN Journalled(e, run[e], <<"B", run[e].seq>>) ELSE UNCHANGED <<run, journal>>
  /\ Sends(e, <<"B", run[e].seq>>) /\ Go(e, "ack")
  /\ UNCHANGED <<user, from, Process, lock, failure>>

Acknowledged(e) ==
  /\ pc[e] = "ack" /\ Receives(e, <<"ACK", run[e].seq>>)
  /\ Became(e, [run[e] EXCEPT !.acked = run[e].seq, !.pending = 0])
  /\ Go(e, IF run[e].keep THEN AfterBatch(e) ELSE "renew")
  /\ UNCHANGED <<user, to, Process, Files>>

\* "Z n", and the pipe is closed: the checker accepts no further input
SendEnd(e) ==
  /\ pc[e] = "end" /\ child[e] = "runs"
  /\ IF run[e].keep THEN Journalled(e, run[e], <<"Z", run[e].seq>>) ELSE UNCHANGED <<run, journal>>
  /\ to' = [to EXCEPT ![e] = @ \o <<<<"Z", run[e].seq>>, Closed>>]
  /\ Go(e, "pass")
  /\ UNCHANGED <<user, from, Process, lock, failure>>

-----------------------------------------------------------------------------
(* Moving, copying, pasting and undoing; searching: the checker commands     *)

SendReady(e) ==
  /\ pc[e] = "send READY" /\ Sends(e, <<"READY">>) /\ Go(e, "command")
  /\ UNCHANGED <<run, user, from, Process, Files>>

File(e) ==                      \* FILE: the next text, in a buffer of its own
  /\ pc[e] = "command" /\ ~user[e].fixture /\ run[e].file < Texts
  /\ Receives(e, <<"FILE", run[e].file>>)
  /\ Became(e, [run[e] EXCEPT !.file = @ + 1])
  /\ Finds(e, InFixture(user[e]))
  /\ Go(e, "base")
  /\ UNCHANGED <<to, Process, Files>>

Base(e) ==
  /\ pc[e] = "base" /\ Sends(e, <<"BASE">>) /\ Go(e, "command")
  /\ UNCHANGED <<run, user, from, Process, Files>>

Command(e) ==                   \* E or S: into the journal before it is obeyed
  /\ pc[e] = "command" /\ user[e].fixture /\ run[e].seq < run[e].file * Cycles
  /\ Receives(e, <<"E", run[e].seq>>)
  /\ Journalled(e, run[e], <<"E", run[e].seq>>)
  /\ Go(e, "obey")
  /\ UNCHANGED <<user, to, Process, lock, failure>>

Obey(e) ==                      \* the keys, and the line that reports their result
  /\ pc[e] = "obey"
  /\ \E good \in BOOLEAN : Journalled(e, [run[e] EXCEPT !.bad = @ \/ ~good], <<"R", run[e].seq>>)
  /\ Go(e, "result")
  /\ UNCHANGED <<user, Pipes, Process, lock, failure>>

Result(e) ==
  /\ pc[e] = "result"
  /\ Sends(e, Observed(run[e]))
  /\ Became(e, [run[e] EXCEPT !.seq = @ + 1]) /\ Go(e, "ack of result")
  /\ UNCHANGED <<user, from, Process, Files>>

ResultAcknowledged(e) ==
  /\ pc[e] = "ack of result" /\ Receives(e, <<"ACK", run[e].seq>>)
  /\ Became(e, [run[e] EXCEPT !.acked = run[e].seq]) /\ Go(e, "renew edits")
  /\ UNCHANGED <<user, to, Process, Files>>

AtOrigin(u) == [u EXCEPT !.shown = "origin", !.fixture = FALSE]

CloseFile(e) ==
  /\ pc[e] = "command" /\ user[e].fixture /\ run[e].seq = run[e].file * Cycles
  /\ Receives(e, <<"CLOSE", run[e].file - 1>>)
  /\ Finds(e, AtOrigin(user[e]))
  /\ Go(e, "clean")
  /\ UNCHANGED <<run, to, Process, Files>>

Clean(e) ==
  /\ pc[e] = "clean" /\ Sends(e, <<"CLEAN">>) /\ Go(e, "command")
  /\ UNCHANGED <<run, user, from, Process, Files>>

Restored(u) == [u EXCEPT !.kills = "user", !.clip = "user", !.search = "user"]

Done(e) ==
  /\ pc[e] = "command" /\ ~user[e].fixture /\ run[e].file = Texts
  /\ Receives(e, <<"DONE", run[e].seq>>)
  /\ Finds(e, Restored(user[e]))
  /\ Go(e, "complete")
  /\ UNCHANGED <<run, to, Process, Files>>

Complete(e) ==
  /\ pc[e] = "complete" /\ Sends(e, <<"COMPLETE">>) /\ Go(e, "pass")
  /\ UNCHANGED <<run, user, from, Process, Files>>

-----------------------------------------------------------------------------
(* The end of a run                                                          *)

Pass(e) ==
  /\ pc[e] = "pass" /\ Receives(e, <<"PASS", run[e].seq>>)
  /\ Became(e, [run[e] EXCEPT !.success = TRUE]) /\ Go(e, "stop")
  /\ UNCHANGED <<user, to, Process, Files>>

FallibleButAck == {"spawn", "plan", "header", "heading", "send header", "ready", "fixture",   \* mutant
  "step", "send", "batch", "renew", "renewing", "end", "pass", "isolated", "heading of edits",
  "send READY", "base", "command", "obey", "result", "ack of result", "renew edits",
  "heading of next", "clean", "complete"}

\* every step that waits, calls the system or can be cancelled
Fallible == {"spawn", "plan", "header", "heading", "send header", "ready", "fixture", "step", "send",
  "batch", "ack", "renew", "renewing", "end", "pass", "isolated", "heading of edits", "send READY",
  "base", "command", "obey", "result", "ack of result", "renew edits", "heading of next", "clean",
  "complete"}

GoesWrong(e) ==
  /\ pc[e] \in Fallible /\ Go(e, "fail")
  /\ UNCHANGED <<run, user, Pipes, Process, Files>>

WriteFails(e) ==
  \/ pc[e] = "step" /\ AppendFails(e, <<"S", run[e].seq>>)
  \/ pc[e] = "obey" /\ AppendFails(e, <<"R", run[e].seq>>)

\* The end of run_edit_test and run_search_test, which the other kind has no
\* need of; then stop_checker(&r, 0): SIGTERM, and SIGKILL if need be.
Terminated(e) ==
  /\ child' = [child EXCEPT ![e] = IF @ = "none" THEN @ ELSE "exit 1"]
  /\ checker' = [checker EXCEPT ![e] = NewChecker]
  /\ to' = [to EXCEPT ![e] = <<Closed>>] /\ from' = [from EXCEPT ![e] = <<>>]

FailKeepingScrap(e) ==                                                  \* mutant
  /\ pc[e] = "fail"
  /\ Finds(e, [user[e] EXCEPT !.kills = "user", !.search = "user"])
  /\ Terminated(e) /\ Go(e, "reap")
  /\ UNCHANGED <<run, Files>>

\* A run that put the ring aside and did not get it back yet tries again, and
\* the ring stays aside if tester-history-end fails.
Fail(e) ==
  /\ pc[e] = "fail"
  /\ \E kills \in IF user[e].kills \in {"tester", "not begun"}
                  THEN {"user", "left aside"} ELSE {user[e].kills} :
       Finds(e, [Restored(user[e]) EXCEPT !.kills = kills])
  /\ Terminated(e) /\ Go(e, "reap")
  /\ UNCHANGED <<run, Files>>

\* stop_checker(&r, 1)
StopChecker(e) ==
  /\ pc[e] = "stop"
  /\ to' = [to EXCEPT ![e] = IF @ # <<>> /\ @[Len(@)] = Closed THEN @ ELSE Append(@, Closed)]
  /\ from' = [from EXCEPT ![e] = <<>>]
  /\ Go(e, "reap")
  /\ UNCHANGED <<run, user, Process, Files>>

\* It has exited, or gets SIGKILL after a second.
Reap(e) ==
  /\ pc[e] = "reap"
  /\ child' = [child EXCEPT ![e] = "none"]
  /\ Became(e, [run[e] EXCEPT !.success = @ /\ child[e] = "exit 0"])
  /\ to' = [to EXCEPT ![e] = <<>>]
  /\ checker' = [checker EXCEPT ![e] = NewChecker]
  /\ Go(e, "finish")
  /\ UNCHANGED <<user, from, Files>>

\* The user's buffer and mark again, the fixture deleted, and the reports.
Finish(e) ==
  /\ pc[e] = "finish"
  /\ Finds(e, [AtOrigin(user[e]) EXCEPT !.mark = "user"])
  /\ journal' = IF run[e].success /\ ~run[e].keep THEN <<>> ELSE journal
  /\ failure' = IF run[e].success \/ run[e].used = <<>> THEN failure ELSE run[e].used
  /\ Go(e, "unlock")
  /\ UNCHANGED <<run, Pipes, Process, lock>>

UnlockAnyway(e) ==                                                      \* mutant
  /\ pc[e] = "unlock"
  /\ lock' = FALSE /\ Became(e, NewRun) /\ Go(e, "idle")
  /\ UNCHANGED <<user, Pipes, Process, journal, failure>>

Unlock(e) ==
  /\ pc[e] = "unlock"
  /\ lock' = (lock /\ ~run[e].locked)
  /\ Became(e, NewRun) /\ Go(e, "idle")
  /\ UNCHANGED <<user, Pipes, Process, journal, failure>>

\* The checker of a dead editor finds its pipes closed; the lock stays.  Of the
\* run, what EvidenceKept asks about is kept as history.
Crash(e) ==
  /\ e \in Mortal /\ pc[e] \notin {"idle", "dead"}
  /\ Go(e, "dead")
  /\ child' = [child EXCEPT ![e] = "none"] /\ checker' = [checker EXCEPT ![e] = NewChecker]
  /\ to' = [to EXCEPT ![e] = <<>>] /\ from' = [from EXCEPT ![e] = <<>>]
  /\ Finds(e, Mine)
  /\ Became(e, [NewRun EXCEPT !.seq = run[e].seq, !.acked = run[e].acked, !.locked = run[e].locked])
  /\ UNCHANGED Files

-----------------------------------------------------------------------------
(* The checker (src/Lean): serve, serveText and the loops over files         *)

\* It says line, has read n lines, and goes on as c; "exit 0" or "exit 1" end it.
Says(e, n, lines, c, status) ==
  /\ to' = [to EXCEPT ![e] = SubSeq(@, n + 1, Len(@))]
  /\ from' = [from EXCEPT ![e] = @ \o lines]
  /\ checker' = [checker EXCEPT ![e] = c] /\ child' = [child EXCEPT ![e] = status]
  /\ UNCHANGED <<pc, run, user, Files>>

Goes(e, n, lines, c) == Says(e, n, lines, c, "runs")
Rejects(e, n) == Says(e, n, <<<<"FAIL">>>>, checker[e], "exit 1")

Plans(e) ==
  /\ child[e] = "runs" /\ run[e].plan /\ checker[e].next = "start"
  /\ \E kind \in Kinds, keep \in BOOLEAN :
       Goes(e, 0, <<<<"PLAN", kind, keep>>>>,
            [checker[e] EXCEPT !.next = IF kind = "read" THEN "header" ELSE "ready"])

\* the lines of a run that presses Enter
Checks(e) ==
  /\ child[e] = "runs" /\ to[e] # <<>>
  /\ LET c == checker[e]  line == Head(to[e]) IN
     \/ /\ c.next \in {"start", "header"} /\ line = <<"H">> /\ ~(c.next = "start" /\ run[e].plan)
        /\ Goes(e, 1, <<<<"READY">>>>, [c EXCEPT !.next = "lines"])
     \/ /\ c.next = "lines" /\ line[1] = "S"
        /\ IF line[2] = c.count /\ line[3] /\ c.batch < Batch
             THEN Goes(e, 1, <<>>, [c EXCEPT !.count = @ + 1, !.batch = @ + 1])
             ELSE Rejects(e, 1)
     \/ /\ c.next = "lines" /\ line[1] = "B"
        /\ IF line[2] = c.count /\ c.batch > 0
             THEN Goes(e, 1, <<<<"ACK", c.count>>>>, [c EXCEPT !.batch = 0])
             ELSE Rejects(e, 1)
     \/ /\ c.next = "lines" /\ line[1] = "Z" /\ Len(to[e]) > 1
        /\ IF line[2] = c.count /\ c.batch = 0 /\ to[e][2] = Closed
             THEN Says(e, 2, <<<<"PASS", c.count>>>>, c, "exit 0")
             ELSE Rejects(e, 1)
     \/ line = Closed /\ Rejects(e, 1)

\* It offers what comes next: a text, a command, the end of a text, the end.
Commands(e) ==
  /\ child[e] = "runs" /\ to[e] = <<>>
  /\ LET c == checker[e] IN
     \/ /\ c.next = "between" /\ c.file < Texts
        /\ Goes(e, 0, <<<<"FILE", c.file>>>>, [c EXCEPT !.file = @ + 1, !.next = "base"])
     \/ /\ c.next = "between" /\ c.file = Texts
        /\ Goes(e, 0, <<<<"DONE", c.count>>>>, [c EXCEPT !.next = "complete"])
     \/ /\ c.next = "in a text" /\ c.count < c.file * Cycles
        /\ Goes(e, 0, <<<<"E", c.count>>>>, [c EXCEPT !.next = "result"])
     \/ /\ c.next = "in a text" /\ c.count = c.file * Cycles
        /\ Goes(e, 0, <<<<"CLOSE", c.file - 1>>>>, [c EXCEPT !.next = "clean"])

Hears(e) ==
  /\ child[e] = "runs" /\ to[e] # <<>>
  /\ LET c == checker[e]  line == Head(to[e]) IN
     \/ c.next = "ready" /\ line = <<"READY">> /\ Goes(e, 1, <<>>, [c EXCEPT !.next = "between"])
     \/ c.next = "base" /\ line = <<"BASE">> /\ Goes(e, 1, <<>>, [c EXCEPT !.next = "in a text"])
     \/ /\ c.next = "result" /\ line[1] = "R"
        /\ IF line[2] = c.count /\ line[3]
             THEN Goes(e, 1, <<<<"ACK", c.count + 1>>>>, [c EXCEPT !.count = @ + 1, !.next = "in a text"])
             ELSE Rejects(e, 1)
     \/ c.next = "clean" /\ line = <<"CLEAN">> /\ Goes(e, 1, <<>>, [c EXCEPT !.next = "between"])
     \/ c.next = "complete" /\ line = <<"COMPLETE">> /\ Says(e, 1, <<<<"PASS", c.count>>>>, c, "exit 0")

\* lines that do not fit: too early, too late, or of another run
Replies(r) == {<<"READY">>, <<"FAIL">>} \cup {<<k, n>> : k \in {"ACK", "PASS"}, n \in {r.acked, r.seq}}

\* Another program than the checker, or one that ends early.  It gives one
\* reply, when the editor waits for one, and is then silent.
Misbehaves(e) ==
  /\ e \in Untrusted /\ child[e] = "runs" /\ from[e] = <<>> /\ ~run[e].lied
  /\ pc[e] \in {"plan", "ready", "ack", "pass", "command", "ack of result"}
  /\ \/ \E line \in Replies(run[e]) : from' = [from EXCEPT ![e] = Append(@, line)] /\ UNCHANGED child
     \/ \E status \in {"exit 0", "exit 1"} : child' = [child EXCEPT ![e] = status] /\ UNCHANGED from
  /\ Became(e, [run[e] EXCEPT !.lied = TRUE])
  /\ checker' = [checker EXCEPT ![e] = [@ EXCEPT !.next = "silent"]]
  /\ UNCHANGED <<pc, user, to, Files>>

-----------------------------------------------------------------------------

Working(e) ==
  \/ Prepare(e) \/ StartChecker(e) \/ ReadPlan(e) \/ NewBatch(e)
  \/ SendHeader(e) \/ Ready(e) \/ Fixture(e) \/ Step(e) \/ Send(e) \/ AcknowledgeBatch(e)
  \/ Acknowledged(e) \/ SendEnd(e)
  \/ SendReady(e) \/ File(e) \/ Base(e) \/ Command(e) \/ Obey(e) \/ Result(e)
  \/ ResultAcknowledged(e) \/ CloseFile(e) \/ Clean(e) \/ Done(e) \/ Complete(e)
  \/ Pass(e) \/ GoesWrong(e) \/ WriteFails(e) \/ Fail(e)
  \/ StopChecker(e) \/ Reap(e) \/ Finish(e) \/ Unlock(e)

Checking(e) == Plans(e) \/ Checks(e) \/ Commands(e) \/ Hears(e)

Next == \E e \in Editors : Begin(e) \/ Working(e) \/ Checking(e) \/ Misbehaves(e) \/ Crash(e)

\* The editor goes on; nothing is asked of the checker, and of the user.
Spec == Init /\ [][Next]_vars /\ \A e \in Editors : WF_vars(Working(e))

-----------------------------------------------------------------------------
(* Properties                                                                *)

Lines == {<<"H">>} \cup {<<k, n>> : k \in {"C", "B", "Z", "E", "S", "R"}, n \in 0..MaxSeq}

TypeOK ==
  /\ \A e \in Editors :
       /\ run[e].kind \in Kinds /\ run[e].keep \in BOOLEAN /\ run[e].seq \in 0..MaxSeq
       /\ run[e].acked \in 0..run[e].seq /\ run[e].pending \in 0..Batch
       /\ run[e].used \in Seq(Lines) /\ child[e] \in {"none", "runs", "exit 0", "exit 1"}
       /\ checker[e].count \in 0..MaxSeq /\ checker[e].batch \in 0..Batch
  /\ journal \in Seq(Lines) /\ failure \in Seq(Lines) /\ lock \in BOOLEAN

\* What the checker has not acknowledged is in pending.trace, also after a
\* crash of the editor and while other editors try to run the tester.  The
\* code: chez-tester.c:237, "Only a matching acknowledgment permits
\* deletion/reuse", and the lock of prepare_output.
EvidenceKept == TypeOK /\ \A e \in Editors : run[e].locked =>
  \A n \in run[e].acked..(run[e].seq - 1) : \E i \in DOMAIN journal :
    journal[i][1] \in {"S", "R"} /\ journal[i][2] = n

\* A run that reports success, with a checker that keeps to its protocol,
\* observed nothing wrong and had everything acknowledged.
PassMeansChecked == \A e \in Editors : pc[e] = "finish" /\ run[e].success /\ ~run[e].lied =>
  ~run[e].bad /\ run[e].acked = run[e].seq

\* The two sides agree on the protocol: the checker only rejects a run that
\* observed something wrong or that was given up.
CheckerAgrees == \A e \in Editors : child[e] = "exit 1" /\ ~run[e].lied =>
  run[e].bad \/ pc[e] \in {"fail", "stop", "reap"}

HandedBack(u) == u.kills \in {"user", "left aside"} /\ [u EXCEPT !.kills = "user"] = Mine

\* When a run has ended, whatever happened in it, its user has the buffer,
\* the mark, the clipboard and the search text of before, the kill ring unless
\* tester-history-end failed, and no checker process is left.
HandsBack == \A e \in Editors : pc[e] = "idle" => HandedBack(user[e]) /\ child[e] = "none"

\* Every run ends, whatever the checker does: late, wrong, silent or dead.
\* The code: the limits of ready and stop_checker.
EveryRunEnds == \A e \in Editors : pc[e] # "idle" ~> pc[e] \in {"idle", "dead"}
=============================================================================
