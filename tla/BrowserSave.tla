----------------------------- MODULE BrowserSave -----------------------------
(***************************************************************************)
(* Saving a native buffer's file from browser tabs.  Four actors share one *)
(* private session directory: the tabs (web/page.js), the loopback server  *)
(* (tools/web-server.c, one request at a time), the native editor          *)
(* (src/browser-save.h, called while it waits for a key) and whoever else  *)
(* writes the file.  The server hands a request over as save.pending and   *)
(* polls for save.result; the native editor publishes its text and its     *)
(* version together, as snapshot.                                          *)
(*                                                                         *)
(* A file's contents are one text.  Allocation failures are left out.      *)
(***************************************************************************)
EXTENDS Integers, Sequences

CONSTANTS
  Texts,        \* what a buffer or a file can contain
  Tabs,         \* browser tabs; one that was closed is not opened again
  None,         \* no request, no result
  NoFile,       \* the source file does not exist
  Unknown,      \* disk_known = 0: the file could not be read at launch
  Unnamed,      \* the source buffer has no file name
  MaxSaves,     \* bound: saves asked for by the tabs
  MaxEvents,    \* bound: outside writes and refresh requests
  Extras        \* of "write during save", "native crash", "write errors"

ASSUME SpecialValues ==
  /\ None \notin Texts /\ NoFile \notin Texts
  /\ Unknown \notin Texts \union {NoFile}
  /\ Unnamed \notin Texts \union {NoFile, Unknown}

VARIABLES
  disk,         \* the source file
  native,       \* the text of the native source buffer
  dirty,        \* B_MODIFIED of the source buffer
  source,       \* the source buffer is "live", "readonly", or "gone"
  conflicts,    \* texts kept in *web-n* buffers
  baseline,     \* the text last shared with the browser
  revision,     \* save_revision, its version
  diskBase,     \* disk_baseline: the file as last read or written by a handoff
  snapshot,     \* the packet a new tab opens
  refresh,      \* the refresh file
  pending,      \* the save.pending file
  result,       \* the save.result file
  job,          \* the save the native editor is processing, and how far it is
  running,      \* the native editor has not crashed
  queue,        \* requests the server has not accepted, oldest first
  serving,      \* the request the server waits for
  sequence,     \* the id of the last request accepted
  tabs,
  events,       \* outside writes and refresh requests so far
  late,         \* history: written by others after commit_disk's last look
  committed,    \* history: ids whose text replaced the file
  unconfirmed   \* history: ids answered 503

fileVars   == <<disk, events, late>>
nativeVars == <<native, dirty, source, conflicts, running>>
sharedVars == <<baseline, revision, diskBase, snapshot>>
serverVars == <<queue, serving, sequence, unconfirmed>>
vars == <<fileVars, nativeVars, sharedVars, serverVars, refresh, pending,
          result, job, tabs, committed>>

(***************************************************************************)
(* base is history: the text the tab opened, or last had acknowledged.     *)
(***************************************************************************)
TabState == [at : {"unopened", "editing", "waiting", "closed"},
             text : Texts, base : Texts, rev : Nat, modified : BOOLEAN]
Requests == [id : Nat, tab : Tabs, text : Texts, base : Texts, rev : Nat]
Stages   == {"idle", "taken", "admitted", "checked", "rechecked", "renamed",
             "replying"}
Codes    == {200, 409, 422, 500}

TypeOK ==
  /\ disk \in Texts \union {NoFile}
  /\ native \in Texts
  /\ dirty \in BOOLEAN
  /\ source \in {"live", "readonly", "gone"}
  /\ conflicts \subseteq Texts
  /\ baseline \in Texts
  /\ revision \in Nat
  /\ diskBase \in Texts \union {NoFile, Unknown, Unnamed}
  /\ snapshot \in [text : Texts, rev : Nat, modified : BOOLEAN]
  /\ refresh \in BOOLEAN
  /\ pending \in Requests \union {None}
  /\ result \in [id : Nat, code : Codes, rev : Nat] \union {None}
  /\ job \in [at : Stages, req : Requests \union {None},
              code : Codes \union {None}]
  /\ running \in BOOLEAN
  /\ queue \in Seq(Requests)
  /\ serving \in Requests \union {None}
  /\ sequence \in Nat
  /\ tabs \in [Tabs -> TabState]
  /\ events \in Nat
  /\ late \in BOOLEAN
  /\ committed \subseteq Nat
  /\ unconfirmed \subseteq Nat

(***************************************************************************)
(* Launch: the shared text is the native one, the file is read once.       *)
(***************************************************************************)
Idle == [at |-> "idle", req |-> None, code |-> None]

Init ==
  /\ native \in Texts
  /\ disk \in Texts \union {NoFile}
  /\ diskBase \in {disk, Unknown, Unnamed}
  /\ dirty = (native # disk)
  /\ source = "live"
  /\ conflicts = {}
  /\ baseline = native
  /\ revision = 0
  /\ snapshot = [text |-> native, rev |-> 0, modified |-> native # diskBase]
  /\ refresh = FALSE
  /\ pending = None
  /\ result = None
  /\ job = Idle
  /\ running = TRUE
  /\ queue = <<>>
  /\ serving = None
  /\ sequence = 0
  /\ tabs = [t \in Tabs |-> [at |-> "unopened", text |-> native,
                             base |-> native, rev |-> 0, modified |-> FALSE]]
  /\ events = 0
  /\ late = FALSE
  /\ committed = {}
  /\ unconfirmed = {}

-----------------------------------------------------------------------------
(* Tabs.                                                                   *)

OpenTab(t) ==
  /\ tabs[t].at = "unopened"
  /\ serving = None /\ queue = <<>>          \* GET waits its turn
  /\ tabs' = [tabs EXCEPT ![t] =
       [at |-> "editing", text |-> snapshot.text, base |-> snapshot.text,
        rev |-> snapshot.rev, modified |-> snapshot.modified]]
  /\ UNCHANGED <<fileVars, nativeVars, sharedVars, serverVars, refresh,
                 pending, result, job, committed>>

EditTab(t) ==
  /\ tabs[t].at = "editing"
  /\ \E new \in Texts \ {tabs[t].text} :
       tabs' = [tabs EXCEPT ![t].text = new, ![t].modified = TRUE]
  /\ UNCHANGED <<fileVars, nativeVars, sharedVars, serverVars, refresh,
                 pending, result, job, committed>>

(***************************************************************************)
(* C-x C-s of a modified browser buffer.  The browser editor stands still  *)
(* until the receipt comes, so a tab has one request at a time.            *)
(***************************************************************************)
SaveTab(t) ==
  /\ tabs[t].at = "editing"
  /\ tabs[t].modified
  /\ sequence + Len(queue) < MaxSaves
  /\ tabs' = [tabs EXCEPT ![t].at = "waiting"]
  /\ queue' = Append(queue, [id |-> 0, tab |-> t, text |-> tabs[t].text,
                             base |-> tabs[t].base, rev |-> tabs[t].rev])
  /\ UNCHANGED <<fileVars, nativeVars, sharedVars, serving, sequence,
                 unconfirmed, refresh, pending, result, job, committed>>

CloseTab(t) ==                               \* its request stays on its way
  /\ tabs[t].at \in {"editing", "waiting"}
  /\ tabs' = [tabs EXCEPT ![t].at = "closed"]
  /\ UNCHANGED <<fileVars, nativeVars, sharedVars, serverVars, refresh,
                 pending, result, job, committed>>

(***************************************************************************)
(* The receipt: only a 200 changes the tab's version and clears its mark.  *)
(***************************************************************************)
Receipt(req, code, rev) ==
  IF tabs[req.tab].at # "waiting" THEN tabs
  ELSE IF code # 200 THEN [tabs EXCEPT ![req.tab].at = "editing"]
  ELSE [tabs EXCEPT ![req.tab] = [@ EXCEPT !.at = "editing",
          !.base = req.text, !.rev = rev, !.modified = FALSE]]

-----------------------------------------------------------------------------
(* The server.                                                             *)

Accept ==
  /\ serving = None /\ queue # <<>>
  /\ sequence' = sequence + 1
  /\ queue' = Tail(queue)
  /\ LET req == [Head(queue) EXCEPT !.id = sequence + 1] IN
       \/ serving' = req /\ pending' = req /\ UNCHANGED tabs
       \/ /\ "write errors" \in Extras       \* save.pending cannot be written
          /\ tabs' = Receipt(req, 500, 0)
          /\ UNCHANGED <<serving, pending>>
  /\ UNCHANGED <<fileVars, nativeVars, sharedVars, unconfirmed, refresh,
                 result, job, committed>>

AnswersAny(res, req) == TRUE                                       \* mutant

Answers(res, req) == res.id = req.id

GetResult ==
  /\ serving # None
  /\ result # None /\ Answers(result, serving)
  /\ tabs' = Receipt(serving, result.code, result.rev)
  /\ result' = None
  /\ serving' = None
  /\ UNCHANGED <<fileVars, nativeVars, sharedVars, queue, sequence,
                 unconfirmed, refresh, pending, job, committed>>

NeverTimesOut == FALSE /\ UNCHANGED vars                           \* mutant

TimeoutLeavingPending ==                                           \* mutant
  /\ serving # None
  /\ tabs' = Receipt(serving, 503, 0)
  /\ unconfirmed' = unconfirmed \union {serving.id}
  /\ serving' = None
  /\ UNCHANGED <<fileVars, nativeVars, sharedVars, queue, sequence, refresh,
                 pending, result, job, committed>>

(***************************************************************************)
(* After ten seconds the request is taken back, if nobody took it yet.     *)
(***************************************************************************)
Timeout ==
  /\ serving # None
  /\ pending' = None
  /\ tabs' = Receipt(serving, 503, 0)
  /\ unconfirmed' = unconfirmed \union {serving.id}
  /\ serving' = None
  /\ UNCHANGED <<fileVars, nativeVars, sharedVars, queue, sequence, refresh,
                 result, job, committed>>

PostRefresh ==                               \* after any save of a local file
  /\ serving = None /\ queue = <<>>
  /\ events < MaxEvents
  /\ \E t \in Tabs : tabs[t].at = "editing"
  /\ refresh' = TRUE
  /\ events' = events + 1
  /\ UNCHANGED <<disk, late, nativeVars, sharedVars, serverVars, pending, result,
                 job, tabs, committed>>

-----------------------------------------------------------------------------
(* The native editor: one thread, so its user cannot edit in mid-save.     *)

SourceLive(text) == source = "live"                                \* mutant

SourceUnchanged(text) == source = "live" /\ native \in {baseline, text}

NeverChecksDisk == TRUE                                            \* mutant

DiskMatches == disk = diskBase

(***************************************************************************)
(* A request of an older version, unless it asks for what is shared and    *)
(* saved already: a save told 503 may be repeated.                         *)
(***************************************************************************)
Stale(req) == req.rev # revision /\ ~(req.text = baseline /\ DiskMatches)

Keep(text) == conflicts' = conflicts \union {text}

At(stage) == running /\ job.at = stage

GoOn(stage) == job' = [job EXCEPT !.at = stage]

Refuse(code) == job' = [job EXCEPT !.at = "replying", !.code = code]

TakeRequest ==
  /\ At("idle")
  /\ pending # None
  /\ job' = [at |-> "taken", req |-> pending, code |-> None]
  /\ pending' = None
  /\ UNCHANGED <<fileVars, nativeVars, sharedVars, serverVars, refresh,
                 result, tabs, committed>>

Elsewhere == UNCHANGED <<native, dirty, source, running, events, serverVars,
                         refresh, pending, tabs>>

Admit ==
  /\ At("taken")
  /\ \/ /\ diskBase = Unnamed
        /\ Refuse(422)
        /\ UNCHANGED conflicts
     \/ /\ diskBase # Unnamed
        /\ ~SourceUnchanged(job.req.text) \/ Stale(job.req)
        /\ Refuse(409)
        /\ Keep(job.req.text)
     \/ /\ diskBase # Unnamed
        /\ SourceUnchanged(job.req.text) /\ ~Stale(job.req)
        /\ GoOn("admitted")
        /\ UNCHANGED conflicts
  /\ UNCHANGED <<disk, late, sharedVars, result, committed>> /\ Elsewhere

CheckDisk ==                        \* and make room for the text to import
  /\ At("admitted")
  /\ \/ ~DiskMatches /\ Refuse(409) /\ Keep(job.req.text)
     \/ DiskMatches /\ GoOn("checked") /\ UNCHANGED conflicts
     \/ /\ "write errors" \in Extras
        /\ DiskMatches /\ Refuse(500)
        /\ UNCHANGED conflicts
  /\ UNCHANGED <<disk, late, sharedVars, result, committed>> /\ Elsewhere

(***************************************************************************)
(* commit_disk: write another file, compare again, rename.                 *)
(***************************************************************************)
Recheck ==
  /\ At("checked")
  /\ \/ ~DiskMatches /\ Refuse(409)
     \/ DiskMatches /\ GoOn("rechecked")
     \/ "write errors" \in Extras /\ Refuse(500)
  /\ UNCHANGED <<disk, late, conflicts, sharedVars, result, committed>> /\ Elsewhere

Rename ==
  /\ At("rechecked")
  /\ \/ /\ GoOn("renamed")
        /\ disk' = job.req.text
        /\ committed' = committed \union {job.req.id}
     \/ /\ "write errors" \in Extras
        /\ Refuse(500)
        /\ UNCHANGED <<disk, committed>>
  /\ late' = FALSE
  /\ UNCHANGED <<conflicts, sharedVars, result>> /\ Elsewhere

(***************************************************************************)
(* What replace_source, remember_disk, remember_browser_text and           *)
(* mark_source_saved do with a text that the file now holds.               *)
(***************************************************************************)
SameRevision(text) == revision                                     \* mutant

NextRevision(text) == IF text = baseline THEN revision ELSE revision + 1

ForgetDisk(text) == UNCHANGED diskBase                             \* mutant

RememberDisk(text) == diskBase' = text

ReplaceSource(text) == native' = text

Share(text) ==
  /\ ReplaceSource(text)
  /\ RememberDisk(text)
  /\ baseline' = text
  /\ revision' = NextRevision(text)
  /\ snapshot' = [text |-> text, rev |-> revision',
                  modified |-> text # diskBase']
  /\ dirty' = FALSE

Import ==
  /\ At("renamed")
  /\ Share(job.req.text)
  /\ job' = [job EXCEPT !.at = "replying", !.code = 200]
  /\ UNCHANGED <<fileVars, source, conflicts, running, serverVars, refresh,
                 pending, result, tabs, committed>>

Reply ==
  /\ At("replying")
  /\ \/ result' = [id |-> job.req.id, code |-> job.code, rev |-> revision]
     \/ "write errors" \in Extras /\ UNCHANGED result
  /\ job' = Idle
  /\ UNCHANGED <<fileVars, nativeVars, sharedVars, serverVars, refresh,
                 pending, tabs, committed>>

(***************************************************************************)
(* A file that a browser saved through its own handle is read again.       *)
(***************************************************************************)
RefreshNative ==
  /\ At("idle")
  /\ refresh
  /\ refresh' = FALSE
  /\ LET ignored == \/ source = "gone" \/ diskBase = Unnamed
                    \/ disk \in {NoFile, diskBase}
     IN \/ ignored /\ UNCHANGED <<native, dirty, conflicts, sharedVars>>
        \/ /\ ~ignored /\ SourceUnchanged(disk)
           /\ Share(disk) /\ UNCHANGED conflicts
        \/ /\ ~ignored /\ ~SourceUnchanged(disk)
           /\ Keep(disk) /\ UNCHANGED <<native, dirty, sharedVars>>
  /\ UNCHANGED <<fileVars, source, running, serverVars, pending, result, job,
                 tabs, committed>>

NativeEdit ==
  /\ At("idle")
  /\ source = "live"
  /\ native' \in Texts \ {native}
  /\ dirty' = TRUE
  /\ UNCHANGED <<fileVars, source, conflicts, running, sharedVars, serverVars,
                 refresh, pending, result, job, tabs, committed>>

(***************************************************************************)
(* The native C-x C-s tells the handoff nothing: diskBase keeps the text   *)
(* the file had before, and later saves of the tabs are refused.           *)
(***************************************************************************)
NativeSave ==
  /\ At("idle")
  /\ source # "gone" /\ diskBase # Unnamed
  /\ dirty
  /\ disk' = native
  /\ dirty' = FALSE
  /\ UNCHANGED <<events, late, native, source, conflicts, running, sharedVars,
                 serverVars, refresh, pending, result, job, tabs, committed>>

SetSource ==          \* C-x C-q; killed, or given another name by Save As
  /\ At("idle")
  /\ \/ source = "live" /\ source' \in {"readonly", "gone"}
     \/ source = "readonly" /\ source' \in {"live", "gone"}
  /\ UNCHANGED <<fileVars, native, dirty, conflicts, running, sharedVars,
                 serverVars, refresh, pending, result, job, tabs, committed>>

Crash ==              \* the server goes on, and answers by timeouts
  /\ "native crash" \in Extras
  /\ running
  /\ running' = FALSE
  /\ UNCHANGED <<fileVars, native, dirty, source, conflicts, sharedVars,
                 serverVars, refresh, pending, result, job, tabs, committed>>

OutsideWrite ==
  /\ job.at = "idle" \/ "write during save" \in Extras
  /\ events < MaxEvents
  /\ disk' \in (Texts \union {NoFile}) \ {disk}
  /\ events' = events + 1
  /\ late' = (job.at = "rechecked")
  /\ UNCHANGED <<nativeVars, sharedVars, serverVars, refresh, pending, result,
                 job, tabs, committed>>

-----------------------------------------------------------------------------
NativeStep == TakeRequest \/ Admit \/ CheckDisk \/ Recheck \/ Rename
              \/ Import \/ Reply \/ RefreshNative
NativeUser == NativeEdit \/ NativeSave \/ SetSource
ServerStep == Accept \/ GetResult \/ Timeout \/ PostRefresh
TabStep == \E t \in Tabs : OpenTab(t) \/ EditTab(t) \/ SaveTab(t) \/ CloseTab(t)

Next == NativeStep \/ NativeUser \/ ServerStep \/ TabStep \/ Crash
        \/ OutsideWrite

(***************************************************************************)
(* The server's loop always goes on; nothing is assumed of the native      *)
(* editor, which may stay in a prompt for as long as its user likes.       *)
(***************************************************************************)
Fairness == WF_vars(Accept) /\ WF_vars(GetResult) /\ WF_vars(Timeout)

Spec == Init /\ [][Next]_vars /\ Fairness

-----------------------------------------------------------------------------
(* Properties.                                                             *)

(***************************************************************************)
(* A version names one text: a tab whose version is the native editor's    *)
(* started from the text that is shared now.  Saves are admitted by the    *)
(* version alone, so this is what keeps one tab from undoing another's     *)
(* save.                                                                   *)
(***************************************************************************)
IsOpen(t) == tabs[t].at \in {"editing", "waiting"}

RevisionNamesText ==
  \A t \in Tabs : IsOpen(t) /\ tabs[t].rev = revision
                    => tabs[t].base = baseline

(***************************************************************************)
(* A tab shown as saved, of the current version, has the text that the     *)
(* native editor shares and that it last saw in the file.                  *)
(***************************************************************************)
SavedTabIsCurrent ==
  \A t \in Tabs : IsOpen(t) /\ ~tabs[t].modified /\ tabs[t].rev = revision
                    => tabs[t].text = baseline /\ baseline = diskBase

(***************************************************************************)
(* A tab clears its mark only when the request it waits for was renamed    *)
(* over the file: no receipt of an earlier, timed-out request is taken     *)
(* for its own.                                                            *)
(***************************************************************************)
ReceiptTrue ==
  [][\A t \in Tabs :
       tabs[t].at = "waiting" /\ tabs'[t].at = "editing" /\ ~tabs'[t].modified
         => serving # None /\ serving.tab = t /\ serving.id \in committed]_vars

(***************************************************************************)
(* An import, which clears the native mark, replaces no text that the      *)
(* native user typed: tests/chezweb-save-native.cjs, native conflict.      *)
(***************************************************************************)
NativeEditsKept == [][native' # native /\ ~dirty' => native = baseline]_vars

(***************************************************************************)
(* A save replaces only the contents that the handoff last saw (README,    *)
(* "its contents are checked against the shared version"), or those that   *)
(* were written between the last comparison of commit_disk and its rename. *)
(***************************************************************************)
OutsideWriteKept ==
  [][committed' # committed => disk = diskBase \/ late]_vars

(***************************************************************************)
(* save.pending is the request being served, so one that timed out is not  *)
(* taken later: tests/chezweb-save-native.cjs, "timed-out saves must not   *)
(* commit after the prompt closes".                                        *)
(***************************************************************************)
PendingIsServed == pending # None => pending = serving

(***************************************************************************)
(* The text of a rejected save is in a conflict buffer: README, "rejected, *)
(* preserving the browser text in a native conflict buffer as well".  It   *)
(* does not hold of the refusal in commit_disk: see README.                *)
(***************************************************************************)
RejectedTextKept ==
  job.at = "replying" /\ job.code = 409 => job.req.text \in conflicts

(***************************************************************************)
(* What a tab is told of a save that was not confirmed, web-server.c:      *)
(* "your browser changes remain unsaved".  It does not hold: see README.   *)
(***************************************************************************)
UnconfirmedUnsaved == committed \intersect unconfirmed = {}

(***************************************************************************)
(* A tab that saves gets an answer, or is closed, whatever the native      *)
(* editor does.                                                            *)
(***************************************************************************)
EveryTabAnswered ==
  \A t \in Tabs : tabs[t].at = "waiting" ~> tabs[t].at # "waiting"
=============================================================================
