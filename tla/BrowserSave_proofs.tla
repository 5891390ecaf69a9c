-------------------------- MODULE BrowserSave_proofs --------------------------
(***************************************************************************)
(* Proofs about BrowserSave, for every set of texts and of tabs, any bound *)
(* on saves and events, and with every fault of Extras: the types, that a  *)
(* version names one text, that a request which timed out before the       *)
(* native editor took it is never taken, that what a tab shows as saved is *)
(* saved, and what a save may replace.  A second invariant, SInv, is       *)
(* proved from the first; a third, DiskSeen, is about commit_disk.         *)
(***************************************************************************)
EXTENDS BrowserSave, TLAPS

(***************************************************************************)
(* The invariant.  A request is known to the server, save.pending and the  *)
(* native editor under one id; the id of the request being served is the   *)
(* newest, so a job or a result with that id is that request's; neither    *)
(* has it while save.pending is still there.                               *)
(***************************************************************************)
JobKnown ==
  /\ job.at # "idle" => /\ job.req \in Requests
                        /\ job.req.id <= sequence
  /\ job.at = "replying" => job.code \in Codes

IdsKnown ==
  /\ serving # None => serving.id = sequence
  /\ result # None => result.id <= sequence
  /\ pending # None => /\ job.at # "idle" => job.req.id < sequence
                       /\ result # None => result.id < sequence

JobIsServed ==
  job.at # "idle" /\ serving # None /\ job.req.id = serving.id
    => job.req = serving

(***************************************************************************)
(* Whoever has a version, in a tab, in the snapshot, or in a receipt on    *)
(* its way, has the text of that version.                                  *)
(***************************************************************************)
Names(rev, text) == rev <= revision /\ (rev = revision => text = baseline)

TabsNamed == \A t \in Tabs : IsOpen(t) => Names(tabs[t].rev, tabs[t].base)

SnapshotNamed == snapshot.rev = revision /\ snapshot.text = baseline

JobNamed ==
  job.at = "replying" /\ job.code = 200 => job.req.text = baseline

ResultNamed ==
  result # None /\ serving # None /\ result.code = 200
    /\ result.id = serving.id => Names(result.rev, serving.text)

IInv == /\ TypeOK /\ JobKnown /\ IdsKnown /\ PendingIsServed /\ JobIsServed
        /\ TabsNamed /\ SnapshotNamed /\ JobNamed /\ ResultNamed

-----------------------------------------------------------------------------
(***************************************************************************)
(* A receipt reaches one tab; only a 200 changes more than its place.      *)
(***************************************************************************)
LEMMA ReceiptFacts ==
  ASSUME tabs \in [Tabs -> TabState], NEW req \in Requests, NEW code,
         NEW rev \in Nat
  PROVE  /\ Receipt(req, code, rev) \in [Tabs -> TabState]
         /\ \A t \in Tabs :
              LET new == Receipt(req, code, rev)[t] IN
              /\ new.at \in {"editing", "waiting"} => IsOpen(t)
              /\ \/ new.rev = tabs[t].rev /\ new.base = tabs[t].base
                 \/ code = 200 /\ new.rev = rev /\ new.base = req.text
<1> DEFINE old == tabs[req.tab]
           said == [old EXCEPT !.at = "editing"]
           saved == [old EXCEPT !.at = "editing", !.base = req.text,
                       !.rev = rev, !.modified = FALSE]
<1>1. old \in TabState /\ req.tab \in Tabs /\ req.text \in Texts
  BY DEF Requests
<1>2. /\ said \in TabState
      /\ said.rev = old.rev /\ said.base = old.base
  BY <1>1 DEF TabState
<1>3. /\ saved \in TabState
      /\ saved.rev = rev /\ saved.base = req.text
  BY <1>1 DEF TabState
<1>4. CASE old.at # "waiting"
  <2>1. Receipt(req, code, rev) = tabs
    BY <1>4 DEF Receipt
  <2> QED BY <2>1 DEF IsOpen
<1>5. CASE old.at = "waiting" /\ code # 200
  <2>1. Receipt(req, code, rev) = [tabs EXCEPT ![req.tab] = said]
    BY <1>5 DEF Receipt
  <2>2. Receipt(req, code, rev) \in [Tabs -> TabState]
    BY <1>1, <1>2, <2>1
  <2>3. \A t \in Tabs : Receipt(req, code, rev)[t] =
                         IF t = req.tab THEN said ELSE tabs[t]
    BY <1>1, <2>1
  <2> HIDE DEF said, saved
  <2> QED BY <1>2, <1>5, <2>2, <2>3 DEF IsOpen
<1>6. CASE old.at = "waiting" /\ code = 200
  <2>1. Receipt(req, code, rev) = [tabs EXCEPT ![req.tab] = saved]
    BY <1>6 DEF Receipt
  <2>2. Receipt(req, code, rev) \in [Tabs -> TabState]
    BY <1>1, <1>3, <2>1
  <2>3. \A t \in Tabs : Receipt(req, code, rev)[t] =
                         IF t = req.tab THEN saved ELSE tabs[t]
    BY <1>1, <2>1
  <2> HIDE DEF said, saved
  <2> QED BY <1>3, <1>6, <2>2, <2>3 DEF IsOpen
<1> QED BY <1>4, <1>5, <1>6

LEMMA InitInv == Init => IInv
<1> SUFFICES ASSUME Init PROVE IInv
  OBVIOUS
<1>1. TypeOK
  <2>1. /\ native \in Texts /\ disk \in Texts \union {NoFile}
        /\ diskBase \in Texts \union {NoFile, Unknown, Unnamed}
        /\ baseline \in Texts /\ revision = 0 /\ sequence = 0 /\ events = 0 /\ late = FALSE
        /\ source \in {"live", "readonly", "gone"}
        /\ conflicts \subseteq Texts /\ committed \subseteq Nat
        /\ unconfirmed \subseteq Nat
    BY DEF Init
  <2>2. dirty \in BOOLEAN /\ refresh \in BOOLEAN /\ running \in BOOLEAN
    BY Zenon DEF Init
  <2>3. snapshot \in [text : Texts, rev : Nat, modified : BOOLEAN]
    <3>1. (native # diskBase) \in BOOLEAN
      BY Zenon
    <3> QED BY <2>1, <3>1 DEF Init
  <2>4. /\ pending = None /\ result = None /\ serving = None
        /\ job \in [at : Stages, req : Requests \union {None},
                    code : Codes \union {None}]
    BY DEF Init, Idle, Stages
  <2>5. queue \in Seq(Requests)
    BY DEF Init
  <2>6. tabs \in [Tabs -> TabState]
    BY <2>1 DEF Init, TabState
  <2> QED BY <2>1, <2>2, <2>3, <2>4, <2>5, <2>6 DEF TypeOK
<1>2. JobKnown /\ IdsKnown /\ PendingIsServed /\ JobIsServed
  BY DEF Init, Idle, JobKnown, IdsKnown, PendingIsServed, JobIsServed
<1>3. TabsNamed /\ SnapshotNamed /\ JobNamed /\ ResultNamed
  BY DEF Init, Idle, TabsNamed, IsOpen, SnapshotNamed, JobNamed, ResultNamed
<1> QED BY <1>1, <1>2, <1>3 DEF IInv

-----------------------------------------------------------------------------
(***************************************************************************)
(* Steps of the tabs.                                                      *)
(***************************************************************************)
LEMMA OpenTabInv ==
  ASSUME NEW t \in Tabs, IInv, OpenTab(t)
  PROVE  IInv'
<1>1. tabs' \in [Tabs -> TabState]
  BY DEF IInv, TypeOK, TabState, OpenTab
<1>2. TypeOK'
  BY <1>1 DEF IInv, TypeOK, OpenTab, fileVars, nativeVars, sharedVars,
     serverVars
<1>3. JobKnown' /\ IdsKnown' /\ PendingIsServed' /\ JobIsServed'
  BY DEF IInv, JobKnown, IdsKnown, PendingIsServed, JobIsServed, OpenTab,
     fileVars, nativeVars, sharedVars, serverVars
<1>4. TabsNamed'
  BY <1>1 DEF IInv, TypeOK, TabsNamed, IsOpen, Names, SnapshotNamed,
     TabState, OpenTab, fileVars, nativeVars, sharedVars, serverVars
<1>5. SnapshotNamed' /\ JobNamed' /\ ResultNamed'
  BY DEF IInv, SnapshotNamed, JobNamed, ResultNamed, Names, OpenTab,
     fileVars, nativeVars, sharedVars, serverVars
<1> QED BY <1>2, <1>3, <1>4, <1>5 DEF IInv

LEMMA EditTabInv ==
  ASSUME NEW t \in Tabs, IInv, EditTab(t)
  PROVE  IInv'
<1>1. tabs' \in [Tabs -> TabState]
  <2>1. tabs[t] \in TabState
    BY DEF IInv, TypeOK
  <2>2. PICK new \in Texts :
          tabs' = [tabs EXCEPT ![t] = [@ EXCEPT !.text = new,
                                                !.modified = TRUE]]
    BY DEF EditTab
  <2>3. [tabs[t] EXCEPT !.text = new, !.modified = TRUE] \in TabState
    BY <2>1 DEF TabState
  <2> QED BY <2>2, <2>3 DEF IInv, TypeOK
<1>2. TypeOK'
  BY <1>1 DEF IInv, TypeOK, EditTab, fileVars, nativeVars, sharedVars,
     serverVars
<1>3. JobKnown' /\ IdsKnown' /\ PendingIsServed' /\ JobIsServed'
  BY DEF IInv, JobKnown, IdsKnown, PendingIsServed, JobIsServed, EditTab,
     fileVars, nativeVars, sharedVars, serverVars
<1>4. TabsNamed'
  BY <1>1 DEF IInv, TypeOK, TabsNamed, IsOpen, Names, SnapshotNamed,
     TabState, EditTab, fileVars, nativeVars, sharedVars, serverVars
<1>5. SnapshotNamed' /\ JobNamed' /\ ResultNamed'
  BY DEF IInv, SnapshotNamed, JobNamed, ResultNamed, Names, EditTab,
     fileVars, nativeVars, sharedVars, serverVars
<1> QED BY <1>2, <1>3, <1>4, <1>5 DEF IInv

LEMMA CloseTabInv ==
  ASSUME NEW t \in Tabs, IInv, CloseTab(t)
  PROVE  IInv'
<1>1. tabs' \in [Tabs -> TabState]
  <2>1. tabs[t] \in TabState /\ tabs' = [tabs EXCEPT ![t].at = "closed"]
    BY DEF IInv, TypeOK, CloseTab
  <2>2. [tabs[t] EXCEPT !.at = "closed"] \in TabState
    BY <2>1 DEF TabState
  <2> QED BY <2>1, <2>2 DEF IInv, TypeOK
<1>2. TypeOK'
  BY <1>1 DEF IInv, TypeOK, CloseTab, fileVars, nativeVars, sharedVars,
     serverVars
<1>3. JobKnown' /\ IdsKnown' /\ PendingIsServed' /\ JobIsServed'
  BY DEF IInv, JobKnown, IdsKnown, PendingIsServed, JobIsServed, CloseTab,
     fileVars, nativeVars, sharedVars, serverVars
<1>4. TabsNamed'
  BY <1>1 DEF IInv, TypeOK, TabsNamed, IsOpen, Names, SnapshotNamed,
     TabState, CloseTab, fileVars, nativeVars, sharedVars, serverVars
<1>5. SnapshotNamed' /\ JobNamed' /\ ResultNamed'
  BY DEF IInv, SnapshotNamed, JobNamed, ResultNamed, Names, CloseTab,
     fileVars, nativeVars, sharedVars, serverVars
<1> QED BY <1>2, <1>3, <1>4, <1>5 DEF IInv

LEMMA SaveTabInv ==
  ASSUME NEW t \in Tabs, IInv, SaveTab(t)
  PROVE  IInv'
<1>1. tabs' \in [Tabs -> TabState]
  <2>1. tabs[t] \in TabState /\ tabs' = [tabs EXCEPT ![t].at = "waiting"]
    BY DEF IInv, TypeOK, SaveTab
  <2>2. [tabs[t] EXCEPT !.at = "waiting"] \in TabState
    BY <2>1 DEF TabState
  <2> QED BY <2>1, <2>2 DEF IInv, TypeOK
<1>2. TypeOK'
  <2>1. tabs[t] \in TabState
    BY DEF IInv, TypeOK
  <2>2. [id |-> 0, tab |-> t, text |-> tabs[t].text, base |-> tabs[t].base,
         rev |-> tabs[t].rev] \in Requests
    BY <2>1 DEF TabState, Requests
  <2>3. queue' \in Seq(Requests)
    BY <2>2 DEF IInv, TypeOK, SaveTab
  <2> QED BY <1>1, <2>3 DEF IInv, TypeOK, SaveTab, fileVars, nativeVars,
     sharedVars, serverVars
<1>3. JobKnown' /\ IdsKnown' /\ PendingIsServed' /\ JobIsServed'
  BY DEF IInv, JobKnown, IdsKnown, PendingIsServed, JobIsServed, SaveTab,
     fileVars, nativeVars, sharedVars, serverVars
<1>4. TabsNamed'
  BY <1>1 DEF IInv, TypeOK, TabsNamed, IsOpen, Names, SnapshotNamed,
     TabState, SaveTab, fileVars, nativeVars, sharedVars, serverVars
<1>5. SnapshotNamed' /\ JobNamed' /\ ResultNamed'
  BY DEF IInv, SnapshotNamed, JobNamed, ResultNamed, Names, SaveTab,
     fileVars, nativeVars, sharedVars, serverVars
<1> QED BY <1>2, <1>3, <1>4, <1>5 DEF IInv

-----------------------------------------------------------------------------
(***************************************************************************)
(* Steps that touch neither a request nor a version.                       *)
(***************************************************************************)
LEMMA PostRefreshInv ==
  ASSUME IInv, PostRefresh
  PROVE  IInv'
<1>1. TypeOK'
  BY DEF IInv, TypeOK, PostRefresh, fileVars, nativeVars, sharedVars,
     serverVars
<1>2. JobKnown' /\ IdsKnown' /\ PendingIsServed' /\ JobIsServed'
  BY DEF IInv, JobKnown, IdsKnown, PendingIsServed, JobIsServed, PostRefresh,
     fileVars, nativeVars, sharedVars, serverVars
<1>3. TabsNamed' /\ SnapshotNamed' /\ JobNamed' /\ ResultNamed'
  BY DEF IInv, TabsNamed, IsOpen, Names, SnapshotNamed, JobNamed,
     ResultNamed, PostRefresh, fileVars, nativeVars, sharedVars, serverVars
<1> QED BY <1>1, <1>2, <1>3 DEF IInv

LEMMA NativeEditInv ==
  ASSUME IInv, NativeEdit
  PROVE  IInv'
<1>1. TypeOK'
  BY DEF IInv, TypeOK, NativeEdit, At, fileVars, nativeVars, sharedVars,
     serverVars
<1>2. JobKnown' /\ IdsKnown' /\ PendingIsServed' /\ JobIsServed'
  BY DEF IInv, JobKnown, IdsKnown, PendingIsServed, JobIsServed, NativeEdit,
     At, fileVars, nativeVars, sharedVars, serverVars
<1>3. TabsNamed' /\ SnapshotNamed' /\ JobNamed' /\ ResultNamed'
  BY DEF IInv, TabsNamed, IsOpen, Names, SnapshotNamed, JobNamed,
     ResultNamed, NativeEdit, At, fileVars, nativeVars, sharedVars, serverVars
<1> QED BY <1>1, <1>2, <1>3 DEF IInv

LEMMA NativeSaveInv ==
  ASSUME IInv, NativeSave
  PROVE  IInv'
<1>1. TypeOK'
  <2>1. disk' \in Texts \union {NoFile} /\ dirty' \in BOOLEAN
    BY DEF IInv, TypeOK, NativeSave
  <2>2. UNCHANGED <<events, late, native, source, conflicts, running, sharedVars,
                    serverVars, refresh, pending, result, job, tabs,
                    committed>>
    BY DEF NativeSave
  <2> QED BY <2>1, <2>2 DEF IInv, TypeOK, sharedVars, serverVars
<1>2. JobKnown' /\ IdsKnown' /\ PendingIsServed' /\ JobIsServed'
  BY DEF IInv, JobKnown, IdsKnown, PendingIsServed, JobIsServed, NativeSave,
     At, fileVars, nativeVars, sharedVars, serverVars
<1>3. TabsNamed' /\ SnapshotNamed' /\ JobNamed' /\ ResultNamed'
  BY DEF IInv, TabsNamed, IsOpen, Names, SnapshotNamed, JobNamed,
     ResultNamed, NativeSave, At, fileVars, nativeVars, sharedVars, serverVars
<1> QED BY <1>1, <1>2, <1>3 DEF IInv

LEMMA SetSourceInv ==
  ASSUME IInv, SetSource
  PROVE  IInv'
<1>1. TypeOK'
  BY DEF IInv, TypeOK, SetSource, At, fileVars, nativeVars, sharedVars,
     serverVars
<1>2. JobKnown' /\ IdsKnown' /\ PendingIsServed' /\ JobIsServed'
  BY DEF IInv, JobKnown, IdsKnown, PendingIsServed, JobIsServed, SetSource,
     At, fileVars, nativeVars, sharedVars, serverVars
<1>3. TabsNamed' /\ SnapshotNamed' /\ JobNamed' /\ ResultNamed'
  BY DEF IInv, TabsNamed, IsOpen, Names, SnapshotNamed, JobNamed,
     ResultNamed, SetSource, At, fileVars, nativeVars, sharedVars, serverVars
<1> QED BY <1>1, <1>2, <1>3 DEF IInv

LEMMA CrashInv ==
  ASSUME IInv, Crash
  PROVE  IInv'
<1>1. TypeOK'
  <2>1. running' \in BOOLEAN
    BY DEF Crash
  <2>2. UNCHANGED <<fileVars, native, dirty, source, conflicts, sharedVars,
                    serverVars, refresh, pending, result, job, tabs,
                    committed>>
    BY DEF Crash
  <2> QED
    BY <2>1, <2>2 DEF IInv, TypeOK, fileVars, sharedVars, serverVars
<1>2. JobKnown' /\ IdsKnown' /\ PendingIsServed' /\ JobIsServed'
  BY DEF IInv, JobKnown, IdsKnown, PendingIsServed, JobIsServed, Crash,
     fileVars, nativeVars, sharedVars, serverVars
<1>3. TabsNamed' /\ SnapshotNamed' /\ JobNamed' /\ ResultNamed'
  BY DEF IInv, TabsNamed, IsOpen, Names, SnapshotNamed, JobNamed,
     ResultNamed, Crash, fileVars, nativeVars, sharedVars, serverVars
<1> QED BY <1>1, <1>2, <1>3 DEF IInv

LEMMA OutsideWriteInv ==
  ASSUME IInv, OutsideWrite
  PROVE  IInv'
<1>1. TypeOK'
  <2>1. disk' \in Texts \union {NoFile}
    BY Zenon DEF OutsideWrite
  <2>2. events' \in Nat
    <3>1. events \in Nat /\ events' = events + 1
      BY DEF IInv, TypeOK, OutsideWrite
    <3> QED BY <3>1
  <2>3. UNCHANGED <<nativeVars, sharedVars, serverVars, refresh, pending,
                    result, job, tabs, committed>>
    BY DEF OutsideWrite
  <2>4. late' \in BOOLEAN
    BY Zenon DEF OutsideWrite
  <2> QED
    BY <2>1, <2>2, <2>3, <2>4
    DEF IInv, TypeOK, nativeVars, sharedVars, serverVars
<1>2. JobKnown' /\ IdsKnown' /\ PendingIsServed' /\ JobIsServed'
  BY DEF IInv, JobKnown, IdsKnown, PendingIsServed, JobIsServed,
     OutsideWrite, fileVars, nativeVars, sharedVars, serverVars
<1>3. TabsNamed' /\ SnapshotNamed' /\ JobNamed' /\ ResultNamed'
  BY DEF IInv, TabsNamed, IsOpen, Names, SnapshotNamed, JobNamed,
     ResultNamed, OutsideWrite, fileVars, nativeVars, sharedVars, serverVars
<1> QED BY <1>1, <1>2, <1>3 DEF IInv

-----------------------------------------------------------------------------
(***************************************************************************)
(* Steps of a save: the request stays, and is refused or goes on.          *)
(***************************************************************************)
JobStates == [at : Stages, req : Requests \union {None},
              code : Codes \union {None}]

JobMoved ==
  /\ job' \in JobStates
  /\ job'.req = job.req
  /\ job.at \notin {"idle", "replying"} /\ job'.at # "idle"
  /\ job'.at = "replying" => job'.code \in Codes \ {200}

LEMMA GoOnMoves ==
  ASSUME job \in JobStates, job.at \notin {"idle", "replying"},
         NEW stage \in Stages \ {"idle", "replying"}, GoOn(stage)
  PROVE  JobMoved
BY DEF JobStates, JobMoved, GoOn

LEMMA RefuseMoves ==
  ASSUME job \in JobStates, job.at \notin {"idle", "replying"},
         NEW code \in Codes \ {200}, Refuse(code)
  PROVE  JobMoved
<1>1. "replying" \in Stages /\ code \in Codes
  BY DEF Stages
<1>2. job' = [job EXCEPT !.at = "replying", !.code = code]
  BY DEF Refuse
<1>3. /\ job' \in JobStates
      /\ job'.at = "replying" /\ job'.code = code /\ job'.req = job.req
  BY <1>1, <1>2 DEF JobStates
<1> QED BY <1>3 DEF JobMoved

LEMMA SaveStepsMove ==
  ASSUME TypeOK, Admit \/ CheckDisk \/ Recheck \/ Rename
  PROVE  JobMoved
<1>1. job \in JobStates
  BY DEF TypeOK, JobStates
<1>2. /\ {"admitted", "checked", "rechecked", "renamed"}
           \subseteq Stages \ {"idle", "replying"}
      /\ {409, 422, 500} \subseteq Codes \ {200}
  BY DEF Stages, Codes
<1>3. CASE Admit
  <2>1. job.at = "taken"
    BY <1>3 DEF Admit, At
  <2>2. Refuse(422) \/ Refuse(409) \/ GoOn("admitted")
    BY <1>3 DEF Admit
  <2> QED BY <1>1, <1>2, <2>1, <2>2, GoOnMoves, RefuseMoves
<1>4. CASE CheckDisk
  <2>1. job.at = "admitted"
    BY <1>4 DEF CheckDisk, At
  <2>2. Refuse(409) \/ Refuse(500) \/ GoOn("checked")
    BY <1>4 DEF CheckDisk
  <2> QED BY <1>1, <1>2, <2>1, <2>2, GoOnMoves, RefuseMoves
<1>5. CASE Recheck
  <2>1. job.at = "checked"
    BY <1>5 DEF Recheck, At
  <2>2. Refuse(409) \/ Refuse(500) \/ GoOn("rechecked")
    BY <1>5 DEF Recheck
  <2> QED BY <1>1, <1>2, <2>1, <2>2, GoOnMoves, RefuseMoves
<1>6. CASE Rename
  <2>1. job.at = "rechecked"
    BY <1>6 DEF Rename, At
  <2>2. Refuse(500) \/ GoOn("renamed")
    BY <1>6 DEF Rename
  <2> QED BY <1>1, <1>2, <2>1, <2>2, GoOnMoves, RefuseMoves
<1> QED BY <1>3, <1>4, <1>5, <1>6

LEMMA SaveStepsInv ==
  ASSUME IInv, Admit \/ CheckDisk \/ Recheck \/ Rename
  PROVE  IInv'
<1>1. JobMoved
  BY SaveStepsMove DEF IInv
<1>2. Elsewhere /\ UNCHANGED <<sharedVars, result>>
  BY DEF Admit, CheckDisk, Recheck, Rename
<1>3. job.at # "idle" /\ job.req \in Requests /\ job.req.id <= sequence
  BY <1>1 DEF IInv, JobKnown, JobMoved
<1>4. job.req.text \in Texts /\ job.req.id \in Nat
  BY <1>3 DEF Requests
<1>5. /\ disk' \in Texts \union {NoFile}
      /\ conflicts' \subseteq Texts
      /\ committed' \subseteq Nat
      /\ late' \in BOOLEAN
  <2>1. /\ disk' \in {disk, job.req.text}
        /\ late' \in {late, FALSE}
        /\ committed' \in {committed, committed \union {job.req.id}}
    BY Zenon DEF Admit, CheckDisk, Recheck, Rename
  <2>2. conflicts' \in {conflicts, conflicts \union {job.req.text}}
    BY DEF Admit, CheckDisk, Recheck, Rename, Keep
  <2> QED BY <1>4, <2>1, <2>2 DEF IInv, TypeOK
<1>6. TypeOK'
  BY <1>1, <1>2, <1>5 DEF IInv, TypeOK, JobMoved, JobStates, Elsewhere,
     serverVars, sharedVars
<1>7. JobKnown' /\ IdsKnown' /\ PendingIsServed' /\ JobIsServed'
  BY <1>1, <1>2, <1>3 DEF IInv, JobMoved, JobKnown, IdsKnown,
     PendingIsServed, JobIsServed, Elsewhere, serverVars
<1>8. TabsNamed' /\ SnapshotNamed' /\ ResultNamed'
  BY <1>2 DEF IInv, TabsNamed, IsOpen, Names, SnapshotNamed, ResultNamed,
     Elsewhere, serverVars, sharedVars
<1>9. JobNamed'
  BY <1>1 DEF JobMoved, JobNamed
<1> QED BY <1>6, <1>7, <1>8, <1>9 DEF IInv

LEMMA TakeRequestInv ==
  ASSUME IInv, TakeRequest
  PROVE  IInv'
<1>1. /\ pending \in Requests /\ pending = serving
      /\ job' = [at |-> "taken", req |-> pending, code |-> None]
      /\ pending' = None
  BY DEF IInv, TypeOK, PendingIsServed, TakeRequest
<1>2. UNCHANGED <<fileVars, nativeVars, sharedVars, serverVars, refresh,
                  result, tabs, committed>>
  BY DEF TakeRequest
<1>3. job' \in JobStates
  BY <1>1 DEF JobStates, Stages
<1>4. TypeOK'
  BY <1>1, <1>2, <1>3 DEF IInv, TypeOK, JobStates, fileVars, nativeVars,
     sharedVars, serverVars
<1>5. pending.id <= sequence
  <2>1. serving # None /\ pending.id \in Nat
    BY <1>1 DEF IInv, TypeOK, Requests, TakeRequest
  <2> QED BY <1>1, <2>1 DEF IInv, IdsKnown
<1>6. JobKnown' /\ IdsKnown' /\ PendingIsServed' /\ JobIsServed'
  BY <1>1, <1>2, <1>5 DEF IInv, JobKnown, IdsKnown, PendingIsServed,
     JobIsServed, serverVars
<1>7. TabsNamed' /\ SnapshotNamed' /\ JobNamed' /\ ResultNamed'
  BY <1>1, <1>2 DEF IInv, TabsNamed, IsOpen, Names, SnapshotNamed, JobNamed,
     ResultNamed, serverVars, sharedVars
<1> QED BY <1>4, <1>6, <1>7 DEF IInv

LEMMA ReplyInv ==
  ASSUME IInv, Reply
  PROVE  IInv'
<1> DEFINE answer == [id |-> job.req.id, code |-> job.code, rev |-> revision]
<1>1. /\ job.at = "replying" /\ job' = Idle
      /\ result' = answer \/ result' = result
      /\ UNCHANGED <<fileVars, nativeVars, sharedVars, serverVars, refresh,
                     pending, tabs, committed>>
  BY DEF Reply, At
<1>2. /\ job.req \in Requests /\ job.req.id <= sequence
      /\ job.code \in Codes
  BY <1>1 DEF IInv, JobKnown
<1>3. answer \in [id : Nat, code : Codes, rev : Nat]
  BY <1>2 DEF IInv, TypeOK, Requests
<1>4. job' \in JobStates /\ job'.at = "idle"
  BY <1>1 DEF Idle, JobStates, Stages
<1>5. TypeOK'
  <2> HIDE DEF answer
  <2> QED BY <1>1, <1>3, <1>4 DEF IInv, TypeOK, JobStates, fileVars,
             nativeVars, sharedVars, serverVars
<1>6. JobKnown' /\ IdsKnown' /\ PendingIsServed' /\ JobIsServed'
  BY <1>1, <1>2, <1>4 DEF IInv, JobKnown, IdsKnown, PendingIsServed,
     JobIsServed, serverVars
<1>7. TabsNamed' /\ SnapshotNamed' /\ JobNamed'
  BY <1>1, <1>4 DEF IInv, TabsNamed, IsOpen, Names, SnapshotNamed, JobNamed,
     sharedVars
<1>8. ResultNamed'
  <2>1. CASE result' = result
    BY <1>1, <2>1 DEF IInv, ResultNamed, Names, serverVars, sharedVars
  <2>2. CASE result' = answer
    <3> SUFFICES ASSUME serving # None, job.code = 200, job.req.id = serving.id
                 PROVE  Names(revision, serving.text)
      BY <1>1, <2>2 DEF ResultNamed, Names, serverVars, sharedVars
    <3>1. job.req.text = baseline /\ job.req = serving
      BY <1>1 DEF IInv, JobNamed, JobIsServed
    <3>2. revision <= revision
      BY DEF IInv, TypeOK
    <3> QED BY <3>1, <3>2 DEF Names
  <2> QED BY <1>1, <2>1, <2>2
<1> QED BY <1>5, <1>6, <1>7, <1>8 DEF IInv

-----------------------------------------------------------------------------
(***************************************************************************)
(* Sharing a text gives it a version of its own.                           *)
(***************************************************************************)
LEMMA ShareNames ==
  ASSUME TypeOK, NEW text \in Texts, Share(text)
  PROVE  /\ baseline' = text /\ revision' \in Nat
         /\ native' \in Texts /\ dirty' \in BOOLEAN
         /\ diskBase' \in Texts
         /\ snapshot' \in [text : Texts, rev : Nat, modified : BOOLEAN]
         /\ snapshot'.rev = revision' /\ snapshot'.text = baseline'
         /\ \A rev \in Nat : \A named :
              Names(rev, named) =>
                rev <= revision' /\ (rev = revision' => named = baseline')
<1>1. /\ baseline' = text /\ native' = text /\ diskBase' = text
      /\ dirty' \in BOOLEAN
  BY DEF Share, ReplaceSource, RememberDisk
<1>2. revision' = IF text = baseline THEN revision ELSE revision + 1
  BY DEF Share, NextRevision
<1>3. revision \in Nat
  BY DEF TypeOK
<1>4. /\ snapshot' \in [text : Texts, rev : Nat, modified : BOOLEAN]
      /\ snapshot'.rev = revision' /\ snapshot'.text = text
  <2>1. snapshot' = [text |-> text, rev |-> revision',
                     modified |-> text # diskBase']
    BY DEF Share
  <2>2. (text # diskBase') \in BOOLEAN
    BY Zenon
  <2>3. revision' \in Nat
    BY <1>2, <1>3
  <2> QED BY <2>1, <2>2, <2>3
<1>5. ASSUME NEW rev \in Nat, NEW named, Names(rev, named)
      PROVE  rev <= revision' /\ (rev = revision' => named = baseline')
  BY <1>1, <1>2, <1>3, <1>5 DEF Names
<1> QED BY <1>1, <1>2, <1>3, <1>4, <1>5

LEMMA SharedInv ==
  ASSUME IInv, NEW text \in Texts, Share(text),
         UNCHANGED <<result, serving, tabs>>
  PROVE  TabsNamed' /\ SnapshotNamed' /\ ResultNamed'
<1>1. TabsNamed'
  <2> SUFFICES ASSUME NEW t \in Tabs, IsOpen(t)'
               PROVE  Names(tabs[t].rev, tabs[t].base)'
    BY DEF TabsNamed
  <2>1. tabs[t].rev \in Nat /\ Names(tabs[t].rev, tabs[t].base)
    BY DEF IInv, TypeOK, TabState, TabsNamed, IsOpen
  <2> QED BY <2>1, ShareNames DEF IInv, Names
<1>2. SnapshotNamed'
  BY ShareNames DEF IInv, SnapshotNamed
<1>3. ResultNamed'
  <2> SUFFICES ASSUME result # None, serving # None, result.code = 200,
                      result.id = serving.id
               PROVE  Names(result.rev, serving.text)'
    BY DEF ResultNamed
  <2>1. result.rev \in Nat /\ Names(result.rev, serving.text)
    BY DEF IInv, TypeOK, ResultNamed
  <2> QED BY <2>1, ShareNames DEF IInv, Names
<1> QED BY <1>1, <1>2, <1>3

LEMMA ImportInv ==
  ASSUME IInv, Import
  PROVE  IInv'
<1>1. /\ job.at = "renamed" /\ Share(job.req.text)
      /\ job' = [job EXCEPT !.at = "replying", !.code = 200]
      /\ UNCHANGED <<fileVars, source, conflicts, running, serverVars, refresh,
                     pending, result, tabs, committed>>
  BY DEF Import, At
<1>2. job.req \in Requests /\ job.req.id <= sequence
  BY <1>1 DEF IInv, JobKnown
<1>3. job.req.text \in Texts
  BY <1>2 DEF Requests
<1>4. job' \in JobStates /\ job'.req = job.req /\ job'.at = "replying"
      /\ job'.code = 200
  <2>1. job \in JobStates
    BY DEF IInv, TypeOK, JobStates
  <2>2. "replying" \in Stages /\ 200 \in Codes
    BY DEF Stages, Codes
  <2> QED BY <1>1, <2>1, <2>2 DEF JobStates
<1>5. TypeOK'
  BY <1>1, <1>3, <1>4, ShareNames DEF IInv, TypeOK, JobStates, fileVars,
     serverVars
<1>6. JobKnown' /\ IdsKnown' /\ PendingIsServed' /\ JobIsServed'
  BY <1>1, <1>2, <1>4 DEF IInv, JobKnown, IdsKnown, PendingIsServed,
     JobIsServed, serverVars, Codes
<1>7. JobNamed'
  BY <1>1, <1>3, <1>4, ShareNames DEF IInv, JobNamed
<1>8. TabsNamed' /\ SnapshotNamed' /\ ResultNamed'
  BY <1>1, <1>3, SharedInv DEF serverVars
<1> QED BY <1>5, <1>6, <1>7, <1>8 DEF IInv

LEMMA RefreshNativeInv ==
  ASSUME IInv, RefreshNative
  PROVE  IInv'
<1>1. /\ job.at = "idle" /\ refresh' = FALSE
      /\ UNCHANGED <<fileVars, source, running, serverVars, pending, result,
                     job, tabs, committed>>
  BY DEF RefreshNative, At
<1>2. \/ UNCHANGED <<native, dirty, conflicts, sharedVars>>
      \/ disk # NoFile /\ Share(disk) /\ UNCHANGED conflicts
      \/ disk # NoFile /\ Keep(disk) /\ UNCHANGED <<native, dirty, sharedVars>>
  BY DEF RefreshNative
<1>3. JobKnown' /\ IdsKnown' /\ PendingIsServed' /\ JobIsServed' /\ JobNamed'
  BY <1>1 DEF IInv, JobKnown, IdsKnown, PendingIsServed, JobIsServed,
     JobNamed, serverVars
<1>4. ASSUME conflicts' \subseteq Texts, UNCHANGED <<native, dirty, sharedVars>>
      PROVE  IInv'
  <2>1. TypeOK'
    <3>1. refresh' \in BOOLEAN
      BY <1>1
    <3>2. UNCHANGED <<fileVars, source, running, serverVars, pending, result,
                      job, tabs, committed, native, dirty, sharedVars>>
      BY <1>1, <1>4
    <3> QED
      BY <1>4, <3>1, <3>2 DEF IInv, TypeOK, fileVars, serverVars, sharedVars
  <2>2. TabsNamed' /\ SnapshotNamed' /\ ResultNamed'
    BY <1>1, <1>4 DEF IInv, TabsNamed, IsOpen, Names, SnapshotNamed,
       ResultNamed, serverVars, sharedVars
  <2> QED BY <1>3, <2>1, <2>2 DEF IInv
<1>5. disk # NoFile => disk \in Texts
  BY DEF IInv, TypeOK
<1>6. CASE UNCHANGED <<native, dirty, conflicts, sharedVars>>
  <2>1. conflicts' \subseteq Texts
    BY <1>6 DEF IInv, TypeOK
  <2> QED BY <1>4, <1>6, <2>1
<1>7. CASE disk # NoFile /\ Share(disk) /\ UNCHANGED conflicts
  <2>1. TypeOK'
    BY <1>1, <1>5, <1>7, ShareNames DEF IInv, TypeOK, fileVars, serverVars
  <2>2. TabsNamed' /\ SnapshotNamed' /\ ResultNamed'
    BY <1>1, <1>5, <1>7, SharedInv DEF serverVars
  <2> QED BY <1>3, <2>1, <2>2 DEF IInv
<1>8. CASE disk # NoFile /\ Keep(disk) /\ UNCHANGED <<native, dirty, sharedVars>>
  <2>1. conflicts' \subseteq Texts
    BY <1>5, <1>8 DEF IInv, TypeOK, Keep
  <2> QED BY <1>4, <1>8, <2>1
<1> QED BY <1>2, <1>6, <1>7, <1>8

-----------------------------------------------------------------------------
(***************************************************************************)
(* Steps of the server.                                                    *)
(***************************************************************************)
LEMMA GetResultInv ==
  ASSUME IInv, GetResult
  PROVE  IInv'
<1>1. /\ serving # None /\ result # None /\ result.id = serving.id
      /\ tabs' = Receipt(serving, result.code, result.rev)
      /\ result' = None /\ serving' = None
      /\ UNCHANGED <<fileVars, nativeVars, sharedVars, queue, sequence,
                     unconfirmed, refresh, pending, job, committed>>
  BY DEF GetResult, Answers
<1>2. /\ serving \in Requests /\ tabs \in [Tabs -> TabState]
      /\ result \in [id : Nat, code : Codes, rev : Nat] /\ result.rev \in Nat
  BY <1>1 DEF IInv, TypeOK
<1>3. TypeOK'
  <2>1. tabs' \in [Tabs -> TabState]
    BY <1>1, <1>2, ReceiptFacts
  <2> QED BY <1>1, <2>1 DEF IInv, TypeOK, fileVars, nativeVars, sharedVars
<1>4. pending' = None
  <2>1. sequence \in Nat /\ serving.id = sequence
    BY <1>1 DEF IInv, TypeOK, IdsKnown
  <2> QED BY <1>1, <2>1 DEF IInv, IdsKnown
<1>5. JobKnown' /\ IdsKnown' /\ PendingIsServed' /\ JobIsServed'
  BY <1>1, <1>4 DEF IInv, JobKnown, IdsKnown, PendingIsServed, JobIsServed
<1>6. TabsNamed'
  <2> SUFFICES ASSUME NEW t \in Tabs, IsOpen(t)'
               PROVE  Names(tabs[t].rev, tabs[t].base)'
    BY DEF TabsNamed
  <2>1. /\ IsOpen(t)
        /\ \/ tabs'[t].rev = tabs[t].rev /\ tabs'[t].base = tabs[t].base
           \/ /\ result.code = 200
              /\ tabs'[t].rev = result.rev /\ tabs'[t].base = serving.text
    BY <1>1, <1>2, ReceiptFacts DEF IsOpen
  <2>2. Names(tabs[t].rev, tabs[t].base)
    BY <2>1 DEF IInv, TabsNamed
  <2>3. result.code = 200 => Names(result.rev, serving.text)
    BY <1>1 DEF IInv, ResultNamed
  <2> QED BY <1>1, <2>1, <2>2, <2>3 DEF Names, sharedVars
<1>7. SnapshotNamed' /\ JobNamed' /\ ResultNamed'
  BY <1>1 DEF IInv, SnapshotNamed, JobNamed, ResultNamed, sharedVars
<1> QED BY <1>3, <1>5, <1>6, <1>7 DEF IInv

LEMMA TimeoutInv ==
  ASSUME IInv, Timeout
  PROVE  IInv'
<1>1. /\ serving # None
      /\ tabs' = Receipt(serving, 503, 0)
      /\ pending' = None /\ serving' = None
      /\ unconfirmed' = unconfirmed \union {serving.id}
      /\ UNCHANGED <<fileVars, nativeVars, sharedVars, queue, sequence,
                     refresh, result, job, committed>>
  BY DEF Timeout
<1>2. serving \in Requests /\ tabs \in [Tabs -> TabState]
  BY <1>1 DEF IInv, TypeOK
<1>3. TypeOK'
  <2>1. tabs' \in [Tabs -> TabState]
    BY <1>1, <1>2, ReceiptFacts
  <2>2. unconfirmed' \subseteq Nat
    BY <1>1, <1>2 DEF IInv, TypeOK, Requests
  <2> QED BY <1>1, <2>1, <2>2 DEF IInv, TypeOK, fileVars, nativeVars,
     sharedVars
<1>4. JobKnown' /\ IdsKnown' /\ PendingIsServed' /\ JobIsServed'
  BY <1>1 DEF IInv, JobKnown, IdsKnown, PendingIsServed, JobIsServed
<1>5. TabsNamed'
  <2> SUFFICES ASSUME NEW t \in Tabs, IsOpen(t)'
               PROVE  Names(tabs[t].rev, tabs[t].base)'
    BY DEF TabsNamed
  <2>1. /\ IsOpen(t)
        /\ tabs'[t].rev = tabs[t].rev /\ tabs'[t].base = tabs[t].base
    BY <1>1, <1>2, ReceiptFacts DEF IsOpen
  <2> QED BY <1>1, <2>1 DEF IInv, TabsNamed, Names, sharedVars
<1>6. SnapshotNamed' /\ JobNamed' /\ ResultNamed'
  BY <1>1 DEF IInv, SnapshotNamed, JobNamed, ResultNamed, sharedVars
<1> QED BY <1>3, <1>4, <1>5, <1>6 DEF IInv

LEMMA AcceptInv ==
  ASSUME IInv, Accept
  PROVE  IInv'
<1> DEFINE req == [Head(queue) EXCEPT !.id = sequence + 1]
<1>1. /\ serving = None /\ queue # <<>>
      /\ sequence' = sequence + 1 /\ queue' = Tail(queue)
      /\ \/ serving' = req /\ pending' = req /\ UNCHANGED tabs
         \/ tabs' = Receipt(req, 500, 0) /\ UNCHANGED <<serving, pending>>
      /\ UNCHANGED <<fileVars, nativeVars, sharedVars, unconfirmed, refresh,
                     result, job, committed>>
  BY DEF Accept
<1>2. /\ sequence \in Nat /\ queue \in Seq(Requests)
      /\ tabs \in [Tabs -> TabState]
  BY DEF IInv, TypeOK
<1>3. Head(queue) \in Requests /\ Tail(queue) \in Seq(Requests)
  BY <1>1, <1>2
<1>4. req \in Requests /\ req.id = sequence + 1
  <2>1. sequence + 1 \in Nat
    BY <1>2
  <2>2. \A old \in Requests, id \in Nat :
          /\ [old EXCEPT !.id = id] \in Requests
          /\ [old EXCEPT !.id = id].id = id
    BY DEF Requests
  <2> QED BY <1>3, <2>1, <2>2
<1> HIDE DEF req
<1>5. /\ tabs' \in [Tabs -> TabState]
      /\ \A t \in Tabs : IsOpen(t)' =>
           /\ IsOpen(t)
           /\ tabs'[t].rev = tabs[t].rev /\ tabs'[t].base = tabs[t].base
  BY <1>1, <1>2, <1>4, ReceiptFacts DEF IsOpen
<1>6. serving' \in {req, None} /\ pending' \in {serving', None}
  <2>1. pending = None
    BY <1>1 DEF IInv, PendingIsServed
  <2> QED BY <1>1, <2>1
<1>7. TypeOK'
  <2>1. /\ serving' \in Requests \union {None}
        /\ pending' \in Requests \union {None}
        /\ sequence' \in Nat /\ queue' \in Seq(Requests)
    BY <1>1, <1>2, <1>3, <1>4, <1>6
  <2>2. UNCHANGED <<fileVars, nativeVars, sharedVars, unconfirmed, refresh,
                    result, job, committed>>
    BY <1>1
  <2> QED BY <1>5, <2>1, <2>2 DEF IInv, TypeOK, fileVars, nativeVars,
     sharedVars
<1>8. /\ job.at # "idle" => job.req.id \in Nat /\ job.req.id <= sequence
      /\ result # None => result.id \in Nat /\ result.id <= sequence
  BY DEF IInv, TypeOK, JobKnown, IdsKnown, Requests
<1>9. JobKnown' /\ IdsKnown'
  <2>1. job.at # "idle" => job.req.id < sequence + 1
    BY <1>2, <1>8
  <2>2. result # None => result.id < sequence + 1
    BY <1>2, <1>8
  <2>3. JobKnown'
    BY <1>1, <1>2, <1>8 DEF IInv, JobKnown
  <2> QED
    BY <1>1, <1>2, <1>4, <1>6, <1>8, <2>1, <2>2, <2>3 DEF IInv, IdsKnown
<1>10. PendingIsServed' /\ JobIsServed'
  BY <1>1, <1>2, <1>4, <1>6, <1>8 DEF PendingIsServed, JobIsServed
<1>11. TabsNamed' /\ SnapshotNamed' /\ JobNamed'
  BY <1>1, <1>5 DEF IInv, TabsNamed, Names, SnapshotNamed, JobNamed, sharedVars
<1>12. ResultNamed'
  BY <1>1, <1>2, <1>4, <1>6, <1>8 DEF ResultNamed
<1> QED BY <1>7, <1>9, <1>10, <1>11, <1>12 DEF IInv

LEMMA StutterInv ==
  ASSUME IInv, UNCHANGED vars
  PROVE  IInv'
<1>1. TypeOK'
  BY DEF IInv, TypeOK, vars, fileVars, nativeVars, sharedVars, serverVars
<1>2. JobKnown' /\ IdsKnown' /\ PendingIsServed' /\ JobIsServed'
  BY DEF IInv, JobKnown, IdsKnown, PendingIsServed, JobIsServed, vars,
     serverVars
<1>3. TabsNamed' /\ SnapshotNamed' /\ JobNamed' /\ ResultNamed'
  BY DEF IInv, TabsNamed, IsOpen, Names, SnapshotNamed, JobNamed, ResultNamed,
     vars, serverVars, sharedVars
<1> QED BY <1>1, <1>2, <1>3 DEF IInv

LEMMA Inductive == IInv /\ [Next]_vars => IInv'
<1> SUFFICES ASSUME IInv, [Next]_vars PROVE IInv'
  OBVIOUS
<1>1. CASE NativeStep
  BY <1>1, TakeRequestInv, SaveStepsInv, ImportInv, ReplyInv,
     RefreshNativeInv DEF NativeStep
<1>2. CASE NativeUser
  BY <1>2, NativeEditInv, NativeSaveInv, SetSourceInv DEF NativeUser
<1>3. CASE ServerStep
  BY <1>3, AcceptInv, GetResultInv, TimeoutInv, PostRefreshInv DEF ServerStep
<1>4. CASE TabStep
  BY <1>4, OpenTabInv, EditTabInv, SaveTabInv, CloseTabInv DEF TabStep
<1>5. CASE Crash \/ OutsideWrite
  BY <1>5, CrashInv, OutsideWriteInv
<1>6. CASE UNCHANGED vars
  BY <1>6, StutterInv
<1> QED BY <1>1, <1>2, <1>3, <1>4, <1>5, <1>6 DEF Next

LEMMA Invariance == Spec => []IInv
<1> QED BY InitInv, Inductive, PTL DEF Spec

-----------------------------------------------------------------------------
(***************************************************************************)
(* The variables keep their types.                                         *)
(***************************************************************************)
THEOREM TypeCorrect == Spec => []TypeOK
<1>1. IInv => TypeOK
  BY DEF IInv
<1> QED BY <1>1, Invariance, PTL

(***************************************************************************)
(* An open tab of the native editor's version started from the text that   *)
(* is shared now: save_revision, the only thing a save is admitted by,     *)
(* stands for that text (browser-save.h, remember_browser_text).           *)
(***************************************************************************)
THEOREM VersionsNameTexts == Spec => []RevisionNamesText
<1>1. IInv => RevisionNamesText
  BY DEF IInv, TabsNamed, Names, RevisionNamesText
<1> QED BY <1>1, Invariance, PTL

(***************************************************************************)
(* save.pending is always the request being served, so the native editor   *)
(* never takes one that has timed out (web-server.c, commit_request).      *)
(***************************************************************************)
THEOREM TimedOutIsNotTaken == Spec => []PendingIsServed
<1>1. IInv => PendingIsServed
  BY DEF IInv
<1> QED BY <1>1, Invariance, PTL


-----------------------------------------------------------------------------
(***************************************************************************)
(* What tabs show as saved.  A tab that waits has asked for its own text,  *)
(* once; whoever learned of a save, by a receipt or by opening a snapshot  *)
(* without a mark, learned it after a text was imported, and from then on  *)
(* the shared text and the file as last seen are one.                      *)
(***************************************************************************)
Asks(ts, req) == /\ ts[req.tab].at \in {"waiting", "closed"}
                 /\ ts[req.tab].at = "waiting" => ts[req.tab].text = req.text

EachAsksOnce ==
  /\ \A i \in 1..Len(queue) : Asks(tabs, queue[i])
  /\ serving # None => Asks(tabs, serving)
  /\ \A i, j \in 1..Len(queue) : queue[i].tab = queue[j].tab => i = j
  /\ serving # None => \A i \in 1..Len(queue) : queue[i].tab # serving.tab

WaitingUnsaved ==
  \A t \in Tabs : tabs[t].at = "waiting" => tabs[t].modified

Shared == baseline = diskBase

SavedTabs ==
  /\ \A t \in Tabs : IsOpen(t) /\ ~tabs[t].modified
                       => tabs[t].text = tabs[t].base /\ Shared
  /\ ~snapshot.modified => Shared

SavedReceipts ==
  /\ job.at = "renamed" => job.req.id \in committed
  /\ job.at = "replying" /\ job.code = 200 => Shared /\ job.req.id \in committed
  /\ result # None /\ result.code = 200 => Shared /\ result.id \in committed

NativeSeen ==
  job.at \in {"admitted", "checked", "rechecked", "renamed"}
    => native \in {baseline, job.req.text}

SInv == /\ EachAsksOnce /\ WaitingUnsaved /\ SavedTabs /\ SavedReceipts
        /\ NativeSeen

(* The file before the rename, unless another wrote it since it was read.  *)
DiskSeen == job.at = "rechecked" => DiskMatches \/ late

-----------------------------------------------------------------------------
LEMMA InitSafe == Init => SInv
<1> SUFFICES ASSUME Init PROVE SInv
  OBVIOUS
<1>1. EachAsksOnce /\ WaitingUnsaved
  BY DEF Init, EachAsksOnce, WaitingUnsaved
<1>2. ~snapshot.modified => Shared
  <2>1. snapshot.modified = (native # diskBase) /\ baseline = native
    BY DEF Init
  <2> QED BY <2>1, Zenon DEF Shared
<1>3. \A t \in Tabs : ~IsOpen(t)
  BY DEF Init, IsOpen
<1>4. SavedReceipts /\ NativeSeen
  BY DEF Init, Idle, SavedReceipts, NativeSeen
<1> QED BY <1>1, <1>2, <1>3, <1>4 DEF SInv, SavedTabs

(***************************************************************************)
(* What a receipt does to the tab it is for, and to no other.              *)
(***************************************************************************)
LEMMA ReceiptTabs ==
  ASSUME tabs \in [Tabs -> TabState], NEW req \in Requests, NEW code,
         NEW rev \in Nat, NEW t \in Tabs
  PROVE  LET new == Receipt(req, code, rev)[t] IN
         \/ new = tabs[t] /\ (t # req.tab \/ tabs[t].at # "waiting")
         \/ /\ t = req.tab /\ tabs[t].at = "waiting" /\ new.at = "editing"
            /\ new.text = tabs[t].text
            /\ \/ code # 200 /\ new.modified = tabs[t].modified
               \/ code = 200 /\ new.base = req.text
<1> DEFINE old == tabs[req.tab]
           said == [old EXCEPT !.at = "editing"]
           saved == [old EXCEPT !.at = "editing", !.base = req.text,
                       !.rev = rev, !.modified = FALSE]
<1>1. old \in TabState /\ req.tab \in Tabs
  BY DEF Requests
<1>2. /\ said.at = "editing" /\ said.text = old.text
      /\ said.modified = old.modified
      /\ saved.at = "editing" /\ saved.text = old.text
      /\ saved.base = req.text
  BY <1>1 DEF TabState
<1>3. CASE old.at # "waiting"
  BY <1>3 DEF Receipt
<1>4. CASE old.at = "waiting" /\ code # 200
  <2>1. Receipt(req, code, rev)[t] = IF t = req.tab THEN said ELSE tabs[t]
    BY <1>1, <1>4 DEF Receipt
  <2> HIDE DEF said, saved
  <2> QED BY <1>2, <1>4, <2>1
<1>5. CASE old.at = "waiting" /\ code = 200
  <2>1. Receipt(req, code, rev)[t] = IF t = req.tab THEN saved ELSE tabs[t]
    BY <1>1, <1>5 DEF Receipt
  <2> HIDE DEF said, saved
  <2> QED BY <1>2, <1>5, <2>1
<1> QED BY <1>3, <1>4, <1>5

(***************************************************************************)
(* Steps that leave what the parts of the invariant are about.             *)
(***************************************************************************)
LEMMA AskedStays ==
  ASSUME EachAsksOnce, WaitingUnsaved, UNCHANGED <<tabs, queue, serving>>
  PROVE  EachAsksOnce' /\ WaitingUnsaved'
BY DEF EachAsksOnce, Asks, WaitingUnsaved

LEMMA AsksStay ==
  ASSUME TypeOK, EachAsksOnce, UNCHANGED <<queue, serving>>,
         \A req \in Requests : Asks(tabs, req) => Asks(tabs', req)
  PROVE  EachAsksOnce'
<1>1. /\ \A i \in 1..Len(queue) : queue[i] \in Requests
      /\ serving # None => serving \in Requests
  BY DEF TypeOK
<1>2. /\ \A i \in 1..Len(queue) : Asks(tabs', queue[i])
      /\ serving # None => Asks(tabs', serving)
  BY <1>1 DEF EachAsksOnce
<1> QED BY <1>2 DEF EachAsksOnce

LEMMA SavedStays ==
  ASSUME SavedTabs, UNCHANGED <<tabs, snapshot, baseline, diskBase>>
  PROVE  SavedTabs'
BY DEF SavedTabs, IsOpen, Shared

LEMMA ReceiptsStay ==
  ASSUME SavedReceipts, NativeSeen,
         UNCHANGED <<baseline, diskBase, job, native, committed>>,
         result' \in {result, None}
  PROVE  SavedReceipts' /\ NativeSeen'
BY DEF SavedReceipts, NativeSeen, Shared

(***************************************************************************)
(* A receipt for the request being served, or for the oldest of the queue. *)
(* The other requests are of other tabs.                                   *)
(***************************************************************************)
LEMMA AskedAfterReceipt ==
  ASSUME TypeOK, WaitingUnsaved,
         NEW req \in Requests, Asks(tabs, req), NEW code, NEW rev \in Nat,
         tabs' = Receipt(req, code, rev),
         tabs' \in [Tabs -> TabState]
  PROVE  /\ WaitingUnsaved'
         /\ \A other \in Requests : Asks(tabs, other) /\ other.tab # req.tab => Asks(tabs', other)
<1>1. tabs \in [Tabs -> TabState] /\ req.tab \in Tabs
  BY DEF TypeOK, Requests
<1>2. WaitingUnsaved'
  <2> SUFFICES ASSUME NEW t \in Tabs, tabs'[t].at = "waiting"
               PROVE  tabs'[t].modified
    BY DEF WaitingUnsaved
  <2>1. tabs'[t] = tabs[t]
    BY <1>1, ReceiptTabs
  <2> QED BY <2>1 DEF WaitingUnsaved
<1>3. ASSUME NEW other \in Requests, Asks(tabs, other), other.tab # req.tab
      PROVE  Asks(tabs', other)
  <2>1. other.tab \in Tabs
    BY DEF Requests
  <2>2. tabs'[other.tab] = tabs[other.tab]
    BY <1>1, <1>3, <2>1, ReceiptTabs
  <2> QED BY <1>3, <2>2 DEF Asks
<1> QED BY <1>2, <1>3

LEMMA SavedAfterReceipt ==
  ASSUME TypeOK, SavedTabs, WaitingUnsaved,
         NEW req \in Requests, Asks(tabs, req), NEW code, NEW rev \in Nat,
         code = 200 => Shared,
         tabs' = Receipt(req, code, rev),
         UNCHANGED <<snapshot, baseline, diskBase>>
  PROVE  SavedTabs'
<1>1. tabs \in [Tabs -> TabState] /\ req.tab \in Tabs
  BY DEF TypeOK, Requests
<1>2. Shared' = Shared
  BY DEF Shared
<1>3. ASSUME NEW t \in Tabs, tabs'[t].at \in {"editing", "waiting"}, ~tabs'[t].modified
      PROVE  tabs'[t].text = tabs'[t].base /\ Shared
  <2>1. CASE tabs'[t] = tabs[t]
    BY <1>3, <2>1 DEF SavedTabs, IsOpen
  <2>2. CASE /\ t = req.tab /\ tabs[t].at = "waiting"
             /\ tabs'[t].text = tabs[t].text
             /\ code = 200 /\ tabs'[t].base = req.text
    BY <2>2 DEF Asks
  <2>3. CASE /\ tabs[t].at = "waiting"
             /\ code # 200 /\ tabs'[t].modified = tabs[t].modified
    BY <1>3, <2>3 DEF WaitingUnsaved
  <2> QED BY <1>1, <2>1, <2>2, <2>3, ReceiptTabs
<1> QED BY <1>2, <1>3 DEF SavedTabs, IsOpen

-----------------------------------------------------------------------------
(***************************************************************************)
(* Steps of the tabs.                                                      *)
(***************************************************************************)
LEMMA OpenTabSafe ==
  ASSUME NEW t \in Tabs, IInv, SInv, OpenTab(t)
  PROVE  SInv'
<1>1. /\ tabs \in [Tabs -> TabState] /\ tabs[t].at = "unopened"
      /\ tabs' = [tabs EXCEPT ![t] =
           [at |-> "editing", text |-> snapshot.text, base |-> snapshot.text,
            rev |-> snapshot.rev, modified |-> snapshot.modified]]
      /\ queue = <<>> /\ serving = None
      /\ UNCHANGED <<fileVars, nativeVars, sharedVars, serverVars, result, job, committed>>
  BY DEF IInv, TypeOK, OpenTab
<1>2. EachAsksOnce' /\ WaitingUnsaved'
  BY <1>1 DEF SInv, EachAsksOnce, WaitingUnsaved, serverVars
<1>3. SavedTabs'
  BY <1>1 DEF SInv, SavedTabs, IsOpen, Shared, sharedVars
<1>4. SavedReceipts' /\ NativeSeen'
  BY <1>1, ReceiptsStay DEF SInv, sharedVars, nativeVars
<1> QED BY <1>2, <1>3, <1>4 DEF SInv

LEMMA EditTabSafe ==
  ASSUME NEW t \in Tabs, IInv, SInv, EditTab(t)
  PROVE  SInv'
<1>1. /\ tabs \in [Tabs -> TabState] /\ tabs[t].at = "editing"
      /\ UNCHANGED <<fileVars, nativeVars, sharedVars, serverVars, result, job, committed>>
  BY DEF IInv, TypeOK, EditTab
<1>2. PICK new \in Texts :
        tabs' = [tabs EXCEPT ![t] = [@ EXCEPT !.text = new, !.modified = TRUE]]
  BY DEF EditTab
<1>3. /\ tabs'[t].at = "editing" /\ tabs'[t].modified
      /\ \A other \in Tabs \ {t} : tabs'[other] = tabs[other]
  BY <1>1, <1>2 DEF TabState
<1>4. ASSUME NEW req \in Requests, Asks(tabs, req) PROVE Asks(tabs', req)
  <2>1. req.tab \in Tabs /\ req.tab # t
    BY <1>1, <1>4 DEF Requests, Asks
  <2> QED BY <1>3, <1>4, <2>1 DEF Asks
<1>5. EachAsksOnce'
  BY <1>1, <1>4, AsksStay DEF IInv, SInv, serverVars
<1>6. WaitingUnsaved'
  BY <1>3 DEF SInv, WaitingUnsaved
<1>7. SavedTabs'
  BY <1>1, <1>3 DEF SInv, SavedTabs, IsOpen, Shared, sharedVars
<1>8. SavedReceipts' /\ NativeSeen'
  BY <1>1, ReceiptsStay DEF SInv, sharedVars, nativeVars
<1> QED BY <1>5, <1>6, <1>7, <1>8 DEF SInv

LEMMA CloseTabSafe ==
  ASSUME NEW t \in Tabs, IInv, SInv, CloseTab(t)
  PROVE  SInv'
<1>1. /\ tabs \in [Tabs -> TabState]
      /\ tabs' = [tabs EXCEPT ![t] = [@ EXCEPT !.at = "closed"]]
      /\ UNCHANGED <<fileVars, nativeVars, sharedVars, serverVars, result, job, committed>>
  BY DEF IInv, TypeOK, CloseTab
<1>2. /\ tabs'[t].at = "closed"
      /\ \A other \in Tabs \ {t} : tabs'[other] = tabs[other]
  BY <1>1 DEF TabState
<1>3. ASSUME NEW req \in Requests, Asks(tabs, req) PROVE Asks(tabs', req)
  <2>1. req.tab \in Tabs
    BY DEF Requests
  <2> QED BY <1>2, <1>3, <2>1 DEF Asks
<1>4. EachAsksOnce'
  BY <1>1, <1>3, AsksStay DEF IInv, SInv, serverVars
<1>5. WaitingUnsaved' /\ SavedTabs'
  BY <1>1, <1>2 DEF SInv, WaitingUnsaved, SavedTabs, IsOpen, Shared, sharedVars
<1>6. SavedReceipts' /\ NativeSeen'
  BY <1>1, ReceiptsStay DEF SInv, sharedVars, nativeVars
<1> QED BY <1>4, <1>5, <1>6 DEF SInv

LEMMA SaveTabSafe ==
  ASSUME NEW t \in Tabs, IInv, SInv, SaveTab(t)
  PROVE  SInv'
<1> DEFINE new == [id |-> 0, tab |-> t, text |-> tabs[t].text,
                   base |-> tabs[t].base, rev |-> tabs[t].rev]
<1>1. /\ tabs \in [Tabs -> TabState] /\ queue \in Seq(Requests)
      /\ tabs[t].at = "editing" /\ tabs[t].modified
      /\ tabs' = [tabs EXCEPT ![t] = [@ EXCEPT !.at = "waiting"]]
      /\ queue' = Append(queue, new)
      /\ serving' = serving
      /\ UNCHANGED <<fileVars, nativeVars, sharedVars, result, job, committed>>
  BY DEF IInv, TypeOK, SaveTab
<1>2. /\ tabs'[t].at = "waiting" /\ tabs'[t].modified
      /\ tabs'[t].text = tabs[t].text
      /\ \A other \in Tabs \ {t} : tabs'[other] = tabs[other]
  BY <1>1 DEF TabState
<1>3. ASSUME NEW req \in Requests, Asks(tabs, req) PROVE Asks(tabs', req) /\ req.tab # t
  <2>1. req.tab \in Tabs /\ req.tab # t
    BY <1>1, <1>3 DEF Requests, Asks
  <2> QED BY <1>2, <1>3, <2>1 DEF Asks
<1>4. new.tab = t /\ Asks(tabs', new)
  BY <1>2 DEF Asks
<1>5. /\ Len(queue') = Len(queue) + 1
      /\ \A i \in 1..Len(queue) : queue'[i] = queue[i] /\ queue[i] \in Requests
      /\ queue'[Len(queue) + 1] = new
  <2> HIDE DEF new
  <2> QED BY <1>1
<1>6. EachAsksOnce'
  <2> HIDE DEF new
  <2>1. Len(queue) \in Nat
    BY <1>1
  <2>2. serving # None => serving \in Requests
    BY DEF IInv, TypeOK
  <2>3. \A i \in 1..Len(queue) : Asks(tabs', queue[i]) /\ queue[i].tab # t
    BY <1>3, <1>5 DEF SInv, EachAsksOnce
  <2>4. serving # None => Asks(tabs', serving) /\ serving.tab # t
    BY <1>3, <2>2 DEF SInv, EachAsksOnce
  <2>5. \A i \in 1..Len(queue') :
          \/ i = Len(queue) + 1 /\ queue'[i] = new
          \/ i \in 1..Len(queue) /\ queue'[i] = queue[i]
    BY <1>5, <2>1
  <2>6. \A i \in 1..Len(queue') : Asks(tabs', queue'[i])
    BY <1>4, <2>3, <2>5
  <2>7. serving' # None => Asks(tabs', serving')
    BY <1>1, <2>4
  <2>8. \A i, j \in 1..Len(queue') : queue'[i].tab = queue'[j].tab => i = j
    BY <1>4, <2>3, <2>5 DEF SInv, EachAsksOnce
  <2>9. serving' # None => \A i \in 1..Len(queue') : queue'[i].tab # serving'.tab
    BY <1>1, <1>4, <2>4, <2>5 DEF SInv, EachAsksOnce
  <2> QED BY <2>6, <2>7, <2>8, <2>9 DEF EachAsksOnce
<1>7. WaitingUnsaved'
  BY <1>2 DEF SInv, WaitingUnsaved
<1>8. SavedTabs'
  BY <1>1, <1>2 DEF SInv, SavedTabs, IsOpen, Shared, sharedVars
<1>9. SavedReceipts' /\ NativeSeen'
  BY <1>1, ReceiptsStay DEF SInv, sharedVars, nativeVars
<1> QED BY <1>6, <1>7, <1>8, <1>9 DEF SInv

-----------------------------------------------------------------------------
(***************************************************************************)
(* Steps of the server.                                                    *)
(***************************************************************************)
LEMMA AcceptedRequest ==
  ASSUME TypeOK, queue # <<>>
  PROVE  /\ [Head(queue) EXCEPT !.id = sequence + 1] \in Requests
         /\ [Head(queue) EXCEPT !.id = sequence + 1].tab = queue[1].tab
         /\ [Head(queue) EXCEPT !.id = sequence + 1].text = queue[1].text
<1>1. queue \in Seq(Requests) /\ sequence + 1 \in Nat
  BY DEF TypeOK
<1>2. Head(queue) = queue[1] /\ queue[1] \in Requests
  BY <1>1
<1> QED BY <1>1, <1>2 DEF Requests

LEMMA AcceptSafe ==
  ASSUME IInv, SInv, Accept
  PROVE  SInv'
<1> DEFINE req == [Head(queue) EXCEPT !.id = sequence + 1]
<1>1. /\ tabs \in [Tabs -> TabState] /\ queue \in Seq(Requests)
      /\ serving = None /\ queue # <<>> /\ queue' = Tail(queue)
      /\ UNCHANGED <<fileVars, nativeVars, sharedVars, result, job, committed>>
      /\ \/ serving' = req /\ UNCHANGED tabs
         \/ tabs' = Receipt(req, 500, 0) /\ serving' = serving
  BY DEF IInv, TypeOK, Accept
<1>2. /\ Len(queue) \in Nat /\ 1 \in 1..Len(queue)
      /\ Head(queue) = queue[1] /\ queue[1] \in Requests
      /\ Len(queue') = Len(queue) - 1
      /\ \A i \in 1..Len(queue') : i + 1 \in 1..Len(queue) /\ queue'[i] = queue[i + 1]
  BY <1>1
<1>3. /\ req \in Requests
      /\ req.tab = queue[1].tab /\ req.text = queue[1].text
  BY <1>1, AcceptedRequest DEF IInv
<1>4. Asks(tabs, req)
  BY <1>2, <1>3 DEF SInv, EachAsksOnce, Asks
<1> HIDE DEF req
<1>5. /\ \A i \in 1..Len(queue') : /\ queue'[i] \in Requests /\ queue'[i].tab # req.tab
                                   /\ Asks(tabs, queue'[i])
      /\ \A i, j \in 1..Len(queue') : queue'[i].tab = queue'[j].tab => i = j
  <2>1. \A i \in 1..Len(queue) : queue[i] \in Requests /\ Asks(tabs, queue[i])
    BY <1>1 DEF SInv, EachAsksOnce
  <2>2. \A i, j \in 1..Len(queue) : queue[i].tab = queue[j].tab => i = j
    BY DEF SInv, EachAsksOnce
  <2>3. ASSUME NEW i \in 1..Len(queue')
        PROVE  /\ queue'[i] \in Requests /\ queue'[i].tab # req.tab
               /\ Asks(tabs, queue'[i])
    <3>1. i + 1 \in 1..Len(queue) /\ queue'[i] = queue[i + 1] /\ i + 1 # 1
      BY <1>2
    <3> QED BY <1>2, <1>3, <2>1, <2>2, <3>1
  <2>4. ASSUME NEW i \in 1..Len(queue'), NEW j \in 1..Len(queue'),
               queue'[i].tab = queue'[j].tab
        PROVE  i = j
    <3>1. /\ i + 1 \in 1..Len(queue) /\ queue'[i] = queue[i + 1]
          /\ j + 1 \in 1..Len(queue) /\ queue'[j] = queue[j + 1]
      BY <1>2
    <3>2. i + 1 = j + 1
      BY <2>2, <2>4, <3>1
    <3> QED BY <1>2, <3>2
  <2> QED BY <2>3, <2>4
<1>6. SavedReceipts' /\ NativeSeen'
  BY <1>1, ReceiptsStay DEF SInv, sharedVars, nativeVars
<1>7. CASE serving' = req /\ UNCHANGED tabs
  <2>1. EachAsksOnce'
    BY <1>4, <1>5, <1>7 DEF EachAsksOnce
  <2>2. WaitingUnsaved' /\ SavedTabs'
    BY <1>1, <1>7, SavedStays DEF SInv, WaitingUnsaved, sharedVars
  <2> QED BY <1>6, <2>1, <2>2 DEF SInv
<1>8. CASE tabs' = Receipt(req, 500, 0) /\ serving' = serving
  <2>1. tabs' \in [Tabs -> TabState] /\ TypeOK
    BY <1>1, <1>3, <1>8, ReceiptFacts DEF IInv
  <2>2. /\ WaitingUnsaved'
        /\ \A other \in Requests :
             Asks(tabs, other) /\ other.tab # req.tab => Asks(tabs', other)
    BY <1>3, <1>4, <1>8, <2>1, AskedAfterReceipt DEF SInv
  <2>3. EachAsksOnce'
    BY <1>1, <1>5, <1>8, <2>2 DEF EachAsksOnce
  <2>4. SavedTabs'
    BY <1>1, <1>3, <1>4, <1>8, <2>1, SavedAfterReceipt DEF SInv, sharedVars
  <2> QED BY <1>6, <2>2, <2>3, <2>4 DEF SInv
<1> QED BY <1>1, <1>7, <1>8

(***************************************************************************)
(* An answer or the time-out: no one serves, and the queue stays.          *)
(***************************************************************************)
LEMMA AnsweredSafe ==
  ASSUME IInv, SInv, serving # None, NEW code, NEW rev \in Nat,
         code = 200 => Shared,
         tabs' = Receipt(serving, code, rev), serving' = None,
         UNCHANGED <<queue, sharedVars>>
  PROVE  EachAsksOnce' /\ WaitingUnsaved' /\ SavedTabs'
<1>1. TypeOK /\ serving \in Requests /\ Asks(tabs, serving)
  BY DEF IInv, TypeOK, SInv, EachAsksOnce
<1>2. tabs' \in [Tabs -> TabState]
  BY <1>1, ReceiptFacts DEF TypeOK
<1>3. /\ WaitingUnsaved'
      /\ \A other \in Requests :
           Asks(tabs, other) /\ other.tab # serving.tab => Asks(tabs', other)
  BY <1>1, <1>2, AskedAfterReceipt DEF SInv
<1>4. \A i \in 1..Len(queue) : queue[i] \in Requests
  BY <1>1 DEF TypeOK
<1>5. EachAsksOnce'
  BY <1>3, <1>4 DEF SInv, EachAsksOnce
<1>6. SavedTabs'
  BY <1>1, SavedAfterReceipt DEF SInv, sharedVars
<1> QED BY <1>3, <1>5, <1>6

LEMMA GetResultSafe ==
  ASSUME IInv, SInv, GetResult
  PROVE  SInv'
<1>1. /\ serving # None /\ result # None /\ result.rev \in Nat
      /\ tabs' = Receipt(serving, result.code, result.rev)
      /\ result' = None /\ serving' = None
      /\ UNCHANGED <<fileVars, nativeVars, sharedVars, queue, job, committed>>
  BY DEF IInv, TypeOK, GetResult
<1>2. result.code = 200 => Shared
  BY <1>1 DEF SInv, SavedReceipts
<1>3. EachAsksOnce' /\ WaitingUnsaved' /\ SavedTabs'
  BY <1>1, <1>2, AnsweredSafe
<1>4. SavedReceipts' /\ NativeSeen'
  BY <1>1, ReceiptsStay DEF SInv, sharedVars, nativeVars
<1> QED BY <1>3, <1>4 DEF SInv

LEMMA TimeoutSafe ==
  ASSUME IInv, SInv, Timeout
  PROVE  SInv'
<1>1. /\ serving # None
      /\ tabs' = Receipt(serving, 503, 0) /\ serving' = None
      /\ UNCHANGED <<fileVars, nativeVars, sharedVars, queue, result, job, committed>>
  BY DEF Timeout
<1>2. EachAsksOnce' /\ WaitingUnsaved' /\ SavedTabs'
  BY <1>1, AnsweredSafe
<1>3. SavedReceipts' /\ NativeSeen'
  BY <1>1, ReceiptsStay DEF SInv, sharedVars, nativeVars
<1> QED BY <1>2, <1>3 DEF SInv

-----------------------------------------------------------------------------
(***************************************************************************)
(* Steps outside of a save.                                                *)
(***************************************************************************)
LEMMA OthersSafe ==
  ASSUME IInv, SInv,
         \/ PostRefresh \/ NativeEdit \/ NativeSave \/ SetSource \/ Crash
         \/ OutsideWrite \/ UNCHANGED vars
  PROVE  SInv'
<1>1. UNCHANGED <<tabs, queue, serving, snapshot, baseline, diskBase, job,
                  committed, result>>
  BY DEF PostRefresh, NativeEdit, NativeSave, SetSource, Crash, OutsideWrite,
     vars, fileVars, nativeVars, sharedVars, serverVars
<1>2. EachAsksOnce' /\ WaitingUnsaved' /\ SavedTabs'
  BY <1>1, AskedStays, SavedStays DEF SInv
<1>3. native' = native \/ job.at = "idle"
  BY DEF PostRefresh, NativeEdit, NativeSave, SetSource, Crash, OutsideWrite,
     At, vars, nativeVars
<1>4. SavedReceipts' /\ NativeSeen'
  BY <1>1, <1>3 DEF SInv, SavedReceipts, NativeSeen, Shared
<1> QED BY <1>2, <1>4 DEF SInv

-----------------------------------------------------------------------------
(***************************************************************************)
(* Steps of a save, from taking the request to the answer.                 *)
(***************************************************************************)
LEMMA TakeRequestSafe ==
  ASSUME IInv, SInv, TakeRequest
  PROVE  SInv'
<1>1. /\ job'.at = "taken"
      /\ UNCHANGED <<nativeVars, sharedVars, serverVars, result, tabs, committed>>
  BY DEF TakeRequest
<1>2. EachAsksOnce' /\ WaitingUnsaved' /\ SavedTabs'
  BY <1>1, AskedStays, SavedStays DEF SInv, serverVars, sharedVars
<1>3. SavedReceipts' /\ NativeSeen'
  BY <1>1 DEF SInv, SavedReceipts, NativeSeen, Shared, sharedVars
<1> QED BY <1>2, <1>3 DEF SInv

LEMMA SaveStepsSafe ==
  ASSUME IInv, SInv, Admit \/ CheckDisk \/ Recheck \/ Rename
  PROVE  SInv'
<1>1. JobMoved
  BY SaveStepsMove DEF IInv
<1>2. /\ Elsewhere /\ UNCHANGED <<sharedVars, result>>
      /\ committed' \in {committed, committed \union {job.req.id}}
  BY DEF Admit, CheckDisk, Recheck, Rename
<1>3. EachAsksOnce' /\ WaitingUnsaved' /\ SavedTabs'
  BY <1>2, AskedStays, SavedStays DEF SInv, serverVars, sharedVars, Elsewhere
<1>4. job \in JobStates
  BY DEF IInv, TypeOK, JobStates
<1>5. job'.at = "renamed" => job'.req.id \in committed'
  <2> SUFFICES ASSUME job'.at = "renamed" PROVE job.req.id \in committed'
    BY <1>1 DEF JobMoved
  <2>1. Rename
    BY ZenonT(40), <1>4 DEF Admit, CheckDisk, Recheck, Refuse, GoOn, JobStates
  <2> QED BY ZenonT(40), <1>4, <2>1 DEF Rename, Refuse, JobStates
<1>6. SavedReceipts'
  BY <1>1, <1>2, <1>5 DEF SInv, SavedReceipts, Shared, JobMoved, sharedVars
<1>7. NativeSeen'
  <2> SUFFICES ASSUME job'.at \in {"admitted", "checked", "rechecked", "renamed"}
               PROVE  native \in {baseline, job.req.text}
    BY <1>1, <1>2 DEF NativeSeen, JobMoved, Elsewhere, sharedVars
  <2>1. CASE Admit
    BY ZenonT(40), <1>4, <2>1 DEF Admit, Refuse, SourceUnchanged, JobStates
  <2>2. CASE CheckDisk \/ Recheck \/ Rename
    BY <2>2 DEF SInv, NativeSeen, CheckDisk, Recheck, Rename, At
  <2> QED BY <2>1, <2>2
<1> QED BY <1>3, <1>6, <1>7 DEF SInv

LEMMA SharedSafe ==
  ASSUME SInv, TypeOK, NEW text \in Texts, Share(text), UNCHANGED tabs
  PROVE  Shared' /\ SavedTabs'
<1>1. baseline' = text /\ diskBase' = text
  BY DEF Share, RememberDisk
<1>2. Shared'
  BY <1>1 DEF Shared
<1>3. \A t \in Tabs : IsOpen(t)' /\ ~tabs'[t].modified => tabs'[t].text = tabs'[t].base
  BY DEF SInv, SavedTabs, IsOpen
<1> QED BY <1>2, <1>3 DEF SavedTabs

LEMMA ImportSafe ==
  ASSUME IInv, SInv, Import
  PROVE  SInv'
<1>1. /\ job.at = "renamed" /\ Share(job.req.text)
      /\ job' = [job EXCEPT !.at = "replying", !.code = 200]
      /\ UNCHANGED <<serverVars, result, tabs, committed>>
  BY DEF Import, At
<1>2. TypeOK /\ job.req.text \in Texts
  BY <1>1 DEF IInv, JobKnown, Requests
<1>3. Shared' /\ SavedTabs'
  BY <1>1, <1>2, SharedSafe
<1>4. EachAsksOnce' /\ WaitingUnsaved'
  BY <1>1, AskedStays DEF SInv, serverVars
<1>5. job'.at = "replying" /\ job'.req = job.req
  BY <1>1, <1>2 DEF TypeOK
<1>6. SavedReceipts' /\ NativeSeen'
  BY <1>1, <1>3, <1>5 DEF SInv, SavedReceipts, NativeSeen
<1> QED BY <1>3, <1>4, <1>6 DEF SInv

LEMMA ReplySafe ==
  ASSUME IInv, SInv, Reply
  PROVE  SInv'
<1>1. /\ job.at = "replying" /\ job'.at = "idle"
      /\ \/ result' = [id |-> job.req.id, code |-> job.code, rev |-> revision]
         \/ result' = result
      /\ UNCHANGED <<nativeVars, sharedVars, serverVars, tabs, committed>>
  BY DEF Reply, At, Idle
<1>2. EachAsksOnce' /\ WaitingUnsaved' /\ SavedTabs'
  BY <1>1, AskedStays, SavedStays DEF SInv, serverVars, sharedVars
<1>3. SavedReceipts' /\ NativeSeen'
  BY <1>1 DEF SInv, SavedReceipts, NativeSeen, Shared, sharedVars
<1> QED BY <1>2, <1>3 DEF SInv

LEMMA RefreshNativeSafe ==
  ASSUME IInv, SInv, RefreshNative
  PROVE  SInv'
<1>1. /\ job.at = "idle"
      /\ UNCHANGED <<serverVars, result, job, tabs, committed>>
      /\ \/ UNCHANGED sharedVars
         \/ disk # NoFile /\ Share(disk)
  BY DEF RefreshNative, At
<1>2. EachAsksOnce' /\ WaitingUnsaved'
  BY <1>1, AskedStays DEF SInv, serverVars
<1>3. NativeSeen'
  BY <1>1 DEF NativeSeen
<1>4. SavedTabs' /\ (Shared => Shared')
  <2>1. CASE UNCHANGED sharedVars
    BY <1>1, <2>1, SavedStays DEF SInv, Shared, sharedVars
  <2>2. CASE disk # NoFile /\ Share(disk)
    <3>1. TypeOK /\ disk \in Texts
      BY <2>2 DEF IInv, TypeOK
    <3> QED BY <1>1, <2>2, <3>1, SharedSafe
  <2> QED BY <1>1, <2>1, <2>2
<1>5. SavedReceipts'
  BY <1>1, <1>4 DEF SInv, SavedReceipts
<1> QED BY <1>2, <1>3, <1>4, <1>5 DEF SInv

LEMMA StepSafe == IInv /\ SInv /\ [Next]_vars => SInv'
<1> SUFFICES ASSUME IInv, SInv, [Next]_vars PROVE SInv'
  OBVIOUS
<1>1. CASE NativeStep
  BY <1>1, TakeRequestSafe, SaveStepsSafe, ImportSafe, ReplySafe,
     RefreshNativeSafe DEF NativeStep
<1>2. CASE NativeUser \/ Crash \/ OutsideWrite \/ UNCHANGED vars
  BY <1>2, OthersSafe DEF NativeUser
<1>3. CASE ServerStep
  BY <1>3, AcceptSafe, GetResultSafe, TimeoutSafe, OthersSafe DEF ServerStep
<1>4. CASE TabStep
  BY <1>4, OpenTabSafe, EditTabSafe, SaveTabSafe, CloseTabSafe DEF TabStep
<1> QED BY <1>1, <1>2, <1>3, <1>4 DEF Next

LEMMA Safety == Spec => [](IInv /\ SInv)
<1> QED BY InitInv, Inductive, InitSafe, StepSafe, PTL DEF Spec

(***************************************************************************)
(* commit_disk goes on to the rename only from a file that it found to be  *)
(* the remembered one; until then nobody but an outside program changes    *)
(* either of the two, and then late says so.                               *)
(***************************************************************************)
LEMMA JobPlaces ==
  ASSUME job \in JobStates
  PROVE  /\ \A stage \in Stages : GoOn(stage) => job'.at = stage
         /\ \A code \in Codes : Refuse(code) => job'.at = "replying"
BY DEF JobStates, GoOn, Refuse

LEMMA StepDiskSeen ==
  ASSUME IInv, DiskSeen, [Next]_vars
  PROVE  DiskSeen'
<1>1. /\ job \in JobStates
      /\ {"admitted", "checked", "rechecked", "renamed"} \subseteq Stages
      /\ {409, 422, 500} \subseteq Codes
  <2>1. job \in JobStates
    BY DEF IInv, TypeOK, JobStates
  <2> QED BY <2>1 DEF Stages, Codes
<1>2. CASE TakeRequest
  <2>1. job'.at = "taken"
    BY <1>2 DEF TakeRequest
  <2> QED BY <2>1 DEF DiskSeen
<1>3. CASE Reply
  <2>1. job'.at = "idle"
    BY <1>3 DEF Reply, Idle
  <2> QED BY <2>1 DEF DiskSeen
<1>4. CASE Admit \/ CheckDisk
  <2>1. Refuse(422) \/ Refuse(409) \/ Refuse(500) \/ GoOn("admitted") \/ GoOn("checked")
    BY <1>4 DEF Admit, CheckDisk
  <2>2. job'.at \in {"replying", "admitted", "checked"}
    BY <1>1, <2>1, JobPlaces
  <2> QED BY <2>2 DEF DiskSeen
<1>5. CASE Recheck
  <2>1. UNCHANGED <<disk, diskBase>>
    BY <1>5 DEF Recheck, sharedVars
  <2>2. Refuse(409) \/ Refuse(500) \/ (GoOn("rechecked") /\ DiskMatches)
    BY <1>5 DEF Recheck
  <2>3. job'.at = "replying" \/ DiskMatches
    BY <1>1, <2>2, JobPlaces
  <2> QED BY <2>1, <2>3 DEF DiskSeen, DiskMatches
<1>6. CASE Rename
  <2>1. Refuse(500) \/ GoOn("renamed")
    BY <1>6 DEF Rename
  <2>2. job'.at \in {"replying", "renamed"}
    BY <1>1, <2>1, JobPlaces
  <2> QED BY <2>2 DEF DiskSeen
<1>7. CASE Import
  <2>1. job'.at = "replying"
    BY <1>1, <1>7 DEF Import, JobStates
  <2> QED BY <2>1 DEF DiskSeen
<1>8. CASE RefreshNative \/ NativeUser
  <2>1. job.at = "idle" /\ job' = job
    BY <1>8 DEF RefreshNative, NativeUser, NativeEdit, NativeSave, SetSource, At
  <2> QED BY <2>1 DEF DiskSeen
<1>9. CASE OutsideWrite
  <2>1. job' = job /\ (job.at = "rechecked" => late')
    BY <1>9 DEF OutsideWrite
  <2> QED BY <2>1 DEF DiskSeen
<1>10. CASE ServerStep \/ TabStep \/ Crash \/ UNCHANGED vars
  <2>1. UNCHANGED <<job, disk, diskBase, late>>
    BY <1>10 DEF ServerStep, Accept, GetResult, Timeout, PostRefresh, TabStep,
       OpenTab, EditTab, SaveTab, CloseTab, Crash, vars, fileVars,
       nativeVars, sharedVars
  <2> QED BY <2>1 DEF DiskSeen, DiskMatches
<1> QED BY <1>2, <1>3, <1>4, <1>5, <1>6, <1>7, <1>8, <1>9, <1>10 DEF Next, NativeStep

LEMMA DiskSafety == Spec => [](IInv /\ DiskSeen)
<1>1. Init => DiskSeen
  BY DEF Init, Idle, DiskSeen
<1>2. IInv /\ DiskSeen /\ [Next]_vars => DiskSeen'
  BY StepDiskSeen
<1> QED BY <1>1, <1>2, InitInv, Inductive, PTL DEF Spec

-----------------------------------------------------------------------------
(***************************************************************************)
(* A tab of the current version that is shown as saved has the text that   *)
(* the native editor shares and last saw in the file, whatever crashes,    *)
(* time-outs, refusals, imports and failed writes came before              *)
(* (browser-save.h, remember_disk; page.js, the receipt).                  *)
(***************************************************************************)
THEOREM SavedTabsAreCurrent == Spec => []SavedTabIsCurrent
<1>1. IInv /\ SInv => SavedTabIsCurrent
  BY DEF IInv, TabsNamed, Names, SInv, SavedTabs, Shared, IsOpen,
     SavedTabIsCurrent
<1> QED BY <1>1, Safety, PTL

(***************************************************************************)
(* A tab that waits loses its mark only by the receipt for the request it  *)
(* waits for, and after that request was renamed over the file.            *)
(***************************************************************************)
THEOREM ReceiptsAreTrue == Spec => ReceiptTrue
<1> DEFINE True == \A t \in Tabs :
       tabs[t].at = "waiting" /\ tabs'[t].at = "editing" /\ ~tabs'[t].modified
         => serving # None /\ serving.tab = t /\ serving.id \in committed
<1>1. IInv /\ SInv /\ [Next]_vars => [True]_vars
  <2> SUFFICES ASSUME IInv, SInv, Next, NEW t \in Tabs,
                      tabs[t].at = "waiting", tabs'[t].at = "editing",
                      ~tabs'[t].modified
               PROVE  serving # None /\ serving.tab = t /\ serving.id \in committed
    OBVIOUS
  <2>1. tabs \in [Tabs -> TabState] /\ tabs[t].modified /\ tabs' # tabs
    BY DEF IInv, TypeOK, SInv, WaitingUnsaved
  <2>2. CASE GetResult
    <3>1. /\ serving # None /\ serving \in Requests
          /\ result # None /\ result.id = serving.id /\ result.rev \in Nat
          /\ tabs' = Receipt(serving, result.code, result.rev)
      BY <2>2 DEF IInv, TypeOK, GetResult, Answers
    <3>2. t = serving.tab /\ result.code = 200
      BY <2>1, <3>1, ReceiptTabs
    <3> QED BY <3>1, <3>2 DEF SInv, SavedReceipts
  <2>3. CASE Timeout
    <3>1. serving \in Requests /\ tabs' = Receipt(serving, 503, 0) /\ 0 \in Nat
      BY <2>3 DEF IInv, TypeOK, Timeout
    <3> QED BY <2>1, <3>1, ReceiptTabs
  <2>4. CASE Accept
    <3> DEFINE req == [Head(queue) EXCEPT !.id = sequence + 1]
    <3>1. tabs' = Receipt(req, 500, 0) /\ 0 \in Nat
      BY <2>1, <2>4 DEF Accept
    <3>2. req \in Requests
      BY <2>4, AcceptedRequest DEF IInv, Accept
    <3> HIDE DEF req
    <3> QED BY <2>1, <3>1, <3>2, ReceiptTabs
  <2>5. CASE TabStep
    <3>1. PICK other \in Tabs : \/ OpenTab(other) \/ EditTab(other)
                               \/ SaveTab(other) \/ CloseTab(other)
      BY <2>5 DEF TabStep
    <3>2. CASE other # t
      BY <2>1, <3>1, <3>2 DEF OpenTab, EditTab, SaveTab, CloseTab
    <3>3. CASE other = t /\ (SaveTab(t) \/ CloseTab(t))
      <4>1. tabs'[t].at \in {"waiting", "closed"}
        BY <2>1, <3>3 DEF SaveTab, CloseTab, TabState
      <4> QED BY <4>1
    <3>4. CASE other = t /\ (OpenTab(t) \/ EditTab(t))
      BY <3>4 DEF OpenTab, EditTab
    <3> QED BY <3>1, <3>2, <3>3, <3>4
  <2>6. CASE NativeStep \/ NativeUser \/ PostRefresh \/ Crash \/ OutsideWrite
    <3>1. UNCHANGED tabs
      BY <2>6 DEF NativeStep, TakeRequest, Admit, CheckDisk, Recheck, Rename,
         Import, Reply, RefreshNative, NativeUser, NativeEdit, NativeSave,
         SetSource, PostRefresh, Crash, OutsideWrite, Elsewhere
    <3> QED BY <2>1, <3>1
  <2> QED BY <2>2, <2>3, <2>4, <2>5, <2>6 DEF Next, ServerStep
<1>2. Spec => [][True]_vars
  BY <1>1, Safety, PTL DEF Spec
<1> QED BY <1>2 DEF ReceiptTrue

(***************************************************************************)
(* An import replaces no text that the native user typed: the native text  *)
(* was the shared one, or is the saved one already (browser-save.h,        *)
(* source_unchanged), and it stays so while the save goes on.              *)
(***************************************************************************)
THEOREM TypedTextIsKept == Spec => NativeEditsKept
<1>1. IInv /\ SInv /\ [Next]_vars
        => [native' # native /\ ~dirty' => native = baseline]_vars
  <2> SUFFICES ASSUME SInv, Next, native' # native, ~dirty'
               PROVE  native = baseline
    OBVIOUS
  <2>1. CASE Import
    BY <2>1 DEF Import, At, Share, ReplaceSource, SInv, NativeSeen
  <2>2. CASE RefreshNative
    BY <2>2 DEF RefreshNative, SourceUnchanged, Share, ReplaceSource
  <2>3. CASE NativeEdit
    BY <2>3 DEF NativeEdit
  <2>4. ~(Import \/ RefreshNative \/ NativeEdit) => native' = native
    BY DEF Next, NativeStep, TakeRequest, Admit, CheckDisk, Recheck, Rename,
       Reply, NativeUser, NativeSave, SetSource, ServerStep, Accept,
       GetResult, Timeout, PostRefresh, TabStep, OpenTab, EditTab, SaveTab,
       CloseTab, Crash, OutsideWrite, Elsewhere, nativeVars
  <2> QED BY <2>1, <2>2, <2>3, <2>4
<1> QED BY <1>1, Safety, PTL DEF Spec, NativeEditsKept

(***************************************************************************)
(* A save replaces only the contents that the handoff last saw, or what    *)
(* was written after the last comparison of commit_disk.                   *)
(***************************************************************************)
THEOREM ForeignTextIsKept == Spec => OutsideWriteKept
<1>1. IInv /\ DiskSeen /\ [Next]_vars
        => [committed' # committed => disk = diskBase \/ late]_vars
  <2> SUFFICES ASSUME DiskSeen, Next, committed' # committed
               PROVE  disk = diskBase \/ late
    OBVIOUS
  <2>1. Rename
    BY DEF Next, NativeStep, TakeRequest, Admit, CheckDisk, Recheck, Import,
       RefreshNative, Reply, NativeUser, NativeEdit, NativeSave, SetSource,
       ServerStep, Accept, GetResult, Timeout, PostRefresh, TabStep, OpenTab,
       EditTab, SaveTab, CloseTab, Crash, OutsideWrite, Elsewhere
  <2> QED BY <2>1 DEF Rename, At, DiskSeen, DiskMatches
<1> QED BY <1>1, DiskSafety, PTL DEF Spec, OutsideWriteKept
=============================================================================
