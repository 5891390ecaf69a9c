# Femto-Emacs in TLA+

Models, checks and proofs for Femto-Emacs (the editors *Femto*, *Chezmacs* and
*Chezweb* that are built from this repository). Paths below are relative to the
repository's root, so the C core is `src/src/` and the Scheme scripts are
`src/scheme/`.

Contents: the system; what is modelled, module by module; the runs; fairness; the
proofs; where code and documents disagree; what is not modelled; the plan.

## The system

The editor is one native process with one thread. Its C core keeps buffers,
windows and the keyboard; nearly every command is a Scheme procedure that a key
is bound to, run by an embedded interpreter (`femtoscheme/`) or compiled to C
beforehand (`compiled/`). There are three ways out of that thread:

- programs the editor starts (shell commands and assistants, which it waits for,
  and the Lean checker of the mutation tester, which it talks with);
- the browser: *Chezweb* shows a copy of one native buffer in tabs, which run
  the same editor as WebAssembly and save through a loopback HTTP server;
- the file system, which other programs write too.

| component | state | operations | interacts with |
|---|---|---|---|
| buffer text: `gap.c`, `command.c`, `interface.c`, `replace.c` | the store with its gap, cursor, mark, B_OVERWRITE | insert, delete, cut, kill, replace, file input, motion | reports every change to undo (`record_change`) |
| undo history: `scheme/undo.scm`, `undo.c` | per buffer: done, undone, bytes, saved id, blocked id; the command serial and the run of typing | boundary before every key, record, trim, undo, redo, forget, saved | called by the core through a hook; changes the text through `fe_insert_bytes` and `fe_delete_region`; writes B_MODIFIED, as the core does |
| browser saves: `browser-save.h`, `tools/web-server.c`, `web/page.js` | tabs: text, version; server: the request it waits for; native: shared text, version, file as last seen; five files in a private directory | open, edit, save, close; accept, answer, time out; admit, compare, rename, import, reply, refresh | three processes and the source file |
| buffers and windows: `buffer.c`, `window.c`, `display.c` | the two lists, what shows what, counts of windows, hijacked windows, rows; each window's copy of a cursor | select, kill, split, pop up, restore, re-layout; keep and put back a cursor | undo is told of killed buffers |
| key input: `key.c`, loops of `search.c`, `lineedit.c` | bytes given back, the macro, its playback | read, give back, record, play, repeat, decode | prompts, the tester |
| mutation tester: `chez-tester.c` and its headers, `Lean/` | a child process, two pipes, a journal in a shared directory, a lock, what is borrowed from the user | begin, inject, observe, compare, commit a batch, cancel, put back | keys, undo, kill ring |
| interpreter: `femtoscheme/` | heap of two spaces, value stack, frames, C functions in progress; streams; the reader's token, the printer's table | compile, run, collect, throw; read and write bytes; read and print data | everything in Scheme |
| display and mouse: `display.c`, `command.c`, wrap hook | page, painted cursor, matched parens, drag | frame, paint, move by rows, words, pages, wheel, click | terminal, SDL window, browser |
| kill ring: `core.scm`, `emacs-keys.scm` | the ring, the C core's scrap, the system clipboard | kill, join, yank, yank-pop, trim | cut and paste in the core |
| prompts, search, completion; bridge; compiled programs | one prompt at a time | | key input |

What is hard in it, and so what the models are about:

- **The gap.** Every position is converted to a store index and back, before and
  after the gap moves and the store is reallocated. Correct: the pointers stay in
  order, no byte of the gap shows, and each change is reported as what it was.
- **Undo.** Edits are merged in place, groups trimmed from either stack, a command's
  edits may be too large to keep, and whether a buffer is modified is computed from
  ids of groups. Correct: undo takes back whole commands, redo gives them back, the
  limits hold, and a buffer without `*` holds its file's text.
- **Saves from tabs.** Four actors that share files, each of which may be slow, dead,
  out of date or late by one answer. Correct: no save destroys another's text, nobody
  is told that a text is saved when it is not, every tab gets an answer.
- **The tester.** Editor and checker exchange lines through two pipes, the editor
  reuses a journal of limited size once the checker acknowledged what is in it, and
  several editors share the directory. Correct: what is not acknowledged survives
  any crash, PASS is true, the checker complains of nothing but errors, the user gets
  everything back.
- **Windows and their cursors.** Counts and links kept by hand, and copies of cursors
  that must follow edits made in other windows.
- **Keys.** A byte may come from three places and be given back to one of them; what
  a macro records must be what its replay reads.
- **The interpreter.** A collection may move everything at each allocation; handles,
  registers, frames and the C stack must know of it.
- **Streams, reader, printer.** One buffer for both directions; a token, marks and
  labels that outlive a call.
- **Rows.** Two independent functions cut the text into rows, one to move and one to
  paint.

`PROJECT.json` lists these hazards one by one at their lines, with the properties
that guard them or the reason why none does.

## What is modelled

Definitions keep the source's names (in TLA+ spelling), and `PROJECT.json`
("map") gives the lines behind each. A definition marked `\* mutant` is a plausible
bug of the definition after it, used only to show that a property can fail.

Where a step of the code leaves the state that the rest of the program counts on, the
step is guarded by a name in the constant `Extras`. The listed runs leave these steps
out unless the table says otherwise; what they break is told under *Where the code and
its documents disagree*, with the edit of a configuration that shows it.

### UndoStack, UndoHistory, UndoAside

`UndoStack` is the promise: each group of a history is a pair of texts, before and
after, and the groups of the two stacks form one chain through the buffer's text.
It has the flag, the saved id and the serial of `undo.scm`, but neither positions
nor limits: trimming may drop any number of the oldest groups at any change.

`UndoHistory` is the code: changes with positions and bytes, `Merged` for
`merge-change`, `TrimHistory` with its three limits and the order in which it eats
first `done`, then `undone`, `Blocked` for commands too large to keep, `UndoBoundary`
with the run of typed characters. The trimming loop is one step that says how many
groups go (the least number that satisfies the limits); this is what the loop does,
since it drops one at a time and tests before each.

A key is one action: `TypeKey`, `DeleteKey`, `OverwriteKey`, `Undo` and `Redo` open
(or continue) a command and act. Any other command is `CommandKey` followed by any
edits (`CommandInsert`, `CommandDelete`), and possibly a save or a load. A save is
the last thing its command does to the buffer.

`UndoAside` extends it with what only some users do: discarding a history, inserting a
file, turning `*undo-mode*` off, saving to a full disk.

Left out: the cursor (so a group has no point; edits happen at any position), the
table of histories (one buffer; a history that the table lacks is an empty one).

### GapBuffer

`buf` is the store as `gap.c` has it: a function on its indexes, its size, and where
the gap begins and ends. `Index` is `ptr()`, `Position` is `pos()`, `MoveGap` and
`GrowGap` are `movegap` and `growgap`; every function of the core that changes a text
is an action, made of these in the order of the code; so are inserting a file, which
also ends overwrite mode, and loading one into the emptied store. `reported` is what
the step told `record_change`, in order. Every step scrubs the gap, that is, replaces
what is left in it by `Junk`, as do reads past the store: the model's way to see stale
or foreign bytes in a text. Where the code decides on such a byte (`killtoeol` at the
end of the text), the model takes both ways.

Bytes are a newline, the lead byte of a two-byte character and its continuation, so
that every string of them, well formed or not, occurs. A growth that would exceed
`MaxStore` (MAX_SIZE_T, standing for `realloc` too) fails, and the functions do then
what they do.

Left out: the text of the kill, the screen (a line fits its row, so `dndn` is the next
line), read-only buffers and B_MODIFIED (in `UndoHistory`). Known and harmless: in
overwrite mode a byte of a character is replaced by a byte, and C-e at the end of a
text that a newline ends goes back before that newline, so the C core's kill-line
kills it (Chezweb binds C-k to Scheme's `kill-line-command` instead).

### BrowserSave

The files of the session directory are variables: `pending`, `result`, `refresh`,
`snapshot`. The source file is `disk`. A save by a tab goes through
`SaveTab` (the page sends it, and its editor stands still), `Accept` (the server gives
it an id and writes `save.pending`), then in the native editor `TakeRequest`, `Admit`
(the buffer, the version), `CheckDisk`, `Recheck` and `Rename` (`commit_disk`), `Import`
(the buffer, the version, the snapshot), `Reply`, and again in the server `GetResult`
or `Timeout`. Each is one step because another process can act in between: tabs and
server at any time, the native user only when the editor is idle, an outside program
at any time ("write during save"). The native process may end between any two steps
("native crash"), and each write of a file may fail ("write errors"). Both runs have
the first two, and `browser_save_faults` the third too.

`base` of a tab, `committed`, `unconfirmed` and `late` are history variables: the text a
tab started from, the ids whose text reached the file, the ids answered with 503, and
whether another program wrote the file after the last comparison of `commit_disk` and
before its rename.

Known and not counted as errors: a native C-x C-s does not tell the handoff, so every
tab's next save is refused (409) until the page refreshes; a tab whose save was
committed after its time-out has an old version and is refused until it saves the
same text again, which is accepted. Left out: allocation failures, an empty file as
distinct from no file, a second launch, and the old import of a whole session
(`browser-launch.c`, `pending`), for which no page sends a request any more.

### Windows, Cursors

`Windows` has the lists of buffers and windows with their counts and links: splitting,
deleting and selecting windows, switching to and killing buffers, the popups that take
over ("hijack") a window and give it back, and the re-layout after a resize. A function
of the core takes a record of both lists and gives one back, so that a command is a
composition of them in the order of the code. `curbp`, the buffer that commands edit, is
a variable of its own, set where the code sets it: `restore_hijacked_window` does not.
A command that fails an assertion only sets `aborted`, and nothing follows it; nothing
follows a link to a freed buffer either, since what the code does with one is undefined.
Names are numbers, since all that matters of them is their order (`strcmp`). `w_rows` is
a char, so screens above 127 rows are outside the model.

`Cursors` looks at the same windows, but keeps of a buffer its length, `b_point` and
the sizes that `w2b` compares, and of a window its `w_point`. Each action is a command
with the `update_display` that ends it, which copies cursors between buffers and
windows (`B2w`, `W2b`) in the order of the list.

### KeyInput

One action per byte read: from the bytes given back, from the macro played, or from the
keyboard. `reader` is the function that is waiting (`get_key`, a search, a line editor),
and what it does with the byte is in `Taken`. `meant` and `ran` are histories: what the
recorded keys did when they were typed, and what the replay did. The tester puts keys
into the bytes given back. Left out: decoding of mouse reports, names of keys.

### Tester

The editor (`run_test` and what it calls) is a program counter per editor process and
the `struct run`; the checker is a record of what it knows (`src/Lean`); between them
are two pipes of lines. A line is a tuple of its kind, its number and whether what it
reports is right. The journal `pending.trace`, `run.lock` and `failure.trace` are shared
by all editors in the directory. A wait that ends without the line it waits for, a
system call that fails and a user who cancels are one step, `GoesWrong`, possible
wherever the code has one of them. Leaving by `finish:` puts buffer, mark and clipboard
back and, if `(tester-history-end)` can be evaluated, the kill ring too
(`chez-edit-tester.h:171`); if not, the ring stays aside, and the next run that edits
fails at its beginning. A mortal editor may crash at any place. An
untrusted checker may, wherever the editor waits for it, end or give a reply that does
not fit (`Misbehaves`); it is silent from then on.

Left open: how long a traversal is, which texts are moved, how a plan is read.

### Heap, Builtins, Compiler, Machine, Scheme, Interpreter

`Heap` is the memory (two spaces of words, copying collection with forwarding
pointers, stack, handles), `Builtins` the primitives on it (equality with cycles,
vectors, numbers that fit a fixnum), `Compiler` the bytecode compiler for the core
language, `Machine` the virtual machine, one instruction a step, with the C functions
that call back into it. `Scheme` is an evaluator without stack or heap words, and
`Interpreter` holds the two against each other.

Left out: gensyms, other C values, printing and reading (below), stack traces, macros,
numbers wider than a fixnum, and the builtins that only compute on atoms.

### ByteFile, Streams

`ByteFile` is what a program expects: bytes, a position, and operations on them.
`Streams` is `ios.c`: the buffer with its states for reading and writing, dirty bytes,
the position of the descriptor, growth in memory. `ImplementsByteFile` maps one to the
other. Left out: pipes that deliver less than was asked for, system errors, line
numbers, `ios_skip`.

### Reader, Printer, ReadPrint

`Reader` is `read.c` with its labels and tokens, `Printer` is `print.c` with its marks,
labels, line breaks and limits; `ReadPrint` lets a program read a text datum by datum,
print what it read or made and read that again. Left out: reals and typed numbers,
gensyms, closures, `#.`, constructor notation.

### Layout, Screen

`Layout` has both ways the text is cut into rows: the functions that find the start of
a row, and the loop that paints. `Screen` has the commands that move and click, each
followed by the `display` that frames and paints. Left out: colours, the mode line's
text, more than one window, reading mode.

## The runs

All runs pass; every property has a mutant in `PROJECT.json`, a plausible bug of the
code under which the run finds it violated.

| run (configuration) | properties | what it shows |
|---|---|---|
| `undo_history` (`MCUndoHistory`) | `UndoThenRedo`, `WholeCommand`, `Bounded`, `ImplementsUndoStack` | undo takes back whole commands, redo gives back what undo took, each of the three limits holds, and the history with its merging and trimming implements `UndoStack` |
| `browser_save` (`MCBrowserSave`) | `RevisionNamesText`, `SavedTabIsCurrent`, `PendingIsServed`, `NativeEditsKept`, `OutsideWriteKept` | two tabs, the server, the native user and an outside program in every order, with writes in mid-save and a native editor that crashes |
| `browser_save_faults` (`MCBrowserSaveFaults`) | `ReceiptTrue`, `EveryTabAnswered` | with failed writes too, what a tab is told is true, and it is told something |
| `gap_buffer` (`MCGapBuffer`) | `NoJunkInText`, `ReportsAreTheChange`, `CharactersStayWhole` | no byte of the gap shows, undo is told exactly what happened, moving and deleting by characters split none |
| `windows` (`MCWindows`) | `CountsHonest`, `LinksKept` | counts are the numbers of windows, and links and `curbp` go wrong only by the steps that `LinksKept` names |
| `cursors` (`MCCursors`) | `CursorsInText`, `CursorsFollow`, `CursorsKept` | a window's cursor stays in its text, stays before the same character while others edit unless an insertion goes past it, and comes back with its window |
| `keys` (`MCKeyInput`) | `StoresSuffice`, `TesterNeverBlocks`, `ReplayMeansRecording` | nothing given back is lost, the tester's keys are read before the keyboard is waited for, and a replay does what the typing did |
| `tester` (`MCTester`) | `EvidenceKept`, `PassMeansChecked`, `CheckerAgrees`, `HandsBack`, `EveryRunEnds` | two editors, a crash, a false checker: the journal keeps what is unacknowledged, PASS is true, the user gets everything back (the kill ring unless `tester-history-end` failed), and each run ends |
| `interpreter` (`MCInterpreter`) | `ComputesSource`, `PointersFollowed`, `MemoryFits`, `TailCallsFlat` | over sixty programs compute their meaning wherever the collections fall |
| `streams` (`MCStreams`) | `EofHonest`, `LinesAreOut`, `ImplementsByteFile` | a buffered stream is a file without a buffer |
| `reader` (`MCReadPrint`) | `RoundTrip`, `ReadsDatum` | a read takes one datum, and what is printed is read as the same |
| `screen` (`MCScreen`) | `CursorShown`, `RowMoves`, `ClickShows`, `ParensMatch` | the cursor is where point is painted, and movement and clicks agree with the painting |

`LinksKept`, `CursorsFollow` and `OutsideWriteKept` are about code that is wrong in
places: each says exactly where it may be, and `NothingDangles`, `SelectedIsCurrent` and
`CursorsAlwaysFollow`, which make no exception, fail (below). `CountsHonest` knows the
windows that a resize drops by the history variable `lost`.

Two more configurations are for trying out: `MCInterpreterDefault.cfg` (a
disagreement, below) and `MCUndoExtras.cfg`, with module `MCUndoAside` (ids stay
ordered and a read-only buffer keeps its text and its history while everything in
`UndoAside` happens). `WholeCommand` is what undo means for a command that made several
edits; `UndoThenRedo` compares texts and flags after an undo and the redo that follows.

`CHECK_DEADLOCK FALSE` is set for `undo_history`, both runs of `BrowserSave`,
`gap_buffer`, `reader` and `screen`: a user, a tab or a program that has spent its
bounded number of commands stops; and for `windows`, where a failed assertion ends the
editor and a freed buffer ends what is modelled. In the other runs there is always a next step, and
TLC checks that there is.

Why these bounds:

- *undo*: texts of two bytes over two letters and insertions of two give every way two
  changes can touch, overlap or cancel; five serials allow two groups, a save between
  them, undo, redo and a new change; limits of three bytes, two groups and two changes
  are each the first to bind in some state (the `Bounded` mutant, a loop that drops one
  group only, is caught), and an amalgamation of two is reached and exceeded.
- *gap*: a store of four bytes with a text of three has the gap at every place, of
  every size from none to all, and fails to grow; insertions of two bytes split by any
  place; a two-byte character at the start, in the middle, at the end, and broken.
- *browser*: two tabs, two saves and one outside event make every race of two saves.
  Texts and tabs are interchangeable and reduced by symmetry in `browser_save`, which
  has no liveness property.
- *windows*: four names give an ordinary buffer besides `*scratch*`, the popup and the
  list of completions, so that a window that was taken over can be selected, made to
  show the completions and given back by M-x; a screen of 5 rows cannot be split twice, one of 8 can;
  `MaxLost` is how many windows may be dropped by a screen that shrinks.
- *cursors*: two windows on one or two buffers, four bytes: a change before, at and
  after the other cursor; `Drift` allows no cursor out of the text.
- *keys*: six bytes of macro hold a key of three bytes, a search with its last byte
  given back, a repeat and the end of recording; it is also overrun ("cut").
- *tester*: a batch of three and a journal of five lines let a batch fill, be committed
  and the journal be reused; two texts, each edited once; one editor may die, the other
  meets the false checker, so both know a state the other left behind.
- *interpreter*: twelve sizes of free heap make the collections fall on each allocation
  of each program in turn; a stack of 8 words grows, one of 13 does not.
- *streams*: a buffer of three bytes and files of up to four: lines, characters and seeks
  across its boundary; a written text that fills the buffer exactly, one that is written
  past it, and one that ends a line and goes on, so that the rest stays in the buffer; and
  a memory stream that leaves its inline store.
- *reader*: tokens of ten characters are overrun; lines of eight columns break;
  vectors grow by one; data share and are circular.
- *screen*: six columns with a tab stop of two, windows of two and three rows: files
  that do not fit, rows cut inside words, characters and control characters, one edit,
  resize or press, which may leave point outside the page.

## Fairness

- `BrowserSave`: of the server's loop alone (`Accept`, `GetResult`, `Timeout`): it
  accepts, polls for ten seconds and gives up, whatever the others do. Nothing is
  assumed of the native editor, which may stay in a prompt or be dead, nor of users.
- `Tester`: of each editor's own steps (`Working(e)`), since every wait in
  `chez-tester.c` has a limit and ends in `GoesWrong`. Nothing is assumed of the
  checker, and a crash is an end too.
- The other models claim no liveness: they do what a user or a program asks, when asked.

## The proofs

TLC covers the bounds above; these hold for every value of the constants that the named
assumptions allow (`TesterSizes`, `KeySizes`, `SizesAreNat`, `SpecialValues` and their
like: the orders between sizes on which the code itself relies). A star marks what a run
checks too.

**`Folding`** has what the folds of the models need, for any operator `Op`: induction over
the natural numbers with a set in the place of a predicate (`Induction`, from the
well-foundedness of `<`), the function that `FoldLeft` chooses (`IterExists`, `FoldSteps`),
that the fold is the end of any function that goes along the sequence (`FoldIs`), and that
a fold of sums adds up over the parts of a sequence (`FoldAdds`).

**`UndoHistory_proofs`**, for texts, insertions, commands and limits of any size
- `Implements`\*: the history implements `UndoStack`.
- `FlagSoundness`: in `UndoStack`, a buffer shown as unmodified holds its file's text.
  `FlagSound` alone is not inductive, for undo makes the flag from ids. The invariant
  `StackInv` adds that the groups are a chain through the text (`Chained`), that ids fall
  along `done`, rise along `undone` and are below the serial (`IdsOrdered`, so an id names
  one group), and that the saved id, wherever it occurs, marks the saved text. With
  `Implements` it speaks about the code's history: `FlagSoundHolds`.
- `UndoThenRedoHolds`\*, `WholeCommandHolds`\*, `BoundedHolds`\*: redo gives back what
  undo took; undo takes back whole commands; both stacks together stay within the limits,
  with the right count of bytes.
- `IdsOrderedHolds`, `ReadOnlyKeptHolds`: ids name one group; a read-only buffer keeps its
  text and its groups.
- The argument goes up three levels. A *change* `Does` a text of another: they have a
  front and a back in common (`MergedDoes`: what `merge-change` makes of two does what
  both did). A *group* is `MadeBy` its changes: there is a function of the texts on the
  way, along which undo goes down and redo up (`GroupMoves`, with `Folding`). A *stack* is
  `Linked` to the buffer's text in the same way by its groups; `View` is what `UndoStack`
  keeps of it. The invariant `IInv` is that the history is `Sound` (linked and within the
  limits), its ids are `Ordered`, the newest group leads `BackTo` where the command
  began, and, while a command may still edit, the history is `Current`: the saved group is
  not the command's, and a command that grew too large has left nothing. The last is
  what makes the flag right; a save or an undo closes the command, so it ends there.
- Two lemmas carry the steps: `RecordKeeps` (a recorded change, trimmed, is a change of
  `UndoStack`; two in one key are one, `RecordsTwice`) and `Shift` (a group that goes from
  one stack to the other, which needs no trimming: `GroupMoved`).
- The proof found that *self-insert-run* is not always at most *undo-amalgamate*: with an
  amalgamation of 0 the first key of a run makes it 1 (`undo.scm:63-64`). `TypeOK` says so.

**`BrowserSave_proofs`**, with every extra unless said otherwise
- `VersionsNameTexts`\*: an open tab of the current version started from the text that is
  shared now. It needs that versions never exceed the current one, that the snapshot is
  the shared text and version, and the same of requests on their way, of results and of
  the save under way, since each of them may turn into a tab's state later.
- `TimedOutIsNotTaken`\*: `save.pending` is the request the server waits for.
- `SavedTabsAreCurrent`\*: a tab that is shown as saved has the text that is shared now,
  if its version is the current one. The invariant (`SInv`) follows a text from the tab
  through the request, the job, the import and the result back to the same tab: what each
  of them has is, by its version or its id, the text the tab had when it sent it.
- `ReceiptsAreTrue`\*: only a receipt for its own request, after the rename, takes a
  tab's mark away. `IInv` says that ids grow along the way from the tab to the result, so
  that no late result can be taken for another's.
- `TypedTextIsKept`\*: an import, which clears the native mark, never replaces text that
  the native user typed: from the moment the job is admitted to the import, the buffer is
  what was admitted.
- `ForeignTextIsKept`\*: a save replaces only file contents the handoff has seen, or what
  another program wrote after the last comparison of `commit_disk`. No assumption is made
  about other programs. The invariant `DiskSeen` says that at the rename the file is what
  was compared, unless `late` says otherwise.

**`GapBuffer_proofs`**, with `Extras = {}`
- `AssertionsHold`, `NoJunkShown`\*: gap, store and cursor stay in order and every byte
  of the text is one that was put there. `IInv` says that the store is a function on its
  indexes whose cells outside the gap hold bytes (`Sound`), and the cursor is in the text.
  One lemma per operation on the store (`MoveGapSound`, `GrowGapSound`, `FillSound`,
  `DropSound`, `WriteSound`, `ReplaceSound`) carries it through the actions.
- `MoveGapKeepsText`: moving the gap changes no text.
- `ReportsHold`\*: what a step reports to the undo history is what it did to the text. A
  report is `Explained` if the change it names, cut out of the text before, leaves the
  text after; every operation of `gap.c` is a splice (`Spliced`) of the text that `Shows`,
  and reports that splice. A step makes two reports at most (a replacement that deletes
  and inserts), so that the fold over its reports is one or two steps (`Folding`).
- `CharactersKeptWhole`\*: moving and deleting by characters keeps them whole (typing is
  not covered, since overwrite mode replaces bytes). The sizes
  that the code takes from a lead byte, or by going back to one, end at a boundary
  (`LeftOver`, `RightOver`), and a text cut out between boundaries is whole
  (`CutOutWhole`).

**`Windows_proofs`**, for any number of buffers, windows and rows
- `CountsStayHonest`\*: `b_cnt` is the number of windows that show a buffer and of those
  that a resize dropped. `LinksAreKept`\*: `curbp` and the links of windows go wrong only
  by the steps that it names. Neither needs an assumption about what the user does. The
  inductive invariant, `IInv`, is that the buffers have counts (`Buffers`), the windows
  are windows (`Frames`), the counts are right (`Counted`), a window is selected and
  `curbp` is there. A command begins where, besides, what windows show and are to get back
  is there (`Held`), which makes the two lists `Sound`; it need not end so.
- A count is of the windows in a sequence, which are inserted, removed and replaced: four
  lemmas say by bijections between index sets what each of these does to it
  (`ShownInserted`, `ShownRemoved`, `ShownDropped` and the count of a replaced window). One
  lemma for each function of `window.c` then says that it keeps `Sound` (`ShowSound`,
  `SplitSound`, `CloseSound`, `OnlySound`, `HijackSound`, `RestoredSound`, `PopupSound`,
  `DroppedSound`...).

**`Cursors_proofs`**, for any number of buffers and windows and texts of any length
- `CursorsStayInText`\*, `CursorsGoWithText`\*, `CursorsAreKept`\*: a window's cursor stays
  in its text; goes with the text that others edit, unless an insertion goes past it
  (`Overtaken`), when it stays where it was; and is the one it had when its window is
  selected again. The invariant, between two commands, is `Kept`: every cursor is
  in its text (`InText`); `b_psize` is `b_size`, and with more than one window both are the length of the text of
  every buffer that is shown (`Painted`). The second part is what makes `w2b` right: it
  adds the difference of the two, and only when they agree before an edit is that what
  the edit changed. A command need not keep it; it leaves what `update_display` can take
  (`Ready`), and `RefreshedIs` says that `update_display`, whichever windows it paints,
  moves each cursor as `Moved` says and ends `Kept`. Its loop over the windows is a
  fold, which `Folding` takes apart, with an invariant of its own (`Turned`). One lemma per
  command shows `Ready`. Assumed is that none of the steps in `ExtraSteps` is taken:
  regions cut, popups shown over other windows and text appended to a buffer that is not
  selected each break it (below).

**`KeyInput_proofs`**
- `StoresAreEnough`\*: the macro and the bytes given back never outgrow their arrays, and
  the assertion of `get_key` holds, as long as no NUL is typed, and none is injected but
  C-@ as a key by itself (`NoNul`; with one inside of a key it fails, below). `IInv` is
  about the state without a C-@ that waits (`Unmarked`): reading it changes nothing else
  (`MarkedStep`). That a store is not full is needed only where a byte is given back,
  which is one place: a search ended by an ESC sequence that is none of its own. The
  invariant `Room` adds to the bounds that there the store has a free place.
- `ReplayIsRecording`\*: playing a macro does what its keys did when they were typed, in
  their order and all of it (`ReplayMeansRecording`); and `MacroStaysPlayed`: no step of a
  replay changes the macro. From `Settled`: none of the extra steps that break a replay
  (below) is taken, and the tester puts in no C-x and no NUL but C-@ by itself, which is
  what `chez-edit-tester.h` does. A byte that no command of macros ends with has an
  *outcome* (reader, bytes of its key, bytes given back, what it did) that does not depend
  on macros (`OutcomeIs`). A *way* along a macro is a sequence of outcomes from an idle
  reader on. The invariant `Replays` says that the macro that is recorded leads to the
  present state and to `meant` (`Recording`), that the finished one leads to an idle
  reader, and that the present state and `ran` are on this way while it is played
  (`Replayable`). Outcomes being functions, the next byte of a replay goes where the way
  goes (`PlayGoesOn`), though what search() gives back is read in between. C-x ) and C-x e
  take their two bytes from the end of the macro; that what is left is a way to the end of
  a key needs `Prefixed`: at C-x nothing that was given back is left to read, and no other
  key was begun.
- `TesterIsNotBlocked`\*: whole keys that the tester puts in are read without a byte of
  the keyboard in between, whichever of the extra steps but "nul" are taken. A key is
  `Whole` if there is a way along its bytes, given back, to an idle reader;
  `SearchIsWhole` is an example. The invariant `Testing` says that the state is on such a
  way as long as its bytes are read.

**`Tester_proofs`**, for any number of editors, crashes and false checkers
- `CoreHolds`, `EvidenceIsKept`\*, `UserIsHandedBack`\*, `PassIsChecked`\*: what the editor
  has by itself. At the places where the journal is emptied every observation is
  acknowledged (`acked = seq`); only the editor that has the lock touches the journal, and
  a run that is at work has the lock (lemma `Directory`); whatever was borrowed is put
  back on each of the ways to the end of a run, or the ring is known to be left aside; and a command is obeyed only while the
  number of observations leaves room for it (`CommandRoom`).
- `CheckerAgreement`\*: the checker rejects only a run that observed something wrong. That
  needs to know what both processes know: `Protocol(e)` says, for each place of
  `run_test`, what is in the two pipes, what the checker waits for and has counted. The
  observations on their way are numbered from the checker's count on and, with it, fill
  the batch; one of them is wrong if and only if the run is bad. It is kept by the
  editor's steps (`ProtocolWorks`), by the checker's (`ProtocolChecks`) and by all others
  (`SameProtocol`), until the checker breaks its protocol itself.

Each module also proves its type invariant (`TypeCorrect`, or within the invariant).

Only model-checked, and why:

- *liveness* (`EveryTabAnswered`, `EveryRunEnds`): out of the proof system's reach;
- *interpreter, streams, reader, screen*: their operators are recursive, over data.

## Where the code and its documents disagree

Each of these is shown by TLC with the edit of a configuration that is given.

1. *discard-undo-history* on a modified buffer removes the record, and the next change
   makes one that counts the text at hand as saved. Undoing that change clears the `*` of
   a text that no file holds, against the comment at `scheme/undo.scm:119`.
   (`MCUndoExtras.cfg`: `Extras = {"discard"}`, `INVARIANTS FlagSound`.)
2. DEL, C-d and killing do not move the mark, and a cut does not look whether it is still
   in the text: `b_egap` passes `b_ebuf`, against the assertions at `gap.c:73` and
   `gap.c:88`. (`MCGapBuffer.cfg`: `Extras = {"stale mark"}`, `INVARIANTS GapOrdered`.)
3. query-replace with a text of the same length writes over the gap if that is inside the
   match, and half of the new text is lost, though the history was told otherwise
   (`replace.c:99`). (`MCGapBuffer.cfg`: `Extras = {"replace over gap"}`.)
4. Of the four refusals of a save, the one inside `commit_disk` keeps no conflict buffer,
   against `src/README.md`. (`MCBrowserSave.cfg`: `INVARIANTS RejectedTextKept`.)
5. A save that its tab was told is "not confirmed", with its changes "unsaved", is
   committed when the native editor had already taken it. (`MCBrowserSave.cfg`:
   `INVARIANTS UnconfirmedUnsaved`.)
6. Links of windows, all with `MCWindows.cfg`. A second popup over a window that is
   already taken over meets the assertion at `window.c:146`, and `(kill-buffer)` of the
   only buffer can meet the one in `delete_buffer_byname` (`INVARIANTS NoAssertionFails`).
   Killing a buffer that another window shows, or is to get back, leaves a link to freed
   memory, `buffer.c:259` (`INVARIANTS NothingDangles`). When a popup took over a window,
   that window was selected and made to show `*completions*`, the next M-x with TAB TAB
   gives it back its old buffer, and `curbp` stays on `*completions*`: what is typed next
   goes into a buffer that the selected window does not show, `funcmap.c:322`
   (`INVARIANTS SelectedIsCurrent`).
7. C-x 0 gives the window that takes over the cursor of the one deleted, if both show one
   buffer (`window.c:244`). (`MCCursors.cfg`: `PROPERTIES RemainingKeepsCursor`.) Each
   of cutting a region, a popup in another window, and text appended to a buffer that is
   not selected can leave a window's cursor past the end of its text: "regions", "popups"
   and "append" break `CursorsInText`. And an insertion of n bytes leaves the cursor of
   another window, up to n bytes behind the place, where it was, so before another
   character, against the comment at `display.c:826`: `w2b` compares it with the cursor
   after the insertion. (`PROPERTIES CursorsAlwaysFollow`.)
8. A NUL in the middle of a key (C-@) fails `StoresSuffice` (`key.c:449`).
   (`MCKeyInput.cfg`: `Extras = {"nul"}`.) Macros played while one is recorded, searches
   ended by C-x and macros that were cut do not replay as they were typed: "nested",
   "search ended by C-x", "play what was cut" break `ReplayMeansRecording`.
9. The default of a first optional argument of a function without required ones is
   compiled for an empty frame: `((lambda (x) (lambda ((f (lambda () x))) (f))) 42)`
   (`compiler.scm:558`, against `femtoscheme/README.md:42`). (`MCInterpreterDefault.cfg`.)
10. OP_CLOSURE takes four words after a collection that may not have found them
    (`flisp.c:1744`). (`MCInterpreter.cfg`: `Garbage = {24}`, `MemoryFits`.)
11. Streams, each with the name in `Extras` of `MCStreams.cfg`: writing after a read that
    left bytes in the buffer corrupts the file or loops (`ios.h:23`); a character split by
    the buffer's end; `io.pos` after a seek or a peek; lines longer than the chunk that
    `io.readuntil` takes.
12. The token of a failed read stays for the next (`read.c:747`). (`MCReadPrint.cfg`:
    `Texts <- StaleTexts`, `Extras = {"stale token"}`, `INVARIANTS TokenTaken`.)
13. `(unquote @x)` and `(unquote .x)` print as what reads differently. (`MCReadPrint.cfg`:
    `Made <- CommaMade`, `Texts <- NoTexts`, `Options <- PlainOnly`.)
14. Enter in the middle of the bottom row leaves the cursor on the mode line until the
    next key ("bottom", `CursorShown`); `backward_word` with the gap before it or inside a
    character ("word", with `Files <- WideFile`, `TypeOK`); C-e on the empty last row goes
    to the row before (`command.c:238`; `Files <- OneFile`, `INVARIANTS RowEndStays`).

Seen while modelling, and left to the reader, because a single step shows it or nothing
claims otherwise:

- inserting a file into an unmodified buffer leaves it unmodified (`gap.c:233`);
- with `*undo-mode*` off, what can be redone stays and no longer fits (`undo.scm:134`);
- a save that fails has emptied the file first (`gap.c:160`), and undoing to the saved
  group then clears the `*` though the file is short;
- `commit_disk` compares and then renames: a write by another program between the two
  is lost (`browser-save.h:136`);
- a longer replacement ignores a failed growth (`replace.c:84`), and C-d trusts a lead
  byte at the end of the text (`command.c:397`);
- the bounds error of `aset!` is made of a stale register (`flisp.c:1541`); fixnums
  overflow silently; an index of `aref` is cut to 32 bits; `compute_maxstack` is one too
  low after dead code behind a `return`; VARGC forgets that a default captured the frame;
- a quote at the end of the input is read as the end; a NUL reads as an empty symbol;
  symbols of 255 characters and more cannot be read back; circular data printed with
  `display` never end;
- on rows that are not wrapped, a carriage return takes a cell for a click
  (`display.c:943`) and none in the painting (`display.c:351`); so a click behind one is a
  column off, and the files of `screen` that are not wrapped have none;
- on rows that are not wrapped, columns are counted in bytes; a tab that ends at the right
  edge makes Down skip a row; a width that is no multiple of eight lets painting and
  movement disagree about tabs.

## What is not modelled

- *Kill ring and yanking*: the three limits of the ring and joined kills; next in the plan.
- *Prompts, search, completion*: sequential, and tested as functions; the bytes they read
  are in `KeyInput`.
- *Highlighting, terminal and window backends*: derived from the text.
- *Bridge, Schemer compiler, compiled programs*: conversion of arguments, and code that
  is generated before the editor runs; what they run is modelled as if it were the source.
- *Running programs and assistants*: one blocking wait with a limit.
- *Browser files without a native editor*: browser APIs.
- *Languages and modes in Scheme*: text to text, through functions that are modelled.

## Plan

Done: all modules above with their runs, and the proofs about `UndoStack`, `UndoHistory`,
`BrowserSave`, `GapBuffer`, `Windows`, `Cursors`, `Tester` and `KeyInput`.

Next:

1. `KillRing`: the ring, the scrap and the clipboard, composed with `GapBuffer`'s cut.
