--------------------------- MODULE EditorBuffers ---------------------------
(***************************************************************************)
(* The text of an open file and the file on disk: editorStore (load, save, *)
(* reload, close), editorSession (the CodeMirror buffer that holds the     *)
(* newest text), autoSave, and the synchronisation of an open file with    *)
(* the disk that watcher events and focus start.                           *)
(*                                                                         *)
(* The frontend is one thread: what runs between two awaits is one action. *)
(* A call to the backend that reads or writes the disk is an action of its *)
(* own, because other handlers, the user and other programs act before the *)
(* answer is used.                                                         *)
(***************************************************************************)
EXTENDS Integers, FiniteSets

CONSTANTS
    Files,          \* paths; a path has at most one regular tab
    Settings,       \* the settings and circumstances to consider, see EditorAssumption
    MaxFresh,       \* bound on the texts typed or written by others
    MaxWrites,      \* bound on the writes of a file
    MaxOpens,       \* bound on the tabs opened for a file
    MaxBoth,        \* bound on the tabs opened and the texts made together
    MaxOps          \* bound on the handlers in flight

ASSUME EditorAssumption ==
    /\ Settings \subseteq [plain : SUBSET Files,    \* files above the edit budget
                           autoSave : BOOLEAN,      \* files.autoSave is not "off"
                           tidies : BOOLEAN,        \* saving trims or completes lines
                           flaky : BOOLEAN,         \* file_mtime may fail
                           restored : SUBSET Files] \* files restored with a draft at start
    /\ \A s \in Settings : s.restored \cap s.plain = {}
    /\ {MaxFresh, MaxWrites, MaxOpens, MaxBoth, MaxOps} \subseteq Nat \ {0}

VARIABLES
    settings,       \* the settings in force
    disk,           \* text of each file
    mtime,          \* modification time of each file: the number of its last write
    tab,            \* the tab of each file
    live,           \* CodeMirror document of each tab (shared view or cached state)
    bound,          \* the tab shown in the shared EditorView
    ops,            \* handlers waiting for the backend or for the user
    notify,         \* files with a change the watcher has not yet acted on
    suppressed,     \* files in the watcher's suppress window
    choice,         \* the operation that owns the choice dialog
    asking,         \* the file whose close waits at the confirm dialog
    compare,        \* what the compare panel was opened with
    timer,          \* files whose auto-save is due
    fresh,          \* texts made so far
    typed,          \* files whose buffer holds typing neither saved nor given up
    overlap,        \* files typed into while a save or reopen was under way
    seen,           \* newest write of the file whose text its tab has read
    ahead           \* <<file, mtime>> recorded of writes whose text the tab has not read

editorVars == <<settings, disk, mtime, tab, live, bound, ops, notify, suppressed, choice,
                asking, compare, timer, fresh, typed, overlap, seen, ahead>>

(* undefined: no text, or an mtime nobody has asked for. *)
None == 0
(* null: the mtime was asked for and file_mtime failed. *)
Null == -1
NoFile == "no file"
NoOp == [kind |-> "none"]

(* The texts: 2n+1 as typed, 2n+2 as saving leaves it when it tidies lines. *)
Rough(n) == 2 * n + 1
Tidy(n) == 2 * n + 2
Texts == 1 .. (2 * MaxFresh + 2)
prepareContentForSave(text) ==
    IF settings.tidies /\ text % 2 = 1 THEN text + 1 ELSE text

Fresh ==
    /\ fresh < MaxFresh
    /\ \A f \in Files : fresh + tab[f].gen < MaxBoth
    /\ fresh' = fresh + 1

Closed == [open |-> FALSE, gen |-> 0, content |-> None, dirty |-> FALSE,
           loading |-> FALSE, error |-> FALSE, known |-> None]

(* tabFromPersisted: a tab restored with its draft has text nobody saved and   *)
(* no mtime yet.  A draft is shorter than any edit budget by default, so it is *)
(* never the draft of a plain file.                                           *)
Restored == [Closed EXCEPT !.open = TRUE, !.gen = 1, !.content = Rough(1), !.dirty = TRUE]

(***************************************************************************)
(* Reading the state                                                       *)
(***************************************************************************)
(* findTab: an answer is used only when the tab it was asked for is there. *)
findTab(op) == tab[op.file].open /\ tab[op.file].gen = op.gen

Editable(f) == tab[f].open /\ ~tab[f].loading /\ ~tab[f].error

(* resolveTabContent / getLocalContent: the live document before the store's copy. *)
resolveTabContent(f) == IF live[f] # None THEN live[f] ELSE tab[f].content

NoDialog == choice = NoOp /\ asking = NoFile /\ compare = NoOp

Op(kind, f, pc) == [kind |-> kind, file |-> f, gen |-> tab[f].gen, pc |-> pc,
                    raw |-> None, text |-> None, base |-> None, mt |-> None,
                    read |-> None, after |-> "stay"]

InFlight(kind, f) == {op \in ops : op.kind = kind /\ op.file = f}

Room == Cardinality(ops) < MaxOps

(* A handler goes on with its next await, or ends. *)
Continue(op, next) == ops' = (ops \ {op}) \cup {next}
End(op) == ops' = ops \ {op}

(***************************************************************************)
(* The store and the live document                                         *)
(***************************************************************************)
(* disposeEditorSession: the live document is dropped, the store's copy counts. *)
disposeEditorSession(f) == [live EXCEPT ![f] = None]

\* Mutant: the view's text is not flushed to the store.
Unbound_unflushed ==
    IF bound = NoFile \/ live[bound] = None THEN [live |-> live, tab |-> tab]
    ELSE [live |-> IF bound \in settings.plain THEN [live EXCEPT ![bound] = None] ELSE live,
          tab |-> tab]

(* bindTabToView for the tab that leaves the view: a plain tab is flushed  *)
(* and not cached, any other is cached and flushed.                        *)
Unbound ==
    IF bound = NoFile \/ live[bound] = None THEN [live |-> live, tab |-> tab]
    ELSE [live |-> IF bound \in settings.plain THEN [live EXCEPT ![bound] = None] ELSE live,
          tab |-> [tab EXCEPT ![bound].content = live[bound]]]

(* ... and for the tab that enters it: its cached document, or one built from *)
(* the store's copy, which a plain tab then drops.                          *)
Bound(f, l, t) ==
    LET doc == IF l[f] # None THEN l[f] ELSE t[f].content
    IN [live |-> [l EXCEPT ![f] = doc],
        tab |-> IF f \in settings.plain THEN [t EXCEPT ![f].content = None] ELSE t]

(* closeTab *)
CloseTab(f) ==
    /\ tab' = [tab EXCEPT ![f] = [Closed EXCEPT !.gen = tab[f].gen]]
    /\ live' = disposeEditorSession(f)
    /\ bound' = IF bound = f THEN NoFile ELSE bound
    /\ typed' = [typed EXCEPT ![f] = FALSE]
    /\ seen' = [seen EXCEPT ![f] = None]
    /\ overlap' = overlap \ {f} /\ ahead' = {p \in ahead : p[1] # f}

(* reloadFromDisk *)
ReloadFromDisk(f, text, mt) ==
    /\ live' = disposeEditorSession(f)
    /\ tab' = [tab EXCEPT ![f] = [@ EXCEPT !.content = text, !.dirty = FALSE,
                                           !.loading = FALSE, !.error = FALSE,
                                           !.known = IF mt = Null THEN tab[f].known ELSE mt]]

(* The mtimes recorded that run ahead, when mt is recorded with the text of write read. *)
Unread(f, read, mt) == {p \in ahead \cup {<<f, mt>>} : p[1] = f => p[2] > read}

(* What a tab has seen of its file: the write whose text it read. *)
Saw(f, read, mt) ==
    /\ seen' = [seen EXCEPT ![f] = IF read > @ THEN read ELSE @]
    /\ ahead' = Unread(f, read, mt)

----------------------------------------------------------------------------
(* Opening: openFile, retryOpenFile, populateTabFromDisk                   *)

StartLoad(f, t) ==
    /\ Room
    /\ tab' = t
    /\ ops' = ops \cup {[Op("load", f, "stat") EXCEPT !.gen = t[f].gen]}

openFile(f) ==
    /\ NoDialog
    /\ ~tab[f].open /\ tab[f].gen < MaxOpens /\ fresh + tab[f].gen < MaxBoth
    /\ StartLoad(f, [Unbound.tab EXCEPT ![f] = [Closed EXCEPT !.open = TRUE, !.loading = TRUE,
                                                              !.gen = tab[f].gen + 1]])
    /\ live' = Unbound.live
    /\ bound' = NoFile
    /\ UNCHANGED <<settings, disk, mtime, notify, suppressed, choice, asking, compare, timer, fresh,
                   typed, overlap, seen, ahead>>

retryOpenFile(f) ==
    /\ NoDialog
    /\ tab[f].open /\ tab[f].error
    /\ StartLoad(f, [tab EXCEPT ![f] = [@ EXCEPT !.loading = TRUE, !.error = FALSE]])
    /\ UNCHANGED <<settings, disk, mtime, live, bound, notify, suppressed, choice, asking,
                   compare, timer, fresh, typed, overlap, seen, ahead>>

(* What a caller that catches the failure of file_mtime may go on with. *)
FileMtime(f) == {mtime[f]} \cup (IF settings.flaky THEN {Null} ELSE {})

(* The stat and mtime calls, then the read: the backend answers.  When only *)
(* file_mtime fails, the load goes on without an mtime.                     *)
LoadStat(op) ==
    /\ op.kind = "load" /\ op.pc = "stat"
    /\ \E mt \in FileMtime(op.file) : Continue(op, [op EXCEPT !.pc = "read", !.mt = mt])
    /\ UNCHANGED <<settings, disk, mtime, tab, live, bound, notify, suppressed, choice, asking,
                   compare, timer, fresh, typed, overlap, seen, ahead>>

LoadRead(op) ==
    /\ op.kind = "load" /\ op.pc = "read"
    /\ Continue(op, [op EXCEPT !.pc = "answered", !.text = disk[op.file], !.read = mtime[op.file]])
    /\ UNCHANGED <<settings, disk, mtime, tab, live, bound, notify, suppressed, choice, asking,
                   compare, timer, fresh, typed, overlap, seen, ahead>>

(* populateTabFromDisk publishes the text, unless the tab is gone. *)
populateTabFromDisk(op) ==
    /\ op.kind = "load" /\ op.pc = "answered"
    /\ End(op)
    /\ IF findTab(op)
       THEN /\ tab' = [tab EXCEPT ![op.file] =
                         [@ EXCEPT !.content = op.text, !.dirty = FALSE,
                                   !.loading = FALSE, !.error = FALSE, !.known = op.mt]]
            /\ Saw(op.file, op.read, op.mt)
       ELSE UNCHANGED <<tab, seen, ahead>>
    /\ UNCHANGED <<settings, disk, mtime, live, bound, notify, suppressed, choice, asking,
                   compare, timer, fresh, typed, overlap>>

(* get_file_stat or read_file fails: the tab keeps the error, to be retried. *)
LoadFails(op) ==
    /\ op.kind = "load" /\ op.pc \in {"stat", "read"}
    /\ End(op)
    /\ tab' = IF findTab(op)
              THEN [tab EXCEPT ![op.file] = [@ EXCEPT !.loading = FALSE, !.content = None,
                                                      !.error = TRUE]]
              ELSE tab
    /\ UNCHANGED <<settings, disk, mtime, live, bound, notify, suppressed, choice, asking,
                   compare, timer, fresh, typed, overlap, seen, ahead>>

(* loadMissingTabContents for a tab that was restored with its draft: only   *)
(* the mtime is asked for, the text on disk is not read.                     *)
loadMissingTabContents(f) ==
    /\ Room
    /\ Editable(f) /\ tab[f].content # None /\ tab[f].known = None
    /\ ops' = ops \cup {Op("hydrate", f, "stat")}
    /\ UNCHANGED <<settings, disk, mtime, tab, live, bound, notify, suppressed, choice, asking,
                   compare, timer, fresh, typed, overlap, seen, ahead>>

HydrateStat(op) ==
    /\ op.kind = "hydrate" /\ op.pc = "stat"
    /\ \E mt \in FileMtime(op.file) : Continue(op, [op EXCEPT !.pc = "answered", !.mt = mt])
    /\ UNCHANGED <<settings, disk, mtime, tab, live, bound, notify, suppressed, choice, asking,
                   compare, timer, fresh, typed, overlap, seen, ahead>>

HydrateDone(op) ==
    /\ op.kind = "hydrate" /\ op.pc = "answered"
    /\ End(op)
    /\ IF findTab(op)
       THEN /\ tab' = [tab EXCEPT ![op.file] = [@ EXCEPT !.loading = FALSE, !.known = op.mt]]
            /\ ahead' = Unread(op.file, seen[op.file], op.mt)
       ELSE UNCHANGED <<tab, ahead>>
    /\ UNCHANGED <<settings, disk, mtime, live, bound, notify, suppressed, choice, asking,
                   compare, timer, fresh, typed, overlap, seen>>

----------------------------------------------------------------------------
(* The shared EditorView                                                   *)

(* Editor: another editable tab becomes the active one; its predecessor is *)
(* cached, flushed and, with auto-save on, saved.                          *)
bindTabToView(f) ==
    /\ NoDialog
    /\ Editable(f) /\ bound # f
    /\ LET entered == Bound(f, Unbound.live, Unbound.tab)
       IN live' = entered.live /\ tab' = entered.tab
    /\ bound' = f
    /\ timer' = IF settings.autoSave /\ bound # NoFile THEN timer \cup {bound} ELSE timer
    /\ UNCHANGED <<settings, disk, mtime, ops, notify, suppressed, choice, asking, compare,
                   fresh, typed, overlap, seen, ahead>>

(* The active tab is no longer an editable one. *)
LeaveEditor ==
    /\ NoDialog
    /\ bound # NoFile
    /\ live' = Unbound.live /\ tab' = Unbound.tab
    /\ bound' = NoFile
    /\ timer' = IF settings.autoSave THEN timer \cup {bound} ELSE timer
    /\ UNCHANGED <<settings, disk, mtime, ops, notify, suppressed, choice, asking, compare,
                   fresh, typed, overlap, seen, ahead>>

(* The bound tab's contentEpoch moved: its document is built anew. *)
RebuildView(f) ==
    /\ bound = f /\ live[f] = None /\ Editable(f)
    /\ LET entered == Bound(f, live, tab)
       IN live' = entered.live /\ tab' = entered.tab
    /\ UNCHANGED <<settings, disk, mtime, bound, ops, notify, suppressed, choice, asking, compare,
                   timer, fresh, typed, overlap, seen, ahead>>

(* The update listener: markDirty and notifyEditorContentChanged. *)
Type(f) ==
    /\ NoDialog
    /\ bound = f /\ live[f] # None /\ Editable(f)
    /\ Fresh
    /\ live' = [live EXCEPT ![f] = Rough(fresh')]
    /\ tab' = [tab EXCEPT ![f].dirty = TRUE]
    /\ timer' = IF settings.autoSave THEN timer \cup {f} ELSE timer
    /\ typed' = [typed EXCEPT ![f] = TRUE]
    /\ overlap' = IF \E op \in ops : op.file = f /\ op.kind \in {"save", "reopen"} /\ findTab(op)
                  THEN overlap \cup {f} ELSE overlap \ {f}
    /\ UNCHANGED <<settings, disk, mtime, bound, ops, notify, suppressed, choice, asking, compare,
                   seen, ahead>>

----------------------------------------------------------------------------
(* Saving: saveFile                                                        *)

(* Up to its first call: the text and the mtime it will compare are taken here. *)
BeginSave(f, t, after) ==
    ops' = ops \cup {[Op("save", f, "check") EXCEPT
                        !.raw = resolveTabContent(f), !.base = t[f].known,
                        !.text = prepareContentForSave(resolveTabContent(f)), !.after = after]}

CanSave(f) ==
    /\ Editable(f) /\ resolveTabContent(f) # None
    /\ Room
    /\ mtime[f] + Cardinality(InFlight("save", f)) < MaxWrites

saveFile(f) ==
    /\ NoDialog
    /\ CanSave(f) /\ tab[f].dirty
    /\ BeginSave(f, tab, "stay")
    /\ UNCHANGED <<settings, disk, mtime, tab, live, bound, notify, suppressed, choice, asking,
                   compare, timer, fresh, typed, overlap, seen, ahead>>

(* autoSave.saveTabIfDirty: a clean tab is not saved; the buffer is flushed first. *)
saveTabIfDirty(f) ==
    /\ f \in timer
    /\ timer' = timer \ {f}
    /\ IF tab[f].dirty /\ Editable(f)
       THEN LET flushed == IF live[f] = None THEN tab
                           ELSE [tab EXCEPT ![f].content = live[f]]
            IN CanSave(f) /\ tab' = flushed /\ BeginSave(f, flushed, "stay")
       ELSE UNCHANGED <<tab, ops>>
    /\ UNCHANGED <<settings, disk, mtime, live, bound, notify, suppressed, choice, asking, compare,
                   fresh, typed, overlap, seen, ahead>>

(* What a save that came to nothing leaves to confirmDiscardTabs: the close *)
(* it was started for is dropped, or asks the user when auto-save started it. *)
AfterFailedSave(op) ==
    asking' = IF op.after = "ask" /\ findTab(op) /\ tab[op.file].dirty /\ asking = NoFile
              THEN op.file ELSE asking

(* The symlink question is refused, or its check or file_mtime fails. *)
SaveRefused(op) ==
    /\ op.kind = "save" /\ op.pc = "check"
    /\ End(op) /\ AfterFailedSave(op)
    /\ suppressed' \in {suppressed, suppressed \cup {op.file}}
    /\ UNCHANGED <<settings, disk, mtime, tab, live, bound, notify, choice,
                   compare, timer, fresh, typed, overlap, seen, ahead>>

\* Mutant: the modification time is not compared.
SaveCheck_skipped(op) ==
    /\ op.kind = "save" /\ op.pc = "check"
    /\ suppressed' = suppressed \cup {op.file}
    /\ Continue(op, [op EXCEPT !.pc = "compare", !.mt = op.base, !.read = mtime[op.file]])
    /\ UNCHANGED <<settings, disk, mtime, tab, live, bound, notify, choice, asking, compare,
                   timer, fresh, typed, overlap, seen, ahead>>

(* suppress_fs_watch and file_mtime. *)
SaveCheck(op) ==
    /\ op.kind = "save" /\ op.pc = "check"
    /\ suppressed' = suppressed \cup {op.file}
    /\ Continue(op, [op EXCEPT !.pc = "compare", !.mt = mtime[op.file], !.read = mtime[op.file]])
    /\ UNCHANGED <<settings, disk, mtime, tab, live, bound, notify, choice, asking, compare,
                   timer, fresh, typed, overlap, seen, ahead>>

(* Nothing to compare with: the save goes ahead unchecked. *)
Unchecked(op) == op.base \in {None, Null}

(* The file changed since the tab read it: the save is given up. *)
SaveConflict(op) ==
    /\ op.kind = "save" /\ op.pc = "compare"
    /\ ~Unchecked(op) /\ op.mt # op.base
    /\ End(op) /\ AfterFailedSave(op)
    /\ UNCHANGED <<settings, disk, mtime, tab, live, bound, notify, suppressed, choice,
                   compare, timer, fresh, typed, overlap, seen, ahead>>

(* write_file *)
SaveWrite(op) ==
    /\ op.kind = "save" /\ op.pc = "compare"
    /\ Unchecked(op) \/ op.mt = op.base
    /\ disk' = [disk EXCEPT ![op.file] = op.text]
    /\ mtime' = [mtime EXCEPT ![op.file] = @ + 1]
    /\ notify' = notify \cup {op.file}
    /\ Continue(op, [op EXCEPT !.pc = "stat", !.read = mtime'[op.file]])
    /\ IF findTab(op) /\ resolveTabContent(op.file) = op.raw
       THEN typed' = [typed EXCEPT ![op.file] = FALSE] /\ overlap' = overlap \ {op.file}
       ELSE UNCHANGED <<typed, overlap>>
    /\ seen' = IF findTab(op) THEN [seen EXCEPT ![op.file] = mtime'[op.file]] ELSE seen
    /\ UNCHANGED <<settings, tab, live, bound, suppressed, choice, asking, compare, timer, fresh, ahead>>

\* Mutant: a failed save takes the mark off.
SaveFails_marksClean(op) ==
    /\ op.kind = "save" /\ op.pc = "compare"
    /\ Unchecked(op) \/ op.mt = op.base
    /\ End(op) /\ AfterFailedSave(op)
    /\ tab' = IF findTab(op) THEN [tab EXCEPT ![op.file].dirty = FALSE] ELSE tab
    /\ UNCHANGED <<settings, disk, mtime, live, bound, notify, suppressed, choice,
                   compare, timer, fresh, typed, overlap, seen, ahead>>

(* write_file fails: the tab stays as it is. *)
SaveFails(op) ==
    /\ op.kind = "save" /\ op.pc = "compare"
    /\ Unchecked(op) \/ op.mt = op.base
    /\ End(op) /\ AfterFailedSave(op)
    /\ UNCHANGED <<settings, disk, mtime, tab, live, bound, notify, suppressed, choice,
                   compare, timer, fresh, typed, overlap, seen, ahead>>

(* file_mtime after the write; its failure leaves the tab without an mtime. *)
SaveStat(op) ==
    /\ op.kind = "save" /\ op.pc = "stat"
    /\ \E mt \in FileMtime(op.file) : Continue(op, [op EXCEPT !.pc = "saved", !.mt = mt])
    /\ UNCHANGED <<settings, disk, mtime, tab, live, bound, notify, suppressed, choice, asking,
                   compare, timer, fresh, typed, overlap, seen, ahead>>

(* setTabContent, markClean, setDiskMtime; a text that was tidied replaces *)
(* the live document; a plain tab keeps its document only in CodeMirror.   *)
Saved(op) ==
    LET f == op.file
        rebuilt == op.text # op.raw
        content == IF ~rebuilt /\ f \in settings.plain /\ live[f] # None THEN None ELSE op.text
    IN /\ tab' = [tab EXCEPT ![f] = [@ EXCEPT !.content = content, !.dirty = FALSE,
                                              !.known = op.mt]]
       /\ live' = IF rebuilt THEN disposeEditorSession(f) ELSE live

SaveDone(op) ==
    /\ op.kind = "save" /\ op.pc = "saved"
    /\ End(op)
    /\ CASE ~findTab(op) -> UNCHANGED <<tab, live, bound, typed, overlap, seen, ahead>>
         [] findTab(op) /\ op.after = "stay" ->
               /\ Saved(op)
               /\ ahead' = Unread(op.file, op.read, op.mt)
               /\ UNCHANGED <<bound, typed, overlap, seen>>
         [] OTHER -> CloseTab(op.file)
    /\ UNCHANGED <<settings, disk, mtime, notify, suppressed, choice, asking, compare, timer, fresh>>

----------------------------------------------------------------------------
(* Closing: confirmDiscardTabs and closeTab                                *)

closeTab(f) ==
    /\ NoDialog
    /\ tab[f].open /\ ~tab[f].dirty
    /\ CloseTab(f)
    /\ UNCHANGED <<settings, disk, mtime, ops, notify, suppressed, choice, asking, compare, timer,
                   fresh>>

(* A dirty tab is saved first when auto-save is on, and the user is asked otherwise. *)
confirmDiscardTabs(f) ==
    /\ NoDialog
    /\ tab[f].open /\ tab[f].dirty
    /\ IF settings.autoSave
       THEN CanSave(f) /\ BeginSave(f, tab, "ask") /\ timer' = {} /\ UNCHANGED asking
       ELSE asking' = f /\ UNCHANGED <<ops, timer>>
    /\ UNCHANGED <<settings, disk, mtime, tab, live, bound, notify, suppressed, choice, compare,
                   fresh, typed, overlap, seen, ahead>>

(* The three buttons of the dialog. *)
DiscardAndClose(f) ==
    /\ asking = f
    /\ asking' = NoFile
    /\ CloseTab(f)
    /\ UNCHANGED <<settings, disk, mtime, ops, notify, suppressed, choice, compare, timer, fresh>>

CancelClose(f) ==
    /\ asking = f
    /\ asking' = NoFile
    /\ UNCHANGED <<settings, disk, mtime, tab, live, bound, ops, notify, suppressed, choice, compare,
                   timer, fresh, typed, overlap, seen, ahead>>

SaveAndClose(f) ==
    /\ asking = f /\ CanSave(f)
    /\ asking' = NoFile
    /\ BeginSave(f, tab, "close")
    /\ UNCHANGED <<settings, disk, mtime, tab, live, bound, notify, suppressed, choice, compare,
                   timer, fresh, typed, overlap, seen, ahead>>

----------------------------------------------------------------------------
(* Other programs and the watcher                                          *)

ExternalWrite(f) ==
    /\ Fresh
    /\ mtime[f] + Cardinality(InFlight("save", f)) < MaxWrites
    /\ disk' = [disk EXCEPT ![f] = Tidy(fresh')]
    /\ mtime' = [mtime EXCEPT ![f] = @ + 1]
    /\ notify' = notify \cup {f}
    /\ UNCHANGED <<settings, tab, live, bound, ops, suppressed, choice, asking, compare, timer,
                   typed, overlap, seen, ahead>>

SuppressExpires(f) ==
    /\ f \in suppressed
    /\ suppressed' = suppressed \ {f}
    /\ UNCHANGED <<settings, disk, mtime, tab, live, bound, ops, notify, choice, asking, compare,
                   timer, fresh, typed, overlap, seen, ahead>>

----------------------------------------------------------------------------
(* syncOpenFileFromDisk                                                    *)

(* syncingPaths: one synchronisation of a path at a time; a second is "busy" *)
(* and forgotten, one in the suppress window or of a tab not ready as well. *)
syncOpenFileFromDisk(f) ==
    IF Editable(f) /\ InFlight("sync", f) = {} /\ f \notin suppressed
    THEN ops' = ops \cup {[Op("sync", f, "stat") EXCEPT !.base = tab[f].known]}
    ELSE ops' = ops

(* The watcher's debounced event and the debounced sync it starts: dropped in *)
(* the suppress window and for a file without a tab.                          *)
runPathContentSync(f) ==
    /\ f \in notify /\ Room
    /\ notify' = notify \ {f}
    /\ syncOpenFileFromDisk(f)
    /\ UNCHANGED <<settings, disk, mtime, tab, live, bound, suppressed, choice, asking, compare,
                   timer, fresh, typed, overlap, seen, ahead>>

(* Window focus and tab activation: only a file whose mtime moved. *)
syncOpenFilesOnFocus(f) ==
    /\ Room
    /\ Editable(f) /\ tab[f].known # mtime[f]
    /\ InFlight("sync", f) = {} /\ f \notin suppressed
    /\ syncOpenFileFromDisk(f)
    /\ UNCHANGED <<settings, disk, mtime, tab, live, bound, notify, suppressed, choice, asking,
                   compare, timer, fresh, typed, overlap, seen, ahead>>

(* file_mtime; decideExternalChangeBeforeRead spares a large file that has not changed. *)
SyncStat(op) ==
    /\ op.kind = "sync" /\ op.pc = "stat"
    /\ IF op.file \in settings.plain /\ op.base = mtime[op.file]
       THEN End(op)
       ELSE Continue(op, [op EXCEPT !.pc = "read", !.mt = mtime[op.file]])
    /\ UNCHANGED <<settings, disk, mtime, tab, live, bound, notify, suppressed, choice, asking,
                   compare, timer, fresh, typed, overlap, seen, ahead>>

SyncRead(op) ==
    /\ op.kind = "sync" /\ op.pc = "read"
    /\ Continue(op, [op EXCEPT !.pc = "decide", !.text = disk[op.file], !.read = mtime[op.file]])
    /\ UNCHANGED <<settings, disk, mtime, tab, live, bound, notify, suppressed, choice, asking,
                   compare, timer, fresh, typed, overlap, seen, ahead>>

(* A call fails: the sync ends and nothing changes. *)
SyncFails(op) ==
    /\ op.kind = "sync" /\ op.pc \in {"stat", "read"}
    /\ End(op)
    /\ UNCHANGED <<settings, disk, mtime, tab, live, bound, notify, suppressed, choice, asking,
                   compare, timer, fresh, typed, overlap, seen, ahead>>

(* decideExternalChangeAfterRead, on the tab as it is now. *)
SyncSkip(op) ==
    /\ op.kind = "sync" /\ op.pc = "decide"
    /\ ~findTab(op) \/ ~Editable(op.file)
    /\ End(op)
    /\ UNCHANGED <<settings, disk, mtime, tab, live, bound, notify, suppressed, choice, asking,
                   compare, timer, fresh, typed, overlap, seen, ahead>>

\* Mutant: the tab's dirty mark is not looked at again.
SyncReload_staleTab(op) ==
    LET f == op.file
    IN /\ op.kind = "sync" /\ op.pc = "decide"
       /\ findTab(op) /\ Editable(f)
       /\ End(op)
       /\ ReloadFromDisk(f, op.text, op.mt)
       /\ Saw(f, op.read, op.mt)
       /\ UNCHANGED <<settings, disk, mtime, bound, notify, suppressed, choice, asking, compare,
                      timer, fresh, typed, overlap>>

SyncReload(op) ==
    LET f == op.file
    IN /\ op.kind = "sync" /\ op.pc = "decide"
       /\ findTab(op) /\ Editable(f) /\ ~tab[f].dirty
       /\ End(op)
       /\ IF resolveTabContent(f) = op.text
          THEN tab' = [tab EXCEPT ![f].known = op.mt] /\ UNCHANGED live
          ELSE ReloadFromDisk(f, op.text, op.mt)
       /\ Saw(f, op.read, op.mt)
       /\ UNCHANGED <<settings, disk, mtime, bound, notify, suppressed, choice, asking, compare,
                      timer, fresh, typed, overlap>>

(* promptConflict: choiceStore.choose puts the request in the one slot of   *)
(* the dialog, whoever was there before.                                   *)
SyncPrompt(op) ==
    LET waiting == [op EXCEPT !.pc = "prompt"]
    IN /\ op.kind = "sync" /\ op.pc = "decide"
       /\ findTab(op) /\ Editable(op.file) /\ tab[op.file].dirty
       /\ Continue(op, waiting)
       /\ choice' = waiting
       /\ seen' = [seen EXCEPT ![op.file] = IF op.read > @ THEN op.read ELSE @]
       /\ UNCHANGED <<settings, disk, mtime, tab, live, bound, notify, suppressed, asking, compare,
                      timer, fresh, typed, overlap, ahead>>

(* The answers to the dialog. *)
ChooseReload(op) ==
    /\ choice = op /\ op.kind = "sync"
    /\ choice' = NoOp /\ End(op)
    /\ IF findTab(op)
       THEN /\ ReloadFromDisk(op.file, op.text, op.mt)
            /\ typed' = [typed EXCEPT ![op.file] = FALSE]
       ELSE UNCHANGED <<tab, live, typed>>
    /\ UNCHANGED <<settings, disk, mtime, bound, notify, suppressed, asking, compare, timer, fresh,
                   overlap, seen, ahead>>

ChooseKeep(op) ==
    /\ choice = op /\ op.kind = "sync"
    /\ choice' = NoOp /\ End(op)
    /\ tab' = IF findTab(op) THEN [tab EXCEPT ![op.file].known = op.mt] ELSE tab
    /\ UNCHANGED <<settings, disk, mtime, live, bound, notify, suppressed, asking, compare, timer,
                   fresh, typed, overlap, seen, ahead>>

(* "Compare" opens the panel with both texts and ends the sync. *)
ChooseCompare(op) ==
    /\ choice = op /\ op.kind = "sync" /\ op.file \notin settings.plain
    /\ choice' = NoOp /\ End(op)
    /\ compare' = op
    /\ tab' = IF live[op.file] = None \/ ~findTab(op) THEN tab
              ELSE [tab EXCEPT ![op.file].content = live[op.file]]
    /\ UNCHANGED <<settings, disk, mtime, live, bound, notify, suppressed, asking, timer, fresh,
                   typed, overlap, seen, ahead>>

ChooseNothing(op) ==
    /\ choice = op
    /\ choice' = NoOp /\ End(op)
    /\ UNCHANGED <<settings, disk, mtime, tab, live, bound, notify, suppressed, asking, compare,
                   timer, fresh, typed, overlap, seen, ahead>>

(* The panel's buttons: keep the local text, reload, or just close. *)
CompareAnswer ==
    /\ compare # NoOp /\ choice = NoOp
    /\ compare' = NoOp
    /\ \/ UNCHANGED <<tab, live, typed>>
       \/ findTab(compare) /\ tab' = [tab EXCEPT ![compare.file].known = compare.mt]
          /\ UNCHANGED <<live, typed>>
       \/ findTab(compare) /\ ReloadFromDisk(compare.file, compare.text, compare.mt)
          /\ typed' = [typed EXCEPT ![compare.file] = FALSE]
    /\ UNCHANGED <<settings, disk, mtime, bound, ops, notify, suppressed, choice, asking, timer,
                   fresh, overlap, seen, ahead>>

----------------------------------------------------------------------------
(* reopenWithEncoding: the question when the tab is dirty, then the text   *)
(* and the mtime asked for side by side.                                   *)

reopenWithEncoding(f) ==
    LET op == Op("reopen", f, IF tab[f].dirty THEN "prompt" ELSE "both")
    IN /\ NoDialog /\ Room
       /\ Editable(f) /\ InFlight("reopen", f) = {}
       /\ ops' = ops \cup {op}
       /\ choice' = IF tab[f].dirty THEN op ELSE choice
       /\ UNCHANGED <<settings, disk, mtime, tab, live, bound, notify, suppressed, asking, compare,
                      timer, fresh, typed, overlap, seen, ahead>>

ReopenConfirmed(op) ==
    /\ choice = op /\ op.kind = "reopen"
    /\ choice' = NoOp
    /\ Continue(op, [op EXCEPT !.pc = "both"])
    /\ typed' = [typed EXCEPT ![op.file] = FALSE]
    /\ UNCHANGED <<settings, disk, mtime, tab, live, bound, notify, suppressed, asking, compare,
                   timer, fresh, overlap, seen, ahead>>

ReopenAnswers(op) ==
    /\ op.kind = "reopen" /\ op.pc = "both"
    /\ \/ op.mt = None /\ \E mt \in FileMtime(op.file) : Continue(op, [op EXCEPT !.mt = mt])
       \/ op.text = None /\ Continue(op, [op EXCEPT !.text = disk[op.file], !.read = mtime[op.file]])
    /\ UNCHANGED <<settings, disk, mtime, tab, live, bound, notify, suppressed, choice, asking,
                   compare, timer, fresh, typed, overlap, seen, ahead>>

ReopenDone(op) ==
    /\ op.kind = "reopen" /\ op.pc = "both" /\ op.mt # None /\ op.text # None
    /\ End(op)
    /\ IF findTab(op)
       THEN ReloadFromDisk(op.file, op.text, op.mt) /\ Saw(op.file, op.read, op.mt)
       ELSE UNCHANGED <<tab, live, seen, ahead>>
    /\ UNCHANGED <<settings, disk, mtime, bound, notify, suppressed, choice, asking, compare,
                   timer, fresh, typed, overlap>>

----------------------------------------------------------------------------
editorInit ==
    /\ settings \in Settings
    /\ disk = [f \in Files |-> Tidy(0)]
    /\ mtime = [f \in Files |-> 1]
    /\ tab = [f \in Files |-> IF f \in settings.restored THEN Restored ELSE Closed]
    /\ typed = [f \in Files |-> f \in settings.restored]
    /\ fresh = IF settings.restored = {} THEN 0 ELSE 1
    /\ live = [f \in Files |-> None]
    /\ bound = NoFile
    /\ ops = {} /\ notify = {} /\ suppressed = {} /\ timer = {}
    /\ choice = NoOp /\ asking = NoFile /\ compare = NoOp
    /\ overlap = {} /\ ahead = {}
    /\ seen = [f \in Files |-> None]

FileAction(f) ==
    \/ openFile(f) \/ retryOpenFile(f) \/ loadMissingTabContents(f)
    \/ bindTabToView(f) \/ RebuildView(f) \/ Type(f)
    \/ saveFile(f) \/ saveTabIfDirty(f)
    \/ closeTab(f) \/ confirmDiscardTabs(f)
    \/ DiscardAndClose(f) \/ CancelClose(f) \/ SaveAndClose(f)
    \/ ExternalWrite(f) \/ SuppressExpires(f)
    \/ runPathContentSync(f) \/ syncOpenFilesOnFocus(f)
    \/ reopenWithEncoding(f)

OpAction(op) ==
    \/ LoadStat(op) \/ LoadRead(op) \/ populateTabFromDisk(op) \/ LoadFails(op)
    \/ HydrateStat(op) \/ HydrateDone(op)
    \/ SaveRefused(op) \/ SaveCheck(op) \/ SaveConflict(op) \/ SaveWrite(op)
    \/ SaveFails(op) \/ SaveStat(op) \/ SaveDone(op)
    \/ SyncStat(op) \/ SyncRead(op) \/ SyncFails(op) \/ SyncSkip(op) \/ SyncReload(op)
    \/ SyncPrompt(op) \/ ChooseReload(op) \/ ChooseKeep(op) \/ ChooseCompare(op)
    \/ ChooseNothing(op)
    \/ ReopenConfirmed(op) \/ ReopenAnswers(op) \/ ReopenDone(op)

editorNext ==
    \/ \E f \in Files : FileAction(f)
    \/ \E op \in ops : OpAction(op)
    \/ LeaveEditor
    \/ CompareAnswer

EditorSpec == editorInit /\ [][editorNext]_editorVars

----------------------------------------------------------------------------
(* Properties                                                              *)

(* Type invariant of the buffers, the tabs and the handlers in flight. *)
editorTypeOK ==
    /\ settings \in Settings
    /\ disk \in [Files -> Texts] /\ mtime \in [Files -> 1 .. MaxWrites]
    /\ tab \in [Files -> [open : BOOLEAN, gen : 0 .. MaxOpens, content : Texts \cup {None},
                          dirty : BOOLEAN, loading : BOOLEAN, error : BOOLEAN,
                          known : Null .. MaxWrites]]
    /\ live \in [Files -> Texts \cup {None}]
    /\ bound \in Files \cup {NoFile} /\ asking \in Files \cup {NoFile}
    /\ \A op \in ops : op.file \in Files /\ op.kind \in {"load", "hydrate", "save", "sync", "reopen"}
    /\ choice # NoOp => choice \in ops

(* A tab that shows its file always has the text somewhere: whichever of    *)
(* the store's copy and the CodeMirror document the handlers dropped (plain *)
(* tabs drop one or the other at every switch and save), one is left.       *)
BufferExists == \A f \in Files : Editable(f) => resolveTabContent(f) # None

(* Typing that is not on disk keeps its tab dirty, and so keeps the close    *)
(* question and the auto-save in force; the one exception is typing while a  *)
(* save or a reopen of the same tab is under way, whose end clears the flag. *)
UnsavedIsDirty ==
    \A f \in Files : typed[f] /\ Editable(f) => tab[f].dirty \/ f \in overlap

(* The text of a buffer with unsaved typing changes only by more typing, by  *)
(* the save of that text or by the user's answer to a question.              *)
Replaced(f) ==
    typed[f] /\ resolveTabContent(f)' # resolveTabContent(f) /\ fresh' = fresh /\ typed'[f]

EditsKept == [][\A f \in Files : Replaced(f) => f \in overlap]_editorVars

(* A save that ends well leaves its tab marked when the user has typed since *)
(* the text it wrote was taken, as the help promises of every unsaved tab.   *)
MidFlightEditsMarked ==
    [][\A op \in ops \ ops' :
        op.kind = "save" /\ op.pc = "saved" /\ op.after = "stay" /\ findTab(op) /\ typed[op.file]
        => tab'[op.file].dirty]_editorVars

(* A save that compares the mtime overwrites only text its tab has read, or  *)
(* that the user was asked about, or that was written after the comparison.  *)
(* What it compares with may have run ahead of the text: recorded after a    *)
(* save, beside a read or for a restored draft, of a write nobody had read.  *)
(* And a tab without an mtime, because a caught failure left null or nobody  *)
(* has asked yet, saves unchecked.                                           *)
OverwriteIsInformed ==
    [][\A op \in ops :
        op.kind = "save" /\ op.pc = "compare" /\ mtime'[op.file] # mtime[op.file] /\ op \notin ops'
            /\ findTab(op) /\ ~Unchecked(op) /\ <<op.file, op.base>> \notin ahead
        => seen[op.file] >= op.read]_editorVars

(* A handler waiting at the choice dialog is the one the dialog will answer. *)
PromptReachable == \A op \in ops : op.pc = "prompt" => choice = op

=============================================================================
