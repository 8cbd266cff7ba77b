-------------------------- MODULE WorkspaceSessions --------------------------
(***************************************************************************)
(* Projects and their editor sessions: switching, hiding and removing a    *)
(* project (projectStore, projectActions), the named workspaces, the close *)
(* questions of the tab bar, and what survives the process: the session    *)
(* snapshot (workspaceSessionSync) and the drafts of unsaved text          *)
(* (draftRecovery, useDraftRecovery). The store itself is EditorSessions.  *)
(*                                                                         *)
(* One thread runs it all, but a switch, a removal, a comparison, a save   *)
(* under another name and a named workspace wait for the backend half way, *)
(* and a question waits for the user; the rest of the program goes on.     *)
(***************************************************************************)
EXTENDS EditorSessions

CONSTANTS
    Home,           \* the project whose root holds a path, or NoProject
    Scopes,         \* which families of actions a behaviour has, and a bound on
                    \* what the user does in it
    MaxIds,         \* bound on the tabs opened
    MaxEdits,       \* bound on the texts typed
    Long,           \* those of them that are too long for a draft (MAX_DRAFT_CHARS)
    MaxStarts       \* bound on the starts of the program

NoProject == "no project"
Families == {"close", "order", "diff", "saveAs", "manage", "scratch", "named", "restart", "boot",
             "left"}

ASSUME WorkspaceAssumption ==
    /\ NoProject \notin AllProjects
    /\ Home \in [Paths -> AllProjects \cup {NoProject}]
    /\ Scopes \subseteq [allows : SUBSET Families, moves : Nat, texts : Nat]
    /\ {MaxEdits, MaxStarts} \subseteq Nat /\ MaxIds \in Nat \ {0} /\ Long \subseteq 1 .. MaxEdits

VARIABLES
    scope,          \* what this behaviour has of them
    editor,         \* editorStore
    db,             \* rows of the projects table
    projects,       \* projectStore.projects
    hidden,         \* projects not in the title bar
    unavailable,    \* projects whose directory was not found
    current,        \* currentProject
    switching,      \* the switch under way (projectSwitchPending)
    op,             \* another handler waiting for the backend
    dialog,         \* the question the user is asked
    phase,          \* down, boot (sessions restored), restoring, ready
    validating,     \* the directories are being checked after the load
    snapshot,       \* the saved session, in localStorage
    drafts,         \* the saved unsaved text of each path, in localStorage
    named,          \* the saved named workspace, in localStorage
    persistDue,     \* the snapshot's timer is set
    draftDue,       \* the drafts' timer is set
    lastId, lastEdit, moves, starts,   \* counters
    touched,        \* the user has acted since the start
    failed,         \* a load of the project list has failed
    given,          \* edits saved, superseded, or that the user agreed to lose
    owner,          \* the projects each tab was opened in, or saved into as another file
    exposed,        \* tabs whose draft was taken away and not yet written again
    blind           \* a step has moved or dropped tabs on stale knowledge: of the
                    \* project it leaves, of the tabs it closes or of the projects listed

durable == <<db, snapshot, drafts, named>>
memory == <<editor, projects, hidden, unavailable, current, switching, op, dialog, validating,
            persistDue, draftDue>>
book == <<touched, failed, given, owner, exposed, blind>>
counters == <<lastId, lastEdit, moves, starts>>
workspaceVars == <<scope, durable, memory, phase, book, counters>>

NoSwitch == [to |-> NoProject, from |-> NoProject]
NoOp == [kind |-> "none"]
NoDialog == [kind |-> "none"]
NoWorkspace == [members |-> {}, active |-> NoProject, sessions |-> NoSessions]

----------------------------------------------------------------------------
(* Edits, projects and what is saved                                       *)

EditsOf(ts) == {t.edits : t \in ts} \ {Clean}
Dirty(ts) == {t \in ts : t.edits # Clean}

(* pickRestoreCandidate, pickAvailableProject: durable projects first. *)
Candidates(from) ==
    LET open == from \ hidden IN IF open \cap Projects # {} THEN open \cap Projects ELSE open

(* collectEditorSessionsForPersist: the visible tabs stand for the current   *)
(* project, whatever its stash says; a compare tab is saved as a plain one.  *)
Saved(ts) == [i \in DOMAIN ts |-> [id |-> ts[i].id, path |-> ts[i].path,
                                   dirty |-> ts[i].edits # Clean]]
SavedSession(session) == [tabs |-> Saved(projectTabs(session.tabs)), active |-> session.active]

Sessions(e, p) ==
    IF p = current THEN Stashed(e)
    ELSE IF p \in DOMAIN e.sessions THEN e.sessions[p]
    ELSE [tabs |-> <<>>, active |-> NoTab]

\* Mutant: the stashes only, without the visible tabs.
captureWorkspaceSessionSnapshot_stash(e, among) ==
    [projects |-> [p \in among \cap projects \cap Projects \cap DOMAIN e.sessions |->
                      SavedSession(e.sessions[p])],
     pinned |-> Saved(pinned(e.tabs))]

(* captureWorkspaceSessionSnapshot: the projects that have tabs.             *)
captureWorkspaceSessionSnapshot(e, among) ==
    LET full == {p \in among \cap projects \cap Projects : Sessions(e, p).tabs # <<>>}
    IN [projects |-> [p \in full |-> SavedSession(Sessions(e, p))],
        pinned |-> Saved(pinned(e.tabs))]

NoSnapshot == [projects |-> NoSessions, pinned |-> <<>>]

(* tabFromPersisted: a tab saved dirty takes the draft of its path. Of tabs   *)
(* with one path the first read takes it: "taker" says which.                *)
tabFromPersisted(t, taker) ==
    Tab(t.id, t.path, FALSE, IF t.dirty /\ taker[t.path] = t.id THEN drafts[t.path] ELSE Clean)

Restored(ts, taker) == [i \in DOMAIN ts |-> tabFromPersisted(ts[i], taker)]

(* projectSessionFromPersisted *)
projectSessionFromPersisted(session, taker) ==
    LET ts == Restored(session.tabs, taker)
    IN [tabs |-> ts, active |-> IF Has(ts, session.active) THEN session.active ELSE FirstId(ts)]

SavedDirty(sessions) ==
    {t \in UNION {ToSet(sessions[p].tabs) : p \in DOMAIN sessions} : t.dirty}

(* Which tab gets the draft of a path: one saved dirty, if there is any. *)
Takers(saved) ==
    {taker \in [Paths -> {t.id : t \in saved} \cup {NoTab}] :
        \A path \in Paths :
            LET wanting == {t.id : t \in {s \in saved : s.path = path}}
            IN IF wanting = {} THEN taker[path] = NoTab ELSE taker[path] \in wanting}

DraftsLeft(taker) == [path \in Paths |-> IF taker[path] # NoTab THEN Clean ELSE drafts[path]]

----------------------------------------------------------------------------
(* What a change of the store sets off                                     *)

(* installWorkspaceSessionPersistence and the effect of useDraftRecovery on  *)
(* the visible tabs: the drafts' timer only starts when one of them is dirty. *)
Publish(e) ==
    /\ editor' = e
    /\ persistDue' = TRUE
    /\ draftDue' = (draftDue \/ (e.tabs # editor.tabs /\ Dirty(ToSet(e.tabs)) # {}))

(* A handler that maps over the visible tabs makes a new list of them.        *)
PublishNew(e) ==
    /\ editor' = e
    /\ persistDue' = TRUE
    /\ draftDue' = (draftDue \/ Dirty(ToSet(e.tabs)) # {})

Quiet == phase = "ready" /\ dialog = NoDialog
UserActs == Quiet /\ moves < scope.moves /\ moves' = moves + 1 /\ touched' = TRUE
Allows(family) == family \in scope.allows

Untouched == <<scope, durable, phase, validating, starts, failed>>

----------------------------------------------------------------------------
(* Files                                                                   *)

Regular(e, path) == {i \in DOMAIN e.tabs : e.tabs[i].path = path /\ ~e.tabs[i].diff}

(* openFile on the store: the tab that is there, or one more if there is room. *)
openFile(e, path) ==
    IF Regular(e, path) # {}
    THEN ShowTab(e, e.tabs[CHOOSE i \in Regular(e, path) :
                               \A j \in Regular(e, path) : i <= j].id)
    ELSE LET roomy == ensureOpenTabCapacity(e)
         IN IF HasRoom(roomy) THEN AppendTab(roomy, Tab(lastId + 1, path, FALSE, Clean))
            ELSE roomy

(* A tab opened now belongs to the current project. *)
Numbered(e) ==
    /\ lastId' = IF Has(e.tabs, lastId + 1) THEN lastId + 1 ELSE lastId
    /\ owner' = IF Has(e.tabs, lastId + 1) THEN [owner EXCEPT ![lastId + 1] = @ \cup {current}]
                ELSE owner

OpenFile(path) ==
    /\ UserActs /\ lastId + (IF op.kind = "diff" THEN 1 ELSE 0) < MaxIds
    /\ path \in Pinned \/ current # NoProject \/ Allows("boot")
    /\ Publish(openFile(editor, path)) /\ Numbered(openFile(editor, path))
    /\ UNCHANGED <<Untouched, projects, hidden, unavailable, current, switching, op, dialog,
                   lastEdit, given, exposed, blind>>

(* setActiveTab *)
Activate(id) ==
    /\ UserActs
    /\ Has(editor.tabs, id) /\ id # editor.active
    /\ Publish(setActiveTab(editor, id))
    /\ UNCHANGED <<Untouched, projects, hidden, unavailable, current, switching, op, dialog,
                   lastId, lastEdit, given, owner, exposed, blind>>

Reorder ==
    /\ Allows("order") /\ UserActs
    /\ \/ Publish(cycleTabMru(editor))
       \/ \E from, to \in DOMAIN editor.tabs : from # to /\ Publish(reorderTabs(editor, from, to))
    /\ UNCHANGED <<Untouched, projects, hidden, unavailable, current, switching, op, dialog,
                   lastId, lastEdit, given, owner, exposed, blind>>

(* markDirty, as the update listener calls it for the tab in the view. *)
Type ==
    /\ UserActs /\ lastEdit < MaxEdits /\ lastEdit < scope.texts
    /\ \E i \in DOMAIN editor.tabs :
         /\ editor.tabs[i].id = editor.active /\ ~editor.tabs[i].diff
         /\ given' = given \cup {editor.tabs[i].edits}
    /\ PublishNew(SetText(editor, editor.active, lastEdit + 1))
    /\ lastEdit' = lastEdit + 1
    /\ exposed' = exposed \ {editor.active}
    /\ UNCHANGED <<Untouched, projects, hidden, unavailable, current, switching, op, dialog,
                   lastId, owner, blind>>

(* The tabs of e left without a draft when those of these paths are taken.   *)
Losing(e, paths) == {t.id : t \in {u \in Dirty(AllTabs(e)) : u.path \in paths}}

(* markClean clears the draft of the path, whichever tab it was written for. *)
Save ==
    LET id == editor.active
        e == SetText(editor, id, Clean)
    IN /\ UserActs
       /\ \E t \in findTab(editor, id) :
            /\ t.edits # Clean
            /\ given' = given \cup {t.edits}
            /\ drafts' = [drafts EXCEPT ![t.path] = Clean]
            /\ exposed' = exposed \cup Losing(e, {t.path})
       /\ Publish(e)
       /\ UNCHANGED <<scope, db, snapshot, named, phase, validating, starts, failed, projects,
                      hidden, unavailable, current, switching, op, dialog, lastId, lastEdit,
                      owner, blind>>

----------------------------------------------------------------------------
(* Comparisons and saving under another name                               *)

(* openDiff up to its reads ... *)
BeginDiff(path) ==
    LET there == {i \in DOMAIN editor.tabs : editor.tabs[i].path = path /\ editor.tabs[i].diff}
        roomy == ensureOpenTabCapacity(editor)
    IN /\ Allows("diff") /\ UserActs /\ current # NoProject
       /\ IF there # {}
          THEN Publish(ShowTab(editor, editor.tabs[CHOOSE i \in there : TRUE].id)) /\ op' = op
          ELSE /\ op = NoOp /\ lastId < MaxIds
               /\ Publish(roomy)
               /\ op' = IF HasRoom(roomy) THEN [kind |-> "diff", path |-> path] ELSE op
       /\ UNCHANGED <<Untouched, projects, hidden, unavailable, current, switching, dialog,
                      lastId, lastEdit, given, owner, exposed, blind>>

(* ... and the tab it then adds to whatever is visible. *)
openDiff ==
    LET e == AppendTab(editor, Tab(lastId + 1, op.path, TRUE, Clean))
    IN /\ op.kind = "diff"
       /\ op' = NoOp
       /\ \/ Publish(e) /\ Numbered(e)
          \/ UNCHANGED <<editor, persistDue, draftDue, lastId, owner>>    \* the read failed
       /\ UNCHANGED <<Untouched, projects, hidden, unavailable, current, switching, dialog,
                      lastEdit, moves, touched, given, exposed, blind>>

BeginSaveAs(path) ==
    /\ Allows("saveAs") /\ UserActs
    /\ op = NoOp
    /\ \E t \in findTab(editor, editor.active) :
         ~t.diff /\ t.path # path /\ op' = [kind |-> "saveAs", id |-> t.id, path |-> path,
                                            edits |-> t.edits]
    /\ UNCHANGED <<Untouched, editor, projects, hidden, unavailable, current, switching, dialog,
                   persistDue, draftDue, lastId, lastEdit, given, owner, exposed, blind>>

(* saveAs after the write: one tab with that path is closed, the tab moves to *)
(* the path and counts as clean. The draft of the old path stays.             *)
saveAs ==
    LET conflicts == {t \in AllTabs(editor) : t.id # op.id /\ t.path = op.path}
        first == IF \E t \in conflicts : Has(editor.tabs, t.id)
                 THEN {editor.tabs[Min({i \in DOMAIN editor.tabs : editor.tabs[i] \in conflicts})]}
                 ELSE conflicts
    IN /\ op.kind = "saveAs" /\ op' = NoOp
       /\ \/ /\ UNCHANGED <<editor, persistDue, draftDue, given, owner>>         \* refused or failed
          \/ /\ owner' = IF Has(pinned(editor.tabs), op.id)
                         THEN [owner EXCEPT ![op.id] = @ \cup {current}] ELSE owner
             /\ \E gone \in IF first = {} THEN {NoTab} ELSE {t.id : t \in first} :
                  Publish(SavedUnder(closeTab(editor, gone), op.id, op.path))
             /\ given' = given \cup EditsOf(first) \cup EditsOf(findTab(editor, op.id))
       /\ UNCHANGED <<Untouched, projects, hidden, unavailable, current, switching, dialog,
                      lastId, lastEdit, moves, touched, exposed, blind>>

----------------------------------------------------------------------------
(* Closing tabs, with a question when one of them is dirty                 *)

(* What each command of the tab bar closes, and what it asks about.          *)
ToClose(kind, id) ==
    LET at == SelectInSeq(editor.tabs, LAMBDA t : t.id = id)
    IN CASE kind = "one" -> {t \in ToSet(editor.tabs) : t.id = id}
         [] kind = "others" -> {t \in ToSet(editor.tabs) : t.id # id}
         [] kind = "right" -> ToSet(SubSeq(editor.tabs, at + 1, Len(editor.tabs)))
         [] kind = "all" -> ToSet(editor.tabs)

Close(e, kind, id) ==
    CASE kind = "one" -> closeTab(e, id)
      [] kind = "others" -> closeOtherTabs(e, id)
      [] kind = "right" -> closeTabsToRight(e, id)
      [] kind = "all" -> closeAllTabs(e)

(* closeWithConfirm: the question waits; without a dirty tab there is none.  *)
closeWithConfirm(kind, id) ==
    LET dirty == Dirty(ToClose(kind, id))
    IN /\ UserActs
       /\ Has(editor.tabs, id) /\ (kind # "one" => Allows("close"))
       /\ IF dirty = {}
          THEN Publish(Close(editor, kind, id)) /\ dialog' = dialog
          ELSE /\ dialog' = [kind |-> kind, id |-> id, tabs |-> ids(editor.tabs),
                             asked |-> {t.id : t \in dirty}]
               /\ UNCHANGED <<editor, persistDue, draftDue>>
       /\ UNCHANGED <<Untouched, projects, hidden, unavailable, current, switching, op, lastId,
                      lastEdit, given, owner, exposed, blind>>

Asking == dialog # NoDialog /\ dialog.kind \in {"one", "others", "right", "all"}
Asked == {t \in AllTabs(editor) : t.id \in dialog.asked}

(* The answer closes what the command names now, in the tabs visible now; of  *)
(* some of these the user may not have been asked.                           *)
CloseAnswered(e) ==
    /\ Publish(Close(e, dialog.kind, dialog.id))
    /\ given' = given \cup EditsOf(Asked)
    /\ blind' = (blind \/ (dialog.kind # "one" /\ dialog.tabs # ids(editor.tabs))
                       \/ Dirty(ToClose(dialog.kind, dialog.id)) \ Asked # {})

(* confirmDiscardTabs: give the text up, ... *)
DiscardAndClose ==
    /\ Asking
    /\ dialog' = NoDialog
    /\ CloseAnswered(editor)
    /\ UNCHANGED <<Untouched, projects, hidden, unavailable, current, switching, op, lastId,
                   lastEdit, moves, touched, owner, exposed>>

(* ... or save each of the tabs first. *)
SaveAndClose ==
    LET saved == CleanTabs(editor, Asked)
        paths == {t.path : t \in Asked}
    IN /\ Asking
       /\ dialog' = NoDialog
       /\ CloseAnswered(saved)
       /\ drafts' = [path \in Paths |-> IF path \in paths THEN Clean ELSE drafts[path]]
       /\ exposed' = exposed \cup Losing(saved, paths)
       /\ UNCHANGED <<scope, db, snapshot, named, phase, validating, starts, failed, projects,
                      hidden, unavailable, current, switching, op, lastId, lastEdit, moves,
                      touched, owner>>

CancelClose ==
    /\ Asking
    /\ dialog' = NoDialog
    /\ UNCHANGED <<Untouched, editor, projects, hidden, unavailable, current, switching, op,
                   persistDue, draftDue, counters, touched, given, owner, exposed, blind>>

(* Deleting a file, as the user confirmed: all its tabs go.                  *)
closeTabsForPath(path) ==
    LET gone == {t \in AllTabs(editor) : t.path = path}
    IN /\ Allows("close") /\ UserActs
       /\ gone # {}
       /\ Publish(CloseEverywhere(editor, gone))
       /\ given' = given \cup EditsOf(gone)
       /\ UNCHANGED <<Untouched, projects, hidden, unavailable, current, switching, op, dialog,
                      lastId, lastEdit, owner, exposed, blind>>

(* Discarding a change of a tracked file closes its comparisons.             *)
closeDiffTabsForPath(path) ==
    LET gone == {t \in AllTabs(editor) : t.path = path /\ t.diff}
    IN /\ Allows("diff") /\ UserActs
       /\ gone # {}
       /\ Publish(CloseEverywhere(editor, gone))
       /\ UNCHANGED <<Untouched, projects, hidden, unavailable, current, switching, op, dialog,
                      lastId, lastEdit, given, owner, exposed, blind>>

(* renamePath everywhere. The backend refuses a target that exists. The draft *)
(* of the old path is rewritten when the drafts' timer next fires.            *)
renamePath(from, to) ==
    /\ Allows("order") /\ UserActs
    /\ {from, to} \cap Pinned = {} /\ from # to
    /\ \E t \in AllTabs(editor) : t.path = from
    /\ \A t \in AllTabs(editor) : t.path # to
    /\ Publish(RenameTabs(editor, from, to))
    /\ exposed' = exposed \cup Losing(editor, {from})
    /\ UNCHANGED <<Untouched, projects, hidden, unavailable, current, switching, op, dialog,
                   lastId, lastEdit, given, owner, blind>>

----------------------------------------------------------------------------
(* Switching                                                               *)

(* switchProject up to its awaits: one switch at a time, and the project it   *)
(* leaves is noted now.                                                      *)
Starting(p) == [to |-> p, from |-> current]
BeginSwitch(p) ==
    switching' = IF switching = NoSwitch /\ p # NoProject THEN Starting(p) ELSE switching

switchProject(p) ==
    /\ UserActs
    /\ p \in projects \ hidden /\ p # current
    /\ switching = NoSwitch /\ BeginSwitch(p)
    /\ UNCHANGED <<Untouched, editor, projects, hidden, unavailable, current, op, dialog,
                   persistDue, draftDue, lastId, lastEdit, given, owner, exposed, blind>>

(* Knowing no more than "known" drops the sessions of other projects.        *)
Forgets(e, known) == DOMAIN e.sessions \ known # {}

\* Mutant: sessions of hidden projects go too.
Settle_shown(e, astray) ==
    IF phase = "restoring"
    THEN /\ phase' = "ready" /\ validating' = TRUE
         /\ Publish(pruneWorkspaceSessions(e, projects \ hidden))
         /\ blind' = (blind \/ astray \/ Forgets(e, projects \ hidden))
    ELSE UNCHANGED <<phase, validating>> /\ Publish(e) /\ blind' = (blind \/ astray)

(* loadProjects ends with its switch, when it has started one: the snapshot   *)
(* may be written, sessions of unknown projects go (pruneWorkspaceSessions).  *)
Settle(e, astray) ==
    IF phase = "restoring"
    THEN /\ phase' = "ready" /\ validating' = TRUE
         /\ Publish(pruneWorkspaceSessions(e, projects))
         /\ blind' = (blind \/ astray \/ Forgets(e, projects))
    ELSE UNCHANGED <<phase, validating>> /\ Publish(e) /\ blind' = (blind \/ astray)

(* The activation of p moves tabs it knows nothing of.                       *)
Astray(from) == from # current \/ (from = NoProject /\ projectTabs(editor.tabs) # <<>>)

SwitchDone ==
    LET p == switching.to
    IN /\ switching # NoSwitch
       /\ switching' = NoSwitch
       /\ IF switching.from = p THEN Settle(editor, FALSE) /\ UNCHANGED <<current, unavailable>>
          ELSE /\ current' = p
               /\ Settle(activateProjectSession(editor, switching.from, p), Astray(switching.from))
               /\ unavailable' = unavailable \ {p}
       /\ UNCHANGED <<scope, durable, starts, failed, projects, hidden, op, dialog, lastId,
                      lastEdit, moves, touched, given, owner, exposed>>

SwitchFails ==
    /\ switching # NoSwitch
    /\ switching' = NoSwitch
    /\ Settle(editor, FALSE)
    /\ unavailable' \in {unavailable, unavailable \cup {switching.to}}
    /\ UNCHANGED <<scope, durable, starts, failed, projects, hidden, current, op, dialog, lastId,
                   lastEdit, moves, touched, given, owner, exposed>>

(* addEmptyProject does not wait for a switch under way.                     *)
addEmptyProject ==
    /\ Allows("scratch") /\ UserActs
    /\ Scratch \notin projects
    /\ projects' = projects \cup {Scratch}
    /\ unavailable' = unavailable \ {Scratch}
    /\ Publish(activateProjectSession(editor, current, Scratch))
    /\ current' = Scratch /\ blind' = (blind \/ Astray(current))
    /\ UNCHANGED <<Untouched, hidden, switching, op, dialog, lastId, lastEdit, given, owner, exposed>>

(* clearCurrentProjectSession *)
clearCurrentProjectSession ==
    /\ current' = NoProject
    /\ Publish(IF current = NoProject THEN editor ELSE deactivateProjectSession(editor, current))

(* With a project that cannot stay current: another one that is available    *)
(* is switched to, or none is current.                                       *)
Leave(open) ==
    IF Candidates(open) # {}
    THEN /\ \E p \in Candidates(open) : BeginSwitch(p)
         /\ UNCHANGED <<current, editor, persistDue, draftDue>>
    ELSE clearCurrentProjectSession /\ switching' = switching

----------------------------------------------------------------------------
(* Hiding, showing and removing                                            *)

(* hideProject, hideProjectsByIds.                                           *)
hideProjects(ps) ==
    /\ Allows("manage") /\ UserActs
    /\ ps # {} /\ ps \subseteq projects \ hidden
    /\ hidden' = hidden \cup ps
    /\ IF current \notin ps
       THEN UNCHANGED <<current, switching, editor, persistDue, draftDue>>
       ELSE Leave((projects \ unavailable) \ ps)
    /\ UNCHANGED <<Untouched, projects, unavailable, op, dialog, lastId, lastEdit, given, owner,
                   exposed, blind>>

unhideProject(p) ==
    /\ Allows("manage") /\ UserActs
    /\ p \in hidden /\ hidden' = hidden \ {p}
    /\ UNCHANGED <<Untouched, editor, projects, unavailable, current, switching, op, dialog,
                   persistDue, draftDue, lastId, lastEdit, given, owner, exposed, blind>>

(* removeProjectWithConfirm: the tabs under its root and its session go, then *)
(* removeProject takes the row away.                                         *)
removeProjectWithConfirm(p) ==
    LET under == {t \in AllTabs(editor) : Home[t.path] = p}
        stash == IF p \in DOMAIN editor.sessions THEN ToSet(editor.sessions[p].tabs) ELSE {}
    IN /\ Allows("manage") /\ UserActs
       /\ p \in projects /\ op = NoOp
       /\ Publish(discardProjectSession(CloseEverywhere(editor, under), p))
       /\ given' = given \cup EditsOf(under \cup stash)
       /\ op' = [kind |-> "remove", project |-> p, deleted |-> FALSE]
       /\ UNCHANGED <<Untouched, projects, hidden, unavailable, current, switching, dialog, lastId,
                      lastEdit, owner, exposed, blind>>

RemoveRow ==
    LET p == op.project
    IN /\ op.kind = "remove" /\ ~op.deleted
       /\ db' = db \ {p}
       /\ current' = IF current = p THEN NoProject ELSE current
       /\ blind' = (blind \/ (p = Scratch /\ Forgets(editor, projects \ {p})))
       /\ IF p = Scratch
          THEN op' = NoOp /\ projects' = projects \ {p}
               /\ Publish(pruneWorkspaceSessions(editor, projects \ {p}))
          ELSE op' = [op EXCEPT !.deleted = TRUE] /\ persistDue' = TRUE
               /\ UNCHANGED <<editor, projects, draftDue>>
       /\ UNCHANGED <<scope, snapshot, drafts, named, phase, validating, starts, failed, hidden,
                      unavailable, switching, dialog, lastId, lastEdit, moves, touched, given,
                      owner, exposed>>

(* removeProject reloads the list (loadProjects), which opens a project when  *)
(* none is current.                                                          *)
RemoveReload ==
    LET list == db \cup (projects \cap {Scratch})
    IN /\ op.kind = "remove" /\ op.deleted
       /\ op' = NoOp
       /\ projects' = list /\ unavailable' = {}
       /\ blind' = (blind \/ Forgets(editor, list))
       /\ Publish(pruneWorkspaceSessions(editor, list))
       /\ IF current = NoProject /\ Candidates(list) # {}
          THEN \E p \in Candidates(list) : BeginSwitch(p)
          ELSE switching' = switching
       /\ UNCHANGED <<scope, durable, phase, validating, starts, failed, hidden, current, dialog,
                      lastId, lastEdit, moves, touched, given, owner, exposed>>

----------------------------------------------------------------------------
(* Named workspaces                                                        *)

(* saveVisibleProjectsAsWorkspace: the sessions of the projects shown.       *)
saveProjectsAsWorkspace ==
    LET members == (projects \cap Projects) \ hidden
    IN /\ Allows("named") /\ UserActs
       /\ members # {}
       /\ named' = [members |-> members,
                    active |-> IF current \in members THEN current ELSE CHOOSE p \in members : TRUE,
                    sessions |-> captureWorkspaceSessionSnapshot(editor, members).projects]
       /\ snapshot' = captureWorkspaceSessionSnapshot(editor, projects)
       /\ persistDue' = FALSE
       /\ UNCHANGED <<scope, db, drafts, phase, validating, starts, failed, editor, projects,
                      hidden, unavailable, current, switching, op, dialog, draftDue, lastId,
                      lastEdit, given, owner, exposed, blind>>

(* activateNamedWorkspace up to its first await. *)
BeginNamed ==
    /\ Allows("named") /\ UserActs
    /\ op = NoOp /\ named.members \cap projects # {}
    /\ snapshot' = captureWorkspaceSessionSnapshot(editor, projects)
    /\ persistDue' = FALSE
    /\ op' = [kind |-> "named", shown |-> FALSE, members |-> named.members \cap projects]
    /\ UNCHANGED <<scope, db, drafts, named, phase, validating, starts, failed, editor, projects,
                   hidden, unavailable, current, switching, dialog, draftDue, lastId, lastEdit,
                   given, owner, exposed, blind>>

(* The title bar shows the members; the sessions are read, with their drafts. *)
NamedShown ==
    LET members == op.members
        sessions == [p \in DOMAIN named.sessions \cap members |-> named.sessions[p]]
    IN /\ op.kind = "named" /\ ~op.shown
       /\ hidden' = projects \ members
       /\ \E taker \in Takers(SavedDirty(sessions)) :
            /\ drafts' = DraftsLeft(taker)
            /\ op' = [kind |-> "named", shown |-> TRUE, members |-> members,
                      sessions |-> [p \in DOMAIN sessions |->
                                        projectSessionFromPersisted(sessions[p], taker)]]
            /\ exposed' = exposed \cup Losing(editor, {path \in Paths : taker[path] # NoTab})
       /\ UNCHANGED <<scope, db, snapshot, named, phase, validating, starts, failed, editor,
                      projects, unavailable, current, switching, dialog, persistDue, draftDue,
                      lastId, lastEdit, moves, touched, given, owner, blind>>

(* The sessions replace those in memory; the saved active project is shown,   *)
(* or another member whose directory is there.                               *)
activateNamedWorkspace ==
    LET available == op.members \ unavailable
        wanted == IF named.active \in op.members THEN {named.active} ELSE op.members
        active == IF wanted \subseteq available THEN wanted ELSE available
    IN /\ op.kind = "named" /\ op.shown
       /\ op' = NoOp
       /\ IF active = {current} /\ current \in DOMAIN op.sessions
          THEN /\ Publish(applyVisibleProjectSession(
                            mergeProjectSessions(editor, Without(op.sessions, current)),
                            op.sessions[current]))
               /\ switching' = switching
          ELSE /\ Publish(mergeProjectSessions(editor, op.sessions))
               /\ IF active = {} THEN switching' = switching
                  ELSE \E p \in active : BeginSwitch(p)
       /\ blind' = TRUE
       /\ exposed' = exposed \cup
            {t.id : t \in Dirty(AllTabs([NoEditor EXCEPT !.sessions = op.sessions]))}
       /\ UNCHANGED <<scope, durable, phase, validating, starts, failed, projects, hidden,
                      unavailable, current, dialog, lastId, lastEdit, moves, touched, given,
                      owner>>

----------------------------------------------------------------------------
(* What survives                                                           *)

(* persistNow on its timer. *)
persistNow ==
    /\ persistDue /\ phase # "down"
    /\ persistDue' = FALSE
    /\ snapshot' = IF phase = "ready" THEN captureWorkspaceSessionSnapshot(editor, projects)
                   ELSE snapshot
    /\ UNCHANGED <<scope, db, drafts, named, editor, projects, hidden, unavailable, current,
                   switching, op, dialog, validating, draftDue, phase, book, counters>>

\* Mutant: only the visible tabs.
scheduleDraftPersist_visibleOnly ==
    LET dirty == Dirty(ToSet(editor.tabs))
    IN /\ draftDue
       /\ draftDue' = FALSE
       /\ drafts' = [path \in Paths |->
              IF \E t \in dirty : t.path = path /\ t.edits \notin Long
              THEN (CHOOSE t \in dirty : t.path = path /\ t.edits \notin Long).edits ELSE Clean]
       /\ UNCHANGED <<scope, db, snapshot, named, editor, projects, hidden, unavailable, current,
                      switching, op, dialog, validating, persistDue, phase, book, counters>>

(* scheduleDraftPersist on its timer: the text of every dirty tab, and no     *)
(* draft of a path without one. Of two tabs with one path the last one stays. *)
(* A text too long for a draft leaves an older draft of its path behind. (The *)
(* filter on openError drops nothing: such a tab is never dirty.)             *)
scheduleDraftPersist ==
    LET dirty == Dirty(AllTabs(editor))
        Of(path) == {t.edits : t \in {u \in dirty : u.path = path}}
        Stay(path) == IF Of(path) = {} THEN {Clean}
                      ELSE IF Of(path) \subseteq Long THEN {drafts[path]} ELSE Of(path) \ Long
    IN /\ draftDue
       /\ draftDue' = FALSE
       /\ drafts' \in {d \in [Paths -> 0 .. MaxEdits] : \A path \in Paths : d[path] \in Stay(path)}
       /\ exposed' = {t.id : t \in {u \in dirty : u.edits \notin Long /\ drafts'[u.path] # u.edits}}
       /\ UNCHANGED <<scope, db, snapshot, named, editor, projects, hidden, unavailable, current,
                      switching, op, dialog, validating, persistDue, phase, touched, failed, given,
                      owner, blind, counters>>

(* The process ends: by a crash, or after the exit's questions and its flush. *)
Gone ==
    /\ phase' = "down"
    /\ editor' = NoEditor /\ projects' = {} /\ hidden' = hidden \ {Scratch} /\ unavailable' = {}
    /\ current' = NoProject /\ switching' = NoSwitch /\ op' = NoOp /\ dialog' = NoDialog
    /\ validating' = FALSE /\ persistDue' = FALSE /\ draftDue' = FALSE
    /\ exposed' = {}
    /\ UNCHANGED <<scope, db, drafts, named, lastId, lastEdit, starts, touched, failed, owner, blind>>

Crash ==
    /\ Allows("restart") /\ phase # "down" /\ starts < MaxStarts
    /\ Gone
    /\ UNCHANGED <<snapshot, given, moves>>

requestAppClose ==
    /\ Allows("restart") /\ Quiet /\ starts < MaxStarts
    /\ Gone
    /\ snapshot' = captureWorkspaceSessionSnapshot(editor, projects)
    /\ given' = given \cup EditsOf(AllTabs(editor))
    /\ UNCHANGED moves

(* hydrateWorkspaceSessionsIfNeeded, then useDraftRecovery: drafts of paths   *)
(* without a tab are offered.                                                *)
hydrateWorkspaceSessions ==
    LET saved == SavedDirty(snapshot.projects) \cup {t \in ToSet(snapshot.pinned) : t.dirty}
    IN /\ phase = "down" /\ starts < MaxStarts
       /\ starts' = starts + 1 /\ phase' = "boot" /\ touched' = FALSE
       /\ \E taker \in Takers(saved) :
            LET e == [NoEditor EXCEPT
                        !.tabs = Restored(snapshot.pinned, taker),
                        !.active = FirstId(snapshot.pinned),
                        !.sessions = [p \in DOMAIN snapshot.projects |->
                            projectSessionFromPersisted(snapshot.projects[p], taker)]]
                orphans == {path \in Paths : drafts[path] # Clean
                                             /\ \A t \in AllTabs(e) : t.path # path}
            IN /\ editor' = e
               /\ drafts' = DraftsLeft(taker)
               /\ exposed' = {t.id : t \in Dirty(AllTabs(e))}
               /\ given' = given \ EditsOf(AllTabs(e))
               /\ draftDue' = (Dirty(ToSet(e.tabs)) # {})
               /\ dialog' = IF orphans = {} THEN NoDialog
                            ELSE [kind |-> "recover", found |-> [path \in orphans |-> drafts[path]]]
       /\ UNCHANGED <<scope, db, snapshot, named, projects, hidden, unavailable, current,
                      switching, op, validating, persistDue, failed, owner, blind, lastId,
                      lastEdit, moves>>

(* loadProjects: the most recent project is opened before the rest goes on.   *)
loadProjects ==
    /\ phase = "boot"
    /\ projects' = db /\ unavailable' = {}
    /\ IF Candidates(db) # {}
       THEN /\ phase' = "restoring"
            /\ \E p \in Candidates(db) : switching' = Starting(p)
            /\ UNCHANGED <<editor, persistDue, draftDue, validating, blind>>
       ELSE /\ phase' = "ready" /\ validating' = TRUE /\ switching' = switching
            /\ Publish(pruneWorkspaceSessions(editor, db)) /\ blind' = (blind \/ Forgets(editor, db))
    /\ UNCHANGED <<scope, durable, hidden, current, op, dialog, touched, failed, given, owner,
                   exposed, counters>>

(* A load that fails settles as well, with no project known.                 *)
LoadFails ==
    /\ Allows("boot") /\ phase = "boot"
    /\ phase' = "ready" /\ failed' = TRUE
    /\ Publish(pruneWorkspaceSessions(editor, {})) /\ blind' = (blind \/ Forgets(editor, {}))
    /\ UNCHANGED <<scope, durable, projects, hidden, unavailable, current, switching, op, dialog,
                   validating, touched, given, owner, exposed, counters>>

(* The directories have been checked, in the background.                     *)
Validated ==
    /\ validating /\ validating' = FALSE
    /\ \E missing \in SUBSET (projects \cap Projects) :
         LET left == projects \ missing
         IN /\ unavailable' = missing
            /\ IF current \in missing THEN Leave(left)
               ELSE IF current = NoProject /\ Candidates(left) # {}
               THEN /\ \E p \in Candidates(left) : BeginSwitch(p)
                    /\ UNCHANGED <<current, editor, persistDue, draftDue>>
               ELSE UNCHANGED <<current, switching, editor, persistDue, draftDue>>
    /\ UNCHANGED <<scope, durable, projects, hidden, op, dialog, phase, book, counters>>

----------------------------------------------------------------------------
(* Drafts offered at the start                                             *)

RecoverDiscard ==
    /\ dialog.kind = "recover"
    /\ dialog' = NoDialog
    /\ drafts' = [path \in Paths |-> IF path \in DOMAIN dialog.found THEN Clean ELSE drafts[path]]
    /\ touched' = TRUE
    /\ UNCHANGED <<scope, db, snapshot, named, phase, editor, projects, hidden, unavailable,
                   current, switching, op, validating, persistDue, draftDue, failed, given, owner,
                   exposed, blind, counters>>

(* Restoring opens each file and, once it is read, puts the draft into it, as  *)
(* it was when the program started.                                          *)
RecoverRestore ==
    /\ dialog.kind = "recover" /\ op = NoOp
    /\ dialog' = NoDialog
    /\ op' = [kind |-> "recover", opened |-> FALSE, left |-> dialog.found]
    /\ touched' = TRUE
    /\ UNCHANGED <<scope, durable, phase, editor, projects, hidden, unavailable, current,
                   switching, validating, persistDue, draftDue, failed, given, owner, exposed,
                   blind, counters>>

RecoverOpen ==
    /\ op.kind = "recover" /\ ~op.opened /\ lastId < MaxIds
    /\ \E path \in DOMAIN op.left :
         /\ Publish(openFile(editor, path)) /\ Numbered(openFile(editor, path))
         /\ op' = [kind |-> "recover", opened |-> TRUE, path |-> path, left |-> op.left]
    /\ UNCHANGED <<scope, durable, phase, projects, hidden, unavailable, current, switching,
                   dialog, validating, touched, failed, given, exposed, blind, lastEdit, moves,
                   starts>>

RecoverFill ==
    LET rest == [path \in DOMAIN op.left \ {op.path} |-> op.left[path]]
        there == {i \in DOMAIN editor.tabs : editor.tabs[i].path = op.path}
    IN /\ op.kind = "recover" /\ op.opened
       /\ op' = IF rest = << >> THEN NoOp ELSE [kind |-> "recover", opened |-> FALSE, left |-> rest]
       /\ IF there = {} THEN UNCHANGED <<editor, persistDue, draftDue, drafts, given>>
          ELSE LET t == editor.tabs[Min(there)]
               IN /\ PublishNew(SetText(editor, t.id, op.left[op.path]))
                  /\ drafts' = [drafts EXCEPT ![op.path] = Clean]
                  /\ given' = (given \cup {t.edits}) \ {op.left[op.path]}
       /\ UNCHANGED <<scope, db, snapshot, named, phase, projects, hidden, unavailable, current,
                      switching, dialog, validating, touched, failed, owner, exposed, blind,
                      counters>>

(* A tab whose file could not be read takes no text (openError), and one that *)
(* is still being read has what is put in replaced; the draft goes all the    *)
(* same. Any clean tab may be such a tab: nothing here tells them apart.      *)
RecoverUnread ==
    LET rest == [path \in DOMAIN op.left \ {op.path} |-> op.left[path]]
        there == {i \in DOMAIN editor.tabs : editor.tabs[i].path = op.path}
    IN /\ op.kind = "recover" /\ op.opened
       /\ op' = IF rest = << >> THEN NoOp ELSE [kind |-> "recover", opened |-> FALSE, left |-> rest]
       /\ there # {} /\ editor.tabs[Min(there)].edits = Clean
       /\ PublishNew(editor)
       /\ drafts' = [drafts EXCEPT ![op.path] = Clean]
       /\ exposed' = exposed \cup Losing(editor, {op.path})
       /\ UNCHANGED <<scope, db, snapshot, named, phase, projects, hidden, unavailable, current,
                      switching, dialog, validating, touched, failed, given, owner, blind,
                      counters>>

----------------------------------------------------------------------------
(* What an earlier run of the program has left: nothing, or ("left") a tab of *)
(* one project, clean or with its draft.                                     *)
Left(p, path, edits) ==
    /\ snapshot = [projects |-> [q \in {p} |-> [tabs |-> Saved(<<Tab(1, path, FALSE, edits)>>),
                                                active |-> 1]],
                   pinned |-> <<>>]
    /\ drafts = [other \in Paths |-> IF other = path THEN edits ELSE Clean]
    /\ hidden \in {{}, {p}}
    /\ lastId = 1 /\ lastEdit = edits /\ edits \notin Long
    /\ owner = [id \in 1 .. MaxIds |-> IF id = 1 THEN {p} ELSE {}]

NothingLeft ==
    /\ snapshot = NoSnapshot /\ drafts = [path \in Paths |-> Clean] /\ hidden = {}
    /\ lastId = 0 /\ lastEdit = 0
    /\ owner = [id \in 1 .. MaxIds |-> {}]

Init ==
    /\ scope \in Scopes
    /\ IF Allows("left")
       THEN \E p \in Projects, path \in Paths \ Pinned, edits \in 0 .. MaxEdits : Left(p, path, edits)
       ELSE NothingLeft
    /\ editor = NoEditor
    /\ db = Projects /\ projects = {} /\ unavailable = {}
    /\ current = NoProject /\ switching = NoSwitch /\ op = NoOp /\ dialog = NoDialog
    /\ phase = "down" /\ validating = FALSE
    /\ named = NoWorkspace
    /\ persistDue = FALSE /\ draftDue = FALSE
    /\ moves = 0 /\ starts = 0
    /\ touched = FALSE /\ failed = FALSE /\ given = {} /\ exposed = {} /\ blind = FALSE

EditorAction ==
    \/ \E path \in Paths :
        \/ OpenFile(path) \/ BeginDiff(path) \/ BeginSaveAs(path)
        \/ closeTabsForPath(path) \/ closeDiffTabsForPath(path)
        \/ \E to \in Paths : renamePath(path, to)
    \/ \E id \in 1 .. MaxIds :
        \/ Activate(id)
        \/ \E kind \in {"one", "others", "right", "all"} : closeWithConfirm(kind, id)
    \/ Reorder \/ Type \/ Save \/ openDiff \/ saveAs
    \/ DiscardAndClose \/ SaveAndClose \/ CancelClose

ProjectAction ==
    \/ \E p \in AllProjects :
        \/ switchProject(p) \/ unhideProject(p) \/ removeProjectWithConfirm(p)
        \/ hideProjects({p}) \/ hideProjects((projects \ hidden) \ {p})
    \/ SwitchDone \/ SwitchFails \/ addEmptyProject \/ RemoveRow \/ RemoveReload
    \/ saveProjectsAsWorkspace \/ BeginNamed \/ NamedShown \/ activateNamedWorkspace

DurableAction ==
    \/ persistNow \/ scheduleDraftPersist
    \/ Crash \/ requestAppClose \/ hydrateWorkspaceSessions \/ loadProjects \/ LoadFails \/ Validated
    \/ RecoverDiscard \/ RecoverRestore \/ RecoverOpen \/ RecoverFill \/ RecoverUnread

Next == EditorAction \/ ProjectAction \/ DurableAction

Spec == Init /\ [][Next]_workspaceVars

----------------------------------------------------------------------------
(* Properties                                                              *)

IsSession(s) ==
    /\ \A i \in DOMAIN s.tabs :
         /\ s.tabs[i].id \in 1 .. MaxIds /\ s.tabs[i].path \in Paths
         /\ s.tabs[i].diff \in BOOLEAN /\ s.tabs[i].edits \in 0 .. MaxEdits
    /\ s.active = NoTab \/ Has(s.tabs, s.active)

(* Type invariant of the store, the lists of projects and what is saved; the *)
(* active tab is a tab, and a session's active tab one of the session.       *)
sessionsTypeOK ==
    /\ IsSession([tabs |-> editor.tabs, active |-> editor.active])
    /\ DOMAIN editor.sessions \subseteq AllProjects
    /\ \A p \in DOMAIN editor.sessions : IsSession(editor.sessions[p])
    /\ db \subseteq Projects /\ projects \subseteq AllProjects
    /\ current \in AllProjects \cup {NoProject}
    /\ drafts \in [Paths -> 0 .. MaxEdits]
    /\ phase \in {"down", "boot", "restoring", "ready"}

(* Every tab of a session was opened, or saved as another file, while its    *)
(* project was the current one, and so was every visible tab: switching,     *)
(* hiding, removing and restarting mix the files of two projects only after  *)
(* a step on stale knowledge.                                                *)
TabsAtHome ==
    ~blind =>
        /\ \A p \in DOMAIN editor.sessions :
             \A t \in ToSet(editor.sessions[p].tabs) : p \in owner[t.id]
        /\ current # NoProject =>
             \A t \in ToSet(projectTabs(editor.tabs)) : current \in owner[t.id]
        /\ current \notin DOMAIN editor.sessions

(* Unsaved text stays in some tab, visible or stashed, until it is saved,    *)
(* replaced by newer typing or given up in answer to a question.             *)
EditsStay ==
    [][phase' # "down" /\ ~blind' =>
         EditsOf(AllTabs(editor)) \ EditsOf(AllTabs(editor')) \subseteq given']_workspaceVars

(* The same with nothing excused: what formatDirtyDiscardCopy promises, that  *)
(* text is lost only after the question.                                     *)
EditsAskedFor ==
    [][phase' # "down" =>
         EditsOf(AllTabs(editor)) \ EditsOf(AllTabs(editor')) \subseteq given']_workspaceVars

(* Once the drafts' timer has fired, a crash loses no unsaved text that a    *)
(* draft can hold: each dirty tab, in whichever project, has its draft,      *)
(* except a tab whose draft was taken since: by a start or a named workspace *)
(* that read it, by another tab of its path, or by giving the path another   *)
(* name.                                                                     *)
DraftsCover ==
    ~draftDue => \A t \in Dirty(AllTabs(editor)) :
                    t.edits \in Long \/ drafts[t.path] = t.edits \/ t.id \in exposed

(* Not so: that a draft the user has asked back is in a tab or still kept.   *)
(* The draft of a file that cannot be read is gone with neither.             *)
RestoredDraftsArrive ==
    [][op.kind = "recover" /\ op.opened /\ op' # op /\ phase' # "down" =>
         \/ op.left[op.path] \in EditsOf(AllTabs(editor'))
         \/ drafts'[op.path] = drafts[op.path]]_workspaceVars

(* Nor this: that without its timer set a crash brings back no text older    *)
(* than the one in the tab. One too long for a draft leaves the older draft. *)
DraftsAreCurrent ==
    ~draftDue => \A t \in Dirty(AllTabs(editor)) :
                    drafts[t.path] \in {t.edits, Clean} \/ t.id \in exposed

(* When the snapshot's timer is not running the snapshot is what a restart   *)
(* should bring back, for every project that is listed.                      *)
SnapshotComplete ==
    phase = "ready" /\ ~persistDue =>
        \A p \in projects \cap Projects :
            LET ts == projectTabs(Sessions(editor, p).tabs)
            IN IF p \in DOMAIN snapshot.projects THEN snapshot.projects[p].tabs = Saved(ts)
               ELSE ts = <<>>

(* A start alone, until the user acts, loses no saved session of a project   *)
(* that is still there; the load of the list has to succeed for that.        *)
Forgotten == {p \in DOMAIN snapshot.projects \cap db :
                  snapshot.projects[p].tabs # <<>> /\ p \notin DOMAIN snapshot'.projects}
StartKeepsSnapshot == [][~touched' /\ ~failed => Forgotten = {}]_workspaceVars
SettledLoadKeepsSnapshot == [][~touched' => Forgotten = {}]_workspaceVars
=============================================================================
