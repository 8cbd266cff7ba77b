--------------------------- MODULE EditorSessions ---------------------------
(***************************************************************************)
(* The tabs of editorStore, as operators on the store: the visible tabs,   *)
(* the active one, the order for Ctrl+Tab and the stashed sessions of the  *)
(* other projects. Each operator is one handler of the store, which runs   *)
(* without an await; WorkspaceSessions.tla calls them in the order the     *)
(* project store, the dialogs and the boot sequence do. The text of a tab  *)
(* is reduced to its unsaved edits; EditorBuffers.tla has the rest.        *)
(***************************************************************************)
EXTENDS Naturals, FiniteSets, SequencesExt

CONSTANTS
    Projects,       \* projects of the database
    Scratch,        \* a draft project, which lives in memory only
    Paths,          \* files
    Pinned,         \* paths of the global settings, whose tabs stay visible
    MaxTabs         \* MAX_OPEN_EDITOR_TABS

ASSUME SessionsAssumption ==
    /\ Scratch \notin Projects
    /\ Pinned \subseteq Paths
    /\ MaxTabs \in Nat \ {0}

AllProjects == Projects \cup {Scratch}

(* No tab is active. Tabs are numbered from 1. *)
NoTab == 0
(* The edits of a clean tab; dirty is edits # Clean. *)
Clean == 0

Tab(id, path, diff, edits) == [id |-> id, path |-> path, diff |-> diff, edits |-> edits]

NoSessions == [p \in {} |-> <<>>]
NoEditor == [tabs |-> <<>>, active |-> NoTab, mru |-> <<>>, sessions |-> NoSessions]

ids(ts) == [i \in DOMAIN ts |-> ts[i].id]
Has(ts, id) == \E i \in DOMAIN ts : ts[i].id = id
LastId(ts) == IF ts = <<>> THEN NoTab ELSE Last(ts).id
FirstId(ts) == IF ts = <<>> THEN NoTab ELSE Head(ts).id

(* The members of "kept" in a list, in their order: a filter. SelectSeq has no *)
(* definition the provers could unfold; this one has.                        *)
Only(ts, kept) ==
    LET upTo[n \in 0 .. Len(ts)] ==
            IF n = 0 THEN <<>>
            ELSE IF ts[n] \in kept THEN Append(upTo[n - 1], ts[n]) ELSE upTo[n - 1]
    IN upTo[Len(ts)]

Drop(ts, gone) == Only(ts, ToSet(ts) \ gone)

IsPinned(t) == t.path \in Pinned
pinned(ts) == Only(ts, {t \in ToSet(ts) : IsPinned(t)})
projectTabs(ts) == Only(ts, {t \in ToSet(ts) : ~IsPinned(t)})

(* getAllTabs, as a set: the visible tabs and those of every session. *)
AllTabs(e) == ToSet(e.tabs) \cup UNION {ToSet(e.sessions[p].tabs) : p \in DOMAIN e.sessions}

(* findTab: a visible tab first, as a set with that tab. *)
findTab(e, id) ==
    IF Has(e.tabs, id) THEN {t \in ToSet(e.tabs) : t.id = id}
    ELSE {t \in AllTabs(e) : t.id = id}

buildTabMru(ts, active) ==
    IF active = NoTab THEN ids(ts)
    ELSE <<active>> \o Drop(ids(ts), {active})

MapTabs(ts, id, F(_)) == [i \in DOMAIN ts |-> IF ts[i].id = id THEN F(ts[i]) ELSE ts[i]]

(* The stash in which a handler of one tab finds it: of several, the first.  *)
Holds(e, p, id) ==
    /\ Has(e.sessions[p].tabs, id)
    /\ p = CHOOSE q \in DOMAIN e.sessions : Has(e.sessions[q].tabs, id)

(* mapTabEverywhere: the visible tab, else the stashed one. *)
mapTabEverywhere(e, id, F(_)) ==
    IF Has(e.tabs, id) THEN [e EXCEPT !.tabs = MapTabs(@, id, F)]
    ELSE [e EXCEPT !.sessions =
            [p \in DOMAIN @ |->
                IF Holds(e, p, id)
                THEN [tabs |-> MapTabs(@[p].tabs, id, F), active |-> @[p].active] ELSE @[p]]]

(* What its callers do to the tab: its text, or the path it was saved under. *)
SetText(e, id, edits) == mapTabEverywhere(e, id, LAMBDA t : [t EXCEPT !.edits = edits])
SavedUnder(e, id, path) ==
    mapTabEverywhere(e, id, LAMBDA t : [t EXCEPT !.path = path, !.edits = Clean])

(* Every tab of the store changed by F: renamePath, and the saves of some.    *)
EachTab(e, F(_)) ==
    LET Each(ts) == [i \in DOMAIN ts |-> F(ts[i])]
    IN [e EXCEPT !.tabs = Each(@),
                 !.sessions = [p \in DOMAIN @ |-> [tabs |-> Each(@[p].tabs), active |-> @[p].active]]]

RenameTabs(e, from, to) ==
    EachTab(e, LAMBDA t : IF t.path = from THEN [t EXCEPT !.path = to] ELSE t)
CleanTabs(e, saved) ==
    EachTab(e, LAMBDA t : IF t \in saved THEN [t EXCEPT !.edits = Clean] ELSE t)

----------------------------------------------------------------------------
(* Opening and activating                                                  *)

(* setActiveTab *)
setActiveTab(e, id) == [e EXCEPT !.active = id, !.mru = buildTabMru(e.tabs, id)]

(* openFile and openDiff of a tab that is there do not touch the order. *)
ShowTab(e, id) == [e EXCEPT !.active = id]

AppendTab(e, t) ==
    LET ts == Append(e.tabs, t)
    IN [e EXCEPT !.tabs = ts, !.active = t.id, !.mru = buildTabMru(ts, t.id)]

(* cycleTabMru *)
cycleTabMru(e) ==
    LET ordered == Only(e.mru, ToSet(ids(e.tabs)))
        at == SelectInSeq(ordered, LAMBDA id : id = e.active)
        next == IF at = 0 THEN 2 ELSE (at % Len(ordered)) + 1
    IN IF Len(ordered) < 2 THEN e ELSE setActiveTab(e, ordered[next])

(* reorderTabs *)
reorderTabs(e, from, to) ==
    LET ts == InsertAt(RemoveAt(e.tabs, from), to, e.tabs[from])
    IN [e EXCEPT !.tabs = ts, !.mru = buildTabMru(ts, e.active)]

----------------------------------------------------------------------------
(* Closing                                                                 *)

(* The session of a project without the tabs "gone"; the last one left      *)
(* becomes active when the active one goes.                                *)
Pruned(session, gone) ==
    LET ts == Drop(session.tabs, gone)
    IN [tabs |-> ts,
        active |-> IF Has(ts, session.active) THEN session.active ELSE LastId(ts)]

(* closeTab *)
closeTab(e, id) ==
    LET gone == {t \in AllTabs(e) : t.id = id}
        ts == Drop(e.tabs, gone)
        active == IF e.active = id THEN LastId(ts) ELSE e.active
    IN IF Has(e.tabs, id)
       THEN [e EXCEPT !.tabs = ts, !.active = active, !.mru = buildTabMru(ts, active)]
       ELSE [e EXCEPT !.sessions =
                [p \in DOMAIN @ |-> IF Holds(e, p, id) THEN Pruned(@[p], gone) ELSE @[p]]]

(* closeOtherTabs; like the next three it leaves the order alone. *)
closeOtherTabs(e, id) ==
    LET ts == Only(e.tabs, {t \in ToSet(e.tabs) : t.id = id})
    IN [e EXCEPT !.tabs = ts, !.active = IF ts = <<>> THEN NoTab ELSE id]

\* Mutant: the active tab stays.
closeTabsToRight_keepsActive(e, id) ==
    LET at == SelectInSeq(e.tabs, LAMBDA t : t.id = id)
    IN IF at = 0 THEN e ELSE [e EXCEPT !.tabs = SubSeq(e.tabs, 1, at)]

(* closeTabsToRight *)
closeTabsToRight(e, id) ==
    LET at == SelectInSeq(e.tabs, LAMBDA t : t.id = id)
        ts == SubSeq(e.tabs, 1, at)
    IN IF at = 0 THEN e
       ELSE [e EXCEPT !.tabs = ts, !.active = IF Has(ts, e.active) THEN e.active ELSE id]

(* closeAllTabs *)
closeAllTabs(e) == [e EXCEPT !.tabs = <<>>, !.active = NoTab]

(* closeTabsForPath, closeDiffTabsForPath: every tab of a file or folder.   *)
CloseEverywhere(e, gone) ==
    LET ts == Drop(e.tabs, gone)
    IN [e EXCEPT !.tabs = ts,
                 !.active = IF Has(e.tabs, @) /\ ~Has(ts, @) THEN LastId(ts) ELSE @,
                 !.sessions = [p \in DOMAIN @ |-> Pruned(@[p], gone)]]

(* pickEvictableTabId: from the end of the order, neither the active tab nor *)
(* a dirty or pinned one.                                                   *)
Evictable(e, id) ==
    /\ id # e.active
    /\ \E i \in DOMAIN e.tabs : e.tabs[i].id = id /\ e.tabs[i].edits = Clean /\ ~IsPinned(e.tabs[i])

pickEvictableTabId(e) ==
    LET victims == Only(e.mru, {id \in ToSet(e.mru) : Evictable(e, id)})
    IN IF victims = <<>> THEN NoTab ELSE Last(victims)

(* ensureOpenTabCapacity closes tabs until there is room for one more; when   *)
(* no tab may be closed there is none, and the opening is given up.          *)
EvictOne(e) ==
    IF Len(e.tabs) < MaxTabs \/ pickEvictableTabId(e) = NoTab THEN e
    ELSE closeTab(e, pickEvictableTabId(e))

ensureOpenTabCapacity(e) ==
    LET evicted[n \in 0 .. Len(e.tabs)] == IF n = 0 THEN e ELSE EvictOne(evicted[n - 1])
    IN evicted[Len(e.tabs)]

HasRoom(e) == Len(e.tabs) < MaxTabs

----------------------------------------------------------------------------
(* Project sessions                                                        *)

With(sessions, p, session) ==
    [q \in DOMAIN sessions \cup {p} |-> IF q = p THEN session ELSE sessions[q]]

Without(sessions, p) == [q \in DOMAIN sessions \ {p} |-> sessions[q]]

(* The active tab of a session about to be stashed. *)
ActiveInProject(e) ==
    LET ts == projectTabs(e.tabs) IN IF Has(ts, e.active) THEN e.active ELSE FirstId(ts)

Stashed(e) == [tabs |-> projectTabs(e.tabs), active |-> ActiveInProject(e)]

(* The active tab among ts: the incoming choice, else an active pinned tab,   *)
(* else the first.                                                           *)
ActiveAmong(ts, wanted, e) ==
    IF Has(ts, wanted) THEN wanted
    ELSE IF Has(pinned(e.tabs), e.active) THEN e.active
    ELSE FirstId(ts)

\* Mutant: nothing is stashed when the target has no session.
activateProjectSession_firstVisit(e, from, to) ==
    LET kept == IF from \in AllProjects /\ to \in DOMAIN e.sessions
                THEN With(e.sessions, from, Stashed(e)) ELSE e.sessions
        incoming == IF to \in DOMAIN kept THEN kept[to] ELSE [tabs |-> <<>>, active |-> NoTab]
        ts == projectTabs(incoming.tabs) \o pinned(e.tabs)
        active == ActiveAmong(ts, incoming.active, e)
    IN IF from = to THEN e
       ELSE [tabs |-> ts, active |-> active, mru |-> buildTabMru(ts, active),
             sessions |-> Without(kept, to)]

\* Mutant: without a stash the visible tabs stay.
activateProjectSession_keepsTabs(e, from, to) ==
    LET kept == IF from \in AllProjects THEN With(e.sessions, from, Stashed(e)) ELSE e.sessions
        ts == IF to \in DOMAIN kept THEN projectTabs(kept[to].tabs) \o pinned(e.tabs) ELSE e.tabs
        active == ActiveAmong(ts, IF to \in DOMAIN kept THEN kept[to].active ELSE e.active, e)
    IN IF from = to THEN e
       ELSE [tabs |-> ts, active |-> active, mru |-> buildTabMru(ts, active),
             sessions |-> Without(kept, to)]

(* activateProjectSession: stash what is visible under "from", when there is  *)
(* one, and show the session of "to". NoProject is not in AllProjects.       *)
activateProjectSession(e, from, to) ==
    LET kept == IF from \in AllProjects THEN With(e.sessions, from, Stashed(e)) ELSE e.sessions
        incoming == IF to \in DOMAIN kept THEN kept[to] ELSE [tabs |-> <<>>, active |-> NoTab]
        ts == projectTabs(incoming.tabs) \o pinned(e.tabs)
        active == ActiveAmong(ts, incoming.active, e)
    IN IF from = to THEN e
       ELSE [tabs |-> ts, active |-> active, mru |-> buildTabMru(ts, active),
             sessions |-> Without(kept, to)]

(* deactivateProjectSession: only the pinned tabs stay. *)
deactivateProjectSession(e, p) ==
    LET ts == pinned(e.tabs)
        active == IF Has(ts, e.active) THEN e.active ELSE FirstId(ts)
    IN [tabs |-> ts, active |-> active, mru |-> buildTabMru(ts, active),
        sessions |-> With(e.sessions, p, Stashed(e))]

(* discardProjectSession, pruneWorkspaceSessions *)
discardProjectSession(e, p) == [e EXCEPT !.sessions = Without(@, p)]
pruneWorkspaceSessions(e, known) ==
    [e EXCEPT !.sessions = [p \in DOMAIN @ \cap known |-> @[p]]]

(* mergeProjectSessions: the sessions given replace those of their projects. *)
mergeProjectSessions(e, given) ==
    [e EXCEPT !.sessions = [p \in DOMAIN @ \cup DOMAIN given |->
                                IF p \in DOMAIN given THEN given[p] ELSE @[p]]]

(* applyVisibleProjectSession: the order for Ctrl+Tab is left as it was. *)
applyVisibleProjectSession(e, session) ==
    LET ts == projectTabs(session.tabs) \o pinned(e.tabs)
    IN [e EXCEPT !.tabs = ts, !.active = ActiveAmong(ts, session.active, e)]
=============================================================================
