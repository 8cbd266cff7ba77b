------------------------- MODULE EditorBuffers_proofs -------------------------
(***************************************************************************)
(* What holds of the open files for any files, settings and bounds: the    *)
(* types, that a tab has its text, that typing which is not on disk keeps  *)
(* its tab dirty, that no handler replaces such typing behind the user's   *)
(* back, and what a save may overwrite.                                    *)
(*                                                                         *)
(* The invariant says what a tab may rely on (TabOK), what a handler       *)
(* carries at each of its awaits (Carries) and what a handler that still   *)
(* finds its tab may do with it (OfTab); a step is then of one of three    *)
(* kinds: it leaves every tab as it is (SameTabs), it moves one tab that   *)
(* is and stays ready (Moves), or it opens or closes one (GoneKeeps).      *)
(***************************************************************************)
EXTENDS EditorBuffers, FiniteSetTheorems, TLAPS

----------------------------------------------------------------------------
(* The invariant. *)

Written == 0 .. MaxWrites

\* An mtime as it is recorded: of a write, or none.
Stamps == Null .. MaxWrites

\* The tabs and the handlers.
TabType == [open : BOOLEAN, gen : 0 .. MaxOpens, content : Texts \cup {None}, dirty : BOOLEAN,
            loading : BOOLEAN, error : BOOLEAN, known : Stamps]
OpType == [kind : {"load", "hydrate", "save", "sync", "reopen"}, file : Files, gen : Nat,
           pc : {"stat", "read", "answered", "check", "compare", "saved", "decide", "prompt",
                 "both"},
           raw : Texts \cup {None}, text : Texts \cup {None}, base : Stamps, mt : Stamps,
           read : Written, after : {"stay", "ask", "close"}]

\* A tab has read no write that has not been made.
SeenType == seen \in [Files -> Written] /\ \A f \in Files : seen[f] <= mtime[f]

StoreType ==
    /\ settings \in Settings
    /\ disk \in [Files -> Texts] /\ mtime \in [Files -> 1 .. MaxWrites]
    /\ tab \in [Files -> TabType]
    /\ live \in [Files -> Texts \cup {None}]
    /\ bound \in Files \cup {NoFile} /\ asking \in Files \cup {NoFile}
    /\ fresh \in 0 .. MaxFresh
    /\ typed \in [Files -> BOOLEAN]
    /\ SeenType

BufferType == StoreType /\ ops \subseteq OpType /\ IsFiniteSet(ops)

\* A write is announced before it is made.
Unwritten(f) == {op \in ops : op.kind = "save" /\ op.file = f /\ op.pc \in {"check", "compare"}}
WritesFit == \A f \in Files : mtime[f] + Cardinality(Unwritten(f)) <= MaxWrites

\* Write k of f has been read by its tab, or was recorded before its text was read.
Covered(f, k) == k <= seen[f] \/ <<f, k>> \in ahead

\* What a tab may rely on.
TabOK(f) ==
    /\ ~(tab[f].loading /\ tab[f].error)
    /\ typed[f] => Editable(f) /\ (tab[f].dirty \/ f \in overlap)
    /\ Editable(f) =>
        /\ resolveTabContent(f) # None
        /\ Covered(f, tab[f].known)

\* What a handler carries at each of its awaits.
Carries(op) ==
    /\ op.kind = "load" =>
        /\ op.pc \in {"stat", "read", "answered"}
        /\ op.pc = "answered" => op.text # None
    /\ op.kind = "hydrate" => op.pc \in {"stat", "answered"}
    /\ op.kind = "save" =>
        /\ op.pc \in {"check", "compare", "stat", "saved"}
        /\ op.raw # None /\ op.text # None
        /\ op.pc = "compare" => op.mt = op.read
    /\ op.kind = "sync" =>
        /\ op.pc \in {"stat", "read", "decide", "prompt"}
        /\ op.pc \in {"decide", "prompt"} => op.text # None /\ op.mt <= op.read
    /\ op.kind = "reopen" => op.pc \in {"both", "prompt"}

\* What typing since it began means to a handler that will clear the mark.
Overlaps(op) ==
    typed[op.file] =>
        \/ op.file \in overlap
        \/ op.kind = "save" /\ op.pc \in {"check", "compare"}
           /\ resolveTabContent(op.file) = op.raw

\* What a handler whose tab is there may rely on.
OfTab(op) ==
    /\ op.kind = "load" => tab[op.file].loading
    /\ op.kind # "load" => Editable(op.file)
    /\ op.kind = "save" \/ (op.kind = "reopen" /\ op.pc = "both") => Overlaps(op)
    /\ op.kind = "save" =>
        Covered(op.file, IF op.pc \in {"check", "compare"} THEN op.base ELSE op.read)
    /\ op.kind = "save" /\ op.pc \in {"stat", "saved"} => op.read <= seen[op.file]
    /\ op.kind = "sync" /\ op.pc = "prompt" => op.mt <= seen[op.file]

\* No handler has read a write that has not been made.
Past(op) ==
    /\ op.read <= mtime[op.file]
    /\ op.kind = "sync" /\ op.pc = "read" => op.mt <= mtime[op.file]

OpOK(op) ==
    /\ Carries(op) /\ op.gen <= tab[op.file].gen /\ Past(op)
    /\ findTab(op) => OfTab(op)

OneLoad == \A p, q \in ops : p.kind = "load" /\ q.kind = "load" /\ p.file = q.file
                             /\ findTab(p) /\ findTab(q) => p = q

Dialogs ==
    /\ choice # NoOp => choice \in ops /\ choice.pc = "prompt"
    /\ compare # NoOp =>
        /\ compare \in OpType /\ compare.kind = "sync" /\ compare.pc = "prompt"
        /\ OpOK(compare)

BufferInv ==
    /\ BufferType /\ WritesFit
    /\ \A f \in Files : TabOK(f)
    /\ \A op \in ops : OpOK(op)
    /\ OneLoad /\ Dialogs

Text(l, t, f) == IF l[f] # None THEN l[f] ELSE t[f].content

\* A tab whose content alone may differ.
SameButContent(s, t) ==
    /\ s.open = t.open /\ s.gen = t.gen /\ s.dirty = t.dirty
    /\ s.loading = t.loading /\ s.error = t.error /\ s.known = t.known

LEMMA TextTypes ==
  ASSUME EditorAssumption
  PROVE  /\ \A n \in 0 .. MaxFresh : Rough(n) \in Nat /\ Tidy(n) \in Texts
         /\ \A n \in 0 .. MaxFresh : n < MaxFresh => Rough(n + 1) \in Texts
         /\ None \notin Texts /\ Texts \subseteq Nat
BY DEF EditorAssumption, Rough, Tidy, Texts, None

LEMMA SavedText ==
  ASSUME EditorAssumption, settings \in Settings, NEW text \in Texts
  PROVE  prepareContentForSave(text) \in Texts
BY DEF prepareContentForSave, Texts, EditorAssumption

LEMMA Unbinding ==
  ASSUME BufferType
  PROVE  /\ Unbound.live \in [Files -> Texts \cup {None}]
         /\ Unbound.tab \in [Files -> TabType]
         /\ \A f \in Files : /\ SameButContent(Unbound.tab[f], tab[f])
                             /\ Text(Unbound.live, Unbound.tab, f) = resolveTabContent(f)
<1>1. CASE bound = NoFile \/ live[bound] = None
  BY <1>1 DEF BufferType, StoreType, Unbound, SameButContent, Text, resolveTabContent
<1>2. CASE ~(bound = NoFile \/ live[bound] = None)
  <2>1. bound \in Files /\ live[bound] \in Texts /\ live[bound] # None
    BY <1>2 DEF BufferType, StoreType
  <2>2. /\ Unbound.live = IF bound \in settings.plain THEN [live EXCEPT ![bound] = None] ELSE live
        /\ Unbound.tab = [tab EXCEPT ![bound].content = live[bound]]
    BY <1>2 DEF Unbound
  <2>3. Unbound.live \in [Files -> Texts \cup {None}]
    BY <2>1, <2>2 DEF BufferType, StoreType
  <2>4. /\ Unbound.tab \in [Files -> TabType]
        /\ \A f \in Files : f # bound => Unbound.tab[f] = tab[f]
        /\ SameButContent(Unbound.tab[bound], tab[bound])
        /\ Unbound.tab[bound].content = live[bound]
    BY <2>1, <2>2 DEF BufferType, StoreType, TabType, SameButContent
  <2>5. \A f \in Files : SameButContent(Unbound.tab[f], tab[f])
    BY <2>4 DEF SameButContent
  <2>6. \A f \in Files : Text(Unbound.live, Unbound.tab, f) = resolveTabContent(f)
    BY <2>1, <2>2, <2>4 DEF Text, resolveTabContent, BufferType, StoreType
  <2>7. QED
    BY <2>3, <2>4, <2>5, <2>6
<1>3. QED
  BY <1>1, <1>2

LEMMA Binding ==
  ASSUME NEW l \in [Files -> Texts \cup {None}], NEW t \in [Files -> TabType], NEW f \in Files,
         Text(l, t, f) # None
  PROVE  /\ Bound(f, l, t).live \in [Files -> Texts \cup {None}]
         /\ Bound(f, l, t).tab \in [Files -> TabType]
         /\ \A g \in Files : /\ SameButContent(Bound(f, l, t).tab[g], t[g])
                             /\ Text(Bound(f, l, t).live, Bound(f, l, t).tab, g) = Text(l, t, g)
<1> DEFINE doc == Text(l, t, f)
           b == Bound(f, l, t)
<1>1. /\ b.live = [l EXCEPT ![f] = doc]
      /\ b.tab = IF f \in settings.plain THEN [t EXCEPT ![f].content = None] ELSE t
  BY DEF Bound, Text
<1>2. doc \in Texts \cup {None} /\ doc # None
  BY DEF Text, TabType
<1>3. b.live \in [Files -> Texts \cup {None}] /\ b.live[f] = doc
      /\ \A g \in Files : g # f => b.live[g] = l[g]
  BY <1>1, <1>2
<1>4. /\ b.tab \in [Files -> TabType]
      /\ \A g \in Files : SameButContent(b.tab[g], t[g])
      /\ \A g \in Files : g # f => b.tab[g] = t[g]
  BY <1>1 DEF TabType, SameButContent
<1>5. \A g \in Files : Text(b.live, b.tab, g) = Text(l, t, g)
  <2>1. Text(b.live, b.tab, f) = Text(l, t, f)
    BY <1>2, <1>3 DEF Text
  <2>2. QED
    BY <2>1, <1>3, <1>4 DEF Text
<1>6. QED
  BY <1>3, <1>4, <1>5

----------------------------------------------------------------------------
(* What becomes of a tab, and of the handlers that wait for it. *)

\* Nothing that matters of a tab changes.
SameTab(f) ==
    /\ SameButContent(tab'[f], tab[f]) /\ resolveTabContent(f)' = resolveTabContent(f)
    /\ typed'[f] = typed[f] /\ (f \in overlap' <=> f \in overlap)
    /\ seen'[f] = seen[f] /\ (\A k : <<f, k>> \in ahead' <=> <<f, k>> \in ahead)

SameTabs == \A f \in Files : SameTab(f)
OtherTabs(f) == \A g \in Files : g # f => SameTab(g)

\* A tab that is ready stays so, and forgets no write it has read.
Moves(f) ==
    /\ Editable(f) /\ Editable(f)' /\ tab'[f].gen = tab[f].gen
    /\ \A k \in Stamps : Covered(f, k) => Covered(f, k)'
    /\ seen[f] <= seen'[f]

\* Typing that is left over was there before, or a handler has been told of it.
Careful(f) ==
    typed'[f] => \/ f \in overlap'
                 \/ /\ typed[f] /\ f \notin overlap
                    /\ resolveTabContent(f)' = resolveTabContent(f)

MtimeGrows == \A f \in Files : mtime[f] <= mtime'[f]

Waits(h) == h.kind \in {"save", "reopen"} /\ findTab(h)

LEMMA SameTabOK ==
  ASSUME NEW f \in Files, SameTab(f), TabOK(f)
  PROVE  TabOK(f)'
BY DEF SameTab, SameButContent, TabOK, Editable, Covered

LEMMA SameHandler ==
  ASSUME NEW h, SameTab(h.file), OpOK(h), mtime[h.file] <= mtime'[h.file],
         h.mt \in Int, h.read \in Nat, mtime[h.file] \in Nat, mtime'[h.file] \in Nat
  PROVE  OpOK(h)'
<1>1. /\ findTab(h)' <=> findTab(h)
      /\ Editable(h.file)' <=> Editable(h.file)
      /\ tab'[h.file].loading = tab[h.file].loading
      /\ \A k : Covered(h.file, k)' <=> Covered(h.file, k)
  BY DEF SameTab, SameButContent, findTab, Editable, Covered
<1>2. Overlaps(h)' <=> Overlaps(h)
  BY DEF SameTab, Overlaps
<1>3. OfTab(h) => OfTab(h)'
  BY <1>1, <1>2 DEF OfTab, SameTab
<1>4. h.gen <= tab'[h.file].gen
  BY DEF OpOK, SameTab, SameButContent
<1>5. Carries(h)'
  BY DEF OpOK, Carries
<1>6. Past(h)'
  BY DEF OpOK, Past
<1>7. QED
  BY <1>1, <1>3, <1>4, <1>5, <1>6 DEF OpOK

LEMMA MovedHandler ==
  ASSUME NEW h \in OpType, Moves(h.file), OpOK(h), Careful(h.file) \/ ~Waits(h),
         MtimeGrows, mtime \in [Files -> Nat], mtime' \in [Files -> Nat],
         seen \in [Files -> Written], seen' \in [Files -> Written], EditorAssumption
  PROVE  OpOK(h)'
<1>1. /\ h.file \in Files /\ h.mt \in Int /\ h.base \in Stamps
      /\ h.read \in Written /\ h.read \in Nat /\ h.read \in Stamps /\ h.base \in Stamps
  BY DEF OpType, Written, Stamps, Null
<1>2. Carries(h)'
  BY DEF OpOK, Carries
<1>3. Past(h)'
  BY <1>1 DEF OpOK, MtimeGrows, Past
<1>4. h.gen <= tab'[h.file].gen
  BY DEF OpOK, Moves
<1>5. ASSUME findTab(h)' PROVE OfTab(h)'
  <2>1. findTab(h) /\ OfTab(h)
    BY <1>5 DEF findTab, Moves, Editable, OpOK
  <2>2. h.kind # "load" /\ Editable(h.file)'
    BY <2>1 DEF OfTab, Moves, Editable
  <2>3. Overlaps(h) /\ Careful(h.file) => Overlaps(h)'
    BY DEF Overlaps, Careful
  <2>4. h.kind = "save" \/ (h.kind = "reopen" /\ h.pc = "both") => Overlaps(h)'
    BY <2>1, <2>3 DEF OfTab, Waits
  <2>5. h.kind = "save" =>
          Covered(h.file, IF h.pc \in {"check", "compare"} THEN h.base ELSE h.read)'
    BY <1>1, <2>1 DEF OfTab, Moves
  <2>6. /\ h.kind = "save" /\ h.pc \in {"stat", "saved"} => h.read <= seen'[h.file]
        /\ h.kind = "sync" /\ h.pc = "prompt" => h.mt <= seen'[h.file]
    <3>1. h.read \in Nat /\ seen[h.file] \in Nat /\ seen'[h.file] \in Nat
      BY <1>1 DEF Written, Stamps, Null
    <3>2. QED
      BY <1>1, <2>1, <3>1 DEF OfTab, Moves
  <2>7. QED
    BY <2>2, <2>4, <2>5, <2>6 DEF OfTab
<1>6. QED
  BY <1>2, <1>3, <1>4, <1>5 DEF OpOK

LEMMA StaleHandler ==
  ASSUME NEW h \in OpType, OpOK(h), ~findTab(h)', tab[h.file].gen <= tab'[h.file].gen,
         tab \in [Files -> TabType], tab' \in [Files -> TabType], EditorAssumption,
         MtimeGrows, mtime \in [Files -> Nat], mtime' \in [Files -> Nat]
  PROVE  OpOK(h)'
<1>1. /\ h.file \in Files /\ h.mt \in Int /\ h.read \in Nat /\ h.gen \in Nat
      /\ tab[h.file].gen \in Nat /\ tab'[h.file].gen \in Nat
      /\ mtime[h.file] \in Nat /\ mtime'[h.file] \in Nat
  BY DEF OpType, Written, Stamps, Null, TabType, EditorAssumption
<1>2. Carries(h)' /\ h.gen <= tab'[h.file].gen
  BY <1>1 DEF OpOK, Carries
<1>3. Past(h)'
  BY <1>1 DEF OpOK, MtimeGrows, Past
<1>4. QED
  BY <1>2, <1>3 DEF OpOK

LEMMA InvTypes ==
  ASSUME EditorAssumption, BufferType
  PROVE  /\ mtime \in [Files -> Nat] /\ tab \in [Files -> TabType]
         /\ seen \in [Files -> Written] /\ typed \in [Files -> BOOLEAN]
         /\ ops \subseteq OpType
         /\ \A f \in Files : mtime[f] \in Written /\ seen[f] \in Nat /\ tab[f].gen \in Nat
BY DEF BufferType, StoreType, SeenType, EditorAssumption, Written, Stamps, Null, TabType

----------------------------------------------------------------------------
(* The handlers that remain. *)

\* No handler finds its tab that did not find it before.
FindKept == \A h \in OpType : findTab(h)' => findTab(h)

Kept == \A h \in OpType : OpOK(h) /\ (h \in ops \cap ops' \/ h = compare) => OpOK(h)'

LEMMA SameKeeps ==
  ASSUME EditorAssumption, BufferInv, BufferType', MtimeGrows, SameTabs
  PROVE  Kept /\ FindKept /\ \A f \in Files : TabOK(f)'
<1>1. \A h \in OpType : h.file \in Files /\ h.mt \in Int /\ h.read \in Nat
  BY DEF OpType, Written, Stamps, Null
<1>2. mtime \in [Files -> Nat] /\ mtime' \in [Files -> Nat] /\ ops \subseteq OpType
  BY DEF BufferInv, BufferType, StoreType
<1>3. \A f \in Files : mtime[f] <= mtime'[f] /\ mtime[f] \in Nat /\ mtime'[f] \in Nat
  BY <1>2 DEF MtimeGrows
<1>4. \A h \in OpType : OpOK(h) => OpOK(h)'
  BY <1>1, <1>3, SameHandler DEF SameTabs
<1>5. FindKept
  BY <1>1 DEF SameTabs, SameTab, SameButContent, findTab, FindKept
<1>6. \A f \in Files : TabOK(f)'
  BY SameTabOK DEF SameTabs, BufferInv
<1>7. QED
  BY <1>4, <1>5, <1>6 DEF Kept

LEMMA MoveKeeps ==
  ASSUME EditorAssumption, BufferInv, BufferType', MtimeGrows, NEW f \in Files, OtherTabs(f),
         Moves(f), TabOK(f)', Careful(f) \/ \A h \in ops : h.file = f => ~Waits(h)
  PROVE  Kept /\ FindKept /\ \A g \in Files : TabOK(g)'
<1>1. \A h \in OpType : h.file \in Files /\ h.mt \in Int /\ h.read \in Nat
  BY DEF OpType, Written, Stamps, Null
<1>2. /\ mtime \in [Files -> Nat] /\ mtime' \in [Files -> Nat] /\ ops \subseteq OpType
      /\ seen \in [Files -> Written] /\ seen' \in [Files -> Written]
  BY DEF BufferInv, BufferType, StoreType, SeenType
<1>3. \A g \in Files : mtime[g] <= mtime'[g] /\ mtime[g] \in Nat /\ mtime'[g] \in Nat
  BY <1>2 DEF MtimeGrows
<1>4. \A h \in OpType : OpOK(h) /\ h.file # f => OpOK(h)'
  BY <1>1, <1>3, SameHandler DEF OtherTabs
<1>5. \A h \in OpType : OpOK(h) /\ h.file = f /\ (Careful(f) \/ ~Waits(h)) => OpOK(h)'
  BY <1>2, MovedHandler
<1>6. FindKept
  BY <1>1 DEF OtherTabs, SameTab, SameButContent, findTab, FindKept, Moves, Editable
<1>7. \A g \in Files : TabOK(g)'
  BY SameTabOK DEF OtherTabs, BufferInv
<1>8. \A h \in OpType : h = compare => ~Waits(h)
  BY DEF BufferInv, Dialogs, Waits, OpType, NoOp
<1>9. QED
  BY <1>4, <1>5, <1>6, <1>7, <1>8 DEF Kept

\* A tab is closed, opened again or loaded: only its load, if any, finds it.
LEMMA GoneKeeps ==
  ASSUME EditorAssumption, BufferInv, BufferType', MtimeGrows, NEW f \in Files, OtherTabs(f),
         TabOK(f)', tab[f].gen <= tab'[f].gen,
         \A h \in OpType : OpOK(h) /\ h.file = f /\ (h \in ops \cap ops' \/ h.kind = "sync") =>
            ~findTab(h)'
  PROVE  Kept /\ \A g \in Files : TabOK(g)'
<1>1. \A h \in OpType : h.file \in Files /\ h.mt \in Int /\ h.read \in Nat
  BY DEF OpType, Written, Stamps, Null
<1>2. /\ mtime \in [Files -> Nat] /\ mtime' \in [Files -> Nat] /\ ops \subseteq OpType
      /\ tab \in [Files -> TabType] /\ tab' \in [Files -> TabType]
  BY DEF BufferInv, BufferType, StoreType, SeenType
<1>3. \A g \in Files : mtime[g] <= mtime'[g] /\ mtime[g] \in Nat /\ mtime'[g] \in Nat
  BY <1>2 DEF MtimeGrows
<1>4. \A h \in OpType : OpOK(h) /\ h.file # f => OpOK(h)'
  BY <1>1, <1>3, SameHandler DEF OtherTabs
<1>5. \A h \in OpType : OpOK(h) /\ h.file = f /\ ~findTab(h)' => OpOK(h)'
  BY <1>2, StaleHandler
<1>6. \A g \in Files : TabOK(g)'
  BY SameTabOK DEF OtherTabs, BufferInv
<1>7. \A h \in OpType : h = compare => h.kind = "sync"
  BY DEF BufferInv, Dialogs, OpType, NoOp
<1>8. QED
  BY <1>4, <1>5, <1>6, <1>7 DEF Kept

----------------------------------------------------------------------------
(* A tab is loaded by one handler at most. *)

LEMMA NoNewLoad ==
  ASSUME BufferInv, FindKept, \A h \in ops' : h.kind = "load" => h \in ops
  PROVE  OneLoad'
BY DEF BufferInv, BufferType, StoreType, OneLoad, FindKept

LEMMA LoadGoesOn ==
  ASSUME BufferInv, FindKept, NEW op \in ops, NEW n \in OpType, ops' = (ops \ {op}) \cup {n},
         n.kind = op.kind, n.file = op.file, n.gen = op.gen
  PROVE  OneLoad'
<1>1. findTab(n)' => findTab(op)
  BY DEF FindKept, findTab
<1>2. \A h \in ops : findTab(h)' => findTab(h)
  BY DEF BufferInv, BufferType, StoreType, FindKept
<1>3. QED
  BY <1>1, <1>2 DEF BufferInv, OneLoad

LEMMA LoadBegins ==
  ASSUME BufferInv, NEW n \in OpType, ops' = ops \cup {n}, OtherTabs(n.file),
         \A h \in ops : h.file = n.file => ~findTab(h)'
  PROVE  OneLoad'
<1>1. \A h \in ops : findTab(h)' => findTab(h) /\ h.file # n.file
  BY DEF BufferInv, BufferType, StoreType, OpType, OtherTabs, SameTab, SameButContent, findTab
<1>2. QED
  BY <1>1 DEF BufferInv, OneLoad

----------------------------------------------------------------------------
(* The dialogs. *)

LEMMA DialogsKept ==
  ASSUME BufferInv, choice' \in {choice, NoOp}, compare' \in {compare, NoOp}, Kept,
         choice' # NoOp => \A h \in ops \ ops' : h.pc # "prompt"
  PROVE  Dialogs'
<1>1. choice' # NoOp => choice' \in ops' /\ choice'.pc = "prompt"
  BY DEF BufferInv, Dialogs
<1>2. ASSUME compare' # NoOp
      PROVE  compare' \in OpType /\ compare'.kind = "sync" /\ compare'.pc = "prompt"
             /\ OpOK(compare)'
  <2>1. PICK h : h = compare
    OBVIOUS
  <2>2. /\ compare' = h /\ h \in OpType /\ h.kind = "sync" /\ h.pc = "prompt" /\ OpOK(h)
    BY <1>2, <2>1 DEF BufferInv, Dialogs
  <2>3. OpOK(h)'
    BY <2>1, <2>2 DEF Kept
  <2>4. QED
    BY <2>2, <2>3
<1>3. QED
  BY <1>1, <1>2 DEF Dialogs

----------------------------------------------------------------------------
(* Writes are announced. *)

Begun(h) == h.kind = "save" /\ h.pc \in {"check", "compare"}

LEMMA UnwrittenFinite ==
  ASSUME BufferType, NEW f
  PROVE  IsFiniteSet(Unwritten(f)) /\ Cardinality(Unwritten(f)) \in Nat
BY FS_Subset, FS_CardinalityType DEF BufferType, StoreType, Unwritten

LEMMA NoNewWrite ==
  ASSUME EditorAssumption, BufferInv, mtime' = mtime, BufferType',
         \A h \in ops' : Begun(h) => h \in ops
  PROVE  WritesFit'
<1>1. SUFFICES ASSUME NEW f \in Files PROVE mtime[f] + Cardinality(Unwritten(f)') <= MaxWrites
  BY DEF WritesFit
<1>2. Unwritten(f)' \subseteq Unwritten(f)
  BY DEF Unwritten, Begun
<1>3. /\ Cardinality(Unwritten(f)') <= Cardinality(Unwritten(f))
      /\ Cardinality(Unwritten(f)') \in Nat /\ Cardinality(Unwritten(f)) \in Nat
  BY <1>2, UnwrittenFinite, FS_Subset, FS_CardinalityType DEF BufferInv
<1>4. mtime[f] + Cardinality(Unwritten(f)) <= MaxWrites /\ mtime[f] \in Nat
  BY InvTypes DEF BufferInv, WritesFit, BufferType, StoreType
<1>5. QED
  BY <1>3, <1>4 DEF EditorAssumption

LEMMA InFlightCounts ==
  ASSUME BufferType, NEW f \in Files
  PROVE  /\ Cardinality(Unwritten(f)) <= Cardinality(InFlight("save", f))
         /\ Cardinality(Unwritten(f)) \in Nat /\ Cardinality(InFlight("save", f)) \in Nat
<1>1. Unwritten(f) \subseteq InFlight("save", f) /\ InFlight("save", f) \subseteq ops
  BY DEF Unwritten, InFlight
<1>2. QED
  BY <1>1, FS_Subset, FS_CardinalityType DEF BufferType, StoreType

LEMMA SaveBegins ==
  ASSUME EditorAssumption, BufferInv, mtime' = mtime, BufferType', NEW n \in OpType,
         ops' = ops \cup {n}, mtime[n.file] + Cardinality(InFlight("save", n.file)) < MaxWrites
  PROVE  WritesFit'
<1>1. SUFFICES ASSUME NEW f \in Files PROVE mtime[f] + Cardinality(Unwritten(f)') <= MaxWrites
  BY DEF WritesFit
<1>2. mtime[f] + Cardinality(Unwritten(f)) <= MaxWrites /\ mtime[f] \in Nat
  BY InvTypes DEF BufferInv, WritesFit, BufferType, StoreType
<1>3. MaxWrites \in Nat
  BY DEF EditorAssumption
<1>4. CASE n.file # f
  <2>1. Unwritten(f)' = Unwritten(f)
    BY <1>4 DEF Unwritten
  <2>2. QED
    BY <2>1, <1>2
<1>5. CASE n.file = f
  <2>1. Unwritten(f)' \subseteq Unwritten(f) \cup {n}
    BY DEF Unwritten
  <2>5. IsFiniteSet(Unwritten(f)) /\ Cardinality(Unwritten(f)) \in Nat
    BY UnwrittenFinite DEF BufferInv
  <2>6. /\ IsFiniteSet(Unwritten(f) \cup {n})
        /\ \/ Cardinality(Unwritten(f) \cup {n}) = Cardinality(Unwritten(f))
           \/ Cardinality(Unwritten(f) \cup {n}) = Cardinality(Unwritten(f)) + 1
    BY <2>5, FS_AddElement
  <2>2. /\ Cardinality(Unwritten(f) \cup {n}) <= Cardinality(Unwritten(f)) + 1
        /\ IsFiniteSet(Unwritten(f) \cup {n})
        /\ Cardinality(Unwritten(f) \cup {n}) \in Nat
    BY <2>5, <2>6
  <2>3. Cardinality(Unwritten(f)') <= Cardinality(Unwritten(f) \cup {n})
        /\ Cardinality(Unwritten(f)') \in Nat
    BY <2>1, <2>2, FS_Subset, FS_CardinalityType
  <2>4. QED
    BY <1>2, <1>3, <1>5, <2>2, <2>3, InFlightCounts DEF BufferInv
<1>6. QED
  BY <1>4, <1>5

LEMMA OpsTypes ==
  ASSUME BufferType, StoreType', NEW S, NEW N, N = {} \/ \E n \in OpType : N = {n},
         ops' = (ops \ S) \cup N
  PROVE  BufferType'
<1>1. IsFiniteSet(ops \ S)
  BY FS_Subset DEF BufferType
<1>2. IsFiniteSet(N)
  BY FS_EmptySet, FS_Singleton
<1>3. IsFiniteSet(ops')
  BY <1>1, <1>2, FS_Union
<1>4. ops' \subseteq OpType
  BY DEF BufferType
<1>5. QED
  BY <1>3, <1>4 DEF BufferType

\* A step of the handlers S after which the handlers N wait, and that writes no file.
LEMMA QuietStep ==
  ASSUME EditorAssumption, BufferInv, BufferType', mtime' = mtime,
         Kept, FindKept, \A f \in Files : TabOK(f)',
         NEW S, NEW N, ops' = (ops \ S) \cup N,
         \A n \in N : n.kind # "load" /\ ~Begun(n) /\ OpOK(n)',
         choice' \in {choice, NoOp}, compare' \in {compare, NoOp},
         choice' # NoOp => \A s \in S : s.pc # "prompt"
  PROVE  BufferInv'
<1>1. WritesFit'
  BY NoNewWrite
<1>2. OneLoad'
  BY NoNewLoad
<1>3. Dialogs'
  BY DialogsKept
<1>4. \A h \in ops' : OpOK(h)'
  BY DEF BufferInv, BufferType, Kept
<1>5. QED
  BY <1>1, <1>2, <1>3, <1>4 DEF BufferInv

LEMMA SameStep ==
  ASSUME EditorAssumption, BufferInv, StoreType', mtime' = mtime, SameTabs,
         NEW S, NEW N, N = {} \/ \E n \in OpType : N = {n}, ops' = (ops \ S) \cup N,
         \A n \in N : n.kind # "load" /\ ~Begun(n) /\ OpOK(n)',
         choice' \in {choice, NoOp}, compare' \in {compare, NoOp},
         choice' # NoOp => \A s \in S : s.pc # "prompt"
  PROVE  BufferInv'
<1>1. BufferType'
  BY OpsTypes DEF BufferInv
<1>2. MtimeGrows
  BY InvTypes DEF MtimeGrows, BufferInv
<1>3. Kept /\ FindKept /\ \A f \in Files : TabOK(f)'
  BY <1>1, <1>2, SameKeeps
<1>4. QED
  BY <1>1, <1>3, QuietStep

\* A handler ends and changes nothing.
LEMMA EndStep ==
  ASSUME EditorAssumption, BufferInv, StoreType', mtime' = mtime, SameTabs,
         NEW op \in ops, ops' = ops \ {op},
         choice' \in {choice, NoOp}, compare' \in {compare, NoOp},
         choice' # NoOp => op.pc # "prompt"
  PROVE  BufferInv'
<1>1. PICK S, N : S = {op} /\ N = {}
  OBVIOUS
<1>2. /\ ops' = (ops \ S) \cup N /\ \A n \in N : n.kind # "load" /\ ~Begun(n) /\ OpOK(n)'
      /\ choice' # NoOp => \A s \in S : s.pc # "prompt"
  BY <1>1
<1>3. QED
  BY <1>1, <1>2, SameStep

\* A handler goes on and changes nothing else.
LEMMA GoOnStep ==
  ASSUME EditorAssumption, BufferInv, StoreType', mtime' = mtime, SameTabs,
         NEW op \in ops, NEW n \in OpType, ops' = (ops \ {op}) \cup {n},
         n.kind # "load", ~Begun(n), OpOK(n)',
         choice' \in {choice, NoOp}, compare' \in {compare, NoOp},
         choice' # NoOp => op.pc # "prompt"
  PROVE  BufferInv'
<1>1. PICK S, N : S = {op} /\ N = {n}
  OBVIOUS
<1>2. /\ ops' = (ops \ S) \cup N /\ \A m \in N : m.kind # "load" /\ ~Begun(m) /\ OpOK(m)'
      /\ choice' # NoOp => \A s \in S : s.pc # "prompt"
  BY <1>1
<1>3. QED
  BY <1>1, <1>2, SameStep

----------------------------------------------------------------------------
(* The steps that leave every tab as it is. *)

LEMMA StoreSame ==
  ASSUME tab' = tab, live' = live, typed' = typed, overlap' = overlap, seen' = seen,
         ahead' = ahead
  PROVE  SameTabs
BY DEF SameTabs, SameTab, SameButContent, resolveTabContent

\* What the handlers of a call that is answered or fails leave as it is.
TabsStay ==
    UNCHANGED <<settings, disk, mtime, tab, live, bound, fresh, typed, overlap, seen, ahead>>

LEMMA TabsStayTypes ==
  ASSUME BufferInv, TabsStay, asking' \in Files \cup {NoFile}
  PROVE  StoreType' /\ mtime' = mtime /\ SameTabs
BY StoreSame DEF BufferInv, BufferType, StoreType, SeenType, TabsStay

LEMMA EndsKeep ==
  ASSUME EditorAssumption, BufferInv, NEW op \in ops,
         \/ SaveRefused(op) \/ SaveConflict(op) \/ SaveFails(op)
         \/ SyncFails(op) \/ SyncSkip(op) \/ ChooseNothing(op)
  PROVE  BufferInv'
<1>1. TabsStay /\ ops' = ops \ {op} /\ compare' = compare
  BY DEF SaveRefused, SaveConflict, SaveFails, SyncFails, SyncSkip, ChooseNothing, End, TabsStay
<1>2. op.file \in Files
  BY DEF BufferInv, BufferType, OpType
<1>3. asking' \in Files \cup {NoFile}
  BY <1>2 DEF SaveRefused, SaveConflict, SaveFails, SyncFails, SyncSkip, ChooseNothing,
              AfterFailedSave, BufferInv, BufferType, StoreType
<1>4. choice' \in {choice, NoOp} /\ (choice' # NoOp => op.pc # "prompt")
  BY DEF SaveRefused, SaveConflict, SaveFails, SyncFails, SyncSkip, ChooseNothing
<1>5. QED
  BY <1>1, <1>3, <1>4, TabsStayTypes, EndStep

LEMMA StaysOK ==
  ASSUME TabsStay, NEW n, OpOK(n)
  PROVE  OpOK(n)'
BY DEF TabsStay, OpOK, Past, Carries, OfTab, Overlaps, Covered, findTab, Editable, resolveTabContent

LEMMA HandlerFacts ==
  ASSUME EditorAssumption, BufferInv, NEW op \in ops
  PROVE  /\ op \in OpType /\ OpOK(op) /\ op.file \in Files
         /\ mtime[op.file] \in Written /\ mtime[op.file] \in Stamps /\ mtime[op.file] # None /\ mtime[op.file] \in Nat
         /\ op.mt \in Int /\ op.read \in Nat /\ disk[op.file] \in Texts
         /\ disk[op.file] # None
BY TextTypes DEF BufferInv, BufferType, StoreType, OpType, Written, Stamps, Null, None, EditorAssumption

\* file_mtime answers with an mtime or with none.
LEMMA MtimeAnswers ==
  ASSUME EditorAssumption, BufferInv, NEW f \in Files
  PROVE  FileMtime(f) \subseteq Stamps
BY DEF FileMtime, BufferInv, BufferType, StoreType, Stamps, Null, EditorAssumption

LEMMA SaveStatKeeps ==
  ASSUME EditorAssumption, BufferInv, NEW op \in ops, SaveStat(op)
  PROVE  BufferInv'
<1>0. PICK mt \in FileMtime(op.file) :
         ops' = (ops \ {op}) \cup {[op EXCEPT !.pc = "saved", !.mt = mt]}
  BY DEF SaveStat, Continue
<1>1. PICK n : n = [op EXCEPT !.pc = "saved", !.mt = mt] /\ ops' = (ops \ {op}) \cup {n}
  BY <1>0
<1>2. /\ TabsStay /\ asking' = asking
      /\ choice' = choice /\ compare' = compare /\ op.kind = "save" /\ op.pc = "stat"
  BY DEF SaveStat, TabsStay
<1>3. /\ n \in OpType /\ n.kind = op.kind /\ n.file = op.file /\ n.gen = op.gen /\ n.pc = "saved"
      /\ n.raw = op.raw /\ n.text = op.text /\ n.base = op.base
      /\ n.read = op.read
  <2>1. mt \in Stamps /\ op \in OpType
    BY <1>0, HandlerFacts, MtimeAnswers
  <2>2. QED
    BY <1>1, <2>1, ZenonT(60) DEF OpType
<1>4. OpOK(n)
  BY <1>2, <1>3, HandlerFacts DEF OpOK, Past, Carries, OfTab, Overlaps, findTab
<1>5. OpOK(n)' /\ ~Begun(n)
  BY <1>2, <1>3, <1>4, StaysOK DEF Begun
<1>6. QED
  BY <1>1, <1>2, <1>3, <1>5, TabsStayTypes, GoOnStep DEF BufferInv, BufferType, StoreType

LEMMA HydrateStatKeeps ==
  ASSUME EditorAssumption, BufferInv, NEW op \in ops, HydrateStat(op)
  PROVE  BufferInv'
<1>0. PICK mt \in FileMtime(op.file) :
         ops' = (ops \ {op}) \cup {[op EXCEPT !.pc = "answered", !.mt = mt]}
  BY DEF HydrateStat, Continue
<1>1. PICK n : n = [op EXCEPT !.pc = "answered", !.mt = mt] /\ ops' = (ops \ {op}) \cup {n}
  BY <1>0
<1>2. /\ TabsStay /\ asking' = asking
      /\ choice' = choice /\ compare' = compare /\ op.kind = "hydrate" /\ op.pc = "stat"
  BY DEF HydrateStat, TabsStay
<1>3. /\ n \in OpType /\ n.kind = op.kind /\ n.file = op.file /\ n.gen = op.gen
      /\ n.pc = "answered" /\ n.read = op.read
  <2>1. mt \in Stamps /\ op \in OpType
    BY <1>0, HandlerFacts, MtimeAnswers
  <2>2. QED
    BY <1>1, <2>1, ZenonT(60) DEF OpType
<1>4. OpOK(n)
  BY <1>2, <1>3, HandlerFacts DEF OpOK, Past, Carries, OfTab, findTab
<1>5. OpOK(n)' /\ ~Begun(n)
  BY <1>2, <1>3, <1>4, StaysOK DEF Begun
<1>6. QED
  BY <1>1, <1>2, <1>3, <1>5, TabsStayTypes, GoOnStep DEF BufferInv, BufferType, StoreType

LEMMA SyncStatKeeps ==
  ASSUME EditorAssumption, BufferInv, NEW op \in ops, SyncStat(op)
  PROVE  BufferInv'
<1>1. PICK n : n = [op EXCEPT !.pc = "read", !.mt = mtime[op.file]]
  OBVIOUS
<1>2. /\ TabsStay /\ asking' = asking /\ choice' = choice /\ compare' = compare
      /\ op.kind = "sync" /\ op.pc = "stat"
      /\ ops' = ops \ {op} \/ ops' = (ops \ {op}) \cup {n}
  BY <1>1 DEF SyncStat, Continue, End, TabsStay
<1>3. /\ n \in OpType /\ n.kind = op.kind /\ n.file = op.file /\ n.gen = op.gen /\ n.pc = "read"
      /\ n.mt = mtime[op.file] /\ n.read = op.read
  <2>1. PICK mt : mt = mtime[op.file]
    OBVIOUS
  <2>2. mt \in Stamps /\ op \in OpType /\ n = [op EXCEPT !.pc = "read", !.mt = mt]
    BY <1>1, <2>1, HandlerFacts
  <2>3. /\ n \in OpType /\ n.kind = op.kind /\ n.file = op.file /\ n.gen = op.gen /\ n.pc = "read"
        /\ n.mt = mt /\ n.read = op.read
    BY <2>2, ZenonT(60) DEF OpType
  <2>4. QED
    BY <2>1, <2>3
<1>4. OpOK(n)
  BY <1>2, <1>3, HandlerFacts DEF OpOK, Past, Carries, OfTab, Overlaps, findTab
<1>5. OpOK(n)' /\ ~Begun(n)
  BY <1>2, <1>3, <1>4, StaysOK DEF Begun
<1>6. StoreType' /\ mtime' = mtime /\ SameTabs
  BY <1>2, TabsStayTypes DEF BufferInv, BufferType, StoreType
<1>7. CASE ops' = ops \ {op}
  BY <1>2, <1>6, <1>7, EndStep
<1>8. CASE ops' = (ops \ {op}) \cup {n}
  BY <1>2, <1>3, <1>5, <1>6, <1>8, GoOnStep
<1>9. QED
  BY <1>2, <1>7, <1>8

LEMMA SyncReadKeeps ==
  ASSUME EditorAssumption, BufferInv, NEW op \in ops, SyncRead(op)
  PROVE  BufferInv'
<1>1. PICK n : n = [op EXCEPT !.pc = "decide", !.text = disk[op.file], !.read = mtime[op.file]]
  OBVIOUS
<1>2. /\ TabsStay /\ ops' = (ops \ {op}) \cup {n} /\ asking' = asking
      /\ choice' = choice /\ compare' = compare /\ op.kind = "sync" /\ op.pc = "read"
  BY <1>1 DEF SyncRead, Continue, TabsStay
<1>3. /\ n \in OpType /\ n.kind = op.kind /\ n.file = op.file /\ n.gen = op.gen
      /\ n.pc = "decide" /\ n.mt = op.mt /\ n.read = mtime[op.file] /\ n.text = disk[op.file]
  <2>1. PICK text, read : text = disk[op.file] /\ read = mtime[op.file]
    OBVIOUS
  <2>2. /\ text \in Texts /\ read \in Written /\ op \in OpType
        /\ n = [op EXCEPT !.pc = "decide", !.text = text, !.read = read]
    BY <1>1, <2>1, HandlerFacts
  <2>3. /\ n \in OpType /\ n.kind = op.kind /\ n.file = op.file /\ n.gen = op.gen
        /\ n.pc = "decide" /\ n.mt = op.mt /\ n.read = read /\ n.text = text
    BY <2>2, ZenonT(60) DEF OpType
  <2>4. QED
    BY <2>1, <2>3
<1>4. OpOK(n)
  BY <1>2, <1>3, HandlerFacts DEF OpOK, Past, Carries, OfTab, Overlaps, findTab
<1>5. OpOK(n)' /\ ~Begun(n)
  BY <1>2, <1>3, <1>4, StaysOK DEF Begun
<1>6. QED
  BY <1>2, <1>3, <1>5, TabsStayTypes, GoOnStep DEF BufferInv, BufferType, StoreType

LEMMA ReopenAnswersKeeps ==
  ASSUME EditorAssumption, BufferInv, NEW op \in ops, ReopenAnswers(op)
  PROVE  BufferInv'
<1>1. PICK n : /\ \/ \E mt \in FileMtime(op.file) : n = [op EXCEPT !.mt = mt]
                  \/ n = [op EXCEPT !.text = disk[op.file], !.read = mtime[op.file]]
               /\ ops' = (ops \ {op}) \cup {n}
  BY DEF ReopenAnswers, Continue
<1>2. /\ TabsStay /\ asking' = asking
      /\ choice' = choice /\ compare' = compare /\ op.kind = "reopen" /\ op.pc = "both"
  BY DEF ReopenAnswers, TabsStay
<1>3. /\ n \in OpType /\ n.kind = op.kind /\ n.file = op.file /\ n.gen = op.gen /\ n.pc = op.pc
      /\ n.read = op.read \/ n.read = mtime[op.file]
  <2>1. ASSUME NEW mt \in Stamps, n = [op EXCEPT !.mt = mt]
        PROVE  /\ n \in OpType /\ n.kind = op.kind /\ n.file = op.file /\ n.gen = op.gen
               /\ n.pc = op.pc /\ n.read = op.read
    BY <2>1, HandlerFacts, ZenonT(60) DEF OpType
  <2>2. ASSUME NEW text \in Texts, NEW read \in Written,
               n = [op EXCEPT !.text = text, !.read = read]
        PROVE  /\ n \in OpType /\ n.kind = op.kind /\ n.file = op.file /\ n.gen = op.gen
               /\ n.pc = op.pc /\ n.read = read
    BY <2>2, HandlerFacts, ZenonT(60) DEF OpType
  <2>3. QED
    BY <1>1, <2>1, <2>2, HandlerFacts, MtimeAnswers
<1>4. OpOK(n)
  BY <1>2, <1>3, HandlerFacts DEF OpOK, Past, Carries, OfTab, Overlaps, findTab
<1>5. OpOK(n)' /\ ~Begun(n)
  BY <1>2, <1>3, <1>4, StaysOK DEF Begun
<1>6. QED
  BY <1>1, <1>2, <1>3, <1>5, TabsStayTypes, GoOnStep DEF BufferInv, BufferType, StoreType

LEMMA SaveCheckKeeps ==
  ASSUME EditorAssumption, BufferInv, NEW op \in ops, SaveCheck(op)
  PROVE  BufferInv'
<1>1. PICK n : n = [op EXCEPT !.pc = "compare", !.mt = mtime[op.file], !.read = mtime[op.file]]
  OBVIOUS
<1>2. /\ TabsStay /\ ops' = (ops \ {op}) \cup {n} /\ asking' = asking
      /\ choice' = choice /\ compare' = compare /\ op.kind = "save" /\ op.pc = "check"
  BY <1>1 DEF SaveCheck, Continue, TabsStay
<1>3. /\ n \in OpType /\ n.kind = op.kind /\ n.file = op.file /\ n.gen = op.gen
      /\ n.pc = "compare" /\ n.mt = mtime[op.file] /\ n.read = mtime[op.file]
      /\ n.raw = op.raw /\ n.text = op.text /\ n.base = op.base
  <2>1. PICK m : m = mtime[op.file]
    OBVIOUS
  <2>2. m \in Stamps /\ m \in Written /\ op \in OpType
    BY <2>1, HandlerFacts
  <2>3. n = [op EXCEPT !.pc = "compare", !.mt = m, !.read = m]
    BY <1>1, <2>1
  <2>4. /\ n \in OpType /\ n.kind = op.kind /\ n.file = op.file /\ n.gen = op.gen
        /\ n.pc = "compare" /\ n.mt = m /\ n.read = m
        /\ n.raw = op.raw /\ n.text = op.text /\ n.base = op.base
    BY <2>2, <2>3, ZenonT(60) DEF OpType
  <2>5. QED
    BY <2>1, <2>4
<1>4. OpOK(n)
  BY <1>2, <1>3, HandlerFacts DEF OpOK, Past, Carries, OfTab, Overlaps, findTab
<1>5. OpOK(n)'
  BY <1>2, <1>3, <1>4, StaysOK
<1>6. StoreType' /\ mtime' = mtime /\ SameTabs
  BY <1>2, TabsStayTypes DEF BufferInv, BufferType, StoreType
<1>7. PICK S, N : S = {op} /\ N = {n} /\ ops' = (ops \ S) \cup N
  BY <1>2
<1>8. BufferType'
  BY <1>3, <1>6, <1>7, OpsTypes DEF BufferInv
<1>9. Kept /\ FindKept /\ \A f \in Files : TabOK(f)'
  BY <1>6, <1>8, SameKeeps, InvTypes DEF MtimeGrows, BufferInv
<1>10. WritesFit'
  <2>1. SUFFICES ASSUME NEW f \in Files
                 PROVE  Cardinality(Unwritten(f)') <= Cardinality(Unwritten(f))
                        /\ Cardinality(Unwritten(f)') \in Nat
    BY <1>6, InvTypes, UnwrittenFinite DEF BufferInv, WritesFit, EditorAssumption
  <2>2. CASE f # op.file
    <3>1. Unwritten(f)' = Unwritten(f)
      BY <1>2, <1>3, <2>2 DEF Unwritten
    <3>2. QED
      BY <3>1, UnwrittenFinite DEF BufferInv
  <2>3. CASE f = op.file
    <3>1. op \in Unwritten(f) /\ Unwritten(f)' = (Unwritten(f) \ {op}) \cup {n}
      BY <1>2, <1>3, <2>3 DEF Unwritten
    <3>2. /\ IsFiniteSet(Unwritten(f)) /\ Cardinality(Unwritten(f)) \in Nat
      BY UnwrittenFinite DEF BufferInv
    <3>3. /\ IsFiniteSet(Unwritten(f) \ {op})
          /\ Cardinality(Unwritten(f) \ {op}) = Cardinality(Unwritten(f)) - 1
      BY <3>1, <3>2, FS_RemoveElement
    <3>7. /\ IsFiniteSet((Unwritten(f) \ {op}) \cup {n})
          /\ \/ Cardinality((Unwritten(f) \ {op}) \cup {n}) = Cardinality(Unwritten(f) \ {op})
             \/ Cardinality((Unwritten(f) \ {op}) \cup {n})
                  = Cardinality(Unwritten(f) \ {op}) + 1
      BY <3>3, FS_AddElement
    <3>4. /\ IsFiniteSet(Unwritten(f)')
          /\ \/ Cardinality(Unwritten(f)') = Cardinality(Unwritten(f) \ {op})
             \/ Cardinality(Unwritten(f)') = Cardinality(Unwritten(f) \ {op}) + 1
      BY <3>1, <3>7
    <3>5. Cardinality(Unwritten(f)') \in Nat
      BY <3>4, FS_CardinalityType
    <3>6. QED
      BY <3>2, <3>3, <3>4, <3>5
  <2>4. QED
    BY <2>2, <2>3
<1>11. OneLoad' /\ Dialogs'
  BY <1>2, <1>3, <1>9, NoNewLoad, DialogsKept
<1>12. \A h \in ops' : OpOK(h)'
  BY <1>2, <1>5, <1>9 DEF BufferInv, BufferType, Kept
<1>13. QED
  BY <1>8, <1>9, <1>10, <1>11, <1>12 DEF BufferInv

LEMMA LoadAnswersKeep ==
  ASSUME EditorAssumption, BufferInv, NEW op \in ops, LoadStat(op) \/ LoadRead(op)
  PROVE  BufferInv'
<1>1. PICK n : /\ \/ /\ op.pc = "stat"
                     /\ \E mt \in FileMtime(op.file) : n = [op EXCEPT !.pc = "read", !.mt = mt]
                  \/ /\ op.pc = "read"
                     /\ n = [op EXCEPT !.pc = "answered", !.text = disk[op.file],
                                       !.read = mtime[op.file]]
               /\ ops' = (ops \ {op}) \cup {n}
  BY DEF LoadStat, LoadRead, Continue
<1>2. /\ TabsStay /\ asking' = asking
      /\ choice' = choice /\ compare' = compare /\ op.kind = "load" /\ op.pc \in {"stat", "read"}
  BY DEF LoadStat, LoadRead, TabsStay
<1>3. /\ n \in OpType /\ n.kind = op.kind /\ n.file = op.file /\ n.gen = op.gen
      /\ \/ op.pc = "stat" /\ n.pc = "read"
         \/ op.pc = "read" /\ n.pc = "answered" /\ n.text = disk[op.file]
      /\ n.read = op.read \/ n.read = mtime[op.file]
  <2>1. CASE op.pc = "stat"
    <3>1. PICK mt \in Stamps : n = [op EXCEPT !.pc = "read", !.mt = mt]
      BY <1>1, <2>1, HandlerFacts, MtimeAnswers
    <3>2. QED
      BY <2>1, <3>1, HandlerFacts, ZenonT(60) DEF OpType
  <2>2. CASE op.pc = "read"
    <3>1. n = [op EXCEPT !.pc = "answered", !.text = disk[op.file], !.read = mtime[op.file]]
      BY <1>1, <2>2
    <3>2. QED
      BY <2>2, <3>1, HandlerFacts, ZenonT(60) DEF OpType
  <2>3. QED
    BY <1>2, <2>1, <2>2
<1>4. OpOK(n)
  BY <1>2, <1>3, HandlerFacts DEF OpOK, Past, Carries, OfTab, Overlaps, findTab
<1>5. OpOK(n)' /\ ~Begun(n)
  BY <1>2, <1>3, <1>4, StaysOK DEF Begun
<1>6. StoreType' /\ mtime' = mtime /\ SameTabs
  BY <1>2, TabsStayTypes DEF BufferInv, BufferType, StoreType
<1>7. PICK S, N : S = {op} /\ N = {n} /\ ops' = (ops \ S) \cup N
  BY <1>1
<1>8. BufferType'
  BY <1>3, <1>6, <1>7, OpsTypes DEF BufferInv
<1>9. Kept /\ FindKept /\ \A f \in Files : TabOK(f)'
  BY <1>6, <1>8, SameKeeps, InvTypes DEF MtimeGrows, BufferInv
<1>10. OneLoad'
  BY <1>1, <1>3, <1>9, LoadGoesOn
<1>11. Dialogs' /\ WritesFit'
  BY <1>1, <1>2, <1>5, <1>6, <1>8, <1>9, DialogsKept, NoNewWrite
<1>12. \A h \in ops' : OpOK(h)'
  BY <1>1, <1>5, <1>9 DEF BufferInv, BufferType, Kept
<1>13. QED
  BY <1>8, <1>9, <1>10, <1>11, <1>12 DEF BufferInv

\* A step with no handler that leaves every tab as it is.
LEMMA NoHandlerStep ==
  ASSUME EditorAssumption, BufferInv, StoreType', mtime' = mtime, SameTabs, ops' = ops,
         choice' = choice, compare' \in {compare, NoOp}
  PROVE  BufferInv'
<1>1. PICK S, N : S = {} /\ N = {}
  OBVIOUS
<1>2. /\ ops' = (ops \ S) \cup N /\ (\A m \in N : m.kind # "load" /\ ~Begun(m) /\ OpOK(m)')
      /\ choice' # NoOp => \A s \in S : s.pc # "prompt"
  BY <1>1
<1>3. QED
  BY <1>1, <1>2, SameStep

LEMMA SmallSteps ==
  ASSUME EditorAssumption, BufferInv, NEW f \in Files, CancelClose(f) \/ SuppressExpires(f)
  PROVE  BufferInv'
<1>1. TabsStay /\ ops' = ops /\ choice' = choice /\ compare' = compare
      /\ asking' \in Files \cup {NoFile}
  BY DEF CancelClose, SuppressExpires, TabsStay, BufferInv, BufferType, StoreType
<1>2. QED
  BY <1>1, TabsStayTypes, NoHandlerStep

\* A file is written by another program.
LEMMA ExternalWriteKeeps ==
  ASSUME EditorAssumption, BufferInv, NEW f \in Files, ExternalWrite(f)
  PROVE  BufferInv'
<1>1. /\ fresh < MaxFresh /\ fresh' = fresh + 1
      /\ mtime[f] + Cardinality(InFlight("save", f)) < MaxWrites
      /\ disk' = [disk EXCEPT ![f] = Tidy(fresh + 1)] /\ mtime' = [mtime EXCEPT ![f] = @ + 1]
      /\ ops' = ops /\ choice' = choice /\ compare' = compare
      /\ UNCHANGED <<settings, tab, live, bound, asking, typed, overlap, seen, ahead>>
  BY DEF ExternalWrite, Fresh
<1>2. fresh \in Nat /\ fresh + 1 \in 0 .. MaxFresh /\ MaxWrites \in Nat
  BY <1>1 DEF BufferInv, BufferType, StoreType, EditorAssumption
<1>3. /\ Cardinality(Unwritten(f)) <= Cardinality(InFlight("save", f))
      /\ Cardinality(Unwritten(f)) \in Nat /\ Cardinality(InFlight("save", f)) \in Nat
      /\ mtime[f] \in Nat
  BY InFlightCounts, InvTypes DEF BufferInv
<1>4. mtime[f] + 1 \in 1 .. MaxWrites
  BY <1>1, <1>2, <1>3
<1>5. StoreType'
  <2>1. SeenType'
    BY <1>1, <1>4, InvTypes DEF BufferInv, BufferType, StoreType, SeenType
  <2>2. QED
    BY <1>1, <1>2, <1>4, <2>1, TextTypes DEF BufferInv, BufferType, StoreType
<1>6. BufferType' /\ SameTabs /\ MtimeGrows
  <2>1. BufferType'
    BY <1>1, <1>5 DEF BufferInv, BufferType
  <2>2. MtimeGrows
    BY <1>1, InvTypes DEF MtimeGrows, BufferInv, BufferType, StoreType
  <2>3. QED
    BY <1>1, <2>1, <2>2, StoreSame
<1>7. Kept /\ FindKept /\ \A g \in Files : TabOK(g)'
  BY <1>6, SameKeeps
<1>8. WritesFit'
  <2>1. SUFFICES ASSUME NEW g \in Files PROVE mtime'[g] + Cardinality(Unwritten(g)) <= MaxWrites
    BY <1>1 DEF WritesFit, Unwritten
  <2>2. CASE g = f
    BY <1>1, <1>2, <1>3, <2>2 DEF BufferInv, BufferType, StoreType
  <2>3. CASE g # f
    BY <1>1, <2>3 DEF BufferInv, BufferType, StoreType, WritesFit
  <2>4. QED
    BY <2>2, <2>3
<1>9. OneLoad' /\ Dialogs'
  BY <1>1, <1>7, NoNewLoad, DialogsKept
<1>10. \A h \in ops' : OpOK(h)'
  BY <1>1, <1>7 DEF BufferInv, BufferType, Kept
<1>11. QED
  BY <1>6, <1>7, <1>8, <1>9, <1>10 DEF BufferInv

----------------------------------------------------------------------------
(* Handlers that begin. *)

LEMMA OpIs ==
  ASSUME EditorAssumption, BufferInv, NEW f \in Files,
         NEW kind \in {"load", "hydrate", "save", "sync", "reopen"},
         NEW pc \in {"stat", "check", "both", "prompt"}
  PROVE  /\ Op(kind, f, pc) \in OpType
         /\ Op(kind, f, pc).kind = kind /\ Op(kind, f, pc).file = f
         /\ Op(kind, f, pc).pc = pc /\ Op(kind, f, pc).gen = tab[f].gen
         /\ Op(kind, f, pc).read = 0 /\ mtime[f] \in Nat
BY InvTypes DEF Op, OpType, BufferInv, Written, Stamps, Null, None, EditorAssumption

LEMMA SyncBegins ==
  ASSUME EditorAssumption, BufferInv, NEW f \in Files, syncOpenFileFromDisk(f), TabsStay,
         asking' = asking, choice' = choice, compare' = compare
  PROVE  BufferInv'
<1>1. StoreType' /\ mtime' = mtime /\ SameTabs
  BY TabsStayTypes DEF BufferInv, BufferType, StoreType
<1>2. CASE ops' = ops
  BY <1>1, <1>2, NoHandlerStep
<1>3. CASE Editable(f) /\ ops' = ops \cup {[Op("sync", f, "stat") EXCEPT !.base = tab[f].known]}
  <2>1. PICK n : n = [Op("sync", f, "stat") EXCEPT !.base = tab[f].known]
    OBVIOUS
  <2>2. tab[f].known \in Stamps /\ tab[f].gen \in Nat
    BY InvTypes DEF BufferInv, TabType
  <2>3. /\ n \in OpType /\ n.kind = "sync" /\ n.pc = "stat" /\ n.file = f
        /\ n.gen = tab[f].gen /\ n.read = 0 /\ mtime[f] \in Nat
    <3>1. PICK o, known : o = Op("sync", f, "stat") /\ known = tab[f].known
      OBVIOUS
    <3>2. /\ o \in OpType /\ o.kind = "sync" /\ o.pc = "stat" /\ o.file = f
          /\ o.gen = tab[f].gen /\ o.read = 0 /\ mtime[f] \in Nat /\ known \in Stamps
      BY <2>2, <3>1, OpIs
    <3>3. n = [o EXCEPT !.base = known]
      BY <2>1, <3>1
    <3>4. /\ n \in OpType /\ n.kind = o.kind /\ n.pc = o.pc /\ n.file = o.file
          /\ n.gen = o.gen /\ n.read = o.read
      BY <3>2, <3>3, ZenonT(60) DEF OpType
    <3>5. QED
      BY <3>2, <3>4
  <2>4. OpOK(n)
    BY <1>3, <2>2, <2>3 DEF OpOK, Past, Carries, OfTab, findTab
  <2>5. PICK S, N : S = {} /\ N = {n}
    OBVIOUS
  <2>6. /\ ops' = (ops \ S) \cup N /\ (\A m \in N : m.kind # "load" /\ ~Begun(m) /\ OpOK(m)')
        /\ choice' # NoOp => \A s \in S : s.pc # "prompt"
    BY <1>3, <2>1, <2>3, <2>4, <2>5, StaysOK DEF Begun
  <2>7. QED
    BY <1>1, <2>3, <2>5, <2>6, SameStep
<1>4. QED
  BY <1>2, <1>3 DEF syncOpenFileFromDisk

LEMMA SyncsBegin ==
  ASSUME EditorAssumption, BufferInv, NEW f \in Files,
         runPathContentSync(f) \/ syncOpenFilesOnFocus(f)
  PROVE  BufferInv'
<1>1. /\ syncOpenFileFromDisk(f) /\ TabsStay
      /\ asking' = asking /\ choice' = choice /\ compare' = compare
  BY DEF runPathContentSync, syncOpenFilesOnFocus, TabsStay
<1>2. QED
  BY <1>1, SyncBegins

LEMMA HydrateBegins ==
  ASSUME EditorAssumption, BufferInv, NEW f \in Files, loadMissingTabContents(f)
  PROVE  BufferInv'
<1>1. PICK n : n = Op("hydrate", f, "stat")
  OBVIOUS
<1>2. /\ Editable(f) /\ ops' = ops \cup {n} /\ TabsStay
      /\ asking' = asking /\ choice' = choice /\ compare' = compare
  BY <1>1 DEF loadMissingTabContents, TabsStay
<1>3. /\ n \in OpType /\ n.kind = "hydrate" /\ n.pc = "stat" /\ n.file = f
      /\ n.gen = tab[f].gen /\ n.read = 0 /\ mtime[f] \in Nat /\ tab[f].gen \in Nat
  BY <1>1, OpIs, InvTypes DEF BufferInv
<1>4. OpOK(n)
  BY <1>2, <1>3 DEF OpOK, Past, Carries, OfTab, findTab
<1>5. StoreType' /\ mtime' = mtime /\ SameTabs
  BY <1>2, TabsStayTypes DEF BufferInv, BufferType, StoreType
<1>6. PICK S, N : S = {} /\ N = {n}
  OBVIOUS
<1>7. /\ ops' = (ops \ S) \cup N /\ (\A m \in N : m.kind # "load" /\ ~Begun(m) /\ OpOK(m)')
      /\ choice' # NoOp => \A s \in S : s.pc # "prompt"
  BY <1>2, <1>3, <1>4, <1>6, StaysOK DEF Begun
<1>8. QED
  BY <1>2, <1>3, <1>5, <1>6, <1>7, SameStep

LEMMA ReopenKeeps ==
  ASSUME EditorAssumption, BufferInv, NEW f \in Files, reopenWithEncoding(f)
  PROVE  BufferInv'
<1>1. PICK n : n = Op("reopen", f, IF tab[f].dirty THEN "prompt" ELSE "both")
  OBVIOUS
<1>2. /\ NoDialog /\ Editable(f) /\ ops' = ops \cup {n}
      /\ choice' = (IF tab[f].dirty THEN n ELSE choice) /\ compare' = compare
      /\ TabsStay /\ asking' = asking
  BY <1>1 DEF reopenWithEncoding, TabsStay
<1>3. /\ n \in OpType /\ n.kind = "reopen" /\ n.file = f /\ n.gen = tab[f].gen
      /\ n.pc = (IF tab[f].dirty THEN "prompt" ELSE "both") /\ n.read = 0 /\ mtime[f] \in Nat
  BY <1>1, OpIs
<1>4. OpOK(n)
  <2>1. TabOK(f) /\ tab[f].gen \in Nat
    BY InvTypes DEF BufferInv
  <2>2. ~tab[f].dirty => Overlaps(n)
    BY <1>3, <2>1 DEF Overlaps, TabOK
  <2>3. QED
    BY <1>2, <1>3, <2>1, <2>2 DEF OpOK, Past, Carries, OfTab, findTab
<1>5. StoreType' /\ mtime' = mtime /\ SameTabs
  BY <1>2, TabsStayTypes DEF BufferInv, BufferType, StoreType
<1>6. PICK S, N : S = {} /\ N = {n}
  OBVIOUS
<1>7. BufferType'
  <2>1. ops' = (ops \ S) \cup N
    BY <1>2, <1>6
  <2>2. QED
    BY <1>3, <1>5, <1>6, <2>1, OpsTypes DEF BufferInv
<1>8. Kept /\ FindKept /\ \A g \in Files : TabOK(g)'
  BY <1>5, <1>7, SameKeeps, InvTypes DEF MtimeGrows, BufferInv
<1>9. WritesFit' /\ OneLoad'
  BY <1>2, <1>3, <1>5, <1>7, <1>8, NoNewWrite, NoNewLoad DEF Begun
<1>10. Dialogs'
  <2>1. choice = NoOp /\ compare = NoOp
    BY <1>2 DEF NoDialog
  <2>2. QED
    BY <1>2, <1>3, <2>1 DEF Dialogs
<1>11. \A h \in ops' : OpOK(h)'
  BY <1>2, <1>4, <1>8, StaysOK DEF BufferInv, BufferType, Kept
<1>12. QED
  BY <1>7, <1>8, <1>9, <1>10, <1>11 DEF BufferInv

LEMMA SaveBeginsKeeps ==
  ASSUME EditorAssumption, BufferInv, NEW f \in Files, CanSave(f), NEW t, NEW after,
         t[f].known = tab[f].known, after \in {"stay", "ask", "close"}, BeginSave(f, t, after),
         StoreType', mtime' = mtime, SameTabs, choice' = choice, compare' = compare
  PROVE  BufferInv'
<1>1. PICK n : n = [Op("save", f, "check") EXCEPT
                      !.raw = resolveTabContent(f), !.base = t[f].known,
                      !.text = prepareContentForSave(resolveTabContent(f)), !.after = after]
  OBVIOUS
<1>2. /\ ops' = ops \cup {n} /\ Editable(f) /\ resolveTabContent(f) # None
      /\ mtime[f] + Cardinality(InFlight("save", f)) < MaxWrites
  BY <1>1 DEF BeginSave, CanSave
<1>3. /\ resolveTabContent(f) \in Texts /\ prepareContentForSave(resolveTabContent(f)) \in Texts
      /\ tab[f].known \in Stamps /\ tab[f].gen \in Nat
      /\ Covered(f, tab[f].known)
  <2>1. resolveTabContent(f) \in Texts
    BY <1>2 DEF BufferInv, BufferType, StoreType, TabType, resolveTabContent
  <2>2. prepareContentForSave(resolveTabContent(f)) \in Texts
    BY <2>1, SavedText DEF BufferInv, BufferType, StoreType
  <2>3. Covered(f, tab[f].known)
    BY <1>2 DEF BufferInv, TabOK
  <2>4. tab[f].known \in Stamps /\ tab[f].gen \in Nat
    BY InvTypes DEF BufferInv, TabType
  <2>5. QED
    BY <2>1, <2>2, <2>3, <2>4
<1>4. /\ n \in OpType /\ n.kind = "save" /\ n.pc = "check" /\ n.file = f /\ n.gen = tab[f].gen
      /\ n.raw = resolveTabContent(f) /\ n.base = tab[f].known
      /\ n.text = prepareContentForSave(resolveTabContent(f)) /\ n.read = 0 /\ mtime[f] \in Nat
  <2>1. PICK o, raw, text, base : /\ o = Op("save", f, "check") /\ raw = resolveTabContent(f)
                                  /\ text = prepareContentForSave(raw) /\ base = t[f].known
    OBVIOUS
  <2>2. /\ o \in OpType /\ o.kind = "save" /\ o.file = f /\ o.pc = "check" /\ o.gen = tab[f].gen
        /\ raw \in Texts /\ text \in Texts /\ base \in Stamps /\ o.read = 0 /\ mtime[f] \in Nat
    BY <1>3, <2>1, OpIs
  <2>3. n = [o EXCEPT !.raw = raw, !.base = base, !.text = text, !.after = after]
    BY <1>1, <2>1
  <2>4. /\ n \in OpType /\ n.kind = o.kind /\ n.pc = o.pc /\ n.file = o.file /\ n.gen = o.gen
        /\ n.raw = raw /\ n.base = base /\ n.text = text /\ n.read = o.read
    BY <2>2, <2>3 DEF OpType
  <2>5. QED
    BY <2>1, <2>2, <2>4
<1>5. OpOK(n)
  <2>1. None \notin Texts
    BY TextTypes
  <2>2. Overlaps(n)
    BY <1>4 DEF Overlaps
  <2>3. QED
    BY <1>2, <1>3, <1>4, <2>1, <2>2 DEF OpOK, Past, Carries, OfTab, findTab
<1>6. OpOK(n)'
  <2>1. /\ SameTab(n.file) /\ mtime[n.file] <= mtime'[n.file] /\ n.mt \in Int /\ n.read \in Nat
        /\ mtime[n.file] \in Nat /\ mtime'[n.file] \in Nat
    BY <1>4, InvTypes DEF SameTabs, BufferInv, OpType, Written, Stamps, Null
  <2>2. QED
    BY <1>5, <2>1, SameHandler
<1>7. PICK S, N : S = {} /\ N = {n}
  OBVIOUS
<1>8. BufferType'
  <2>1. ops' = (ops \ S) \cup N
    BY <1>2, <1>7
  <2>2. QED
    BY <1>4, <1>7, <2>1, OpsTypes DEF BufferInv
<1>9. Kept /\ FindKept /\ \A g \in Files : TabOK(g)'
  BY <1>8, SameKeeps, InvTypes DEF MtimeGrows, BufferInv
<1>10. WritesFit'
  BY <1>2, <1>4, <1>8, SaveBegins
<1>11. OneLoad' /\ Dialogs'
  BY <1>2, <1>4, <1>9, NoNewLoad, DialogsKept
<1>12. \A h \in ops' : OpOK(h)'
  BY <1>2, <1>6, <1>9 DEF BufferInv, BufferType, Kept
<1>13. QED
  BY <1>8, <1>9, <1>10, <1>11, <1>12 DEF BufferInv

LEMMA SavesBegin ==
  ASSUME EditorAssumption, BufferInv, NEW f \in Files,
         saveFile(f) \/ SaveAndClose(f) \/ confirmDiscardTabs(f)
  PROVE  BufferInv'
<1>1. /\ TabsStay /\ choice' = choice /\ compare' = compare
      /\ asking' \in Files \cup {NoFile}
  BY DEF saveFile, SaveAndClose, confirmDiscardTabs, TabsStay, BufferInv, BufferType, StoreType
<1>2. StoreType' /\ mtime' = mtime /\ SameTabs
  BY <1>1, TabsStayTypes
<1>3. CASE ops' = ops
  BY <1>1, <1>2, <1>3, NoHandlerStep
<1>4. ASSUME NEW after \in {"stay", "ask", "close"}, CanSave(f), BeginSave(f, tab, after)
      PROVE  BufferInv'
  BY <1>1, <1>2, <1>4, SaveBeginsKeeps
<1>5. QED
  BY <1>3, <1>4 DEF saveFile, SaveAndClose, confirmDiscardTabs

\* The live document is copied to the store.
LEMMA FlushedSame ==
  ASSUME BufferInv, NEW f \in Files, live[f] # None, tab' = [tab EXCEPT ![f].content = live[f]],
         UNCHANGED <<live, typed, overlap, seen, ahead>>
  PROVE  tab' \in [Files -> TabType] /\ SameTabs
<1>1. /\ tab' \in [Files -> TabType] /\ \A g \in Files : g # f => tab'[g] = tab[g]
      /\ SameButContent(tab'[f], tab[f]) /\ tab'[f].content = live[f]
  BY DEF BufferInv, BufferType, StoreType, TabType, SameButContent
<1>2. QED
  BY <1>1 DEF SameTabs, SameTab, SameButContent, resolveTabContent

LEMMA AutoSaveKeeps ==
  ASSUME EditorAssumption, BufferInv, NEW f \in Files, saveTabIfDirty(f)
  PROVE  BufferInv' /\ SameTabs
<1>1. UNCHANGED <<settings, disk, mtime, live, bound, choice, asking, compare, fresh, typed,
                  overlap, seen, ahead>>
  BY DEF saveTabIfDirty
<1>2. CASE tab' = tab /\ ops' = ops
  <2>1. StoreType' /\ SameTabs
    BY <1>1, <1>2, StoreSame DEF BufferInv, BufferType, StoreType, SeenType
  <2>2. QED
    BY <1>1, <1>2, <2>1, NoHandlerStep
<1>3. CASE ~(tab' = tab /\ ops' = ops)
  <2>1. PICK t : t = IF live[f] = None THEN tab ELSE [tab EXCEPT ![f].content = live[f]]
    OBVIOUS
  <2>2. CanSave(f) /\ tab' = t /\ BeginSave(f, t, "stay")
    BY <1>3, <2>1 DEF saveTabIfDirty
  <2>3. tab' \in [Files -> TabType] /\ SameTabs
    <3>1. CASE live[f] = None
      BY <1>1, <2>1, <2>2, <3>1, StoreSame DEF BufferInv, BufferType, StoreType
    <3>2. CASE live[f] # None
      BY <1>1, <2>1, <2>2, <3>2, FlushedSame
    <3>3. QED
      BY <3>1, <3>2
  <2>4. t[f].known = tab[f].known
    BY <2>2, <2>3 DEF SameTabs, SameTab, SameButContent
  <2>5. StoreType'
    BY <1>1, <2>3 DEF BufferInv, BufferType, StoreType, SeenType
  <2>6. QED
    BY <1>1, <2>2, <2>3, <2>4, <2>5, SaveBeginsKeeps
<1>4. QED
  BY <1>2, <1>3

----------------------------------------------------------------------------
(* The shared view. *)

LEMMA ViewSame ==
  ASSUME NEW l, NEW t, live' = l, tab' = t, UNCHANGED <<typed, overlap, seen, ahead>>,
         \A f \in Files : SameButContent(t[f], tab[f]) /\ Text(l, t, f) = resolveTabContent(f)
  PROVE  SameTabs
<1>1. \A f \in Files : resolveTabContent(f)' = Text(l, t, f)
  BY DEF resolveTabContent, Text
<1>2. QED
  BY <1>1 DEF SameTabs, SameTab

LEMMA ViewKeeps ==
  ASSUME EditorAssumption, BufferInv, NEW f \in Files,
         bindTabToView(f) \/ RebuildView(f) \/ LeaveEditor
  PROVE  BufferInv' /\ SameTabs
<1>1. UNCHANGED <<settings, disk, mtime, ops, choice, asking, compare, fresh, typed, overlap,
                  seen, ahead>>
  BY DEF bindTabToView, RebuildView, LeaveEditor
<1>2. PICK l, t : live' = l /\ tab' = t
  OBVIOUS
<1>3. /\ l \in [Files -> Texts \cup {None}] /\ t \in [Files -> TabType]
      /\ \A g \in Files : SameButContent(t[g], tab[g]) /\ Text(l, t, g) = resolveTabContent(g)
      /\ bound' \in Files \cup {NoFile}
  <2>1. CASE LeaveEditor
    BY <1>2, <2>1, Unbinding DEF LeaveEditor, BufferInv
  <2>2. CASE bindTabToView(f)
    <3>1. PICK ul, ut : ul = Unbound.live /\ ut = Unbound.tab
      OBVIOUS
    <3>2. /\ ul \in [Files -> Texts \cup {None}] /\ ut \in [Files -> TabType]
          /\ \A g \in Files : /\ SameButContent(ut[g], tab[g])
                              /\ Text(ul, ut, g) = resolveTabContent(g)
      BY <3>1, Unbinding DEF BufferInv
    <3>3. Text(ul, ut, f) # None
      BY <2>2, <3>2 DEF bindTabToView, BufferInv, TabOK
    <3>4. l = Bound(f, ul, ut).live /\ t = Bound(f, ul, ut).tab /\ bound' = f
      BY <1>2, <2>2, <3>1 DEF bindTabToView
    <3>5. /\ l \in [Files -> Texts \cup {None}] /\ t \in [Files -> TabType]
          /\ \A g \in Files : SameButContent(t[g], ut[g]) /\ Text(l, t, g) = Text(ul, ut, g)
      BY <3>2, <3>3, <3>4, Binding
    <3>6. QED
      BY <3>2, <3>4, <3>5 DEF SameButContent
  <2>3. CASE RebuildView(f)
    <3>1. live \in [Files -> Texts \cup {None}] /\ tab \in [Files -> TabType]
          /\ \A g \in Files : Text(live, tab, g) = resolveTabContent(g)
      BY DEF BufferInv, BufferType, StoreType, Text, resolveTabContent
    <3>2. Text(live, tab, f) # None
      BY <2>3, <3>1 DEF RebuildView, BufferInv, TabOK
    <3>3. l = Bound(f, live, tab).live /\ t = Bound(f, live, tab).tab /\ bound' = bound
      BY <1>2, <2>3 DEF RebuildView
    <3>4. QED
      BY <3>1, <3>2, <3>3, Binding DEF BufferInv, BufferType, StoreType
  <2>4. QED
    BY <2>1, <2>2, <2>3
<1>4. SameTabs
  BY <1>1, <1>2, <1>3, ViewSame
<1>5. StoreType'
  BY <1>1, <1>2, <1>3 DEF BufferInv, BufferType, StoreType, SeenType
<1>6. QED
  BY <1>1, <1>4, <1>5, NoHandlerStep

----------------------------------------------------------------------------
(* Steps of one tab. *)

LEMMA MoveStep ==
  ASSUME EditorAssumption, BufferInv, StoreType', mtime' = mtime,
         NEW f \in Files, OtherTabs(f), Moves(f), Careful(f), TabOK(f)',
         NEW S, NEW N, N = {} \/ \E n \in OpType : N = {n}, ops' = (ops \ S) \cup N,
         \A n \in N : n.kind # "load" /\ ~Begun(n) /\ OpOK(n)',
         choice' \in {choice, NoOp}, compare' \in {compare, NoOp},
         choice' # NoOp => \A s \in S : s.pc # "prompt"
  PROVE  BufferInv'
<1>1. BufferType'
  BY OpsTypes DEF BufferInv
<1>2. MtimeGrows
  BY InvTypes DEF MtimeGrows, BufferInv
<1>3. Kept /\ FindKept /\ \A g \in Files : TabOK(g)'
  BY <1>1, <1>2, MoveKeeps
<1>4. QED
  BY <1>1, <1>3, QuietStep

LEMMA MoveEnd ==
  ASSUME EditorAssumption, BufferInv, StoreType', mtime' = mtime,
         NEW f \in Files, OtherTabs(f), Moves(f), Careful(f), TabOK(f)',
         NEW op \in ops, ops' = ops \ {op},
         choice' \in {choice, NoOp}, compare' \in {compare, NoOp},
         choice' # NoOp => op.pc # "prompt"
  PROVE  BufferInv'
<1>1. PICK S, N : S = {op} /\ N = {}
  OBVIOUS
<1>2. /\ ops' = (ops \ S) \cup N /\ (\A m \in N : m.kind # "load" /\ ~Begun(m) /\ OpOK(m)')
      /\ choice' # NoOp => \A s \in S : s.pc # "prompt"
  BY <1>1
<1>3. QED
  BY <1>1, <1>2, MoveStep

\* The other tabs, field by field.
OtherStore(f) == \A g \in Files : g # f => tab'[g] = tab[g] /\ live'[g] = live[g]
OtherMarks(f) ==
    \A g \in Files : g # f => typed'[g] = typed[g] /\ (g \in overlap' <=> g \in overlap)
OtherSeen(f) ==
    \A g \in Files : g # f => /\ seen'[g] = seen[g]
                              /\ \A k : <<g, k>> \in ahead' <=> <<g, k>> \in ahead

LEMMA OthersStay ==
  ASSUME NEW f, OtherStore(f), OtherMarks(f), OtherSeen(f)
  PROVE  OtherTabs(f)
BY DEF OtherTabs, SameTab, OtherStore, OtherMarks, OtherSeen, SameButContent, resolveTabContent

LEMMA UnreadOthers ==
  ASSUME NEW f, NEW read, NEW mt, NEW g, g # f, NEW k
  PROVE  <<g, k>> \in Unread(f, read, mt) <=> <<g, k>> \in ahead
BY DEF Unread

LEMMA UnreadOwn ==
  ASSUME NEW f, NEW read \in Nat, NEW mt \in Int, NEW k \in Int
  PROVE  <<f, k>> \in Unread(f, read, mt) <=> (<<f, k>> \in ahead \/ k = mt) /\ k > read
<1>1. <<f, k>>[1] = f /\ <<f, k>>[2] = k /\ (<<f, k>> = <<f, mt>> <=> k = mt)
  OBVIOUS
<1>2. <<f, k>> \in Unread(f, read, mt) <=>
        /\ <<f, k>> \in ahead \/ <<f, k>> = <<f, mt>>
        /\ <<f, k>>[1] = f => <<f, k>>[2] > read
  BY DEF Unread
<1>3. QED
  BY <1>1, <1>2

\* A tab that has read write read and records mt.
LEMMA Sees ==
  ASSUME EditorAssumption, BufferInv, NEW f \in Files, NEW read \in Written, NEW mt \in Stamps,
         seen' \in [Files -> Written], read <= seen'[f], seen[f] <= seen'[f],
         \A g \in Files : g # f => seen'[g] = seen[g],
         ahead' = Unread(f, read, mt)
  PROVE  /\ OtherSeen(f) /\ Covered(f, mt)'
         /\ \A k \in Stamps : Covered(f, k) => Covered(f, k)'
<1>1. OtherSeen(f)
  BY UnreadOthers DEF OtherSeen
<1>2. seen[f] \in Nat /\ seen'[f] \in Nat /\ Written \subseteq Nat /\ Stamps \subseteq Int
  BY InvTypes DEF BufferInv, Written, Stamps, Null
<1>3. \A k \in Stamps : <<f, k>> \in ahead' \/ k <= read \/ ~(<<f, k>> \in ahead \/ k = mt)
  <2>1. SUFFICES ASSUME NEW k \in Stamps
                 PROVE  <<f, k>> \in ahead' \/ k <= read \/ ~(<<f, k>> \in ahead \/ k = mt)
    OBVIOUS
  <2>2. read \in Nat /\ mt \in Int /\ k \in Int
    BY <1>2
  <2>3. <<f, k>> \in Unread(f, read, mt) <=> (<<f, k>> \in ahead \/ k = mt) /\ k > read
    BY <2>2, UnreadOwn
  <2>4. QED
    BY <2>2, <2>3
<1>4. \A k \in Stamps : Covered(f, k) \/ k = mt => Covered(f, k)'
  <2>1. SUFFICES ASSUME NEW k \in Stamps, Covered(f, k) \/ k = mt
                 PROVE  k <= seen'[f] \/ <<f, k>> \in ahead'
    BY DEF Covered
  <2>2. k \in Int /\ read \in Nat
    BY <1>2
  <2>3. k <= seen[f] \/ <<f, k>> \in ahead \/ k = mt
    BY <2>1 DEF Covered
  <2>4. QED
    BY <1>2, <1>3, <2>2, <2>3
<1>5. QED
  BY <1>1, <1>4

LEMMA SawSees ==
  ASSUME EditorAssumption, BufferInv, NEW f \in Files, NEW read \in Written, NEW mt \in Stamps,
         Saw(f, read, mt), read <= mtime[f], mtime' = mtime
  PROVE  /\ SeenType' /\ read <= seen'[f] /\ seen[f] <= seen'[f]
         /\ OtherSeen(f) /\ Covered(f, mt)'
         /\ \A k \in Stamps : Covered(f, k) => Covered(f, k)'
<1>1. seen \in [Files -> Written] /\ Written \subseteq Nat
  BY DEF BufferInv, BufferType, StoreType, SeenType, Written, Stamps, Null
<1>2. /\ seen' \in [Files -> Written] /\ read <= seen'[f] /\ seen[f] <= seen'[f]
      /\ \A g \in Files : g # f => seen'[g] = seen[g]
  <2>1. PICK r : r = IF read > seen[f] THEN read ELSE seen[f]
    OBVIOUS
  <2>2. read \in Nat /\ seen[f] \in Nat /\ seen[f] \in Written
    BY <1>1
  <2>3. r \in Written /\ read <= r /\ seen[f] <= r
    BY <2>1, <2>2
  <2>4. seen' = [seen EXCEPT ![f] = r]
    BY <2>1 DEF Saw
  <2>5. QED
    BY <1>1, <2>3, <2>4
<1>3. ahead' = Unread(f, read, mt)
  BY DEF Saw
<1>4. SeenType'
  <2>1. seen'[f] <= mtime[f]
    BY <1>1 DEF Saw, BufferInv, BufferType, StoreType, SeenType
  <2>2. QED
    BY <1>2, <2>1 DEF BufferInv, BufferType, StoreType, SeenType
<1>5. QED
  BY <1>2, <1>3, <1>4, Sees

LEMMA SeenSame ==
  ASSUME UNCHANGED <<seen, ahead>>, NEW f \in Files, BufferInv, EditorAssumption
  PROVE  /\ OtherSeen(f) /\ seen[f] <= seen'[f]
         /\ \A k \in Stamps : Covered(f, k) => Covered(f, k)'
BY InvTypes DEF OtherSeen, Covered, BufferInv

LEMMA Reloads ==
  ASSUME EditorAssumption, BufferInv, NEW f \in Files, NEW text \in Texts, NEW mt \in Stamps,
         ReloadFromDisk(f, text, mt), Editable(f)
  PROVE  /\ tab' \in [Files -> TabType] /\ live' \in [Files -> Texts \cup {None}]
         /\ OtherStore(f) /\ Editable(f)' /\ tab'[f].gen = tab[f].gen
         /\ tab'[f].known \in {mt, tab[f].known} /\ ~tab'[f].dirty
         /\ resolveTabContent(f)' = text
<1>1. /\ tab' \in [Files -> TabType] /\ (\A g \in Files : g # f => tab'[g] = tab[g])
      /\ tab'[f].content = text /\ tab'[f].dirty = FALSE /\ tab'[f].loading = FALSE
      /\ tab'[f].error = FALSE /\ tab'[f].known \in {mt, tab[f].known}
      /\ tab'[f].gen = tab[f].gen /\ tab'[f].open = tab[f].open
  <2>1. PICK known : known = IF mt = Null THEN tab[f].known ELSE mt
    OBVIOUS
  <2>2. tab \in [Files -> TabType] /\ tab[f].known \in Stamps
    BY DEF BufferInv, BufferType, StoreType, TabType
  <2>3. known \in Stamps /\ known \in {mt, tab[f].known}
    BY <2>1, <2>2
  <2>4. tab' = [tab EXCEPT ![f] = [@ EXCEPT !.content = text, !.dirty = FALSE, !.loading = FALSE,
                                            !.error = FALSE, !.known = known]]
    BY <2>1 DEF ReloadFromDisk
  <2>5. QED
    BY <2>2, <2>3, <2>4, ZenonT(60) DEF TabType
<1>2. /\ live' \in [Files -> Texts \cup {None}] /\ live'[f] = None
      /\ \A g \in Files : g # f => live'[g] = live[g]
  BY DEF ReloadFromDisk, disposeEditorSession, BufferInv, BufferType, StoreType
<1>3. QED
  BY <1>1, <1>2 DEF OtherStore, Editable, resolveTabContent

\* The file is read again: nothing is left of what was typed, or a handler has been told.
LEMMA ReloadStep ==
  ASSUME EditorAssumption, BufferInv, NEW f \in Files, NEW text \in Texts, NEW mt \in Stamps,
         ReloadFromDisk(f, text, mt), Editable(f),
         UNCHANGED <<settings, disk, mtime, bound, asking, fresh, overlap>>,
         SeenType', seen[f] <= seen'[f], OtherSeen(f), Covered(f, mt)',
         \A k \in Stamps : Covered(f, k) => Covered(f, k)',
         typed' = typed \/ typed' = [typed EXCEPT ![f] = FALSE],
         typed'[f] => f \in overlap
  PROVE  /\ StoreType' /\ mtime' = mtime /\ OtherTabs(f) /\ Moves(f) /\ Careful(f) /\ TabOK(f)'
<1>1. /\ tab' \in [Files -> TabType] /\ live' \in [Files -> Texts \cup {None}]
      /\ OtherStore(f) /\ Editable(f)' /\ tab'[f].gen = tab[f].gen
      /\ tab'[f].known \in {mt, tab[f].known} /\ ~tab'[f].dirty
      /\ resolveTabContent(f)' = text
  BY Reloads
<1>2. typed' \in [Files -> BOOLEAN] /\ OtherMarks(f)
  BY DEF OtherMarks, BufferInv, BufferType, StoreType
<1>3. StoreType'
  BY <1>1, <1>2 DEF BufferInv, BufferType, StoreType
<1>4. OtherTabs(f)
  BY <1>1, <1>2, OthersStay
<1>5. Moves(f) /\ Careful(f)
  BY <1>1 DEF Moves, Careful
<1>6. TabOK(f)'
  <2>1. tab[f].known \in Stamps /\ Covered(f, tab[f].known)
    BY DEF BufferInv, BufferType, StoreType, TabType, TabOK
  <2>2. PICK k : k = tab'[f].known
    OBVIOUS
  <2>3. Covered(f, k)'
    BY <1>1, <2>1, <2>2
  <2>4. Covered(f, tab[f].known)'
    BY <2>2, <2>3 DEF Covered
  <2>5. QED
    BY <1>1, <2>4, TextTypes DEF TabOK, Editable
<1>7. QED
  BY <1>3, <1>4, <1>5, <1>6

LEMMA KnownStep ==
  ASSUME EditorAssumption, BufferInv, NEW f \in Files, NEW mt \in Stamps,
         tab' = [tab EXCEPT ![f].known = mt], Editable(f),
         UNCHANGED <<settings, disk, mtime, live, bound, asking, fresh, typed, overlap>>,
         SeenType', seen[f] <= seen'[f], OtherSeen(f), Covered(f, mt)',
         \A k \in Stamps : Covered(f, k) => Covered(f, k)'
  PROVE  /\ StoreType' /\ mtime' = mtime /\ OtherTabs(f) /\ Moves(f) /\ Careful(f) /\ TabOK(f)'
<1>1. /\ tab' \in [Files -> TabType] /\ (\A g \in Files : g # f => tab'[g] = tab[g])
      /\ tab'[f].content = tab[f].content /\ tab'[f].dirty = tab[f].dirty
      /\ tab'[f].loading = tab[f].loading
      /\ tab'[f].error = tab[f].error /\ tab'[f].known = mt
      /\ tab'[f].gen = tab[f].gen /\ tab'[f].open = tab[f].open
  BY SMTT(30) DEF BufferInv, BufferType, StoreType, TabType
<1>2. StoreType'
  BY <1>1 DEF BufferInv, BufferType, StoreType
<1>3. OtherTabs(f)
  BY <1>1, OthersStay DEF OtherStore, OtherMarks
<1>4. Editable(f)' /\ resolveTabContent(f)' = resolveTabContent(f)
  BY <1>1 DEF Editable, resolveTabContent
<1>5. Moves(f) /\ Careful(f)
  BY <1>1, <1>4 DEF Moves, Careful, BufferInv, TabOK
<1>6. TabOK(f)'
  BY <1>1, <1>4 DEF TabOK, Editable, BufferInv
<1>7. QED
  BY <1>2, <1>3, <1>5, <1>6

\* The tab whose mtime was asked for was not loading.
LEMMA HydratedTab ==
  ASSUME EditorAssumption, BufferInv, NEW op \in ops, HydrateDone(op), findTab(op)
  PROVE  tab' = [tab EXCEPT ![op.file].known = op.mt]
<1>1. PICK f, mt : f = op.file /\ mt = op.mt
  OBVIOUS
<1>2. f \in Files /\ tab \in [Files -> TabType] /\ tab[f] \in TabType /\ tab[f].loading = FALSE
  BY <1>1, HandlerFacts DEF HydrateDone, OpOK, OfTab, Editable, BufferInv, BufferType, StoreType,
                            TabType
<1>3. [tab[f] EXCEPT !.loading = FALSE, !.known = mt] = [tab[f] EXCEPT !.known = mt]
  BY <1>2 DEF TabType
<1>4. tab' = [tab EXCEPT ![f] = [@ EXCEPT !.loading = FALSE, !.known = mt]]
  BY <1>1 DEF HydrateDone
<1>5. QED
  BY <1>1, <1>2, <1>3, <1>4

LEMMA SyncReloadKeeps ==
  ASSUME EditorAssumption, BufferInv, NEW op \in ops, SyncReload(op)
  PROVE  BufferInv'
<1>1. PICK f, text, mt : f = op.file /\ text = op.text /\ mt = op.mt
  OBVIOUS
<1>2. /\ f \in Files /\ mt \in Stamps /\ op.read \in Written
      /\ text \in Texts /\ op.read <= mtime[f]
  BY <1>1, HandlerFacts DEF SyncReload, OpOK, Past, Carries, OpType
<1>3. /\ Editable(f) /\ ~tab[f].dirty /\ Saw(f, op.read, mt)
      /\ ops' = ops \ {op} /\ op.pc = "decide" /\ choice' = choice /\ compare' = compare
      /\ UNCHANGED <<settings, disk, mtime, bound, asking, fresh, typed, overlap>>
  BY <1>1 DEF SyncReload, End
<1>4. typed[f] => f \in overlap
  BY <1>2, <1>3 DEF BufferInv, TabOK
<1>5. /\ SeenType' /\ seen[f] <= seen'[f]
      /\ OtherSeen(f) /\ Covered(f, mt)'
      /\ \A k \in Stamps : Covered(f, k) => Covered(f, k)'
  BY <1>2, <1>3, SawSees
<1>6. \/ tab' = [tab EXCEPT ![f].known = mt] /\ live' = live
      \/ ReloadFromDisk(f, text, mt)
  BY <1>1 DEF SyncReload
<1>7. /\ StoreType' /\ mtime' = mtime /\ OtherTabs(f) /\ Moves(f) /\ Careful(f) /\ TabOK(f)'
  <2>1. CASE tab' = [tab EXCEPT ![f].known = mt] /\ live' = live
    BY <1>2, <1>3, <1>5, <2>1, KnownStep
  <2>2. CASE ReloadFromDisk(f, text, mt)
    BY <1>2, <1>3, <1>4, <1>5, <2>2, ReloadStep
  <2>3. QED
    BY <1>6, <2>1, <2>2
<1>8. QED
  BY <1>2, <1>3, <1>7, MoveEnd

LEMMA HydrateDoneKeeps ==
  ASSUME EditorAssumption, BufferInv, NEW op \in ops, HydrateDone(op)
  PROVE  BufferInv'
<1>1. PICK f, mt, read : f = op.file /\ mt = op.mt /\ read = seen[f]
  OBVIOUS
<1>2. /\ f \in Files /\ mt \in Stamps /\ OpOK(op) /\ op.kind = "hydrate" /\ op.pc = "answered"
      /\ ops' = ops \ {op} /\ choice' = choice /\ compare' = compare
      /\ UNCHANGED <<settings, disk, mtime, live, bound, asking, fresh, typed, overlap, seen>>
  BY <1>1, HandlerFacts DEF HydrateDone, End, OpType
<1>3. CASE ~findTab(op)
  <2>1. TabsStay
    BY <1>2, <1>3 DEF HydrateDone, TabsStay
  <2>2. QED
    BY <1>2, <2>1, TabsStayTypes, EndStep DEF BufferInv, BufferType, StoreType
<1>4. CASE findTab(op)
  <2>1. Editable(f) /\ ahead' = Unread(f, read, mt)
    BY <1>1, <1>2, <1>4 DEF HydrateDone, OpOK, OfTab
  <2>2. tab' = [tab EXCEPT ![f].known = mt]
    BY <1>1, <1>2, <1>4, HydratedTab
  <2>3. /\ SeenType' /\ seen' \in [Files -> Written] /\ read \in Written
        /\ read <= seen'[f] /\ seen[f] <= seen'[f]
        /\ \A g \in Files : g # f => seen'[g] = seen[g]
    BY <1>1, <1>2, InvTypes DEF BufferInv, BufferType, StoreType, SeenType
  <2>4. /\ OtherSeen(f) /\ Covered(f, mt)'
        /\ \A k \in Stamps : Covered(f, k) => Covered(f, k)'
    BY <1>2, <2>1, <2>3, Sees
  <2>5. StoreType' /\ mtime' = mtime /\ OtherTabs(f) /\ Moves(f) /\ Careful(f) /\ TabOK(f)'
    BY <1>2, <2>1, <2>2, <2>3, <2>4, KnownStep
  <2>6. QED
    BY <1>2, <2>5, MoveEnd
<1>5. QED
  BY <1>3, <1>4

\* An answer is of a handler that has seen the write whose mtime it records.
LEMMA AnswerFacts ==
  ASSUME EditorAssumption, BufferInv, NEW h \in OpType, OpOK(h), h.kind = "sync",
         h.pc = "prompt"
  PROVE  /\ h.file \in Files /\ h.mt \in Stamps /\ h.text \in Texts
         /\ findTab(h) => Editable(h.file) /\ Covered(h.file, h.mt)
BY DEF OpOK, Carries, OfTab, OpType, Covered

LEMMA AnsweredReload ==
  ASSUME EditorAssumption, BufferInv, NEW h \in OpType, OpOK(h), h.kind = "sync",
         h.pc = "prompt", findTab(h), ReloadFromDisk(h.file, h.text, h.mt),
         typed' = [typed EXCEPT ![h.file] = FALSE],
         UNCHANGED <<settings, disk, mtime, bound, asking, fresh, overlap, seen, ahead>>
  PROVE  /\ StoreType' /\ mtime' = mtime /\ OtherTabs(h.file) /\ Moves(h.file)
         /\ Careful(h.file) /\ TabOK(h.file)'
<1>1. PICK f, text, mt : f = h.file /\ text = h.text /\ mt = h.mt
  OBVIOUS
<1>2. f \in Files /\ mt \in Stamps /\ text \in Texts /\ Editable(f) /\ Covered(f, mt)
  BY <1>1, AnswerFacts
<1>3. /\ OtherSeen(f) /\ seen[f] <= seen'[f] /\ SeenType'
      /\ \A k \in Stamps : Covered(f, k) => Covered(f, k)'
  BY <1>2, SeenSame DEF BufferInv, BufferType, StoreType, SeenType
<1>4. ~typed'[f]
  BY <1>1, <1>2 DEF BufferInv, BufferType, StoreType
<1>5. ReloadFromDisk(f, text, mt) /\ typed' = [typed EXCEPT ![f] = FALSE]
  BY <1>1
<1>6. QED
  BY <1>1, <1>2, <1>3, <1>4, <1>5, ReloadStep

LEMMA AnsweredKeep ==
  ASSUME EditorAssumption, BufferInv, NEW h \in OpType, OpOK(h), h.kind = "sync",
         h.pc = "prompt", findTab(h), tab' = [tab EXCEPT ![h.file].known = h.mt],
         UNCHANGED <<settings, disk, mtime, live, bound, asking, fresh, typed, overlap, seen,
                     ahead>>
  PROVE  /\ StoreType' /\ mtime' = mtime /\ OtherTabs(h.file) /\ Moves(h.file)
         /\ Careful(h.file) /\ TabOK(h.file)'
<1>1. PICK f, mt : f = h.file /\ mt = h.mt
  OBVIOUS
<1>2. f \in Files /\ mt \in Stamps /\ Editable(f) /\ Covered(f, mt)
  BY <1>1, AnswerFacts
<1>3. /\ OtherSeen(f) /\ seen[f] <= seen'[f] /\ SeenType'
      /\ \A k \in Stamps : Covered(f, k) => Covered(f, k)'
  BY <1>2, SeenSame DEF BufferInv, BufferType, StoreType, SeenType
<1>4. tab' = [tab EXCEPT ![f].known = mt]
  BY <1>1
<1>5. QED
  BY <1>1, <1>2, <1>3, <1>4, KnownStep

LEMMA ChosenFacts ==
  ASSUME BufferInv, NEW op \in ops, choice = op
  PROVE  op.pc = "prompt" /\ op \in OpType /\ OpOK(op)
BY DEF BufferInv, BufferType, Dialogs, OpType, NoOp

LEMMA ChoicesKeep ==
  ASSUME EditorAssumption, BufferInv, NEW op \in ops, ChooseReload(op) \/ ChooseKeep(op)
  PROVE  BufferInv'
<1>1. /\ op.kind = "sync" /\ choice = op /\ choice' = NoOp /\ compare' = compare
      /\ ops' = ops \ {op}
      /\ UNCHANGED <<settings, disk, mtime, bound, asking, fresh, overlap, seen, ahead>>
  BY DEF ChooseReload, ChooseKeep, End
<1>2. op.pc = "prompt" /\ op \in OpType /\ OpOK(op) /\ op.file \in Files
  BY <1>1, ChosenFacts DEF OpType
<1>3. CASE ~findTab(op)
  <2>1. TabsStay
    BY <1>1, <1>3 DEF ChooseReload, ChooseKeep, TabsStay
  <2>2. QED
    BY <1>1, <2>1, TabsStayTypes, EndStep DEF BufferInv, BufferType, StoreType
<1>4. CASE findTab(op)
  <2>1. /\ StoreType' /\ mtime' = mtime /\ OtherTabs(op.file) /\ Moves(op.file)
        /\ Careful(op.file) /\ TabOK(op.file)'
    <3>1. CASE ChooseReload(op)
      BY <1>1, <1>2, <1>4, <3>1, AnsweredReload DEF ChooseReload
    <3>2. CASE ChooseKeep(op)
      BY <1>1, <1>2, <1>4, <3>2, AnsweredKeep DEF ChooseKeep
    <3>3. QED
      BY <3>1, <3>2
  <2>2. QED
    BY <1>1, <1>2, <2>1, MoveEnd
<1>5. QED
  BY <1>3, <1>4

\* A step of one tab with no handler.
LEMMA MoveAlone ==
  ASSUME EditorAssumption, BufferInv, StoreType', mtime' = mtime,
         NEW f \in Files, OtherTabs(f), Moves(f), Careful(f), TabOK(f)', ops' = ops,
         choice' = choice, compare' \in {compare, NoOp}
  PROVE  BufferInv'
<1>1. PICK S, N : S = {} /\ N = {}
  OBVIOUS
<1>2. /\ ops' = (ops \ S) \cup N /\ (\A m \in N : m.kind # "load" /\ ~Begun(m) /\ OpOK(m)')
      /\ choice' # NoOp => \A s \in S : s.pc # "prompt"
  BY <1>1
<1>3. QED
  BY <1>1, <1>2, MoveStep

LEMMA CompareKeeps ==
  ASSUME EditorAssumption, BufferInv, CompareAnswer
  PROVE  BufferInv'
<1>1. PICK h : h = compare
  OBVIOUS
<1>2. h \in OpType /\ OpOK(h) /\ h.kind = "sync" /\ h.pc = "prompt" /\ h.file \in Files
  BY <1>1 DEF CompareAnswer, BufferInv, Dialogs, OpType
<1>3. /\ compare' = NoOp /\ choice' = choice /\ ops' = ops
      /\ UNCHANGED <<settings, disk, mtime, bound, asking, fresh, overlap, seen, ahead>>
      /\ \/ UNCHANGED <<tab, live, typed>>
         \/ findTab(h) /\ tab' = [tab EXCEPT ![h.file].known = h.mt] /\ UNCHANGED <<live, typed>>
         \/ findTab(h) /\ ReloadFromDisk(h.file, h.text, h.mt)
            /\ typed' = [typed EXCEPT ![h.file] = FALSE]
  BY <1>1 DEF CompareAnswer
<1>4. CASE UNCHANGED <<tab, live, typed>>
  <2>1. TabsStay
    BY <1>3, <1>4 DEF TabsStay
  <2>2. QED
    BY <1>3, <2>1, TabsStayTypes, NoHandlerStep DEF BufferInv, BufferType, StoreType
<1>5. CASE findTab(h) /\ tab' = [tab EXCEPT ![h.file].known = h.mt] /\ UNCHANGED <<live, typed>>
  BY <1>2, <1>3, <1>5, AnsweredKeep, MoveAlone
<1>6. CASE findTab(h) /\ ReloadFromDisk(h.file, h.text, h.mt)
           /\ typed' = [typed EXCEPT ![h.file] = FALSE]
  BY <1>2, <1>3, <1>6, AnsweredReload, MoveAlone
<1>7. QED
  BY <1>3, <1>4, <1>5, <1>6

LEMMA ReopenDoneKeeps ==
  ASSUME EditorAssumption, BufferInv, NEW op \in ops, ReopenDone(op)
  PROVE  BufferInv'
<1>1. PICK f, text, mt : f = op.file /\ text = op.text /\ mt = op.mt
  OBVIOUS
<1>2. /\ f \in Files /\ mt \in Stamps /\ op.read \in Written /\ text \in Texts
      /\ op.read <= mtime[f]
  BY <1>1, HandlerFacts DEF ReopenDone, OpOK, Past, OpType
<1>3. /\ ops' = ops \ {op} /\ op.pc = "both" /\ op.kind = "reopen"
      /\ choice' = choice /\ compare' = compare
      /\ UNCHANGED <<settings, disk, mtime, bound, asking, fresh, typed, overlap>>
  BY DEF ReopenDone, End
<1>4. CASE ~findTab(op)
  <2>1. TabsStay
    BY <1>3, <1>4 DEF ReopenDone, TabsStay
  <2>2. QED
    BY <1>3, <2>1, TabsStayTypes, EndStep DEF BufferInv, BufferType, StoreType
<1>5. CASE findTab(op)
  <2>1. ReloadFromDisk(f, text, mt) /\ Saw(f, op.read, mt)
    BY <1>1, <1>5 DEF ReopenDone
  <2>2. Editable(f) /\ (typed[f] => f \in overlap)
    BY <1>1, <1>3, <1>5, HandlerFacts DEF OpOK, OfTab, Overlaps
  <2>3. /\ SeenType' /\ seen[f] <= seen'[f]
        /\ OtherSeen(f) /\ Covered(f, mt)'
        /\ \A k \in Stamps : Covered(f, k) => Covered(f, k)'
    BY <1>2, <1>3, <2>1, SawSees
  <2>4. /\ StoreType' /\ mtime' = mtime /\ OtherTabs(f) /\ Moves(f) /\ Careful(f) /\ TabOK(f)'
    BY <1>2, <1>3, <2>1, <2>2, <2>3, ReloadStep
  <2>5. QED
    BY <1>2, <1>3, <2>4, MoveEnd
<1>6. QED
  BY <1>4, <1>5

\* The user gives up what was typed.
LEMMA GivenUp ==
  ASSUME EditorAssumption, BufferInv, NEW f \in Files, typed' = [typed EXCEPT ![f] = FALSE],
         UNCHANGED <<settings, disk, mtime, tab, live, bound, asking, fresh, overlap, seen, ahead>>
  PROVE  /\ StoreType' /\ mtime' = mtime /\ ~typed'[f] /\ OtherTabs(f)
         /\ SameTabs \/ (Moves(f) /\ Careful(f) /\ TabOK(f)')
<1>1. typed' \in [Files -> BOOLEAN] /\ ~typed'[f] /\ OtherMarks(f)
  BY DEF BufferInv, BufferType, StoreType, OtherMarks
<1>2. StoreType'
  BY <1>1 DEF BufferInv, BufferType, StoreType, SeenType
<1>3. OtherSeen(f) /\ seen[f] <= seen'[f] /\ \A k \in Stamps : Covered(f, k) => Covered(f, k)'
  BY SeenSame
<1>4. OtherTabs(f)
  BY <1>1, <1>3, OthersStay DEF OtherStore
<1>5. CASE ~Editable(f)
  <2>1. typed[f] = FALSE
    BY <1>5 DEF BufferInv, BufferType, StoreType, TabOK
  <2>2. typed' = typed
    BY <2>1 DEF BufferInv, BufferType, StoreType
  <2>3. QED
    BY <1>1, <1>2, <1>4, <2>2, StoreSame
<1>6. CASE Editable(f)
  <2>1. Editable(f)' /\ resolveTabContent(f)' = resolveTabContent(f) /\ TabOK(f)
    BY <1>6 DEF Editable, resolveTabContent, BufferInv
  <2>2. Moves(f) /\ Careful(f)
    BY <1>1, <1>3, <1>6, <2>1 DEF Moves, Careful
  <2>3. TabOK(f)'
    BY <1>1, <1>6, <2>1 DEF TabOK, Covered, Editable
  <2>4. QED
    BY <1>1, <1>2, <1>4, <2>2, <2>3
<1>7. QED
  BY <1>5, <1>6

LEMMA ReopenConfirmedKeeps ==
  ASSUME EditorAssumption, BufferInv, NEW op \in ops, ReopenConfirmed(op)
  PROVE  BufferInv'
<1>1. PICK f, n : f = op.file /\ n = [op EXCEPT !.pc = "both"]
  OBVIOUS
<1>2. /\ choice = op /\ op.kind = "reopen" /\ choice' = NoOp /\ compare' = compare
      /\ ops' = (ops \ {op}) \cup {n} /\ typed' = [typed EXCEPT ![f] = FALSE]
      /\ UNCHANGED <<settings, disk, mtime, tab, live, bound, asking, fresh, overlap, seen, ahead>>
  BY <1>1 DEF ReopenConfirmed, Continue
<1>3. /\ n \in OpType /\ n.kind = op.kind /\ n.file = f /\ n.gen = op.gen /\ n.pc = "both"
      /\ f \in Files /\ n.read = op.read /\ mtime' = mtime
  BY <1>1, HandlerFacts DEF OpType, ReopenConfirmed
<1>4. /\ StoreType' /\ mtime' = mtime /\ ~typed'[f] /\ OtherTabs(f)
      /\ SameTabs \/ (Moves(f) /\ Careful(f) /\ TabOK(f)')
  BY <1>2, <1>3, GivenUp
<1>5. OpOK(n)' /\ ~Begun(n) /\ n.kind # "load"
  <2>1. OpOK(op)
    BY HandlerFacts
  <2>2. findTab(n)' => Editable(f)'
    BY <1>1, <1>2, <1>3, <2>1 DEF findTab, OpOK, OfTab, Editable
  <2>3. Overlaps(n)'
    BY <1>3, <1>4 DEF Overlaps
  <2>4. Carries(n)'
    BY <1>2, <1>3 DEF Carries
  <2>6. n.gen <= tab'[f].gen
    BY <1>1, <1>2, <1>3, <2>1 DEF OpOK
  <2>5. QED
    BY <1>1, <1>2, <1>3, <2>1, <2>2, <2>3, <2>4, <2>6 DEF OpOK, Past, OfTab, Begun
<1>6. PICK S, N : S = {op} /\ N = {n}
  OBVIOUS
<1>7. /\ ops' = (ops \ S) \cup N /\ (\A m \in N : m.kind # "load" /\ ~Begun(m) /\ OpOK(m)')
      /\ choice' # NoOp => \A s \in S : s.pc # "prompt"
  BY <1>2, <1>5, <1>6
<1>8. CASE SameTabs
  BY <1>2, <1>3, <1>4, <1>6, <1>7, <1>8, SameStep
<1>9. CASE Moves(f) /\ Careful(f) /\ TabOK(f)'
  BY <1>2, <1>3, <1>4, <1>6, <1>7, <1>9, MoveStep
<1>10. QED
  BY <1>4, <1>8, <1>9

LEMMA ChooseCompareKeeps ==
  ASSUME EditorAssumption, BufferInv, NEW op \in ops, ChooseCompare(op)
  PROVE  BufferInv' /\ SameTabs
<1>1. /\ choice = op /\ op.kind = "sync" /\ choice' = NoOp /\ compare' = op
      /\ ops' = ops \ {op}
      /\ UNCHANGED <<settings, disk, mtime, live, bound, asking, fresh, typed, overlap, seen,
                     ahead>>
  BY DEF ChooseCompare, End
<1>2. op.pc = "prompt" /\ op \in OpType /\ OpOK(op) /\ op.file \in Files
  BY <1>1, ChosenFacts DEF OpType
<1>3. tab' \in [Files -> TabType] /\ SameTabs
  <2>1. PICK f : f = op.file
    OBVIOUS
  <2>2. tab' = tab \/ (live[f] # None /\ tab' = [tab EXCEPT ![f].content = live[f]])
    BY <2>1 DEF ChooseCompare
  <2>3. CASE tab' = tab
    BY <1>1, <2>3, StoreSame DEF BufferInv, BufferType, StoreType
  <2>4. CASE live[f] # None /\ tab' = [tab EXCEPT ![f].content = live[f]]
    BY <1>1, <1>2, <2>1, <2>4, FlushedSame
  <2>5. QED
    BY <2>2, <2>3, <2>4
<1>4. StoreType'
  BY <1>1, <1>3 DEF BufferInv, BufferType, StoreType, SeenType
<1>5. PICK S, N : S = {op} /\ N = {}
  OBVIOUS
<1>6. BufferType'
  <2>1. ops' = (ops \ S) \cup N
    BY <1>1, <1>5
  <2>2. QED
    BY <1>4, <1>5, <2>1, OpsTypes DEF BufferInv
<1>7. Kept /\ FindKept /\ \A g \in Files : TabOK(g)'
  BY <1>1, <1>3, <1>6, SameKeeps, InvTypes DEF MtimeGrows, BufferInv
<1>8. OpOK(op)'
  <2>1. /\ SameTab(op.file) /\ mtime[op.file] <= mtime'[op.file] /\ op.mt \in Int /\ op.read \in Nat
        /\ mtime[op.file] \in Nat /\ mtime'[op.file] \in Nat
    BY <1>1, <1>2, <1>3, InvTypes DEF SameTabs, BufferInv, OpType, Written, Stamps, Null
  <2>2. QED
    BY <1>2, <2>1, SameHandler
<1>9. Dialogs'
  <2>1. compare' = op => (OpOK(compare)' <=> OpOK(op)')
    BY DEF OpOK, Past, Carries, OfTab, Overlaps, Covered, findTab, Editable, resolveTabContent
  <2>2. QED
    BY <1>1, <1>2, <1>8, <2>1 DEF Dialogs
<1>10. WritesFit' /\ OneLoad'
  BY <1>1, <1>6, <1>7, NoNewWrite, NoNewLoad
<1>11. \A h \in ops' : OpOK(h)'
  BY <1>1, <1>7 DEF BufferInv, BufferType, Kept
<1>12. BufferInv'
  BY <1>6, <1>7, <1>9, <1>10, <1>11 DEF BufferInv
<1>13. QED
  BY <1>3, <1>12

LEMMA SyncPromptKeeps ==
  ASSUME EditorAssumption, BufferInv, NEW op \in ops, SyncPrompt(op)
  PROVE  BufferInv'
<1>1. PICK f, n : f = op.file /\ n = [op EXCEPT !.pc = "prompt"]
  OBVIOUS
<1>2. /\ op.kind = "sync" /\ op.pc = "decide" /\ findTab(op) /\ Editable(f)
      /\ ops' = (ops \ {op}) \cup {n} /\ choice' = n /\ compare' = compare
      /\ seen' = [seen EXCEPT ![f] = IF op.read > seen[f] THEN op.read ELSE seen[f]]
      /\ UNCHANGED <<settings, disk, mtime, tab, live, bound, asking, fresh, typed, overlap, ahead>>
  BY <1>1 DEF SyncPrompt, Continue
<1>3. /\ n \in OpType /\ n.kind = op.kind /\ n.file = f /\ n.gen = op.gen /\ n.pc = "prompt"
      /\ n.mt = op.mt /\ n.read = op.read /\ n.text = op.text
      /\ f \in Files /\ op.read \in Written /\ op.mt \in Stamps
  BY <1>1, HandlerFacts DEF OpType
<1>4. /\ op.text # None /\ op.mt <= op.read /\ op.gen <= tab[f].gen
      /\ op.read <= mtime[f]
  BY <1>1, <1>2, HandlerFacts DEF OpOK, Past, Carries
<1>5. /\ seen' \in [Files -> Written] /\ op.read <= seen'[f] /\ seen[f] <= seen'[f]
      /\ \A g \in Files : g # f => seen'[g] = seen[g]
  <2>1. PICK r : r = IF op.read > seen[f] THEN op.read ELSE seen[f]
    OBVIOUS
  <2>2. op.read \in Nat /\ seen[f] \in Nat /\ seen[f] \in Written /\ seen \in [Files -> Written]
    BY <1>3 DEF BufferInv, BufferType, StoreType, SeenType, Written, Stamps, Null
  <2>3. r \in Written /\ op.read <= r /\ seen[f] <= r
    BY <1>3, <2>1, <2>2
  <2>4. seen' = [seen EXCEPT ![f] = r]
    BY <1>2, <2>1
  <2>5. QED
    BY <1>3, <2>2, <2>3, <2>4
<1>6. \A k \in Stamps : Covered(f, k) => Covered(f, k)'
  <2>1. SUFFICES ASSUME NEW k \in Stamps, Covered(f, k)
                 PROVE  k <= seen'[f] \/ <<f, k>> \in ahead'
    BY DEF Covered
  <2>2. k \in Int /\ seen[f] \in Nat /\ seen'[f] \in Nat
    BY <1>3, <1>5 DEF Written, Stamps, Null, BufferInv, BufferType, StoreType, SeenType
  <2>3. QED
    BY <1>2, <1>5, <2>1, <2>2 DEF Covered
<1>7. StoreType'
  <2>1. seen'[f] <= mtime[f]
    BY <1>2, <1>3, <1>4 DEF BufferInv, BufferType, StoreType, SeenType
  <2>2. SeenType'
    BY <1>2, <1>5, <2>1 DEF BufferInv, BufferType, StoreType, SeenType
  <2>3. QED
    BY <1>2, <2>2 DEF BufferInv, BufferType, StoreType
<1>8. OtherTabs(f)
  BY <1>2, <1>5, OthersStay DEF OtherStore, OtherMarks, OtherSeen
<1>9. Editable(f)' /\ resolveTabContent(f)' = resolveTabContent(f)
  BY <1>2 DEF Editable, resolveTabContent
<1>10. Moves(f) /\ Careful(f) /\ TabOK(f)'
  <2>1. Moves(f) /\ Careful(f)
    BY <1>2, <1>3, <1>5, <1>6, <1>9 DEF Moves, Careful, BufferInv, TabOK
  <2>2. tab[f].known \in Stamps /\ TabOK(f)
    BY <1>3 DEF BufferInv, BufferType, StoreType, TabType
  <2>3. TabOK(f)'
    BY <1>2, <1>6, <1>9, <2>2 DEF TabOK
  <2>4. QED
    BY <2>1, <2>3
<1>11. OpOK(n)'
  <2>1. op.mt <= seen'[f]
    BY <1>3, <1>4, <1>5 DEF Written, Stamps, Null
  <2>2. QED
    BY <1>2, <1>3, <1>4, <1>9, <2>1 DEF OpOK, Past, Carries, OfTab, findTab
<1>12. PICK S, N : S = {op} /\ N = {n}
  OBVIOUS
<1>13. BufferType'
  <2>1. ops' = (ops \ S) \cup N
    BY <1>2, <1>12
  <2>2. QED
    BY <1>3, <1>7, <1>12, <2>1, OpsTypes DEF BufferInv
<1>14. Kept /\ FindKept /\ \A g \in Files : TabOK(g)'
  BY <1>2, <1>3, <1>8, <1>10, <1>13, MoveKeeps, InvTypes DEF MtimeGrows, BufferInv
<1>15. WritesFit' /\ OneLoad'
  BY <1>2, <1>3, <1>13, <1>14, NoNewWrite, NoNewLoad DEF Begun
<1>16. Dialogs'
  <2>1. PICK c : c = compare
    OBVIOUS
  <2>2. c # NoOp => c \in OpType /\ c.kind = "sync" /\ c.pc = "prompt" /\ OpOK(c)
    BY <2>1 DEF BufferInv, Dialogs
  <2>3. c # NoOp => OpOK(c)'
    BY <1>14, <2>1, <2>2 DEF Kept
  <2>4. compare' = c => (OpOK(compare)' <=> OpOK(c)')
    BY DEF OpOK, Past, Carries, OfTab, Overlaps, Covered, findTab, Editable, resolveTabContent
  <2>5. QED
    BY <1>2, <1>3, <2>1, <2>2, <2>3, <2>4 DEF Dialogs
<1>17. \A h \in ops' : OpOK(h)'
  BY <1>2, <1>11, <1>14 DEF BufferInv, BufferType, Kept
<1>18. QED
  BY <1>13, <1>14, <1>15, <1>16, <1>17 DEF BufferInv

LEMMA TypeKeeps ==
  ASSUME EditorAssumption, BufferInv, NEW f \in Files, Type(f)
  PROVE  BufferInv'
<1>1. /\ Editable(f) /\ live[f] # None /\ fresh < MaxFresh /\ fresh' = fresh + 1
      /\ live' = [live EXCEPT ![f] = Rough(fresh + 1)] /\ tab' = [tab EXCEPT ![f].dirty = TRUE]
      /\ typed' = [typed EXCEPT ![f] = TRUE]
      /\ UNCHANGED <<settings, disk, mtime, bound, ops, choice, asking, compare, seen, ahead>>
  BY DEF Type, Fresh
<1>2. /\ fresh \in 0 .. MaxFresh /\ fresh + 1 \in 0 .. MaxFresh
      /\ Rough(fresh + 1) \in Texts /\ Rough(fresh + 1) # None
  <2>1. fresh \in 0 .. MaxFresh /\ fresh + 1 \in 0 .. MaxFresh
    BY <1>1 DEF BufferInv, BufferType, StoreType, EditorAssumption
  <2>2. QED
    BY <1>1, <2>1, TextTypes
<1>3. /\ tab' \in [Files -> TabType] /\ (\A g \in Files : g # f => tab'[g] = tab[g])
      /\ tab'[f].dirty = TRUE /\ tab'[f].loading = tab[f].loading
      /\ tab'[f].error = tab[f].error /\ tab'[f].known = tab[f].known
      /\ tab'[f].gen = tab[f].gen /\ tab'[f].open = tab[f].open
  BY <1>1, ZenonT(60) DEF BufferInv, BufferType, StoreType, TabType
<1>4. /\ live' \in [Files -> Texts \cup {None}] /\ live'[f] # None
      /\ (\A g \in Files : g # f => live'[g] = live[g])
      /\ typed' \in [Files -> BOOLEAN] /\ (\A g \in Files : g # f => typed'[g] = typed[g])
  BY <1>1, <1>2 DEF BufferInv, BufferType, StoreType
<1>5. overlap' \in {overlap \cup {f}, overlap \ {f}}
      /\ ((\E op \in ops : op.file = f /\ Waits(op)) => f \in overlap')
  BY DEF Type, Waits
<1>6. StoreType'
  BY <1>1, <1>2, <1>3, <1>4 DEF BufferInv, BufferType, StoreType, SeenType
<1>7. BufferType'
  BY <1>1, <1>6 DEF BufferInv, BufferType
<1>8. OtherSeen(f) /\ seen[f] <= seen'[f] /\ \A k \in Stamps : Covered(f, k) => Covered(f, k)'
  BY <1>1, SeenSame
<1>9. OtherTabs(f)
  BY <1>3, <1>4, <1>5, <1>8, OthersStay DEF OtherStore, OtherMarks
<1>10. Editable(f)' /\ resolveTabContent(f)' # None
  BY <1>1, <1>3, <1>4 DEF Editable, resolveTabContent
<1>11. Moves(f)
  BY <1>1, <1>3, <1>8, <1>10 DEF Moves
<1>12. tab[f].known \in Stamps /\ TabOK(f)
  BY DEF BufferInv, BufferType, StoreType, TabType
<1>13. TabOK(f)'
  BY <1>1, <1>3, <1>8, <1>10, <1>12 DEF TabOK
<1>14. Careful(f) \/ \A h \in ops : h.file = f => ~Waits(h)
  BY <1>5 DEF Careful
<1>15. Kept /\ FindKept /\ \A g \in Files : TabOK(g)'
  BY <1>1, <1>7, <1>9, <1>11, <1>13, <1>14, MoveKeeps, InvTypes DEF MtimeGrows, BufferInv
<1>16. WritesFit' /\ OneLoad' /\ Dialogs'
  BY <1>1, <1>7, <1>15, NoNewWrite, NoNewLoad, DialogsKept
<1>17. \A h \in ops' : OpOK(h)'
  BY <1>1, <1>15 DEF BufferInv, BufferType, Kept
<1>18. QED
  BY <1>7, <1>15, <1>16, <1>17 DEF BufferInv

LEMMA SaveWriteKeeps ==
  ASSUME EditorAssumption, BufferInv, NEW op \in ops, SaveWrite(op)
  PROVE  BufferInv'
<1>1. PICK f, text, m : f = op.file /\ text = op.text /\ m = mtime[f] + 1
  OBVIOUS
<1>2. PICK n : n = [op EXCEPT !.pc = "stat", !.read = m]
  OBVIOUS
<1>3. /\ op \in OpType /\ OpOK(op) /\ f \in Files /\ op.kind = "save" /\ op.pc = "compare"
      /\ text \in Texts /\ mtime[f] \in Nat /\ mtime[f] >= 1
  BY <1>1, HandlerFacts DEF SaveWrite, OpOK, Carries, OpType, None
<1>4. /\ disk' = [disk EXCEPT ![f] = text] /\ mtime' = [mtime EXCEPT ![f] = m]
      /\ mtime'[f] = m
      /\ UNCHANGED <<settings, tab, live, bound, choice, asking, compare, fresh, ahead>>
  BY <1>1, <1>3 DEF SaveWrite, BufferInv, BufferType, StoreType
<1>5. /\ ops' = (ops \ {op}) \cup {n}
      /\ seen' = (IF findTab(op) THEN [seen EXCEPT ![f] = m] ELSE seen)
  BY <1>1, <1>2, <1>4 DEF SaveWrite, Continue
<1>6. \/ /\ findTab(op) /\ resolveTabContent(f) = op.raw
         /\ typed' = [typed EXCEPT ![f] = FALSE] /\ overlap' = overlap \ {f}
      \/ /\ ~findTab(op) \/ resolveTabContent(f) # op.raw
         /\ typed' = typed /\ overlap' = overlap
  BY <1>1 DEF SaveWrite
<1>7. /\ op \in Unwritten(f) /\ IsFiniteSet(Unwritten(f)) /\ Cardinality(Unwritten(f)) \in Nat
      /\ IsFiniteSet(Unwritten(f) \ {op}) /\ Cardinality(Unwritten(f) \ {op}) \in Nat
      /\ Cardinality(Unwritten(f) \ {op}) = Cardinality(Unwritten(f)) - 1
  <2>1. op \in Unwritten(f) /\ IsFiniteSet(Unwritten(f)) /\ Cardinality(Unwritten(f)) \in Nat
    BY <1>1, <1>3, UnwrittenFinite DEF Unwritten, BufferInv
  <2>2. QED
    BY <2>1, FS_RemoveElement, FS_CardinalityType
<1>8. m \in 1 .. MaxWrites /\ m \in Written /\ m + Cardinality(Unwritten(f) \ {op}) <= MaxWrites
  BY <1>1, <1>3, <1>7 DEF BufferInv, WritesFit, Written, Stamps, Null, EditorAssumption
<1>9. /\ n \in OpType /\ n.kind = "save" /\ n.file = f /\ n.gen = op.gen /\ n.pc = "stat"
      /\ n.read = m /\ n.raw = op.raw /\ n.text = op.text /\ n.base = op.base
  BY <1>1, <1>2, <1>3, <1>8 DEF OpType
<1>10. mtime' \in [Files -> 1 .. MaxWrites] /\ MtimeGrows
       /\ \A g \in Files : g # f => mtime'[g] = mtime[g]
  BY <1>1, <1>3, <1>4, <1>8, InvTypes DEF MtimeGrows, BufferInv, BufferType, StoreType
<1>11. SeenType' /\ seen[f] <= seen'[f] /\ (findTab(op) => seen'[f] = m)
       /\ \A g \in Files : g # f => seen'[g] = seen[g]
  BY <1>1, <1>3, <1>4, <1>5, <1>8, <1>10
     DEF SeenType, BufferInv, BufferType, StoreType, Written, Stamps, Null
<1>12. typed' \in [Files -> BOOLEAN] /\ OtherMarks(f)
  BY <1>3, <1>6 DEF OtherMarks, BufferInv, BufferType, StoreType
<1>13. StoreType'
  BY <1>3, <1>4, <1>10, <1>11, <1>12 DEF BufferInv, BufferType, StoreType
<1>14. PICK S, N : S = {op} /\ N = {n}
  OBVIOUS
<1>15. BufferType'
  <2>1. ops' = (ops \ S) \cup N
    BY <1>5, <1>14
  <2>2. QED
    BY <1>9, <1>13, <1>14, <2>1, OpsTypes DEF BufferInv
<1>16. WritesFit'
  <2>1. SUFFICES ASSUME NEW g \in Files PROVE mtime'[g] + Cardinality(Unwritten(g)') <= MaxWrites
    BY DEF WritesFit
  <2>2. CASE g = f
    <3>1. Unwritten(f)' = Unwritten(f) \ {op}
      BY <1>1, <1>5, <1>9 DEF Unwritten
    <3>2. QED
      BY <1>4, <1>8, <2>2, <3>1
  <2>3. CASE g # f
    <3>1. Unwritten(g)' = Unwritten(g)
      BY <1>1, <1>5, <1>9, <2>3 DEF Unwritten
    <3>2. QED
      BY <1>10, <2>3, <3>1 DEF BufferInv, WritesFit
  <2>4. QED
    BY <2>2, <2>3
<1>17. OtherTabs(f)
  BY <1>4, <1>11, <1>12, OthersStay DEF OtherStore, OtherSeen
<1>18. Kept /\ FindKept /\ (\A g \in Files : TabOK(g)') /\ OpOK(n)'
  <2>1. Carries(n)' /\ n.gen <= tab'[f].gen /\ Past(n)'
    <3>1. Carries(n)'
      BY <1>3, <1>9 DEF OpOK, Carries
    <3>2. n.gen <= tab'[f].gen
      BY <1>1, <1>3, <1>4, <1>9 DEF OpOK
    <3>3. Past(n)'
      BY <1>4, <1>8, <1>9 DEF Past
    <3>4. QED
      BY <3>1, <3>2, <3>3
  <2>2. CASE ~findTab(op)
    <3>1. SameTabs
      BY <1>4, <1>5, <1>6, <2>2, StoreSame
    <3>2. ~findTab(n)'
      BY <1>1, <1>4, <1>9, <2>2 DEF findTab
    <3>3. QED
      BY <1>9, <1>10, <1>15, <2>1, <3>1, <3>2, SameKeeps DEF OpOK
  <2>3. CASE findTab(op)
    <3>1. Editable(f) /\ TabOK(f) /\ Overlaps(op) /\ tab[f].known \in Stamps
      BY <1>1, <1>3, <2>3 DEF OpOK, OfTab, BufferInv, BufferType, StoreType, TabType
    <3>2. Editable(f)' /\ resolveTabContent(f)' = resolveTabContent(f)
      BY <1>4, <3>1 DEF Editable, resolveTabContent
    <3>3. typed'[f] => typed[f] /\ f \in overlap /\ f \in overlap'
      BY <1>1, <1>3, <1>6, <2>3, <3>1 DEF Overlaps, BufferInv, BufferType, StoreType
    <3>4. \A k \in Stamps : Covered(f, k) => Covered(f, k)'
      <4>1. SUFFICES ASSUME NEW k \in Stamps, Covered(f, k)
                     PROVE  k <= seen'[f] \/ <<f, k>> \in ahead'
        BY DEF Covered
      <4>2. k \in Int /\ seen[f] \in Nat /\ seen'[f] \in Nat
        BY <1>3, <1>11 DEF Written, Stamps, Null, BufferInv, BufferType, StoreType, SeenType
      <4>3. QED
        BY <1>4, <1>11, <4>1, <4>2 DEF Covered
    <3>5. Moves(f) /\ Careful(f)
      BY <1>4, <1>11, <3>1, <3>2, <3>3, <3>4 DEF Moves, Careful
    <3>6. TabOK(f)'
      BY <1>4, <3>1, <3>2, <3>3, <3>4 DEF TabOK
    <3>7. OpOK(n)'
      <4>1. Overlaps(n)' /\ Covered(f, m)' /\ m <= seen'[f]
        BY <1>8, <1>9, <1>11, <2>3, <3>3 DEF Overlaps, Covered
      <4>2. QED
        BY <1>9, <2>1, <3>2, <4>1 DEF OpOK, OfTab
    <3>8. QED
      BY <1>3, <1>10, <1>15, <1>17, <3>5, <3>6, <3>7, MoveKeeps
  <2>4. QED
    BY <2>2, <2>3
<1>19. OneLoad' /\ Dialogs'
  BY <1>3, <1>4, <1>5, <1>9, <1>18, NoNewLoad, DialogsKept
<1>20. \A h \in ops' : OpOK(h)'
  BY <1>5, <1>18 DEF BufferInv, BufferType, Kept
<1>21. QED
  BY <1>15, <1>16, <1>18, <1>19, <1>20 DEF BufferInv

----------------------------------------------------------------------------
(* A tab is closed. *)

LEMMA Closes ==
  ASSUME EditorAssumption, BufferInv, NEW f \in Files, CloseTab(f),
         UNCHANGED <<settings, disk, mtime, fresh>>, asking' \in Files \cup {NoFile}
  PROVE  /\ StoreType' /\ OtherTabs(f) /\ TabOK(f)'
         /\ ~tab'[f].open /\ tab'[f].gen = tab[f].gen
<1>1. PICK c : c = [Closed EXCEPT !.gen = tab[f].gen]
  OBVIOUS
<1>2. tab[f].gen \in 0 .. MaxOpens /\ tab \in [Files -> TabType]
  BY DEF BufferInv, BufferType, StoreType, TabType
<1>3. /\ c \in TabType /\ c.open = FALSE /\ c.gen = tab[f].gen /\ c.loading = FALSE
      /\ c.error = FALSE
  <2>1. None \in Stamps
    BY DEF None, Written, Stamps, Null, EditorAssumption
  <2>2. c = [open |-> FALSE, gen |-> tab[f].gen, content |-> None, dirty |-> FALSE,
             loading |-> FALSE, error |-> FALSE, known |-> None]
    BY <1>1 DEF Closed
  <2>3. QED
    BY <1>2, <2>1, <2>2 DEF TabType
<1>4. tab' = [tab EXCEPT ![f] = c]
  BY <1>1 DEF CloseTab
<1>5. /\ tab' \in [Files -> TabType] /\ tab'[f] = c
      /\ \A g \in Files : g # f => tab'[g] = tab[g]
  BY <1>2, <1>3, <1>4
<1>6. /\ live' \in [Files -> Texts \cup {None}]
      /\ \A g \in Files : g # f => live'[g] = live[g]
  BY DEF CloseTab, disposeEditorSession, BufferInv, BufferType, StoreType
<1>7. /\ typed' \in [Files -> BOOLEAN] /\ ~typed'[f] /\ OtherMarks(f)
  BY DEF CloseTab, OtherMarks, BufferInv, BufferType, StoreType
<1>8. SeenType' /\ OtherSeen(f)
  <2>1. seen \in [Files -> Written] /\ (\A g \in Files : seen[g] <= mtime[g])
        /\ None \in Written /\ None <= mtime[f]
    BY DEF BufferInv, BufferType, StoreType, SeenType, None, Written, Stamps, Null, EditorAssumption
  <2>2. seen' = [seen EXCEPT ![f] = None] /\ ahead' = {p \in ahead : p[1] # f}
    BY DEF CloseTab
  <2>3. SeenType'
    BY <2>1, <2>2 DEF SeenType
  <2>4. OtherSeen(f)
    BY <2>1, <2>2 DEF OtherSeen
  <2>5. QED
    BY <2>3, <2>4
<1>9. bound' \in Files \cup {NoFile}
  BY DEF CloseTab, BufferInv, BufferType, StoreType
<1>10. StoreType'
  BY <1>5, <1>6, <1>7, <1>8, <1>9 DEF BufferInv, BufferType, StoreType
<1>11. OtherTabs(f)
  BY <1>5, <1>6, <1>7, <1>8, OthersStay DEF OtherStore
<1>12. TabOK(f)'
  BY <1>3, <1>5, <1>7 DEF TabOK, Editable
<1>13. QED
  BY <1>3, <1>5, <1>10, <1>11, <1>12

LEMMA CloseStep ==
  ASSUME EditorAssumption, BufferInv, NEW f \in Files, CloseTab(f),
         UNCHANGED <<settings, disk, mtime, fresh>>, asking' \in Files \cup {NoFile},
         NEW S, ops' = ops \ S, choice' = choice, compare' = compare,
         choice # NoOp => \A s \in S : s.pc # "prompt"
  PROVE  BufferInv'
<1>1. /\ StoreType' /\ OtherTabs(f) /\ TabOK(f)' /\ ~tab'[f].open /\ tab'[f].gen = tab[f].gen
  BY Closes
<1>2. PICK N : N = {}
  OBVIOUS
<1>3. ops' = (ops \ S) \cup N /\ \A m \in N : m.kind # "load" /\ ~Begun(m) /\ OpOK(m)'
  BY <1>2
<1>4. BufferType'
  BY <1>1, <1>2, <1>3, OpsTypes DEF BufferInv
<1>5. \A h \in OpType : h.file = f => ~findTab(h)'
  BY <1>1 DEF findTab
<1>6. MtimeGrows /\ tab[f].gen <= tab'[f].gen
  BY <1>1, InvTypes DEF MtimeGrows, BufferInv
<1>7. Kept /\ \A g \in Files : TabOK(g)'
  BY <1>1, <1>4, <1>5, <1>6, GoneKeeps
<1>8. FindKept
  BY <1>1, <1>5 DEF FindKept, OtherTabs, SameTab, SameButContent, findTab, OpType
<1>9. choice' \in {choice, NoOp} /\ compare' \in {compare, NoOp} /\ mtime' = mtime
      /\ (choice' # NoOp => \A s \in S : s.pc # "prompt")
  OBVIOUS
<1>10. QED
  BY <1>3, <1>4, <1>7, <1>8, <1>9, QuietStep

LEMMA ClosesKeep ==
  ASSUME EditorAssumption, BufferInv, NEW f \in Files, closeTab(f) \/ DiscardAndClose(f)
  PROVE  BufferInv'
<1>1. /\ CloseTab(f) /\ UNCHANGED <<settings, disk, mtime, fresh>>
      /\ asking' \in Files \cup {NoFile} /\ ops' = ops
      /\ choice' = choice /\ compare' = compare
  BY DEF closeTab, DiscardAndClose, BufferInv, BufferType, StoreType
<1>2. PICK S : S = {}
  OBVIOUS
<1>3. ops' = ops \ S /\ (choice # NoOp => \A s \in S : s.pc # "prompt")
  BY <1>1, <1>2
<1>4. QED
  BY <1>1, <1>3, CloseStep

----------------------------------------------------------------------------
(* The end of a save. *)

\* What a save that ends leaves of the tab.
LEMMA SavedTab ==
  ASSUME EditorAssumption, BufferInv, NEW op \in ops, Saved(op), op.kind = "save",
         op.mt \in Stamps, Editable(op.file)
  PROVE  /\ tab' \in [Files -> TabType] /\ live' \in [Files -> Texts \cup {None}]
         /\ OtherStore(op.file) /\ Editable(op.file)'
         /\ tab'[op.file].gen = tab[op.file].gen /\ tab'[op.file].known = op.mt
         /\ resolveTabContent(op.file)' # None
<1>1. PICK f, text, rebuilt, content :
        /\ f = op.file /\ text = op.text /\ (rebuilt <=> op.text # op.raw)
        /\ content = (IF ~(op.text # op.raw) /\ f \in settings.plain /\ live[f] # None
                      THEN None ELSE op.text)
  OBVIOUS
<1>2. f \in Files /\ text \in Texts /\ text # None /\ tab \in [Files -> TabType]
      /\ live \in [Files -> Texts \cup {None}]
  BY <1>1, HandlerFacts DEF OpOK, Carries, OpType, BufferInv, BufferType, StoreType
<1>3. /\ content = text \/ (content = None /\ ~rebuilt /\ live[f] # None)
      /\ content \in Texts \cup {None}
  BY <1>1, <1>2
<1>4. tab' = [tab EXCEPT ![f] = [@ EXCEPT !.content = content, !.dirty = FALSE,
                                          !.known = op.mt]]
  BY <1>1 DEF Saved
<1>5. live' = (IF rebuilt THEN [live EXCEPT ![f] = None] ELSE live)
  BY <1>1 DEF Saved, disposeEditorSession
<1>6. /\ tab' \in [Files -> TabType] /\ (\A g \in Files : g # f => tab'[g] = tab[g])
      /\ tab'[f].content = content /\ tab'[f].loading = tab[f].loading
      /\ tab'[f].error = tab[f].error /\ tab'[f].open = tab[f].open
      /\ tab'[f].gen = tab[f].gen /\ tab'[f].known = op.mt
  BY <1>2, <1>3, <1>4, ZenonT(60) DEF TabType
<1>7. /\ live' \in [Files -> Texts \cup {None}] /\ (\A g \in Files : g # f => live'[g] = live[g])
      /\ live'[f] = None \/ (live'[f] = live[f] /\ ~rebuilt)
      /\ ~rebuilt => live'[f] = live[f]
  BY <1>2, <1>5
<1>8. OtherStore(f)
  BY <1>6, <1>7 DEF OtherStore
<1>9. Editable(f)'
  BY <1>1, <1>6 DEF Editable
<1>10. resolveTabContent(f)' # None
  BY <1>2, <1>3, <1>6, <1>7 DEF resolveTabContent
<1>11. QED
  BY <1>1, <1>6, <1>7, <1>8, <1>9, <1>10

LEMMA SaveDoneKeeps ==
  ASSUME EditorAssumption, BufferInv, NEW op \in ops, SaveDone(op)
  PROVE  BufferInv'
<1>1. /\ op.kind = "save" /\ op.pc = "saved" /\ ops' = ops \ {op}
      /\ choice' = choice /\ compare' = compare
      /\ UNCHANGED <<settings, disk, mtime, asking, fresh>>
  BY DEF SaveDone, End
<1>2. op \in OpType /\ OpOK(op) /\ op.file \in Files
  BY HandlerFacts
<1>3. CASE ~findTab(op)
  <2>1. TabsStay
    BY <1>1, <1>3 DEF SaveDone, TabsStay
  <2>2. QED
    BY <1>1, <2>1, TabsStayTypes, EndStep DEF BufferInv, BufferType, StoreType
<1>4. CASE findTab(op) /\ op.after = "stay"
  <2>1. PICK f, read, mt : f = op.file /\ read = op.read /\ mt = op.mt
    OBVIOUS
  <2>2. Saved(op) /\ ahead' = Unread(f, read, mt) /\ UNCHANGED <<bound, typed, overlap, seen>>
    BY <1>4, <2>1 DEF SaveDone
  <2>3. /\ mt \in Stamps /\ read \in Written /\ f \in Files
        /\ Editable(f) /\ read <= seen[f] /\ (typed[f] => f \in overlap)
    BY <1>1, <1>2, <1>4, <2>1 DEF OpOK, OfTab, Carries, Overlaps, OpType
  <2>4. /\ tab' \in [Files -> TabType] /\ live' \in [Files -> Texts \cup {None}]
        /\ OtherStore(f) /\ Editable(f)'
        /\ tab'[f].gen = tab[f].gen /\ tab'[f].known = mt
        /\ resolveTabContent(f)' # None
    BY <1>1, <2>1, <2>2, <2>3, SavedTab
  <2>5. seen' \in [Files -> Written] /\ seen[f] <= seen'[f] /\ read <= seen'[f]
        /\ \A g \in Files : g # f => seen'[g] = seen[g]
    BY <2>2, <2>3, InvTypes DEF BufferInv
  <2>6. /\ OtherSeen(f) /\ Covered(f, mt)'
        /\ \A k \in Stamps : Covered(f, k) => Covered(f, k)'
    BY <2>2, <2>3, <2>5, Sees
  <2>7. StoreType'
    BY <1>1, <2>2, <2>4 DEF BufferInv, BufferType, StoreType, SeenType
  <2>8. OtherTabs(f)
    BY <2>2, <2>4, <2>6, OthersStay DEF OtherMarks
  <2>9. Moves(f) /\ Careful(f)
    BY <2>2, <2>3, <2>4, <2>5, <2>6 DEF Moves, Careful
  <2>10. TabOK(f)'
    BY <2>2, <2>3, <2>4, <2>6 DEF TabOK, Editable
  <2>11. QED
    BY <1>1, <2>3, <2>7, <2>8, <2>9, <2>10, MoveEnd
<1>5. CASE findTab(op) /\ op.after # "stay"
  <2>1. CloseTab(op.file)
    BY <1>5 DEF SaveDone
  <2>2. PICK S : S = {op}
    OBVIOUS
  <2>3. ops' = ops \ S /\ (choice # NoOp => \A s \in S : s.pc # "prompt")
    BY <1>1, <2>2
  <2>4. asking' \in Files \cup {NoFile}
    BY <1>1 DEF BufferInv, BufferType, StoreType
  <2>5. QED
    BY <1>1, <1>2, <2>1, <2>3, <2>4, CloseStep
<1>6. QED
  BY <1>3, <1>4, <1>5

----------------------------------------------------------------------------
(* Loading. *)

\* A load begins on a tab no handler finds.
LEMMA LoadStep ==
  ASSUME EditorAssumption, BufferInv, StoreType', mtime' = mtime, NEW f \in Files, OtherTabs(f),
         TabOK(f)', tab[f].gen <= tab'[f].gen,
         \A h \in OpType : OpOK(h) /\ h.file = f => ~findTab(h)',
         NEW n \in OpType, ops' = ops \cup {n}, n.kind = "load", n.file = f, OpOK(n)',
         choice' = choice, compare' = compare
  PROVE  BufferInv'
<1>1. PICK S, N : S = {} /\ N = {n}
  OBVIOUS
<1>2. ops' = (ops \ S) \cup N
  BY <1>1
<1>3. BufferType'
  BY <1>1, <1>2, OpsTypes DEF BufferInv
<1>4. MtimeGrows
  BY InvTypes DEF MtimeGrows, BufferInv
<1>5. Kept /\ \A g \in Files : TabOK(g)'
  BY <1>3, <1>4, GoneKeeps
<1>6. WritesFit'
  BY <1>3, NoNewWrite DEF Begun
<1>7. OneLoad'
  <2>1. \A h \in ops : h.file = n.file => ~findTab(h)'
    BY DEF BufferInv, BufferType
  <2>2. OtherTabs(n.file)
    OBVIOUS
  <2>3. QED
    BY <2>1, <2>2, LoadBegins
<1>8. Dialogs'
  BY <1>5, DialogsKept
<1>9. \A h \in ops' : OpOK(h)'
  BY <1>5 DEF BufferInv, BufferType, Kept
<1>10. QED
  BY <1>3, <1>5, <1>6, <1>7, <1>8, <1>9 DEF BufferInv

LEMMA OpenKeeps ==
  ASSUME EditorAssumption, BufferInv, NEW f \in Files, openFile(f)
  PROVE  BufferInv' /\ OtherTabs(f)
<1>1. PICK c, u, n :
        /\ c = [Closed EXCEPT !.open = TRUE, !.loading = TRUE, !.gen = tab[f].gen + 1]
        /\ u = Unbound.tab
        /\ n = [Op("load", f, "stat") EXCEPT !.gen = [u EXCEPT ![f] = c][f].gen]
  OBVIOUS
<1>2. /\ ~tab[f].open /\ tab[f].gen < MaxOpens
      /\ tab' = [u EXCEPT ![f] = c] /\ ops' = ops \cup {n}
      /\ live' = Unbound.live /\ bound' = NoFile
      /\ UNCHANGED <<settings, disk, mtime, choice, asking, compare, fresh, typed, overlap, seen,
                     ahead>>
  BY <1>1 DEF openFile, StartLoad
<1>3. /\ Unbound.live \in [Files -> Texts \cup {None}] /\ u \in [Files -> TabType]
      /\ \A g \in Files : /\ SameButContent(u[g], tab[g])
                          /\ Text(Unbound.live, u, g) = resolveTabContent(g)
  BY <1>1, Unbinding DEF BufferInv
<1>4. tab[f].gen \in 0 .. MaxOpens /\ tab[f].gen \in Nat /\ MaxOpens \in Nat
      /\ tab[f].gen + 1 \in 0 .. MaxOpens
  BY <1>2 DEF BufferInv, BufferType, StoreType, TabType, EditorAssumption
<1>5. /\ c \in TabType /\ c.open = TRUE /\ c.loading = TRUE /\ c.error = FALSE
      /\ c.gen = tab[f].gen + 1
  <2>1. None \in Stamps
    BY DEF None, Written, Stamps, Null, EditorAssumption
  <2>2. c = [open |-> TRUE, gen |-> tab[f].gen + 1, content |-> None, dirty |-> FALSE,
             loading |-> TRUE, error |-> FALSE, known |-> None]
    BY <1>1 DEF Closed
  <2>3. QED
    BY <1>4, <2>1, <2>2 DEF TabType
<1>6. /\ tab' \in [Files -> TabType] /\ tab'[f] = c
      /\ \A g \in Files : g # f => tab'[g] = u[g]
  BY <1>2, <1>3, <1>5
<1>7. StoreType'
  BY <1>2, <1>3, <1>6 DEF BufferInv, BufferType, StoreType, SeenType
<1>8. OtherTabs(f)
  <2>1. SUFFICES ASSUME NEW g \in Files, g # f PROVE SameTab(g)
    BY DEF OtherTabs
  <2>2. SameButContent(tab'[g], tab[g])
    BY <1>3, <1>6, <2>1
  <2>3. resolveTabContent(g)' = resolveTabContent(g)
    BY <1>2, <1>3, <1>6, <2>1 DEF resolveTabContent, Text
  <2>4. QED
    BY <1>2, <2>2, <2>3 DEF SameTab
<1>9. TabOK(f)'
  <2>1. ~typed[f]
    BY <1>2 DEF BufferInv, TabOK, Editable
  <2>2. QED
    BY <1>2, <1>5, <1>6, <2>1 DEF TabOK, Editable
<1>10. \A h \in OpType : OpOK(h) /\ h.file = f => ~findTab(h)'
  <2>1. SUFFICES ASSUME NEW h \in OpType, OpOK(h), h.file = f PROVE ~findTab(h)'
    OBVIOUS
  <2>2. h.gen \in Nat /\ h.gen <= tab[f].gen
    BY <2>1 DEF OpType, OpOK
  <2>3. QED
    BY <1>4, <1>5, <1>6, <2>1, <2>2 DEF findTab
<1>11. /\ n \in OpType /\ n.kind = "load" /\ n.pc = "stat" /\ n.file = f
       /\ n.gen = tab[f].gen + 1 /\ n.read = 0 /\ mtime[f] \in Nat
  <2>1. [u EXCEPT ![f] = c][f].gen = tab[f].gen + 1
    BY <1>3, <1>5
  <2>2. n = [Op("load", f, "stat") EXCEPT !.gen = tab[f].gen + 1]
    BY <1>1, <2>1
  <2>3. PICK o, gen : o = Op("load", f, "stat") /\ gen = tab[f].gen + 1
    OBVIOUS
  <2>4. /\ o \in OpType /\ o.kind = "load" /\ o.pc = "stat" /\ o.file = f
        /\ o.read = 0 /\ mtime[f] \in Nat /\ gen \in Nat
    BY <1>4, <2>3, OpIs
  <2>5. n = [o EXCEPT !.gen = gen]
    BY <2>2, <2>3
  <2>6. /\ n \in OpType /\ n.kind = o.kind /\ n.pc = o.pc /\ n.file = o.file
        /\ n.gen = gen /\ n.read = o.read
    BY <2>4, <2>5, ZenonT(60) DEF OpType
  <2>7. QED
    BY <2>3, <2>4, <2>6
<1>12. OpOK(n)'
  BY <1>2, <1>4, <1>5, <1>6, <1>11 DEF OpOK, Past, Carries, OfTab, findTab
<1>13. tab[f].gen <= tab'[f].gen
  BY <1>4, <1>5, <1>6
<1>14. BufferInv'
  BY <1>2, <1>7, <1>8, <1>9, <1>10, <1>11, <1>12, <1>13, LoadStep
<1>15. QED
  BY <1>8, <1>14

\* No handler finds a tab that shows an error; only one finds a tab that loads.
LEMMA NotReady ==
  ASSUME BufferInv, NEW h \in OpType, OpOK(h), findTab(h), ~Editable(h.file)
  PROVE  h.kind = "load" /\ tab[h.file].loading
BY DEF OpOK, OfTab, OpType

LEMMA RetryKeeps ==
  ASSUME EditorAssumption, BufferInv, NEW f \in Files, retryOpenFile(f)
  PROVE  BufferInv'
<1>1. PICK t, n :
        /\ t = [tab EXCEPT ![f] = [@ EXCEPT !.loading = TRUE, !.error = FALSE]]
        /\ n = [Op("load", f, "stat") EXCEPT !.gen = t[f].gen]
  OBVIOUS
<1>2. /\ tab[f].open /\ tab[f].error /\ tab' = t /\ ops' = ops \cup {n}
      /\ UNCHANGED <<settings, disk, mtime, live, bound, choice, asking, compare, fresh, typed,
                     overlap, seen, ahead>>
  BY <1>1 DEF retryOpenFile, StartLoad
<1>3. /\ t \in [Files -> TabType] /\ (\A g \in Files : g # f => t[g] = tab[g])
      /\ t[f].loading = TRUE /\ t[f].error = FALSE /\ t[f].open = tab[f].open
      /\ t[f].gen = tab[f].gen /\ tab[f].gen \in Nat
  BY <1>1, InvTypes, ZenonT(60) DEF TabType, BufferInv
<1>4. StoreType'
  BY <1>2, <1>3 DEF BufferInv, BufferType, StoreType, SeenType
<1>5. OtherTabs(f)
  BY <1>2, <1>3, OthersStay DEF OtherStore, OtherMarks, OtherSeen
<1>6. ~Editable(f) /\ ~tab[f].loading /\ ~typed[f]
  BY <1>2 DEF Editable, TabOK, BufferInv
<1>7. TabOK(f)'
  BY <1>2, <1>3, <1>6 DEF TabOK, Editable
<1>8. \A h \in OpType : OpOK(h) /\ h.file = f => ~findTab(h)'
  <2>1. \A h \in OpType : h.file = f /\ findTab(h)' => findTab(h)
    BY <1>2, <1>3 DEF findTab
  <2>2. QED
    BY <1>6, <2>1, NotReady
<1>9. /\ n \in OpType /\ n.kind = "load" /\ n.pc = "stat" /\ n.file = f
      /\ n.gen = tab[f].gen /\ n.read = 0 /\ mtime[f] \in Nat
  <2>1. n = [Op("load", f, "stat") EXCEPT !.gen = tab[f].gen]
    BY <1>1, <1>3
  <2>2. QED
    BY <1>3, <2>1, OpIs DEF OpType
<1>10. OpOK(n)'
  BY <1>2, <1>3, <1>9 DEF OpOK, Past, Carries, OfTab, findTab
<1>11. tab[f].gen <= tab'[f].gen
  BY <1>2, <1>3
<1>12. QED
  BY <1>2, <1>4, <1>5, <1>7, <1>8, <1>9, <1>10, <1>11, LoadStep

\* A load that finds its tab ends, and no other handler finds it.
LEMMA LoadEnds ==
  ASSUME EditorAssumption, BufferInv, NEW op \in ops, op.kind = "load", op.pc # "prompt",
         findTab(op), StoreType', mtime' = mtime, NEW f, f = op.file, OtherTabs(f), TabOK(f)',
         tab'[f].gen = tab[f].gen, tab'[f].open = tab[f].open,
         ops' = ops \ {op}, choice' = choice, compare' = compare
  PROVE  BufferInv'
<1>1. PICK S, N : S = {op} /\ N = {}
  OBVIOUS
<1>2. /\ ops' = (ops \ S) \cup N /\ (\A m \in N : m.kind # "load" /\ ~Begun(m) /\ OpOK(m)')
      /\ choice' # NoOp => \A s \in S : s.pc # "prompt"
  BY <1>1
<1>3. BufferType'
  BY <1>1, <1>2, OpsTypes DEF BufferInv
<1>4. MtimeGrows /\ f \in Files /\ tab[f].gen <= tab'[f].gen
  BY InvTypes, HandlerFacts DEF MtimeGrows, BufferInv
<1>5. tab[f].loading /\ ~Editable(f)
  BY HandlerFacts DEF OpOK, OfTab, Editable
<1>6. \A h \in OpType : h.file = f /\ findTab(h)' => findTab(h)
  BY DEF findTab
<1>7. FindKept
  BY <1>4, <1>6 DEF FindKept, OtherTabs, SameTab, SameButContent, findTab, OpType
<1>8. \A h \in OpType : OpOK(h) /\ h.file = f /\ (h \in ops \cap ops' \/ h.kind = "sync") =>
         ~findTab(h)'
  <2>1. SUFFICES ASSUME NEW h \in OpType, OpOK(h), h.file = f, findTab(h)',
                        h \in ops \cap ops' \/ h.kind = "sync"
                 PROVE  FALSE
    OBVIOUS
  <2>2. findTab(h) /\ h.kind = "load" /\ h \in ops
    BY <1>5, <1>6, <2>1, NotReady
  <2>3. h = op
    BY <2>1, <2>2 DEF BufferInv, OneLoad
  <2>4. QED
    BY <2>1, <2>2, <2>3
<1>9. Kept /\ \A g \in Files : TabOK(g)'
  BY <1>3, <1>4, <1>8, GoneKeeps
<1>10. QED
  BY <1>2, <1>3, <1>7, <1>9, QuietStep

LEMMA PopulateKeeps ==
  ASSUME EditorAssumption, BufferInv, NEW op \in ops, populateTabFromDisk(op)
  PROVE  BufferInv'
<1>1. PICK f, text, read, mt : f = op.file /\ text = op.text /\ read = op.read /\ mt = op.mt
  OBVIOUS
<1>2. /\ f \in Files /\ mt \in Stamps /\ read \in Written
      /\ text \in Texts /\ text # None /\ read <= mtime[f]
  BY <1>1, HandlerFacts DEF populateTabFromDisk, OpOK, Past, Carries, OpType
<1>3. /\ op.kind = "load" /\ op.pc = "answered" /\ ops' = ops \ {op}
      /\ choice' = choice /\ compare' = compare
      /\ UNCHANGED <<settings, disk, mtime, live, bound, asking, fresh, typed, overlap>>
  BY DEF populateTabFromDisk, End
<1>4. CASE ~findTab(op)
  <2>1. TabsStay
    BY <1>3, <1>4 DEF populateTabFromDisk, TabsStay
  <2>2. QED
    BY <1>3, <2>1, TabsStayTypes, EndStep DEF BufferInv, BufferType, StoreType
<1>5. CASE findTab(op)
  <2>1. /\ tab' = [tab EXCEPT ![f] = [@ EXCEPT !.content = text, !.dirty = FALSE,
                                               !.loading = FALSE, !.error = FALSE, !.known = mt]]
        /\ Saw(f, read, mt)
    BY <1>1, <1>5 DEF populateTabFromDisk
  <2>2. /\ tab' \in [Files -> TabType] /\ (\A g \in Files : g # f => tab'[g] = tab[g])
        /\ tab'[f].content = text /\ tab'[f].known = mt
        /\ tab'[f].loading = FALSE /\ tab'[f].error = FALSE
        /\ tab'[f].gen = tab[f].gen /\ tab'[f].open = tab[f].open
    BY <1>2, <2>1, ZenonT(60) DEF BufferInv, BufferType, StoreType, TabType
  <2>3. SeenType' /\ OtherSeen(f) /\ Covered(f, mt)'
    BY <1>2, <1>3, <2>1, SawSees
  <2>4. StoreType'
    BY <1>3, <2>2, <2>3 DEF BufferInv, BufferType, StoreType
  <2>5. OtherTabs(f)
    BY <1>3, <2>2, <2>3, OthersStay DEF OtherStore, OtherMarks
  <2>6. ~typed[f]
    BY <1>1, <1>2, <1>3, <1>5, HandlerFacts DEF BufferInv, TabOK, Editable, OpOK, OfTab
  <2>7. TabOK(f)'
    BY <1>2, <1>3, <2>2, <2>3, <2>6 DEF TabOK, resolveTabContent
  <2>8. QED
    BY <1>1, <1>3, <1>5, <2>2, <2>4, <2>5, <2>7, LoadEnds
<1>6. QED
  BY <1>4, <1>5

LEMMA LoadFailsKeeps ==
  ASSUME EditorAssumption, BufferInv, NEW op \in ops, LoadFails(op)
  PROVE  BufferInv'
<1>1. PICK f : f = op.file
  OBVIOUS
<1>2. /\ op.kind = "load" /\ op.pc # "prompt" /\ ops' = ops \ {op} /\ f \in Files
      /\ choice' = choice /\ compare' = compare
      /\ UNCHANGED <<settings, disk, mtime, live, bound, asking, fresh, typed, overlap, seen,
                     ahead>>
  BY <1>1, HandlerFacts DEF LoadFails, End
<1>3. CASE ~findTab(op)
  <2>1. TabsStay
    BY <1>2, <1>3 DEF LoadFails, TabsStay
  <2>2. QED
    BY <1>2, <2>1, TabsStayTypes, EndStep DEF BufferInv, BufferType, StoreType
<1>4. CASE findTab(op)
  <2>1. tab' = [tab EXCEPT ![f] = [@ EXCEPT !.loading = FALSE, !.content = None, !.error = TRUE]]
    BY <1>1, <1>4 DEF LoadFails
  <2>2. /\ tab' \in [Files -> TabType] /\ (\A g \in Files : g # f => tab'[g] = tab[g])
        /\ tab'[f].loading = FALSE /\ tab'[f].error = TRUE
        /\ tab'[f].gen = tab[f].gen /\ tab'[f].open = tab[f].open
    BY <1>2, <2>1, ZenonT(60) DEF BufferInv, BufferType, StoreType, TabType
  <2>3. StoreType'
    BY <1>2, <2>2 DEF BufferInv, BufferType, StoreType, SeenType
  <2>4. OtherTabs(f)
    BY <1>2, <2>2, OthersStay DEF OtherStore, OtherMarks, OtherSeen
  <2>5. ~typed[f]
    BY <1>1, <1>2, <1>4, HandlerFacts DEF BufferInv, TabOK, Editable, OpOK, OfTab
  <2>6. TabOK(f)'
    BY <1>2, <2>2, <2>5 DEF TabOK, Editable
  <2>7. QED
    BY <1>1, <1>2, <1>4, <2>2, <2>3, <2>4, <2>6, LoadEnds
<1>5. QED
  BY <1>3, <1>4

----------------------------------------------------------------------------
(* Every step keeps the invariant. *)

LEMMA InitBuffers ==
  ASSUME EditorAssumption, editorInit
  PROVE  BufferInv
<1>1. MaxWrites \in Nat /\ MaxWrites >= 1 /\ MaxOpens \in Nat /\ MaxFresh \in Nat
  BY DEF EditorAssumption
<1>2. Tidy(0) \in Texts /\ None \in Written /\ 0 \in 0 .. MaxFresh /\ 1 \in 1 .. MaxWrites
      /\ 0 \in 0 .. MaxOpens
  BY <1>1, TextTypes DEF None, Written, Stamps, Null
<1>3. /\ Closed \in TabType /\ Restored \in TabType
      /\ Restored.open = TRUE /\ Restored.dirty = TRUE /\ Restored.loading = FALSE
      /\ Restored.error = FALSE /\ Restored.content \in Texts /\ Restored.known = None
  <2>1. Rough(1) \in Texts /\ 1 \in 0 .. MaxOpens /\ None \in Stamps
    BY <1>1, TextTypes DEF None, Stamps, Null, Rough, Texts
  <2>2. Closed = [open |-> FALSE, gen |-> 0, content |-> None, dirty |-> FALSE,
                  loading |-> FALSE, error |-> FALSE, known |-> None]
    BY DEF Closed
  <2>3. Closed \in TabType
    BY <1>2, <2>1, <2>2 DEF TabType
  <2>4. PICK c, shut : c = Rough(1) /\ shut = Closed
    OBVIOUS
  <2>6. /\ shut \in TabType /\ shut.loading = FALSE /\ shut.error = FALSE /\ shut.known = None
        /\ c \in Texts
    BY <2>1, <2>2, <2>3, <2>4
  <2>7. Restored = [shut EXCEPT !.open = TRUE, !.gen = 1, !.content = c, !.dirty = TRUE]
    BY <2>4 DEF Restored
  <2>8. /\ Restored \in TabType /\ Restored.open = TRUE /\ Restored.dirty = TRUE
        /\ Restored.loading = FALSE /\ Restored.error = FALSE /\ Restored.content = c
        /\ Restored.known = None
    BY <2>1, <2>6, <2>7, ZenonT(60) DEF TabType
  <2>5. QED
    BY <2>3, <2>6, <2>8
<1>4. SeenType
  BY <1>2 DEF editorInit, SeenType, None
<1>5. BufferType
  <2>1. disk \in [Files -> Texts] /\ mtime \in [Files -> 1 .. MaxWrites]
        /\ tab \in [Files -> TabType] /\ live \in [Files -> Texts \cup {None}]
        /\ fresh \in 0 .. MaxFresh /\ typed \in [Files -> BOOLEAN]
    BY <1>1, <1>2, <1>3 DEF editorInit
  <2>2. IsFiniteSet(ops)
    BY FS_EmptySet DEF editorInit
  <2>3. QED
    BY <1>4, <2>1, <2>2 DEF BufferType, StoreType, editorInit
<1>6. WritesFit
  <2>1. SUFFICES ASSUME NEW f \in Files PROVE mtime[f] + Cardinality(Unwritten(f)) <= MaxWrites
    BY DEF WritesFit
  <2>2. Unwritten(f) = {}
    BY DEF Unwritten, editorInit
  <2>3. Cardinality(Unwritten(f)) = 0
    BY <2>2, FS_EmptySet
  <2>4. QED
    BY <1>1, <2>3 DEF editorInit
<1>7. ASSUME NEW f \in Files PROVE TabOK(f)
  <2>1. live[f] = None /\ seen[f] = None /\ (typed[f] <=> f \in settings.restored)
        /\ tab[f] = IF f \in settings.restored THEN Restored ELSE Closed
    BY DEF editorInit
  <2>2. CASE f \in settings.restored
    BY <1>3, <2>1, <2>2, TextTypes DEF TabOK, Editable, resolveTabContent, Covered, None
  <2>3. CASE f \notin settings.restored
    <3>1. ~typed[f] /\ tab[f].open = FALSE /\ tab[f].loading = FALSE
      BY <2>1, <2>3 DEF Closed
    <3>2. QED
      BY <3>1 DEF TabOK, Editable
  <2>4. QED
    BY <2>2, <2>3
<1>8. (\A op \in ops : OpOK(op)) /\ OneLoad /\ Dialogs
  BY DEF editorInit, OneLoad, Dialogs
<1>9. QED
  BY <1>5, <1>6, <1>7, <1>8 DEF BufferInv

LEMMA StutterKeeps ==
  ASSUME EditorAssumption, BufferInv, UNCHANGED editorVars
  PROVE  BufferInv'
<1>1. /\ TabsStay /\ asking' \in Files \cup {NoFile} /\ ops' = ops
      /\ choice' = choice /\ compare' = compare
  BY DEF editorVars, TabsStay, BufferInv, BufferType, StoreType
<1>2. QED
  BY <1>1, TabsStayTypes, NoHandlerStep

LEMMA FileActionsKeep ==
  ASSUME EditorAssumption, BufferInv, NEW f \in Files, FileAction(f)
  PROVE  BufferInv'
<1>1. CASE openFile(f) \/ retryOpenFile(f) \/ loadMissingTabContents(f)
  BY <1>1, OpenKeeps, RetryKeeps, HydrateBegins
<1>2. CASE bindTabToView(f) \/ RebuildView(f) \/ Type(f)
  BY <1>2, ViewKeeps, TypeKeeps
<1>3. CASE saveFile(f) \/ saveTabIfDirty(f) \/ confirmDiscardTabs(f) \/ SaveAndClose(f)
  BY <1>3, SavesBegin, AutoSaveKeeps
<1>4. CASE closeTab(f) \/ DiscardAndClose(f) \/ CancelClose(f) \/ SuppressExpires(f)
  BY <1>4, ClosesKeep, SmallSteps
<1>5. CASE ExternalWrite(f) \/ runPathContentSync(f) \/ syncOpenFilesOnFocus(f)
           \/ reopenWithEncoding(f)
  BY <1>5, ExternalWriteKeeps, SyncsBegin, ReopenKeeps
<1>6. QED
  BY <1>1, <1>2, <1>3, <1>4, <1>5 DEF FileAction

LEMMA OpActionsKeep ==
  ASSUME EditorAssumption, BufferInv, NEW op \in ops, OpAction(op)
  PROVE  BufferInv'
<1>1. CASE LoadStat(op) \/ LoadRead(op) \/ populateTabFromDisk(op) \/ LoadFails(op)
  BY <1>1, LoadAnswersKeep, PopulateKeeps, LoadFailsKeeps
<1>2. CASE SaveRefused(op) \/ SaveCheck(op) \/ SaveConflict(op) \/ SaveWrite(op)
           \/ SaveFails(op) \/ SaveStat(op) \/ SaveDone(op)
  BY <1>2, EndsKeep, SaveCheckKeeps, SaveWriteKeeps, SaveStatKeeps, SaveDoneKeeps
<1>3. CASE SyncStat(op) \/ SyncRead(op) \/ SyncFails(op) \/ SyncSkip(op) \/ SyncReload(op)
           \/ SyncPrompt(op)
  BY <1>3, SyncStatKeeps, SyncReadKeeps, EndsKeep, SyncReloadKeeps, SyncPromptKeeps
<1>4. CASE ChooseReload(op) \/ ChooseKeep(op) \/ ChooseCompare(op) \/ ChooseNothing(op)
  BY <1>4, ChoicesKeep, ChooseCompareKeeps, EndsKeep
<1>5. CASE ReopenConfirmed(op) \/ ReopenAnswers(op) \/ ReopenDone(op)
  BY <1>5, ReopenConfirmedKeeps, ReopenAnswersKeeps, ReopenDoneKeeps
<1>6. CASE HydrateStat(op) \/ HydrateDone(op)
  BY <1>6, HydrateStatKeeps, HydrateDoneKeeps
<1>7. QED
  BY <1>1, <1>2, <1>3, <1>4, <1>5, <1>6 DEF OpAction

LEMMA LeaveKeeps ==
  ASSUME EditorAssumption, BufferInv, LeaveEditor
  PROVE  BufferInv' /\ SameTabs
<1>1. bound \in Files
  BY DEF LeaveEditor, BufferInv, BufferType, StoreType
<1>2. QED
  BY <1>1, ViewKeeps

LEMMA NextBuffers ==
  ASSUME EditorAssumption, BufferInv, [editorNext]_editorVars
  PROVE  BufferInv'
BY StutterKeeps, FileActionsKeep, OpActionsKeep, LeaveKeeps, CompareKeeps DEF editorNext

\* The tabs, the handlers in flight and the dialogs agree: what a tab may rely on, what a handler
\* carries at each of its awaits, and what one that still finds its tab may do with it.
THEOREM BuffersInvariant == EditorSpec => []BufferInv
BY InitBuffers, NextBuffers, EditorAssumption, PTL DEF EditorSpec

\* The values of the buffers, the tabs and the handlers in flight.
THEOREM BuffersTypeCorrect == EditorSpec => []editorTypeOK
<1>1. BufferInv => editorTypeOK
  BY DEF BufferInv, BufferType, StoreType, Dialogs, OpType, TabType, Written, Stamps, Null, editorTypeOK
<1>2. QED
  BY <1>1, BuffersInvariant, PTL

\* A tab that shows its file has the text in the store or in the editor: loads, switches, saves,
\* reloads and reopens never drop both copies.
THEOREM TextsExist == EditorSpec => []BufferExists
<1>1. BufferInv => BufferExists
  BY DEF BufferInv, TabOK, BufferExists
<1>2. QED
  BY <1>1, BuffersInvariant, PTL

\* Typing that is not on disk keeps its tab dirty, but for typing during a save or a reopen.
THEOREM UnsavedStaysDirty == EditorSpec => []UnsavedIsDirty
<1>1. BufferInv => UnsavedIsDirty
  BY DEF BufferInv, TabOK, UnsavedIsDirty
<1>2. QED
  BY <1>1, BuffersInvariant, PTL

----------------------------------------------------------------------------
(* No handler replaces typing behind the user's back. *)

SafeEdits == \A f \in Files : Replaced(f) => f \in overlap
TextsKept == \A f \in Files : resolveTabContent(f)' = resolveTabContent(f)

LEMMA KeptTexts ==
  ASSUME TextsKept PROVE SafeEdits
BY DEF TextsKept, SafeEdits, Replaced

LEMMA SameTexts ==
  ASSUME SameTabs PROVE SafeEdits
BY KeptTexts DEF SameTabs, SameTab, TextsKept

LEMMA OneText ==
  ASSUME NEW f, OtherTabs(f) \/ OtherStore(f), typed[f] /\ typed'[f] => f \in overlap
  PROVE  SafeEdits
BY DEF OtherTabs, SameTab, OtherStore, resolveTabContent, SafeEdits, Replaced

LEMMA StoreTexts ==
  ASSUME UNCHANGED <<tab, live>> PROVE SafeEdits
BY KeptTexts DEF TextsKept, resolveTabContent

\* Only the recorded mtime of a tab changes.
LEMMA KnownTexts ==
  ASSUME BufferInv, NEW f \in Files, NEW mt, tab' = [tab EXCEPT ![f].known = mt], live' = live
  PROVE  SafeEdits
<1>1. /\ \A g \in Files : g # f => tab'[g] = tab[g]
      /\ tab'[f].content = tab[f].content
  BY DEF BufferInv, BufferType, StoreType, TabType
<1>2. QED
  BY <1>1, KeptTexts DEF TextsKept, resolveTabContent

LEMMA FileEdits ==
  ASSUME EditorAssumption, BufferInv, NEW f \in Files, FileAction(f)
  PROVE  SafeEdits
<1>1. CASE openFile(f)
  <2>1. ~typed[f]
    BY <1>1 DEF openFile, BufferInv, TabOK, Editable
  <2>2. QED
    BY <1>1, <2>1, OpenKeeps, OneText
<1>2. CASE retryOpenFile(f)
  <2>1. tab' = [tab EXCEPT ![f] = [@ EXCEPT !.loading = TRUE, !.error = FALSE]] /\ live' = live
    BY <1>2 DEF retryOpenFile, StartLoad
  <2>2. /\ \A g \in Files : g # f => tab'[g] = tab[g]
        /\ tab'[f].content = tab[f].content
    BY <2>1 DEF BufferInv, BufferType, StoreType, TabType
  <2>3. QED
    BY <2>1, <2>2, KeptTexts DEF TextsKept, resolveTabContent
<1>3. CASE bindTabToView(f) \/ RebuildView(f) \/ saveTabIfDirty(f)
  BY <1>3, ViewKeeps, AutoSaveKeeps, SameTexts
<1>4. CASE Type(f)
  <2>1. fresh' = fresh + 1 /\ fresh \in Nat
    BY <1>4 DEF Type, Fresh, BufferInv, BufferType, StoreType
  <2>2. QED
    BY <2>1 DEF SafeEdits, Replaced
<1>5. CASE closeTab(f) \/ DiscardAndClose(f)
  <2>1. CloseTab(f) /\ UNCHANGED <<settings, disk, mtime, fresh>> /\ asking' \in Files \cup {NoFile}
    BY <1>5 DEF closeTab, DiscardAndClose, BufferInv, BufferType, StoreType
  <2>2. ~typed'[f]
    BY <2>1 DEF CloseTab, BufferInv, BufferType, StoreType
  <2>3. QED
    BY <2>1, <2>2, Closes, OneText
<1>6. CASE \/ saveFile(f) \/ confirmDiscardTabs(f) \/ SaveAndClose(f) \/ CancelClose(f)
           \/ SuppressExpires(f) \/ ExternalWrite(f) \/ runPathContentSync(f)
           \/ syncOpenFilesOnFocus(f) \/ reopenWithEncoding(f) \/ loadMissingTabContents(f)
  <2>1. UNCHANGED <<tab, live>>
    BY <1>6 DEF saveFile, confirmDiscardTabs, SaveAndClose, CancelClose, SuppressExpires,
                ExternalWrite, runPathContentSync, syncOpenFilesOnFocus, reopenWithEncoding,
                loadMissingTabContents
  <2>2. QED
    BY <2>1, StoreTexts
<1>7. QED
  BY <1>1, <1>2, <1>3, <1>4, <1>5, <1>6 DEF FileAction

LEMMA LoadEdits ==
  ASSUME EditorAssumption, BufferInv, NEW op \in ops, populateTabFromDisk(op) \/ LoadFails(op)
  PROVE  SafeEdits
<1>1. PICK f : f = op.file
  OBVIOUS
<1>2. f \in Files /\ OpOK(op) /\ live' = live /\ op.kind = "load" /\ tab \in [Files -> TabType]
  BY <1>1, HandlerFacts DEF populateTabFromDisk, LoadFails, BufferInv, BufferType, StoreType
<1>3. CASE ~findTab(op)
  <2>1. tab' = tab
    BY <1>3 DEF populateTabFromDisk, LoadFails
  <2>2. QED
    BY <1>2, <2>1, StoreTexts
<1>4. CASE findTab(op)
  <2>1. ~typed[f]
    BY <1>1, <1>2, <1>4 DEF OpOK, OfTab, BufferInv, TabOK, Editable
  <2>2. \A g \in Files : g # f => tab'[g] = tab[g]
    BY <1>1, <1>2, <1>4 DEF populateTabFromDisk, LoadFails
  <2>3. QED
    BY <1>2, <2>1, <2>2, OneText DEF OtherStore
<1>5. QED
  BY <1>3, <1>4

LEMMA SaveEdits ==
  ASSUME EditorAssumption, BufferInv, NEW op \in ops, SaveDone(op)
  PROVE  SafeEdits
<1>1. PICK f : f = op.file
  OBVIOUS
<1>2. /\ f \in Files /\ op \in OpType /\ OpOK(op) /\ op.kind = "save" /\ op.pc = "saved"
      /\ UNCHANGED <<settings, disk, mtime, asking, fresh>>
  BY <1>1, HandlerFacts DEF SaveDone
<1>3. CASE ~findTab(op)
  BY <1>3, StoreTexts DEF SaveDone
<1>4. CASE findTab(op) /\ op.after = "stay"
  <2>1. /\ Saved(op) /\ op.mt \in Stamps /\ Editable(op.file)
        /\ typed[f] => f \in overlap
    BY <1>1, <1>2, <1>4 DEF SaveDone, OpOK, OfTab, Carries, Overlaps, OpType
  <2>2. OtherStore(f)
    BY <1>1, <1>2, <2>1, SavedTab
  <2>3. QED
    BY <2>1, <2>2, OneText
<1>5. CASE findTab(op) /\ op.after # "stay"
  <2>1. CloseTab(f) /\ asking' \in Files \cup {NoFile}
    BY <1>1, <1>2, <1>5 DEF SaveDone, BufferInv, BufferType, StoreType
  <2>2. ~typed'[f]
    BY <1>2, <2>1 DEF CloseTab, BufferInv, BufferType, StoreType
  <2>3. QED
    BY <1>2, <2>1, <2>2, Closes, OneText
<1>6. QED
  BY <1>3, <1>4, <1>5

LEMMA ReloadEdits ==
  ASSUME EditorAssumption, BufferInv, NEW op \in ops, SyncReload(op) \/ ReopenDone(op)
  PROVE  SafeEdits
<1>1. PICK f, text, mt : f = op.file /\ text = op.text /\ mt = op.mt
  OBVIOUS
<1>2. f \in Files /\ OpOK(op) /\ mt \in Stamps /\ op \in OpType
  BY <1>1, HandlerFacts DEF OpType
<1>3. /\ text \in Texts
      /\ findTab(op) => Editable(f) /\ (typed[f] => f \in overlap)
  <2>1. CASE SyncReload(op)
    BY <1>1, <1>2, <2>1 DEF SyncReload, OpOK, Carries, OfTab, OpType, BufferInv, TabOK
  <2>2. CASE ReopenDone(op)
    BY <1>1, <1>2, <2>2 DEF ReopenDone, OpOK, OfTab, OpType, Overlaps
  <2>3. QED
    BY <2>1, <2>2
<1>4. \/ UNCHANGED <<tab, live>>
      \/ tab' = [tab EXCEPT ![f].known = mt] /\ live' = live
      \/ findTab(op) /\ ReloadFromDisk(f, text, mt)
  BY <1>1 DEF SyncReload, ReopenDone
<1>5. CASE findTab(op) /\ ReloadFromDisk(f, text, mt)
  BY <1>2, <1>3, <1>5, Reloads, OneText
<1>6. QED
  BY <1>2, <1>4, <1>5, StoreTexts, KnownTexts

LEMMA HydrateEdits ==
  ASSUME EditorAssumption, BufferInv, NEW op \in ops, HydrateDone(op)
  PROVE  SafeEdits
<1>1. PICK f, mt : f = op.file /\ mt = op.mt
  OBVIOUS
<1>2. f \in Files /\ live' = live /\ (tab' = tab \/ tab' = [tab EXCEPT ![f].known = mt])
  BY <1>1, HandlerFacts, HydratedTab DEF HydrateDone
<1>3. QED
  BY <1>2, StoreTexts, KnownTexts

LEMMA ChoiceEdits ==
  ASSUME EditorAssumption, BufferInv, NEW op \in ops,
         ChooseReload(op) \/ ChooseKeep(op) \/ ChooseCompare(op)
  PROVE  SafeEdits
<1>1. CASE ChooseCompare(op)
  BY <1>1, ChooseCompareKeeps, SameTexts
<1>2. CASE ChooseKeep(op)
  <2>1. PICK f, mt : f = op.file /\ mt = op.mt
    OBVIOUS
  <2>2. f \in Files /\ live' = live /\ (tab' = tab \/ tab' = [tab EXCEPT ![f].known = mt])
    BY <1>2, <2>1, HandlerFacts DEF ChooseKeep
  <2>3. QED
    BY <2>2, StoreTexts, KnownTexts
<1>3. CASE ChooseReload(op)
  <2>1. /\ op.kind = "sync" /\ op.pc = "prompt" /\ op \in OpType /\ OpOK(op) /\ op.file \in Files
        /\ UNCHANGED <<settings, disk, mtime, bound, asking, fresh, overlap, seen, ahead>>
    BY <1>3, ChosenFacts DEF ChooseReload, OpType
  <2>2. CASE ~findTab(op)
    BY <1>3, <2>2, StoreTexts DEF ChooseReload
  <2>3. CASE findTab(op)
    <3>1. ReloadFromDisk(op.file, op.text, op.mt) /\ typed' = [typed EXCEPT ![op.file] = FALSE]
      BY <1>3, <2>3 DEF ChooseReload
    <3>2. ~typed'[op.file]
      BY <2>1, <3>1 DEF BufferInv, BufferType, StoreType
    <3>3. QED
      BY <2>1, <2>3, <3>1, <3>2, AnsweredReload, OneText
  <2>4. QED
    BY <2>2, <2>3
<1>4. QED
  BY <1>1, <1>2, <1>3

LEMMA CompareEdits ==
  ASSUME EditorAssumption, BufferInv, CompareAnswer
  PROVE  SafeEdits
<1>1. PICK h, f, mt : h = compare /\ f = h.file /\ mt = h.mt
  OBVIOUS
<1>2. h \in OpType /\ OpOK(h) /\ h.kind = "sync" /\ h.pc = "prompt" /\ f \in Files
  BY <1>1 DEF CompareAnswer, BufferInv, Dialogs, OpType
<1>3. /\ UNCHANGED <<settings, disk, mtime, bound, asking, fresh, overlap, seen, ahead>>
      /\ \/ UNCHANGED <<tab, live, typed>>
         \/ tab' = [tab EXCEPT ![f].known = mt] /\ UNCHANGED <<live, typed>>
         \/ findTab(h) /\ ReloadFromDisk(h.file, h.text, h.mt)
            /\ typed' = [typed EXCEPT ![h.file] = FALSE]
  BY <1>1 DEF CompareAnswer
<1>4. CASE findTab(h) /\ ReloadFromDisk(h.file, h.text, h.mt)
           /\ typed' = [typed EXCEPT ![h.file] = FALSE]
  <2>1. OtherTabs(h.file)
    BY <1>2, <1>3, <1>4, AnsweredReload
  <2>2. ~typed'[h.file]
    BY <1>1, <1>2, <1>4 DEF BufferInv, BufferType, StoreType
  <2>3. QED
    BY <2>1, <2>2, OneText
<1>5. QED
  BY <1>2, <1>3, <1>4, StoreTexts, KnownTexts

LEMMA OpEdits ==
  ASSUME EditorAssumption, BufferInv, NEW op \in ops, OpAction(op)
  PROVE  SafeEdits
<1>1. CASE populateTabFromDisk(op) \/ LoadFails(op) \/ SaveDone(op) \/ SyncReload(op)
           \/ ReopenDone(op)
  BY <1>1, LoadEdits, SaveEdits, ReloadEdits
<1>2. CASE ChooseReload(op) \/ ChooseKeep(op) \/ ChooseCompare(op)
  BY <1>2, ChoiceEdits
<1>3. CASE \/ LoadStat(op) \/ LoadRead(op) \/ SaveRefused(op) \/ SaveCheck(op) \/ SaveConflict(op)
           \/ SaveWrite(op) \/ SaveFails(op) \/ SaveStat(op) \/ SyncStat(op) \/ SyncRead(op)
           \/ SyncFails(op) \/ SyncSkip(op) \/ SyncPrompt(op) \/ ChooseNothing(op)
           \/ ReopenConfirmed(op) \/ ReopenAnswers(op) \/ HydrateStat(op)
  <2>1. UNCHANGED <<tab, live>>
    BY <1>3 DEF LoadStat, LoadRead, SaveRefused, SaveCheck, SaveConflict, SaveWrite, SaveFails,
                SaveStat, SyncStat, SyncRead, SyncFails, SyncSkip, SyncPrompt, ChooseNothing,
                ReopenConfirmed, ReopenAnswers, HydrateStat
  <2>2. QED
    BY <2>1, StoreTexts
<1>4. CASE HydrateDone(op)
  BY <1>4, HydrateEdits
<1>5. QED
  BY <1>1, <1>2, <1>3, <1>4 DEF OpAction

\* The text of a buffer with unsaved typing is changed by more typing, by the save of that text or
\* by the user's answer to a question, and by no load, reload, reopen, switch or save besides, but
\* for typing during a save or a reopen of the same tab.
THEOREM EditsAreKept == EditorSpec => EditsKept
<1>1. ASSUME BufferInv, [editorNext]_editorVars
      PROVE  [\A f \in Files : Replaced(f) => f \in overlap]_editorVars
  <2>1. CASE UNCHANGED editorVars
    BY <2>1
  <2>2. CASE editorNext
    <3>1. SafeEdits
      BY <1>1, <2>2, FileEdits, OpEdits, LeaveKeeps, SameTexts, CompareEdits, EditorAssumption
         DEF editorNext
    <3>2. QED
      BY <3>1 DEF SafeEdits
  <2>3. QED
    BY <1>1, <2>1, <2>2
<1>2. QED
  BY <1>1, BuffersInvariant, PTL DEF EditorSpec, EditsKept

----------------------------------------------------------------------------
(* What a save overwrites. *)

\* Files are written by saves, and by other programs while no handler acts.
LEMMA OnlyWrites ==
  ASSUME editorNext
  PROVE  mtime' = mtime \/ ops' = ops \/ \E op \in ops : SaveWrite(op)
<1>1. ASSUME NEW f \in Files, FileAction(f) PROVE mtime' = mtime \/ ops' = ops
  BY <1>1 DEF FileAction, openFile, retryOpenFile, loadMissingTabContents, bindTabToView, RebuildView, Type, saveFile,
     saveTabIfDirty, closeTab, confirmDiscardTabs, DiscardAndClose, CancelClose, SaveAndClose,
     ExternalWrite, SuppressExpires, runPathContentSync, syncOpenFilesOnFocus, reopenWithEncoding
<1>2. ASSUME NEW op \in ops, OpAction(op) PROVE mtime' = mtime \/ SaveWrite(op)
  BY <1>2 DEF OpAction, LoadStat, LoadRead, populateTabFromDisk, LoadFails, SaveRefused, SaveCheck,
     SaveConflict, SaveFails, SaveStat, SaveDone, SyncStat, SyncRead, SyncFails, SyncSkip,
     SyncReload, SyncPrompt, ChooseReload, ChooseKeep, ChooseCompare, ChooseNothing,
     ReopenConfirmed, ReopenAnswers, ReopenDone, HydrateStat, HydrateDone
<1>3. LeaveEditor \/ CompareAnswer => mtime' = mtime
  BY DEF LeaveEditor, CompareAnswer
<1>4. QED
  BY <1>1, <1>2, <1>3 DEF editorNext

\* A save that still finds its tab overwrites only text its tab has read, or was asked about, or
\* that was written after the save compared the mtime; but for an mtime recorded ahead of its text,
\* and for a tab without an mtime, whose save compares nothing.
THEOREM OverwritesAreInformed == EditorSpec => OverwriteIsInformed
<1>1. ASSUME BufferInv, [editorNext]_editorVars, NEW op \in ops,
             op.kind = "save", op.pc = "compare", mtime'[op.file] # mtime[op.file], op \notin ops',
             findTab(op), ~Unchecked(op), <<op.file, op.base>> \notin ahead
      PROVE  seen[op.file] >= op.read
  <2>1. PICK w \in ops : SaveWrite(w)
    BY <1>1, OnlyWrites DEF editorVars
  <2>2. w = op
    BY <1>1, <2>1 DEF SaveWrite, Continue
  <2>3. op.mt = op.base /\ op.mt = op.read /\ Covered(op.file, op.base) /\ op.file \in Files
    BY <1>1, <2>1, <2>2, HandlerFacts, EditorAssumption DEF SaveWrite, OpOK, Carries, OfTab
  <2>4. op.read \in Nat /\ seen[op.file] \in Nat
    BY <1>1, <2>3, HandlerFacts, InvTypes, EditorAssumption DEF BufferInv
  <2>5. QED
    BY <1>1, <2>3, <2>4 DEF Covered
<1>2. BufferInv /\ [editorNext]_editorVars =>
        [\A op \in ops :
          op.kind = "save" /\ op.pc = "compare" /\ mtime'[op.file] # mtime[op.file]
            /\ op \notin ops' /\ findTab(op) /\ ~Unchecked(op) /\ <<op.file, op.base>> \notin ahead
          => seen[op.file] >= op.read]_editorVars
  BY <1>1
<1>3. QED
  BY <1>2, BuffersInvariant, PTL DEF EditorSpec, OverwriteIsInformed
=============================================================================
