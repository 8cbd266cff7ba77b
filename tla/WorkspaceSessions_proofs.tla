---------------------- MODULE WorkspaceSessions_proofs ----------------------
(***************************************************************************)
(* What holds of the projects' editor sessions for any projects, paths and *)
(* bounds: the types, that every tab stays with the project it was opened  *)
(* in, that the snapshot misses no project's tabs, that every unsaved text *)
(* has its draft once the drafts' timer has fired, that a start alone      *)
(* forgets no saved session, and that no unsaved text is lost unasked.     *)
(*                                                                         *)
(* Lists come first: a filter (Only) has no theorem in the library, so its *)
(* facts are proved here from the well-foundedness of the numbers. Of the  *)
(* store it is shown, handler by handler, that its visible and its stashed *)
(* tabs stay within any sets they were in (Store, Within); every step of   *)
(* the program is then of one of four kinds (Shrinks, Opens, Switches,     *)
(* Clears) or one of the handlers that change a tab in its place, and the  *)
(* invariants TypeInv, HomeInv and DraftInv are shown of those.            *)
(*                                                                         *)
(* That no text is lost needs the places of the tabs (At): every tab has   *)
(* its own number and stands in one list only (Once, Tidy, PlaceInv), so   *)
(* that a handler which works on a number works on one tab; what each      *)
(* handler then takes away is compared with what the user gave up (Keeps,  *)
(* Lossless).                                                              *)
(***************************************************************************)
EXTENDS WorkspaceSessions, NaturalsInduction, WellFoundedInduction, SequenceTheorems, TLAPS

-----------------------------------------------------------------------------
(* Numbers and lists *)

\* A set of numbers that is not empty has a least one.
LEMMA Least ==
  ASSUME NEW T \in SUBSET Nat, T # {}
  PROVE  \E x \in T : \A y \in T : x <= y
<1> DEFINE R == {ss \in Nat \X Nat : ss[1] < ss[2]}
<1>1. IsWellFoundedOn(R, Nat)
  BY NatLessThanWellFounded DEF OpToRel
<1>2. PICK x \in T : \A y \in T : <<y, x>> \notin R
  <2> HIDE DEF R
  <2> QED
    BY <1>1, WFMin
<1>3. \A y \in T : ~(y < x)
  BY <1>2
<1> QED
  BY <1>2, <1>3

\* Min is that number.
LEMMA MinIs ==
  ASSUME NEW T \in SUBSET Nat, T # {}
  PROVE  Min(T) \in T /\ \A y \in T : Min(T) <= y
BY Least DEF Min

\* Induction, on a set of numbers.
LEMMA Induction ==
  ASSUME NEW S \in SUBSET Nat, 0 \in S, \A n \in S : n + 1 \in S
  PROVE  S = Nat
<1>1. SUFFICES ASSUME Nat \ S # {} PROVE FALSE
  OBVIOUS
<1>2. PICK x \in Nat \ S : \A y \in Nat \ S : x <= y
  BY <1>1, Least
<1>3. x # 0 /\ x - 1 \in Nat /\ x - 1 \notin Nat \ S
  BY <1>2
<1> QED
  BY <1>2, <1>3

\* f holds what is left of the first members of s, up to n.
Filters(f, s, K, n) ==
    f = [k \in 0 .. n |-> IF k = 0 THEN <<>>
                          ELSE IF s[k] \in K THEN Append(f[k - 1], s[k]) ELSE f[k - 1]]

\* There is such an f ...
LEMMA FiltersExist ==
  ASSUME NEW n \in Nat, NEW s, NEW K
  PROVE  \E f : Filters(f, s, K, n)
<1> DEFINE T == {m \in Nat : \E f : Filters(f, s, K, m)}
<1>1. 0 \in T
  <2>1. Filters([k \in 0 .. 0 |-> <<>>], s, K, 0)
    BY DEF Filters
  <2> QED
    BY <2>1
<1>2. ASSUME NEW m \in T PROVE m + 1 \in T
  <2>1. PICK f : Filters(f, s, K, m)
    OBVIOUS
  <2> DEFINE g == [k \in 0 .. (m + 1) |->
                     IF k = m + 1 THEN IF s[k] \in K THEN Append(f[m], s[k]) ELSE f[m] ELSE f[k]]
  <2>2. ASSUME NEW k \in 0 .. (m + 1)
        PROVE  g[k] = IF k = 0 THEN <<>>
                      ELSE IF s[k] \in K THEN Append(g[k - 1], s[k]) ELSE g[k - 1]
    <3>1. CASE k = m + 1
      <4>1. k # 0 /\ k - 1 = m /\ m \in 0 .. (m + 1) /\ m # m + 1
        BY <3>1
      <4>2. g[k - 1] = f[m]
        BY <4>1
      <4>3. g[k] = IF s[k] \in K THEN Append(f[m], s[k]) ELSE f[m]
        BY <3>1
      <4> QED
        BY <4>1, <4>2, <4>3
    <3>2. CASE k # m + 1
      <4>1. k \in 0 .. m
        BY <3>2
      <4>2. g[k] = f[k] /\ (k # 0 => g[k - 1] = f[k - 1])
        BY <4>1
      <4>3. f[k] = IF k = 0 THEN <<>>
                   ELSE IF s[k] \in K THEN Append(f[k - 1], s[k]) ELSE f[k - 1]
        BY <2>1, <4>1 DEF Filters
      <4> QED
        BY <4>2, <4>3
    <3> QED
      BY <3>1, <3>2
  <2>3. Filters(g, s, K, m + 1)
    <3>1. g = [k \in 0 .. (m + 1) |-> g[k]]
      OBVIOUS
    <3> HIDE DEF g
    <3> QED
      BY <2>2, <3>1 DEF Filters
  <2> QED
    BY <2>3
<1> HIDE DEF T
<1>3. T = Nat
  BY <1>1, <1>2, Induction DEF T
<1> QED
  BY <1>3 DEF T

\* ... and Only is its last value.
LEMMA OnlyIs ==
  ASSUME NEW S, NEW s \in Seq(S), NEW K
  PROVE  \E f : Filters(f, s, K, Len(s)) /\ Only(s, K) = f[Len(s)]
<1> DEFINE f == CHOOSE f : Filters(f, s, K, Len(s))
<1>0. Len(s) \in Nat
  BY LenProperties
<1>1. Filters(f, s, K, Len(s))
  BY <1>0, FiltersExist
<1>2. Only(s, K) = f[Len(s)]
  BY DEF Only, Filters
<1> QED
  BY <1>1, <1>2

\* A list of nothing.
LEMMA OnlyOfNone == ASSUME NEW K PROVE Only(<<>>, K) = <<>>
<1>1. PICK f : Filters(f, <<>>, K, Len(<<>>)) /\ Only(<<>>, K) = f[Len(<<>>)]
  BY OnlyIs, EmptySeq
<1>2. Len(<<>>) = 0
  BY EmptySeq
<1> QED
  BY <1>1, <1>2 DEF Filters

\* What a filter leaves is what was in the list and is to be kept.
LEMMA OnlyIn ==
  ASSUME NEW S, NEW s \in Seq(S), NEW K
  PROVE  /\ Only(s, K) \in Seq(S \cap K)
         /\ \A i \in DOMAIN s : s[i] \in K => \E j \in DOMAIN Only(s, K) : Only(s, K)[j] = s[i]
<1>1. PICK f : Filters(f, s, K, Len(s)) /\ Only(s, K) = f[Len(s)]
  BY OnlyIs
<1>2. Len(s) \in Nat /\ DOMAIN s = 1 .. Len(s)
  BY LenProperties
<1> DEFINE Good(m) == /\ f[m] \in Seq(S \cap K)
                      /\ \A i \in 1 .. m : s[i] \in K => \E j \in DOMAIN f[m] : f[m][j] = s[i]
           T == {m \in Nat : m <= Len(s) => Good(m)}
<1>3. 0 \in T
  <2>1. f[0] = <<>>
    BY <1>1, <1>2 DEF Filters
  <2>2. f[0] \in Seq(S \cap K)
    BY <2>1, EmptySeq
  <2> QED
    BY <2>2
<1>4. ASSUME NEW m \in T PROVE m + 1 \in T
  <2>1. ASSUME m + 1 <= Len(s) PROVE Good(m + 1)
    <3>1. m + 1 \in 0 .. Len(s) /\ m + 1 # 0 /\ (m + 1) - 1 = m /\ m <= Len(s) /\ m \in Nat
      BY <1>2, <2>1
    <3>2. Good(m)
      BY <3>1
    <3>3. m + 1 \in 1 .. Len(s)
      BY <3>1, <1>2
    <3>4. s[m + 1] \in S
      BY <3>3, ElementOfSeq
    <3>5. f[m + 1] = IF s[m + 1] \in K THEN Append(f[m], s[m + 1]) ELSE f[m]
      BY <1>1, <3>1 DEF Filters
    <3>6. \A i \in 1 .. (m + 1) : i \in 1 .. m \/ i = m + 1
      BY <3>1
    <3>7. CASE s[m + 1] \in K
      <4>1. s[m + 1] \in S \cap K /\ f[m] \in Seq(S \cap K)
        BY <3>2, <3>4, <3>7
      <4>2. f[m + 1] = Append(f[m], s[m + 1])
        BY <3>5, <3>7
      <4>3. /\ f[m + 1] \in Seq(S \cap K)
            /\ Len(f[m + 1]) = Len(f[m]) + 1
            /\ \A i \in 1 .. Len(f[m]) : f[m + 1][i] = f[m][i]
            /\ f[m + 1][Len(f[m]) + 1] = s[m + 1]
        BY <4>1, <4>2, AppendProperties
      <4>4. /\ DOMAIN f[m] = 1 .. Len(f[m]) /\ Len(f[m]) \in Nat
            /\ DOMAIN f[m + 1] = 1 .. Len(f[m + 1])
        BY <4>1, <4>3, LenProperties
      <4>5. ASSUME NEW i \in 1 .. m, s[i] \in K
            PROVE  \E j \in DOMAIN f[m + 1] : f[m + 1][j] = s[i]
        <5>1. PICK j \in DOMAIN f[m] : f[m][j] = s[i]
          BY <3>2, <4>5
        <5>2. j \in DOMAIN f[m + 1] /\ f[m + 1][j] = s[i]
          BY <4>3, <4>4, <5>1
        <5> QED
          BY <5>2
      <4>6. Len(f[m]) + 1 \in DOMAIN f[m + 1]
        BY <4>3, <4>4
      <4> QED
        BY <3>6, <4>3, <4>5, <4>6
    <3>8. CASE s[m + 1] \notin K
      BY <3>2, <3>5, <3>6, <3>8
    <3> QED
      BY <3>7, <3>8
  <2> HIDE DEF Good
  <2> QED
    BY <2>1
<1> HIDE DEF T
<1>5. T = Nat
  BY <1>3, <1>4, Induction DEF T
<1>6. Good(Len(s))
  <2> HIDE DEF Good
  <2> QED
    BY <1>2, <1>5 DEF T
<1> QED
  BY <1>1, <1>2, <1>6

\* ... as sets.
LEMMA ToSetOnly ==
  ASSUME NEW S, NEW s \in Seq(S), NEW K
  PROVE  ToSet(Only(s, K)) = ToSet(s) \cap K
<1> DEFINE R == ToSet(s)
<1>1. s \in Seq(R)
  BY SeqOfRange, RangeEquality, LenProperties DEF ToSet
<1>2. /\ Only(s, K) \in Seq(R \cap K)
      /\ \A i \in DOMAIN s : s[i] \in K => \E j \in DOMAIN Only(s, K) : Only(s, K)[j] = s[i]
  <2> HIDE DEF R
  <2> QED
    BY <1>1, OnlyIn, SMTT(30)
<1>3. \A j \in DOMAIN Only(s, K) : Only(s, K)[j] \in R \cap K
  <2> HIDE DEF R
  <2> QED
    BY <1>2, ElementOfSeq, LenProperties
<1> QED
  BY <1>2, <1>3 DEF ToSet

\* The members of a list of S are in S.
LEMMA ToSetIn ==
  ASSUME NEW S, NEW s \in Seq(S)
  PROVE  /\ ToSet(s) \in SUBSET S /\ s \in Seq(ToSet(s))
         /\ \A i \in DOMAIN s : s[i] \in S /\ s[i] \in ToSet(s)
<1>1. DOMAIN s = 1 .. Len(s)
  BY LenProperties
<1>2. \A i \in DOMAIN s : s[i] \in S
  BY <1>1, ElementOfSeq
<1>3. s \in Seq(ToSet(s))
  BY SeqOfRange, RangeEquality, LenProperties DEF ToSet
<1> QED
  BY <1>2, <1>3 DEF ToSet

\* A list of S whose members are in R is a list of R.
LEMMA SeqOfPart ==
  ASSUME NEW S, NEW s \in Seq(S), NEW R, ToSet(s) \subseteq R
  PROVE  s \in Seq(R)
BY ToSetIn, SeqMonotonic

\* A function on 1 .. n is a list of its values.
LEMMA SeqByIndex ==
  ASSUME NEW S, NEW n \in Nat, NEW s, DOMAIN s = 1 .. n, s = [i \in 1 .. n |-> s[i]],
         \A i \in 1 .. n : s[i] \in S
  PROVE  s \in Seq(S) /\ Len(s) = n
OBVIOUS

-----------------------------------------------------------------------------
(* The store *)

Tabs == [id : 1 .. MaxIds, path : Paths, diff : BOOLEAN, edits : 0 .. MaxEdits]
Session(T) == [tabs : Seq(T), active : Nat]

\* A store whose visible tabs are in V, and the stashed ones of p in H[p].
Store(e, V, H) ==
    /\ DOMAIN e = {"tabs", "active", "mru", "sessions"}
    /\ e.tabs \in Seq(V) /\ e.active \in Nat /\ e.mru \in Seq(Nat)
    /\ DOMAIN e.sessions \subseteq DOMAIN H
    /\ \A p \in DOMAIN e.sessions : e.sessions[p] \in Session(H[p])

\* The active tab of a session, or of a store, is one of its tabs.
ActiveOK(s) == s.active = NoTab \/ Has(s.tabs, s.active)
ActivesOK(e) == ActiveOK(e) /\ \A p \in DOMAIN e.sessions : ActiveOK(e.sessions[p])

LEMMA TabsType ==
  /\ MaxIds \in Nat \ {0} /\ MaxEdits \in Nat
  /\ \A t \in Tabs : t.id \in Nat /\ t.id # NoTab /\ t.edits \in Nat
BY WorkspaceAssumption DEF Tabs, NoTab

LEMMA DropIs ==
  ASSUME NEW S, NEW s \in Seq(S), NEW gone
  PROVE  Drop(s, gone) \in Seq(S) /\ ToSet(Drop(s, gone)) = ToSet(s) \ gone
<1>1. Drop(s, gone) \in Seq(S \cap (ToSet(s) \ gone))
  BY OnlyIn DEF Drop
<1>2. ToSet(Drop(s, gone)) = ToSet(s) \cap (ToSet(s) \ gone)
  BY ToSetOnly DEF Drop
<1> QED
  BY <1>1, <1>2, SeqMonotonic

LEMMA HasIs ==
  ASSUME NEW ts, NEW id
  PROVE  Has(ts, id) <=> \E t \in ToSet(ts) : t.id = id
BY DEF Has, ToSet

LEMMA FirstLast ==
  ASSUME NEW ts \in Seq(Tabs)
  PROVE  /\ LastId(ts) \in Nat /\ FirstId(ts) \in Nat
         /\ LastId(ts) = NoTab \/ Has(ts, LastId(ts))
         /\ FirstId(ts) = NoTab \/ Has(ts, FirstId(ts))
<1>1. CASE ts = <<>>
  BY <1>1 DEF LastId, FirstId, NoTab
<1>2. CASE ts # <<>>
  <2>1. Len(ts) \in Nat \ {0} /\ DOMAIN ts = 1 .. Len(ts)
    BY <1>2, EmptySeq, LenProperties
  <2>2. 1 \in DOMAIN ts /\ Len(ts) \in DOMAIN ts
    BY <2>1
  <2>3. ts[1] \in Tabs /\ ts[Len(ts)] \in Tabs
    BY <2>1, <2>2, ElementOfSeq
  <2>4. LastId(ts) = ts[Len(ts)].id
    BY <1>2 DEF LastId, Last
  <2>5. FirstId(ts) = ts[1].id
    BY <1>2 DEF FirstId
  <2> QED
    BY <2>2, <2>3, <2>4, <2>5, TabsType DEF Has
<1> QED
  BY <1>1, <1>2

LEMMA idsAre ==
  ASSUME NEW ts \in Seq(Tabs)
  PROVE  /\ ids(ts) \in Seq(Nat)
         /\ \A id : Has(ts, id) <=> id \in ToSet(ids(ts))
<1>1. Len(ts) \in Nat /\ DOMAIN ts = 1 .. Len(ts)
  BY LenProperties
<1>2. \A i \in DOMAIN ts : ts[i].id \in Nat
  BY ToSetIn, TabsType
<1>3. ids(ts) \in Seq(Nat)
  <2>1. ids(ts) = [i \in 1 .. Len(ts) |-> ts[i].id]
    BY <1>1 DEF ids
  <2>2. ids(ts) = [i \in 1 .. Len(ts) |-> ids(ts)[i]] /\ DOMAIN ids(ts) = 1 .. Len(ts)
    BY <2>1
  <2>3. \A i \in 1 .. Len(ts) : ids(ts)[i] \in Nat
    BY <1>1, <1>2, <2>1
  <2> QED
    BY <1>1, <2>2, <2>3, SeqByIndex
<1>4. \A id : Has(ts, id) <=> id \in ToSet(ids(ts))
  BY DEF Has, ids, ToSet
<1> QED
  BY <1>3, <1>4

LEMMA mruIs ==
  ASSUME NEW ts \in Seq(Tabs), NEW active \in Nat
  PROVE  buildTabMru(ts, active) \in Seq(Nat)
<1>1. Drop(ids(ts), {active}) \in Seq(Nat)
  BY idsAre, DropIs
<1>2. <<active>> \in Seq(Nat)
  OBVIOUS
<1>3. <<active>> \o Drop(ids(ts), {active}) \in Seq(Nat)
  BY <1>1, <1>2, ConcatProperties
<1> QED
  BY <1>3, idsAre DEF buildTabMru

\* The tabs of a store that lies within V and H.
LEMMA AllTabsIn ==
  ASSUME NEW A, NEW H, NEW e, Store(e, A, H), \A p \in DOMAIN H : H[p] \subseteq A
  PROVE  AllTabs(e) \subseteq A
<1>1. ToSet(e.tabs) \subseteq A
  BY ToSetIn DEF Store
<1>2. ASSUME NEW p \in DOMAIN e.sessions PROVE ToSet(e.sessions[p].tabs) \subseteq A
  <2>1. e.sessions[p].tabs \in Seq(H[p]) /\ p \in DOMAIN H
    BY DEF Store, Session
  <2>2. ToSet(e.sessions[p].tabs) \subseteq H[p]
    BY <2>1, ToSetIn
  <2> QED
    BY <2>1, <2>2
<1> QED
  BY <1>1, <1>2 DEF AllTabs

\* A store is in larger sets too.
LEMMA StoreIn ==
  ASSUME NEW V, NEW H, NEW e, Store(e, V, H), NEW W, ToSet(e.tabs) \subseteq W,
         NEW J, DOMAIN e.sessions \subseteq DOMAIN J,
         \A p \in DOMAIN e.sessions : ToSet(e.sessions[p].tabs) \subseteq J[p]
  PROVE  Store(e, W, J)
<1>1. e.tabs \in Seq(W)
  BY SeqOfPart DEF Store
<1>2. ASSUME NEW p \in DOMAIN e.sessions PROVE e.sessions[p] \in Session(J[p])
  <2>1. e.sessions[p] \in [tabs : Seq(H[p]), active : Nat]
    BY DEF Store, Session
  <2>2. e.sessions[p].tabs \in Seq(J[p])
    BY <2>1, SeqOfPart
  <2> QED
    BY <2>1, <2>2 DEF Session
<1> QED
  BY <1>1, <1>2 DEF Store

\* It lies in what it holds.
LEMMA StoreInItself ==
  ASSUME NEW V, NEW H, NEW e, Store(e, V, H)
  PROVE  Store(e, AllTabs(e), [p \in DOMAIN e.sessions |-> AllTabs(e)])
<1> DEFINE J == [p \in DOMAIN e.sessions |-> AllTabs(e)]
<1>1. ToSet(e.tabs) \subseteq AllTabs(e)
  BY DEF AllTabs
<1>2. ASSUME NEW p \in DOMAIN e.sessions PROVE ToSet(e.sessions[p].tabs) \subseteq J[p]
  BY DEF AllTabs
<1> QED
  BY <1>1, <1>2, StoreIn

LEMMA NoEditorIs ==
  ASSUME NEW V, NEW H
  PROVE  Store(NoEditor, V, H) /\ ActivesOK(NoEditor) /\ AllTabs(NoEditor) = {}
<1>1. NoEditor.tabs = <<>> /\ NoEditor.mru = <<>> /\ DOMAIN NoEditor.sessions = {}
  BY DEF NoEditor, NoSessions
<1>2. NoEditor.active = 0 /\ NoEditor.active = NoTab
  BY DEF NoEditor, NoTab
<1>3. <<>> \in Seq(V) /\ <<>> \in Seq(Nat)
  BY EmptySeq
<1>4. Store(NoEditor, V, H)
  BY <1>1, <1>2, <1>3 DEF Store, NoEditor
<1>5. ToSet(<<>>) = {}
  BY DEF ToSet
<1> QED
  BY <1>1, <1>2, <1>4, <1>5 DEF ActivesOK, ActiveOK, AllTabs

\* Opening and activating: the tabs stay, or one is added.
LEMMA setActiveTabIs ==
  ASSUME NEW V \in SUBSET Tabs, NEW H, NEW e, Store(e, V, H), NEW id \in Nat
  PROVE  /\ Store(setActiveTab(e, id), V, H)
         /\ setActiveTab(e, id).tabs = e.tabs
         /\ ActivesOK(e) /\ Has(e.tabs, id) => ActivesOK(setActiveTab(e, id))
<1> DEFINE m == buildTabMru(e.tabs, id)
           n == setActiveTab(e, id)
<1>1. m \in Seq(Nat)
  BY SeqMonotonic, mruIs DEF Store
<1>2. /\ n.tabs = e.tabs /\ n.active = id /\ n.mru = m /\ n.sessions = e.sessions
      /\ DOMAIN n = DOMAIN e
  BY DEF setActiveTab, Store
<1> HIDE DEF m, n
<1>3. Store(n, V, H)
  BY <1>1, <1>2 DEF Store
<1>4. ASSUME ActivesOK(e), Has(e.tabs, id) PROVE ActivesOK(n)
  BY <1>2, <1>4 DEF ActivesOK, ActiveOK
<1> QED
  BY <1>2, <1>3, <1>4 DEF n

LEMMA ShowTabIs ==
  ASSUME NEW V, NEW H, NEW e, Store(e, V, H), NEW id \in Nat
  PROVE  /\ Store(ShowTab(e, id), V, H)
         /\ ShowTab(e, id).tabs = e.tabs
         /\ ActivesOK(e) /\ Has(e.tabs, id) => ActivesOK(ShowTab(e, id))
<1> DEFINE n == ShowTab(e, id)
<1>1. /\ n.tabs = e.tabs /\ n.active = id /\ n.mru = e.mru /\ n.sessions = e.sessions
      /\ DOMAIN n = DOMAIN e
  BY DEF ShowTab, Store
<1> HIDE DEF n
<1>2. Store(n, V, H)
  BY <1>1 DEF Store
<1>3. ASSUME ActivesOK(e), Has(e.tabs, id) PROVE ActivesOK(n)
  BY <1>1, <1>3 DEF ActivesOK, ActiveOK
<1> QED
  BY <1>1, <1>2, <1>3 DEF n

LEMMA AppendTabIs ==
  ASSUME NEW V \in SUBSET Tabs, NEW H, NEW e, Store(e, V, H), NEW t \in V
  PROVE  /\ Store(AppendTab(e, t), V, H)
         /\ Has(AppendTab(e, t).tabs, t.id)
         /\ ActivesOK(e) => ActivesOK(AppendTab(e, t))
<1> DEFINE ts == Append(e.tabs, t)
           m == buildTabMru(ts, t.id)
           n == AppendTab(e, t)
<1>1. e.tabs \in Seq(V)
  BY DEF Store
<1>2. ts \in Seq(V) /\ Len(ts) = Len(e.tabs) + 1 /\ ts[Len(e.tabs) + 1] = t
  BY <1>1, AppendProperties
<1>3. Len(e.tabs) + 1 \in DOMAIN ts
  BY <1>1, <1>2, LenProperties
<1>4. Has(ts, t.id)
  BY <1>2, <1>3 DEF Has
<1>5. t.id \in Nat
  BY TabsType
<1>6. m \in Seq(Nat)
  <2> HIDE DEF ts
  <2> QED
    BY <1>2, <1>5, SeqMonotonic, mruIs
<1>7. /\ n.tabs = ts /\ n.active = t.id /\ n.mru = m /\ n.sessions = e.sessions
      /\ DOMAIN n = DOMAIN e
  BY DEF AppendTab, Store
<1> HIDE DEF ts, m, n
<1>8. Store(n, V, H)
  BY <1>2, <1>5, <1>6, <1>7 DEF Store
<1>9. ASSUME ActivesOK(e) PROVE ActivesOK(n)
  BY <1>4, <1>7, <1>9 DEF ActivesOK, ActiveOK
<1> QED
  BY <1>4, <1>7, <1>8, <1>9 DEF n

\* The tab the next Ctrl+Tab shows is one of the visible ones.
LEMMA cycleTabMruIs ==
  ASSUME NEW V \in SUBSET Tabs, NEW H, NEW e, Store(e, V, H)
  PROVE  /\ Store(cycleTabMru(e), V, H)
         /\ cycleTabMru(e).tabs = e.tabs
         /\ ActivesOK(e) => ActivesOK(cycleTabMru(e))
<1> DEFINE ordered == Only(e.mru, ToSet(ids(e.tabs)))
           I == {i \in 1 .. Len(ordered) : ordered[i] = e.active}
           at == IF I # {} THEN Min(I) ELSE 0
           next == IF at = 0 THEN 2 ELSE (at % Len(ordered)) + 1
<1>1. cycleTabMru(e) = IF Len(ordered) < 2 THEN e ELSE setActiveTab(e, ordered[next])
  BY DEF cycleTabMru, SelectInSeq
<1>2. e.mru \in Seq(Nat) /\ e.tabs \in Seq(Tabs)
  BY SeqMonotonic DEF Store
<1>3. ordered \in Seq(Nat \cap ToSet(ids(e.tabs)))
  BY <1>2, OnlyIn
<1> HIDE DEF ordered
<1>4. Len(ordered) \in Nat
  BY <1>3, LenProperties
<1>5. at \in 0 .. Len(ordered)
  <2>1. I \in SUBSET Nat
    OBVIOUS
  <2>2. I # {} => Min(I) \in I
    <3> HIDE DEF I
    <3> QED
      BY <2>1, MinIs
  <2> QED
    BY <1>4, <2>2
<1> HIDE DEF at
<1>6. CASE Len(ordered) < 2
  BY <1>1, <1>6
<1>7. CASE ~(Len(ordered) < 2)
  <2>1. next \in 1 .. Len(ordered)
    BY <1>4, <1>5, <1>7
  <2> HIDE DEF next
  <2>2. ordered[next] \in Nat /\ ordered[next] \in ToSet(ids(e.tabs))
    BY <1>3, <2>1, ElementOfSeq
  <2>3. Has(e.tabs, ordered[next])
    BY <1>2, <2>2, idsAre
  <2>4. cycleTabMru(e) = setActiveTab(e, ordered[next])
    BY <1>1, <1>7
  <2> HIDE DEF ordered
  <2> DEFINE id == ordered[next]
  <2>5. id \in Nat /\ Has(e.tabs, id) /\ cycleTabMru(e) = setActiveTab(e, id)
    BY <2>2, <2>3, <2>4
  <2> HIDE DEF id
  <2> QED
    BY <2>5, setActiveTabIs
<1> QED
  BY <1>6, <1>7

\* A tab moved to another place: the same tabs.
LEMMA Reordered ==
  ASSUME NEW S, NEW ts \in Seq(S), NEW from \in DOMAIN ts, NEW to \in DOMAIN ts
  PROVE  /\ InsertAt(RemoveAt(ts, from), to, ts[from]) \in Seq(S)
         /\ ToSet(ts) \subseteq ToSet(InsertAt(RemoveAt(ts, from), to, ts[from]))
<1> DEFINE n == Len(ts)
           a == SubSeq(ts, 1, from - 1)
           b == SubSeq(ts, from + 1, n)
           r == a \o b
           c == SubSeq(r, 1, to - 1)
           d == SubSeq(r, to, Len(r))
           x == <<ts[from]>>
           y == c \o x
           new == y \o d
<1>1. n \in Nat /\ DOMAIN ts = 1 .. n /\ from \in 1 .. n /\ to \in 1 .. n
  BY LenProperties
<1>2. \A i \in 1 .. n : ts[i] \in S
  BY ElementOfSeq
<1>3. RemoveAt(ts, from) = r /\ InsertAt(r, to, ts[from]) = new
  BY DEF RemoveAt, InsertAt
<1>4. /\ a \in Seq(S) /\ Len(a) = from - 1 /\ \A i \in 1 .. (from - 1) : a[i] = ts[i]
  <2>1. \A i \in 1 .. (from - 1) : ts[i] \in S
    BY <1>1, <1>2
  <2>2. /\ a \in Seq(S)
        /\ Len(a) = IF 1 <= from - 1 THEN from - 1 - 1 + 1 ELSE 0
        /\ \A i \in 1 .. (from - 1 - 1 + 1) : a[i] = ts[1 + i - 1]
    BY <1>1, <2>1, SubSeqProperties
  <2> HIDE DEF a, n
  <2> QED
    BY <1>1, <2>2
<1>5. /\ b \in Seq(S) /\ Len(b) = n - from /\ \A i \in 1 .. (n - from) : b[i] = ts[from + i]
  <2>1. \A i \in (from + 1) .. n : ts[i] \in S
    BY <1>1, <1>2
  <2>2. /\ b \in Seq(S)
        /\ Len(b) = IF from + 1 <= n THEN n - (from + 1) + 1 ELSE 0
        /\ \A i \in 1 .. (n - (from + 1) + 1) : b[i] = ts[from + 1 + i - 1]
    BY <1>1, <2>1, SubSeqProperties
  <2> HIDE DEF b, n
  <2>3. ASSUME NEW i \in 1 .. (n - from) PROVE b[i] = ts[from + i]
    <3>1. i \in 1 .. (n - (from + 1) + 1) /\ from + 1 + i - 1 = from + i
      BY <1>1
    <3> QED
      BY <2>2, <3>1
  <2> QED
    BY <1>1, <2>2, <2>3
<1> HIDE DEF a, b, n
<1>6. /\ r \in Seq(S) /\ Len(r) = n - 1
      /\ \A i \in 1 .. (n - 1) : r[i] = IF i <= from - 1 THEN a[i] ELSE b[i - (from - 1)]
  <2>1. /\ r \in Seq(S) /\ Len(r) = Len(a) + Len(b)
        /\ \A i \in 1 .. (Len(a) + Len(b)) : r[i] = IF i <= Len(a) THEN a[i] ELSE b[i - Len(a)]
    BY <1>4, <1>5, ConcatProperties
  <2>2. Len(a) + Len(b) = n - 1
    BY <1>1, <1>4, <1>5
  <2> HIDE DEF r
  <2> QED
    BY <1>4, <2>1, <2>2
<1>7. \A i \in 1 .. n : i # from => \E j \in 1 .. (n - 1) : r[j] = ts[i]
  <2>1. ASSUME NEW i \in 1 .. n, i < from PROVE \E j \in 1 .. (n - 1) : r[j] = ts[i]
    <3>1. i \in 1 .. (from - 1) /\ i \in 1 .. (n - 1) /\ i <= from - 1
      BY <1>1, <2>1
    <3>2. r[i] = ts[i]
      BY <1>4, <1>6, <3>1
    <3> QED
      BY <3>1, <3>2
  <2>2. ASSUME NEW i \in 1 .. n, i > from PROVE \E j \in 1 .. (n - 1) : r[j] = ts[i]
    <3> DEFINE k == i - from
               j == i - 1
    <3>1. /\ j \in 1 .. (n - 1) /\ ~(j <= from - 1) /\ j - (from - 1) = k
          /\ k \in 1 .. (n - from) /\ from + k = i
      BY <1>1, <2>2
    <3> HIDE DEF k, j
    <3>2. r[j] = b[k] /\ b[k] = ts[i]
      BY <1>5, <1>6, <3>1
    <3> QED
      BY <3>1, <3>2
  <2>3. \A i \in 1 .. n : i = from \/ i < from \/ i > from
    BY <1>1
  <2> QED
    BY <2>1, <2>2, <2>3
<1> HIDE DEF r
<1>8. DOMAIN r = 1 .. (n - 1) /\ \A i \in 1 .. (n - 1) : r[i] \in S
  BY <1>6, LenProperties, ElementOfSeq
<1>9. c \in Seq(S) /\ Len(c) = to - 1 /\ \A i \in 1 .. (to - 1) : c[i] = r[i]
  <2>1. \A i \in 1 .. (to - 1) : r[i] \in S
    BY <1>1, <1>8
  <2>2. /\ c \in Seq(S)
        /\ Len(c) = IF 1 <= to - 1 THEN to - 1 - 1 + 1 ELSE 0
        /\ \A i \in 1 .. (to - 1 - 1 + 1) : c[i] = r[1 + i - 1]
    BY <1>1, <2>1, SubSeqProperties
  <2> HIDE DEF c
  <2> QED
    BY <1>1, <2>2
<1>10. d \in Seq(S) /\ Len(d) = n - to /\ \A i \in 1 .. (n - to) : d[i] = r[to + i - 1]
  <2>0. Len(r) = n - 1 /\ Len(r) \in Int
    BY <1>1, <1>6
  <2>1. \A i \in to .. Len(r) : r[i] \in S
    BY <1>1, <1>8, <2>0
  <2>2. /\ d \in Seq(S)
        /\ Len(d) = IF to <= Len(r) THEN Len(r) - to + 1 ELSE 0
        /\ \A i \in 1 .. (Len(r) - to + 1) : d[i] = r[to + i - 1]
    BY <1>1, <2>0, <2>1, SubSeqProperties
  <2> HIDE DEF d
  <2> QED
    BY <1>1, <2>0, <2>2
<1>11. x \in Seq(S) /\ Len(x) = 1 /\ x[1] = ts[from]
  BY <1>1, <1>2
<1> HIDE DEF c, d, x
<1>12. /\ y \in Seq(S) /\ Len(y) = to
       /\ \A i \in 1 .. to : y[i] = IF i <= to - 1 THEN c[i] ELSE x[i - (to - 1)]
  <2>1. /\ y \in Seq(S) /\ Len(y) = Len(c) + Len(x)
        /\ \A i \in 1 .. (Len(c) + Len(x)) : y[i] = IF i <= Len(c) THEN c[i] ELSE x[i - Len(c)]
    BY <1>9, <1>11, ConcatProperties
  <2>2. Len(c) + Len(x) = to
    BY <1>1, <1>9, <1>11
  <2> QED
    BY <1>9, <2>1, <2>2
<1> HIDE DEF y
<1>13. /\ new \in Seq(S) /\ Len(new) = n
       /\ \A i \in 1 .. n : new[i] = IF i <= to THEN y[i] ELSE d[i - to]
  <2>1. /\ new \in Seq(S) /\ Len(new) = Len(y) + Len(d)
        /\ \A i \in 1 .. (Len(y) + Len(d)) : new[i] = IF i <= Len(y) THEN y[i] ELSE d[i - Len(y)]
    BY <1>10, <1>12, ConcatProperties
  <2>2. Len(y) + Len(d) = n
    BY <1>1, <1>10, <1>12
  <2> HIDE DEF new
  <2> QED
    BY <1>12, <2>1, <2>2
<1> HIDE DEF new
<1>14. DOMAIN new = 1 .. n
  BY <1>13, LenProperties
<1>15. new[to] = ts[from]
  <2>1. ~(to <= to - 1) /\ to - (to - 1) = 1 /\ to \in 1 .. to
    BY <1>1
  <2> QED
    BY <1>1, <1>11, <1>12, <1>13, <2>1
<1>16. ASSUME NEW j \in 1 .. (n - 1) PROVE \E i \in 1 .. n : new[i] = r[j]
  <2>1. CASE j < to
    <3>1. j \in 1 .. (to - 1) /\ j \in 1 .. to /\ j \in 1 .. n /\ j <= to - 1 /\ j <= to
      BY <1>1, <2>1
    <3>2. new[j] = r[j]
      BY <1>9, <1>12, <1>13, <3>1
    <3> QED
      BY <3>1, <3>2
  <2>2. CASE ~(j < to)
    <3> DEFINE i == j + 1
               k == j + 1 - to
    <3>1. /\ i \in 1 .. n /\ ~(i <= to) /\ i - to = k
          /\ k \in 1 .. (n - to) /\ to + k - 1 = j
      BY <1>1, <2>2
    <3> HIDE DEF i, k
    <3>2. new[i] = d[k] /\ d[k] = r[j]
      BY <1>10, <1>13, <3>1
    <3> QED
      BY <3>1, <3>2
  <2> QED
    BY <2>1, <2>2
<1>17. ASSUME NEW i \in 1 .. n PROVE ts[i] \in ToSet(new)
  <2>1. CASE i = from
    BY <1>1, <1>14, <1>15, <2>1 DEF ToSet
  <2>2. CASE i # from
    <3>1. PICK j \in 1 .. (n - 1) : r[j] = ts[i]
      BY <1>7, <2>2
    <3>2. PICK k \in 1 .. n : new[k] = r[j]
      BY <1>16
    <3> QED
      BY <1>14, <3>1, <3>2 DEF ToSet
  <2> QED
    BY <2>1, <2>2
<1>18. InsertAt(RemoveAt(ts, from), to, ts[from]) = new
  BY <1>3
<1>19. ToSet(ts) \subseteq ToSet(new)
  BY <1>1, <1>17 DEF ToSet
<1> QED
  BY <1>13, <1>18, <1>19

LEMMA reorderTabsIs ==
  ASSUME NEW V \in SUBSET Tabs, NEW H, NEW e, Store(e, V, H),
         NEW from \in DOMAIN e.tabs, NEW to \in DOMAIN e.tabs
  PROVE  /\ Store(reorderTabs(e, from, to), V, H)
         /\ ActivesOK(e) => ActivesOK(reorderTabs(e, from, to))
<1> DEFINE ts == InsertAt(RemoveAt(e.tabs, from), to, e.tabs[from])
           m == buildTabMru(ts, e.active)
           n == reorderTabs(e, from, to)
<1>1. e.tabs \in Seq(V) /\ e.active \in Nat
  BY DEF Store
<1>2. ts \in Seq(V) /\ ToSet(e.tabs) \subseteq ToSet(ts)
  BY <1>1, Reordered
<1> HIDE DEF ts
<1>3. m \in Seq(Nat)
  BY <1>1, <1>2, SeqMonotonic, mruIs
<1>4. /\ n.tabs = ts /\ n.active = e.active /\ n.mru = m /\ n.sessions = e.sessions
      /\ DOMAIN n = DOMAIN e
  BY DEF reorderTabs, Store, ts
<1> HIDE DEF m, n
<1>5. Store(n, V, H)
  BY <1>1, <1>2, <1>3, <1>4 DEF Store
<1>6. \A id : Has(e.tabs, id) => Has(ts, id)
  BY <1>2, HasIs
<1>7. ASSUME ActivesOK(e) PROVE ActivesOK(n)
  BY <1>4, <1>6, <1>7 DEF ActivesOK, ActiveOK
<1> QED
  BY <1>5, <1>7 DEF n

-----------------------------------------------------------------------------
(* Closing *)

LEMMA PrunedIs ==
  ASSUME NEW T \in SUBSET Tabs, NEW s \in Session(T), NEW gone
  PROVE  /\ Pruned(s, gone) \in Session(T)
         /\ ActiveOK(Pruned(s, gone))
         /\ ToSet(Pruned(s, gone).tabs) = ToSet(s.tabs) \ gone
<1> DEFINE ts == Drop(s.tabs, gone)
<1>1. s.tabs \in Seq(T) /\ s.active \in Nat
  BY DEF Session
<1>2. ts \in Seq(T) /\ ToSet(ts) = ToSet(s.tabs) \ gone
  BY <1>1, DropIs
<1> HIDE DEF ts
<1>3. LastId(ts) \in Nat /\ (LastId(ts) = NoTab \/ Has(ts, LastId(ts)))
  BY <1>2, SeqMonotonic, FirstLast
<1>4. Pruned(s, gone) = [tabs |-> ts, active |-> IF Has(ts, s.active) THEN s.active ELSE LastId(ts)]
  BY DEF Pruned, ts
<1> QED
  BY <1>1, <1>2, <1>3, <1>4 DEF Session, ActiveOK

LEMMA closeTabIs ==
  ASSUME NEW V \in SUBSET Tabs, NEW Q \in SUBSET AllProjects, NEW H \in [Q -> SUBSET Tabs],
         NEW e, Store(e, V, H), NEW id
  PROVE  /\ Store(closeTab(e, id), V, H)
         /\ ActivesOK(e) => ActivesOK(closeTab(e, id))
<1> DEFINE gone == {t \in AllTabs(e) : t.id = id}
           ts == Drop(e.tabs, gone)
           active == IF e.active = id THEN LastId(ts) ELSE e.active
           n == closeTab(e, id)
<1>1. e.tabs \in Seq(V) /\ e.active \in Nat /\ DOMAIN e = {"tabs", "active", "mru", "sessions"}
  BY DEF Store
<1>2. ts \in Seq(V) /\ ToSet(ts) = ToSet(e.tabs) \ gone
  <2> HIDE DEF gone
  <2> QED
    BY <1>1, DropIs
<1>3. \A t \in ToSet(e.tabs) : t.id # id => t \in ToSet(ts)
  BY <1>2
<1> HIDE DEF ts
<1>4. ts \in Seq(Tabs)
  BY <1>2, SeqMonotonic
<1>5. /\ active \in Nat
      /\ ActiveOK(e) => active = NoTab \/ Has(ts, active)
  <2>1. LastId(ts) \in Nat /\ (LastId(ts) = NoTab \/ Has(ts, LastId(ts)))
    BY <1>4, FirstLast
  <2>2. ASSUME e.active # id, Has(e.tabs, e.active) PROVE Has(ts, e.active)
    BY <1>3, <2>2, HasIs
  <2> QED
    BY <1>1, <2>1, <2>2 DEF ActiveOK
<1>6. CASE Has(e.tabs, id)
  <2>1. n = [e EXCEPT !.tabs = ts, !.active = active, !.mru = buildTabMru(ts, active)]
    BY <1>6 DEF closeTab, ts
  <2>2. buildTabMru(ts, active) \in Seq(Nat)
    <3> HIDE DEF active
    <3> QED
      BY <1>4, <1>5, mruIs
  <2> HIDE DEF n, active
  <2>3. /\ n.tabs = ts /\ n.active = active /\ n.mru = buildTabMru(ts, active)
        /\ n.sessions = e.sessions /\ DOMAIN n = DOMAIN e
    BY <1>1, <2>1
  <2>4. Store(n, V, H)
    BY <1>2, <1>5, <2>2, <2>3 DEF Store
  <2>5. ASSUME ActivesOK(e) PROVE ActivesOK(n)
    BY <1>5, <2>3, <2>5 DEF ActivesOK, ActiveOK
  <2> QED
    BY <2>4, <2>5 DEF n
<1>7. CASE ~Has(e.tabs, id)
  <2> DEFINE ss == [p \in DOMAIN e.sessions |->
                      IF Holds(e, p, id) THEN Pruned(e.sessions[p], gone) ELSE e.sessions[p]]
  <2>1. n = [e EXCEPT !.sessions = ss]
    BY <1>7 DEF closeTab, Store
  <2> HIDE DEF n, gone
  <2>2. /\ n.tabs = e.tabs /\ n.active = e.active /\ n.mru = e.mru /\ n.sessions = ss
        /\ DOMAIN n = DOMAIN e
    BY <1>1, <2>1
  <2>3. ASSUME NEW p \in DOMAIN e.sessions
        PROVE  ss[p] \in Session(H[p]) /\ (ActiveOK(e.sessions[p]) => ActiveOK(ss[p]))
    <3>1. e.sessions[p] \in Session(H[p]) /\ H[p] \in SUBSET Tabs
      BY DEF Store
    <3>2. Pruned(e.sessions[p], gone) \in Session(H[p]) /\ ActiveOK(Pruned(e.sessions[p], gone))
      BY <3>1, PrunedIs
    <3> QED
      BY <3>1, <3>2
  <2>4. Store(n, V, H)
    BY <2>2, <2>3 DEF Store
  <2>5. ASSUME ActivesOK(e) PROVE ActivesOK(n)
    BY <2>2, <2>3, <2>5 DEF ActivesOK, ActiveOK
  <2> QED
    BY <2>4, <2>5 DEF n
<1> QED
  BY <1>6, <1>7

LEMMA closeOtherTabsIs ==
  ASSUME NEW V \in SUBSET Tabs, NEW H, NEW e, Store(e, V, H), NEW id \in Nat
  PROVE  /\ Store(closeOtherTabs(e, id), V, H)
         /\ ActivesOK(e) => ActivesOK(closeOtherTabs(e, id))
<1> DEFINE K == {t \in ToSet(e.tabs) : t.id = id}
           ts == Only(e.tabs, K)
           active == IF ts = <<>> THEN NoTab ELSE id
           n == closeOtherTabs(e, id)
<1>1. e.tabs \in Seq(V) /\ DOMAIN e = {"tabs", "active", "mru", "sessions"}
  BY DEF Store
<1>2. ts \in Seq(V \cap K)
  BY <1>1, OnlyIn
<1>3. /\ n.tabs = ts /\ n.active = active /\ n.mru = e.mru /\ n.sessions = e.sessions
      /\ DOMAIN n = DOMAIN e
  BY <1>1 DEF closeOtherTabs
<1> HIDE DEF ts, n
<1>4. ts \in Seq(V)
  BY <1>2, SeqMonotonic
<1>5. active \in Nat /\ (active = NoTab \/ Has(ts, active))
  <2>1. CASE ts = <<>>
    BY <2>1 DEF NoTab
  <2>2. CASE ts # <<>>
    <3>1. Len(ts) \in Nat \ {0} /\ DOMAIN ts = 1 .. Len(ts)
      BY <1>2, <2>2, EmptySeq, LenProperties
    <3>2. 1 \in DOMAIN ts /\ ts[1] \in K
      BY <1>2, <3>1, ElementOfSeq
    <3>3. Has(ts, id)
      BY <3>2 DEF Has
    <3> QED
      BY <2>2, <3>3
  <2> QED
    BY <2>1, <2>2
<1> HIDE DEF active
<1>6. Store(n, V, H)
  BY <1>3, <1>4, <1>5 DEF Store
<1>7. ASSUME ActivesOK(e) PROVE ActivesOK(n)
  BY <1>3, <1>5, <1>7 DEF ActivesOK, ActiveOK
<1> QED
  BY <1>6, <1>7 DEF n

LEMMA closeTabsToRightIs ==
  ASSUME NEW V \in SUBSET Tabs, NEW H, NEW e, Store(e, V, H), NEW id \in Nat
  PROVE  /\ Store(closeTabsToRight(e, id), V, H)
         /\ ActivesOK(e) => ActivesOK(closeTabsToRight(e, id))
<1> DEFINE I == {i \in 1 .. Len(e.tabs) : e.tabs[i].id = id}
           at == IF I # {} THEN Min(I) ELSE 0
           ts == SubSeq(e.tabs, 1, at)
           active == IF Has(ts, e.active) THEN e.active ELSE id
           n == closeTabsToRight(e, id)
<1>1. e.tabs \in Seq(V) /\ e.active \in Nat /\ DOMAIN e = {"tabs", "active", "mru", "sessions"}
  BY DEF Store
<1>2. Len(e.tabs) \in Nat /\ \A i \in 1 .. Len(e.tabs) : e.tabs[i] \in V
  BY <1>1, LenProperties, ElementOfSeq
<1>3. n = IF at = 0 THEN e ELSE [e EXCEPT !.tabs = ts, !.active = active]
  BY DEF closeTabsToRight, SelectInSeq
<1>4. CASE I = {}
  BY <1>3, <1>4
<1>5. CASE I # {}
  <2>1. Min(I) \in I
    <3>1. I \in SUBSET Nat
      OBVIOUS
    <3> HIDE DEF I
    <3> QED
      BY <1>5, <3>1, MinIs
  <2>2. at \in 1 .. Len(e.tabs) /\ e.tabs[at].id = id
    BY <1>5, <2>1
  <2> HIDE DEF at
  <2>3. /\ ts \in Seq(V) /\ Len(ts) = at /\ ts[at] = e.tabs[at]
    <3>1. \A i \in 1 .. at : e.tabs[i] \in V
      BY <1>2, <2>2
    <3>2. at \in Int /\ 1 <= at /\ at - 1 + 1 = at /\ at \in 1 .. (at - 1 + 1) /\ 1 + at - 1 = at
      BY <1>2, <2>2
    <3>3. /\ ts \in Seq(V) /\ Len(ts) = (IF 1 <= at THEN at - 1 + 1 ELSE 0)
          /\ \A i \in 1 .. (at - 1 + 1) : ts[i] = e.tabs[1 + i - 1]
      BY <3>1, <3>2, SubSeqProperties
    <3> HIDE DEF ts
    <3> QED
      BY <3>2, <3>3
  <2>4. at \in DOMAIN ts
    BY <2>2, <2>3, LenProperties
  <2>5. Has(ts, id)
    BY <2>2, <2>3, <2>4 DEF Has
  <2> HIDE DEF ts, n
  <2>6. at # 0
    BY <2>2
  <2>7. n = [e EXCEPT !.tabs = ts, !.active = active]
    BY <1>3, <2>6
  <2>8. /\ n.tabs = ts /\ n.active = active /\ n.mru = e.mru /\ n.sessions = e.sessions
        /\ DOMAIN n = DOMAIN e
    BY <1>1, <2>7
  <2>9. Store(n, V, H)
    BY <1>1, <2>3, <2>8 DEF Store
  <2>10. ASSUME ActivesOK(e) PROVE ActivesOK(n)
    BY <2>5, <2>8, <2>10 DEF ActivesOK, ActiveOK
  <2> QED
    BY <2>9, <2>10 DEF n
<1> QED
  BY <1>4, <1>5

LEMMA closeAllTabsIs ==
  ASSUME NEW V, NEW H, NEW e, Store(e, V, H)
  PROVE  /\ Store(closeAllTabs(e), V, H)
         /\ ActivesOK(e) => ActivesOK(closeAllTabs(e))
<1> DEFINE n == closeAllTabs(e)
<1>1. /\ n.tabs = <<>> /\ n.active = NoTab /\ n.mru = e.mru /\ n.sessions = e.sessions
      /\ DOMAIN n = DOMAIN e
  BY DEF Store, closeAllTabs
<1>2. <<>> \in Seq(V) /\ NoTab \in Nat
  BY EmptySeq DEF NoTab
<1> HIDE DEF n
<1>3. Store(n, V, H)
  BY <1>1, <1>2 DEF Store
<1>4. ASSUME ActivesOK(e) PROVE ActivesOK(n)
  BY <1>1, <1>4 DEF ActivesOK, ActiveOK
<1> QED
  BY <1>3, <1>4 DEF n

LEMMA CloseEverywhereIs ==
  ASSUME NEW V \in SUBSET Tabs, NEW Q \in SUBSET AllProjects, NEW H \in [Q -> SUBSET Tabs],
         NEW e, Store(e, V, H), NEW gone
  PROVE  /\ Store(CloseEverywhere(e, gone), V, H)
         /\ ActivesOK(e) => ActivesOK(CloseEverywhere(e, gone))
<1> DEFINE ts == Drop(e.tabs, gone)
           active == IF Has(e.tabs, e.active) /\ ~Has(ts, e.active) THEN LastId(ts) ELSE e.active
           ss == [p \in DOMAIN e.sessions |-> Pruned(e.sessions[p], gone)]
           n == CloseEverywhere(e, gone)
<1>1. e.tabs \in Seq(V) /\ e.active \in Nat /\ DOMAIN e = {"tabs", "active", "mru", "sessions"}
  BY DEF Store
<1>2. ts \in Seq(V)
  BY <1>1, DropIs
<1>3. n = [e EXCEPT !.tabs = ts, !.active = active, !.sessions = ss]
  BY <1>1 DEF CloseEverywhere
<1>4. LastId(ts) \in Nat /\ (LastId(ts) = NoTab \/ Has(ts, LastId(ts)))
  BY <1>2, SeqMonotonic, FirstLast
<1>5. ASSUME NEW p \in DOMAIN e.sessions PROVE ss[p] \in Session(H[p]) /\ ActiveOK(ss[p])
  <2>1. e.sessions[p] \in Session(H[p]) /\ H[p] \in SUBSET Tabs
    BY DEF Store
  <2>2. Pruned(e.sessions[p], gone) \in Session(H[p]) /\ ActiveOK(Pruned(e.sessions[p], gone))
    BY <2>1, PrunedIs
  <2> QED
    BY <2>2
<1>6. DOMAIN ss = DOMAIN e.sessions
  OBVIOUS
<1> HIDE DEF n, ts, ss
<1>7. /\ n.tabs = ts /\ n.active = active /\ n.mru = e.mru /\ n.sessions = ss
      /\ DOMAIN n = DOMAIN e
  <2> HIDE DEF active
  <2> QED
    BY <1>1, <1>3
<1>8. Store(n, V, H)
  BY <1>1, <1>2, <1>4, <1>5, <1>6, <1>7 DEF Store
<1>9. ASSUME ActivesOK(e) PROVE ActivesOK(n)
  BY <1>4, <1>5, <1>6, <1>7, <1>9 DEF ActivesOK, ActiveOK
<1> QED
  BY <1>8, <1>9 DEF n

\* Making room closes tabs and does nothing else.
LEMMA EvictOneIs ==
  ASSUME NEW V \in SUBSET Tabs, NEW Q \in SUBSET AllProjects, NEW H \in [Q -> SUBSET Tabs],
         NEW e, Store(e, V, H)
  PROVE  /\ Store(EvictOne(e), V, H)
         /\ ActivesOK(e) => ActivesOK(EvictOne(e))
BY closeTabIs DEF EvictOne

Evictions(f, e, n) == f = [k \in 0 .. n |-> IF k = 0 THEN e ELSE EvictOne(f[k - 1])]

LEMMA EvictionsExist ==
  ASSUME NEW n \in Nat, NEW e
  PROVE  \E f : Evictions(f, e, n)
<1> DEFINE T == {m \in Nat : \E f : Evictions(f, e, m)}
<1>1. 0 \in T
  <2>1. Evictions([k \in 0 .. 0 |-> e], e, 0)
    BY DEF Evictions
  <2> QED
    BY <2>1
<1>2. ASSUME NEW m \in T PROVE m + 1 \in T
  <2>1. PICK f : Evictions(f, e, m)
    OBVIOUS
  <2> DEFINE g == [k \in 0 .. (m + 1) |-> IF k = m + 1 THEN EvictOne(f[m]) ELSE f[k]]
  <2>2. ASSUME NEW k \in 0 .. (m + 1)
        PROVE  g[k] = IF k = 0 THEN e ELSE EvictOne(g[k - 1])
    BY <2>1 DEF Evictions
  <2>3. Evictions(g, e, m + 1)
    <3>1. g = [k \in 0 .. (m + 1) |-> g[k]]
      OBVIOUS
    <3> HIDE DEF g
    <3> QED
      BY <2>2, <3>1 DEF Evictions
  <2> QED
    BY <2>3
<1> HIDE DEF T
<1>3. T = Nat
  BY <1>1, <1>2, Induction DEF T
<1> QED
  BY <1>3 DEF T

LEMMA ensureOpenTabCapacityIs ==
  ASSUME NEW V \in SUBSET Tabs, NEW Q \in SUBSET AllProjects, NEW H \in [Q -> SUBSET Tabs],
         NEW e, Store(e, V, H)
  PROVE  /\ Store(ensureOpenTabCapacity(e), V, H)
         /\ ActivesOK(e) => ActivesOK(ensureOpenTabCapacity(e))
<1> DEFINE N == Len(e.tabs)
           f == CHOOSE f : Evictions(f, e, N)
<1>0. N \in Nat
  BY LenProperties DEF Store
<1>1. Evictions(f, e, N)
  BY <1>0, EvictionsExist
<1>2. ensureOpenTabCapacity(e) = f[N]
  BY DEF ensureOpenTabCapacity, Evictions
<1> HIDE DEF f, N
<1> DEFINE Good(y) == Store(y, V, H) /\ (ActivesOK(e) => ActivesOK(y))
           T == {m \in Nat : m <= N => Good(f[m])}
<1>3. 0 \in T
  BY <1>0, <1>1 DEF Evictions
<1>4. ASSUME NEW m \in T PROVE m + 1 \in T
  <2>1. ASSUME m + 1 <= N PROVE Good(f[m + 1])
    <3>1. m + 1 \in 0 .. N /\ m + 1 # 0 /\ (m + 1) - 1 = m /\ m <= N
      BY <1>0, <2>1
    <3>2. f[m + 1] = EvictOne(f[m])
      BY <1>1, <3>1 DEF Evictions
    <3>3. Good(f[m])
      BY <3>1
    <3> QED
      BY <3>2, <3>3, EvictOneIs
  <2> HIDE DEF Good
  <2> QED
    BY <2>1
<1> HIDE DEF T
<1>5. T = Nat
  BY <1>3, <1>4, Induction DEF T
<1>6. Good(f[N])
  <2> HIDE DEF Good
  <2> QED
    BY <1>0, <1>5 DEF T
<1> QED
  BY <1>2, <1>6

-----------------------------------------------------------------------------
(* The sessions of the projects *)

LEMMA SplitIs ==
  ASSUME NEW S, NEW ts \in Seq(S)
  PROVE  /\ pinned(ts) \in Seq({t \in S : IsPinned(t)})
         /\ projectTabs(ts) \in Seq({t \in S : ~IsPinned(t)})
         /\ ToSet(pinned(ts)) = {t \in ToSet(ts) : IsPinned(t)}
         /\ ToSet(projectTabs(ts)) = {t \in ToSet(ts) : ~IsPinned(t)}
<1> DEFINE P == {t \in ToSet(ts) : IsPinned(t)}
           Q == {t \in ToSet(ts) : ~IsPinned(t)}
<1>0. ToSet(ts) \in SUBSET S
  BY ToSetIn
<1>1. pinned(ts) = Only(ts, P) /\ projectTabs(ts) = Only(ts, Q)
  BY DEF pinned, projectTabs
<1>2. S \cap P \subseteq {t \in S : IsPinned(t)} /\ S \cap Q \subseteq {t \in S : ~IsPinned(t)}
  OBVIOUS
<1>3. ToSet(ts) \cap P = P /\ ToSet(ts) \cap Q = Q
  OBVIOUS
<1> HIDE DEF P, Q
<1>4. Only(ts, P) \in Seq(S \cap P) /\ Only(ts, Q) \in Seq(S \cap Q)
  BY OnlyIn
<1>5. ToSet(Only(ts, P)) = P /\ ToSet(Only(ts, Q)) = Q
  BY <1>3, ToSetOnly
<1> QED
  BY <1>1, <1>2, <1>4, <1>5, SeqMonotonic DEF P, Q

LEMMA SplitNone == pinned(<<>>) = <<>> /\ projectTabs(<<>>) = <<>>
BY OnlyOfNone DEF pinned, projectTabs

\* What is stashed is a session of the project's tabs.
LEMMA StashedIs ==
  ASSUME NEW V \in SUBSET Tabs, NEW H, NEW e, Store(e, V, H), NEW T,
         \A t \in V : ~IsPinned(t) => t \in T
  PROVE  /\ Stashed(e) \in Session(T)
         /\ ActiveOK(Stashed(e))
         /\ Stashed(e).tabs = projectTabs(e.tabs)
<1> DEFINE ts == projectTabs(e.tabs)
<1>1. e.tabs \in Seq(V) /\ e.active \in Nat
  BY DEF Store
<1>2. ts \in Seq({t \in V : ~IsPinned(t)})
  BY <1>1, SplitIs
<1>3. ts \in Seq(T) /\ ts \in Seq(Tabs)
  <2>1. {t \in V : ~IsPinned(t)} \subseteq T /\ {t \in V : ~IsPinned(t)} \subseteq Tabs
    OBVIOUS
  <2> HIDE DEF ts
  <2> QED
    BY <1>2, <2>1, SeqMonotonic
<1>4. FirstId(ts) \in Nat /\ (FirstId(ts) = NoTab \/ Has(ts, FirstId(ts)))
  BY <1>3, FirstLast
<1> DEFINE a == ActiveInProject(e)
<1>5. a \in Nat /\ (a = NoTab \/ Has(ts, a))
  BY <1>1, <1>4 DEF ActiveInProject
<1>6. Stashed(e) = [tabs |-> ts, active |-> a]
  BY DEF Stashed
<1> HIDE DEF ts, a
<1> QED
  BY <1>3, <1>5, <1>6 DEF Session, ActiveOK, ts

\* The tabs of one session and the pinned ones, and which is active then.
LEMMA ShownIs ==
  ASSUME NEW V \in SUBSET Tabs, NEW H, NEW e, Store(e, V, H), NEW W \in SUBSET Tabs,
         \A t \in V : IsPinned(t) => t \in W,
         NEW T \in SUBSET W, NEW s \in Session(T),
         NEW ts, ts = projectTabs(s.tabs) \o pinned(e.tabs)
  PROVE  /\ ts \in Seq(W)
         /\ ActiveAmong(ts, s.active, e) \in Nat
         /\ ActiveAmong(ts, s.active, e) = NoTab \/ Has(ts, ActiveAmong(ts, s.active, e))
<1> DEFINE a == projectTabs(s.tabs)
           b == pinned(e.tabs)
<1>1. e.tabs \in Seq(V) /\ e.active \in Nat /\ s.tabs \in Seq(T) /\ s.active \in Nat
  BY DEF Store, Session
<1>2. a \in Seq(W)
  <2>1. {t \in T : ~IsPinned(t)} \subseteq W
    OBVIOUS
  <2>2. a \in Seq({t \in T : ~IsPinned(t)})
    BY <1>1, SplitIs
  <2> HIDE DEF a
  <2> QED
    BY <2>1, <2>2, SeqMonotonic
<1>3. b \in Seq(W)
  <2>1. {t \in V : IsPinned(t)} \subseteq W
    OBVIOUS
  <2>2. b \in Seq({t \in V : IsPinned(t)})
    BY <1>1, SplitIs
  <2> HIDE DEF b
  <2> QED
    BY <2>1, <2>2, SeqMonotonic
<1> HIDE DEF a, b
<1>4. /\ ts \in Seq(W) /\ Len(ts) = Len(a) + Len(b)
      /\ \A i \in 1 .. (Len(a) + Len(b)) : ts[i] = IF i <= Len(a) THEN a[i] ELSE b[i - Len(a)]
  BY <1>2, <1>3, ConcatProperties DEF a, b
<1>5. FirstId(ts) \in Nat /\ (FirstId(ts) = NoTab \/ Has(ts, FirstId(ts)))
  BY <1>4, SeqMonotonic, FirstLast
<1>6. ASSUME Has(b, e.active) PROVE Has(ts, e.active)
  <2>1. PICK i \in DOMAIN b : b[i].id = e.active
    BY <1>6 DEF Has
  <2>2. /\ Len(a) \in Nat /\ Len(b) \in Nat /\ DOMAIN b = 1 .. Len(b) /\ DOMAIN ts = 1 .. Len(ts)
    BY <1>2, <1>3, <1>4, LenProperties
  <2> DEFINE j == Len(a) + i
  <2>3. j \in 1 .. (Len(a) + Len(b)) /\ ~(j <= Len(a)) /\ j - Len(a) = i /\ j \in DOMAIN ts
    BY <1>4, <2>1, <2>2
  <2> HIDE DEF j
  <2>4. ts[j] = b[i]
    BY <1>4, <2>3
  <2> QED
    BY <2>1, <2>3, <2>4 DEF Has
<1> QED
  BY <1>1, <1>4, <1>5, <1>6 DEF ActiveAmong, b

LEMMA NoneStashed ==
  ASSUME NEW T
  PROVE  [tabs |-> <<>>, active |-> NoTab] \in Session(T)
BY EmptySeq DEF Session, NoTab

\* Switching from one project to another: the tabs of the first are stashed
\* under its name, those of the other are shown.
LEMMA activateIs ==
  ASSUME NEW V \in SUBSET Tabs, NEW H \in [AllProjects -> SUBSET Tabs], NEW e, Store(e, V, H),
         NEW from, NEW to \in AllProjects, from # to,
         NEW W \in SUBSET Tabs,
         \A t \in V : IsPinned(t) => t \in W,
         \A t \in V : ~IsPinned(t) /\ from \in AllProjects => t \in H[from],
         H[to] \subseteq W
  PROVE  /\ Store(activateProjectSession(e, from, to), W, H)
         /\ DOMAIN activateProjectSession(e, from, to).sessions
              = (DOMAIN e.sessions \cup ({from} \cap AllProjects)) \ {to}
         /\ ActivesOK(e) => ActivesOK(activateProjectSession(e, from, to))
<1> DEFINE kept == IF from \in AllProjects THEN With(e.sessions, from, Stashed(e)) ELSE e.sessions
           incoming == IF to \in DOMAIN kept THEN kept[to] ELSE [tabs |-> <<>>, active |-> NoTab]
           ts == projectTabs(incoming.tabs) \o pinned(e.tabs)
           active == ActiveAmong(ts, incoming.active, e)
           mru == buildTabMru(ts, active)
           n == activateProjectSession(e, from, to)
<1>1. n = [tabs |-> ts, active |-> active, mru |-> mru, sessions |-> Without(kept, to)]
  BY DEF activateProjectSession
<1>2. /\ DOMAIN kept = DOMAIN e.sessions \cup ({from} \cap AllProjects)
      /\ \A p \in DOMAIN kept : kept[p] \in Session(H[p]) /\ (ActivesOK(e) => ActiveOK(kept[p]))
  <2>1. CASE from \in AllProjects
    <3>1. Stashed(e) \in Session(H[from]) /\ ActiveOK(Stashed(e))
      BY <2>1, StashedIs
    <3>2. kept = [q \in DOMAIN e.sessions \cup {from} |-> IF q = from THEN Stashed(e)
                                                          ELSE e.sessions[q]]
      BY <2>1 DEF With
    <3>3. {from} \cap AllProjects = {from}
      BY <2>1
    <3> HIDE DEF kept
    <3>4. ASSUME NEW p \in DOMAIN kept
          PROVE  kept[p] \in Session(H[p]) /\ (ActivesOK(e) => ActiveOK(kept[p]))
      <4>1. CASE p = from
        BY <3>1, <3>2, <4>1
      <4>2. CASE p # from
        <5>1. p \in DOMAIN e.sessions /\ kept[p] = e.sessions[p]
          BY <3>2, <4>2
        <5> QED
          BY <5>1 DEF Store, ActivesOK
      <4> QED
        BY <4>1, <4>2
    <3> QED
      BY <3>2, <3>3, <3>4
  <2>2. CASE from \notin AllProjects
    BY <2>2 DEF Store, ActivesOK
  <2> QED
    BY <2>1, <2>2
<1> HIDE DEF kept
<1>3. incoming \in Session(H[to])
  BY <1>2, NoneStashed
<1> HIDE DEF incoming
<1>4. /\ ts \in Seq(W) /\ active \in Nat
      /\ active = NoTab \/ Has(ts, active)
  <2>1. H[to] \in SUBSET W
    OBVIOUS
  <2>2. ts = projectTabs(incoming.tabs) \o pinned(e.tabs)
    OBVIOUS
  <2> HIDE DEF ts
  <2>3. /\ ts \in Seq(W)
        /\ ActiveAmong(ts, incoming.active, e) \in Nat
        /\ ActiveAmong(ts, incoming.active, e) = NoTab
           \/ Has(ts, ActiveAmong(ts, incoming.active, e))
    <3>1. PICK T : T = H[to]
      OBVIOUS
    <3>2. T \in SUBSET W /\ incoming \in Session(T)
      BY <1>3, <2>1, <3>1
    <3>3. PICK s : s = incoming
      OBVIOUS
    <3>4. s \in Session(T) /\ ts = projectTabs(s.tabs) \o pinned(e.tabs)
      BY <2>2, <3>2, <3>3
    <3> DEFINE Shown(v) == /\ v \in Seq(W)
                           /\ ActiveAmong(v, s.active, e) \in Nat
                           /\ \/ ActiveAmong(v, s.active, e) = NoTab
                              \/ Has(v, ActiveAmong(v, s.active, e))
    <3>5. \A v : v = projectTabs(s.tabs) \o pinned(e.tabs) => Shown(v)
      BY <3>2, <3>4, ShownIs, Zenon
    <3>6. Shown(ts)
      BY <3>4, <3>5
    <3> QED
      BY <3>3, <3>6
  <2> QED
    BY <2>3
<1> HIDE DEF ts, active
<1>5. mru \in Seq(Nat)
  BY <1>4, SeqMonotonic, mruIs
<1> HIDE DEF mru, n
<1>6. /\ n.tabs = ts /\ n.active = active /\ n.mru = mru /\ n.sessions = Without(kept, to)
      /\ DOMAIN n = {"tabs", "active", "mru", "sessions"}
  BY <1>1
<1>7. /\ DOMAIN n.sessions = DOMAIN kept \ {to}
      /\ \A p \in DOMAIN kept \ {to} : n.sessions[p] = kept[p]
  BY <1>6 DEF Without
<1>8. DOMAIN n.sessions \subseteq AllProjects
  BY <1>2, <1>7 DEF Store
<1>9. Store(n, W, H)
  BY <1>2, <1>4, <1>5, <1>6, <1>7, <1>8 DEF Store
<1>10. ASSUME ActivesOK(e) PROVE ActivesOK(n)
  <2>1. ActiveOK(n)
    BY <1>4, <1>6 DEF ActiveOK
  <2>2. \A p \in DOMAIN n.sessions : ActiveOK(n.sessions[p])
    BY <1>2, <1>7, <1>10
  <2> QED
    BY <2>1, <2>2 DEF ActivesOK
<1> QED
  BY <1>2, <1>7, <1>9, <1>10 DEF n

\* No project any more: only the pinned tabs stay visible.
LEMMA deactivateIs ==
  ASSUME NEW V \in SUBSET Tabs, NEW H \in [AllProjects -> SUBSET Tabs], NEW e, Store(e, V, H),
         NEW p \in AllProjects, \A t \in V : ~IsPinned(t) => t \in H[p],
         NEW W \in SUBSET Tabs, \A t \in V : IsPinned(t) => t \in W
  PROVE  /\ Store(deactivateProjectSession(e, p), W, H)
         /\ ActivesOK(e) => ActivesOK(deactivateProjectSession(e, p))
<1> DEFINE ts == pinned(e.tabs)
           active == IF Has(ts, e.active) THEN e.active ELSE FirstId(ts)
           mru == buildTabMru(ts, active)
           ss == With(e.sessions, p, Stashed(e))
           n == deactivateProjectSession(e, p)
<1>1. n = [tabs |-> ts, active |-> active, mru |-> mru, sessions |-> ss]
  BY DEF deactivateProjectSession
<1>2. e.tabs \in Seq(V) /\ e.active \in Nat
  BY DEF Store
<1>3. ts \in Seq(W)
  <2>1. ts \in Seq({t \in V : IsPinned(t)})
    BY <1>2, SplitIs
  <2>2. {t \in V : IsPinned(t)} \subseteq W
    OBVIOUS
  <2> HIDE DEF ts
  <2> QED
    BY <2>1, <2>2, SeqMonotonic
<1>4. /\ DOMAIN ss = DOMAIN e.sessions \cup {p}
      /\ ss[p] = Stashed(e) /\ \A q \in DOMAIN e.sessions : q # p => ss[q] = e.sessions[q]
  BY DEF With
<1>5. Stashed(e) \in Session(H[p]) /\ ActiveOK(Stashed(e))
  BY StashedIs
<1> HIDE DEF ts, ss
<1>6. active \in Nat /\ (active = NoTab \/ Has(ts, active))
  BY <1>2, <1>3, SeqMonotonic, FirstLast
<1> HIDE DEF active
<1>7. mru \in Seq(Nat)
  BY <1>3, <1>6, SeqMonotonic, mruIs
<1> HIDE DEF mru, n
<1>8. /\ n.tabs = ts /\ n.active = active /\ n.mru = mru /\ n.sessions = ss
      /\ DOMAIN n = {"tabs", "active", "mru", "sessions"}
  BY <1>1
<1>9. ASSUME NEW q \in DOMAIN ss
      PROVE  q \in AllProjects /\ ss[q] \in Session(H[q]) /\ (ActivesOK(e) => ActiveOK(ss[q]))
  <2>1. CASE q = p
    BY <1>4, <1>5, <2>1
  <2>2. CASE q # p
    BY <1>4, <2>2 DEF Store, ActivesOK
  <2> QED
    BY <2>1, <2>2
<1>10. Store(n, W, H)
  BY <1>3, <1>6, <1>7, <1>8, <1>9 DEF Store
<1>11. ASSUME ActivesOK(e) PROVE ActivesOK(n)
  BY <1>6, <1>8, <1>9, <1>11 DEF ActivesOK, ActiveOK
<1> QED
  BY <1>10, <1>11 DEF n

\* Sessions dropped.
LEMMA FewerSessions ==
  ASSUME NEW V, NEW H, NEW e, Store(e, V, H), NEW D \in SUBSET (DOMAIN e.sessions),
         NEW n, n = [e EXCEPT !.sessions = [p \in D |-> e.sessions[p]]]
  PROVE  /\ Store(n, V, H)
         /\ n.tabs = e.tabs
         /\ DOMAIN n.sessions = D
         /\ ActivesOK(e) => ActivesOK(n)
<1>1. /\ n.tabs = e.tabs /\ n.active = e.active /\ n.mru = e.mru
      /\ n.sessions = [p \in D |-> e.sessions[p]] /\ DOMAIN n = DOMAIN e
  BY DEF Store
<1>2. Store(n, V, H)
  BY <1>1 DEF Store
<1>3. ASSUME ActivesOK(e) PROVE ActivesOK(n)
  BY <1>1, <1>3 DEF ActivesOK, ActiveOK
<1> QED
  BY <1>1, <1>2, <1>3

LEMMA discardIs ==
  ASSUME NEW V, NEW H, NEW e, Store(e, V, H), NEW p
  PROVE  /\ Store(discardProjectSession(e, p), V, H)
         /\ discardProjectSession(e, p).tabs = e.tabs
         /\ DOMAIN discardProjectSession(e, p).sessions = DOMAIN e.sessions \ {p}
         /\ ActivesOK(e) => ActivesOK(discardProjectSession(e, p))
<1> DEFINE D == DOMAIN e.sessions \ {p}
<1>1. discardProjectSession(e, p) = [e EXCEPT !.sessions = [q \in D |-> e.sessions[q]]]
  BY DEF discardProjectSession, Without, Store
<1> QED
  BY <1>1, FewerSessions

LEMMA pruneIs ==
  ASSUME NEW V, NEW H, NEW e, Store(e, V, H), NEW known
  PROVE  /\ Store(pruneWorkspaceSessions(e, known), V, H)
         /\ pruneWorkspaceSessions(e, known).tabs = e.tabs
         /\ DOMAIN pruneWorkspaceSessions(e, known).sessions = DOMAIN e.sessions \cap known
         /\ ActivesOK(e) => ActivesOK(pruneWorkspaceSessions(e, known))
<1> DEFINE D == DOMAIN e.sessions \cap known
<1>1. pruneWorkspaceSessions(e, known) = [e EXCEPT !.sessions = [q \in D |-> e.sessions[q]]]
  BY DEF pruneWorkspaceSessions, Store
<1> QED
  BY <1>1, FewerSessions

\* Sessions put in the place of others.
LEMMA mergeIs ==
  ASSUME NEW V, NEW H, NEW e, Store(e, V, H), NEW gs,
         DOMAIN gs \subseteq DOMAIN H,
         \A p \in DOMAIN gs : gs[p] \in Session(H[p]) /\ ActiveOK(gs[p])
  PROVE  /\ Store(mergeProjectSessions(e, gs), V, H)
         /\ mergeProjectSessions(e, gs).tabs = e.tabs
         /\ ActivesOK(e) => ActivesOK(mergeProjectSessions(e, gs))
<1> DEFINE n == mergeProjectSessions(e, gs)
           ss == [p \in DOMAIN e.sessions \cup DOMAIN gs |->
                    IF p \in DOMAIN gs THEN gs[p] ELSE e.sessions[p]]
<1>1. /\ n.tabs = e.tabs /\ n.active = e.active /\ n.mru = e.mru
      /\ n.sessions = ss /\ DOMAIN n = DOMAIN e
  BY DEF Store, mergeProjectSessions
<1> HIDE DEF n
<1>2. Store(n, V, H)
  BY <1>1 DEF Store
<1>3. ASSUME ActivesOK(e) PROVE ActivesOK(n)
  BY <1>1, <1>3 DEF ActivesOK, ActiveOK
<1> QED
  BY <1>1, <1>2, <1>3 DEF n

LEMMA applyIs ==
  ASSUME NEW V \in SUBSET Tabs, NEW H, NEW e, Store(e, V, H), NEW s \in Session(V)
  PROVE  /\ Store(applyVisibleProjectSession(e, s), V, H)
         /\ ActivesOK(e) => ActivesOK(applyVisibleProjectSession(e, s))
<1> DEFINE ts == projectTabs(s.tabs) \o pinned(e.tabs)
           active == ActiveAmong(ts, s.active, e)
           n == applyVisibleProjectSession(e, s)
<1>1. /\ ts \in Seq(V) /\ active \in Nat
      /\ active = NoTab \/ Has(ts, active)
  BY ShownIs
<1>2. /\ n.tabs = ts /\ n.active = active /\ n.mru = e.mru /\ n.sessions = e.sessions
      /\ DOMAIN n = DOMAIN e
  BY DEF Store, applyVisibleProjectSession
<1> HIDE DEF ts, active, n
<1>3. Store(n, V, H)
  BY <1>1, <1>2 DEF Store
<1>4. ASSUME ActivesOK(e) PROVE ActivesOK(n)
  BY <1>1, <1>2, <1>4 DEF ActivesOK, ActiveOK
<1> QED
  BY <1>3, <1>4 DEF n

-----------------------------------------------------------------------------
(* The snapshot *)

\* What persistNow saves is what SnapshotComplete asks for: a project is left
\* out only when it has no tab.
LEMMA CaptureIsComplete ==
  ASSUME snapshot' = captureWorkspaceSessionSnapshot(editor, projects),
         UNCHANGED <<editor, projects, current>>
  PROVE  SnapshotComplete'
<1> DEFINE full == {p \in projects \cap projects \cap Projects : Sessions(editor, p).tabs # <<>>}
<1>1. snapshot'.projects = [p \in full |-> SavedSession(Sessions(editor, p))]
  BY DEF captureWorkspaceSessionSnapshot
<1>2. ASSUME NEW p \in projects \cap Projects, p \in full
      PROVE  snapshot'.projects[p].tabs = Saved(projectTabs(Sessions(editor, p).tabs))
  <2> HIDE DEF full
  <2> QED
    BY <1>1, <1>2 DEF SavedSession
<1>3. ASSUME NEW p \in projects \cap Projects, p \notin full
      PROVE  projectTabs(Sessions(editor, p).tabs) = <<>>
  BY <1>3, OnlyOfNone DEF projectTabs
<1>4. DOMAIN snapshot'.projects = full
  BY <1>1
<1> HIDE DEF full
<1>5. \A p : Sessions(editor, p)' = Sessions(editor, p)
  BY DEF Sessions, Stashed, ActiveInProject, projectTabs
<1> QED
  BY <1>2, <1>3, <1>4, <1>5 DEF SnapshotComplete

\* Any other step sets the timer, or leaves all of it as it was.
LEMMA SnapshotKept ==
  ASSUME SnapshotComplete,
         \/ persistDue' = TRUE
         \/ phase' # "ready"
         \/ UNCHANGED <<phase, persistDue, projects, editor, current, snapshot>>
  PROVE  SnapshotComplete'
<1>1. ASSUME UNCHANGED <<phase, persistDue, projects, editor, current, snapshot>>
      PROVE  SnapshotComplete'
  <2>1. \A p : Sessions(editor, p)' = Sessions(editor, p)
    BY <1>1 DEF Sessions, Stashed, ActiveInProject, projectTabs
  <2> QED
    BY <1>1, <2>1 DEF SnapshotComplete
<1> QED
  BY <1>1 DEF SnapshotComplete

LEMMA SnapshotCompleteNext ==
  ASSUME SnapshotComplete, [Next]_workspaceVars
  PROVE  SnapshotComplete'
<1> USE DEF Untouched, UserActs, book, counters, durable, memory
<1>1. ASSUME EditorAction PROVE SnapshotComplete'
  <2>1. ASSUME NEW path \in Paths, OpenFile(path) PROVE SnapshotComplete'
    BY <2>1, SnapshotKept DEF OpenFile, Publish
  <2>2. ASSUME NEW path \in Paths, BeginDiff(path) PROVE SnapshotComplete'
    BY <2>2, SnapshotKept DEF BeginDiff, Publish
  <2>3. ASSUME NEW path \in Paths, BeginSaveAs(path) PROVE SnapshotComplete'
    BY <2>3, SnapshotKept DEF BeginSaveAs
  <2>4. ASSUME NEW path \in Paths, closeTabsForPath(path) PROVE SnapshotComplete'
    BY <2>4, SnapshotKept DEF closeTabsForPath, Publish
  <2>5. ASSUME NEW path \in Paths, closeDiffTabsForPath(path) PROVE SnapshotComplete'
    BY <2>5, SnapshotKept DEF closeDiffTabsForPath, Publish
  <2>6. ASSUME NEW path \in Paths, NEW to \in Paths, renamePath(path, to) PROVE SnapshotComplete'
    BY <2>6, SnapshotKept DEF renamePath, Publish
  <2>7. ASSUME NEW id \in 1 .. MaxIds, Activate(id) PROVE SnapshotComplete'
    BY <2>7, SnapshotKept DEF Activate, Publish
  <2>8. ASSUME NEW id \in 1 .. MaxIds, NEW kind, closeWithConfirm(kind, id) PROVE SnapshotComplete'
    BY <2>8, SnapshotKept DEF closeWithConfirm, Publish
  <2>9. ASSUME Reorder PROVE SnapshotComplete'
    BY <2>9, SnapshotKept DEF Reorder, Publish
  <2>10. ASSUME Type PROVE SnapshotComplete'
    BY <2>10, SnapshotKept DEF Type, PublishNew
  <2>11. ASSUME Save PROVE SnapshotComplete'
    BY <2>11, SnapshotKept DEF Save, Publish
  <2>12. ASSUME openDiff PROVE SnapshotComplete'
    BY <2>12, SnapshotKept DEF openDiff, Publish
  <2>13. ASSUME saveAs PROVE SnapshotComplete'
    BY <2>13, SnapshotKept DEF saveAs, Publish
  <2>14. ASSUME DiscardAndClose PROVE SnapshotComplete'
    BY <2>14, SnapshotKept DEF DiscardAndClose, CloseAnswered, Publish
  <2>15. ASSUME SaveAndClose PROVE SnapshotComplete'
    BY <2>15, SnapshotKept DEF SaveAndClose, CloseAnswered, Publish
  <2>16. ASSUME CancelClose PROVE SnapshotComplete'
    BY <2>16, SnapshotKept DEF CancelClose
  <2> QED
    BY <1>1, <2>1, <2>2, <2>3, <2>4, <2>5, <2>6, <2>7, <2>8, <2>9, <2>10, <2>11, <2>12, <2>13,
       <2>14, <2>15, <2>16 DEF EditorAction
<1>2. ASSUME ProjectAction PROVE SnapshotComplete'
  <2>1. ASSUME NEW p \in AllProjects, switchProject(p) PROVE SnapshotComplete'
    BY <2>1, SnapshotKept DEF switchProject
  <2>2. ASSUME NEW p \in AllProjects, unhideProject(p) PROVE SnapshotComplete'
    BY <2>2, SnapshotKept DEF unhideProject
  <2>3. ASSUME NEW p \in AllProjects, removeProjectWithConfirm(p) PROVE SnapshotComplete'
    BY <2>3, SnapshotKept DEF removeProjectWithConfirm, Publish
  <2>4. ASSUME NEW ps, hideProjects(ps) PROVE SnapshotComplete'
    BY <2>4, SnapshotKept DEF hideProjects, Leave, clearCurrentProjectSession, Publish
  <2>5. ASSUME SwitchDone PROVE SnapshotComplete'
    BY <2>5, SnapshotKept DEF SwitchDone, Settle, Publish
  <2>6. ASSUME SwitchFails PROVE SnapshotComplete'
    BY <2>6, SnapshotKept DEF SwitchFails, Settle, Publish
  <2>7. ASSUME addEmptyProject PROVE SnapshotComplete'
    BY <2>7, SnapshotKept DEF addEmptyProject, Publish
  <2>8. ASSUME RemoveRow PROVE SnapshotComplete'
    BY <2>8, SnapshotKept DEF RemoveRow, Publish
  <2>9. ASSUME RemoveReload PROVE SnapshotComplete'
    BY <2>9, SnapshotKept DEF RemoveReload, Publish
  <2>10. ASSUME saveProjectsAsWorkspace PROVE SnapshotComplete'
    BY <2>10, CaptureIsComplete DEF saveProjectsAsWorkspace
  <2>11. ASSUME BeginNamed PROVE SnapshotComplete'
    BY <2>11, CaptureIsComplete DEF BeginNamed
  <2>12. ASSUME NamedShown PROVE SnapshotComplete'
    BY <2>12, SnapshotKept DEF NamedShown
  <2>13. ASSUME activateNamedWorkspace PROVE SnapshotComplete'
    BY <2>13, SnapshotKept DEF activateNamedWorkspace, Publish
  <2> QED
    BY <1>2, <2>1, <2>2, <2>3, <2>4, <2>5, <2>6, <2>7, <2>8, <2>9, <2>10, <2>11, <2>12, <2>13
       DEF ProjectAction
<1>3. ASSUME DurableAction PROVE SnapshotComplete'
  <2>1. ASSUME persistNow PROVE SnapshotComplete'
    BY <2>1, CaptureIsComplete, SnapshotKept DEF persistNow
  <2>2. ASSUME scheduleDraftPersist PROVE SnapshotComplete'
    BY <2>2, SnapshotKept DEF scheduleDraftPersist
  <2>3. ASSUME Crash PROVE SnapshotComplete'
    BY <2>3, SnapshotKept DEF Crash, Gone
  <2>4. ASSUME requestAppClose PROVE SnapshotComplete'
    BY <2>4, SnapshotKept DEF requestAppClose, Gone
  <2>5. ASSUME hydrateWorkspaceSessions PROVE SnapshotComplete'
    BY <2>5, SnapshotKept DEF hydrateWorkspaceSessions
  <2>6. ASSUME loadProjects PROVE SnapshotComplete'
    BY <2>6, SnapshotKept DEF loadProjects, Publish
  <2>7. ASSUME LoadFails PROVE SnapshotComplete'
    BY <2>7, SnapshotKept DEF LoadFails, Publish
  <2>8. ASSUME Validated PROVE SnapshotComplete'
    BY <2>8, SnapshotKept DEF Validated, Leave, clearCurrentProjectSession, Publish
  <2>9. ASSUME RecoverDiscard PROVE SnapshotComplete'
    BY <2>9, SnapshotKept DEF RecoverDiscard
  <2>10. ASSUME RecoverRestore PROVE SnapshotComplete'
    BY <2>10, SnapshotKept DEF RecoverRestore
  <2>11. ASSUME RecoverOpen PROVE SnapshotComplete'
    BY <2>11, SnapshotKept DEF RecoverOpen, Publish
  <2>12. ASSUME RecoverFill PROVE SnapshotComplete'
    BY <2>12, SnapshotKept DEF RecoverFill, PublishNew
  <2>13. ASSUME RecoverUnread PROVE SnapshotComplete'
    BY <2>13, SnapshotKept DEF RecoverUnread, PublishNew
  <2> QED
    BY <1>3, <2>1, <2>2, <2>3, <2>4, <2>5, <2>6, <2>7, <2>8, <2>9, <2>10, <2>11, <2>12, <2>13
       DEF DurableAction
<1>4. CASE UNCHANGED workspaceVars
  BY <1>4, SnapshotKept DEF workspaceVars
<1> QED
  BY <1>1, <1>2, <1>3, <1>4 DEF Next

\* When the snapshot's timer is not running the snapshot has every listed
\* project's tabs: the stores' changes all set the timer, and what the timer,
\* the exit and the named workspaces save is the whole (persistNow,
\* captureWorkspaceSessionSnapshot).
THEOREM SnapshotIsComplete == Spec => []SnapshotComplete
<1>1. Init => SnapshotComplete
  BY DEF Init, SnapshotComplete
<1>2. SnapshotComplete /\ [Next]_workspaceVars => SnapshotComplete'
  BY SnapshotCompleteNext
<1> QED
  BY <1>1, <1>2, PTL DEF Spec

-----------------------------------------------------------------------------
(* One handler of the store: nothing moves to another session *)

\* A store of the right type, with its active tabs.
EverySession == [p \in AllProjects |-> Tabs]
Typed(e) == Store(e, Tabs, EverySession)
StoreOK(e) == Typed(e) /\ ActivesOK(e)

\* Wherever the visible tabs and the stashed ones lie in e, there they lie in n,
\* the tabs "new" being visible.
Within(e, n, new) ==
    /\ \A V \in SUBSET Tabs : \A Q \in SUBSET AllProjects : \A H \in [Q -> SUBSET Tabs] :
          Store(e, V, H) => Store(n, V \cup new, H)
    /\ ActivesOK(e) => ActivesOK(n)

LEMMA WithinItself == ASSUME NEW e PROVE Within(e, e, {})
<1>1. \A V : V \cup {} = V
  OBVIOUS
<1> QED
  BY <1>1 DEF Within

LEMMA WithinStore ==
  ASSUME NEW e, NEW n, NEW new, Within(e, n, new),
         NEW V \in SUBSET Tabs, NEW Q \in SUBSET AllProjects, NEW H \in [Q -> SUBSET Tabs],
         Store(e, V, H)
  PROVE  Store(n, V \cup new, H)
BY DEF Within

LEMMA WithinType ==
  ASSUME NEW e, Typed(e), NEW n, NEW new \in SUBSET Tabs, Within(e, n, new)
  PROVE  Typed(n) /\ (ActivesOK(e) => ActivesOK(n))
<1>1. EverySession \in [AllProjects -> SUBSET Tabs] /\ Tabs \in SUBSET Tabs
  BY DEF EverySession
<1>2. Tabs \cup new = Tabs
  OBVIOUS
<1>3. Store(n, Tabs \cup new, EverySession)
  BY <1>1, WithinStore DEF Typed
<1> QED
  BY <1>2, <1>3 DEF Typed, Within

LEMMA AllTabsTyped ==
  ASSUME NEW e, Typed(e)
  PROVE  /\ AllTabs(e) \in SUBSET Tabs /\ DOMAIN e.sessions \in SUBSET AllProjects
         /\ Store(e, AllTabs(e), [p \in DOMAIN e.sessions |-> AllTabs(e)])
<1>1. AllTabs(e) \in SUBSET Tabs
  BY AllTabsIn DEF Typed, EverySession
<1>2. DOMAIN e.sessions \in SUBSET AllProjects
  BY DEF Typed, Store, EverySession
<1>3. Store(e, AllTabs(e), [p \in DOMAIN e.sessions |-> AllTabs(e)])
  BY StoreInItself DEF Typed
<1> QED
  BY <1>1, <1>2, <1>3

\* No tab appears but the new ones, and no session.
LEMMA WithinTabs ==
  ASSUME NEW e, Typed(e), NEW n, NEW new \in SUBSET Tabs, Within(e, n, new)
  PROVE  AllTabs(n) \subseteq AllTabs(e) \cup new /\ DOMAIN n.sessions \subseteq DOMAIN e.sessions
<1> DEFINE A == AllTabs(e)
           Q == DOMAIN e.sessions
           H == [p \in Q |-> A]
           B == A \cup new
<1>1. A \in SUBSET Tabs /\ Q \in SUBSET AllProjects /\ Store(e, A, H)
  BY AllTabsTyped
<1> HIDE DEF A, Q
<1>2. H \in [Q -> SUBSET Tabs] /\ DOMAIN H = Q /\ \A p \in DOMAIN H : H[p] \subseteq B
  BY <1>1
<1> HIDE DEF H
<1>3. Store(n, B, H)
  BY <1>1, <1>2, WithinStore
<1>4. AllTabs(n) \subseteq B
  <2> HIDE DEF B
  <2> QED
    BY <1>2, <1>3, AllTabsIn
<1>5. DOMAIN n.sessions \subseteq Q
  BY <1>2, <1>3 DEF Store
<1> QED
  BY <1>4, <1>5 DEF A, Q

LEMMA WithinThen ==
  ASSUME NEW e, NEW m, NEW n, NEW new, Within(e, m, {}), Within(m, n, new)
  PROVE  Within(e, n, new)
<1>1. ASSUME NEW V \in SUBSET Tabs, NEW Q \in SUBSET AllProjects, NEW H \in [Q -> SUBSET Tabs],
             Store(e, V, H)
      PROVE  Store(n, V \cup new, H)
  <2>1. Store(m, V \cup {}, H)
    BY <1>1, WithinStore
  <2>2. V \cup {} = V
    OBVIOUS
  <2> QED
    BY <2>1, <2>2, WithinStore
<1> QED
  BY <1>1 DEF Within

\* What to show of a handler that adds no tab.
LEMMA WithinBy ==
  ASSUME NEW e, NEW n,
         \A V \in SUBSET Tabs : \A Q \in SUBSET AllProjects : \A H \in [Q -> SUBSET Tabs] :
            Store(e, V, H) => Store(n, V, H),
         ActivesOK(e) => ActivesOK(n)
  PROVE  Within(e, n, {})
<1>1. \A V : V \cup {} = V
  OBVIOUS
<1> QED
  BY <1>1 DEF Within

\* More may be said to be new.
LEMMA WithinMore ==
  ASSUME NEW e, NEW n, NEW new \in SUBSET Tabs, Within(e, n, {})
  PROVE  Within(e, n, new)
<1>1. ASSUME NEW V \in SUBSET Tabs, NEW Q \in SUBSET AllProjects, NEW H \in [Q -> SUBSET Tabs],
             Store(e, V, H)
      PROVE  Store(n, V \cup new, H)
  <2>1. Store(n, V \cup {}, H)
    BY <1>1, WithinStore
  <2>2. V \cup {} = V
    OBVIOUS
  <2>3. n.tabs \in Seq(V) /\ V \subseteq V \cup new
    BY <2>1, <2>2 DEF Store
  <2>4. n.tabs \in Seq(V \cup new)
    BY <2>3, SeqMonotonic
  <2> QED
    BY <2>1, <2>4 DEF Store
<1> QED
  BY <1>1 DEF Within

LEMMA setActiveTabWithin ==
  ASSUME NEW e, Typed(e), NEW id \in Nat, Has(e.tabs, id)
  PROVE  Within(e, setActiveTab(e, id), {})
<1>1. ActivesOK(e) => ActivesOK(setActiveTab(e, id))
  BY setActiveTabIs DEF Typed
<1>2. ASSUME NEW V \in SUBSET Tabs, NEW Q \in SUBSET AllProjects, NEW H \in [Q -> SUBSET Tabs],
             Store(e, V, H)
      PROVE  Store(setActiveTab(e, id), V, H)
  BY <1>2, setActiveTabIs
<1> QED
  BY <1>1, <1>2, WithinBy

LEMMA ShowTabWithin ==
  ASSUME NEW e, Typed(e), NEW id \in Nat, Has(e.tabs, id)
  PROVE  Within(e, ShowTab(e, id), {})
<1>1. ActivesOK(e) => ActivesOK(ShowTab(e, id))
  BY ShowTabIs DEF Typed
<1>2. ASSUME NEW V \in SUBSET Tabs, NEW Q \in SUBSET AllProjects, NEW H \in [Q -> SUBSET Tabs],
             Store(e, V, H)
      PROVE  Store(ShowTab(e, id), V, H)
  BY <1>2, ShowTabIs
<1> QED
  BY <1>1, <1>2, WithinBy

LEMMA AppendTabWithin ==
  ASSUME NEW e, Typed(e), NEW t \in Tabs
  PROVE  Within(e, AppendTab(e, t), {t}) /\ Has(AppendTab(e, t).tabs, t.id)
<1>1. (ActivesOK(e) => ActivesOK(AppendTab(e, t))) /\ Has(AppendTab(e, t).tabs, t.id)
  BY AppendTabIs DEF Typed
<1>2. ASSUME NEW V \in SUBSET Tabs, NEW Q \in SUBSET AllProjects, NEW H \in [Q -> SUBSET Tabs],
             Store(e, V, H)
      PROVE  Store(AppendTab(e, t), V \cup {t}, H)
  <2>1. e.tabs \in Seq(V)
    BY <1>2 DEF Store
  <2>2. ToSet(e.tabs) \subseteq V \cup {t}
    BY <2>1, ToSetIn
  <2>3. \A p \in DOMAIN e.sessions : ToSet(e.sessions[p].tabs) \subseteq H[p]
    <3>1. ASSUME NEW p \in DOMAIN e.sessions PROVE ToSet(e.sessions[p].tabs) \subseteq H[p]
      <4>1. e.sessions[p].tabs \in Seq(H[p])
        BY <1>2 DEF Store, Session
      <4> QED
        BY <4>1, ToSetIn
    <3> QED
      BY <3>1
  <2>4. Store(e, V \cup {t}, H)
    <3>1. DOMAIN e.sessions \subseteq DOMAIN H
      BY <1>2 DEF Store
    <3> QED
      BY <1>2, <2>2, <2>3, <3>1, StoreIn
  <2>5. V \cup {t} \in SUBSET Tabs /\ t \in V \cup {t}
    OBVIOUS
  <2> QED
    BY <2>4, <2>5, AppendTabIs
<1> QED
  BY <1>1, <1>2 DEF Within

LEMMA cycleTabMruWithin ==
  ASSUME NEW e, Typed(e)
  PROVE  Within(e, cycleTabMru(e), {})
<1>1. ActivesOK(e) => ActivesOK(cycleTabMru(e))
  BY cycleTabMruIs DEF Typed
<1>2. ASSUME NEW V \in SUBSET Tabs, NEW Q \in SUBSET AllProjects, NEW H \in [Q -> SUBSET Tabs],
             Store(e, V, H)
      PROVE  Store(cycleTabMru(e), V, H)
  BY <1>2, cycleTabMruIs
<1> QED
  BY <1>1, <1>2, WithinBy

LEMMA reorderTabsWithin ==
  ASSUME NEW e, Typed(e), NEW from \in DOMAIN e.tabs, NEW to \in DOMAIN e.tabs
  PROVE  Within(e, reorderTabs(e, from, to), {})
<1>1. ActivesOK(e) => ActivesOK(reorderTabs(e, from, to))
  BY reorderTabsIs DEF Typed
<1>2. ASSUME NEW V \in SUBSET Tabs, NEW Q \in SUBSET AllProjects, NEW H \in [Q -> SUBSET Tabs],
             Store(e, V, H)
      PROVE  Store(reorderTabs(e, from, to), V, H)
  BY <1>2, reorderTabsIs
<1> QED
  BY <1>1, <1>2, WithinBy

LEMMA closeTabWithin ==
  ASSUME NEW e, Typed(e), NEW id
  PROVE  Within(e, closeTab(e, id), {})
<1>1. ActivesOK(e) => ActivesOK(closeTab(e, id))
  BY closeTabIs DEF Typed, EverySession
<1>2. ASSUME NEW V \in SUBSET Tabs, NEW Q \in SUBSET AllProjects, NEW H \in [Q -> SUBSET Tabs],
             Store(e, V, H)
      PROVE  Store(closeTab(e, id), V, H)
  BY <1>2, closeTabIs
<1> QED
  BY <1>1, <1>2, WithinBy

LEMMA CloseWithin ==
  ASSUME NEW e, Typed(e), NEW id \in Nat, NEW kind \in {"one", "others", "right", "all"}
  PROVE  Within(e, Close(e, kind, id), {})
<1> DEFINE n == Close(e, kind, id)
<1>1. \/ n = closeTab(e, id) \/ n = closeOtherTabs(e, id)
      \/ n = closeTabsToRight(e, id) \/ n = closeAllTabs(e)
  BY DEF Close
<1> HIDE DEF n
<1>2. ActivesOK(e) => ActivesOK(n)
  BY <1>1, closeTabIs, closeOtherTabsIs, closeTabsToRightIs, closeAllTabsIs DEF Typed, EverySession
<1>3. ASSUME NEW V \in SUBSET Tabs, NEW Q \in SUBSET AllProjects, NEW H \in [Q -> SUBSET Tabs],
             Store(e, V, H)
      PROVE  Store(n, V, H)
  BY <1>1, <1>3, closeTabIs, closeOtherTabsIs, closeTabsToRightIs, closeAllTabsIs
<1> QED
  BY <1>2, <1>3, WithinBy DEF n

LEMMA CloseEverywhereWithin ==
  ASSUME NEW e, Typed(e), NEW gone
  PROVE  Within(e, CloseEverywhere(e, gone), {})
<1>1. ActivesOK(e) => ActivesOK(CloseEverywhere(e, gone))
  BY CloseEverywhereIs DEF Typed, EverySession
<1>2. ASSUME NEW V \in SUBSET Tabs, NEW Q \in SUBSET AllProjects, NEW H \in [Q -> SUBSET Tabs],
             Store(e, V, H)
      PROVE  Store(CloseEverywhere(e, gone), V, H)
  BY <1>2, CloseEverywhereIs
<1> QED
  BY <1>1, <1>2, WithinBy

LEMMA ensureOpenTabCapacityWithin ==
  ASSUME NEW e, Typed(e)
  PROVE  Within(e, ensureOpenTabCapacity(e), {})
<1>1. ActivesOK(e) => ActivesOK(ensureOpenTabCapacity(e))
  BY ensureOpenTabCapacityIs DEF Typed, EverySession
<1>2. ASSUME NEW V \in SUBSET Tabs, NEW Q \in SUBSET AllProjects, NEW H \in [Q -> SUBSET Tabs],
             Store(e, V, H)
      PROVE  Store(ensureOpenTabCapacity(e), V, H)
  BY <1>2, ensureOpenTabCapacityIs
<1> QED
  BY <1>1, <1>2, WithinBy

LEMMA discardWithin ==
  ASSUME NEW e, Typed(e), NEW p
  PROVE  Within(e, discardProjectSession(e, p), {})
<1>1. ActivesOK(e) => ActivesOK(discardProjectSession(e, p))
  BY discardIs DEF Typed
<1>2. ASSUME NEW V \in SUBSET Tabs, NEW Q \in SUBSET AllProjects, NEW H \in [Q -> SUBSET Tabs],
             Store(e, V, H)
      PROVE  Store(discardProjectSession(e, p), V, H)
  BY <1>2, discardIs
<1> QED
  BY <1>1, <1>2, WithinBy

LEMMA pruneWithin ==
  ASSUME NEW e, Typed(e), NEW known
  PROVE  Within(e, pruneWorkspaceSessions(e, known), {})
<1>1. ActivesOK(e) => ActivesOK(pruneWorkspaceSessions(e, known))
  BY pruneIs DEF Typed
<1>2. ASSUME NEW V \in SUBSET Tabs, NEW Q \in SUBSET AllProjects, NEW H \in [Q -> SUBSET Tabs],
             Store(e, V, H)
      PROVE  Store(pruneWorkspaceSessions(e, known), V, H)
  BY <1>2, pruneIs
<1> QED
  BY <1>1, <1>2, WithinBy

LEMMA NoEditorWithin == ASSUME NEW e PROVE Within(e, NoEditor, {})
BY NoEditorIs, WithinBy

\* openFile: a tab that is there, no room, or one more tab, clean and with the
\* next number.
LEMMA openFileWithin ==
  ASSUME NEW e, Typed(e), NEW path \in Paths, lastId \in Nat, lastId + 1 \in 1 .. MaxIds
  PROVE  \/ Within(e, openFile(e, path), {})
         \/ LET t == Tab(lastId + 1, path, FALSE, Clean)
            IN Within(e, openFile(e, path), {t}) /\ Has(openFile(e, path).tabs, lastId + 1)
<1> DEFINE R == Regular(e, path)
           r == ensureOpenTabCapacity(e)
           t == Tab(lastId + 1, path, FALSE, Clean)
<1>1. CASE R # {}
  <2> DEFINE i == CHOOSE i \in R : \A j \in R : i <= j
             id == e.tabs[i].id
  <2>1. e.tabs \in Seq(Tabs) /\ DOMAIN e.tabs = 1 .. Len(e.tabs)
    BY LenProperties DEF Typed, Store
  <2>2. R \in SUBSET Nat
    BY <2>1 DEF Regular
  <2>3. i \in R
    <3> HIDE DEF R
    <3> QED
      BY <1>1, <2>2, Least
  <2>4. i \in DOMAIN e.tabs
    BY <2>3 DEF Regular
  <2> HIDE DEF i
  <2>5. id \in Nat /\ Has(e.tabs, id)
    BY <2>1, <2>4, ToSetIn, TabsType DEF Has
  <2>6. openFile(e, path) = ShowTab(e, id)
    BY <1>1 DEF openFile, i
  <2> HIDE DEF id
  <2> QED
    BY <2>5, <2>6, ShowTabWithin
<1>2. CASE R = {}
  <2>1. Within(e, r, {})
    BY ensureOpenTabCapacityWithin
  <2>2. openFile(e, path) = IF HasRoom(r) THEN AppendTab(r, t) ELSE r
    BY <1>2 DEF openFile
  <2> HIDE DEF r
  <2>3. Typed(r)
    BY <2>1, WithinType
  <2>4. t \in Tabs /\ t.id = lastId + 1
    BY TabsType DEF Tab, Tabs, Clean
  <2> HIDE DEF t
  <2>5. Within(r, AppendTab(r, t), {t}) /\ Has(AppendTab(r, t).tabs, t.id)
    BY <2>3, <2>4, AppendTabWithin
  <2>6. Within(e, AppendTab(r, t), {t})
    BY <2>1, <2>5, WithinThen
  <2> QED
    BY <2>1, <2>2, <2>4, <2>5, <2>6 DEF t
<1> QED
  BY <1>1, <1>2

-----------------------------------------------------------------------------
(* One handler that changes tabs in their places *)

\* C pairs a tab with what may become of it.
ListChanged(a, b, C) ==
    /\ DOMAIN b = DOMAIN a /\ b = [i \in DOMAIN a |-> b[i]]
    /\ \A i \in DOMAIN a : <<a[i], b[i]>> \in C

Changed(e, n, C) ==
    /\ DOMAIN n = DOMAIN e /\ n.active = e.active /\ n.mru = e.mru
    /\ ListChanged(e.tabs, n.tabs, C)
    /\ DOMAIN n.sessions = DOMAIN e.sessions
    /\ \A p \in DOMAIN e.sessions :
         /\ n.sessions[p] = [tabs |-> n.sessions[p].tabs, active |-> e.sessions[p].active]
         /\ ListChanged(e.sessions[p].tabs, n.sessions[p].tabs, C)

\* Nothing, or one thing, becomes of a tab; it keeps its number.
Becomes(C) == C \subseteq Tabs \X Tabs /\ \A t \in Tabs : <<t, t>> \in C
SameId(C) == \A c \in C : c[2].id = c[1].id

LEMMA ListKept ==
  ASSUME NEW T \in SUBSET Tabs, NEW a \in Seq(T), NEW C, Becomes(C)
  PROVE  ListChanged(a, a, C)
<1>1. Len(a) \in Nat /\ DOMAIN a = 1 .. Len(a) /\ a = [i \in 1 .. Len(a) |-> a[i]]
  BY LenProperties
<1>2. \A i \in DOMAIN a : a[i] \in Tabs
  BY ToSetIn
<1> QED
  BY <1>1, <1>2 DEF ListChanged, Becomes

LEMMA SeqChanged ==
  ASSUME NEW S, NEW a \in Seq(S), NEW b, NEW C, ListChanged(a, b, C), SameId(C),
         NEW W, \A c \in C : c[1] \in S => c[2] \in W
  PROVE  b \in Seq(W) /\ \A id : Has(a, id) => Has(b, id)
<1>1. Len(a) \in Nat /\ DOMAIN a = 1 .. Len(a)
  BY LenProperties
<1>2. DOMAIN b = DOMAIN a /\ b = [i \in DOMAIN a |-> b[i]]
  BY DEF ListChanged
<1>3. ASSUME NEW i \in DOMAIN a PROVE b[i] \in W /\ b[i].id = a[i].id
  <2>1. a[i] \in S
    BY ToSetIn
  <2>2. <<a[i], b[i]>> \in C
    BY DEF ListChanged
  <2>3. <<a[i], b[i]>>[1] = a[i] /\ <<a[i], b[i]>>[2] = b[i]
    OBVIOUS
  <2> QED
    BY <2>1, <2>2, <2>3 DEF SameId
<1>4. b \in Seq(W)
  BY <1>1, <1>2, <1>3, SeqByIndex
<1>5. \A id : Has(a, id) => Has(b, id)
  BY <1>2, <1>3 DEF Has
<1> QED
  BY <1>4, <1>5

LEMMA ChangedStore ==
  ASSUME NEW V, NEW H, NEW e, Store(e, V, H), NEW n, NEW C, Changed(e, n, C), SameId(C),
         NEW W, \A c \in C : c[1] \in V => c[2] \in W,
         NEW J, DOMAIN H \subseteq DOMAIN J,
         \A p \in DOMAIN H : \A c \in C : c[1] \in H[p] => c[2] \in J[p]
  PROVE  /\ Store(n, W, J)
         /\ ActivesOK(e) => ActivesOK(n)
<1>1. n.tabs \in Seq(W) /\ \A id : Has(e.tabs, id) => Has(n.tabs, id)
  <2> DEFINE a == e.tabs
             b == n.tabs
  <2>1. a \in Seq(V) /\ ListChanged(a, b, C)
    BY DEF Store, Changed
  <2> HIDE DEF a, b
  <2>2. b \in Seq(W) /\ \A id : Has(a, id) => Has(b, id)
    BY <2>1, SeqChanged
  <2> QED
    BY <2>2 DEF a, b
<1>2. ASSUME NEW p \in DOMAIN e.sessions
      PROVE  n.sessions[p] \in Session(J[p]) /\ (ActiveOK(e.sessions[p]) => ActiveOK(n.sessions[p]))
  <2> DEFINE a == e.sessions[p].tabs
             b == n.sessions[p].tabs
  <2>1. p \in DOMAIN H /\ a \in Seq(H[p]) /\ e.sessions[p].active \in Nat
    BY DEF Store, Session
  <2>2. ListChanged(a, b, C) /\ n.sessions[p] = [tabs |-> b, active |-> e.sessions[p].active]
    BY DEF Changed
  <2> HIDE DEF a, b
  <2>3. b \in Seq(J[p]) /\ \A id : Has(a, id) => Has(b, id)
    BY <2>1, <2>2, SeqChanged
  <2>4. n.sessions[p] \in Session(J[p])
    BY <2>1, <2>2, <2>3 DEF Session
  <2>5. ActiveOK(e.sessions[p]) => ActiveOK(n.sessions[p])
    BY <2>2, <2>3 DEF ActiveOK, a, b
  <2> QED
    BY <2>4, <2>5
<1>3. /\ DOMAIN n = DOMAIN e /\ n.active = e.active /\ n.mru = e.mru
      /\ DOMAIN n.sessions = DOMAIN e.sessions
  BY DEF Changed
<1>4. Store(n, W, J)
  BY <1>1, <1>2, <1>3 DEF Store
<1>5. ASSUME ActivesOK(e) PROVE ActivesOK(n)
  BY <1>1, <1>2, <1>3, <1>5 DEF ActivesOK, ActiveOK
<1> QED
  BY <1>4, <1>5

LEMMA ChangedType ==
  ASSUME NEW e, Typed(e), NEW n, NEW C, Becomes(C), SameId(C), Changed(e, n, C)
  PROVE  Typed(n) /\ (ActivesOK(e) => ActivesOK(n))
<1>1. \A c \in C : c[2] \in Tabs
  BY DEF Becomes
<1>2. \A p \in DOMAIN EverySession : EverySession[p] = Tabs
  BY DEF EverySession
<1> QED
  BY <1>1, <1>2, ChangedStore DEF Typed

\* Every tab after it was one before.
LEMMA ChangedTabs ==
  ASSUME NEW e, NEW n, NEW C, Changed(e, n, C), NEW u \in AllTabs(n)
  PROVE  \E t \in AllTabs(e) : <<t, u>> \in C
<1>1. CASE u \in ToSet(n.tabs)
  BY <1>1 DEF Changed, ListChanged, ToSet, AllTabs
<1>2. ASSUME NEW p \in DOMAIN n.sessions, u \in ToSet(n.sessions[p].tabs)
      PROVE  \E t \in AllTabs(e) : <<t, u>> \in C
  <2>1. PICK i \in DOMAIN n.sessions[p].tabs : u = n.sessions[p].tabs[i]
    BY <1>2 DEF ToSet
  <2>2. p \in DOMAIN e.sessions /\ ListChanged(e.sessions[p].tabs, n.sessions[p].tabs, C)
    BY DEF Changed
  <2>3. i \in DOMAIN e.sessions[p].tabs /\ <<e.sessions[p].tabs[i], u>> \in C
    BY <2>1, <2>2 DEF ListChanged
  <2>4. e.sessions[p].tabs[i] \in ToSet(e.sessions[p].tabs)
    BY <2>3 DEF ToSet
  <2>5. e.sessions[p].tabs[i] \in AllTabs(e)
    BY <2>2, <2>4 DEF AllTabs
  <2> QED
    BY <2>3, <2>5
<1> QED
  BY <1>1, <1>2 DEF AllTabs

\* What mapTabEverywhere does to the lists it meets.
LEMMA VisibleChanged ==
  ASSUME NEW e, Typed(e), NEW C, Becomes(C), NEW ts, ListChanged(e.tabs, ts, C)
  PROVE  Changed(e, [e EXCEPT !.tabs = ts], C)
<1> DEFINE n == [e EXCEPT !.tabs = ts]
<1>1. /\ n.tabs = ts /\ n.active = e.active /\ n.mru = e.mru /\ n.sessions = e.sessions
      /\ DOMAIN n = DOMAIN e
  BY DEF Typed, Store
<1> HIDE DEF n
<1>2. ASSUME NEW p \in DOMAIN e.sessions
      PROVE  /\ e.sessions[p] = [tabs |-> e.sessions[p].tabs, active |-> e.sessions[p].active]
             /\ ListChanged(e.sessions[p].tabs, e.sessions[p].tabs, C)
  <2>1. e.sessions[p] \in [tabs : Seq(Tabs), active : Nat]
    BY DEF Typed, Store, Session, EverySession
  <2> QED
    BY <2>1, ListKept
<1> QED
  BY <1>1, <1>2 DEF Changed, n

LEMMA StashChanged ==
  ASSUME NEW e, Typed(e), NEW C, Becomes(C), NEW ss, DOMAIN ss = DOMAIN e.sessions,
         \A p \in DOMAIN e.sessions :
            \/ ss[p] = e.sessions[p]
            \/ /\ ss[p] = [tabs |-> ss[p].tabs, active |-> e.sessions[p].active]
               /\ ListChanged(e.sessions[p].tabs, ss[p].tabs, C)
  PROVE  Changed(e, [e EXCEPT !.sessions = ss], C)
<1> DEFINE n == [e EXCEPT !.sessions = ss]
<1>1. /\ n.tabs = e.tabs /\ n.active = e.active /\ n.mru = e.mru /\ n.sessions = ss
      /\ DOMAIN n = DOMAIN e
  BY DEF Typed, Store
<1> HIDE DEF n
<1>2. ASSUME NEW p \in DOMAIN e.sessions
      PROVE  /\ ss[p] = [tabs |-> ss[p].tabs, active |-> e.sessions[p].active]
             /\ ListChanged(e.sessions[p].tabs, ss[p].tabs, C)
  <2>1. e.sessions[p] \in [tabs : Seq(Tabs), active : Nat]
    BY DEF Typed, Store, Session, EverySession
  <2>2. ListChanged(e.sessions[p].tabs, e.sessions[p].tabs, C)
    BY <2>1, ListKept
  <2> QED
    BY <2>1, <2>2
<1>3. ListChanged(e.tabs, e.tabs, C)
  BY ListKept DEF Typed, Store
<1> QED
  BY <1>1, <1>2, <1>3 DEF Changed, n

\* Typing and saving: the text of the tab with that number.
TextSet(id, edits) ==
    {c \in Tabs \X Tabs : \/ c[2] = c[1]
                          \/ c[1].id = id /\ c[2] = [c[1] EXCEPT !.edits = edits]}

LEMMA TextSetIs ==
  ASSUME NEW id, NEW edits \in 0 .. MaxEdits
  PROVE  /\ Becomes(TextSet(id, edits)) /\ SameId(TextSet(id, edits))
         /\ \A t \in Tabs : t.id = id => <<t, [t EXCEPT !.edits = edits]>> \in TextSet(id, edits)
BY DEF Becomes, SameId, TextSet, Tabs

LEMMA SetTextIs ==
  ASSUME NEW e, Typed(e), NEW id, NEW edits \in 0 .. MaxEdits
  PROVE  Changed(e, SetText(e, id, edits), TextSet(id, edits))
<1> DEFINE C == TextSet(id, edits)
           Map(ts) == [i \in DOMAIN ts |-> IF ts[i].id = id THEN [ts[i] EXCEPT !.edits = edits]
                                           ELSE ts[i]]
<1>1. Becomes(C) /\ \A t \in Tabs : t.id = id => <<t, [t EXCEPT !.edits = edits]>> \in C
  BY TextSetIs
<1> SUFFICES Changed(e, SetText(e, id, edits), C)
  OBVIOUS
<1> HIDE DEF C
<1>2. ASSUME NEW a \in Seq(Tabs) PROVE ListChanged(a, Map(a), C)
  <2>1. ASSUME NEW i \in DOMAIN a PROVE <<a[i], Map(a)[i]>> \in C
    <3>1. a[i] \in Tabs
      BY ToSetIn
    <3> QED
      BY <1>1, <3>1 DEF Becomes
  <2>2. DOMAIN Map(a) = DOMAIN a /\ Map(a) = [i \in DOMAIN a |-> Map(a)[i]]
    OBVIOUS
  <2> HIDE DEF Map
  <2> QED
    BY <2>1, <2>2 DEF ListChanged
<1>3. CASE Has(e.tabs, id)
  <2>1. SetText(e, id, edits) = [e EXCEPT !.tabs = Map(e.tabs)]
    BY <1>3 DEF SetText, mapTabEverywhere, MapTabs
  <2> HIDE DEF Map
  <2>2. ListChanged(e.tabs, Map(e.tabs), C)
    BY <1>2 DEF Typed, Store
  <2>3. PICK ts : ts = Map(e.tabs)
    OBVIOUS
  <2>4. Changed(e, [e EXCEPT !.tabs = ts], C)
    BY <1>1, <2>2, <2>3, VisibleChanged
  <2> QED
    BY <2>1, <2>3, <2>4
<1>4. CASE ~Has(e.tabs, id)
  <2> DEFINE ss == [p \in DOMAIN e.sessions |->
                      IF Holds(e, p, id)
                      THEN [tabs |-> Map(e.sessions[p].tabs), active |-> e.sessions[p].active]
                      ELSE e.sessions[p]]
  <2>1. SetText(e, id, edits) = [e EXCEPT !.sessions = ss]
    BY <1>4 DEF SetText, mapTabEverywhere, MapTabs, Typed, Store
  <2> HIDE DEF Map
  <2>2. ASSUME NEW p \in DOMAIN e.sessions
        PROVE  \/ ss[p] = e.sessions[p]
               \/ /\ ss[p] = [tabs |-> ss[p].tabs, active |-> e.sessions[p].active]
                  /\ ListChanged(e.sessions[p].tabs, ss[p].tabs, C)
    <3>1. e.sessions[p] \in [tabs : Seq(Tabs), active : Nat]
      BY DEF Typed, Store, Session, EverySession
    <3>2. ListChanged(e.sessions[p].tabs, Map(e.sessions[p].tabs), C)
      BY <1>2, <3>1
    <3> QED
      BY <3>1, <3>2
  <2>3. DOMAIN ss = DOMAIN e.sessions
    OBVIOUS
  <2> HIDE DEF ss
  <2>4. Changed(e, [e EXCEPT !.sessions = ss], C)
    BY <1>1, <2>2, <2>3, StashChanged
  <2> QED
    BY <2>1, <2>4
<1> QED
  BY <1>3, <1>4

\* A tab that is visible is typed into there.
LEMMA SetTextVisible ==
  ASSUME NEW e, Typed(e), NEW i \in DOMAIN e.tabs, NEW edits \in 0 .. MaxEdits, edits # Clean
  PROVE  Dirty(ToSet(SetText(e, e.tabs[i].id, edits).tabs)) # {}
<1> DEFINE id == e.tabs[i].id
           ts == [j \in DOMAIN e.tabs |->
                    IF e.tabs[j].id = id THEN [e.tabs[j] EXCEPT !.edits = edits]
                                          ELSE e.tabs[j]]
<1>1. Has(e.tabs, id)
  BY DEF Has
<1>2. SetText(e, id, edits).tabs = ts
  BY <1>1 DEF SetText, mapTabEverywhere, MapTabs, Typed, Store
<1>3. e.tabs[i] \in Tabs
  BY ToSetIn DEF Typed, Store
<1>4. i \in DOMAIN ts /\ ts[i].edits = edits
  BY <1>3 DEF Tabs
<1> QED
  BY <1>2, <1>4 DEF Dirty, ToSet

\* Saving under another name.
NameSet(id, path) ==
    {c \in Tabs \X Tabs : \/ c[2] = c[1]
                          \/ c[1].id = id /\ c[2] = [c[1] EXCEPT !.path = path, !.edits = Clean]}

LEMMA NameSetIs ==
  ASSUME NEW id, NEW path \in Paths
  PROVE  /\ Becomes(NameSet(id, path)) /\ SameId(NameSet(id, path))
         /\ \A t \in Tabs : t.id = id =>
               <<t, [t EXCEPT !.path = path, !.edits = Clean]>> \in NameSet(id, path)
<1>1. Clean \in 0 .. MaxEdits
  BY TabsType DEF Clean
<1>2. \A t \in Tabs : [t EXCEPT !.path = path, !.edits = Clean] \in Tabs
  BY <1>1 DEF Tabs
<1>3. \A t \in Tabs : [t EXCEPT !.path = path, !.edits = Clean].id = t.id
  BY DEF Tabs
<1> QED
  BY <1>2, <1>3 DEF Becomes, SameId, NameSet

LEMMA SavedUnderIs ==
  ASSUME NEW e, Typed(e), NEW id, NEW path \in Paths
  PROVE  Changed(e, SavedUnder(e, id, path), NameSet(id, path))
<1> DEFINE C == NameSet(id, path)
           Map(ts) == [i \in DOMAIN ts |->
                         IF ts[i].id = id THEN [ts[i] EXCEPT !.path = path, !.edits = Clean]
                         ELSE ts[i]]
<1>1. /\ Becomes(C)
      /\ \A t \in Tabs : t.id = id => <<t, [t EXCEPT !.path = path, !.edits = Clean]>> \in C
  BY NameSetIs
<1> SUFFICES Changed(e, SavedUnder(e, id, path), C)
  OBVIOUS
<1> HIDE DEF C
<1>2. ASSUME NEW a \in Seq(Tabs) PROVE ListChanged(a, Map(a), C)
  <2>1. ASSUME NEW i \in DOMAIN a PROVE <<a[i], Map(a)[i]>> \in C
    <3>1. a[i] \in Tabs
      BY ToSetIn
    <3> QED
      BY <1>1, <3>1 DEF Becomes
  <2>2. DOMAIN Map(a) = DOMAIN a /\ Map(a) = [i \in DOMAIN a |-> Map(a)[i]]
    OBVIOUS
  <2> HIDE DEF Map
  <2> QED
    BY <2>1, <2>2 DEF ListChanged
<1>3. CASE Has(e.tabs, id)
  <2>1. SavedUnder(e, id, path) = [e EXCEPT !.tabs = Map(e.tabs)]
    BY <1>3 DEF SavedUnder, mapTabEverywhere, MapTabs
  <2> HIDE DEF Map
  <2>2. ListChanged(e.tabs, Map(e.tabs), C)
    BY <1>2 DEF Typed, Store
  <2>3. PICK ts : ts = Map(e.tabs)
    OBVIOUS
  <2>4. Changed(e, [e EXCEPT !.tabs = ts], C)
    BY <1>1, <2>2, <2>3, VisibleChanged
  <2> QED
    BY <2>1, <2>3, <2>4
<1>4. CASE ~Has(e.tabs, id)
  <2> DEFINE ss == [p \in DOMAIN e.sessions |->
                      IF Holds(e, p, id)
                      THEN [tabs |-> Map(e.sessions[p].tabs), active |-> e.sessions[p].active]
                      ELSE e.sessions[p]]
  <2>1. SavedUnder(e, id, path) = [e EXCEPT !.sessions = ss]
    BY <1>4 DEF SavedUnder, mapTabEverywhere, MapTabs, Typed, Store
  <2> HIDE DEF Map
  <2>2. ASSUME NEW p \in DOMAIN e.sessions
        PROVE  \/ ss[p] = e.sessions[p]
               \/ /\ ss[p] = [tabs |-> ss[p].tabs, active |-> e.sessions[p].active]
                  /\ ListChanged(e.sessions[p].tabs, ss[p].tabs, C)
    <3>1. e.sessions[p] \in [tabs : Seq(Tabs), active : Nat]
      BY DEF Typed, Store, Session, EverySession
    <3>2. ListChanged(e.sessions[p].tabs, Map(e.sessions[p].tabs), C)
      BY <1>2, <3>1
    <3> QED
      BY <3>1, <3>2
  <2>3. DOMAIN ss = DOMAIN e.sessions
    OBVIOUS
  <2> HIDE DEF ss
  <2>4. Changed(e, [e EXCEPT !.sessions = ss], C)
    BY <1>1, <2>2, <2>3, StashChanged
  <2> QED
    BY <2>1, <2>4
<1> QED
  BY <1>3, <1>4

\* Every tab, in every session.
LEMMA EachTabIs ==
  ASSUME NEW e, Typed(e), NEW C, NEW ts, NEW ss,
         ListChanged(e.tabs, ts, C), DOMAIN ss = DOMAIN e.sessions,
         \A p \in DOMAIN e.sessions :
            /\ ss[p] = [tabs |-> ss[p].tabs, active |-> e.sessions[p].active]
            /\ ListChanged(e.sessions[p].tabs, ss[p].tabs, C)
  PROVE  Changed(e, [e EXCEPT !.tabs = ts, !.sessions = ss], C)
<1> DEFINE n == [e EXCEPT !.tabs = ts, !.sessions = ss]
<1>1. /\ n.tabs = ts /\ n.active = e.active /\ n.mru = e.mru /\ n.sessions = ss
      /\ DOMAIN n = DOMAIN e
  BY DEF Typed, Store
<1> HIDE DEF n
<1> QED
  BY <1>1 DEF Changed, n

\* Renaming a file.
PathSet(from, to) ==
    {c \in Tabs \X Tabs : \/ c[2] = c[1]
                          \/ c[1].path = from /\ c[2] = [c[1] EXCEPT !.path = to]}

LEMMA PathSetIs ==
  ASSUME NEW from, NEW to \in Paths
  PROVE  /\ Becomes(PathSet(from, to)) /\ SameId(PathSet(from, to))
         /\ \A t \in Tabs : t.path = from => <<t, [t EXCEPT !.path = to]>> \in PathSet(from, to)
BY DEF Becomes, SameId, PathSet, Tabs

LEMMA RenameTabsIs ==
  ASSUME NEW e, Typed(e), NEW from, NEW to \in Paths
  PROVE  Changed(e, RenameTabs(e, from, to), PathSet(from, to))
<1> DEFINE C == PathSet(from, to)
           Map(ts) == [i \in DOMAIN ts |-> IF ts[i].path = from THEN [ts[i] EXCEPT !.path = to]
                                           ELSE ts[i]]
           ss == [p \in DOMAIN e.sessions |-> [tabs |-> Map(e.sessions[p].tabs),
                                                active |-> e.sessions[p].active]]
<1>1. Becomes(C) /\ \A t \in Tabs : t.path = from => <<t, [t EXCEPT !.path = to]>> \in C
  BY PathSetIs
<1> SUFFICES Changed(e, RenameTabs(e, from, to), C)
  OBVIOUS
<1> HIDE DEF C
<1>2. ASSUME NEW a \in Seq(Tabs) PROVE ListChanged(a, Map(a), C)
  <2>1. ASSUME NEW i \in DOMAIN a PROVE <<a[i], Map(a)[i]>> \in C
    <3>1. a[i] \in Tabs
      BY ToSetIn
    <3> QED
      BY <1>1, <3>1 DEF Becomes
  <2>2. DOMAIN Map(a) = DOMAIN a /\ Map(a) = [i \in DOMAIN a |-> Map(a)[i]]
    OBVIOUS
  <2> HIDE DEF Map
  <2> QED
    BY <2>1, <2>2 DEF ListChanged
<1>3. RenameTabs(e, from, to) = [e EXCEPT !.tabs = Map(e.tabs), !.sessions = ss]
  BY DEF RenameTabs, EachTab, Typed, Store
<1> HIDE DEF Map
<1>4. ListChanged(e.tabs, Map(e.tabs), C)
  BY <1>2 DEF Typed, Store
<1>5. ASSUME NEW p \in DOMAIN e.sessions
      PROVE  /\ ss[p] = [tabs |-> ss[p].tabs, active |-> e.sessions[p].active]
             /\ ListChanged(e.sessions[p].tabs, ss[p].tabs, C)
  <2>1. e.sessions[p] \in [tabs : Seq(Tabs), active : Nat]
    BY DEF Typed, Store, Session, EverySession
  <2>2. ListChanged(e.sessions[p].tabs, Map(e.sessions[p].tabs), C)
    BY <1>2, <2>1
  <2> QED
    BY <2>1, <2>2
<1>6. DOMAIN ss = DOMAIN e.sessions
  OBVIOUS
<1> HIDE DEF ss
<1>8. PICK ts : ts = Map(e.tabs)
  OBVIOUS
<1>9. Changed(e, [e EXCEPT !.tabs = ts, !.sessions = ss], C)
  BY <1>4, <1>5, <1>6, <1>8, EachTabIs
<1> QED
  BY <1>3, <1>8, <1>9

\* Saving some of the tabs.
CleanSet(saved) ==
    {c \in Tabs \X Tabs : \/ c[2] = c[1] /\ c[1] \notin saved
                          \/ c[1] \in saved /\ c[2] = [c[1] EXCEPT !.edits = Clean]}

LEMMA CleanTabsIs ==
  ASSUME NEW e, Typed(e), NEW saved
  PROVE  Changed(e, CleanTabs(e, saved), CleanSet(saved)) /\ SameId(CleanSet(saved))
<1> DEFINE C == CleanSet(saved)
           Map(ts) == [i \in DOMAIN ts |-> IF ts[i] \in saved THEN [ts[i] EXCEPT !.edits = Clean]
                                           ELSE ts[i]]
           ss == [p \in DOMAIN e.sessions |-> [tabs |-> Map(e.sessions[p].tabs),
                                                active |-> e.sessions[p].active]]
<1>0. Clean \in 0 .. MaxEdits
  BY TabsType DEF Clean
<1>1. /\ \A t \in Tabs : t \in saved => <<t, [t EXCEPT !.edits = Clean]>> \in C
      /\ \A t \in Tabs : t \notin saved => <<t, t>> \in C
  <2>1. \A t \in Tabs : [t EXCEPT !.edits = Clean] \in Tabs
    BY <1>0 DEF Tabs
  <2> QED
    BY <2>1 DEF CleanSet
<1>7. SameId(C)
  BY DEF SameId, CleanSet, Tabs
<1> SUFFICES Changed(e, CleanTabs(e, saved), C)
  BY <1>7
<1> HIDE DEF C
<1>2. ASSUME NEW a \in Seq(Tabs) PROVE ListChanged(a, Map(a), C)
  <2>1. ASSUME NEW i \in DOMAIN a PROVE <<a[i], Map(a)[i]>> \in C
    <3>1. a[i] \in Tabs
      BY ToSetIn
    <3> QED
      BY <1>1, <3>1
  <2>2. DOMAIN Map(a) = DOMAIN a /\ Map(a) = [i \in DOMAIN a |-> Map(a)[i]]
    OBVIOUS
  <2> HIDE DEF Map
  <2> QED
    BY <2>1, <2>2 DEF ListChanged
<1>3. CleanTabs(e, saved) = [e EXCEPT !.tabs = Map(e.tabs), !.sessions = ss]
  BY DEF CleanTabs, EachTab, Typed, Store
<1> HIDE DEF Map
<1>4. ListChanged(e.tabs, Map(e.tabs), C)
  BY <1>2 DEF Typed, Store
<1>5. ASSUME NEW p \in DOMAIN e.sessions
      PROVE  /\ ss[p] = [tabs |-> ss[p].tabs, active |-> e.sessions[p].active]
             /\ ListChanged(e.sessions[p].tabs, ss[p].tabs, C)
  <2>1. e.sessions[p] \in [tabs : Seq(Tabs), active : Nat]
    BY DEF Typed, Store, Session, EverySession
  <2>2. ListChanged(e.sessions[p].tabs, Map(e.sessions[p].tabs), C)
    BY <1>2, <2>1
  <2> QED
    BY <2>1, <2>2
<1>6. DOMAIN ss = DOMAIN e.sessions
  OBVIOUS
<1> HIDE DEF ss
<1>8. PICK ts : ts = Map(e.tabs)
  OBVIOUS
<1>9. Changed(e, [e EXCEPT !.tabs = ts, !.sessions = ss], C)
  BY <1>4, <1>5, <1>6, <1>8, EachTabIs
<1> QED
  BY <1>3, <1>8, <1>9

-----------------------------------------------------------------------------
(* What is saved, and read again *)

SavedTabs == [id : 1 .. MaxIds, path : Paths, dirty : BOOLEAN]
SavedOf(T) == {[id |-> t.id, path |-> t.path, dirty |-> t.edits # Clean] : t \in T}

\* Saved sessions of the projects, the tabs of p in K[p].
SavedStore(ss, K) == DOMAIN ss \subseteq DOMAIN K /\ \A p \in DOMAIN ss : ss[p] \in Session(K[p])

LEMMA SavedIs ==
  ASSUME NEW T \in SUBSET Tabs, NEW ts \in Seq(T)
  PROVE  Saved(ts) \in Seq(SavedOf(T)) /\ SavedOf(T) \subseteq SavedTabs
<1>1. Len(ts) \in Nat /\ DOMAIN ts = 1 .. Len(ts) /\ \A i \in DOMAIN ts : ts[i] \in T
  BY LenProperties, ToSetIn
<1>2. DOMAIN Saved(ts) = 1 .. Len(ts) /\ Saved(ts) = [i \in 1 .. Len(ts) |-> Saved(ts)[i]]
  BY <1>1 DEF Saved
<1>3. \A i \in 1 .. Len(ts) : Saved(ts)[i] \in SavedOf(T)
  BY <1>1 DEF Saved, SavedOf
<1>4. SavedOf(T) \subseteq SavedTabs
  <2>1. ASSUME NEW t \in T
        PROVE  [id |-> t.id, path |-> t.path, dirty |-> t.edits # Clean] \in SavedTabs
    <3>1. t.id \in 1 .. MaxIds /\ t.path \in Paths
      BY DEF Tabs
    <3>2. (t.edits # Clean) \in BOOLEAN
      OBVIOUS
    <3> QED
      BY <3>1, <3>2 DEF SavedTabs
  <2> QED
    BY <2>1 DEF SavedOf
<1> QED
  BY <1>1, <1>2, <1>3, <1>4, SeqByIndex

\* The session of each project: of the current one, the visible tabs.
LEMMA SessionsIs ==
  ASSUME NEW V \in SUBSET Tabs, NEW H \in [AllProjects -> SUBSET Tabs], NEW e, Store(e, V, H),
         \A t \in V : ~IsPinned(t) /\ current \in AllProjects => t \in H[current],
         NEW p \in AllProjects
  PROVE  Sessions(e, p) \in Session(H[p])
<1>1. CASE p = current
  BY <1>1, StashedIs DEF Sessions
<1>2. CASE p # current /\ p \in DOMAIN e.sessions
  BY <1>2 DEF Sessions, Store
<1>3. CASE p # current /\ p \notin DOMAIN e.sessions
  BY <1>3, NoneStashed DEF Sessions
<1> QED
  BY <1>1, <1>2, <1>3

LEMMA CaptureIs ==
  ASSUME NEW V \in SUBSET Tabs, NEW H \in [AllProjects -> SUBSET Tabs], NEW e, Store(e, V, H),
         \A t \in V : ~IsPinned(t) /\ current \in AllProjects => t \in H[current],
         NEW K \in [Projects -> SUBSET SavedTabs], \A p \in Projects : SavedOf(H[p]) \subseteq K[p],
         NEW among
  PROVE  /\ SavedStore(captureWorkspaceSessionSnapshot(e, among).projects, K)
         /\ captureWorkspaceSessionSnapshot(e, among).pinned \in Seq(SavedTabs)
<1> DEFINE full == {p \in among \cap projects \cap Projects : Sessions(e, p).tabs # <<>>}
           c == captureWorkspaceSessionSnapshot(e, among)
<1>1. /\ c.projects = [p \in full |-> SavedSession(Sessions(e, p))]
      /\ c.pinned = Saved(pinned(e.tabs))
  BY DEF captureWorkspaceSessionSnapshot
<1>2. full \in SUBSET Projects
  OBVIOUS
<1> HIDE DEF full, c
<1>3. ASSUME NEW p \in full PROVE SavedSession(Sessions(e, p)) \in Session(K[p])
  <2>0. p \in Projects /\ p \in AllProjects
    BY <1>2 DEF AllProjects
  <2> DEFINE s == Sessions(e, p)
             ts == projectTabs(s.tabs)
             T == H[p]
  <2>1. s \in Session(T)
    BY <2>0, SessionsIs
  <2>2. T \in SUBSET Tabs /\ SavedOf(T) \subseteq K[p]
    BY <2>0
  <2> HIDE DEF s, T
  <2>3. s.tabs \in Seq(T) /\ s.active \in Nat
    BY <2>1 DEF Session
  <2>4. ts \in Seq({t \in T : ~IsPinned(t)})
    BY <2>3, SplitIs
  <2>5. {t \in T : ~IsPinned(t)} \subseteq T
    OBVIOUS
  <2> HIDE DEF ts
  <2>6. ts \in Seq(T)
    BY <2>4, <2>5, SeqMonotonic
  <2>7. Saved(ts) \in Seq(K[p])
    BY <2>2, <2>6, SavedIs, SeqMonotonic
  <2>8. SavedSession(s) = [tabs |-> Saved(ts), active |-> s.active]
    BY DEF SavedSession, ts
  <2> QED
    BY <2>3, <2>7, <2>8 DEF Session, s
<1>4. SavedStore(c.projects, K)
  BY <1>1, <1>2, <1>3 DEF SavedStore
<1>5. c.pinned \in Seq(SavedTabs)
  <2> DEFINE ts == pinned(e.tabs)
  <2>1. ts \in Seq({t \in V : IsPinned(t)})
    BY SplitIs DEF Store
  <2>2. {t \in V : IsPinned(t)} \subseteq Tabs
    OBVIOUS
  <2> HIDE DEF ts
  <2>3. ts \in Seq(Tabs)
    BY <2>1, <2>2, SeqMonotonic
  <2>4. Saved(ts) \in Seq(SavedTabs)
    BY <2>3, SavedIs, SeqMonotonic
  <2> QED
    BY <1>1, <2>4 DEF ts
<1> QED
  BY <1>4, <1>5 DEF c

\* Tabs read again: clean, or with the draft of their path.
LEMMA RestoredIs ==
  ASSUME drafts \in [Paths -> 0 .. MaxEdits],
         NEW K \in SUBSET SavedTabs, NEW ts \in Seq(K), NEW taker,
         NEW T \in SUBSET Tabs,
         \A s \in K : \A edits \in 0 .. MaxEdits : Tab(s.id, s.path, FALSE, edits) \in T
  PROVE  /\ Restored(ts, taker) \in Seq(T)
         /\ FirstId(ts) = NoTab \/ Has(Restored(ts, taker), FirstId(ts))
         /\ FirstId(ts) \in Nat
<1> DEFINE r == Restored(ts, taker)
<1>0. Clean \in 0 .. MaxEdits
  BY TabsType DEF Clean
<1>1. Len(ts) \in Nat /\ DOMAIN ts = 1 .. Len(ts) /\ \A i \in DOMAIN ts : ts[i] \in K
  BY LenProperties, ToSetIn
<1>2. DOMAIN r = 1 .. Len(ts) /\ r = [i \in 1 .. Len(ts) |-> r[i]]
  BY <1>1 DEF Restored
<1>3. ASSUME NEW i \in 1 .. Len(ts) PROVE r[i] \in T /\ r[i].id = ts[i].id
  <2>1. ts[i] \in K /\ ts[i].path \in Paths
    BY <1>1 DEF SavedTabs
  <2>2. \E edits \in 0 .. MaxEdits : r[i] = Tab(ts[i].id, ts[i].path, FALSE, edits)
    BY <1>0, <1>1, <2>1 DEF Restored, tabFromPersisted
  <2> QED
    BY <2>1, <2>2 DEF Tab
<1> HIDE DEF r
<1>4. r \in Seq(T)
  <2>1. \A i \in 1 .. Len(ts) : r[i] \in T
    BY <1>3
  <2>2. Len(ts) \in Nat
    BY <1>1
  <2> QED
    BY <1>2, <2>1, <2>2, SeqByIndex
<1>5. ASSUME ts = <<>> PROVE FirstId(ts) = NoTab /\ FirstId(ts) \in Nat
  BY <1>5 DEF FirstId, NoTab
<1>6. ASSUME ts # <<>> PROVE Has(r, FirstId(ts)) /\ FirstId(ts) \in Nat
  <2>1. 1 \in 1 .. Len(ts)
    BY <1>1, <1>6, EmptySeq
  <2>2. FirstId(ts) = ts[1].id
    BY <1>6 DEF FirstId
  <2>3. ts[1].id \in Nat
    BY <1>1, <2>1, TabsType DEF SavedTabs
  <2>4. 1 \in DOMAIN r /\ r[1].id = ts[1].id
    BY <1>2, <1>3, <2>1
  <2> QED
    BY <2>2, <2>3, <2>4 DEF Has
<1> QED
  BY <1>4, <1>5, <1>6 DEF r

LEMMA SessionRestored ==
  ASSUME drafts \in [Paths -> 0 .. MaxEdits],
         NEW K \in SUBSET SavedTabs, NEW s \in Session(K), NEW taker,
         NEW T \in SUBSET Tabs,
         \A u \in K : \A edits \in 0 .. MaxEdits : Tab(u.id, u.path, FALSE, edits) \in T
  PROVE  /\ projectSessionFromPersisted(s, taker) \in Session(T)
         /\ ActiveOK(projectSessionFromPersisted(s, taker))
<1> DEFINE r == Restored(s.tabs, taker)
<1>1. s.tabs \in Seq(K) /\ s.active \in Nat
  BY DEF Session
<1>2. r \in Seq(T)
  BY <1>1, RestoredIs
<1> HIDE DEF r
<1>3. FirstId(r) \in Nat /\ (FirstId(r) = NoTab \/ Has(r, FirstId(r)))
  BY <1>2, SeqMonotonic, FirstLast
<1>4. projectSessionFromPersisted(s, taker)
        = [tabs |-> r, active |-> IF Has(r, s.active) THEN s.active ELSE FirstId(r)]
  BY DEF projectSessionFromPersisted, r
<1> QED
  BY <1>1, <1>2, <1>3, <1>4 DEF Session, ActiveOK

\* The store at the start.
LEMMA HydratedIs ==
  ASSUME drafts \in [Paths -> 0 .. MaxEdits],
         NEW pin \in Seq(SavedTabs), NEW K \in [Projects -> SUBSET SavedTabs],
         NEW ss, SavedStore(ss, K), NEW taker,
         NEW H \in [AllProjects -> SUBSET Tabs],
         \A p \in Projects : \A s \in K[p] : \A edits \in 0 .. MaxEdits :
            Tab(s.id, s.path, FALSE, edits) \in H[p],
         NEW n, n = [NoEditor EXCEPT !.tabs = Restored(pin, taker), !.active = FirstId(pin),
                        !.sessions = [p \in DOMAIN ss |-> projectSessionFromPersisted(ss[p], taker)]]
  PROVE  Store(n, Tabs, H) /\ ActivesOK(n)
<1> DEFINE r == Restored(pin, taker)
           rs == [p \in DOMAIN ss |-> projectSessionFromPersisted(ss[p], taker)]
<1>1. /\ n.tabs = r /\ n.active = FirstId(pin) /\ n.mru = <<>> /\ n.sessions = rs
      /\ DOMAIN n = {"tabs", "active", "mru", "sessions"}
  BY DEF NoEditor
<1>2. r \in Seq(Tabs) /\ (FirstId(pin) = NoTab \/ Has(r, FirstId(pin))) /\ FirstId(pin) \in Nat
  <2>1. \A s \in SavedTabs : \A edits \in 0 .. MaxEdits : Tab(s.id, s.path, FALSE, edits) \in Tabs
    BY DEF Tab, Tabs, SavedTabs
  <2> QED
    BY <2>1, RestoredIs
<1>3. ASSUME NEW p \in DOMAIN ss PROVE rs[p] \in Session(H[p]) /\ ActiveOK(rs[p])
  <2>1. p \in Projects /\ p \in AllProjects /\ ss[p] \in Session(K[p])
    BY DEF SavedStore, AllProjects
  <2>2. K[p] \in SUBSET SavedTabs /\ H[p] \in SUBSET Tabs
    BY <2>1
  <2>3. \A s \in K[p] : \A edits \in 0 .. MaxEdits : Tab(s.id, s.path, FALSE, edits) \in H[p]
    BY <2>1
  <2> QED
    BY <2>1, <2>2, <2>3, SessionRestored
<1>4. DOMAIN rs = DOMAIN ss /\ DOMAIN ss \subseteq DOMAIN H
  BY DEF SavedStore, AllProjects
<1> HIDE DEF r, rs
<1>5. <<>> \in Seq(Nat)
  BY EmptySeq
<1>6. Store(n, Tabs, H)
  BY <1>1, <1>2, <1>3, <1>4, <1>5 DEF Store
<1>7. ActivesOK(n)
  BY <1>1, <1>2, <1>3, <1>4 DEF ActivesOK, ActiveOK
<1> QED
  BY <1>6, <1>7

-----------------------------------------------------------------------------
(* The types *)

ListsOK ==
    /\ db \subseteq Projects /\ projects \subseteq AllProjects
    /\ current \in AllProjects \cup {NoProject}
    /\ switching = NoSwitch \/ switching.to \in AllProjects
    /\ phase \in {"down", "boot", "restoring", "ready"}
    /\ lastId \in 0 .. MaxIds /\ lastEdit \in 0 .. MaxEdits
    /\ owner \in [1 .. MaxIds -> SUBSET (AllProjects \cup {NoProject})]
    /\ drafts \in [Paths -> 0 .. MaxEdits]

\* Nothing is under way when the program is not running.
DownOK ==
    phase = "down" =>
        /\ current = NoProject /\ switching = NoSwitch /\ op = NoOp /\ dialog = NoDialog
        /\ ~validating

EditsLeft(left) ==
    DOMAIN left \subseteq Paths /\ \A path \in DOMAIN left : left[path] \in 1 .. MaxEdits
SomeSessions(ss) ==
    /\ DOMAIN ss \subseteq AllProjects
    /\ \A p \in DOMAIN ss : ss[p] \in Session(Tabs) /\ ActiveOK(ss[p])

OpOK ==
    \/ op = NoOp
    \/ op.kind = "diff" /\ op.path \in Paths /\ lastId < MaxIds
    \/ op.kind = "saveAs" /\ op.path \in Paths /\ op.id \in 1 .. MaxIds
    \/ op \in [kind : {"remove"}, project : AllProjects, deleted : BOOLEAN]
    \/ /\ op.kind = "named" /\ op.members \subseteq AllProjects
       /\ op.shown => SomeSessions(op.sessions)
    \/ /\ op.kind = "recover" /\ EditsLeft(op.left)
       /\ op.opened => op.path \in DOMAIN op.left

DialogOK ==
    \/ dialog = NoDialog
    \/ dialog.kind \in {"one", "others", "right", "all"} /\ dialog.id \in Nat
    \/ dialog.kind = "recover" /\ op = NoOp /\ EditsLeft(dialog.found)

SavedProjects == [p \in Projects |-> SavedTabs]
SavedOK ==
    /\ SavedStore(snapshot.projects, SavedProjects) /\ snapshot.pinned \in Seq(SavedTabs)
    /\ SavedStore(named.sessions, SavedProjects)

TypeInv == ListsOK /\ DownOK /\ OpOK /\ DialogOK /\ SavedOK /\ StoreOK(editor)

LEMMA TypeGivesTypeOK ==
  ASSUME TypeInv
  PROVE  sessionsTypeOK
<1>1. ASSUME NEW s, s.tabs \in Seq(Tabs), ActiveOK(s)
      PROVE  IsSession(s)
  <2>1. \A i \in DOMAIN s.tabs : s.tabs[i] \in Tabs
    BY <1>1, ToSetIn
  <2> QED
    BY <1>1, <2>1 DEF IsSession, Tabs, ActiveOK
<1>2. IsSession([tabs |-> editor.tabs, active |-> editor.active])
  <2>1. editor.tabs \in Seq(Tabs) /\ ActiveOK(editor)
    BY DEF TypeInv, StoreOK, Typed, Store, ActivesOK
  <2> DEFINE s == [tabs |-> editor.tabs, active |-> editor.active]
  <2>2. s.tabs \in Seq(Tabs) /\ ActiveOK(s)
    BY <2>1 DEF ActiveOK
  <2> HIDE DEF s
  <2> QED
    BY <1>1, <2>2 DEF s
<1>3. ASSUME NEW p \in DOMAIN editor.sessions PROVE IsSession(editor.sessions[p])
  <2>1. editor.sessions[p] \in Session(Tabs) /\ ActiveOK(editor.sessions[p])
    BY DEF TypeInv, StoreOK, Typed, Store, ActivesOK, EverySession
  <2>2. PICK s : s = editor.sessions[p]
    OBVIOUS
  <2>3. s.tabs \in Seq(Tabs) /\ ActiveOK(s)
    BY <2>1, <2>2 DEF Session
  <2> QED
    BY <1>1, <2>2, <2>3
<1>4. DOMAIN editor.sessions \subseteq AllProjects
  BY DEF TypeInv, StoreOK, Typed, Store, EverySession
<1> QED
  BY <1>2, <1>3, <1>4 DEF TypeInv, ListsOK, sessionsTypeOK

-----------------------------------------------------------------------------
(* What a step does to the store *)

\* Tabs and sessions may go, and the project may be left; nothing else.
Shrinks ==
    /\ Within(editor, editor', {}) /\ owner' = owner /\ (blind => blind')
    /\ current' = current \/ current' = NoProject

\* A clean tab is opened in the current project.
Opens ==
    \E t \in Tabs :
        /\ t.edits = Clean /\ t.id = lastId + 1
        /\ Within(editor, editor', {t})
        /\ owner' = [owner EXCEPT ![t.id] = @ \cup {current}]
        /\ current' = current /\ (blind => blind')

\* Another project is shown.
Switches ==
    \E from \in {switching.from, current}, to \in AllProjects :
        /\ from # to
        /\ Within(activateProjectSession(editor, from, to), editor', {})
        /\ current' = to /\ owner' = owner
        /\ blind \/ Astray(from) => blind'

\* No project is shown any more.
Clears ==
    /\ current \in AllProjects /\ editor' = deactivateProjectSession(editor, current)
    /\ current' = NoProject /\ owner' = owner /\ (blind => blind')

LEMMA StoreKept ==
  ASSUME UNCHANGED <<editor, owner>>, blind => blind',
         current' = current \/ current' = NoProject
  PROVE  Shrinks
BY WithinItself DEF Shrinks

\* The handlers that open and close tabs.
LEMMA FileSteps ==
  ASSUME TypeInv
  PROVE  /\ \A path \in Paths : OpenFile(path) => Shrinks \/ Opens
         /\ \A path \in Paths : BeginDiff(path) => Shrinks
         /\ openDiff => Shrinks \/ Opens
         /\ RecoverOpen => Shrinks \/ Opens
         /\ \A id \in 1 .. MaxIds : Activate(id) => Shrinks
         /\ Reorder => Shrinks
<1> USE DEF Untouched, UserActs, book, counters, durable
<1>0. /\ Typed(editor) /\ lastId \in Nat /\ MaxIds \in Nat
      /\ owner \in [1 .. MaxIds -> SUBSET (AllProjects \cup {NoProject})]
  BY TabsType DEF TypeInv, StoreOK, ListsOK
<1>1. ASSUME NEW path \in Paths, lastId + 1 \in 1 .. MaxIds,
             editor' = openFile(editor, path), Numbered(openFile(editor, path)),
             UNCHANGED <<current, blind>>
      PROVE  Shrinks \/ Opens
  <2> DEFINE n == openFile(editor, path)
             t == Tab(lastId + 1, path, FALSE, Clean)
  <2>1. \/ Within(editor, n, {})
        \/ Within(editor, n, {t}) /\ Has(n.tabs, lastId + 1)
    BY <1>0, <1>1, openFileWithin
  <2>2. t \in Tabs /\ t.id = lastId + 1 /\ t.edits = Clean
    BY <1>1, TabsType DEF Tab, Tabs, Clean
  <2>3. owner' = IF Has(n.tabs, lastId + 1) THEN [owner EXCEPT ![lastId + 1] = @ \cup {current}]
                 ELSE owner
    BY <1>1 DEF Numbered
  <2> HIDE DEF n, t
  <2>4. editor' = n
    BY <1>1 DEF n
  <2>5. CASE Has(n.tabs, lastId + 1)
    <3>1. Within(editor, n, {t})
      <4>1. ASSUME Within(editor, n, {}) PROVE Within(editor, n, {t})
        BY <1>0, <4>1, <2>2, WithinMore
      <4> QED
        BY <2>1, <4>1
    <3> QED
      BY <1>1, <2>2, <2>3, <2>4, <2>5, <3>1 DEF Opens
  <2>6. CASE ~Has(n.tabs, lastId + 1)
    BY <1>1, <2>1, <2>3, <2>4, <2>6 DEF Shrinks
  <2> QED
    BY <2>5, <2>6
<1>2. ASSUME NEW path \in Paths, OpenFile(path) PROVE Shrinks \/ Opens
  <2>1. lastId + 1 \in 1 .. MaxIds
    BY <1>0, <1>2 DEF OpenFile
  <2> QED
    BY <1>1, <1>2, <2>1 DEF OpenFile, Publish
<1>3. ASSUME RecoverOpen PROVE Shrinks \/ Opens
  <2>1. lastId + 1 \in 1 .. MaxIds
    BY <1>0, <1>3 DEF RecoverOpen
  <2>2. PICK path \in DOMAIN op.left :
          editor' = openFile(editor, path) /\ Numbered(openFile(editor, path))
    BY <1>3 DEF RecoverOpen, Publish
  <2>3. path \in Paths
    BY <1>3 DEF RecoverOpen, TypeInv, OpOK, EditsLeft, NoOp
  <2> QED
    BY <1>1, <1>3, <2>1, <2>2, <2>3 DEF RecoverOpen
<1>4. ASSUME openDiff PROVE Shrinks \/ Opens
  <2> DEFINE t == Tab(lastId + 1, op.path, TRUE, Clean)
             n == AppendTab(editor, t)
  <2>1. op.path \in Paths /\ lastId < MaxIds
    BY <1>4 DEF openDiff, TypeInv, OpOK, NoOp
  <2>2. t \in Tabs /\ t.id = lastId + 1 /\ t.edits = Clean
    BY <1>0, <2>1, TabsType DEF Tab, Tabs, Clean
  <2>3. CASE editor' = n /\ Numbered(n)
    <3> HIDE DEF t
    <3>1. Within(editor, n, {t}) /\ Has(n.tabs, lastId + 1)
      BY <1>0, <2>2, AppendTabWithin
    <3>2. owner' = [owner EXCEPT ![lastId + 1] = @ \cup {current}]
      BY <2>3, <3>1 DEF Numbered
    <3> QED
      BY <1>4, <2>2, <2>3, <3>1, <3>2 DEF Opens, openDiff
  <2>4. CASE UNCHANGED <<editor, owner>>
    BY <1>4, <2>4, StoreKept DEF openDiff
  <2> QED
    BY <1>4, <2>3, <2>4 DEF openDiff, Publish
<1>5. ASSUME NEW path \in Paths, BeginDiff(path) PROVE Shrinks
  <2> DEFINE there == {i \in DOMAIN editor.tabs : editor.tabs[i].path = path /\ editor.tabs[i].diff}
             i == CHOOSE j \in there : TRUE
             id == editor.tabs[i].id
  <2>1. \/ there # {} /\ editor' = ShowTab(editor, id)
        \/ editor' = ensureOpenTabCapacity(editor)
    BY <1>5 DEF BeginDiff, Publish
  <2>2. ASSUME there # {} PROVE Within(editor, ShowTab(editor, id), {})
    <3>1. i \in DOMAIN editor.tabs
      BY <2>2
    <3> HIDE DEF i
    <3>2. id \in Nat /\ Has(editor.tabs, id)
      BY <1>0, <3>1, ToSetIn, TabsType DEF Has, Typed, Store
    <3> HIDE DEF id
    <3> QED
      BY <1>0, <3>2, ShowTabWithin
  <2> HIDE DEF there, id
  <2>3. Within(editor, editor', {})
    BY <1>0, <2>1, <2>2, ensureOpenTabCapacityWithin
  <2> QED
    BY <1>5, <2>3 DEF Shrinks, BeginDiff
<1>6. ASSUME NEW id \in 1 .. MaxIds, Activate(id) PROVE Shrinks
  <2>1. id \in Nat
    OBVIOUS
  <2>2. Within(editor, editor', {})
    BY <1>0, <1>6, <2>1, setActiveTabWithin DEF Activate, Publish
  <2> QED
    BY <1>6, <2>2 DEF Shrinks, Activate
<1>7. ASSUME Reorder PROVE Shrinks
  <2>1. Within(editor, editor', {})
    BY <1>0, <1>7, cycleTabMruWithin, reorderTabsWithin DEF Reorder, Publish
  <2> QED
    BY <1>7, <2>1 DEF Shrinks, Reorder
<1> QED
  BY <1>2, <1>3, <1>4, <1>5, <1>6, <1>7

LEMMA CloseSteps ==
  ASSUME TypeInv
  PROVE  /\ \A kind \in {"one", "others", "right", "all"}, id \in 1 .. MaxIds :
               closeWithConfirm(kind, id) => Shrinks
         /\ DiscardAndClose => Shrinks
         /\ CancelClose => Shrinks
         /\ \A path \in Paths : closeTabsForPath(path) \/ closeDiffTabsForPath(path) => Shrinks
         /\ \A path \in Paths : BeginSaveAs(path) => Shrinks
<1> USE DEF Untouched, UserActs, book, counters, durable
<1>0. Typed(editor)
  BY DEF TypeInv, StoreOK
<1>1. ASSUME NEW kind \in {"one", "others", "right", "all"}, NEW id \in 1 .. MaxIds,
             closeWithConfirm(kind, id)
      PROVE  Shrinks
  <2>1. id \in Nat
    OBVIOUS
  <2>2. Within(editor, editor', {})
    BY <1>0, <1>1, <2>1, CloseWithin, WithinItself DEF closeWithConfirm, Publish
  <2> QED
    BY <1>1, <2>2 DEF closeWithConfirm, Shrinks
<1>2. ASSUME DiscardAndClose PROVE Shrinks
  <2>1. dialog.kind \in {"one", "others", "right", "all"} /\ dialog.id \in Nat
    BY <1>2 DEF DiscardAndClose, Asking, TypeInv, DialogOK
  <2>2. Within(editor, editor', {})
    BY <1>0, <1>2, <2>1, CloseWithin DEF DiscardAndClose, CloseAnswered, Publish
  <2> QED
    BY <1>2, <2>2 DEF DiscardAndClose, CloseAnswered, Shrinks
<1>3. ASSUME CancelClose PROVE Shrinks
  BY <1>3, StoreKept DEF CancelClose
<1>4. ASSUME NEW path \in Paths, closeTabsForPath(path) PROVE Shrinks
  <2>1. Within(editor, editor', {})
    BY <1>0, <1>4, CloseEverywhereWithin DEF closeTabsForPath, Publish
  <2> QED
    BY <1>4, <2>1 DEF closeTabsForPath, Shrinks
<1>5. ASSUME NEW path \in Paths, closeDiffTabsForPath(path) PROVE Shrinks
  <2>1. Within(editor, editor', {})
    BY <1>0, <1>5, CloseEverywhereWithin DEF closeDiffTabsForPath, Publish
  <2> QED
    BY <1>5, <2>1 DEF closeDiffTabsForPath, Shrinks
<1>6. ASSUME NEW path \in Paths, BeginSaveAs(path) PROVE Shrinks
  BY <1>6, StoreKept DEF BeginSaveAs
<1> QED
  BY <1>1, <1>2, <1>3, <1>4, <1>5, <1>6

\* Leaving a project that cannot stay current.
LEMMA LeaveIs ==
  ASSUME TypeInv, NEW open, Leave(open), UNCHANGED <<owner, blind>>
  PROVE  Shrinks \/ Clears
<1>1. CASE UNCHANGED <<current, editor>>
  BY <1>1, StoreKept
<1>2. CASE clearCurrentProjectSession
  <2>1. CASE current = NoProject
    BY <1>2, <2>1, StoreKept DEF clearCurrentProjectSession, Publish
  <2>2. CASE current # NoProject
    BY <1>2, <2>2 DEF clearCurrentProjectSession, Publish, Clears, TypeInv, ListsOK
  <2> QED
    BY <2>1, <2>2
<1> QED
  BY <1>1, <1>2 DEF Leave

LEMMA SettleIs ==
  ASSUME NEW e, Typed(e), NEW astray, Settle(e, astray)
  PROVE  Within(e, editor', {}) /\ (blind \/ astray => blind')
<1>1. Within(e, editor', {})
  BY pruneWithin, WithinItself DEF Settle, Publish
<1> QED
  BY <1>1 DEF Settle

\* Showing another project.
LEMMA activateTyped ==
  ASSUME NEW e, Typed(e), NEW from, NEW to \in AllProjects, from # to
  PROVE  /\ Typed(activateProjectSession(e, from, to))
         /\ ActivesOK(e) => ActivesOK(activateProjectSession(e, from, to))
<1>1. EverySession \in [AllProjects -> SUBSET Tabs]
  BY DEF EverySession
<1>2. \A p \in AllProjects : EverySession[p] = Tabs
  BY DEF EverySession
<1>3. PICK V : V = Tabs
  OBVIOUS
<1>4. PICK H : H = EverySession
  OBVIOUS
<1>5. /\ V \in SUBSET Tabs /\ H \in [AllProjects -> SUBSET Tabs] /\ Store(e, V, H)
      /\ \A t \in V : IsPinned(t) => t \in V
      /\ \A t \in V : ~IsPinned(t) /\ from \in AllProjects => t \in H[from]
      /\ H[to] \subseteq V
  BY <1>1, <1>2, <1>3, <1>4 DEF Typed
<1>6. /\ Store(activateProjectSession(e, from, to), V, H)
      /\ ActivesOK(e) => ActivesOK(activateProjectSession(e, from, to))
  BY <1>5, activateIs
<1> QED
  BY <1>3, <1>4, <1>6 DEF Typed

LEMMA SwitchSteps ==
  ASSUME TypeInv
  PROVE  /\ SwitchDone => Shrinks \/ Switches
         /\ addEmptyProject => Shrinks \/ Switches
         /\ SwitchFails => Shrinks
         /\ \A p \in AllProjects : switchProject(p) => Shrinks
<1> USE DEF Untouched, UserActs, book, counters, durable
<1>0. Typed(editor)
  BY DEF TypeInv, StoreOK
<1>1. ASSUME SwitchDone PROVE Shrinks \/ Switches
  <2> DEFINE p == switching.to
             from == switching.from
             m == activateProjectSession(editor, from, p)
  <2>1. p \in AllProjects
    BY <1>1 DEF SwitchDone, TypeInv, ListsOK
  <2>2. CASE from = p
    <3>1. Settle(editor, FALSE) /\ current' = current /\ owner' = owner
      BY <1>1, <2>2 DEF SwitchDone
    <3>2. Within(editor, editor', {}) /\ (blind => blind')
      BY <1>0, <3>1, SettleIs
    <3> QED
      BY <3>1, <3>2 DEF Shrinks
  <2>3. CASE from # p
    <3>1. Settle(m, Astray(from)) /\ current' = p /\ owner' = owner
      BY <1>1, <2>3 DEF SwitchDone
    <3>2. Typed(m)
      BY <1>0, <2>1, <2>3, activateTyped
    <3>3. PICK e : e = m
      OBVIOUS
    <3>4. PICK astray : astray = Astray(from)
      OBVIOUS
    <3>5. Within(e, editor', {}) /\ (blind \/ astray => blind')
      BY <3>1, <3>2, <3>3, <3>4, SettleIs
    <3> QED
      BY <2>1, <2>3, <3>1, <3>3, <3>4, <3>5 DEF Switches
  <2> QED
    BY <2>2, <2>3
<1>2. ASSUME addEmptyProject PROVE Shrinks \/ Switches
  <2>0. Scratch \in AllProjects
    BY DEF AllProjects
  <2>1. /\ editor' = activateProjectSession(editor, current, Scratch) /\ current' = Scratch
        /\ owner' = owner /\ (blind \/ Astray(current) => blind')
    BY <1>2 DEF addEmptyProject, Publish
  <2>2. CASE current = Scratch
    <3>1. editor' = editor
      BY <2>1, <2>2 DEF activateProjectSession
    <3> QED
      BY <2>1, <2>2, <3>1, StoreKept
  <2>3. CASE current # Scratch
    BY <2>0, <2>1, <2>3, WithinItself DEF Switches
  <2> QED
    BY <2>2, <2>3
<1>3. ASSUME SwitchFails PROVE Shrinks
  <2>1. Within(editor, editor', {}) /\ (blind => blind')
    BY <1>0, <1>3, SettleIs DEF SwitchFails
  <2> QED
    BY <1>3, <2>1 DEF Shrinks, SwitchFails
<1>4. ASSUME NEW p \in AllProjects, switchProject(p) PROVE Shrinks
  BY <1>4, StoreKept DEF switchProject
<1> QED
  BY <1>1, <1>2, <1>3, <1>4

LEMMA ManageSteps ==
  ASSUME TypeInv
  PROVE  /\ \A ps : hideProjects(ps) => Shrinks \/ Clears
         /\ \A p \in AllProjects : unhideProject(p) \/ removeProjectWithConfirm(p) => Shrinks
         /\ RemoveRow \/ RemoveReload => Shrinks
         /\ saveProjectsAsWorkspace \/ BeginNamed \/ NamedShown => Shrinks
<1> USE DEF Untouched, UserActs, book, counters, durable
<1>0. Typed(editor)
  BY DEF TypeInv, StoreOK
<1>1. ASSUME NEW ps, hideProjects(ps) PROVE Shrinks \/ Clears
  <2>1. CASE UNCHANGED <<current, editor>>
    BY <1>1, <2>1, StoreKept DEF hideProjects
  <2>2. CASE Leave((projects \ unavailable) \ ps)
    <3>1. PICK open : open = (projects \ unavailable) \ ps
      OBVIOUS
    <3>2. Leave(open) /\ UNCHANGED <<owner, blind>>
      BY <1>1, <2>2, <3>1 DEF hideProjects
    <3> QED
      BY <3>2, LeaveIs
  <2> QED
    BY <1>1, <2>1, <2>2 DEF hideProjects
<1>2. ASSUME NEW p \in AllProjects, unhideProject(p) PROVE Shrinks
  BY <1>2, StoreKept DEF unhideProject
<1>3. ASSUME NEW p \in AllProjects, removeProjectWithConfirm(p) PROVE Shrinks
  <2> DEFINE under == {t \in AllTabs(editor) : Home[t.path] = p}
             m == CloseEverywhere(editor, under)
  <2>1. editor' = discardProjectSession(m, p)
    BY <1>3 DEF removeProjectWithConfirm, Publish
  <2> HIDE DEF under
  <2>2. Within(editor, m, {})
    BY <1>0, CloseEverywhereWithin
  <2> HIDE DEF m
  <2>3. Typed(m)
    BY <1>0, <2>2, WithinType
  <2>4. Within(m, editor', {})
    BY <2>1, <2>3, discardWithin
  <2>5. Within(editor, editor', {})
    BY <2>2, <2>4, WithinThen
  <2> QED
    BY <1>3, <2>5 DEF Shrinks, removeProjectWithConfirm
<1>4. ASSUME RemoveRow PROVE Shrinks
  <2>1. Within(editor, editor', {})
    BY <1>0, <1>4, pruneWithin, WithinItself DEF RemoveRow, Publish
  <2> QED
    BY <1>4, <2>1 DEF Shrinks, RemoveRow
<1>5. ASSUME RemoveReload PROVE Shrinks
  <2>1. Within(editor, editor', {})
    BY <1>0, <1>5, pruneWithin DEF RemoveReload, Publish
  <2> QED
    BY <1>5, <2>1 DEF Shrinks, RemoveReload
<1>6. ASSUME saveProjectsAsWorkspace PROVE Shrinks
  BY <1>6, StoreKept DEF saveProjectsAsWorkspace
<1>7. ASSUME BeginNamed PROVE Shrinks
  BY <1>7, StoreKept DEF BeginNamed
<1>8. ASSUME NamedShown PROVE Shrinks
  BY <1>8, StoreKept DEF NamedShown
<1> QED
  BY <1>1, <1>2, <1>3, <1>4, <1>5, <1>6, <1>7, <1>8

LEMMA DurableSteps ==
  ASSUME TypeInv
  PROVE  /\ persistNow \/ scheduleDraftPersist => Shrinks
         /\ Crash \/ requestAppClose => Shrinks
         /\ loadProjects \/ LoadFails => Shrinks
         /\ Validated => Shrinks \/ Clears
         /\ RecoverDiscard \/ RecoverRestore \/ RecoverUnread => Shrinks
<1> USE DEF Untouched, book, counters, durable
<1>0. Typed(editor)
  BY DEF TypeInv, StoreOK
<1>1. ASSUME persistNow \/ scheduleDraftPersist PROVE Shrinks
  BY <1>1, StoreKept DEF persistNow, scheduleDraftPersist
<1>2. ASSUME Crash \/ requestAppClose PROVE Shrinks
  BY <1>2, NoEditorWithin DEF Crash, requestAppClose, Gone, Shrinks
<1>3. ASSUME loadProjects PROVE Shrinks
  <2>1. Within(editor, editor', {}) /\ (blind => blind')
    BY <1>0, <1>3, pruneWithin, WithinItself DEF loadProjects, Publish
  <2> QED
    BY <1>3, <2>1 DEF Shrinks, loadProjects
<1>4. ASSUME LoadFails PROVE Shrinks
  <2>1. Within(editor, editor', {})
    BY <1>0, <1>4, pruneWithin DEF LoadFails, Publish
  <2> QED
    BY <1>4, <2>1 DEF Shrinks, LoadFails
<1>5. ASSUME Validated PROVE Shrinks \/ Clears
  <2>1. CASE UNCHANGED <<current, editor>>
    BY <1>5, <2>1, StoreKept DEF Validated
  <2>2. ASSUME NEW open, Leave(open) PROVE Shrinks \/ Clears
    BY <1>5, <2>2, LeaveIs DEF Validated
  <2> QED
    BY <1>5, <2>1, <2>2 DEF Validated
<1>6. ASSUME RecoverDiscard \/ RecoverRestore \/ RecoverUnread PROVE Shrinks
  BY <1>6, StoreKept DEF RecoverDiscard, RecoverRestore, RecoverUnread, PublishNew
<1> QED
  BY <1>1, <1>2, <1>3, <1>4, <1>5, <1>6

\* All the steps. Those that change tabs in their places, read saved sessions or
\* put them in the place of others are named.
LEMMA StepKinds ==
  ASSUME TypeInv, [Next]_workspaceVars
  PROVE  \/ Shrinks \/ Opens \/ Switches \/ Clears
         \/ Type \/ Save \/ saveAs \/ SaveAndClose \/ RecoverFill
         \/ \E from, to \in Paths : renamePath(from, to)
         \/ activateNamedWorkspace \/ hydrateWorkspaceSessions
<1>1. CASE EditorAction
  BY <1>1, FileSteps, CloseSteps DEF EditorAction
<1>2. CASE ProjectAction
  BY <1>2, SwitchSteps, ManageSteps DEF ProjectAction
<1>3. CASE DurableAction
  BY <1>3, FileSteps, DurableSteps DEF DurableAction
<1>4. CASE UNCHANGED workspaceVars
  BY <1>4, StoreKept DEF workspaceVars, memory, book
<1> QED
  BY <1>1, <1>2, <1>3, <1>4 DEF Next

-----------------------------------------------------------------------------
(* Every step keeps the types *)

LEMMA ChangedOK ==
  ASSUME NEW e, StoreOK(e), NEW n, NEW C, Becomes(C), SameId(C), Changed(e, n, C)
  PROVE  StoreOK(n)
BY ChangedType DEF StoreOK

LEMMA SetTextOK ==
  ASSUME NEW e, StoreOK(e), NEW id, NEW edits \in 0 .. MaxEdits
  PROVE  StoreOK(SetText(e, id, edits))
<1>1. PICK C : C = TextSet(id, edits)
  OBVIOUS
<1>2. PICK n : n = SetText(e, id, edits)
  OBVIOUS
<1>3. Becomes(C) /\ SameId(C)
  BY <1>1, TextSetIs
<1>4. Changed(e, n, C)
  BY <1>1, <1>2, SetTextIs DEF StoreOK
<1> QED
  BY <1>2, <1>3, <1>4, ChangedOK

LEMMA SavedUnderOK ==
  ASSUME NEW e, StoreOK(e), NEW id, NEW path \in Paths
  PROVE  StoreOK(SavedUnder(e, id, path))
<1>1. PICK C : C = NameSet(id, path)
  OBVIOUS
<1>2. PICK n : n = SavedUnder(e, id, path)
  OBVIOUS
<1>3. Becomes(C) /\ SameId(C)
  BY <1>1, NameSetIs
<1>4. Changed(e, n, C)
  BY <1>1, <1>2, SavedUnderIs DEF StoreOK
<1> QED
  BY <1>2, <1>3, <1>4, ChangedOK

LEMMA RenameTabsOK ==
  ASSUME NEW e, StoreOK(e), NEW from, NEW to \in Paths
  PROVE  StoreOK(RenameTabs(e, from, to))
<1>1. PICK C : C = PathSet(from, to)
  OBVIOUS
<1>2. PICK n : n = RenameTabs(e, from, to)
  OBVIOUS
<1>3. Becomes(C) /\ SameId(C)
  BY <1>1, PathSetIs
<1>4. Changed(e, n, C)
  BY <1>1, <1>2, RenameTabsIs DEF StoreOK
<1> QED
  BY <1>2, <1>3, <1>4, ChangedOK

LEMMA CleanTabsOK ==
  ASSUME NEW e, StoreOK(e), NEW saved
  PROVE  StoreOK(CleanTabs(e, saved))
<1>1. PICK C : C = CleanSet(saved)
  OBVIOUS
<1>2. PICK n : n = CleanTabs(e, saved)
  OBVIOUS
<1>3. SameId(C) /\ Changed(e, n, C)
  BY <1>1, <1>2, CleanTabsIs DEF StoreOK
<1>4. \A c \in C : c[2] \in Tabs
  BY <1>1 DEF CleanSet
<1>5. \A p \in DOMAIN EverySession : EverySession[p] = Tabs
  BY DEF EverySession
<1>6. Store(n, Tabs, EverySession) /\ (ActivesOK(e) => ActivesOK(n))
  BY <1>3, <1>4, <1>5, ChangedStore DEF StoreOK, Typed
<1> QED
  BY <1>2, <1>6 DEF StoreOK, Typed

LEMMA CleanIs == Clean \in 0 .. MaxEdits
BY TabsType DEF Clean

\* The path and the tab of a save under another name.
LEMMA SaveAsOp ==
  ASSUME OpOK, op.kind = "saveAs"
  PROVE  op.path \in Paths /\ op.id \in 1 .. MaxIds
BY DEF OpOK, NoOp

LEMMA StoreOKNext ==
  ASSUME TypeInv, [Next]_workspaceVars
  PROVE  StoreOK(editor')
<1>0. StoreOK(editor) /\ Typed(editor) /\ lastEdit \in 0 .. MaxEdits /\ MaxEdits \in Nat
  BY TabsType DEF TypeInv, StoreOK, ListsOK
<1>1. CASE Shrinks
  BY <1>0, <1>1, WithinType DEF Shrinks, StoreOK
<1>2. CASE Opens
  <2>1. PICK t \in Tabs : Within(editor, editor', {t})
    BY <1>2 DEF Opens
  <2> QED
    BY <1>0, <2>1, WithinType DEF StoreOK
<1>3. CASE Switches
  <2>1. PICK from \in {switching.from, current}, to \in AllProjects :
          from # to /\ Within(activateProjectSession(editor, from, to), editor', {})
    BY <1>3 DEF Switches
  <2>2. PICK m : m = activateProjectSession(editor, from, to)
    OBVIOUS
  <2>3. StoreOK(m)
    BY <1>0, <2>1, <2>2, activateTyped DEF StoreOK
  <2>4. Within(m, editor', {})
    BY <2>1, <2>2
  <2> QED
    BY <2>3, <2>4, WithinType DEF StoreOK
<1>4. CASE Clears
  <2>1. PICK V : V = Tabs
    OBVIOUS
  <2>2. PICK H : H = EverySession
    OBVIOUS
  <2>3. /\ V \in SUBSET Tabs /\ H \in [AllProjects -> SUBSET Tabs] /\ Store(editor, V, H)
        /\ current \in AllProjects
        /\ \A t \in V : ~IsPinned(t) => t \in H[current]
        /\ \A t \in V : IsPinned(t) => t \in V
    BY <1>0, <1>4, <2>1, <2>2 DEF Typed, EverySession, Clears
  <2>4. Store(editor', V, H) /\ (ActivesOK(editor) => ActivesOK(editor'))
    BY <1>4, <2>3, deactivateIs DEF Clears
  <2> QED
    BY <1>0, <2>1, <2>2, <2>4 DEF StoreOK, Typed
<1>5. CASE Type
  <2>1. lastEdit + 1 \in 0 .. MaxEdits
    BY <1>0, <1>5 DEF Type
  <2> QED
    BY <1>0, <1>5, <2>1, SetTextOK DEF Type, PublishNew
<1>6. CASE Save
  BY <1>0, <1>6, CleanIs, SetTextOK DEF Save, Publish
<1>7. CASE saveAs
  <2>1. op.path \in Paths
    BY <1>7, SaveAsOp DEF saveAs, TypeInv
  <2>2. CASE UNCHANGED editor
    BY <1>0, <2>2
  <2>3. ASSUME NEW gone, Publish(SavedUnder(closeTab(editor, gone), op.id, op.path))
        PROVE  StoreOK(editor')
    <3>1. PICK m : m = closeTab(editor, gone)
      OBVIOUS
    <3>2. StoreOK(m)
      BY <1>0, <3>1, closeTabWithin, WithinType DEF StoreOK
    <3>3. editor' = SavedUnder(m, op.id, op.path)
      BY <2>3, <3>1 DEF Publish
    <3> QED
      BY <2>1, <3>2, <3>3, SavedUnderOK
  <2> QED
    BY <1>7, <2>2, <2>3 DEF saveAs
<1>8. CASE SaveAndClose
  <2>1. dialog.kind \in {"one", "others", "right", "all"} /\ dialog.id \in Nat
    BY <1>8 DEF SaveAndClose, Asking, TypeInv, DialogOK
  <2>2. PICK m : m = CleanTabs(editor, Asked)
    OBVIOUS
  <2>3. StoreOK(m)
    BY <1>0, <2>2, CleanTabsOK
  <2>4. editor' = Close(m, dialog.kind, dialog.id)
    BY <1>8, <2>2 DEF SaveAndClose, CloseAnswered, Publish
  <2>5. Within(m, editor', {})
    BY <2>1, <2>3, <2>4, CloseWithin DEF StoreOK
  <2> QED
    BY <2>3, <2>5, WithinType DEF StoreOK
<1>9. CASE RecoverFill
  <2>1. op.path \in DOMAIN op.left /\ op.left[op.path] \in 1 .. MaxEdits
    BY <1>9 DEF RecoverFill, TypeInv, OpOK, NoOp, EditsLeft
  <2>2. op.left[op.path] \in 0 .. MaxEdits
    BY <2>1
  <2>3. CASE UNCHANGED editor
    BY <1>0, <2>3
  <2>4. ASSUME NEW t, PublishNew(SetText(editor, t.id, op.left[op.path]))
        PROVE  StoreOK(editor')
    BY <1>0, <2>2, <2>4, SetTextOK DEF PublishNew
  <2> QED
    BY <1>9, <2>3, <2>4 DEF RecoverFill
<1>10. ASSUME NEW from \in Paths, NEW to \in Paths, renamePath(from, to) PROVE StoreOK(editor')
  BY <1>0, <1>10, RenameTabsOK DEF renamePath, Publish
<1>11. CASE activateNamedWorkspace
  <2>1. SomeSessions(op.sessions)
    BY <1>11 DEF activateNamedWorkspace, TypeInv, OpOK, NoOp
  <2>2. ASSUME NEW ss, SomeSessions(ss) PROVE StoreOK(mergeProjectSessions(editor, ss))
    BY <1>0, <2>2, mergeIs DEF SomeSessions, StoreOK, Typed, EverySession
  <2>3. ASSUME NEW p PROVE SomeSessions(Without(op.sessions, p))
    BY <2>1 DEF SomeSessions, Without
  <2>4. ASSUME current \in DOMAIN op.sessions,
               Publish(applyVisibleProjectSession(
                         mergeProjectSessions(editor, Without(op.sessions, current)),
                         op.sessions[current]))
        PROVE  StoreOK(editor')
    <3>1. PICK m : m = mergeProjectSessions(editor, Without(op.sessions, current))
      OBVIOUS
    <3>2. PICK s : s = op.sessions[current]
      OBVIOUS
    <3>3. StoreOK(m) /\ s \in Session(Tabs)
      BY <2>1, <2>2, <2>3, <2>4, <3>1, <3>2 DEF SomeSessions
    <3>4. editor' = applyVisibleProjectSession(m, s)
      BY <2>4, <3>1, <3>2 DEF Publish
    <3> QED
      BY <3>3, <3>4, applyIs DEF StoreOK, Typed
  <2>5. ASSUME Publish(mergeProjectSessions(editor, op.sessions)) PROVE StoreOK(editor')
    BY <2>1, <2>2, <2>5 DEF Publish
  <2> QED
    BY <1>11, <2>4, <2>5 DEF activateNamedWorkspace
<1>12. CASE hydrateWorkspaceSessions
  <2>1. PICK taker : editor' = [NoEditor EXCEPT
                        !.tabs = Restored(snapshot.pinned, taker),
                        !.active = FirstId(snapshot.pinned),
                        !.sessions = [p \in DOMAIN snapshot.projects |->
                            projectSessionFromPersisted(snapshot.projects[p], taker)]]
    BY <1>12 DEF hydrateWorkspaceSessions
  <2>2. /\ SavedStore(snapshot.projects, SavedProjects) /\ snapshot.pinned \in Seq(SavedTabs)
        /\ SavedProjects \in [Projects -> SUBSET SavedTabs]
        /\ EverySession \in [AllProjects -> SUBSET Tabs]
        /\ drafts \in [Paths -> 0 .. MaxEdits]
    BY DEF TypeInv, SavedOK, SavedProjects, EverySession, ListsOK
  <2>3. \A p \in Projects : \A s \in SavedProjects[p] : \A edits \in 0 .. MaxEdits :
            Tab(s.id, s.path, FALSE, edits) \in EverySession[p]
    BY DEF SavedProjects, SavedTabs, EverySession, Tab, Tabs, AllProjects
  <2>4. PICK ss : ss = snapshot.projects
    OBVIOUS
  <2>5. PICK pin : pin = snapshot.pinned
    OBVIOUS
  <2>6. editor' = [NoEditor EXCEPT !.tabs = Restored(pin, taker), !.active = FirstId(pin),
                      !.sessions = [p \in DOMAIN ss |-> projectSessionFromPersisted(ss[p], taker)]]
    BY <2>1, <2>4, <2>5
  <2>7. Store(editor', Tabs, EverySession) /\ ActivesOK(editor')
    BY <2>2, <2>3, <2>4, <2>5, <2>6, HydratedIs
  <2> QED
    BY <2>7 DEF StoreOK, Typed
<1> QED
  BY <1>1, <1>2, <1>3, <1>4, <1>5, <1>6, <1>7, <1>8, <1>9, <1>10, <1>11, <1>12, StepKinds
\* The handlers of the editor leave the projects and what is saved alone.
LEMMA EditorFrame ==
  ASSUME DownOK, EditorAction
  PROVE  /\ UNCHANGED <<db, snapshot, named, phase, validating, projects, current, switching>>
         /\ phase # "down"
<1> DEFINE Frame == /\ UNCHANGED <<db, snapshot, named, phase, validating, projects, current,
                                    switching>>
                    /\ phase # "down"
<1> USE DEF Untouched, UserActs, Quiet, durable
<1>1. ASSUME NEW path \in Paths,
             OpenFile(path) \/ BeginDiff(path) \/ BeginSaveAs(path)
      PROVE  Frame
  BY <1>1 DEF OpenFile, BeginDiff, BeginSaveAs
<1>2. ASSUME NEW path \in Paths, closeTabsForPath(path) \/ closeDiffTabsForPath(path)
      PROVE  Frame
  BY <1>2 DEF closeTabsForPath, closeDiffTabsForPath
<1>3. ASSUME NEW path \in Paths, NEW to \in Paths, renamePath(path, to) PROVE Frame
  BY <1>3 DEF renamePath
<1>4. ASSUME NEW id \in 1 .. MaxIds, Activate(id) PROVE Frame
  BY <1>4 DEF Activate
<1>5. ASSUME NEW id \in 1 .. MaxIds, NEW kind, closeWithConfirm(kind, id) PROVE Frame
  BY <1>5 DEF closeWithConfirm
<1>6. ASSUME Reorder \/ Type \/ Save PROVE Frame
  BY <1>6 DEF Reorder, Type, Save
<1>7. ASSUME openDiff \/ saveAs PROVE Frame
  <2>1. op.kind # "none"
    BY <1>7 DEF openDiff, saveAs
  <2>2. UNCHANGED <<Untouched, projects, current, switching>>
    <3>1. CASE openDiff
      BY <3>1 DEF openDiff
    <3>2. CASE saveAs
      BY <3>2 DEF saveAs
    <3> QED
      BY <1>7, <3>1, <3>2
  <2> QED
    BY <2>1, <2>2 DEF DownOK, NoOp
<1>8. ASSUME DiscardAndClose \/ SaveAndClose \/ CancelClose PROVE Frame
  BY <1>8 DEF DiscardAndClose, SaveAndClose, CancelClose, Asking, DownOK
<1> HIDE DEF Frame
<1>9. Frame
  BY <1>1, <1>2, <1>3, <1>4, <1>5, <1>6, <1>7, <1>8 DEF EditorAction
<1> QED
  BY <1>9 DEF Frame

\* What is saved is what the store held before the step.
LEMMA SavedSteps ==
  ASSUME TypeInv, [Next]_workspaceVars
  PROVE  /\ \/ snapshot' = snapshot
            \/ \E among : snapshot' = captureWorkspaceSessionSnapshot(editor, among)
         /\ \/ named' = named
            \/ \E among : named'.sessions = captureWorkspaceSessionSnapshot(editor, among).projects
<1> USE DEF durable
<1> DEFINE Kept == UNCHANGED <<snapshot, named>>
<1>1. ASSUME EditorAction PROVE Kept
  BY <1>1, EditorFrame DEF TypeInv
<1>2. ASSUME NEW p, switchProject(p) \/ unhideProject(p) \/ removeProjectWithConfirm(p)
               \/ hideProjects(p)
      PROVE  Kept
  BY <1>2 DEF switchProject, unhideProject, removeProjectWithConfirm, hideProjects, Untouched
<1>3. ASSUME SwitchDone \/ SwitchFails \/ addEmptyProject \/ RemoveRow \/ RemoveReload
             \/ NamedShown \/ activateNamedWorkspace
      PROVE  Kept
  BY <1>3 DEF SwitchDone, SwitchFails, addEmptyProject, RemoveRow, RemoveReload, NamedShown,
              activateNamedWorkspace, Untouched
<1>4. ASSUME scheduleDraftPersist \/ Crash \/ hydrateWorkspaceSessions \/ loadProjects \/ LoadFails
             \/ Validated
      PROVE  Kept
  BY <1>4 DEF scheduleDraftPersist, Crash, Gone, hydrateWorkspaceSessions, loadProjects, LoadFails,
              Validated
<1>5. ASSUME RecoverDiscard \/ RecoverRestore \/ RecoverOpen \/ RecoverFill \/ RecoverUnread
      PROVE  Kept
  BY <1>5 DEF RecoverDiscard, RecoverRestore, RecoverOpen, RecoverFill, RecoverUnread
<1>6. CASE saveProjectsAsWorkspace
  BY <1>6 DEF saveProjectsAsWorkspace
<1>7. CASE BeginNamed
  BY <1>7 DEF BeginNamed
<1>8. CASE persistNow
  BY <1>8 DEF persistNow
<1>9. CASE requestAppClose
  BY <1>9 DEF requestAppClose, Gone
<1>10. ASSUME UNCHANGED workspaceVars PROVE Kept
  BY <1>10 DEF workspaceVars
<1>11. \/ Kept \/ saveProjectsAsWorkspace \/ BeginNamed \/ persistNow \/ requestAppClose
  <2> HIDE DEF Kept
  <2>1. CASE EditorAction
    BY <1>1, <2>1
  <2>2. CASE ProjectAction
    BY <1>2, <1>3, <2>2 DEF ProjectAction
  <2>3. CASE DurableAction
    BY <1>4, <1>5, <2>3 DEF DurableAction
  <2> QED
    BY <1>10, <2>1, <2>2, <2>3 DEF Next
<1> QED
  BY <1>6, <1>7, <1>8, <1>9, <1>11

LEMMA SavedOKNext ==
  ASSUME TypeInv, [Next]_workspaceVars
  PROVE  SavedOK'
<1> USE DEF durable
<1>1. ASSUME NEW among, NEW c, c = captureWorkspaceSessionSnapshot(editor, among)
      PROVE  SavedStore(c.projects, SavedProjects) /\ c.pinned \in Seq(SavedTabs)
  <2>1. PICK V : V = Tabs
    OBVIOUS
  <2>2. PICK H : H = EverySession
    OBVIOUS
  <2>3. PICK K : K = SavedProjects
    OBVIOUS
  <2>4. /\ V \in SUBSET Tabs /\ H \in [AllProjects -> SUBSET Tabs] /\ Store(editor, V, H)
        /\ \A t \in V : ~IsPinned(t) /\ current \in AllProjects => t \in H[current]
    BY <2>1, <2>2 DEF EverySession, TypeInv, StoreOK, Typed
  <2>5. SavedOf(Tabs) \subseteq SavedTabs
    BY SavedIs, EmptySeq
  <2>6. K \in [Projects -> SUBSET SavedTabs] /\ \A p \in Projects : SavedOf(H[p]) \subseteq K[p]
    BY <2>2, <2>3, <2>5 DEF SavedProjects, EverySession, AllProjects
  <2>7. /\ SavedStore(captureWorkspaceSessionSnapshot(editor, among).projects, K)
        /\ captureWorkspaceSessionSnapshot(editor, among).pinned \in Seq(SavedTabs)
    BY <2>4, <2>6, CaptureIs
  <2> QED
    BY <1>1, <2>3, <2>7
<1>2. /\ \/ snapshot' = snapshot
         \/ \E among : snapshot' = captureWorkspaceSessionSnapshot(editor, among)
      /\ \/ named' = named
         \/ \E among : named'.sessions = captureWorkspaceSessionSnapshot(editor, among).projects
  BY SavedSteps
<1>3. SavedStore(snapshot'.projects, SavedProjects) /\ snapshot'.pinned \in Seq(SavedTabs)
  BY <1>1, <1>2 DEF TypeInv, SavedOK
<1>4. SavedStore(named'.sessions, SavedProjects)
  BY <1>1, <1>2 DEF TypeInv, SavedOK
<1> QED
  BY <1>3, <1>4 DEF SavedOK, SavedStore, SavedProjects

\* The number of a new tab.
LEMMA NumberedOK ==
  ASSUME ListsOK, lastId < MaxIds, NEW e, Numbered(e)
  PROVE  /\ lastId' \in 0 .. MaxIds /\ lastId' \in {lastId, lastId + 1}
         /\ owner' \in [1 .. MaxIds -> SUBSET (AllProjects \cup {NoProject})]
<1>1. lastId \in 0 .. MaxIds /\ MaxIds \in Nat /\ lastId + 1 \in 1 .. MaxIds
  BY TabsType DEF ListsOK
<1>2. lastId' \in {lastId, lastId + 1}
  BY DEF Numbered
<1>3. lastId' \in 0 .. MaxIds
  BY <1>1, <1>2
<1>4. current \in AllProjects \cup {NoProject}
  BY DEF ListsOK
<1>5. owner' \in [1 .. MaxIds -> SUBSET (AllProjects \cup {NoProject})]
  <2> DEFINE k == lastId + 1
  <2>1. k \in 1 .. MaxIds /\ (owner' = owner \/ owner' = [owner EXCEPT ![k] = @ \cup {current}])
    BY <1>1 DEF Numbered
  <2> HIDE DEF k
  <2> QED
    BY <1>4, <2>1 DEF ListsOK
<1> QED
  BY <1>2, <1>3, <1>5

NumbersOK ==
    /\ lastId \in 0 .. MaxIds /\ lastEdit \in 0 .. MaxEdits
    /\ owner \in [1 .. MaxIds -> SUBSET (AllProjects \cup {NoProject})]
    /\ drafts \in [Paths -> 0 .. MaxEdits]

LEMMA NumbersNext ==
  ASSUME TypeInv, [Next]_workspaceVars
  PROVE  NumbersOK'
<1> USE DEF Untouched, UserActs, counters, durable, book
<1>0. /\ ListsOK /\ NumbersOK /\ MaxIds \in Nat /\ MaxEdits \in Nat /\ Clean \in 0 .. MaxEdits
      /\ lastId \in Nat
  BY TabsType, CleanIs DEF TypeInv, ListsOK, NumbersOK
<1> DEFINE Kept == UNCHANGED <<lastId, lastEdit, owner, drafts>>
<1>1. ASSUME EditorAction PROVE NumbersOK'
  <2>1. ASSUME NEW path \in Paths, OpenFile(path) PROVE NumbersOK'
    <3>1. lastId < MaxIds
      BY <1>0, <2>1 DEF OpenFile
    <3> QED
      BY <1>0, <2>1, <3>1, NumberedOK DEF OpenFile, NumbersOK
  <2>2. ASSUME openDiff PROVE NumbersOK'
    <3>1. lastId < MaxIds
      BY <2>2 DEF openDiff, TypeInv, OpOK, NoOp
    <3>2. CASE UNCHANGED <<lastId, owner>>
      BY <1>0, <2>2, <3>2 DEF openDiff, NumbersOK
    <3>3. ASSUME NEW e, Numbered(e) PROVE NumbersOK'
      BY <1>0, <2>2, <3>1, <3>3, NumberedOK DEF openDiff, NumbersOK
    <3> QED
      BY <2>2, <3>2, <3>3 DEF openDiff
  <2>3. ASSUME Type PROVE NumbersOK'
    BY <1>0, <2>3 DEF Type, NumbersOK
  <2>4. ASSUME Save PROVE NumbersOK'
    <3>1. PICK path : drafts' = [drafts EXCEPT ![path] = Clean]
      BY <2>4 DEF Save
    <3> QED
      BY <1>0, <2>4, <3>1 DEF Save, NumbersOK
  <2>5. ASSUME saveAs PROVE NumbersOK'
    <3>1. op.id \in 1 .. MaxIds /\ current \in AllProjects \cup {NoProject}
      BY <1>0, <2>5, SaveAsOp DEF saveAs, TypeInv, ListsOK
    <3>2. owner' = owner \/ owner' = [owner EXCEPT ![op.id] = @ \cup {current}]
      BY <2>5 DEF saveAs
    <3>3. owner' \in [1 .. MaxIds -> SUBSET (AllProjects \cup {NoProject})]
      BY <1>0, <3>1, <3>2 DEF NumbersOK
    <3> QED
      BY <1>0, <2>5, <3>3 DEF saveAs, NumbersOK
  <2>6. ASSUME SaveAndClose PROVE NumbersOK'
    <3>1. PICK ps : drafts' = [path \in Paths |-> IF path \in ps THEN Clean ELSE drafts[path]]
      BY <2>6 DEF SaveAndClose
    <3>2. drafts' \in [Paths -> 0 .. MaxEdits]
      BY <1>0, <3>1 DEF NumbersOK
    <3> QED
      BY <1>0, <2>6, <3>2 DEF SaveAndClose, NumbersOK
  <2>7. ASSUME NEW path \in Paths,
               BeginDiff(path) \/ BeginSaveAs(path) \/ closeTabsForPath(path)
                 \/ closeDiffTabsForPath(path)
        PROVE  Kept
    BY <2>7 DEF BeginDiff, BeginSaveAs, closeTabsForPath, closeDiffTabsForPath
  <2>8. ASSUME NEW path \in Paths, NEW to \in Paths, renamePath(path, to) PROVE Kept
    BY <2>8 DEF renamePath
  <2>9. ASSUME NEW id \in 1 .. MaxIds, NEW kind, Activate(id) \/ closeWithConfirm(kind, id)
        PROVE  Kept
    BY <2>9 DEF Activate, closeWithConfirm
  <2>10. ASSUME Reorder \/ DiscardAndClose \/ CancelClose PROVE Kept
    BY <2>10 DEF Reorder, DiscardAndClose, CancelClose
  <2>11. Kept => NumbersOK'
    BY <1>0 DEF NumbersOK
  <2> HIDE DEF Kept
  <2> QED
    BY <1>1, <2>1, <2>2, <2>3, <2>4, <2>5, <2>6, <2>7, <2>8, <2>9, <2>10, <2>11 DEF EditorAction
<1>2. ASSUME ProjectAction PROVE NumbersOK'
  <2>1. ASSUME NEW p, switchProject(p) \/ unhideProject(p) \/ removeProjectWithConfirm(p)
                 \/ hideProjects(p)
        PROVE  Kept
    BY <2>1 DEF switchProject, unhideProject, removeProjectWithConfirm, hideProjects
  <2>2. ASSUME SwitchDone \/ SwitchFails \/ addEmptyProject \/ RemoveRow \/ RemoveReload
               \/ saveProjectsAsWorkspace \/ BeginNamed \/ activateNamedWorkspace
        PROVE  Kept
    BY <2>2 DEF SwitchDone, SwitchFails, addEmptyProject, RemoveRow, RemoveReload,
                saveProjectsAsWorkspace, BeginNamed, activateNamedWorkspace
  <2>3. ASSUME NamedShown PROVE NumbersOK'
    <3>1. PICK taker : drafts' = DraftsLeft(taker)
      BY <2>3 DEF NamedShown
    <3>2. drafts' \in [Paths -> 0 .. MaxEdits]
      BY <1>0, <3>1 DEF DraftsLeft, NumbersOK
    <3> QED
      BY <1>0, <2>3, <3>2 DEF NamedShown, NumbersOK
  <2>4. Kept => NumbersOK'
    BY <1>0 DEF NumbersOK
  <2> HIDE DEF Kept
  <2> QED
    BY <1>2, <2>1, <2>2, <2>3, <2>4 DEF ProjectAction
<1>3. ASSUME DurableAction PROVE NumbersOK'
  <2>1. ASSUME persistNow \/ Crash \/ requestAppClose \/ loadProjects \/ LoadFails \/ Validated
               \/ RecoverRestore
        PROVE  Kept
    BY <2>1 DEF persistNow, Crash, requestAppClose, Gone, loadProjects, LoadFails, Validated,
       RecoverRestore
  <2>2. ASSUME scheduleDraftPersist PROVE NumbersOK'
    BY <1>0, <2>2 DEF scheduleDraftPersist, NumbersOK
  <2>3. ASSUME hydrateWorkspaceSessions PROVE NumbersOK'
    <3>1. PICK taker : drafts' = DraftsLeft(taker)
      BY <2>3 DEF hydrateWorkspaceSessions
    <3>2. drafts' \in [Paths -> 0 .. MaxEdits]
      BY <1>0, <3>1 DEF DraftsLeft, NumbersOK
    <3> QED
      BY <1>0, <2>3, <3>2 DEF hydrateWorkspaceSessions, NumbersOK
  <2>4. ASSUME RecoverDiscard PROVE NumbersOK'
    <3>1. PICK ps : drafts' = [path \in Paths |-> IF path \in ps THEN Clean ELSE drafts[path]]
      BY <2>4 DEF RecoverDiscard
    <3>2. drafts' \in [Paths -> 0 .. MaxEdits]
      BY <1>0, <3>1 DEF NumbersOK
    <3> QED
      BY <1>0, <2>4, <3>2 DEF RecoverDiscard, NumbersOK
  <2>5. ASSUME RecoverOpen PROVE NumbersOK'
    <3>1. lastId < MaxIds
      BY <2>5 DEF RecoverOpen
    <3> QED
      BY <1>0, <2>5, <3>1, NumberedOK DEF RecoverOpen, NumbersOK
  <2>6. ASSUME RecoverFill \/ RecoverUnread PROVE NumbersOK'
    <3>1. drafts' = drafts \/ \E path : drafts' = [drafts EXCEPT ![path] = Clean]
      BY <2>6 DEF RecoverFill, RecoverUnread
    <3>2. drafts' \in [Paths -> 0 .. MaxEdits]
      BY <1>0, <3>1 DEF NumbersOK
    <3> QED
      BY <1>0, <2>6, <3>2 DEF RecoverFill, RecoverUnread, NumbersOK
  <2>7. Kept => NumbersOK'
    BY <1>0 DEF NumbersOK
  <2> HIDE DEF Kept
  <2> QED
    BY <1>3, <2>1, <2>2, <2>3, <2>4, <2>5, <2>6, <2>7 DEF DurableAction
<1>4. CASE UNCHANGED workspaceVars
  BY <1>0, <1>4 DEF workspaceVars, NumbersOK
<1> QED
  BY <1>1, <1>2, <1>3, <1>4 DEF Next

\* The lists of projects, and where the program is.
PlacesOK ==
    /\ db \subseteq Projects /\ projects \subseteq AllProjects
    /\ current \in AllProjects \cup {NoProject}
    /\ switching = NoSwitch \/ switching.to \in AllProjects
    /\ phase \in {"down", "boot", "restoring", "ready"}

LEMMA BeginSwitchOK ==
  ASSUME PlacesOK, NEW p \in AllProjects, BeginSwitch(p)
  PROVE  switching' = NoSwitch \/ switching'.to \in AllProjects
BY DEF PlacesOK, BeginSwitch, Starting

LEMMA CandidatesIn ==
  ASSUME NEW open
  PROVE  Candidates(open) \subseteq open
BY DEF Candidates

LEMMA LeaveOK ==
  ASSUME PlacesOK, NEW open \in SUBSET AllProjects, Leave(open)
  PROVE  /\ current' \in AllProjects \cup {NoProject}
         /\ switching' = NoSwitch \/ switching'.to \in AllProjects
<1>1. CASE Candidates(open) # {}
  <2>1. PICK p \in Candidates(open) : BeginSwitch(p) /\ current' = current
    BY <1>1 DEF Leave
  <2>2. p \in AllProjects
    BY <2>1, CandidatesIn
  <2> QED
    BY <2>1, <2>2, BeginSwitchOK DEF PlacesOK
<1>2. CASE Candidates(open) = {}
  BY <1>2 DEF Leave, clearCurrentProjectSession, PlacesOK
<1> QED
  BY <1>1, <1>2

LEMMA SettlePhase ==
  ASSUME NEW e, NEW astray, Settle(e, astray)
  PROVE  phase' \in {phase, "ready"}
BY DEF Settle

LEMMA PlacesNext ==
  ASSUME TypeInv, [Next]_workspaceVars
  PROVE  PlacesOK'
<1> USE DEF Untouched, durable, counters, book
<1>0. /\ PlacesOK /\ Scratch \in AllProjects /\ Projects \subseteq AllProjects
      /\ DownOK
  BY DEF TypeInv, ListsOK, PlacesOK, AllProjects
<1> DEFINE Kept == UNCHANGED <<db, projects, current, switching, phase>>
<1>1. Kept => PlacesOK'
  BY <1>0 DEF PlacesOK
<1>2. CASE EditorAction
  BY <1>0, <1>1, <1>2, EditorFrame
<1>3. ASSUME ProjectAction PROVE PlacesOK'
  <2>1. ASSUME NEW p \in AllProjects, switchProject(p) PROVE PlacesOK'
    <3>1. switching' = NoSwitch \/ switching'.to \in AllProjects
      BY <1>0, <2>1, BeginSwitchOK DEF switchProject
    <3> QED
      BY <1>0, <2>1, <3>1 DEF switchProject, PlacesOK
  <2>2. ASSUME NEW p \in AllProjects, unhideProject(p) \/ removeProjectWithConfirm(p) PROVE Kept
    BY <2>2 DEF unhideProject, removeProjectWithConfirm
  <2>3. ASSUME NEW ps, hideProjects(ps) PROVE PlacesOK'
    <3>1. PICK open : open = (projects \ unavailable) \ ps
      OBVIOUS
    <3>2. open \in SUBSET AllProjects
      BY <1>0, <3>1 DEF PlacesOK
    <3>3. /\ current' \in AllProjects \cup {NoProject}
          /\ switching' = NoSwitch \/ switching'.to \in AllProjects
      <4>1. CASE UNCHANGED <<current, switching>>
        BY <1>0, <4>1 DEF PlacesOK
      <4>2. CASE Leave(open)
        BY <1>0, <3>2, <4>2, LeaveOK
      <4> QED
        BY <2>3, <3>1, <4>1, <4>2 DEF hideProjects
    <3> QED
      BY <1>0, <2>3, <3>3 DEF hideProjects, PlacesOK
  <2>4. ASSUME SwitchDone PROVE PlacesOK'
    <3>1. switching.to \in AllProjects
      BY <1>0, <2>4 DEF SwitchDone, PlacesOK
    <3>2. current' = current \/ current' = switching.to
      BY <2>4 DEF SwitchDone
    <3>3. phase' \in {phase, "ready"}
      BY <2>4, SettlePhase DEF SwitchDone
    <3> QED
      BY <1>0, <2>4, <3>1, <3>2, <3>3 DEF SwitchDone, PlacesOK
  <2>5. ASSUME SwitchFails PROVE PlacesOK'
    <3>1. phase' \in {phase, "ready"}
      BY <2>5, SettlePhase DEF SwitchFails
    <3> QED
      BY <1>0, <2>5, <3>1 DEF SwitchFails, PlacesOK
  <2>6. ASSUME addEmptyProject PROVE PlacesOK'
    BY <1>0, <2>6 DEF addEmptyProject, PlacesOK
  <2>7. ASSUME RemoveRow PROVE PlacesOK'
    <3>1. /\ db' \subseteq db /\ projects' \subseteq projects /\ current' \in {current, NoProject}
          /\ UNCHANGED <<switching, phase>>
      BY <2>7 DEF RemoveRow
    <3> QED
      BY <1>0, <3>1 DEF PlacesOK
  <2>8. ASSUME RemoveReload PROVE PlacesOK'
    <3> DEFINE list == db \cup (projects \cap {Scratch})
    <3>1. list \in SUBSET AllProjects
      BY <1>0 DEF PlacesOK
    <3>2. projects' = list /\ UNCHANGED <<db, current, phase>>
      BY <2>8 DEF RemoveReload
    <3>3. switching' = NoSwitch \/ switching'.to \in AllProjects
      <4>1. switching' = switching \/ \E p \in Candidates(list) : BeginSwitch(p)
        BY <2>8 DEF RemoveReload
      <4> HIDE DEF list
      <4>2. ASSUME NEW p \in Candidates(list), BeginSwitch(p)
            PROVE  switching' = NoSwitch \/ switching'.to \in AllProjects
        <5>1. p \in AllProjects
          BY <3>1, <4>2, CandidatesIn
        <5> QED
          BY <1>0, <4>2, <5>1, BeginSwitchOK
      <4> QED
        BY <1>0, <4>1, <4>2 DEF PlacesOK
    <3> HIDE DEF list
    <3> QED
      BY <1>0, <3>1, <3>2, <3>3 DEF PlacesOK
  <2>9. ASSUME saveProjectsAsWorkspace \/ BeginNamed \/ NamedShown PROVE Kept
    BY <2>9 DEF saveProjectsAsWorkspace, BeginNamed, NamedShown
  <2>10. ASSUME activateNamedWorkspace PROVE PlacesOK'
    <3>1. op.members \subseteq AllProjects
      BY <2>10 DEF activateNamedWorkspace, TypeInv, OpOK, NoOp
    <3>2. switching' = switching \/ \E p \in op.members : BeginSwitch(p)
      <4> DEFINE available == op.members \ unavailable
                 wanted == IF named.active \in op.members THEN {named.active} ELSE op.members
                 active == IF wanted \subseteq available THEN wanted ELSE available
      <4>1. active \subseteq op.members
        OBVIOUS
      <4>2. switching' = switching \/ \E p \in active : BeginSwitch(p)
        BY <2>10 DEF activateNamedWorkspace
      <4> QED
        BY <4>1, <4>2
    <3>3. switching' = NoSwitch \/ switching'.to \in AllProjects
      <4>1. ASSUME NEW p \in op.members, BeginSwitch(p)
            PROVE  switching' = NoSwitch \/ switching'.to \in AllProjects
        BY <1>0, <3>1, <4>1, BeginSwitchOK
      <4> QED
        BY <1>0, <3>2, <4>1 DEF PlacesOK
    <3>4. UNCHANGED <<db, projects, current, phase>>
      BY <2>10 DEF activateNamedWorkspace
    <3> QED
      BY <1>0, <3>3, <3>4 DEF PlacesOK
  <2> HIDE DEF Kept
  <2> QED
    BY <1>1, <1>3, <2>1, <2>2, <2>3, <2>4, <2>5, <2>6, <2>7, <2>8, <2>9, <2>10 DEF ProjectAction
<1>4. ASSUME DurableAction PROVE PlacesOK'
  <2>1. ASSUME persistNow \/ scheduleDraftPersist PROVE Kept
    BY <2>1 DEF persistNow, scheduleDraftPersist
  <2>2. ASSUME Crash \/ requestAppClose PROVE PlacesOK'
    BY <1>0, <2>2 DEF Crash, requestAppClose, Gone, PlacesOK
  <2>3. ASSUME hydrateWorkspaceSessions PROVE PlacesOK'
    BY <1>0, <2>3 DEF hydrateWorkspaceSessions, PlacesOK
  <2>4. ASSUME loadProjects PROVE PlacesOK'
    <3>1. /\ projects' = db /\ phase' \in {"restoring", "ready"} /\ UNCHANGED <<db, current>>
          /\ \/ switching' = switching
             \/ \E p \in Candidates(db) : switching' = Starting(p)
      BY <2>4 DEF loadProjects
    <3>2. Candidates(db) \subseteq AllProjects
      BY <1>0, CandidatesIn DEF PlacesOK
    <3> QED
      BY <1>0, <3>1, <3>2 DEF PlacesOK, Starting
  <2>5. ASSUME LoadFails PROVE PlacesOK'
    BY <1>0, <2>5 DEF LoadFails, PlacesOK
  <2>6. ASSUME Validated PROVE PlacesOK'
    <3>1. UNCHANGED <<db, projects, phase>>
      BY <2>6 DEF Validated
    <3>2. PICK left \in SUBSET projects :
            \/ Leave(left)
            \/ UNCHANGED <<current, switching>>
            \/ current' = current /\ \E p \in Candidates(left) : BeginSwitch(p)
      <4>1. PICK missing \in SUBSET (projects \cap Projects) :
              IF current \in missing THEN Leave(projects \ missing)
              ELSE IF current = NoProject /\ Candidates(projects \ missing) # {}
              THEN /\ \E p \in Candidates(projects \ missing) : BeginSwitch(p)
                   /\ UNCHANGED <<current, editor, persistDue, draftDue>>
              ELSE UNCHANGED <<current, switching, editor, persistDue, draftDue>>
        BY <2>6 DEF Validated
      <4>2. PICK left : left = projects \ missing
        OBVIOUS
      <4> QED
        BY <4>1, <4>2
    <3>3. left \in SUBSET AllProjects
      BY <1>0 DEF PlacesOK
    <3>4. ASSUME NEW p \in Candidates(left), BeginSwitch(p)
          PROVE  switching' = NoSwitch \/ switching'.to \in AllProjects
      <4>1. p \in AllProjects
        BY <3>3, CandidatesIn
      <4> QED
        BY <1>0, <3>4, <4>1, BeginSwitchOK
    <3>5. /\ current' \in AllProjects \cup {NoProject}
          /\ switching' = NoSwitch \/ switching'.to \in AllProjects
      BY <1>0, <3>2, <3>3, <3>4, LeaveOK DEF PlacesOK
    <3> QED
      BY <1>0, <3>1, <3>5 DEF PlacesOK
  <2>7. ASSUME RecoverDiscard \/ RecoverRestore \/ RecoverOpen \/ RecoverFill \/ RecoverUnread
        PROVE  Kept
    BY <2>7 DEF RecoverDiscard, RecoverRestore, RecoverOpen, RecoverFill, RecoverUnread
  <2> HIDE DEF Kept
  <2> QED
    BY <1>1, <1>4, <2>1, <2>2, <2>3, <2>4, <2>5, <2>6, <2>7 DEF DurableAction
<1>5. CASE UNCHANGED workspaceVars
  BY <1>0, <1>1, <1>5 DEF workspaceVars, memory
<1> QED
  BY <1>2, <1>3, <1>4, <1>5 DEF Next

\* Nothing starts while the program is not running.
LEMMA DownNext ==
  ASSUME TypeInv, [Next]_workspaceVars
  PROVE  DownOK'
<1> USE DEF Untouched, durable, counters, book
<1>0. DownOK
  BY DEF TypeInv
<1> DEFINE Up == phase' # "down"
<1>1. CASE EditorAction
  BY <1>0, <1>1, EditorFrame DEF DownOK
<1>2. ASSUME ProjectAction PROVE Up
  <2>1. ASSUME NEW p, switchProject(p) \/ unhideProject(p) \/ removeProjectWithConfirm(p)
                 \/ hideProjects(p)
        PROVE  Up
    BY <2>1 DEF switchProject, unhideProject, removeProjectWithConfirm, hideProjects, UserActs,
       Quiet
  <2>2. ASSUME SwitchDone \/ SwitchFails PROVE Up
    <3>1. phase # "down"
      BY <1>0, <2>2 DEF SwitchDone, SwitchFails, DownOK
    <3>2. phase' \in {phase, "ready"}
      BY <2>2, SettlePhase DEF SwitchDone, SwitchFails
    <3> QED
      BY <3>1, <3>2
  <2>3. ASSUME addEmptyProject \/ saveProjectsAsWorkspace \/ BeginNamed PROVE Up
    BY <2>3 DEF addEmptyProject, saveProjectsAsWorkspace, BeginNamed, UserActs, Quiet
  <2>4. ASSUME RemoveRow \/ RemoveReload \/ NamedShown \/ activateNamedWorkspace PROVE Up
    <3>1. op.kind # "none" /\ phase' = phase
      BY <2>4 DEF RemoveRow, RemoveReload, NamedShown, activateNamedWorkspace
    <3> QED
      BY <1>0, <3>1 DEF DownOK, NoOp
  <2> HIDE DEF Up
  <2> QED
    BY <1>2, <2>1, <2>2, <2>3, <2>4 DEF ProjectAction
<1>3. ASSUME DurableAction PROVE DownOK'
  <2>1. ASSUME persistNow \/ scheduleDraftPersist PROVE DownOK'
    BY <1>0, <2>1 DEF persistNow, scheduleDraftPersist, DownOK
  <2>2. ASSUME Crash \/ requestAppClose PROVE DownOK'
    BY <2>2 DEF Crash, requestAppClose, Gone, DownOK
  <2>3. ASSUME hydrateWorkspaceSessions \/ loadProjects \/ LoadFails PROVE DownOK'
    BY <2>3 DEF hydrateWorkspaceSessions, loadProjects, LoadFails, DownOK
  <2>4. ASSUME Validated PROVE DownOK'
    BY <1>0, <2>4 DEF Validated, DownOK
  <2>5. ASSUME RecoverDiscard \/ RecoverRestore PROVE DownOK'
    BY <1>0, <2>5 DEF RecoverDiscard, RecoverRestore, DownOK, NoDialog
  <2>6. ASSUME RecoverOpen \/ RecoverFill \/ RecoverUnread PROVE DownOK'
    BY <1>0, <2>6 DEF RecoverOpen, RecoverFill, RecoverUnread, DownOK, NoOp
  <2> QED
    BY <1>3, <2>1, <2>2, <2>3, <2>4, <2>5, <2>6 DEF DurableAction
<1>4. CASE UNCHANGED workspaceVars
  BY <1>0, <1>4 DEF workspaceVars, memory, DownOK
<1> QED
  BY <1>1, <1>2, <1>3, <1>4 DEF Next, DownOK

\* The handlers that wait, and the question asked.
LEMMA OpKept ==
  ASSUME OpOK, DialogOK, op' = op, lastId' = lastId \/ op.kind # "diff",
         dialog' = dialog \/ dialog' = NoDialog
  PROVE  OpOK' /\ DialogOK'
BY DEF OpOK, DialogOK

\* A handler that begins while no question is asked, or goes on.
LEMMA DialogKept ==
  ASSUME DialogOK, dialog' = dialog, op # NoOp \/ dialog = NoDialog
  PROVE  DialogOK'
BY DEF DialogOK, NoDialog

LEMMA TabNumber ==
  ASSUME TypeInv, NEW id, NEW t \in findTab(editor, id)
  PROVE  t \in Tabs /\ t.id \in 1 .. MaxIds
<1>1. AllTabs(editor) \in SUBSET Tabs
  BY AllTabsTyped DEF TypeInv, StoreOK
<1>2. t \in AllTabs(editor)
  BY DEF findTab, AllTabs
<1> QED
  BY <1>1, <1>2 DEF Tabs

LEMMA OpsNext ==
  ASSUME TypeInv, [Next]_workspaceVars
  PROVE  OpOK' /\ DialogOK'
<1> USE DEF Untouched, durable, counters, book
<1>0. OpOK /\ DialogOK /\ lastId \in 0 .. MaxIds /\ MaxIds \in Nat /\ NoDialog.kind = "none"
  BY TabsType DEF TypeInv, ListsOK, NoDialog
<1> DEFINE Fine == OpOK' /\ DialogOK'
           Kept == UNCHANGED <<op, dialog, lastId>>
<1>1. Kept => Fine
  BY <1>0, OpKept
<1>2. ASSUME EditorAction PROVE Fine
  <2>1. ASSUME NEW path \in Paths, OpenFile(path) PROVE Fine
    <3>1. /\ dialog' = dialog /\ op' = op
          /\ lastId' \in {lastId, lastId + 1}
          /\ lastId + (IF op.kind = "diff" THEN 1 ELSE 0) < MaxIds
      BY <2>1 DEF OpenFile, Numbered
    <3>2. CASE op.kind = "diff"
      <4>1. lastId' < MaxIds
        BY <1>0, <3>1, <3>2
      <4>2. OpOK'
        BY <1>0, <3>1, <3>2, <4>1 DEF OpOK, NoOp
      <4> QED
        BY <1>0, <3>1, <4>2, DialogKept DEF DialogOK
    <3>3. CASE op.kind # "diff"
      BY <1>0, <3>1, <3>3, OpKept
    <3> QED
      BY <3>2, <3>3
  <2>2. ASSUME NEW path \in Paths, BeginDiff(path) PROVE Fine
    <3>1. dialog = NoDialog /\ UNCHANGED <<dialog, lastId>>
      BY <2>2 DEF BeginDiff, UserActs, Quiet
    <3>2. op' = op \/ (op' = [kind |-> "diff", path |-> path] /\ lastId < MaxIds)
      BY <2>2 DEF BeginDiff
    <3>3. CASE op' = op
      BY <1>1, <3>1, <3>3
    <3>4. CASE op' = [kind |-> "diff", path |-> path] /\ lastId < MaxIds
      BY <1>0, <3>1, <3>4, DialogKept DEF OpOK
    <3> QED
      BY <3>2, <3>3, <3>4
  <2>3. ASSUME NEW path \in Paths, BeginSaveAs(path) PROVE Fine
    <3>1. dialog = NoDialog /\ UNCHANGED <<dialog, lastId>>
      BY <2>3 DEF BeginSaveAs, UserActs, Quiet
    <3>2. PICK t \in findTab(editor, editor.active) :
            op' = [kind |-> "saveAs", id |-> t.id, path |-> path, edits |-> t.edits]
      BY <2>3 DEF BeginSaveAs
    <3>3. t.id \in 1 .. MaxIds
      BY <3>2, TabNumber
    <3> QED
      BY <1>0, <3>1, <3>2, <3>3, DialogKept DEF OpOK
  <2>4. ASSUME NEW path \in Paths, closeTabsForPath(path) \/ closeDiffTabsForPath(path) PROVE Kept
    BY <2>4 DEF closeTabsForPath, closeDiffTabsForPath
  <2>5. ASSUME NEW path \in Paths, NEW to \in Paths, renamePath(path, to) PROVE Kept
    BY <2>5 DEF renamePath
  <2>6. ASSUME NEW id \in 1 .. MaxIds, Activate(id) PROVE Kept
    BY <2>6 DEF Activate
  <2>7. ASSUME NEW id \in 1 .. MaxIds, NEW kind \in {"one", "others", "right", "all"},
               closeWithConfirm(kind, id)
        PROVE  Fine
    <3>1. UNCHANGED <<op, lastId>> /\ dialog = NoDialog
      BY <2>7 DEF closeWithConfirm, UserActs, Quiet
    <3>2. \/ dialog' = dialog
          \/ dialog'.kind = kind /\ dialog'.id = id
      BY <2>7 DEF closeWithConfirm
    <3>3. CASE dialog' = dialog
      BY <1>1, <3>1, <3>3
    <3>4. CASE dialog'.kind = kind /\ dialog'.id = id
      <4>1. DialogOK'
        BY <3>4 DEF DialogOK
      <4>2. OpOK'
        BY <1>0, <3>1 DEF OpOK
      <4> QED
        BY <4>1, <4>2
    <3> QED
      BY <3>2, <3>3, <3>4
  <2>8. ASSUME Reorder \/ Type \/ Save PROVE Kept
    BY <2>8 DEF Reorder, Type, Save
  <2>9. ASSUME openDiff \/ saveAs PROVE Fine
    <3>1. ASSUME openDiff PROVE op # NoOp /\ op' = NoOp /\ dialog' = dialog
      BY <3>1 DEF openDiff, NoOp
    <3>2. ASSUME saveAs PROVE op # NoOp /\ op' = NoOp /\ dialog' = dialog
      <4>1. op.kind = "saveAs" /\ op' = NoOp /\ dialog' = dialog
        BY <3>2 DEF saveAs
      <4> QED
        BY <4>1 DEF NoOp
    <3> QED
      BY <1>0, <2>9, <3>1, <3>2, DialogKept DEF OpOK
  <2>10. ASSUME DiscardAndClose \/ SaveAndClose \/ CancelClose PROVE Fine
    <3>1. op' = op /\ lastId' = lastId /\ dialog' = NoDialog
      BY <2>10 DEF DiscardAndClose, SaveAndClose, CancelClose
    <3> QED
      BY <1>0, <3>1, OpKept
  <2> HIDE DEF Kept, Fine
  <2> QED
    BY <1>1, <1>2, <2>1, <2>2, <2>3, <2>4, <2>5, <2>6, <2>7, <2>8, <2>9, <2>10 DEF EditorAction
<1>3. ASSUME ProjectAction PROVE Fine
  <2>1. ASSUME NEW p, switchProject(p) \/ unhideProject(p) \/ hideProjects(p) PROVE Kept
    BY <2>1 DEF switchProject, unhideProject, hideProjects
  <2>2. ASSUME NEW p \in AllProjects, removeProjectWithConfirm(p) PROVE Fine
    <3>1. /\ dialog = NoDialog /\ dialog' = dialog
          /\ op' = [kind |-> "remove", project |-> p, deleted |-> FALSE]
      BY <2>2 DEF removeProjectWithConfirm, UserActs, Quiet
    <3> QED
      BY <1>0, <3>1, DialogKept DEF OpOK
  <2>3. ASSUME SwitchDone \/ SwitchFails \/ addEmptyProject \/ saveProjectsAsWorkspace PROVE Kept
    BY <2>3 DEF SwitchDone, SwitchFails, addEmptyProject, saveProjectsAsWorkspace
  <2>4. ASSUME RemoveRow PROVE Fine
    <3>1. op.kind = "remove" /\ op # NoOp /\ dialog' = dialog
      BY <2>4 DEF RemoveRow, NoOp
    <3>2. op \in [kind : {"remove"}, project : AllProjects, deleted : BOOLEAN]
      BY <1>0, <3>1 DEF OpOK
    <3>3. op' = NoOp \/ op' = [op EXCEPT !.deleted = TRUE]
      BY <2>4 DEF RemoveRow
    <3>4. OpOK'
      BY <3>2, <3>3 DEF OpOK
    <3> QED
      BY <1>0, <3>1, <3>4, DialogKept
  <2>5. ASSUME RemoveReload \/ activateNamedWorkspace PROVE Fine
    <3>1. op # NoOp /\ op' = NoOp /\ dialog' = dialog
      BY <2>5 DEF RemoveReload, activateNamedWorkspace, NoOp
    <3> QED
      BY <1>0, <3>1, DialogKept DEF OpOK
  <2>6. ASSUME BeginNamed PROVE Fine
    <3>1. /\ dialog = NoDialog /\ dialog' = dialog
          /\ op' = [kind |-> "named", shown |-> FALSE, members |-> named.members \cap projects]
      BY <2>6 DEF BeginNamed, UserActs, Quiet
    <3>2. named.members \cap projects \subseteq AllProjects
      BY DEF TypeInv, ListsOK
    <3> QED
      BY <1>0, <3>1, <3>2, DialogKept DEF OpOK
  <2>7. ASSUME NamedShown PROVE Fine
    <3> DEFINE ss == [p \in DOMAIN named.sessions \cap op.members |-> named.sessions[p]]
    <3>1. PICK taker : op' = [kind |-> "named", shown |-> TRUE, members |-> op.members,
                              sessions |-> [p \in DOMAIN ss |->
                                                projectSessionFromPersisted(ss[p], taker)]]
      BY <2>7 DEF NamedShown
    <3>2. op.kind = "named" /\ op # NoOp /\ dialog' = dialog
      BY <2>7 DEF NamedShown, NoOp
    <3>3. op.members \subseteq AllProjects
      BY <1>0, <3>2 DEF OpOK
    <3>4. \A p \in DOMAIN ss : ss[p] \in Session(SavedTabs) /\ p \in AllProjects
      BY <3>3 DEF TypeInv, SavedOK, SavedStore, SavedProjects
    <3> HIDE DEF ss
    <3>5. ASSUME NEW p \in DOMAIN ss
          PROVE  /\ projectSessionFromPersisted(ss[p], taker) \in Session(Tabs)
                 /\ ActiveOK(projectSessionFromPersisted(ss[p], taker))
      <4>1. drafts \in [Paths -> 0 .. MaxEdits]
        BY DEF TypeInv, ListsOK
      <4>2. \A u \in SavedTabs : \A edits \in 0 .. MaxEdits :
               Tab(u.id, u.path, FALSE, edits) \in Tabs
        BY DEF SavedTabs, Tab, Tabs
      <4> QED
        BY <3>4, <4>1, <4>2, SessionRestored
    <3>6. SomeSessions([p \in DOMAIN ss |-> projectSessionFromPersisted(ss[p], taker)])
      BY <3>4, <3>5 DEF SomeSessions
    <3>7. OpOK'
      BY <3>1, <3>3, <3>6 DEF OpOK
    <3> QED
      BY <1>0, <3>2, <3>7, DialogKept
  <2> HIDE DEF Kept, Fine
  <2> QED
    BY <1>1, <1>3, <2>1, <2>2, <2>3, <2>4, <2>5, <2>6, <2>7 DEF ProjectAction
<1>4. ASSUME DurableAction PROVE Fine
  <2>1. ASSUME persistNow \/ scheduleDraftPersist \/ loadProjects \/ LoadFails \/ Validated
        PROVE  Kept
    BY <2>1 DEF persistNow, scheduleDraftPersist, loadProjects, LoadFails, Validated
  <2>2. ASSUME Crash \/ requestAppClose PROVE Fine
    BY <2>2 DEF Crash, requestAppClose, Gone, OpOK, DialogOK
  <2>3. ASSUME hydrateWorkspaceSessions PROVE Fine
    <3>1. op = NoOp /\ op' = op /\ lastId' = lastId
      BY <2>3 DEF hydrateWorkspaceSessions, TypeInv, DownOK
    <3>2. PICK orphans \in SUBSET Paths :
            /\ \A path \in orphans : drafts[path] # Clean
            /\ \/ dialog' = NoDialog
               \/ dialog' = [kind |-> "recover", found |-> [path \in orphans |-> drafts[path]]]
      BY <2>3 DEF hydrateWorkspaceSessions
    <3>3. CASE dialog' = NoDialog
      BY <1>0, <3>1, <3>3, OpKept
    <3>4. CASE dialog' = [kind |-> "recover", found |-> [path \in orphans |-> drafts[path]]]
      <4>1. \A path \in orphans : drafts[path] \in 1 .. MaxEdits
        <5>1. drafts \in [Paths -> 0 .. MaxEdits] /\ MaxEdits \in Nat
          BY TabsType DEF TypeInv, ListsOK
        <5> QED
          BY <3>2, <5>1 DEF Clean
      <4>2. EditsLeft([path \in orphans |-> drafts[path]])
        BY <4>1 DEF EditsLeft
      <4>3. DialogOK'
        BY <3>1, <3>4, <4>2 DEF DialogOK
      <4> QED
        BY <1>0, <3>1, <4>3 DEF OpOK
    <3> QED
      BY <3>2, <3>3, <3>4
  <2>4. ASSUME RecoverDiscard PROVE Fine
    <3>1. op' = op /\ lastId' = lastId /\ dialog' = NoDialog
      BY <2>4 DEF RecoverDiscard
    <3> QED
      BY <1>0, <3>1, OpKept
  <2>5. ASSUME RecoverRestore PROVE Fine
    <3>1. /\ dialog.kind = "recover" /\ dialog' = NoDialog
          /\ op' = [kind |-> "recover", opened |-> FALSE, left |-> dialog.found]
      BY <2>5 DEF RecoverRestore
    <3>2. EditsLeft(dialog.found)
      BY <1>0, <3>1 DEF DialogOK
    <3> QED
      BY <3>1, <3>2 DEF OpOK, DialogOK
  <2>6. ASSUME RecoverOpen PROVE Fine
    <3>1. PICK path \in DOMAIN op.left :
            op' = [kind |-> "recover", opened |-> TRUE, path |-> path, left |-> op.left]
      BY <2>6 DEF RecoverOpen
    <3>2. op.kind = "recover" /\ op # NoOp /\ dialog' = dialog
      BY <2>6 DEF RecoverOpen, NoOp
    <3>3. EditsLeft(op.left)
      BY <1>0, <3>2 DEF OpOK
    <3>4. OpOK'
      BY <3>1, <3>3 DEF OpOK
    <3> QED
      BY <1>0, <3>2, <3>4, DialogKept
  <2>7. ASSUME RecoverFill \/ RecoverUnread PROVE Fine
    <3> DEFINE rest == [path \in DOMAIN op.left \ {op.path} |-> op.left[path]]
    <3>1. op' = NoOp \/ op' = [kind |-> "recover", opened |-> FALSE, left |-> rest]
      BY <2>7 DEF RecoverFill, RecoverUnread
    <3>2. op.kind = "recover" /\ op # NoOp /\ dialog' = dialog
      BY <2>7 DEF RecoverFill, RecoverUnread, NoOp
    <3>3. EditsLeft(op.left)
      BY <1>0, <3>2 DEF OpOK
    <3>4. EditsLeft(rest)
      BY <3>3 DEF EditsLeft
    <3> HIDE DEF rest
    <3>5. OpOK'
      BY <3>1, <3>4 DEF OpOK
    <3> QED
      BY <1>0, <3>2, <3>5, DialogKept
  <2> HIDE DEF Kept, Fine
  <2> QED
    BY <1>1, <1>4, <2>1, <2>2, <2>3, <2>4, <2>5, <2>6, <2>7 DEF DurableAction
<1>5. CASE UNCHANGED workspaceVars
  BY <1>1, <1>5 DEF workspaceVars, memory
<1> QED
  BY <1>2, <1>3, <1>4, <1>5 DEF Next

LEMMA Singleton ==
  ASSUME NEW S, NEW x \in S
  PROVE  <<x>> \in Seq(S)
OBVIOUS

\* What an earlier run has left.
StartOK ==
    /\ SavedStore(snapshot.projects, SavedProjects) /\ snapshot.pinned = <<>>
    /\ lastId \in 0 .. MaxIds /\ lastEdit \in 0 .. MaxEdits
    /\ owner \in [1 .. MaxIds -> SUBSET (AllProjects \cup {NoProject})]
    /\ drafts \in [Paths -> 0 .. MaxEdits]

LEMMA InitTypes ==
  ASSUME Init
  PROVE  TypeInv
<1>0. MaxIds \in Nat \ {0} /\ MaxEdits \in Nat /\ Clean \in 0 .. MaxEdits
  BY TabsType, CleanIs
<1>1. SavedStore(NoSessions, SavedProjects)
  BY DEF SavedStore, NoSessions
<1>2. ASSUME NothingLeft PROVE StartOK
  BY <1>0, <1>1, <1>2 DEF NothingLeft, NoSnapshot, StartOK
<1>3. ASSUME NEW p \in Projects, NEW path \in Paths \ Pinned, NEW edits \in 0 .. MaxEdits,
             Left(p, path, edits)
      PROVE  StartOK
  <2> DEFINE t == Tab(1, path, FALSE, edits)
             ts == Saved(<<t>>)
  <2>1. t \in Tabs
    BY <1>0 DEF Tab, Tabs
  <2>2. <<t>> \in Seq(Tabs)
    BY <2>1, Singleton
  <2>3. ts \in Seq(SavedTabs)
    <3> HIDE DEF t
    <3> QED
      BY <2>2, SavedIs, SeqMonotonic
  <2> HIDE DEF ts
  <2>4. /\ snapshot.projects = [q \in {p} |-> [tabs |-> ts, active |-> 1]]
        /\ snapshot.pinned = <<>>
    BY <1>3 DEF Left, ts
  <2>5. SavedStore(snapshot.projects, SavedProjects)
    BY <2>3, <2>4 DEF SavedStore, SavedProjects, Session
  <2>6. /\ lastId \in 0 .. MaxIds /\ lastEdit \in 0 .. MaxEdits
        /\ drafts \in [Paths -> 0 .. MaxEdits]
    BY <1>0, <1>3 DEF Left
  <2>7. owner \in [1 .. MaxIds -> SUBSET (AllProjects \cup {NoProject})]
    BY <1>3 DEF Left, AllProjects
  <2> QED
    BY <2>4, <2>5, <2>6, <2>7 DEF StartOK
<1>4. StartOK
  BY <1>2, <1>3 DEF Init
<1>5. <<>> \in Seq(SavedTabs)
  BY EmptySeq
<1>6. StoreOK(editor)
  BY NoEditorIs DEF Init, StoreOK, Typed
<1>7. ListsOK
  BY <1>4 DEF Init, StartOK, ListsOK
<1>8. SavedOK
  BY <1>1, <1>4, <1>5 DEF Init, StartOK, SavedOK, NoWorkspace
<1>9. DownOK /\ OpOK /\ DialogOK
  BY DEF Init, DownOK, OpOK, DialogOK
<1> QED
  BY <1>6, <1>7, <1>8, <1>9 DEF TypeInv

LEMMA TypesNext ==
  ASSUME TypeInv, [Next]_workspaceVars
  PROVE  TypeInv'
<1>1. ListsOK'
  BY PlacesNext, NumbersNext DEF ListsOK, PlacesOK, NumbersOK
<1>2. StoreOK(editor')
  BY StoreOKNext
<1>3. SavedOK' /\ DownOK' /\ OpOK' /\ DialogOK'
  BY SavedOKNext, DownNext, OpsNext
<1> QED
  BY <1>1, <1>2, <1>3 DEF TypeInv

LEMMA TypesHold == Spec => []TypeInv
<1>1. Init => TypeInv
  BY InitTypes
<1>2. TypeInv /\ [Next]_workspaceVars => TypeInv'
  BY TypesNext
<1> QED
  BY <1>1, <1>2, PTL DEF Spec

\* The store keeps its shape, and an active tab is always one of the tabs it is
\* active among: of the visible ones, and of each stashed session.
THEOREM SessionsAreTyped == Spec => []sessionsTypeOK
<1>1. TypeInv => sessionsTypeOK
  BY TypeGivesTypeOK
<1> QED
  BY <1>1, TypesHold, PTL

-----------------------------------------------------------------------------
(* No project gets the tabs of another *)

\* What may be visible, what may be stashed for a project, and what may be saved
\* for one: tabs of their own project, and pinned ones.
VisibleHome == {t \in Tabs : IsPinned(t) \/ current = NoProject \/ current \in owner[t.id]}
HomeOf == [p \in AllProjects |-> {t \in Tabs : p \in owner[t.id]}]
SavedHome == [p \in Projects |-> {s \in SavedTabs : p \in owner[s.id]}]

AtHome == Store(editor, VisibleHome, HomeOf) /\ current \notin DOMAIN editor.sessions
HomeInv == ~blind => AtHome /\ SavedStore(snapshot.projects, SavedHome)

\* Who owns a tab is never forgotten, nor is a step on stale knowledge.
LEMMA OwnersStay ==
  ASSUME TypeInv, [Next]_workspaceVars
  PROVE  (blind => blind') /\ \A id \in 1 .. MaxIds : owner[id] \subseteq owner'[id]
<1> DEFINE Stay == (blind => blind') /\ \A id \in 1 .. MaxIds : owner[id] \subseteq owner'[id]
<1> USE DEF Untouched, UserActs, durable, counters, book
<1>0. owner \in [1 .. MaxIds -> SUBSET (AllProjects \cup {NoProject})]
  BY DEF TypeInv, ListsOK
<1>1. ASSUME owner' = owner, blind => blind' PROVE Stay
  BY <1>1
<1>2. ASSUME NEW k, owner' = [owner EXCEPT ![k] = @ \cup {current}], blind => blind' PROVE Stay
  BY <1>0, <1>2
<1> SUFFICES Stay
  OBVIOUS
<1> HIDE DEF Stay
<1>3. CASE Shrinks \/ Switches \/ Clears
  BY <1>1, <1>3 DEF Shrinks, Switches, Clears
<1>4. CASE Opens
  BY <1>2, <1>4 DEF Opens
<1>5. CASE Type \/ Save \/ SaveAndClose \/ RecoverFill
  <2>1. owner' = owner /\ (blind => blind')
    <3>1. CASE Type
      BY <3>1 DEF Type
    <3>2. CASE Save
      BY <3>2 DEF Save
    <3>3. CASE SaveAndClose
      BY <3>3 DEF SaveAndClose, CloseAnswered
    <3>4. CASE RecoverFill
      BY <3>4 DEF RecoverFill
    <3> QED
      BY <1>5, <3>1, <3>2, <3>3, <3>4
  <2> QED
    BY <1>1, <2>1
<1>6. CASE saveAs
  <2>1. owner' = owner \/ owner' = [owner EXCEPT ![op.id] = @ \cup {current}]
    BY <1>6 DEF saveAs
  <2>2. blind' = blind
    BY <1>6 DEF saveAs
  <2> QED
    BY <1>1, <1>2, <2>1, <2>2
<1>7. ASSUME NEW from, NEW to, renamePath(from, to) PROVE Stay
  BY <1>1, <1>7 DEF renamePath
<1>8. CASE activateNamedWorkspace \/ hydrateWorkspaceSessions
  <2>1. owner' = owner /\ (blind => blind')
    <3>1. CASE activateNamedWorkspace
      BY <3>1 DEF activateNamedWorkspace
    <3>2. CASE hydrateWorkspaceSessions
      BY <3>2 DEF hydrateWorkspaceSessions
    <3> QED
      BY <1>8, <3>1, <3>2
  <2> QED
    BY <1>1, <2>1
<1> QED
  BY <1>3, <1>4, <1>5, <1>6, <1>7, <1>8, StepKinds

LEMMA HomeTypes ==
  /\ VisibleHome \in SUBSET Tabs /\ HomeOf \in [AllProjects -> SUBSET Tabs]
  /\ SavedHome \in [Projects -> SUBSET SavedTabs]
BY DEF VisibleHome, HomeOf, SavedHome

LEMMA HomesGrow ==
  ASSUME TypeInv, [Next]_workspaceVars
  PROVE  /\ VisibleHome' \in SUBSET Tabs /\ HomeOf' \in [AllProjects -> SUBSET Tabs]
         /\ \A p \in AllProjects : HomeOf[p] \subseteq HomeOf'[p]
         /\ \A p \in Projects : SavedHome[p] \subseteq SavedHome'[p]
         /\ current' \in {current, NoProject} => VisibleHome \subseteq VisibleHome'
<1>1. \A id \in 1 .. MaxIds : owner[id] \subseteq owner'[id]
  BY OwnersStay
<1>2. /\ \A t \in Tabs : t.id \in 1 .. MaxIds
      /\ \A s \in SavedTabs : s.id \in 1 .. MaxIds
  BY DEF Tabs, SavedTabs
<1> QED
  BY <1>1, <1>2 DEF VisibleHome, HomeOf, SavedHome

LEMMA LargerHomes ==
  ASSUME NEW V, NEW H, NEW e, Store(e, V, H), NEW W, V \subseteq W,
         NEW J, DOMAIN H \subseteq DOMAIN J, \A p \in DOMAIN H : H[p] \subseteq J[p]
  PROVE  Store(e, W, J)
<1>1. ToSet(e.tabs) \subseteq W
  BY ToSetIn DEF Store
<1>2. DOMAIN e.sessions \subseteq DOMAIN J
  BY DEF Store
<1>3. ASSUME NEW p \in DOMAIN e.sessions PROVE ToSet(e.sessions[p].tabs) \subseteq J[p]
  <2>1. p \in DOMAIN H /\ e.sessions[p].tabs \in Seq(H[p])
    BY DEF Store, Session
  <2> QED
    BY <2>1, ToSetIn
<1> QED
  BY <1>1, <1>2, <1>3, StoreIn

LEMMA LargerSaved ==
  ASSUME NEW K, NEW ss, SavedStore(ss, K), NEW J, DOMAIN J = DOMAIN K,
         \A p \in DOMAIN K : K[p] \subseteq J[p]
  PROVE  SavedStore(ss, J)
<1>1. ASSUME NEW p \in DOMAIN ss PROVE ss[p] \in Session(J[p])
  <2>1. ss[p] \in Session(K[p]) /\ K[p] \subseteq J[p]
    BY DEF SavedStore
  <2>2. Seq(K[p]) \subseteq Seq(J[p])
    BY <2>1, SeqMonotonic
  <2> QED
    BY <2>1, <2>2 DEF Session
<1> QED
  BY <1>1 DEF SavedStore

\* Changes of a tab in its place.
LEMMA ChangedAtHome ==
  ASSUME TypeInv, AtHome, [Next]_workspaceVars, current' = current,
         NEW n, NEW C, Changed(editor, n, C), SameId(C), C \subseteq Tabs \X Tabs,
         \A c \in C : IsPinned(c[1]) => IsPinned(c[2])
  PROVE  Store(n, VisibleHome', HomeOf') /\ current' \notin DOMAIN n.sessions
<1>1. PICK V : V = VisibleHome
  OBVIOUS
<1>2. PICK H : H = HomeOf
  OBVIOUS
<1>3. PICK W : W = VisibleHome'
  OBVIOUS
<1>4. PICK J : J = HomeOf'
  OBVIOUS
<1>5. /\ Store(editor, V, H) /\ V \subseteq W
      /\ DOMAIN H = AllProjects /\ DOMAIN J = AllProjects
      /\ \A p \in AllProjects : H[p] \subseteq J[p]
  BY <1>1, <1>2, <1>3, <1>4, HomeTypes, HomesGrow DEF AtHome
<1>6. \A c \in C : c[1] \in V => c[2] \in V
  BY <1>1 DEF SameId, VisibleHome
<1>7. \A p \in DOMAIN H : \A c \in C : c[1] \in H[p] => c[2] \in H[p]
  BY <1>2 DEF SameId, HomeOf
<1>8. Store(n, W, J)
  BY <1>5, <1>6, <1>7, ChangedStore
<1>9. DOMAIN n.sessions = DOMAIN editor.sessions
  BY DEF Changed
<1> QED
  BY <1>3, <1>4, <1>8, <1>9 DEF AtHome

\* ... and what goes afterwards.
LEMMA WithinHome ==
  ASSUME NEW e, Typed(e), NEW n, Within(e, n, {}),
         Store(e, VisibleHome', HomeOf'), current' \notin DOMAIN e.sessions,
         TypeInv, [Next]_workspaceVars
  PROVE  Store(n, VisibleHome', HomeOf') /\ current' \notin DOMAIN n.sessions
<1>1. PICK W : W = VisibleHome'
  OBVIOUS
<1>2. PICK J : J = HomeOf'
  OBVIOUS
<1>3. W \in SUBSET Tabs /\ J \in [AllProjects -> SUBSET Tabs] /\ Store(e, W, J)
  BY <1>1, <1>2, HomesGrow
<1>4. Store(n, W \cup {}, J)
  BY <1>3, WithinStore
<1>5. W \cup {} = W
  OBVIOUS
<1>6. DOMAIN n.sessions \subseteq DOMAIN e.sessions
  BY WithinTabs
<1> QED
  BY <1>1, <1>2, <1>4, <1>5, <1>6

LEMMA NoProjectIs == NoProject \notin AllProjects
BY WorkspaceAssumption

\* The steps that only drop, add, switch or leave.
LEMMA KindsAtHome ==
  ASSUME TypeInv, AtHome, ~blind', [Next]_workspaceVars,
         Shrinks \/ Opens \/ Switches \/ Clears
  PROVE  AtHome'
<1>1. PICK V : V = VisibleHome
  OBVIOUS
<1>2. PICK H : H = HomeOf
  OBVIOUS
<1>3. PICK W : W = VisibleHome'
  OBVIOUS
<1>4. PICK J : J = HomeOf'
  OBVIOUS
<1>5. /\ Store(editor, V, H) /\ V \in SUBSET Tabs /\ W \in SUBSET Tabs
      /\ H \in [AllProjects -> SUBSET Tabs] /\ J \in [AllProjects -> SUBSET Tabs]
      /\ \A p \in AllProjects : H[p] \subseteq J[p]
      /\ current' \in {current, NoProject} => V \subseteq W
  BY <1>1, <1>2, <1>3, <1>4, HomeTypes, HomesGrow DEF AtHome
<1>6. Typed(editor) /\ DOMAIN editor.sessions \subseteq AllProjects /\ NoProject \notin AllProjects
  BY NoProjectIs, AllTabsTyped DEF TypeInv, StoreOK
<1>7. CASE Shrinks
  <2>1. current' \in {current, NoProject} /\ Within(editor, editor', {})
    BY <1>7 DEF Shrinks
  <2>2. Store(editor, W, J)
    BY <1>5, <2>1, LargerHomes
  <2>3. current' \notin DOMAIN editor.sessions
    BY <1>6, <2>1 DEF AtHome
  <2> QED
    BY <1>3, <1>4, <1>6, <2>1, <2>2, <2>3, WithinHome DEF AtHome
<1>8. CASE Opens
  <2>1. PICK t \in Tabs : /\ Within(editor, editor', {t})
                          /\ owner' = [owner EXCEPT ![t.id] = @ \cup {current}]
                          /\ current' = current
    BY <1>8 DEF Opens
  <2>2. t \in W
    <3>1. t.id \in 1 .. MaxIds /\ owner \in [1 .. MaxIds -> SUBSET (AllProjects \cup {NoProject})]
      BY DEF TypeInv, ListsOK, Tabs
    <3>2. current' \in owner'[t.id]
      BY <2>1, <3>1
    <3> QED
      BY <1>3, <3>2 DEF VisibleHome
  <2>3. Store(editor', V \cup {t}, H)
    BY <1>5, <2>1, WithinStore
  <2>4. V \cup {t} \subseteq W
    BY <1>5, <2>1, <2>2
  <2>5. Store(editor', W, J)
    BY <1>5, <2>3, <2>4, LargerHomes
  <2>6. DOMAIN editor'.sessions \subseteq DOMAIN editor.sessions
    <3>1. {t} \in SUBSET Tabs
      OBVIOUS
    <3> QED
      BY <1>6, <2>1, <3>1, WithinTabs
  <2> QED
    BY <1>3, <1>4, <2>1, <2>5, <2>6 DEF AtHome
<1>9. CASE Switches
  <2>1. PICK from \in {switching.from, current}, to \in AllProjects :
          /\ from # to /\ Within(activateProjectSession(editor, from, to), editor', {})
          /\ current' = to /\ owner' = owner /\ (Astray(from) => blind')
    BY <1>9 DEF Switches
  <2>2. from = current
    BY <2>1 DEF Astray
  <2>3. PICK m : m = activateProjectSession(editor, from, to)
    OBVIOUS
  <2>4. \A t \in V : IsPinned(t) => t \in W
    BY <1>1, <1>3 DEF VisibleHome
  <2>5. \A t \in V : ~IsPinned(t) /\ from \in AllProjects => t \in H[from]
    BY <1>1, <1>2, <1>6, <2>2 DEF VisibleHome, HomeOf
  <2>6. H[to] \subseteq W
    BY <1>2, <1>3, <2>1 DEF VisibleHome, HomeOf
  <2>7. /\ Store(m, W, H)
        /\ DOMAIN m.sessions = (DOMAIN editor.sessions \cup ({from} \cap AllProjects)) \ {to}
    <3>1. Store(editor, V, H) /\ V \in SUBSET Tabs /\ W \in SUBSET Tabs
            /\ H \in [AllProjects -> SUBSET Tabs]
      BY <1>5
    <3>2. from # to /\ to \in AllProjects
      BY <2>1
    <3>3. PICK e : e = editor
      OBVIOUS
    <3>4. PICK q : q = from
      OBVIOUS
    <3>5. /\ Store(e, V, H) /\ q # to /\ H[to] \subseteq W
          /\ \A t \in V : IsPinned(t) => t \in W
          /\ \A t \in V : ~IsPinned(t) /\ q \in AllProjects => t \in H[q]
      BY <2>4, <2>5, <2>6, <3>1, <3>2, <3>3, <3>4
    <3>6. /\ Store(activateProjectSession(e, q, to), W, H)
          /\ DOMAIN activateProjectSession(e, q, to).sessions
               = (DOMAIN e.sessions \cup ({q} \cap AllProjects)) \ {to}
          /\ ActivesOK(e) => ActivesOK(activateProjectSession(e, q, to))
      BY <3>1, <3>2, <3>5, activateIs, ZenonT(60)
    <3> QED
      BY <2>3, <3>3, <3>4, <3>6
  <2>8. Store(m, W, J)
    BY <1>5, <2>7, LargerHomes
  <2>9. Typed(m)
    BY <1>6, <2>1, <2>3, activateTyped
  <2>10. current' \notin DOMAIN m.sessions
    BY <2>1, <2>7
  <2> QED
    BY <1>3, <1>4, <2>1, <2>3, <2>8, <2>9, <2>10, WithinHome DEF AtHome
<1>10. CASE Clears
  <2>1. /\ current \in AllProjects /\ editor' = deactivateProjectSession(editor, current)
        /\ current' = NoProject /\ owner' = owner
    BY <1>10 DEF Clears
  <2>2. \A t \in V : ~IsPinned(t) => t \in H[current]
    BY <1>1, <1>2, <1>6, <2>1 DEF VisibleHome, HomeOf
  <2>3. \A t \in V : IsPinned(t) => t \in W
    BY <1>1, <1>3 DEF VisibleHome
  <2>4. Store(editor', W, H)
    BY <1>5, <2>1, <2>2, <2>3, deactivateIs
  <2>5. Store(editor', W, J)
    BY <1>5, <2>4, LargerHomes
  <2>6. DOMAIN editor'.sessions \subseteq AllProjects
    BY <1>5, <2>5 DEF Store
  <2> QED
    BY <1>3, <1>4, <1>6, <2>1, <2>5, <2>6 DEF AtHome
<1> QED
  BY <1>7, <1>8, <1>9, <1>10

\* A tab saved as another file belongs to the project it is saved in, too.
LEMMA saveAsAtHome ==
  ASSUME TypeInv, AtHome, ~blind', [Next]_workspaceVars, saveAs
  PROVE  AtHome'
<1>1. CASE UNCHANGED <<editor, owner>>
  <2>1. UNCHANGED <<current, blind>>
    BY DEF saveAs
  <2> QED
    BY <1>1, <2>1, StoreKept, KindsAtHome
<1>2. ASSUME NEW gone,
             owner' = IF Has(pinned(editor.tabs), op.id)
                      THEN [owner EXCEPT ![op.id] = @ \cup {current}] ELSE owner,
             editor' = SavedUnder(closeTab(editor, gone), op.id, op.path)
      PROVE  AtHome'
  <2> DEFINE shown == ToSet(editor.tabs)
  <2>1. PICK V : V = VisibleHome \cap shown
    OBVIOUS
  <2>2. PICK H : H = HomeOf
    OBVIOUS
  <2>3. PICK W : W = VisibleHome'
    OBVIOUS
  <2>4. PICK J : J = HomeOf'
    OBVIOUS
  <2>5. PICK m : m = closeTab(editor, gone)
    OBVIOUS
  <2>6. PICK C : C = NameSet(op.id, op.path)
    OBVIOUS
  <2>7. PICK id : id = op.id
    OBVIOUS
  <2>8. /\ Typed(editor) /\ op.path \in Paths /\ id \in 1 .. MaxIds /\ current' = current
        /\ owner \in [1 .. MaxIds -> SUBSET (AllProjects \cup {NoProject})]
        /\ current \in AllProjects \cup {NoProject}
    BY <2>7, SaveAsOp DEF saveAs, TypeInv, StoreOK, ListsOK
  <2>9. /\ V \in SUBSET Tabs /\ H \in [AllProjects -> SUBSET Tabs] /\ V \subseteq W
        /\ DOMAIN J = AllProjects /\ \A p \in AllProjects : H[p] \subseteq J[p]
    BY <2>1, <2>2, <2>3, <2>4, <2>8, HomeTypes, HomesGrow
  <2>10. Store(editor, V, H)
    <3>1. Store(editor, VisibleHome, H) /\ editor.tabs \in Seq(VisibleHome)
      BY <2>2 DEF AtHome, Store
    <3>2. ToSet(editor.tabs) \subseteq V
      BY <2>1, <3>1, ToSetIn
    <3>3. DOMAIN editor.sessions \subseteq DOMAIN H
      BY <3>1 DEF Store
    <3>4. \A p \in DOMAIN editor.sessions : ToSet(editor.sessions[p].tabs) \subseteq H[p]
      <4>1. ASSUME NEW p \in DOMAIN editor.sessions
            PROVE  ToSet(editor.sessions[p].tabs) \subseteq H[p]
        <5>1. editor.sessions[p].tabs \in Seq(H[p])
          BY <3>1 DEF Store, Session
        <5> QED
          BY <5>1, ToSetIn
      <4> QED
        BY <4>1
    <3> HIDE DEF shown
    <3> QED
      BY <3>1, <3>2, <3>3, <3>4, StoreIn
  <2>11. Within(editor, m, {}) /\ Typed(m) /\ DOMAIN m.sessions \subseteq DOMAIN editor.sessions
    BY <2>5, <2>8, closeTabWithin, WithinType, WithinTabs
  <2>12. Store(m, V, H)
    <3>1. Store(m, V \cup {}, H)
      BY <2>9, <2>10, <2>11, WithinStore
    <3>2. V \cup {} = V
      OBVIOUS
    <3> QED
      BY <3>1, <3>2
  <2>13. Changed(m, editor', C) /\ SameId(C)
    BY <1>2, <2>5, <2>6, <2>8, <2>11, SavedUnderIs, NameSetIs
  <2>14. ASSUME NEW c \in C, c[1] \in V PROVE c[2] \in W
    <3>1. CASE c[2] = c[1]
      BY <2>9, <2>14, <3>1
    <3>2. CASE c[1].id = id /\ c[2] \in Tabs
      <4>1. c[2].id = id
        BY <2>13, <3>2 DEF SameId
      <4>2. ASSUME IsPinned(c[1]) PROVE current \in owner'[id]
        <5>1. c[1] \in ToSet(pinned(editor.tabs))
          <6>1. editor.tabs \in Seq(V) /\ c[1] \in shown
            BY <2>1, <2>10, <2>14 DEF Store
          <6> QED
            BY <4>2, <6>1, SplitIs
        <5>2. Has(pinned(editor.tabs), id)
          BY <3>2, <5>1, HasIs
        <5>3. owner' = [owner EXCEPT ![id] = @ \cup {current}]
          BY <1>2, <2>7, <5>2
        <5> QED
          BY <2>8, <5>3
      <4>3. ASSUME ~IsPinned(c[1]) PROVE current = NoProject \/ current \in owner'[id]
        <5>1. current = NoProject \/ current \in owner[id]
          BY <2>1, <2>14, <3>2, <4>3 DEF VisibleHome
        <5>2. owner[id] \subseteq owner'[id]
          BY <2>8, OwnersStay
        <5> QED
          BY <5>1, <5>2
      <4>4. current' = NoProject \/ current' \in owner'[c[2].id]
        BY <2>8, <4>1, <4>2, <4>3
      <4> QED
        BY <2>3, <3>2, <4>4 DEF VisibleHome
    <3>3. c[2] = c[1] \/ (c[1].id = id /\ c[2] \in Tabs)
      BY <2>6, <2>7 DEF NameSet
    <3> QED
      BY <3>1, <3>2, <3>3
  <2>15. \A p \in DOMAIN H : \A c \in C : c[1] \in H[p] => c[2] \in J[p]
    <3>1. \A p \in DOMAIN H : \A c \in C : c[1] \in H[p] => c[2] \in H[p]
      BY <2>2, <2>6, <2>13 DEF SameId, HomeOf, NameSet
    <3> QED
      BY <2>9, <3>1
  <2>16. Store(editor', W, J)
    <3>1. DOMAIN H \subseteq DOMAIN J
      BY <2>9
    <3>2. \A c \in C : c[1] \in V => c[2] \in W
      BY <2>14
    <3> QED
      BY <2>12, <2>13, <2>15, <3>1, <3>2, ChangedStore
  <2>17. current' \notin DOMAIN editor'.sessions
    BY <2>8, <2>11, <2>13 DEF Changed, AtHome
  <2> QED
    BY <2>3, <2>4, <2>16, <2>17 DEF AtHome
<1> QED
  BY <1>1, <1>2 DEF saveAs, Publish

LEMMA TextAtHome ==
  ASSUME TypeInv, AtHome, ~blind', [Next]_workspaceVars,
         NEW id, NEW edits \in 0 .. MaxEdits,
         editor' = SetText(editor, id, edits), current' = current
  PROVE  AtHome'
<1>1. PICK C : C = TextSet(id, edits)
  OBVIOUS
<1>2. Changed(editor, editor', C) /\ SameId(C)
  BY <1>1, SetTextIs, TextSetIs DEF TypeInv, StoreOK
<1>3. C \subseteq Tabs \X Tabs
  BY <1>1 DEF TextSet
<1>4. \A c \in C : IsPinned(c[1]) => IsPinned(c[2])
  BY <1>1 DEF TextSet, Tabs, IsPinned
<1> QED
  BY <1>2, <1>3, <1>4, ChangedAtHome DEF AtHome

LEMMA OthersAtHome ==
  ASSUME TypeInv, AtHome, ~blind', [Next]_workspaceVars
  PROVE  /\ Type \/ Save \/ RecoverFill => AtHome'
         /\ SaveAndClose => AtHome'
         /\ \A from, to \in Paths : renamePath(from, to) => AtHome'
         /\ hydrateWorkspaceSessions /\ SavedStore(snapshot.projects, SavedHome) => AtHome'
<1>0. Typed(editor)
  BY DEF TypeInv, StoreOK
<1>1. ASSUME Type PROVE AtHome'
  <2>1. lastEdit + 1 \in 0 .. MaxEdits
    BY <1>1, TabsType DEF Type, TypeInv, ListsOK
  <2>2. editor' = SetText(editor, editor.active, lastEdit + 1) /\ current' = current
    BY <1>1 DEF Type, PublishNew
  <2> QED
    BY <2>1, <2>2, TextAtHome
<1>2. ASSUME Save PROVE AtHome'
  <2>1. editor' = SetText(editor, editor.active, Clean) /\ current' = current
    BY <1>2 DEF Save, Publish
  <2> QED
    BY <2>1, CleanIs, TextAtHome
<1>3. ASSUME RecoverFill PROVE AtHome'
  <2>1. op.left[op.path] \in 0 .. MaxEdits
    <3>1. op.path \in DOMAIN op.left /\ op.left[op.path] \in 1 .. MaxEdits
      BY <1>3 DEF RecoverFill, TypeInv, OpOK, NoOp, EditsLeft
    <3> QED
      BY <3>1
  <2>2. UNCHANGED <<current, owner, blind>>
    BY <1>3 DEF RecoverFill
  <2>3. editor' = editor \/ \E id : editor' = SetText(editor, id, op.left[op.path])
    BY <1>3 DEF RecoverFill, PublishNew
  <2>4. CASE editor' = editor
    BY <2>2, <2>4, StoreKept, KindsAtHome
  <2> QED
    BY <2>1, <2>2, <2>3, <2>4, TextAtHome
<1>4. ASSUME SaveAndClose PROVE AtHome'
  <2>1. dialog.kind \in {"one", "others", "right", "all"} /\ dialog.id \in Nat /\ current' = current
    BY <1>4 DEF SaveAndClose, Asking, TypeInv, DialogOK
  <2>2. PICK m : m = CleanTabs(editor, Asked)
    OBVIOUS
  <2>3. PICK C : C = CleanSet(Asked)
    OBVIOUS
  <2>4. editor' = Close(m, dialog.kind, dialog.id)
    BY <1>4, <2>2 DEF SaveAndClose, CloseAnswered, Publish
  <2>5. Typed(m)
    BY <2>2, CleanTabsOK DEF TypeInv, StoreOK
  <2>6. Within(m, editor', {})
    BY <2>1, <2>4, <2>5, CloseWithin
  <2>7. Changed(editor, m, C) /\ SameId(C)
    BY <1>0, <2>2, <2>3, CleanTabsIs
  <2>8. C \subseteq Tabs \X Tabs /\ \A c \in C : IsPinned(c[1]) => IsPinned(c[2])
    BY <2>3 DEF CleanSet, Tabs, IsPinned
  <2>9. Store(m, VisibleHome', HomeOf') /\ current' \notin DOMAIN m.sessions
    BY <2>1, <2>7, <2>8, ChangedAtHome
  <2> QED
    BY <2>5, <2>6, <2>9, WithinHome DEF AtHome
<1>5. ASSUME NEW from \in Paths, NEW to \in Paths, renamePath(from, to) PROVE AtHome'
  <2>1. PICK C : C = PathSet(from, to)
    OBVIOUS
  <2>2. /\ editor' = RenameTabs(editor, from, to) /\ current' = current
        /\ from \notin Pinned
    BY <1>5 DEF renamePath, Publish
  <2>3. Changed(editor, editor', C) /\ SameId(C)
    BY <1>0, <2>1, <2>2, RenameTabsIs, PathSetIs
  <2>4. C \subseteq Tabs \X Tabs
    BY <2>1 DEF PathSet
  <2>5. \A c \in C : IsPinned(c[1]) => IsPinned(c[2])
    BY <2>1, <2>2 DEF PathSet, IsPinned
  <2> QED
    BY <2>2, <2>3, <2>4, <2>5, ChangedAtHome DEF AtHome
<1>6. ASSUME hydrateWorkspaceSessions, SavedStore(snapshot.projects, SavedHome) PROVE AtHome'
  <2>1. PICK taker : editor' = [NoEditor EXCEPT
                        !.tabs = Restored(snapshot.pinned, taker),
                        !.active = FirstId(snapshot.pinned),
                        !.sessions = [p \in DOMAIN snapshot.projects |->
                            projectSessionFromPersisted(snapshot.projects[p], taker)]]
    BY <1>6 DEF hydrateWorkspaceSessions
  <2>2. PICK K : K = SavedHome
    OBVIOUS
  <2>3. PICK H : H = HomeOf
    OBVIOUS
  <2>4. PICK ss : ss = snapshot.projects
    OBVIOUS
  <2>5. PICK pin : pin = snapshot.pinned
    OBVIOUS
  <2>6. /\ SavedStore(ss, K) /\ pin \in Seq(SavedTabs) /\ drafts \in [Paths -> 0 .. MaxEdits]
        /\ K \in [Projects -> SUBSET SavedTabs] /\ H \in [AllProjects -> SUBSET Tabs]
    BY <1>6, <2>2, <2>3, <2>4, <2>5, HomeTypes DEF TypeInv, SavedOK, ListsOK
  <2>7. \A p \in Projects : \A s \in K[p] : \A edits \in 0 .. MaxEdits :
            Tab(s.id, s.path, FALSE, edits) \in H[p]
    BY <2>2, <2>3 DEF SavedHome, HomeOf, SavedTabs, Tab, Tabs, AllProjects
  <2>8. editor' = [NoEditor EXCEPT !.tabs = Restored(pin, taker), !.active = FirstId(pin),
                      !.sessions = [p \in DOMAIN ss |-> projectSessionFromPersisted(ss[p], taker)]]
    BY <2>1, <2>4, <2>5
  <2>9. Store(editor', Tabs, H)
    BY <2>6, <2>7, <2>8, HydratedIs
  <2>10. current' = NoProject
    BY <1>6 DEF hydrateWorkspaceSessions, TypeInv, DownOK
  <2>11. PICK W : W = VisibleHome'
    OBVIOUS
  <2>12. PICK J : J = HomeOf'
    OBVIOUS
  <2>13. Tabs \subseteq W
    BY <2>10, <2>11 DEF VisibleHome
  <2>14. J \in [AllProjects -> SUBSET Tabs] /\ \A p \in AllProjects : H[p] \subseteq J[p]
    BY <2>3, <2>12, HomesGrow
  <2>15. Store(editor', W, J)
    BY <2>6, <2>9, <2>13, <2>14, LargerHomes
  <2>16. DOMAIN editor'.sessions \subseteq AllProjects
    BY <2>14, <2>15 DEF Store
  <2> QED
    BY <2>10, <2>11, <2>12, <2>15, <2>16, NoProjectIs DEF AtHome
<1> QED
  BY <1>1, <1>2, <1>3, <1>4, <1>5, <1>6

\* What is saved of a project are its tabs.
LEMMA SavedAtHome ==
  ASSUME TypeInv, AtHome, SavedStore(snapshot.projects, SavedHome), [Next]_workspaceVars
  PROVE  SavedStore(snapshot'.projects, SavedHome')
<1>1. PICK V : V = VisibleHome
  OBVIOUS
<1>2. PICK H : H = HomeOf
  OBVIOUS
<1>3. PICK K : K = SavedHome
  OBVIOUS
<1>4. PICK L : L = SavedHome'
  OBVIOUS
<1>5. /\ V \in SUBSET Tabs /\ H \in [AllProjects -> SUBSET Tabs] /\ Store(editor, V, H)
      /\ K \in [Projects -> SUBSET SavedTabs]
  BY <1>1, <1>2, <1>3, HomeTypes DEF AtHome
<1>6. \A t \in V : ~IsPinned(t) /\ current \in AllProjects => t \in H[current]
  BY <1>1, <1>2, NoProjectIs DEF VisibleHome, HomeOf
<1>7. \A p \in Projects : SavedOf(H[p]) \subseteq K[p]
  <2>1. ASSUME NEW p \in Projects, NEW t \in H[p]
        PROVE  [id |-> t.id, path |-> t.path, dirty |-> t.edits # Clean] \in K[p]
    <3>1. p \in AllProjects /\ t \in Tabs /\ p \in owner[t.id]
      BY <1>2, <2>1 DEF HomeOf, AllProjects
    <3>2. [id |-> t.id, path |-> t.path, dirty |-> t.edits # Clean] \in SavedTabs
      <4>1. (t.edits # Clean) \in BOOLEAN
        OBVIOUS
      <4>2. t.id \in 1 .. MaxIds /\ t.path \in Paths
        BY <3>1 DEF Tabs
      <4> QED
        BY <4>1, <4>2 DEF SavedTabs
    <3> QED
      BY <1>3, <3>1, <3>2 DEF SavedHome
  <2> QED
    BY <2>1 DEF SavedOf
<1>8. ASSUME NEW among
      PROVE  SavedStore(captureWorkspaceSessionSnapshot(editor, among).projects, K)
  BY <1>5, <1>6, <1>7, CaptureIs
<1>9. SavedStore(snapshot'.projects, K)
  BY <1>3, <1>8, SavedSteps
<1>10. DOMAIN L = Projects /\ DOMAIN K = Projects /\ \A p \in Projects : K[p] \subseteq L[p]
  BY <1>3, <1>4, HomesGrow DEF SavedHome
<1> QED
  BY <1>4, <1>9, <1>10, LargerSaved

LEMMA HomeNext ==
  ASSUME TypeInv, HomeInv, [Next]_workspaceVars
  PROVE  HomeInv'
<1> SUFFICES ASSUME ~blind' PROVE AtHome' /\ SavedStore(snapshot'.projects, SavedHome')
  BY DEF HomeInv
<1>1. AtHome /\ SavedStore(snapshot.projects, SavedHome)
  BY OwnersStay DEF HomeInv
<1>2. ~activateNamedWorkspace
  BY DEF activateNamedWorkspace
<1>3. AtHome'
  BY <1>1, <1>2, StepKinds, KindsAtHome, saveAsAtHome, OthersAtHome
<1> QED
  BY <1>1, <1>3, SavedAtHome

LEMMA InitHome ==
  ASSUME Init
  PROVE  HomeInv
<1>1. AtHome
  BY NoEditorIs DEF Init, AtHome, NoEditor, NoSessions
<1>2. ASSUME NothingLeft PROVE SavedStore(snapshot.projects, SavedHome)
  BY <1>2 DEF NothingLeft, NoSnapshot, NoSessions, SavedStore
<1>3. ASSUME NEW p \in Projects, NEW path \in Paths \ Pinned, NEW edits \in 0 .. MaxEdits,
             Left(p, path, edits)
      PROVE  SavedStore(snapshot.projects, SavedHome)
  <2> DEFINE t == Tab(1, path, FALSE, edits)
             ts == Saved(<<t>>)
             T == {u \in Tabs : u.id = 1}
  <2>1. t \in T /\ T \in SUBSET Tabs
    BY TabsType DEF Tab, Tabs
  <2>2. ts \in Seq(SavedOf(T)) /\ SavedOf(T) \subseteq SavedTabs
    <3> HIDE DEF t
    <3>1. <<t>> \in Seq(T)
      BY <2>1, Singleton
    <3> QED
      BY <2>1, <3>1, SavedIs
  <2>3. SavedOf(T) \subseteq SavedHome[p]
    <3>1. \A s \in SavedOf(T) : s.id = 1
      BY DEF SavedOf
    <3>2. p \in owner[1]
      BY <1>3, TabsType DEF Left
    <3> QED
      BY <2>2, <3>1, <3>2 DEF SavedHome
  <2>4. snapshot.projects = [q \in {p} |-> [tabs |-> ts, active |-> 1]]
    BY <1>3 DEF Left
  <2> HIDE DEF ts, T
  <2>5. ts \in Seq(SavedHome[p])
    BY <2>2, <2>3, SeqMonotonic
  <2> QED
    BY <2>4, <2>5, HomeTypes DEF SavedStore, Session
<1> QED
  BY <1>1, <1>2, <1>3 DEF Init, HomeInv

LEMMA HomeHolds == Spec => []HomeInv
<1>1. Init => HomeInv
  BY InitHome
<1>2. TypeInv /\ HomeInv /\ [Next]_workspaceVars => HomeInv'
  BY HomeNext
<1> QED
  BY <1>1, <1>2, TypesHold, PTL DEF Spec

LEMMA HomeIsHome ==
  ASSUME HomeInv
  PROVE  TabsAtHome
<1> SUFFICES ASSUME ~blind
             PROVE  /\ \A p \in DOMAIN editor.sessions :
                          \A t \in ToSet(editor.sessions[p].tabs) : p \in owner[t.id]
                    /\ current # NoProject =>
                          \A t \in ToSet(projectTabs(editor.tabs)) : current \in owner[t.id]
                    /\ current \notin DOMAIN editor.sessions
  BY DEF TabsAtHome
<1>1. AtHome
  BY DEF HomeInv
<1>2. ASSUME NEW p \in DOMAIN editor.sessions, NEW t \in ToSet(editor.sessions[p].tabs)
      PROVE  p \in owner[t.id]
  <2>1. p \in AllProjects /\ editor.sessions[p].tabs \in Seq(HomeOf[p])
    BY <1>1, HomeTypes DEF AtHome, Store, Session
  <2>2. t \in HomeOf[p]
    BY <2>1, ToSetIn
  <2> QED
    BY <2>1, <2>2 DEF HomeOf
<1>3. ASSUME current # NoProject, NEW t \in ToSet(projectTabs(editor.tabs))
      PROVE  current \in owner[t.id]
  <2>1. editor.tabs \in Seq(VisibleHome)
    BY <1>1 DEF AtHome, Store
  <2>2. t \in ToSet(editor.tabs) /\ ~IsPinned(t)
    BY <1>3, <2>1, SplitIs
  <2>3. t \in VisibleHome
    BY <2>1, <2>2, ToSetIn
  <2> QED
    BY <1>3, <2>2, <2>3 DEF VisibleHome
<1> QED
  BY <1>1, <1>2, <1>3 DEF AtHome

\* Switching, hiding, removing, saving and restarting never put the files of one
\* project among those of another, but for a step on stale knowledge.
THEOREM TabsStayAtHome == Spec => []TabsAtHome
<1>1. HomeInv => TabsAtHome
  BY HomeIsHome
<1> QED
  BY <1>1, HomeHolds, PTL

-----------------------------------------------------------------------------
(* Every unsaved text has its draft *)

\* The drafts stay, and their timer runs on.
Framed == (draftDue => draftDue') /\ drafts' = drafts /\ exposed \subseteq exposed'

LEMMA PublishFrame ==
  ASSUME NEW e, Publish(e)
  PROVE  draftDue => draftDue'
BY DEF Publish

LEMMA DraftFrame ==
  ASSUME [Next]_workspaceVars
  PROVE  \/ Framed
         \/ Type \/ Save \/ SaveAndClose \/ NamedShown \/ scheduleDraftPersist
         \/ Crash \/ requestAppClose \/ hydrateWorkspaceSessions \/ RecoverDiscard \/ RecoverFill
         \/ RecoverUnread
<1> USE DEF Untouched, UserActs, durable, counters, book
<1> DEFINE Kept == (draftDue => draftDue') /\ drafts' = drafts /\ exposed \subseteq exposed'
<1>1. ASSUME EditorAction PROVE Kept \/ Type \/ Save \/ SaveAndClose
  <2>1. ASSUME NEW path, OpenFile(path) PROVE Kept
    BY <2>1, PublishFrame DEF OpenFile
  <2>2. ASSUME NEW path, BeginDiff(path) PROVE Kept
    BY <2>2, PublishFrame DEF BeginDiff
  <2>3. ASSUME NEW path, BeginSaveAs(path) PROVE Kept
    BY <2>3 DEF BeginSaveAs
  <2>4. ASSUME NEW path, closeTabsForPath(path) \/ closeDiffTabsForPath(path) PROVE Kept
    BY <2>4, PublishFrame DEF closeTabsForPath, closeDiffTabsForPath
  <2>5. ASSUME NEW path, NEW to, renamePath(path, to) PROVE Kept
    BY <2>5, PublishFrame DEF renamePath
  <2>6. ASSUME NEW id, Activate(id) PROVE Kept
    BY <2>6, PublishFrame DEF Activate
  <2>7. ASSUME NEW id, NEW kind, closeWithConfirm(kind, id) PROVE Kept
    BY <2>7, PublishFrame DEF closeWithConfirm
  <2>8. ASSUME Reorder PROVE Kept
    <3>1. drafts' = drafts /\ exposed' = exposed
      BY <2>8 DEF Reorder
    <3>2. Publish(cycleTabMru(editor))
          \/ \E from, to \in DOMAIN editor.tabs : Publish(reorderTabs(editor, from, to))
      BY <2>8 DEF Reorder
    <3>3. \A e : Publish(e) => (draftDue => draftDue')
      BY PublishFrame
    <3>4. draftDue => draftDue'
      BY <3>2, <3>3
    <3> QED
      BY <3>1, <3>4
  <2>9. ASSUME openDiff PROVE Kept
    <3>1. drafts' = drafts /\ exposed' = exposed
      BY <2>9 DEF openDiff
    <3>2. draftDue' = draftDue \/ \E e : Publish(e)
      BY <2>9 DEF openDiff
    <3> QED
      BY <3>1, <3>2, PublishFrame
  <2>10. ASSUME saveAs PROVE Kept
    <3>1. drafts' = drafts /\ exposed' = exposed
      BY <2>10 DEF saveAs
    <3>2. draftDue' = draftDue \/ \E e : Publish(e)
      BY <2>10 DEF saveAs
    <3> QED
      BY <3>1, <3>2, PublishFrame
  <2>11. ASSUME DiscardAndClose PROVE Kept
    BY <2>11, PublishFrame DEF DiscardAndClose, CloseAnswered
  <2>12. ASSUME CancelClose PROVE Kept
    BY <2>12 DEF CancelClose
  <2> HIDE DEF Kept
  <2> QED
    BY <1>1, <2>1, <2>2, <2>3, <2>4, <2>5, <2>6, <2>7, <2>8, <2>9, <2>10, <2>11, <2>12
    DEF EditorAction
<1>2. ASSUME ProjectAction PROVE Kept \/ NamedShown
  <2>1. ASSUME NEW p, switchProject(p) \/ unhideProject(p) PROVE Kept
    BY <2>1 DEF switchProject, unhideProject
  <2>2. ASSUME NEW p, removeProjectWithConfirm(p) PROVE Kept
    BY <2>2, PublishFrame DEF removeProjectWithConfirm
  <2>3. ASSUME NEW open, Leave(open) PROVE draftDue => draftDue'
    BY <2>3, PublishFrame DEF Leave, clearCurrentProjectSession
  <2>4. ASSUME NEW ps, hideProjects(ps) PROVE Kept
    BY <2>3, <2>4 DEF hideProjects
  <2>5. ASSUME NEW e, NEW astray, Settle(e, astray) PROVE draftDue => draftDue'
    BY <2>5, PublishFrame DEF Settle
  <2>6. ASSUME SwitchDone \/ SwitchFails PROVE Kept
    <3>1. drafts' = drafts /\ exposed' = exposed
      BY <2>6 DEF SwitchDone, SwitchFails
    <3>2. \E e, astray : Settle(e, astray)
      BY <2>6 DEF SwitchDone, SwitchFails
    <3> QED
      BY <2>5, <3>1, <3>2
  <2>7. ASSUME addEmptyProject PROVE Kept
    BY <2>7, PublishFrame DEF addEmptyProject
  <2>8. ASSUME RemoveRow PROVE Kept
    BY <2>8, PublishFrame DEF RemoveRow
  <2>9. ASSUME RemoveReload PROVE Kept
    BY <2>9, PublishFrame DEF RemoveReload
  <2>10. ASSUME saveProjectsAsWorkspace \/ BeginNamed PROVE Kept
    BY <2>10 DEF saveProjectsAsWorkspace, BeginNamed
  <2>11. ASSUME activateNamedWorkspace PROVE Kept
    <3>1. drafts' = drafts /\ exposed \subseteq exposed'
      BY <2>11 DEF activateNamedWorkspace
    <3>2. \E e : Publish(e)
      BY <2>11 DEF activateNamedWorkspace
    <3> QED
      BY <3>1, <3>2, PublishFrame
  <2> HIDE DEF Kept
  <2> QED
    BY <1>2, <2>1, <2>2, <2>4, <2>6, <2>7, <2>8, <2>9, <2>10, <2>11 DEF ProjectAction
<1>3. ASSUME DurableAction
      PROVE  \/ Kept \/ scheduleDraftPersist \/ Crash \/ requestAppClose \/ hydrateWorkspaceSessions
             \/ RecoverDiscard \/ RecoverFill \/ RecoverUnread
  <2>1. ASSUME persistNow \/ RecoverRestore PROVE Kept
    BY <2>1 DEF persistNow, RecoverRestore
  <2>2. ASSUME loadProjects PROVE Kept
    BY <2>2, PublishFrame DEF loadProjects
  <2>3. ASSUME LoadFails PROVE Kept
    BY <2>3, PublishFrame DEF LoadFails
  <2>4. ASSUME Validated PROVE Kept
    <3>1. drafts' = drafts /\ exposed' = exposed
      BY <2>4 DEF Validated
    <3>2. draftDue' = draftDue \/ \E open : Leave(open)
      BY <2>4 DEF Validated
    <3>3. ASSUME NEW open, Leave(open) PROVE draftDue => draftDue'
      BY <3>3, PublishFrame DEF Leave, clearCurrentProjectSession
    <3> QED
      BY <3>1, <3>2, <3>3
  <2>5. ASSUME RecoverOpen PROVE Kept
    BY <2>5, PublishFrame DEF RecoverOpen
  <2> HIDE DEF Kept
  <2> QED
    BY <1>3, <2>1, <2>2, <2>3, <2>4, <2>5 DEF DurableAction
<1>4. CASE UNCHANGED workspaceVars
  BY <1>4 DEF workspaceVars, memory, Framed
<1>5. Kept => Framed
  BY DEF Framed
<1> HIDE DEF Kept
<1> QED
  BY <1>1, <1>2, <1>3, <1>4, <1>5 DEF Next

\* A set of tabs that holds all of them.
Everywhere(A) == [p \in AllProjects |-> A]

LEMMA StoreEverywhere ==
  ASSUME NEW e, Typed(e), NEW A, AllTabs(e) \subseteq A
  PROVE  Store(e, A, Everywhere(A))
<1>1. /\ Store(e, AllTabs(e), [p \in DOMAIN e.sessions |-> AllTabs(e)])
      /\ DOMAIN e.sessions \subseteq AllProjects
  BY AllTabsTyped
<1>2. PICK H : H = [p \in DOMAIN e.sessions |-> AllTabs(e)]
  OBVIOUS
<1>3. PICK J : J = Everywhere(A)
  OBVIOUS
<1>4. /\ DOMAIN H = DOMAIN e.sessions /\ DOMAIN J = AllProjects
      /\ \A p \in DOMAIN H : H[p] \subseteq J[p]
  BY <1>1, <1>2, <1>3 DEF Everywhere
<1>5. Store(e, AllTabs(e), H) /\ DOMAIN H \subseteq DOMAIN J
  BY <1>1, <1>2, <1>4
<1>6. Store(e, A, J)
  BY <1>4, <1>5, LargerHomes
<1> QED
  BY <1>3, <1>6

LEMMA TabsEverywhere ==
  ASSUME NEW e, NEW A, Store(e, A, Everywhere(A))
  PROVE  AllTabs(e) \subseteq A
<1>1. PICK J : J = Everywhere(A)
  OBVIOUS
<1>2. Store(e, A, J) /\ \A p \in DOMAIN J : J[p] \subseteq A
  BY <1>1 DEF Everywhere
<1> QED
  BY <1>2, AllTabsIn

\* Dropping, switching and leaving bring no tab from elsewhere.
LEMMA KindsTabs ==
  ASSUME TypeInv
  PROVE  /\ Shrinks \/ Switches \/ Clears => AllTabs(editor') \subseteq AllTabs(editor)
         /\ Opens => Dirty(AllTabs(editor')) \subseteq AllTabs(editor)
<1>0. Typed(editor)
  BY DEF TypeInv, StoreOK
<1>1. PICK A : A = AllTabs(editor)
  OBVIOUS
<1>2. PICK H : H = Everywhere(A)
  OBVIOUS
<1>3. /\ Store(editor, A, H) /\ A \in SUBSET Tabs /\ H \in [AllProjects -> SUBSET Tabs]
      /\ \A p \in AllProjects : H[p] = A
  BY <1>0, <1>1, <1>2, StoreEverywhere, AllTabsTyped DEF Everywhere
<1>4. ASSUME Shrinks PROVE AllTabs(editor') \subseteq A
  <2>1. Within(editor, editor', {})
    BY <1>4 DEF Shrinks
  <2>2. AllTabs(editor') \subseteq AllTabs(editor) \cup {}
    BY <1>0, <2>1, WithinTabs
  <2> QED
    BY <1>1, <2>2
<1>5. ASSUME Switches PROVE AllTabs(editor') \subseteq A
  <2>1. PICK from \in {switching.from, current}, to \in AllProjects :
          from # to /\ Within(activateProjectSession(editor, from, to), editor', {})
    BY <1>5 DEF Switches
  <2>2. PICK q : q = from
    OBVIOUS
  <2>3. PICK m : m = activateProjectSession(editor, q, to)
    OBVIOUS
  <2>4. PICK e : e = editor
    OBVIOUS
  <2>5. /\ Store(e, A, H) /\ q # to /\ H[to] \subseteq A /\ Typed(e)
        /\ \A t \in A : IsPinned(t) => t \in A
        /\ \A t \in A : ~IsPinned(t) /\ q \in AllProjects => t \in H[q]
    BY <1>0, <1>3, <2>1, <2>2, <2>4
  <2>6. /\ Store(activateProjectSession(e, q, to), A, H)
        /\ DOMAIN activateProjectSession(e, q, to).sessions
             = (DOMAIN e.sessions \cup ({q} \cap AllProjects)) \ {to}
        /\ ActivesOK(e) => ActivesOK(activateProjectSession(e, q, to))
    BY <1>3, <2>5, activateIs, ZenonT(60)
  <2>7. Store(m, A, H) /\ Typed(m)
    BY <2>3, <2>4, <2>5, <2>6, activateTyped
  <2>8. AllTabs(m) \subseteq A
    BY <1>2, <2>7, TabsEverywhere
  <2>9. Within(m, editor', {})
    BY <2>1, <2>2, <2>3
  <2>10. AllTabs(editor') \subseteq AllTabs(m) \cup {}
    BY <2>7, <2>9, WithinTabs
  <2> QED
    BY <2>8, <2>10
<1>6. ASSUME Clears PROVE AllTabs(editor') \subseteq A
  <2>1. current \in AllProjects /\ editor' = deactivateProjectSession(editor, current)
    BY <1>6 DEF Clears
  <2>2. (\A t \in A : ~IsPinned(t) => t \in H[current]) /\ (\A t \in A : IsPinned(t) => t \in A)
    BY <1>3, <2>1
  <2>3. Store(editor', A, H)
    BY <1>3, <2>1, <2>2, deactivateIs
  <2> QED
    BY <1>2, <2>3, TabsEverywhere
<1>7. ASSUME Opens PROVE Dirty(AllTabs(editor')) \subseteq AllTabs(editor)
  <2>1. PICK t \in Tabs : t.edits = Clean /\ Within(editor, editor', {t})
    BY <1>7 DEF Opens
  <2>2. {t} \in SUBSET Tabs
    OBVIOUS
  <2>3. AllTabs(editor') \subseteq AllTabs(editor) \cup {t}
    BY <1>0, <2>1, <2>2, WithinTabs
  <2> QED
    BY <2>1, <2>3 DEF Dirty
<1> QED
  BY <1>1, <1>4, <1>5, <1>6, <1>7

DraftInv ==
    /\ DraftsCover
    /\ dialog.kind = "recover" => \A t \in AllTabs(editor) : t.path \notin DOMAIN dialog.found

\* With the drafts and their timer left alone it is enough that no dirty tab
\* appears whose draft is not there.
LEMMA CoverKept ==
  ASSUME DraftsCover, Framed,
         \A u \in Dirty(AllTabs(editor')) :
            u \in AllTabs(editor) \/ u.id \in exposed'
  PROVE  DraftsCover'
<1> SUFFICES ASSUME ~draftDue', NEW u \in Dirty(AllTabs(editor'))
             PROVE  u.edits \in Long \/ drafts'[u.path] = u.edits \/ u.id \in exposed'
  BY DEF DraftsCover
<1>1. CASE u \in AllTabs(editor)
  <2>1. u \in Dirty(AllTabs(editor))
    BY <1>1 DEF Dirty
  <2> QED
    BY <2>1 DEF DraftsCover, Framed
<1>2. CASE u.id \in exposed'
  BY <1>2
<1> QED
  BY <1>1, <1>2

LEMMA LosingIs ==
  ASSUME NEW e, NEW u \in Dirty(AllTabs(e)), NEW paths, u.path \in paths
  PROVE  u.id \in Losing(e, paths)
BY DEF Losing

\* With the drafts of some paths taken away, the tabs they were for are exposed.
LEMMA CoverTaken ==
  ASSUME DraftsCover, draftDue => draftDue', exposed \subseteq exposed',
         NEW e, NEW paths, exposed' = exposed \cup Losing(e, paths),
         AllTabs(editor') \subseteq AllTabs(e),
         \A u \in Dirty(AllTabs(e)) : u \in AllTabs(editor),
         \A path \in Paths \ paths : drafts'[path] = drafts[path],
         AllTabs(editor) \subseteq Tabs
  PROVE  DraftsCover'
<1> SUFFICES ASSUME ~draftDue', NEW u \in Dirty(AllTabs(editor'))
             PROVE  u.edits \in Long \/ drafts'[u.path] = u.edits \/ u.id \in exposed'
  BY DEF DraftsCover
<1>1. u \in Dirty(AllTabs(e))
  BY DEF Dirty
<1>2. u \in Dirty(AllTabs(editor)) /\ u.path \in Paths
  BY <1>1 DEF Dirty, Tabs
<1>3. CASE u.path \in paths
  BY <1>1, <1>3, LosingIs
<1>4. CASE u.path \notin paths
  BY <1>2, <1>4 DEF DraftsCover
<1> QED
  BY <1>3, <1>4

LEMMA TypeCovers ==
  ASSUME TypeInv
  PROVE  Type => draftDue'
<1> SUFFICES ASSUME Type PROVE draftDue'
  OBVIOUS
<1>1. PICK i \in DOMAIN editor.tabs : editor.tabs[i].id = editor.active
  BY DEF Type
<1>2. PICK edits : edits = lastEdit + 1
  OBVIOUS
<1>3. edits \in 0 .. MaxEdits /\ edits # Clean
  BY <1>2, TabsType DEF Type, TypeInv, ListsOK, Clean
<1>4. Dirty(ToSet(SetText(editor, editor.active, edits).tabs)) # {}
  BY <1>1, <1>3, SetTextVisible DEF TypeInv, StoreOK
<1> QED
  BY <1>2, <1>4 DEF Type, PublishNew

LEMMA RecoverFillCovers ==
  ASSUME TypeInv, DraftsCover
  PROVE  RecoverFill => DraftsCover'
<1> SUFFICES ASSUME RecoverFill PROVE DraftsCover'
  OBVIOUS
<1> DEFINE there == {i \in DOMAIN editor.tabs : editor.tabs[i].path = op.path}
<1>1. CASE there = {}
  <2>1. UNCHANGED <<editor, draftDue, drafts, exposed>>
    BY <1>1 DEF RecoverFill
  <2> QED
    BY <2>1 DEF DraftsCover
<1>2. CASE there # {}
  <2>1. PICK i : i = Min(there)
    OBVIOUS
  <2>2. PICK edits : edits = op.left[op.path]
    OBVIOUS
  <2>3. PublishNew(SetText(editor, editor.tabs[i].id, edits))
    BY <1>2, <2>1, <2>2 DEF RecoverFill
  <2>4. i \in DOMAIN editor.tabs
    <3>1. there \in SUBSET Nat
      BY LenProperties DEF TypeInv, StoreOK, Typed, Store
    <3>2. i \in there
      <4> HIDE DEF there
      <4> QED
        BY <1>2, <2>1, <3>1, MinIs
    <3> QED
      BY <3>2
  <2>5. edits \in 0 .. MaxEdits /\ edits # Clean
    <3>1. op.path \in DOMAIN op.left /\ edits \in 1 .. MaxEdits
      BY <2>2 DEF RecoverFill, TypeInv, OpOK, NoOp, EditsLeft
    <3> QED
      BY <3>1, TabsType DEF Clean
  <2>6. Dirty(ToSet(SetText(editor, editor.tabs[i].id, edits).tabs)) # {}
    BY <2>4, <2>5, SetTextVisible DEF TypeInv, StoreOK
  <2>7. draftDue'
    BY <2>3, <2>6 DEF PublishNew
  <2> QED
    BY <2>7 DEF DraftsCover
<1> QED
  BY <1>1, <1>2

\* The draft taken for a tab that could not be filled.
LEMMA RecoverUnreadCovers ==
  ASSUME TypeInv, DraftsCover
  PROVE  RecoverUnread => DraftsCover'
<1> SUFFICES ASSUME RecoverUnread PROVE DraftsCover'
  OBVIOUS
<1>0. AllTabs(editor) \subseteq Tabs
  BY AllTabsTyped DEF TypeInv, StoreOK
<1>1. /\ editor' = editor /\ (draftDue => draftDue')
      /\ drafts' = [drafts EXCEPT ![op.path] = Clean]
      /\ exposed' = exposed \cup Losing(editor, {op.path})
  BY DEF RecoverUnread, PublishNew
<1>2. \A path \in Paths \ {op.path} : drafts'[path] = drafts[path]
  BY <1>1 DEF TypeInv, NumbersOK
<1>3. \A u \in Dirty(AllTabs(editor)) : u \in AllTabs(editor)
  BY DEF Dirty
<1> QED
  BY <1>0, <1>1, <1>2, <1>3, CoverTaken

\* What becomes of tabs that are given another text, path or none.
LEMMA SaveCovers ==
  ASSUME TypeInv, DraftsCover
  PROVE  Save => DraftsCover'
<1> SUFFICES ASSUME Save PROVE DraftsCover'
  OBVIOUS
<1>0. Typed(editor) /\ AllTabs(editor) \subseteq Tabs
  BY AllTabsTyped DEF TypeInv, StoreOK
<1>1. PICK e : e = SetText(editor, editor.active, Clean)
  OBVIOUS
<1>2. PICK t : /\ drafts' = [drafts EXCEPT ![t.path] = Clean]
               /\ exposed' = exposed \cup Losing(e, {t.path})
  BY <1>1 DEF Save
<1>3. editor' = e /\ (draftDue => draftDue')
  BY <1>1 DEF Save, Publish
<1>4. ASSUME NEW u \in Dirty(AllTabs(e)) PROVE u \in AllTabs(editor)
  <2>1. PICK C : C = TextSet(editor.active, Clean)
    OBVIOUS
  <2>2. Changed(editor, e, C)
    BY <1>0, <1>1, <2>1, CleanIs, SetTextIs
  <2>3. PICK s \in AllTabs(editor) : <<s, u>> \in C
    BY <1>4, <2>2, ChangedTabs DEF Dirty
  <2>4. u = s \/ u.edits = Clean
    BY <1>0, <2>1, <2>3 DEF TextSet, Tabs
  <2> QED
    BY <1>4, <2>3, <2>4 DEF Dirty
<1>5. \A path \in Paths \ {t.path} : drafts'[path] = drafts[path]
  BY <1>2 DEF TypeInv, ListsOK
<1>6. PICK paths : paths = {t.path}
  OBVIOUS
<1> QED
  BY <1>0, <1>2, <1>3, <1>4, <1>5, <1>6, CoverTaken

LEMMA SaveAndCloseCovers ==
  ASSUME TypeInv, DraftsCover
  PROVE  SaveAndClose => DraftsCover'
<1> SUFFICES ASSUME SaveAndClose PROVE DraftsCover'
  OBVIOUS
<1>0. Typed(editor) /\ AllTabs(editor) \subseteq Tabs
  BY AllTabsTyped DEF TypeInv, StoreOK
<1>1. PICK e : e = CleanTabs(editor, Asked)
  OBVIOUS
<1>2. PICK paths : paths = {t.path : t \in Asked}
  OBVIOUS
<1>3. /\ editor' = Close(e, dialog.kind, dialog.id) /\ (draftDue => draftDue')
      /\ drafts' = [path \in Paths |-> IF path \in paths THEN Clean ELSE drafts[path]]
      /\ exposed' = exposed \cup Losing(e, paths)
  BY <1>1, <1>2 DEF SaveAndClose, CloseAnswered, Publish
<1>4. dialog.kind \in {"one", "others", "right", "all"} /\ dialog.id \in Nat
  BY DEF SaveAndClose, Asking, TypeInv, DialogOK
<1>5. Typed(e)
  BY <1>1, CleanTabsOK DEF TypeInv, StoreOK
<1>6. AllTabs(editor') \subseteq AllTabs(e)
  <2>1. Within(e, editor', {})
    BY <1>3, <1>4, <1>5, CloseWithin
  <2>2. AllTabs(editor') \subseteq AllTabs(e) \cup {}
    BY <1>5, <2>1, WithinTabs
  <2> QED
    BY <2>2
<1>7. ASSUME NEW u \in Dirty(AllTabs(e)) PROVE u \in AllTabs(editor)
  <2>1. PICK C : C = CleanSet(Asked)
    OBVIOUS
  <2>2. Changed(editor, e, C)
    BY <1>0, <1>1, <2>1, CleanTabsIs
  <2>3. PICK s \in AllTabs(editor) : <<s, u>> \in C
    BY <1>7, <2>2, ChangedTabs DEF Dirty
  <2>4. u = s \/ u.edits = Clean
    BY <1>0, <2>1, <2>3 DEF CleanSet, Tabs
  <2> QED
    BY <1>7, <2>3, <2>4 DEF Dirty
<1>8. \A path \in Paths \ paths : drafts'[path] = drafts[path]
  BY <1>3
<1> QED
  BY <1>0, <1>3, <1>6, <1>7, <1>8, CoverTaken

LEMMA NamedShownCovers ==
  ASSUME TypeInv, DraftsCover
  PROVE  NamedShown => DraftsCover'
<1> SUFFICES ASSUME NamedShown PROVE DraftsCover'
  OBVIOUS
<1>0. AllTabs(editor) \subseteq Tabs
  BY AllTabsTyped DEF TypeInv, StoreOK
<1>1. PICK taker : /\ drafts' = DraftsLeft(taker)
                   /\ exposed' = exposed \cup Losing(editor, {path \in Paths : taker[path] # NoTab})
  BY DEF NamedShown
<1>2. editor' = editor /\ draftDue' = draftDue
  BY DEF NamedShown
<1>3. PICK paths : paths = {path \in Paths : taker[path] # NoTab}
  OBVIOUS
<1>4. \A path \in Paths \ paths : drafts'[path] = drafts[path]
  BY <1>1, <1>3 DEF DraftsLeft
<1>5. exposed' = exposed \cup Losing(editor, paths)
  BY <1>1, <1>3
<1>6. \A u \in Dirty(AllTabs(editor)) : u \in AllTabs(editor)
  BY DEF Dirty
<1>7. PICK e : e = editor
  OBVIOUS
<1> QED
  BY <1>0, <1>2, <1>4, <1>5, <1>6, <1>7, CoverTaken

LEMMA renamePathCovers ==
  ASSUME TypeInv, DraftsCover, Framed, NEW from \in Paths, NEW to \in Paths
  PROVE  renamePath(from, to) => DraftsCover'
<1> SUFFICES ASSUME renamePath(from, to) PROVE DraftsCover'
  OBVIOUS
<1>0. Typed(editor) /\ AllTabs(editor) \subseteq Tabs
  BY AllTabsTyped DEF TypeInv, StoreOK
<1>1. editor' = RenameTabs(editor, from, to) /\ exposed' = exposed \cup Losing(editor, {from})
  BY DEF renamePath, Publish
<1>2. ASSUME NEW u \in Dirty(AllTabs(editor')) PROVE u \in AllTabs(editor) \/ u.id \in exposed'
  <2>1. PICK C : C = PathSet(from, to)
    OBVIOUS
  <2>2. PICK n : n = editor'
    OBVIOUS
  <2>3. Changed(editor, n, C)
    BY <1>0, <1>1, <2>1, <2>2, RenameTabsIs
  <2>4. PICK s \in AllTabs(editor) : <<s, u>> \in C
    BY <1>2, <2>2, <2>3, ChangedTabs DEF Dirty
  <2>5. CASE u = s
    BY <2>4, <2>5
  <2>6. CASE s.path = from /\ u = [s EXCEPT !.path = to]
    <3>1. u.edits = s.edits /\ u.id = s.id
      BY <1>0, <2>4, <2>6 DEF Tabs
    <3>2. s \in Dirty(AllTabs(editor)) /\ s.path \in {from}
      BY <1>2, <2>4, <2>6, <3>1 DEF Dirty
    <3>3. s.id \in Losing(editor, {from})
      BY <3>2, LosingIs
    <3> QED
      BY <1>1, <3>1, <3>3
  <2> QED
    BY <2>1, <2>4, <2>5, <2>6 DEF PathSet
<1> QED
  BY <1>2, CoverKept

LEMMA saveAsCovers ==
  ASSUME TypeInv, DraftsCover, Framed
  PROVE  saveAs => DraftsCover'
<1> SUFFICES ASSUME saveAs PROVE DraftsCover'
  OBVIOUS
<1>0. Typed(editor) /\ AllTabs(editor) \subseteq Tabs /\ op.path \in Paths
  BY AllTabsTyped, SaveAsOp DEF saveAs, TypeInv, StoreOK
<1>1. CASE editor' = editor
  BY <1>1, CoverKept DEF Dirty
<1>2. ASSUME NEW gone, editor' = SavedUnder(closeTab(editor, gone), op.id, op.path)
      PROVE  DraftsCover'
  <2>1. PICK m : m = closeTab(editor, gone)
    OBVIOUS
  <2>2. Within(editor, m, {}) /\ Typed(m)
    BY <1>0, <2>1, closeTabWithin, WithinType
  <2>3. AllTabs(m) \subseteq AllTabs(editor)
    <3>1. AllTabs(m) \subseteq AllTabs(editor) \cup {}
      BY <1>0, <2>2, WithinTabs
    <3> QED
      BY <3>1
  <2>4. ASSUME NEW u \in Dirty(AllTabs(editor')) PROVE u \in AllTabs(editor)
    <3>1. PICK C : C = NameSet(op.id, op.path)
      OBVIOUS
    <3>2. PICK n : n = editor'
      OBVIOUS
    <3>3. Changed(m, n, C)
      BY <1>0, <1>2, <2>1, <2>2, <3>1, <3>2, SavedUnderIs
    <3>4. PICK s \in AllTabs(m) : <<s, u>> \in C
      BY <2>4, <3>2, <3>3, ChangedTabs DEF Dirty
    <3>5. u = s \/ u.edits = Clean
      BY <1>0, <2>3, <3>1, <3>4 DEF NameSet, Tabs
    <3> QED
      BY <2>3, <2>4, <3>4, <3>5 DEF Dirty
  <2> QED
    BY <2>4, CoverKept
<1> QED
  BY <1>1, <1>2 DEF saveAs, Publish

\* The sessions a named workspace brings are exposed until the timer has run.
LEMMA activateNamedCovers ==
  ASSUME TypeInv, DraftsCover, Framed
  PROVE  activateNamedWorkspace => DraftsCover'
<1> SUFFICES ASSUME activateNamedWorkspace PROVE DraftsCover'
  OBVIOUS
<1>0. Typed(editor) /\ AllTabs(editor) \subseteq Tabs
  BY AllTabsTyped DEF TypeInv, StoreOK
<1>1. SomeSessions(op.sessions)
  BY DEF activateNamedWorkspace, TypeInv, OpOK, NoOp
<1>2. PICK gs : gs = op.sessions
  OBVIOUS
<1>3. PICK S : S = AllTabs([NoEditor EXCEPT !.sessions = gs])
  OBVIOUS
<1>4. S = UNION {ToSet(gs[p].tabs) : p \in DOMAIN gs}
  <2>1. PICK n : n = [NoEditor EXCEPT !.sessions = gs]
    OBVIOUS
  <2>2. n.tabs = <<>> /\ n.sessions = gs
    BY <2>1 DEF NoEditor
  <2>3. ToSet(n.tabs) = {}
    BY <2>2, EmptySeq DEF ToSet
  <2> QED
    BY <1>3, <2>1, <2>2, <2>3 DEF AllTabs
<1>5. exposed' = exposed \cup {t.id : t \in Dirty(S)}
  BY <1>2, <1>3 DEF activateNamedWorkspace
<1>6. PICK A : A = AllTabs(editor) \cup S
  OBVIOUS
<1>7. ASSUME NEW p \in DOMAIN gs
      PROVE  gs[p] \in Session(Tabs) /\ ActiveOK(gs[p]) /\ ToSet(gs[p].tabs) \subseteq S
  BY <1>1, <1>2, <1>4, <1>7 DEF SomeSessions
<1>8. S \subseteq Tabs
  <2>1. ASSUME NEW p \in DOMAIN gs PROVE ToSet(gs[p].tabs) \subseteq Tabs
    <3>1. gs[p].tabs \in Seq(Tabs)
      BY <1>7, <2>1 DEF Session
    <3> QED
      BY <3>1, ToSetIn
  <2> QED
    BY <1>4, <2>1
<1>9. ASSUME NEW p \in DOMAIN gs PROVE gs[p] \in Session(A)
  <2>1. gs[p].tabs \in Seq(Tabs) /\ ToSet(gs[p].tabs) \subseteq A
    BY <1>6, <1>7, <1>9 DEF Session
  <2>2. gs[p].tabs \in Seq(A)
    BY <2>1, SeqOfPart
  <2> QED
    BY <1>7, <1>9, <2>2 DEF Session
<1>10. PICK H : H = Everywhere(A)
  OBVIOUS
<1>11. /\ A \in SUBSET Tabs /\ DOMAIN H = AllProjects /\ \A p \in AllProjects : H[p] = A
       /\ DOMAIN gs \subseteq AllProjects
  BY <1>0, <1>1, <1>2, <1>6, <1>8, <1>10 DEF Everywhere, SomeSessions
<1>12. Store(editor, A, H)
  BY <1>0, <1>6, <1>10, StoreEverywhere
<1>13. ASSUME NEW ss, DOMAIN ss \subseteq DOMAIN gs, \A p \in DOMAIN ss : ss[p] = gs[p]
       PROVE  Store(mergeProjectSessions(editor, ss), A, H)
  <2>1. DOMAIN ss \subseteq DOMAIN H
    BY <1>11, <1>13
  <2>2. \A p \in DOMAIN ss : ss[p] \in Session(H[p]) /\ ActiveOK(ss[p])
    <3>1. ASSUME NEW p \in DOMAIN ss PROVE ss[p] \in Session(H[p]) /\ ActiveOK(ss[p])
      <4>1. p \in DOMAIN gs /\ p \in AllProjects /\ ss[p] = gs[p] /\ H[p] = A
        BY <1>11, <1>13, <3>1
      <4> QED
        BY <1>7, <1>9, <4>1
    <3> QED
      BY <3>1
  <2>3. PICK e : e = editor
    OBVIOUS
  <2>4. Store(e, A, H)
    BY <1>12, <2>3
  <2>5. Store(mergeProjectSessions(e, ss), A, H)
    BY <2>1, <2>2, <2>4, mergeIs
  <2> QED
    BY <2>3, <2>5
<1>14. CASE editor' = mergeProjectSessions(editor, gs)
  <2>1. Store(editor', A, H)
    BY <1>13, <1>14
  <2>2. AllTabs(editor') \subseteq A
    BY <1>10, <2>1, TabsEverywhere
  <2> QED
    BY <1>5, <1>6, <2>2, CoverKept DEF Dirty
<1>15. CASE /\ current \in DOMAIN gs
            /\ editor' = applyVisibleProjectSession(
                            mergeProjectSessions(editor, Without(gs, current)), gs[current])
  <2>1. PICK m : m = mergeProjectSessions(editor, Without(gs, current))
    OBVIOUS
  <2>2. PICK s : s = gs[current]
    OBVIOUS
  <2>3. Store(m, A, H) /\ s \in Session(A)
    <3>1. /\ DOMAIN Without(gs, current) \subseteq DOMAIN gs
          /\ \A p \in DOMAIN Without(gs, current) : Without(gs, current)[p] = gs[p]
      BY DEF Without
    <3> QED
      BY <1>9, <1>13, <1>15, <2>1, <2>2, <3>1
  <2>4. editor' = applyVisibleProjectSession(m, s)
    BY <1>15, <2>1, <2>2
  <2>5. Store(editor', A, H)
    BY <1>11, <2>3, <2>4, applyIs
  <2>6. AllTabs(editor') \subseteq A
    BY <1>10, <2>5, TabsEverywhere
  <2> QED
    BY <1>5, <1>6, <2>6, CoverKept DEF Dirty
<1> QED
  BY <1>2, <1>14, <1>15 DEF activateNamedWorkspace, Publish

\* The timer, the end of the process and its start.
LEMMA TimerCovers ==
  ASSUME TypeInv, DraftsCover
  PROVE  /\ scheduleDraftPersist => DraftsCover'
         /\ Crash \/ requestAppClose => DraftsCover'
         /\ hydrateWorkspaceSessions => DraftsCover'
<1>1. ASSUME scheduleDraftPersist PROVE DraftsCover'
  <2>1. /\ editor' = editor
        /\ exposed' = {t.id : t \in {u \in Dirty(AllTabs(editor)) :
                                       u.edits \notin Long /\ drafts'[u.path] # u.edits}}
    BY <1>1 DEF scheduleDraftPersist
  <2> QED
    BY <2>1 DEF DraftsCover
<1>2. ASSUME Crash \/ requestAppClose PROVE DraftsCover'
  <2>1. editor' = NoEditor
    BY <1>2 DEF Crash, requestAppClose, Gone
  <2> QED
    BY <2>1, NoEditorIs DEF DraftsCover, Dirty
<1>3. ASSUME hydrateWorkspaceSessions PROVE DraftsCover'
  <2>1. exposed' = {t.id : t \in Dirty(AllTabs(editor'))}
    BY <1>3 DEF hydrateWorkspaceSessions
  <2> QED
    BY <2>1 DEF DraftsCover
<1> QED
  BY <1>1, <1>2, <1>3

\* While drafts are offered no handler adds a tab.
LEMMA WhenOffered ==
  ASSUME TypeInv, [Next]_workspaceVars, dialog.kind = "recover"
  PROVE  Shrinks \/ Switches \/ Clears
<1>0. op = NoOp /\ op.kind = "none" /\ dialog # NoDialog /\ phase # "down"
  BY DEF TypeInv, DialogOK, DownOK, NoDialog, NoOp
<1>1. CASE EditorAction
  <2>1. \A path \in Paths : ~OpenFile(path)
    BY <1>0 DEF OpenFile, UserActs, Quiet
  <2>2. ~openDiff /\ ~saveAs
    BY <1>0 DEF openDiff, saveAs
  <2>3. ~Type /\ ~Save
    BY <1>0 DEF Type, Save, UserActs, Quiet
  <2>4. ~SaveAndClose
    BY DEF SaveAndClose, Asking
  <2>5. \A from, to \in Paths : ~renamePath(from, to)
    BY <1>0 DEF renamePath, UserActs, Quiet
  <2> QED
    BY <1>1, <2>1, <2>2, <2>3, <2>4, <2>5, FileSteps, CloseSteps DEF EditorAction
<1>2. CASE ProjectAction
  <2>1. ~activateNamedWorkspace
    BY <1>0 DEF activateNamedWorkspace
  <2> QED
    BY <1>2, <2>1, SwitchSteps, ManageSteps DEF ProjectAction
<1>3. CASE DurableAction
  <2>1. ~hydrateWorkspaceSessions /\ ~RecoverOpen /\ ~RecoverFill /\ ~RecoverUnread
    BY <1>0 DEF hydrateWorkspaceSessions, RecoverOpen, RecoverFill, RecoverUnread
  <2> QED
    BY <1>3, <2>1, DurableSteps DEF DurableAction
<1>4. CASE UNCHANGED workspaceVars
  BY <1>4, StoreKept DEF workspaceVars, memory, book
<1> QED
  BY <1>1, <1>2, <1>3, <1>4 DEF Next

\* A question is left alone, goes, or comes with a close or with the start.
LEMMA DialogSteps ==
  ASSUME [Next]_workspaceVars
  PROVE  \/ dialog' \in {dialog, NoDialog}
         \/ hydrateWorkspaceSessions
         \/ \E kind \in {"one", "others", "right", "all"}, id \in 1 .. MaxIds :
               closeWithConfirm(kind, id)
<1> USE DEF Untouched, UserActs, durable, counters, book
<1> DEFINE Fine == dialog' = dialog \/ dialog' = NoDialog
           Closes == \E kind \in {"one", "others", "right", "all"}, id \in 1 .. MaxIds :
                        closeWithConfirm(kind, id)
<1>1. CASE EditorAction
  <2>1. ASSUME NEW path, OpenFile(path) \/ BeginDiff(path) \/ BeginSaveAs(path) PROVE Fine
    BY <2>1 DEF OpenFile, BeginDiff, BeginSaveAs
  <2>2. ASSUME NEW path, closeTabsForPath(path) \/ closeDiffTabsForPath(path) PROVE Fine
    BY <2>2 DEF closeTabsForPath, closeDiffTabsForPath
  <2>3. ASSUME NEW path, NEW to, renamePath(path, to) PROVE Fine
    BY <2>3 DEF renamePath
  <2>4. ASSUME NEW id, Activate(id) PROVE Fine
    BY <2>4 DEF Activate
  <2>5. ASSUME NEW id \in 1 .. MaxIds, NEW kind \in {"one", "others", "right", "all"},
               closeWithConfirm(kind, id)
        PROVE  Closes
    BY <2>5
  <2>6. ASSUME Reorder \/ Type \/ Save PROVE Fine
    BY <2>6 DEF Reorder, Type, Save
  <2>7. ASSUME openDiff \/ saveAs PROVE Fine
    <3>1. CASE openDiff
      BY <3>1 DEF openDiff
    <3>2. CASE saveAs
      BY <3>2 DEF saveAs
    <3> QED
      BY <2>7, <3>1, <3>2
  <2>8. ASSUME DiscardAndClose \/ SaveAndClose \/ CancelClose PROVE Fine
    BY <2>8 DEF DiscardAndClose, SaveAndClose, CancelClose
  <2>9. Fine \/ Closes
    <3> HIDE DEF Fine, Closes
    <3> QED
      BY <1>1, <2>1, <2>2, <2>3, <2>4, <2>5, <2>6, <2>7, <2>8 DEF EditorAction
  <2> QED
    BY <2>9
<1>2. CASE ProjectAction
  <2>1. ASSUME NEW p, switchProject(p) \/ unhideProject(p) \/ removeProjectWithConfirm(p) PROVE Fine
    BY <2>1 DEF switchProject, unhideProject, removeProjectWithConfirm
  <2>2. ASSUME NEW ps, hideProjects(ps) PROVE Fine
    BY <2>2 DEF hideProjects
  <2>3. ASSUME SwitchDone \/ SwitchFails \/ addEmptyProject PROVE Fine
    BY <2>3 DEF SwitchDone, SwitchFails, addEmptyProject
  <2>4. ASSUME RemoveRow \/ RemoveReload PROVE Fine
    BY <2>4 DEF RemoveRow, RemoveReload
  <2>5. ASSUME saveProjectsAsWorkspace \/ BeginNamed \/ NamedShown \/ activateNamedWorkspace
        PROVE  Fine
    BY <2>5 DEF saveProjectsAsWorkspace, BeginNamed, NamedShown, activateNamedWorkspace
  <2>6. Fine
    <3> HIDE DEF Fine
    <3> QED
      BY <1>2, <2>1, <2>2, <2>3, <2>4, <2>5 DEF ProjectAction
  <2> QED
    BY <2>6
<1>3. CASE DurableAction
  <2>1. ASSUME persistNow \/ scheduleDraftPersist \/ Crash \/ requestAppClose PROVE Fine
    BY <2>1 DEF persistNow, scheduleDraftPersist, Crash, requestAppClose, Gone
  <2>2. ASSUME loadProjects \/ LoadFails \/ Validated PROVE Fine
    BY <2>2 DEF loadProjects, LoadFails, Validated
  <2>3. ASSUME RecoverDiscard \/ RecoverRestore \/ RecoverOpen \/ RecoverFill \/ RecoverUnread
        PROVE  Fine
    BY <2>3 DEF RecoverDiscard, RecoverRestore, RecoverOpen, RecoverFill, RecoverUnread
  <2>4. Fine \/ hydrateWorkspaceSessions
    <3> HIDE DEF Fine
    <3> QED
      BY <1>3, <2>1, <2>2, <2>3 DEF DurableAction
  <2> QED
    BY <2>4
<1>4. CASE UNCHANGED workspaceVars
  BY <1>4 DEF workspaceVars, memory
<1> QED
  BY <1>1, <1>2, <1>3, <1>4 DEF Next

\* Only the start of the program offers drafts.
LEMMA OnlyStartOffers ==
  ASSUME [Next]_workspaceVars, dialog'.kind = "recover"
  PROVE  dialog' = dialog \/ hydrateWorkspaceSessions
<1>1. dialog' # NoDialog
  BY DEF NoDialog
<1>2. ASSUME NEW kind \in {"one", "others", "right", "all"}, NEW id, closeWithConfirm(kind, id)
      PROVE  dialog' = dialog
  <2>1. dialog' = dialog \/ dialog'.kind = kind
    BY <1>2 DEF closeWithConfirm
  <2>2. kind # "recover"
    BY <1>2
  <2> QED
    BY <2>1, <2>2
<1> QED
  BY <1>1, <1>2, DialogSteps

LEMMA OfferedNext ==
  ASSUME TypeInv, DraftInv, [Next]_workspaceVars, dialog'.kind = "recover"
  PROVE  \A t \in AllTabs(editor') : t.path \notin DOMAIN dialog'.found
<1>1. CASE hydrateWorkspaceSessions
  <2> DEFINE orphans == {path \in Paths : drafts[path] # Clean
                                          /\ \A t \in AllTabs(editor') : t.path # path}
  <2>1. dialog' = IF orphans = {} THEN NoDialog
                  ELSE [kind |-> "recover", found |-> [path \in orphans |-> drafts[path]]]
    BY <1>1, ZenonT(60) DEF hydrateWorkspaceSessions
  <2>2. \A t \in AllTabs(editor') : t.path \notin orphans
    OBVIOUS
  <2> HIDE DEF orphans
  <2>3. dialog' = [kind |-> "recover", found |-> [path \in orphans |-> drafts[path]]]
    BY <2>1 DEF NoDialog
  <2>4. DOMAIN dialog'.found = orphans
    BY <2>3
  <2> QED
    BY <2>2, <2>4
<1>2. CASE dialog' = dialog
  <2>1. AllTabs(editor') \subseteq AllTabs(editor)
    BY <1>2, WhenOffered, KindsTabs
  <2> QED
    BY <1>2, <2>1 DEF DraftInv
<1> QED
  BY <1>1, <1>2, OnlyStartOffers

LEMMA CoverNext ==
  ASSUME TypeInv, DraftInv, [Next]_workspaceVars
  PROVE  DraftsCover'
<1>0. DraftsCover
  BY DEF DraftInv
<1>1. ASSUME Framed PROVE DraftsCover'
  <2>1. CASE Shrinks \/ Opens \/ Switches \/ Clears
    <3>1. Dirty(AllTabs(editor')) \subseteq AllTabs(editor)
      BY <2>1, KindsTabs DEF Dirty
    <3> QED
      BY <1>0, <1>1, <3>1, CoverKept
  <2>2. CASE Type \/ Save \/ SaveAndClose \/ RecoverFill \/ hydrateWorkspaceSessions
    BY <1>0, <2>2, TypeCovers, SaveCovers, SaveAndCloseCovers, RecoverFillCovers, TimerCovers
    DEF DraftsCover
  <2>3. CASE saveAs \/ activateNamedWorkspace
    BY <1>0, <1>1, <2>3, saveAsCovers, activateNamedCovers
  <2>4. ASSUME NEW from \in Paths, NEW to \in Paths, renamePath(from, to) PROVE DraftsCover'
    BY <1>0, <1>1, <2>4, renamePathCovers
  <2> QED
    BY <2>1, <2>2, <2>3, <2>4, StepKinds
<1>2. CASE Type
  BY <1>2, TypeCovers DEF DraftsCover
<1>3. ASSUME RecoverDiscard PROVE DraftsCover'
  <2>1. /\ dialog.kind = "recover" /\ UNCHANGED <<editor, draftDue, exposed>>
        /\ drafts' = [path \in Paths |-> IF path \in DOMAIN dialog.found THEN Clean
                                         ELSE drafts[path]]
    BY <1>3 DEF RecoverDiscard
  <2>2. AllTabs(editor) \subseteq Tabs
    BY AllTabsTyped DEF TypeInv, StoreOK
  <2>3. ASSUME NEW u \in Dirty(AllTabs(editor)) PROVE drafts'[u.path] = drafts[u.path]
    <3>1. u \in AllTabs(editor) /\ u.path \in Paths
      BY <2>2 DEF Dirty, Tabs
    <3>2. u.path \notin DOMAIN dialog.found
      BY <2>1, <3>1 DEF DraftInv
    <3> QED
      BY <2>1, <3>1, <3>2
  <2> QED
    BY <1>0, <2>1, <2>3 DEF DraftsCover
<1> QED
  BY <1>0, <1>1, <1>2, <1>3, DraftFrame, SaveCovers, SaveAndCloseCovers, NamedShownCovers,
     RecoverFillCovers, RecoverUnreadCovers, TimerCovers

LEMMA DraftsHold == Spec => []DraftInv
<1>1. ASSUME Init PROVE DraftInv
  <2>1. editor = NoEditor /\ dialog = NoDialog
    BY <1>1 DEF Init
  <2>2. DraftsCover
    BY <2>1, NoEditorIs DEF DraftsCover, Dirty
  <2>3. dialog.kind # "recover"
    BY <2>1 DEF NoDialog
  <2> QED
    BY <2>2, <2>3 DEF DraftInv
<1>2. TypeInv /\ DraftInv /\ [Next]_workspaceVars => DraftInv'
  <2>1. ASSUME TypeInv, DraftInv, [Next]_workspaceVars PROVE DraftInv'
    BY <2>1, CoverNext, OfferedNext DEF DraftInv
  <2> QED
    BY <2>1
<1> QED
  BY <1>1, <1>2, TypesHold, PTL DEF Spec

\* Once the drafts' timer has fired, every unsaved text, in whichever project, has
\* its draft: a crash loses none. Exposed tabs are those whose draft a save, a
\* rename or a restore has taken since.
THEOREM DraftsAreThere == Spec => []DraftsCover
<1>1. DraftInv => DraftsCover
  BY DEF DraftInv
<1> QED
  BY <1>1, DraftsHold, PTL

-----------------------------------------------------------------------------
(* Where the tabs are, as sets *)

\* The stashed tabs of p, and the tabs of p when c is current: of c itself the visible
\* ones, whatever its stash says.
StashOf(e, p) == IF p \in DOMAIN e.sessions THEN ToSet(e.sessions[p].tabs) ELSE {}
TabsOf(e, c, p) == IF p = c THEN ToSet(e.tabs) ELSE StashOf(e, p)

LEMMA EmptyToSet == ToSet(<<>>) = {}
BY DEF ToSet

LEMMA ListSet ==
  ASSUME NEW S, NEW ts \in Seq(S)
  PROVE  ts = <<>> <=> ToSet(ts) = {}
<1>1. Len(ts) \in Nat /\ DOMAIN ts = 1 .. Len(ts)
  BY LenProperties
<1>2. ASSUME ts # <<>> PROVE ToSet(ts) # {}
  <2>1. 1 \in DOMAIN ts
    BY <1>1, <1>2, EmptySeq
  <2> QED
    BY <2>1 DEF ToSet
<1> QED
  BY <1>2, EmptyToSet

LEMMA ConcatSet ==
  ASSUME NEW S, NEW a \in Seq(S), NEW b \in Seq(S)
  PROVE  ToSet(a \o b) = ToSet(a) \cup ToSet(b)
<1> DEFINE c == a \o b
<1>1. /\ c \in Seq(S) /\ Len(c) = Len(a) + Len(b)
      /\ \A i \in 1 .. (Len(a) + Len(b)) : c[i] = IF i <= Len(a) THEN a[i] ELSE b[i - Len(a)]
  BY ConcatProperties
<1> HIDE DEF c
<1>2. /\ Len(a) \in Nat /\ Len(b) \in Nat /\ DOMAIN a = 1 .. Len(a) /\ DOMAIN b = 1 .. Len(b)
      /\ DOMAIN c = 1 .. (Len(a) + Len(b))
  BY <1>1, LenProperties
<1>3. ASSUME NEW i \in DOMAIN a PROVE i \in DOMAIN c /\ c[i] = a[i]
  BY <1>1, <1>2
<1>4. ASSUME NEW i \in DOMAIN b PROVE \E j \in DOMAIN c : c[j] = b[i]
  <2> DEFINE j == Len(a) + i
  <2>1. j \in DOMAIN c /\ ~(j <= Len(a)) /\ j - Len(a) = i
    BY <1>2
  <2> HIDE DEF j
  <2>2. c[j] = b[i]
    BY <1>1, <1>2, <2>1
  <2> QED
    BY <2>1, <2>2
<1>5. ASSUME NEW i \in DOMAIN c
      PROVE  (\E j \in DOMAIN a : c[i] = a[j]) \/ (\E j \in DOMAIN b : c[i] = b[j])
  <2>1. CASE i <= Len(a)
    BY <1>1, <1>2, <2>1
  <2>2. CASE ~(i <= Len(a))
    <3>1. i - Len(a) \in DOMAIN b
      BY <1>2, <2>2
    <3> QED
      BY <1>1, <1>2, <2>2, <3>1
  <2> QED
    BY <2>1, <2>2
<1>6. ToSet(c) = ToSet(a) \cup ToSet(b)
  BY <1>3, <1>4, <1>5 DEF ToSet
<1> QED
  BY <1>6 DEF c

\* The lists of a store of the right type.
LEMMA TypedLists ==
  ASSUME NEW e, Typed(e)
  PROVE  /\ e.tabs \in Seq(Tabs) /\ ToSet(e.tabs) \in SUBSET Tabs
         /\ DOMAIN e.sessions \subseteq AllProjects
         /\ \A p \in DOMAIN e.sessions :
              e.sessions[p].tabs \in Seq(Tabs) /\ ToSet(e.sessions[p].tabs) \in SUBSET Tabs
<1>1. e.tabs \in Seq(Tabs) /\ DOMAIN e.sessions \subseteq AllProjects
  BY DEF Typed, Store, EverySession
<1>2. ASSUME NEW p \in DOMAIN e.sessions PROVE e.sessions[p].tabs \in Seq(Tabs)
  BY DEF Typed, Store, EverySession, Session
<1> QED
  BY <1>1, <1>2, ToSetIn

\* The tabs of a store: the visible ones and every stash.
LEMMA AllTabsAre ==
  ASSUME NEW e, NEW t
  PROVE  t \in AllTabs(e) <=> t \in ToSet(e.tabs) \/ \E p \in DOMAIN e.sessions : t \in StashOf(e, p)
BY DEF AllTabs, StashOf

\* Where the tabs are after a switch.
LEMMA activateSets ==
  ASSUME NEW e, Typed(e), NEW from, NEW to \in AllProjects, from # to,
         NEW n, n = activateProjectSession(e, from, to)
  PROVE  /\ ToSet(n.tabs) = {t \in StashOf(e, to) : ~IsPinned(t)}
                            \cup {t \in ToSet(e.tabs) : IsPinned(t)}
         /\ DOMAIN n.sessions = (DOMAIN e.sessions \cup ({from} \cap AllProjects)) \ {to}
         /\ \A p \in DOMAIN n.sessions :
              StashOf(n, p) = IF p = from THEN {t \in ToSet(e.tabs) : ~IsPinned(t)}
                              ELSE StashOf(e, p)
<1> DEFINE kept == IF from \in AllProjects THEN With(e.sessions, from, Stashed(e)) ELSE e.sessions
           incoming == IF to \in DOMAIN kept THEN kept[to] ELSE [tabs |-> <<>>, active |-> NoTab]
           a == projectTabs(incoming.tabs)
           b == pinned(e.tabs)
<1>1. n.tabs = a \o b /\ n.sessions = Without(kept, to)
  BY DEF activateProjectSession
<1>2. /\ DOMAIN kept = DOMAIN e.sessions \cup ({from} \cap AllProjects)
      /\ from \in AllProjects => kept[from] = Stashed(e)
      /\ \A p \in DOMAIN e.sessions : p # from => kept[p] = e.sessions[p]
  <2>1. CASE from \in AllProjects
    <3>1. kept = [q \in DOMAIN e.sessions \cup {from} |-> IF q = from THEN Stashed(e)
                                                          ELSE e.sessions[q]]
      BY <2>1 DEF With
    <3> QED
      BY <2>1, <3>1
  <2>2. CASE from \notin AllProjects
    BY <2>2
  <2> QED
    BY <2>1, <2>2
<1> HIDE DEF kept
<1>3. incoming.tabs \in Seq(Tabs) /\ ToSet(incoming.tabs) = StashOf(e, to)
  <2>1. CASE to \in DOMAIN e.sessions
    <3>1. incoming = e.sessions[to]
      BY <1>2, <2>1
    <3> QED
      BY <2>1, <3>1, TypedLists DEF StashOf
  <2>2. CASE to \notin DOMAIN e.sessions
    <3>1. incoming.tabs = <<>>
      BY <1>2, <2>2
    <3> QED
      BY <2>2, <3>1, EmptySeq, EmptyToSet DEF StashOf
  <2> QED
    BY <2>1, <2>2
<1> HIDE DEF incoming
<1>4. e.tabs \in Seq(Tabs)
  BY TypedLists
<1>5. /\ a \in Seq(Tabs) /\ b \in Seq(Tabs)
      /\ ToSet(a) = {t \in StashOf(e, to) : ~IsPinned(t)}
      /\ ToSet(b) = {t \in ToSet(e.tabs) : IsPinned(t)}
  <2>1. {t \in Tabs : ~IsPinned(t)} \subseteq Tabs /\ {t \in Tabs : IsPinned(t)} \subseteq Tabs
    OBVIOUS
  <2>2. a \in Seq({t \in Tabs : ~IsPinned(t)}) /\ b \in Seq({t \in Tabs : IsPinned(t)})
    BY <1>3, <1>4, SplitIs
  <2>3. /\ ToSet(a) = {t \in ToSet(incoming.tabs) : ~IsPinned(t)}
        /\ ToSet(b) = {t \in ToSet(e.tabs) : IsPinned(t)}
    BY <1>3, <1>4, SplitIs
  <2> HIDE DEF a, b
  <2> QED
    BY <1>3, <2>1, <2>2, <2>3, SeqMonotonic
<1> HIDE DEF a, b
<1>6. ToSet(n.tabs) = {t \in StashOf(e, to) : ~IsPinned(t)}
                      \cup {t \in ToSet(e.tabs) : IsPinned(t)}
  BY <1>1, <1>5, ConcatSet
<1>7. /\ DOMAIN n.sessions = DOMAIN kept \ {to}
      /\ \A p \in DOMAIN n.sessions : n.sessions[p] = kept[p]
  BY <1>1 DEF Without
<1>8. ASSUME NEW p \in DOMAIN n.sessions
      PROVE  StashOf(n, p) = IF p = from THEN {t \in ToSet(e.tabs) : ~IsPinned(t)}
                             ELSE StashOf(e, p)
  <2>1. CASE p = from
    <3>1. n.sessions[p].tabs = projectTabs(e.tabs)
      <4>1. p \in AllProjects
        BY <1>2, <1>7, TypedLists
      <4> QED
        BY <1>2, <1>7, <2>1, <4>1 DEF Stashed
    <3>2. ToSet(projectTabs(e.tabs)) = {t \in ToSet(e.tabs) : ~IsPinned(t)}
      BY <1>4, SplitIs
    <3> QED
      BY <2>1, <3>1, <3>2 DEF StashOf
  <2>2. CASE p # from
    <3>1. p \in DOMAIN e.sessions /\ n.sessions[p] = e.sessions[p]
      BY <1>2, <1>7, <2>2
    <3> QED
      BY <2>2, <3>1 DEF StashOf
  <2> QED
    BY <2>1, <2>2
<1> QED
  BY <1>2, <1>6, <1>7, <1>8

\* ... and after the project has been left.
LEMMA deactivateSets ==
  ASSUME NEW e, Typed(e), NEW p \in AllProjects,
         NEW n, n = deactivateProjectSession(e, p)
  PROVE  /\ ToSet(n.tabs) = {t \in ToSet(e.tabs) : IsPinned(t)}
         /\ DOMAIN n.sessions = DOMAIN e.sessions \cup {p}
         /\ \A q \in DOMAIN n.sessions :
              StashOf(n, q) = IF q = p THEN {t \in ToSet(e.tabs) : ~IsPinned(t)} ELSE StashOf(e, q)
<1>1. n.tabs = pinned(e.tabs) /\ n.sessions = With(e.sessions, p, Stashed(e))
  BY DEF deactivateProjectSession
<1>2. /\ DOMAIN n.sessions = DOMAIN e.sessions \cup {p}
      /\ n.sessions[p] = Stashed(e)
      /\ \A q \in DOMAIN e.sessions : q # p => n.sessions[q] = e.sessions[q]
  BY <1>1 DEF With
<1>3. /\ ToSet(pinned(e.tabs)) = {t \in ToSet(e.tabs) : IsPinned(t)}
      /\ ToSet(projectTabs(e.tabs)) = {t \in ToSet(e.tabs) : ~IsPinned(t)}
  BY TypedLists, SplitIs
<1>4. ASSUME NEW q \in DOMAIN n.sessions
      PROVE  StashOf(n, q) = IF q = p THEN {t \in ToSet(e.tabs) : ~IsPinned(t)} ELSE StashOf(e, q)
  <2>1. CASE q = p
    BY <1>2, <1>3, <2>1 DEF StashOf, Stashed
  <2>2. CASE q # p
    BY <1>2, <2>2 DEF StashOf
  <2> QED
    BY <2>1, <2>2
<1> QED
  BY <1>1, <1>2, <1>3, <1>4

\* Sessions dropped: the tabs of the others stay where they are.
LEMMA pruneSets ==
  ASSUME NEW e, Typed(e), NEW known, NEW n, n = pruneWorkspaceSessions(e, known)
  PROVE  /\ n.tabs = e.tabs /\ DOMAIN n.sessions = DOMAIN e.sessions \cap known
         /\ \A p \in DOMAIN n.sessions : StashOf(n, p) = StashOf(e, p)
<1>1. n.tabs = e.tabs /\ n.sessions = [p \in DOMAIN e.sessions \cap known |-> e.sessions[p]]
  BY DEF pruneWorkspaceSessions, Typed, Store
<1> QED
  BY <1>1 DEF StashOf

-----------------------------------------------------------------------------
(* A start loses no saved session *)

\* What is saved for a project are tabs of projects, never those of the global
\* settings.
PlainSaved == [p \in Projects |-> {s \in SavedTabs : s.path \notin Pinned}]
PlainInv == SavedStore(snapshot.projects, PlainSaved)

LEMMA CapturePlain ==
  ASSUME TypeInv, NEW among
  PROVE  SavedStore(captureWorkspaceSessionSnapshot(editor, among).projects, PlainSaved)
<1> DEFINE full == {p \in among \cap projects \cap Projects : Sessions(editor, p).tabs # <<>>}
           c == captureWorkspaceSessionSnapshot(editor, among)
           T == {t \in Tabs : ~IsPinned(t)}
<1>1. c.projects = [p \in full |-> SavedSession(Sessions(editor, p))]
  BY DEF captureWorkspaceSessionSnapshot
<1>2. full \in SUBSET Projects
  OBVIOUS
<1> HIDE DEF full, c
<1>3. ASSUME NEW s \in SavedOf(T) PROVE s \in SavedTabs /\ s.path \notin Pinned
  <2>1. PICK t \in T : s = [id |-> t.id, path |-> t.path, dirty |-> t.edits # Clean]
    BY DEF SavedOf
  <2>2. t.id \in 1 .. MaxIds /\ t.path \in Paths /\ t.path \notin Pinned
    BY DEF Tabs, IsPinned
  <2>3. (t.edits # Clean) \in BOOLEAN
    OBVIOUS
  <2> QED
    BY <2>1, <2>2, <2>3 DEF SavedTabs
<1>4. ASSUME NEW p \in full PROVE SavedSession(Sessions(editor, p)) \in Session(PlainSaved[p])
  <2> DEFINE s == Sessions(editor, p)
             ts == projectTabs(s.tabs)
  <2>1. s \in Session(Tabs)
    <3>1. PICK H : H = EverySession
      OBVIOUS
    <3>2. PICK V : V = Tabs
      OBVIOUS
    <3>3. /\ V \in SUBSET Tabs /\ H \in [AllProjects -> SUBSET Tabs] /\ Store(editor, V, H)
          /\ \A t \in V : ~IsPinned(t) /\ current \in AllProjects => t \in H[current]
      BY <3>1, <3>2 DEF EverySession, TypeInv, StoreOK, Typed
    <3>4. p \in AllProjects
      BY <1>2 DEF AllProjects
    <3>5. s \in Session(H[p])
      BY <3>3, <3>4, SessionsIs
    <3> QED
      BY <3>1, <3>4, <3>5 DEF EverySession
  <2> HIDE DEF s
  <2>2. s.tabs \in Seq(Tabs) /\ s.active \in Nat
    BY <2>1 DEF Session
  <2>3. ts \in Seq(T)
    BY <2>2, SplitIs
  <2> HIDE DEF ts
  <2>4. SavedOf(T) \subseteq PlainSaved[p]
    BY <1>2, <1>3 DEF PlainSaved
  <2>5. T \in SUBSET Tabs
    OBVIOUS
  <2> HIDE DEF T
  <2>6. Saved(ts) \in Seq(PlainSaved[p])
    BY <2>3, <2>4, <2>5, SavedIs, SeqMonotonic
  <2>7. SavedSession(s) = [tabs |-> Saved(ts), active |-> s.active]
    BY DEF SavedSession, ts
  <2> QED
    BY <2>2, <2>6, <2>7 DEF Session, s
<1> QED
  BY <1>1, <1>2, <1>4 DEF SavedStore, PlainSaved, c

LEMMA PlainNext ==
  ASSUME TypeInv, PlainInv, [Next]_workspaceVars
  PROVE  PlainInv'
<1>1. \/ snapshot' = snapshot
      \/ \E among : snapshot' = captureWorkspaceSessionSnapshot(editor, among)
  BY SavedSteps
<1>2. SavedStore(snapshot'.projects, PlainSaved)
  BY <1>1, CapturePlain DEF PlainInv
<1>3. PlainSaved' = PlainSaved
  BY DEF PlainSaved, SavedTabs
<1> QED
  BY <1>2, <1>3 DEF PlainInv, SavedStore

LEMMA InitPlain ==
  ASSUME Init
  PROVE  PlainInv
<1>1. ASSUME NothingLeft PROVE PlainInv
  BY <1>1 DEF NothingLeft, NoSnapshot, NoSessions, SavedStore, PlainInv
<1>2. ASSUME NEW p \in Projects, NEW path \in Paths \ Pinned, NEW edits \in 0 .. MaxEdits,
             Left(p, path, edits)
      PROVE  PlainInv
  <2> DEFINE t == Tab(1, path, FALSE, edits)
             ts == Saved(<<t>>)
             s == [id |-> 1, path |-> path, dirty |-> edits # Clean]
  <2>1. ts = <<s>>
    BY DEF Saved, Tab
  <2>2. s \in PlainSaved[p]
    <3>1. (edits # Clean) \in BOOLEAN /\ 1 \in 1 .. MaxIds
      BY TabsType
    <3> QED
      BY <3>1 DEF PlainSaved, SavedTabs
  <2> HIDE DEF s
  <2>3. ts \in Seq(PlainSaved[p])
    BY <2>1, <2>2, Singleton
  <2>4. snapshot.projects = [q \in {p} |-> [tabs |-> ts, active |-> 1]]
    BY <1>2 DEF Left
  <2> HIDE DEF ts
  <2> QED
    BY <2>3, <2>4 DEF SavedStore, Session, PlainInv, PlainSaved
<1> QED
  BY <1>1, <1>2 DEF Init

\* The projects with saved tabs, and a project that has one in the store.
Resumable == {p \in DOMAIN snapshot.projects : snapshot.projects[p].tabs # <<>>}
HasTab(e, c, p) == \E t \in TabsOf(e, c, p) : ~IsPinned(t)

\* Until the user acts nothing waits but a switch from the current project, and
\* every project with a saved session has a tab in the store and is listed.
StartInv ==
    phase # "down" /\ ~touched /\ ~failed =>
        /\ op = NoOp /\ ~Asking
        /\ \A p \in Resumable \cap db : HasTab(editor, current, p)
        /\ phase = "boot" => current = NoProject /\ switching = NoSwitch
        /\ phase # "boot" => db \subseteq projects
        /\ validating => phase = "ready" /\ switching = NoSwitch
        /\ switching # NoSwitch => switching.from = current

\* The steps the program takes by itself.
LEMMA UntouchedSteps ==
  ASSUME [Next]_workspaceVars, ~touched', op = NoOp, ~Asking
  PROVE  \/ hydrateWorkspaceSessions \/ loadProjects \/ LoadFails
         \/ SwitchDone \/ SwitchFails \/ Validated
         \/ persistNow \/ scheduleDraftPersist \/ Crash \/ requestAppClose
         \/ UNCHANGED workspaceVars
<1>1. ~UserActs /\ op.kind = "none"
  BY DEF UserActs, NoOp
<1>2. ~EditorAction
  <2>1. ASSUME NEW path, NEW to
        PROVE  /\ ~OpenFile(path) /\ ~BeginDiff(path) /\ ~BeginSaveAs(path)
               /\ ~closeTabsForPath(path) /\ ~closeDiffTabsForPath(path) /\ ~renamePath(path, to)
    BY <1>1 DEF OpenFile, BeginDiff, BeginSaveAs, closeTabsForPath, closeDiffTabsForPath, renamePath
  <2>2. ASSUME NEW id, NEW kind PROVE ~Activate(id) /\ ~closeWithConfirm(kind, id)
    BY <1>1 DEF Activate, closeWithConfirm
  <2>3. ~Reorder /\ ~Type /\ ~Save /\ ~openDiff /\ ~saveAs
    BY <1>1 DEF Reorder, Type, Save, openDiff, saveAs
  <2>4. ~DiscardAndClose /\ ~SaveAndClose /\ ~CancelClose
    BY DEF DiscardAndClose, SaveAndClose, CancelClose
  <2> QED
    BY <2>1, <2>2, <2>3, <2>4 DEF EditorAction
<1>3. ASSUME ProjectAction PROVE SwitchDone \/ SwitchFails
  <2>1. ASSUME NEW p PROVE ~switchProject(p) /\ ~unhideProject(p) /\ ~removeProjectWithConfirm(p)
                           /\ ~hideProjects(p)
    BY <1>1 DEF switchProject, unhideProject, removeProjectWithConfirm, hideProjects
  <2>2. ~addEmptyProject /\ ~RemoveRow /\ ~RemoveReload
    BY <1>1 DEF addEmptyProject, RemoveRow, RemoveReload
  <2>3. ~saveProjectsAsWorkspace /\ ~BeginNamed /\ ~NamedShown /\ ~activateNamedWorkspace
    BY <1>1 DEF saveProjectsAsWorkspace, BeginNamed, NamedShown, activateNamedWorkspace
  <2> QED
    BY <1>3, <2>1, <2>2, <2>3 DEF ProjectAction
<1>4. ~RecoverDiscard /\ ~RecoverRestore /\ ~RecoverOpen /\ ~RecoverFill /\ ~RecoverUnread
  BY <1>1 DEF RecoverDiscard, RecoverRestore, RecoverOpen, RecoverFill, RecoverUnread
<1> QED
  BY <1>2, <1>3, <1>4 DEF Next, DurableAction

\* Saved is every project that is listed and has a tab, and no other.
LEMMA CaptureHas ==
  ASSUME TypeInv, NEW c, c = captureWorkspaceSessionSnapshot(editor, projects), NEW p
  PROVE  /\ p \in projects \cap Projects /\ HasTab(editor, current, p) => p \in DOMAIN c.projects
         /\ p \in DOMAIN c.projects /\ c.projects[p].tabs # <<>>
              => p \in projects /\ HasTab(editor, current, p)
<1> DEFINE full == {q \in projects \cap projects \cap Projects : Sessions(editor, q).tabs # <<>>}
           s == Sessions(editor, p)
<1>1. c.projects = [q \in full |-> SavedSession(Sessions(editor, q))]
  BY DEF captureWorkspaceSessionSnapshot
<1>2. DOMAIN c.projects = full
  BY <1>1
<1>0. Typed(editor)
  BY DEF TypeInv, StoreOK
<1>3. /\ s.tabs \in Seq(Tabs)
      /\ {t \in ToSet(s.tabs) : ~IsPinned(t)} = {t \in TabsOf(editor, current, p) : ~IsPinned(t)}
  <2>1. CASE p = current
    <3>1. s.tabs = projectTabs(editor.tabs)
      BY <2>1 DEF Sessions, Stashed
    <3>2. editor.tabs \in Seq(Tabs)
      BY <1>0, TypedLists
    <3>3. /\ projectTabs(editor.tabs) \in Seq({t \in Tabs : ~IsPinned(t)})
          /\ ToSet(projectTabs(editor.tabs)) = {t \in ToSet(editor.tabs) : ~IsPinned(t)}
      BY <3>2, SplitIs
    <3>4. {t \in Tabs : ~IsPinned(t)} \subseteq Tabs
      OBVIOUS
    <3>5. projectTabs(editor.tabs) \in Seq(Tabs)
      BY <3>3, <3>4, SeqMonotonic
    <3> QED
      BY <2>1, <3>1, <3>3, <3>5 DEF TabsOf
  <2>2. CASE p # current /\ p \in DOMAIN editor.sessions
    <3>1. s = editor.sessions[p]
      BY <2>2 DEF Sessions
    <3> QED
      BY <1>0, <2>2, <3>1, TypedLists DEF TabsOf, StashOf
  <2>3. CASE p # current /\ p \notin DOMAIN editor.sessions
    <3>1. s.tabs = <<>>
      BY <2>3 DEF Sessions
    <3> QED
      BY <2>3, <3>1, EmptySeq, EmptyToSet DEF TabsOf, StashOf
  <2> QED
    BY <2>1, <2>2, <2>3
<1> HIDE DEF s
<1>4. ASSUME p \in projects \cap Projects, HasTab(editor, current, p) PROVE p \in full
  <2>1. ToSet(s.tabs) # {}
    BY <1>3, <1>4 DEF HasTab
  <2>2. s.tabs # <<>>
    BY <2>1, EmptyToSet
  <2> QED
    BY <1>4, <2>2 DEF s
<1>5. ASSUME p \in full, c.projects[p].tabs # <<>> PROVE p \in projects /\ HasTab(editor, current, p)
  <2> DEFINE ts == projectTabs(s.tabs)
  <2>1. c.projects[p].tabs = Saved(ts)
    <3> HIDE DEF full
    <3> QED
      BY <1>1, <1>5 DEF SavedSession, s
  <2>2. ts # <<>>
    BY <1>5, <2>1 DEF Saved
  <2>3. /\ ts \in Seq({t \in Tabs : ~IsPinned(t)})
        /\ ToSet(ts) = {t \in ToSet(s.tabs) : ~IsPinned(t)}
    BY <1>3, SplitIs
  <2> HIDE DEF ts
  <2>4. ToSet(ts) # {}
    BY <2>2, <2>3, ListSet
  <2> QED
    BY <1>3, <1>5, <2>3, <2>4 DEF HasTab
<1> QED
  BY <1>2, <1>4, <1>5

\* A project keeps its tabs when another one is shown, when none is, and when
\* the sessions of other projects are dropped.
LEMMA SwitchKeepsTabs ==
  ASSUME NEW e, Typed(e), NEW c, NEW to \in AllProjects, c # to,
         NEW n, n = activateProjectSession(e, c, to),
         NEW p \in AllProjects, HasTab(e, c, p)
  PROVE  HasTab(n, to, p)
<1>1. /\ ToSet(n.tabs) = {t \in StashOf(e, to) : ~IsPinned(t)}
                         \cup {t \in ToSet(e.tabs) : IsPinned(t)}
      /\ DOMAIN n.sessions = (DOMAIN e.sessions \cup ({c} \cap AllProjects)) \ {to}
      /\ \A q \in DOMAIN n.sessions :
           StashOf(n, q) = IF q = c THEN {t \in ToSet(e.tabs) : ~IsPinned(t)} ELSE StashOf(e, q)
  BY activateSets
<1>2. PICK t : t \in TabsOf(e, c, p) /\ ~IsPinned(t)
  BY DEF HasTab
<1>3. CASE p = to
  <2>1. t \in StashOf(e, to)
    BY <1>2, <1>3 DEF TabsOf
  <2> QED
    BY <1>1, <1>2, <1>3, <2>1 DEF HasTab, TabsOf
<1>4. CASE p # to
  <2>1. p \in DOMAIN n.sessions
    BY <1>1, <1>2, <1>4 DEF TabsOf, StashOf
  <2>2. t \in StashOf(n, p)
    BY <1>1, <1>2, <2>1 DEF TabsOf
  <2> QED
    BY <1>2, <1>4, <2>2 DEF HasTab, TabsOf
<1> QED
  BY <1>3, <1>4

LEMMA LeavingKeepsTabs ==
  ASSUME NEW e, Typed(e), NEW c \in AllProjects, NEW n, n = deactivateProjectSession(e, c),
         NEW p \in AllProjects, HasTab(e, c, p)
  PROVE  HasTab(n, NoProject, p)
<1>1. /\ DOMAIN n.sessions = DOMAIN e.sessions \cup {c}
      /\ \A q \in DOMAIN n.sessions :
           StashOf(n, q) = IF q = c THEN {t \in ToSet(e.tabs) : ~IsPinned(t)} ELSE StashOf(e, q)
  BY deactivateSets
<1>2. PICK t : t \in TabsOf(e, c, p) /\ ~IsPinned(t)
  BY DEF HasTab
<1>3. p \in DOMAIN n.sessions
  BY <1>1, <1>2 DEF TabsOf, StashOf
<1>4. t \in StashOf(n, p)
  BY <1>1, <1>2, <1>3 DEF TabsOf
<1>5. p # NoProject
  BY NoProjectIs
<1> QED
  BY <1>2, <1>4, <1>5 DEF HasTab, TabsOf

LEMMA PruneKeepsTabs ==
  ASSUME NEW e, Typed(e), NEW c, NEW known, NEW n, n = pruneWorkspaceSessions(e, known),
         NEW p \in known, HasTab(e, c, p)
  PROVE  HasTab(n, c, p)
<1>1. /\ n.tabs = e.tabs /\ DOMAIN n.sessions = DOMAIN e.sessions \cap known
      /\ \A q \in DOMAIN n.sessions : StashOf(n, q) = StashOf(e, q)
  BY pruneSets
<1>2. PICK t : t \in TabsOf(e, c, p) /\ ~IsPinned(t)
  BY DEF HasTab
<1>3. t \in TabsOf(n, c, p)
  <2>1. CASE p = c
    BY <1>1, <1>2, <2>1 DEF TabsOf
  <2>2. CASE p # c
    <3>1. t \in StashOf(e, p)
      BY <1>2, <2>2 DEF TabsOf
    <3>2. p \in DOMAIN n.sessions
      BY <1>1, <3>1 DEF StashOf
    <3> QED
      BY <1>1, <2>2, <3>1, <3>2 DEF TabsOf
  <2> QED
    BY <2>1, <2>2
<1> QED
  BY <1>2, <1>3 DEF HasTab

\* A start puts every saved session into the store.
LEMMA HydratedHas ==
  ASSUME TypeInv, PlainInv, hydrateWorkspaceSessions, NEW p \in Resumable
  PROVE  HasTab(editor', current', p)
<1> DEFINE ts == snapshot.projects[p].tabs
<1>1. p \in Projects /\ p \in DOMAIN snapshot.projects /\ ts # <<>>
  BY DEF Resumable, PlainInv, SavedStore, PlainSaved
<1>2. ts \in Seq(PlainSaved[p])
  BY <1>1 DEF PlainInv, SavedStore, Session
<1>3. PICK taker : /\ editor'.sessions
                        = [q \in DOMAIN snapshot.projects |->
                             projectSessionFromPersisted(snapshot.projects[q], taker)]
  <2>1. PICK taker :
          editor' = [NoEditor EXCEPT
                       !.tabs = Restored(snapshot.pinned, taker),
                       !.active = FirstId(snapshot.pinned),
                       !.sessions = [q \in DOMAIN snapshot.projects |->
                           projectSessionFromPersisted(snapshot.projects[q], taker)]]
    BY ZenonT(60) DEF hydrateWorkspaceSessions
  <2>2. ASSUME NEW ts1, NEW a, NEW ss,
               editor' = [NoEditor EXCEPT !.tabs = ts1, !.active = a, !.sessions = ss]
        PROVE  editor'.sessions = ss
    BY <2>2, SMTT(30) DEF NoEditor
  <2> QED
    BY <2>1, <2>2
<1>4. p \in DOMAIN editor'.sessions /\ editor'.sessions[p].tabs = Restored(ts, taker)
  BY <1>1, <1>3 DEF projectSessionFromPersisted
<1> HIDE DEF ts
<1>5. 1 \in DOMAIN ts /\ ts[1] \in PlainSaved[p]
  <2>1. Len(ts) \in Nat /\ DOMAIN ts = 1 .. Len(ts) /\ Len(ts) # 0
    BY <1>1, <1>2, EmptySeq, LenProperties
  <2>2. 1 \in DOMAIN ts
    BY <2>1
  <2> QED
    BY <1>2, <2>2, ToSetIn
<1> DEFINE t == tabFromPersisted(ts[1], taker)
<1>6. t \in ToSet(Restored(ts, taker)) /\ ~IsPinned(t)
  <2>1. 1 \in DOMAIN Restored(ts, taker) /\ Restored(ts, taker)[1] = t
    BY <1>5 DEF Restored
  <2>2. t.path = ts[1].path
    BY DEF tabFromPersisted, Tab
  <2> HIDE DEF t
  <2>3. ts[1].path \notin Pinned
    BY <1>1, <1>5 DEF PlainSaved
  <2> QED
    BY <2>1, <2>2, <2>3 DEF ToSet, IsPinned
<1> HIDE DEF t
<1>7. t \in StashOf(editor', p)
  BY <1>4, <1>6 DEF StashOf
<1>8. current' # p
  <2>1. current' = NoProject
    BY DEF hydrateWorkspaceSessions, TypeInv, DownOK
  <2> QED
    BY <1>1, <2>1, NoProjectIs DEF AllProjects
<1> QED
  BY <1>6, <1>7, <1>8 DEF HasTab, TabsOf

\* Settling a load keeps the tabs of the projects that are listed.
LEMMA SettleKeepsTabs ==
  ASSUME NEW e, Typed(e), NEW astray, Settle(e, astray), NEW c, NEW p \in projects, HasTab(e, c, p)
  PROVE  HasTab(editor', c, p)
<1>1. CASE editor' = e
  BY <1>1
<1>2. CASE editor' = pruneWorkspaceSessions(e, projects)
  BY <1>2, PruneKeepsTabs
<1> QED
  BY <1>1, <1>2 DEF Settle, Publish

LEMMA SettleMoves ==
  ASSUME NEW e, NEW astray, Settle(e, astray)
  PROVE  \/ phase = "restoring" /\ phase' = "ready" /\ validating'
         \/ UNCHANGED <<phase, validating>>
BY DEF Settle

LEMMA SwitchStarts ==
  ASSUME TypeInv, PlainInv, StartInv, [Next]_workspaceVars,
         SwitchDone \/ SwitchFails, ~touched', ~failed'
  PROVE  StartInv'
<1> USE DEF durable
<1>0. phase # "down" /\ ~touched /\ ~failed /\ Typed(editor) /\ switching # NoSwitch
  <2>1. switching # NoSwitch /\ touched' = touched /\ failed' = failed
    <3>1. CASE SwitchDone
      BY <3>1 DEF SwitchDone
    <3>2. CASE SwitchFails
      BY <3>2 DEF SwitchFails
    <3> QED
      BY <3>1, <3>2
  <2>2. phase # "down" /\ Typed(editor)
    BY <2>1 DEF TypeInv, DownOK, StoreOK
  <2> QED
    BY <2>1, <2>2
<1>1. /\ op = NoOp /\ ~Asking
      /\ \A p \in Resumable \cap db : HasTab(editor, current, p)
      /\ phase # "boot" /\ db \subseteq projects /\ ~validating
      /\ switching.from = current
  BY <1>0 DEF StartInv
<1>2. UNCHANGED <<op, dialog, db, projects, snapshot>> /\ switching' = NoSwitch
  BY DEF SwitchDone, SwitchFails
<1>3. /\ phase' # "boot"
      /\ validating' => phase' = "ready"
  <2>1. ASSUME NEW e, NEW astray, Settle(e, astray)
        PROVE  phase' # "boot" /\ (validating' => phase' = "ready")
    BY <1>1, <2>1, SettleMoves
  <2> QED
    BY <2>1 DEF SwitchDone, SwitchFails
<1>4. ASSUME NEW p \in Resumable \cap db PROVE HasTab(editor', current', p)
  <2>1. p \in projects /\ p \in AllProjects /\ HasTab(editor, current, p)
    BY <1>1 DEF TypeInv, ListsOK, AllProjects
  <2>2. CASE Settle(editor, FALSE) /\ current' = current
    BY <1>0, <2>1, <2>2, SettleKeepsTabs
  <2>3. CASE SwitchDone /\ switching.from # switching.to
    <3> DEFINE to == switching.to
               m == activateProjectSession(editor, current, to)
    <3>1. /\ to \in AllProjects /\ current # to
          /\ Settle(m, Astray(current)) /\ current' = to
      BY <1>0, <1>1, <2>3 DEF SwitchDone, TypeInv, ListsOK
    <3>2. Typed(m) /\ HasTab(m, to, p)
      BY <1>0, <2>1, <3>1, activateTyped, SwitchKeepsTabs
    <3> HIDE DEF m
    <3>3. HasTab(editor', to, p)
      BY <2>1, <3>1, <3>2, SettleKeepsTabs
    <3> QED
      BY <3>1, <3>3
  <2> QED
    BY <2>2, <2>3 DEF SwitchDone, SwitchFails
<1>5. Resumable' = Resumable /\ (~Asking)'
  BY <1>1, <1>2 DEF Resumable, Asking
<1> QED
  BY <1>1, <1>2, <1>3, <1>4, <1>5 DEF StartInv

LEMMA ValidatedStarts ==
  ASSUME TypeInv, PlainInv, StartInv, [Next]_workspaceVars, Validated, ~touched', ~failed'
  PROVE  StartInv'
<1> USE DEF durable, book
<1>0. phase # "down" /\ ~touched /\ ~failed /\ Typed(editor)
  BY DEF Validated, TypeInv, DownOK, StoreOK
<1>1. /\ op = NoOp /\ ~Asking
      /\ \A p \in Resumable \cap db : HasTab(editor, current, p)
      /\ phase = "ready" /\ db \subseteq projects /\ switching = NoSwitch
  BY <1>0 DEF StartInv, Validated
<1>2. UNCHANGED <<op, dialog, db, projects, snapshot, phase>> /\ ~validating'
  BY DEF Validated
<1>3. ASSUME NEW p, BeginSwitch(p), current' = current
      PROVE  switching' # NoSwitch => switching'.from = current'
  BY <1>1, <1>3 DEF BeginSwitch, Starting
<1>4. ASSUME NEW p \in Resumable \cap db, editor' = editor, current' = current
      PROVE  HasTab(editor', current', p)
  BY <1>1, <1>4
<1>5. ASSUME NEW p \in Resumable \cap db, clearCurrentProjectSession
      PROVE  HasTab(editor', current', p)
  <2>1. p \in AllProjects /\ HasTab(editor, current, p)
    BY <1>1 DEF TypeInv, ListsOK, AllProjects
  <2>2. CASE current = NoProject
    BY <1>5, <2>1, <2>2 DEF clearCurrentProjectSession, Publish
  <2>3. CASE current # NoProject
    <3>1. current \in AllProjects /\ editor' = deactivateProjectSession(editor, current)
          /\ current' = NoProject
      BY <1>5, <2>3 DEF clearCurrentProjectSession, Publish, TypeInv, ListsOK
    <3> QED
      BY <1>0, <2>1, <3>1, LeavingKeepsTabs
  <2> QED
    BY <2>2, <2>3
<1> DEFINE Held == /\ \A p \in Resumable \cap db : HasTab(editor', current', p)
                   /\ switching' # NoSwitch => switching'.from = current'
<1>6. ASSUME NEW open, Leave(open) PROVE Held
  <2>1. CASE Candidates(open) # {}
    BY <1>3, <1>4, <1>6, <2>1 DEF Leave
  <2>2. CASE Candidates(open) = {}
    BY <1>1, <1>5, <1>6, <2>2 DEF Leave
  <2> QED
    BY <2>1, <2>2
<1>7. ASSUME NEW p, BeginSwitch(p), current' = current, editor' = editor PROVE Held
  BY <1>3, <1>4, <1>7
<1>8. ASSUME UNCHANGED <<current, switching, editor>> PROVE Held
  BY <1>1, <1>4, <1>8
<1>9. Held
  <2> HIDE DEF Held
  <2> QED
    BY <1>6, <1>7, <1>8 DEF Validated
<1>10. Resumable' = Resumable /\ (~Asking)'
  BY <1>1, <1>2 DEF Resumable, Asking
<1> QED
  BY <1>1, <1>2, <1>9, <1>10 DEF StartInv

LEMMA LoadStarts ==
  ASSUME TypeInv, PlainInv, StartInv, [Next]_workspaceVars,
         hydrateWorkspaceSessions \/ loadProjects, ~touched', ~failed'
  PROVE  StartInv'
<1> USE DEF durable, counters
<1>1. CASE hydrateWorkspaceSessions
  <2>1. /\ current = NoProject /\ switching = NoSwitch /\ op = NoOp /\ ~validating
        /\ UNCHANGED <<db, snapshot, current, switching, op, validating>> /\ phase' = "boot"
    BY <1>1 DEF hydrateWorkspaceSessions, TypeInv, DownOK
  <2>2. dialog' = NoDialog \/ \E found : dialog' = [kind |-> "recover", found |-> found]
    BY <1>1, ZenonT(60) DEF hydrateWorkspaceSessions
  <2>3. (~Asking)' /\ Resumable' = Resumable
    BY <2>1, <2>2 DEF Asking, Resumable, NoDialog
  <2> QED
    BY <1>1, <2>1, <2>3, HydratedHas DEF StartInv
<1>2. CASE loadProjects
  <2>1. phase = "boot" /\ ~touched /\ ~failed /\ Typed(editor)
    BY <1>2 DEF loadProjects, TypeInv, StoreOK
  <2>2. /\ op = NoOp /\ ~Asking
        /\ \A p \in Resumable \cap db : HasTab(editor, current, p)
        /\ current = NoProject /\ switching = NoSwitch /\ ~validating
    BY <2>1 DEF StartInv
  <2>3. UNCHANGED <<db, snapshot, current, op, dialog>> /\ projects' = db
    BY <1>2 DEF loadProjects
  <2>4. (~Asking)' /\ Resumable' = Resumable
    BY <2>2, <2>3 DEF Asking, Resumable
  <2>5. CASE Candidates(db) # {}
    <3>1. phase' = "restoring" /\ validating' = validating /\ editor' = editor
          /\ \E p : switching' = Starting(p)
      BY <1>2, <2>5 DEF loadProjects
    <3>2. switching'.from = current
      BY <3>1 DEF Starting
    <3> QED
      BY <2>2, <2>3, <2>4, <3>1, <3>2 DEF StartInv
  <2>6. CASE Candidates(db) = {}
    <3>1. phase' = "ready" /\ switching' = switching
          /\ editor' = pruneWorkspaceSessions(editor, db)
      BY <1>2, <2>6 DEF loadProjects, Publish
    <3>2. ASSUME NEW p \in Resumable \cap db PROVE HasTab(editor', current', p)
      BY <2>1, <2>2, <2>3, <3>1, PruneKeepsTabs
    <3> QED
      BY <2>2, <2>3, <2>4, <3>1, <3>2 DEF StartInv
  <2> QED
    BY <2>5, <2>6
<1> QED
  BY <1>1, <1>2

\* Only a start forgets that the user has acted.
LEMMA TouchedStays ==
  ASSUME [Next]_workspaceVars, ~hydrateWorkspaceSessions
  PROVE  (touched => touched') /\ (failed => failed')
<1> USE DEF UserActs, Untouched, book
<1> DEFINE Stays == (touched => touched') /\ (failed => failed')
<1>1. ASSUME EditorAction PROVE Stays
  <2>1. ASSUME NEW path, NEW to,
               OpenFile(path) \/ BeginDiff(path) \/ BeginSaveAs(path) \/ closeTabsForPath(path)
                 \/ closeDiffTabsForPath(path) \/ renamePath(path, to)
        PROVE  Stays
    BY <2>1 DEF OpenFile, BeginDiff, BeginSaveAs, closeTabsForPath, closeDiffTabsForPath, renamePath
  <2>2. ASSUME NEW id, NEW kind, Activate(id) \/ closeWithConfirm(kind, id) PROVE Stays
    BY <2>2 DEF Activate, closeWithConfirm
  <2>3. ASSUME Reorder \/ Type \/ Save \/ openDiff \/ saveAs PROVE Stays
    <3>1. CASE Reorder
      BY <3>1 DEF Reorder
    <3>2. CASE Type
      BY <3>2 DEF Type
    <3>3. CASE Save
      BY <3>3 DEF Save
    <3>4. CASE openDiff
      BY <3>4 DEF openDiff
    <3>5. CASE saveAs
      BY <3>5 DEF saveAs
    <3> HIDE DEF Stays
    <3> QED
      BY <2>3, <3>1, <3>2, <3>3, <3>4, <3>5
  <2>4. ASSUME DiscardAndClose \/ SaveAndClose \/ CancelClose PROVE Stays
    <3>1. CASE DiscardAndClose
      BY <3>1 DEF DiscardAndClose, CloseAnswered
    <3>2. CASE SaveAndClose
      BY <3>2 DEF SaveAndClose, CloseAnswered
    <3>3. CASE CancelClose
      BY <3>3 DEF CancelClose
    <3> HIDE DEF Stays
    <3> QED
      BY <2>4, <3>1, <3>2, <3>3
  <2> HIDE DEF Stays
  <2> QED
    BY <1>1, <2>1, <2>2, <2>3, <2>4 DEF EditorAction
<1>2. ASSUME ProjectAction PROVE Stays
  <2>1. ASSUME NEW p, switchProject(p) \/ unhideProject(p) \/ removeProjectWithConfirm(p)
                 \/ hideProjects(p)
        PROVE  Stays
    BY <2>1 DEF switchProject, unhideProject, removeProjectWithConfirm, hideProjects
  <2>2. ASSUME SwitchDone \/ SwitchFails \/ addEmptyProject \/ RemoveRow \/ RemoveReload PROVE Stays
    <3>1. CASE SwitchDone
      BY <3>1 DEF SwitchDone
    <3>2. CASE SwitchFails
      BY <3>2 DEF SwitchFails
    <3>3. CASE addEmptyProject
      BY <3>3 DEF addEmptyProject
    <3>4. CASE RemoveRow
      BY <3>4 DEF RemoveRow
    <3>5. CASE RemoveReload
      BY <3>5 DEF RemoveReload
    <3> HIDE DEF Stays
    <3> QED
      BY <2>2, <3>1, <3>2, <3>3, <3>4, <3>5
  <2>3. ASSUME saveProjectsAsWorkspace \/ BeginNamed \/ NamedShown \/ activateNamedWorkspace
        PROVE  Stays
    BY <2>3 DEF saveProjectsAsWorkspace, BeginNamed, NamedShown, activateNamedWorkspace
  <2> HIDE DEF Stays
  <2> QED
    BY <1>2, <2>1, <2>2, <2>3 DEF ProjectAction
<1>3. ASSUME DurableAction PROVE Stays
  <2>1. ASSUME persistNow \/ scheduleDraftPersist \/ Crash \/ requestAppClose PROVE Stays
    BY <2>1 DEF persistNow, scheduleDraftPersist, Crash, requestAppClose, Gone
  <2>2. ASSUME loadProjects \/ LoadFails \/ Validated PROVE Stays
    BY <2>2 DEF loadProjects, LoadFails, Validated
  <2>3. ASSUME RecoverDiscard \/ RecoverRestore \/ RecoverOpen \/ RecoverFill \/ RecoverUnread
        PROVE  Stays
    BY <2>3 DEF RecoverDiscard, RecoverRestore, RecoverOpen, RecoverFill, RecoverUnread
  <2> HIDE DEF Stays
  <2> QED
    BY <1>3, <2>1, <2>2, <2>3 DEF DurableAction
<1>4. ASSUME UNCHANGED workspaceVars PROVE Stays
  BY <1>4 DEF workspaceVars
<1> HIDE DEF Stays
<1>5. Stays
  BY <1>1, <1>2, <1>3, <1>4 DEF Next
<1> QED
  BY <1>5 DEF Stays

LEMMA StartNext ==
  ASSUME TypeInv, PlainInv, StartInv, [Next]_workspaceVars
  PROVE  StartInv'
<1> USE DEF durable, counters, book
<1> SUFFICES ASSUME phase' # "down", ~touched', ~failed'
             PROVE  StartInv'
  BY DEF StartInv
<1>1. CASE hydrateWorkspaceSessions
  BY <1>1, LoadStarts
<1>2. CASE phase = "down" /\ ~hydrateWorkspaceSessions
  <2>1. op = NoOp /\ dialog = NoDialog /\ switching = NoSwitch /\ ~validating
    BY <1>2 DEF TypeInv, DownOK
  <2>2. ~Asking
    BY <2>1 DEF Asking
  <2>3. ~loadProjects /\ ~LoadFails /\ ~SwitchDone /\ ~SwitchFails /\ ~Validated /\ ~persistNow
        /\ ~Crash /\ ~requestAppClose
    BY <1>2, <2>1 DEF loadProjects, LoadFails, SwitchDone, SwitchFails, Validated, persistNow,
                      Crash, requestAppClose, Quiet
  <2>4. ~scheduleDraftPersist
    BY <1>2 DEF scheduleDraftPersist
  <2>5. ~UNCHANGED workspaceVars
    BY <1>2 DEF workspaceVars
  <2> QED
    BY <1>2, <2>1, <2>2, <2>3, <2>4, <2>5, UntouchedSteps
<1>3. CASE phase # "down" /\ ~hydrateWorkspaceSessions
  <2>1. ~touched /\ ~failed
    BY <1>3, TouchedStays
  <2>2. /\ op = NoOp /\ ~Asking
        /\ \A p \in Resumable \cap db : HasTab(editor, current, p)
        /\ phase = "boot" => current = NoProject /\ switching = NoSwitch
        /\ phase # "boot" => db \subseteq projects
        /\ validating => phase = "ready" /\ switching = NoSwitch
        /\ switching # NoSwitch => switching.from = current
    BY <1>3, <2>1 DEF StartInv
  <2>3. CASE loadProjects
    BY <2>3, LoadStarts
  <2>4. CASE SwitchDone \/ SwitchFails
    BY <2>4, SwitchStarts
  <2>5. CASE Validated
    BY <2>5, ValidatedStarts
  <2>6. ~LoadFails /\ ~Crash /\ ~requestAppClose
    BY DEF LoadFails, Crash, requestAppClose, Gone
  <2>7. ASSUME UNCHANGED <<op, dialog, editor, current, db, projects, phase, validating, switching>>,
               \A p \in Resumable' \cap db : HasTab(editor, current, p)
        PROVE  StartInv'
    <3>1. (~Asking)'
      BY <2>2, <2>7 DEF Asking
    <3>2. \A p \in Resumable' \cap db' : HasTab(editor', current', p)
      BY <2>7
    <3>3. /\ op' = NoOp
          /\ phase' = "boot" => current' = NoProject /\ switching' = NoSwitch
          /\ phase' # "boot" => db' \subseteq projects'
          /\ validating' => phase' = "ready" /\ switching' = NoSwitch
          /\ switching' # NoSwitch => switching'.from = current'
      BY <2>2, <2>7
    <3> QED
      BY <3>1, <3>2, <3>3 DEF StartInv
  <2>8. ASSUME snapshot' = snapshot PROVE Resumable' = Resumable
    BY <2>8 DEF Resumable
  <2>9. CASE scheduleDraftPersist
    BY <2>2, <2>7, <2>8, <2>9 DEF scheduleDraftPersist
  <2>10. CASE UNCHANGED workspaceVars
    BY <2>2, <2>7, <2>8, <2>10 DEF workspaceVars, memory
  <2>11. CASE persistNow
    <3>1. UNCHANGED <<op, dialog, editor, current, db, projects, phase, validating, switching>>
      BY <2>11 DEF persistNow
    <3>2. CASE snapshot' = snapshot
      BY <2>2, <2>7, <2>8, <3>1, <3>2
    <3>3. CASE snapshot' = captureWorkspaceSessionSnapshot(editor, projects)
      <4>1. \A p \in Resumable' : HasTab(editor, current, p)
        BY <3>3, CaptureHas DEF Resumable
      <4> QED
        BY <2>7, <3>1, <4>1
    <3> QED
      BY <2>11, <3>2, <3>3 DEF persistNow
  <2> QED
    BY <1>3, <2>2, <2>3, <2>4, <2>5, <2>6, <2>9, <2>10, <2>11, UntouchedSteps
<1> QED
  BY <1>1, <1>2, <1>3

LEMMA StartHolds == Spec => [](PlainInv /\ StartInv)
<1>1. Init => PlainInv /\ StartInv
  BY InitPlain DEF Init, StartInv
<1>2. TypeInv /\ (PlainInv /\ StartInv) /\ [Next]_workspaceVars => (PlainInv /\ StartInv)'
  BY PlainNext, StartNext
<1> QED
  BY <1>1, <1>2, TypesHold, PTL DEF Spec

\* Of the steps the program takes by itself two write the snapshot.
LEMMA QuietSteps ==
  ASSUME [Next]_workspaceVars, ~touched', op = NoOp, ~Asking, snapshot' # snapshot
  PROVE  persistNow \/ requestAppClose
<1> USE DEF durable
<1>1. ~hydrateWorkspaceSessions /\ ~loadProjects /\ ~LoadFails /\ ~Validated
  BY DEF hydrateWorkspaceSessions, loadProjects, LoadFails, Validated
<1>2. ~SwitchDone /\ ~SwitchFails /\ ~scheduleDraftPersist /\ ~Crash
  BY DEF SwitchDone, SwitchFails, scheduleDraftPersist, Crash, Gone
<1>3. ~UNCHANGED workspaceVars
  BY DEF workspaceVars
<1> QED
  BY <1>1, <1>2, <1>3, UntouchedSteps

\* No step of a start forgets a session: what is written then holds a session for
\* every project that had one.
LEMMA StartStep ==
  ASSUME TypeInv, PlainInv, StartInv, [Next]_workspaceVars, ~touched', ~failed
  PROVE  Forgotten = {}
<1> SUFFICES ASSUME NEW p \in DOMAIN snapshot.projects \cap db,
                    snapshot.projects[p].tabs # <<>>, p \notin DOMAIN snapshot'.projects
             PROVE  FALSE
  BY DEF Forgotten
<1>1. snapshot' # snapshot /\ p \in Resumable \cap db /\ p \in Projects
  BY DEF Resumable, TypeInv, ListsOK
<1>2. phase # "down" /\ ~touched
  <2>1. CASE phase = "down"
    <3>1. op = NoOp /\ dialog = NoDialog /\ switching = NoSwitch /\ ~validating /\ ~Asking
      BY <2>1 DEF TypeInv, DownOK, Asking
    <3>2. ~persistNow /\ ~requestAppClose
      BY <2>1 DEF persistNow, requestAppClose, Quiet
    <3> QED
      BY <1>1, <3>1, <3>2, QuietSteps
  <2>2. CASE phase # "down"
    BY <2>2, TouchedStays DEF hydrateWorkspaceSessions
  <2> QED
    BY <2>1, <2>2
<1>3. /\ op = NoOp /\ ~Asking /\ HasTab(editor, current, p)
      /\ phase # "boot" => db \subseteq projects
  BY <1>1, <1>2 DEF StartInv
<1>4. persistNow \/ requestAppClose
  BY <1>1, <1>3, QuietSteps
<1>5. phase = "ready" /\ snapshot' = captureWorkspaceSessionSnapshot(editor, projects)
  BY <1>1, <1>4 DEF persistNow, requestAppClose, Quiet
<1>6. p \in projects \cap Projects
  BY <1>1, <1>3, <1>5
<1> QED
  BY <1>3, <1>5, <1>6, CaptureHas

\* A start alone, until the user acts, loses no saved session of a project that is
\* still there, provided the list of projects could be loaded.
THEOREM StartsKeepSnapshot == Spec => StartKeepsSnapshot
<1>1. TypeInv /\ PlainInv /\ StartInv /\ [Next]_workspaceVars
        => [~touched' /\ ~failed => Forgotten = {}]_workspaceVars
  BY StartStep
<1> QED
  BY <1>1, TypesHold, StartHolds, PTL DEF Spec, StartKeepsSnapshot

-----------------------------------------------------------------------------
(* Every tab in one place *)

\* The places of tabs: the visible list, under NoProject, and the stashes.
Slots == AllProjects \cup {NoProject}
At(e, q) == IF q = NoProject THEN ToSet(e.tabs) ELSE StashOf(e, q)

\* A number is of one tab, in one place.
Once(e) ==
    \A q, r \in Slots : \A t \in At(e, q), u \in At(e, r) : t.id = u.id => q = r /\ t = u

\* Of the tabs numbered to n: a pinned tab in a stash is clean, for the stash drops it
\* when it is shown, and so is a comparison, which is closed without a question.
Tidy(e, n) ==
    /\ Once(e)
    /\ \A p \in AllProjects : \A t \in At(e, p) : IsPinned(t) => t.edits = Clean
    /\ \A q \in Slots : \A t \in At(e, q) : t.id <= n /\ (t.diff => t.edits = Clean)

LEMMA AtIs ==
  ASSUME NEW e
  PROVE  /\ At(e, NoProject) = ToSet(e.tabs)
         /\ \A p \in AllProjects : At(e, p) = StashOf(e, p)
         /\ \A p \in AllProjects : p \notin DOMAIN e.sessions => At(e, p) = {}
BY NoProjectIs DEF At, StashOf

LEMMA AtTabs ==
  ASSUME NEW e, Typed(e)
  PROVE  /\ \A q \in Slots : At(e, q) \subseteq AllTabs(e) /\ At(e, q) \subseteq Tabs
         /\ \A t \in AllTabs(e) : \E q \in Slots : t \in At(e, q)
<1>1. \A t : t \in AllTabs(e) <=> t \in ToSet(e.tabs) \/ \E p \in DOMAIN e.sessions : t \in StashOf(e, p)
  BY AllTabsAre
<1>2. DOMAIN e.sessions \subseteq AllProjects /\ AllTabs(e) \subseteq Tabs
  BY AllTabsTyped
<1>3. ASSUME NEW q \in Slots, NEW t \in At(e, q) PROVE t \in AllTabs(e)
  <2>1. CASE q = NoProject
    BY <1>1, <1>3, <2>1 DEF At
  <2>2. CASE q # NoProject
    BY <1>1, <1>3, <2>2 DEF At, StashOf
  <2> QED
    BY <2>1, <2>2
<1>4. ASSUME NEW t \in AllTabs(e) PROVE \E q \in Slots : t \in At(e, q)
  <2>1. CASE t \in ToSet(e.tabs)
    BY <2>1 DEF At, Slots
  <2>2. ASSUME NEW p \in DOMAIN e.sessions, t \in StashOf(e, p) PROVE \E q \in Slots : t \in At(e, q)
    BY <1>2, <2>2, AtIs DEF Slots
  <2> QED
    BY <1>1, <2>1, <2>2
<1> QED
  BY <1>2, <1>3, <1>4

\* Two tabs with one number are one, wherever they are.
LEMMA OnceTab ==
  ASSUME NEW e, Typed(e), Once(e), NEW t \in AllTabs(e), NEW u \in AllTabs(e), t.id = u.id
  PROVE  t = u
BY AtTabs DEF Once

LEMMA TidyLess ==
  ASSUME NEW e, NEW k \in Nat, Tidy(e, k), NEW n, NEW m \in Nat, k <= m,
         Typed(e), \A q \in Slots : At(n, q) \subseteq At(e, q)
  PROVE  Tidy(n, m)
<1>1. Once(n)
  BY DEF Tidy, Once
<1>2. \A p \in AllProjects : \A t \in At(n, p) : IsPinned(t) => t.edits = Clean
  BY DEF Tidy, Slots
<1>3. ASSUME NEW q \in Slots, NEW t \in At(n, q) PROVE t.id <= m /\ (t.diff => t.edits = Clean)
  <2>1. t \in At(e, q) /\ t.id \in Nat
    BY AtTabs, TabsType
  <2> QED
    BY <2>1 DEF Tidy
<1> QED
  BY <1>1, <1>2, <1>3 DEF Tidy

\* What lies within e is where it was in e.
LEMMA WithinAt ==
  ASSUME NEW e, Typed(e), NEW n, NEW new \in SUBSET Tabs, Within(e, n, new)
  PROVE  /\ At(n, NoProject) \subseteq At(e, NoProject) \cup new
         /\ \A p \in AllProjects : At(n, p) \subseteq At(e, p)
<1> DEFINE V == ToSet(e.tabs)
           Q == DOMAIN e.sessions
           H == [p \in Q |-> StashOf(e, p)]
           W == V \cup new
<1>1. V \in SUBSET Tabs /\ Q \in SUBSET AllProjects
  BY TypedLists
<1>2. \A p \in Q : StashOf(e, p) \in SUBSET Tabs /\ StashOf(e, p) = ToSet(e.sessions[p].tabs)
  BY TypedLists DEF StashOf
<1>3. H \in [Q -> SUBSET Tabs] /\ DOMAIN H = Q /\ \A p \in Q : H[p] = StashOf(e, p)
  BY <1>2
<1> HIDE DEF V, H
<1>4. Store(e, V, H)
  <2>1. Store(e, Tabs, EverySession)
    BY DEF Typed
  <2> QED
    BY <1>2, <1>3, <2>1, StoreIn DEF V
<1> HIDE DEF Q
<1>5. Store(n, W, H)
  BY <1>1, <1>3, <1>4, WithinStore
<1>6. ToSet(n.tabs) \subseteq W
  <2> HIDE DEF W
  <2> QED
    BY <1>5, ToSetIn DEF Store
<1>7. ASSUME NEW p \in AllProjects PROVE At(n, p) \subseteq At(e, p)
  <2>1. CASE p \in DOMAIN n.sessions
    <3>1. p \in Q /\ n.sessions[p].tabs \in Seq(H[p])
      BY <1>3, <1>5, <2>1 DEF Store, Session
    <3>2. ToSet(n.sessions[p].tabs) \subseteq H[p]
      BY <3>1, ToSetIn
    <3> QED
      BY <1>3, <2>1, <3>1, <3>2, AtIs DEF StashOf
  <2>2. CASE p \notin DOMAIN n.sessions
    BY <2>2, AtIs
  <2> QED
    BY <2>1, <2>2
<1> QED
  BY <1>6, <1>7, AtIs DEF V

LEMMA TidyWithin ==
  ASSUME NEW e, Typed(e), NEW k \in Nat, Tidy(e, k), NEW n, Within(e, n, {}),
         NEW m \in Nat, k <= m
  PROVE  Tidy(n, m)
<1>1. \A q \in Slots : At(n, q) \subseteq At(e, q)
  BY WithinAt DEF Slots
<1> QED
  BY <1>1, TidyLess

\* A tab with a new number is one more.
LEMMA TidyOpened ==
  ASSUME NEW e, Typed(e), NEW k \in Nat, Tidy(e, k), NEW t \in Tabs, t.id = k + 1, t.edits = Clean,
         NEW n, Within(e, n, {t})
  PROVE  Tidy(n, k + 1)
<1>0. {t} \in SUBSET Tabs
  OBVIOUS
<1>1. /\ At(n, NoProject) \subseteq At(e, NoProject) \cup {t}
      /\ \A p \in AllProjects : At(n, p) \subseteq At(e, p)
  BY <1>0, WithinAt
<1>2. \A q \in Slots : \A u \in At(e, q) : u.id \in Nat /\ u.id <= k /\ u.id # t.id
  <2>1. ASSUME NEW q \in Slots, NEW u \in At(e, q) PROVE u.id \in Nat /\ u.id <= k
    BY AtTabs, TabsType DEF Tidy
  <2> QED
    BY <2>1
<1>3. \A q \in Slots : \A u \in At(n, q) : u \in At(e, q) \/ (q = NoProject /\ u = t)
  BY <1>1 DEF Slots
<1>4. Once(n)
  BY <1>2, <1>3 DEF Once, Tidy
<1>5. \A p \in AllProjects : \A u \in At(n, p) : IsPinned(u) => u.edits = Clean
  BY <1>1 DEF Tidy
<1>6. ASSUME NEW q \in Slots, NEW u \in At(n, q) PROVE u.id <= k + 1 /\ (u.diff => u.edits = Clean)
  <2>1. CASE u \in At(e, q)
    BY <1>2, <2>1 DEF Tidy
  <2>2. CASE u = t
    BY <2>2
  <2> QED
    BY <1>3, <2>1, <2>2
<1> QED
  BY <1>4, <1>5, <1>6 DEF Tidy

\* Where the tabs are once "to" is shown and what was visible is stashed under "from".
LEMMA activateAt ==
  ASSUME NEW e, Typed(e), NEW from, NEW to \in AllProjects, from # to,
         NEW n, n = activateProjectSession(e, from, to)
  PROVE  /\ At(n, NoProject) = {t \in At(e, to) : ~IsPinned(t)}
                               \cup {t \in At(e, NoProject) : IsPinned(t)}
         /\ At(n, to) = {}
         /\ from \in AllProjects => At(n, from) = {t \in At(e, NoProject) : ~IsPinned(t)}
         /\ \A p \in AllProjects \ {from, to} : At(n, p) = At(e, p)
<1>1. /\ ToSet(n.tabs) = {t \in StashOf(e, to) : ~IsPinned(t)}
                         \cup {t \in ToSet(e.tabs) : IsPinned(t)}
      /\ DOMAIN n.sessions = (DOMAIN e.sessions \cup ({from} \cap AllProjects)) \ {to}
      /\ \A p \in DOMAIN n.sessions :
           StashOf(n, p) = IF p = from THEN {t \in ToSet(e.tabs) : ~IsPinned(t)}
                           ELSE StashOf(e, p)
  BY activateSets
<1>2. ASSUME NEW p \in AllProjects \ {from, to} PROVE At(n, p) = At(e, p)
  <2>1. CASE p \in DOMAIN e.sessions
    BY <1>1, <2>1, AtIs
  <2>2. CASE p \notin DOMAIN e.sessions
    BY <1>1, <2>2, AtIs
  <2> QED
    BY <2>1, <2>2
<1>3. ASSUME from \in AllProjects PROVE At(n, from) = {t \in At(e, NoProject) : ~IsPinned(t)}
  BY <1>1, <1>3, AtIs
<1> QED
  BY <1>1, <1>2, <1>3, AtIs

LEMMA deactivateAt ==
  ASSUME NEW e, Typed(e), NEW p \in AllProjects,
         NEW n, n = deactivateProjectSession(e, p)
  PROVE  /\ At(n, NoProject) = {t \in At(e, NoProject) : IsPinned(t)}
         /\ At(n, p) = {t \in At(e, NoProject) : ~IsPinned(t)}
         /\ \A q \in AllProjects \ {p} : At(n, q) = At(e, q)
<1>1. /\ ToSet(n.tabs) = {t \in ToSet(e.tabs) : IsPinned(t)}
      /\ DOMAIN n.sessions = DOMAIN e.sessions \cup {p}
      /\ \A q \in DOMAIN n.sessions :
           StashOf(n, q) = IF q = p THEN {t \in ToSet(e.tabs) : ~IsPinned(t)} ELSE StashOf(e, q)
  BY deactivateSets
<1>2. ASSUME NEW q \in AllProjects \ {p} PROVE At(n, q) = At(e, q)
  <2>1. CASE q \in DOMAIN e.sessions
    BY <1>1, <2>1, AtIs
  <2>2. CASE q \notin DOMAIN e.sessions
    BY <1>1, <2>2, AtIs
  <2> QED
    BY <2>1, <2>2
<1> QED
  BY <1>1, <1>2, AtIs

LEMMA activateTidy ==
  ASSUME NEW e, Typed(e), NEW k, Tidy(e, k), NEW from, NEW to \in AllProjects, from # to,
         NEW n, n = activateProjectSession(e, from, to)
  PROVE  Tidy(n, k)
<1>0. NoProject \notin AllProjects /\ NoProject \in Slots /\ AllProjects \subseteq Slots
  BY NoProjectIs DEF Slots
<1>1. /\ At(n, NoProject) = {t \in At(e, to) : ~IsPinned(t)}
                            \cup {t \in At(e, NoProject) : IsPinned(t)}
      /\ At(n, to) = {}
      /\ from \in AllProjects => At(n, from) = {t \in At(e, NoProject) : ~IsPinned(t)}
      /\ \A p \in AllProjects \ {from, to} : At(n, p) = At(e, p)
  BY activateAt
\* Where a tab comes from.
<1> DEFINE Was(q, t) == IF q = NoProject THEN IF IsPinned(t) THEN NoProject ELSE to
                        ELSE IF q = from THEN NoProject ELSE q
<1>2. ASSUME NEW q \in Slots, NEW t \in At(n, q)
      PROVE  /\ Was(q, t) \in Slots /\ t \in At(e, Was(q, t)) /\ q # to
             /\ q = from /\ q # NoProject => ~IsPinned(t)
  <2>1. CASE q = NoProject
    <3>1. \/ t \in At(e, to) /\ ~IsPinned(t)
          \/ t \in At(e, NoProject) /\ IsPinned(t)
      BY <1>1, <2>1
    <3> QED
      BY <1>0, <2>1, <3>1
  <2>2. CASE q \in AllProjects /\ q = from
    <3>1. t \in At(e, NoProject) /\ ~IsPinned(t)
      BY <1>1, <2>2
    <3> QED
      BY <1>0, <2>2, <3>1
  <2>3. CASE q \in AllProjects /\ q # from
    <3>1. q # to /\ t \in At(e, q)
      BY <1>1, <2>3
    <3> QED
      BY <1>0, <2>3, <3>1
  <2> QED
    BY <2>1, <2>2, <2>3 DEF Slots
<1>3. Once(n)
  <2> SUFFICES ASSUME NEW q \in Slots, NEW r \in Slots, NEW t \in At(n, q), NEW u \in At(n, r),
                      t.id = u.id
               PROVE  q = r /\ t = u
    BY DEF Once
  <2>1. /\ Was(q, t) \in Slots /\ t \in At(e, Was(q, t)) /\ q # to
        /\ q = from /\ q # NoProject => ~IsPinned(t)
    BY <1>2
  <2>2. /\ Was(r, u) \in Slots /\ u \in At(e, Was(r, u)) /\ r # to
        /\ r = from /\ r # NoProject => ~IsPinned(u)
    BY <1>2
  <2>3. PICK a : a = Was(q, t)
    OBVIOUS
  <2>4. PICK b : b = Was(r, u)
    OBVIOUS
  <2>5. a = b /\ t = u
    BY <2>1, <2>2, <2>3, <2>4 DEF Tidy, Once
  <2> QED
    BY <1>0, <2>1, <2>2, <2>3, <2>4, <2>5
<1>4. \A p \in AllProjects : \A t \in At(n, p) : IsPinned(t) => t.edits = Clean
  <2> SUFFICES ASSUME NEW p \in AllProjects, NEW t \in At(n, p), IsPinned(t)
               PROVE  t.edits = Clean
    OBVIOUS
  <2>1. p # from /\ t \in At(e, p)
    BY <1>0, <1>2
  <2> QED
    BY <2>1 DEF Tidy
<1>5. ASSUME NEW q \in Slots, NEW t \in At(n, q) PROVE t.id <= k /\ (t.diff => t.edits = Clean)
  <2>1. PICK a : a = Was(q, t)
    OBVIOUS
  <2>2. a \in Slots /\ t \in At(e, a)
    BY <1>2, <2>1
  <2> QED
    BY <2>2 DEF Tidy
<1> QED
  BY <1>3, <1>4, <1>5 DEF Tidy

LEMMA deactivateTidy ==
  ASSUME NEW e, Typed(e), NEW k, Tidy(e, k), NEW p \in AllProjects,
         NEW n, n = deactivateProjectSession(e, p)
  PROVE  Tidy(n, k)
<1>0. NoProject \notin AllProjects /\ NoProject \in Slots /\ AllProjects \subseteq Slots
  BY NoProjectIs DEF Slots
<1>1. /\ At(n, NoProject) = {t \in At(e, NoProject) : IsPinned(t)}
      /\ At(n, p) = {t \in At(e, NoProject) : ~IsPinned(t)}
      /\ \A q \in AllProjects \ {p} : At(n, q) = At(e, q)
  BY deactivateAt
<1> DEFINE Was(q) == IF q = p THEN NoProject ELSE q
<1>2. ASSUME NEW q \in Slots, NEW t \in At(n, q)
      PROVE  /\ Was(q) \in Slots /\ t \in At(e, Was(q))
             /\ q = NoProject => IsPinned(t)
             /\ q = p => ~IsPinned(t)
  <2>1. CASE q = NoProject
    BY <1>0, <1>1, <1>2, <2>1
  <2>2. CASE q = p
    BY <1>0, <1>1, <1>2, <2>2
  <2>3. CASE q \in AllProjects \ {p}
    BY <1>0, <1>1, <1>2, <2>3
  <2> QED
    BY <2>1, <2>2, <2>3 DEF Slots
<1>3. Once(n)
  <2> SUFFICES ASSUME NEW q \in Slots, NEW r \in Slots, NEW t \in At(n, q), NEW u \in At(n, r),
                      t.id = u.id
               PROVE  q = r /\ t = u
    BY DEF Once
  <2>1. Was(q) \in Slots /\ t \in At(e, Was(q)) /\ Was(r) \in Slots /\ u \in At(e, Was(r))
    BY <1>2
  <2>2. Was(q) = Was(r) /\ t = u
    <3> HIDE DEF Was
    <3> QED
      BY <2>1 DEF Tidy, Once
  <2>3. /\ q = NoProject => IsPinned(t)
        /\ q = p => ~IsPinned(t)
        /\ r = NoProject => IsPinned(u)
        /\ r = p => ~IsPinned(u)
    BY <1>2
  <2> QED
    BY <2>2, <2>3
<1>4. \A q \in AllProjects : \A t \in At(n, q) : IsPinned(t) => t.edits = Clean
  <2> SUFFICES ASSUME NEW q \in AllProjects, NEW t \in At(n, q), IsPinned(t)
               PROVE  t.edits = Clean
    OBVIOUS
  <2>1. q # p /\ t \in At(e, q)
    BY <1>0, <1>2
  <2> QED
    BY <2>1 DEF Tidy
<1>5. ASSUME NEW q \in Slots, NEW t \in At(n, q) PROVE t.id <= k /\ (t.diff => t.edits = Clean)
  <2>1. Was(q) \in Slots /\ t \in At(e, Was(q))
    BY <1>2
  <2> HIDE DEF Was
  <2> QED
    BY <2>1 DEF Tidy
<1> QED
  BY <1>3, <1>4, <1>5 DEF Tidy

-----------------------------------------------------------------------------
(* What a handler loses *)

\* Each unsaved text of e is in a tab of n, or is one of D.
Keeps(e, n, D) ==
    \A t \in AllTabs(e) : t.edits = Clean \/ t.edits \in D \/ \E u \in AllTabs(n) : u.edits = t.edits

LEMMA KeepsItself == ASSUME NEW e, NEW D PROVE Keeps(e, e, D)
BY DEF Keeps

LEMMA KeepsAll ==
  ASSUME NEW e, NEW n, NEW D,
         \A t \in AllTabs(e) : t.edits = Clean \/ t.edits \in D \/ t \in AllTabs(n)
  PROVE  Keeps(e, n, D)
BY DEF Keeps

LEMMA KeepsThen ==
  ASSUME NEW e, NEW m, NEW n, NEW D, Keeps(e, m, D), Keeps(m, n, D)
  PROVE  Keeps(e, n, D)
BY DEF Keeps

LEMMA KeepsSlots ==
  ASSUME NEW e, Typed(e), NEW n, NEW D, Typed(n),
         \A q \in Slots : \A t \in At(e, q) :
            t.edits = Clean \/ t.edits \in D \/ \E r \in Slots : t \in At(n, r)
  PROVE  Keeps(e, n, D)
<1>1. ASSUME NEW t \in AllTabs(e) PROVE t.edits = Clean \/ t.edits \in D \/ t \in AllTabs(n)
  <2>1. PICK q \in Slots : t \in At(e, q)
    BY AtTabs
  <2> QED
    BY <2>1, AtTabs
<1> QED
  BY <1>1, KeepsAll

\* Showing another project loses nothing, if the visible tabs have a stash to go to
\* and that is not there yet.
LEMMA activateKeeps ==
  ASSUME NEW e, Typed(e), NEW k, Tidy(e, k), NEW from, NEW to \in AllProjects, from # to,
         from \notin DOMAIN e.sessions,
         from \in AllProjects \/ \A t \in At(e, NoProject) : IsPinned(t),
         NEW n, n = activateProjectSession(e, from, to), NEW D
  PROVE  Keeps(e, n, D)
<1>0. NoProject \notin AllProjects /\ NoProject \in Slots /\ AllProjects \subseteq Slots
  BY NoProjectIs DEF Slots
<1>1. /\ At(n, NoProject) = {t \in At(e, to) : ~IsPinned(t)}
                            \cup {t \in At(e, NoProject) : IsPinned(t)}
      /\ from \in AllProjects => At(n, from) = {t \in At(e, NoProject) : ~IsPinned(t)}
      /\ \A p \in AllProjects \ {from, to} : At(n, p) = At(e, p)
  BY activateAt
<1>2. Typed(n)
  BY activateTyped
<1>3. ASSUME NEW q \in Slots, NEW t \in At(e, q)
      PROVE  t.edits = Clean \/ \E r \in Slots : t \in At(n, r)
  <2>1. CASE q = NoProject /\ IsPinned(t)
    BY <1>0, <1>1, <1>3, <2>1
  <2>2. CASE q = NoProject /\ ~IsPinned(t)
    BY <1>0, <1>1, <1>3, <2>2
  <2>3. CASE q = to /\ IsPinned(t)
    BY <2>3 DEF Tidy
  <2>4. CASE q = to /\ ~IsPinned(t)
    BY <1>0, <1>1, <1>3, <2>4
  <2>5. CASE q \in AllProjects /\ q # to
    <3>1. q # from
      BY <2>5, AtIs
    <3> QED
      BY <1>0, <1>1, <2>5, <3>1
  <2> QED
    BY <2>1, <2>2, <2>3, <2>4, <2>5 DEF Slots
<1> QED
  BY <1>2, <1>3, KeepsSlots

LEMMA deactivateKeeps ==
  ASSUME NEW e, Typed(e), NEW p \in AllProjects, p \notin DOMAIN e.sessions,
         NEW n, n = deactivateProjectSession(e, p), Typed(n), NEW D
  PROVE  Keeps(e, n, D)
<1>0. NoProject \in Slots /\ AllProjects \subseteq Slots
  BY DEF Slots
<1>1. /\ At(n, NoProject) = {t \in At(e, NoProject) : IsPinned(t)}
      /\ At(n, p) = {t \in At(e, NoProject) : ~IsPinned(t)}
      /\ \A q \in AllProjects \ {p} : At(n, q) = At(e, q)
  BY deactivateAt
<1>2. ASSUME NEW q \in Slots, NEW t \in At(e, q) PROVE \E r \in Slots : t \in At(n, r)
  <2>1. CASE q = NoProject
    BY <1>0, <1>1, <1>2, <2>1
  <2>2. CASE q \in AllProjects
    <3>1. q # p
      BY <2>2, AtIs
    <3> QED
      BY <1>0, <1>1, <2>2, <3>1
  <2> QED
    BY <2>1, <2>2 DEF Slots
<1> QED
  BY <1>2, KeepsSlots

\* Nothing goes with the sessions of unknown projects when there are none.
LEMMA pruneKeeps ==
  ASSUME NEW e, Typed(e), NEW known, ~Forgets(e, known),
         NEW n, n = pruneWorkspaceSessions(e, known), NEW D
  PROVE  Keeps(e, n, D)
<1>1. /\ n.tabs = e.tabs /\ DOMAIN n.sessions = DOMAIN e.sessions \cap known
      /\ \A p \in DOMAIN n.sessions : StashOf(n, p) = StashOf(e, p)
  BY pruneSets
<1>2. DOMAIN n.sessions = DOMAIN e.sessions
  BY <1>1 DEF Forgets
<1>3. \A t : t \in AllTabs(e) => t \in AllTabs(n)
  BY <1>1, <1>2, AllTabsAre
<1> QED
  BY <1>3, KeepsAll

\* A list cut in two.
LEMMA CutSets ==
  ASSUME NEW S, NEW ts \in Seq(S), NEW at \in 0 .. Len(ts)
  PROVE  ToSet(ts) \subseteq ToSet(SubSeq(ts, 1, at)) \cup ToSet(SubSeq(ts, at + 1, Len(ts)))
<1> DEFINE n == Len(ts)
           a == SubSeq(ts, 1, at)
           b == SubSeq(ts, at + 1, n)
<1>1. n \in Nat /\ DOMAIN ts = 1 .. n /\ at \in Int /\ 0 <= at /\ at <= n
  BY LenProperties
<1>2. \A i \in 1 .. n : ts[i] \in S
  BY ElementOfSeq
<1>3. a \in Seq(S) /\ Len(a) = at /\ \A i \in 1 .. at : a[i] = ts[i]
  <2>1. \A i \in 1 .. at : ts[i] \in S
    BY <1>1, <1>2
  <2>2. /\ a \in Seq(S) /\ Len(a) = (IF 1 <= at THEN at - 1 + 1 ELSE 0)
        /\ \A i \in 1 .. (at - 1 + 1) : a[i] = ts[1 + i - 1]
    BY <1>1, <2>1, SubSeqProperties
  <2> HIDE DEF a, n
  <2> QED
    BY <1>1, <2>2
<1>4. b \in Seq(S) /\ Len(b) = n - at /\ \A i \in 1 .. (n - at) : b[i] = ts[at + i]
  <2>1. \A i \in (at + 1) .. n : ts[i] \in S
    BY <1>1, <1>2
  <2>2. /\ b \in Seq(S) /\ Len(b) = (IF at + 1 <= n THEN n - (at + 1) + 1 ELSE 0)
        /\ \A i \in 1 .. (n - (at + 1) + 1) : b[i] = ts[at + 1 + i - 1]
    BY <1>1, <2>1, SubSeqProperties
  <2> HIDE DEF b, n
  <2>3. ASSUME NEW i \in 1 .. (n - at) PROVE b[i] = ts[at + i]
    <3>1. i \in 1 .. (n - (at + 1) + 1) /\ at + 1 + i - 1 = at + i
      BY <1>1
    <3> QED
      BY <2>2, <3>1
  <2> QED
    BY <1>1, <2>2, <2>3
<1>5. DOMAIN a = 1 .. at /\ DOMAIN b = 1 .. (n - at)
  BY <1>3, <1>4, LenProperties
<1> HIDE DEF a, b, n
<1>6. ASSUME NEW i \in 1 .. n PROVE ts[i] \in ToSet(a) \cup ToSet(b)
  <2>1. CASE i <= at
    <3>1. i \in 1 .. at
      BY <1>1, <2>1
    <3>2. i \in DOMAIN a /\ a[i] = ts[i]
      BY <1>3, <1>5, <3>1
    <3> QED
      BY <3>2 DEF ToSet
  <2>2. CASE ~(i <= at)
    <3>1. PICK j : j = i - at
      OBVIOUS
    <3>2. j \in 1 .. (n - at) /\ at + j = i
      BY <1>1, <2>2, <3>1
    <3>3. j \in DOMAIN b /\ b[j] = ts[i]
      BY <1>4, <1>5, <3>2
    <3> QED
      BY <3>3 DEF ToSet
  <2> QED
    BY <2>1, <2>2
<1> QED
  BY <1>1, <1>6 DEF ToSet, a, b, n

\* The place of the first tab with a number.
LEMMA FirstWith ==
  ASSUME NEW ts \in Seq(Tabs), NEW id, NEW I, I = {i \in 1 .. Len(ts) : ts[i].id = id}
  PROVE  (IF I # {} THEN Min(I) ELSE 0) \in 0 .. Len(ts)
<1>1. Len(ts) \in Nat /\ I \in SUBSET Nat /\ \A i \in I : i \in 0 .. Len(ts)
  BY LenProperties
<1>2. 0 \in 0 .. Len(ts)
  BY <1>1
<1>3. I # {} => Min(I) \in I
  BY <1>1, MinIs
<1> QED
  BY <1>1, <1>2, <1>3

\* What each close of the tab bar takes from e (of closeTab: at most).
Taken(e, kind, id) ==
    CASE kind = "one" -> {t \in AllTabs(e) : t.id = id}
      [] kind = "others" -> {t \in ToSet(e.tabs) : t.id # id}
      [] kind = "right" -> ToSet(SubSeq(e.tabs, SelectInSeq(e.tabs, LAMBDA t : t.id = id) + 1,
                                        Len(e.tabs)))
      [] kind = "all" -> ToSet(e.tabs)

LEMMA StashStays ==
  ASSUME NEW e, NEW n, n.sessions = e.sessions, NEW t \in AllTabs(e), t \notin AllTabs(n)
  PROVE  t \in ToSet(e.tabs) /\ t \notin ToSet(n.tabs)
BY DEF AllTabs

LEMMA closeTabTakes ==
  ASSUME NEW e, Typed(e), NEW id, NEW t \in AllTabs(e), t \notin AllTabs(closeTab(e, id))
  PROVE  t.id = id
<1> DEFINE gone == {u \in AllTabs(e) : u.id = id}
           n == closeTab(e, id)
<1>1. \A p \in DOMAIN e.sessions :
        e.sessions[p] \in Session(Tabs) /\ e.sessions[p].tabs \in Seq(Tabs)
  BY DEF Typed, Store, EverySession, Session
<1>2. e.tabs \in Seq(Tabs) /\ DOMAIN e = {"tabs", "active", "mru", "sessions"}
  BY DEF Typed, Store
<1>3. CASE Has(e.tabs, id)
  <2>1. n.tabs = Drop(e.tabs, gone) /\ n.sessions = e.sessions
    BY <1>2, <1>3 DEF closeTab
  <2> HIDE DEF gone, n
  <2>2. ToSet(n.tabs) = ToSet(e.tabs) \ gone
    BY <1>2, <2>1, DropIs
  <2>3. t \in ToSet(e.tabs) /\ t \notin ToSet(n.tabs)
    BY <2>1, StashStays DEF n
  <2> QED
    BY <2>2, <2>3 DEF gone
<1>4. CASE ~Has(e.tabs, id)
  <2>1. /\ n.tabs = e.tabs
        /\ n.sessions = [p \in DOMAIN e.sessions |->
                           IF Holds(e, p, id) THEN Pruned(e.sessions[p], gone) ELSE e.sessions[p]]
    BY <1>2, <1>4 DEF closeTab
  <2> HIDE DEF gone, n
  <2>2. PICK p \in DOMAIN e.sessions : t \in ToSet(e.sessions[p].tabs)
    BY <2>1 DEF AllTabs, n
  <2>3. t \notin ToSet(n.sessions[p].tabs)
    BY <2>1 DEF AllTabs, n
  <2>4. CASE Holds(e, p, id)
    <3>1. n.sessions[p] = Pruned(e.sessions[p], gone)
      BY <2>1, <2>4
    <3>2. ToSet(n.sessions[p].tabs) = ToSet(e.sessions[p].tabs) \ gone
      BY <1>1, <3>1, PrunedIs
    <3> QED
      BY <2>2, <2>3, <3>2 DEF gone
  <2>5. CASE ~Holds(e, p, id)
    BY <2>1, <2>2, <2>3, <2>5
  <2> QED
    BY <2>4, <2>5
<1> QED
  BY <1>3, <1>4

LEMMA CloseTakes ==
  ASSUME NEW e, Typed(e), NEW id, NEW kind \in {"one", "others", "right", "all"},
         NEW t \in AllTabs(e), t \notin AllTabs(Close(e, kind, id))
  PROVE  t \in Taken(e, kind, id)
<1>0. e.tabs \in Seq(Tabs) /\ DOMAIN e = {"tabs", "active", "mru", "sessions"}
  BY DEF Typed, Store
<1>1. CASE kind = "one"
  BY <1>1, closeTabTakes DEF Close, Taken
<1>2. CASE kind = "others"
  <2> DEFINE n == closeOtherTabs(e, id)
             K == {u \in ToSet(e.tabs) : u.id = id}
  <2>1. n.tabs = Only(e.tabs, K) /\ n.sessions = e.sessions /\ t \notin AllTabs(n)
    BY <1>0, <1>2 DEF closeOtherTabs, Close
  <2> HIDE DEF n
  <2>2. t \in ToSet(e.tabs) /\ t \notin ToSet(n.tabs)
    BY <2>1, StashStays
  <2>3. ToSet(n.tabs) = ToSet(e.tabs) \cap K
    <3> HIDE DEF K
    <3> QED
      BY <1>0, <2>1, ToSetOnly
  <2>4. t.id # id
    BY <2>2, <2>3
  <2> QED
    BY <1>2, <2>2, <2>4 DEF Taken
<1>3. CASE kind = "right"
  <2> DEFINE n == closeTabsToRight(e, id)
             I == {i \in 1 .. Len(e.tabs) : e.tabs[i].id = id}
             at == IF I # {} THEN Min(I) ELSE 0
  <2>0. PICK k : k = at
    OBVIOUS
  <2>1. k \in 0 .. Len(e.tabs)
    BY <1>0, <2>0, FirstWith
  <2>2. /\ k # 0 => n.tabs = SubSeq(e.tabs, 1, k) /\ n.sessions = e.sessions
        /\ k = 0 => n = e
        /\ t \notin AllTabs(n)
    BY <1>0, <1>3, <2>0 DEF closeTabsToRight, Close, SelectInSeq
  <2>3. Taken(e, kind, id) = ToSet(SubSeq(e.tabs, k + 1, Len(e.tabs)))
    BY <1>3, <2>0 DEF Taken, SelectInSeq
  <2> HIDE DEF n, at, I
  <2>4. t \in ToSet(e.tabs) /\ t \notin ToSet(SubSeq(e.tabs, 1, k))
    BY <2>2, StashStays
  <2>5. e.tabs \in Seq(Tabs) /\ k \in 0 .. Len(e.tabs)
    BY <1>0, <2>1
  <2>6. ToSet(e.tabs) \subseteq ToSet(SubSeq(e.tabs, 1, k)) \cup ToSet(SubSeq(e.tabs, k + 1, Len(e.tabs)))
    BY <2>5, CutSets
  <2> QED
    BY <2>3, <2>4, <2>6
<1>4. CASE kind = "all"
  <2>1. closeAllTabs(e).sessions = e.sessions /\ t \notin AllTabs(closeAllTabs(e))
    BY <1>0, <1>4 DEF closeAllTabs, Close
  <2>2. t \in ToSet(e.tabs)
    BY <2>1, StashStays
  <2> QED
    BY <1>4, <2>2 DEF Taken
<1> QED
  BY <1>1, <1>2, <1>3, <1>4

LEMMA CloseEverywhereTakes ==
  ASSUME NEW e, Typed(e), NEW gone, NEW t \in AllTabs(e), t \notin AllTabs(CloseEverywhere(e, gone))
  PROVE  t \in gone
<1> DEFINE n == CloseEverywhere(e, gone)
<1>1. /\ \A p \in DOMAIN e.sessions : e.sessions[p] \in Session(Tabs)
      /\ e.tabs \in Seq(Tabs) /\ DOMAIN e = {"tabs", "active", "mru", "sessions"}
  BY DEF Typed, Store, EverySession
<1>2. /\ n.tabs = Drop(e.tabs, gone)
      /\ n.sessions = [p \in DOMAIN e.sessions |-> Pruned(e.sessions[p], gone)]
  BY <1>1 DEF CloseEverywhere
<1> HIDE DEF n
<1>3. ToSet(n.tabs) = ToSet(e.tabs) \ gone
  BY <1>1, <1>2, DropIs
<1>4. ASSUME NEW p \in DOMAIN e.sessions, t \in ToSet(e.sessions[p].tabs) PROVE t \in gone
  <2>1. ToSet(n.sessions[p].tabs) = ToSet(e.sessions[p].tabs) \ gone
    BY <1>1, <1>2, PrunedIs
  <2>2. t \notin ToSet(n.sessions[p].tabs)
    BY <1>2 DEF AllTabs, n
  <2> QED
    BY <1>4, <2>1, <2>2
<1>5. CASE t \in ToSet(e.tabs)
  BY <1>3, <1>5 DEF AllTabs, n
<1> QED
  BY <1>4, <1>5 DEF AllTabs

LEMMA discardTakes ==
  ASSUME NEW e, Typed(e), NEW p, NEW t \in AllTabs(e), t \notin AllTabs(discardProjectSession(e, p))
  PROVE  t \in StashOf(e, p)
<1> DEFINE n == discardProjectSession(e, p)
<1>1. n.tabs = e.tabs /\ n.sessions = [q \in DOMAIN e.sessions \ {p} |-> e.sessions[q]]
  BY DEF discardProjectSession, Without, Typed, Store
<1> HIDE DEF n
<1>2. t \notin ToSet(e.tabs)
  BY <1>1 DEF AllTabs, n
<1>3. PICK q \in DOMAIN e.sessions : t \in ToSet(e.sessions[q].tabs)
  BY <1>2 DEF AllTabs
<1>4. q = p
  BY <1>1, <1>3 DEF AllTabs, n
<1> QED
  BY <1>3, <1>4 DEF StashOf

\* What is dropped is clean.
DropsClean(e, n) == \A t \in AllTabs(e) : t.edits = Clean \/ t \in AllTabs(n)

LEMMA SameSessions ==
  ASSUME NEW e, NEW n, n.sessions = e.sessions, ToSet(e.tabs) \subseteq ToSet(n.tabs)
  PROVE  DropsClean(e, n)
BY DEF DropsClean, AllTabs

LEMMA DropsThen ==
  ASSUME NEW e, NEW m, NEW n, DropsClean(e, m), DropsClean(m, n)
  PROVE  DropsClean(e, n)
BY DEF DropsClean

LEMMA DropsKeeps ==
  ASSUME NEW e, NEW n, DropsClean(e, n), NEW D
  PROVE  Keeps(e, n, D)
BY KeepsAll DEF DropsClean

LEMMA OnceWithin ==
  ASSUME NEW e, Typed(e), Once(e), NEW n, Within(e, n, {})
  PROVE  Once(n)
<1>1. \A q \in Slots : At(n, q) \subseteq At(e, q)
  BY WithinAt DEF Slots
<1> QED
  BY <1>1 DEF Once

LEMMA ShowDrops ==
  ASSUME NEW e, Typed(e), NEW id
  PROVE  DropsClean(e, ShowTab(e, id)) /\ DropsClean(e, setActiveTab(e, id))
<1>1. DOMAIN e = {"tabs", "active", "mru", "sessions"}
  BY DEF Typed, Store
<1>2. DropsClean(e, ShowTab(e, id))
  <2> DEFINE n == ShowTab(e, id)
  <2>1. n.tabs = e.tabs /\ n.sessions = e.sessions
    BY <1>1 DEF ShowTab
  <2> HIDE DEF n
  <2>2. DropsClean(e, n)
    BY <2>1, SameSessions
  <2> QED
    BY <2>2 DEF n
<1>3. DropsClean(e, setActiveTab(e, id))
  <2> DEFINE n == setActiveTab(e, id)
  <2>1. n.tabs = e.tabs /\ n.sessions = e.sessions
    BY <1>1 DEF setActiveTab
  <2> HIDE DEF n
  <2>2. DropsClean(e, n)
    BY <2>1, SameSessions
  <2> QED
    BY <2>2 DEF n
<1> QED
  BY <1>2, <1>3

LEMMA AppendDrops ==
  ASSUME NEW e, Typed(e), NEW t \in Tabs
  PROVE  DropsClean(e, AppendTab(e, t))
<1> DEFINE ts == Append(e.tabs, t)
           n == AppendTab(e, t)
<1>1. e.tabs \in Seq(Tabs) /\ DOMAIN e = {"tabs", "active", "mru", "sessions"}
  BY DEF Typed, Store
<1>2. /\ Len(ts) = Len(e.tabs) + 1 /\ ts \in Seq(Tabs)
      /\ \A i \in 1 .. Len(e.tabs) : ts[i] = e.tabs[i]
  BY <1>1, AppendProperties
<1>3. n.tabs = ts /\ n.sessions = e.sessions
  BY <1>1 DEF AppendTab
<1> HIDE DEF ts, n
<1>4. ToSet(e.tabs) \subseteq ToSet(ts)
  <2>1. DOMAIN e.tabs = 1 .. Len(e.tabs) /\ DOMAIN ts = 1 .. Len(ts) /\ Len(e.tabs) \in Nat
    BY <1>1, <1>2, LenProperties
  <2>2. ASSUME NEW i \in DOMAIN e.tabs PROVE i \in DOMAIN ts /\ ts[i] = e.tabs[i]
    BY <1>2, <2>1
  <2> QED
    BY <2>2 DEF ToSet
<1> QED
  BY <1>3, <1>4, SameSessions DEF n

LEMMA OrderDrops ==
  ASSUME NEW e, Typed(e)
  PROVE  /\ DropsClean(e, cycleTabMru(e))
         /\ \A from, to \in DOMAIN e.tabs : DropsClean(e, reorderTabs(e, from, to))
<1>1. e.tabs \in Seq(Tabs) /\ DOMAIN e = {"tabs", "active", "mru", "sessions"}
  BY DEF Typed, Store
<1>2. DropsClean(e, cycleTabMru(e))
  <2>1. \/ cycleTabMru(e) = e
        \/ \E id : cycleTabMru(e) = setActiveTab(e, id)
    BY DEF cycleTabMru
  <2>2. DropsClean(e, e)
    BY DEF DropsClean
  <2> QED
    BY <2>1, <2>2, ShowDrops
<1>3. ASSUME NEW from \in DOMAIN e.tabs, NEW to \in DOMAIN e.tabs
      PROVE  DropsClean(e, reorderTabs(e, from, to))
  <2> DEFINE ts == InsertAt(RemoveAt(e.tabs, from), to, e.tabs[from])
             n == reorderTabs(e, from, to)
  <2>1. ToSet(e.tabs) \subseteq ToSet(ts)
    BY <1>1, Reordered
  <2>2. n.tabs = ts /\ n.sessions = e.sessions
    BY <1>1 DEF reorderTabs
  <2> HIDE DEF ts, n
  <2> QED
    BY <2>1, <2>2, SameSessions DEF n
<1> QED
  BY <1>2, <1>3

\* A clean tab makes room.
LEMMA EvictDrops ==
  ASSUME NEW e, Typed(e), Once(e)
  PROVE  /\ DropsClean(e, EvictOne(e))
         /\ Typed(EvictOne(e)) /\ Once(EvictOne(e))
<1> DEFINE id == pickEvictableTabId(e)
           K == {i \in ToSet(e.mru) : Evictable(e, i)}
           victims == Only(e.mru, K)
<1>1. e.tabs \in Seq(Tabs) /\ e.mru \in Seq(Nat)
  BY SeqMonotonic DEF Typed, Store
<1>2. CASE EvictOne(e) = e
  BY <1>2 DEF DropsClean
<1>3. CASE EvictOne(e) # e
  <2>1. EvictOne(e) = closeTab(e, id) /\ id # NoTab
    BY <1>3 DEF EvictOne
  <2>2. victims # <<>> /\ id = Last(victims)
    BY <2>1 DEF pickEvictableTabId
  <2>3. Evictable(e, id)
    <3>1. victims \in Seq(Nat \cap K)
      <4> HIDE DEF K
      <4> QED
        BY <1>1, OnlyIn
    <3> HIDE DEF victims, K
    <3>2. Len(victims) \in Nat /\ Len(victims) # 0
      BY <2>2, <3>1, EmptySeq, LenProperties
    <3>3. Last(victims) = victims[Len(victims)]
      BY DEF Last
    <3>4. victims[Len(victims)] \in Nat \cap K
      BY <3>1, <3>2, ElementOfSeq
    <3> QED
      BY <2>2, <3>3, <3>4 DEF K
  <2>4. PICK i \in DOMAIN e.tabs : e.tabs[i].id = id /\ e.tabs[i].edits = Clean
    BY <2>3 DEF Evictable
  <2>5. e.tabs[i] \in AllTabs(e)
    BY DEF AllTabs, ToSet
  <2> HIDE DEF id
  <2>6. DropsClean(e, EvictOne(e))
    <3>1. ASSUME NEW t \in AllTabs(e), t \notin AllTabs(EvictOne(e)) PROVE t.edits = Clean
      <4>1. t.id = id
        BY <2>1, <3>1, closeTabTakes
      <4>2. t = e.tabs[i]
        BY <2>4, <2>5, <4>1, OnceTab
      <4> QED
        BY <2>4, <4>2
    <3> QED
      BY <3>1 DEF DropsClean
  <2>7. Within(e, EvictOne(e), {})
    BY <2>1, closeTabWithin
  <2> QED
    BY <2>6, <2>7, OnceWithin, WithinType
<1> QED
  BY <1>2, <1>3

LEMMA RoomDrops ==
  ASSUME NEW e, Typed(e), Once(e)
  PROVE  DropsClean(e, ensureOpenTabCapacity(e))
<1> DEFINE N == Len(e.tabs)
           f == CHOOSE f : Evictions(f, e, N)
<1>0. N \in Nat
  BY LenProperties DEF Typed, Store
<1>1. Evictions(f, e, N)
  BY <1>0, EvictionsExist
<1>2. ensureOpenTabCapacity(e) = f[N]
  BY DEF ensureOpenTabCapacity, Evictions
<1> HIDE DEF f, N
<1> DEFINE Good(y) == Typed(y) /\ Once(y) /\ DropsClean(e, y)
           T == {m \in Nat : m <= N => Good(f[m])}
<1>3. 0 \in T
  <2>1. f[0] = e
    BY <1>0, <1>1 DEF Evictions
  <2>2. DropsClean(e, e)
    BY DEF DropsClean
  <2> QED
    BY <2>1, <2>2
<1>4. ASSUME NEW m \in T PROVE m + 1 \in T
  <2>1. ASSUME m + 1 <= N PROVE Good(f[m + 1])
    <3>1. m + 1 \in 0 .. N /\ m + 1 # 0 /\ (m + 1) - 1 = m /\ m <= N
      BY <1>0, <2>1
    <3>2. f[m + 1] = EvictOne(f[m])
      BY <1>1, <3>1 DEF Evictions
    <3>3. Good(f[m])
      BY <3>1
    <3>4. PICK y : y = f[m]
      OBVIOUS
    <3>5. Typed(EvictOne(y)) /\ Once(EvictOne(y)) /\ DropsClean(e, EvictOne(y))
      BY <3>3, <3>4, EvictDrops, DropsThen
    <3> QED
      BY <3>2, <3>4, <3>5
  <2> HIDE DEF Good
  <2> QED
    BY <2>1
<1> HIDE DEF T
<1>5. T = Nat
  BY <1>3, <1>4, Induction DEF T
<1>6. Good(f[N])
  <2> HIDE DEF Good
  <2> QED
    BY <1>0, <1>5 DEF T
<1> QED
  BY <1>2, <1>6

LEMMA openFileDrops ==
  ASSUME NEW e, Typed(e), Once(e), NEW path \in Paths, lastId + 1 \in 1 .. MaxIds
  PROVE  DropsClean(e, openFile(e, path))
<1> DEFINE r == ensureOpenTabCapacity(e)
           t == Tab(lastId + 1, path, FALSE, Clean)
<1>1. DropsClean(e, r) /\ Typed(r)
  BY RoomDrops, ensureOpenTabCapacityWithin, WithinType
<1>2. t \in Tabs
  BY TabsType DEF Tab, Tabs, Clean
<1>3. \/ \E id : openFile(e, path) = ShowTab(e, id)
      \/ openFile(e, path) = AppendTab(r, t)
      \/ openFile(e, path) = r
  BY DEF openFile
<1> HIDE DEF r, t
<1>4. DropsClean(r, AppendTab(r, t))
  BY <1>1, <1>2, AppendDrops
<1> QED
  BY <1>1, <1>3, <1>4, DropsThen, ShowDrops

-----------------------------------------------------------------------------
(* Tabs changed in their places, when every number is of one tab *)

ImageOf(m, T) == {m[t] : t \in T}
\* Of each tab t there is m[t], in the same place.
Mapped(e, n, m) == \A q \in Slots : At(n, q) = ImageOf(m, At(e, q))

LEMMA MapSet ==
  ASSUME NEW a, NEW b, NEW m, DOMAIN b = DOMAIN a, \A i \in DOMAIN a : b[i] = m[a[i]]
  PROVE  ToSet(b) = ImageOf(m, ToSet(a))
BY DEF ToSet, ImageOf

\* What is changed everywhere.
LEMMA EachMapped ==
  ASSUME NEW e, NEW n, NEW m, DOMAIN n.sessions = DOMAIN e.sessions,
         DOMAIN n.tabs = DOMAIN e.tabs, \A i \in DOMAIN e.tabs : n.tabs[i] = m[e.tabs[i]],
         \A p \in DOMAIN e.sessions :
            /\ DOMAIN n.sessions[p].tabs = DOMAIN e.sessions[p].tabs
            /\ \A i \in DOMAIN e.sessions[p].tabs :
                  n.sessions[p].tabs[i] = m[e.sessions[p].tabs[i]]
  PROVE  Mapped(e, n, m)
<1>1. ToSet(n.tabs) = ImageOf(m, ToSet(e.tabs))
  BY MapSet
<1>2. ASSUME NEW p \in AllProjects PROVE StashOf(n, p) = ImageOf(m, StashOf(e, p))
  <2>1. CASE p \in DOMAIN e.sessions
    <3> DEFINE a == e.sessions[p].tabs
               b == n.sessions[p].tabs
    <3>1. DOMAIN b = DOMAIN a /\ \A i \in DOMAIN a : b[i] = m[a[i]]
      BY <2>1
    <3> HIDE DEF a, b
    <3>2. ToSet(b) = ImageOf(m, ToSet(a))
      BY <3>1, MapSet
    <3> QED
      BY <2>1, <3>2 DEF StashOf, a, b
  <2>2. CASE p \notin DOMAIN e.sessions
    BY <2>2 DEF StashOf, ImageOf
  <2> QED
    BY <2>1, <2>2
<1> QED
  BY <1>1, <1>2, AtIs DEF Mapped, Slots

\* What is changed for one number, where it is found.
LEMMA OneMapped ==
  ASSUME NEW e, Typed(e), Once(e), NEW n, NEW id,
         NEW m, \A t \in Tabs : t.id # id => m[t] = t,
         DOMAIN n.sessions = DOMAIN e.sessions,
         ToSet(n.tabs) = IF Has(e.tabs, id) THEN ImageOf(m, ToSet(e.tabs)) ELSE ToSet(e.tabs),
         \A p \in DOMAIN e.sessions :
            ToSet(n.sessions[p].tabs)
              = IF ~Has(e.tabs, id) /\ Holds(e, p, id)
                THEN ImageOf(m, ToSet(e.sessions[p].tabs)) ELSE ToSet(e.sessions[p].tabs)
  PROVE  Mapped(e, n, m)
<1>0. NoProject \in Slots /\ AllProjects \subseteq Slots /\ NoProject \notin AllProjects
  BY NoProjectIs DEF Slots
<1>1. /\ \A q \in Slots : At(e, q) \subseteq Tabs
      /\ DOMAIN e.sessions \subseteq AllProjects
  BY AtTabs, AllTabsTyped
<1>2. ASSUME NEW q \in Slots, \A t \in At(e, q) : t.id # id
      PROVE  ImageOf(m, At(e, q)) = At(e, q)
  <2>1. \A t \in At(e, q) : m[t] = t
    BY <1>1, <1>2
  <2> QED
    BY <2>1 DEF ImageOf
<1>3. Has(e.tabs, id) <=> \E t \in At(e, NoProject) : t.id = id
  BY AtIs DEF Has, ToSet
<1>4. ASSUME NEW p \in DOMAIN e.sessions
      PROVE  /\ Has(e.sessions[p].tabs, id) <=> \E t \in At(e, p) : t.id = id
             /\ At(e, p) = ToSet(e.sessions[p].tabs) /\ At(n, p) = ToSet(n.sessions[p].tabs)
  <2>1. At(e, p) = ToSet(e.sessions[p].tabs) /\ At(n, p) = ToSet(n.sessions[p].tabs)
    BY <1>1, AtIs DEF StashOf
  <2> QED
    BY <2>1 DEF Has, ToSet
<1>5. At(n, NoProject) = ImageOf(m, At(e, NoProject))
  BY <1>0, <1>2, <1>3, AtIs
<1>6. ASSUME NEW p \in DOMAIN e.sessions PROVE At(n, p) = ImageOf(m, At(e, p))
  <2>0. p \in Slots /\ p # NoProject
    BY <1>0, <1>1
  <2>1. CASE \A t \in At(e, p) : t.id # id
    <3>1. ~Holds(e, p, id)
      BY <1>4, <2>1 DEF Holds
    <3> QED
      BY <1>2, <1>4, <2>0, <2>1, <3>1
  <2>2. CASE \E t \in At(e, p) : t.id = id
    <3>1. ~Has(e.tabs, id)
      BY <1>0, <1>3, <2>0, <2>2 DEF Once
    <3>2. \A q \in DOMAIN e.sessions : Has(e.sessions[q].tabs, id) => q = p
      BY <1>0, <1>1, <1>4, <2>2 DEF Once
    <3>3. Has(e.sessions[p].tabs, id)
      BY <1>4, <2>2
    <3>4. Holds(e, p, id)
      BY <3>2, <3>3 DEF Holds
    <3> QED
      BY <1>4, <3>1, <3>4
  <2> QED
    BY <2>1, <2>2
<1>7. ASSUME NEW p \in AllProjects, p \notin DOMAIN e.sessions
      PROVE  At(n, p) = ImageOf(m, At(e, p))
  BY <1>7, AtIs DEF ImageOf
<1> QED
  BY <1>5, <1>6, <1>7 DEF Mapped, Slots

LEMMA MappedTidy ==
  ASSUME NEW e, Typed(e), NEW k, Tidy(e, k), NEW n, NEW m, Mapped(e, n, m),
         \A t \in Tabs : m[t].id = t.id,
         \A p \in AllProjects : \A t \in At(e, p) : IsPinned(m[t]) => m[t].edits = Clean,
         \A t \in AllTabs(e) : m[t].diff => m[t].edits = Clean
  PROVE  Tidy(n, k)
<1>1. ASSUME NEW q \in Slots, NEW u \in At(n, q)
      PROVE  \E t \in At(e, q) : u = m[t] /\ t \in Tabs /\ t \in AllTabs(e) /\ u.id = t.id
  BY AtTabs DEF Mapped, ImageOf
<1>2. Once(n)
  <2> SUFFICES ASSUME NEW q \in Slots, NEW r \in Slots, NEW u \in At(n, q), NEW v \in At(n, r),
                      u.id = v.id
               PROVE  q = r /\ u = v
    BY DEF Once
  <2>1. PICK t \in At(e, q) : u = m[t] /\ u.id = t.id
    BY <1>1
  <2>2. PICK s \in At(e, r) : v = m[s] /\ v.id = s.id
    BY <1>1
  <2>3. q = r /\ t = s
    BY <2>1, <2>2 DEF Tidy, Once
  <2> QED
    BY <2>1, <2>2, <2>3
<1>3. ASSUME NEW p \in AllProjects, NEW u \in At(n, p), IsPinned(u) PROVE u.edits = Clean
  BY <1>1, <1>3 DEF Slots
<1>4. ASSUME NEW q \in Slots, NEW u \in At(n, q) PROVE u.id <= k /\ (u.diff => u.edits = Clean)
  <2>1. PICK t \in At(e, q) : u = m[t] /\ t \in AllTabs(e) /\ u.id = t.id
    BY <1>1
  <2>2. t.id <= k
    BY DEF Tidy
  <2> QED
    BY <2>1, <2>2
<1> QED
  BY <1>2, <1>3, <1>4 DEF Tidy

LEMMA MappedKeeps ==
  ASSUME NEW e, Typed(e), NEW n, Typed(n), NEW m, Mapped(e, n, m), NEW D,
         \A t \in AllTabs(e) : t.edits = Clean \/ t.edits \in D \/ m[t].edits = t.edits
  PROVE  Keeps(e, n, D)
<1>1. ASSUME NEW t \in AllTabs(e) PROVE m[t] \in AllTabs(n)
  BY AtTabs DEF Mapped, ImageOf
<1> QED
  BY <1>1 DEF Keeps

\* The four handlers.
TextOf(id, edits) ==
    [t \in Tabs |-> IF t.id = id THEN [t EXCEPT !.edits = edits] ELSE t]
NameOf(id, path) ==
    [t \in Tabs |-> IF t.id = id THEN [t EXCEPT !.path = path, !.edits = Clean] ELSE t]
PathOf(from, to) ==
    [t \in Tabs |-> IF t.path = from THEN [t EXCEPT !.path = to] ELSE t]
CleanOf(saved) ==
    [t \in Tabs |-> IF t \in saved THEN [t EXCEPT !.edits = Clean] ELSE t]

\* A list of tabs.
LEMMA TabList ==
  ASSUME NEW e, Typed(e)
  PROVE  /\ e.tabs \in Seq(Tabs) /\ \A i \in DOMAIN e.tabs : e.tabs[i] \in Tabs
         /\ \A p \in DOMAIN e.sessions : \A i \in DOMAIN e.sessions[p].tabs :
               e.sessions[p].tabs[i] \in Tabs
<1>1. e.tabs \in Seq(Tabs) /\ \A p \in DOMAIN e.sessions : e.sessions[p].tabs \in Seq(Tabs)
  BY DEF Typed, Store, EverySession, Session
<1> QED
  BY <1>1, ToSetIn

LEMMA SetTextMapped ==
  ASSUME NEW e, Typed(e), Once(e), NEW id, NEW edits
  PROVE  Mapped(e, SetText(e, id, edits), TextOf(id, edits))
<1> DEFINE n == SetText(e, id, edits)
           m == TextOf(id, edits)
           Map(ts) == [i \in DOMAIN ts |-> IF ts[i].id = id THEN [ts[i] EXCEPT !.edits = edits]
                                           ELSE ts[i]]
<1>1. \A t \in Tabs : t.id # id => m[t] = t
  BY DEF TextOf
<1>2. /\ n.tabs = IF Has(e.tabs, id) THEN Map(e.tabs) ELSE e.tabs
      /\ n.sessions = IF Has(e.tabs, id) THEN e.sessions
                      ELSE [p \in DOMAIN e.sessions |->
                              IF Holds(e, p, id)
                              THEN [tabs |-> Map(e.sessions[p].tabs), active |-> e.sessions[p].active]
                              ELSE e.sessions[p]]
  BY DEF SetText, mapTabEverywhere, MapTabs, Typed, Store
<1>3. ASSUME NEW ts, \A i \in DOMAIN ts : ts[i] \in Tabs
      PROVE  ToSet(Map(ts)) = ImageOf(m, ToSet(ts))
  <2>1. DOMAIN Map(ts) = DOMAIN ts /\ \A i \in DOMAIN ts : Map(ts)[i] = m[ts[i]]
    BY <1>3 DEF TextOf
  <2> HIDE DEF Map, m
  <2> QED
    BY <2>1, MapSet
<1> HIDE DEF n, m, Map
<1>4. ToSet(n.tabs) = IF Has(e.tabs, id) THEN ImageOf(m, ToSet(e.tabs)) ELSE ToSet(e.tabs)
  BY <1>2, <1>3, TabList
<1>5. /\ DOMAIN n.sessions = DOMAIN e.sessions
      /\ \A p \in DOMAIN e.sessions :
            ToSet(n.sessions[p].tabs)
              = IF ~Has(e.tabs, id) /\ Holds(e, p, id)
                THEN ImageOf(m, ToSet(e.sessions[p].tabs)) ELSE ToSet(e.sessions[p].tabs)
  BY <1>2, <1>3, TabList
<1>6. Mapped(e, n, m)
  BY <1>1, <1>4, <1>5, OneMapped
<1> QED
  BY <1>6 DEF n, m

LEMMA SavedUnderMapped ==
  ASSUME NEW e, Typed(e), Once(e), NEW id, NEW path
  PROVE  Mapped(e, SavedUnder(e, id, path), NameOf(id, path))
<1> DEFINE n == SavedUnder(e, id, path)
           m == NameOf(id, path)
           Map(ts) == [i \in DOMAIN ts |->
                         IF ts[i].id = id THEN [ts[i] EXCEPT !.path = path, !.edits = Clean]
                         ELSE ts[i]]
<1>1. \A t \in Tabs : t.id # id => m[t] = t
  BY DEF NameOf
<1>2. /\ n.tabs = IF Has(e.tabs, id) THEN Map(e.tabs) ELSE e.tabs
      /\ n.sessions = IF Has(e.tabs, id) THEN e.sessions
                      ELSE [p \in DOMAIN e.sessions |->
                              IF Holds(e, p, id)
                              THEN [tabs |-> Map(e.sessions[p].tabs), active |-> e.sessions[p].active]
                              ELSE e.sessions[p]]
  BY DEF SavedUnder, mapTabEverywhere, MapTabs, Typed, Store
<1>3. ASSUME NEW ts, \A i \in DOMAIN ts : ts[i] \in Tabs
      PROVE  ToSet(Map(ts)) = ImageOf(m, ToSet(ts))
  <2>1. DOMAIN Map(ts) = DOMAIN ts /\ \A i \in DOMAIN ts : Map(ts)[i] = m[ts[i]]
    BY <1>3 DEF NameOf
  <2> HIDE DEF Map, m
  <2> QED
    BY <2>1, MapSet
<1> HIDE DEF n, m, Map
<1>4. ToSet(n.tabs) = IF Has(e.tabs, id) THEN ImageOf(m, ToSet(e.tabs)) ELSE ToSet(e.tabs)
  BY <1>2, <1>3, TabList
<1>5. /\ DOMAIN n.sessions = DOMAIN e.sessions
      /\ \A p \in DOMAIN e.sessions :
            ToSet(n.sessions[p].tabs)
              = IF ~Has(e.tabs, id) /\ Holds(e, p, id)
                THEN ImageOf(m, ToSet(e.sessions[p].tabs)) ELSE ToSet(e.sessions[p].tabs)
  BY <1>2, <1>3, TabList
<1>6. Mapped(e, n, m)
  BY <1>1, <1>4, <1>5, OneMapped
<1> QED
  BY <1>6 DEF n, m

LEMMA RenameTabsMapped ==
  ASSUME NEW e, Typed(e), NEW from, NEW to
  PROVE  Mapped(e, RenameTabs(e, from, to), PathOf(from, to))
<1> DEFINE n == RenameTabs(e, from, to)
           m == PathOf(from, to)
           Map(ts) == [i \in DOMAIN ts |-> IF ts[i].path = from THEN [ts[i] EXCEPT !.path = to]
                                           ELSE ts[i]]
<1>1. /\ n.tabs = Map(e.tabs)
      /\ n.sessions = [p \in DOMAIN e.sessions |->
                         [tabs |-> Map(e.sessions[p].tabs), active |-> e.sessions[p].active]]
  BY DEF RenameTabs, EachTab, Typed, Store
<1>2. ASSUME NEW ts, \A i \in DOMAIN ts : ts[i] \in Tabs
      PROVE  DOMAIN Map(ts) = DOMAIN ts /\ \A i \in DOMAIN ts : Map(ts)[i] = m[ts[i]]
  BY <1>2 DEF PathOf
<1> HIDE DEF n, m, Map
<1>3. Mapped(e, n, m)
  BY <1>1, <1>2, TabList, EachMapped
<1> QED
  BY <1>3 DEF n, m

LEMMA CleanTabsMapped ==
  ASSUME NEW e, Typed(e), NEW saved
  PROVE  Mapped(e, CleanTabs(e, saved), CleanOf(saved))
<1> DEFINE n == CleanTabs(e, saved)
           m == CleanOf(saved)
           Map(ts) == [i \in DOMAIN ts |-> IF ts[i] \in saved THEN [ts[i] EXCEPT !.edits = Clean]
                                           ELSE ts[i]]
<1>1. /\ n.tabs = Map(e.tabs)
      /\ n.sessions = [p \in DOMAIN e.sessions |->
                         [tabs |-> Map(e.sessions[p].tabs), active |-> e.sessions[p].active]]
  BY DEF CleanTabs, EachTab, Typed, Store
<1>2. ASSUME NEW ts, \A i \in DOMAIN ts : ts[i] \in Tabs
      PROVE  DOMAIN Map(ts) = DOMAIN ts /\ \A i \in DOMAIN ts : Map(ts)[i] = m[ts[i]]
  BY <1>2 DEF CleanOf
<1> HIDE DEF n, m, Map
<1>3. Mapped(e, n, m)
  BY <1>1, <1>2, TabList, EachMapped
<1> QED
  BY <1>3 DEF n, m

-----------------------------------------------------------------------------
(* The numbers of what is saved *)

\* The places of saved tabs: the pinned ones, under NoProject, and the sessions.
SavedAt(s, q) ==
    IF q = NoProject THEN ToSet(s.pinned)
    ELSE IF q \in DOMAIN s.projects THEN ToSet(s.projects[q].tabs) ELSE {}

\* A number up to n is of one saved tab, in one place.
SavedTidy(s, n) ==
    /\ \A q, r \in Slots : \A t \in SavedAt(s, q), u \in SavedAt(s, r) : t.id = u.id => q = r /\ t = u
    /\ \A q \in Slots : \A t \in SavedAt(s, q) : t.id \in 1 .. n

AsSaved(t) == [id |-> t.id, path |-> t.path, dirty |-> t.edits # Clean]

LEMMA SavedSet ==
  ASSUME NEW ts, NEW s \in ToSet(Saved(ts))
  PROVE  \E t \in ToSet(ts) : s = AsSaved(t)
<1>1. DOMAIN Saved(ts) = DOMAIN ts /\ \A i \in DOMAIN ts : Saved(ts)[i] = AsSaved(ts[i])
  BY DEF Saved, AsSaved
<1> QED
  BY <1>1 DEF ToSet

\* Where a saved tab was in the store.
Source(q) == IF q = current THEN NoProject ELSE q

LEMMA CaptureFrom ==
  ASSUME TypeInv, NEW among, NEW c, c = captureWorkspaceSessionSnapshot(editor, among),
         NEW q \in Slots, NEW s \in SavedAt(c, q)
  PROVE  /\ Source(q) \in Slots
         /\ \E t \in At(editor, Source(q)) :
               s = AsSaved(t) /\ (IsPinned(t) <=> q = NoProject)
<1> DEFINE full == {p \in among \cap projects \cap Projects : Sessions(editor, p).tabs # <<>>}
<1>1. /\ c.projects = [p \in full |-> SavedSession(Sessions(editor, p))]
      /\ c.pinned = Saved(pinned(editor.tabs))
  BY DEF captureWorkspaceSessionSnapshot
<1>2. full \subseteq Projects
  OBVIOUS
<1> HIDE DEF full
<1>3. Typed(editor)
  BY DEF TypeInv, StoreOK
<1>4. /\ editor.tabs \in Seq(Tabs) /\ DOMAIN editor.sessions \subseteq AllProjects
      /\ \A p \in DOMAIN editor.sessions : editor.sessions[p].tabs \in Seq(Tabs)
  BY <1>3, TypedLists
<1>5. Source(q) \in Slots
  BY DEF Source, Slots
<1>6. CASE q = NoProject
  <2>1. s \in ToSet(Saved(pinned(editor.tabs)))
    BY <1>1, <1>6 DEF SavedAt
  <2>2. PICK t \in ToSet(pinned(editor.tabs)) : s = AsSaved(t)
    BY <2>1, SavedSet
  <2>3. t \in ToSet(editor.tabs) /\ IsPinned(t)
    BY <1>4, <2>2, SplitIs
  <2>4. t \in At(editor, Source(q))
    BY <1>6, <2>3 DEF Source, At
  <2> QED
    BY <1>5, <1>6, <2>2, <2>3, <2>4
<1>7. CASE q # NoProject
  <2>1. q \in full /\ s \in ToSet(SavedSession(Sessions(editor, q)).tabs)
    BY <1>1, <1>7 DEF SavedAt
  <2>2. s \in ToSet(Saved(projectTabs(Sessions(editor, q).tabs)))
    BY <2>1 DEF SavedSession
  <2>3. PICK t \in ToSet(projectTabs(Sessions(editor, q).tabs)) : s = AsSaved(t)
    BY <2>2, SavedSet
  <2>4. ASSUME NEW ts \in Seq(Tabs), t \in ToSet(projectTabs(ts))
        PROVE  t \in ToSet(ts) /\ ~IsPinned(t)
    BY <2>4, SplitIs
  <2>5. q \in AllProjects
    BY <1>2, <2>1 DEF AllProjects
  <2>6. CASE q = current
    <3>1. Sessions(editor, q).tabs = projectTabs(editor.tabs)
      BY <2>6 DEF Sessions, Stashed
    <3>2. projectTabs(editor.tabs) \in Seq({u \in Tabs : ~IsPinned(u)})
      BY <1>4, SplitIs
    <3>3. projectTabs(editor.tabs) \in Seq(Tabs)
      BY <3>2, SeqMonotonic
    <3>4. t \in ToSet(projectTabs(editor.tabs))
      BY <2>3, <2>4, <3>1, <3>3
    <3>5. t \in ToSet(editor.tabs) /\ ~IsPinned(t)
      BY <1>4, <2>4, <3>4
    <3>6. t \in At(editor, Source(q))
      BY <2>6, <3>5 DEF Source, At
    <3> QED
      BY <1>5, <1>7, <2>3, <3>5, <3>6
  <2>7. CASE q # current /\ q \in DOMAIN editor.sessions
    <3>1. Sessions(editor, q) = editor.sessions[q]
      BY <2>7 DEF Sessions
    <3>2. t \in ToSet(editor.sessions[q].tabs) /\ ~IsPinned(t)
      BY <1>4, <2>3, <2>4, <2>7, <3>1
    <3>3. t \in At(editor, Source(q))
      BY <1>7, <2>7, <3>2 DEF Source, At, StashOf
    <3> QED
      BY <1>5, <1>7, <2>3, <3>2, <3>3
  <2>8. CASE q # current /\ q \notin DOMAIN editor.sessions
    <3>1. Sessions(editor, q).tabs = <<>>
      BY <2>8 DEF Sessions
    <3>2. t \in ToSet(<<>>)
      BY <2>3, <3>1, SplitNone
    <3> QED
      BY <3>2, EmptyToSet
  <2> QED
    BY <2>6, <2>7, <2>8
<1> QED
  BY <1>6, <1>7

LEMMA CaptureTidy ==
  ASSUME TypeInv, NEW n \in Nat, Tidy(editor, n), NEW among
  PROVE  SavedTidy(captureWorkspaceSessionSnapshot(editor, among), n)
<1>1. PICK c : c = captureWorkspaceSessionSnapshot(editor, among)
  OBVIOUS
<1>2. ASSUME NEW q \in Slots, NEW r \in Slots, NEW s \in SavedAt(c, q), NEW v \in SavedAt(c, r),
             s.id = v.id
      PROVE  q = r /\ s = v
  <2>1. Source(q) \in Slots /\ Source(r) \in Slots
    BY <1>1, <1>2, CaptureFrom
  <2>2. PICK t \in At(editor, Source(q)) : s = AsSaved(t) /\ (IsPinned(t) <=> q = NoProject)
    BY <1>1, <1>2, CaptureFrom
  <2>3. PICK u \in At(editor, Source(r)) : v = AsSaved(u) /\ (IsPinned(u) <=> r = NoProject)
    BY <1>1, <1>2, CaptureFrom
  <2>4. t.id = u.id
    BY <1>2, <2>2, <2>3 DEF AsSaved
  <2>5. Source(q) = Source(r) /\ t = u
    BY <2>1, <2>4 DEF Tidy, Once
  <2> QED
    BY <2>2, <2>3, <2>5 DEF Source
<1>3. ASSUME NEW q \in Slots, NEW s \in SavedAt(c, q) PROVE s.id \in 1 .. n
  <2>1. Source(q) \in Slots
    BY <1>1, <1>3, CaptureFrom
  <2>2. PICK t \in At(editor, Source(q)) : s = AsSaved(t)
    BY <1>1, <1>3, CaptureFrom
  <2>3. t \in Tabs
    BY <2>1, AtTabs DEF TypeInv, StoreOK
  <2>4. t.id <= n /\ t.id \in 1 .. MaxIds
    BY <2>1, <2>3 DEF Tidy, Tabs
  <2>5. t.id \in 1 .. n
    BY <2>4
  <2> QED
    BY <2>2, <2>5 DEF AsSaved
<1> QED
  BY <1>1, <1>2, <1>3 DEF SavedTidy

LEMMA RestoredSet ==
  ASSUME NEW ts, NEW taker, NEW t \in ToSet(Restored(ts, taker))
  PROVE  \E s \in ToSet(ts) : t = tabFromPersisted(s, taker)
BY DEF Restored, ToSet

\* What the store holds at the start is what was saved.
LEMMA HydratedTidy ==
  ASSUME TypeInv, PlainInv, NEW n \in Nat, SavedTidy(snapshot, n), hydrateWorkspaceSessions
  PROVE  /\ Tidy(editor', n)
         /\ \A t \in AllTabs(editor') : ~t.diff
<1>1. PICK taker : /\ editor'.tabs = Restored(snapshot.pinned, taker)
                   /\ editor'.sessions
                        = [q \in DOMAIN snapshot.projects |->
                             projectSessionFromPersisted(snapshot.projects[q], taker)]
  <2>1. PICK taker :
          editor' = [NoEditor EXCEPT
                       !.tabs = Restored(snapshot.pinned, taker),
                       !.active = FirstId(snapshot.pinned),
                       !.sessions = [q \in DOMAIN snapshot.projects |->
                           projectSessionFromPersisted(snapshot.projects[q], taker)]]
    BY ZenonT(60) DEF hydrateWorkspaceSessions
  <2>2. ASSUME NEW ts1, NEW a, NEW ss,
               editor' = [NoEditor EXCEPT !.tabs = ts1, !.active = a, !.sessions = ss]
        PROVE  editor'.tabs = ts1 /\ editor'.sessions = ss
    BY <2>2, SMTT(30) DEF NoEditor
  <2> QED
    BY <2>1, <2>2
<1>2. ASSUME NEW q \in Slots, NEW t \in At(editor', q)
      PROVE  \E s \in SavedAt(snapshot, q) : t = tabFromPersisted(s, taker)
  <2>1. CASE q = NoProject
    BY <1>1, <1>2, <2>1, RestoredSet DEF At, SavedAt
  <2>2. CASE q # NoProject
    <3>1. q \in DOMAIN editor'.sessions /\ t \in ToSet(editor'.sessions[q].tabs)
      BY <1>2, <2>2 DEF At, StashOf
    <3>2. q \in DOMAIN snapshot.projects
          /\ editor'.sessions[q].tabs = Restored(snapshot.projects[q].tabs, taker)
      BY <1>1, <3>1 DEF projectSessionFromPersisted
    <3>3. \E s \in ToSet(snapshot.projects[q].tabs) : t = tabFromPersisted(s, taker)
      BY <3>1, <3>2, RestoredSet
    <3> QED
      BY <2>2, <3>2, <3>3 DEF SavedAt
  <2> QED
    BY <2>1, <2>2
<1>3. \A s : LET t == tabFromPersisted(s, taker) IN t.id = s.id /\ t.path = s.path /\ ~t.diff
  BY DEF tabFromPersisted, Tab
<1>4. Once(editor')
  <2>1. ASSUME NEW q \in Slots, NEW r \in Slots, NEW t \in At(editor', q), NEW u \in At(editor', r),
               t.id = u.id
        PROVE  q = r /\ t = u
    <3>1. PICK s \in SavedAt(snapshot, q) : t = tabFromPersisted(s, taker)
      BY <1>2
    <3>2. PICK v \in SavedAt(snapshot, r) : u = tabFromPersisted(v, taker)
      BY <1>2
    <3>3. s.id = v.id
      BY <1>3, <2>1, <3>1, <3>2
    <3> QED
      BY <3>1, <3>2, <3>3 DEF SavedTidy
  <2> QED
    BY <2>1 DEF Once
<1>5. ASSUME NEW p \in AllProjects, NEW t \in At(editor', p) PROVE ~IsPinned(t)
  <2>1. p \in Slots /\ p # NoProject
    BY NoProjectIs DEF Slots
  <2>2. PICK s \in SavedAt(snapshot, p) : t = tabFromPersisted(s, taker)
    BY <1>2, <2>1
  <2>3. p \in DOMAIN snapshot.projects /\ s \in ToSet(snapshot.projects[p].tabs)
    BY <2>1, <2>2 DEF SavedAt
  <2>4. p \in Projects /\ snapshot.projects[p].tabs \in Seq(PlainSaved[p])
    BY <2>3 DEF PlainInv, SavedStore, PlainSaved, Session
  <2>5. s \in PlainSaved[p]
    BY <2>3, <2>4, ToSetIn
  <2>6. s.path \notin Pinned
    BY <2>4, <2>5 DEF PlainSaved
  <2> QED
    BY <1>3, <2>2, <2>6 DEF IsPinned
<1>6. ASSUME NEW q \in Slots, NEW t \in At(editor', q) PROVE t.id <= n /\ ~t.diff
  <2>1. PICK s \in SavedAt(snapshot, q) : t = tabFromPersisted(s, taker)
    BY <1>2
  <2>2. s.id \in 1 .. n
    BY <2>1 DEF SavedTidy
  <2>3. s.id <= n
    BY <2>2
  <2> QED
    BY <1>3, <2>1, <2>3
<1>7. ASSUME NEW t \in AllTabs(editor') PROVE \E q \in Slots : t \in At(editor', q)
  <2>1. CASE t \in ToSet(editor'.tabs)
    BY <2>1 DEF At, Slots
  <2>2. CASE \E p \in DOMAIN editor'.sessions : t \in StashOf(editor', p)
    <3>1. PICK p \in DOMAIN editor'.sessions : t \in StashOf(editor', p)
      BY <2>2
    <3>2. p \in AllProjects
      BY <1>1, <3>1 DEF PlainInv, SavedStore, PlainSaved, AllProjects
    <3> QED
      BY <3>1, <3>2, NoProjectIs DEF At, Slots
  <2> QED
    BY <1>7, <2>1, <2>2, AllTabsAre
<1> QED
  BY <1>4, <1>5, <1>6, <1>7 DEF Tidy

\* What an earlier run has left.
LEMMA InitTidy ==
  ASSUME Init
  PROVE  Tidy(editor, lastId) /\ SavedTidy(snapshot, lastId)
<1>1. Tidy(editor, lastId)
  <2>1. editor = NoEditor
    BY DEF Init
  <2>2. \A q \in Slots : At(editor, q) = {}
    BY <2>1, EmptyToSet DEF At, StashOf, NoEditor, NoSessions
  <2>3. \A p \in AllProjects : At(editor, p) = {}
    BY <2>2 DEF Slots
  <2> QED
    BY <2>2, <2>3 DEF Tidy, Once
<1>2. ASSUME NothingLeft PROVE SavedTidy(snapshot, lastId)
  <2>1. \A q \in Slots : SavedAt(snapshot, q) = {}
    BY <1>2, EmptyToSet DEF NothingLeft, NoSnapshot, NoSessions, SavedAt
  <2> QED
    BY <2>1 DEF SavedTidy
<1>3. ASSUME NEW p \in Projects, NEW path \in Paths \ Pinned, NEW edits \in 0 .. MaxEdits,
             Left(p, path, edits)
      PROVE  SavedTidy(snapshot, lastId)
  <2> DEFINE ts == Saved(<<Tab(1, path, FALSE, edits)>>)
             s == [id |-> 1, path |-> path, dirty |-> edits # Clean]
  <2>1. ts = <<s>>
    BY DEF Saved, Tab
  <2>2. ToSet(ts) = {s}
    <3> HIDE DEF s, ts
    <3> QED
      BY <2>1 DEF ToSet
  <2>3. snapshot.projects = [q \in {p} |-> [tabs |-> ts, active |-> 1]] /\ snapshot.pinned = <<>>
    BY <1>3 DEF Left
  <2>4. s.id = 1 /\ lastId = 1
    BY <1>3 DEF Left
  <2> HIDE DEF ts, s
  <2>5. DOMAIN snapshot.projects = {p} /\ snapshot.projects[p].tabs = ts
    BY <2>3
  <2>6. ASSUME NEW q \in Slots, NEW t \in SavedAt(snapshot, q) PROVE q = p /\ t = s
    <3>1. q # NoProject
      BY <2>3, <2>6, EmptyToSet DEF SavedAt
    <3>2. q \in DOMAIN snapshot.projects /\ t \in ToSet(snapshot.projects[q].tabs)
      BY <2>6, <3>1 DEF SavedAt
    <3> QED
      BY <2>2, <2>5, <3>2
  <2>7. s.id \in 1 .. lastId
    BY <2>4
  <2> QED
    BY <2>6, <2>7 DEF SavedTidy
<1> QED
  BY <1>1, <1>2, <1>3 DEF Init

-----------------------------------------------------------------------------
(* Handlers that keep the tabs apart *)

LEMMA TidyMore ==
  ASSUME NEW e, Typed(e), NEW k \in Nat, Tidy(e, k), NEW m \in Nat, k <= m
  PROVE  Tidy(e, m)
BY TidyLess

LEMMA SavedTidyMore ==
  ASSUME NEW s, NEW k \in Nat, SavedTidy(s, k), NEW m \in Nat, k <= m
  PROVE  SavedTidy(s, m)
BY DEF SavedTidy

\* A tab with the next number, if there was room for it.
LEMMA OpenedTidy ==
  ASSUME NEW e, Typed(e), NEW k \in Nat, Tidy(e, k), NEW t \in Tabs, t.id = k + 1, t.edits = Clean,
         NEW n, Within(e, n, {t}), NEW m, m = IF Has(n.tabs, k + 1) THEN k + 1 ELSE k
  PROVE  Tidy(n, m)
<1>1. CASE Has(n.tabs, k + 1)
  BY <1>1, TidyOpened
<1>2. CASE ~Has(n.tabs, k + 1)
  <2>1. {t} \in SUBSET Tabs
    OBVIOUS
  <2>2. /\ At(n, NoProject) \subseteq At(e, NoProject) \cup {t}
        /\ \A p \in AllProjects : At(n, p) \subseteq At(e, p)
    BY <2>1, WithinAt
  <2>3. t \notin At(n, NoProject)
    BY <1>2, HasIs, AtIs
  <2>4. \A q \in Slots : At(n, q) \subseteq At(e, q)
    BY <2>2, <2>3 DEF Slots
  <2>5. m = k /\ k <= k
    BY <1>2
  <2> QED
    BY <2>4, <2>5, TidyLess
<1> QED
  BY <1>1, <1>2

\* What is typed goes into a visible tab that is no comparison.
LEMMA SetTextTidy ==
  ASSUME NEW e, Typed(e), NEW k, Tidy(e, k), NEW id, NEW edits,
         edits = Clean \/ \E i \in DOMAIN e.tabs : e.tabs[i].id = id /\ ~e.tabs[i].diff
  PROVE  Tidy(SetText(e, id, edits), k)
<1> DEFINE m == TextOf(id, edits)
           n == SetText(e, id, edits)
<1>1. Mapped(e, n, m)
  BY SetTextMapped DEF Tidy
<1>2. \A t \in Tabs : /\ t.id # id => m[t] = t
                      /\ m[t].id = t.id /\ m[t].diff = t.diff /\ m[t].path = t.path
                      /\ t.id = id => m[t].edits = edits
  BY DEF TextOf, Tabs
<1> HIDE DEF m, n
<1>3. /\ \A q \in Slots : At(e, q) \subseteq AllTabs(e) /\ At(e, q) \subseteq Tabs
      /\ AllTabs(e) \subseteq Tabs
      /\ NoProject \in Slots /\ AllProjects \subseteq Slots
  BY AtTabs, AllTabsTyped DEF Slots
<1>4. ASSUME NEW p \in AllProjects, NEW t \in At(e, p), IsPinned(m[t]) PROVE m[t].edits = Clean
  <2>1. t \in Tabs /\ t.path \in Pinned
    BY <1>2, <1>3, <1>4 DEF IsPinned
  <2>2. t.edits = Clean
    BY <2>1 DEF Tidy, IsPinned
  <2>3. CASE t.id # id
    BY <1>2, <2>1, <2>2, <2>3
  <2>4. CASE t.id = id /\ edits # Clean
    <3>1. PICK i \in DOMAIN e.tabs : e.tabs[i].id = id
      BY <2>4
    <3>2. e.tabs[i] \in At(e, NoProject)
      BY AtIs DEF ToSet
    <3>3. p = NoProject
      BY <1>3, <2>4, <3>1, <3>2 DEF Tidy, Once
    <3> QED
      BY <3>3, NoProjectIs
  <2> QED
    BY <1>2, <2>1, <2>3, <2>4
<1>5. ASSUME NEW t \in AllTabs(e), m[t].diff PROVE m[t].edits = Clean
  <2>1. t \in Tabs /\ t.diff
    BY <1>2, <1>3, <1>5
  <2>2. t.edits = Clean
    <3>1. PICK q \in Slots : t \in At(e, q)
      BY AtTabs
    <3> QED
      BY <2>1, <3>1 DEF Tidy
  <2>3. CASE t.id = id /\ edits # Clean
    <3>1. PICK i \in DOMAIN e.tabs : e.tabs[i].id = id /\ ~e.tabs[i].diff
      BY <2>3
    <3>2. e.tabs[i] \in AllTabs(e)
      BY DEF AllTabs, ToSet
    <3>3. e.tabs[i] = t
      BY <2>3, <3>1, <3>2, OnceTab DEF Tidy
    <3> QED
      BY <2>1, <3>1, <3>3
  <2> QED
    BY <1>2, <2>1, <2>2, <2>3
<1>6. Tidy(n, k)
  BY <1>1, <1>2, <1>4, <1>5, MappedTidy
<1> QED
  BY <1>6 DEF n

\* A map that leaves a tab, or cleans it.
LEMMA CleansTidy ==
  ASSUME NEW e, Typed(e), NEW k, Tidy(e, k), NEW n, NEW m, Mapped(e, n, m),
         \A t \in Tabs : m[t] = t \/ (m[t].id = t.id /\ m[t].edits = Clean)
  PROVE  Tidy(n, k)
<1>1. /\ \A q \in Slots : At(e, q) \subseteq AllTabs(e) /\ At(e, q) \subseteq Tabs
      /\ AllTabs(e) \subseteq Tabs /\ AllProjects \subseteq Slots
  BY AtTabs, AllTabsTyped DEF Slots
<1>2. \A t \in Tabs : m[t].id = t.id
  OBVIOUS
<1>3. ASSUME NEW p \in AllProjects, NEW t \in At(e, p), IsPinned(m[t]) PROVE m[t].edits = Clean
  BY <1>1, <1>3 DEF Tidy
<1>4. ASSUME NEW t \in AllTabs(e), m[t].diff PROVE m[t].edits = Clean
  <2>1. PICK q \in Slots : t \in At(e, q)
    BY AtTabs
  <2> QED
    BY <1>1, <1>4, <2>1 DEF Tidy
<1> QED
  BY <1>2, <1>3, <1>4, MappedTidy

LEMMA SavedUnderTidy ==
  ASSUME NEW e, Typed(e), NEW k, Tidy(e, k), NEW id, NEW path
  PROVE  Tidy(SavedUnder(e, id, path), k)
<1> DEFINE m == NameOf(id, path)
<1>1. Mapped(e, SavedUnder(e, id, path), m)
  BY SavedUnderMapped DEF Tidy
<1>2. \A t \in Tabs : m[t] = t \/ (m[t].id = t.id /\ m[t].edits = Clean)
  BY DEF NameOf, Tabs
<1> HIDE DEF m
<1> QED
  BY <1>1, <1>2, CleansTidy

LEMMA CleanTabsTidy ==
  ASSUME NEW e, Typed(e), NEW k, Tidy(e, k), NEW saved
  PROVE  Tidy(CleanTabs(e, saved), k)
<1> DEFINE m == CleanOf(saved)
<1>1. Mapped(e, CleanTabs(e, saved), m)
  BY CleanTabsMapped
<1>2. \A t \in Tabs : m[t] = t \/ (m[t].id = t.id /\ m[t].edits = Clean)
  BY DEF CleanOf, Tabs
<1> HIDE DEF m
<1> QED
  BY <1>1, <1>2, CleansTidy

\* No file becomes one of the global settings.
LEMMA RenameTabsTidy ==
  ASSUME NEW e, Typed(e), NEW k, Tidy(e, k), NEW from, NEW to, {from, to} \cap Pinned = {}
  PROVE  Tidy(RenameTabs(e, from, to), k)
<1> DEFINE m == PathOf(from, to)
<1>1. Mapped(e, RenameTabs(e, from, to), m)
  BY RenameTabsMapped
<1>2. \A t \in Tabs : /\ m[t].id = t.id /\ m[t].diff = t.diff /\ m[t].edits = t.edits
                      /\ m[t].path = t.path \/ m[t].path = to
  BY DEF PathOf, Tabs
<1> HIDE DEF m
<1>3. /\ \A q \in Slots : At(e, q) \subseteq AllTabs(e) /\ At(e, q) \subseteq Tabs
      /\ AllTabs(e) \subseteq Tabs /\ AllProjects \subseteq Slots
  BY AtTabs, AllTabsTyped DEF Slots
<1>4. ASSUME NEW p \in AllProjects, NEW t \in At(e, p), IsPinned(m[t]) PROVE m[t].edits = Clean
  <2>1. t \in Tabs /\ IsPinned(t)
    BY <1>2, <1>3, <1>4 DEF IsPinned
  <2> QED
    BY <1>2, <2>1 DEF Tidy
<1>5. ASSUME NEW t \in AllTabs(e), m[t].diff PROVE m[t].edits = Clean
  <2>1. PICK q \in Slots : t \in At(e, q)
    BY AtTabs
  <2> QED
    BY <1>2, <1>3, <1>5, <2>1 DEF Tidy
<1> QED
  BY <1>1, <1>2, <1>4, <1>5, MappedTidy

-----------------------------------------------------------------------------
(* Every tab has its own number and place *)

\* No comparison is open.
NoDiffs(e) == \A t \in AllTabs(e) : ~t.diff

\* A question about one tab has asked about it; there is no store while the program
\* does not run; and until a step on stale knowledge the tabs are tidy, the saved
\* ones too, and none is a comparison while drafts are restored.
PlaceInv ==
    /\ dialog.kind = "one" => dialog.id \in dialog.asked
    /\ phase = "down" => editor = NoEditor
    /\ ~blind => /\ Tidy(editor, lastId) /\ SavedTidy(snapshot, lastId)
                 /\ op.kind = "recover" \/ dialog.kind = "recover" => NoDiffs(editor)

\* The steps of StepKinds, with the number of a new tab.
LEMMA NumberedSteps ==
  ASSUME TypeInv, [Next]_workspaceVars
  PROVE  \/ Shrinks \/ Switches \/ Clears \/ (Opens /\ Numbered(editor'))
         \/ Type \/ Save \/ saveAs \/ SaveAndClose \/ RecoverFill
         \/ \E from, to \in Paths : renamePath(from, to)
         \/ activateNamedWorkspace \/ hydrateWorkspaceSessions
<1> DEFINE Adds == Opens /\ Numbered(editor')
<1>1. ASSUME NEW path \in Paths, OpenFile(path) PROVE Shrinks \/ Adds
  <2>1. Numbered(editor')
    BY <1>1 DEF OpenFile, Publish
  <2> QED
    BY <1>1, <2>1, FileSteps
<1>2. ASSUME openDiff PROVE Shrinks \/ Adds
  <2>1. CASE UNCHANGED <<editor, persistDue, draftDue, lastId, owner>>
    <3>1. blind' = blind /\ current' = current
      BY <1>2 DEF openDiff
    <3> QED
      BY <2>1, <3>1, StoreKept
  <2>2. ASSUME NEW e, Publish(e), Numbered(e) PROVE Shrinks \/ Adds
    <3>1. Numbered(editor')
      BY <2>2 DEF Publish
    <3> QED
      BY <1>2, <3>1, FileSteps
  <2> QED
    BY <1>2, <2>1, <2>2 DEF openDiff
<1>3. ASSUME RecoverOpen PROVE Shrinks \/ Adds
  <2>1. PICK path : Publish(openFile(editor, path)) /\ Numbered(openFile(editor, path))
    BY <1>3 DEF RecoverOpen
  <2>2. Numbered(editor')
    BY <2>1 DEF Publish
  <2> QED
    BY <1>3, <2>2, FileSteps
<1> HIDE DEF Adds
<1>4. CASE EditorAction
  BY <1>1, <1>2, <1>4, FileSteps, CloseSteps DEF EditorAction, Adds
<1>5. CASE ProjectAction
  BY <1>5, SwitchSteps, ManageSteps DEF ProjectAction
<1>6. CASE DurableAction
  BY <1>3, <1>6, FileSteps, DurableSteps DEF DurableAction, Adds
<1>7. CASE UNCHANGED workspaceVars
  BY <1>7, StoreKept DEF workspaceVars, memory, book
<1> QED
  BY <1>4, <1>5, <1>6, <1>7 DEF Next

\* The tabs opened are counted.
LEMMA LastIdGrows ==
  ASSUME TypeInv, [Next]_workspaceVars
  PROVE  lastId \in Nat /\ lastId' \in Nat /\ lastId <= lastId'
<1> USE DEF Untouched, UserActs, counters, durable, book
<1> DEFINE Kept == lastId' = lastId
           More == \E e : Numbered(e)
<1>1. lastId \in Nat
  BY TabsType DEF TypeInv, ListsOK
<1>2. CASE EditorAction
  <2>1. ASSUME NEW path, OpenFile(path) PROVE More
    BY <2>1 DEF OpenFile
  <2>2. ASSUME openDiff PROVE Kept \/ More
    BY <2>2 DEF openDiff
  <2>3. ASSUME NEW path,
               BeginDiff(path) \/ BeginSaveAs(path) \/ closeTabsForPath(path)
                 \/ closeDiffTabsForPath(path)
        PROVE  Kept
    BY <2>3 DEF BeginDiff, BeginSaveAs, closeTabsForPath, closeDiffTabsForPath
  <2>4. ASSUME NEW path, NEW to, renamePath(path, to) PROVE Kept
    BY <2>4 DEF renamePath
  <2>5. ASSUME NEW id, NEW kind, Activate(id) \/ closeWithConfirm(kind, id) PROVE Kept
    BY <2>5 DEF Activate, closeWithConfirm
  <2>6. ASSUME Reorder \/ Type \/ Save \/ saveAs PROVE Kept
    BY <2>6 DEF Reorder, Type, Save, saveAs
  <2>7. ASSUME DiscardAndClose \/ SaveAndClose \/ CancelClose PROVE Kept
    BY <2>7 DEF DiscardAndClose, SaveAndClose, CancelClose
  <2>8. Kept \/ More
    <3> HIDE DEF Kept, More
    <3> QED
      BY <1>2, <2>1, <2>2, <2>3, <2>4, <2>5, <2>6, <2>7 DEF EditorAction
  <2> QED
    BY <1>1, <2>8 DEF Numbered
<1>3. CASE ProjectAction
  <2>1. ASSUME NEW p, switchProject(p) \/ unhideProject(p) \/ removeProjectWithConfirm(p)
                 \/ hideProjects(p)
        PROVE  Kept
    BY <2>1 DEF switchProject, unhideProject, removeProjectWithConfirm, hideProjects
  <2>2. ASSUME SwitchDone \/ SwitchFails \/ addEmptyProject \/ RemoveRow \/ RemoveReload
        PROVE  Kept
    BY <2>2 DEF SwitchDone, SwitchFails, addEmptyProject, RemoveRow, RemoveReload
  <2>3. ASSUME saveProjectsAsWorkspace \/ BeginNamed \/ NamedShown \/ activateNamedWorkspace
        PROVE  Kept
    BY <2>3 DEF saveProjectsAsWorkspace, BeginNamed, NamedShown, activateNamedWorkspace
  <2>4. Kept
    <3> HIDE DEF Kept
    <3> QED
      BY <1>3, <2>1, <2>2, <2>3 DEF ProjectAction
  <2> QED
    BY <1>1, <2>4
<1>4. CASE DurableAction
  <2>1. ASSUME persistNow \/ scheduleDraftPersist \/ Crash \/ requestAppClose PROVE Kept
    BY <2>1 DEF persistNow, scheduleDraftPersist, Crash, requestAppClose, Gone
  <2>2. ASSUME hydrateWorkspaceSessions \/ loadProjects \/ LoadFails \/ Validated PROVE Kept
    BY <2>2 DEF hydrateWorkspaceSessions, loadProjects, LoadFails, Validated
  <2>3. ASSUME RecoverDiscard \/ RecoverRestore \/ RecoverFill \/ RecoverUnread PROVE Kept
    BY <2>3 DEF RecoverDiscard, RecoverRestore, RecoverFill, RecoverUnread
  <2>4. ASSUME RecoverOpen PROVE More
    BY <2>4 DEF RecoverOpen
  <2>5. Kept \/ More
    <3> HIDE DEF Kept, More
    <3> QED
      BY <1>4, <2>1, <2>2, <2>3, <2>4 DEF DurableAction
  <2> QED
    BY <1>1, <2>5 DEF Numbered
<1>5. CASE UNCHANGED workspaceVars
  BY <1>1, <1>5 DEF workspaceVars
<1> QED
  BY <1>1, <1>2, <1>3, <1>4, <1>5 DEF Next

\* Drafts are restored once they were offered.
LEMMA RecoveryStarts ==
  ASSUME [Next]_workspaceVars, op'.kind = "recover"
  PROVE  op.kind = "recover" \/ dialog.kind = "recover"
<1> USE DEF Untouched, UserActs, counters, durable, book
<1> DEFINE Kept == op' = op \/ op'.kind # "recover"
           Goes == op.kind = "recover" \/ dialog.kind = "recover"
<1>1. CASE EditorAction
  <2>1. ASSUME NEW path, OpenFile(path) \/ closeTabsForPath(path) \/ closeDiffTabsForPath(path)
        PROVE Kept
    BY <2>1 DEF OpenFile, closeTabsForPath, closeDiffTabsForPath
  <2>2. ASSUME NEW path, BeginDiff(path) PROVE Kept
    BY <2>2 DEF BeginDiff
  <2>3. ASSUME NEW path, BeginSaveAs(path) PROVE Kept
    BY <2>3 DEF BeginSaveAs
  <2>4. ASSUME NEW path, NEW to, renamePath(path, to) PROVE Kept
    BY <2>4 DEF renamePath
  <2>5. ASSUME NEW id, NEW kind, Activate(id) \/ closeWithConfirm(kind, id) PROVE Kept
    BY <2>5 DEF Activate, closeWithConfirm
  <2>6. ASSUME Reorder \/ Type \/ Save PROVE Kept
    BY <2>6 DEF Reorder, Type, Save
  <2>7. ASSUME openDiff \/ saveAs PROVE Kept
    <3>1. CASE openDiff
      BY <3>1 DEF openDiff, NoOp
    <3>2. CASE saveAs
      BY <3>2 DEF saveAs, NoOp
    <3> QED
      BY <2>7, <3>1, <3>2
  <2>8. ASSUME DiscardAndClose \/ SaveAndClose \/ CancelClose PROVE Kept
    BY <2>8 DEF DiscardAndClose, SaveAndClose, CancelClose
  <2>9. Kept
    <3> HIDE DEF Kept
    <3> QED
      BY <1>1, <2>1, <2>2, <2>3, <2>4, <2>5, <2>6, <2>7, <2>8 DEF EditorAction
  <2> QED
    BY <2>9
<1>2. CASE ProjectAction
  <2>1. ASSUME NEW p, switchProject(p) \/ unhideProject(p) \/ hideProjects(p) PROVE Kept
    BY <2>1 DEF switchProject, unhideProject, hideProjects
  <2>2. ASSUME NEW p, removeProjectWithConfirm(p) PROVE Kept
    BY <2>2 DEF removeProjectWithConfirm
  <2>3. ASSUME SwitchDone \/ SwitchFails \/ addEmptyProject PROVE Kept
    BY <2>3 DEF SwitchDone, SwitchFails, addEmptyProject
  <2>4. ASSUME RemoveRow PROVE Goes
    <3>1. CASE op' = NoOp
      BY <3>1 DEF NoOp
    <3>2. CASE op' = [op EXCEPT !.deleted = TRUE] /\ op.kind = "remove"
      BY <3>2
    <3> QED
      BY <2>4, <3>1, <3>2 DEF RemoveRow
  <2>5. ASSUME RemoveReload \/ saveProjectsAsWorkspace \/ activateNamedWorkspace PROVE Kept
    <3>1. CASE RemoveReload
      <4>1. op' = NoOp
        BY <3>1 DEF RemoveReload
      <4> QED
        BY <4>1 DEF NoOp
    <3>2. CASE saveProjectsAsWorkspace
      BY <3>2 DEF saveProjectsAsWorkspace
    <3>3. CASE activateNamedWorkspace
      <4>1. op' = NoOp
        BY <3>3 DEF activateNamedWorkspace
      <4> QED
        BY <4>1 DEF NoOp
    <3> QED
      BY <2>5, <3>1, <3>2, <3>3
  <2>6. ASSUME BeginNamed \/ NamedShown PROVE Kept
    <3>1. CASE BeginNamed
      BY <3>1 DEF BeginNamed
    <3>2. CASE NamedShown
      <4>1. PICK ms, ss :
              op' = [kind |-> "named", shown |-> TRUE, members |-> ms, sessions |-> ss]
        BY <3>2, ZenonT(60) DEF NamedShown
      <4> QED
        BY <4>1
    <3> QED
      BY <2>6, <3>1, <3>2
  <2>7. Kept \/ Goes
    <3> HIDE DEF Kept, Goes
    <3> QED
      BY <1>2, <2>1, <2>2, <2>3, <2>4, <2>5, <2>6 DEF ProjectAction
  <2> QED
    BY <2>7
<1>3. CASE DurableAction
  <2>1. ASSUME persistNow \/ scheduleDraftPersist PROVE Kept
    BY <2>1 DEF persistNow, scheduleDraftPersist
  <2>2. ASSUME Crash \/ requestAppClose PROVE Kept
    BY <2>2 DEF Crash, requestAppClose, Gone, NoOp
  <2>3. ASSUME hydrateWorkspaceSessions \/ loadProjects \/ LoadFails \/ Validated PROVE Kept
    BY <2>3 DEF hydrateWorkspaceSessions, loadProjects, LoadFails, Validated
  <2>4. ASSUME RecoverDiscard PROVE Kept
    BY <2>4 DEF RecoverDiscard
  <2>5. ASSUME RecoverRestore \/ RecoverOpen \/ RecoverFill \/ RecoverUnread PROVE Goes
    BY <2>5 DEF RecoverRestore, RecoverOpen, RecoverFill, RecoverUnread
  <2>6. Kept \/ Goes
    <3> HIDE DEF Kept, Goes
    <3> QED
      BY <1>3, <2>1, <2>2, <2>3, <2>4, <2>5 DEF DurableAction
  <2> QED
    BY <2>6
<1>4. CASE UNCHANGED workspaceVars
  BY <1>4 DEF workspaceVars, memory
<1> QED
  BY <1>1, <1>2, <1>3, <1>4 DEF Next

\* When the program does not run nothing is open.
LEMMA NothingOpen ==
  ASSUME TypeInv, phase = "down" => editor = NoEditor, [Next]_workspaceVars, phase' = "down"
  PROVE  editor' = NoEditor
<1> USE DEF Untouched, durable, counters, book
<1>0. DownOK
  BY DEF TypeInv
<1> DEFINE Up == phase' # "down"
           Goal == editor' = NoEditor
<1>1. CASE EditorAction
  BY <1>0, <1>1, EditorFrame
<1>2. CASE ProjectAction
  <2>1. ASSUME NEW p, switchProject(p) \/ unhideProject(p) \/ removeProjectWithConfirm(p)
                 \/ hideProjects(p)
        PROVE  Up
    BY <2>1 DEF switchProject, unhideProject, removeProjectWithConfirm, hideProjects, UserActs,
       Quiet
  <2>2. ASSUME SwitchDone \/ SwitchFails PROVE Up
    <3>1. phase # "down"
      BY <1>0, <2>2 DEF SwitchDone, SwitchFails, DownOK
    <3>2. phase' \in {phase, "ready"}
      BY <2>2, SettlePhase DEF SwitchDone, SwitchFails
    <3> QED
      BY <3>1, <3>2
  <2>3. ASSUME addEmptyProject \/ saveProjectsAsWorkspace \/ BeginNamed PROVE Up
    BY <2>3 DEF addEmptyProject, saveProjectsAsWorkspace, BeginNamed, UserActs, Quiet
  <2>4. ASSUME RemoveRow \/ RemoveReload \/ NamedShown \/ activateNamedWorkspace PROVE Up
    <3>1. op.kind # "none" /\ phase' = phase
      BY <2>4 DEF RemoveRow, RemoveReload, NamedShown, activateNamedWorkspace
    <3> QED
      BY <1>0, <3>1 DEF DownOK, NoOp
  <2>5. Up
    <3> HIDE DEF Up
    <3> QED
      BY <1>2, <2>1, <2>2, <2>3, <2>4 DEF ProjectAction
  <2> QED
    BY <2>5
<1>3. CASE DurableAction
  <2>1. ASSUME persistNow \/ scheduleDraftPersist PROVE Goal
    BY <2>1 DEF persistNow, scheduleDraftPersist
  <2>2. ASSUME Crash \/ requestAppClose PROVE Goal
    BY <2>2 DEF Crash, requestAppClose, Gone
  <2>3. ASSUME hydrateWorkspaceSessions \/ loadProjects \/ LoadFails PROVE Goal
    BY <2>3 DEF hydrateWorkspaceSessions, loadProjects, LoadFails
  <2>4. ASSUME Validated PROVE Goal
    BY <1>0, <2>4 DEF Validated, DownOK
  <2>5. ASSUME RecoverDiscard \/ RecoverRestore PROVE Goal
    BY <1>0, <2>5 DEF RecoverDiscard, RecoverRestore, DownOK, NoDialog
  <2>6. ASSUME RecoverOpen \/ RecoverFill \/ RecoverUnread PROVE Goal
    BY <1>0, <2>6 DEF RecoverOpen, RecoverFill, RecoverUnread, DownOK, NoOp
  <2>7. Goal
    <3> HIDE DEF Goal
    <3> QED
      BY <1>3, <2>1, <2>2, <2>3, <2>4, <2>5, <2>6 DEF DurableAction
  <2> QED
    BY <2>7
<1>4. CASE UNCHANGED workspaceVars
  BY <1>4 DEF workspaceVars, memory
<1> QED
  BY <1>1, <1>2, <1>3, <1>4 DEF Next

\* What a question asks about.
LEMMA AskedOfOne ==
  ASSUME TypeInv, dialog.kind = "one" => dialog.id \in dialog.asked, [Next]_workspaceVars,
         dialog'.kind = "one"
  PROVE  dialog'.id \in dialog'.asked
<1>1. dialog' # NoDialog
  BY DEF NoDialog
<1>2. ~hydrateWorkspaceSessions
  <2>1. ASSUME hydrateWorkspaceSessions
        PROVE  \E found : dialog' = NoDialog \/ dialog' = [kind |-> "recover", found |-> found]
    BY <2>1, ZenonT(60) DEF hydrateWorkspaceSessions
  <2> QED
    BY <1>1, <2>1
<1>3. ASSUME NEW kind \in {"one", "others", "right", "all"}, NEW id \in 1 .. MaxIds,
             closeWithConfirm(kind, id), dialog' # dialog
      PROVE  dialog'.id \in dialog'.asked
  <2>1. /\ Dirty(ToClose(kind, id)) # {}
        /\ dialog' = [kind |-> kind, id |-> id, tabs |-> ids(editor.tabs),
                      asked |-> {t.id : t \in Dirty(ToClose(kind, id))}]
    BY <1>3 DEF closeWithConfirm
  <2>2. kind = "one" /\ dialog'.id = id
    BY <2>1
  <2>3. PICK t \in Dirty(ToClose(kind, id)) : TRUE
    BY <2>1
  <2>4. t.id = id
    BY <2>2, <2>3 DEF Dirty, ToClose
  <2> QED
    BY <2>1, <2>2, <2>3, <2>4
<1> QED
  BY <1>1, <1>2, <1>3, DialogSteps

\* The handlers, on a store that is tidy.
LEMMA TidyNext ==
  ASSUME TypeInv, PlainInv, PlaceInv, ~blind', [Next]_workspaceVars
  PROVE  Tidy(editor', lastId')
<1> DEFINE Goal == Tidy(editor', lastId')
<1>1. Typed(editor) /\ StoreOK(editor) /\ Typed(editor')
  BY StoreOKNext DEF TypeInv, StoreOK
<1>2. lastId \in Nat /\ lastId' \in Nat /\ lastId <= lastId'
  BY LastIdGrows
<1>3. ~blind /\ Tidy(editor, lastId) /\ SavedTidy(snapshot, lastId)
      /\ (op.kind = "recover" => NoDiffs(editor))
  BY OwnersStay DEF PlaceInv
<1>4. ASSUME Tidy(editor', lastId) PROVE Goal
  BY <1>1, <1>2, <1>4, TidyMore
<1>5. ASSUME Shrinks PROVE Goal
  BY <1>1, <1>2, <1>3, <1>5, TidyWithin DEF Shrinks
<1>6. ASSUME Opens, Numbered(editor') PROVE Goal
  <2>1. PICK t \in Tabs : /\ t.edits = Clean /\ t.id = lastId + 1
                          /\ Within(editor, editor', {t})
    BY <1>6 DEF Opens
  <2>2. lastId' = IF Has(editor'.tabs, lastId + 1) THEN lastId + 1 ELSE lastId
    BY <1>6 DEF Numbered
  <2> QED
    BY <1>1, <1>2, <1>3, <2>1, <2>2, OpenedTidy
<1>7. ASSUME Switches PROVE Goal
  <2>1. PICK from \in {switching.from, current}, to \in AllProjects :
          from # to /\ Within(activateProjectSession(editor, from, to), editor', {})
    BY <1>7 DEF Switches
  <2>2. PICK m : m = activateProjectSession(editor, from, to)
    OBVIOUS
  <2>3. Typed(m) /\ Tidy(m, lastId)
    BY <1>1, <1>3, <2>1, <2>2, activateTyped, activateTidy
  <2> QED
    BY <1>2, <2>1, <2>2, <2>3, TidyWithin
<1>8. ASSUME Clears PROVE Goal
  <2>1. Tidy(editor', lastId)
    BY <1>1, <1>3, <1>8, deactivateTidy DEF Clears
  <2> QED
    BY <1>4, <2>1
<1>9. ASSUME Type PROVE Goal
  <2>1. editor' = SetText(editor, editor.active, lastEdit + 1)
    BY <1>9 DEF Type, PublishNew
  <2>2. \E i \in DOMAIN editor.tabs : editor.tabs[i].id = editor.active /\ ~editor.tabs[i].diff
    BY <1>9 DEF Type
  <2>3. Tidy(editor', lastId)
    BY <1>1, <1>3, <2>1, <2>2, SetTextTidy
  <2> QED
    BY <1>4, <2>3
<1>10. ASSUME Save PROVE Goal
  <2>1. editor' = SetText(editor, editor.active, Clean)
    BY <1>10 DEF Save, Publish
  <2>2. Tidy(editor', lastId)
    BY <1>1, <1>3, <2>1, SetTextTidy
  <2> QED
    BY <1>4, <2>2
<1>11. ASSUME saveAs PROVE Goal
  <2>1. CASE editor' = editor
    BY <1>3, <1>4, <2>1
  <2>2. ASSUME NEW gone, editor' = SavedUnder(closeTab(editor, gone), op.id, op.path) PROVE Goal
    <3>1. PICK m : m = closeTab(editor, gone)
      OBVIOUS
    <3>2. Within(editor, m, {})
      BY <1>1, <3>1, closeTabWithin
    <3>3. Typed(m) /\ Tidy(m, lastId)
      BY <1>1, <1>2, <1>3, <3>2, WithinType, TidyWithin
    <3>4. Tidy(editor', lastId)
      BY <2>2, <3>1, <3>3, SavedUnderTidy
    <3> QED
      BY <1>4, <3>4
  <2>3. \/ editor' = editor
        \/ \E gone : editor' = SavedUnder(closeTab(editor, gone), op.id, op.path)
    BY <1>11, ZenonT(60) DEF saveAs, Publish
  <2> QED
    BY <2>1, <2>2, <2>3
<1>12. ASSUME SaveAndClose PROVE Goal
  <2>1. PICK m : m = CleanTabs(editor, Asked)
    OBVIOUS
  <2>2. /\ editor' = Close(m, dialog.kind, dialog.id)
        /\ dialog.kind \in {"one", "others", "right", "all"}
    BY <1>12, <2>1 DEF SaveAndClose, CloseAnswered, Publish, Asking
  <2>3. dialog.id \in Nat
    BY <2>2 DEF TypeInv, DialogOK, NoDialog
  <2>4. Typed(m) /\ Tidy(m, lastId)
    BY <1>1, <1>3, <2>1, CleanTabsOK, CleanTabsTidy DEF StoreOK
  <2>5. Within(m, editor', {})
    BY <2>2, <2>3, <2>4, CloseWithin
  <2> QED
    BY <1>2, <2>4, <2>5, TidyWithin
<1>13. ASSUME RecoverFill PROVE Goal
  <2>1. PICK there : there = {i \in DOMAIN editor.tabs : editor.tabs[i].path = op.path}
    OBVIOUS
  <2>2. \/ there = {} /\ editor' = editor
        \/ there # {} /\ editor' = SetText(editor, editor.tabs[Min(there)].id, op.left[op.path])
    BY <1>13, <2>1 DEF RecoverFill, PublishNew
  <2>3. CASE editor' = editor
    BY <1>3, <1>4, <2>3
  <2>4. CASE there # {} /\ editor' = SetText(editor, editor.tabs[Min(there)].id, op.left[op.path])
    <3>1. there \in SUBSET Nat
      BY <1>1, <2>1, TypedLists, LenProperties
    <3>2. Min(there) \in DOMAIN editor.tabs
      BY <2>1, <2>4, <3>1, MinIs
    <3>3. editor.tabs[Min(there)] \in AllTabs(editor)
      BY <3>2 DEF AllTabs, ToSet
    <3>4. ~editor.tabs[Min(there)].diff
      BY <1>3, <1>13, <3>3 DEF NoDiffs, RecoverFill
    <3>5. Tidy(editor', lastId)
      BY <1>1, <1>3, <2>4, <3>2, <3>4, SetTextTidy
    <3> QED
      BY <1>4, <3>5
  <2> QED
    BY <2>2, <2>3, <2>4
<1>14. ASSUME NEW from \in Paths, NEW to \in Paths, renamePath(from, to) PROVE Goal
  <2>1. editor' = RenameTabs(editor, from, to) /\ {from, to} \cap Pinned = {}
    BY <1>14 DEF renamePath, Publish
  <2>2. Tidy(editor', lastId)
    BY <1>1, <1>3, <2>1, RenameTabsTidy
  <2> QED
    BY <1>4, <2>2
<1>15. ASSUME hydrateWorkspaceSessions PROVE Goal
  <2>1. Tidy(editor', lastId)
    BY <1>2, <1>3, <1>15, HydratedTidy
  <2> QED
    BY <1>4, <2>1
<1>16. ~activateNamedWorkspace
  BY DEF activateNamedWorkspace
<1> HIDE DEF Goal
<1>17. Goal
  BY <1>5, <1>6, <1>7, <1>8, <1>9, <1>10, <1>11, <1>12, <1>13, <1>14, <1>15, <1>16, NumberedSteps
<1> QED
  BY <1>17 DEF Goal

\* Tabs keep what they are.
LEMMA ChangedDiffs ==
  ASSUME NEW e, NoDiffs(e), NEW n, NEW C, Changed(e, n, C), \A c \in C : c[2].diff = c[1].diff
  PROVE  NoDiffs(n)
<1> SUFFICES ASSUME NEW u \in AllTabs(n) PROVE ~u.diff
  BY DEF NoDiffs
<1>1. PICK t \in AllTabs(e) : <<t, u>> \in C
  BY ChangedTabs
<1> QED
  BY <1>1 DEF NoDiffs

LEMMA WithinDiffs ==
  ASSUME NEW e, Typed(e), NoDiffs(e), NEW n, NEW new \in SUBSET Tabs, \A t \in new : ~t.diff,
         Within(e, n, new)
  PROVE  NoDiffs(n)
BY WithinTabs DEF NoDiffs

LEMMA openFileDiffs ==
  ASSUME TypeInv, NoDiffs(editor), NEW path \in Paths, lastId < MaxIds
  PROVE  NoDiffs(openFile(editor, path))
<1>1. Typed(editor) /\ lastId \in Nat /\ lastId + 1 \in 1 .. MaxIds
  BY TabsType DEF TypeInv, StoreOK, ListsOK
<1>2. PICK n : n = openFile(editor, path)
  OBVIOUS
<1>3. PICK t : t = Tab(lastId + 1, path, FALSE, Clean)
  OBVIOUS
<1>4. t \in Tabs /\ ~t.diff
  BY <1>1, <1>3, CleanIs DEF Tab, Tabs
<1>5. Within(editor, n, {}) \/ Within(editor, n, {t})
  BY <1>1, <1>2, <1>3, openFileWithin
<1>6. {} \in SUBSET Tabs /\ {t} \in SUBSET Tabs
  BY <1>4
<1>7. CASE Within(editor, n, {})
  BY <1>1, <1>2, <1>6, <1>7, WithinDiffs
<1>8. CASE Within(editor, n, {t})
  BY <1>1, <1>2, <1>4, <1>6, <1>8, WithinDiffs
<1> QED
  BY <1>5, <1>7, <1>8

\* While drafts are offered or restored no comparison is opened.
LEMMA DiffsNext ==
  ASSUME TypeInv, PlainInv, PlaceInv, ~blind', [Next]_workspaceVars,
         op'.kind = "recover" \/ dialog'.kind = "recover"
  PROVE  NoDiffs(editor')
<1> DEFINE Goal == NoDiffs(editor')
<1>0. ~blind /\ SavedTidy(snapshot, lastId)
  BY OwnersStay DEF PlaceInv
<1>1. CASE hydrateWorkspaceSessions
  <2>1. lastId \in Nat
    BY LastIdGrows
  <2>2. \A t \in AllTabs(editor') : ~t.diff
    BY <1>0, <1>1, <2>1, HydratedTidy
  <2> QED
    BY <2>2 DEF NoDiffs
<1>2. CASE ~hydrateWorkspaceSessions
  <2>1. op.kind = "recover" \/ dialog.kind = "recover"
    BY <1>2, RecoveryStarts, OnlyStartOffers
  <2>2. NoDiffs(editor)
    BY <1>0, <2>1 DEF PlaceInv
  <2>3. op.kind \in {"none", "recover"}
    BY <2>1 DEF TypeInv, DialogOK, NoDialog, NoOp
  <2>4. Typed(editor) /\ StoreOK(editor) /\ lastEdit + 1 \in Nat /\ {} \in SUBSET Tabs
    BY TabsType DEF TypeInv, StoreOK, ListsOK
  <2>5. ASSUME Shrinks \/ Switches \/ Clears PROVE Goal
    BY <2>2, <2>5, KindsTabs DEF NoDiffs
  <2>6. ASSUME NEW id, NEW edits \in 0 .. MaxEdits, editor' = SetText(editor, id, edits) PROVE Goal
    <3>1. Changed(editor, editor', TextSet(id, edits))
      BY <2>4, <2>6, SetTextIs
    <3>2. \A c \in TextSet(id, edits) : c[2].diff = c[1].diff
      BY DEF TextSet, Tabs
    <3> QED
      BY <2>2, <3>1, <3>2, ChangedDiffs
  <2>7. CASE EditorAction
    <3>1. ASSUME NEW path \in Paths, OpenFile(path) PROVE Goal
      <4>1. lastId \in Nat /\ MaxIds \in Nat
        BY LastIdGrows, TabsType
      <4>2. lastId < MaxIds /\ editor' = openFile(editor, path)
        BY <3>1, <4>1 DEF OpenFile, Publish
      <4> QED
        BY <2>2, <4>2, openFileDiffs
    <3>2. ~openDiff /\ ~saveAs
      BY <2>3 DEF openDiff, saveAs
    <3>3. ASSUME Type PROVE Goal
      <4>1. editor' = SetText(editor, editor.active, lastEdit + 1) /\ lastEdit < MaxEdits
        BY <3>3 DEF Type, PublishNew
      <4>2. lastEdit + 1 \in 0 .. MaxEdits
        BY <4>1, TabsType DEF TypeInv, ListsOK
      <4> QED
        BY <2>6, <4>1, <4>2
    <3>4. ASSUME Save PROVE Goal
      BY <2>6, <3>4, CleanIs DEF Save, Publish
    <3>5. ASSUME SaveAndClose PROVE Goal
      <4>1. PICK m : m = CleanTabs(editor, Asked)
        OBVIOUS
      <4>2. /\ editor' = Close(m, dialog.kind, dialog.id)
            /\ dialog.kind \in {"one", "others", "right", "all"}
        BY <3>5, <4>1 DEF SaveAndClose, CloseAnswered, Publish, Asking
      <4>3. dialog.id \in Nat
        BY <4>2 DEF TypeInv, DialogOK, NoDialog
      <4>4. Typed(m) /\ Changed(editor, m, CleanSet(Asked))
        BY <2>4, <4>1, CleanTabsOK, CleanTabsIs DEF StoreOK
      <4>5. \A c \in CleanSet(Asked) : c[2].diff = c[1].diff
        BY DEF CleanSet, Tabs
      <4>6. NoDiffs(m)
        BY <2>2, <4>4, <4>5, ChangedDiffs
      <4>7. Within(m, editor', {})
        BY <4>2, <4>3, <4>4, CloseWithin
      <4> QED
        BY <2>4, <4>4, <4>6, <4>7, WithinDiffs
    <3>6. ASSUME NEW from \in Paths, NEW to \in Paths, renamePath(from, to) PROVE Goal
      <4>1. Changed(editor, editor', PathSet(from, to))
        BY <2>4, <3>6, RenameTabsIs DEF renamePath, Publish
      <4>2. \A c \in PathSet(from, to) : c[2].diff = c[1].diff
        BY DEF PathSet, Tabs
      <4> QED
        BY <2>2, <4>1, <4>2, ChangedDiffs
    <3> HIDE DEF Goal
    <3> QED
      BY <2>5, <2>7, <3>1, <3>2, <3>3, <3>4, <3>5, <3>6, FileSteps, CloseSteps DEF EditorAction, Goal
  <2>8. CASE ProjectAction
    <3>1. ~activateNamedWorkspace
      BY DEF activateNamedWorkspace
    <3> QED
      BY <2>5, <2>8, <3>1, SwitchSteps, ManageSteps DEF ProjectAction
  <2>9. CASE DurableAction
    <3>1. ASSUME RecoverOpen PROVE Goal
      <4>1. PICK path \in DOMAIN op.left : editor' = openFile(editor, path)
        BY <3>1 DEF RecoverOpen, Publish
      <4>2. path \in Paths
        BY <3>1, <4>1 DEF RecoverOpen, TypeInv, OpOK, NoOp, EditsLeft
      <4>3. lastId < MaxIds
        BY <3>1 DEF RecoverOpen
      <4> QED
        BY <2>2, <4>1, <4>2, <4>3, openFileDiffs
    <3>2. ASSUME RecoverFill PROVE Goal
      <4>1. \/ editor' = editor
            \/ \E id : editor' = SetText(editor, id, op.left[op.path])
        BY <3>2 DEF RecoverFill, PublishNew
      <4>2. op.left[op.path] \in 0 .. MaxEdits
        BY <3>2 DEF RecoverFill, TypeInv, OpOK, NoOp, EditsLeft
      <4> QED
        BY <2>2, <2>6, <4>1, <4>2
    <3> HIDE DEF Goal
    <3> QED
      BY <1>2, <2>5, <2>9, <3>1, <3>2, DurableSteps DEF DurableAction, Goal
  <2>10. CASE UNCHANGED workspaceVars
    BY <2>2, <2>10 DEF workspaceVars, memory
  <2> QED
    BY <2>7, <2>8, <2>9, <2>10 DEF Next
<1> QED
  BY <1>1, <1>2

LEMMA PlaceNext ==
  ASSUME TypeInv, PlainInv, PlaceInv, [Next]_workspaceVars
  PROVE  PlaceInv'
<1>1. dialog'.kind = "one" => dialog'.id \in dialog'.asked
  BY AskedOfOne DEF PlaceInv
<1>2. phase' = "down" => editor' = NoEditor
  BY NothingOpen DEF PlaceInv
<1>3. ASSUME ~blind' PROVE SavedTidy(snapshot', lastId')
  <2>1. lastId \in Nat /\ lastId' \in Nat /\ lastId <= lastId'
    BY LastIdGrows
  <2>2. Tidy(editor, lastId) /\ SavedTidy(snapshot, lastId)
    BY <1>3, OwnersStay DEF PlaceInv
  <2>3. SavedTidy(snapshot', lastId)
    BY <2>1, <2>2, SavedSteps, CaptureTidy
  <2> QED
    BY <2>1, <2>3, SavedTidyMore
<1> QED
  BY <1>1, <1>2, <1>3, TidyNext, DiffsNext DEF PlaceInv

LEMMA PlacesHold == Spec => [](TypeInv /\ HomeInv /\ PlaceInv)
<1> DEFINE Inv == TypeInv /\ PlainInv /\ PlaceInv
<1>1. Init => Inv
  <2>1. ASSUME Init PROVE PlaceInv
    <3>1. dialog = NoDialog /\ editor = NoEditor /\ op = NoOp
      BY <2>1 DEF Init
    <3>2. dialog.kind = "none" /\ op.kind = "none"
      BY <3>1 DEF NoDialog, NoOp
    <3> QED
      BY <2>1, <3>1, <3>2, InitTidy DEF PlaceInv
  <2> QED
    BY <2>1, InitTypes, InitPlain
<1>2. Inv /\ [Next]_workspaceVars => Inv'
  BY TypesNext, PlainNext, PlaceNext
<1> QED
  BY <1>1, <1>2, HomeHolds, PTL DEF Spec

-----------------------------------------------------------------------------
(* No step loses unsaved text unasked *)

Lossless == Keeps(editor, editor', given')

LEMMA KeepsGives ==
  ASSUME NEW e, NEW n, NEW D, Keeps(e, n, D)
  PROVE  EditsOf(AllTabs(e)) \ EditsOf(AllTabs(n)) \subseteq D
BY DEF Keeps, EditsOf

LEMMA StepFacts ==
  ASSUME TypeInv, HomeInv, PlaceInv, ~blind', [Next]_workspaceVars
  PROVE  /\ Typed(editor) /\ Typed(editor') /\ ~blind
         /\ lastId \in Nat /\ MaxIds \in Nat /\ Tidy(editor, lastId) /\ Once(editor)
         /\ current \notin DOMAIN editor.sessions
<1>1. Typed(editor) /\ Typed(editor') /\ lastId \in Nat /\ MaxIds \in Nat
  BY StoreOKNext, LastIdGrows, TabsType DEF TypeInv, StoreOK
<1>2. ~blind
  BY OwnersStay
<1> QED
  BY <1>1, <1>2 DEF PlaceInv, Tidy, HomeInv, AtHome

LEMMA LosesNothing ==
  ASSUME editor' = editor
  PROVE  Lossless
BY KeepsItself DEF Lossless

LEMMA LosesClean ==
  ASSUME DropsClean(editor, editor')
  PROVE  Lossless
BY DropsKeeps DEF Lossless

\* What is lost is given up.
LEMMA LosesGiven ==
  ASSUME \A t \in AllTabs(editor) : t \in AllTabs(editor') \/ t.edits = Clean \/ t.edits \in given'
  PROVE  Lossless
BY KeepsAll DEF Lossless

\* Opening, showing and ordering.
LEMMA FilesLossless ==
  ASSUME TypeInv, HomeInv, PlaceInv, ~blind', [Next]_workspaceVars
  PROVE  /\ \A path \in Paths : OpenFile(path) \/ BeginDiff(path) => Lossless
         /\ openDiff \/ RecoverOpen \/ Reorder => Lossless
         /\ \A id \in 1 .. MaxIds : Activate(id) => Lossless
<1>1. Typed(editor) /\ Once(editor) /\ lastId \in Nat /\ MaxIds \in Nat
  BY StepFacts
<1>2. ASSUME NEW path \in Paths, lastId < MaxIds, editor' = openFile(editor, path) PROVE Lossless
  <2>1. lastId + 1 \in 1 .. MaxIds
    BY <1>1, <1>2
  <2> QED
    BY <1>1, <1>2, <2>1, openFileDrops, LosesClean
<1>3. ASSUME NEW path \in Paths, OpenFile(path) PROVE Lossless
  <2>1. lastId < MaxIds /\ editor' = openFile(editor, path)
    BY <1>1, <1>3 DEF OpenFile, Publish
  <2> QED
    BY <1>2, <2>1
<1>4. ASSUME NEW path \in Paths, BeginDiff(path) PROVE Lossless
  <2>1. \/ \E id : editor' = ShowTab(editor, id)
        \/ editor' = ensureOpenTabCapacity(editor)
    BY <1>4, ZenonT(60) DEF BeginDiff, Publish
  <2> QED
    BY <1>1, <2>1, ShowDrops, RoomDrops, LosesClean
<1>5. ASSUME openDiff PROVE Lossless
  <2>1. CASE editor' = editor
    BY <2>1, LosesNothing
  <2>2. CASE editor' = AppendTab(editor, Tab(lastId + 1, op.path, TRUE, Clean))
    <3>1. PICK t : t = Tab(lastId + 1, op.path, TRUE, Clean)
      OBVIOUS
    <3>2. op.kind = "diff"
      BY <1>5 DEF openDiff
    <3>3. op.path \in Paths /\ lastId < MaxIds
      BY <3>2 DEF TypeInv, OpOK, NoOp
    <3>4. t \in Tabs
      BY <1>1, <3>1, <3>3, CleanIs DEF Tab, Tabs
    <3>5. DropsClean(editor, AppendTab(editor, t))
      BY <1>1, <3>4, AppendDrops
    <3> QED
      BY <2>2, <3>1, <3>5, LosesClean
  <2>3. editor' = editor \/ editor' = AppendTab(editor, Tab(lastId + 1, op.path, TRUE, Clean))
    BY <1>5 DEF openDiff, Publish
  <2> QED
    BY <2>1, <2>2, <2>3
<1>6. ASSUME RecoverOpen PROVE Lossless
  <2>1. lastId < MaxIds /\ op.kind = "recover"
    BY <1>6 DEF RecoverOpen
  <2>2. PICK path \in DOMAIN op.left : editor' = openFile(editor, path)
    BY <1>6 DEF RecoverOpen, Publish
  <2>3. path \in Paths
    BY <2>1, <2>2 DEF TypeInv, OpOK, NoOp, EditsLeft
  <2> QED
    BY <1>2, <2>1, <2>2, <2>3
<1>7. ASSUME Reorder PROVE Lossless
  <2>1. \/ editor' = cycleTabMru(editor)
        \/ \E from, to \in DOMAIN editor.tabs : editor' = reorderTabs(editor, from, to)
    BY <1>7 DEF Reorder, Publish
  <2> QED
    BY <1>1, <2>1, OrderDrops, LosesClean
<1>8. ASSUME NEW id \in 1 .. MaxIds, Activate(id) PROVE Lossless
  <2>1. editor' = setActiveTab(editor, id)
    BY <1>8 DEF Activate, Publish
  <2> QED
    BY <1>1, <2>1, ShowDrops, LosesClean
<1> QED
  BY <1>3, <1>4, <1>5, <1>6, <1>7, <1>8

\* A close takes no more than the command names.
LEMMA TakenIsClosed ==
  ASSUME Typed(editor), Once(editor), NEW kind \in {"one", "others", "right", "all"}, NEW id,
         kind # "one" \/ Has(editor.tabs, id), NEW t \in Taken(editor, kind, id)
  PROVE  t \in ToClose(kind, id)
<1>1. CASE kind = "one"
  <2>1. t \in AllTabs(editor) /\ t.id = id
    BY <1>1 DEF Taken
  <2>2. PICK u \in ToSet(editor.tabs) : u.id = id
    BY <1>1, HasIs
  <2>3. u \in AllTabs(editor)
    BY <2>2 DEF AllTabs
  <2>4. t = u
    BY <2>1, <2>2, <2>3, OnceTab
  <2> QED
    BY <1>1, <2>2, <2>4 DEF ToClose
<1>2. CASE kind = "others"
  BY <1>2 DEF Taken, ToClose
<1>3. CASE kind = "right"
  BY <1>3 DEF Taken, ToClose, SelectInSeq
<1>4. CASE kind = "all"
  BY <1>4 DEF Taken, ToClose
<1> QED
  BY <1>1, <1>2, <1>3, <1>4

LEMMA ClosesLossless ==
  ASSUME TypeInv, HomeInv, PlaceInv, ~blind', [Next]_workspaceVars
  PROVE  /\ \A kind \in {"one", "others", "right", "all"}, id \in 1 .. MaxIds :
               closeWithConfirm(kind, id) => Lossless
         /\ DiscardAndClose => Lossless
         /\ \A path \in Paths : closeTabsForPath(path) \/ closeDiffTabsForPath(path) => Lossless
<1>1. Typed(editor) /\ Once(editor) /\ Tidy(editor, lastId)
  BY StepFacts
<1>2. ASSUME NEW kind \in {"one", "others", "right", "all"}, NEW id \in 1 .. MaxIds,
             closeWithConfirm(kind, id)
      PROVE  Lossless
  <2>1. Has(editor.tabs, id)
    BY <1>2 DEF closeWithConfirm
  <2>2. \/ editor' = editor
        \/ Dirty(ToClose(kind, id)) = {} /\ editor' = Close(editor, kind, id)
    BY <1>2 DEF closeWithConfirm, Publish
  <2>3. CASE editor' = editor
    BY <2>3, LosesNothing
  <2>4. CASE Dirty(ToClose(kind, id)) = {} /\ editor' = Close(editor, kind, id)
    <3>1. ASSUME NEW t \in AllTabs(editor), t \notin AllTabs(editor') PROVE t.edits = Clean
      <4>1. t \in Taken(editor, kind, id)
        BY <1>1, <2>4, <3>1, CloseTakes
      <4>2. t \in ToClose(kind, id)
        BY <1>1, <2>1, <4>1, TakenIsClosed
      <4> QED
        BY <2>4, <4>2 DEF Dirty
    <3> QED
      BY <3>1, LosesGiven
  <2> QED
    BY <2>2, <2>3, <2>4
<1>3. ASSUME DiscardAndClose PROVE Lossless
  <2> DEFINE kind == dialog.kind
             id == dialog.id
  <2>1. /\ kind \in {"one", "others", "right", "all"}
        /\ editor' = Close(editor, kind, id)
        /\ given' = given \cup EditsOf(Asked)
        /\ Dirty(ToClose(kind, id)) \ Asked = {}
    BY <1>3 DEF DiscardAndClose, CloseAnswered, Publish, Asking
  <2>2. kind = "one" => id \in dialog.asked
    BY DEF PlaceInv
  <2> HIDE DEF kind, id
  <2>3. ASSUME NEW t \in AllTabs(editor), t \notin AllTabs(editor')
        PROVE  t.edits = Clean \/ t \in Asked
    <3>1. t \in Taken(editor, kind, id)
      BY <1>1, <2>1, <2>3, CloseTakes
    <3>2. CASE kind = "one"
      <4>1. t.id = id
        BY <3>1, <3>2 DEF Taken
      <4> QED
        BY <2>2, <3>2, <4>1 DEF Asked
    <3>3. CASE kind # "one"
      <4>1. t \in ToClose(kind, id)
        BY <1>1, <2>1, <3>1, <3>3, TakenIsClosed
      <4> QED
        BY <2>1, <4>1 DEF Dirty
    <3> QED
      BY <3>2, <3>3
  <2>4. \A t \in Asked : t.edits = Clean \/ t.edits \in given'
    BY <2>1 DEF EditsOf
  <2> QED
    BY <2>3, <2>4, LosesGiven
<1>4. ASSUME NEW path \in Paths, closeTabsForPath(path) PROVE Lossless
  <2>1. PICK gone : /\ editor' = CloseEverywhere(editor, gone)
                    /\ given' = given \cup EditsOf(gone)
    BY <1>4 DEF closeTabsForPath, Publish
  <2>2. ASSUME NEW t \in AllTabs(editor), t \notin AllTabs(editor')
        PROVE  t.edits = Clean \/ t.edits \in given'
    <3>1. t \in gone
      BY <1>1, <2>1, <2>2, CloseEverywhereTakes
    <3> QED
      BY <2>1, <3>1 DEF EditsOf
  <2> QED
    BY <2>2, LosesGiven
<1>5. ASSUME NEW path \in Paths, closeDiffTabsForPath(path) PROVE Lossless
  <2>1. PICK gone : /\ editor' = CloseEverywhere(editor, gone)
                    /\ \A t \in gone : t \in AllTabs(editor) /\ t.diff
    <3>1. PICK gone : gone = {t \in AllTabs(editor) : t.path = path /\ t.diff}
      OBVIOUS
    <3>2. editor' = CloseEverywhere(editor, gone)
      BY <1>5, <3>1 DEF closeDiffTabsForPath, Publish
    <3> QED
      BY <3>1, <3>2
  <2>2. ASSUME NEW t \in AllTabs(editor), t \notin AllTabs(editor')
        PROVE  t.edits = Clean
    <3>1. t.diff
      BY <1>1, <2>1, <2>2, CloseEverywhereTakes
    <3>2. PICK q \in Slots : t \in At(editor, q)
      BY <1>1, AtTabs
    <3> QED
      BY <1>1, <3>1, <3>2 DEF Tidy
  <2> QED
    BY <2>2, LosesGiven
<1> QED
  BY <1>2, <1>3, <1>4, <1>5

\* What stands to the right of a place.
LEMMA TailIs ==
  ASSUME NEW S, NEW ts \in Seq(S), NEW at \in 0 .. Len(ts), NEW b, b = SubSeq(ts, at + 1, Len(ts))
  PROVE  DOMAIN b = 1 .. (Len(ts) - at) /\ \A i \in 1 .. (Len(ts) - at) : b[i] = ts[at + i]
<1> DEFINE n == Len(ts)
<1>1. n \in Nat /\ DOMAIN ts = 1 .. n /\ at \in Int /\ 0 <= at /\ at <= n
  BY LenProperties
<1>2. \A i \in (at + 1) .. n : ts[i] \in S
  BY <1>1, ElementOfSeq
<1>3. /\ b \in Seq(S) /\ Len(b) = (IF at + 1 <= n THEN n - (at + 1) + 1 ELSE 0)
      /\ \A i \in 1 .. (n - (at + 1) + 1) : b[i] = ts[at + 1 + i - 1]
  BY <1>1, <1>2, SubSeqProperties
<1> HIDE DEF n
<1>4. ASSUME NEW i \in 1 .. (n - at) PROVE b[i] = ts[at + i]
  <2>1. i \in 1 .. (n - (at + 1) + 1) /\ at + 1 + i - 1 = at + i
    BY <1>1
  <2> QED
    BY <1>3, <2>1
<1>5. Len(b) = n - at
  BY <1>1, <1>3
<1> QED
  BY <1>3, <1>4, <1>5, LenProperties DEF n

\* Once some tabs have been cleaned, the others are where they were.
LEMMA CleanedStay ==
  ASSUME Typed(editor), NEW saved, NEW m, m = CleanTabs(editor, saved),
         NEW t \in Tabs, t.edits # Clean, t \notin saved, NEW kind \in {"others", "right", "all"}, NEW id
  PROVE  /\ t \in AllTabs(editor) => t \in AllTabs(m)
         /\ t \in Taken(m, kind, id) => t \in ToClose(kind, id)
<1>1. Mapped(editor, m, CleanOf(saved)) /\ Typed(m) /\ Changed(editor, m, CleanSet(saved))
  <2>1. Mapped(editor, m, CleanOf(saved))
    BY CleanTabsMapped
  <2>2. Changed(editor, m, CleanSet(saved)) /\ SameId(CleanSet(saved))
    BY CleanTabsIs
  <2>3. \A c \in CleanSet(saved) : c[1] \in Tabs => c[2] \in Tabs
    BY DEF CleanSet
  <2>4. Typed(m)
    <3>1. PICK V, H : V = Tabs /\ H = EverySession
      OBVIOUS
    <3>2. Store(editor, V, H)
      BY <3>1 DEF Typed
    <3>3. \A p \in DOMAIN H : \A c \in CleanSet(saved) : c[1] \in H[p] => c[2] \in H[p]
      BY <2>3, <3>1 DEF EverySession
    <3>4. Store(m, V, H)
      BY <2>2, <2>3, <3>1, <3>2, <3>3, ChangedStore
    <3> QED
      BY <3>1, <3>4 DEF Typed
  <2> QED
    BY <2>1, <2>2, <2>4
<1>2. ASSUME t \in AllTabs(editor) PROVE t \in AllTabs(m)
  <2>1. PICK q \in Slots : t \in At(editor, q)
    BY <1>2, AtTabs
  <2>2. CleanOf(saved)[t] = t
    BY DEF CleanOf
  <2>3. t \in At(m, q)
    BY <1>1, <2>1, <2>2 DEF Mapped, ImageOf
  <2> QED
    BY <1>1, <2>3, AtTabs
<1>3. /\ DOMAIN m.tabs = DOMAIN editor.tabs
      /\ \A i \in DOMAIN editor.tabs : <<editor.tabs[i], m.tabs[i]>> \in CleanSet(saved)
  BY <1>1 DEF Changed, ListChanged
<1>4. ASSUME NEW i \in DOMAIN m.tabs
      PROVE  m.tabs[i].id = editor.tabs[i].id /\ (m.tabs[i] = t => editor.tabs[i] = t)
  <2>1. PICK a, b : a = editor.tabs[i] /\ b = m.tabs[i]
    OBVIOUS
  <2>2. <<a, b>> \in CleanSet(saved)
    BY <1>3, <1>4, <2>1
  <2>3. a \in Tabs /\ (b = a \/ b = [a EXCEPT !.edits = Clean])
    BY <2>2 DEF CleanSet
  <2>4. b.id = a.id /\ (b = a \/ b.edits = Clean)
    BY <2>3 DEF Tabs
  <2> QED
    BY <2>1, <2>4
<1>5. t \in ToSet(m.tabs) => t \in ToSet(editor.tabs)
  BY <1>3, <1>4 DEF ToSet
<1>6. CASE kind = "others"
  BY <1>2, <1>5, <1>6 DEF Taken, ToClose
<1>7. CASE kind = "all"
  BY <1>2, <1>5, <1>7 DEF Taken, ToClose
<1>8. CASE kind = "right"
  <2>1. /\ m.tabs \in Seq(Tabs) /\ editor.tabs \in Seq(Tabs)
        /\ Len(m.tabs) \in Nat /\ DOMAIN m.tabs = 1 .. Len(m.tabs)
        /\ Len(editor.tabs) \in Nat /\ DOMAIN editor.tabs = 1 .. Len(editor.tabs)
    BY <1>1, TypedLists, LenProperties
  <2>2. Len(m.tabs) = Len(editor.tabs)
    <3>1. 1 .. Len(m.tabs) = 1 .. Len(editor.tabs)
      BY <1>3, <2>1
    <3> QED
      BY <2>1, <3>1
  <2> DEFINE I == {i \in 1 .. Len(editor.tabs) : editor.tabs[i].id = id}
             J == {i \in 1 .. Len(m.tabs) : m.tabs[i].id = id}
             at == IF I # {} THEN Min(I) ELSE 0
  <2>3. I = J
    BY <1>4, <2>1, <2>2
  <2>4. SelectInSeq(editor.tabs, LAMBDA u : u.id = id) = at
    BY DEF SelectInSeq
  <2>5. SelectInSeq(m.tabs, LAMBDA u : u.id = id) = IF J # {} THEN Min(J) ELSE 0
    BY DEF SelectInSeq
  <2>6. at \in 0 .. Len(editor.tabs)
    <3>1. I \in SUBSET Nat /\ I \subseteq 0 .. Len(editor.tabs) /\ 0 \in 0 .. Len(editor.tabs)
      BY <2>1
    <3> HIDE DEF I
    <3>2. I # {} => Min(I) \in I
      BY <3>1, MinIs
    <3> QED
      BY <3>1, <3>2
  <2> HIDE DEF I, J
  <2>7. Taken(m, kind, id) = ToSet(SubSeq(m.tabs, at + 1, Len(m.tabs)))
    BY <1>8, <2>3, <2>5 DEF Taken
  <2>8. ToClose(kind, id) = ToSet(SubSeq(editor.tabs, at + 1, Len(editor.tabs)))
    BY <1>8, <2>4 DEF ToClose
  <2> HIDE DEF at
  <2>9. ASSUME t \in ToSet(SubSeq(m.tabs, at + 1, Len(m.tabs)))
        PROVE  t \in ToSet(SubSeq(editor.tabs, at + 1, Len(editor.tabs)))
    <3>1. PICK x, y : /\ x = SubSeq(m.tabs, at + 1, Len(m.tabs))
                      /\ y = SubSeq(editor.tabs, at + 1, Len(editor.tabs))
      OBVIOUS
    <3>2. /\ DOMAIN x = 1 .. (Len(m.tabs) - at)
          /\ \A i \in 1 .. (Len(m.tabs) - at) : x[i] = m.tabs[at + i]
      BY <2>1, <2>2, <2>6, <3>1, TailIs
    <3>3. /\ DOMAIN y = 1 .. (Len(m.tabs) - at)
          /\ \A i \in 1 .. (Len(m.tabs) - at) : y[i] = editor.tabs[at + i]
      BY <2>1, <2>2, <2>6, <3>1, TailIs
    <3>4. PICK i \in DOMAIN x : x[i] = t
      BY <2>9, <3>1 DEF ToSet
    <3>5. at + i \in DOMAIN m.tabs
      BY <2>1, <2>2, <2>6, <3>2
    <3>6. y[i] = t /\ i \in DOMAIN y
      BY <1>4, <3>2, <3>3, <3>4, <3>5
    <3> QED
      BY <3>1, <3>6 DEF ToSet
  <2> QED
    BY <1>2, <2>7, <2>8, <2>9
<1> QED
  BY <1>6, <1>7, <1>8

\* The text of one tab is replaced.
LEMMA SetTextKeeps ==
  ASSUME NEW e, Typed(e), Once(e), NEW id, NEW edits, NEW n, n = SetText(e, id, edits), Typed(n),
         NEW u \in AllTabs(e), u.id = id, NEW D, u.edits \in D \/ u.edits = edits
  PROVE  Keeps(e, n, D)
<1> DEFINE m == TextOf(id, edits)
<1>1. Mapped(e, n, m)
  BY SetTextMapped
<1>2. AllTabs(e) \subseteq Tabs
  BY AllTabsTyped
<1>3. ASSUME NEW t \in AllTabs(e) PROVE t.edits \in D \/ m[t].edits = t.edits
  <2>1. CASE t.id = id
    <3>1. t = u
      BY <2>1, OnceTab
    <3>2. m[t].edits = edits
      BY <1>2, <2>1 DEF TextOf, Tabs
    <3> QED
      BY <3>1, <3>2
  <2>2. CASE t.id # id
    BY <1>2, <2>2 DEF TextOf
  <2> QED
    BY <2>1, <2>2
<1> HIDE DEF m
<1> QED
  BY <1>1, <1>3, MappedKeeps

\* Typing, saving, filling in a draft and giving a path another name.
LEMMA TextsLossless ==
  ASSUME TypeInv, HomeInv, PlaceInv, ~blind', [Next]_workspaceVars
  PROVE  /\ Type \/ Save \/ RecoverFill => Lossless
         /\ \A from, to \in Paths : renamePath(from, to) => Lossless
<1>1. Typed(editor) /\ Typed(editor') /\ Once(editor)
  BY StepFacts
<1>2. ASSUME Type PROVE Lossless
  <2>1. PICK i \in DOMAIN editor.tabs :
          /\ editor.tabs[i].id = editor.active
          /\ given' = given \cup {editor.tabs[i].edits}
    BY <1>2 DEF Type
  <2>2. editor' = SetText(editor, editor.active, lastEdit + 1)
    BY <1>2 DEF Type, PublishNew
  <2>3. editor.tabs[i] \in AllTabs(editor) /\ editor.tabs[i].edits \in given'
    BY <2>1 DEF AllTabs, ToSet
  <2> QED
    BY <1>1, <2>1, <2>2, <2>3, SetTextKeeps DEF Lossless
<1>3. ASSUME Save PROVE Lossless
  <2>1. editor' = SetText(editor, editor.active, Clean)
    BY <1>3 DEF Save, Publish
  <2>2. PICK t \in findTab(editor, editor.active) : given' = given \cup {t.edits}
    BY <1>3 DEF Save
  <2>3. t \in AllTabs(editor) /\ t.id = editor.active
    BY <2>2 DEF findTab, AllTabs
  <2> QED
    BY <1>1, <2>1, <2>2, <2>3, SetTextKeeps DEF Lossless
<1>4. ASSUME RecoverFill PROVE Lossless
  <2>1. PICK there : there = {i \in DOMAIN editor.tabs : editor.tabs[i].path = op.path}
    OBVIOUS
  <2>2. CASE there = {}
    <3>1. editor' = editor
      BY <1>4, <2>1, <2>2 DEF RecoverFill
    <3> QED
      BY <3>1, LosesNothing
  <2>3. CASE there # {}
    <3>1. there \in SUBSET Nat
      BY <1>1, <2>1, TypedLists, LenProperties
    <3>2. Min(there) \in DOMAIN editor.tabs
      BY <2>1, <2>3, <3>1, MinIs
    <3>3. PICK t : t = editor.tabs[Min(there)]
      OBVIOUS
    <3>4. /\ editor' = SetText(editor, t.id, op.left[op.path])
          /\ given' = (given \cup {t.edits}) \ {op.left[op.path]}
      BY <1>4, <2>1, <2>3, <3>3 DEF RecoverFill, PublishNew
    <3>5. t \in AllTabs(editor)
      BY <3>2, <3>3 DEF AllTabs, ToSet
    <3>6. t.edits \in given' \/ t.edits = op.left[op.path]
      BY <3>4
    <3> QED
      BY <1>1, <3>4, <3>5, <3>6, SetTextKeeps DEF Lossless
  <2> QED
    BY <2>2, <2>3
<1>5. ASSUME NEW from \in Paths, NEW to \in Paths, renamePath(from, to) PROVE Lossless
  <2>1. editor' = RenameTabs(editor, from, to)
    BY <1>5 DEF renamePath, Publish
  <2>2. Mapped(editor, editor', PathOf(from, to))
    BY <1>1, <2>1, RenameTabsMapped
  <2>3. AllTabs(editor) \subseteq Tabs
    BY <1>1, AllTabsTyped
  <2>4. \A t \in Tabs : PathOf(from, to)[t].edits = t.edits
    BY DEF PathOf, Tabs
  <2> QED
    BY <1>1, <2>2, <2>3, <2>4, MappedKeeps DEF Lossless
<1> QED
  BY <1>2, <1>3, <1>4, <1>5

\* Saving under another name gives up the tab of that path and the text it saves.
LEMMA saveAsLossless ==
  ASSUME TypeInv, HomeInv, PlaceInv, ~blind', [Next]_workspaceVars, saveAs
  PROVE  Lossless
<1>1. Typed(editor) /\ Typed(editor') /\ Once(editor) /\ AllTabs(editor) \subseteq Tabs
  BY StepFacts, AllTabsTyped
<1> DEFINE conflicts == {t \in AllTabs(editor) : t.id # op.id /\ t.path = op.path}
           there == {i \in DOMAIN editor.tabs : editor.tabs[i] \in conflicts}
           first == IF \E t \in conflicts : Has(editor.tabs, t.id)
                    THEN {editor.tabs[Min(there)]} ELSE conflicts
<1>2. first \subseteq AllTabs(editor)
  <2>1. CASE \E t \in conflicts : Has(editor.tabs, t.id)
    <3>1. PICK t \in conflicts, i \in DOMAIN editor.tabs : editor.tabs[i].id = t.id
      BY <2>1 DEF Has
    <3>2. editor.tabs[i] \in AllTabs(editor)
      BY DEF AllTabs, ToSet
    <3>3. editor.tabs[i] = t
      BY <1>1, <3>1, <3>2, OnceTab
    <3>4. i \in there
      BY <3>3
    <3>5. there \in SUBSET Nat
      <4> HIDE DEF conflicts
      <4> QED
        BY <1>1, TypedLists, LenProperties
    <3> HIDE DEF conflicts, there
    <3>6. Min(there) \in there
      BY <3>4, <3>5, MinIs
    <3>7. editor.tabs[Min(there)] \in conflicts
      BY <3>6 DEF there
    <3> QED
      BY <2>1, <3>7 DEF conflicts
  <2>2. CASE ~\E t \in conflicts : Has(editor.tabs, t.id)
    BY <2>2
  <2> QED
    BY <2>1, <2>2
<1>3. \/ editor' = editor
      \/ /\ given' = given \cup EditsOf(first) \cup EditsOf(findTab(editor, op.id))
         /\ \E gone \in IF first = {} THEN {NoTab} ELSE {t.id : t \in first} :
              editor' = SavedUnder(closeTab(editor, gone), op.id, op.path)
  BY ZenonT(60) DEF saveAs, Publish
<1> HIDE DEF conflicts, there, first
<1>4. ASSUME given' = given \cup EditsOf(first) \cup EditsOf(findTab(editor, op.id)),
             NEW gone \in IF first = {} THEN {NoTab} ELSE {t.id : t \in first},
             editor' = SavedUnder(closeTab(editor, gone), op.id, op.path)
      PROVE  Lossless
  <2>1. PICK m : m = closeTab(editor, gone)
    OBVIOUS
  <2>2. Within(editor, m, {})
    BY <1>1, <2>1, closeTabWithin
  <2>3. Typed(m) /\ Once(m) /\ AllTabs(m) \subseteq AllTabs(editor)
    BY <1>1, <2>2, WithinType, OnceWithin, WithinTabs
  <2>4. Keeps(editor, m, given')
    <3>1. ASSUME NEW t \in AllTabs(editor), t \notin AllTabs(m)
          PROVE  t.edits = Clean \/ t.edits \in given'
      <4>1. t.id = gone
        BY <1>1, <2>1, <3>1, closeTabTakes
      <4>2. first # {}
        BY <1>1, <1>4, <4>1, TabsType DEF NoTab
      <4>3. PICK u \in first : u.id = gone
        BY <1>4, <4>2
      <4>4. t = u
        BY <1>1, <1>2, <4>1, <4>3, OnceTab
      <4> QED
        BY <1>4, <4>3, <4>4 DEF EditsOf
    <3> QED
      BY <3>1, KeepsAll
  <2>5. Mapped(m, editor', NameOf(op.id, op.path))
    BY <1>4, <2>1, <2>3, SavedUnderMapped
  <2>6. ASSUME NEW t \in AllTabs(m)
        PROVE  \/ t.edits = Clean \/ t.edits \in given'
               \/ NameOf(op.id, op.path)[t].edits = t.edits
    <3>1. t \in AllTabs(editor) /\ t \in Tabs
      BY <1>1, <2>3
    <3>2. CASE t.id # op.id
      BY <3>1, <3>2 DEF NameOf
    <3>3. CASE t.id = op.id
      <4>1. t \in findTab(editor, op.id)
        <5>1. CASE Has(editor.tabs, op.id)
          <6>1. PICK i \in DOMAIN editor.tabs : editor.tabs[i].id = op.id
            BY <5>1 DEF Has
          <6>2. editor.tabs[i] \in AllTabs(editor) /\ editor.tabs[i] \in ToSet(editor.tabs)
            BY DEF AllTabs, ToSet
          <6>3. t = editor.tabs[i]
            BY <1>1, <3>1, <3>3, <6>1, <6>2, OnceTab
          <6> QED
            BY <5>1, <6>1, <6>2, <6>3 DEF findTab
        <5>2. CASE ~Has(editor.tabs, op.id)
          BY <3>1, <3>3, <5>2 DEF findTab
        <5> QED
          BY <5>1, <5>2
      <4> QED
        BY <1>4, <4>1 DEF EditsOf
    <3> QED
      BY <3>2, <3>3
  <2>7. Keeps(m, editor', given')
    BY <1>1, <2>3, <2>5, <2>6, MappedKeeps
  <2> QED
    BY <2>4, <2>7, KeepsThen DEF Lossless
<1> QED
  BY <1>3, <1>4, LosesNothing

\* Saving before closing: what is neither saved nor asked about is not closed.
LEMMA SaveAndCloseLossless ==
  ASSUME TypeInv, HomeInv, PlaceInv, ~blind', [Next]_workspaceVars, SaveAndClose
  PROVE  Lossless
<1>1. Typed(editor) /\ Typed(editor') /\ AllTabs(editor) \subseteq Tabs
  BY StepFacts, AllTabsTyped
<1>2. PICK m : m = CleanTabs(editor, Asked)
  OBVIOUS
<1>3. PICK kind, id : kind = dialog.kind /\ id = dialog.id
  OBVIOUS
<1>4. /\ kind \in {"one", "others", "right", "all"}
      /\ editor' = Close(m, kind, id)
      /\ given' = given \cup EditsOf(Asked)
      /\ Dirty(ToClose(kind, id)) \ Asked = {}
  BY <1>2, <1>3 DEF SaveAndClose, CloseAnswered, Publish, Asking
<1>5. kind = "one" => id \in dialog.asked
  BY <1>3 DEF PlaceInv
<1>6. Typed(m)
  BY <1>1, <1>2, CleanTabsOK DEF TypeInv, StoreOK
<1>7. ASSUME NEW t \in AllTabs(editor), t.edits # Clean, t \notin Asked PROVE t \in AllTabs(editor')
  <2>1. t \in Tabs
    BY <1>1
  <2>2. t \in AllTabs(m)
    <3>1. PICK k \in {"others", "right", "all"} : TRUE
      OBVIOUS
    <3> QED
      BY <1>1, <1>2, <1>7, <2>1, <3>1, CleanedStay
  <2>3. ASSUME t \notin AllTabs(editor') PROVE FALSE
    <3>1. t \in Taken(m, kind, id)
      BY <1>4, <1>6, <2>2, <2>3, CloseTakes
    <3>2. CASE kind = "one"
      <4>1. t.id = id
        BY <3>1, <3>2 DEF Taken
      <4> QED
        BY <1>5, <1>7, <3>2, <4>1 DEF Asked
    <3>3. CASE kind # "one"
      <4>1. t \in ToClose(kind, id)
        BY <1>1, <1>2, <1>4, <1>7, <2>1, <3>1, <3>3, CleanedStay
      <4> QED
        BY <1>4, <1>7, <4>1 DEF Dirty
    <3> QED
      BY <3>2, <3>3
  <2> QED
    BY <2>3
<1>8. \A t \in Asked : t.edits = Clean \/ t.edits \in given'
  BY <1>4 DEF EditsOf
<1> QED
  BY <1>7, <1>8, LosesGiven

\* The end of a load drops no session of a project that is listed.
LEMMA SettleKeeps ==
  ASSUME NEW e, Typed(e), NEW astray, Settle(e, astray), ~blind', NEW D
  PROVE  ~astray /\ Keeps(e, editor', D)
<1>1. CASE phase = "restoring"
  <2>1. editor' = pruneWorkspaceSessions(e, projects) /\ ~astray /\ ~Forgets(e, projects)
    BY <1>1 DEF Settle, Publish
  <2> QED
    BY <2>1, pruneKeeps
<1>2. CASE phase # "restoring"
  BY <1>2, KeepsItself DEF Settle, Publish
<1> QED
  BY <1>1, <1>2

\* The sessions of unknown projects, when there are none.
LEMMA PruneLossless ==
  ASSUME Typed(editor), NEW known, editor' = pruneWorkspaceSessions(editor, known),
         ~Forgets(editor, known)
  PROVE  Lossless
BY pruneKeeps DEF Lossless

\* What is visible goes to the stash of the project left, if there is one.
LEMMA ShowsKeep ==
  ASSUME TypeInv, Typed(editor), Tidy(editor, lastId), current \notin DOMAIN editor.sessions,
         ~Astray(current), NEW to \in AllProjects, current # to, NEW D
  PROVE  Keeps(editor, activateProjectSession(editor, current, to), D)
<1>1. current \in AllProjects \cup {NoProject}
  BY DEF TypeInv, ListsOK
<1>2. ASSUME current = NoProject, NEW t \in At(editor, NoProject) PROVE IsPinned(t)
  <2>1. projectTabs(editor.tabs) = <<>>
    BY <1>2 DEF Astray
  <2>2. PICK K : K = {u \in ToSet(editor.tabs) : ~IsPinned(u)}
    OBVIOUS
  <2>3. ToSet(Only(editor.tabs, K)) = ToSet(editor.tabs) \cap K
    BY TypedLists, ToSetOnly
  <2>4. Only(editor.tabs, K) = <<>>
    BY <2>1, <2>2 DEF projectTabs
  <2>5. ToSet(<<>>) = {}
    BY DEF ToSet
  <2>6. t \in ToSet(editor.tabs)
    BY <1>2, AtIs
  <2> QED
    BY <2>2, <2>3, <2>4, <2>5, <2>6
<1>3. current \in AllProjects \/ \A t \in At(editor, NoProject) : IsPinned(t)
  BY <1>1, <1>2
<1>4. PICK from, n : from = current /\ n = activateProjectSession(editor, from, to)
  OBVIOUS
<1>5. Keeps(editor, n, D)
  BY <1>3, <1>4, activateKeeps
<1> QED
  BY <1>4, <1>5

LEMMA SwitchesLossless ==
  ASSUME TypeInv, HomeInv, PlaceInv, ~blind', [Next]_workspaceVars
  PROVE  SwitchDone \/ SwitchFails \/ addEmptyProject => Lossless
<1>1. /\ Typed(editor) /\ Typed(editor') /\ Tidy(editor, lastId)
      /\ current \notin DOMAIN editor.sessions
  BY StepFacts
<1>2. ASSUME SwitchDone PROVE Lossless
  <2>0. PICK p, from : p = switching.to /\ from = switching.from
    OBVIOUS
  <2>1. p \in AllProjects
    BY <1>2, <2>0 DEF SwitchDone, TypeInv, ListsOK
  <2>2. CASE from = p
    <3>1. Settle(editor, FALSE)
      BY <1>2, <2>0, <2>2 DEF SwitchDone
    <3> QED
      BY <1>1, <3>1, SettleKeeps DEF Lossless
  <2>3. CASE from # p
    <3>1. PICK m, astray : m = activateProjectSession(editor, from, p) /\ astray = Astray(from)
      OBVIOUS
    <3>2. Settle(m, astray)
      BY <1>2, <2>0, <2>3, <3>1 DEF SwitchDone
    <3>3. Typed(m)
      BY <1>1, <2>1, <2>3, <3>1, activateTyped
    <3>4. ~astray /\ Keeps(m, editor', given')
      BY <3>2, <3>3, SettleKeeps
    <3>5. from = current
      BY <3>1, <3>4 DEF Astray
    <3>6. Keeps(editor, m, given')
      BY <1>1, <2>1, <2>3, <3>1, <3>4, <3>5, ShowsKeep
    <3> QED
      BY <3>4, <3>6, KeepsThen DEF Lossless
  <2> QED
    BY <2>2, <2>3
<1>3. ASSUME SwitchFails PROVE Lossless
  <2>1. Settle(editor, FALSE)
    BY <1>3 DEF SwitchFails
  <2> QED
    BY <1>1, <2>1, SettleKeeps DEF Lossless
<1>4. ASSUME addEmptyProject PROVE Lossless
  <2>1. editor' = activateProjectSession(editor, current, Scratch) /\ ~Astray(current)
    BY <1>4 DEF addEmptyProject, Publish
  <2>2. Scratch \in AllProjects
    BY DEF AllProjects
  <2>3. CASE current = Scratch
    <3>1. editor' = editor
      BY <2>1, <2>3 DEF activateProjectSession
    <3> QED
      BY <3>1, LosesNothing
  <2>4. CASE current # Scratch
    BY <1>1, <2>1, <2>2, <2>4, ShowsKeep DEF Lossless
  <2> QED
    BY <2>3, <2>4
<1> QED
  BY <1>2, <1>3, <1>4

\* Leaving a project stashes what is visible.
LEMMA LeaveLossless ==
  ASSUME TypeInv, Typed(editor), Typed(editor'), current \notin DOMAIN editor.sessions,
         NEW open, Leave(open)
  PROVE  Lossless
<1>1. CASE editor' = editor
  BY <1>1, LosesNothing
<1>2. CASE current # NoProject /\ editor' = deactivateProjectSession(editor, current)
  <2>1. PICK p : p = current
    OBVIOUS
  <2>2. p \in AllProjects /\ p \notin DOMAIN editor.sessions
    BY <1>2, <2>1 DEF TypeInv, ListsOK
  <2>3. editor' = deactivateProjectSession(editor, p)
    BY <1>2, <2>1
  <2> QED
    BY <2>2, <2>3, deactivateKeeps DEF Lossless
<1>3. \/ editor' = editor
      \/ current # NoProject /\ editor' = deactivateProjectSession(editor, current)
  BY DEF Leave, clearCurrentProjectSession, Publish
<1> QED
  BY <1>1, <1>2, <1>3

LEMMA ManageLossless ==
  ASSUME TypeInv, HomeInv, PlaceInv, ~blind', [Next]_workspaceVars
  PROVE  /\ \A ps : hideProjects(ps) => Lossless
         /\ \A p \in AllProjects : removeProjectWithConfirm(p) => Lossless
         /\ RemoveRow \/ RemoveReload => Lossless
<1>1. Typed(editor) /\ Typed(editor') /\ current \notin DOMAIN editor.sessions
  BY StepFacts
<1>2. ASSUME NEW ps, hideProjects(ps) PROVE Lossless
  <2>1. CASE UNCHANGED editor
    BY <2>1, LosesNothing
  <2>2. CASE Leave((projects \ unavailable) \ ps)
    BY <1>1, <2>2, LeaveLossless
  <2> QED
    BY <1>2, <2>1, <2>2 DEF hideProjects
<1>3. ASSUME NEW p \in AllProjects, removeProjectWithConfirm(p) PROVE Lossless
  <2> DEFINE stash == IF p \in DOMAIN editor.sessions THEN ToSet(editor.sessions[p].tabs) ELSE {}
  <2>1. PICK under : under = {t \in AllTabs(editor) : Home[t.path] = p}
    OBVIOUS
  <2>2. PICK m : m = CloseEverywhere(editor, under)
    OBVIOUS
  <2>3. editor' = discardProjectSession(m, p) /\ given' = given \cup EditsOf(under \cup stash)
    BY <1>3, <2>1, <2>2 DEF removeProjectWithConfirm, Publish
  <2>4. Within(editor, m, {})
    BY <1>1, <2>2, CloseEverywhereWithin
  <2>5. Typed(m)
    BY <1>1, <2>4, WithinType
  <2>6. At(m, p) \subseteq At(editor, p)
    BY <1>1, <2>4, WithinAt
  <2>7. At(m, p) = StashOf(m, p) /\ At(editor, p) = stash
    BY AtIs DEF StashOf
  <2> HIDE DEF stash
  <2>8. ASSUME NEW t \in AllTabs(editor), t \notin AllTabs(editor') PROVE t \in under \cup stash
    <3>1. CASE t \in AllTabs(m)
      <4>1. t \in StashOf(m, p)
        BY <2>3, <2>5, <2>8, <3>1, discardTakes
      <4> QED
        BY <2>6, <2>7, <4>1
    <3>2. CASE t \notin AllTabs(m)
      BY <1>1, <2>2, <2>8, <3>2, CloseEverywhereTakes
    <3> QED
      BY <3>1, <3>2
  <2>9. \A t \in under \cup stash : t.edits = Clean \/ t.edits \in given'
    BY <2>3 DEF EditsOf
  <2> QED
    BY <2>8, <2>9, LosesGiven
<1>4. ASSUME RemoveRow PROVE Lossless
  <2>1. \/ editor' = editor
        \/ \E known : /\ editor' = pruneWorkspaceSessions(editor, known)
                      /\ ~Forgets(editor, known)
    BY <1>4 DEF RemoveRow, Publish
  <2> QED
    BY <1>1, <2>1, LosesNothing, PruneLossless
<1>5. ASSUME RemoveReload PROVE Lossless
  <2>1. PICK known : /\ editor' = pruneWorkspaceSessions(editor, known)
                     /\ ~Forgets(editor, known)
    BY <1>5 DEF RemoveReload, Publish
  <2> QED
    BY <1>1, <2>1, PruneLossless
<1> QED
  BY <1>2, <1>3, <1>4, <1>5

\* The steps of the start and of what is saved.
LEMMA DurableLossless ==
  ASSUME TypeInv, HomeInv, PlaceInv, ~blind', [Next]_workspaceVars, phase' # "down",
         DurableAction
  PROVE  Lossless
<1>1. Typed(editor) /\ Typed(editor') /\ current \notin DOMAIN editor.sessions
  BY StepFacts
<1>2. ASSUME persistNow \/ scheduleDraftPersist \/ RecoverDiscard \/ RecoverRestore \/ RecoverUnread
      PROVE  Lossless
  <2>1. editor' = editor
    BY <1>2 DEF persistNow, scheduleDraftPersist, RecoverDiscard, RecoverRestore, RecoverUnread,
                PublishNew
  <2> QED
    BY <2>1, LosesNothing
<1>3. ~Crash /\ ~requestAppClose
  BY DEF Crash, requestAppClose, Gone
<1>4. ASSUME hydrateWorkspaceSessions PROVE Lossless
  <2>1. editor = NoEditor
    BY <1>4 DEF hydrateWorkspaceSessions, PlaceInv
  <2>2. AllTabs(editor) = {}
    BY <2>1, NoEditorIs
  <2> QED
    BY <2>2, LosesGiven
<1>5. ASSUME loadProjects \/ LoadFails PROVE Lossless
  <2>1. \/ editor' = editor
        \/ \E known : /\ editor' = pruneWorkspaceSessions(editor, known)
                      /\ ~Forgets(editor, known)
    BY <1>5 DEF loadProjects, LoadFails, Publish
  <2> QED
    BY <1>1, <2>1, LosesNothing, PruneLossless
<1>6. ASSUME Validated PROVE Lossless
  <2>1. editor' = editor \/ \E open : Leave(open)
    BY <1>6 DEF Validated
  <2> QED
    BY <1>1, <2>1, LosesNothing, LeaveLossless
<1> QED
  BY <1>2, <1>3, <1>4, <1>5, <1>6, FilesLossless, TextsLossless DEF DurableAction

\* No step loses unsaved text that is not given up.
LEMMA EditsNext ==
  ASSUME TypeInv, HomeInv, PlaceInv, [Next]_workspaceVars, phase' # "down", ~blind'
  PROVE  EditsOf(AllTabs(editor)) \ EditsOf(AllTabs(editor')) \subseteq given'
<1>1. CASE EditorAction
  <2>1. ASSUME NEW path, BeginSaveAs(path) PROVE Lossless
    BY <2>1, LosesNothing DEF BeginSaveAs
  <2>2. ASSUME CancelClose PROVE Lossless
    BY <2>2, LosesNothing DEF CancelClose
  <2>3. Lossless
    BY <1>1, <2>1, <2>2, FilesLossless, TextsLossless, ClosesLossless, saveAsLossless,
       SaveAndCloseLossless DEF EditorAction
  <2> QED
    BY <2>3, KeepsGives DEF Lossless
<1>2. CASE ProjectAction
  <2>1. ASSUME NEW p, switchProject(p) \/ unhideProject(p) PROVE Lossless
    BY <2>1, LosesNothing DEF switchProject, unhideProject
  <2>2. ASSUME saveProjectsAsWorkspace \/ BeginNamed \/ NamedShown PROVE Lossless
    BY <2>2, LosesNothing DEF saveProjectsAsWorkspace, BeginNamed, NamedShown
  <2>3. ~activateNamedWorkspace
    BY DEF activateNamedWorkspace
  <2>4. Lossless
    BY <1>2, <2>1, <2>2, <2>3, SwitchesLossless, ManageLossless DEF ProjectAction
  <2> QED
    BY <2>4, KeepsGives DEF Lossless
<1>3. CASE DurableAction
  <2>1. Lossless
    BY <1>3, DurableLossless
  <2> QED
    BY <2>1, KeepsGives DEF Lossless
<1>4. CASE UNCHANGED workspaceVars
  <2>1. editor' = editor
    BY <1>4 DEF workspaceVars, memory
  <2> QED
    BY <2>1
<1> QED
  BY <1>1, <1>2, <1>3, <1>4 DEF Next

\* Unsaved text stays in some tab, visible or stashed, until it is saved, replaced by
\* newer typing or given up in answer to a question, as long as the program runs and
\* no step has acted on stale knowledge.
THEOREM UnsavedTextStays == Spec => EditsStay
<1>1. TypeInv /\ HomeInv /\ PlaceInv /\ [Next]_workspaceVars
        => [phase' # "down" /\ ~blind' =>
              EditsOf(AllTabs(editor)) \ EditsOf(AllTabs(editor')) \subseteq given']_workspaceVars
  BY EditsNext
<1> QED
  BY <1>1, PlacesHold, PTL DEF Spec, EditsStay
=============================================================================
