------------------------ MODULE PagePreferencesProofs ------------------------
(***************************************************************************)
(* What the page scripts keep up for any number of tabs, stacks and rows    *)
(* and any number of clicks.  PrefInv says how the classes of a document    *)
(* follow from its collapse map and its filter, that an untouched stack has *)
(* no entry anywhere, and that a key no other tab has written is in storage *)
(* as the document has it.                                                  *)
(***************************************************************************)
EXTENDS PagePreferences, TLAPS

\* What the collapse map hides, and what the filter hides.
Collapsed(state) == {s \in Stacks : Truthy(state, s)}
HiddenRows(d) == IF d.active THEN Rows \ d.updatable ELSE {}
HiddenSections(d) ==
    IF d.active THEN {s \in Stacks : \A r \in d.updatable : StackOf[r] # s} ELSE {}

\* The classes of one document follow from its map and its filter.
DocShape(d) ==
    IF d.phase = "wired" /\ d.kind = "containers"
    THEN /\ d.bodies = Collapsed(d.state) /\ d.chevrons = Stacks \ d.bodies
         /\ d.rows = HiddenRows(d) /\ d.sections = HiddenSections(d)
    ELSE d.bodies = {} /\ d.rows = {} /\ d.sections = {} /\ d.chevrons = Stacks /\ ~d.active

\* A stack outside T, the stacks that were clicked, has no entry in a map.
Untouched(state, T) == \A s \in Stacks \ T : state[s] = "absent"

\* A document agrees with storage on the keys it is not stale in.
Fresh(t) ==
    /\ page[t].phase # "closed" /\ "theme" \notin stale[t] => page[t].theme = storedTheme
    /\ page[t].phase # "closed" /\ page[t].kind # "bare" /\ "sidebar" \notin stale[t] =>
           page[t].sidebar = storedSidebar
    /\ page[t].phase = "wired" /\ page[t].kind = "containers" /\ "stacks" \notin stale[t] =>
           page[t].state = loadState

PrefInv ==
    /\ TypeOK
    /\ \A t \in Tabs : DocShape(page[t])
    /\ Untouched(loadState, touched) /\ \A t \in Tabs : Untouched(page[t].state, touched)
    /\ \A t \in Tabs : Fresh(t)

\* The map a document reads is a map, whatever is stored.
LEMMA LoadStateType == TypeOK => loadState \in [Stacks -> Entries]
  BY DEF TypeOK, loadState, Empty, Entries


\* The first state: every tab is closed, nothing is stored.
LEMMA InitPref == Init => PrefInv
<1> SUFFICES ASSUME Init PROVE PrefInv
  OBVIOUS
<1> USE PreferencesAssumption
<1>1. storage \in [theme : {"none"}, sidebar : {"none"}, stacks : {Empty, Unparsable}]
      /\ Empty \in [Stacks -> Entries]
  BY DEF Init, Empty, Entries
<1>2. Closed \in Document
  BY <1>1 DEF Closed, Document, Kinds
<1>3. TypeOK
  BY <1>1, <1>2 DEF Init, TypeOK
<1>4. DocShape(Closed)
  BY DEF DocShape, Closed
<1>5. Untouched(loadState, touched) /\ Untouched(Closed.state, touched)
  BY <1>1 DEF Untouched, loadState, Empty, Closed
<1>6. \A t \in Tabs : Fresh(t)
  BY DEF Init, Fresh, Closed
<1> QED
  BY <1>3, <1>4, <1>5, <1>6 DEF PrefInv, Init

\* Every step replaces the document of one tab by one of the right shape; what
\* is left to show of it is that it agrees with the rest.
LEMMA OneDocument ==
    ASSUME PrefInv, NEW t \in Tabs, NEW d \in Document, page' = [page EXCEPT ![t] = d],
           DocShape(d), Untouched(d.state, touched'), touched \subseteq touched',
           Untouched(loadState', touched'),
           storage' \in [theme : {"none", "light", "dark"}, sidebar : {"none", "0", "1"},
                          stacks : [Stacks -> Entries] \cup {Unparsable}],
           clicks' \in 0..MaxClicks, stale' \in [Tabs -> SUBSET {"theme", "sidebar", "stacks"}],
           touched' \in SUBSET Stacks, \A v \in Tabs : Fresh(v)'
    PROVE  PrefInv'
<1> USE DEF PrefInv
<1>1. \A v \in Tabs : page'[v] = IF v = t THEN d ELSE page[v]
  BY DEF TypeOK
<1>2. TypeOK'
  BY DEF TypeOK
<1>3. \A v \in Tabs : DocShape(page[v])'
  <2> SUFFICES ASSUME NEW v \in Tabs PROVE DocShape(page'[v])
    BY DEF DocShape, Collapsed, Truthy, HiddenRows, HiddenSections
  <2> QED
    BY <1>1
<1>4. \A v \in Tabs : Untouched(page'[v].state, touched')
  BY <1>1 DEF Untouched
<1> QED
  BY <1>2, <1>3, <1>4

\* A load starts a document over from storage.
LEMMA LoadKeepsInv ==
    ASSUME PrefInv, NEW t \in Tabs, NEW kind \in Kinds, NEW u \in Rendered, LoadHead(t, kind, u)
    PROVE  PrefInv'
<1> USE PreferencesAssumption DEF PrefInv
<1> DEFINE d == [Closed EXCEPT !.phase = "loading", !.kind = kind, !.theme = storedTheme,
                     !.updatable = u,
                     !.sidebar = IF kind = "bare" THEN "expanded" ELSE storedSidebar]
<1>1. /\ page' = [page EXCEPT ![t] = d] /\ stale' = [stale EXCEPT ![t] = {}]
      /\ UNCHANGED <<storage, clicks, touched>>
  BY DEF LoadHead
<1>2. /\ d.phase = "loading" /\ d.kind = kind /\ d.theme = storedTheme
      /\ d.sidebar = (IF kind = "bare" THEN "expanded" ELSE storedSidebar)
      /\ d.state = Empty /\ d.active = FALSE /\ d.bodies = {}
      /\ d.chevrons = Stacks /\ d.rows = {} /\ d.sections = {}
  BY DEF Closed
<1>3. d \in Document
  <2>1. u \in SUBSET Rows /\ Empty \in [Stacks -> Entries]
    BY DEF Empty, Entries
  <2> QED
    BY <2>1 DEF Document, Closed, Kinds, storedTheme, storedSidebar
<1> HIDE DEF d
<1>4. DocShape(d)
  BY <1>2 DEF DocShape
<1>5. loadState' = loadState /\ storedTheme' = storedTheme /\ storedSidebar' = storedSidebar
  BY <1>1 DEF loadState, storedTheme, storedSidebar
<1>6. Untouched(loadState', touched') /\ Untouched(d.state, touched')
  BY <1>1, <1>2, <1>5 DEF Untouched, Empty
<1>7. \A v \in Tabs : Fresh(v)'
  BY <1>1, <1>2, <1>5 DEF Fresh, TypeOK
<1> QED
  BY <1>1, <1>3, <1>4, <1>6, <1>7, OneDocument DEF TypeOK

\* DOMContentLoaded applies the stored map to the document.
LEMMA WireKeepsInv == ASSUME PrefInv, NEW t \in Tabs, Wire(t) PROVE PrefInv'
<1> USE PreferencesAssumption DEF PrefInv
<1> DEFINE d == [wireToggle(wireStacks(page[t])) EXCEPT !.phase = "wired"]
<1>1. /\ page[t].phase = "loading" /\ page' = [page EXCEPT ![t] = d]
      /\ stale' = [stale EXCEPT ![t] = @ \ {"stacks"}]
      /\ UNCHANGED <<storage, clicks, touched>>
  BY DEF Wire, TypeOK
<1>2. page[t] \in Document /\ DocShape(page[t]) /\ loadState \in [Stacks -> Entries]
  BY LoadStateType DEF TypeOK
<1>3. /\ d \in Document /\ d.phase = "wired" /\ d.kind = page[t].kind
      /\ d.theme = page[t].theme /\ d.sidebar = page[t].sidebar
      /\ d.active = page[t].active /\ d.rows = page[t].rows /\ d.sections = page[t].sections
      /\ IF d.kind = "containers"
         THEN d.state = loadState /\ d.bodies = Collapsed(loadState)
              /\ d.chevrons = page[t].chevrons \ Collapsed(loadState)
         ELSE d.state = page[t].state /\ d.bodies = page[t].bodies
              /\ d.chevrons = page[t].chevrons
  BY <1>2 DEF Document, wireToggle, wireStacks, Collapsed
<1> HIDE DEF d
<1>4. DocShape(d)
  BY <1>1, <1>2, <1>3 DEF DocShape, HiddenRows, HiddenSections
<1>5. loadState' = loadState /\ storedTheme' = storedTheme /\ storedSidebar' = storedSidebar
  BY <1>1 DEF loadState, storedTheme, storedSidebar
<1>6. Untouched(loadState', touched') /\ Untouched(d.state, touched')
  BY <1>1, <1>3, <1>5 DEF Untouched
<1>7. \A v \in Tabs : Fresh(v)'
  BY <1>1, <1>3, <1>5 DEF Fresh, TypeOK
<1> QED
  BY <1>1, <1>3, <1>4, <1>6, <1>7, OneDocument DEF TypeOK

\* A click on a stack: the document and storage take the same new map.
LEMMA ClickStackKeepsInv ==
    ASSUME PrefInv, NEW t \in Tabs, NEW s \in Stacks, ClickStack(t, s)
    PROVE  PrefInv'
<1> USE PreferencesAssumption DEF PrefInv
<1> DEFINE state == [page[t].state EXCEPT ![s] = IF toggled(t, s) THEN "collapsed" ELSE "expanded"]
           d == applyState([page[t] EXCEPT !.state = state], s, toggled(t, s))
<1>1. /\ page[t].phase = "wired" /\ page[t].kind = "containers" /\ clicks < MaxClicks
      /\ clicks' = clicks + 1 /\ page' = [page EXCEPT ![t] = d]
      /\ storage' = [storage EXCEPT !["stacks"] = state] /\ touched' = touched \cup {s}
      /\ stale' = [u \in Tabs |-> IF u = t THEN stale[u] \ {"stacks"} ELSE stale[u] \cup {"stacks"}]
  BY DEF ClickStack, Saves, save
<1>2. page[t] \in Document /\ DocShape(page[t]) /\ Untouched(page[t].state, touched)
  BY DEF TypeOK
<1>3. /\ state \in [Stacks -> Entries]
      /\ \A v \in Stacks : state[v] = IF v # s THEN page[t].state[v]
                                      ELSE IF toggled(t, s) THEN "collapsed" ELSE "expanded"
  BY <1>2 DEF Document, Entries
<1> HIDE DEF state
<1>4. /\ d \in Document /\ d.phase = "wired" /\ d.kind = "containers" /\ d.state = state
      /\ d.theme = page[t].theme /\ d.sidebar = page[t].sidebar /\ d.active = page[t].active
      /\ d.updatable = page[t].updatable /\ d.rows = page[t].rows
      /\ d.sections = page[t].sections
      /\ d.bodies = (IF toggled(t, s) THEN page[t].bodies \cup {s} ELSE page[t].bodies \ {s})
      /\ d.chevrons = (IF toggled(t, s) THEN page[t].chevrons \ {s} ELSE page[t].chevrons \cup {s})
  BY <1>1, <1>2, <1>3 DEF Document, applyState
<1> HIDE DEF d
<1>5. /\ page[t].bodies = Collapsed(page[t].state) /\ page[t].chevrons = Stacks \ page[t].bodies
      /\ page[t].rows = HiddenRows(page[t]) /\ page[t].sections = HiddenSections(page[t])
  BY <1>1, <1>2 DEF DocShape
<1>6. d.bodies = Collapsed(d.state)
  <2>1. Truthy(state, s) <=> toggled(t, s)
    BY <1>3 DEF Truthy
  <2>2. \A v \in Stacks \ {s} : Truthy(state, v) <=> Truthy(page[t].state, v)
    BY <1>3 DEF Truthy
  <2> QED
    BY <1>4, <1>5, <2>1, <2>2 DEF Collapsed
<1>7. DocShape(d)
  <2>1. d.chevrons = Stacks \ d.bodies
    BY <1>4, <1>5
  <2>2. d.rows = HiddenRows(d) /\ d.sections = HiddenSections(d)
    BY <1>4, <1>5 DEF HiddenRows, HiddenSections
  <2> QED
    BY <1>4, <1>6, <2>1, <2>2 DEF DocShape
<1>8. /\ storage' \in [theme : {"none", "light", "dark"}, sidebar : {"none", "0", "1"},
                       stacks : [Stacks -> Entries] \cup {Unparsable}]
      /\ storage'.theme = storage.theme /\ storage'.sidebar = storage.sidebar
      /\ storage'.stacks = state
  BY <1>1, <1>3 DEF TypeOK
<1>9. loadState' = state /\ storedTheme' = storedTheme /\ storedSidebar' = storedSidebar
  BY <1>3, <1>8 DEF loadState, storedTheme, storedSidebar, Entries
<1>10. Untouched(loadState', touched') /\ Untouched(d.state, touched')
  BY <1>1, <1>2, <1>3, <1>4, <1>9 DEF Untouched
<1>11. \A v \in Tabs : Fresh(v)'
  BY <1>1, <1>4, <1>9 DEF Fresh, TypeOK
<1>12. /\ clicks' \in 0..MaxClicks /\ touched' \in SUBSET Stacks /\ touched \subseteq touched'
       /\ stale' \in [Tabs -> SUBSET {"theme", "sidebar", "stacks"}]
  BY <1>1 DEF TypeOK
<1> QED
  BY <1>1, <1>4, <1>7, <1>8, <1>10, <1>11, <1>12, OneDocument

\* A click on the filter changes rows and sections of one document only.
LEMMA ClickFilterKeepsInv == ASSUME PrefInv, NEW t \in Tabs, ClickFilter(t) PROVE PrefInv'
<1> USE PreferencesAssumption DEF PrefInv
<1> DEFINE d == applyFilter([page[t] EXCEPT !.active = ~@])
<1>1. /\ page[t].phase = "wired" /\ page[t].kind = "containers" /\ clicks < MaxClicks
      /\ clicks' = clicks + 1 /\ page' = [page EXCEPT ![t] = d]
      /\ UNCHANGED <<storage, stale, touched>>
  BY DEF ClickFilter
<1>2. page[t] \in Document /\ DocShape(page[t]) /\ Untouched(page[t].state, touched)
  BY DEF TypeOK
<1>3. /\ d \in Document /\ d.phase = "wired" /\ d.kind = "containers"
      /\ d.state = page[t].state /\ d.theme = page[t].theme /\ d.sidebar = page[t].sidebar
      /\ d.updatable = page[t].updatable /\ d.bodies = page[t].bodies
      /\ d.chevrons = page[t].chevrons
      /\ d.rows = (IF d.active THEN Rows \ d.updatable ELSE {})
      /\ d.sections = (IF d.active THEN {s \in Stacks : \A r \in d.updatable : StackOf[r] # s}
                       ELSE {})
  BY <1>1, <1>2 DEF Document, applyFilter
<1> HIDE DEF d
<1>4. DocShape(d)
  BY <1>1, <1>2, <1>3 DEF DocShape, HiddenRows, HiddenSections
<1>5. loadState' = loadState /\ storedTheme' = storedTheme /\ storedSidebar' = storedSidebar
  BY <1>1 DEF loadState, storedTheme, storedSidebar
<1>6. Untouched(loadState', touched') /\ Untouched(d.state, touched')
  BY <1>1, <1>2, <1>3, <1>5 DEF Untouched
<1>7. \A v \in Tabs : Fresh(v)'
  BY <1>1, <1>3, <1>5 DEF Fresh, TypeOK
<1> QED
  BY <1>1, <1>3, <1>4, <1>6, <1>7, OneDocument DEF TypeOK

\* Theme and sidebar: one key of storage, and the field that shows it.
LEMMA ClickThemeKeepsInv == ASSUME PrefInv, NEW t \in Tabs, ClickTheme(t) PROVE PrefInv'
<1> USE PreferencesAssumption DEF PrefInv
<1> DEFINE next == IF page[t].theme = "light" THEN "dark" ELSE "light"
           d == [page[t] EXCEPT !.theme = next, !.icon = next]
<1>1. /\ page[t].phase = "wired" /\ page[t].kind # "bare" /\ clicks < MaxClicks
      /\ clicks' = clicks + 1 /\ page' = [page EXCEPT ![t] = d]
      /\ storage' = [storage EXCEPT !["theme"] = next] /\ touched' = touched
      /\ stale' = [u \in Tabs |-> IF u = t THEN stale[u] \ {"theme"} ELSE stale[u] \cup {"theme"}]
  BY DEF ClickTheme, Saves, save
<1>2. page[t] \in Document /\ DocShape(page[t]) /\ Untouched(page[t].state, touched)
  BY DEF TypeOK
<1>3. /\ d \in Document /\ d.phase = page[t].phase /\ d.kind = page[t].kind
      /\ d.state = page[t].state /\ d.theme = next /\ d.sidebar = page[t].sidebar
      /\ d.updatable = page[t].updatable /\ d.bodies = page[t].bodies
      /\ d.chevrons = page[t].chevrons /\ d.rows = page[t].rows
      /\ d.sections = page[t].sections /\ d.active = page[t].active
  BY <1>1, <1>2 DEF Document
<1> HIDE DEF d
<1>4. DocShape(d)
  BY <1>2, <1>3 DEF DocShape, HiddenRows, HiddenSections
<1>5. /\ storage' \in [theme : {"none", "light", "dark"}, sidebar : {"none", "0", "1"},
                       stacks : [Stacks -> Entries] \cup {Unparsable}]
      /\ storage'.theme = next /\ storage'.sidebar = storage.sidebar
      /\ storage'.stacks = storage.stacks
  BY <1>1 DEF TypeOK
<1>6. loadState' = loadState /\ storedTheme' = next /\ storedSidebar' = storedSidebar
  BY <1>5 DEF loadState, storedTheme, storedSidebar
<1>7. Untouched(loadState', touched') /\ Untouched(d.state, touched')
  BY <1>1, <1>2, <1>3, <1>6 DEF Untouched
<1>8. \A v \in Tabs : Fresh(v)'
  BY <1>1, <1>3, <1>6 DEF Fresh, TypeOK
<1>9. /\ clicks' \in 0..MaxClicks
      /\ stale' \in [Tabs -> SUBSET {"theme", "sidebar", "stacks"}]
  BY <1>1 DEF TypeOK
<1> QED
  BY <1>1, <1>3, <1>4, <1>5, <1>7, <1>8, <1>9, OneDocument DEF TypeOK

LEMMA ClickSidebarKeepsInv == ASSUME PrefInv, NEW t \in Tabs, ClickSidebar(t) PROVE PrefInv'
<1> USE PreferencesAssumption DEF PrefInv
<1> DEFINE next == IF page[t].sidebar = "expanded" THEN "collapsed" ELSE "expanded"
           value == IF next = "collapsed" THEN "1" ELSE "0"
           d == [page[t] EXCEPT !.sidebar = next]
<1>1. /\ page[t].phase = "wired" /\ page[t].kind # "bare" /\ clicks < MaxClicks
      /\ clicks' = clicks + 1 /\ page' = [page EXCEPT ![t] = d]
      /\ storage' = [storage EXCEPT !["sidebar"] = value] /\ touched' = touched
      /\ stale' = [u \in Tabs |->
                      IF u = t THEN stale[u] \ {"sidebar"} ELSE stale[u] \cup {"sidebar"}]
  BY DEF ClickSidebar, Saves, save
<1>2. page[t] \in Document /\ DocShape(page[t]) /\ Untouched(page[t].state, touched)
  BY DEF TypeOK
<1>3. /\ d \in Document /\ d.phase = page[t].phase /\ d.kind = page[t].kind
      /\ d.state = page[t].state /\ d.theme = page[t].theme /\ d.sidebar = next
      /\ d.updatable = page[t].updatable /\ d.bodies = page[t].bodies
      /\ d.chevrons = page[t].chevrons /\ d.rows = page[t].rows
      /\ d.sections = page[t].sections /\ d.active = page[t].active
  BY <1>1, <1>2 DEF Document
<1> HIDE DEF d
<1>4. DocShape(d)
  BY <1>2, <1>3 DEF DocShape, HiddenRows, HiddenSections
<1>5. /\ storage' \in [theme : {"none", "light", "dark"}, sidebar : {"none", "0", "1"},
                       stacks : [Stacks -> Entries] \cup {Unparsable}]
      /\ storage'.theme = storage.theme /\ storage'.sidebar = value
      /\ storage'.stacks = storage.stacks
  BY <1>1 DEF TypeOK
<1>6. loadState' = loadState /\ storedTheme' = storedTheme /\ storedSidebar' = next
  BY <1>5 DEF loadState, storedTheme, storedSidebar
<1>7. Untouched(loadState', touched') /\ Untouched(d.state, touched')
  BY <1>1, <1>2, <1>3, <1>6 DEF Untouched
<1>8. \A v \in Tabs : Fresh(v)'
  BY <1>1, <1>3, <1>6 DEF Fresh, TypeOK
<1>9. /\ clicks' \in 0..MaxClicks
      /\ stale' \in [Tabs -> SUBSET {"theme", "sidebar", "stacks"}]
  BY <1>1 DEF TypeOK
<1> QED
  BY <1>1, <1>3, <1>4, <1>5, <1>7, <1>8, <1>9, OneDocument DEF TypeOK

-----------------------------------------------------------------------------
\* The invariant of theme.js, sidebar.js and stacks.js: every load and click of
\* every tab keeps PrefInv.
THEOREM PreferencesInvariant == Spec => []PrefInv
<1>1. PrefInv /\ [Next]_vars => PrefInv'
  <2> SUFFICES ASSUME PrefInv, [Next]_vars PROVE PrefInv'
    OBVIOUS
  <2>1. CASE UNCHANGED vars
    <3>1. /\ storage' = storage /\ page' = page /\ clicks' = clicks /\ stale' = stale
          /\ touched' = touched
      BY <2>1 DEF vars
    <3>2. TypeOK'
      BY <3>1 DEF PrefInv, TypeOK
    <3>3. loadState' = loadState /\ storedTheme' = storedTheme /\ storedSidebar' = storedSidebar
      BY <3>1 DEF loadState, storedTheme, storedSidebar
    <3>4. (\A t \in Tabs : DocShape(page[t]))'
      <4> SUFFICES ASSUME NEW t \in Tabs PROVE DocShape(page'[t])
        BY DEF DocShape, Collapsed, Truthy, HiddenRows, HiddenSections
      <4> QED
        BY <3>1 DEF PrefInv
    <3>5. (\A t \in Tabs : Fresh(t))'
      BY <3>1, <3>3 DEF PrefInv, Fresh
    <3>6. (Untouched(loadState, touched) /\ \A t \in Tabs : Untouched(page[t].state, touched))'
      BY <3>1, <3>3 DEF PrefInv, Untouched
    <3> QED
      BY <3>2, <3>4, <3>5, <3>6 DEF PrefInv
  <2>2. CASE Next
    BY <2>2, LoadKeepsInv, WireKeepsInv, ClickStackKeepsInv, ClickFilterKeepsInv,
       ClickThemeKeepsInv, ClickSidebarKeepsInv DEF Next
  <2> QED
    BY <2>1, <2>2
<1> QED
  BY <1>1, InitPref, PTL DEF Spec

\* What is kept in localStorage, and every document, has its type.
THEOREM PreferencesTypes == Spec => []TypeOK
<1>1. PrefInv => TypeOK
  BY DEF PrefInv
<1> QED
  BY <1>1, PreferencesInvariant, PTL

\* stacks.js, wireStacks against wireFilter: whatever the order of clicks, the
\* rows on screen are those of expanded stacks that pass the filter.
THEOREM CollapseAndFilter == Spec => []FilterAndCollapseCompose
<1>1. PrefInv => FilterAndCollapseCompose
  <2> SUFFICES ASSUME PrefInv, NEW t \in Tabs,
                      page[t].phase = "wired", page[t].kind = "containers"
               PROVE  /\ OnScreen(t) = {r \in Rows : /\ ~Truthy(page[t].state, StackOf[r])
                                                     /\ page[t].active => r \in page[t].updatable}
                      /\ page[t].chevrons = Stacks \ page[t].bodies
                      /\ \A r \in page[t].updatable : StackOf[r] \notin page[t].sections
    BY DEF FilterAndCollapseCompose
  <2>1. /\ page[t].bodies = Collapsed(page[t].state) /\ page[t].chevrons = Stacks \ page[t].bodies
        /\ page[t].rows = HiddenRows(page[t]) /\ page[t].sections = HiddenSections(page[t])
        /\ page[t] \in Document
    BY DEF PrefInv, DocShape, TypeOK
  <2>2. page[t].updatable \subseteq Rows /\ page[t].active \in BOOLEAN
        /\ \A r \in Rows : StackOf[r] \in Stacks
    BY <2>1, PreferencesAssumption DEF Document
  <2>3. \A r \in page[t].updatable : StackOf[r] \notin page[t].sections
    BY <2>1, <2>2 DEF HiddenSections
  <2>4. ASSUME NEW r \in Rows
        PROVE  r \in OnScreen(t) <=> /\ ~Truthy(page[t].state, StackOf[r])
                                     /\ page[t].active => r \in page[t].updatable
    BY <2>1, <2>2, <2>3 DEF OnScreen, Collapsed, HiddenRows, HiddenSections
  <2>5. OnScreen(t) \subseteq Rows
    BY DEF OnScreen
  <2> QED
    BY <2>1, <2>3, <2>4, <2>5
<1> QED
  BY <1>1, PreferencesInvariant, PTL

\* theme.js, sidebar.js and stacks.js: a reload of a document that no other tab
\* has written past changes nothing on it.
THEOREM ReloadChangesNothing == Spec => []FreshPageMatchesStorage
<1>1. PrefInv => FreshPageMatchesStorage
  BY DEF PrefInv, Fresh, FreshPageMatchesStorage
<1> QED
  BY <1>1, PreferencesInvariant, PTL

\* stacks.js:1: a stack with an ordinary name that nobody has clicked is
\* expanded in every tab.
THEOREM ExpandedByDefault == Spec => []OrdinaryStacksStartExpanded
<1>1. PrefInv => OrdinaryStacksStartExpanded
  <2> SUFFICES ASSUME PrefInv, NEW t \in Tabs, NEW s \in page[t].bodies,
                      s \in Stacks, s \notin touched, s \notin Inherited
               PROVE  FALSE
    BY DEF OrdinaryStacksStartExpanded
  <2>1. Truthy(page[t].state, s)
    BY DEF PrefInv, DocShape, Collapsed
  <2>2. page[t].state[s] = "absent"
    BY DEF PrefInv, Untouched
  <2> QED
    BY <2>1, <2>2 DEF Truthy
<1> QED
  BY <1>1, PreferencesInvariant, PTL

\* stacks.js and theme.js: the click of a user flips what that user sees, also
\* in a tab whose copy of the map is not the stored one.
THEOREM ClicksFlip == Spec => ClickFlipsWhatIsShown
<1>1. PrefInv /\ [Next]_vars =>
        [\A t \in Tabs :
          /\ \A s \in Stacks : ClickStack(t, s) =>
                 (s \in page'[t].bodies <=> s \notin page[t].bodies)
          /\ ClickTheme(t) => /\ page'[t].theme # page[t].theme
                              /\ page'[t].icon = page'[t].theme]_vars
  <2> SUFFICES ASSUME PrefInv, NEW t \in Tabs
               PROVE  /\ \A s \in Stacks : ClickStack(t, s) =>
                             (s \in page'[t].bodies <=> s \notin page[t].bodies)
                      /\ ClickTheme(t) => /\ page'[t].theme # page[t].theme
                                          /\ page'[t].icon = page'[t].theme
    OBVIOUS
  <2>0. page[t] \in Document /\ DocShape(page[t]) /\ page \in [Tabs -> Document]
    BY DEF PrefInv, TypeOK
  <2>1. ASSUME NEW s \in Stacks, ClickStack(t, s)
        PROVE  s \in page'[t].bodies <=> s \notin page[t].bodies
    <3> DEFINE e == [page[t] EXCEPT !.state = [page[t].state EXCEPT
                        ![s] = IF toggled(t, s) THEN "collapsed" ELSE "expanded"]]
    <3>1. page'[t] = applyState(e, s, toggled(t, s)) /\ page[t].phase = "wired"
          /\ page[t].kind = "containers"
      BY <2>0, <2>1 DEF ClickStack, Saves
    <3>2. s \in page'[t].bodies <=> toggled(t, s)
      BY <2>0, <3>1 DEF applyState, Document
    <3>3. s \in page[t].bodies <=> Truthy(page[t].state, s)
      BY <2>0, <3>1 DEF DocShape, Collapsed
    <3> QED
      BY <3>2, <3>3 DEF toggled
  <2>2. ASSUME ClickTheme(t)
        PROVE  page'[t].theme # page[t].theme /\ page'[t].icon = page'[t].theme
    BY <2>0, <2>2 DEF ClickTheme, Saves, Document
  <2> QED
    BY <2>1, <2>2
<1> QED
  BY <1>1, PreferencesInvariant, PTL DEF Spec, ClickFlipsWhatIsShown
=============================================================================
