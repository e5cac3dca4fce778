--------------------------- MODULE PagePreferences ---------------------------
(***************************************************************************)
(* What a browser remembers for the web interface: the theme (theme.js),    *)
(* the sidebar (sidebar.js) and the collapsed stacks (stacks.js) live in    *)
(* localStorage, which all tabs share; every document works on the copy it  *)
(* read when it was loaded.  The "Updatable" filter (stacks.js) is local to *)
(* a document and hides rows and sections beside the collapse.              *)
(*                                                                         *)
(* A load has two steps: the scripts of <head>, then the DOMContentLoaded   *)
(* handlers; the other tabs run in between.  `stale' and `touched' record   *)
(* history for the properties only.                                        *)
(***************************************************************************)
EXTENDS Naturals, FiniteSets

CONSTANTS
    Tabs,
    Stacks,       \* names of the [data-stack] sections
    Inherited,    \* the stacks named like a property of Object.prototype
    Rows,         \* the container rows
    StackOf,      \* StackOf[r]: the section row r is in
    Rendered,     \* the sets of updatable rows the server may render
    Unparsable,   \* a stored value JSON.parse rejects
    MaxClicks     \* bound on the clicks of a behaviour

ASSUME PreferencesAssumption ==
    /\ Inherited \subseteq Stacks
    /\ StackOf \in [Rows -> Stacks]
    /\ Rendered \subseteq SUBSET Rows
    /\ Unparsable \notin [Stacks -> {"absent", "collapsed", "expanded"}]
    /\ MaxClicks \in Nat

VARIABLES
    storage,  \* localStorage: the keys theme, sidebar and stacks
    page,     \* page[t]: the document of tab t
    clicks,
    stale,    \* stale[t]: the keys another tab has written since t read them
    touched   \* the stacks some click has toggled

vars == <<storage, page, clicks, stale, touched>>

\* The documents: the Containers page, any other page with the sidebar, and
\* the pages without it (login, change-password).
Kinds == {"containers", "layout", "bare"}

\* One entry of the collapse map; "absent" is a name the map does not have.
Entries == {"absent", "collapsed", "expanded"}
Empty == [s \in Stacks |-> "absent"]

\* Hidden are the bodies, rows and sections with the class; a chevron points
\* down while it is rotated.
Document == [phase : {"closed", "loading", "wired"}, kind : Kinds,
             theme : {"light", "dark"}, icon : {"none", "light", "dark"},
             sidebar : {"collapsed", "expanded"}, state : [Stacks -> Entries],
             updatable : SUBSET Rows, active : BOOLEAN, bodies : SUBSET Stacks,
             chevrons : SUBSET Stacks, rows : SUBSET Rows, sections : SUBSET Stacks]

\* No document yet; also the defaults a new one is rendered with.
Closed == [phase |-> "closed", kind |-> "bare", theme |-> "dark", icon |-> "none",
           sidebar |-> "expanded", state |-> Empty, updatable |-> {}, active |-> FALSE,
           bodies |-> {}, chevrons |-> Stacks, rows |-> {}, sections |-> {}]

Init ==
    /\ storage \in [theme : {"none"}, sidebar : {"none"}, stacks : {Empty, Unparsable}]
    /\ page = [t \in Tabs |-> Closed]
    /\ clicks = 0
    /\ stale = [t \in Tabs |-> {}]
    /\ touched = {}

-----------------------------------------------------------------------------
\* loadState: an unreadable value counts as the empty map.
loadState == IF storage.stacks = Unparsable THEN Empty ELSE storage.stacks

\* Mutants: an absent stack starts collapsed; the filter hides the body of an
\* empty stack instead of the section; nothing is saved.
TruthyUnlessExpanded(state, s) == state[s] # "expanded"
applyFilterToBody(d) ==
    [d EXCEPT !.rows = IF d.active THEN Rows \ d.updatable ELSE {},
              !.bodies = IF d.active
                         THEN {s \in Stacks : \A r \in d.updatable : StackOf[r] # s}
                         ELSE {}]
saveNothing(t, key, value) == storage

\* !!state[name]: the object JSON.parse returns inherits from Object.prototype,
\* so a name the map does not have may still be truthy.
Truthy(state, s) == state[s] = "collapsed" \/ (state[s] = "absent" /\ s \in Inherited)

\* Mutant: a click looks at what is stored instead of what the document shows.
toggledFromStorage(t, s) == ~Truthy(loadState, s)

\* theme.js: the theme every document starts with.
storedTheme == IF storage.theme = "light" THEN "light" ELSE "dark"

\* sidebar.js: likewise.
storedSidebar == IF storage.sidebar = "1" THEN "collapsed" ELSE "expanded"

\* applyState for one stack: body and chevron.
applyState(d, s, collapsed) ==
    [d EXCEPT !.bodies = IF collapsed THEN @ \cup {s} ELSE @ \ {s},
              !.chevrons = IF collapsed THEN @ \ {s} ELSE @ \cup {s}]

\* apply of the filter: rows first, then the sections left without a row.
applyFilter(d) ==
    [d EXCEPT !.rows = IF d.active THEN Rows \ d.updatable ELSE {},
              !.sections = IF d.active
                           THEN {s \in Stacks : \A r \in d.updatable : StackOf[r] # s}
                           ELSE {}]

\* localStorage.setItem.
save(t, key, value) == [storage EXCEPT ![key] = value]

\* What a click on the toggle of stack s makes of it.
toggled(t, s) == ~Truthy(page[t].state, s)

-----------------------------------------------------------------------------
\* A tab opens, reloads or leaves for another page: the scripts of <head> run
\* on the document the server rendered.
LoadHead(t, kind, updatable) ==
    /\ page' = [page EXCEPT ![t] = [Closed EXCEPT
           !.phase = "loading", !.kind = kind, !.theme = storedTheme,
           !.updatable = updatable,
           !.sidebar = IF kind = "bare" THEN "expanded" ELSE storedSidebar]]
    /\ stale' = [stale EXCEPT ![t] = {}]
    /\ UNCHANGED <<storage, clicks, touched>>

\* wireStacks reads the map and applies it; wireToggle of theme.js draws its
\* icon.  On a page without the elements each returns at once.
wireStacks(d) ==
    LET collapsed == {s \in Stacks : Truthy(loadState, s)}
    IN  IF d.kind # "containers" THEN d
        ELSE [d EXCEPT !.state = loadState, !.bodies = collapsed, !.chevrons = @ \ collapsed]

wireToggle(d) == [d EXCEPT !.icon = IF d.kind = "bare" THEN "none" ELSE d.theme]

\* DOMContentLoaded.
Wire(t) ==
    /\ page[t].phase = "loading"
    /\ page' = [page EXCEPT ![t] = [wireToggle(wireStacks(@)) EXCEPT !.phase = "wired"]]
    /\ stale' = [stale EXCEPT ![t] = @ \ {"stacks"}]
    /\ UNCHANGED <<storage, clicks, touched>>

\* Every click that saves: d is the document after it.
Saves(t, d, key, value) ==
    /\ clicks < MaxClicks
    /\ clicks' = clicks + 1
    /\ page' = [page EXCEPT ![t] = d]
    /\ storage' = save(t, key, value)
    /\ stale' = [u \in Tabs |-> IF u = t THEN stale[u] \ {key} ELSE stale[u] \cup {key}]

\* A click on .stack-toggle; the whole map is saved.
ClickStack(t, s) ==
    LET state == [page[t].state EXCEPT ![s] = IF toggled(t, s) THEN "collapsed" ELSE "expanded"]
    IN  /\ page[t].phase = "wired" /\ page[t].kind = "containers"
        /\ s \notin page[t].sections
        /\ Saves(t, applyState([page[t] EXCEPT !.state = state], s, toggled(t, s)), "stacks", state)
        /\ touched' = touched \cup {s}

\* A click on the filter button.
ClickFilter(t) ==
    /\ page[t].phase = "wired" /\ page[t].kind = "containers"
    /\ clicks < MaxClicks
    /\ clicks' = clicks + 1
    /\ page' = [page EXCEPT ![t] = applyFilter([page[t] EXCEPT !.active = ~@])]
    /\ UNCHANGED <<storage, stale, touched>>

\* A click on the theme button.
ClickTheme(t) ==
    LET next == IF page[t].theme = "light" THEN "dark" ELSE "light"
    IN  /\ page[t].phase = "wired" /\ page[t].kind # "bare"
        /\ Saves(t, [page[t] EXCEPT !.theme = next, !.icon = next], "theme", next)
        /\ UNCHANGED touched

\* setCollapsed: the hide button is on screen while the sidebar is, the show
\* button while it is not.
ClickSidebar(t) ==
    LET next == IF page[t].sidebar = "expanded" THEN "collapsed" ELSE "expanded"
    IN  /\ page[t].phase = "wired" /\ page[t].kind # "bare"
        /\ Saves(t, [page[t] EXCEPT !.sidebar = next], "sidebar", IF next = "collapsed" THEN "1" ELSE "0")
        /\ UNCHANGED touched

Next == \E t \in Tabs :
    \/ \E kind \in Kinds, u \in Rendered : LoadHead(t, kind, u)
    \/ Wire(t)
    \/ \E s \in Stacks : ClickStack(t, s)
    \/ ClickFilter(t)
    \/ ClickTheme(t)
    \/ ClickSidebar(t)

Spec == Init /\ [][Next]_vars

-----------------------------------------------------------------------------
TypeOK ==
    /\ storage \in [theme : {"none", "light", "dark"}, sidebar : {"none", "0", "1"},
                    stacks : [Stacks -> Entries] \cup {Unparsable}]
    /\ page \in [Tabs -> Document]
    /\ clicks \in 0..MaxClicks
    /\ stale \in [Tabs -> SUBSET {"theme", "sidebar", "stacks"}]
    /\ touched \in SUBSET Stacks

\* The rows a user sees: not hidden themselves, nor by their body or section.
OnScreen(t) ==
    {r \in Rows : /\ r \notin page[t].rows
                  /\ StackOf[r] \notin page[t].bodies
                  /\ StackOf[r] \notin page[t].sections}

\* stacks.js:52-55: the filter leaves the collapse "intact for when the filter
\* is switched off again".  Whatever the order of clicks on stacks and filter,
\* a document shows the rows of its expanded stacks that pass the filter, the
\* chevrons agree with the bodies, and no section with such a row is hidden.
FilterAndCollapseCompose ==
    \A t \in Tabs : page[t].phase = "wired" /\ page[t].kind = "containers" =>
        /\ OnScreen(t) = {r \in Rows : /\ ~Truthy(page[t].state, StackOf[r])
                                       /\ page[t].active => r \in page[t].updatable}
        /\ page[t].chevrons = Stacks \ page[t].bodies
        /\ \A r \in page[t].updatable : StackOf[r] \notin page[t].sections

\* A document no other tab has written past shows what is stored, so reloading
\* it changes nothing: theme and sidebar from the first paint on, the collapse
\* map once stacks.js has run ("it survives reloads", stacks.js:2).
FreshPageMatchesStorage ==
    \A t \in Tabs :
        /\ page[t].phase # "closed" /\ "theme" \notin stale[t] => page[t].theme = storedTheme
        /\ page[t].phase # "closed" /\ page[t].kind # "bare" /\ "sidebar" \notin stale[t] =>
               page[t].sidebar = storedSidebar
        /\ page[t].phase = "wired" /\ page[t].kind = "containers" /\ "stacks" \notin stale[t] =>
               page[t].state = loadState

\* stacks.js:1 "Expanded by default", for the names JavaScript does not know: a
\* stack nobody has toggled is expanded in every tab.
OrdinaryStacksStartExpanded ==
    \A t \in Tabs : page[t].bodies \cap (Stacks \ (touched \cup Inherited)) = {}

\* A click always flips what the clicking user sees, even in a tab whose copy
\* another tab has overwritten in storage.
ClickFlipsWhatIsShown ==
    [][\A t \in Tabs :
          /\ \A s \in Stacks : ClickStack(t, s) =>
                 (s \in page'[t].bodies <=> s \notin page[t].bodies)
          /\ ClickTheme(t) => /\ page'[t].theme # page[t].theme
                              /\ page'[t].icon = page'[t].theme]_vars

\* stacks.js:2 as a reader takes it: what was clicked last for a stack, in any
\* tab, is what is stored.  Two open tabs break it.
CollapseIsPersisted ==
    [][\A s \in Stacks : loadState'[s] # loadState[s] =>
          \E t \in Tabs : ClickStack(t, s)]_vars

\* stacks.js:1 for every name.  A stack named "constructor" breaks it.
StacksStartExpanded ==
    \A t \in Tabs : page[t].bodies \subseteq touched
=============================================================================
