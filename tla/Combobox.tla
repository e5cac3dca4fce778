------------------------------ MODULE Combobox ------------------------------
(***************************************************************************)
(* The searchable dropdown of combobox.js, attached to one input: single-   *)
(* select (the schedule form's name, whose options follow the target kind)  *)
(* or multi-select (exclusions, channel filters: chips over a hidden CSV    *)
(* field).  Option texts are model values; `Includes' is the substring      *)
(* test, so filtering, capping and the panel's indices are modelled and     *)
(* strings are not.  `buttons' is the DOM of the panel, which open() leaves *)
(* as it was when there is nothing to show; `chips' the rendered chips.     *)
(***************************************************************************)
EXTENDS Integers, Sequences, Functions

CONSTANTS
    Options,     \* Options[k]: the sorted option list of kind k, as loaded
    Texts,       \* what the input may hold: options and typed queries
    Blank,       \* the empty text
    Includes,    \* the pairs <<option, text>>: the option contains the text
    Kinds,       \* target kinds
    Initial,     \* the values the hidden field may be rendered with
    MaxShown     \* slice(0, 8): at most so many options are offered

ASSUME ComboboxAssumption ==
    /\ Blank \in Texts
    /\ \A k \in Kinds : \A i \in DOMAIN Options[k] : Options[k][i] \in Texts
    /\ MaxShown \in Nat \ {0}

VARIABLES
    multi,       \* the mode it was attached in
    kind,        \* the target kind selected on the page
    loaded,      \* the options have arrived
    value,       \* input.value
    hidden,      \* hiddenEl.value, as the list it encodes
    chips,       \* the chips on screen
    focus,       \* the input has the focus
    open,        \* the panel is not hidden
    current,     \* currentOptions
    buttons,     \* the options the panel's buttons show
    highlighted  \* index from 0; -1 is none

vars == <<multi, kind, loaded, value, hidden, chips, focus, open, current, buttons, highlighted>>
panel == <<open, current, buttons, highlighted>>
context == <<multi, kind, loaded>>

\* attachCombobox: the panel starts hidden and the chips are rendered.
Init ==
    /\ multi \in BOOLEAN /\ kind \in Kinds /\ loaded = FALSE
    /\ value = Blank
    /\ hidden \in (IF multi THEN Initial ELSE {<<>>})
    /\ chips = hidden
    /\ focus = FALSE /\ open = FALSE
    /\ current = <<>> /\ buttons = <<>> /\ highlighted = -1

-----------------------------------------------------------------------------
\* selected().
selected == IF multi THEN Range(hidden) ELSE {}

getOptions == IF loaded THEN Options[kind] ELSE <<>>

\* slice(0, 8).
slice(s) == SubSeq(s, 1, IF Len(s) < MaxShown THEN Len(s) ELSE MaxShown)

\* Mutant: selected options are offered again.
matchingAll(q) == slice(SelectSeq(getOptions, LAMBDA o : <<o, q>> \in Includes))

\* The options open() offers for query q.
matching(q) == slice(SelectSeq(getOptions, LAMBDA o : o \notin selected /\ <<o, q>> \in Includes))

\* Mutant: with nothing to offer the panel stays as it is.
openPanelStale(q) ==
    /\ current' = matching(q) /\ highlighted' = -1
    /\ IF current' = <<>> THEN UNCHANGED <<open, buttons>>
       ELSE buttons' = current' /\ open' = TRUE

\* open(), for the query the input holds from now on.
openPanel(q) ==
    /\ current' = matching(q) /\ highlighted' = -1
    /\ IF current' = <<>> THEN open' = FALSE /\ UNCHANGED buttons
       ELSE buttons' = current' /\ open' = TRUE

close == open' = FALSE /\ UNCHANGED <<current, buttons, highlighted>>

renderChips(h) == h

\* Mutant: the new name comes first and replaces the list.
addOnly(v) == <<v>>

\* [...sel, value], unless it is selected already.
add(v) == IF v \in Range(hidden) THEN hidden ELSE Append(hidden, v)

\* sel.filter((n) => n !== name), of the list the chips were rendered from.
remove(v) == SelectSeq(chips, LAMBDA n : n # v)

\* pick(value).
pick(v) ==
    /\ IF multi
       THEN /\ hidden' = add(v) /\ value' = Blank
            /\ chips' = IF v \in Range(hidden) THEN chips ELSE renderChips(hidden')
       ELSE value' = v /\ UNCHANGED <<hidden, chips>>
    /\ close

-----------------------------------------------------------------------------
\* The option list arrives (the fetch of /api/v1/containers).
Arrive ==
    /\ ~loaded /\ loaded' = TRUE
    /\ UNCHANGED <<multi, kind, value, hidden, chips, focus, panel>>

\* 'focus'.
Focus ==
    /\ ~focus /\ focus' = TRUE
    /\ openPanel(value)
    /\ UNCHANGED <<context, value, hidden, chips>>

\* 'blur'.
Blur ==
    /\ focus /\ focus' = FALSE
    /\ close
    /\ UNCHANGED <<context, value, hidden, chips>>

\* 'input': the user types.
Type(q) ==
    /\ focus
    /\ value' = q
    /\ openPanel(q)
    /\ UNCHANGED <<context, hidden, chips, focus>>

\* 'keydown': ignored while the panel is hidden.
arrowDown == IF highlighted + 1 < Len(current) - 1 THEN highlighted + 1 ELSE Len(current) - 1
arrowUp == IF highlighted - 1 > 0 THEN highlighted - 1 ELSE 0

Arrow ==
    /\ focus /\ open
    /\ highlighted' \in {arrowDown, arrowUp}
    /\ UNCHANGED <<context, value, hidden, chips, focus, open, current, buttons>>

Enter ==
    /\ focus /\ open /\ highlighted >= 0
    /\ pick(current[highlighted + 1])
    /\ UNCHANGED <<context, focus>>

Escape ==
    /\ focus /\ open
    /\ close
    /\ UNCHANGED <<context, value, hidden, chips, focus>>

\* 'mousedown' on the i-th button of the panel; the input keeps the focus.
Mousedown(i) ==
    /\ open /\ i \in DOMAIN buttons
    /\ i \in DOMAIN current
    /\ pick(current[i])
    /\ UNCHANGED <<context, focus>>

\* A click on the cross of a chip takes the focus away first.
RemoveChip(v) ==
    /\ v \in Range(chips) /\ ~focus
    /\ hidden' = remove(v)
    /\ chips' = renderChips(hidden')
    /\ UNCHANGED <<context, value, focus, panel>>

\* The target kind is changed in its own <select>, which has the focus then.
ChangeKind(k) ==
    /\ ~multi /\ ~focus /\ k # kind
    /\ kind' = k
    /\ UNCHANGED <<multi, loaded, value, hidden, chips, focus, panel>>

Next ==
    \/ Arrive \/ Focus \/ Blur \/ Arrow \/ Enter \/ Escape
    \/ \E q \in Texts : Type(q)
    \/ \E i \in 1..MaxShown : Mousedown(i)
    \/ \E v \in Range(chips) : RemoveChip(v)
    \/ \E k \in Kinds : ChangeKind(k)

Spec == Init /\ [][Next]_vars

-----------------------------------------------------------------------------
TypeOK ==
    /\ multi \in BOOLEAN /\ kind \in Kinds /\ loaded \in BOOLEAN
    /\ value \in Texts
    /\ \A s \in {hidden, chips, current, buttons} : s \in Seq(Texts)
    /\ focus \in BOOLEAN /\ open \in BOOLEAN
    /\ highlighted \in -1..(MaxShown - 1)

\* What is on screen is what a submit or a pick uses: the chips are the list in
\* the field, an open panel is never empty, its
\* buttons show currentOptions (so the index a button carries names the option
\* it shows) and the highlight is on one of them or on none.  Options arriving,
\* retyping and reopening never leave the two apart.
ScreenMatchesState ==
    /\ chips = hidden
    /\ open => /\ buttons = current /\ current # <<>>
               /\ highlighted \in -1..(Len(current) - 1)

\* An open panel offers options of the kind selected on the page, none of them
\* selected already, all of them matching what the input holds.
OffersAreValid ==
    open => \A i \in DOMAIN current :
        /\ current[i] \in Range(Options[kind])
        /\ current[i] \notin selected
        /\ <<current[i], value>> \in Includes

\* The field changes by one option at a time and keeps the others in order: a
\* pick appends an option that was offered, a removal takes one name out
\* completely, and no name is ever added twice.
SelectionChangesByOne ==
    [][hidden' # hidden =>
          \/ \E o \in Range(buttons) : o \notin Range(hidden) /\ hidden' = Append(hidden, o)
          \/ \E o \in Range(hidden) : /\ o \notin Range(hidden')
                                      /\ hidden' = SelectSeq(hidden, LAMBDA n : n # o)]_vars
=============================================================================
