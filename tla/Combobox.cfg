SPECIFICATION Spec
CONSTANTS
    a = a
    b = b
    c = c
    d = d
    q = q
    k1 = k1
    k2 = k2
    Blank = Blank
    Kinds = {k1, k2}
    Texts = {a, b, c, d, q, Blank}
    Options <- MCOptions
    Includes <- MCIncludes
    Initial <- MCInitial
    MaxShown = 2
INVARIANTS
    ScreenMatchesState
    OffersAreValid
PROPERTIES
    SelectionChangesByOne
