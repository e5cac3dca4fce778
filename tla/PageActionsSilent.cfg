SPECIFICATION Spec
CONSTANTS
    t1 = t1
    t2 = t2
    app = app
    doupro = doupro
    media = media
    Tabs = {t1}
    Containers = {app, doupro}
    Self = doupro
    StackOf <- MCStackOf
    Ungrouped = Ungrouped
    Listable = {app}
    MaxClicks = 2
    MaxUpsets = 2
INVARIANT ReloadWaitsForOthers
PROPERTY ExcludedIsSkipped
