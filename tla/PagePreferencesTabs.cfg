SPECIFICATION Spec
CONSTANTS
    t1 = t1
    t2 = t2
    s1 = s1
    s2 = s2
    r1 = r1
    r2 = r2
    r3 = r3
    Tabs = {t1, t2}
    Stacks = {s1, s2}
    Inherited = {s2}
    Rows = {r1, r2, r3}
    StackOf <- MCStackOf
    Rendered <- MCRendered
    Unparsable = Unparsable
    MaxClicks = 4
PROPERTY CollapseIsPersisted
