\* Three hooks at once, two environments.
CONSTANTS
    h1 = h1
    h2 = h2
    h3 = h3
    p1 = p1
    p2 = p2
    Hooks = {h1, h2, h3}
    Processes = {p1, p2}
    Latest = 2
SPECIFICATION Spec
SYMMETRY Symmetry
INVARIANTS
    TypeOK
    ToldTheTruth
    ServedWhenReady
\* The hooks are finitely many, and all of them may fail.
CHECK_DEADLOCK FALSE
