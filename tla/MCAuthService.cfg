\* Two calls in a process that lives through changes of the chain.
CONSTANTS
    r1 = r1
    r2 = r2
    p1 = p1
    w1 = w1
    wl1 = wl1
    wl2 = wl2
    Zero = Zero
    None = None
    Requests = {r1, r2}
    Processes = {p1}
    Wallets = {w1}
    Whitelists = {wl1, wl2}
SPECIFICATION Spec
SYMMETRY Symmetry
INVARIANTS
    TypeOK
    HandledWasListed
    ListedIsNotTurnedAway
\* The requests are finitely many.
CHECK_DEADLOCK FALSE
