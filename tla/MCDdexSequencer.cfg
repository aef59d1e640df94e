\* Two accounts that share the roles and the ownership, three blobs, one list
\* that either id, both or none is given, and an upgrade.
CONSTANTS
    a1 = a1
    a2 = a2
    wl1 = wl1
    i1 = i1
    i2 = i2
    e1 = e1
    b1 = b1
    b2 = b2
    b3 = b3
    Zero = Zero
    Accounts = {a1, a2}
    Lists = {wl1}
    Implementations = {i1, i2}
    Emitters = {e1}
    Hashes = {b1, b2, b3}
SPECIFICATION Spec
SYMMETRY Symmetry
INVARIANTS
    TypeOK
    QueueIsLinked
PROPERTIES
    ImplementsBlobQueue
    WhitelistsStayNamed
    OwnerlessIsFixed
    RolesAreHandedOn
