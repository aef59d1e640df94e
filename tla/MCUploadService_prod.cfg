\* Production: a copy of every payload goes to the bucket.
CONSTANTS
    r1 = r1
    r2 = r2
    r3 = r3
    p1 = p1
    p2 = p2
    w1 = w1
    w2 = w2
    space1 = space1
    space2 = space2
    cid1 = cid1
    cid2 = cid2
    zip = zip
    Nobody = Nobody
    Requests = {r1, r2, r3}
    Processes = {p1, p2}
    Wallets = {w1}
    Spaces = {space1, space2}
    Cids = {cid1, cid2}
    Exts = {zip}
    NoExt = NoExt
    Cid <- MCCid
    NameExt <- MCNameExt
    MimeExt <- MCMimeExt
    BackupEnv = "true"
SPECIFICATION Spec
SYMMETRY Symmetry
INVARIANTS
    TypeOK
    AckedIsKept
    BackupsAreStored
    TurnedDownLeavesNothing
    TempSwept
\* The requests are finitely many: when all are answered the service is idle.
CHECK_DEADLOCK FALSE
