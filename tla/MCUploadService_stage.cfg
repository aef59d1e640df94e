\* Not production: template.yml gives BACKUP_TO_IPFS_NODE the value "false".
CONSTANTS
    r1 = r1
    r2 = r2
    r3 = r3
    p1 = p1
    p2 = p2
    w1 = w1
    w2 = w2
    space1 = space1
    space2 = space2
    cid1 = cid1
    cid2 = cid2
    zip = zip
    Nobody = Nobody
    Requests = {r1}
    Processes = {p1}
    Wallets = {w1, w2}
    Spaces = {space1, space2}
    Cids = {cid1, cid2}
    Exts = {zip}
    NoExt = NoExt
    Cid <- MCCid
    NameExt <- MCNameExt
    MimeExt <- MCMimeExt
    BackupEnv = "false"
SPECIFICATION Spec
SYMMETRY Symmetry
INVARIANTS
    NoBackupWhenFalse
\* The requests are finitely many: when all are answered the service is idle.
CHECK_DEADLOCK FALSE
