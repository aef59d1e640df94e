\* Two requests with equal contents, in one environment or in two.
CONSTANTS
    r1 = r1
    r2 = r2
    p1 = p1
    p2 = p2
    w1 = w1
    proof1 = proof1
    malformed = malformed
    space1 = space1
    cid1 = cid1
    png = png
    Nobody = Nobody
    NoExt = NoExt
    Requests = {r1, r2}
    Processes = {p1, p2}
    Wallets = {w1}
    Proofs = {proof1, malformed}
    Spaces = {space1}
    DidOf <- MCDidOf
    Cids = {cid1}
    Exts = {png}
    Cid <- MCCid
    NameExt <- MCExt
    MimeExt <- MCExt
    BackupEnv = "true"
    ProofsRotate = FALSE
SPECIFICATION FairSpec
INVARIANTS
    AcksHold
PROPERTIES
    ImplementsUploadService
    NothingIsRetried
    EveryRequestIsAnswered
\* The requests are finitely many: when all are answered the service is idle.
CHECK_DEADLOCK FALSE
