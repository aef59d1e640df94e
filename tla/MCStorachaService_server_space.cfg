\* The local server: a call's space is selected in a client others share.
CONSTANTS
    r1 = r1
    r2 = r2
    r3 = r3
    p1 = p1
    p2 = p2
    w1 = w1
    w2 = w2
    proof1 = proof1
    proof2 = proof2
    malformed = malformed
    space1 = space1
    space2 = space2
    None = None
    Requests = {r1, r2}
    Processes = {p1}
    Wallets = {w1, w2}
    Proofs = {proof1, proof2}
    Spaces = {space1, space2}
    DidOf <- MCDidOf
    Lambda = FALSE
    ProofsRotate = FALSE
SPECIFICATION Spec
SYMMETRY Symmetry
INVARIANTS
    UploadsInOwnSpace
\* The requests are finitely many: when all are answered the service is idle.
CHECK_DEADLOCK FALSE
