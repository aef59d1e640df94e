------------------------------ MODULE MCBridge ------------------------------
EXTENDS Bridge, TLC

CONSTANTS r1, r2, p1, p2, w1, proof1, malformed, space1, cid1, png

MCDidOf ==
    LET all == (proof1 :> space1) @@ (malformed :> Nobody)
    IN  [p \in Proofs |-> all[p]]

\* The contents of both requests are equal.
MCCid == [r \in Requests |-> cid1]
MCExt == [r \in Requests |-> png]
=============================================================================
