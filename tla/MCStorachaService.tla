-------------------------- MODULE MCStorachaService --------------------------
EXTENDS StorachaService, TLC

CONSTANTS r1, r2, r3, p1, p2, w1, w2, proof1, proof2, malformed, space1, space2

\* One proof per space, and one value that is not a proof.
MCDidOf ==
    LET all == (proof1 :> space1) @@ (proof2 :> space2) @@ (malformed :> None)
    IN  [p \in Proofs |-> all[p]]

\* Requests, processes and wallets are interchangeable, and so are the two
\* good proofs when their spaces are exchanged with them.
SwapProofs == (proof1 :> proof2) @@ (proof2 :> proof1) @@ (space1 :> space2) @@ (space2 :> space1)

Symmetry ==
    Permutations(Requests) \cup Permutations(Processes) \cup Permutations(Wallets) \cup {SwapProofs}
=============================================================================
