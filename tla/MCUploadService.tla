--------------------------- MODULE MCUploadService ---------------------------
EXTENDS UploadService, TLC

CONSTANTS r1, r2, r3, p1, p2, w1, w2, space1, space2, cid1, cid2, zip

\* The second request tries again with the contents of the first, in a file
\* whose name has lost its extension; the third sends an image of a type
\* that has none.
Payload == (r1 :> cid1) @@ (r2 :> cid1) @@ (r3 :> cid2)
Named   == (r1 :> zip) @@ (r2 :> NoExt) @@ (r3 :> NoExt)
Typed   == (r1 :> zip) @@ (r2 :> zip) @@ (r3 :> NoExt)

MCCid     == [r \in Requests |-> Payload[r]]
MCNameExt == [r \in Requests |-> Named[r]]
MCMimeExt == [r \in Requests |-> Typed[r]]

\* The first two requests have one key, and nothing else tells them apart.
Symmetry ==
    Permutations(Requests \cap {r1, r2}) \cup Permutations(Processes)
        \cup Permutations(Wallets) \cup Permutations(Spaces)
=============================================================================
