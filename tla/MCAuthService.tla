---------------------------- MODULE MCAuthService ----------------------------
EXTENDS AuthService, TLC

CONSTANTS r1, r2, p1, w1, wl1, wl2

Symmetry ==
    Permutations(Requests) \cup Permutations(Processes)
        \cup Permutations(Wallets) \cup Permutations(Whitelists)
=============================================================================
