---------------------------- MODULE MCDeployment ----------------------------
EXTENDS Deployment, TLC

CONSTANTS h1, h2, h3, p1, p2

Symmetry == Permutations(Hooks) \cup Permutations(Processes)
=============================================================================
