-------------------------- MODULE MCMacosBuildLock --------------------------
EXTENDS MacosBuildLock, TLC

CONSTANTS t09, t12, t13

\* The lanes are interchangeable (for the runs without a temporal property).
LaneSymmetry == Permutations(Lanes)
=============================================================================
