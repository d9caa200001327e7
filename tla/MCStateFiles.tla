---------------------------- MODULE MCStateFiles ----------------------------
EXTENDS StateFiles, TLC

MCSymmetry == Permutations(Proc)
=============================================================================
