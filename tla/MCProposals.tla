----------------------------- MODULE MCProposals -----------------------------
EXTENDS Proposals, TLC

UserSymmetry == Permutations(Users)
=============================================================================
