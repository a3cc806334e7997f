------------------------- MODULE MCPresentation -------------------------
(* Presentation for TLC: tabs, and requests, are interchangeable.        *)
EXTENDS Presentation, TLC

TabSymmetry == Permutations(Tabs) \cup Permutations(Requests)
=============================================================================
