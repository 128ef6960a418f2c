---- MODULE MCCancelResolution ----
EXTENDS CancelResolution, TLC

Symmetry == Permutations(Workers)
====
