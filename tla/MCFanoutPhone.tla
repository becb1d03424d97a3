--------------------------- MODULE MCFanoutPhone ---------------------------
EXTENDS FanoutPhone, TLC
ViewerSymmetry == Permutations(Viewers)
=============================================================================
