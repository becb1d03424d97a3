--------------------------- MODULE MCFanoutCloud ---------------------------
EXTENDS FanoutCloud, TLC
ViewerSymmetry == Permutations(Viewers)
=============================================================================
