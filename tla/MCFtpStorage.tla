----------------------------- MODULE MCFtpStorage -----------------------------
EXTENDS FtpStorage, TLC

MCSymmetry == Permutations(Names) \cup Permutations(Clusters)
=============================================================================
