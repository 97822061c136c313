---------------------------- MODULE MCFatVolume ----------------------------
EXTENDS FatVolume, TLC

Symmetric == Permutations(Names)
============================================================================
