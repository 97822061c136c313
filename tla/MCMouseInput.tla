------------------------------ MODULE MCMouseInput ------------------------------
(* Small instances of MouseInput.                                          *)
EXTENDS MouseInput, TLC

MCSymmetry == Permutations(Buttons)
=============================================================================
