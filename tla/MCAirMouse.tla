------------------------------ MODULE MCAirMouse ------------------------------
(* Small instances of AirMouse.                                            *)
EXTENDS AirMouse, TLC

MCSymmetry == Permutations(Desc)
=============================================================================
