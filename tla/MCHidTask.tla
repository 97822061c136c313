------------------------------- MODULE MCHidTask -------------------------------
(* Small instances of HidTask.                                             *)
EXTENDS HidTask, TLC

MCOwners == {Hid}

MCSymmetry == Permutations(Desc)
=============================================================================
