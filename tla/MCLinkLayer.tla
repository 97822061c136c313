------------------------------ MODULE MCLinkLayer ------------------------------
(* Small instances of LinkLayer.                                           *)
EXTENDS LinkLayer
=============================================================================
