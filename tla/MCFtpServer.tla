------------------------------ MODULE MCFtpServer ------------------------------
(* Small instances of FtpServer.                                           *)
EXTENDS FtpServer, TLC

MCOwners == Tasks \cup {Server}

\* The network processor may return any free descriptor.
MCSymmetry == Permutations(Desc)
=============================================================================
