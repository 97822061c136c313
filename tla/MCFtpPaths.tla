----------------------------- MODULE MCFtpPaths -----------------------------
(* A small volume for FtpPaths.                                            *)
EXTENDS FtpPaths

MCUp(c) == IF c = "a" THEN "A" ELSE c
=============================================================================
