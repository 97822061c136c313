------------------------------- MODULE MCDiskIo -------------------------------
(* Small instances of DiskIo.                                              *)
EXTENDS DiskIo, TLC

\* One card of each kind that is addressed in its own way, and one that the
\* controller does not support.
MCKind == [c \in Cards |-> CASE c = "A" -> "sdhc" [] c = "B" -> "sdsc" [] OTHER -> "mmc"]
=============================================================================
