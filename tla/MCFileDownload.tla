--------------------------- MODULE MCFileDownload ---------------------------
(* A small instance of FileDownload for TLC: one file, a tar archive. *)
EXTENDS FileDownload

CONSTANTS p1, f1

MCProjectOf == [f \in Files |-> p1]
MCKind      == [f \in Files |-> "targz"]
=============================================================================
