------------------------- MODULE MCStorageMigration -------------------------
(* Small instances of StorageMigration for TLC. *)
EXTENDS StorageMigration

CONSTANTS da, db, dc, f1, f2

MCPlace == CHOOSE p \in [Files -> Inodes] : IsInjective(p)
=============================================================================
