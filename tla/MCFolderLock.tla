---------------------------- MODULE MCFolderLock -----------------------------
(***************************************************************************)
(* Two clients for TLC.                                                    *)
(***************************************************************************)
EXTENDS FolderLockProps, TLC

CONSTANTS c1, c2, lock, hide

Interchangeable == Permutations({c1, c2}) \cup Permutations({lock, hide})
=============================================================================
