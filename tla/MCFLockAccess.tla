---------------------------- MODULE MCFLockAccess ----------------------------
(***************************************************************************)
(* Two processes and two files for TLC.                                    *)
(***************************************************************************)
EXTENDS FLockAccessProps, TLC

Interchangeable == Permutations(Process) \cup Permutations(File)
=============================================================================
