--------------------------- MODULE MCFLockStorage ---------------------------
(***************************************************************************)
(* Small storages for TLC.                                                 *)
(***************************************************************************)
EXTENDS FLockStorageProps, TLC

CONSTANTS a, b

NoneOrBoth == {{}, {"lock", "hide"}}
ZerosOrGarbage == {Blank, [id |-> NoId, flags |-> {"lock", "hide"}]}
AllFail == {"open", "load", "alloc"}
NothingFails == {}
Interchangeable == Permutations(Id)
=============================================================================
