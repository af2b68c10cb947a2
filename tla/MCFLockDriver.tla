--------------------------- MODULE MCFLockDriver ----------------------------
(***************************************************************************)
(* One rule and two clients for TLC.                                       *)
(***************************************************************************)
EXTENDS FLockDriverProps

CONSTANTS a, c1, c2

OpenOrLocked == SUBSET {"lock"}
Nowhere == {}
NothingFails == {}
OpenFails == {"open"}

StoredRule ==
    [file |-> "signed", length |-> 1,
     data |-> [i \in Cells |-> [id |-> a, flags |-> {"lock"}]]]

(* The power went while the first section was made. *)
Unsigned == [FreshDisk EXCEPT !.file = "unsigned"]

AnyFile == {FreshDisk, StoredRule, Unsigned}
OnlyStored == {StoredRule}
=============================================================================
