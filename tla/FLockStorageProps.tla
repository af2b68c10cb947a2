------------------------- MODULE FLockStorageProps --------------------------
(***************************************************************************)
(* The properties of the rule storage.                                     *)
(***************************************************************************)
EXTENDS FLockStorage

(* The filters skip the storage when a gate is FALSE, without its lock: a  *)
(* gate is never FALSE while a rule a lookup can find asks for locking or  *)
(* hiding (FLockStorageUpdateInternalInfo after every change).             *)
GateNeverMisses ==
    \A id \in Id \cup {NoId} :
        /\ FLockStorageVerifyFlag(id, "lock") => hasUserObjectsToLock
        /\ FLockStorageVerifyFlag(id, "hide") => hasUserObjectsToHide

(* The scans read arrayLength slots without a look at arrayMaxLength: an   *)
(* array always has a slot to spare, whatever import or growth sized it.   *)
SpareSlot ==
    IF arrayMaxLength = 0 THEN arrayLength = 0 ELSE arrayLength < arrayMaxLength

(* Once an array was imported, only an import that finds no memory (and a  *)
(* power cut) takes it away or below the base size: no order of imports    *)
(* and growths lets an ADD double a length of zero again.                  *)
ArrayStays ==
    [][arrayMaxLength > 0 =>
          \/ arrayMaxLength' >= BaseSize
          \/ FLockStorageImport(FALSE)
          \/ PowerCut]_vars

(* Taking a rule away never makes another identifier visible: what is live *)
(* after FLockStorageRemove was live before, though the wrong slot goes.   *)
RemoveRevealsNothing ==
    [][\A id \in Id : FLockStorageRemove(id) =>
          \A other \in Id \cup {NoId} :
              FLockStorageIsPresent(other)' => FLockStorageIsPresent(other)]_vars

(* "Success! Flock was added in kernel data base.": the identifier of an   *)
(* add that returned TRUE is found by the next lookup.                     *)
AddedIsFound ==
    [][\A id \in Id, flags \in Policy :
          FLockStorageAdd(id, flags) /\ arrayLength' # arrayLength =>
              FLockStorageIsPresent(id)']_vars

(* "success - one flock was removed": the identifier of a remove that      *)
(* returned TRUE is found no more.                                         *)
RemovedIsGone ==
    [][\A id \in Id :
          FLockStorageRemove(id) /\ arrayLength' # arrayLength =>
              ~FLockStorageIsPresent(id)']_vars
=============================================================================
