--------------------------- MODULE FolderLockProps ---------------------------
(***************************************************************************)
(* The properties of the list of locked objects and what the driver is     *)
(* told of it.                                                             *)
(***************************************************************************)
EXTENDS FolderLock

FolderLockTypeOK ==
    /\ store \in Store
    /\ told \in [Key -> SUBSET Value]
    /\ call \in [Client -> Call]
    /\ writing \in Client \cup {Nobody}
    /\ {raced, current} \subseteq BOOLEAN

(* "flocks list also was updated in driver": what the driver has accepted  *)
(* since it last was cleared is the policy of each object of the list and  *)
(* nothing else, when the last transfer met no other one and no refusal    *)
(* and sent the list as it is now.  Earlier and broken transfers, failed   *)
(* writes, loads that race with them and restarts leave nothing behind     *)
(* that such a transfer does not clear.  An empty list is never sent:      *)
(* removing the last object leaves its rule with the driver.               *)
DriverWasToldTheList ==
    current /\ store.list # Nothing =>
        \A k \in Key : told[k] = Only(Policies(store.list)[k])
=============================================================================
