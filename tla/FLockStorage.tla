---------------------------- MODULE FLockStorage ----------------------------
(***************************************************************************)
(* The FLock driver's rule storage (FLockStorage.c): the array of rules in *)
(* non-paged memory, the two gate flags the I/O filters read without a     *)
(* lock, and the storage file the array is exported to through a map.      *)
(*                                                                         *)
(* An action is one critical section under lockRules; FLockDriver composes *)
(* them into the threads and handlers that call them.  An ADD or a REMOVE  *)
(* returned TRUE when it changed arrayLength.  Array sizes are the code's  *)
(* formulas over scaled-down constants.  Of the map only "mapped or not"   *)
(* is kept: a view has two pages at the first load and 10 MB later, which  *)
(* the model's few rules always fit (no FLockStorageIncreaseMap), and an   *)
(* unmapped file (mapSize 0) can not be increased.                         *)
(***************************************************************************)
EXTENDS Integers, FiniteSets

CONSTANTS
    Id,         \* flock identifiers, FLOCK_ID
    NoId,       \* the identifier of a slot that never held a rule
    Policy,     \* the flag sets a request may carry
    BaseSize,   \* STORAGE_BASE_ARRAY_SIZE
    EntrySize,  \* sizeof(FLOCK_STORAGE_ENTRY)
    Junk,       \* what a slot of a fresh pool block may read as
    MaxLength,  \* bound of the model: no array of more rules
    MayFail     \* which calls may fail: subset of {"open", "load", "alloc"}

Flag == {"lock", "hide"}

Slot == [id : Id \cup {NoId}, flags : Policy \cup {{}}]

Blank == [id |-> NoId, flags |-> {}]

ASSUME StorageAssumption ==
    /\ NoId \notin Id
    /\ Policy \subseteq SUBSET Flag
    /\ Junk \subseteq Slot
    /\ BaseSize \in Nat \ {0, 1}
    /\ EntrySize \in Nat \ {0}
    /\ MaxLength \in Nat
    /\ MayFail \subseteq {"open", "load", "alloc"}

VARIABLES
    flockArray,             \* the slots; no slot at all when it is NULL
    arrayLength,
    arrayMaxLength,
    hasUserObjectsToLock,
    hasUserObjectsToHide,
    disk,                   \* the storage file
    opened,                 \* hFile # 0
    mapped,                 \* pMappedData # NULL
    fault                   \* why the machine stopped, or "none"

arrayVars == <<flockArray, arrayLength, arrayMaxLength>>
gates     == <<hasUserObjectsToLock, hasUserObjectsToHide>>
fileVars  == <<disk, opened, mapped>>
vars      == <<arrayVars, gates, fileVars, fault>>

Cells == 0..(MaxLength - 1)

TypeOK ==
    /\ arrayMaxLength \in Nat
    /\ arrayLength \in 0..MaxLength
    /\ flockArray \in [0..(arrayMaxLength - 1) -> Slot]
    /\ hasUserObjectsToLock \in BOOLEAN
    /\ hasUserObjectsToHide \in BOOLEAN
    /\ disk \in [file   : {"empty", "unsigned", "signed"},
                 length : 0..MaxLength,
                 data   : [Cells -> Slot]]
    /\ opened \in BOOLEAN
    /\ mapped \in BOOLEAN
    /\ fault \in {"none", "pool", "context", "unloaded"}

-----------------------------------------------------------------------------
(* The slots the routines look at, and what they find there.               *)

Live == 0..(arrayLength - 1)

(* FLockStorageLookupInArray stops at the first slot with the identifier. *)
FoundAt(id, i) ==
    /\ i \in Live
    /\ flockArray[i].id = id
    /\ \A j \in 0..(i - 1) : flockArray[j].id # id

FLockStorageIsPresent(id) == \E i \in Live : flockArray[i].id = id

FLockStorageVerifyFlag(id, flag) ==
    \E i \in Live : FoundAt(id, i) /\ flag \in flockArray[i].flags

AnyWith(t, n, flag) == \E i \in 0..(n - 1) : flag \in t[i].flags

(* Recompute the gates from the new array. *)
FLockStorageUpdateInternalInfo ==
    /\ hasUserObjectsToLock' = AnyWith(flockArray', arrayLength', "lock")
    /\ hasUserObjectsToHide' = AnyWith(flockArray', arrayLength', "hide")

-----------------------------------------------------------------------------
(* Rules.                                                                  *)

AddPresent(id) ==
    /\ FLockStorageIsPresent(id)
    /\ UNCHANGED <<arrayVars, gates, fileVars, fault>>

(* Seeded defect: off by one. *)
MustGrowLate == arrayLength + 1 > arrayMaxLength

MustGrow == arrayLength + 1 >= arrayMaxLength

AddAllocFails(id) ==
    /\ ~FLockStorageIsPresent(id)
    /\ MustGrow
    /\ "alloc" \in MayFail
    /\ UNCHANGED <<arrayVars, gates, fileVars, fault>>

(* No array was imported yet: twice no slot is no slot, and ExFreePool     *)
(* gets the NULL array.                                                    *)
AddNoArray(id) ==
    /\ ~FLockStorageIsPresent(id)
    /\ arrayMaxLength = 0
    /\ fault' = "pool"
    /\ UNCHANGED <<arrayVars, gates, fileVars>>

(* The slot the new entry is copied to: the pointer is already typed, and  *)
(* the code multiplies the length by the size of an entry once more.       *)
NewEntrySlot == arrayLength * EntrySize

(* Store the entry in array t.  Beyond its end the write lands in a pool   *)
(* block of someone else, at once fatal or not noticed.                    *)
StoreNew(t, id, flags) ==
    /\ arrayLength < MaxLength
    /\ \/ /\ NewEntrySlot \in DOMAIN t
          /\ flockArray' = [t EXCEPT ![NewEntrySlot] = [id |-> id, flags |-> flags]]
          /\ UNCHANGED fault
       \/ /\ NewEntrySlot \notin DOMAIN t
          /\ flockArray' = t
          /\ fault' \in {fault, "pool"}
    /\ arrayLength' = arrayLength + 1
    /\ FLockStorageUpdateInternalInfo
    /\ UNCHANGED fileVars

(* Seeded defect: trust the look the dispatcher had before. *)
AddInPlaceUnchecked(id, flags) ==
    /\ ~MustGrow
    /\ StoreNew(flockArray, id, flags)
    /\ UNCHANGED arrayMaxLength

AddInPlace(id, flags) ==
    /\ ~FLockStorageIsPresent(id)
    /\ ~MustGrow
    /\ StoreNew(flockArray, id, flags)
    /\ UNCHANGED arrayMaxLength

(* Seeded defect: the new size is not kept. *)
AddGrowForgotten(id, flags) ==
    /\ ~FLockStorageIsPresent(id)
    /\ MustGrow
    /\ arrayMaxLength > 0
    /\ StoreNew([i \in 0..(2 * arrayMaxLength - 1) |->
                    IF i \in Live THEN flockArray[i] ELSE Blank], id, flags)
    /\ UNCHANGED arrayMaxLength

(* The slots after the copied ones keep what the pool block held before. *)
AddGrow(id, flags) ==
    /\ ~FLockStorageIsPresent(id)
    /\ MustGrow
    /\ arrayMaxLength > 0
    /\ \E junk \in Junk :
          StoreNew([i \in 0..(2 * arrayMaxLength - 1) |->
                        IF i \in Live THEN flockArray[i] ELSE junk],
                   id, flags)
    /\ arrayMaxLength' = 2 * arrayMaxLength

FLockStorageAdd(id, flags) ==
    \/ AddPresent(id)
    \/ AddAllocFails(id)
    \/ AddNoArray(id)
    \/ AddInPlace(id, flags)
    \/ AddGrow(id, flags)

(* Seeded defect: the slot after the tail moves to the front. *)
RemoveFoundPastTail(id) ==
    /\ FLockStorageIsPresent(id)
    /\ flockArray' = [flockArray EXCEPT ![0] = flockArray[arrayLength]]
    /\ arrayLength' = arrayLength - 1
    /\ FLockStorageUpdateInternalInfo
    /\ UNCHANGED <<arrayMaxLength, fileVars, fault>>

(* The inner "removingPos" hides the position found: the tail goes to the  *)
(* first slot whatever the identifier.                                     *)
RemoveFound(id) ==
    /\ FLockStorageIsPresent(id)
    /\ flockArray' = [flockArray EXCEPT ![0] = flockArray[arrayLength - 1]]
    /\ arrayLength' = arrayLength - 1
    /\ FLockStorageUpdateInternalInfo
    /\ UNCHANGED <<arrayMaxLength, fileVars, fault>>

RemoveAbsent(id) ==
    /\ ~FLockStorageIsPresent(id)
    /\ UNCHANGED <<arrayVars, fileVars, fault>>
    /\ FLockStorageUpdateInternalInfo

FLockStorageRemove(id) == RemoveFound(id) \/ RemoveAbsent(id)

(* Seeded defect: the gates are left alone. *)
UpdateFlagsOnly(id, flags) ==
    /\ flockArray' = [i \in DOMAIN flockArray |->
                        IF FoundAt(id, i)
                        THEN [flockArray[i] EXCEPT !.flags = flags]
                        ELSE flockArray[i]]
    /\ UNCHANGED <<arrayLength, arrayMaxLength, gates, fileVars, fault>>

FLockStorageUpdateFlags(id, flags) ==
    /\ flockArray' = [i \in DOMAIN flockArray |->
                        IF FoundAt(id, i)
                        THEN [flockArray[i] EXCEPT !.flags = flags]
                        ELSE flockArray[i]]
    /\ UNCHANGED <<arrayLength, arrayMaxLength, fileVars, fault>>
    /\ FLockStorageUpdateInternalInfo

(* The first critical section of FLockStorageClearInMemory; the second one *)
(* is FLockStorageExportOnDisk.                                            *)
ClearArray ==
    /\ flockArray' = [i \in DOMAIN flockArray |->
                        IF i \in Live THEN Blank ELSE flockArray[i]]
    /\ arrayLength' = 0
    /\ FLockStorageUpdateInternalInfo
    /\ UNCHANGED <<arrayMaxLength, fileVars, fault>>

-----------------------------------------------------------------------------
(* The storage file.                                                       *)

(* Seeded defects: no more than the slot to spare is allocated; the length *)
(* of the file taken for the size of the array.                            *)
ImportTight(alloc) ==
    /\ mapped /\ disk.file = "signed" /\ alloc
    /\ arrayMaxLength' = disk.length + 1
    /\ arrayLength' = disk.length
    /\ flockArray' = [i \in 0..disk.length |->
                         IF i \in Cells THEN disk.data[i] ELSE Blank]
    /\ FLockStorageUpdateInternalInfo
    /\ UNCHANGED <<fileVars, fault>>

ImportUndersized(alloc) ==
    /\ mapped /\ disk.file = "signed" /\ alloc
    /\ arrayMaxLength' = disk.length
    /\ arrayLength' = disk.length
    /\ flockArray' = [i \in 0..(BaseSize - 1) |->
                         IF i \in Cells THEN disk.data[i] ELSE Blank]
    /\ FLockStorageUpdateInternalInfo
    /\ UNCHANGED <<fileVars, fault>>

FLockStorageImport(alloc) ==
    LET usable == mapped /\ disk.file = "signed"
        size   == IF disk.length < BaseSize THEN BaseSize ELSE 2 * disk.length
    IN  /\ \/ /\ usable
              /\ alloc
              /\ arrayMaxLength' = size
              /\ arrayLength' = disk.length
              /\ flockArray' = [i \in 0..(size - 1) |->
                                   IF i \in Cells THEN disk.data[i] ELSE Blank]
              /\ FLockStorageUpdateInternalInfo
           \/ /\ usable
              /\ ~alloc         \* the old array is gone, the gates stay
              /\ "alloc" \in MayFail
              /\ arrayMaxLength' = 0
              /\ arrayLength' = 0
              /\ flockArray' = [i \in 0..(-1) |-> Blank]
              /\ UNCHANGED gates
           \/ /\ ~usable
              /\ UNCHANGED <<arrayVars, gates>>
        /\ UNCHANGED <<fileVars, fault>>

Exported ==
    [file   |-> "signed",
     length |-> arrayLength,
     data   |-> [i \in Cells |->
                    IF i \in Live THEN flockArray[i] ELSE disk.data[i]]]

(* Seeded defect: an empty array writes nothing, not even the header. *)
ExportIfAny(inSystem) ==
    /\ disk' = IF mapped /\ inSystem /\ arrayLength > 0 THEN Exported ELSE disk
    /\ UNCHANGED <<arrayVars, gates, opened, mapped, fault>>

(* Seeded defect: the copy ends a slot early. *)
ExportShort(inSystem) ==
    /\ disk' = IF mapped /\ inSystem
               THEN [Exported EXCEPT !.data = [i \in Cells |->
                        IF i < arrayLength - 1 THEN flockArray[i] ELSE disk.data[i]]]
               ELSE disk
    /\ UNCHANGED <<arrayVars, gates, opened, mapped, fault>>

(* The map is a view in the System process: in another process the write   *)
(* goes to an address that is not mapped there, which stops the machine,   *)
(* or unnoticed to whatever that process has there.                        *)
FLockStorageExportOnDisk(inSystem) ==
    /\ \/ /\ mapped /\ inSystem
          /\ disk' = Exported
          /\ UNCHANGED fault
       \/ /\ mapped /\ ~inSystem
          /\ fault' \in {fault, "context"}
          /\ UNCHANGED disk
       \/ /\ ~mapped
          /\ UNCHANGED <<disk, fault>>
    /\ UNCHANGED <<arrayVars, gates, opened, mapped>>

FLockStorageOpenFile(ok) ==
    /\ ok \/ "open" \in MayFail
    /\ opened' = (opened \/ ok)
    /\ UNCHANGED <<arrayVars, gates, disk, mapped, fault>>

(* An empty file is extended by the section and then signed.  When only    *)
(* the view can not be made, the file is left extended, without signature, *)
(* and the map of another thread is forgotten.                             *)
FLockStorageLoadMap(ok) ==
    /\ \/ /\ opened /\ ok
          /\ mapped' = TRUE
          /\ disk' = IF disk.file = "empty"
                     THEN [disk EXCEPT !.file = "signed", !.length = 0]
                     ELSE disk
       \/ /\ opened /\ ~ok
          /\ "load" \in MayFail
          /\ mapped' = FALSE
          /\ disk' = IF disk.file = "empty"
                     THEN [disk EXCEPT !.file = "unsigned"]
                     ELSE disk
       \/ /\ ~opened \/ ~ok   \* no file, no information about it, no section
          /\ ok \/ "load" \in MayFail
          /\ UNCHANGED <<mapped, disk>>
    /\ UNCHANGED <<arrayVars, gates, opened, fault>>

FLockStorageUnloadMap ==
    /\ mapped' = FALSE
    /\ UNCHANGED <<arrayVars, gates, disk, opened, fault>>

FLockStorageCloseFile ==
    /\ opened' = FALSE
    /\ UNCHANGED <<arrayVars, gates, disk, mapped, fault>>

-----------------------------------------------------------------------------
(* FLockStorageInit: everything in memory is zero. *)
InitMemory ==
    /\ flockArray = [i \in 0..(-1) |-> Blank]
    /\ arrayLength = 0
    /\ arrayMaxLength = 0
    /\ hasUserObjectsToLock = FALSE
    /\ hasUserObjectsToHide = FALSE
    /\ opened = FALSE
    /\ mapped = FALSE
    /\ fault = "none"

FreshDisk == [file |-> "empty", length |-> 0, data |-> [i \in Cells |-> Blank]]

Init == InitMemory /\ disk = FreshDisk

(* What the file may hold after the power went: all that was written, a    *)
(* section's zeros without the signature of the first load, or the header  *)
(* of an export without its array.                                         *)
DiskAfterPowerCut ==
    {disk}
    \cup {d \in {[disk EXCEPT !.file = "unsigned"]} :
             opened /\ disk.file = "empty"}
    \cup {d \in {[disk EXCEPT !.length = arrayLength]} :
             mapped /\ disk.file = "signed"}

PowerCut ==
    /\ disk' \in DiskAfterPowerCut
    /\ flockArray' = [i \in 0..(-1) |-> Blank]
    /\ arrayLength' = 0
    /\ arrayMaxLength' = 0
    /\ hasUserObjectsToLock' = FALSE
    /\ hasUserObjectsToHide' = FALSE
    /\ opened' = FALSE
    /\ mapped' = FALSE
    /\ fault' = "none"

ChangeRules ==
    /\ fault = "none"
    /\ \/ \E id \in Id, flags \in Policy : FLockStorageAdd(id, flags)
       \/ \E id \in Id : FLockStorageRemove(id)
       \/ \E id \in Id, flags \in Policy : FLockStorageUpdateFlags(id, flags)
       \/ ClearArray

(* Calls of the threads in the System process, and the export CLEAR_ALL    *)
(* makes in the process of its client.                                     *)
UseFile ==
    /\ fault = "none"
    /\ \/ \E ok \in BOOLEAN : \/ FLockStorageOpenFile(ok)
                              \/ FLockStorageLoadMap(ok)
                              \/ FLockStorageImport(ok)
       \/ \E inSystem \in BOOLEAN : FLockStorageExportOnDisk(inSystem)
       \/ FLockStorageUnloadMap
       \/ FLockStorageCloseFile

Next == ChangeRules \/ UseFile \/ PowerCut

Spec == Init /\ [][Next]_vars
=============================================================================
