------------------------- MODULE FLockStorageProofs -------------------------
(***************************************************************************)
(* Proofs about the rule storage, for any identifiers, sizes and calls     *)
(* that may fail.                                                          *)
(***************************************************************************)
EXTENDS FLockStorageProps, TLAPS

(* The gates as an invariant over slots: GateNeverMisses speaks of what a  *)
(* lookup finds, which is some live slot.                                  *)
GatesCover ==
    /\ AnyWith(flockArray, arrayLength, "lock") => hasUserObjectsToLock
    /\ AnyWith(flockArray, arrayLength, "hide") => hasUserObjectsToHide

(* The inductive invariant.  SpareSlot is part of it because the routines  *)
(* index the array by arrayLength - 1 without a look at arrayMaxLength.    *)
IInv == TypeOK /\ SpareSlot /\ GatesCover

(* Every routine that changes a slot recomputes the gates. *)
LEMMA GatesRecomputed ==
    ASSUME FLockStorageUpdateInternalInfo
    PROVE  /\ GatesCover'
           /\ hasUserObjectsToLock' \in BOOLEAN
           /\ hasUserObjectsToHide' \in BOOLEAN
BY DEF FLockStorageUpdateInternalInfo, GatesCover, AnyWith

(* A zeroed slot is a slot. *)
LEMMA BlankIsSlot == Blank \in Slot
BY DEF Blank, Slot

(* An array without slots covers any gates. *)
LEMMA NothingToCover ==
    ASSUME arrayLength' = 0
    PROVE  GatesCover'
BY DEF GatesCover, AnyWith

(* An add to an array t that already has the new size. *)
LEMMA StoreNewKeepsIInv ==
    ASSUME IInv,
           NEW t, NEW id \in Id, NEW flags \in Policy,
           arrayMaxLength' \in Nat,
           t \in [0..(arrayMaxLength' - 1) -> Slot],
           arrayLength + 1 < arrayMaxLength',
           StoreNew(t, id, flags)
    PROVE  IInv'
<1> USE StorageAssumption
<1>1. [id |-> id, flags |-> flags] \in Slot
  BY DEF Slot
<1>2. flockArray' \in [0..(arrayMaxLength' - 1) -> Slot]
  <2>1. CASE NewEntrySlot \in DOMAIN t
    BY <1>1, <2>1 DEF StoreNew
  <2>2. CASE NewEntrySlot \notin DOMAIN t
    BY <2>2 DEF StoreNew
  <2>q. QED BY <2>1, <2>2
<1>3. arrayLength' \in 0..MaxLength /\ arrayLength' = arrayLength + 1
  BY DEF StoreNew, IInv, TypeOK
<1>4. fault' \in {"none", "pool", "context", "unloaded"}
  BY DEF StoreNew, IInv, TypeOK
<1>5. SpareSlot'
  BY <1>3 DEF SpareSlot, IInv, TypeOK
<1>6. /\ GatesCover'
      /\ hasUserObjectsToLock' \in BOOLEAN
      /\ hasUserObjectsToHide' \in BOOLEAN
  BY GatesRecomputed DEF StoreNew
<1>7. TypeOK'
  BY <1>2, <1>3, <1>4, <1>6 DEF StoreNew, IInv, TypeOK, fileVars
<1>q. QED BY <1>5, <1>6, <1>7 DEF IInv

(* An add, with or without growth, keeps the invariant. *)
LEMMA AddKeepsIInv ==
    ASSUME IInv, NEW id \in Id, NEW flags \in Policy,
           FLockStorageAdd(id, flags)
    PROVE  IInv'
<1> USE StorageAssumption
<1>1. CASE AddPresent(id) \/ AddAllocFails(id)
  BY <1>1 DEF AddPresent, AddAllocFails, IInv, TypeOK, SpareSlot, GatesCover,
              AnyWith, arrayVars, gates, fileVars
<1>2. CASE AddNoArray(id)
  BY <1>2 DEF AddNoArray, IInv, TypeOK, SpareSlot, GatesCover,
              AnyWith, arrayVars, gates, fileVars
<1>3. CASE AddInPlace(id, flags)
  <2>1. arrayMaxLength' = arrayMaxLength /\ arrayLength + 1 < arrayMaxLength
    BY <1>3 DEF AddInPlace, MustGrow, IInv, TypeOK
  <2>2. flockArray \in [0..(arrayMaxLength' - 1) -> Slot]
    BY <2>1 DEF IInv, TypeOK
  <2>q. QED BY <1>3, <2>1, <2>2, StoreNewKeepsIInv DEF AddInPlace, IInv, TypeOK
<1>4. CASE AddGrow(id, flags)
  <2>1. /\ arrayMaxLength' = 2 * arrayMaxLength
        /\ arrayMaxLength \in Nat \ {0}
        /\ arrayLength < arrayMaxLength
        /\ arrayLength \in Nat
    BY <1>4 DEF AddGrow, IInv, TypeOK, SpareSlot
  <2>2. arrayMaxLength' \in Nat
    BY <2>1
  <2>3. PICK junk \in Junk :
           StoreNew([i \in 0..(2 * arrayMaxLength - 1) |->
                        IF i \in Live THEN flockArray[i] ELSE junk], id, flags)
    BY <1>4 DEF AddGrow
  <2> DEFINE t == [i \in 0..(2 * arrayMaxLength - 1) |->
                        IF i \in Live THEN flockArray[i] ELSE junk]
  <2>4. t \in [0..(arrayMaxLength' - 1) -> Slot]
    BY <2>1 DEF Live, IInv, TypeOK
  <2>5. arrayLength + 1 < arrayMaxLength'
    BY <2>1
  <2>6. StoreNew(t, id, flags)
    BY <2>3
  <2> HIDE DEF t
  <2>q. QED BY <2>2, <2>4, <2>5, <2>6, StoreNewKeepsIInv
<1>q. QED BY <1>1, <1>2, <1>3, <1>4 DEF FLockStorageAdd

(* So does a removal, though it takes the wrong slot. *)
LEMMA RemoveKeepsIInv ==
    ASSUME IInv, NEW id \in Id, FLockStorageRemove(id)
    PROVE  IInv'
<1> USE StorageAssumption
<1>1. CASE RemoveFound(id)
  <2>1. /\ arrayLength \in Nat \ {0}
        /\ arrayLength < arrayMaxLength
        /\ arrayLength' = arrayLength - 1
        /\ arrayMaxLength' = arrayMaxLength
    BY <1>1 DEF RemoveFound, FLockStorageIsPresent, Live, IInv, TypeOK, SpareSlot
  <2>2. flockArray' \in [0..(arrayMaxLength' - 1) -> Slot]
    BY <1>1, <2>1 DEF RemoveFound, IInv, TypeOK
  <2>3. /\ GatesCover'
        /\ hasUserObjectsToLock' \in BOOLEAN
        /\ hasUserObjectsToHide' \in BOOLEAN
    BY <1>1, GatesRecomputed DEF RemoveFound
  <2>4. TypeOK'
    BY <1>1, <2>1, <2>2, <2>3 DEF RemoveFound, IInv, TypeOK, fileVars
  <2>5. SpareSlot'
    BY <2>1 DEF SpareSlot, IInv, TypeOK
  <2>q. QED BY <2>3, <2>4, <2>5 DEF IInv
<1>2. CASE RemoveAbsent(id)
  <2>1. /\ GatesCover'
        /\ hasUserObjectsToLock' \in BOOLEAN
        /\ hasUserObjectsToHide' \in BOOLEAN
    BY <1>2, GatesRecomputed DEF RemoveAbsent
  <2>2. TypeOK'
    BY <1>2, <2>1 DEF RemoveAbsent, IInv, TypeOK, arrayVars, fileVars
  <2>3. SpareSlot'
    BY <1>2 DEF RemoveAbsent, IInv, SpareSlot, arrayVars
  <2>q. QED BY <2>1, <2>2, <2>3 DEF IInv
<1>q. QED BY <1>1, <1>2 DEF FLockStorageRemove

(* So does a change of flags. *)
LEMMA UpdateKeepsIInv ==
    ASSUME IInv, NEW id \in Id, NEW flags \in Policy \cup {{}},
           FLockStorageUpdateFlags(id, flags)
    PROVE  IInv'
<1>1. /\ arrayMaxLength' = arrayMaxLength
      /\ arrayLength' = arrayLength
  BY DEF FLockStorageUpdateFlags
<1>2. flockArray' \in [0..(arrayMaxLength' - 1) -> Slot]
  <2>1. \A i \in DOMAIN flockArray :
           [flockArray[i] EXCEPT !.flags = flags] \in Slot
    BY DEF IInv, TypeOK, Slot
  <2>q. QED BY <1>1, <2>1 DEF FLockStorageUpdateFlags, IInv, TypeOK
<1>3. /\ GatesCover'
      /\ hasUserObjectsToLock' \in BOOLEAN
      /\ hasUserObjectsToHide' \in BOOLEAN
  BY GatesRecomputed DEF FLockStorageUpdateFlags
<1>4. TypeOK'
  BY <1>1, <1>2, <1>3 DEF FLockStorageUpdateFlags, IInv, TypeOK, fileVars
<1>5. SpareSlot'
  BY <1>1 DEF IInv, SpareSlot
<1>q. QED BY <1>3, <1>4, <1>5 DEF IInv

(* So does the clearing of the array. *)
LEMMA ClearKeepsIInv ==
    ASSUME IInv, ClearArray
    PROVE  IInv'
<1>1. arrayMaxLength' = arrayMaxLength /\ arrayLength' = 0
  BY DEF ClearArray
<1>2. flockArray' \in [0..(arrayMaxLength' - 1) -> Slot]
  BY <1>1, BlankIsSlot DEF ClearArray, IInv, TypeOK
<1>3. /\ GatesCover'
      /\ hasUserObjectsToLock' \in BOOLEAN
      /\ hasUserObjectsToHide' \in BOOLEAN
  BY GatesRecomputed DEF ClearArray
<1>4. TypeOK'
  BY <1>1, <1>2, <1>3, StorageAssumption DEF ClearArray, IInv, TypeOK, fileVars
<1>5. SpareSlot'
  BY <1>1 DEF IInv, TypeOK, SpareSlot
<1>q. QED BY <1>3, <1>4, <1>5 DEF IInv

(* So does an import, of any length and without memory too. *)
LEMMA ImportKeepsIInv ==
    ASSUME IInv, NEW alloc \in BOOLEAN, FLockStorageImport(alloc)
    PROVE  IInv'
<1> USE StorageAssumption
<1> DEFINE size == IF disk.length < BaseSize THEN BaseSize ELSE 2 * disk.length
<1>1. size \in Nat /\ disk.length \in 0..MaxLength /\ disk.length < size
  BY DEF IInv, TypeOK
<1>2. UNCHANGED <<fileVars, fault>>
  BY DEF FLockStorageImport
<1>3. CASE /\ arrayMaxLength' = size
           /\ arrayLength' = disk.length
           /\ flockArray' = [i \in 0..(size - 1) |->
                                 IF i \in Cells THEN disk.data[i] ELSE Blank]
           /\ FLockStorageUpdateInternalInfo
  <2>1. disk.data \in [Cells -> Slot]
    BY DEF IInv, TypeOK
  <2> HIDE DEF size
  <2>2. flockArray' \in [0..(arrayMaxLength' - 1) -> Slot]
    BY <1>3, <2>1, BlankIsSlot
  <2>3. /\ GatesCover'
        /\ hasUserObjectsToLock' \in BOOLEAN
        /\ hasUserObjectsToHide' \in BOOLEAN
    BY <1>3, GatesRecomputed
  <2>4. SpareSlot'
    BY <1>1, <1>3 DEF SpareSlot
  <2>5. TypeOK'
    BY <1>1, <1>2, <1>3, <2>2, <2>3 DEF IInv, TypeOK, fileVars
  <2>q. QED BY <2>3, <2>4, <2>5 DEF IInv
<1>4. CASE /\ arrayMaxLength' = 0
           /\ arrayLength' = 0
           /\ flockArray' = [i \in 0..(-1) |-> Blank]
           /\ UNCHANGED gates
  <2>1. flockArray' \in [0..(arrayMaxLength' - 1) -> Slot]
    BY <1>4, BlankIsSlot
  <2>2. TypeOK' /\ SpareSlot'
    BY <1>2, <1>4, <2>1 DEF IInv, TypeOK, SpareSlot, fileVars, gates
  <2>q. QED BY <1>4, <2>2, NothingToCover DEF IInv
<1>5. CASE UNCHANGED <<arrayVars, gates>>
  BY <1>2, <1>5 DEF IInv, TypeOK, SpareSlot, GatesCover, AnyWith,
                    arrayVars, gates, fileVars
<1>q. QED BY <1>3, <1>4, <1>5 DEF FLockStorageImport

(* The other file routines leave the array and the gates alone. *)
LEMMA FileStepKeepsIInv ==
    ASSUME IInv,
           UNCHANGED <<arrayVars, gates>>,
           disk' \in [file   : {"empty", "unsigned", "signed"},
                      length : 0..MaxLength,
                      data   : [Cells -> Slot]],
           opened' \in BOOLEAN,
           mapped' \in BOOLEAN,
           fault' \in {"none", "pool", "context", "unloaded"}
    PROVE  IInv'
BY DEF IInv, TypeOK, SpareSlot, GatesCover, AnyWith, arrayVars, gates

(* So does every call on the storage file. *)
LEMMA UseFileKeepsIInv ==
    ASSUME IInv, UseFile
    PROVE  IInv'
<1>1. ASSUME NEW ok \in BOOLEAN, FLockStorageOpenFile(ok)
      PROVE  IInv'
  BY <1>1, FileStepKeepsIInv DEF FLockStorageOpenFile, IInv, TypeOK
<1>2. ASSUME NEW ok \in BOOLEAN, FLockStorageLoadMap(ok)
      PROVE  IInv'
  <2>1. [disk EXCEPT !.file = "signed", !.length = 0]
           \in [file   : {"empty", "unsigned", "signed"},
                length : 0..MaxLength,
                data   : [Cells -> Slot]]
    <3>1. 0 \in 0..MaxLength
      BY StorageAssumption
    <3>2. disk \in [file   : {"empty", "unsigned", "signed"},
                   length : 0..MaxLength,
                   data   : [Cells -> Slot]]
      BY DEF IInv, TypeOK
    <3>q. QED BY ONLY <3>1, <3>2
  <2>q. QED
    BY <1>2, <2>1, FileStepKeepsIInv DEF FLockStorageLoadMap, IInv, TypeOK
<1>3. ASSUME NEW inSystem \in BOOLEAN, FLockStorageExportOnDisk(inSystem)
      PROVE  IInv'
  <2>1. Exported \in [file   : {"empty", "unsigned", "signed"},
                      length : 0..MaxLength,
                      data   : [Cells -> Slot]]
    <3>1. \A i \in Live : flockArray[i] \in Slot
      BY DEF Live, IInv, TypeOK, SpareSlot
    <3>2. \A i \in Cells : disk.data[i] \in Slot
      BY DEF IInv, TypeOK
    <3>3. arrayLength \in 0..MaxLength
      BY DEF IInv, TypeOK
    <3>q. QED BY <3>1, <3>2, <3>3 DEF Exported
  <2>q. QED
    BY <1>3, <2>1, FileStepKeepsIInv DEF FLockStorageExportOnDisk, IInv, TypeOK
<1>4. ASSUME FLockStorageUnloadMap \/ FLockStorageCloseFile
      PROVE  IInv'
  BY <1>4, FileStepKeepsIInv
     DEF FLockStorageUnloadMap, FLockStorageCloseFile, IInv, TypeOK
<1>q. QED BY <1>1, <1>2, <1>3, <1>4, ImportKeepsIInv DEF UseFile

(* So does the loss of power. *)
LEMMA PowerCutKeepsIInv ==
    ASSUME IInv, PowerCut
    PROVE  IInv'
<1>1. disk' \in [file   : {"empty", "unsigned", "signed"},
                 length : 0..MaxLength,
                 data   : [Cells -> Slot]]
  <2>1. arrayLength \in 0..MaxLength
    BY DEF IInv, TypeOK
  <2>q. QED BY <2>1 DEF PowerCut, DiskAfterPowerCut, IInv, TypeOK
<1>2. flockArray' \in [0..(arrayMaxLength' - 1) -> Slot]
  <2>1. flockArray' = [i \in 0..(-1) |-> Blank] /\ arrayMaxLength' = 0
    BY DEF PowerCut
  <2>q. QED BY <2>1, BlankIsSlot
<1>3. 0 \in 0..MaxLength
  BY StorageAssumption
<1>4. TypeOK'
  BY <1>1, <1>2, <1>3 DEF PowerCut, TypeOK
<1>5. SpareSlot'
  BY DEF PowerCut, SpareSlot
<1>6. GatesCover'
  BY NothingToCover DEF PowerCut
<1>q. QED BY <1>4, <1>5, <1>6 DEF IInv

(* An empty memory satisfies the invariant, whatever the file. *)
LEMMA EmptyMemoryIInv ==
    ASSUME InitMemory,
           disk \in [file   : {"empty", "unsigned", "signed"},
                    length : 0..MaxLength,
                    data   : [Cells -> Slot]]
    PROVE  IInv
<1>1. TypeOK
  <2>1. flockArray = [i \in 0..(-1) |-> Blank] /\ arrayMaxLength = 0
    BY DEF InitMemory
  <2>2. flockArray \in [0..(arrayMaxLength - 1) -> Slot]
    BY <2>1, BlankIsSlot
  <2>3. 0 \in 0..MaxLength
    BY StorageAssumption
  <2>q. QED BY <2>2, <2>3 DEF InitMemory, TypeOK
<1>q. QED
  BY <1>1 DEF InitMemory, IInv, SpareSlot, GatesCover, AnyWith

(* The empty storage does. *)
LEMMA InitIInv == Init => IInv
<1>1. FreshDisk \in [file   : {"empty", "unsigned", "signed"},
                     length : 0..MaxLength,
                     data   : [Cells -> Slot]]
  BY BlankIsSlot, StorageAssumption DEF FreshDisk
<1>q. QED
  BY <1>1, EmptyMemoryIInv DEF Init

(* Every step keeps the invariant. *)
LEMMA NextKeepsIInv == IInv /\ [Next]_vars => IInv'
<1> SUFFICES ASSUME IInv, [Next]_vars PROVE IInv'
  OBVIOUS
<1>1. CASE ChangeRules
  BY <1>1, AddKeepsIInv, RemoveKeepsIInv, UpdateKeepsIInv, ClearKeepsIInv
     DEF ChangeRules
<1>2. CASE UseFile
  BY <1>2, UseFileKeepsIInv
<1>3. CASE PowerCut
  BY <1>3, PowerCutKeepsIInv
<1>4. CASE UNCHANGED vars
  BY <1>4 DEF vars, arrayVars, gates, fileVars, IInv, TypeOK, SpareSlot,
              GatesCover, AnyWith
<1>q. QED BY <1>1, <1>2, <1>3, <1>4 DEF Next

(* The invariant of the specification. *)
LEMMA AlwaysIInv == Spec => []IInv
BY InitIInv, NextKeepsIInv, PTL DEF Spec

-----------------------------------------------------------------------------
(* The storage stays well-typed through adds, growth, imports and power    *)
(* cuts, the misplaced writes of FLockStorageAdd included.                 *)
THEOREM StorageTypeCorrect == Spec => []TypeOK
<1>1. IInv => TypeOK
  BY DEF IInv
<1>q. QED BY <1>1, AlwaysIInv, PTL

(* The scans over arrayLength slots stay inside the array whatever import  *)
(* or growth sized it.                                                     *)
THEOREM ScansStayInside == Spec => []SpareSlot
<1>1. IInv => SpareSlot
  BY DEF IInv
<1>q. QED BY <1>1, AlwaysIInv, PTL

(* The gates read without a lock never hide a rule that a lookup finds. *)
THEOREM GatesNeverMiss == Spec => []GateNeverMisses
<1>1. IInv => GateNeverMisses
  BY DEF IInv, GatesCover, GateNeverMisses, FLockStorageVerifyFlag, FoundAt,
         AnyWith, Live
<1>q. QED BY <1>1, AlwaysIInv, PTL

(* A remove reveals no identifier that was not live before. *)
THEOREM RemoveIsQuiet == Spec => RemoveRevealsNothing
<1> DEFINE Step ==
        \A id \in Id : FLockStorageRemove(id) =>
            \A other \in Id \cup {NoId} :
                FLockStorageIsPresent(other)' => FLockStorageIsPresent(other)
<1>1. IInv => Step
  <2> SUFFICES ASSUME IInv, NEW id \in Id, FLockStorageRemove(id),
                      NEW other \in Id \cup {NoId},
                      FLockStorageIsPresent(other)'
               PROVE  FLockStorageIsPresent(other)
    OBVIOUS
  <2>1. CASE RemoveFound(id)
    <3>1. /\ arrayLength \in Nat \ {0}
          /\ arrayLength < arrayMaxLength
          /\ arrayLength' = arrayLength - 1
          /\ flockArray \in [0..(arrayMaxLength - 1) -> Slot]
          /\ flockArray' = [flockArray EXCEPT ![0] = flockArray[arrayLength - 1]]
      BY <2>1 DEF RemoveFound, FLockStorageIsPresent, Live, IInv, TypeOK, SpareSlot
    <3>2. PICK i \in 0..(arrayLength' - 1) : flockArray'[i].id = other
      BY DEF FLockStorageIsPresent, Live
    <3>3. CASE i = 0
      BY <3>1, <3>2, <3>3 DEF FLockStorageIsPresent, Live
    <3>4. CASE i # 0
      BY <3>1, <3>2, <3>4 DEF FLockStorageIsPresent, Live
    <3>q. QED BY <3>3, <3>4
  <2>2. CASE RemoveAbsent(id)
    BY <2>2 DEF RemoveAbsent, arrayVars, FLockStorageIsPresent, Live
  <2>q. QED BY <2>1, <2>2 DEF FLockStorageRemove
<1>2. IInv /\ [Next]_vars => [Step]_vars
  BY <1>1
<1>q. QED
  BY <1>2, AlwaysIInv, PTL DEF Spec, RemoveRevealsNothing

(* An array is of the base size at least, or there is none.                *)
ArrayIsBase == arrayMaxLength = 0 \/ arrayMaxLength >= BaseSize

(* Only an import without memory and a power cut take an imported array    *)
(* away or below the base size.                                            *)
LEMMA ArrayStep ==
    ASSUME IInv, ArrayIsBase, [Next]_vars
    PROVE  /\ ArrayIsBase'
           /\ arrayMaxLength > 0 => \/ arrayMaxLength' >= BaseSize
                                   \/ FLockStorageImport(FALSE)
                                   \/ PowerCut
<1> USE StorageAssumption
<1>1. arrayMaxLength \in Nat /\ disk.length \in Nat
  BY DEF IInv, TypeOK
<1>2. ASSUME arrayMaxLength' \in {arrayMaxLength, 2 * arrayMaxLength}
      PROVE  ArrayIsBase' /\ (arrayMaxLength > 0 => arrayMaxLength' >= BaseSize)
  BY <1>1, <1>2 DEF ArrayIsBase
<1>3. CASE ChangeRules
  <2>1. arrayMaxLength' \in {arrayMaxLength, 2 * arrayMaxLength}
    BY <1>3 DEF ChangeRules, FLockStorageAdd, AddPresent, AddAllocFails, AddNoArray,
           AddInPlace, AddGrow, FLockStorageRemove, RemoveFound, RemoveAbsent,
           FLockStorageUpdateFlags, ClearArray, arrayVars
  <2>q. QED BY <1>2, <2>1
<1>4. ASSUME NEW ok \in BOOLEAN, FLockStorageImport(ok)
      PROVE  /\ ArrayIsBase'
             /\ arrayMaxLength > 0 => \/ arrayMaxLength' >= BaseSize
                                     \/ FLockStorageImport(FALSE)
  <2>1. CASE arrayMaxLength' = IF disk.length < BaseSize THEN BaseSize ELSE 2 * disk.length
    <3>1. arrayMaxLength' >= BaseSize
      BY <1>1, <2>1
    <3>q. QED BY <3>1 DEF ArrayIsBase
  <2>2. CASE ok = FALSE /\ arrayMaxLength' = 0
    BY <1>4, <2>2 DEF ArrayIsBase
  <2>3. CASE UNCHANGED arrayVars
    BY <1>2, <2>3 DEF arrayVars
  <2>q. QED BY <1>4, <2>1, <2>2, <2>3 DEF FLockStorageImport
<1>5. CASE UseFile
  <2>1. \/ \E ok \in BOOLEAN : FLockStorageImport(ok)
        \/ arrayMaxLength' = arrayMaxLength
    BY <1>5 DEF UseFile, FLockStorageOpenFile, FLockStorageLoadMap,
           FLockStorageExportOnDisk, FLockStorageUnloadMap, FLockStorageCloseFile,
           arrayVars
  <2>q. QED BY <1>2, <1>4, <2>1
<1>6. CASE PowerCut
  BY <1>6 DEF PowerCut, ArrayIsBase
<1>7. CASE UNCHANGED vars
  BY <1>2, <1>7 DEF vars, arrayVars
<1>q. QED BY <1>3, <1>5, <1>6, <1>7 DEF Next

(* Once an array was imported no order of imports and growths lets an ADD  *)
(* double a length of zero again.                                          *)
THEOREM ImportedArrayStays == Spec => ArrayStays
<1>1. Init => ArrayIsBase
  BY DEF Init, InitMemory, ArrayIsBase
<1>2. IInv /\ ArrayIsBase /\ [Next]_vars =>
        /\ ArrayIsBase'
        /\ [arrayMaxLength > 0 => \/ arrayMaxLength' >= BaseSize
                                  \/ FLockStorageImport(FALSE)
                                  \/ PowerCut]_vars
  BY ArrayStep
<1>q. QED BY <1>1, <1>2, AlwaysIInv, PTL DEF Spec, ArrayStays

-----------------------------------------------------------------------------
(* What changes for the lookups.                                           *)

(* A lookup of the identifier would stop somewhere. *)
Found(id) == \E i \in Live : FoundAt(id, i)

(* After an update of the flags every lookup answers what it did before,   *)
(* but for the identifier that was updated: with the new flags, and only   *)
(* if it was there.  Duplicates further up do not matter.                  *)
UpdateIsExact ==
    [][\A id \in Id, flags \in Policy :
          FLockStorageUpdateFlags(id, flags) =>
              \A other \in Id, flag \in Flag :
                  FLockStorageVerifyFlag(other, flag)' <=>
                      IF other = id THEN Found(id) /\ flag \in flags
                      ELSE FLockStorageVerifyFlag(other, flag)]_vars

(* The same of an add that returned TRUE and put its entry where the next  *)
(* entry belongs: with the scaled pointer of the code the first of an      *)
(* array, with an unscaled one any.                                        *)
PlacedAddIsExact ==
    [][\A id \in Id, flags \in Policy :
          /\ FLockStorageAdd(id, flags)
          /\ arrayLength' # arrayLength
          /\ NewEntrySlot = arrayLength
          => \A other \in Id, flag \in Flag :
                 FLockStorageVerifyFlag(other, flag)' <=>
                     IF other = id THEN flag \in flags
                     ELSE FLockStorageVerifyFlag(other, flag)]_vars

(* And of a remove of the rule in the first slot, the only one the code    *)
(* takes out, while no identifier is there twice.                          *)
FirstRemoveIsExact ==
    [][\A id \in Id :
          /\ FLockStorageRemove(id)
          /\ FoundAt(id, 0)
          /\ \A i, j \in Live : flockArray[i].id = flockArray[j].id => i = j
          => \A other \in Id, flag \in Flag :
                 FLockStorageVerifyFlag(other, flag)' <=>
                     other # id /\ FLockStorageVerifyFlag(other, flag)]_vars

(* An update leaves every identifier in its slot. *)
LEMMA UpdateLookups ==
    ASSUME IInv, NEW id \in Id, NEW flags \in Policy,
           FLockStorageUpdateFlags(id, flags), NEW other \in Id, NEW flag \in Flag
    PROVE  FLockStorageVerifyFlag(other, flag)' <=>
               IF other = id THEN Found(id) /\ flag \in flags
               ELSE FLockStorageVerifyFlag(other, flag)
<1>1. /\ arrayLength \in Nat /\ arrayLength' = arrayLength
      /\ arrayMaxLength \in Nat
      /\ \A i \in Live : i \in 0..(arrayMaxLength - 1)
      /\ DOMAIN flockArray = 0..(arrayMaxLength - 1)
      /\ \A i \in DOMAIN flockArray : flockArray[i] \in Slot
  BY DEF FLockStorageUpdateFlags, IInv, TypeOK, SpareSlot, Live
<1>2. ASSUME NEW i \in Live
      PROVE  /\ flockArray'[i].id = flockArray[i].id
             /\ flockArray'[i].flags = IF FoundAt(id, i) THEN flags ELSE flockArray[i].flags
  BY <1>1, <1>2 DEF FLockStorageUpdateFlags, Slot
<1>3. ASSUME NEW i \in Live PROVE FoundAt(other, i)' <=> FoundAt(other, i)
  <2>1. \A j \in 0..(i - 1) : j \in Live
    BY <1>1, <1>3 DEF Live
  <2>q. QED BY <1>1, <1>2, <1>3, <2>1 DEF FoundAt, Live
<1>4. FLockStorageVerifyFlag(other, flag)' <=>
          \E i \in Live : FoundAt(other, i) /\ flag \in flockArray'[i].flags
  BY <1>1, <1>3 DEF FLockStorageVerifyFlag, Live
<1>5. CASE other = id
  BY <1>2, <1>4, <1>5 DEF Found
<1>6. CASE other # id
  <2>1. \A i \in Live : FoundAt(other, i) => ~FoundAt(id, i)
    BY <1>6 DEF FoundAt
  <2>q. QED BY <1>2, <1>4, <1>6, <2>1 DEF FLockStorageVerifyFlag
<1>q. QED BY <1>5, <1>6

(* An entry stored behind the last one is met last. *)
LEMMA PlacedAddLookups ==
    ASSUME IInv, NEW id \in Id, NEW flags \in Policy,
           FLockStorageAdd(id, flags), arrayLength' # arrayLength,
           NewEntrySlot = arrayLength, NEW other \in Id, NEW flag \in Flag
    PROVE  FLockStorageVerifyFlag(other, flag)' <=>
               IF other = id THEN flag \in flags
               ELSE FLockStorageVerifyFlag(other, flag)
<1> USE StorageAssumption
<1>1. AddInPlace(id, flags) \/ AddGrow(id, flags)
  BY DEF FLockStorageAdd, AddPresent, AddAllocFails, AddNoArray, arrayVars
<1>2. /\ arrayLength \in Nat /\ arrayMaxLength \in Nat
      /\ arrayLength < arrayMaxLength
      /\ ~FLockStorageIsPresent(id)
  BY <1>1 DEF IInv, TypeOK, SpareSlot, AddInPlace, AddGrow, MustGrow
<1>3. PICK t : /\ StoreNew(t, id, flags)
               /\ arrayLength \in DOMAIN t
               /\ \A i \in Live : t[i] = flockArray[i]
  <2>1. CASE AddInPlace(id, flags)
    BY <1>2, <2>1 DEF AddInPlace, IInv, TypeOK
  <2>2. CASE AddGrow(id, flags)
    <3>1. PICK junk \in Junk :
              StoreNew([i \in 0..(2 * arrayMaxLength - 1) |->
                           IF i \in Live THEN flockArray[i] ELSE junk], id, flags)
      BY <2>2 DEF AddGrow
    <3>2. Live \subseteq 0..(2 * arrayMaxLength - 1)
          /\ arrayLength \in 0..(2 * arrayMaxLength - 1)
      BY <1>2 DEF Live
    <3> DEFINE t == [i \in 0..(2 * arrayMaxLength - 1) |->
                        IF i \in Live THEN flockArray[i] ELSE junk]
    <3>3. DOMAIN t = 0..(2 * arrayMaxLength - 1) /\ \A i \in Live : t[i] = flockArray[i]
      BY <3>2
    <3> HIDE DEF t
    <3>4. StoreNew(t, id, flags)
      BY <3>1 DEF t
    <3>q. QED BY <3>2, <3>3, <3>4
  <2>q. QED BY <1>1, <2>1, <2>2
<1>4. /\ arrayLength' = arrayLength + 1
      /\ flockArray' = [t EXCEPT ![arrayLength] = [id |-> id, flags |-> flags]]
  BY <1>3 DEF StoreNew
<1>5. /\ \A i \in Live : i # arrayLength /\ flockArray'[i] = flockArray[i]
      /\ flockArray'[arrayLength].id = id
      /\ flockArray'[arrayLength].flags = flags
  BY <1>2, <1>3, <1>4 DEF Live
<1>6. \A i \in Live : flockArray[i].id # id
  BY <1>2 DEF FLockStorageIsPresent
<1>7. ASSUME NEW i \in Live PROVE FoundAt(other, i)' <=> FoundAt(other, i)
  <2>1. i \in Live' /\ \A j \in 0..(i - 1) : j \in Live
    BY <1>2, <1>4, <1>7 DEF Live
  <2>q. QED BY <1>5, <1>7, <2>1 DEF FoundAt
<1>8. PICK n \in Nat : n = arrayLength
  BY <1>2
<1>9. Live' = Live \cup {n} /\ Live = 0..(n - 1)
  BY <1>4, <1>8 DEF Live
<1>10. FoundAt(other, n)' <=> other = id
  <2>1. FoundAt(other, n)' <=>
            /\ flockArray'[n].id = other
            /\ \A j \in Live : flockArray'[j].id # other
    BY <1>9 DEF FoundAt
  <2>2. \A j \in Live : flockArray'[j].id # id
    BY <1>5, <1>6
  <2>q. QED BY <1>5, <1>8, <2>1, <2>2
<1>11. FLockStorageVerifyFlag(other, flag)' <=>
           \/ \E i \in Live : FoundAt(other, i) /\ flag \in flockArray[i].flags
           \/ other = id /\ flag \in flags
  <2>1. FLockStorageVerifyFlag(other, flag)' <=>
            \E i \in Live' : FoundAt(other, i)' /\ flag \in flockArray'[i].flags
    BY DEF FLockStorageVerifyFlag
  <2>2. \A i \in Live : /\ FoundAt(other, i)' <=> FoundAt(other, i)
                        /\ flockArray'[i] = flockArray[i]
    BY <1>5, <1>7
  <2>3. flockArray'[n].flags = flags
    BY <1>5, <1>8
  <2>q. QED BY <1>9, <1>10, <2>1, <2>2, <2>3
<1>12. other = id => ~FLockStorageVerifyFlag(other, flag)
  BY <1>6 DEF FLockStorageVerifyFlag, FoundAt
<1>q. QED BY <1>11, <1>12 DEF FLockStorageVerifyFlag

(* The tail takes the place of the first slot; the order does not matter   *)
(* to a lookup where no identifier is there twice.                         *)
LEMMA FirstRemoveLookups ==
    ASSUME IInv, NEW id \in Id, FLockStorageRemove(id), FoundAt(id, 0),
           \A i, j \in Live : flockArray[i].id = flockArray[j].id => i = j,
           NEW other \in Id, NEW flag \in Flag
    PROVE  FLockStorageVerifyFlag(other, flag)' <=>
               other # id /\ FLockStorageVerifyFlag(other, flag)
<1>1. RemoveFound(id)
  BY DEF FoundAt, FLockStorageRemove, RemoveAbsent, FLockStorageIsPresent
<1>2. PICK last \in Nat :
          /\ last = arrayLength - 1
          /\ Live = 0..last /\ Live' = 0..(last - 1)
          /\ Live \subseteq 0..(arrayMaxLength - 1)
          /\ DOMAIN flockArray = 0..(arrayMaxLength - 1)
          /\ flockArray' = [flockArray EXCEPT ![0] = flockArray[last]]
  <2>1. /\ arrayLength \in Nat /\ arrayLength > 0
        /\ arrayMaxLength \in Nat /\ arrayLength < arrayMaxLength
        /\ DOMAIN flockArray = 0..(arrayMaxLength - 1)
    BY DEF FoundAt, Live, IInv, TypeOK, SpareSlot
  <2>2. /\ arrayLength' = arrayLength - 1
        /\ flockArray' = [flockArray EXCEPT ![0] = flockArray[arrayLength - 1]]
    BY <1>1 DEF RemoveFound
  <2>3. PICK last \in Nat : last = arrayLength - 1
    BY <2>1
  <2>4. Live = 0..last /\ Live' = 0..(last - 1) /\ Live \subseteq 0..(arrayMaxLength - 1)
    BY <2>1, <2>2, <2>3 DEF Live
  <2>q. QED BY <2>1, <2>2, <2>3, <2>4
<1>3. /\ flockArray[0].id = id
      /\ 0 \in Live /\ last \in Live
      /\ \A i \in Live' : i \in Live /\ i # last
      /\ \A i \in Live' : flockArray'[i] = IF i = 0 THEN flockArray[last] ELSE flockArray[i]
  BY <1>2 DEF FoundAt
<1>4. FLockStorageVerifyFlag(other, flag) <=>
          \E i \in Live : flockArray[i].id = other /\ flag \in flockArray[i].flags
  <2>1. ASSUME NEW i \in Live PROVE FoundAt(other, i) <=> flockArray[i].id = other
    <3>1. \A j \in 0..(i - 1) : j \in Live /\ j # i
      BY <1>2, <2>1
    <3>q. QED BY <2>1, <3>1 DEF FoundAt
  <2>q. QED BY <2>1 DEF FLockStorageVerifyFlag
<1>5. FLockStorageVerifyFlag(other, flag)' <=>
          \E i \in Live' : flockArray'[i].id = other /\ flag \in flockArray'[i].flags
  <2>1. ASSUME NEW i \in Live', NEW j \in Live', flockArray'[i].id = flockArray'[j].id
        PROVE  i = j
    BY <1>2, <1>3, <2>1
  <2>2. ASSUME NEW i \in Live' PROVE FoundAt(other, i)' <=> flockArray'[i].id = other
    <3>1. \A j \in 0..(i - 1) : j \in Live' /\ j # i
      BY <1>2, <2>2
    <3>q. QED BY <2>1, <2>2, <3>1 DEF FoundAt
  <2>q. QED BY <2>2 DEF FLockStorageVerifyFlag
<1>6. ASSUME NEW i \in Live', flockArray'[i].id = other, flag \in flockArray'[i].flags
      PROVE  /\ other # id
             /\ \E j \in Live : flockArray[j].id = other /\ flag \in flockArray[j].flags
  <2>1. CASE i = 0
    <3>1. flockArray[last].id = other /\ last # 0
      BY <1>3, <1>6, <2>1
    <3>q. QED BY <1>3, <1>6, <2>1, <3>1
  <2>2. CASE i # 0
    BY <1>3, <1>6, <2>2
  <2>q. QED BY <2>1, <2>2
<1>7. ASSUME NEW j \in Live, flockArray[j].id = other, flag \in flockArray[j].flags,
             other # id
      PROVE  \E i \in Live' : flockArray'[i].id = other /\ flag \in flockArray'[i].flags
  <2>1. j # 0
    BY <1>3, <1>7
  <2>2. 0 \in Live' /\ (j # last => j \in Live')
    BY <1>2, <1>7, <2>1
  <2>3. CASE j = last
    BY <1>3, <1>7, <2>2, <2>3
  <2>4. CASE j # last
    BY <1>3, <1>7, <2>1, <2>2, <2>4
  <2>q. QED BY <2>3, <2>4
<1>q. QED BY <1>4, <1>5, <1>6, <1>7

(* An update changes the answers about one identifier, to the new flags.   *)
THEOREM UpdatesAreExact == Spec => UpdateIsExact
<1> DEFINE Step ==
        \A id \in Id, flags \in Policy :
          FLockStorageUpdateFlags(id, flags) =>
              \A other \in Id, flag \in Flag :
                  FLockStorageVerifyFlag(other, flag)' <=>
                      IF other = id THEN Found(id) /\ flag \in flags
                      ELSE FLockStorageVerifyFlag(other, flag)
<1>1. IInv => Step
  BY UpdateLookups
<1>2. IInv /\ [Next]_vars => [Step]_vars
  BY <1>1
<1>q. QED BY <1>2, AlwaysIInv, PTL DEF Spec, UpdateIsExact

(* An add changes the answers about its own identifier, to its flags, if   *)
(* the entry went to the slot behind the last one.                         *)
THEOREM PlacedAddsAreExact == Spec => PlacedAddIsExact
<1> DEFINE Step ==
        \A id \in Id, flags \in Policy :
          /\ FLockStorageAdd(id, flags)
          /\ arrayLength' # arrayLength
          /\ NewEntrySlot = arrayLength
          => \A other \in Id, flag \in Flag :
                 FLockStorageVerifyFlag(other, flag)' <=>
                     IF other = id THEN flag \in flags
                     ELSE FLockStorageVerifyFlag(other, flag)
<1>1. IInv => Step
  BY PlacedAddLookups
<1>2. IInv /\ [Next]_vars => [Step]_vars
  BY <1>1
<1>q. QED BY <1>2, AlwaysIInv, PTL DEF Spec, PlacedAddIsExact

(* A remove changes the answers about its own identifier, to no, if the    *)
(* rule sat in the first slot and no identifier is there twice.            *)
THEOREM FirstRemovesAreExact == Spec => FirstRemoveIsExact
<1> DEFINE Step ==
        \A id \in Id :
          /\ FLockStorageRemove(id)
          /\ FoundAt(id, 0)
          /\ \A i, j \in Live : flockArray[i].id = flockArray[j].id => i = j
          => \A other \in Id, flag \in Flag :
                 FLockStorageVerifyFlag(other, flag)' <=>
                     other # id /\ FLockStorageVerifyFlag(other, flag)
<1>1. IInv => Step
  BY FirstRemoveLookups
<1>2. IInv /\ [Next]_vars => [Step]_vars
  BY <1>1
<1>q. QED BY <1>2, AlwaysIInv, PTL DEF Spec, FirstRemoveIsExact
=============================================================================
