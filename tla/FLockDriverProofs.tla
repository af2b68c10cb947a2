------------------------- MODULE FLockDriverProofs --------------------------
(***************************************************************************)
(* Proofs about the driver's threads: types, the owner of the map, and the *)
(* agreement of file and memory.  The steps on the storage reuse the       *)
(* lemmas of FLockStorageProofs.                                           *)
(***************************************************************************)
EXTENDS FLockDriverProps, FLockStorageProofs

(* What the threads keep is typed. *)
ThreadsOK ==
    /\ entry \in {"open", "load", "import", "unload", "up"}
    /\ loader \in {"start", "open", "loaded", "load", "import", "unload", "done"}
    /\ flusher \in {"wait", "opened", "loaded", "load", "export", "unload",
                    "check", "exit"}
    /\ request \in [Client -> Pending]

ControlsOK ==
    /\ eventFlush \in BOOLEAN
    /\ stopAll \in BOOLEAN
    /\ unload \in {"no", "signal", "close", "free", "gone"}

HistoryOK ==
    /\ owed \in BOOLEAN
    /\ dirty \in BOOLEAN
    /\ kept \subseteq Id

DInv == IInv /\ ThreadsOK /\ ControlsOK /\ HistoryOK

-----------------------------------------------------------------------------
(* The storage's invariant through the driver's steps.                     *)

(* A step that leaves the storage alone keeps its invariant. *)
LEMMA StillIInv ==
    ASSUME IInv, UNCHANGED vars
    PROVE  IInv'
BY DEF vars, arrayVars, gates, fileVars, IInv, TypeOK, SpareSlot, GatesCover, AnyWith

(* A parked request is a rule to add, flags to store, or an export. *)
LEMMA ParkedRequest ==
    ASSUME ThreadsOK, NEW c \in Client
    PROVE  /\ request[c].op = "add" => request[c].id \in Id /\ request[c].flags \in Policy
           /\ request[c].op = "update" =>
                 request[c].id \in Id /\ request[c].flags \in Policy \cup {{}}
<1>1. request[c] \in Pending
  BY DEF ThreadsOK
<1>q. QED BY <1>1 DEF Pending, Idle

(* The handlers keep the storage's invariant. *)
LEMMA HandlersKeepIInv ==
    ASSUME IInv, ThreadsOK, FLockDeviceControlDispatcher
    PROVE  IInv'
<1>1. PICK c \in Client :
          \/ \E id \in Id, flags \in Policy : AddLookup(c, id, flags)
          \/ \E id \in Id, flag \in UNION Policy, toSet \in BOOLEAN :
                UpdateLookup(c, id, flag, toSet)
          \/ \E id \in Id : RemoveRule(c, id)
          \/ AddRule(c) \/ UpdateRule(c)
          \/ ClearRules(c) \/ ClearExport(c) \/ RequestFlush(c)
  BY DEF FLockDeviceControlDispatcher
<1>2. CASE UNCHANGED vars
  BY <1>2, StillIInv
<1>3. CASE \E id \in Id : RemoveRule(c, id)
  BY <1>3, RemoveKeepsIInv DEF RemoveRule
<1>4. CASE AddRule(c)
  BY <1>4, ParkedRequest, AddKeepsIInv DEF AddRule
<1>5. CASE UpdateRule(c)
  BY <1>5, ParkedRequest, UpdateKeepsIInv DEF UpdateRule
<1>6. CASE ClearRules(c)
  BY <1>6, ClearKeepsIInv DEF ClearRules
<1>7. CASE ClearExport(c)
  <2>1. UseFile
    BY <1>7 DEF ClearExport, ExportRules, UseFile, FLockDeviceControlDispatcher, Running
  <2>q. QED BY <2>1, UseFileKeepsIInv
<1>q. QED
  BY <1>1, <1>2, <1>3, <1>4, <1>5, <1>6, <1>7 DEF AddLookup, UpdateLookup, RequestFlush

(* So do DriverEntry, the loader and the flusher: they leave the storage   *)
(* alone or use its file.                                                  *)
LEMMA ThreadsUseFile ==
    ASSUME DriverEntry \/ FLockStorageLoader \/ FLockStorageFlusher
    PROVE  UseFile \/ UNCHANGED vars
<1>1. fault = "none"
  BY DEF DriverEntry, FLockStorageLoader, FLockStorageFlusher, Running
<1>2. CASE DriverEntry
  BY <1>1, <1>2 DEF DriverEntry, EntryOpen, EntryLoad, EntryImport, EntryUnload,
                    ImportRules, UseFile
<1>3. CASE FLockStorageLoader
  BY <1>1, <1>3 DEF FLockStorageLoader, LoaderStart, LoaderCheckLoaded, LoaderUnload,
                    LoaderOpen, LoaderLoad, LoaderImport, ImportRules, UseFile
<1>4. CASE FLockStorageFlusher
  BY <1>1, <1>4 DEF FLockStorageFlusher, FlusherWake, FlusherCheckOpened,
                    FlusherCheckLoaded, FlusherExport, FlusherUnload,
                    FlusherCheckStop, FlusherLoad, ExportRules, UseFile
<1>q. QED BY <1>2, <1>3, <1>4

(* So does unloading, and whatever runs after it. *)
LEMMA UnloadKeepsIInv ==
    ASSUME IInv, DriverUnload \/ RunUnloaded
    PROVE  IInv'
<1>1. CASE DriverUnload
  <2>1. UseFile \/ UNCHANGED vars
    BY <1>1 DEF DriverUnload, FLockStopInternals, StopRaise, StopSignal, StopClose,
                FreeStorage, UseFile, Running
  <2>q. QED BY <2>1, UseFileKeepsIInv, StillIInv
<1>2. CASE RunUnloaded
  BY <1>2, FileStepKeepsIInv DEF RunUnloaded, fileVars, IInv, TypeOK
<1>q. QED BY <1>1, <1>2

(* Every step of the driver keeps the storage's invariant. *)
LEMMA DriverKeepsIInv ==
    ASSUME IInv, ThreadsOK, [DriverNext]_driverVars
    PROVE  IInv'
<1>1. CASE UNCHANGED driverVars
  BY <1>1, StillIInv DEF driverVars
<1>q. QED
  BY <1>1, ThreadsUseFile, UseFileKeepsIInv, StillIInv, HandlersKeepIInv,
     UnloadKeepsIInv DEF DriverNext

-----------------------------------------------------------------------------
(* Types.                                                                  *)

(* Flags a client sets or clears are flags a rule may carry. *)
LEMMA UpdatedFlagsFit ==
    ASSUME IInv, NEW i \in Live, NEW flag \in UNION Policy
    PROVE  /\ flockArray[i].flags \cup {flag} \in Policy \cup {{}}
           /\ flockArray[i].flags \ {flag} \in Policy \cup {{}}
<1>1. flockArray[i] \in Slot
  BY DEF IInv, TypeOK, SpareSlot, Live
<1>2. flockArray[i].flags \in Policy \cup {{}}
  BY <1>1 DEF Slot
<1>q. QED BY <1>2, DriverAssumption

(* Every step leaves typed threads. *)
LEMMA ThreadsStayOK ==
    ASSUME IInv, ThreadsOK, [DriverNext]_driverVars
    PROVE  ThreadsOK'
<1>1. CASE UNCHANGED driverVars
  BY <1>1 DEF driverVars, threadVars, ThreadsOK
<1>2. CASE DriverEntry
  BY <1>2 DEF DriverEntry, EntryOpen, EntryLoad, EntryImport, EntryUnload, ThreadsOK
<1>3. CASE FLockStorageLoader
  BY <1>3 DEF FLockStorageLoader, LoaderStart, LoaderCheckLoaded, LoaderUnload,
              LoaderOpen, LoaderLoad, LoaderImport, ThreadsOK
<1>4. CASE FLockStorageFlusher
  BY <1>4 DEF FLockStorageFlusher, FlusherWake, FlusherCheckOpened,
              FlusherCheckLoaded, FlusherExport, FlusherUnload,
              FlusherCheckStop, FlusherLoad, ThreadsOK
<1>5. CASE FLockDeviceControlDispatcher
  <2>1. Idle \in Pending /\ [Idle EXCEPT !.op = "export"] \in Pending
    BY DEF Pending
  <2>2. UNCHANGED <<entry, loader, flusher>>
    BY <1>5 DEF FLockDeviceControlDispatcher
  <2>3. PICK c \in Client :
          \/ \E id \in Id, flags \in Policy : AddLookup(c, id, flags)
          \/ \E id \in Id, flag \in UNION Policy, toSet \in BOOLEAN :
                UpdateLookup(c, id, flag, toSet)
          \/ \E id \in Id : RemoveRule(c, id)
          \/ AddRule(c) \/ UpdateRule(c)
          \/ ClearRules(c) \/ ClearExport(c) \/ RequestFlush(c)
    BY <1>5 DEF FLockDeviceControlDispatcher
  <2>4. \E next \in Pending : request' \in {request, [request EXCEPT ![c] = next]}
    <3>1. CASE \E id \in Id, flags \in Policy : AddLookup(c, id, flags)
      <4>1. PICK id \in Id, flags \in Policy : AddLookup(c, id, flags)
        BY <3>1
      <4>2. [op |-> "add", id |-> id, flags |-> flags] \in Pending
        BY DEF Pending
      <4>q. QED BY <4>1, <4>2 DEF AddLookup
    <3>2. CASE \E id \in Id, flag \in UNION Policy, toSet \in BOOLEAN :
                  UpdateLookup(c, id, flag, toSet)
      <4>1. PICK id \in Id, flag \in UNION Policy, toSet \in BOOLEAN :
                  UpdateLookup(c, id, flag, toSet)
        BY <3>2
      <4>2. PICK i \in Live :
                request' = [request EXCEPT ![c] =
                   [op    |-> "update",
                    id    |-> id,
                    flags |-> IF toSet THEN flockArray[i].flags \cup {flag}
                                       ELSE flockArray[i].flags \ {flag}]]
        BY <4>1 DEF UpdateLookup
      <4>3. \A flags \in Policy \cup {{}} :
               [op |-> "update", id |-> id, flags |-> flags] \in Pending
        BY DEF Pending
      <4>4. (IF toSet THEN flockArray[i].flags \cup {flag}
                      ELSE flockArray[i].flags \ {flag}) \in Policy \cup {{}}
        BY UpdatedFlagsFit
      <4>q. QED BY <4>2, <4>3, <4>4
    <3>3. CASE ClearRules(c)
      <4>1. request[c] = Idle
        BY <3>3 DEF ClearRules
      <4>2. request' = [request EXCEPT ![c] = [Idle EXCEPT !.op = "export"]]
        BY <3>3, <4>1 DEF ClearRules
      <4>q. QED BY <2>1, <4>2
    <3>q. QED
      BY <2>1, <2>3, <3>1, <3>2, <3>3
         DEF RemoveRule, AddRule, UpdateRule, ClearExport, RequestFlush
  <2>q. QED BY <2>2, <2>4 DEF ThreadsOK
<1>6. CASE DriverUnload \/ RunUnloaded
  BY <1>6 DEF DriverUnload, RunUnloaded, threadVars, ThreadsOK
<1>q. QED BY <1>1, <1>2, <1>3, <1>4, <1>5, <1>6 DEF DriverNext

(* Every step leaves typed flags and a typed place of DriverUnload. *)
LEMMA ControlsStayOK ==
    ASSUME ControlsOK, [DriverNext]_driverVars
    PROVE  ControlsOK'
<1>1. CASE UNCHANGED controlVars
  BY <1>1 DEF controlVars, ControlsOK
<1>2. CASE FLockStorageFlusher
  BY <1>2 DEF FLockStorageFlusher, FlusherWake, FlusherCheckOpened,
              FlusherCheckLoaded, FlusherExport, FlusherUnload,
              FlusherCheckStop, FlusherLoad, ControlsOK
<1>3. CASE FLockDeviceControlDispatcher
  BY <1>3 DEF FLockDeviceControlDispatcher, AddLookup, UpdateLookup, RemoveRule,
              AddRule, UpdateRule, ClearRules, ClearExport, RequestFlush, ControlsOK
<1>4. CASE DriverUnload
  BY <1>4 DEF DriverUnload, FLockStopInternals, StopRaise, StopSignal, StopClose,
              FreeStorage, ControlsOK
<1>q. QED
  BY <1>1, <1>2, <1>3, <1>4
     DEF DriverNext, DriverEntry, FLockStorageLoader, RunUnloaded, driverVars

(* The identifiers of the rules in memory are identifiers. *)
LEMMA MemoryIds ==
    ASSUME IInv
    PROVE  Ids(MemoryRules) \subseteq Id
<1>1. \A i \in Live : flockArray[i] \in Slot
  BY DEF IInv, TypeOK, SpareSlot, Live
<1>q. QED BY <1>1 DEF Ids, MemoryRules, Slot

(* Every step leaves typed history variables. *)
LEMMA HistoryStaysOK ==
    ASSUME IInv, HistoryOK, [DriverNext]_driverVars
    PROVE  HistoryOK'
<1>1. CASE UNCHANGED historyVars
  BY <1>1 DEF historyVars, HistoryOK
<1>2. ASSUME NEW ok \in BOOLEAN, ImportRules(ok)
      PROVE  HistoryOK'
  BY <1>2 DEF ImportRules, HistoryOK
<1>3. ASSUME NEW inSystem \in BOOLEAN, ExportRules(inSystem)
      PROVE  HistoryOK'
  BY <1>1, <1>3, MemoryIds DEF ExportRules, HistoryOK
<1>4. CASE DriverEntry
  BY <1>1, <1>2, <1>4 DEF DriverEntry, EntryOpen, EntryLoad, EntryImport, EntryUnload
<1>5. CASE FLockStorageLoader
  BY <1>1, <1>2, <1>5 DEF FLockStorageLoader, LoaderStart, LoaderCheckLoaded,
              LoaderUnload, LoaderOpen, LoaderLoad, LoaderImport
<1>6. CASE FLockStorageFlusher
  BY <1>1, <1>3, <1>6 DEF FLockStorageFlusher, FlusherWake, FlusherCheckOpened,
              FlusherCheckLoaded, FlusherExport, FlusherUnload,
              FlusherCheckStop, FlusherLoad
<1>7. CASE FLockDeviceControlDispatcher
  <2>1. PICK c \in Client :
          \/ \E id \in Id, flags \in Policy : AddLookup(c, id, flags)
          \/ \E id \in Id, flag \in UNION Policy, toSet \in BOOLEAN :
                UpdateLookup(c, id, flag, toSet)
          \/ \E id \in Id : RemoveRule(c, id)
          \/ AddRule(c) \/ UpdateRule(c)
          \/ ClearRules(c) \/ ClearExport(c) \/ RequestFlush(c)
    BY <1>7 DEF FLockDeviceControlDispatcher
  <2>2. CASE ClearExport(c)
    BY <1>3, <2>2 DEF ClearExport
  <2>3. CASE \/ \E id \in Id, flags \in Policy : AddLookup(c, id, flags)
             \/ \E id \in Id, flag \in UNION Policy, toSet \in BOOLEAN :
                   UpdateLookup(c, id, flag, toSet)
    BY <1>1, <2>3 DEF AddLookup, UpdateLookup
  <2>4. CASE \E id \in Id : RemoveRule(c, id)
    BY <2>4 DEF RemoveRule, HistoryOK, FLockStorageIsPresent
  <2>5. CASE AddRule(c) \/ UpdateRule(c) \/ ClearRules(c) \/ RequestFlush(c)
    BY <2>5 DEF AddRule, UpdateRule, ClearRules, RequestFlush, HistoryOK,
                FLockStorageIsPresent
  <2>q. QED BY <2>1, <2>2, <2>3, <2>4, <2>5
<1>q. QED
  BY <1>1, <1>4, <1>5, <1>6, <1>7 DEF DriverNext, DriverUnload, RunUnloaded, driverVars

(* A file an earlier boot left starts a typed driver. *)
LEMMA InitDInv == DriverInit => DInv
<1> SUFFICES ASSUME DriverInit PROVE DInv
  OBVIOUS
<1>1. disk \in [file   : {"empty", "unsigned", "signed"},
                length : 0..MaxLength,
                data   : [Cells -> Slot]]
  BY DriverAssumption DEF DriverInit
<1>2. IInv
  BY <1>1, EmptyMemoryIInv DEF DriverInit
<1>3. Idle \in Pending
  BY DEF Pending
<1>4. ThreadsOK /\ ControlsOK
  BY <1>3 DEF DriverInit, ThreadsOK, ControlsOK
<1>5. kept \subseteq Id
  <2>1. CASE disk.file = "signed"
    <3>1. disk.length \in Nat /\ disk.length <= MaxLength
      BY <1>1, StorageAssumption
    <3>2. \A i \in 0..(disk.length - 1) : disk.data[i] \in Slot
      BY <1>1, <3>1, StorageAssumption DEF Cells
    <3>q. QED BY <2>1, <3>2 DEF DriverInit, Ids, FileRules, Slot
  <2>2. CASE disk.file # "signed"
    BY <2>2 DEF DriverInit, Ids, FileRules
  <2>q. QED BY <2>1, <2>2
<1>q. QED BY <1>2, <1>4, <1>5 DEF DriverInit, HistoryOK, DInv

(* The typed part of the invariant always holds. *)
LEMMA AlwaysDInv == DriverSpec => []DInv
<1>1. DInv /\ [DriverNext]_driverVars => DInv'
  BY DriverKeepsIInv, ThreadsStayOK, ControlsStayOK, HistoryStaysOK DEF DInv
<1>q. QED BY <1>1, InitDInv, PTL DEF DriverSpec

(* Loader, flusher, handlers and unloading stay well-typed over any files. *)
THEOREM DriverTypeCorrect == DriverSpec => []DriverTypeOK
<1>1. DInv => DriverTypeOK
  BY DEF DInv, IInv, ThreadsOK, ControlsOK, HistoryOK, DriverTypeOK
<1>q. QED BY <1>1, AlwaysDInv, PTL

-----------------------------------------------------------------------------
(* The owner of the map.                                                   *)

(* Every step leaves the map to a thread that will unload it. *)
LEMMA MapStaysOwned ==
    ASSUME MapHasOwner, [DriverNext]_driverVars
    PROVE  MapHasOwner'
<1>1. CASE UNCHANGED <<mapped, entry, loader, flusher>>
  BY <1>1 DEF MapHasOwner
<1>2. CASE DriverEntry
  BY <1>2 DEF DriverEntry, EntryOpen, EntryLoad, EntryImport, EntryUnload, ImportRules,
              FLockStorageOpenFile, FLockStorageLoadMap, FLockStorageImport,
              FLockStorageUnloadMap, fileVars, MapHasOwner
<1>3. CASE FLockStorageLoader
  BY <1>3 DEF FLockStorageLoader, LoaderStart, LoaderCheckLoaded, LoaderUnload,
              LoaderOpen, LoaderLoad, LoaderImport, ImportRules,
              FLockStorageOpenFile, FLockStorageLoadMap, FLockStorageImport,
              FLockStorageUnloadMap, vars, fileVars, MapHasOwner
<1>4. CASE FLockStorageFlusher
  BY <1>4 DEF FLockStorageFlusher, FlusherWake, FlusherCheckOpened,
              FlusherCheckLoaded, FlusherExport, FlusherUnload, FlusherCheckStop,
              FlusherLoad, ExportRules, FLockStorageExportOnDisk,
              FLockStorageLoadMap, FLockStorageUnloadMap, vars, fileVars, MapHasOwner
<1>5. CASE FLockDeviceControlDispatcher
  BY <1>1, <1>5 DEF FLockDeviceControlDispatcher, AddLookup, UpdateLookup, RemoveRule,
              AddRule, UpdateRule, ClearRules, ClearExport, RequestFlush, ExportRules,
              FLockStorageAdd, AddPresent, AddAllocFails, AddNoArray, AddInPlace,
              AddGrow, StoreNew, FLockStorageRemove, RemoveFound, RemoveAbsent,
              FLockStorageUpdateFlags, ClearArray, FLockStorageExportOnDisk,
              vars, fileVars
<1>6. CASE DriverUnload
  BY <1>1, <1>6 DEF DriverUnload, FLockStopInternals, StopRaise, StopSignal, StopClose,
              FreeStorage, FLockStorageCloseFile, threadVars, vars, fileVars
<1>7. CASE RunUnloaded \/ UNCHANGED driverVars
  BY <1>1, <1>7 DEF RunUnloaded, driverVars, threadVars, vars, fileVars
<1>q. QED BY <1>2, <1>3, <1>4, <1>5, <1>6, <1>7 DEF DriverNext

(* No thread walks away from a map it loaded, whichever of the threads'    *)
(* calls fail: every later flush finds the file free.                      *)
THEOREM MapIsOwned == DriverSpec => []MapHasOwner
<1>1. DriverInit => MapHasOwner
  BY DEF DriverInit, InitMemory, MapHasOwner
<1>q. QED BY <1>1, MapStaysOwned, PTL DEF DriverSpec

-----------------------------------------------------------------------------
(* File and memory, when no call fails.                                    *)

(* What DriverEntry relies on until it has the rules, and what holds when  *)
(* it has them.                                                            *)
FilePath ==
    /\ entry \in {"open", "load", "import"} => arrayLength = 0
    /\ entry = "load" => opened
    /\ entry = "import" => mapped
    /\ entry \in {"unload", "up"} /\ ~dirty => FileRules = MemoryRules

(* The rules are those of the array and of the file. *)
LEMMA SameRules ==
    ASSUME UNCHANGED <<flockArray, arrayLength, disk>>
    PROVE  FileRules' = FileRules /\ MemoryRules' = MemoryRules
BY DEF FileRules, MemoryRules, Live

(* An import that can not fail leaves memory with the rules of the file,   *)
(* or both as they were.                                                   *)
LEMMA ImportReadsFile ==
    ASSUME MayFail = {}, IInv, NEW ok \in BOOLEAN, FLockStorageImport(ok)
    PROVE  /\ FileRules' = FileRules
           /\ mapped /\ disk.file = "signed" => ok /\ MemoryRules' = FileRules'
           /\ ~(mapped /\ disk.file = "signed") =>
                 UNCHANGED <<flockArray, arrayLength, disk>>
<1>1. disk.length \in Nat /\ disk.length <= MaxLength /\ disk' = disk
  BY StorageAssumption DEF IInv, TypeOK, FLockStorageImport, fileVars
<1>2. FileRules' = FileRules
  BY <1>1 DEF FileRules
<1>3. CASE mapped /\ disk.file = "signed"
  <2> DEFINE size == IF disk.length < BaseSize THEN BaseSize ELSE 2 * disk.length
  <2>1. /\ ok
        /\ arrayLength' = disk.length
        /\ flockArray' = [i \in 0..(size - 1) |->
                              IF i \in Cells THEN disk.data[i] ELSE Blank]
    BY <1>3 DEF FLockStorageImport
  <2>2. size \in Nat /\ disk.length <= size
    BY <1>1, StorageAssumption
  <2>3. \A i \in 0..(disk.length - 1) : flockArray'[i] = disk.data[i]
    BY <1>1, <2>1, <2>2, StorageAssumption DEF Cells
  <2>4. MemoryRules' = {flockArray'[i] : i \in 0..(disk.length - 1)}
    BY <2>1 DEF MemoryRules, Live
  <2>5. FileRules = {disk.data[i] : i \in 0..(disk.length - 1)}
    BY <1>3 DEF FileRules
  <2>q. QED BY <1>2, <1>3, <2>1, <2>3, <2>4, <2>5
<1>4. CASE ~(mapped /\ disk.file = "signed")
  BY <1>1, <1>2, <1>4 DEF FLockStorageImport, arrayVars
<1>q. QED BY <1>2, <1>3, <1>4

(* An export writes the rules of memory. *)
LEMMA ExportWritesMemory ==
    ASSUME IInv, FLockStorageExportOnDisk(TRUE), mapped
    PROVE  FileRules' = MemoryRules'
<1>1. disk' = Exported /\ UNCHANGED arrayVars
  BY DEF FLockStorageExportOnDisk
<1>2. /\ disk'.file = "signed"
      /\ disk'.length = arrayLength
      /\ \A i \in Cells : i \in Live => disk'.data[i] = flockArray[i]
  BY <1>1 DEF Exported
<1>3. Live \subseteq Cells
  BY StorageAssumption DEF Live, Cells, IInv, TypeOK
<1>4. FileRules' = {disk'.data[i] : i \in 0..(arrayLength - 1)}
  BY <1>2 DEF FileRules
<1>5. MemoryRules' = {flockArray[i] : i \in 0..(arrayLength - 1)}
  BY <1>1 DEF MemoryRules, Live, arrayVars
<1>q. QED BY <1>2, <1>3, <1>4, <1>5 DEF Live

(* Loading the map signs or extends a new file, which holds no rules before *)
(* or after.                                                               *)
LEMMA LoadKeepsRules ==
    ASSUME IInv, NEW ok \in BOOLEAN, FLockStorageLoadMap(ok)
    PROVE  FileRules' = FileRules /\ MemoryRules' = MemoryRules
<1>1. UNCHANGED <<flockArray, arrayLength>>
  BY DEF FLockStorageLoadMap, arrayVars
<1>2. CASE disk' = disk
  BY <1>1, <1>2, SameRules
<1>3. CASE disk' # disk
  <2>1. /\ disk.file = "empty"
        /\ \/ disk' = [disk EXCEPT !.file = "signed", !.length = 0]
           \/ disk' = [disk EXCEPT !.file = "unsigned"]
    BY <1>3 DEF FLockStorageLoadMap
  <2>2. disk'.file = "unsigned" \/ (disk'.file = "signed" /\ disk'.length = 0)
    BY <2>1 DEF IInv, TypeOK
  <2>3. FileRules = {} /\ FileRules' = {}
    BY <2>1, <2>2 DEF FileRules
  <2>q. QED BY <1>1, <2>3 DEF MemoryRules, Live
<1>q. QED BY <1>2, <1>3

(* A handler that does not mark the rules as changed left them alone. *)
LEMMA HandlersMarkChanges ==
    ASSUME IInv, ThreadsOK, FLockDeviceControlDispatcher, ~dirty'
    PROVE  ~dirty /\ UNCHANGED <<flockArray, arrayLength, disk>>
<1>1. PICK c \in Client :
          \/ \E id \in Id, flags \in Policy : AddLookup(c, id, flags)
          \/ \E id \in Id, flag \in UNION Policy, toSet \in BOOLEAN :
                UpdateLookup(c, id, flag, toSet)
          \/ \E id \in Id : RemoveRule(c, id)
          \/ AddRule(c) \/ UpdateRule(c)
          \/ ClearRules(c) \/ ClearExport(c) \/ RequestFlush(c)
  BY DEF FLockDeviceControlDispatcher
<1>2. CASE UNCHANGED <<vars, dirty>>
  BY <1>2 DEF vars, arrayVars, fileVars
<1>3. CASE \E id \in Id : RemoveRule(c, id)
  BY <1>3 DEF RemoveRule, FLockStorageRemove, RemoveFound, RemoveAbsent, arrayVars,
              fileVars
<1>4. CASE AddRule(c)
  <2>1. ~dirty /\ arrayLength' = arrayLength
    BY <1>4, Zenon DEF AddRule
  <2>3. arrayLength + 1 # arrayLength
    BY DEF IInv, TypeOK
  <2>2. FLockStorageAdd(request[c].id, request[c].flags)
    BY <1>4 DEF AddRule
  <2>q. QED
    BY <2>1, <2>2, <2>3 DEF FLockStorageAdd, AddPresent, AddAllocFails, AddNoArray,
              AddInPlace, AddGrow, StoreNew, arrayVars, fileVars
<1>5. CASE UpdateRule(c)
  <2>1. ~dirty /\ ~FLockStorageIsPresent(request[c].id)
    BY <1>5 DEF UpdateRule
  <2>2. FLockStorageUpdateFlags(request[c].id, request[c].flags)
    BY <1>5 DEF UpdateRule
  <2>3. \A i \in DOMAIN flockArray : ~FoundAt(request[c].id, i)
    BY <2>1 DEF FoundAt, FLockStorageIsPresent
  <2>4. flockArray' = [i \in DOMAIN flockArray |-> flockArray[i]]
    BY <2>2, <2>3 DEF FLockStorageUpdateFlags
  <2>5. flockArray' = flockArray
    BY <2>4 DEF IInv, TypeOK
  <2>q. QED BY <2>1, <2>2, <2>5 DEF FLockStorageUpdateFlags, fileVars
<1>6. CASE ClearRules(c)
  BY <1>6 DEF ClearRules
<1>7. CASE ClearExport(c)
  BY <1>7 DEF ClearExport, ExportRules, FLockStorageExportOnDisk, arrayVars, fileVars,
              historyVars
<1>q. QED
  BY <1>1, <1>2, <1>3, <1>4, <1>5, <1>6, <1>7
     DEF AddLookup, UpdateLookup, RequestFlush, historyVars

(* Every step keeps the agreement of file and memory. *)
LEMMA FilePathKept ==
    ASSUME MayFail = {}, IInv, ThreadsOK, dirty \in BOOLEAN, FilePath,
           [DriverNext]_driverVars
    PROVE  FilePath'
<1>1. ASSUME UNCHANGED <<flockArray, arrayLength, disk, mapped, opened, entry, dirty>>
      PROVE  FilePath'
  BY <1>1, SameRules DEF FilePath
<1>2. ASSUME NEW ok \in BOOLEAN, FLockStorageOpenFile(ok)
      PROVE  /\ ok /\ opened'
             /\ UNCHANGED <<flockArray, arrayLength, disk, mapped>>
  BY <1>2 DEF FLockStorageOpenFile, arrayVars
<1>3. ASSUME NEW ok \in BOOLEAN, FLockStorageLoadMap(ok)
      PROVE  ok /\ UNCHANGED <<flockArray, arrayLength, opened>>
  BY <1>3 DEF FLockStorageLoadMap, arrayVars
<1>4. CASE DriverEntry
  <2>1. ASSUME NEW ok \in BOOLEAN, EntryOpen(ok)
        PROVE  FilePath'
    <3>1. entry = "open" /\ entry' = "load" /\ opened' /\ arrayLength' = arrayLength
      BY <1>2, <2>1 DEF EntryOpen
    <3>q. QED BY <3>1 DEF FilePath
  <2>2. ASSUME NEW ok \in BOOLEAN, EntryLoad(ok)
        PROVE  FilePath'
    <3>1. entry = "load" /\ entry' = "import" /\ arrayLength' = arrayLength /\ opened
      BY <1>3, <2>2 DEF EntryLoad, FilePath
    <3>2. mapped'
      BY <1>3, <2>2, <3>1 DEF EntryLoad, FLockStorageLoadMap
    <3>q. QED BY <3>1, <3>2 DEF FilePath
  <2>3. ASSUME NEW ok \in BOOLEAN, EntryImport(ok)
        PROVE  FilePath'
    <3>1. entry = "import" /\ entry' = "unload" /\ mapped /\ arrayLength = 0
      BY <2>3 DEF EntryImport, FilePath
    <3>2. FLockStorageImport(ok)
      BY <2>3 DEF EntryImport, ImportRules
    <3>3. CASE disk.file = "signed"
      BY <3>1, <3>2, <3>3, ImportReadsFile DEF FilePath
    <3>4. CASE disk.file # "signed"
      <4>1. FileRules' = FileRules /\ MemoryRules' = MemoryRules
        BY <3>2, <3>4, ImportReadsFile, SameRules
      <4>2. FileRules = {}
        BY <3>4 DEF FileRules
      <4>3. MemoryRules = {}
        BY <3>1 DEF MemoryRules, Live
      <4>q. QED BY <3>1, <4>1, <4>2, <4>3 DEF FilePath
    <3>q. QED BY <3>3, <3>4
  <2>4. CASE EntryUnload
    <3>1. /\ entry = "unload" /\ entry' = "up"
          /\ UNCHANGED <<flockArray, arrayLength, disk, dirty>>
      BY <2>4 DEF EntryUnload, FLockStorageUnloadMap, historyVars, arrayVars
    <3>q. QED BY <3>1, SameRules DEF FilePath
  <2>q. QED BY <1>4, <2>1, <2>2, <2>3, <2>4 DEF DriverEntry
<1> DEFINE Agree == ~dirty => FileRules = MemoryRules
<1>5. ASSUME entry = "up", entry' = entry, Agree'
      PROVE  FilePath'
  BY <1>5 DEF FilePath
<1>6. entry = "up" => Agree
  BY DEF FilePath
<1>7. ASSUME UNCHANGED <<flockArray, arrayLength, disk, dirty>>, Agree
      PROVE  Agree'
  BY <1>7, SameRules
<1>8. ASSUME NEW ok \in BOOLEAN, FLockStorageLoadMap(ok), UNCHANGED dirty, Agree
      PROVE  Agree'
  BY <1>8, LoadKeepsRules
<1>9. CASE FLockStorageLoader
  <2>1. entry = "up" /\ entry' = entry /\ Agree
    BY <1>6, <1>9 DEF FLockStorageLoader
  <2>2. CASE LoaderStart \/ LoaderCheckLoaded \/ LoaderUnload
    BY <1>5, <1>7, <2>1, <2>2
       DEF LoaderStart, LoaderCheckLoaded, LoaderUnload, FLockStorageUnloadMap,
           vars, arrayVars, fileVars, historyVars
  <2>3. CASE \E ok \in BOOLEAN : LoaderOpen(ok)
    BY <1>2, <1>5, <1>7, <2>1, <2>3
       DEF LoaderOpen, vars, arrayVars, fileVars, historyVars
  <2>4. CASE \E ok \in BOOLEAN : LoaderLoad(ok)
    BY <1>5, <1>8, <2>1, <2>4 DEF LoaderLoad, historyVars
  <2>5. ASSUME NEW ok \in BOOLEAN, LoaderImport(ok)
        PROVE  FilePath'
    <3>1. FLockStorageImport(ok)
      BY <2>5 DEF LoaderImport, ImportRules
    <3>2. CASE mapped /\ disk.file = "signed"
      BY <1>5, <2>1, <3>1, <3>2, ImportReadsFile
    <3>3. CASE ~(mapped /\ disk.file = "signed")
      <4>1. dirty' = dirty
        <5>1. dirty' = (dirty /\ ~(mapped /\ disk.file = "signed" /\ ok))
          BY <2>5 DEF LoaderImport, ImportRules
        <5>2. dirty \in BOOLEAN
          OBVIOUS
        <5>q. QED BY <3>3, <5>1, <5>2, Zenon
      <4>q. QED BY <1>5, <1>7, <2>1, <3>1, <3>3, <4>1, ImportReadsFile
    <3>q. QED BY <3>2, <3>3
  <2>q. QED BY <1>9, <2>2, <2>3, <2>4, <2>5 DEF FLockStorageLoader
<1>10. CASE FLockStorageFlusher
  <2>1. entry = "up" /\ entry' = entry /\ Agree
    BY <1>6, <1>10 DEF FLockStorageFlusher
  <2>2. CASE \/ FlusherWake \/ FlusherCheckOpened \/ FlusherCheckLoaded
             \/ FlusherUnload \/ FlusherCheckStop
    BY <1>5, <1>7, <2>1, <2>2
       DEF FlusherWake, FlusherCheckOpened, FlusherCheckLoaded, FlusherUnload,
           FlusherCheckStop, FLockStorageUnloadMap, vars, arrayVars, fileVars,
           historyVars
  <2>3. CASE \E ok \in BOOLEAN : FlusherLoad(ok)
    BY <1>5, <1>8, <2>1, <2>3 DEF FlusherLoad, historyVars
  <2>4. CASE FlusherExport
    <3>1. FLockStorageExportOnDisk(TRUE)
      BY <2>4 DEF FlusherExport, ExportRules
    <3>2. CASE mapped
      BY <1>5, <2>1, <3>1, <3>2, ExportWritesMemory
    <3>3. CASE ~mapped
      BY <1>5, <1>7, <2>1, <2>4, <3>3
         DEF FlusherExport, ExportRules, FLockStorageExportOnDisk, arrayVars,
             historyVars
    <3>q. QED BY <3>2, <3>3
  <2>q. QED BY <1>10, <2>2, <2>3, <2>4 DEF FLockStorageFlusher
<1>11. CASE FLockDeviceControlDispatcher
  <2>1. entry = "up" /\ entry' = entry /\ Agree
    BY <1>6, <1>11 DEF FLockDeviceControlDispatcher
  <2>2. ASSUME ~dirty' PROVE FileRules' = MemoryRules'
    BY <1>11, <2>1, <2>2, HandlersMarkChanges, SameRules
  <2>q. QED BY <1>5, <2>1, <2>2
<1>12. CASE DriverUnload
  <2>1. entry = "up" /\ entry' = entry /\ Agree
    BY <1>6, <1>12 DEF DriverUnload, threadVars
  <2>q. QED
    BY <1>5, <1>7, <1>12, <2>1
       DEF DriverUnload, FLockStopInternals, StopRaise, StopSignal, StopClose,
           FreeStorage, FLockStorageCloseFile, vars, arrayVars, fileVars, historyVars
<1>13. CASE RunUnloaded \/ UNCHANGED driverVars
  BY <1>1, <1>13 DEF RunUnloaded, driverVars, vars, arrayVars, fileVars, threadVars,
                     historyVars
<1>q. QED BY <1>4, <1>9, <1>10, <1>11, <1>12, <1>13 DEF DriverNext

(* When no call fails, a driver whose rules did not change since the last  *)
(* export or import has just those rules in its file, for any number of    *)
(* clients and identifiers and whatever file it was started over.          *)
THEOREM FileIsMemory ==
    ASSUME MayFail = {}
    PROVE  DriverSpec => []FileMatchesMemory
<1>1. DriverInit => FilePath
  BY DEF DriverInit, InitMemory, FilePath
<1>2. DInv /\ FilePath /\ [DriverNext]_driverVars => FilePath'
  BY FilePathKept DEF DInv, HistoryOK
<1>3. FilePath => FileMatchesMemory
  BY DEF FilePath, FileMatchesMemory
<1>q. QED BY <1>1, <1>2, <1>3, AlwaysDInv, PTL DEF DriverSpec

-----------------------------------------------------------------------------
(* What an add, a removal and an update do to the rules of the array.      *)

(* An add leaves the array alone, or counts one slot more and keeps the    *)
(* live ones: the misplaced write never lands on a live slot.              *)
LEMMA AddKeepsLive ==
    ASSUME IInv, NEW id \in Id, NEW flags \in Policy, FLockStorageAdd(id, flags)
    PROVE  \/ UNCHANGED arrayVars
           \/ /\ ~FLockStorageIsPresent(id)
              /\ arrayLength' = arrayLength + 1
              /\ \A i \in Live : flockArray'[i] = flockArray[i]
              /\ NewEntrySlot = arrayLength =>
                    flockArray'[arrayLength] = [id |-> id, flags |-> flags]
<1> USE StorageAssumption
<1>1. /\ arrayLength \in Nat
      /\ arrayMaxLength \in Nat
      /\ flockArray \in [0..(arrayMaxLength - 1) -> Slot]
      /\ arrayMaxLength > 0 => arrayLength < arrayMaxLength
  BY DEF IInv, TypeOK, SpareSlot
<1>2. NewEntrySlot \in Nat /\ NewEntrySlot >= arrayLength
  <2>1. \A m \in Nat, n \in Nat \ {0} : m * n \in Nat /\ m * n >= m
    BY SMT
  <2>q. QED BY <1>1, <2>1 DEF NewEntrySlot
<1>3. ASSUME NEW t, NEW max \in Nat, DOMAIN t = 0..(max - 1), arrayLength + 1 < max,
             \A i \in Live : t[i] = flockArray[i],
             ~FLockStorageIsPresent(id), StoreNew(t, id, flags)
      PROVE  /\ arrayLength' = arrayLength + 1
             /\ \A i \in Live : flockArray'[i] = flockArray[i]
             /\ NewEntrySlot = arrayLength =>
                   flockArray'[arrayLength] = [id |-> id, flags |-> flags]
  <2>1. CASE NewEntrySlot \in DOMAIN t
    <3>1. flockArray' = [t EXCEPT ![NewEntrySlot] = [id |-> id, flags |-> flags]]
      BY <1>3, <2>1 DEF StoreNew
    <3>2. \A i \in Live : i # NewEntrySlot /\ i \in DOMAIN t
      BY <1>1, <1>2, <1>3 DEF Live
    <3>3. flockArray'[NewEntrySlot] = [id |-> id, flags |-> flags]
      BY <2>1, <3>1
    <3>4. \A i \in Live : flockArray'[i] = t[i]
      BY <3>1, <3>2
    <3>q. QED BY <1>3, <3>3, <3>4 DEF StoreNew
  <2>2. CASE NewEntrySlot \notin DOMAIN t
    <3>1. flockArray' = t
      BY <1>3, <2>2 DEF StoreNew
    <3>2. NewEntrySlot # arrayLength
      BY <1>1, <1>3, <2>2
    <3>q. QED BY <1>3, <3>1, <3>2 DEF StoreNew
  <2>q. QED BY <2>1, <2>2
<1>4. CASE AddPresent(id) \/ AddAllocFails(id) \/ AddNoArray(id)
  BY <1>4 DEF AddPresent, AddAllocFails, AddNoArray
<1>5. CASE AddInPlace(id, flags)
  <2>1. arrayLength + 1 < arrayMaxLength
    BY <1>1, <1>5 DEF AddInPlace, MustGrow
  <2>q. QED BY <1>1, <1>3, <1>5, <2>1 DEF AddInPlace
<1>6. CASE AddGrow(id, flags)
  <2>1. arrayMaxLength > 0 /\ ~FLockStorageIsPresent(id)
    BY <1>6 DEF AddGrow
  <2>2. PICK junk \in Junk :
           StoreNew([i \in 0..(2 * arrayMaxLength - 1) |->
                        IF i \in Live THEN flockArray[i] ELSE junk], id, flags)
    BY <1>6 DEF AddGrow
  <2> DEFINE t == [i \in 0..(2 * arrayMaxLength - 1) |->
                      IF i \in Live THEN flockArray[i] ELSE junk]
  <2>3. \A i \in Live : t[i] = flockArray[i]
    BY <1>1, <2>1 DEF Live
  <2>4. arrayLength + 1 < 2 * arrayMaxLength /\ 2 * arrayMaxLength \in Nat
    BY <1>1, <2>1
  <2>5. StoreNew(t, id, flags)
    BY <2>2
  <2>6. DOMAIN t = 0..(2 * arrayMaxLength - 1)
    OBVIOUS
  <2> HIDE DEF t
  <2>q. QED BY <1>3, <2>1, <2>3, <2>4, <2>5, <2>6
<1>q. QED BY <1>4, <1>5, <1>6 DEF FLockStorageAdd

(* So an add brings in at most one rule and takes out none. *)
LEMMA AddChangesOne ==
    ASSUME IInv, NEW id \in Id, NEW flags \in Policy, FLockStorageAdd(id, flags)
    PROVE  /\ MemoryRules \subseteq MemoryRules'
           /\ \E new \in Slot : MemoryRules' \subseteq MemoryRules \cup {new}
<1>1. IInv'
  BY AddKeepsIInv
<1>2. Blank \in Slot
  BY BlankIsSlot
<1>3. CASE UNCHANGED arrayVars
  BY <1>2, <1>3 DEF arrayVars, MemoryRules, Live
<1>4. CASE /\ arrayLength' = arrayLength + 1
           /\ \A i \in Live : flockArray'[i] = flockArray[i]
  <2>1. arrayLength \in Nat /\ flockArray'[arrayLength] \in Slot
    <3>1. arrayLength \in Nat
      BY DEF IInv, TypeOK
    <3>2. arrayMaxLength' \in Nat /\ arrayLength' = arrayLength + 1
      BY <1>1, <1>4 DEF IInv, TypeOK
    <3>3. flockArray' \in [0..(arrayMaxLength' - 1) -> Slot]
      BY <1>1 DEF IInv, TypeOK
    <3>4. arrayLength + 1 < arrayMaxLength'
      BY <1>1, <3>1, <3>2 DEF IInv, SpareSlot
    <3>5. arrayLength \in 0..(arrayMaxLength' - 1)
      <4>1. \A m, n \in Nat : n + 1 < m => n \in 0..(m - 1)
        OBVIOUS
      <4>q. QED BY ONLY <3>1, <3>2, <3>4, <4>1
    <3>q. QED BY ONLY <3>1, <3>3, <3>5
  <2>2. Live' = Live \cup {arrayLength}
    BY <1>4, <2>1 DEF Live
  <2>q. QED BY <1>4, <2>1, <2>2 DEF MemoryRules
<1>q. QED BY <1>3, <1>4, AddKeepsLive

(* A removal takes out the rule of the first slot, or none. *)
LEMMA RemoveChangesOne ==
    ASSUME IInv, NEW id \in Id, FLockStorageRemove(id)
    PROVE  /\ MemoryRules' \subseteq MemoryRules
           /\ \E gone \in Slot : MemoryRules \ {gone} \subseteq MemoryRules'
<1>1. CASE RemoveFound(id)
  <2>1. /\ arrayLength \in Nat \ {0}
        /\ arrayLength' = arrayLength - 1
        /\ arrayLength < arrayMaxLength
        /\ arrayMaxLength \in Nat
        /\ flockArray \in [0..(arrayMaxLength - 1) -> Slot]
        /\ flockArray' = [flockArray EXCEPT ![0] = flockArray[arrayLength - 1]]
    BY <1>1 DEF RemoveFound, FLockStorageIsPresent, Live, IInv, TypeOK, SpareSlot
  <2>2. flockArray[0] \in Slot
    BY <2>1
  <2>3. MemoryRules = {flockArray[i] : i \in 0..(arrayLength - 1)}
    BY DEF MemoryRules, Live
  <2>4. MemoryRules' = {flockArray'[i] : i \in 0..(arrayLength - 2)}
    BY <2>1 DEF MemoryRules, Live
  <2>5. \A i \in 0..(arrayLength - 2) :
           flockArray'[i] = IF i = 0 THEN flockArray[arrayLength - 1] ELSE flockArray[i]
    BY <2>1
  <2>6. MemoryRules' \subseteq MemoryRules
    BY <2>1, <2>3, <2>4, <2>5
  <2>7. ASSUME NEW i \in 0..(arrayLength - 1), flockArray[i] # flockArray[0]
        PROVE  flockArray[i] \in MemoryRules'
    <3>1. CASE i = arrayLength - 1
      <4>1. 0 \in 0..(arrayLength - 2) /\ flockArray'[0] = flockArray[i]
        BY <2>1, <2>5, <2>7, <3>1
      <4>q. QED BY <2>4, <4>1
    <3>2. CASE i # arrayLength - 1
      <4>1. i \in 0..(arrayLength - 2) /\ flockArray'[i] = flockArray[i]
        BY <2>1, <2>5, <2>7, <3>2
      <4>q. QED BY <2>4, <4>1
    <3>q. QED BY <3>1, <3>2
  <2>q. QED BY <2>2, <2>3, <2>6, <2>7
<1>2. CASE RemoveAbsent(id)
  BY <1>2, BlankIsSlot DEF RemoveAbsent, arrayVars, MemoryRules, Live
<1>q. QED BY <1>1, <1>2 DEF FLockStorageRemove

(* An update exchanges the flags of one slot, which keeps its identifier. *)
LEMMA UpdateChangesOne ==
    ASSUME IInv, NEW id \in Id, NEW flags \in Policy \cup {{}},
           FLockStorageUpdateFlags(id, flags)
    PROVE  /\ Ids(MemoryRules)' = Ids(MemoryRules)
           /\ \E gone, new \in Slot :
                 /\ MemoryRules \ {gone} \subseteq MemoryRules'
                 /\ MemoryRules' \subseteq MemoryRules \cup {new}
<1>1. /\ arrayLength' = arrayLength
      /\ Live' = Live
      /\ \A i \in Live : i \in DOMAIN flockArray /\ flockArray[i] \in Slot
      /\ flockArray' = [i \in DOMAIN flockArray |->
                          IF FoundAt(id, i)
                          THEN [flockArray[i] EXCEPT !.flags = flags]
                          ELSE flockArray[i]]
  BY DEF FLockStorageUpdateFlags, IInv, TypeOK, SpareSlot, Live
<1>2. \A i \in Live : flockArray'[i].id = flockArray[i].id
  <2>1. \A s \in Slot : [s EXCEPT !.flags = flags].id = s.id
    BY DEF Slot
  <2>q. QED BY <1>1, <2>1
<1>3. Ids(MemoryRules)' = Ids(MemoryRules)
  <2>1. Ids(MemoryRules) = {flockArray[i].id : i \in Live} \ {NoId}
    BY DEF Ids, MemoryRules
  <2>2. Ids(MemoryRules)' = {flockArray'[i].id : i \in Live} \ {NoId}
    BY <1>1 DEF Ids, MemoryRules
  <2>q. QED BY <1>2, <2>1, <2>2
<1>4. \A i, j \in Live : FoundAt(id, i) /\ FoundAt(id, j) => i = j
  <2>1. \A i, j \in Live : i < j => ~(FoundAt(id, i) /\ FoundAt(id, j))
    BY DEF FoundAt, Live, IInv, TypeOK
  <2>q. QED BY <2>1 DEF Live, IInv, TypeOK
<1>5. CASE \E i \in Live : FoundAt(id, i)
  <2>1. PICK i \in Live : FoundAt(id, i)
    BY <1>5
  <2>2. [flockArray[i] EXCEPT !.flags = flags] \in Slot
    BY <1>1 DEF Slot
  <2>3. \A j \in Live : j # i => flockArray'[j] = flockArray[j]
    BY <1>1, <1>4, <2>1
  <2>4. flockArray'[i] = [flockArray[i] EXCEPT !.flags = flags]
    BY <1>1, <2>1
  <2>5. /\ MemoryRules \ {flockArray[i]} \subseteq MemoryRules'
        /\ MemoryRules' \subseteq MemoryRules \cup {flockArray'[i]}
    BY <1>1, <2>3 DEF MemoryRules
  <2>q. QED BY <1>1, <1>3, <2>2, <2>4, <2>5
<1>6. CASE ~\E i \in Live : FoundAt(id, i)
  <2>1. \A i \in Live : flockArray'[i] = flockArray[i]
    BY <1>1, <1>6
  <2>2. MemoryRules' = MemoryRules
    BY <1>1, <2>1 DEF MemoryRules
  <2>q. QED BY <1>3, <2>2, BlankIsSlot
<1>q. QED BY <1>5, <1>6

-----------------------------------------------------------------------------
(* A rule that reached the file.                                           *)

(* What one remove takes out of memory besides what it was asked to. *)
RemovesOnly(id) == Ids(MemoryRules) \ {id} \subseteq Ids(MemoryRules)'

(* The rules of the file nobody asked to take out are in the file, and in  *)
(* memory too once DriverEntry imported them: the next export has them.    *)
KeptPath ==
    /\ kept \subseteq Ids(FileRules)
    /\ entry \in {"unload", "up"} => kept \subseteq Ids(MemoryRules)

(* Identifiers of more rules are more identifiers. *)
LEMMA IdsGrow ==
    ASSUME NEW R, NEW S, R \subseteq S
    PROVE  Ids(R) \subseteq Ids(S)
BY DEF Ids

(* A step that loses no identifier keeps the path. *)
LEMMA NothingLost ==
    ASSUME KeptPath, entry' \in {"unload", "up"} => entry \in {"unload", "up"},
           kept' \subseteq kept,
           kept' \subseteq Ids(FileRules) => kept' \subseteq Ids(FileRules)',
           kept' \subseteq Ids(MemoryRules) => kept' \subseteq Ids(MemoryRules)'
    PROVE  KeptPath'
BY DEF KeptPath

(* An import that can not fail brings every kept rule. *)
LEMMA ImportKeepsPath ==
    ASSUME MayFail = {}, IInv, KeptPath, NEW ok \in BOOLEAN, FLockStorageImport(ok),
           kept' = kept,
           entry' \in {"unload", "up"} =>
               \/ entry \in {"unload", "up"}
               \/ mapped
    PROVE  KeptPath'
<1>1. Ids(FileRules)' = Ids(FileRules)
  BY ImportReadsFile DEF Ids
<1>2. CASE mapped /\ disk.file = "signed"
  <2>1. Ids(MemoryRules)' = Ids(FileRules)'
    BY <1>2, ImportReadsFile DEF Ids
  <2>q. QED BY <1>1, <2>1 DEF KeptPath
<1>3. CASE disk.file # "signed"
  <2>1. kept = {}
    BY <1>3 DEF KeptPath, FileRules, Ids
  <2>q. QED BY <2>1 DEF KeptPath
<1>4. CASE ~mapped
  <2>1. Ids(MemoryRules)' = Ids(MemoryRules)
    BY <1>4, ImportReadsFile, SameRules DEF Ids
  <2>q. QED BY <1>1, <1>4, <2>1 DEF KeptPath
<1>q. QED BY <1>2, <1>3, <1>4

(* The handlers keep every rule nobody asked to take out, as long as a     *)
(* remove takes out no other rule than the one it is asked for.            *)
LEMMA HandlersKeepPath ==
    ASSUME IInv, ThreadsOK, KeptPath, FLockDeviceControlDispatcher,
           \A c \in Client, id \in Id : RemoveRule(c, id) => RemovesOnly(id)
    PROVE  KeptPath'
<1>1. PICK c \in Client :
          \/ \E id \in Id, flags \in Policy : AddLookup(c, id, flags)
          \/ \E id \in Id, flag \in UNION Policy, toSet \in BOOLEAN :
                UpdateLookup(c, id, flag, toSet)
          \/ \E id \in Id : RemoveRule(c, id)
          \/ AddRule(c) \/ UpdateRule(c)
          \/ ClearRules(c) \/ ClearExport(c) \/ RequestFlush(c)
  BY DEF FLockDeviceControlDispatcher
<1>2. entry = "up" /\ entry' = entry /\ kept \subseteq Ids(MemoryRules)
  BY DEF FLockDeviceControlDispatcher, KeptPath
<1>3. ASSUME disk' = disk PROVE Ids(FileRules)' = Ids(FileRules)
  BY <1>3 DEF FileRules, Ids
<1>4. CASE UNCHANGED <<flockArray, arrayLength, disk, kept>>
  <2>1. Ids(MemoryRules)' = Ids(MemoryRules)
    BY <1>4, SameRules DEF Ids
  <2>q. QED BY <1>2, <1>3, <1>4, <2>1, NothingLost
<1>5. CASE \E id \in Id : RemoveRule(c, id)
  <2>1. PICK id \in Id : RemoveRule(c, id)
    BY <1>5
  <2>2. disk' = disk /\ kept' = kept \ {id}
    BY <2>1 DEF RemoveRule, FLockStorageRemove, RemoveFound, RemoveAbsent, fileVars
  <2>3. kept' \subseteq Ids(MemoryRules)'
    BY <1>2, <2>1, <2>2 DEF RemovesOnly
  <2>q. QED BY <1>2, <1>3, <2>2, <2>3, NothingLost
<1>6. CASE AddRule(c)
  <2>1. FLockStorageAdd(request[c].id, request[c].flags) /\ kept' = kept /\ disk' = disk
    BY <1>6 DEF AddRule, FLockStorageAdd, AddPresent, AddAllocFails, AddNoArray,
                AddInPlace, AddGrow, StoreNew, fileVars
  <2>2. request[c].id \in Id /\ request[c].flags \in Policy
    BY <1>6, ParkedRequest DEF AddRule
  <2>3. MemoryRules \subseteq MemoryRules'
    BY <2>1, <2>2, AddChangesOne
  <2>4. Ids(MemoryRules) \subseteq Ids(MemoryRules)'
    BY <2>3 DEF Ids
  <2>q. QED BY <1>2, <1>3, <2>1, <2>4, NothingLost
<1>7. CASE UpdateRule(c)
  <2>1. /\ FLockStorageUpdateFlags(request[c].id, request[c].flags)
        /\ kept' = kept
        /\ disk' = disk
    BY <1>7 DEF UpdateRule, FLockStorageUpdateFlags, fileVars
  <2>2. request[c].id \in Id /\ request[c].flags \in Policy \cup {{}}
    BY <1>7, ParkedRequest DEF UpdateRule
  <2>3. Ids(MemoryRules)' = Ids(MemoryRules)
    BY <2>1, <2>2, UpdateChangesOne
  <2>q. QED BY <1>2, <1>3, <2>1, <2>3, NothingLost
<1>8. CASE ClearRules(c)
  BY <1>8 DEF ClearRules, KeptPath
<1>9. CASE ClearExport(c)
  BY <1>4, <1>9 DEF ClearExport, ExportRules, FLockStorageExportOnDisk, arrayVars,
                    historyVars
<1>q. QED
  BY <1>1, <1>4, <1>5, <1>6, <1>7, <1>8, <1>9
     DEF AddLookup, UpdateLookup, RequestFlush, vars, arrayVars, fileVars, historyVars

(* Every step keeps them, when no call fails. *)
LEMMA KeptPathStays ==
    ASSUME MayFail = {}, IInv, ThreadsOK, FilePath, KeptPath, [DriverNext]_driverVars,
           \A c \in Client, id \in Id : RemoveRule(c, id) => RemovesOnly(id)
    PROVE  KeptPath'
<1>1. ASSUME UNCHANGED <<flockArray, arrayLength, disk, kept>>,
             entry' \in {"unload", "up"} => entry \in {"unload", "up"}
      PROVE  KeptPath'
  <2>1. Ids(MemoryRules)' = Ids(MemoryRules) /\ Ids(FileRules)' = Ids(FileRules)
    BY <1>1, SameRules DEF Ids
  <2>q. QED BY <1>1, <2>1, NothingLost
<1>2. ASSUME NEW ok \in BOOLEAN, FLockStorageLoadMap(ok), kept' = kept,
             entry' \in {"unload", "up"} => entry \in {"unload", "up"}
      PROVE  KeptPath'
  <2>1. Ids(MemoryRules)' = Ids(MemoryRules) /\ Ids(FileRules)' = Ids(FileRules)
    BY <1>2, LoadKeepsRules DEF Ids
  <2>q. QED BY <1>2, <2>1, NothingLost
<1>3. CASE DriverEntry
  <2>1. ASSUME NEW ok \in BOOLEAN, EntryOpen(ok)
        PROVE  KeptPath'
    BY <1>1, <2>1 DEF EntryOpen, FLockStorageOpenFile, arrayVars, historyVars
  <2>2. ASSUME NEW ok \in BOOLEAN, EntryLoad(ok)
        PROVE  KeptPath'
    <3>1. ok
      BY <2>2 DEF EntryLoad, FLockStorageLoadMap
    <3>q. QED BY <1>2, <2>2, <3>1 DEF EntryLoad, historyVars
  <2>3. ASSUME NEW ok \in BOOLEAN, EntryImport(ok)
        PROVE  KeptPath'
    BY <2>3, ImportKeepsPath DEF EntryImport, ImportRules, FilePath
  <2>4. CASE EntryUnload
    BY <1>1, <2>4 DEF EntryUnload, FLockStorageUnloadMap, arrayVars, historyVars
  <2>q. QED BY <1>3, <2>1, <2>2, <2>3, <2>4 DEF DriverEntry
<1>4. CASE FLockStorageLoader
  <2>1. entry = "up" /\ entry' = entry
    BY <1>4 DEF FLockStorageLoader
  <2>2. CASE LoaderStart \/ LoaderCheckLoaded \/ LoaderUnload
             \/ \E ok \in BOOLEAN : LoaderOpen(ok)
    BY <1>1, <2>1, <2>2
       DEF LoaderStart, LoaderCheckLoaded, LoaderUnload, LoaderOpen,
           FLockStorageUnloadMap, FLockStorageOpenFile, vars, arrayVars, fileVars,
           historyVars
  <2>3. CASE \E ok \in BOOLEAN : LoaderLoad(ok)
    BY <1>2, <2>1, <2>3 DEF LoaderLoad, historyVars
  <2>4. CASE \E ok \in BOOLEAN : LoaderImport(ok)
    BY <2>1, <2>4, ImportKeepsPath DEF LoaderImport, ImportRules
  <2>q. QED BY <1>4, <2>2, <2>3, <2>4 DEF FLockStorageLoader
<1>5. CASE FLockStorageFlusher
  <2>1. entry = "up" /\ entry' = entry
    BY <1>5 DEF FLockStorageFlusher
  <2>2. CASE \/ FlusherWake \/ FlusherCheckOpened \/ FlusherCheckLoaded
             \/ FlusherUnload \/ FlusherCheckStop
    BY <1>1, <2>1, <2>2
       DEF FlusherWake, FlusherCheckOpened, FlusherCheckLoaded, FlusherUnload,
           FlusherCheckStop, FLockStorageUnloadMap, vars, arrayVars, fileVars,
           historyVars
  <2>3. CASE \E ok \in BOOLEAN : FlusherLoad(ok)
    BY <1>2, <2>1, <2>3 DEF FlusherLoad, historyVars
  <2>4. CASE FlusherExport
    <3>1. FLockStorageExportOnDisk(TRUE)
      BY <2>4 DEF FlusherExport, ExportRules
    <3>2. CASE mapped
      <4>1. FileRules' = MemoryRules'
        BY <3>1, <3>2, ExportWritesMemory
      <4>2. MemoryRules' = MemoryRules
        BY <3>1 DEF FLockStorageExportOnDisk, arrayVars, MemoryRules, Live
      <4>3. kept' = kept \cup Ids(MemoryRules)
        BY <2>4, <3>2 DEF FlusherExport, ExportRules
      <4>4. Ids(FileRules)' = Ids(MemoryRules) /\ Ids(MemoryRules)' = Ids(MemoryRules)
        BY <4>1, <4>2 DEF Ids
      <4>q. QED BY <2>1, <4>3, <4>4 DEF KeptPath
    <3>3. CASE ~mapped
      BY <1>1, <2>1, <2>4, <3>3
         DEF FlusherExport, ExportRules, FLockStorageExportOnDisk, arrayVars,
             historyVars
    <3>q. QED BY <3>2, <3>3
  <2>q. QED BY <1>5, <2>2, <2>3, <2>4 DEF FLockStorageFlusher
<1>6. CASE FLockDeviceControlDispatcher
  BY <1>6, HandlersKeepPath
<1>7. CASE DriverUnload \/ RunUnloaded \/ UNCHANGED driverVars
  BY <1>1, <1>7
     DEF DriverUnload, FLockStopInternals, StopRaise, StopSignal, StopClose,
         FreeStorage, FLockStorageCloseFile, RunUnloaded, driverVars, threadVars,
         historyVars, vars, arrayVars, fileVars
<1>q. QED BY <1>3, <1>4, <1>5, <1>6, <1>7 DEF DriverNext

(* A driver that boots without a failing call loses a stored rule by       *)
(* nothing but a remove that was asked for another one (the hidden         *)
(* removingPos of FLockStorageRemove): no add, update, flush or import,    *)
(* in any order of any number of clients, drops one.                       *)
THEOREM OnlyRemoveLosesRules ==
    ASSUME MayFail = {}
    PROVE  DriverSpec /\ [][\A c \in Client, id \in Id :
                               RemoveRule(c, id) => RemovesOnly(id)]_driverVars
           => []StoredRuleStays
<1> DEFINE Own == \A c \in Client, id \in Id : RemoveRule(c, id) => RemovesOnly(id)
<1>1. DriverInit => FilePath /\ KeptPath
  BY DEF DriverInit, InitMemory, FilePath, KeptPath
<1>2. DInv /\ FilePath /\ [DriverNext]_driverVars => FilePath'
  BY FilePathKept DEF DInv, HistoryOK
<1>3. ASSUME DInv, FilePath, KeptPath, [DriverNext]_driverVars, [Own]_driverVars
      PROVE  KeptPath'
  <2>1. CASE Own
    BY <1>3, <2>1, KeptPathStays DEF DInv
  <2>2. CASE UNCHANGED driverVars
    <3>1. Ids(MemoryRules)' = Ids(MemoryRules) /\ Ids(FileRules)' = Ids(FileRules)
      BY <2>2, SameRules DEF driverVars, vars, arrayVars, fileVars, Ids
    <3>q. QED
      BY <1>3, <2>2, <3>1, NothingLost DEF driverVars, threadVars, historyVars
  <2>q. QED BY <1>3, <2>1, <2>2
<1>4. KeptPath => StoredRuleStays
  BY DEF KeptPath, StoredRuleStays
<1>q. QED BY <1>1, <1>2, <1>3, <1>4, AlwaysDInv, PTL DEF DriverSpec

(* With one identifier a remove has no other rule to take: a stored rule   *)
(* stays until it is removed or the storage is cleared.                    *)
THEOREM OneStoredRuleStays ==
    ASSUME MayFail = {}, NEW x, Id = {x}
    PROVE  DriverSpec => []StoredRuleStays
<1>1. DInv => \A c \in Client, id \in Id : RemoveRule(c, id) => RemovesOnly(id)
  <2>1. DInv => Ids(MemoryRules) \subseteq {x}
    BY MemoryIds DEF DInv
  <2>q. QED BY <2>1 DEF RemovesOnly
<1>2. DInv /\ [DriverNext]_driverVars =>
         [\A c \in Client, id \in Id : RemoveRule(c, id) => RemovesOnly(id)]_driverVars
  BY <1>1
<1>q. QED BY <1>2, AlwaysDInv, OnlyRemoveLosesRules, PTL DEF DriverSpec

-----------------------------------------------------------------------------
(* One entry per identifier.                                               *)

(* A file whose rules have different identifiers, none of them blank. *)
SoundFile(d) ==
    d.file = "signed" =>
        \A i, j \in 0..(d.length - 1) :
            d.data[i].id \in Id /\ (d.data[i].id = d.data[j].id => i = j)

(* An add that counts one slot more has written just that slot. *)
WellPlaced(c) == AddRule(c) /\ arrayLength' # arrayLength => NewEntrySlot = arrayLength

(* Neither memory nor the file holds an identifier twice, or a blank one.  *)
OnceInv ==
    /\ \A i \in Live : flockArray[i].id \in Id
    /\ OneEntryPerId
    /\ SoundFile(disk)

(* The three parts look at the array and the file only. *)
LEMMA SameOnce ==
    ASSUME OnceInv, UNCHANGED <<flockArray, arrayLength>>, SoundFile(disk')
    PROVE  OnceInv'
<1>1. Live' = Live
  BY DEF Live
<1>2. (\A i \in Live : flockArray[i].id \in Id)' /\ OneEntryPerId'
  BY <1>1 DEF OnceInv, OneEntryPerId
<1>q. QED BY <1>2 DEF OnceInv, SoundFile

(* An import takes the file's rules, none, or leaves the array alone. *)
LEMMA ImportKeepsOnce ==
    ASSUME IInv, OnceInv, NEW ok \in BOOLEAN, FLockStorageImport(ok)
    PROVE  OnceInv'
<1>1. disk' = disk /\ disk.length \in Nat /\ disk.length <= MaxLength
  BY StorageAssumption DEF IInv, TypeOK, FLockStorageImport, fileVars
<1>2. SoundFile(disk)'
  BY <1>1 DEF OnceInv, SoundFile
<1>3. CASE UNCHANGED arrayVars
  BY <1>1, <1>3, SameOnce DEF arrayVars, OnceInv
<1>4. CASE arrayLength' = 0
  BY <1>2, <1>4 DEF OnceInv, OneEntryPerId, Live
<1> DEFINE size == IF disk.length < BaseSize THEN BaseSize ELSE 2 * disk.length
<1>5. CASE /\ disk.file = "signed"
           /\ arrayLength' = disk.length
           /\ flockArray' = [i \in 0..(size - 1) |->
                                IF i \in Cells THEN disk.data[i] ELSE Blank]
  <2>1. size \in Nat /\ disk.length <= size
    BY <1>1, StorageAssumption
  <2>2. \A i \in 0..(disk.length - 1) : i \in 0..(size - 1) /\ i \in Cells
    BY <1>1, <2>1, StorageAssumption DEF Cells
  <2> HIDE DEF size
  <2>3. \A i \in 0..(disk.length - 1) : flockArray'[i] = disk.data[i]
    BY <1>5, <2>2
  <2>4. Live' = 0..(disk.length - 1)
    BY <1>5 DEF Live
  <2>5. \A i, j \in 0..(disk.length - 1) :
           disk.data[i].id \in Id /\ (disk.data[i].id = disk.data[j].id => i = j)
    BY <1>5 DEF OnceInv, SoundFile
  <2>6. (\A i \in Live : flockArray[i].id \in Id)'
    BY <2>3, <2>4, <2>5
  <2>7. OneEntryPerId'
    BY <2>3, <2>4, <2>5 DEF OneEntryPerId
  <2>q. QED BY <1>2, <2>6, <2>7 DEF OnceInv
<1>q. QED BY <1>3, <1>4, <1>5 DEF FLockStorageImport

(* An export writes what memory holds. *)
LEMMA ExportKeepsOnce ==
    ASSUME IInv, OnceInv, NEW inSystem \in BOOLEAN, FLockStorageExportOnDisk(inSystem)
    PROVE  OnceInv'
<1>1. UNCHANGED <<flockArray, arrayLength>>
  BY DEF FLockStorageExportOnDisk, arrayVars
<1>2. CASE disk' = disk
  BY <1>1, <1>2, SameOnce DEF OnceInv
<1>3. CASE disk' = Exported
  <2>1. Live \subseteq Cells /\ Live = 0..(arrayLength - 1)
    BY StorageAssumption DEF Live, Cells, IInv, TypeOK
  <2>2. disk'.length = arrayLength /\ \A i \in Live : disk'.data[i] = flockArray[i]
    BY <1>3, <2>1 DEF Exported
  <2>3. SoundFile(disk')
    BY <2>1, <2>2 DEF SoundFile, OnceInv, OneEntryPerId
  <2>q. QED BY <1>1, <2>3, SameOnce
<1>q. QED BY <1>2, <1>3 DEF FLockStorageExportOnDisk

(* Signing or extending a new file leaves it without rules. *)
LEMMA LoadKeepsOnce ==
    ASSUME IInv, OnceInv, NEW ok \in BOOLEAN, FLockStorageLoadMap(ok)
    PROVE  OnceInv'
<1>1. UNCHANGED <<flockArray, arrayLength>>
  BY DEF FLockStorageLoadMap, arrayVars
<1>2. SoundFile(disk')
  <2>1. CASE disk' = disk
    BY <2>1 DEF OnceInv
  <2>2. CASE disk' = [disk EXCEPT !.file = "signed", !.length = 0]
    <3>1. disk'.length = 0
      BY <2>2 DEF IInv, TypeOK
    <3>q. QED BY <3>1 DEF SoundFile
  <2>3. CASE disk' = [disk EXCEPT !.file = "unsigned"]
    <3>1. disk'.file # "signed"
      BY <2>3 DEF IInv, TypeOK
    <3>q. QED BY <3>1 DEF SoundFile
  <2>q. QED BY <2>1, <2>2, <2>3 DEF FLockStorageLoadMap
<1>q. QED BY <1>1, <1>2, SameOnce

(* A well placed add brings an identifier that was not there. *)
LEMMA AddKeepsOnce ==
    ASSUME IInv, OnceInv, NEW id \in Id, NEW flags \in Policy,
           FLockStorageAdd(id, flags),
           arrayLength' # arrayLength => NewEntrySlot = arrayLength
    PROVE  OnceInv'
<1>1. disk' = disk
  BY DEF FLockStorageAdd, AddPresent, AddAllocFails, AddNoArray, AddInPlace, AddGrow,
         StoreNew, fileVars
<1>2. CASE UNCHANGED arrayVars
  BY <1>1, <1>2, SameOnce DEF arrayVars, OnceInv
<1>3. CASE /\ ~FLockStorageIsPresent(id)
           /\ arrayLength' = arrayLength + 1
           /\ \A i \in Live : flockArray'[i] = flockArray[i]
           /\ NewEntrySlot = arrayLength =>
                 flockArray'[arrayLength] = [id |-> id, flags |-> flags]
  <2>1. arrayLength \in Nat
    BY DEF IInv, TypeOK
  <2>2. Live' = Live \cup {arrayLength} /\ arrayLength \notin Live
    BY <1>3, <2>1 DEF Live
  <2>3. flockArray'[arrayLength].id = id
    BY <1>3, <2>1
  <2>4. \A i \in Live : flockArray[i].id # id
    BY <1>3 DEF FLockStorageIsPresent
  <2>q. QED
    BY <1>1, <1>3, <2>2, <2>3, <2>4 DEF OnceInv, OneEntryPerId, SoundFile
<1>q. QED BY <1>2, <1>3, AddKeepsLive

(* A removal moves the identifier of the tail and counts one slot less. *)
LEMMA RemoveKeepsOnce ==
    ASSUME IInv, OnceInv, NEW id \in Id, FLockStorageRemove(id)
    PROVE  OnceInv'
<1>1. CASE RemoveFound(id)
  <2>1. /\ arrayLength \in Nat \ {0}
        /\ arrayLength' = arrayLength - 1
        /\ flockArray' = [flockArray EXCEPT ![0] = flockArray[arrayLength - 1]]
        /\ disk' = disk
    BY <1>1 DEF RemoveFound, FLockStorageIsPresent, Live, IInv, TypeOK, fileVars
  <2>2. arrayMaxLength \in Nat /\ arrayLength < arrayMaxLength
        /\ DOMAIN flockArray = 0..(arrayMaxLength - 1)
    BY <2>1 DEF IInv, TypeOK, SpareSlot
  <2>3. \A i \in 0..(arrayLength - 2) :
           flockArray'[i] = IF i = 0 THEN flockArray[arrayLength - 1] ELSE flockArray[i]
    BY <2>1, <2>2
  <2>4. Live' = 0..(arrayLength - 2) /\ Live = 0..(arrayLength - 1)
    BY <2>1 DEF Live
  <2>5. \A i \in Live' : flockArray'[i].id \in Id
    BY <2>1, <2>3, <2>4 DEF OnceInv
  <2>6. OneEntryPerId'
    BY <2>1, <2>3, <2>4 DEF OnceInv, OneEntryPerId
  <2>q. QED BY <2>1, <2>5, <2>6 DEF OnceInv, SoundFile
<1>2. CASE RemoveAbsent(id)
  BY <1>2, SameOnce DEF RemoveAbsent, arrayVars, fileVars, OnceInv
<1>q. QED BY <1>1, <1>2 DEF FLockStorageRemove

(* An update leaves every identifier where it is. *)
LEMMA UpdateKeepsOnce ==
    ASSUME IInv, OnceInv, NEW id, NEW flags, FLockStorageUpdateFlags(id, flags)
    PROVE  OnceInv'
<1>1. /\ Live' = Live
      /\ disk' = disk
      /\ \A i \in Live : i \in DOMAIN flockArray /\ flockArray[i] \in Slot
      /\ flockArray' = [i \in DOMAIN flockArray |->
                          IF FoundAt(id, i)
                          THEN [flockArray[i] EXCEPT !.flags = flags]
                          ELSE flockArray[i]]
  BY DEF FLockStorageUpdateFlags, IInv, TypeOK, SpareSlot, Live, fileVars
<1>2. \A i \in Live : flockArray'[i].id = flockArray[i].id
  <2>1. \A s \in Slot : [s EXCEPT !.flags = flags].id = s.id
    BY DEF Slot
  <2>q. QED BY <1>1, <2>1
<1>q. QED BY <1>1, <1>2 DEF OnceInv, OneEntryPerId, SoundFile

(* Every step of the driver with well placed adds keeps identifiers apart, *)
(* whichever calls fail.                                                   *)
LEMMA OnceStays ==
    ASSUME IInv, ThreadsOK, OnceInv, [DriverNext]_driverVars,
           \A c \in Client : WellPlaced(c)
    PROVE  OnceInv'
<1>1. ASSUME UNCHANGED <<flockArray, arrayLength, disk>> PROVE OnceInv'
  BY <1>1, SameOnce DEF OnceInv
<1>2. ASSUME UseFile PROVE OnceInv'
  BY <1>1, <1>2, ImportKeepsOnce, ExportKeepsOnce, LoadKeepsOnce
     DEF UseFile, FLockStorageOpenFile, FLockStorageUnloadMap, FLockStorageCloseFile,
         arrayVars
<1>3. CASE DriverEntry \/ FLockStorageLoader \/ FLockStorageFlusher
  BY <1>1, <1>2, <1>3, ThreadsUseFile DEF vars, arrayVars, fileVars
<1>4. CASE FLockDeviceControlDispatcher
  <2>1. PICK c \in Client :
          \/ \E id \in Id, flags \in Policy : AddLookup(c, id, flags)
          \/ \E id \in Id, flag \in UNION Policy, toSet \in BOOLEAN :
                UpdateLookup(c, id, flag, toSet)
          \/ \E id \in Id : RemoveRule(c, id)
          \/ AddRule(c) \/ UpdateRule(c)
          \/ ClearRules(c) \/ ClearExport(c) \/ RequestFlush(c)
    BY <1>4 DEF FLockDeviceControlDispatcher
  <2>2. CASE UNCHANGED vars
    BY <1>1, <2>2 DEF vars, arrayVars, fileVars
  <2>3. CASE \E id \in Id : RemoveRule(c, id)
    BY <2>3, RemoveKeepsOnce DEF RemoveRule
  <2>4. CASE AddRule(c)
    BY <2>4, ParkedRequest, AddKeepsOnce DEF AddRule, WellPlaced
  <2>5. CASE UpdateRule(c)
    BY <2>5, UpdateKeepsOnce DEF UpdateRule
  <2>6. CASE ClearRules(c)
    <3>1. Live' = {} /\ disk' = disk
      BY <2>6 DEF ClearRules, ClearArray, Live, fileVars
    <3>q. QED BY <3>1 DEF OnceInv, OneEntryPerId, SoundFile
  <2>7. CASE ClearExport(c)
    BY <2>7, ExportKeepsOnce DEF ClearExport, ExportRules
  <2>q. QED
    BY <2>1, <2>2, <2>3, <2>4, <2>5, <2>6, <2>7
       DEF AddLookup, UpdateLookup, RequestFlush
<1>5. CASE DriverUnload \/ RunUnloaded \/ UNCHANGED driverVars
  BY <1>1, <1>5
     DEF DriverUnload, FLockStopInternals, StopRaise, StopSignal, StopClose,
         FreeStorage, FLockStorageCloseFile, RunUnloaded, driverVars, vars,
         arrayVars, fileVars
<1>q. QED BY <1>3, <1>4, <1>5 DEF DriverNext

(* A driver that starts over a sound file keeps identifiers apart. *)
LEMMA InitOnce ==
    ASSUME \A d \in StoredFiles : SoundFile(d)
    PROVE  DriverInit => OnceInv
BY DEF DriverInit, InitMemory, OnceInv, OneEntryPerId, Live

(* Two clients that both looked and found nothing, a growth between two    *)
(* adds, an import, a removal or a failing call never give an identifier a *)
(* second entry, in memory or in the file: only an add whose pointer       *)
(* arithmetic skipped a slot does (NewEntrySlot).                          *)
THEOREM OnlyMisplacedAddDoubles ==
    ASSUME \A d \in StoredFiles : SoundFile(d)
    PROVE  DriverSpec /\ [][\A c \in Client : WellPlaced(c)]_driverVars
           => [](OneEntryPerId /\ SoundFile(disk))
<1>1. ASSUME DInv, OnceInv, [DriverNext]_driverVars,
             [\A c \in Client : WellPlaced(c)]_driverVars
      PROVE  OnceInv'
  <2>1. CASE UNCHANGED driverVars
    BY <1>1, <2>1, SameOnce DEF driverVars, vars, arrayVars, fileVars, OnceInv
  <2>q. QED BY <1>1, <2>1, OnceStays DEF DInv
<1>2. OnceInv => OneEntryPerId /\ SoundFile(disk)
  BY DEF OnceInv
<1>q. QED BY <1>1, <1>2, InitOnce, AlwaysDInv, PTL DEF DriverSpec

(* With one identifier there is no slot to skip: it never has two entries, *)
(* and the file this boot leaves is one the next boot may start from.      *)
THEOREM OneRuleOnce ==
    ASSUME NEW x, Id = {x}, \A d \in StoredFiles : SoundFile(d)
    PROVE  DriverSpec => [](OneEntryPerId /\ SoundFile(disk))
<1>1. ASSUME DInv, OnceInv, NEW c \in Client, AddRule(c), arrayLength' # arrayLength
      PROVE  NewEntrySlot = arrayLength
  <2>1. request[c].id = x /\ request[c].flags \in Policy
    BY <1>1, ParkedRequest DEF AddRule, DInv
  <2>2. ~FLockStorageIsPresent(x)
    BY <1>1, <2>1, AddKeepsLive DEF AddRule, arrayVars, DInv
  <2>3. Live = {}
    BY <1>1, <2>2 DEF OnceInv, FLockStorageIsPresent
  <2>4. arrayLength = 0
    BY <1>1, <2>3 DEF Live, DInv, IInv, TypeOK
  <2>q. QED BY <2>4, StorageAssumption DEF NewEntrySlot
<1>2. DInv /\ OnceInv => \A c \in Client : WellPlaced(c)
  BY <1>1 DEF WellPlaced
<1>3. DInv /\ OnceInv /\ [DriverNext]_driverVars => OnceInv'
  BY <1>2, OnceStays DEF DInv
<1>4. OnceInv => OneEntryPerId /\ SoundFile(disk)
  BY DEF OnceInv
<1>q. QED BY <1>3, <1>4, InitOnce, AlwaysDInv, PTL DEF DriverSpec

-----------------------------------------------------------------------------
(* The rule book.                                                          *)

(* The loader does not run before DriverEntry returned. *)
BootOrder == entry # "up" => loader = "start"

(* Every step leaves the order of booting. *)
LEMMA BootOrderStays ==
    ASSUME BootOrder, [DriverNext]_driverVars
    PROVE  BootOrder'
BY DEF BootOrder, DriverNext, DriverEntry, FLockStorageLoader, FLockStorageFlusher,
       FLockDeviceControlDispatcher, DriverUnload, RunUnloaded, driverVars, threadVars,
       EntryOpen, EntryLoad, EntryImport, EntryUnload

(* An import replaces memory by the file, by nothing, or not at all. *)
LEMMA ImportReloads ==
    ASSUME IInv, NEW ok \in BOOLEAN, FLockStorageImport(ok)
    PROVE  FileRules' = FileRules /\ MemoryRules' \in {MemoryRules, FileRules, {}}
<1>1. disk' = disk /\ disk.length \in Nat /\ disk.length <= MaxLength
  BY StorageAssumption DEF IInv, TypeOK, FLockStorageImport, fileVars
<1>2. FileRules' = FileRules
  BY <1>1 DEF FileRules
<1>3. CASE UNCHANGED arrayVars
  BY <1>2, <1>3 DEF arrayVars, MemoryRules, Live
<1>4. CASE arrayLength' = 0
  BY <1>2, <1>4 DEF MemoryRules, Live
<1> DEFINE size == IF disk.length < BaseSize THEN BaseSize ELSE 2 * disk.length
<1>5. CASE /\ disk.file = "signed"
           /\ arrayLength' = disk.length
           /\ flockArray' = [i \in 0..(size - 1) |->
                                IF i \in Cells THEN disk.data[i] ELSE Blank]
  <2>1. size \in Nat /\ disk.length <= size
    BY <1>1, StorageAssumption
  <2>2. \A i \in 0..(disk.length - 1) : i \in 0..(size - 1) /\ i \in Cells
    BY <1>1, <2>1, StorageAssumption DEF Cells
  <2> HIDE DEF size
  <2>3. \A i \in 0..(disk.length - 1) : flockArray'[i] = disk.data[i]
    BY <1>5, <2>2
  <2>4. MemoryRules' = {flockArray'[i] : i \in 0..(disk.length - 1)}
    BY <1>5 DEF MemoryRules, Live
  <2>5. FileRules = {disk.data[i] : i \in 0..(disk.length - 1)}
    BY <1>5 DEF FileRules
  <2>q. QED BY <1>2, <2>3, <2>4, <2>5
<1>q. QED BY <1>3, <1>4, <1>5 DEF FLockStorageImport

(* An export replaces the file by memory, or not at all. *)
LEMMA ExportSaves ==
    ASSUME IInv, NEW inSystem \in BOOLEAN, FLockStorageExportOnDisk(inSystem)
    PROVE  MemoryRules' = MemoryRules /\ FileRules' \in {FileRules, MemoryRules}
<1>1. UNCHANGED <<flockArray, arrayLength>>
  BY DEF FLockStorageExportOnDisk, arrayVars
<1>2. MemoryRules' = MemoryRules
  BY <1>1 DEF MemoryRules, Live
<1>3. CASE disk' = disk
  BY <1>2, <1>3 DEF FileRules
<1>4. CASE mapped /\ inSystem
  <2>1. FLockStorageExportOnDisk(TRUE)
    BY <1>4
  <2>q. QED BY <1>2, <1>4, <2>1, ExportWritesMemory
<1>q. QED BY <1>3, <1>4 DEF FLockStorageExportOnDisk

(* Every step of the driver is a step of the book or leaves it alone. *)
LEMMA BookStep ==
    ASSUME IInv, ThreadsOK, BootOrder, [DriverNext]_driverVars
    PROVE  \/ UNCHANGED <<MemoryRules, FileRules, loader # "done">>
           \/ Book!BookNext
<1> DEFINE Same == UNCHANGED <<MemoryRules, FileRules, loader # "done">>
<1>1. ASSUME UNCHANGED <<flockArray, arrayLength, disk, loader>> PROVE Same
  BY <1>1, SameRules
<1>2. ASSUME NEW ok \in BOOLEAN, FLockStorageLoadMap(ok), (loader # "done")' = (loader # "done")
      PROVE  Same
  BY <1>2, LoadKeepsRules
<1>3. ASSUME NEW ok \in BOOLEAN, FLockStorageImport(ok), loader # "done",
             loader' # "done"
      PROVE  Same \/ Book!Reload
  BY <1>3, ImportReloads DEF Book!Reload
<1>4. ASSUME NEW inSystem \in BOOLEAN, FLockStorageExportOnDisk(inSystem),
             loader' = loader
      PROVE  Same \/ Book!Save
  BY <1>4, ExportSaves DEF Book!Save
<1>5. CASE DriverEntry
  <2>1. loader = "start" /\ loader' = loader
    BY <1>5 DEF DriverEntry, EntryOpen, EntryLoad, EntryImport, EntryUnload, BootOrder
  <2>2. CASE EntryUnload \/ \E ok \in BOOLEAN : EntryOpen(ok)
    BY <1>1, <2>1, <2>2 DEF EntryUnload, EntryOpen, FLockStorageUnloadMap,
                            FLockStorageOpenFile, arrayVars
  <2>3. CASE \E ok \in BOOLEAN : EntryLoad(ok)
    BY <1>2, <2>1, <2>3 DEF EntryLoad
  <2>4. CASE \E ok \in BOOLEAN : EntryImport(ok)
    BY <1>3, <2>1, <2>4 DEF EntryImport, ImportRules, Book!BookNext
  <2>q. QED BY <1>5, <2>2, <2>3, <2>4 DEF DriverEntry
<1>6. CASE FLockStorageLoader
  <2>1. CASE LoaderStart \/ LoaderCheckLoaded \/ LoaderUnload
    <3>1. MemoryRules' = MemoryRules /\ FileRules' = FileRules /\ loader # "done"
      BY <2>1, SameRules DEF LoaderStart, LoaderCheckLoaded, LoaderUnload,
                             FLockStorageUnloadMap, vars, arrayVars, fileVars
    <3>2. CASE loader' = "done"
      <4>1. (loader # "done")' = FALSE
        BY <3>2
      <4>q. QED BY <3>1, <4>1 DEF Book!BookNext, Book!Booted
    <3>3. CASE loader' # "done"
      BY <3>1, <3>3
    <3>q. QED BY <3>2, <3>3
  <2>2. CASE \E ok \in BOOLEAN : LoaderOpen(ok)
    <3>1. MemoryRules' = MemoryRules /\ FileRules' = FileRules
      BY <2>2, SameRules DEF LoaderOpen, FLockStorageOpenFile, vars, arrayVars, fileVars
    <3>q. QED BY <2>2, <3>1 DEF LoaderOpen
  <2>3. CASE \E ok \in BOOLEAN : LoaderLoad(ok)
    BY <1>2, <2>3 DEF LoaderLoad
  <2>4. CASE \E ok \in BOOLEAN : LoaderImport(ok)
    BY <1>3, <2>4 DEF LoaderImport, ImportRules, Book!BookNext
  <2>q. QED BY <1>6, <2>1, <2>2, <2>3, <2>4 DEF FLockStorageLoader
<1>7. CASE FLockStorageFlusher
  <2>1. loader' = loader
    BY <1>7 DEF FLockStorageFlusher
  <2>2. CASE \/ FlusherWake \/ FlusherCheckOpened \/ FlusherCheckLoaded
             \/ FlusherUnload \/ FlusherCheckStop
    BY <1>1, <2>1, <2>2
       DEF FlusherWake, FlusherCheckOpened, FlusherCheckLoaded, FlusherUnload,
           FlusherCheckStop, FLockStorageUnloadMap, vars, arrayVars, fileVars
  <2>3. CASE \E ok \in BOOLEAN : FlusherLoad(ok)
    BY <1>2, <2>1, <2>3 DEF FlusherLoad
  <2>4. CASE FlusherExport
    BY <1>4, <2>1, <2>4 DEF FlusherExport, ExportRules, Book!BookNext
  <2>q. QED BY <1>7, <2>2, <2>3, <2>4 DEF FLockStorageFlusher
<1>8. CASE FLockDeviceControlDispatcher
  <2>1. PICK c \in Client :
          \/ \E id \in Id, flags \in Policy : AddLookup(c, id, flags)
          \/ \E id \in Id, flag \in UNION Policy, toSet \in BOOLEAN :
                UpdateLookup(c, id, flag, toSet)
          \/ \E id \in Id : RemoveRule(c, id)
          \/ AddRule(c) \/ UpdateRule(c)
          \/ ClearRules(c) \/ ClearExport(c) \/ RequestFlush(c)
    BY <1>8 DEF FLockDeviceControlDispatcher
  <2>2. loader' = loader
    BY <1>8 DEF FLockDeviceControlDispatcher
  <2>3. ASSUME disk' = disk,
               \E gone, new \in Slot : /\ MemoryRules \ {gone} \subseteq MemoryRules'
                                       /\ MemoryRules' \subseteq MemoryRules \cup {new}
        PROVE  Book!ChangeOne
    <3>1. FileRules' = FileRules
      BY <2>3 DEF FileRules
    <3>q. QED BY <2>2, <2>3, <3>1 DEF Book!ChangeOne
  <2>4. CASE \E id \in Id : RemoveRule(c, id)
    <3>1. PICK id \in Id : FLockStorageRemove(id)
      BY <2>4 DEF RemoveRule
    <3>2. disk' = disk
      BY <3>1 DEF FLockStorageRemove, RemoveFound, RemoveAbsent, fileVars
    <3>q. QED BY <2>3, <3>1, <3>2, RemoveChangesOne DEF Book!BookNext
  <2>5. CASE AddRule(c)
    <3>1. request[c].id \in Id /\ request[c].flags \in Policy
      BY <2>5, ParkedRequest DEF AddRule
    <3>2. FLockStorageAdd(request[c].id, request[c].flags)
      BY <2>5 DEF AddRule
    <3>3. disk' = disk
      BY <3>2 DEF FLockStorageAdd, AddPresent, AddAllocFails, AddNoArray, AddInPlace,
                  AddGrow, StoreNew, fileVars
    <3>4. \E gone, new \in Slot : /\ MemoryRules \ {gone} \subseteq MemoryRules'
                                  /\ MemoryRules' \subseteq MemoryRules \cup {new}
      BY <3>1, <3>2, AddChangesOne, BlankIsSlot
    <3>q. QED BY <2>3, <3>3, <3>4 DEF Book!BookNext
  <2>6. CASE UpdateRule(c)
    <3>1. request[c].id \in Id /\ request[c].flags \in Policy \cup {{}}
      BY <2>6, ParkedRequest DEF UpdateRule
    <3>2. FLockStorageUpdateFlags(request[c].id, request[c].flags) /\ disk' = disk
      BY <2>6 DEF UpdateRule, FLockStorageUpdateFlags, fileVars
    <3>q. QED BY <2>3, <3>1, <3>2, UpdateChangesOne DEF Book!BookNext
  <2>7. CASE ClearRules(c)
    <3>1. MemoryRules' = {} /\ FileRules' = FileRules
      BY <2>7 DEF ClearRules, ClearArray, MemoryRules, Live, FileRules, fileVars
    <3>q. QED BY <2>2, <3>1 DEF Book!BookNext, Book!Clear
  <2>8. CASE ClearExport(c)
    BY <1>4, <2>2, <2>8 DEF ClearExport, ExportRules, Book!BookNext
  <2>9. CASE UNCHANGED vars
    BY <1>1, <2>2, <2>9 DEF vars, arrayVars, fileVars
  <2>q. QED
    BY <2>1, <2>4, <2>5, <2>6, <2>7, <2>8, <2>9 DEF AddLookup, UpdateLookup, RequestFlush
<1>9. CASE DriverUnload \/ RunUnloaded \/ UNCHANGED driverVars
  BY <1>1, <1>9
     DEF DriverUnload, FLockStopInternals, StopRaise, StopSignal, StopClose,
         FreeStorage, FLockStorageCloseFile, RunUnloaded, driverVars, threadVars,
         vars, arrayVars, fileVars
<1>q. QED BY <1>5, <1>6, <1>7, <1>8, <1>9 DEF DriverNext

(* The threads implement the rule book for any rules, clients, files and   *)
(* failing calls: the file is only ever replaced by the rules of memory,   *)
(* memory by the file's only until the loader ended, and a request changes *)
(* one rule at most or clears them all.                                    *)
THEOREM DriverKeepsTheBook == DriverSpec => ImplementsRuleBook
<1>1. DriverInit => BootOrder /\ Book!BookInit
  <2> SUFFICES ASSUME DriverInit PROVE BootOrder /\ Book!BookInit
    OBVIOUS
  <2>1. IInv
    BY InitDInv DEF DInv
  <2>2. FileRules \subseteq Slot
    <3>1. disk.length \in Nat /\ disk.length <= MaxLength /\ disk.data \in [Cells -> Slot]
      BY <2>1, StorageAssumption DEF IInv, TypeOK
    <3>2. \A i \in 0..(disk.length - 1) : disk.data[i] \in Slot
      BY <3>1, StorageAssumption DEF Cells
    <3>q. QED BY <3>2 DEF FileRules
  <2>3. MemoryRules = {}
    BY DEF DriverInit, InitMemory, MemoryRules, Live
  <2>q. QED BY <2>2, <2>3 DEF DriverInit, BootOrder, Book!BookInit
<1>2. BootOrder /\ [DriverNext]_driverVars => BootOrder'
  BY BootOrderStays
<1>3. DInv /\ BootOrder /\ [DriverNext]_driverVars =>
         [Book!BookNext]_<<MemoryRules, FileRules, loader # "done">>
  BY BookStep DEF DInv
<1>q. QED
  BY <1>1, <1>2, <1>3, AlwaysDInv, PTL
     DEF DriverSpec, ImplementsRuleBook, Book!BookSpec, Book!book

-----------------------------------------------------------------------------
(* The requests of the flusher.                                            *)

(* What a flush relies on once the loader ended: an array, a map and a     *)
(* loader past its opening each mean that the file was opened, and nobody  *)
(* closes it before stopAll.                                               *)
FileReady ==
    /\ owed => loader = "done"
    /\ loader # "start" => entry = "up"
    /\ entry \in {"load", "import"} => opened
    /\ \/ mapped
       \/ arrayMaxLength > 0
       \/ loader \in {"loaded", "load", "import", "unload", "done"}
       => opened \/ stopAll
    /\ unload # "no" => stopAll

(* A FLUSH that is owed is on its way: its event is set, or the flusher    *)
(* took it and reaches the export with the file mapped.                    *)
FlushIsPending ==
    owed /\ ~stopAll /\ fault = "none" =>
        \/ eventFlush
        \/ flusher \in {"opened", "loaded", "load"}
        \/ flusher = "export" /\ mapped

(* A flusher that waits after stopAll was raised will be woken. *)
StopWillWake ==
    stopAll /\ flusher = "wait" => eventFlush \/ unload = "signal"

(* Every step keeps what a flush relies on. *)
LEMMA FileReadyStays ==
    ASSUME IInv, FileReady, [DriverNext]_driverVars
    PROVE  FileReady'
<1>1. ASSUME UNCHANGED <<mapped, arrayMaxLength, opened, owed, entry, loader, stopAll,
                         unload>>
      PROVE  FileReady'
  BY <1>1 DEF FileReady
<1>2. arrayLength # 0 => arrayMaxLength > 0
  BY DEF IInv, TypeOK, SpareSlot
<1>3. CASE DriverEntry
  <2>1. /\ UNCHANGED <<owed, loader, stopAll, unload>>
        /\ loader = "start"
    BY <1>3 DEF DriverEntry, EntryOpen, EntryLoad, EntryImport, EntryUnload,
                ImportRules, controlVars, historyVars, FileReady
  <2>2. ASSUME NEW ok \in BOOLEAN, EntryOpen(ok)
        PROVE  FileReady'
    <3>1. (opened => opened') /\ (ok => opened')
      BY <2>2 DEF EntryOpen, FLockStorageOpenFile
    <3>q. QED
      BY <2>1, <2>2, <3>1 DEF EntryOpen, FLockStorageOpenFile, arrayVars, FileReady
  <2>3. CASE \E ok \in BOOLEAN : EntryLoad(ok)
    BY <2>1, <2>3 DEF EntryLoad, FLockStorageLoadMap, arrayVars, FileReady
  <2>4. CASE \E ok \in BOOLEAN : EntryImport(ok)
    BY <2>1, <2>4 DEF EntryImport, ImportRules, FLockStorageImport, arrayVars,
                      fileVars, FileReady
  <2>5. CASE EntryUnload
    BY <2>1, <2>5 DEF EntryUnload, FLockStorageUnloadMap, arrayVars, FileReady
  <2>q. QED BY <1>3, <2>2, <2>3, <2>4, <2>5 DEF DriverEntry
<1>4. CASE FLockStorageLoader
  <2>1. /\ entry = "up" /\ entry' = "up"
        /\ UNCHANGED <<owed, stopAll, unload>>
        /\ loader # "done" /\ ~owed
    BY <1>4 DEF FLockStorageLoader, LoaderStart, LoaderCheckLoaded, LoaderUnload,
                LoaderOpen, LoaderLoad, LoaderImport, ImportRules, controlVars,
                historyVars, FileReady
  <2>2. CASE LoaderStart
    BY <1>2, <2>1, <2>2 DEF LoaderStart, vars, arrayVars, fileVars, FileReady
  <2>3. CASE LoaderCheckLoaded \/ LoaderUnload
    BY <2>1, <2>3 DEF LoaderCheckLoaded, LoaderUnload, FLockStorageUnloadMap, vars,
                      arrayVars, fileVars, FileReady
  <2>4. CASE \E ok \in BOOLEAN : LoaderOpen(ok)
    BY <2>1, <2>4 DEF LoaderOpen, FLockStorageOpenFile, vars, arrayVars, fileVars,
                      FileReady
  <2>5. CASE \E ok \in BOOLEAN : LoaderLoad(ok)
    BY <2>1, <2>5 DEF LoaderLoad, FLockStorageLoadMap, arrayVars, FileReady
  <2>6. CASE \E ok \in BOOLEAN : LoaderImport(ok)
    BY <2>1, <2>6 DEF LoaderImport, ImportRules, FLockStorageImport, arrayVars,
                      fileVars, FileReady
  <2>q. QED BY <1>4, <2>2, <2>3, <2>4, <2>5, <2>6 DEF FLockStorageLoader
<1>5. CASE FLockStorageFlusher
  BY <1>5 DEF FLockStorageFlusher, FlusherWake, FlusherCheckOpened,
              FlusherCheckLoaded, FlusherExport, FlusherUnload, FlusherCheckStop,
              FlusherLoad, ExportRules, FLockStorageExportOnDisk,
              FLockStorageLoadMap, FLockStorageUnloadMap, vars, arrayVars, fileVars,
              historyVars, FileReady
<1>6. CASE FLockDeviceControlDispatcher
  <2>1. PICK c \in Client :
          \/ \E id \in Id, flags \in Policy : AddLookup(c, id, flags)
          \/ \E id \in Id, flag \in UNION Policy, toSet \in BOOLEAN :
                UpdateLookup(c, id, flag, toSet)
          \/ \E id \in Id : RemoveRule(c, id)
          \/ AddRule(c) \/ UpdateRule(c)
          \/ ClearRules(c) \/ ClearExport(c) \/ RequestFlush(c)
    BY <1>6 DEF FLockDeviceControlDispatcher
  <2>2. UNCHANGED <<entry, loader, stopAll, unload>>
    BY <1>6 DEF FLockDeviceControlDispatcher
  <2>3. UNCHANGED <<mapped, opened>> /\ (arrayMaxLength' > 0 => arrayMaxLength > 0)
    BY <2>1 DEF AddLookup, UpdateLookup, RemoveRule, AddRule, UpdateRule, ClearRules,
                ClearExport, RequestFlush, ExportRules, FLockStorageAdd, AddPresent,
                AddAllocFails, AddNoArray, AddInPlace, AddGrow, StoreNew,
                FLockStorageRemove, RemoveFound, RemoveAbsent, FLockStorageUpdateFlags,
                ClearArray, FLockStorageExportOnDisk, vars, arrayVars, fileVars
  <2>4. owed' => owed \/ loader = "done"
    <3>1. CASE RequestFlush(c)
      BY <3>1, Zenon DEF RequestFlush
    <3>2. CASE ~RequestFlush(c)
      BY <2>1, <3>2 DEF AddLookup, UpdateLookup, RemoveRule, AddRule, UpdateRule,
                ClearRules, ClearExport, ExportRules, historyVars
    <3>q. QED BY <3>1, <3>2
  <2>q. QED BY <2>2, <2>3, <2>4 DEF FileReady
<1>7. CASE DriverUnload
  BY <1>7 DEF DriverUnload, FLockStopInternals, StopRaise, StopSignal, StopClose,
              FreeStorage, FLockStorageCloseFile, threadVars, historyVars, vars,
              arrayVars, fileVars, FileReady
<1>8. CASE RunUnloaded \/ UNCHANGED driverVars
  BY <1>1, <1>8 DEF RunUnloaded, driverVars, threadVars, controlVars, historyVars, vars,
                    arrayVars, fileVars
<1>q. QED BY <1>3, <1>4, <1>5, <1>6, <1>7, <1>8 DEF DriverNext

(* Every step keeps an owed flush on its way, when a map can be loaded. *)
LEMMA FlushStaysPending ==
    ASSUME "load" \notin MayFail, ThreadsOK, FileReady, MapHasOwner, FlushIsPending,
           [DriverNext]_driverVars
    PROVE  FlushIsPending'
<1>1. ASSUME UNCHANGED <<owed, stopAll, eventFlush, flusher, mapped>>,
             fault = "none" \/ fault' = fault
      PROVE  FlushIsPending'
  BY <1>1 DEF FlushIsPending
<1>2. CASE DriverEntry \/ FLockStorageLoader
  <2>1. fault = "none" /\ UNCHANGED <<flusher, eventFlush, stopAll, owed>>
    BY <1>2 DEF DriverEntry, FLockStorageLoader, Running, controlVars, historyVars,
                EntryOpen, EntryLoad, EntryImport, EntryUnload, ImportRules,
                LoaderStart, LoaderCheckLoaded, LoaderUnload, LoaderOpen, LoaderLoad,
                LoaderImport
  <2>2. loader # "done"
    BY <1>2 DEF DriverEntry, EntryOpen, EntryLoad, EntryImport, EntryUnload,
                FLockStorageLoader, LoaderStart, LoaderCheckLoaded, LoaderUnload,
                LoaderOpen, LoaderLoad, LoaderImport, FileReady
  <2>q. QED BY <2>1, <2>2 DEF FileReady, FlushIsPending
<1>3. CASE FLockStorageFlusher
  <2>1. /\ fault = "none" /\ entry = "up"
        /\ UNCHANGED <<loader, stopAll>>
    BY <1>3 DEF FLockStorageFlusher, Running
  <2>2. CASE FlusherWake
    BY <2>1, <2>2 DEF FlusherWake, FlushIsPending
  <2>3. CASE FlusherCheckOpened
    BY <2>1, <2>3 DEF FlusherCheckOpened, historyVars, vars, FlushIsPending, FileReady
  <2>4. CASE FlusherCheckLoaded
    BY <2>1, <2>4 DEF FlusherCheckLoaded, historyVars, vars, FlushIsPending,
                      FileReady, MapHasOwner
  <2>5. ASSUME NEW ok \in BOOLEAN, FlusherLoad(ok)
        PROVE  FlushIsPending'
    BY <2>1, <2>5 DEF FlusherLoad, FLockStorageLoadMap, historyVars, FlushIsPending,
                      FileReady
  <2>6. CASE FlusherExport
    BY <2>1, <2>6 DEF FlusherExport, ExportRules, historyVars, FlushIsPending
  <2>7. CASE FlusherUnload \/ FlusherCheckStop
    BY <2>1, <2>7 DEF FlusherUnload, FlusherCheckStop, historyVars, FlushIsPending
  <2>q. QED BY <1>3, <2>2, <2>3, <2>4, <2>5, <2>6, <2>7 DEF FLockStorageFlusher
<1>4. CASE FLockDeviceControlDispatcher
  <2>1. PICK c \in Client :
          \/ \E id \in Id, flags \in Policy : AddLookup(c, id, flags)
          \/ \E id \in Id, flag \in UNION Policy, toSet \in BOOLEAN :
                UpdateLookup(c, id, flag, toSet)
          \/ \E id \in Id : RemoveRule(c, id)
          \/ AddRule(c) \/ UpdateRule(c)
          \/ ClearRules(c) \/ ClearExport(c) \/ RequestFlush(c)
    BY <1>4 DEF FLockDeviceControlDispatcher
  <2>2. fault = "none" /\ UNCHANGED <<flusher, stopAll>>
    BY <1>4 DEF FLockDeviceControlDispatcher, Running
  <2>3. CASE RequestFlush(c)
    BY <2>3 DEF RequestFlush, FlushIsPending
  <2>4. CASE ~RequestFlush(c)
    <3>1. UNCHANGED <<eventFlush, mapped>> /\ (owed' => owed)
      BY <2>1, <2>4
         DEF AddLookup, UpdateLookup, RemoveRule, AddRule, UpdateRule, ClearRules,
             ClearExport, ExportRules, FLockStorageAdd, AddPresent, AddAllocFails,
             AddNoArray, AddInPlace, AddGrow, StoreNew, FLockStorageRemove,
             RemoveFound, RemoveAbsent, FLockStorageUpdateFlags, ClearArray,
             FLockStorageExportOnDisk, vars, fileVars, historyVars
    <3>q. QED BY <2>2, <3>1 DEF FlushIsPending
  <2>q. QED BY <2>3, <2>4
<1>5. CASE DriverUnload
  <2>1. fault = "none" /\ UNCHANGED <<flusher, owed, mapped>>
    BY <1>5 DEF DriverUnload, FLockStopInternals, StopRaise, StopSignal, StopClose,
                FreeStorage, FLockStorageCloseFile, threadVars, historyVars, vars,
                fileVars, Running
  <2>2. (stopAll => stopAll') /\ (eventFlush => eventFlush')
    BY <1>5 DEF DriverUnload, FLockStopInternals, StopRaise, StopSignal, StopClose,
                FreeStorage
  <2>q. QED BY <2>1, <2>2 DEF FlushIsPending
<1>6. CASE RunUnloaded \/ UNCHANGED driverVars
  BY <1>1, <1>6 DEF RunUnloaded, driverVars, threadVars, controlVars, historyVars, vars,
                    fileVars
<1>q. QED BY <1>2, <1>3, <1>4, <1>5, <1>6 DEF DriverNext

(* No FLUSH is lost after the loader ended, whatever the flusher was doing *)
(* when it came and however often opening or memory fails: the part of     *)
(* FlushHappens that does not speak of time.                               *)
THEOREM NoFlushIsLost ==
    ASSUME "load" \notin MayFail
    PROVE  DriverSpec => []FlushIsPending
<1>1. DriverInit => FileReady /\ FlushIsPending
  BY DEF DriverInit, InitMemory, FileReady, FlushIsPending
<1>2. DInv /\ FileReady /\ [DriverNext]_driverVars => FileReady'
  BY FileReadyStays DEF DInv
<1>3. DInv /\ FileReady /\ MapHasOwner /\ FlushIsPending /\ [DriverNext]_driverVars
         => FlushIsPending'
  BY FlushStaysPending DEF DInv
<1>q. QED BY <1>1, <1>2, <1>3, AlwaysDInv, MapIsOwned, PTL DEF DriverSpec

(* No stop is missed: DriverUnload raises the flag before it sets the      *)
(* event, so a flusher that waits has the event still to come or set.      *)
THEOREM NoStopIsMissed == DriverSpec => []StopWillWake
<1>1. DriverInit => StopWillWake
  BY DEF DriverInit, StopWillWake
<1>2. ASSUME StopWillWake, [DriverNext]_driverVars
      PROVE  StopWillWake'
  <2>1. CASE DriverEntry \/ FLockStorageLoader \/ RunUnloaded \/ UNCHANGED driverVars
    BY <1>2, <2>1 DEF DriverEntry, FLockStorageLoader, RunUnloaded, driverVars,
                      threadVars, controlVars, StopWillWake
  <2>2. CASE FLockStorageFlusher
    BY <1>2, <2>2 DEF FLockStorageFlusher, FlusherWake, FlusherCheckOpened,
              FlusherCheckLoaded, FlusherExport, FlusherUnload, FlusherCheckStop,
              FlusherLoad, StopWillWake
  <2>3. CASE FLockDeviceControlDispatcher
    <3>1. UNCHANGED <<flusher, stopAll, unload>>
      BY <2>3 DEF FLockDeviceControlDispatcher
    <3>2. eventFlush => eventFlush'
      BY <2>3 DEF FLockDeviceControlDispatcher, AddLookup, UpdateLookup, RemoveRule,
                  AddRule, UpdateRule, ClearRules, ClearExport, RequestFlush
    <3>q. QED BY <1>2, <3>1, <3>2 DEF StopWillWake
  <2>4. CASE DriverUnload
    <3>1. flusher' = flusher
      BY <2>4 DEF DriverUnload, threadVars
    <3>2. CASE StopRaise
      BY <3>2 DEF StopRaise, StopWillWake
    <3>3. CASE StopSignal
      BY <3>3 DEF StopSignal, StopWillWake
    <3>4. CASE StopClose \/ FreeStorage
      BY <1>2, <3>1, <3>4 DEF StopClose, FreeStorage, StopWillWake
    <3>q. QED BY <2>4, <3>2, <3>3, <3>4 DEF DriverUnload, FLockStopInternals
  <2>q. QED BY <1>2, <2>1, <2>2, <2>3, <2>4 DEF DriverNext
<1>q. QED BY <1>1, <1>2, PTL DEF DriverSpec

(* The filters' gates and the scans of the array are as sound under the    *)
(* threads and failing calls of the driver as under the storage alone.     *)
THEOREM DriverGatesNeverMiss == DriverSpec => [](GateNeverMisses /\ SpareSlot)
<1>1. DInv => GateNeverMisses /\ SpareSlot
  BY DEF DInv, IInv, GatesCover, GateNeverMisses, FLockStorageVerifyFlag, FoundAt,
         AnyWith, Live
<1>q. QED BY <1>1, AlwaysDInv, PTL
=============================================================================
