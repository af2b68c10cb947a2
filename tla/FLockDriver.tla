---------------------------- MODULE FLockDriver -----------------------------
(***************************************************************************)
(* The threads around the rule storage (FLock.c, FLockDispatcher.c):       *)
(* DriverEntry, which tries to import the rules first; the loader thread,  *)
(* which opens and imports the storage file when DriverEntry found no      *)
(* rule; the flusher thread, which exports the rules whenever the flush    *)
(* event is set; the device-control handlers, which run in the process of  *)
(* their client; and DriverUnload.                                         *)
(*                                                                         *)
(* A step is one critical section of FLockStorage or one check between two *)
(* of them.  What a handler answers is left out; what it read and holds on *)
(* to while another thread runs is kept in "request".                      *)
(***************************************************************************)
EXTENDS FLockStorage

CONSTANTS
    Client,         \* threads that call the device-control dispatcher
    StoredFiles     \* the storage files an earlier boot may have left

(* A client may set and clear any flag of a rule. *)
ASSUME DriverAssumption ==
    /\ StoredFiles \subseteq [file   : {"empty", "unsigned", "signed"},
                              length : 0..MaxLength,
                              data   : [Cells -> Slot]]
    /\ \A flags \in Policy \cup {{}}, flag \in UNION Policy :
          {flags \cup {flag}, flags \ {flag}} \subseteq Policy \cup {{}}

VARIABLES
    entry,      \* where DriverEntry is in FLockDriverPrepareStorage
    loader,     \* where the loader thread is
    flusher,    \* where the flusher thread is
    request,    \* what each client's handler is about to do
    eventFlush, \* g_flockData.eventFlush, auto-reset
    stopAll,    \* g_flockData.stopAll
    unload,     \* where DriverUnload is
    owed,       \* history: a FLUSH after the loader ended, not carried out
    dirty,      \* history: the rules changed since the last export or import
    kept        \* history: identifiers in the file nobody asked to take out

threadVars  == <<entry, loader, flusher, request>>
controlVars == <<eventFlush, stopAll, unload>>
historyVars == <<owed, dirty, kept>>
driverVars  == <<vars, threadVars, controlVars, historyVars>>

Idle == [op |-> "idle", id |-> NoId, flags |-> {}]

Pending == [op : {"add"}, id : Id, flags : Policy]
           \cup [op : {"update"}, id : Id, flags : Policy \cup {{}}]
           \cup {Idle, [Idle EXCEPT !.op = "export"]}

DriverTypeOK ==
    /\ TypeOK
    /\ entry \in {"open", "load", "import", "unload", "up"}
    /\ loader \in {"start", "open", "loaded", "load", "import", "unload", "done"}
    /\ flusher \in {"wait", "opened", "loaded", "load", "export", "unload",
                    "check", "exit"}
    /\ request \in [Client -> Pending]
    /\ eventFlush \in BOOLEAN
    /\ stopAll \in BOOLEAN
    /\ unload \in {"no", "signal", "close", "free", "gone"}
    /\ owed \in BOOLEAN
    /\ dirty \in BOOLEAN
    /\ kept \subseteq Id

MemoryRules == {flockArray[i] : i \in Live}

FileRules ==
    IF disk.file = "signed" THEN {disk.data[i] : i \in 0..(disk.length - 1)} ELSE {}

Ids(rules) == {s.id : s \in rules} \ {NoId}

Running == fault = "none" /\ unload # "gone"

-----------------------------------------------------------------------------
(* What the critical sections mean for the history variables.              *)

ImportRules(ok) ==
    /\ FLockStorageImport(ok)
    /\ dirty' = (dirty /\ ~(mapped /\ disk.file = "signed" /\ ok))
    /\ UNCHANGED <<owed, kept>>

ExportRules(inSystem) ==
    /\ FLockStorageExportOnDisk(inSystem)
    /\ IF mapped /\ inSystem
       THEN /\ owed' = FALSE
            /\ dirty' = FALSE
            /\ kept' = kept \cup Ids(MemoryRules)
       ELSE UNCHANGED historyVars

-----------------------------------------------------------------------------
(* DriverEntry: FLockDriverPrepareStorage, before there is another thread. *)

(* Seeded defect: leave the import to the loader thread. *)
EntryOpenOnly(ok) ==
    /\ entry = "open"
    /\ FLockStorageOpenFile(ok)
    /\ entry' = "up"
    /\ UNCHANGED historyVars

EntryOpen(ok) ==
    /\ entry = "open"
    /\ FLockStorageOpenFile(ok)
    /\ entry' = IF ok THEN "load" ELSE "up"
    /\ UNCHANGED historyVars

EntryLoad(ok) ==
    /\ entry = "load"
    /\ FLockStorageLoadMap(ok)
    /\ entry' = IF ok THEN "import" ELSE "up"
    /\ UNCHANGED historyVars

EntryImport(ok) ==
    /\ entry = "import"
    /\ ImportRules(ok)
    /\ entry' = "unload"

EntryUnload ==
    /\ entry = "unload"
    /\ FLockStorageUnloadMap
    /\ entry' = "up"
    /\ UNCHANGED historyVars

DriverEntry ==
    /\ Running
    /\ \/ \E ok \in BOOLEAN : EntryOpen(ok) \/ EntryLoad(ok) \/ EntryImport(ok)
       \/ EntryUnload
    /\ UNCHANGED <<loader, flusher, request, controlVars>>

-----------------------------------------------------------------------------
(* FLockStorageLoader.                                                     *)

LoaderStart ==
    /\ loader = "start"
    /\ loader' = IF arrayLength # 0 THEN "done" ELSE "open"
    /\ UNCHANGED <<vars, historyVars>>

LoaderOpen(ok) ==
    /\ loader = "open"
    /\ IF opened
       THEN loader' = "loaded" /\ UNCHANGED vars
       ELSE loader' = "open" /\ FLockStorageOpenFile(ok)
    /\ UNCHANGED historyVars

(* Another thread's map will do. *)
LoaderCheckLoaded ==
    /\ loader = "loaded"
    /\ loader' = IF mapped THEN "import" ELSE "load"
    /\ UNCHANGED <<vars, historyVars>>

LoaderLoad(ok) ==
    /\ loader = "load"
    /\ FLockStorageLoadMap(ok)
    /\ loader' = "loaded"
    /\ UNCHANGED historyVars

(* Seeded defect: end the thread when the import failed. *)
LoaderImportOrQuit(ok) ==
    /\ loader = "import"
    /\ ImportRules(ok)
    /\ loader' = IF mapped /\ disk.file = "signed" /\ ok THEN "unload" ELSE "done"

LoaderImport(ok) ==
    /\ loader = "import"
    /\ ImportRules(ok)
    /\ loader' = "unload"

LoaderUnload ==
    /\ loader = "unload"
    /\ FLockStorageUnloadMap
    /\ loader' = "done"
    /\ UNCHANGED historyVars

FLockStorageLoader ==
    /\ Running
    /\ entry = "up"
    /\ \/ LoaderStart \/ LoaderCheckLoaded \/ LoaderUnload
       \/ \E ok \in BOOLEAN : LoaderOpen(ok) \/ LoaderLoad(ok) \/ LoaderImport(ok)
    /\ UNCHANGED <<entry, flusher, request, controlVars>>

-----------------------------------------------------------------------------
(* FLockStorageFlusher and the FLockStorageFlushFromMemoryToDisk it calls. *)

FlusherWake ==
    /\ flusher = "wait"
    /\ eventFlush
    /\ eventFlush' = FALSE
    /\ flusher' = "opened"
    /\ UNCHANGED <<vars, historyVars>>

FlusherCheckOpened ==
    /\ flusher = "opened"
    /\ flusher' = IF opened THEN "loaded" ELSE "check"
    /\ UNCHANGED <<vars, historyVars, eventFlush>>

(* A map of another thread refuses the flush. *)
FlusherCheckLoaded ==
    /\ flusher = "loaded"
    /\ flusher' = IF mapped THEN "check" ELSE "load"
    /\ UNCHANGED <<vars, historyVars, eventFlush>>

FlusherLoad(ok) ==
    /\ flusher = "load"
    /\ FLockStorageLoadMap(ok)
    /\ flusher' = IF opened /\ ok THEN "export" ELSE "check"
    /\ UNCHANGED <<historyVars, eventFlush>>

FlusherExport ==
    /\ flusher = "export"
    /\ ExportRules(TRUE)
    /\ flusher' = "unload"
    /\ UNCHANGED eventFlush

(* The map goes away whether the export succeeded or not. *)
FlusherUnload ==
    /\ flusher = "unload"
    /\ FLockStorageUnloadMap
    /\ flusher' = "check"
    /\ UNCHANGED <<historyVars, eventFlush>>

FlusherCheckStop ==
    /\ flusher = "check"
    /\ flusher' = IF stopAll THEN "exit" ELSE "wait"
    /\ UNCHANGED <<vars, historyVars, eventFlush>>

FLockStorageFlusher ==
    /\ Running
    /\ entry = "up"
    /\ \/ FlusherWake \/ FlusherCheckOpened \/ FlusherCheckLoaded
       \/ FlusherExport \/ FlusherUnload \/ FlusherCheckStop
       \/ \E ok \in BOOLEAN : FlusherLoad(ok)
    /\ UNCHANGED <<entry, loader, request, stopAll, unload>>

-----------------------------------------------------------------------------
(* The handlers of FLockDeviceControlDispatcher that change the storage.   *)

(* IOCTL_FLOCK_STORAGE_ADD looks first and adds in a second step. *)
AddLookup(c, id, flags) ==
    /\ request[c] = Idle
    /\ ~FLockStorageIsPresent(id)
    /\ request' = [request EXCEPT ![c] = [op |-> "add", id |-> id, flags |-> flags]]
    /\ UNCHANGED <<vars, historyVars, eventFlush>>

AddRule(c) ==
    /\ request[c].op = "add"
    /\ FLockStorageAdd(request[c].id, request[c].flags)
    /\ request' = [request EXCEPT ![c] = Idle]
    /\ dirty' = (dirty \/ arrayLength' # arrayLength)
    /\ UNCHANGED <<owed, kept, eventFlush>>

(* IOCTL_FLOCK_STORAGE_UPDATE_FLAGS changes its copy of the flags. *)
UpdateLookup(c, id, flag, toSet) ==
    /\ request[c] = Idle
    /\ \E i \in Live :
          /\ FoundAt(id, i)
          /\ request' = [request EXCEPT ![c] =
                [op    |-> "update",
                 id    |-> id,
                 flags |-> IF toSet THEN flockArray[i].flags \cup {flag}
                                    ELSE flockArray[i].flags \ {flag}]]
    /\ UNCHANGED <<vars, historyVars, eventFlush>>

UpdateRule(c) ==
    /\ request[c].op = "update"
    /\ FLockStorageUpdateFlags(request[c].id, request[c].flags)
    /\ request' = [request EXCEPT ![c] = Idle]
    /\ dirty' = (dirty \/ FLockStorageIsPresent(request[c].id))
    /\ UNCHANGED <<owed, kept, eventFlush>>

RemoveRule(c, id) ==
    /\ request[c] = Idle
    /\ FLockStorageRemove(id)
    /\ dirty' = (dirty \/ FLockStorageIsPresent(id))
    /\ kept' = kept \ {id}
    /\ UNCHANGED <<owed, request, eventFlush>>

(* IOCTL_FLOCK_CLEAR_ALL clears the array and exports it on the spot. *)
ClearRules(c) ==
    /\ request[c] = Idle
    /\ ClearArray
    /\ request' = [request EXCEPT ![c].op = "export"]
    /\ dirty' = TRUE
    /\ kept' = {}
    /\ UNCHANGED <<owed, eventFlush>>

(* The address of the map is taken to be free in the process of a client:  *)
(* there the export is refused or fatal.  So it never answers TRUE, and    *)
(* the FLockStorageFlushFromMemoryToDisk after it is not reached.          *)
ClearExport(c) ==
    /\ request[c].op = "export"
    /\ ExportRules(FALSE)
    /\ mapped => fault' = "context"
    /\ request' = [request EXCEPT ![c] = Idle]
    /\ UNCHANGED eventFlush

(* Seeded defect: wake a waiting flusher, leave no trace otherwise. *)
PulseFlush(c) ==
    /\ request[c] = Idle
    /\ eventFlush' = (flusher = "wait")
    /\ owed' = (owed \/ loader = "done")
    /\ UNCHANGED <<vars, request, dirty, kept>>

(* IOCTL_FLOCK_STORAGE_FLUSH: SyncGenerateFlushEvent. *)
RequestFlush(c) ==
    /\ request[c] = Idle
    /\ eventFlush' = TRUE
    /\ owed' = (owed \/ loader = "done")
    /\ UNCHANGED <<vars, request, dirty, kept>>

FLockDeviceControlDispatcher ==
    /\ Running
    /\ entry = "up"
    /\ unload = "no"
    /\ \E c \in Client :
          \/ \E id \in Id, flags \in Policy : AddLookup(c, id, flags)
          \/ \E id \in Id, flag \in UNION Policy, toSet \in BOOLEAN :
                UpdateLookup(c, id, flag, toSet)
          \/ \E id \in Id : RemoveRule(c, id)
          \/ AddRule(c) \/ UpdateRule(c)
          \/ ClearRules(c) \/ ClearExport(c) \/ RequestFlush(c)
    /\ UNCHANGED <<entry, loader, flusher, stopAll, unload>>

-----------------------------------------------------------------------------
(* DriverUnload, once no client holds the device: FLockStopInternals, then *)
(* FLockStorageDeinitialize and the rest, which take the code away from    *)
(* the threads that still run.                                             *)

StopRaise ==
    /\ unload = "no"
    /\ \A c \in Client : request[c] = Idle
    /\ stopAll' = TRUE
    /\ unload' = "signal"
    /\ UNCHANGED <<vars, eventFlush>>

StopSignal ==
    /\ unload = "signal"
    /\ eventFlush' = TRUE
    /\ unload' = "close"
    /\ UNCHANGED <<vars, stopAll>>

StopClose ==
    /\ unload = "close"
    /\ IF opened THEN FLockStorageCloseFile ELSE UNCHANGED vars
    /\ unload' = "free"
    /\ UNCHANGED <<eventFlush, stopAll>>

(* Seeded defect: the event first, the flag after it. *)
SignalThenRaise ==
    \/ /\ unload = "no"
       /\ \A c \in Client : request[c] = Idle
       /\ eventFlush' = TRUE
       /\ unload' = "signal"
       /\ UNCHANGED <<vars, stopAll>>
    \/ /\ unload = "signal"
       /\ stopAll' = TRUE
       /\ unload' = "close"
       /\ UNCHANGED <<vars, eventFlush>>
    \/ StopClose

FLockStopInternals == StopRaise \/ StopSignal \/ StopClose

FreeStorage ==
    /\ unload = "free"
    /\ unload' = "gone"
    /\ UNCHANGED <<vars, eventFlush, stopAll>>

DriverUnload ==
    /\ Running
    /\ entry = "up"
    /\ FLockStopInternals \/ FreeStorage
    /\ UNCHANGED <<threadVars, historyVars>>

(* A thread that did not end in time runs on in freed memory. *)
RunUnloaded ==
    /\ unload = "gone"
    /\ fault = "none"
    /\ loader # "done" \/ (flusher # "exit" /\ (flusher = "wait" => eventFlush))
    /\ fault' = "unloaded"
    /\ UNCHANGED <<arrayVars, gates, fileVars>>
    /\ UNCHANGED <<threadVars, controlVars, historyVars>>

-----------------------------------------------------------------------------
DriverInit ==
    /\ InitMemory
    /\ disk \in StoredFiles
    /\ entry = "open"
    /\ loader = "start"
    /\ flusher = "wait"
    /\ request = [c \in Client |-> Idle]
    /\ eventFlush = FALSE
    /\ stopAll = FALSE
    /\ unload = "no"
    /\ owed = FALSE
    /\ dirty = FALSE
    /\ kept = Ids(FileRules)

DriverNext ==
    \/ DriverEntry
    \/ FLockStorageLoader
    \/ FLockStorageFlusher
    \/ FLockDeviceControlDispatcher
    \/ DriverUnload
    \/ RunUnloaded

(* System threads and DriverUnload are scheduled; clients may stop calling. *)
Fairness ==
    /\ WF_driverVars(DriverEntry)
    /\ WF_driverVars(FLockStorageLoader)
    /\ WF_driverVars(FLockStorageFlusher)
    /\ WF_driverVars(DriverUnload /\ unload # "no")
    /\ WF_driverVars(RunUnloaded)

DriverSpec == DriverInit /\ [][DriverNext]_driverVars /\ Fairness
=============================================================================
