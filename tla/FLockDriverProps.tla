-------------------------- MODULE FLockDriverProps --------------------------
(***************************************************************************)
(* The properties of the driver's threads around the storage.              *)
(***************************************************************************)
EXTENDS FLockDriver

(* Nobody walks away from the map: it is loaded only while a thread is     *)
(* between its load and its unload.  A map left behind would make every    *)
(* later flush fail (FLockStorageFlushFromMemoryToDisk, "storage is loaded *)
(* by other process").                                                     *)
MapHasOwner ==
    mapped => \/ entry \in {"import", "unload"}
              \/ loader \in {"loaded", "load", "import", "unload"}
              \/ flusher \in {"export", "unload"}

(* Two clients that both looked and found nothing add one entry: the       *)
(* dispatcher's check is stale when it adds, the storage's own is not.     *)
(* (For one identifier: with several, an add may write past the slot it    *)
(* counts and leave an old one there, see AddedIsFound of FLockStorage.)   *)
OneEntryPerId ==
    \A i, j \in Live : flockArray[i].id = flockArray[j].id => i = j

(* When the rules in memory did not change since the last export or        *)
(* import, the file holds the same rules: a restart would find them.       *)
FileMatchesMemory ==
    entry = "up" /\ ~dirty => FileRules = MemoryRules

(* A rule that reached the file stays there until a client removes it or   *)
(* clears the storage: no flush, whenever it is asked for, drops it.       *)
StoredRuleStays == kept \subseteq Ids(FileRules)

Book == INSTANCE RuleBook WITH
    Rule    <- Slot,
    memory  <- MemoryRules,
    file    <- FileRules,
    booting <- (loader # "done")

(* The threads implement the rule book: an export never writes a part of   *)
(* the rules, no thread replaces them once the loader ended, and a request *)
(* touches one rule, whatever the other clients and threads do meanwhile   *)
(* and whichever call fails.                                               *)
ImplementsRuleBook == Book!BookSpec

(* A FLUSH that comes after the loader ended is never lost, whatever the   *)
(* flusher is doing at that time: the rules get on disk, unless the driver *)
(* is unloaded or the machine stops first.                                 *)
FlushHappens == owed ~> (~owed \/ stopAll \/ fault # "none")

(* The flusher sees stopAll: the flag is raised before the event wakes it. *)
FlusherStops == stopAll ~> (flusher = "exit" \/ fault # "none")
=============================================================================
