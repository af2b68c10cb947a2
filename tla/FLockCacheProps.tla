-------------------------- MODULE FLockCacheProps ---------------------------
(***************************************************************************)
(* The properties of the cache, and the abstract map it implements.        *)
(***************************************************************************)
EXTENDS FLockCache

(* For a hash recorded since the last wipe, the insertion scan stops at a  *)
(* bucket that holds the recorded value: whatever garbage the table was    *)
(* born with, a newer entry is never placed behind an older one of the     *)
(* same path (FLockCacheAdd updates in place, FLockCache.c:147-152).       *)
LatestHeld ==
    \A h \in Hash : latest[h] # Unknown =>
        \E i \in Buckets :
            /\ RoomAt(cached, h, i)
            /\ Holds(cached, h, i)
            /\ cached[i].presentMeta = latest[h]

(* The verdict the create handler reads for a path recorded since the last *)
(* wipe is the recorded one or a miss, never an older one: both scans of   *)
(* FLockCacheLookup meet the buckets in the order the insertion met them.  *)
NeverStale ==
    \A h \in Hash : latest[h] # Unknown =>
        FLockCacheLookup(cached, h) \in {latest[h], Unknown}

(* The only entry a lookup misses is the one the insertion put in the very *)
(* last bucket of the wrapped scan, which the lookup's loop does not reach *)
(* (FLockCache.c:174 against :245).                                        *)
MissOnlyAtWrapEnd ==
    \A h \in Hash :
        /\ latest[h] # Unknown
        /\ FLockCacheLookup(cached, h) = Unknown
        => RoomAt(cached, h, CollisionResolve) /\ UpScanFails(cached, h)

(* FLockCacheAdd calls itself after a wipe when it found no bucket; the    *)
(* call must find one or it would recurse until the kernel stack is gone.  *)
RetryFindsRoom == \A h \in Hash : HasRoom(Wiped(cached), h)

-----------------------------------------------------------------------------
(* A table large enough for its limit: the constants of FLockCacheInit     *)
(* (65535 + 33000 + 1 < 99999) satisfy it.                                 *)
HomesLeaveSlack ==
    \A h \in Hash : FLockCacheCalcIndex(h) + OccupancyLimit + 1 < Capacity

Occupied == {i \in Buckets : cached[i] # Free}

(* No gap on the way to an entry: every bucket from the entry's own index  *)
(* to the one it sits in is occupied, so a lookup that stops at the first  *)
(* unoccupied bucket ("Search further has no sense", FLockCache.c:237)     *)
(* loses nothing.                                                          *)
ContiguousProbe ==
    \A p \in Occupied :
        /\ FLockCacheCalcIndex(cached[p].hash) <= p
        /\ \A j \in FLockCacheCalcIndex(cached[p].hash)..p : cached[j] # Free

(* A path has one verdict: no two buckets hold the same hash. *)
OneBucketPerHash ==
    \A p, q \in Occupied : cached[p].hash = cached[q].hash => p = q

(* The counter may run ahead of the table (it also counts updates in       *)
(* place), never behind it.                                                *)
CounterCoversTable == Cardinality(Occupied) <= length

(* The bucket that no wipe clears is never used and the scan that wraps to *)
(* the start of the table never runs.                                      *)
NeverWraps == \A h \in Hash : ~UpScanFails(cached, h) /\ cached[Capacity] = Free

(* Together: every scan of a clean table ends at the entry or at a free    *)
(* bucket of the unwrapped part, and the wipe comes before it would not.   *)
ScansStayClean == ContiguousProbe /\ CounterCoversTable /\ NeverWraps

CacheMap == INSTANCE LossyMap WITH
    known <- [h \in Hash |-> FLockCacheLookup(cached, h)]

(* The table implements the lossy map. *)
ImplementsLossyMap == CacheMap!Spec
=============================================================================
