----------------------------- MODULE FLockCache -----------------------------
(***************************************************************************)
(* The FLock minifilter's cache of file verdicts (FLockCache.c): an        *)
(* open-addressing hash table, indexed by the first two bytes of the MD5   *)
(* of the path, that remembers whether a file carries FLock meta in its    *)
(* extended attributes.                                                    *)
(*                                                                         *)
(* Every operation runs under the exclusive cache lock that the create     *)
(* handler takes around it, so an operation is one step.  FLockCacheInit   *)
(* does not zero the pool memory of the table: the first contents are      *)
(* arbitrary (Init).  CleanInit is the outcome where the pool returned     *)
(* zeroed pages.                                                           *)
(***************************************************************************)
EXTENDS Integers, FiniteSets

CONSTANTS
    Hash,               \* MD5 hashes of paths
    HashPrefix,         \* the number the first two bytes of a hash make
    Capacity,           \* g_cache.capacity: index of the last bucket
    OccupancyLimit,     \* g_cache.occupancyLimit
    CollisionResolve,   \* g_cache.collisionResolveIfNoPlace
    Free,               \* a bucket whose byte "occupied" is not TRUE
    Unknown             \* FLockCacheLookup returned FALSE

Buckets == 0..Capacity

Entry == [hash : Hash, presentMeta : BOOLEAN]

ASSUME CacheAssumption ==
    /\ Capacity \in Nat \ {0}
    /\ HashPrefix \in [Hash -> Nat]
    /\ OccupancyLimit \in Nat
    /\ CollisionResolve \in Buckets
    /\ Free \notin Entry
    /\ Unknown \notin BOOLEAN

VARIABLES
    cached,     \* g_cache.cached: the buckets
    length,     \* g_cache.length
    latest      \* history: what was recorded for a hash since the last wipe

vars == <<cached, length, latest>>

TypeOK ==
    /\ cached \in [Buckets -> Entry \cup {Free}]
    /\ length \in 0..(OccupancyLimit + 1)
    /\ latest \in [Hash -> BOOLEAN \cup {Unknown}]

Nothing == [h \in Hash |-> Unknown]

-----------------------------------------------------------------------------
(* The table operations, as predicates on a table t.                       *)

(* Seeded defect: the prefix taken as the index. *)
CalcIndexNoModulo(h) == HashPrefix[h]

FLockCacheCalcIndex(h) == HashPrefix[h] % Capacity

(* The bucket is occupied by hash h: "Yes, Strike!" *)
Holds(t, h, i) == t[i] # Free /\ t[i].hash = h

(* A scan for h goes on past bucket i only if another hash occupies it. *)
Stops(t, h, i) == t[i] = Free \/ Holds(t, h, i)

(* The scan for h stops nowhere between its own bucket and the last one. *)
UpScanFails(t, h) == \A j \in FLockCacheCalcIndex(h)..Capacity : ~Stops(t, h, j)

(* Seeded defect: only a free bucket stops the scan for room. *)
RoomAtFreeOnly(t, h, i) ==
    /\ i \in FLockCacheCalcIndex(h)..Capacity
    /\ t[i] = Free
    /\ \A j \in FLockCacheCalcIndex(h)..(i - 1) : t[j] # Free

(* i is the bucket where a new entry for h goes. *)
RoomAt(t, h, i) ==
    \/ /\ i \in FLockCacheCalcIndex(h)..Capacity
       /\ Stops(t, h, i)
       /\ \A j \in FLockCacheCalcIndex(h)..(i - 1) : ~Stops(t, h, j)
    \/ /\ UpScanFails(t, h)
       /\ i \in 0..CollisionResolve
       /\ Stops(t, h, i)
       /\ \A j \in 0..(i - 1) : ~Stops(t, h, j)

HasRoom(t, h) == \E i \in Buckets : RoomAt(t, h, i)

(* Seeded defects: the first loop of the lookup ends a bucket early; it     *)
(* takes any occupied bucket.                                              *)
HitAtShort(t, h, i) ==
    /\ i \in FLockCacheCalcIndex(h)..(Capacity - 1)
    /\ Holds(t, h, i)
    /\ \A j \in FLockCacheCalcIndex(h)..(i - 1) : ~Stops(t, h, j)

HitAtAnyHash(t, h, i) == i = FLockCacheCalcIndex(h) /\ t[i] # Free

(* i is the bucket whose entry the lookup of h returns.  Its second loop   *)
(* runs to "<" where the one of RoomAt runs to "<=".                       *)
HitAt(t, h, i) ==
    \/ /\ i \in FLockCacheCalcIndex(h)..Capacity
       /\ Holds(t, h, i)
       /\ \A j \in FLockCacheCalcIndex(h)..(i - 1) : ~Stops(t, h, j)
    \/ /\ UpScanFails(t, h)
       /\ i \in 0..(CollisionResolve - 1)
       /\ Holds(t, h, i)
       /\ \A j \in 0..(i - 1) : ~Stops(t, h, j)

FLockCacheLookup(t, h) ==
    IF \E i \in Buckets : HitAt(t, h, i)
    THEN t[CHOOSE i \in Buckets : HitAt(t, h, i)].presentMeta
    ELSE Unknown

(* Seeded defects: the counter reset without the table; the number of      *)
(* buckets taken for the number of bytes.                                  *)
NotWiped(t) == t

StartWiped(t) == [i \in Buckets |-> IF 4 * i < Capacity THEN Free ELSE t[i]]

(* RtlZeroMemory over "capacity" of the capacity + 1 buckets: the last one *)
(* keeps its contents.                                                     *)
Wiped(t) == [i \in Buckets |-> IF i < Capacity THEN Free ELSE t[i]]

-----------------------------------------------------------------------------
Init ==
    /\ cached \in [Buckets -> Entry \cup {Free}]
    /\ length = 0
    /\ latest = Nothing

CleanInit ==
    /\ cached = [i \in Buckets |-> Free]
    /\ length = 0
    /\ latest = Nothing

(* Seeded defect: the counter is not incremented. *)
PlaceUncounted(t, n, l, h, m) ==
    /\ \E i \in Buckets :
          /\ RoomAt(t, h, i)
          /\ cached' = [t EXCEPT ![i] = [hash |-> h, presentMeta |-> m]]
    /\ length' = n
    /\ latest' = [l EXCEPT ![h] = m]

(* Place the entry in table t whose counter reads n and history reads l. *)
Place(t, n, l, h, m) ==
    /\ \E i \in Buckets :
          /\ RoomAt(t, h, i)
          /\ cached' = [t EXCEPT ![i] = [hash |-> h, presentMeta |-> m]]
    /\ length' = n + 1
    /\ latest' = [l EXCEPT ![h] = m]

(* Seeded defect: the limit is not looked at. *)
AddUnlimited(h, m) == Place(cached, length, latest, h, m)

(* The counter is within the limit and the table has room. *)
AddWithinLimit(h, m) ==
    /\ length <= OccupancyLimit
    /\ Place(cached, length, latest, h, m)

(* The counter has passed the limit: wipe the table first. *)
AddOverLimit(h, m) ==
    /\ length > OccupancyLimit
    /\ Place(Wiped(cached), 0, Nothing, h, m)

(* No bucket in reach: wipe the table and call FLockCacheAdd again. *)
AddNoRoom(h, m) ==
    /\ length <= OccupancyLimit
    /\ ~HasRoom(cached, h)
    /\ Place(Wiped(cached), 0, Nothing, h, m)

FLockCacheUpdateOrAdd(h, m) ==
    \/ AddWithinLimit(h, m)
    \/ AddOverLimit(h, m)
    \/ AddNoRoom(h, m)

FLockCacheErase ==
    /\ cached' = Wiped(cached)
    /\ length' = 0
    /\ latest' = Nothing

Next ==
    \/ \E h \in Hash, m \in BOOLEAN : FLockCacheUpdateOrAdd(h, m)
    \/ FLockCacheErase

Spec == Init /\ [][Next]_vars

CleanSpec == CleanInit /\ [][Next]_vars
=============================================================================
