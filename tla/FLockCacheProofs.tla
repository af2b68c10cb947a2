-------------------------- MODULE FLockCacheProofs --------------------------
(***************************************************************************)
(* Proofs about the cache for every table size, limit and set of paths.    *)
(*                                                                         *)
(* Whatever the table was born with (Spec): TypeOK, LatestHeld, NeverStale *)
(* and RetryFindsRoom.  Born zeroed and with slack (CleanSpec and          *)
(* HomesLeaveSlack): ContiguousProbe, OneBucketPerHash, CounterCoversTable,*)
(* NeverWraps and the refinement of LossyMap.                              *)
(***************************************************************************)
EXTENDS FLockCacheProps, TLAPS, FiniteSetTheorems

(* The index is a bucket other than the last one. *)
LEMMA CalcIndexRange ==
    ASSUME NEW h \in Hash
    PROVE  FLockCacheCalcIndex(h) \in 0..(Capacity - 1)
<1>1. HashPrefix[h] \in Nat /\ Capacity \in Nat /\ Capacity > 0
    BY CacheAssumption
<1>2. \A a \in Nat, b \in Nat : b > 0 => a % b \in 0..(b - 1)
    OBVIOUS
<1> QED
    BY <1>1, <1>2 DEF FLockCacheCalcIndex

(* The bucket at the path's own index is free after a wipe. *)
LEMMA WipedHasRoom ==
    ASSUME NEW t, NEW h \in Hash
    PROVE  /\ RoomAt(Wiped(t), h, FLockCacheCalcIndex(h))
           /\ FLockCacheCalcIndex(h) \in Buckets
           /\ HasRoom(Wiped(t), h)
<1> DEFINE c == FLockCacheCalcIndex(h)
<1>1. c \in 0..(Capacity - 1) /\ Capacity \in Nat
    BY CalcIndexRange, CacheAssumption
<1>2. c \in Buckets /\ c < Capacity
    BY <1>1 DEF Buckets
<1>3. Wiped(t)[c] = Free
    BY <1>2 DEF Wiped
<1> HIDE DEF c
<1>4. RoomAt(Wiped(t), h, FLockCacheCalcIndex(h))
    BY <1>1, <1>3 DEF RoomAt, Stops, c
<1> QED
    BY <1>2, <1>4 DEF HasRoom, c

(* The recursive call of FLockCacheAdd finds a bucket at once. *)
THEOREM RetryTerminates == Spec => []RetryFindsRoom
<1>1. RetryFindsRoom
    BY WipedHasRoom DEF RetryFindsRoom
<1> QED
    BY <1>1, PTL

(* A wiped table is a table. *)
LEMMA WipedType ==
    ASSUME NEW t \in [Buckets -> Entry \cup {Free}]
    PROVE  Wiped(t) \in [Buckets -> Entry \cup {Free}]
    BY DEF Wiped

(* The empty history is a history. *)
LEMMA NothingType == Nothing \in [Hash -> BOOLEAN \cup {Unknown}]
    BY DEF Nothing

(* An insertion keeps the types when the counter it starts from allows it. *)
LEMMA PlaceType ==
    ASSUME NEW t \in [Buckets -> Entry \cup {Free}],
           NEW n \in 0..OccupancyLimit,
           NEW l \in [Hash -> BOOLEAN \cup {Unknown}],
           NEW h \in Hash, NEW m \in BOOLEAN,
           Place(t, n, l, h, m)
    PROVE  TypeOK'
<1>1. [hash |-> h, presentMeta |-> m] \in Entry
    BY DEF Entry
<1>2. cached' \in [Buckets -> Entry \cup {Free}]
    BY <1>1 DEF Place
<1>3. length' \in 0..(OccupancyLimit + 1)
    BY CacheAssumption DEF Place
<1>4. latest' \in [Hash -> BOOLEAN \cup {Unknown}]
    BY DEF Place
<1> QED
    BY <1>2, <1>3, <1>4 DEF TypeOK

(* Every step keeps the types. *)
LEMMA TypeStep == TypeOK /\ [Next]_vars => TypeOK'
<1> SUFFICES ASSUME TypeOK, [Next]_vars PROVE TypeOK'
    OBVIOUS
<1> USE CacheAssumption
<1>1. ASSUME NEW h \in Hash, NEW m \in BOOLEAN, AddWithinLimit(h, m)
      PROVE  TypeOK'
    <2>1. length \in 0..OccupancyLimit
        BY <1>1 DEF TypeOK, AddWithinLimit
    <2> QED
        BY <1>1, <2>1, PlaceType DEF TypeOK, AddWithinLimit
<1>2. ASSUME NEW h \in Hash, NEW m \in BOOLEAN, AddOverLimit(h, m) \/ AddNoRoom(h, m)
      PROVE  TypeOK'
    <2>1. Place(Wiped(cached), 0, Nothing, h, m) /\ 0 \in 0..OccupancyLimit
        BY <1>2 DEF AddOverLimit, AddNoRoom
    <2> QED
        BY <2>1, PlaceType, WipedType, NothingType DEF TypeOK
<1>3. ASSUME FLockCacheErase PROVE TypeOK'
    BY <1>3, WipedType, NothingType DEF FLockCacheErase, TypeOK
<1>4. ASSUME UNCHANGED vars PROVE TypeOK'
    BY <1>4 DEF vars, TypeOK
<1> QED
    BY <1>1, <1>2, <1>3, <1>4 DEF Next, FLockCacheUpdateOrAdd

(* The table, its counter and the history keep their types; in particular  *)
(* the counter never passes the limit by more than one.                    *)
THEOREM TypeCorrect == Spec => []TypeOK
<1>1. Init => TypeOK
    BY CacheAssumption, NothingType DEF Init, TypeOK
<1> QED
    BY <1>1, TypeStep, PTL DEF Spec

-----------------------------------------------------------------------------
(* Whatever the table was born with: recorded values are found or missed,  *)
(* never outdated.                                                         *)

(* The bucket table t keeps for a path: the insertion scan stops at it and *)
(* it holds value v.                                                       *)
Keeps(t, h, v) ==
    \E i \in Buckets : RoomAt(t, h, i) /\ Holds(t, h, i) /\ t[i].presentMeta = v

Inserted(t, i, h, m) == [t EXCEPT ![i] = [hash |-> h, presentMeta |-> m]]

(* An insertion for h puts h where its own scan stops, and disturbs no     *)
(* other path's bucket.                                                    *)
LEMMA InsertKeeps ==
    ASSUME NEW t \in [Buckets -> Entry \cup {Free}],
           NEW h \in Hash, NEW m \in BOOLEAN,
           NEW i \in Buckets, RoomAt(t, h, i)
    PROVE  /\ Keeps(Inserted(t, i, h, m), h, m)
           /\ \A x \in Hash \ {h} : \A v : Keeps(t, x, v) => Keeps(Inserted(t, i, h, m), x, v)
<1> DEFINE e == [hash |-> h, presentMeta |-> m]
           u == Inserted(t, i, h, m)
<1>1. e \in Entry /\ e # Free /\ e.hash = h /\ e.presentMeta = m
    BY CacheAssumption DEF Entry
<1>3. /\ u[i] = e
      /\ \A j \in Buckets : j # i => u[j] = t[j]
    BY DEF Inserted
<1> HIDE DEF e, u
<1>2. \A j : (j \in FLockCacheCalcIndex(h)..Capacity \/ j \in 0..CollisionResolve) => j \in Buckets
    BY CalcIndexRange, CacheAssumption DEF Buckets
<1>4. Stops(t, h, i)
    BY DEF RoomAt
<1>5. Keeps(u, h, m)
    <2>1. Holds(u, h, i) /\ Stops(u, h, i) /\ u[i].presentMeta = m
        BY <1>1, <1>3 DEF Holds, Stops
    <2>2. RoomAt(u, h, i)
        <3>1. CASE i \in FLockCacheCalcIndex(h)..Capacity
                   /\ \A j \in FLockCacheCalcIndex(h)..(i - 1) : ~Stops(t, h, j)
            <4>1. \A j \in FLockCacheCalcIndex(h)..(i - 1) : j \in Buckets /\ j # i
                BY <3>1, CalcIndexRange, CacheAssumption DEF Buckets
            <4>2. \A j \in FLockCacheCalcIndex(h)..(i - 1) : ~Stops(u, h, j)
                BY <3>1, <4>1, <1>3 DEF Stops, Holds
            <4> QED
                BY <3>1, <4>2, <2>1 DEF RoomAt
        <3>2. CASE UpScanFails(t, h) /\ i \in 0..CollisionResolve
                   /\ \A j \in 0..(i - 1) : ~Stops(t, h, j)
            <4>1. i \notin FLockCacheCalcIndex(h)..Capacity
                BY <3>2, <1>4 DEF UpScanFails
            <4>2. UpScanFails(u, h)
                BY <3>2, <4>1, <1>2, <1>3 DEF UpScanFails, Stops, Holds
            <4>3. \A j \in 0..(i - 1) : j \in Buckets /\ j # i
                BY <3>2, CacheAssumption DEF Buckets
            <4>4. \A j \in 0..(i - 1) : ~Stops(u, h, j)
                BY <3>2, <4>3, <1>3 DEF Stops, Holds
            <4> QED
                BY <3>2, <4>2, <4>4, <2>1 DEF RoomAt
        <3> QED
            BY <3>1, <3>2 DEF RoomAt
    <2> QED
        BY <2>1, <2>2 DEF Keeps
<1>6. ASSUME NEW x \in Hash, x # h, NEW v, Keeps(t, x, v)
      PROVE  Keeps(u, x, v)
    <2>1. PICK p \in Buckets : RoomAt(t, x, p) /\ Holds(t, x, p) /\ t[p].presentMeta = v
        BY <1>6 DEF Keeps
    <2>2. p # i
        BY <2>1, <1>4, <1>6 DEF Holds, Stops
    <2>3. \A j \in Buckets : ~Stops(t, x, j) => ~Stops(u, x, j)
        BY <1>1, <1>3, <1>6 DEF Stops, Holds
    <2>4. Holds(u, x, p) /\ Stops(u, x, p) /\ u[p].presentMeta = v
        BY <2>1, <2>2, <1>3 DEF Holds, Stops
    <2>5. RoomAt(u, x, p)
        <3>1. \A j : (j \in FLockCacheCalcIndex(x)..Capacity \/ j \in 0..CollisionResolve) => j \in Buckets
            BY CalcIndexRange, CacheAssumption DEF Buckets
        <3>2. \A j : (j \in FLockCacheCalcIndex(x)..(p - 1) \/ j \in 0..(p - 1)) => j \in Buckets
            BY CalcIndexRange, CacheAssumption DEF Buckets
        <3> QED
            BY <2>1, <2>3, <2>4, <3>1, <3>2 DEF RoomAt, UpScanFails
    <2> QED
        BY <2>4, <2>5 DEF Keeps
<1> QED
    BY <1>5, <1>6 DEF u

(* LatestHeld, for an arbitrary table and history. *)
HeldIn(t, l) == \A h \in Hash : l[h] # Unknown => Keeps(t, h, l[h])

(* Placing an entry keeps every recorded value where its scan stops. *)
LEMMA PlaceHolds ==
    ASSUME NEW t \in [Buckets -> Entry \cup {Free}], NEW n,
           NEW l \in [Hash -> BOOLEAN \cup {Unknown}],
           HeldIn(t, l), NEW h \in Hash, NEW m \in BOOLEAN,
           Place(t, n, l, h, m)
    PROVE  HeldIn(cached', latest')
<1>1. PICK i \in Buckets : /\ RoomAt(t, h, i)
                           /\ cached' = [t EXCEPT ![i] = [hash |-> h, presentMeta |-> m]]
    BY DEF Place
<1>2. /\ Keeps(Inserted(t, i, h, m), h, m)
      /\ \A x \in Hash \ {h} : \A v : Keeps(t, x, v) => Keeps(Inserted(t, i, h, m), x, v)
    BY <1>1, InsertKeeps
<1>3. /\ latest'[h] = m
      /\ \A x \in Hash \ {h} : latest'[x] = l[x]
    BY DEF Place
<1>4. cached' = Inserted(t, i, h, m)
    BY <1>1 DEF Inserted
<1> QED
    BY <1>2, <1>3, <1>4 DEF HeldIn

(* LatestHeld is HeldIn of the current table. *)
LEMMA HeldDef == LatestHeld <=> HeldIn(cached, latest)
    BY DEF LatestHeld, HeldIn, Keeps

(* With an empty history there is nothing to hold. *)
LEMMA NothingHeld == ASSUME NEW t PROVE HeldIn(t, Nothing)
    BY DEF HeldIn, Nothing

(* Every step keeps the recorded values held. *)
LEMMA HeldStep == TypeOK /\ HeldIn(cached, latest) /\ [Next]_vars => HeldIn(cached', latest')
<1> SUFFICES ASSUME TypeOK, HeldIn(cached, latest), [Next]_vars
             PROVE  HeldIn(cached', latest')
    OBVIOUS
<1>1. ASSUME NEW h \in Hash, NEW m \in BOOLEAN, AddWithinLimit(h, m)
      PROVE  HeldIn(cached', latest')
    BY <1>1, PlaceHolds DEF AddWithinLimit, TypeOK
<1>2. ASSUME NEW h \in Hash, NEW m \in BOOLEAN, AddOverLimit(h, m) \/ AddNoRoom(h, m)
      PROVE  HeldIn(cached', latest')
    <2>1. Place(Wiped(cached), 0, Nothing, h, m)
        BY <1>2 DEF AddOverLimit, AddNoRoom
    <2> QED
        BY <2>1, PlaceHolds, NothingHeld, WipedType, NothingType DEF TypeOK
<1>3. ASSUME FLockCacheErase PROVE HeldIn(cached', latest')
    BY <1>3, NothingHeld DEF FLockCacheErase
<1>4. ASSUME UNCHANGED vars PROVE HeldIn(cached', latest')
    BY <1>4 DEF vars
<1> QED
    BY <1>1, <1>2, <1>3, <1>4 DEF Next, FLockCacheUpdateOrAdd

(* A newer entry is never placed behind an older one of the same path. *)
THEOREM LatestIsHeld == Spec => []LatestHeld
<1>1. Init => LatestHeld
    BY NothingHeld, HeldDef DEF Init
<1>2. TypeOK /\ LatestHeld /\ [Next]_vars => LatestHeld'
    <2>1. LatestHeld' <=> HeldIn(cached', latest')
        BY DEF LatestHeld, HeldIn, Keeps
    <2> QED
        BY <2>1, HeldDef, HeldStep
<1> QED
    BY <1>1, <1>2, TypeCorrect, PTL DEF Spec


(* What the scan of an insertion and the scan of a lookup share: both stop *)
(* at one bucket only.                                                     *)
LEMMA RoomUnique ==
    ASSUME NEW t, NEW h \in Hash, NEW p \in Buckets, NEW q \in Buckets,
           RoomAt(t, h, p), RoomAt(t, h, q)
    PROVE  p = q
    BY CalcIndexRange, CacheAssumption DEF RoomAt, UpScanFails, Buckets

(* The bucket a lookup hits is the one where the scan for room stops. *)
LEMMA HitIsRoom ==
    ASSUME NEW t, NEW h \in Hash, NEW p \in Buckets, HitAt(t, h, p)
    PROVE  RoomAt(t, h, p) /\ Holds(t, h, p)
    BY CacheAssumption DEF HitAt, RoomAt, Stops, Buckets

(* The lookup of a held value returns it or misses. *)
LEMMA KeptIsNotStale ==
    ASSUME NEW t, NEW h \in Hash, NEW v, Keeps(t, h, v)
    PROVE  FLockCacheLookup(t, h) \in {v, Unknown}
<1>1. PICK i \in Buckets : RoomAt(t, h, i) /\ t[i].presentMeta = v
    BY DEF Keeps
<1>2. \A p \in Buckets : HitAt(t, h, p) => p = i
    BY <1>1, HitIsRoom, RoomUnique
<1>3. CASE \E p \in Buckets : HitAt(t, h, p)
    <2>1. (CHOOSE p \in Buckets : HitAt(t, h, p)) = i
        BY <1>2, <1>3
    <2> QED
        BY <1>1, <1>3, <2>1 DEF FLockCacheLookup
<1>4. CASE ~\E p \in Buckets : HitAt(t, h, p)
    BY <1>4 DEF FLockCacheLookup
<1> QED
    BY <1>3, <1>4

(* A lookup answers with the latest recorded value or misses. *)
THEOREM LookupNeverStale == Spec => []NeverStale
<1>1. LatestHeld => NeverStale
    BY HeldDef, KeptIsNotStale DEF HeldIn, NeverStale
<1> QED
    BY <1>1, LatestIsHeld, PTL

(* The only entry a lookup misses is in the last bucket of the wrapped     *)
(* scan, where the insertion goes and the lookup does not.                 *)
THEOREM MissesAreAtWrapEnd == Spec => []MissOnlyAtWrapEnd
<1>1. ASSUME LatestHeld, NEW h \in Hash, latest[h] # Unknown,
             FLockCacheLookup(cached, h) = Unknown
      PROVE  RoomAt(cached, h, CollisionResolve) /\ UpScanFails(cached, h)
    <2>1. PICK i \in Buckets :
              /\ RoomAt(cached, h, i) /\ Holds(cached, h, i)
              /\ cached[i].presentMeta = latest[h]
        BY <1>1 DEF LatestHeld
    <2>2. ~HitAt(cached, h, i)
        <3>1. ASSUME HitAt(cached, h, i) PROVE FALSE
            <4>1. \A p \in Buckets : HitAt(cached, h, p) => p = i
                BY <2>1, HitIsRoom, RoomUnique
            <4>2. (CHOOSE p \in Buckets : HitAt(cached, h, p)) = i
                BY <3>1, <4>1
            <4> QED
                BY <1>1, <2>1, <3>1, <4>2 DEF FLockCacheLookup
        <3> QED
            BY <3>1
    <2>3. UpScanFails(cached, h) /\ i \in 0..CollisionResolve
          /\ i \notin 0..(CollisionResolve - 1)
        BY <2>1, <2>2 DEF RoomAt, HitAt
    <2>4. i = CollisionResolve
        BY <2>3, CacheAssumption
    <2> QED
        BY <2>1, <2>3, <2>4
<1>2. LatestHeld => MissOnlyAtWrapEnd
    BY <1>1 DEF MissOnlyAtWrapEnd
<1> QED
    BY <1>2, LatestIsHeld, PTL

-----------------------------------------------------------------------------
(* Born zeroed, with slack between the limit and the capacity.             *)

OccupiedIn(t) == {i \in Buckets : t[i] # Free}

ContiguousIn(t) ==
    \A p \in OccupiedIn(t) :
        /\ FLockCacheCalcIndex(t[p].hash) <= p
        /\ \A j \in FLockCacheCalcIndex(t[p].hash)..p : t[j] # Free

UniqueIn(t) == \A p, q \in OccupiedIn(t) : t[p].hash = t[q].hash => p = q

(* The inductive invariant of a clean table whose counter reads n. *)
CleanIn(t, n) ==
    /\ t \in [Buckets -> Entry \cup {Free}]
    /\ ContiguousIn(t)
    /\ UniqueIn(t)
    /\ Cardinality(OccupiedIn(t)) <= n

(* The occupied buckets can be counted. *)
LEMMA OccupiedFinite ==
    ASSUME NEW t
    PROVE  /\ IsFiniteSet(OccupiedIn(t))
           /\ Cardinality(OccupiedIn(t)) \in Nat
<1>1. IsFiniteSet(Buckets)
    BY FS_Interval, CacheAssumption DEF Buckets
<1>2. OccupiedIn(t) \subseteq Buckets
    BY DEF OccupiedIn
<1> QED
    BY <1>1, <1>2, FS_Subset, FS_CardinalityType

(* A run from a path's own bucket to the last one is longer than the limit. *)
LEMMA FreeBucketInReach ==
    ASSUME HomesLeaveSlack, NEW t, NEW h \in Hash,
           Cardinality(OccupiedIn(t)) <= OccupancyLimit + 1
    PROVE  \E j \in FLockCacheCalcIndex(h)..Capacity : t[j] = Free
<1> DEFINE c == FLockCacheCalcIndex(h)
           run == c..Capacity
<1> SUFFICES ASSUME \A j \in run : t[j] # Free PROVE FALSE
    OBVIOUS
<1>1. c \in Nat /\ Capacity \in Nat /\ OccupancyLimit \in Nat /\ c + OccupancyLimit + 1 < Capacity
    BY CalcIndexRange, CacheAssumption DEF HomesLeaveSlack
<1>2. run \subseteq OccupiedIn(t)
    BY <1>1 DEF OccupiedIn, Buckets
<1>3. Cardinality(run) = Capacity - c + 1
    <2> HIDE DEF c
    <2> QED
        BY <1>1, FS_Interval
<1>4. Cardinality(run) <= Cardinality(OccupiedIn(t))
    BY <1>2, OccupiedFinite, FS_Subset
<1> QED
    BY <1>1, <1>3, <1>4, OccupiedFinite

(* So neither scan reaches the end, and the last bucket stays unused. *)
LEMMA CleanNeverWraps ==
    ASSUME HomesLeaveSlack, NEW t, NEW n \in 0..(OccupancyLimit + 1), CleanIn(t, n)
    PROVE  /\ \A h \in Hash : ~UpScanFails(t, h)
           /\ t[Capacity] = Free
<1>1. Cardinality(OccupiedIn(t)) <= OccupancyLimit + 1
    BY OccupiedFinite, CacheAssumption DEF CleanIn
<1>2. ASSUME NEW h \in Hash, UpScanFails(t, h) PROVE FALSE
    BY <1>1, <1>2, FreeBucketInReach DEF UpScanFails, Stops
<1>3. ASSUME t[Capacity] # Free PROVE FALSE
    <2>1. Capacity \in OccupiedIn(t) /\ t[Capacity].hash \in Hash
        BY <1>3, CacheAssumption DEF OccupiedIn, Buckets, CleanIn, Entry
    <2>2. \A j \in FLockCacheCalcIndex(t[Capacity].hash)..Capacity : t[j] # Free
        BY <2>1 DEF CleanIn, ContiguousIn
    <2> QED
        BY <1>1, <2>1, <2>2, FreeBucketInReach
<1> QED
    BY <1>2, <1>3

(* A wipe of such a table leaves nothing. *)
LEMMA WipedIsClean ==
    ASSUME HomesLeaveSlack, NEW t, NEW n \in 0..(OccupancyLimit + 1), CleanIn(t, n)
    PROVE  Wiped(t) = [i \in Buckets |-> Free]
    BY CleanNeverWraps, CacheAssumption DEF Wiped, Buckets

(* The zeroed table is clean. *)
LEMMA EmptyIsClean == CleanIn([i \in Buckets |-> Free], 0)
<1> DEFINE t == [i \in Buckets |-> Free]
<1>1. OccupiedIn(t) = {}
    BY DEF OccupiedIn
<1>2. Cardinality(OccupiedIn(t)) <= 0
    BY <1>1, FS_EmptySet
<1> QED
    BY <1>1, <1>2 DEF CleanIn, ContiguousIn, UniqueIn

(* An insertion into a clean table within its limit: where it goes. *)
LEMMA CleanRoom ==
    ASSUME HomesLeaveSlack, NEW t, NEW n \in 0..OccupancyLimit, CleanIn(t, n),
           NEW h \in Hash, NEW i \in Buckets, RoomAt(t, h, i)
    PROVE  /\ i \in FLockCacheCalcIndex(h)..Capacity
           /\ \A j \in FLockCacheCalcIndex(h)..(i - 1) : ~Stops(t, h, j)
           /\ t[i] = Free \/ t[i].hash = h
           /\ \A p \in Buckets : Holds(t, h, p) => p = i
<1>1. ~UpScanFails(t, h)
    BY CleanNeverWraps, CacheAssumption
<1>2. /\ i \in FLockCacheCalcIndex(h)..Capacity
      /\ \A j \in FLockCacheCalcIndex(h)..(i - 1) : ~Stops(t, h, j)
      /\ Stops(t, h, i)
    BY <1>1 DEF RoomAt
<1>3. ASSUME NEW p \in Buckets, Holds(t, h, p) PROVE p = i
    <2>1. p \in OccupiedIn(t) /\ FLockCacheCalcIndex(h) <= p
        BY <1>3 DEF OccupiedIn, Holds, CleanIn, ContiguousIn
    <2>2. \A j \in FLockCacheCalcIndex(h)..p : t[j] # Free
        BY <1>3, <2>1 DEF Holds, CleanIn, ContiguousIn
    <2>3. ~(p < i)
        BY <1>2, <1>3, <2>1, CalcIndexRange, CacheAssumption DEF Stops, Buckets
    <2>4. ASSUME i < p PROVE FALSE
        <3>1. t[i] # Free
            BY <2>2, <2>4, <1>2, CalcIndexRange, CacheAssumption DEF Buckets
        <3>2. i \in OccupiedIn(t) /\ t[i].hash = h
            BY <3>1, <1>2 DEF Stops, Holds, OccupiedIn
        <3>3. i = p
            BY <3>2, <2>1, <1>3 DEF Holds, CleanIn, UniqueIn
        <3> QED
            BY <3>3, <2>4, CacheAssumption DEF Buckets
    <2> QED
        BY <2>3, <2>4, CacheAssumption DEF Buckets
<1> QED
    BY <1>2, <1>3 DEF Stops, Holds

(* An insertion where the scan stops keeps a table clean. *)
LEMMA InsertClean ==
    ASSUME HomesLeaveSlack, NEW t, NEW n \in 0..OccupancyLimit, CleanIn(t, n),
           NEW h \in Hash, NEW m \in BOOLEAN, NEW i \in Buckets, RoomAt(t, h, i)
    PROVE  CleanIn(Inserted(t, i, h, m), n + 1)
<1> DEFINE e == [hash |-> h, presentMeta |-> m]
           u == Inserted(t, i, h, m)
<1>1. e \in Entry /\ e # Free /\ e.hash = h
    BY CacheAssumption DEF Entry
<1>2. /\ u \in [Buckets -> Entry \cup {Free}]
      /\ u[i] = e
      /\ \A j \in Buckets : j # i => u[j] = t[j]
    BY <1>1 DEF Inserted, CleanIn
<1> HIDE DEF e, u
<1>3. OccupiedIn(u) = OccupiedIn(t) \cup {i}
    BY <1>1, <1>2 DEF OccupiedIn
<1>4. Cardinality(OccupiedIn(u)) <= n + 1
    <2>1. CASE i \in OccupiedIn(t)
        <3>1. OccupiedIn(u) = OccupiedIn(t)
            BY <1>3, <2>1
        <3> QED
            BY <3>1, OccupiedFinite, CacheAssumption DEF CleanIn
    <2>2. CASE i \notin OccupiedIn(t)
        <3>1. Cardinality(OccupiedIn(u)) = Cardinality(OccupiedIn(t)) + 1
            BY <1>3, <2>2, OccupiedFinite, FS_AddElement
        <3> QED
            BY <3>1, OccupiedFinite, CacheAssumption DEF CleanIn
    <2> QED
        BY <2>1, <2>2
<1>5. ContiguousIn(u)
    <2> SUFFICES ASSUME NEW p \in OccupiedIn(u)
                 PROVE  /\ FLockCacheCalcIndex(u[p].hash) <= p
                        /\ \A j \in FLockCacheCalcIndex(u[p].hash)..p : u[j] # Free
        BY DEF ContiguousIn
    <2>1. \A j \in Buckets : t[j] # Free => u[j] # Free
        BY <1>1, <1>2
    <2>2. CASE p = i
        <3>1. u[p].hash = h /\ u[p] # Free
            BY <1>1, <1>2, <2>2
        <3>2. i \in FLockCacheCalcIndex(h)..Capacity
            BY CleanRoom
        <3>3. \A j \in FLockCacheCalcIndex(h)..(i - 1) : t[j] # Free /\ j \in Buckets
            BY CleanRoom, CalcIndexRange, CacheAssumption DEF Stops, Buckets
        <3>4. \A j \in FLockCacheCalcIndex(h)..i : u[j] # Free
            BY <2>1, <3>1, <3>2, <3>3, <2>2, CalcIndexRange, CacheAssumption
        <3> QED
            BY <2>2, <3>1, <3>2, <3>4, CalcIndexRange, CacheAssumption
    <2>3. CASE p # i
        <3>1. p \in OccupiedIn(t) /\ u[p] = t[p] /\ p \in Buckets
            BY <1>2, <1>3, <2>3 DEF OccupiedIn
        <3>2. /\ FLockCacheCalcIndex(t[p].hash) <= p
              /\ \A j \in FLockCacheCalcIndex(t[p].hash)..p : t[j] # Free
            BY <3>1 DEF CleanIn, ContiguousIn
        <3>3. t[p].hash \in Hash
            BY <3>1 DEF CleanIn, OccupiedIn, Entry
        <3>4. \A j \in FLockCacheCalcIndex(t[p].hash)..p : j \in Buckets
            BY <3>1, <3>3, CalcIndexRange, CacheAssumption DEF Buckets
        <3> QED
            BY <2>1, <3>1, <3>2, <3>4
    <2> QED
        BY <2>2, <2>3
<1>6. UniqueIn(u)
    <2> SUFFICES ASSUME NEW p \in OccupiedIn(u), NEW q \in OccupiedIn(u),
                        u[p].hash = u[q].hash
                 PROVE  p = q
        BY DEF UniqueIn
    <2>1. \A k \in OccupiedIn(u) : k # i => k \in OccupiedIn(t) /\ u[k] = t[k] /\ k \in Buckets
        BY <1>2, <1>3 DEF OccupiedIn
    <2>2. \A k \in OccupiedIn(u) : u[k].hash = h => k = i
        BY <2>1, CleanRoom DEF Holds, OccupiedIn
    <2>3. CASE p = i \/ q = i
        BY <1>1, <1>2, <2>2, <2>3
    <2>4. CASE p # i /\ q # i
        BY <2>1, <2>4 DEF CleanIn, UniqueIn
    <2> QED
        BY <2>3, <2>4
<1>7. CleanIn(u, n + 1)
    BY <1>2, <1>4, <1>5, <1>6 DEF CleanIn
<1> QED
    BY <1>7 DEF u

(* The same for the action that places an entry. *)
LEMMA PlaceClean ==
    ASSUME HomesLeaveSlack, NEW t, NEW n \in 0..OccupancyLimit, CleanIn(t, n),
           NEW l, NEW h \in Hash, NEW m \in BOOLEAN, Place(t, n, l, h, m)
    PROVE  CleanIn(cached', length')
<1>1. PICK i \in Buckets : RoomAt(t, h, i) /\ cached' = Inserted(t, i, h, m)
    BY DEF Place, Inserted
<1>2. length' = n + 1
    BY DEF Place
<1> QED
    BY <1>1, <1>2, InsertClean

(* The bucket no wipe clears is free in a clean table: the wipe leaves     *)
(* nothing behind.                                                         *)
LEMMA CleanWipesToNothing ==
    ASSUME HomesLeaveSlack, TypeOK, CleanIn(cached, length)
    PROVE  Wiped(cached) = [i \in Buckets |-> Free]
    BY WipedIsClean DEF TypeOK

CInv == TypeOK /\ CleanIn(cached, length)

(* Every step keeps the table clean. *)
LEMMA CleanStep == HomesLeaveSlack /\ CInv /\ [Next]_vars => CInv'
<1> SUFFICES ASSUME HomesLeaveSlack, CInv, [Next]_vars PROVE CInv'
    OBVIOUS
<1> USE CacheAssumption
<1>1. TypeOK'
    BY TypeStep DEF CInv
<1>2. 0 \in 0..OccupancyLimit /\ CleanIn(Wiped(cached), 0)
    BY CleanWipesToNothing, EmptyIsClean DEF CInv
<1>3. ASSUME NEW h \in Hash, NEW m \in BOOLEAN, AddWithinLimit(h, m)
      PROVE  CleanIn(cached', length')
    <2>1. length \in 0..OccupancyLimit
        BY <1>3 DEF CInv, TypeOK, AddWithinLimit
    <2> QED
        BY <1>3, <2>1, PlaceClean DEF AddWithinLimit, CInv
<1>4. ASSUME NEW h \in Hash, NEW m \in BOOLEAN, AddOverLimit(h, m) \/ AddNoRoom(h, m)
      PROVE  CleanIn(cached', length')
    <2>1. Place(Wiped(cached), 0, Nothing, h, m)
        BY <1>4 DEF AddOverLimit, AddNoRoom
    <2> QED
        BY <1>2, <2>1, PlaceClean
<1>5. ASSUME FLockCacheErase PROVE CleanIn(cached', length')
    BY <1>2, <1>5 DEF FLockCacheErase
<1>6. ASSUME UNCHANGED vars PROVE CleanIn(cached', length')
    BY <1>6 DEF vars, CInv
<1>7. CleanIn(cached', length')
    BY <1>3, <1>4, <1>5, <1>6 DEF Next, FLockCacheUpdateOrAdd
<1> QED
    BY <1>1, <1>7 DEF CInv, CleanIn, ContiguousIn, UniqueIn, OccupiedIn

(* A table born zeroed stays clean. *)
LEMMA CleanInvariant == HomesLeaveSlack /\ CleanSpec => []CInv
<1>1. CleanInit => CInv
    BY EmptyIsClean, NothingType, CacheAssumption DEF CleanInit, CInv, TypeOK
<1>2. HomesLeaveSlack /\ CInv /\ [Next]_vars => CInv'
    BY CleanStep
<1>3. CASE HomesLeaveSlack
    <2>1. CInv /\ [Next]_vars => CInv'
        BY <1>2, <1>3
    <2> QED
        BY <1>1, <2>1, PTL DEF CleanSpec
<1>4. CASE ~HomesLeaveSlack
    BY <1>4
<1> QED
    BY <1>3, <1>4

(* What a clean table gives: the properties the runs check. *)
LEMMA CleanMeans ==
    ASSUME HomesLeaveSlack, CInv
    PROVE  ContiguousProbe /\ OneBucketPerHash /\ CounterCoversTable /\ NeverWraps
<1>1. ContiguousProbe /\ OneBucketPerHash /\ CounterCoversTable
    BY DEF CInv, CleanIn, ContiguousIn, UniqueIn, OccupiedIn,
           ContiguousProbe, OneBucketPerHash, CounterCoversTable, Occupied
<1>2. NeverWraps
    BY CleanNeverWraps DEF CInv, TypeOK, NeverWraps
<1> QED
    BY <1>1, <1>2

(* The four together, for every table with slack. *)
LEMMA CleanTableSound ==
    HomesLeaveSlack /\ CleanSpec =>
        [](ContiguousProbe /\ OneBucketPerHash /\ CounterCoversTable /\ NeverWraps)
<1>1. CASE HomesLeaveSlack
    <2>1. CInv => ContiguousProbe /\ OneBucketPerHash /\ CounterCoversTable /\ NeverWraps
        BY <1>1, CleanMeans
    <2> QED
        BY <1>1, <2>1, CleanInvariant, PTL
<1>2. CASE ~HomesLeaveSlack
    BY <1>2
<1> QED
    BY <1>1, <1>2

(* The probe runs have no gap. *)
THEOREM ProbesHaveNoGap == HomesLeaveSlack /\ CleanSpec => []ContiguousProbe
BY CleanTableSound, PTL

(* A path has one bucket, whatever collisions, updates and wipes were.     *)
THEOREM PathHasOneBucket == HomesLeaveSlack /\ CleanSpec => []OneBucketPerHash
BY CleanTableSound, PTL

(* The counter never runs behind the table. *)
THEOREM CounterCovers == HomesLeaveSlack /\ CleanSpec => []CounterCoversTable
BY CleanTableSound, PTL

(* No scan wraps, and the bucket no wipe clears is never used.             *)
THEOREM ScansNeverWrap == HomesLeaveSlack /\ CleanSpec => []NeverWraps
BY CleanTableSound, PTL

(* The three together: the scans of a clean table stay clean.              *)
THEOREM CleanScans == HomesLeaveSlack /\ CleanSpec => []ScansStayClean
<1>1. ContiguousProbe /\ CounterCoversTable /\ NeverWraps => ScansStayClean
    BY DEF ScansStayClean
<1> QED
    BY <1>1, ProbesHaveNoGap, CounterCovers, ScansNeverWrap, PTL

-----------------------------------------------------------------------------
(* The refinement of LossyMap.                                             *)

(* In a clean table the lookup finds a path wherever it is. *)
LEMMA CleanLookup ==
    ASSUME HomesLeaveSlack, NEW t, NEW n \in 0..(OccupancyLimit + 1), CleanIn(t, n),
           NEW h \in Hash
    PROVE  /\ \A p \in Buckets : Holds(t, h, p) => FLockCacheLookup(t, h) = t[p].presentMeta
           /\ (\A p \in Buckets : ~Holds(t, h, p)) => FLockCacheLookup(t, h) = Unknown
<1>1. ASSUME NEW p \in Buckets, Holds(t, h, p) PROVE HitAt(t, h, p)
    <2>1. p \in OccupiedIn(t) /\ t[p].hash = h
        BY <1>1 DEF OccupiedIn, Holds
    <2>2. /\ FLockCacheCalcIndex(h) <= p
          /\ \A j \in FLockCacheCalcIndex(h)..p : t[j] # Free
        BY <2>1 DEF CleanIn, ContiguousIn
    <2>3. \A j \in FLockCacheCalcIndex(h)..(p - 1) : j \in Buckets /\ j # p /\ t[j] # Free
        BY <2>2, CalcIndexRange, CacheAssumption DEF Buckets
    <2>4. \A j \in FLockCacheCalcIndex(h)..(p - 1) : t[j].hash # h
        BY <2>1, <2>3 DEF CleanIn, UniqueIn, OccupiedIn
    <2>5. \A j \in FLockCacheCalcIndex(h)..(p - 1) : ~Stops(t, h, j)
        BY <2>3, <2>4 DEF Stops, Holds
    <2>6. p \in FLockCacheCalcIndex(h)..Capacity
        BY <2>2, CalcIndexRange, CacheAssumption DEF Buckets
    <2> QED
        BY <1>1, <2>5, <2>6 DEF HitAt
<1>2. \A p, q \in Buckets : HitAt(t, h, p) /\ HitAt(t, h, q) => p = q
    BY HitIsRoom, RoomUnique
<1>3. ASSUME NEW p \in Buckets, Holds(t, h, p)
      PROVE  FLockCacheLookup(t, h) = t[p].presentMeta
    <2>1. HitAt(t, h, p)
        BY <1>1, <1>3
    <2>2. (CHOOSE q \in Buckets : HitAt(t, h, q)) = p
        BY <1>2, <2>1
    <2> QED
        BY <2>1, <2>2 DEF FLockCacheLookup
<1>4. ASSUME \A p \in Buckets : ~Holds(t, h, p)
      PROVE  FLockCacheLookup(t, h) = Unknown
    BY <1>4, HitIsRoom DEF FLockCacheLookup
<1> QED
    BY <1>3, <1>4

Answers(t) == [h \in Hash |-> FLockCacheLookup(t, h)]

(* The zeroed table knows nothing. *)
LEMMA EmptyAnswers ==
    ASSUME HomesLeaveSlack
    PROVE  Answers([i \in Buckets |-> Free]) = Nothing
<1> DEFINE t == [i \in Buckets |-> Free]
<1>1. CleanIn(t, 0) /\ 0 \in 0..(OccupancyLimit + 1)
    BY EmptyIsClean, CacheAssumption
<1>2. \A h \in Hash, p \in Buckets : ~Holds(t, h, p)
    BY DEF Holds
<1>3. \A h \in Hash : FLockCacheLookup(t, h) = Unknown
    BY <1>1, <1>2, CleanLookup
<1> QED
    BY <1>3 DEF Answers, Nothing

(* An insertion changes the answer of its own path only. *)
LEMMA InsertAnswers ==
    ASSUME HomesLeaveSlack, NEW t, NEW n \in 0..OccupancyLimit, CleanIn(t, n),
           NEW h \in Hash, NEW m \in BOOLEAN, NEW i \in Buckets, RoomAt(t, h, i)
    PROVE  Answers(Inserted(t, i, h, m)) = [Answers(t) EXCEPT ![h] = m]
<1> DEFINE e == [hash |-> h, presentMeta |-> m]
           u == Inserted(t, i, h, m)
<1>1. /\ n \in 0..(OccupancyLimit + 1) /\ n + 1 \in 0..(OccupancyLimit + 1)
      /\ CleanIn(u, n + 1)
    BY InsertClean, CacheAssumption
<1>2. e # Free /\ e.hash = h /\ e.presentMeta = m
    BY CacheAssumption DEF Entry
<1>3. /\ u[i] = e
      /\ \A j \in Buckets : j # i => u[j] = t[j]
    BY DEF Inserted, CleanIn
<1> HIDE DEF e, u
<1>4. FLockCacheLookup(u, h) = m
    BY <1>1, <1>2, <1>3, CleanLookup DEF Holds
<1>5. ASSUME NEW x \in Hash, x # h
      PROVE  FLockCacheLookup(u, x) = FLockCacheLookup(t, x)
    <2>1. \A p \in Buckets : Holds(u, x, p) <=> Holds(t, x, p)
        BY <1>2, <1>3, <1>5, CleanRoom DEF Holds
    <2>2. \A p \in Buckets : Holds(u, x, p) => u[p] = t[p]
        BY <1>2, <1>3, <1>5 DEF Holds
    <2>3. CASE \E p \in Buckets : Holds(t, x, p)
        <3>1. PICK p \in Buckets : Holds(t, x, p)
            BY <2>3
        <3>2. FLockCacheLookup(u, x) = u[p].presentMeta
            BY <1>1, <2>1, <3>1, CleanLookup
        <3>3. FLockCacheLookup(t, x) = t[p].presentMeta
            BY <1>1, <3>1, CleanLookup
        <3> QED
            BY <2>1, <2>2, <3>1, <3>2, <3>3
    <2>4. CASE ~\E p \in Buckets : Holds(t, x, p)
        <3>1. FLockCacheLookup(u, x) = Unknown
            BY <1>1, <2>1, <2>4, CleanLookup
        <3>2. FLockCacheLookup(t, x) = Unknown
            BY <1>1, <2>4, CleanLookup
        <3> QED
            BY <3>1, <3>2
    <2> QED
        BY <2>3, <2>4
<1> QED
    BY <1>4, <1>5 DEF Answers, u

(* Placing an entry changes the answer for its path and no other. *)
LEMMA PlaceAnswers ==
    ASSUME HomesLeaveSlack, NEW t, NEW n \in 0..OccupancyLimit, CleanIn(t, n),
           NEW l, NEW h \in Hash, NEW m \in BOOLEAN, Place(t, n, l, h, m)
    PROVE  Answers(cached') = [Answers(t) EXCEPT ![h] = m]
<1>1. PICK i \in Buckets : RoomAt(t, h, i) /\ cached' = Inserted(t, i, h, m)
    BY DEF Place, Inserted
<1> QED
    BY <1>1, InsertAnswers

(* Every step changes the answers like a step of the lossy map. *)
LEMMA AnswersStep ==
    ASSUME HomesLeaveSlack, CInv, [Next]_vars
    PROVE  \/ \E h \in Hash, m \in BOOLEAN :
                \/ Answers(cached') = [Answers(cached) EXCEPT ![h] = m]
                \/ Answers(cached') = [Nothing EXCEPT ![h] = m]
           \/ Answers(cached') = Nothing
           \/ Answers(cached') = Answers(cached)
<1>1. /\ 0 \in 0..OccupancyLimit
      /\ CleanIn(Wiped(cached), 0)
      /\ Answers(Wiped(cached)) = Nothing
    BY CleanWipesToNothing, EmptyIsClean, EmptyAnswers, CacheAssumption DEF CInv
<1>2. ASSUME NEW h \in Hash, NEW m \in BOOLEAN, AddWithinLimit(h, m)
      PROVE  Answers(cached') = [Answers(cached) EXCEPT ![h] = m]
    <2>1. length \in 0..OccupancyLimit
        BY <1>2, CacheAssumption DEF CInv, TypeOK, AddWithinLimit
    <2> QED
        BY <1>2, <2>1, PlaceAnswers DEF AddWithinLimit, CInv
<1>3. ASSUME NEW h \in Hash, NEW m \in BOOLEAN, AddOverLimit(h, m) \/ AddNoRoom(h, m)
      PROVE  Answers(cached') = [Nothing EXCEPT ![h] = m]
    <2>1. Place(Wiped(cached), 0, Nothing, h, m)
        BY <1>3 DEF AddOverLimit, AddNoRoom
    <2> QED
        BY <1>1, <2>1, PlaceAnswers
<1>4. ASSUME FLockCacheErase PROVE Answers(cached') = Nothing
    BY <1>1, <1>4 DEF FLockCacheErase
<1>5. ASSUME UNCHANGED vars PROVE Answers(cached') = Answers(cached)
    BY <1>5 DEF vars
<1> QED
    BY <1>2, <1>3, <1>4, <1>5 DEF Next, FLockCacheUpdateOrAdd

(* Every step of the table is a step of the map or leaves it alone. *)
THEOREM CleanTableIsLossyMap == HomesLeaveSlack /\ CleanSpec => ImplementsLossyMap
<1>1. CASE HomesLeaveSlack
    <2>1. CleanInit => CacheMap!Init
        BY <1>1, EmptyAnswers DEF CleanInit, CacheMap!Init, CacheMap!Nothing, Nothing, Answers
    <2>2. CInv /\ [Next]_vars => [CacheMap!Next]_(Answers(cached))
        BY <1>1, AnswersStep
        DEF CacheMap!Next, CacheMap!Record, CacheMap!Forget, CacheMap!Nothing, Nothing, Answers
    <2>3. CleanSpec => []CInv
        BY <1>1, CleanInvariant
    <2> QED
        BY <2>1, <2>2, <2>3, PTL DEF CleanSpec, ImplementsLossyMap, CacheMap!Spec, Answers
<1>2. CASE ~HomesLeaveSlack
    BY <1>2
<1> QED
    BY <1>1, <1>2
=============================================================================
