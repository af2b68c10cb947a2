------------------------------ MODULE LossyMap ------------------------------
(***************************************************************************)
(* What the FLock driver's file cache promises to the create handler: a    *)
(* map from a hashed path to "this file carries FLock meta" that always    *)
(* answers with the last recorded value or with nothing at all.  Recording *)
(* a value may forget every other one (the hash table is wiped when its    *)
(* occupancy counter passes the limit) but may never change or bring back  *)
(* another one.                                                            *)
(***************************************************************************)
CONSTANTS
    Hash,       \* hashed file paths
    Unknown     \* the answer "not in the cache"

VARIABLE known  \* known[h]: the cached answer for path h

TypeOK == known \in [Hash -> BOOLEAN \cup {Unknown}]

Nothing == [h \in Hash |-> Unknown]

Init == known = Nothing

(* The value of h becomes m; the other answers all stay or all disappear. *)
Record(h, m) ==
    \/ known' = [known EXCEPT ![h] = m]
    \/ known' = [Nothing EXCEPT ![h] = m]

Forget == known' = Nothing

Next ==
    \/ \E h \in Hash, m \in BOOLEAN : Record(h, m)
    \/ Forget

Spec == Init /\ [][Next]_known
=============================================================================
