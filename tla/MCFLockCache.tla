---------------------------- MODULE MCFLockCache ----------------------------
(***************************************************************************)
(* Small tables for TLC.                                                   *)
(***************************************************************************)
EXTENDS FLockCacheProps, TLC

CONSTANTS p1, p2, p3, p4, p5

(* Capacity 3: own buckets 0, 1 and 2, the last one a scan can start at. *)
SmallHash == {p1, p2, p3}
SmallPrefix == (p1 :> 0) @@ (p2 :> 1) @@ (p3 :> 5)

(* Capacity 8: two paths share a bucket, the others start in its run. *)
WideHash == {p1, p2, p3, p4, p5}
WidePrefix == (p1 :> 0) @@ (p2 :> 8) @@ (p3 :> 1) @@ (p4 :> 2) @@ (p5 :> 3)
=============================================================================
