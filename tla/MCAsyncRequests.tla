-------------------------- MODULE MCAsyncRequests ---------------------------
(***************************************************************************)
(* Three threads of the pool and three requests for TLC.                   *)
(***************************************************************************)
EXTENDS AsyncRequestsProps

CONSTANTS c1, c2, c3
=============================================================================
