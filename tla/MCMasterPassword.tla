-------------------------- MODULE MCMasterPassword --------------------------
(***************************************************************************)
(* Two passwords, two clients and two values for TLC.                      *)
(***************************************************************************)
EXTENDS MasterPasswordProps, TLC

CONSTANTS c1, c2, p, q, v, w

Interchangeable ==
    Permutations({c1, c2}) \cup Permutations({p, q}) \cup Permutations({v, w})

(* A bound.  Most properties say nothing once a change of the password was *)
(* disturbed.  From there on the calls under way go to their end, single   *)
(* operations of the stores and restarts go on, but no first password,     *)
(* login or change begins.                                                 *)
NoCallBeginsOnceDisturbed ==
    disturbed => \A c \in Client : call[c] = Idle => call'[c] = Idle
=============================================================================
