-------------------------- MODULE FLockAccessProps ---------------------------
(***************************************************************************)
(* The properties of registration and of the decision on an opening.       *)
(***************************************************************************)
EXTENDS FLockAccess

(* A process that ended never keeps the service slot, so that the next     *)
(* service can register: the notice compares the field that registration   *)
(* looks at, even when two registrations mixed their fields.               *)
SlotNotHeldByDead ==
    \A p \in Process : step[p] = "ended" => serviceProcessId # p

(* A process with the number and the object address of an ended service is *)
(* not taken for it.                                                       *)
NoInheritedService ==
    \A p \in Process :
        serviceProcess = p /\ serviceProcessId = p /\ step[p] = "run"
            => p \in registered

(* The cache says "no meta" of a file with meta only if the file was       *)
(* marked after (or while) it was looked at, or could not be read: no mix  *)
(* of openings, wipes and late records makes it forget a meta it saw.      *)
NoMetaVerdictJustified ==
    \A f \in File : known[f] = FALSE /\ meta[f] # NoMeta => f \in blind

(* An opening of a file whose rule locks it, from the beginning of the     *)
(* request to its end, is denied, except in the cases of                   *)
(* NoMetaVerdictJustified: two openings, the wipes of the cache and the    *)
(* gate that is read without a lock leave no other way in.                 *)
ProtectedIsDenied ==
    \A p \in Process :
        Is(p, "opened") /\ request[p].covered => request[p].file \in blind

(* "All future requests should be ignored only if the file has no FLock    *)
(* meta in extended attributes."                                           *)
SkipOnlyWithoutMeta ==
    [][\A p \in Process : SkipRead(p) => meta[request[p].file] = NoMeta]_systemVars
=============================================================================
