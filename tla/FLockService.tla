---------------------------- MODULE FLockService -----------------------------
(***************************************************************************)
(* Which process the FLock driver takes for the Data Guard service:        *)
(* registration and its end (FLockDispatcher.c), the notice of a process's *)
(* end and the two unlocked fields they all read and write (FLock.c, where *)
(* the lock is a comment: "... lock ...").                                 *)
(*                                                                         *)
(* A step reads or writes one field.  A process asks for one thing at a    *)
(* time; after its end it may be born again, with the same number and the  *)
(* same address of its process object.                                     *)
(***************************************************************************)
CONSTANTS
    Process,
    NoProcess       \* NULL, and process number 0

ASSUME ServiceAssumption == NoProcess \notin Process

VARIABLES
    serviceProcess,     \* g_flockData.serviceProcess
    serviceProcessId,   \* g_flockData.serviceProcessId
    step,               \* where each process is in a request of this module
    registered          \* history: told "registered", neither left nor ended

serviceVars == <<serviceProcess, serviceProcessId, step, registered>>

ServiceTypeOK ==
    /\ serviceProcess \in Process \cup {NoProcess}
    /\ serviceProcessId \in Process \cup {NoProcess}
    /\ step \in [Process -> {"run", "register", "registerId", "ask", "leave",
                             "leaveId", "ending", "clear", "clearId", "ended"}]
    /\ registered \subseteq Process

Goes(p, from, to) == step[p] = from /\ step' = [step EXCEPT ![p] = to]

-----------------------------------------------------------------------------
(* IOCTL_FLOCK_REGISTER_SERVICE; a taken slot answers with an error.       *)

RegisterCheck(p) ==
    /\ serviceProcessId = NoProcess
    /\ Goes(p, "run", "register")
    /\ UNCHANGED <<serviceProcess, serviceProcessId, registered>>

RegisterProcess(p) ==
    /\ Goes(p, "register", "registerId")
    /\ serviceProcess' = p
    /\ UNCHANGED <<serviceProcessId, registered>>

RegisterId(p) ==
    /\ Goes(p, "registerId", "run")
    /\ serviceProcessId' = p
    /\ registered' = registered \cup {p}
    /\ UNCHANGED serviceProcess

FLockRegisterServiceProcess(p) == RegisterProcess(p) \/ RegisterId(p)

-----------------------------------------------------------------------------
(* IOCTL_FLOCK_UNREGISTER_SERVICE.  FLockAreWeInServiceProcessContext      *)
(* reads the number first: another number decides, whatever it reads next. *)

UnregisterReadId(p) ==
    /\ serviceProcessId = p
    /\ Goes(p, "run", "ask")
    /\ UNCHANGED <<serviceProcess, serviceProcessId, registered>>

UnregisterReadProcess(p) ==
    /\ Goes(p, "ask", IF serviceProcess = p THEN "leave" ELSE "run")
    /\ registered' = IF serviceProcess = p THEN registered \ {p} ELSE registered
    /\ UNCHANGED <<serviceProcess, serviceProcessId>>

(* FLockUnregisterServiceProcess, called by the service as it leaves and   *)
(* by the notice of its end.                                               *)
ClearProcess(p) ==
    /\ Goes(p, "leave", "leaveId") \/ Goes(p, "clear", "clearId")
    /\ serviceProcess' = NoProcess
    /\ UNCHANGED <<serviceProcessId, registered>>

ClearId(p) ==
    /\ Goes(p, "leaveId", "run") \/ Goes(p, "clearId", "ended")
    /\ serviceProcessId' = NoProcess
    /\ UNCHANGED <<serviceProcess, registered>>

FLockUnregisterServiceProcess(p) == ClearProcess(p) \/ ClearId(p)

-----------------------------------------------------------------------------
(* The end and the birth of a process. *)

ProcessEnds(p) ==
    /\ Goes(p, "run", "ending")
    /\ registered' = registered \ {p}
    /\ UNCHANGED <<serviceProcess, serviceProcessId>>

(* Seeded defects: compare the process object; listen to births only.      *)
NoticeByProcess(p) ==
    /\ Goes(p, "ending", IF serviceProcess = p THEN "clear" ELSE "ended")
    /\ UNCHANGED <<serviceProcess, serviceProcessId, registered>>

NoticeNothing(p) ==
    /\ Goes(p, "ending", "ended")
    /\ UNCHANGED <<serviceProcess, serviceProcessId, registered>>

FLockNotifyRoutineProcessCreated(p) ==
    /\ Goes(p, "ending", IF serviceProcessId = p THEN "clear" ELSE "ended")
    /\ UNCHANGED <<serviceProcess, serviceProcessId, registered>>

ProcessStarts(p) ==
    /\ Goes(p, "ended", "run")
    /\ UNCHANGED <<serviceProcess, serviceProcessId, registered>>

-----------------------------------------------------------------------------
ServiceInit ==
    /\ serviceProcess = NoProcess
    /\ serviceProcessId = NoProcess
    /\ step = [p \in Process |-> "run"]
    /\ registered = {}

(* What a process that waits for no other request may do. *)
ServiceStep(p) ==
    \/ RegisterCheck(p)
    \/ FLockRegisterServiceProcess(p)
    \/ UnregisterReadId(p)
    \/ UnregisterReadProcess(p)
    \/ FLockUnregisterServiceProcess(p)
    \/ ProcessEnds(p)
    \/ FLockNotifyRoutineProcessCreated(p)
    \/ ProcessStarts(p)
=============================================================================
