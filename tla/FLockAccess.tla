----------------------------- MODULE FLockAccess -----------------------------
(***************************************************************************)
(* How the FLock minifilter decides the opening of a file: FLockPreCreate, *)
(* FLockPostCreate (requestCreate.c), and the two requests that change a   *)
(* file's meta, IOCTL_FLOCK_MARK_FILE and IOCTL_FLOCK_MAKE_BAD, whose own  *)
(* opening passes the same handlers and whose write passes FLockPreSetEa.  *)
(*                                                                         *)
(* The rules are the set of identifiers FLockStorageVerifyLock says yes    *)
(* to; FLockStorage shows that the gate is open while there is one.  The   *)
(* cache is the lossy map FLockCache implements, a file stands for its     *)
(* path and for the path's hash.  A step is one critical section, one read *)
(* of the file system or one read of a field of FLockService.              *)
(***************************************************************************)
EXTENDS FLockService

CONSTANTS
    File,
    Id,             \* flock identifiers
    NoMeta,         \* no FLock meta in the extended attributes, or a bad one
    Use,            \* the caller wants the handle for itself
    Unknown,        \* no verdict in the cache
    ReadMayFail     \* FltQueryEaFile may fail on a file with meta

ASSUME AccessAssumption ==
    /\ NoMeta \notin Id
    /\ Use \notin Id \cup {NoMeta}
    /\ Unknown \notin BOOLEAN
    /\ ReadMayFail \in BOOLEAN

VARIABLES
    meta,       \* the meta in each file's extended attributes
    known,      \* what the cache answers: does the file carry meta?
    locked,     \* identifiers the storage has a locking rule for
    request,    \* the opening each process waits for
    blind       \* history: marked while "no meta" was cached or about to be,
                \* or not readable

accessVars == <<meta, known, locked, request, blind>>
systemVars == <<serviceVars, accessVars>>

Meta == Id \cup {NoMeta}

None == [at |-> "none"]

Opening ==
    [at      : {"lookup", "read", "readUncached", "record", "verify", "opened",
                "write"},
     file    : File,
     want    : Meta \cup {Use},
     found   : Meta,
     covered : BOOLEAN]     \* history: its file's rule locked it all along

AccessTypeOK ==
    /\ ServiceTypeOK
    /\ meta \in [File -> Meta]
    /\ known \in [File -> BOOLEAN \cup {Unknown}]
    /\ locked \subseteq Id
    /\ blind \subseteq File
    /\ request \in [Process -> Opening \cup {None}]
    /\ \A p \in Process : request[p] # None =>
          /\ step[p] = "run"
          /\ request[p].at = "verify" => request[p].found # NoMeta
          /\ request[p].at = "write" => request[p].want # Use

CacheMap == INSTANCE LossyMap WITH Hash <- File

(* The opening of process p goes on to step s. *)
GoesOn(p, s) == request' = [request EXCEPT ![p].at = s]

Is(p, s) == request[p].at = s

(* The opening r, which stays covered if c holds. *)
StillCovered(r, c) == IF r = None THEN r ELSE [r EXCEPT !.covered = @ /\ c]

-----------------------------------------------------------------------------
(* FLockPreCreate: the gate may be open without a locking rule (a slot     *)
(* without identifier, a failed import), it is never shut with one.        *)
FLockPreCreate(p, f, want) ==
    /\ step[p] = "run"
    /\ Is(p, "none")
    /\ \E gate \in BOOLEAN :
          /\ locked # {} => gate
          /\ request' = [request EXCEPT ![p] =
                [at      |-> IF gate THEN "lookup" ELSE "opened",
                 file    |-> f,
                 want    |-> want,
                 found   |-> NoMeta,
                 covered |-> meta[f] \in locked]]
    /\ UNCHANGED <<serviceVars, meta, known, locked, blind>>

(* Seeded defect: any hit skips the attributes. *)
SkipAnyHit(p) ==
    /\ Is(p, "lookup")
    /\ known[request[p].file] # Unknown
    /\ GoesOn(p, "opened")
    /\ UNCHANGED <<serviceVars, meta, known, locked, blind>>

(* FLockPostCreate: "cache_strike", the attributes are not read. *)
SkipRead(p) ==
    /\ Is(p, "lookup")
    /\ known[request[p].file] = FALSE
    /\ GoesOn(p, "opened")
    /\ UNCHANGED <<serviceVars, meta, known, locked, blind>>

(* No verdict, or one that asks for the identifier. *)
MissOrMeta(p) ==
    /\ Is(p, "lookup")
    /\ known[request[p].file] # FALSE
    /\ GoesOn(p, "read")
    /\ UNCHANGED <<serviceVars, meta, known, locked, blind>>

(* FLockFltGetPath fails: no hash, the cache is not used. *)
NoPath(p) ==
    /\ Is(p, "lookup")
    /\ GoesOn(p, "readUncached")
    /\ UNCHANGED <<serviceVars, meta, known, locked, blind>>

(* A failed FltQueryEaFile reads like a file without meta. *)
FLockFltReadFirstMeta(p) ==
    /\ Is(p, "read") \/ Is(p, "readUncached")
    /\ \E failed \in {FALSE, ReadMayFail} :
          LET f     == request[p].file
              found == IF failed THEN NoMeta ELSE meta[f]
          IN  /\ request' = [request EXCEPT
                    ![p].found = found,
                    ![p].at = IF @ = "read" THEN "record"
                              ELSE IF found = NoMeta THEN "opened" ELSE "verify"]
              /\ blind' = IF found = meta[f] THEN blind ELSE blind \cup {f}
    /\ UNCHANGED <<serviceVars, meta, known, locked>>

(* Seeded defects: the verdict upside down; verify whatever was found. *)
RecordOpposite(p) ==
    /\ Is(p, "record")
    /\ CacheMap!Record(request[p].file, request[p].found = NoMeta)
    /\ GoesOn(p, IF request[p].found = NoMeta THEN "opened" ELSE "verify")
    /\ UNCHANGED <<serviceVars, meta, locked, blind>>

RecordAndVerify(p) ==
    /\ Is(p, "record")
    /\ CacheMap!Record(request[p].file, request[p].found # NoMeta)
    /\ GoesOn(p, "verify")
    /\ UNCHANGED <<serviceVars, meta, locked, blind>>

RecordVerdict(p) ==
    /\ Is(p, "record")
    /\ CacheMap!Record(request[p].file, request[p].found # NoMeta)
    /\ GoesOn(p, IF request[p].found = NoMeta THEN "opened" ELSE "verify")
    /\ UNCHANGED <<serviceVars, meta, locked, blind>>

(* STATUS_ACCESS_DENIED and FltCancelFileOpen, or the caller's handle. *)
VerifyLock(p) ==
    /\ Is(p, "verify")
    /\ IF request[p].found \in locked
       THEN request' = [request EXCEPT ![p] = None]
       ELSE GoesOn(p, "opened")
    /\ UNCHANGED <<serviceVars, meta, known, locked, blind>>

Close(p) ==
    /\ Is(p, "opened")
    /\ request[p].want = Use
    /\ request' = [request EXCEPT ![p] = None]
    /\ UNCHANGED <<serviceVars, meta, known, locked, blind>>

-----------------------------------------------------------------------------
(* FLockFileWriteMeta2 has its handle: ZwSetEaFile passes FLockPreSetEa,   *)
(* which lets the service alone write the attribute.                       *)

WriteReadId(p) ==
    /\ Is(p, "opened")
    /\ request[p].want # Use
    /\ IF serviceProcessId = p
       THEN GoesOn(p, "write")
       ELSE request' = [request EXCEPT ![p] = None]
    /\ UNCHANGED <<serviceVars, meta, known, locked, blind>>

WriteDenied(p) ==
    /\ Is(p, "write")
    /\ serviceProcess # p
    /\ request' = [request EXCEPT ![p] = None]
    /\ UNCHANGED <<serviceVars, meta, known, locked, blind>>

SaysNoMeta(f) ==
    \/ known[f] = FALSE
    \/ \E q \in Process :
          Is(q, "record") /\ request[q].file = f /\ request[q].found = NoMeta

(* The verdict in the cache is left as it is. *)
FLockWriteMeta(p) ==
    /\ Is(p, "write")
    /\ serviceProcess = p
    /\ LET f == request[p].file
       IN  /\ meta' = [meta EXCEPT ![f] = request[p].want]
           /\ request' = [q \in Process |->
                IF q = p THEN None
                ELSE StillCovered(request[q], request[q].file # f)]
           /\ blind' = IF request[p].want # NoMeta /\ SaysNoMeta(f)
                       THEN blind \cup {f} ELSE blind
    /\ UNCHANGED <<serviceVars, known, locked>>

(* Any change the storage makes to its rules. *)
ChangeRules ==
    /\ locked' \in SUBSET Id
    /\ request' = [q \in Process |-> 
                StillCovered(request[q], meta[request[q].file] \in locked')]
    /\ UNCHANGED <<serviceVars, meta, known, blind>>

-----------------------------------------------------------------------------
(* Files may carry the meta of an earlier boot. *)
AccessInit ==
    /\ ServiceInit
    /\ meta \in [File -> Meta]
    /\ CacheMap!Init
    /\ locked \in SUBSET Id
    /\ request = [p \in Process |-> None]
    /\ blind = {}

OpenStep(p) ==
    \/ \E f \in File, want \in Meta \cup {Use} : FLockPreCreate(p, f, want)
    \/ SkipRead(p) \/ MissOrMeta(p) \/ NoPath(p)
    \/ FLockFltReadFirstMeta(p)
    \/ RecordVerdict(p)
    \/ VerifyLock(p)
    \/ Close(p)
    \/ WriteReadId(p) \/ WriteDenied(p) \/ FLockWriteMeta(p)

AccessNext ==
    \/ \E p \in Process :
          \/ OpenStep(p)
          \/ Is(p, "none") /\ ServiceStep(p) /\ UNCHANGED accessVars
    \/ ChangeRules

AccessSpec == AccessInit /\ [][AccessNext]_systemVars
=============================================================================
