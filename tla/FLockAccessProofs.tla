-------------------------- MODULE FLockAccessProofs --------------------------
(***************************************************************************)
(* Proofs about registration and the decision on an opening, for every set *)
(* of processes, files and identifiers.                                    *)
(***************************************************************************)
EXTENDS FLockAccessProps, TLAPS

(* The slot: the number in it is the one of a process that was told so or  *)
(* is on its way to clear it.                                              *)
SlotOwned ==
    \A p \in Process : serviceProcessId = p =>
        \/ p \in registered
        \/ step[p] \in {"leave", "leaveId", "ending", "clear", "clearId"}

ServiceInv == ServiceTypeOK /\ SlotNotHeldByDead /\ SlotOwned

(* No process is registered at first. *)
LEMMA ServiceInitInv == ServiceInit => ServiceInv
BY ServiceAssumption
   DEF ServiceInit, ServiceInv, ServiceTypeOK, SlotNotHeldByDead, SlotOwned

(* Each step of a request or of the life of process p keeps the slot. *)
LEMMA ServiceStepInv ==
    ASSUME ServiceInv, NEW p \in Process, ServiceStep(p)
    PROVE  ServiceInv'
<1> USE ServiceAssumption
<1> USE DEF ServiceInv, ServiceTypeOK, SlotNotHeldByDead, SlotOwned, Goes
<1>1. CASE RegisterCheck(p)
    BY <1>1 DEF RegisterCheck
<1>2. CASE RegisterProcess(p)
    BY <1>2 DEF RegisterProcess
<1>3. CASE RegisterId(p)
    BY <1>3 DEF RegisterId
<1>4. CASE UnregisterReadId(p)
    BY <1>4 DEF UnregisterReadId
<1>5. CASE UnregisterReadProcess(p)
    BY <1>5 DEF UnregisterReadProcess
<1>6. CASE ClearProcess(p)
    BY <1>6 DEF ClearProcess
<1>7. CASE ClearId(p)
    BY <1>7 DEF ClearId
<1>8. CASE ProcessEnds(p)
    BY <1>8 DEF ProcessEnds
<1>9. CASE FLockNotifyRoutineProcessCreated(p)
    BY <1>9 DEF FLockNotifyRoutineProcessCreated
<1>10. CASE ProcessStarts(p)
    BY <1>10 DEF ProcessStarts
<1> QED
    BY <1>1, <1>2, <1>3, <1>4, <1>5, <1>6, <1>7, <1>8, <1>9, <1>10
       DEF ServiceStep, FLockRegisterServiceProcess, FLockUnregisterServiceProcess

(* A step touches one process only. *)
LEMMA ServiceStepLocal ==
    ASSUME ServiceInv, NEW p \in Process, ServiceStep(p)
    PROVE  \A q \in Process \ {p} : step'[q] = step[q]
BY DEF ServiceInv, ServiceTypeOK, ServiceStep, Goes, RegisterCheck,
       FLockRegisterServiceProcess, RegisterProcess, RegisterId,
       UnregisterReadId, UnregisterReadProcess, FLockUnregisterServiceProcess,
       ClearProcess, ClearId, ProcessEnds, FLockNotifyRoutineProcessCreated,
       ProcessStarts

(* Steps of an opening leave registration alone. *)
LEMMA ServiceUnchanged == ServiceInv /\ UNCHANGED serviceVars => ServiceInv'
BY DEF ServiceInv, ServiceTypeOK, SlotNotHeldByDead, SlotOwned, serviceVars

-----------------------------------------------------------------------------
(* What an opening may rely on: r.covered means its file's rule is still   *)
(* there; a meta not found is not there or the file is blind; a covered    *)
(* opening that found a meta found the one that is there.                  *)
Sound(r, m, rules, unseen) == r # None =>
    /\ r.covered => m[r.file] \in rules
    /\ r.at = "record" /\ r.found = NoMeta /\ m[r.file] # NoMeta
          => r.file \in unseen
    /\ r.at = "opened" /\ r.covered => r.file \in unseen
    /\ r.at \in {"record", "verify"} /\ r.found # NoMeta /\ r.covered
          => r.found = m[r.file]

OpeningSound(r) == Sound(r, meta, locked, blind)

IInv ==
    /\ ServiceInv
    /\ AccessTypeOK
    /\ NoMetaVerdictJustified
    /\ \A p \in Process : OpeningSound(request[p])

(* A process without a request is told from one with a request. *)
LEMMA NoneIsNoOpening == None \notin Opening /\ \A r \in Opening : r.at # "none"
BY DEF None, Opening

(* At first nothing is cached and no opening is under way. *)
LEMMA InitInv == AccessInit => IInv
<1> SUFFICES ASSUME AccessInit PROVE IInv
    OBVIOUS
<1>1. ServiceInv
    BY ServiceInitInv DEF AccessInit
<1>2. known = [f \in File |-> Unknown]
    BY DEF AccessInit, CacheMap!Init, CacheMap!Nothing
<1>3. request = [p \in Process |-> None]
    BY DEF AccessInit
<1>4. AccessTypeOK
    BY <1>1, <1>2, <1>3 DEF AccessInit, AccessTypeOK, ServiceInv, Meta
<1>5. NoMetaVerdictJustified
    BY <1>2, AccessAssumption DEF NoMetaVerdictJustified
<1> QED
    BY <1>1, <1>3, <1>4, <1>5 DEF IInv, OpeningSound, Sound

(* A step of the opening of p that changes neither rules, meta nor blind   *)
(* leaves the other openings as sound as they were.                        *)
LEMMA LocalStep ==
    ASSUME IInv, NEW p \in Process, NEW r \in Opening \cup {None},
           request' = [request EXCEPT ![p] = r],
           UNCHANGED <<serviceVars, meta, locked, blind>>,
           known' \in [File -> BOOLEAN \cup {Unknown}],
           NoMetaVerdictJustified',
           Sound(r, meta', locked', blind'),
           r # None => /\ step[p] = "run"
                       /\ r.at = "verify" => r.found # NoMeta
                       /\ r.at = "write" => r.want # Use
    PROVE  IInv'
<1>1. ServiceInv' /\ ServiceTypeOK'
    BY ServiceUnchanged DEF IInv, ServiceInv
<1>2. AccessTypeOK'
    BY <1>1 DEF IInv, AccessTypeOK, serviceVars
<1>3. \A q \in Process : OpeningSound(request[q])'
    BY DEF IInv, AccessTypeOK, OpeningSound, Sound
<1> QED
    BY <1>1, <1>2, <1>3 DEF IInv

(* The same for a step that moves the opening on and leaves the cache.     *)
LEMMA MoveStep ==
    ASSUME IInv, NEW p \in Process, request[p] # None,
           NEW s \in {"lookup", "read", "readUncached", "record", "verify",
                      "opened", "write"},
           GoesOn(p, s),
           UNCHANGED <<serviceVars, meta, known, locked, blind>>,
           \A r \in Opening : r = [request[p] EXCEPT !.at = s]
                              => Sound(r, meta, locked, blind),
           s = "verify" => request[p].found # NoMeta,
           s = "write" => request[p].want # Use
    PROVE  IInv'
<1>1. request[p] \in Opening /\ step[p] = "run"
    BY DEF IInv, AccessTypeOK
<1>2. PICK r \in Opening : r = [request[p] EXCEPT !.at = s]
    BY <1>1 DEF Opening
<1>3. r.at = s /\ r.found = request[p].found /\ r.want = request[p].want
    BY <1>1, <1>2 DEF Opening
<1>4. request' = [request EXCEPT ![p] = r]
    BY <1>2 DEF GoesOn
<1>5. known' \in [File -> BOOLEAN \cup {Unknown}] /\ NoMetaVerdictJustified'
    BY DEF IInv, AccessTypeOK, NoMetaVerdictJustified
<1>6. Sound(r, meta', locked', blind')
    BY <1>2
<1> QED
    BY <1>1, <1>3, <1>4, <1>5, <1>6, LocalStep

(* The opening ends. *)
LEMMA EndStep ==
    ASSUME IInv, NEW p \in Process,
           request' = [request EXCEPT ![p] = None],
           UNCHANGED <<serviceVars, meta, known, locked, blind>>
    PROVE  IInv'
<1>1. known' \in [File -> BOOLEAN \cup {Unknown}] /\ NoMetaVerdictJustified'
    BY DEF IInv, AccessTypeOK, NoMetaVerdictJustified
<1>2. Sound(None, meta', locked', blind')
    BY DEF Sound
<1> QED
    BY <1>1, <1>2, LocalStep

(* A process at a step of an opening has a sound opening. *)
LEMMA IsOpening ==
    ASSUME IInv, NEW p \in Process, NEW s, Is(p, s), s # "none"
    PROVE  request[p] # None /\ request[p] \in Opening /\ OpeningSound(request[p])
BY NoneIsNoOpening DEF IInv, AccessTypeOK, Is, None

-----------------------------------------------------------------------------
(* One lemma per step that does more than move on.                         *)

(* A new opening has found nothing yet; a shut gate means no rule. *)
LEMMA PreCreateInv ==
    ASSUME IInv, NEW p \in Process, NEW f \in File, NEW want \in Meta \cup {Use},
           FLockPreCreate(p, f, want)
    PROVE  IInv'
<1>1. PICK gate \in BOOLEAN :
         /\ locked # {} => gate
         /\ request' = [request EXCEPT ![p] =
               [at      |-> IF gate THEN "lookup" ELSE "opened",
                file    |-> f,
                want    |-> want,
                found   |-> NoMeta,
                covered |-> meta[f] \in locked]]
    BY DEF FLockPreCreate
<1>2. PICK r : r = [at      |-> IF gate THEN "lookup" ELSE "opened",
                    file    |-> f,
                    want    |-> want,
                    found   |-> NoMeta,
                    covered |-> meta[f] \in locked]
    OBVIOUS
<1>3. r \in Opening
    BY <1>2 DEF Opening, Meta
<1>4. Sound(r, meta', locked', blind')
    BY <1>1, <1>2 DEF Sound, FLockPreCreate
<1>5. step[p] = "run" /\ r.at # "verify" /\ r.at # "write"
    BY <1>2 DEF FLockPreCreate
<1>6. known' \in [File -> BOOLEAN \cup {Unknown}] /\ NoMetaVerdictJustified'
    BY DEF FLockPreCreate, IInv, AccessTypeOK, NoMetaVerdictJustified
<1>7. request' = [request EXCEPT ![p] = r]
    BY <1>1, <1>2
<1>8. UNCHANGED <<serviceVars, meta, locked, blind>>
    BY DEF FLockPreCreate
<1> QED
    BY <1>3, <1>4, <1>5, <1>6, <1>7, <1>8, LocalStep

(* A skipped file with meta is blind, by what the cache may say. *)
LEMMA SkipReadInv ==
    ASSUME IInv, NEW p \in Process, SkipRead(p)
    PROVE  IInv'
<1>1. request[p] # None /\ request[p] \in Opening /\ OpeningSound(request[p])
    BY IsOpening DEF SkipRead
<1>2. request[p].covered => request[p].file \in blind
    BY <1>1, AccessAssumption
       DEF SkipRead, IInv, NoMetaVerdictJustified, AccessTypeOK, OpeningSound, Sound, Opening
<1>3. ASSUME NEW r \in Opening, r = [request[p] EXCEPT !.at = "opened"]
      PROVE  Sound(r, meta, locked, blind)
    BY <1>1, <1>2, <1>3 DEF OpeningSound, Sound, Opening
<1> QED
    BY <1>1, <1>3, MoveStep DEF SkipRead

(* What is recorded is what was found, and it was found soundly. *)
LEMMA RecordInv ==
    ASSUME IInv, NEW p \in Process, RecordVerdict(p)
    PROVE  IInv'
<1> DEFINE f == request[p].file
           s == IF request[p].found = NoMeta THEN "opened" ELSE "verify"
<1>1. request[p] # None /\ request[p] \in Opening /\ OpeningSound(request[p])
    BY IsOpening DEF RecordVerdict
<1>2. PICK r \in Opening : r = [request[p] EXCEPT !.at = s]
    BY <1>1 DEF Opening
<1>3. /\ r.at = s /\ r.found = request[p].found /\ r.want = request[p].want
      /\ r.file = f /\ r.covered = request[p].covered /\ f \in File
    BY <1>1, <1>2 DEF Opening
<1>4. request' = [request EXCEPT ![p] = r] /\ step[p] = "run"
    BY <1>1, <1>2 DEF RecordVerdict, GoesOn, IInv, AccessTypeOK
<1>5. UNCHANGED <<serviceVars, meta, locked, blind>>
    BY DEF RecordVerdict
<1>6. known' \in [File -> BOOLEAN \cup {Unknown}]
    BY <1>3 DEF RecordVerdict, CacheMap!Record, CacheMap!Nothing, IInv, AccessTypeOK
<1>7. \A g \in File : known'[g] = FALSE =>
         known[g] = FALSE \/ (g = f /\ request[p].found = NoMeta)
    BY <1>3, AccessAssumption
       DEF RecordVerdict, CacheMap!Record, CacheMap!Nothing, IInv, AccessTypeOK
<1>8. request[p].found = NoMeta /\ meta[f] # NoMeta => f \in blind
    BY <1>1 DEF RecordVerdict, Is, OpeningSound, Sound
<1>9. NoMetaVerdictJustified'
    BY <1>5, <1>7, <1>8 DEF NoMetaVerdictJustified, IInv
<1>10. r.covered /\ r.found = NoMeta => meta[f] # NoMeta
    BY <1>1, <1>3, AccessAssumption DEF OpeningSound, Sound, IInv, AccessTypeOK
<1>11. Sound(r, meta, locked, blind)
    BY <1>1, <1>3, <1>8, <1>10 DEF RecordVerdict, Is, OpeningSound, Sound
<1>12. Sound(r, meta', locked', blind')
    BY <1>5, <1>11
<1> QED
    BY <1>3, <1>4, <1>5, <1>6, <1>9, <1>12, LocalStep

(* A covered opening at this point found the meta of its rule. *)
LEMMA VerifyInv ==
    ASSUME IInv, NEW p \in Process, VerifyLock(p)
    PROVE  IInv'
<1>1. request[p] # None /\ request[p] \in Opening /\ OpeningSound(request[p])
    BY IsOpening DEF VerifyLock
<1>2. CASE request[p].found \in locked
    BY <1>2, EndStep DEF VerifyLock
<1>3. CASE request[p].found \notin locked
    <2>1. ~request[p].covered
        BY <1>1, <1>3 DEF VerifyLock, Is, OpeningSound, Sound, IInv, AccessTypeOK
    <2>2. ASSUME NEW r \in Opening, r = [request[p] EXCEPT !.at = "opened"]
          PROVE  Sound(r, meta, locked, blind)
        BY <1>1, <2>1, <2>2 DEF Sound, Opening
    <2> QED
        BY <1>1, <1>3, <2>2, MoveStep DEF VerifyLock
<1> QED
    BY <1>2, <1>3

(* A failed read makes its file blind: what was sound stays so. *)
LEMMA ReadInv ==
    ASSUME IInv, NEW p \in Process, FLockFltReadFirstMeta(p)
    PROVE  IInv'
<1> DEFINE f == request[p].file
<1>1. request[p] # None /\ request[p] \in Opening /\ OpeningSound(request[p])
    BY IsOpening DEF FLockFltReadFirstMeta
<1>2. PICK found \in Meta :
        /\ found = meta[f] \/ found = NoMeta
        /\ request' = [request EXCEPT
              ![p].found = found,
              ![p].at = IF @ = "read" THEN "record"
                        ELSE IF found = NoMeta THEN "opened" ELSE "verify"]
        /\ blind' = IF found = meta[f] THEN blind ELSE blind \cup {f}
    BY <1>1 DEF FLockFltReadFirstMeta, IInv, AccessTypeOK, Opening, Meta
<1>3. f \in File /\ step[p] = "run" /\ request[p].at \in {"read", "readUncached"}
    BY <1>1 DEF Opening, IInv, AccessTypeOK, FLockFltReadFirstMeta, Is
<1>4. PICK s : s = IF request[p].at = "read" THEN "record"
                   ELSE IF found = NoMeta THEN "opened" ELSE "verify"
    OBVIOUS
<1>5. PICK r \in Opening : r = [request[p] EXCEPT !.found = found, !.at = s]
    BY <1>1, <1>4 DEF Opening
<1>6. /\ r.at = s /\ r.found = found /\ r.file = f
      /\ r.covered = request[p].covered /\ r.want = request[p].want
    BY <1>1, <1>5 DEF Opening
<1>7. request' = [request EXCEPT ![p] = r]
    BY <1>1, <1>2, <1>4, <1>5 DEF Opening, IInv, AccessTypeOK
<1>8. /\ UNCHANGED <<serviceVars, meta, known, locked>>
      /\ blind \subseteq blind' /\ blind' \subseteq File
      /\ found = NoMeta /\ meta[f] # NoMeta => f \in blind'
    BY <1>2, <1>3 DEF FLockFltReadFirstMeta, IInv, AccessTypeOK
<1>9. r.covered => meta[f] \in locked /\ meta[f] # NoMeta
    BY <1>1, <1>6, AccessAssumption DEF OpeningSound, Sound, IInv, AccessTypeOK
<1>10. Sound(r, meta', locked', blind')
    BY <1>2, <1>3, <1>4, <1>6, <1>8, <1>9 DEF Sound
<1>11. \A q \in Process : OpeningSound(request[q])'
    <2> SUFFICES ASSUME NEW q \in Process PROVE OpeningSound(request[q])'
        OBVIOUS
    <2>1. CASE q = p
        BY <2>1, <1>7, <1>10 DEF OpeningSound, IInv, AccessTypeOK
    <2>2. CASE q # p
        <3>1. request'[q] = request[q] /\ OpeningSound(request[q])
            BY <2>2, <1>7 DEF IInv, AccessTypeOK
        <3> QED
            BY <3>1, <1>8 DEF OpeningSound, Sound
    <2> QED
        BY <2>1, <2>2
<1>12. ServiceInv' /\ ServiceTypeOK'
    BY <1>8, ServiceUnchanged DEF IInv, ServiceInv
<1>13. r.at \in {"record", "opened", "verify"} /\ (r.at = "verify" => r.found # NoMeta)
    BY <1>3, <1>4, <1>6
<1>14. AccessTypeOK'
    BY <1>3, <1>7, <1>8, <1>12, <1>13 DEF IInv, AccessTypeOK, serviceVars
<1>15. NoMetaVerdictJustified'
    BY <1>8 DEF IInv, NoMetaVerdictJustified
<1> QED
    BY <1>11, <1>12, <1>14, <1>15 DEF IInv

(* The write uncovers the openings of its file and makes it blind if the   *)
(* cache says, or is about to say, the opposite.                           *)
LEMMA WriteInv ==
    ASSUME IInv, NEW p \in Process, FLockWriteMeta(p)
    PROVE  IInv'
<1> DEFINE f == request[p].file
           v == request[p].want
<1>1. request[p] # None /\ request[p] \in Opening
    BY IsOpening DEF FLockWriteMeta
<1>2. f \in File /\ v \in Meta
    BY <1>1 DEF FLockWriteMeta, Is, IInv, AccessTypeOK, Opening
<1>3. /\ UNCHANGED <<serviceVars, known, locked>>
      /\ meta' = [meta EXCEPT ![f] = v]
      /\ blind \subseteq blind' /\ blind' \subseteq File
      /\ v # NoMeta /\ SaysNoMeta(f) => f \in blind'
    BY <1>2 DEF FLockWriteMeta, IInv, AccessTypeOK
<1>4. meta' \in [File -> Meta] /\ meta'[f] = v /\ \A g \in File \ {f} : meta'[g] = meta[g]
    BY <1>2, <1>3 DEF IInv, AccessTypeOK
<1>5. /\ request'[p] = None
      /\ request' \in [Process -> Opening \cup {None}]
      /\ \A q \in Process \ {p} :
            request'[q] = StillCovered(request[q], request[q].file # f)
    <2>1. request' = [q \in Process |->
                IF q = p THEN None
                ELSE StillCovered(request[q], request[q].file # f)]
        BY DEF FLockWriteMeta
    <2>2. \A q \in Process :
             StillCovered(request[q], request[q].file # f) \in Opening \cup {None}
        BY DEF StillCovered, IInv, AccessTypeOK, Opening
    <2> QED
        BY <2>1, <2>2
<1>6. \A q \in Process \ {p} : request[q] = None => request'[q] = None
    BY <1>5 DEF StillCovered
<1>7. ASSUME NEW q \in Process \ {p}, request[q] # None
      PROVE  /\ request[q] \in Opening /\ request'[q] \in Opening
             /\ request'[q].at = request[q].at
             /\ request'[q].file = request[q].file
             /\ request'[q].found = request[q].found
             /\ request'[q].want = request[q].want
             /\ request'[q].covered => request[q].covered /\ request[q].file # f
    <2>1. request[q] \in Opening
        BY <1>7 DEF IInv, AccessTypeOK
    <2>2. request'[q] = [request[q] EXCEPT !.covered = @ /\ request[q].file # f]
        BY <1>5, <1>7 DEF StillCovered
    <2> QED
        BY <2>1, <2>2 DEF Opening
<1>8. ServiceInv' /\ ServiceTypeOK'
    BY <1>3, ServiceUnchanged DEF IInv, ServiceInv
<1>9. AccessTypeOK'
    <2>1. ASSUME NEW q \in Process, request'[q] # None
          PROVE  /\ step'[q] = "run"
                 /\ request'[q].at = "verify" => request'[q].found # NoMeta
                 /\ request'[q].at = "write" => request'[q].want # Use
        BY <2>1, <1>3, <1>5, <1>6, <1>7 DEF IInv, AccessTypeOK, serviceVars
    <2> QED
        BY <2>1, <1>3, <1>4, <1>5, <1>8 DEF IInv, AccessTypeOK
<1>10. NoMetaVerdictJustified'
    BY <1>2, <1>3, <1>4 DEF IInv, NoMetaVerdictJustified, SaysNoMeta
<1>11. ASSUME NEW q \in Process PROVE OpeningSound(request[q])'
    <2>1. CASE request'[q] = None
        BY <2>1 DEF OpeningSound, Sound
    <2>2. CASE request'[q] # None
        <3>1. q \in Process \ {p} /\ request[q] # None
            BY <2>2, <1>5, <1>6
        <3>2. OpeningSound(request[q]) /\ request[q].file \in File
            BY <3>1, <1>7 DEF IInv, Opening
        <3>3. /\ request[q].at = "record" /\ request[q].found = NoMeta
                 /\ request[q].file = f
                 => SaysNoMeta(f)
            BY <3>1 DEF SaysNoMeta, Is
        <3>4. Sound(request'[q], meta', locked', blind')
            BY <1>3, <1>4, <1>7, <3>1, <3>2, <3>3 DEF OpeningSound, Sound
        <3> QED
            BY <3>4 DEF OpeningSound
    <2> QED
        BY <2>1, <2>2
<1> QED
    BY <1>8, <1>9, <1>10, <1>11 DEF IInv

(* A change of the rules uncovers what it no longer locks. *)
LEMMA ChangeRulesInv ==
    ASSUME IInv, ChangeRules
    PROVE  IInv'
<1>1. /\ UNCHANGED <<serviceVars, meta, known, blind>>
      /\ locked' \subseteq Id
    BY DEF ChangeRules
<1>2. \A q \in Process :
         StillCovered(request[q], meta[request[q].file] \in locked')
            \in Opening \cup {None}
    BY DEF StillCovered, IInv, AccessTypeOK, Opening
<1>3. /\ request' \in [Process -> Opening \cup {None}]
      /\ \A q \in Process : request'[q] =
            StillCovered(request[q], meta[request[q].file] \in locked')
    BY <1>2 DEF ChangeRules
<1>4. \A q \in Process : request[q] = None => request'[q] = None
    BY <1>3 DEF StillCovered
<1>5. ASSUME NEW q \in Process, request[q] # None
      PROVE  /\ request[q] \in Opening /\ request'[q] \in Opening
             /\ request'[q].at = request[q].at
             /\ request'[q].file = request[q].file
             /\ request'[q].found = request[q].found
             /\ request'[q].want = request[q].want
             /\ request'[q].covered =>
                   request[q].covered /\ meta[request[q].file] \in locked'
    <2>1. request[q] \in Opening
        BY <1>5 DEF IInv, AccessTypeOK
    <2>2. request'[q] = [request[q] EXCEPT
                            !.covered = @ /\ meta[request[q].file] \in locked']
        BY <1>3, <1>5 DEF StillCovered
    <2> QED
        BY <2>1, <2>2 DEF Opening
<1>6. ServiceInv' /\ ServiceTypeOK'
    BY <1>1, ServiceUnchanged DEF IInv, ServiceInv
<1>7. AccessTypeOK'
    <2>1. ASSUME NEW q \in Process, request'[q] # None
          PROVE  /\ step'[q] = "run"
                 /\ request'[q].at = "verify" => request'[q].found # NoMeta
                 /\ request'[q].at = "write" => request'[q].want # Use
        BY <2>1, <1>1, <1>4, <1>5 DEF IInv, AccessTypeOK, serviceVars
    <2> QED
        BY <2>1, <1>1, <1>3, <1>6 DEF IInv, AccessTypeOK
<1>8. NoMetaVerdictJustified'
    BY <1>1 DEF IInv, NoMetaVerdictJustified
<1>9. ASSUME NEW q \in Process PROVE OpeningSound(request[q])'
    <2>1. CASE request'[q] = None
        BY <2>1 DEF OpeningSound, Sound
    <2>2. CASE request'[q] # None
        <3>1. request[q] # None /\ OpeningSound(request[q])
            BY <2>2, <1>4 DEF IInv
        <3>2. Sound(request'[q], meta', locked', blind')
            BY <1>1, <1>5, <3>1 DEF OpeningSound, Sound
        <3> QED
            BY <3>2 DEF OpeningSound
    <2> QED
        BY <2>1, <2>2
<1> QED
    BY <1>6, <1>7, <1>8, <1>9 DEF IInv

-----------------------------------------------------------------------------
(* Every step keeps the invariant. *)
LEMMA StepInv == IInv /\ [AccessNext]_systemVars => IInv'
<1> SUFFICES ASSUME IInv, [AccessNext]_systemVars PROVE IInv'
    OBVIOUS
<1>1. ASSUME NEW p \in Process, NEW f \in File, NEW want \in Meta \cup {Use},
             FLockPreCreate(p, f, want)
      PROVE  IInv'
    BY <1>1, PreCreateInv
<1>2. ASSUME NEW p \in Process, SkipRead(p) PROVE IInv'
    BY <1>2, SkipReadInv
<1>3. ASSUME NEW p \in Process, MissOrMeta(p) PROVE IInv'
    <2>1. request[p] # None /\ request[p] \in Opening /\ OpeningSound(request[p])
        BY <1>3, IsOpening DEF MissOrMeta
    <2>2. ASSUME NEW r \in Opening, r = [request[p] EXCEPT !.at = "read"]
          PROVE  Sound(r, meta, locked, blind)
        BY <2>1, <2>2 DEF OpeningSound, Sound, Opening
    <2> QED
        BY <1>3, <2>1, <2>2, MoveStep DEF MissOrMeta
<1>4. ASSUME NEW p \in Process, NoPath(p) PROVE IInv'
    <2>1. request[p] # None /\ request[p] \in Opening /\ OpeningSound(request[p])
        BY <1>4, IsOpening DEF NoPath
    <2>2. ASSUME NEW r \in Opening, r = [request[p] EXCEPT !.at = "readUncached"]
          PROVE  Sound(r, meta, locked, blind)
        BY <2>1, <2>2 DEF OpeningSound, Sound, Opening
    <2> QED
        BY <1>4, <2>1, <2>2, MoveStep DEF NoPath
<1>5. ASSUME NEW p \in Process, FLockFltReadFirstMeta(p) PROVE IInv'
    BY <1>5, ReadInv
<1>6. ASSUME NEW p \in Process, RecordVerdict(p) PROVE IInv'
    BY <1>6, RecordInv
<1>7. ASSUME NEW p \in Process, VerifyLock(p) PROVE IInv'
    BY <1>7, VerifyInv
<1>8. ASSUME NEW p \in Process, Close(p) PROVE IInv'
    BY <1>8, EndStep DEF Close
<1>9. ASSUME NEW p \in Process, WriteReadId(p) PROVE IInv'
    <2>1. request[p] # None /\ request[p] \in Opening /\ OpeningSound(request[p])
        BY <1>9, IsOpening DEF WriteReadId
    <2>2. ASSUME NEW r \in Opening, r = [request[p] EXCEPT !.at = "write"]
          PROVE  Sound(r, meta, locked, blind)
        BY <2>1, <2>2 DEF OpeningSound, Sound, Opening
    <2> QED
        BY <1>9, <2>1, <2>2, MoveStep, EndStep DEF WriteReadId
<1>10. ASSUME NEW p \in Process, WriteDenied(p) PROVE IInv'
    BY <1>10, EndStep DEF WriteDenied
<1>11. ASSUME NEW p \in Process, FLockWriteMeta(p) PROVE IInv'
    BY <1>11, WriteInv
<1>12. ASSUME NEW p \in Process, Is(p, "none"), ServiceStep(p), UNCHANGED accessVars
       PROVE  IInv'
    <2>1. ServiceInv' /\ ServiceTypeOK'
        BY <1>12, ServiceStepInv DEF IInv, ServiceInv
    <2>2. \A q \in Process : request[q] # None => step'[q] = step[q]
        BY <1>12, ServiceStepLocal, NoneIsNoOpening DEF IInv, AccessTypeOK, Is
    <2>3. AccessTypeOK'
        BY <1>12, <2>1, <2>2 DEF IInv, AccessTypeOK, accessVars
    <2> QED
        BY <1>12, <2>1, <2>3
           DEF IInv, NoMetaVerdictJustified, OpeningSound, accessVars
<1>13. ASSUME ChangeRules PROVE IInv'
    BY <1>13, ChangeRulesInv
<1>14. ASSUME UNCHANGED systemVars PROVE IInv'
    <2>1. ServiceInv' /\ ServiceTypeOK'
        BY <1>14, ServiceUnchanged DEF IInv, ServiceInv, systemVars
    <2> QED
        BY <1>14, <2>1
           DEF IInv, AccessTypeOK, NoMetaVerdictJustified, OpeningSound,
               systemVars, serviceVars, accessVars
<1> QED
    BY <1>1, <1>2, <1>3, <1>4, <1>5, <1>6, <1>7, <1>8, <1>9, <1>10, <1>11, <1>12,
       <1>13, <1>14
       DEF AccessNext, OpenStep

(* The invariant of the specification. *)
LEMMA AlwaysInv == AccessSpec => []IInv
BY InitInv, StepInv, PTL DEF AccessSpec

-----------------------------------------------------------------------------
(* Every state of registration, files, cache and openings is well formed;  *)
(* an opening that reaches the storage's verification found an identifier. *)
THEOREM AccessTypeCorrect == AccessSpec => []AccessTypeOK
BY AlwaysInv, PTL DEF IInv

(* The end of a process frees the slot it held, however registrations      *)
(* mixed their fields (FLock.c:401-442, :556-589).                         *)
THEOREM DeathFreesSlot == AccessSpec => []SlotNotHeldByDead
BY AlwaysInv, PTL DEF IInv, ServiceInv

(* A process taken for the service has registered itself.                  *)
THEOREM ServiceRegistered == AccessSpec => []NoInheritedService
<1>1. IInv => NoInheritedService
    BY DEF IInv, ServiceInv, SlotOwned, NoInheritedService
<1> QED
    BY <1>1, AlwaysInv, PTL

(* The cached "no meta" is right unless the file was marked behind the     *)
(* cache's back or could not be read.                                      *)
THEOREM VerdictsJustified == AccessSpec => []NoMetaVerdictJustified
BY AlwaysInv, PTL DEF IInv

(* FLockPostCreate denies what the storage protects, with those exceptions *)
(* and no other.                                                           *)
THEOREM ProtectionHolds == AccessSpec => []ProtectedIsDenied
<1>1. IInv => ProtectedIsDenied
    BY NoneIsNoOpening
       DEF IInv, AccessTypeOK, OpeningSound, Sound, ProtectedIsDenied, Is, None
<1> QED
    BY <1>1, AlwaysInv, PTL
=============================================================================
