-------------------------- MODULE FolderLockProofs ---------------------------
(***************************************************************************)
(* Proofs about the list of locked objects and what the driver is told of  *)
(* it, for every set of clients, objects and policies.                     *)
(***************************************************************************)
EXTENDS FolderLockProps, EntryStoreProofs

InTransfer(r) == r.at \in {"loaded", "copy", "clear", "fill"}

(* What a clean transfer has still to send is the list's, and what it has  *)
(* sent the driver was told.                                               *)
Fits(r, list, sent) ==
    /\ r.at = "clear" => r.policies = Policies(list)
    /\ r.at = "fill" => \A k \in Key :
          IF r.policies[k] = NoRule THEN sent[k] = Only(Policies(list)[k])
          ELSE sent[k] = {} /\ r.policies[k] = Policies(list)[k]

TransferSound(c) == InTransfer(call[c]) =>
    /\ ~current
    /\ call[c].clean => Alone(c) /\ Fits(call[c], store.list, told)

StoreSound == store.password \in {NoPassword, password} /\ EncodedBy(store, password)

LoadSound(c) == call[c].at = "swap" => IsBy(call[c].read, password)

LInv ==
    /\ FolderLockTypeOK
    /\ StoreSound
    /\ DriverWasToldTheList
    /\ \A c \in Client : TransferSound(c) /\ LoadSound(c)

-----------------------------------------------------------------------------
(* The shapes of a call. *)
LEMMA CallFacts ==
    ASSUME NEW r \in Call
    PROVE  /\ InTransfer(r) => r.clean \in BOOLEAN
           /\ r.at \in {"clear", "fill"} =>
                 r \in [at : {"clear", "fill"}, policies : Rules, clean : BOOLEAN]
           /\ r.at \in {"loaded", "copy"} =>
                 r \in [at : {"loaded", "copy"}, clean : BOOLEAN]
           /\ r.at \in {"add", "change"} => r.key \in Key /\ r.value \in Value
           /\ r.at = "remove" => r.key \in Key
           /\ r.at = "swap" => r.read \in Contents
           /\ Idle \in Call /\ Idle.at = "none"
BY DEF Call, Idle, InTransfer

(* The policies of a list. *)
LEMMA PoliciesFacts ==
    ASSUME NEW list \in Contents
    PROVE  /\ Policies(list) \in Rules
           /\ Policies(list) = NoRules => list = Nothing
<1>1. \A k \in Key : list[k] \in Entry \cup {NoEntry}
    BY DEF Contents
<1>2. Policies(list) \in Rules
    BY <1>1, EntryFacts DEF Policies, Rules
<1>3. ASSUME Policies(list) = NoRules PROVE list = Nothing
    <2>1. \A k \in Key : list[k] # NoEntry => list[k].value # NoRule
        BY <1>1, EntryFacts, FolderLockAssumption
    <2>2. \A k \in Key : list[k] = NoEntry
        BY <1>3, <2>1 DEF Policies, NoRules
    <2> QED
        BY <2>2 DEF Contents, Nothing
<1> QED
    BY <1>2, <1>3

(* Who transfers. *)
LEMMA TransferFacts ==
    \A d \in Client : /\ Transfers(d) <=> InTransfer(call[d])
                      /\ Transfers(d)' <=> InTransfer(call'[d])
                      /\ Copied(d) => InTransfer(call[d])
BY DEF Transfers, Copied, InTransfer

(* A step of a call outside the transfer that leaves the list as it is.    *)
LEMMA QuietStep ==
    ASSUME LInv, NEW c \in Client, ~InTransfer(call[c]),
           NEW r \in Call, ~InTransfer(r), Goes(c, r),
           r.at = "swap" => IsBy(r.read, password),
           store' \in Store, store'.list = store.list, StoreSound',
           writing' \in Client \cup {Nobody}, raced' \in BOOLEAN,
           UNCHANGED <<told, current>>
    PROVE  LInv'
<1>1. /\ call' \in [Client -> Call]
      /\ \A d \in Client : call'[d] = IF d = c THEN r ELSE call[d]
    BY DEF LInv, FolderLockTypeOK, Goes
<1>2. FolderLockTypeOK'
    BY <1>1 DEF LInv, FolderLockTypeOK
<1>3. Policies(store'.list) = Policies(store.list)
    OBVIOUS
<1>4. DriverWasToldTheList'
    BY <1>3 DEF LInv, DriverWasToldTheList
<1>5. ASSUME NEW d \in Client PROVE TransferSound(d)' /\ LoadSound(d)'
    <2>1. LoadSound(d)'
        BY <1>1 DEF LInv, LoadSound
    <2>2. InTransfer(call'[d]) => InTransfer(call[d]) /\ call'[d] = call[d]
        BY <1>1
    <2>3. Alone(d) => Alone(d)'
        BY <1>1, TransferFacts DEF Alone
    <2>4. Fits(call[d], store.list, told) => Fits(call[d], store'.list, told')
        BY <1>3 DEF Fits
    <2> QED
        BY <2>1, <2>2, <2>3, <2>4 DEF LInv, TransferSound
<1> QED
    BY <1>2, <1>4, <1>5 DEF LInv

(* A step of a transfer; if it ends current, it was clean and has sent all. *)
LEMMA TransferStep ==
    ASSUME LInv, NEW c \in Client, InTransfer(call[c]),
           NEW r \in Call, Goes(c, r), UNCHANGED flocks, r.at # "swap",
           told' \in [Key -> SUBSET Value], current' \in BOOLEAN,
           InTransfer(r) =>
               /\ ~current'
               /\ r.clean => call[c].clean /\ Fits(r, store.list, told'),
           current' => /\ call[c].clean
                       /\ \A k \in Key : told'[k] = Only(Policies(store.list)[k])
    PROVE  LInv'
<1>0. store' = store /\ writing' = writing /\ raced' = raced
    BY DEF flocks
<1>1. /\ call' \in [Client -> Call]
      /\ \A d \in Client : call'[d] = IF d = c THEN r ELSE call[d]
    BY DEF LInv, FolderLockTypeOK, Goes
<1>2. FolderLockTypeOK' /\ StoreSound' /\ DriverWasToldTheList'
    BY <1>0, <1>1 DEF LInv, FolderLockTypeOK, StoreSound, DriverWasToldTheList
<1>3. call[c].clean => Alone(c)
    BY DEF LInv, TransferSound
<1>7. \A d \in Client : LoadSound(d)'
    BY <1>1 DEF LInv, LoadSound
<1>5. TransferSound(c)'
    <2> SUFFICES ASSUME InTransfer(r)
                 PROVE  ~current' /\ (r.clean => Alone(c)' /\ Fits(r, store.list, told)')
        BY <1>1 DEF TransferSound
    <2>1. Alone(c) => Alone(c)'
        BY <1>1, TransferFacts DEF Alone
    <2> QED
        BY <1>0, <1>3, <2>1 DEF Fits, Policies
<1>6. ASSUME NEW d \in Client, d # c PROVE TransferSound(d)'
    <2> SUFFICES ASSUME InTransfer(call[d]) PROVE ~current' /\ call[d].clean = FALSE
        BY <1>1, <1>6 DEF TransferSound
    <2>1. ~Alone(c)
        BY <1>6, TransferFacts DEF Alone
    <2>2. ~Alone(d)
        BY <1>6, TransferFacts DEF Alone
    <2>3. call[d].clean \in BOOLEAN
        BY CallFacts DEF LInv, FolderLockTypeOK
    <2> QED
        BY <1>3, <2>1, <2>2, <2>3 DEF LInv, TransferSound
<1> QED
    BY <1>2, <1>5, <1>6, <1>7 DEF LInv

(* A step that may change the list, and may go on to send it: who sends an *)
(* older list is told by the history.                                      *)
LEMMA LeavesSound ==
    ASSUME LInv, NEW c \in Client, ~InTransfer(call[c]),
           NEW s \in Store, s.password \in {NoPassword, password}, EncodedBy(s, password),
           NEW next \in Call, NEW sends \in BOOLEAN, Leaves(c, s, next, sends),
           InTransfer(next) <=> sends,
           sends => next.at = "loaded" /\ (next.clean => Alone(c)),
           next.at # "swap",
           writing' \in Client \cup {Nobody}, raced' \in BOOLEAN
    PROVE  LInv'
<1> DEFINE same == s.list = store.list
           outdated(d) == (sends /\ Transfers(d)) \/ (~same /\ Copied(d))
<1>1. /\ store' = s /\ told' = told
      /\ current' = (current /\ ~sends /\ same)
      /\ call' = [d \in Client |->
                     IF d = c THEN next
                     ELSE IF outdated(d) THEN [call[d] EXCEPT !.clean = FALSE]
                     ELSE call[d]]
    BY DEF Leaves
<1>2. store' \in Store /\ StoreSound'
    BY <1>1 DEF StoreSound
<1>3. ASSUME NEW d \in Client, InTransfer(call[d])
      PROVE  /\ [call[d] EXCEPT !.clean = FALSE] \in Call
             /\ [call[d] EXCEPT !.clean = FALSE].at = call[d].at
             /\ [call[d] EXCEPT !.clean = FALSE].clean = FALSE
    <2>1. call[d] \in Call
        BY DEF LInv, FolderLockTypeOK
    <2>2. \/ call[d] \in [at : {"clear", "fill"}, policies : Rules, clean : BOOLEAN]
          \/ call[d] \in [at : {"loaded", "copy"}, clean : BOOLEAN]
        BY <1>3, <2>1, CallFacts DEF InTransfer
    <2> QED
        BY <2>2 DEF Call
<1>4. \A d \in Client : outdated(d) => InTransfer(call[d])
    BY TransferFacts
<1>5. /\ call'[c] = next
      /\ \A d \in Client \ {c} :
            call'[d] = IF outdated(d) THEN [call[d] EXCEPT !.clean = FALSE] ELSE call[d]
      /\ call' = [d \in Client |-> call'[d]]
    BY <1>1
<1>6. /\ ~same => ~current'
      /\ sends => ~current'
      /\ current' => current /\ same
      /\ current' \in BOOLEAN
    BY <1>1
<1>7. same => Policies(store'.list) = Policies(store.list) /\ store'.list = store.list
    BY <1>1
<1>8. \A d \in Client : /\ sends /\ InTransfer(call[d]) => outdated(d)
                        /\ ~same /\ call[d].at \in {"clear", "fill"} => outdated(d)
    BY TransferFacts DEF Copied
<1> HIDE DEF same, outdated
<1>9. \A d \in Client : call'[d] \in Call
    BY <1>3, <1>4, <1>5 DEF LInv, FolderLockTypeOK
<1>10. FolderLockTypeOK'
    <2>1. call' \in [Client -> Call]
        BY <1>5, <1>9
    <2> QED
        BY <1>1, <1>2, <1>6, <2>1 DEF LInv, FolderLockTypeOK
<1>11. DriverWasToldTheList'
    BY <1>1, <1>6, <1>7 DEF LInv, DriverWasToldTheList
<1>12. \A d \in Client \ {c} : call'[d].at = call[d].at
                              /\ (InTransfer(call'[d]) <=> InTransfer(call[d]))
    BY <1>3, <1>4, <1>5 DEF InTransfer
<1>13. \A d \in Client : LoadSound(d)'
    <2> TAKE d \in Client
    <2>1. CASE d = c
        BY <1>5, <2>1 DEF LoadSound
    <2>2. CASE d # c
        <3>1. call[d].at = "swap" => ~outdated(d)
            BY <1>4 DEF InTransfer
        <3> QED
            BY <1>5, <1>12, <2>2, <3>1 DEF LInv, LoadSound
    <2> QED
        BY <2>1, <2>2
<1>14. TransferSound(c)'
    <2> SUFFICES ASSUME sends PROVE ~current' /\ (Alone(c) => Alone(c)')
        BY <1>5 DEF TransferSound, Fits
    <2>1. Alone(c) => Alone(c)'
        BY <1>12, TransferFacts DEF Alone
    <2> QED
        BY <1>6, <2>1
<1>15. ASSUME NEW d \in Client \ {c} PROVE TransferSound(d)'
    <2> SUFFICES ASSUME InTransfer(call[d])
                 PROVE  ~current' /\ (call'[d].clean =>
                           Alone(d)' /\ Fits(call'[d], store'.list, told'))
        BY <1>12 DEF TransferSound, Fits, Policies
    <2>1. ~current'
        BY <1>6 DEF LInv, TransferSound
    <2>2. CASE outdated(d)
        BY <1>3, <1>5, <2>1, <2>2
    <2>3. CASE ~outdated(d)
        <3>1. call'[d] = call[d] /\ ~sends
            BY <1>5, <1>8, <2>3
        <3>2. ~InTransfer(call'[c])
            BY <1>5, <3>1
        <3>3. Alone(d) => Alone(d)'
            BY <1>12, <3>2, TransferFacts DEF Alone
        <3>4. same \/ call[d].at \notin {"clear", "fill"}
            BY <1>8, <2>3
        <3>5. Fits(call[d], store.list, told) => Fits(call'[d], store'.list, told')
            BY <1>1, <1>7, <3>1, <3>4 DEF Fits
        <3> QED
            BY <2>1, <3>1, <3>3, <3>5 DEF LInv, TransferSound
    <2> QED
        BY <2>2, <2>3
<1> QED
    BY <1>2, <1>10, <1>11, <1>13, <1>14, <1>15 DEF LInv

(* An operation of the storage, whether it succeeds or fails half way.     *)
LEMMA StorageStep ==
    ASSUME LInv, NEW c \in Client, ~InTransfer(call[c]),
           NEW answers, Stores(c, answers),
           \A a \in answers : Outcome(store, a, password)
    PROVE  LInv'
<1> PICK answer \in answers :
          /\ Leaves(c, answer.store,
                    IF answer.ok THEN [at |-> "loaded", clean |-> Alone(c)] ELSE Idle,
                    answer.ok)
          /\ IF Writes(store, answer) THEN writing' = c /\ raced' = FALSE
             ELSE UNCHANGED <<writing, raced>>
    BY DEF Stores
<1> DEFINE next == IF answer.ok THEN [at |-> "loaded", clean |-> Alone(c)] ELSE Idle
           sends == answer.ok
<1>1. /\ answer.store \in Store /\ sends \in BOOLEAN
      /\ answer.store.password \in {NoPassword, password}
      /\ EncodedBy(answer.store, password)
    BY DEF Outcome, LInv, StoreSound
<1>2. /\ next \in Call /\ (InTransfer(next) <=> sends)
      /\ (sends => next.at = "loaded" /\ next.clean = Alone(c))
      /\ next.at # "swap"
    <2>1. Alone(c) \in BOOLEAN
        BY DEF Alone
    <2> QED
        BY <1>1, <2>1, CallFacts DEF Call, InTransfer, Idle
<1>3. writing' \in Client \cup {Nobody} /\ raced' \in BOOLEAN
    BY DEF LInv, FolderLockTypeOK
<1>4. Leaves(c, answer.store, next, sends)
    OBVIOUS
<1> HIDE DEF next, sends
<1> QED
    BY <1>1, <1>2, <1>3, <1>4, LeavesSound

-----------------------------------------------------------------------------
(* At first the list is empty, and so is what the driver was told. *)
LEMMA InitSound == Init => LInv
<1> SUFFICES ASSUME Init PROVE LInv
    OBVIOUS
<1>1. told \in [Key -> SUBSET Value]
    BY DEF Init, ToldNothing
<1>2. store \in Store
    BY NothingFacts DEF Init, Store
<1>3. call \in [Client -> Call] /\ \A c \in Client : call[c].at = "none"
    BY CallFacts DEF Init, Idle, Call
<1>4. FolderLockTypeOK
    BY <1>1, <1>2, <1>3 DEF Init, FolderLockTypeOK
<1>5. StoreSound
    BY NothingFacts DEF Init, StoreSound, EncodedBy
<1> QED
    BY <1>3, <1>4, <1>5
       DEF Init, LInv, DriverWasToldTheList, TransferSound, LoadSound, InTransfer

(* The copy of the list is its policies: all of it can be decoded, if any. *)
LEMMA GetAllSound == ASSUME LInv, NEW c \in Client, GetAll(c) PROVE LInv'
<1> DEFINE policies == Policies(Readable(store.list, store.password))
           next == [at |-> "clear", policies |-> policies, clean |-> call[c].clean]
<1>0. call[c] \in Call /\ call[c].at = "copy" /\ store.list \in Contents
    BY DEF LInv, FolderLockTypeOK, Store, GetAll, At
<1>1. call[c].clean \in BOOLEAN /\ InTransfer(call[c]) /\ ~current
    BY <1>0, CallFacts DEF InTransfer, LInv, TransferSound
<1>4. told \in [Key -> SUBSET Value] /\ current \in BOOLEAN
    BY DEF LInv, FolderLockTypeOK
<1>5. CASE Returns(c)
    BY <1>1, <1>4, <1>5, CallFacts, <1>0, TransferStep DEF GetAll, Returns, InTransfer
<1>6. CASE policies # NoRules /\ Goes(c, next)
    <2>1. store.password # NoPassword
        <3>1. ASSUME store.password = NoPassword PROVE FALSE
            <4>1. ASSUME NEW k \in Key
                  PROVE  Readable(store.list, store.password)[k] = NoEntry
                BY <1>0, <3>1, EntryFacts DEF Readable, Contents
            <4>2. policies = NoRules
                BY <4>1 DEF Policies, NoRules
            <4> QED
                BY <1>6, <4>2
        <3> QED
            BY <3>1
    <2>2. policies = Policies(store.list) /\ policies \in Rules
        BY <1>0, <2>1, ReadableFacts, PoliciesFacts DEF LInv, StoreSound, EncodedBy
    <2>3. next \in Call
        BY <1>1, <2>2 DEF Call
    <2>4. Fits(next, store.list, told)
        BY <2>2 DEF Fits
    <2>5. next.clean = call[c].clean /\ next.at = "clear"
        OBVIOUS
    <2> HIDE DEF next
    <2> QED
        BY <1>1, <1>4, <1>6, <2>3, <2>4, <2>5, TransferStep DEF GetAll
<1> QED
    BY <1>5, <1>6 DEF GetAll

(* Clearing the driver's list: nothing is sent yet. *)
LEMMA DriverClearSound == ASSUME LInv, NEW c \in Client, DriverClear(c) PROVE LInv'
<1>0. call[c] \in Call /\ call[c].at = "clear" /\ store.list \in Contents
    BY DEF LInv, FolderLockTypeOK, Store, DriverClear, At
<1>1. /\ call[c] \in [at : {"clear", "fill"}, policies : Rules, clean : BOOLEAN]
      /\ InTransfer(call[c]) /\ ~current
    BY <1>0, CallFacts DEF InTransfer, LInv, TransferSound
<1>2. /\ told \in [Key -> SUBSET Value] /\ ToldNothing \in [Key -> SUBSET Value]
      /\ current \in BOOLEAN
    BY DEF LInv, FolderLockTypeOK, ToldNothing
<1>3. CASE told' = ToldNothing /\ Goes(c, [call[c] EXCEPT !.at = "fill"])
    <2> DEFINE r == [call[c] EXCEPT !.at = "fill"]
    <2>1. r \in Call /\ r.at = "fill" /\ r.policies = call[c].policies
          /\ r.clean = call[c].clean
        BY <1>1 DEF Call
    <2>2. call[c].clean => call[c].policies = Policies(store.list)
        BY <1>0, <1>1 DEF LInv, TransferSound, Fits
    <2>3. r.clean => Fits(r, store.list, told')
        <3>1. \A k \in Key : told'[k] = {}
            BY <1>3 DEF ToldNothing
        <3> QED
            BY <2>1, <2>2, <3>1 DEF Fits, Only
    <2> HIDE DEF r
    <2> QED
        BY <1>1, <1>2, <1>3, <2>1, <2>3, TransferStep DEF DriverClear, r
<1>4. CASE UNCHANGED told /\ Goes(c, [call[c] EXCEPT !.at = "fill", !.clean = FALSE])
    <2> DEFINE r == [call[c] EXCEPT !.at = "fill", !.clean = FALSE]
    <2>1. r \in Call /\ r.clean = FALSE /\ r.at = "fill"
        BY <1>1 DEF Call
    <2> HIDE DEF r
    <2> QED
        BY <1>1, <1>2, <1>4, <2>1, TransferStep DEF DriverClear, r
<1> QED
    BY <1>3, <1>4 DEF DriverClear

(* Sending one rule. *)
LEMMA DriverAddSound == ASSUME LInv, NEW c \in Client, DriverAdd(c) PROVE LInv'
<1>0. call[c] \in Call /\ call[c].at = "fill" /\ store.list \in Contents
    BY DEF LInv, FolderLockTypeOK, DriverAdd, At, Store
<1>1. /\ call[c] \in [at : {"clear", "fill"}, policies : Rules, clean : BOOLEAN]
      /\ InTransfer(call[c]) /\ ~current
    BY <1>0, CallFacts DEF InTransfer, LInv, TransferSound
<1>2. told \in [Key -> SUBSET Value] /\ current \in BOOLEAN
    BY DEF LInv, FolderLockTypeOK
<1>3. PICK k \in Key :
        /\ IsNext(c, k)
        /\ \/ /\ told' = [told EXCEPT ![k] = @ \cup {call[c].policies[k]}]
              /\ Goes(c, [call[c] EXCEPT !.policies[k] = NoRule])
           \/ /\ UNCHANGED told
              /\ Goes(c, [call[c] EXCEPT !.policies[k] = NoRule, !.clean = FALSE])
    BY DEF DriverAdd
<1>4. call[c].policies[k] # NoRule /\ call[c].policies[k] \in Value
    BY <1>1, <1>3 DEF IsNext, Rules
<1>5. CASE /\ told' = [told EXCEPT ![k] = @ \cup {call[c].policies[k]}]
           /\ Goes(c, [call[c] EXCEPT !.policies[k] = NoRule])
    <2> DEFINE r == [call[c] EXCEPT !.policies[k] = NoRule]
    <2>1. r \in Call /\ r.at = "fill" /\ r.clean = call[c].clean
          /\ r.policies = [call[c].policies EXCEPT ![k] = NoRule]
        BY <1>0, <1>1 DEF Call, Rules
    <2>2. call[c].clean => Fits(call[c], store.list, told)
        BY <1>1 DEF LInv, TransferSound
    <2>3. told' \in [Key -> SUBSET Value]
        BY <1>2, <1>4, <1>5
    <2>4. \A j \in Key : /\ r.policies[j] = IF j = k THEN NoRule ELSE call[c].policies[j]
                         /\ j # k => told'[j] = told[j]
        BY <1>1, <1>2, <1>5, <2>1 DEF Rules
    <2>5. told'[k] = told[k] \cup {call[c].policies[k]}
        BY <1>2, <1>5
    <2> HIDE DEF r
    <2>6. r.clean => Fits(r, store.list, told')
        <3> SUFFICES ASSUME r.clean, NEW j \in Key
                     PROVE  IF r.policies[j] = NoRule
                            THEN told'[j] = Only(Policies(store.list)[j])
                            ELSE told'[j] = {} /\ r.policies[j] = Policies(store.list)[j]
            BY <2>1 DEF Fits
        <3>1. IF call[c].policies[j] = NoRule
              THEN told[j] = Only(Policies(store.list)[j])
              ELSE told[j] = {} /\ call[c].policies[j] = Policies(store.list)[j]
            BY <1>0, <2>1, <2>2 DEF Fits
        <3>2. CASE j = k
            <4>1. told[k] = {} /\ call[c].policies[k] = Policies(store.list)[k]
                BY <1>4, <3>1, <3>2
            <4>2. told'[k] = {Policies(store.list)[k]}
                BY <2>5, <4>1
            <4> QED
                BY <1>4, <2>4, <3>2, <4>1, <4>2 DEF Only
        <3>3. CASE j # k
            BY <2>4, <3>1, <3>3
        <3> QED
            BY <3>2, <3>3
    <2> QED
        BY <1>1, <1>2, <1>5, <2>1, <2>3, <2>6, TransferStep DEF DriverAdd, r
<1>6. CASE /\ UNCHANGED told
           /\ Goes(c, [call[c] EXCEPT !.policies[k] = NoRule, !.clean = FALSE])
    <2> DEFINE r == [call[c] EXCEPT !.policies[k] = NoRule, !.clean = FALSE]
    <2>1. r \in Call /\ r.clean = FALSE /\ r.at = "fill"
        BY <1>0, <1>1 DEF Call, Rules
    <2> HIDE DEF r
    <2> QED
        BY <1>1, <1>2, <1>6, <2>1, TransferStep DEF DriverAdd, r
<1> QED
    BY <1>3, <1>5, <1>6

(* The end: nothing is left to send. *)
LEMMA TransferredSound == ASSUME LInv, NEW c \in Client, Transferred(c) PROVE LInv'
<1>0. call[c] \in Call /\ call[c].at = "fill"
    BY DEF LInv, FolderLockTypeOK, Transferred, At
<1>1. /\ call[c].clean \in BOOLEAN /\ InTransfer(call[c])
    BY <1>0, CallFacts DEF InTransfer
<1>2. told \in [Key -> SUBSET Value]
    BY DEF LInv, FolderLockTypeOK
<1>3. call[c].clean => \A k \in Key : told[k] = Only(Policies(store.list)[k])
    BY <1>0, <1>1 DEF LInv, TransferSound, Fits, Transferred, NoRules
<1> QED
    BY <1>0, <1>1, <1>2, <1>3, CallFacts, TransferStep
       DEF Transferred, Returns, InTransfer

(* A new process: its list is empty, the driver keeps its own. *)
LEMMA RestartSound == ASSUME LInv, Restart PROVE LInv'
<1>1. PICK opens \in BOOLEAN : store' = Reborn(store, opens)
    BY DEF Restart
<1>2. store' \in Store /\ StoreSound' /\ store'.list = Nothing
    BY <1>1, RebornFacts DEF LInv, FolderLockTypeOK, StoreSound
<1>3. call' \in [Client -> Call] /\ \A c \in Client : call'[c].at = "none"
    BY DEF Restart, Call, Idle
<1>4. DriverWasToldTheList'
    BY <1>2 DEF DriverWasToldTheList
<1>5. FolderLockTypeOK'
    BY <1>2, <1>3 DEF LInv, FolderLockTypeOK, Restart
<1> QED
    BY <1>2, <1>3, <1>4, <1>5 DEF LInv, TransferSound, LoadSound, InTransfer

(* The test that begins a call. *)
LEMMA BeginsSound ==
    ASSUME LInv, NEW c \in Client,
           NEW r \in [at : {"add", "change"}, key : Key, value : Value]
                    \cup [at : {"remove"}, key : Key],
           Begins(c, r)
    PROVE  LInv'
<1>1. r \in Call /\ ~InTransfer(r) /\ r.at # "swap"
    BY DEF Call, InTransfer
<1>2. ~InTransfer(call[c])
    BY DEF Begins, Idle, InTransfer
<1> QED
    BY <1>1, <1>2, QuietStep DEF Begins, flocks, LInv, FolderLockTypeOK, StoreSound, EncodedBy

(* The end of a write. *)
LEMMA FlushEndsSound == ASSUME LInv, NEW c \in Client, FlushEnds(c) PROVE LInv'
<1>0. /\ store' = store /\ writing' = Nobody /\ raced' = raced
      /\ told' = told /\ current' = current
      /\ call[c] \in Call /\ Idle \in Call /\ Idle.at = "none"
      /\ call \in [Client -> Call]
    BY CallFacts DEF FlushEnds, LInv, FolderLockTypeOK
<1>1. /\ call' \in [Client -> Call]
      /\ \A d \in Client : call'[d] = call[d] \/ (d = c /\ call'[d] = Idle)
    BY <1>0 DEF FlushEnds, Returns, Goes
<1>2. FolderLockTypeOK' /\ StoreSound' /\ DriverWasToldTheList'
    BY <1>0, <1>1 DEF LInv, FolderLockTypeOK, StoreSound, DriverWasToldTheList
<1>3. ASSUME NEW d \in Client PROVE TransferSound(d)' /\ LoadSound(d)'
    <2>1. InTransfer(call'[d]) => call'[d] = call[d]
        BY <1>0, <1>1 DEF InTransfer
    <2>2. LoadSound(d)'
        BY <1>0, <1>1 DEF LInv, LoadSound
    <2>3. \A e \in Client : InTransfer(call'[e]) => InTransfer(call[e])
        BY <1>0, <1>1 DEF InTransfer
    <2>4. Alone(d) => Alone(d)'
        BY <2>3, TransferFacts DEF Alone
    <2> QED
        BY <1>0, <2>1, <2>2, <2>4 DEF LInv, TransferSound, Fits, Policies
<1> QED
    BY <1>2, <1>3 DEF LInv

(* A login and its load. *)
LEMMA LoginSound ==
    ASSUME LInv, NEW c \in Client, Login(c) \/ Loads(c)
    PROVE  LInv'
<1> DEFINE under == writing # Nobody
<1>0. /\ call[c] \in Call /\ store \in Store /\ StoreSound
      /\ EncodedBy(store, password) /\ store.list \in Contents
      /\ under \in BOOLEAN /\ password \in Password
      /\ writing \in Client \cup {Nobody} /\ raced \in BOOLEAN
      /\ Idle \in Call /\ ~InTransfer(Idle) /\ Idle.at # "swap"
    <2>1. call[c] \in Call /\ store \in Store /\ StoreSound /\ under \in BOOLEAN
          /\ writing \in Client \cup {Nobody} /\ raced \in BOOLEAN
        BY DEF LInv, FolderLockTypeOK
    <2>2. Idle \in Call /\ Idle.at = "none"
        BY <2>1, CallFacts
    <2> QED
        BY <2>1, <2>2, FolderLockAssumption DEF StoreSound, Store, InTransfer
<1>1. ~InTransfer(call[c])
    <2>1. Login(c) => call[c] = Idle
        BY DEF Login
    <2>2. Loads(c) => call[c].at \in {"load", "swap"}
        BY DEF Loads, Read, NoMapping, Remap, Swap, At
    <2>3. Loads(c) => ~InTransfer(call[c])
        BY <2>2 DEF InTransfer
    <2> QED
        BY <1>0, <2>1, <2>3
<1>2. CASE Login(c)
    <2> DEFINE r == [at |-> "load"]
    <2>1. r \in Call /\ ~InTransfer(r) /\ r.at # "swap"
        BY DEF Call, InTransfer
    <2>2. store' \in Store /\ store'.list = store.list /\ StoreSound'
        BY <1>0, <1>2, SetPasswordFacts DEF Login, StoreSound, EncodedBy
    <2> QED
        BY <1>0, <1>1, <1>2, <2>1, <2>2, QuietStep DEF Login
<1>3. CASE Read(c)
    <2>1. PICK read \in Reads(store, under) : Goes(c, [at |-> "swap", read |-> read])
        BY <1>3 DEF Read
    <2> DEFINE r == [at |-> "swap", read |-> read]
    <2>2. read \in Contents /\ IsBy(read, password)
        <3> HIDE DEF under
        <3> QED
            BY <1>0, <2>1, ReadsType, ReadsFacts
    <2>3. r \in Call /\ ~InTransfer(r) /\ r.read = read
        BY <2>2 DEF Call, InTransfer
    <2>4. StoreSound'
        BY <1>0, <1>3 DEF Read, flocks, StoreSound, EncodedBy
    <2> QED
        BY <1>0, <1>1, <1>3, <2>1, <2>2, <2>3, <2>4, QuietStep DEF Read, flocks
<1>4. CASE NoMapping(c)
    <2>1. StoreSound'
        BY <1>0, <1>4 DEF NoMapping, flocks, StoreSound, EncodedBy
    <2> QED
        BY <1>0, <1>1, <1>4, <2>1, QuietStep DEF NoMapping, Returns, flocks
<1>5. CASE Remap(c)
    <2>1. store' \in Swapped(store, store.list, under)
        BY <1>5 DEF Remap, Swapped
    <2>2. /\ store' \in Store /\ store'.password = store.password
          /\ EncodedBy(store', password)
        <3>1. IsBy(store.list, password)
            BY <1>0 DEF EncodedBy
        <3> HIDE DEF under
        <3> QED
            BY <1>0, <2>1, <3>1, SwappedFacts
    <2>3. store'.list = store.list /\ call' = call
        BY <1>5 DEF Remap, Torn
    <2>4. Goes(c, call[c])
        BY <2>3 DEF Goes, LInv, FolderLockTypeOK
    <2>5. StoreSound'
        BY <1>0, <2>2 DEF StoreSound
    <2>6. call[c].at # "swap"
        BY <1>5 DEF Remap, At
    <2> QED
        BY <1>0, <1>1, <1>5, <2>2, <2>3, <2>4, <2>5, <2>6, QuietStep DEF Remap
<1>6. CASE Swap(c)
    <2>1. PICK s \in Swapped(store, call[c].read, under) : Leaves(c, s, Idle, FALSE)
        BY <1>6 DEF Swap
    <2>2. call[c].read \in Contents /\ IsBy(call[c].read, password)
        BY <1>0, <1>6, CallFacts DEF LInv, LoadSound, Swap, At
    <2>3. s \in Store /\ s.password = store.password /\ EncodedBy(s, password)
        <3> HIDE DEF under
        <3> QED
            BY <1>0, <2>1, <2>2, SwappedFacts
    <2>4. s.password \in {NoPassword, password}
        BY <1>0, <2>3 DEF StoreSound
    <2>5. writing' \in Client \cup {Nobody} /\ raced' \in BOOLEAN
        BY <1>0, <1>6 DEF Swap
    <2> QED
        BY <1>0, <1>1, <2>1, <2>3, <2>4, <2>5, LeavesSound
<1> QED
    BY <1>2, <1>3, <1>4, <1>5, <1>6 DEF Loads

(* The storage's part of a call, and its way into the transfer. *)
LEMMA ClientSound ==
    ASSUME LInv, NEW c \in Client,
           \/ NotSigned(c) \/ StorageAdd(c) \/ StorageRemove(c)
           \/ StorageSetState(c) \/ StorageClear(c) \/ IsLoaded(c)
    PROVE  LInv'
<1>0. call[c] \in Call /\ store \in Store
    BY DEF LInv, FolderLockTypeOK
<1>5. CASE NotSigned(c)
    <2>1. ~InTransfer(call[c]) /\ ~InTransfer(Idle) /\ Idle \in Call
        BY <1>0, <1>5, CallFacts DEF NotSigned, At, InTransfer
    <2> QED
        BY <1>0, <1>5, <2>1, QuietStep
           DEF NotSigned, Returns, flocks, LInv, FolderLockTypeOK, StoreSound, EncodedBy, Idle
<1>6. CASE StorageAdd(c)
    <2>1. ~InTransfer(call[c]) /\ call[c].key \in Key /\ call[c].value \in Value
        BY <1>0, <1>6, CallFacts DEF StorageAdd, At, InTransfer
    <2>2. \A a \in Add(store, call[c].key, call[c].value, TRUE) :
              Outcome(store, a, password)
        BY <1>0, <2>1, AddOutcome
    <2> QED
        BY <1>6, <2>1, <2>2, StorageStep DEF StorageAdd
<1>7. CASE StorageRemove(c)
    <2>1. ~InTransfer(call[c]) /\ call[c].key \in Key
        BY <1>0, <1>7, CallFacts DEF StorageRemove, At, InTransfer
    <2>2. \A a \in Remove(store, call[c].key) : Outcome(store, a, password)
        BY <1>0, <2>1, RemoveOutcome
    <2> QED
        BY <1>7, <2>1, <2>2, StorageStep DEF StorageRemove
<1>8. CASE StorageSetState(c)
    <2>1. ~InTransfer(call[c]) /\ call[c].key \in Key /\ call[c].value \in Value
        BY <1>0, <1>8, CallFacts DEF StorageSetState, At, InTransfer
    <2>2. \A a \in Change(store, call[c].key, call[c].value) :
              Outcome(store, a, password)
        BY <1>0, <2>1, ChangeOutcome
    <2> QED
        BY <1>8, <2>1, <2>2, StorageStep DEF StorageSetState
<1>9. CASE StorageClear(c)
    <2>1. ~InTransfer(call[c])
        BY <1>9 DEF StorageClear, Idle, InTransfer
    <2>2. \A a \in ClearList(store) : Outcome(store, a, password)
        BY <1>0, ClearListOutcome
    <2> QED
        BY <1>9, <2>1, <2>2, StorageStep DEF StorageClear
<1>10. CASE IsLoaded(c)
    <2>1. call[c] \in [at : {"loaded", "copy"}, clean : BOOLEAN] /\ InTransfer(call[c])
          /\ call[c].at = "loaded" /\ ~current
        BY <1>0, <1>10, CallFacts DEF IsLoaded, At, InTransfer, LInv, TransferSound
    <2> DEFINE r == [call[c] EXCEPT !.at = "copy"]
    <2>2. r \in Call /\ r.at = "copy" /\ r.clean = call[c].clean
        BY <2>1 DEF Call
    <2>3. Fits(r, store.list, told')
        BY <2>2 DEF Fits
    <2>4. told' \in [Key -> SUBSET Value] /\ current' \in BOOLEAN /\ ~current'
        BY <1>10, <2>1 DEF LInv, FolderLockTypeOK, IsLoaded
    <2> HIDE DEF r
    <2>5. CASE Goes(c, r)
        BY <1>10, <2>1, <2>2, <2>3, <2>4, <2>5, TransferStep DEF IsLoaded
    <2>6. CASE Returns(c)
        <3>1. ~InTransfer(Idle) /\ Idle \in Call /\ Idle.at # "swap"
            BY <1>0, CallFacts DEF InTransfer
        <3> QED
            BY <1>10, <2>1, <2>4, <2>6, <3>1, TransferStep DEF IsLoaded, Returns
    <2> QED
        BY <1>10, <2>5, <2>6 DEF IsLoaded, r
<1> QED
    BY <1>5, <1>6, <1>7, <1>8, <1>9, <1>10

(* Every step keeps the invariant. *)
LEMMA NextSound == LInv /\ [Next]_vars => LInv'
<1> SUFFICES ASSUME LInv, [Next]_vars PROVE LInv'
    OBVIOUS
<1>1. ASSUME NEW c \in Client, NEW k \in Key, NEW v \in Value,
             AddTested(c, k, v) \/ ChangeTested(c, k, v)
      PROVE  LInv'
    BY <1>1, BeginsSound DEF AddTested, ChangeTested
<1>2. ASSUME NEW c \in Client, NEW k \in Key, RemoveTested(c, k)
      PROVE  LInv'
    BY <1>2, BeginsSound DEF RemoveTested
<1>3. ASSUME NEW c \in Client,
             \/ NotSigned(c) \/ StorageAdd(c) \/ StorageRemove(c)
             \/ StorageSetState(c) \/ StorageClear(c) \/ IsLoaded(c)
      PROVE  LInv'
    BY <1>3, ClientSound
<1>4. ASSUME NEW c \in Client,
             \/ GetAll(c) \/ DriverClear(c) \/ DriverAdd(c) \/ Transferred(c)
      PROVE  LInv'
    BY <1>4, GetAllSound, DriverClearSound, DriverAddSound, TransferredSound
<1>5. ASSUME NEW c \in Client, Login(c) \/ Loads(c) \/ FlushEnds(c) PROVE LInv'
    BY <1>5, LoginSound, FlushEndsSound
<1>6. CASE Restart
    BY <1>6, RestartSound
<1>7. CASE UNCHANGED vars
    BY <1>7 DEF vars, flocks, LInv, FolderLockTypeOK, StoreSound, DriverWasToldTheList,
                TransferSound, LoadSound, Alone, Transfers, Copied, Fits, EncodedBy, IsBy,
                InTransfer, Policies, Only
<1> QED
    BY <1>1, <1>2, <1>3, <1>4, <1>5, <1>6, <1>7 DEF Next, Transfer

-----------------------------------------------------------------------------
(* The states of the list, what the driver was told and the calls have     *)
(* their types.                                                            *)
THEOREM FolderLockTypeCorrect == Spec => []FolderLockTypeOK
<1>1. LInv => FolderLockTypeOK
    BY DEF LInv
<1> QED
    BY <1>1, InitSound, NextSound, PTL DEF Spec

(* "flocks list also was updated in driver": after a transfer that met no  *)
(* other one and no refusal, and while the list is as it sent it, what the *)
(* driver has accepted since it last was cleared is the policies of the    *)
(* list, each and no other, for any number of clients and objects, loads   *)
(* that race with writes included.                                         *)
THEOREM DriverIsToldTheList == Spec => []DriverWasToldTheList
<1>1. LInv => DriverWasToldTheList
    BY DEF LInv
<1> QED
    BY <1>1, InitSound, NextSound, PTL DEF Spec

(* The list and its file hold nothing another password has encoded, also   *)
(* after loads that race with writes.                                      *)
THEOREM ListStaysReadable == Spec => []StoreSound
<1>1. LInv => StoreSound
    BY DEF LInv
<1> QED
    BY <1>1, InitSound, NextSound, PTL DEF Spec
=============================================================================
