------------------------ MODULE MasterPasswordProofs -------------------------
(***************************************************************************)
(* Proofs about the master password and the stores under it, for every set *)
(* of clients, keys, values and passwords.                                 *)
(***************************************************************************)
EXTENDS MasterPasswordProps, EntryStoreProofs

(* A change has encoded a store anew, and told it, from these steps on.    *)
Encoded(o) == IF o = "wallet"
              THEN {"walletPassword", "flock", "flockPassword", "flockLoad",
                    "flockSwap", "hash"}
              ELSE {"flockPassword", "flockLoad", "flockSwap", "hash"}
Told(o) == IF o = "wallet"
           THEN {"flock", "flockPassword", "flockLoad", "flockSwap", "hash"}
           ELSE {"flockLoad", "flockSwap", "hash"}

(* A store encoded with q that knows one of the passwords P.               *)
StoreKept(s, q, P) ==
    /\ EncodedBy(s, q)
    /\ s.password \in P
    /\ s.opened => s.list \in {Nothing, s.disk}

(* The same of a list that may be stale. *)
StoreHeld(s, q, P, stale) ==
    /\ EncodedBy(s, q)
    /\ s.password \in P
    /\ ~stale => StoreKept(s, q, P)

Kept(s, o, r, h, stale) ==
    StoreHeld(s, IF r.at \in Encoded(o) THEN r.new ELSE h,
                 IF r.at \in Told(o) THEN {r.new} ELSE {NoPassword, h}, stale)

(* What a load has read fits a file that is encoded with q. *)
Fits(r, q, disk) ==
    /\ IsBy(r.read, q)
    /\ r.clean => r.read \in {Nothing, disk}

Steady ==
    /\ \A o \in Owner : StoreHeld(store[o], hash, {NoPassword, hash}, Raced(o))
    /\ \A c \in Client : Fits(load[c], hash, store["flock"].disk)

LoginSound(c) == call[c].at \in LoginStep => call[c].new = hash

ChangeSound(c) ==
    /\ \A d \in Others(c) : call[d] = Idle
    /\ call[c].at \notin {"undo", "undoPassword"}
    /\ call[c].current = hash
    /\ \A o \in Owner : Kept(store[o], o, call[c], hash, Raced(o))
    /\ Fits(load[c], call[c].new, store["flock"].disk)

(* Loads are under way between their two steps only, and no write overlaps *)
(* a clean one.                                                            *)
SwapStep == {"swapFlock", "flockSwap"}

LoadsOK ==
    /\ writing \in Client \cup {Nobody}
    /\ load \in [Client -> UnlockedLoad]
    /\ raced \in BOOLEAN
    /\ \A c \in Client :
          /\ load[c] = NotLoading \/ call[c].at \in SwapStep
          /\ load[c].clean => writing = Nobody

(* Why an undisturbed history leaves every entry readable: nobody else is  *)
(* in a call during a change, and its steps say how far each store is.     *)
PInv ==
    /\ PasswordTypeOK
    /\ LoadsOK
    /\ ~disturbed =>
          /\ \A c \in Client : LoginSound(c)
          /\ \A c \in Client : Changing(c) => ChangeSound(c)
          /\ (\A c \in Client : ~Changing(c)) => Steady

-----------------------------------------------------------------------------
(* The shapes of a call. *)
LEMMA ShapeFacts ==
    ASSUME NEW r \in Call
    PROVE  /\ r.at \in {"first"} \cup LoginStep =>
                 r \in [at : {"first"} \cup LoginStep, new : Password]
           /\ r.at \in ChangeStep =>
                 r \in [at : ChangeStep, new : Password, current : Password]
           /\ Idle \in Call /\ Idle.at = "none"
           /\ r.at = "none" => r = Idle
BY DEF Call, Idle, LoginStep, ChangeStep

(* A call that goes on stays a call, with its arguments. *)
LEMMA GoesFacts ==
    ASSUME call \in [Client -> Call], NEW c \in Client, NEW step, Goes(c, step)
    PROVE  /\ \A d \in Client \ {c} : call'[d] = call[d]
           /\ call'[c] = [call[c] EXCEPT !.at = step]
           /\ call[c].at \in LoginStep /\ step \in LoginStep =>
                 /\ call' \in [Client -> Call]
                 /\ call'[c].at = step /\ call'[c].new = call[c].new
           /\ call[c].at \in ChangeStep /\ step \in ChangeStep =>
                 /\ call' \in [Client -> Call]
                 /\ call'[c].at = step /\ call'[c].new = call[c].new
                 /\ call'[c].current = call[c].current
<1> DEFINE r == [call[c] EXCEPT !.at = step]
<1>1. call' = [call EXCEPT ![c] = r]
    BY DEF Goes
<1>2. ASSUME call[c].at \in LoginStep, step \in LoginStep
      PROVE  r \in Call /\ r.at = step /\ r.new = call[c].new
    <2>1. call[c] \in [at : {"first"} \cup LoginStep, new : Password]
        BY <1>2, ShapeFacts
    <2> QED
        BY <1>2, <2>1 DEF Call
<1>3. ASSUME call[c].at \in ChangeStep, step \in ChangeStep
      PROVE  /\ r \in Call /\ r.at = step /\ r.new = call[c].new
             /\ r.current = call[c].current
    <2>1. call[c] \in [at : ChangeStep, new : Password, current : Password]
        BY <1>3, ShapeFacts
    <2> QED
        BY <1>3, <2>1 DEF Call
<1> HIDE DEF r
<1>4. call'[c] = r /\ \A d \in Client \ {c} : call'[d] = call[d]
    BY <1>1
<1>5. r \in Call => call' \in [Client -> Call]
    BY <1>1
<1> QED
    BY <1>2, <1>3, <1>4, <1>5 DEF r

(* A call that returns or begins. *)
LEMMA SetFacts ==
    ASSUME call \in [Client -> Call], NEW c \in Client, NEW r \in Call,
           call' = [call EXCEPT ![c] = r]
    PROVE  /\ call' \in [Client -> Call]
           /\ call'[c] = r
           /\ \A d \in Client \ {c} : call'[d] = call[d]
OBVIOUS

(* One store changes. *)
LEMMA BecomesFacts ==
    ASSUME store \in [Owner -> Store], NEW o \in Owner, NEW s \in Store,
           Becomes(o, s)
    PROVE  /\ store' \in [Owner -> Store]
           /\ store'[o] = s
           /\ \A p \in Owner \ {o} : store'[p] = store[p]
BY DEF Becomes

(* An operation of a store keeps it. *)
LEMMA KeptOutcome ==
    ASSUME NEW s \in Store, NEW q, NEW a, Outcome(s, a, q),
           StoreKept(s, q, {NoPassword, q})
    PROVE  StoreKept(a.store, q, {NoPassword, q})
<1>1. EncodedBy(a.store, q) /\ a.store.password \in {NoPassword, q}
    BY DEF Outcome, StoreKept
<1>2. ASSUME a.store.opened PROVE a.store.list \in {Nothing, a.store.disk}
    <2>1. CASE a.store = s
        BY <1>2, <2>1 DEF StoreKept
    <2>2. CASE s.opened /\ a.store = Checked(s)
        <3>1. Checked(s).disk = s.disk
              /\ Checked(s).list \in {s.list, Readable(s.disk, s.password)}
            BY CheckedFacts
        <3>2. Readable(s.disk, s.password) \in {Nothing, s.disk}
            BY LoadsAll DEF StoreKept
        <3> QED
            BY <2>2, <3>1, <3>2 DEF StoreKept
    <2> QED
        BY <1>2, <2>1, <2>2 DEF Outcome, Ends
<1> QED
    BY <1>1, <1>2 DEF StoreKept

(* Also one whose list may be stale, which a write makes good.             *)
LEMMA HeldOutcome ==
    ASSUME NEW s \in Store, NEW q, NEW a, Outcome(s, a, q),
           EncodedBy(s, q), s.password \in {NoPassword, q}
    PROVE  /\ EncodedBy(a.store, q)
           /\ a.store.password \in {NoPassword, q}
           /\ Writes(s, a) \/ StoreKept(s, q, {NoPassword, q}) =>
                 StoreKept(a.store, q, {NoPassword, q})
<1>1. EncodedBy(a.store, q) /\ a.store.password \in {NoPassword, q}
    BY DEF Outcome
<1>2. Writes(s, a) => (a.store.opened => a.store.list = a.store.disk)
    BY DEF Outcome, Ends, Writes
<1> QED
    BY <1>1, <1>2, KeptOutcome DEF StoreKept

(* A refused or loaded store has its file. *)
LEMMA UnwrittenFacts ==
    ASSUME NEW s \in Store, NEW q, NEW a, Outcome(s, a, q), ~Writes(s, a)
    PROVE  a.store.disk = s.disk
BY CheckedFacts DEF Outcome, Ends, Writes

(* Setting the password a store is encoded with, and a new process.        *)
LEMMA KeptSet ==
    ASSUME NEW s \in Store, NEW q \in Password, EncodedBy(s, q), NEW stale,
           ~stale /\ s.opened => s.list \in {Nothing, s.disk}
    PROVE  /\ SetPassword(s, q) \in Store
           /\ StoreHeld(SetPassword(s, q), q, {q}, stale)
BY SetPasswordFacts DEF StoreHeld, StoreKept, EncodedBy

LEMMA KeptReborn ==
    ASSUME NEW s \in Store, NEW opens \in BOOLEAN, NEW q, NEW stale, EncodedBy(s, q)
    PROVE  StoreHeld(Reborn(s, opens), q, {NoPassword, q}, stale)
BY RebornFacts DEF StoreHeld, StoreKept

(* A load that is not under way fits every file. *)
LEMMA NotLoadingFacts ==
    /\ NotLoading \in UnlockedLoad
    /\ ~NotLoading.clean
    /\ \A q, disk : Fits(NotLoading, q, disk)
BY NothingFacts DEF NotLoading, UnlockedLoad, Fits

-----------------------------------------------------------------------------
(* Steps that leave the loads alone. *)
LEMMA LoadsStay ==
    ASSUME LoadsOK, NEW c \in Client, call[c].at \notin SwapStep,
           \A d \in Client \ {c} : call'[d] = call[d],
           UNCHANGED flocks
    PROVE  LoadsOK'
BY DEF LoadsOK, flocks

(* An operation of a store: a load it writes under is not clean. *)
LEMMA LoadsOperate ==
    ASSUME LoadsOK, NEW c \in Client, NEW o, NEW a, Operates(c, o, a),
           call[c].at \notin SwapStep,
           \A d \in Client \ {c} : call'[d] = call[d]
    PROVE  /\ LoadsOK'
           /\ \A q, disk : \A d \in Client :
                 Fits(load[d], q, disk) => Fits(load'[d], q, disk)
           /\ o = "flock" /\ Writes(store[o], a) =>
                 /\ \A d \in Client : ~load'[d].clean
                 /\ ~raced'
           /\ ~(o = "flock" /\ Writes(store[o], a)) => UNCHANGED flocks
<1> DEFINE W == o = "flock" /\ Writes(store[o], a)
<1>1. CASE ~W
    <2>1. UNCHANGED flocks
        BY <1>1 DEF Operates
    <2>2. load' = load
        BY <2>1 DEF flocks
    <2> QED
        BY <1>1, <2>1, <2>2, LoadsStay
<1>2. CASE W
    <2>1. /\ writing' = c /\ ~raced' /\ raced' \in BOOLEAN
          /\ load' = [d \in Client |-> [load[d] EXCEPT !.clean = FALSE]]
        BY <1>2 DEF Operates
    <2>2. ASSUME NEW d \in Client
          PROVE  /\ load'[d] \in UnlockedLoad
                 /\ load'[d].read = load[d].read /\ ~load'[d].clean
                 /\ load'[d] = NotLoading \/ call'[d].at \in SwapStep
        <3>1. load[d] \in UnlockedLoad
            BY DEF LoadsOK
        <3>2. load'[d] = [load[d] EXCEPT !.clean = FALSE]
            BY <2>1
        <3>3. [NotLoading EXCEPT !.clean = FALSE] = NotLoading
            <4>1. \A u \in UnlockedLoad : u.clean = FALSE => [u EXCEPT !.clean = FALSE] = u
                BY SMT DEF UnlockedLoad
            <4>2. NotLoading.clean = FALSE
                BY DEF NotLoading
            <4> QED
                BY <4>1, <4>2, NotLoadingFacts
        <3> QED
            BY <3>1, <3>2, <3>3 DEF LoadsOK, UnlockedLoad
    <2>3. load' \in [Client -> UnlockedLoad]
        <3> DEFINE f == [d \in Client |-> [load[d] EXCEPT !.clean = FALSE]]
        <3>1. load' = f /\ \A d \in Client : f[d] \in UnlockedLoad
            BY <2>1, <2>2
        <3>2. f \in [Client -> UnlockedLoad]
            BY <3>1
        <3> QED
            BY <3>1, <3>2
    <2>4. LoadsOK'
        BY <2>1, <2>2, <2>3 DEF LoadsOK
    <2> QED
        BY <1>2, <2>1, <2>2, <2>4 DEF Fits
<1> QED
    BY <1>1, <1>2

(* A step of the unlocked load: what it leaves has its type, and it        *)
(* touches the file, and opens a store, under a write only.                *)
LEMMA LoadsTyped ==
    ASSUME LoadsOK, store \in [Owner -> Store], call \in [Client -> Call],
           NEW c \in Client, NEW from, NEW swap \in SwapStep, NEW to,
           from \notin SwapStep,
           {from, swap, to} \subseteq LoginStep \/ {from, swap, to} \subseteq ChangeStep,
           Loads(c, from, swap, to)
    PROVE  /\ \E step \in {from, swap, to} : Goes(c, step)
           /\ call[c].at \in {from, swap}
           /\ LoadsOK'
           /\ store' \in [Owner -> Store]
           /\ store'["wallet"] = store["wallet"]
           /\ ~store["flock"].opened =>
                 ~store'["flock"].opened /\ store'["flock"].disk = store["flock"].disk
           /\ ~raced' => store'["flock"].disk = store["flock"].disk
<1> DEFINE s == store["flock"]
           under == writing # Nobody
<1>0. /\ s \in Store /\ under \in BOOLEAN
      /\ Owner = {"wallet", "flock"}
      /\ load[c] \in UnlockedLoad /\ load \in [Client -> UnlockedLoad]
    BY DEF Owner, LoadsOK
<1>1. ASSUME NEW t \in Store, Becomes("flock", t)
      PROVE  /\ store' \in [Owner -> Store]
             /\ store'["flock"] = t /\ store'["wallet"] = store["wallet"]
    BY <1>0, <1>1, BecomesFacts
<1>2. ASSUME NEW step \in {from, swap, to}, Goes(c, step), At(c, from) \/ At(c, swap)
      PROVE  /\ call'[c].at = step
             /\ \A d \in Client \ {c} : call'[d] = call[d]
    <2>1. \/ call[c].at \in LoginStep /\ step \in LoginStep
          \/ call[c].at \in ChangeStep /\ step \in ChangeStep
        BY <1>2 DEF At
    <2> QED
        BY <1>2, <2>1, GoesFacts
<1>3. CASE Read(c, from, swap)
    <2>1. PICK read \in Reads(s, under) :
              load' = [load EXCEPT ![c] = [read |-> read, clean |-> writing = Nobody]]
        BY <1>3 DEF Read
    <2>2. [read |-> read, clean |-> writing = Nobody] \in UnlockedLoad
        BY <1>0, <2>1, ReadsType DEF UnlockedLoad
    <2>3. /\ load' \in [Client -> UnlockedLoad]
          /\ load'[c].clean = (writing = Nobody)
          /\ \A d \in Client \ {c} : load'[d] = load[d]
        BY <1>0, <2>1, <2>2
    <2>4. call'[c].at = swap /\ \A d \in Client \ {c} : call'[d] = call[d]
        BY <1>2, <1>3 DEF Read
    <2>5. LoadsOK'
        BY <1>3, <2>3, <2>4 DEF Read, LoadsOK
    <2> QED
        BY <1>3, <2>5 DEF Read, At
<1>4. CASE NoMapping(c, from, to)
    <2>1. \A d \in Client \ {c} : call'[d] = call[d]
        BY <1>2, <1>4 DEF NoMapping
    <2>2. call[c].at \notin SwapStep /\ UNCHANGED <<store, flocks>>
        BY <1>4 DEF NoMapping, At
    <2> QED
        BY <1>4, <2>1, <2>2, LoadsStay DEF NoMapping, At
<1>5. CASE Remap(c, from)
    <2>1. PICK t \in Torn(s, s.list) : Becomes("flock", t)
        BY <1>5 DEF Remap
    <2>2. t \in Swapped(s, s.list, TRUE) /\ s.list \in Contents
        BY <1>0, <2>1 DEF Swapped, Store
    <2>3. /\ t \in Store
          /\ t.opened => s.opened
          /\ ~s.opened => t.disk = s.disk
        <3> HIDE DEF s
        <3> QED
            BY <1>0, <2>2, SwappedFacts
    <2>4. /\ call'[c].at = from /\ call[c].at = from
          /\ \A d \in Client \ {c} : call'[d] = call[d]
        BY <1>2, <1>5 DEF Remap, At
    <2>5. LoadsOK'
        BY <1>5, <2>4 DEF Remap, LoadsOK
    <2> QED
        BY <1>1, <1>5, <2>1, <2>3, <2>4, <2>5 DEF Remap
<1>6. CASE Swap(c, swap, to)
    <2>1. PICK t \in Swapped(s, load[c].read, under) : Becomes("flock", t)
        BY <1>6 DEF Swap
    <2>2. load[c].read \in Contents
        BY <1>0 DEF UnlockedLoad
    <2>3. /\ t \in Store
          /\ t.opened => s.opened
          /\ ~s.opened => t.disk = s.disk
          /\ ~under => t.disk = s.disk
        <3> HIDE DEF s, under
        <3> QED
            BY <1>0, <2>1, <2>2, SwappedFacts
    <2>4. /\ load' = [load EXCEPT ![c] = NotLoading]
          /\ raced' = ~load[c].clean /\ writing' = writing
          /\ call[c].at = swap
        BY <1>6 DEF Swap, At
    <2>5. \A d \in Client \ {c} : call'[d] = call[d]
        BY <1>2, <1>6 DEF Swap
    <2>6. /\ load' \in [Client -> UnlockedLoad] /\ load'[c] = NotLoading
          /\ \A d \in Client \ {c} : load'[d] = load[d]
        BY <1>0, <2>4, NotLoadingFacts
    <2>7. raced' \in BOOLEAN
        BY <2>4
    <2>8. LoadsOK'
        BY <2>4, <2>5, <2>6, <2>7, NotLoadingFacts DEF LoadsOK
    <2>9. ~raced' => ~under
        BY <2>4 DEF LoadsOK
    <2> QED
        BY <1>1, <1>6, <2>1, <2>3, <2>4, <2>8, <2>9 DEF Swap
<1> QED
    BY <1>3, <1>4, <1>5, <1>6 DEF Loads

(* A load brings in entries encoded as the file is, and all of them or     *)
(* none where no write overlapped it.                                      *)
LEMMA LoadsHeld ==
    ASSUME LoadsOK, store \in [Owner -> Store],
           NEW c \in Client, NEW from, NEW swap, NEW to, Loads(c, from, swap, to),
           NEW q, NEW P, P \subseteq {NoPassword, q},
           StoreHeld(store["flock"], q, P, raced),
           \A d \in Client : Fits(load[d], q, store["flock"].disk)
    PROVE  /\ StoreHeld(store'["flock"], q, P, raced')
           /\ \A d \in Client : Fits(load'[d], q, store'["flock"].disk)
<1> DEFINE s == store["flock"]
           under == writing # Nobody
<1>0. /\ s \in Store /\ under \in BOOLEAN
      /\ Owner = {"wallet", "flock"}
      /\ load[c] \in UnlockedLoad /\ load \in [Client -> UnlockedLoad]
      /\ EncodedBy(s, q) /\ s.password \in P /\ s.password \in {NoPassword, q}
    BY DEF Owner, LoadsOK, StoreHeld
<1>1. ASSUME NEW t \in Store, Becomes("flock", t) PROVE store'["flock"] = t
    BY <1>0, <1>1, BecomesFacts
<1>2. CASE Read(c, from, swap)
    <2>1. PICK read \in Reads(s, under) :
              load' = [load EXCEPT ![c] = [read |-> read, clean |-> writing = Nobody]]
        BY <1>2 DEF Read
    <2>2. IsBy(read, q) /\ (~under => read \in {Nothing, s.disk})
        BY <1>0, <2>1, ReadsFacts
    <2>3. store' = store /\ raced' = raced
        BY <1>2 DEF Read
    <2>4. ASSUME NEW d \in Client PROVE Fits(load'[d], q, s.disk)
        <3>1. CASE d = c
            <4>1. load'[c].read = read /\ load'[c].clean = (writing = Nobody)
                BY <1>0, <2>1
            <4> QED
                BY <2>2, <3>1, <4>1 DEF Fits
        <3>2. CASE d # c
            BY <1>0, <2>1, <3>2
        <3> QED
            BY <3>1, <3>2
    <2> QED
        BY <2>3, <2>4
<1>3. CASE NoMapping(c, from, to)
    BY <1>3 DEF NoMapping, flocks
<1>4. ASSUME NEW list, IsBy(list, q), list \in Contents,
             NEW t \in Swapped(s, list, under), Becomes("flock", t)
      PROVE  /\ store'["flock"] = t
             /\ EncodedBy(t, q) /\ t.password \in P
             /\ ~under => t.disk = s.disk /\ t.list = list
             /\ \A d \in Client : Fits(load[d], q, t.disk)
    <2>1. /\ t \in Store /\ EncodedBy(t, q) /\ t.password = s.password
          /\ ~under => t.disk = s.disk /\ t.list = list
        <3> HIDE DEF s, under
        <3> QED
            BY <1>0, <1>4, SwappedFacts
    <2>2. ASSUME NEW d \in Client PROVE Fits(load[d], q, t.disk)
        <3>1. load[d].clean => ~under
            BY DEF LoadsOK
        <3> QED
            BY <2>1, <3>1 DEF Fits
    <2> QED
        BY <1>0, <1>1, <1>4, <2>1, <2>2
<1>5. CASE Remap(c, from)
    <2>1. PICK t \in Torn(s, s.list) : Becomes("flock", t)
        BY <1>5 DEF Remap
    <2>2. t \in Swapped(s, s.list, under) /\ s.list \in Contents /\ IsBy(s.list, q)
        BY <1>0, <1>5, <2>1 DEF Swapped, Store, Remap, EncodedBy
    <2>3. raced' = TRUE /\ load' = load
        BY <1>5 DEF Remap
    <2>4. /\ store'["flock"] = t
          /\ EncodedBy(t, q) /\ t.password \in P
          /\ \A d \in Client : Fits(load[d], q, t.disk)
        BY <1>4, <2>1, <2>2
    <2> QED
        BY <2>3, <2>4 DEF StoreHeld
<1>6. CASE Swap(c, swap, to)
    <2> DEFINE list == load[c].read
    <2>1. PICK t \in Swapped(s, list, under) : Becomes("flock", t)
        BY <1>6 DEF Swap
    <2>2. list \in Contents /\ IsBy(list, q)
          /\ (load[c].clean => list \in {Nothing, s.disk})
        BY <1>0 DEF UnlockedLoad, Fits
    <2>3. /\ load' = [load EXCEPT ![c] = NotLoading]
          /\ raced' = ~load[c].clean
        BY <1>6 DEF Swap
    <2>4. load[c].clean => ~under
        BY DEF LoadsOK
    <2> HIDE DEF list
    <2>5. /\ store'["flock"] = t
          /\ EncodedBy(t, q) /\ t.password \in P
          /\ ~under => t.disk = s.disk /\ t.list = list
          /\ \A d \in Client : Fits(load[d], q, t.disk)
        BY <1>4, <2>1, <2>2
    <2>6. ~raced' => StoreKept(t, q, P)
        BY <2>2, <2>3, <2>4, <2>5 DEF StoreKept
    <2>7. \A d \in Client : Fits(load'[d], q, t.disk)
        <3>1. \A d \in Client : load'[d] = IF d = c THEN NotLoading ELSE load[d]
            BY <1>0, <2>3
        <3> QED
            BY <2>5, <3>1, NotLoadingFacts
    <2> QED
        BY <2>5, <2>6, <2>7 DEF StoreHeld
<1> QED
    BY <1>2, <1>3, <1>5, <1>6 DEF Loads

-----------------------------------------------------------------------------
(* A step of a client that is in no change, before and after: it disturbs  *)
(* a change there is, and has otherwise only to keep the stores steady.    *)
LEMMA QuietStep ==
    ASSUME PInv, NEW c \in Client, NEW failed \in BOOLEAN,
           ~Changing(c), call'[c].at \notin ChangeStep,
           call' \in [Client -> Call],
           \A d \in Client \ {c} : call'[d] = call[d],
           store' \in [Owner -> Store],
           LoadsOK',
           hash' \in Password \cup {NoPassword},
           Disturbs(c, failed),
           ~disturbed /\ ~failed /\ Steady /\ (\A d \in Client : LoginSound(d))
               => Steady' /\ (\A d \in Client : LoginSound(d)')
    PROVE  PInv'
<1>1. PasswordTypeOK'
    BY DEF PInv, PasswordTypeOK, LoadsOK, Disturbs, Overlaps, Changing
<1>2. ASSUME ~disturbed'
      PROVE  /\ ~disturbed /\ ~failed
             /\ \A d \in Client : ~Changing(d) /\ ~Changing(d)'
    <2>1. ~disturbed /\ ~failed /\ \A d \in Others(c) : ~Changing(d)
        BY <1>2 DEF Disturbs, Overlaps
    <2> QED
        BY <2>1 DEF Others, Changing
<1> QED
    BY <1>1, <1>2 DEF PInv

(* A step of a change that goes on. *)
LEMMA ChangeStepSound ==
    ASSUME PInv, NEW c \in Client, NEW failed \in BOOLEAN, NEW step \in ChangeStep,
           Changing(c), Goes(c, step),
           store' \in [Owner -> Store],
           LoadsOK',
           UNCHANGED hash,
           Disturbs(c, failed),
           ~failed /\ ChangeSound(c) =>
               /\ step \notin {"undo", "undoPassword"}
               /\ \A o \in Owner : Kept(store'[o], o, [call[c] EXCEPT !.at = step], hash,
                                       Raced(o)')
               /\ Fits(load'[c], call[c].new, store'["flock"].disk)
    PROVE  PInv'
<1>1. call \in [Client -> Call]
    BY DEF PInv, PasswordTypeOK
<1>2. /\ call' \in [Client -> Call]
      /\ \A d \in Client \ {c} : call'[d] = call[d]
      /\ call'[c] = [call[c] EXCEPT !.at = step]
      /\ call'[c].at = step /\ call'[c].current = call[c].current
      /\ call'[c].new = call[c].new
    BY <1>1, GoesFacts DEF Changing
<1>3. PasswordTypeOK'
    BY <1>2 DEF PInv, PasswordTypeOK, LoadsOK, Disturbs, Overlaps, Changing
<1>4. SUFFICES ASSUME ~disturbed'
      PROVE  /\ \A d \in Client : LoginSound(d)'
             /\ \A d \in Client : Changing(d)' => ChangeSound(d)'
             /\ (\A d \in Client : ~Changing(d)) ' => Steady'
    BY <1>3 DEF PInv
<1>5. ~disturbed /\ ~failed /\ \A d \in Others(c) : call[d] = Idle
    BY <1>4 DEF Disturbs, Overlaps
<1>6. ChangeSound(c)
    BY <1>5 DEF PInv
<1>7. /\ step \notin {"undo", "undoPassword"}
      /\ \A o \in Owner : Kept(store'[o], o, call'[c], hash, Raced(o)')
      /\ Fits(load'[c], call'[c].new, store'["flock"].disk)
    BY <1>2, <1>5, <1>6
<1>8. Changing(c)' /\ \A d \in Client \ {c} : call'[d] = Idle
    BY <1>2, <1>5 DEF Changing, Others
<1>9. \A d \in Client \ {c} : ~Changing(d)'
    BY <1>8 DEF Changing, Idle, ChangeStep
<1>10. ASSUME NEW d \in Client PROVE LoginSound(d)'
    <2>1. call'[c].at \notin LoginStep
        BY <1>2 DEF LoginStep, ChangeStep
    <2>2. Idle.at \notin LoginStep
        BY DEF Idle, LoginStep
    <2> QED
        BY <1>8, <2>1, <2>2 DEF LoginSound
<1>11. ChangeSound(c)'
    BY <1>2, <1>6, <1>7, <1>8 DEF ChangeSound, Others
<1> QED
    BY <1>8, <1>9, <1>10, <1>11

(* A change that ends: the stores are steady under the hash, or it was     *)
(* disturbed.                                                              *)
LEMMA ChangeEnds ==
    ASSUME PInv, NEW c \in Client, NEW failed \in BOOLEAN,
           Changing(c), Returns(c),
           store' \in [Owner -> Store],
           LoadsOK',
           hash' \in Password \cup {NoPassword},
           Disturbs(c, failed),
           ~failed /\ ChangeSound(c) => Steady'
    PROVE  PInv'
<1>1. call \in [Client -> Call] /\ Idle \in Call
    BY DEF PInv, PasswordTypeOK, Call
<1>2. /\ call' \in [Client -> Call] /\ call'[c] = Idle
      /\ \A d \in Client \ {c} : call'[d] = call[d]
    BY <1>1, SetFacts DEF Returns
<1>3. PasswordTypeOK'
    BY <1>2 DEF PInv, PasswordTypeOK, LoadsOK, Disturbs, Overlaps, Changing
<1>4. ASSUME ~disturbed'
      PROVE  Steady' /\ \A d \in Client : call'[d] = Idle
    <2>1. ~disturbed /\ ~failed /\ \A d \in Others(c) : call[d] = Idle
        BY <1>4 DEF Disturbs, Overlaps
    <2>2. ChangeSound(c)
        BY <2>1 DEF PInv
    <2> QED
        BY <1>2, <2>1, <2>2 DEF Others
<1>5. ASSUME \A d \in Client : call'[d] = Idle
      PROVE  \A d \in Client : ~Changing(d)' /\ LoginSound(d)'
    BY <1>5 DEF Changing, LoginSound, Idle, LoginStep, ChangeStep
<1> QED
    BY <1>3, <1>4, <1>5 DEF PInv

-----------------------------------------------------------------------------
(* At first there is nothing. *)
LEMMA InitSound == Init => PInv
<1> SUFFICES ASSUME Init PROVE PInv
    OBVIOUS
<1> DEFINE s == [list |-> Nothing, disk |-> Nothing, opened |-> TRUE,
                 password |-> NoPassword]
<1>1. s \in Store /\ StoreKept(s, NoPassword, {NoPassword})
    BY NothingFacts DEF Store, StoreKept, EncodedBy
<1>2. store \in [Owner -> Store] /\ \A o \in Owner : store[o] = s
    BY <1>1 DEF Init
<1>3. call \in [Client -> Call] /\ \A c \in Client : call[c] = Idle
    BY DEF Init, Call
<1>4. PasswordTypeOK /\ LoadsOK
    BY <1>2, <1>3, NotLoadingFacts DEF Init, PasswordTypeOK, LoadsOK
<1>5. Steady
    BY <1>1, <1>2, NotLoadingFacts DEF Init, Steady, StoreKept, StoreHeld
<1>6. \A c \in Client : LoginSound(c) /\ ~Changing(c)
    BY <1>3 DEF LoginSound, Changing, Idle, LoginStep, ChangeStep
<1> QED
    BY <1>4, <1>5, <1>6 DEF PInv

(* One operation of a store. *)
LEMMA EntrustSound ==
    ASSUME PInv, NEW c \in Client, NEW o \in Owner, NEW answers,
           Entrust(c, answers, o),
           \A a \in answers : \A q : Outcome(store[o], a, q)
    PROVE  PInv'
<1>1. PICK a \in answers : Operates(c, o, a)
    BY DEF Entrust
<1>2. /\ store \in [Owner -> Store] /\ LoadsOK
      /\ \A q : Outcome(store[o], a, q)
    BY DEF PInv, PasswordTypeOK
<1>3. a.store \in Store
    BY <1>2 DEF Outcome
<1>4. /\ store' \in [Owner -> Store] /\ store'[o] = a.store
      /\ \A p \in Owner \ {o} : store'[p] = store[p]
    BY <1>1, <1>2, <1>3, BecomesFacts DEF Operates
<1>5. /\ ~Changing(c) /\ call'[c].at \notin ChangeStep
      /\ call[c].at \notin SwapStep
    BY DEF Entrust, Changing, Idle, ChangeStep, SwapStep
<1>6. /\ call' \in [Client -> Call] /\ call' = call
      /\ hash' = hash /\ hash' \in Password \cup {NoPassword}
    BY DEF Entrust, PInv, PasswordTypeOK
<1>7. /\ LoadsOK'
      /\ \A q, disk : \A d \in Client :
            Fits(load[d], q, disk) => Fits(load'[d], q, disk)
      /\ o = "flock" /\ Writes(store[o], a) =>
            /\ \A d \in Client : ~load'[d].clean
            /\ ~raced'
      /\ ~(o = "flock" /\ Writes(store[o], a)) => UNCHANGED flocks
    BY <1>1, <1>2, <1>5, <1>6, LoadsOperate
<1>8. ASSUME Steady PROVE Steady'
    <2>1. \A w \in Owner : store[w] \in Store
                           /\ StoreHeld(store[w], hash, {NoPassword, hash}, Raced(w))
        BY <1>2, <1>8 DEF Steady
    <2>2. Writes(store[o], a) \/ (Raced(o)' <=> Raced(o))
        BY <1>7 DEF Raced, flocks
    <2>3. StoreHeld(a.store, hash, {NoPassword, hash}, Raced(o)')
        <3>1. /\ store[o] \in Store /\ Outcome(store[o], a, hash)
              /\ StoreHeld(store[o], hash, {NoPassword, hash}, Raced(o))
            BY <1>2, <2>1
        <3>2. /\ EncodedBy(store[o], hash) /\ store[o].password \in {NoPassword, hash}
              /\ Raced(o) \/ StoreKept(store[o], hash, {NoPassword, hash})
            BY <3>1 DEF StoreHeld
        <3>3. /\ EncodedBy(a.store, hash) /\ a.store.password \in {NoPassword, hash}
              /\ Raced(o)' \/ StoreKept(a.store, hash, {NoPassword, hash})
            BY <2>2, <3>1, <3>2, HeldOutcome
        <3> QED
            BY <3>3 DEF StoreHeld
    <2>4. \A w \in Owner \ {o} : Raced(w)' <=> Raced(w)
        BY <1>7 DEF Raced, flocks
    <2>5. ASSUME NEW w \in Owner
          PROVE  StoreHeld(store'[w], hash', {NoPassword, hash'}, Raced(w)')
        <3>1. CASE w = o
            BY <1>4, <1>6, <2>3, <3>1
        <3>2. CASE w # o
            <4>1. store'[w] = store[w] /\ (Raced(w)' <=> Raced(w))
                BY <1>4, <2>4, <3>2
            <4> QED
                BY <1>6, <2>1, <4>1 DEF StoreHeld
        <3> QED
            BY <3>1, <3>2
    <2>6. ASSUME NEW d \in Client PROVE Fits(load'[d], hash', store'["flock"].disk)
        <3>1. Fits(load[d], hash, store["flock"].disk)
            BY <1>8 DEF Steady
        <3>2. Fits(load'[d], hash, store["flock"].disk)
            BY <1>7, <3>1
        <3>3. CASE o = "flock" /\ Writes(store[o], a)
            BY <1>6, <1>7, <3>2, <3>3 DEF Fits
        <3>4. CASE o = "flock" /\ ~Writes(store[o], a)
            BY <1>2, <1>4, <1>6, <3>2, <3>4, UnwrittenFacts
        <3>5. CASE o # "flock"
            BY <1>4, <1>6, <3>2, <3>5 DEF Owner
        <3> QED
            BY <3>3, <3>4, <3>5
    <2> QED
        BY <2>5, <2>6 DEF Steady
<1>9. \A d \in Client : LoginSound(d) => LoginSound(d)'
    BY <1>6 DEF LoginSound
<1> QED
    BY <1>4, <1>5, <1>6, <1>7, <1>8, <1>9, QuietStep DEF Entrust

(* The first password: whoever logs in or changes it comes later, or the   *)
(* history is disturbed.                                                   *)
LEMMA FirstSound ==
    ASSUME PInv, NEW c \in Client,
           FirstPassword(c) \/ \E p \in Password : HasNoHash(c, p)
    PROVE  PInv'
<1>0. /\ call \in [Client -> Call] /\ store \in [Owner -> Store]
      /\ hash \in Password \cup {NoPassword} /\ LoadsOK
    BY DEF PInv, PasswordTypeOK
<1>1. ASSUME NEW p \in Password, HasNoHash(c, p) PROVE PInv'
    <2> DEFINE r == [at |-> "first", new |-> p]
    <2>1. r \in Call /\ r.at = "first"
        BY DEF Call
    <2>2. call' = [call EXCEPT ![c] = r]
        BY <1>1 DEF HasNoHash
    <2> HIDE DEF r
    <2>3. /\ call' \in [Client -> Call] /\ call'[c] = r
          /\ \A d \in Client \ {c} : call'[d] = call[d]
        BY <1>0, <2>1, <2>2, SetFacts
    <2>4. ~Changing(c) /\ call'[c].at \notin ChangeStep /\ call'[c].at \notin LoginStep
        BY <1>1, <2>1, <2>3 DEF HasNoHash, Changing, Idle, ChangeStep, LoginStep
    <2>5. \A d \in Client : LoginSound(d) => LoginSound(d)'
        BY <1>1, <2>3, <2>4 DEF LoginSound, HasNoHash
    <2>6. Steady => Steady'
        BY <1>1 DEF Steady, HasNoHash, Raced, flocks
    <2>7. LoadsOK'
        BY <1>0, <1>1, <2>3, LoadsStay DEF HasNoHash, Idle, SwapStep
    <2> QED
        BY <1>0, <1>1, <2>3, <2>4, <2>5, <2>6, <2>7, QuietStep DEF HasNoHash
<1>2. CASE FirstPassword(c)
    <2>1. call[c] \in [at : {"first"} \cup LoginStep, new : Password]
          /\ call[c].at = "first"
        BY <1>0, <1>2, ShapeFacts DEF FirstPassword, At
    <2>2. /\ call' \in [Client -> Call] /\ call'[c] = Idle
          /\ \A d \in Client \ {c} : call'[d] = call[d]
        BY <1>0, <1>2, ShapeFacts, SetFacts DEF FirstPassword, Returns
    <2>3. ~Changing(c) /\ call'[c].at \notin ChangeStep /\ call'[c].at \notin LoginStep
        BY <2>1, <2>2 DEF Changing, Idle, ChangeStep, LoginStep
    <2>4. hash' \in Password \cup {NoPassword} /\ (hash' = hash \/ hash' = call[c].new)
        BY <1>0, <1>2, <2>1 DEF FirstPassword
    <2>5. (hash # NoPassword) \in BOOLEAN /\ Disturbs(c, hash # NoPassword)
        BY <1>2 DEF FirstPassword
    <2>6. ASSUME hash = NoPassword, Steady PROVE Steady'
        <3>1. store' = store
            BY <1>2 DEF FirstPassword
        <3> QED
            BY <1>2, <2>6, <3>1 DEF Steady, StoreKept, StoreHeld, EncodedBy, IsBy, Fits,
               FirstPassword, Raced, flocks
    <2>7. ASSUME hash = NoPassword, NEW d \in Client, LoginSound(d) PROVE LoginSound(d)'
        <3>1. CASE d = c
            BY <2>3, <3>1 DEF LoginSound
        <3>2. CASE d # c
            <4>1. ASSUME call[d].at \in LoginStep PROVE FALSE
                <5>1. call[d].new \in Password
                    BY <1>0, <4>1, ShapeFacts
                <5> QED
                    BY <2>7, <4>1, <5>1, StoreAssumption DEF LoginSound
            <4> QED
                BY <2>2, <3>2, <4>1 DEF LoginSound
        <3> QED
            BY <3>1, <3>2
    <2>8. store' \in [Owner -> Store]
        BY <1>0, <1>2 DEF FirstPassword
    <2>9. LoadsOK'
        BY <1>0, <1>2, <2>1, <2>2, LoadsStay DEF FirstPassword, SwapStep
    <2> QED
        BY <2>2, <2>3, <2>4, <2>5, <2>6, <2>7, <2>8, <2>9, QuietStep
<1> QED
    BY <1>1, <1>2

(* A step of a login hands over the password the hash stands for. *)
LEMMA LoginStepSound ==
    ASSUME PInv, NEW c \in Client, call[c].at \in LoginStep,
           Returns(c) \/ \E step \in LoginStep : Goes(c, step),
           Disturbs(c, FALSE),
           hash' \in {hash, call[c].new},
           store' \in [Owner -> Store],
           LoadsOK',
           call[c].new = hash /\ Steady /\ hash' = hash => Steady'
    PROVE  PInv'
<1>0. call \in [Client -> Call] /\ store \in [Owner -> Store]
      /\ hash \in Password \cup {NoPassword}
    BY DEF PInv, PasswordTypeOK
<1>1. call[c].new \in Password
    BY <1>0, ShapeFacts
<1>2. /\ call' \in [Client -> Call]
      /\ \A d \in Client \ {c} : call'[d] = call[d]
      /\ \/ call'[c] = Idle
         \/ call'[c].at \in LoginStep /\ call'[c].new = call[c].new
    <2>1. CASE Returns(c)
        BY <1>0, <2>1, ShapeFacts, SetFacts DEF Returns
    <2>2. ASSUME NEW step \in LoginStep, Goes(c, step)
          PROVE  /\ call' \in [Client -> Call]
                 /\ \A d \in Client \ {c} : call'[d] = call[d]
                 /\ call'[c].at \in LoginStep /\ call'[c].new = call[c].new
        <3>1. \A d \in Client \ {c} : call'[d] = call[d]
            BY <1>0, <2>2, GoesFacts
        <3>2. /\ call' \in [Client -> Call]
              /\ call'[c].at = step /\ call'[c].new = call[c].new
            BY <1>0, <2>2, GoesFacts
        <3> QED
            BY <2>2, <3>1, <3>2
    <2> QED
        BY <2>1, <2>2
<1>3. ~Changing(c) /\ call'[c].at \notin ChangeStep
    BY <1>2 DEF Changing, Idle, ChangeStep, LoginStep
<1>4. ASSUME \A d \in Client : LoginSound(d)
      PROVE  /\ hash' = hash /\ call[c].new = hash
             /\ \A d \in Client : LoginSound(d)'
    <2>1. call[c].new = hash /\ hash' = hash
        BY <1>4 DEF LoginSound
    <2>2. Idle.at \notin LoginStep
        BY DEF Idle, LoginStep
    <2> QED
        BY <1>2, <1>4, <2>1, <2>2 DEF LoginSound
<1>5. hash' \in Password \cup {NoPassword}
    BY <1>0, <1>1
<1> QED
    BY <1>2, <1>3, <1>4, <1>5, QuietStep

(* Beginning a login, and its five steps. *)
LEMMA LoginBeginSound ==
    ASSUME PInv, NEW c \in Client, NEW p \in Password, Login(c, p)
    PROVE  PInv'
<1> DEFINE r == [at |-> "init", new |-> p]
<1>0. /\ call \in [Client -> Call] /\ store \in [Owner -> Store]
      /\ hash \in Password \cup {NoPassword} /\ LoadsOK
    BY DEF PInv, PasswordTypeOK
<1>1. r \in Call /\ r.at = "init" /\ r.new = p
    BY DEF Call, LoginStep
<1>2. call' = [call EXCEPT ![c] = r]
    BY DEF Login
<1> HIDE DEF r
<1>3. /\ call' \in [Client -> Call] /\ call'[c] = r
      /\ \A d \in Client \ {c} : call'[d] = call[d]
    BY <1>0, <1>1, <1>2, SetFacts
<1>4. ~Changing(c) /\ call'[c].at \notin ChangeStep
    BY <1>1, <1>3 DEF Login, Changing, Idle, ChangeStep
<1>5. \A d \in Client : LoginSound(d) => LoginSound(d)'
    BY <1>1, <1>3 DEF LoginSound, Login
<1>6. Steady => Steady'
    BY DEF Steady, Login, Raced, flocks
<1>7. LoadsOK'
    BY <1>0, <1>3, LoadsStay DEF Login, Idle, SwapStep
<1> QED
    BY <1>0, <1>3, <1>4, <1>5, <1>6, <1>7, QuietStep DEF Login

LEMMA LoginNextSound ==
    ASSUME PInv, NEW c \in Client, LoginNext(c)
    PROVE  PInv'
<1>0. call \in [Client -> Call] /\ store \in [Owner -> Store] /\ LoadsOK
    BY DEF PInv, PasswordTypeOK
<1>1. call[c].at \in LoginStep
    BY DEF LoginNext, InitMasterPassword, KeepPassword, GiveFlock, LoadFlock, Loads,
           Read, NoMapping, Remap, Swap, GiveWallet, At, LoginStep
<1>2. call[c].new \in Password
    BY <1>0, <1>1, ShapeFacts
<1>3. {"keep", "giveFlock", "loadFlock", "swapFlock", "giveWallet"} \subseteq LoginStep
      /\ "loadFlock" \notin SwapStep /\ "swapFlock" \in SwapStep
    BY DEF LoginStep, SwapStep
<1>4. Owner = {"wallet", "flock"}
    BY DEF Owner
<1>5. UNCHANGED <<store, flocks>> /\ hash' = hash /\ Steady => Steady'
    BY DEF Steady, Raced, flocks
<1>6. ASSUME NEW o \in Owner, Becomes(o, SetPassword(store[o], call[c].new)),
             hash' = hash, Steady, call[c].new = hash, UNCHANGED flocks
      PROVE  Steady'
    <2> DEFINE t == SetPassword(store[o], call[c].new)
    <2>1. t \in Store /\ t.disk = store[o].disk
        BY <1>0, <1>2, SetPasswordFacts
    <2>2. \A w \in Owner : StoreHeld(store[w], hash, {NoPassword, hash}, Raced(w))
        BY <1>6 DEF Steady
    <2>3. StoreHeld(t, hash, {NoPassword, hash}, Raced(o))
        <3> DEFINE stale == Raced(o)
        <3>1. /\ store[o] \in Store /\ hash \in Password /\ EncodedBy(store[o], hash)
              /\ ~stale /\ store[o].opened => store[o].list \in {Nothing, store[o].disk}
            BY <1>0, <1>2, <1>6, <2>2 DEF StoreHeld, StoreKept
        <3> HIDE DEF stale
        <3>2. StoreHeld(SetPassword(store[o], hash), hash, {hash}, stale)
            BY <3>1, KeptSet
        <3> QED
            BY <1>6, <3>2 DEF StoreHeld, StoreKept, stale
    <2>4. store'[o] = t /\ \A w \in Owner \ {o} : store'[w] = store[w]
        BY <1>0, <1>6, <2>1, BecomesFacts
    <2> HIDE DEF t
    <2>5. \A w \in Owner : Raced(w)' <=> Raced(w)
        BY <1>6 DEF Raced, flocks
    <2>6. ASSUME NEW w \in Owner
          PROVE  StoreHeld(store'[w], hash, {NoPassword, hash}, Raced(w)')
        <3>1. StoreHeld(store'[w], hash, {NoPassword, hash}, Raced(w))
            BY <2>2, <2>3, <2>4
        <3> QED
            BY <2>5, <3>1 DEF StoreHeld
    <2>7. store'["flock"].disk = store["flock"].disk /\ load' = load
        BY <1>4, <1>6, <2>1, <2>4 DEF flocks
    <2> QED
        BY <1>6, <2>6, <2>7 DEF Steady
<1>7. \A o \in Owner : SetPassword(store[o], call[c].new) \in Store
    BY <1>0, <1>2, SetPasswordFacts
<1>8. ASSUME call[c].at \notin SwapStep, UNCHANGED flocks,
             Returns(c) \/ \E step \in LoginStep : Goes(c, step)
      PROVE  LoadsOK'
    <2>1. \A d \in Client \ {c} : call'[d] = call[d]
        BY <1>0, <1>8, GoesFacts, SetFacts, ShapeFacts DEF Returns
    <2> QED
        BY <1>0, <1>8, <2>1, LoadsStay
<1>9. CASE InitMasterPassword(c)
    <2>1. LoadsOK'
        BY <1>3, <1>8, <1>9 DEF InitMasterPassword, At, SwapStep
    <2> QED
        BY <1>0, <1>1, <1>3, <1>5, <1>9, <2>1, LoginStepSound DEF InitMasterPassword
<1>10. CASE KeepPassword(c)
    <2>1. LoadsOK'
        BY <1>3, <1>8, <1>10 DEF KeepPassword, At, SwapStep
    <2> QED
        BY <1>0, <1>1, <1>3, <1>5, <1>10, <2>1, LoginStepSound DEF KeepPassword
<1>11. CASE GiveFlock(c)
    <2>1. store' \in [Owner -> Store]
        BY <1>0, <1>4, <1>7, <1>11, BecomesFacts DEF GiveFlock, TellFlock
    <2>2. call[c].new = hash /\ Steady /\ hash' = hash => Steady'
        BY <1>4, <1>6, <1>11 DEF GiveFlock, TellFlock
    <2>3. LoadsOK'
        BY <1>3, <1>8, <1>11 DEF GiveFlock, TellFlock, At, SwapStep
    <2> QED
        BY <1>1, <1>3, <1>11, <2>1, <2>2, <2>3, LoginStepSound DEF GiveFlock
<1>12. CASE LoadFlock(c)
    <2>1. Loads(c, "loadFlock", "swapFlock", "giveWallet") /\ hash' = hash
          /\ Disturbs(c, FALSE)
        BY <1>12 DEF LoadFlock
    <2>2. /\ \E step \in LoginStep : Goes(c, step)
          /\ LoadsOK' /\ store' \in [Owner -> Store]
          /\ store'["wallet"] = store["wallet"]
        BY <1>0, <1>3, <2>1, LoadsTyped
    <2>3. ASSUME Steady PROVE Steady'
        <3>1. /\ {NoPassword, hash} \subseteq {NoPassword, hash}
              /\ StoreHeld(store["flock"], hash, {NoPassword, hash}, raced)
              /\ \A d \in Client : Fits(load[d], hash, store["flock"].disk)
              /\ StoreHeld(store["wallet"], hash, {NoPassword, hash}, FALSE)
            BY <1>4, <2>3 DEF Steady, Raced, StoreHeld
        <3>2. /\ StoreHeld(store'["flock"], hash, {NoPassword, hash}, raced')
              /\ \A d \in Client : Fits(load'[d], hash, store'["flock"].disk)
            BY <1>0, <2>1, <3>1, LoadsHeld
        <3> QED
            BY <1>4, <2>1, <2>2, <3>1, <3>2 DEF Steady, Raced, StoreHeld
    <2> QED
        BY <1>1, <2>1, <2>2, <2>3, LoginStepSound
<1>13. CASE GiveWallet(c)
    <2>1. store' \in [Owner -> Store]
        BY <1>0, <1>4, <1>7, <1>13, BecomesFacts DEF GiveWallet
    <2>2. call[c].new = hash /\ Steady /\ hash' = hash => Steady'
        BY <1>4, <1>6, <1>13 DEF GiveWallet
    <2>3. LoadsOK'
        BY <1>3, <1>8, <1>13 DEF GiveWallet, At, SwapStep
    <2> QED
        BY <1>1, <1>13, <2>1, <2>2, <2>3, LoginStepSound DEF GiveWallet
<1> QED
    BY <1>9, <1>10, <1>11, <1>12, <1>13 DEF LoginNext

(* Beginning a change: nobody else may be in a call. *)
LEMMA ChangeBeginSound ==
    ASSUME PInv, NEW c \in Client, NEW new \in Password, NEW current \in Password,
           ChangePassword(c, new, current)
    PROVE  PInv'
<1> DEFINE r == [at |-> "wallet", new |-> new, current |-> current]
<1>0. call \in [Client -> Call] /\ store \in [Owner -> Store] /\ LoadsOK
    BY DEF PInv, PasswordTypeOK
<1>1. r \in Call /\ r.at = "wallet" /\ r.current = hash
    BY DEF Call, ChangeStep, ChangePassword
<1>2. call' = [call EXCEPT ![c] = r]
    BY DEF ChangePassword
<1> HIDE DEF r
<1>3. /\ call' \in [Client -> Call] /\ call'[c] = r
      /\ \A d \in Client \ {c} : call'[d] = call[d]
    BY <1>0, <1>1, <1>2, SetFacts
<1>4. PasswordTypeOK' /\ LoadsOK' /\ UNCHANGED <<store, hash, flocks>>
    <2>1. LoadsOK' /\ UNCHANGED <<store, hash, flocks>>
        BY <1>0, <1>3, LoadsStay DEF ChangePassword, Idle, SwapStep
    <2>2. PasswordTypeOK'
        BY <1>3, <2>1 DEF PInv, PasswordTypeOK, LoadsOK, ChangePassword
    <2> QED
        BY <2>1, <2>2
<1>5. SUFFICES ASSUME ~disturbed'
      PROVE  /\ \A d \in Client : LoginSound(d)'
             /\ \A d \in Client : Changing(d)' => ChangeSound(d)'
             /\ (\A d \in Client : ~Changing(d))' => Steady'
    BY <1>4 DEF PInv
<1>6. ~disturbed /\ \A d \in Client : call[d] = Idle
    BY <1>5 DEF ChangePassword, Others
<1>7. Steady
    BY <1>6 DEF PInv, Changing, Idle, ChangeStep
<1>8. \A o \in Owner : Kept(store[o], o, r, hash, Raced(o))
    <2>1. r.at \notin Encoded("wallet") \cup Encoded("flock") \cup Told("wallet") \cup Told("flock")
        BY <1>1 DEF Encoded, Told
    <2> QED
        BY <1>7, <2>1 DEF Steady, Kept, Owner
<1>9. /\ store' = store /\ hash' = hash
      /\ \A o \in Owner : Raced(o)' <=> Raced(o)
      /\ \A o \in Owner : Kept(store'[o], o, r, hash', Raced(o)')
    <2>1. /\ store' = store /\ hash' = hash
          /\ \A o \in Owner : Raced(o)' <=> Raced(o)
        BY <1>4 DEF Raced, flocks
    <2> QED
        BY <1>8, <2>1 DEF Kept, StoreHeld
<1>13. Fits(load'[c], call'[c].new, store'["flock"].disk)
    <2>1. load[c] = NotLoading
        BY <1>0, <1>6 DEF LoadsOK, Idle, SwapStep
    <2> QED
        BY <1>4, <2>1, NotLoadingFacts DEF flocks
<1>10. ChangeSound(c)'
    BY <1>1, <1>3, <1>6, <1>9, <1>13 DEF ChangeSound, Others
<1>11. Changing(c)' /\ \A d \in Client \ {c} : ~Changing(d)'
    BY <1>1, <1>3, <1>6 DEF Changing, Idle, ChangeStep
<1>12. ASSUME NEW d \in Client PROVE LoginSound(d)'
    <2>1. call'[d].at \notin LoginStep
        BY <1>1, <1>3, <1>6 DEF Idle, LoginStep
    <2> QED
        BY <2>1 DEF LoginSound
<1> QED
    BY <1>10, <1>11, <1>12

(* Encoding a store anew: a success carries the change one step on, a      *)
(* failure is in the history.                                              *)
LEMMA EncodesSound ==
    ASSUME PInv, NEW c \in Client, Changing(c), NEW o \in Owner,
           call[c].at \notin SwapStep,
           NEW p \in {call[c].new, call[c].current},
           NEW step \in ChangeStep, NEW failing \in ChangeStep \cup {"none"},
           Encodes(c, o, p, step, failing), UNCHANGED hash,
           ChangeSound(c) =>
               /\ p = call[c].new
               /\ \/ o = "wallet" /\ call[c].at = "wallet" /\ step = "walletPassword"
                  \/ o = "flock" /\ call[c].at = "flock" /\ step = "flockPassword"
    PROVE  PInv'
<1>0. /\ call \in [Client -> Call] /\ store \in [Owner -> Store]
      /\ hash \in Password \cup {NoPassword} /\ LoadsOK
      /\ Owner = {"wallet", "flock"}
    BY DEF PInv, PasswordTypeOK, Owner
<1>1. call[c] \in [at : ChangeStep, new : Password, current : Password]
    BY <1>0, ShapeFacts DEF Changing
<1>2. PICK answer \in ReEncrypt(store[o], p, call[c].current) :
        /\ Operates(c, o, answer)
        /\ IF answer.ok THEN Goes(c, step)
           ELSE IF failing = "none" THEN Returns(c) ELSE Goes(c, failing)
        /\ Disturbs(c, ~answer.ok)
    BY DEF Encodes
<1>3. /\ answer.ok \in BOOLEAN
      /\ answer.store \in Store
      /\ answer.store.password = store[o].password
      /\ answer.ok => /\ answer.store.opened
                      /\ answer.store.list = answer.store.disk
                      /\ EncodedBy(answer.store, p)
    BY <1>0, <1>1, ReEncryptFacts
<1>4. /\ store' \in [Owner -> Store] /\ store'[o] = answer.store
      /\ \A w \in Owner \ {o} : store'[w] = store[w]
    BY <1>0, <1>2, <1>3, BecomesFacts DEF Operates
<1>7. \A d \in Client \ {c} : call'[d] = call[d]
    BY <1>0, <1>2, GoesFacts, SetFacts, ShapeFacts DEF Returns
<1>8. /\ LoadsOK'
      /\ \A q, disk : Fits(load[c], q, disk) => Fits(load'[c], q, disk)
      /\ o # "flock" => UNCHANGED flocks
    BY <1>0, <1>2, <1>7, LoadsOperate
<1>5. CASE answer.ok
    <2> DEFINE r == [call[c] EXCEPT !.at = step]
    <2>1. r.at = step /\ r.new = call[c].new
        BY <1>1
    <2>2. Goes(c, step) /\ Disturbs(c, FALSE)
        BY <1>2, <1>5
    <2> HIDE DEF r
    <2>3. ASSUME ChangeSound(c)
          PROVE  /\ step \notin {"undo", "undoPassword"}
                 /\ \A w \in Owner : Kept(store'[w], w, r, hash, Raced(w)')
                 /\ Fits(load'[c], call[c].new, store'["flock"].disk)
        <3>1. \A w \in Owner : Kept(store[w], w, call[c], hash, Raced(w))
            BY <2>3 DEF ChangeSound
        <3>2. store[o].password \in {NoPassword, hash}
            BY <2>3, <3>1 DEF Kept, StoreHeld, Told
        <3>3. Kept(answer.store, o, r, hash, Raced(o)')
            <4>1. /\ EncodedBy(answer.store, r.new)
                  /\ answer.store.password \in {NoPassword, hash}
                  /\ answer.store.list = answer.store.disk
                BY <1>3, <1>5, <2>1, <2>3, <3>2
            <4>2. r.at \in Encoded(o) /\ r.at \notin Told(o)
                BY <2>1, <2>3 DEF Encoded, Told
            <4> QED
                BY <4>1, <4>2 DEF Kept, StoreHeld, StoreKept
        <3>4. ASSUME NEW w \in Owner \ {o} PROVE Kept(store[w], w, r, hash, Raced(w)')
            <4>1. Raced(w)' <=> Raced(w)
                BY <1>0, <1>8, <3>4 DEF Raced, flocks
            <4>2. /\ r.at \in Encoded(w) <=> call[c].at \in Encoded(w)
                  /\ r.at \in Told(w) <=> call[c].at \in Told(w)
                BY <2>1, <2>3, <3>4 DEF Encoded, Told, Owner
            <4>3. Kept(store[w], w, call[c], hash, Raced(w))
                BY <3>1
            <4> QED
                BY <2>1, <4>1, <4>2, <4>3 DEF Kept, StoreHeld
        <3>5. load[c] = NotLoading
            BY <1>0 DEF LoadsOK
        <3>6. Fits(load'[c], call[c].new, store'["flock"].disk)
            BY <1>8, <3>5, NotLoadingFacts
        <3> QED
            BY <1>4, <2>3, <3>3, <3>4, <3>6
    <2> QED
        BY <1>4, <1>8, <2>2, <2>3, ChangeStepSound DEF r
<1>6. CASE ~answer.ok
    <2>1. Disturbs(c, TRUE)
        BY <1>2, <1>6
    <2>2. CASE Returns(c)
        BY <1>0, <1>4, <1>8, <2>1, <2>2, ChangeEnds
    <2>3. CASE failing # "none" /\ Goes(c, failing)
        <3>1. failing \in ChangeStep
            BY <2>3
        <3> QED
            BY <1>4, <1>8, <2>1, <2>3, <3>1, ChangeStepSound
    <2> QED
        BY <1>2, <1>6, <2>2, <2>3
<1> QED
    BY <1>3, <1>5, <1>6

(* Telling a store its new password. *)
LEMMA TellsSound ==
    ASSUME PInv, NEW c \in Client, Changing(c), NEW o \in Owner, NEW step \in ChangeStep,
           Becomes(o, SetPassword(store[o], call[c].new)),
           Goes(c, step), Disturbs(c, FALSE), UNCHANGED <<hash, flocks>>,
           \/ o = "wallet" /\ call[c].at = "walletPassword" /\ step = "flock"
           \/ o = "flock" /\ call[c].at = "flockPassword" /\ step = "flockLoad"
    PROVE  PInv'
<1>0. call \in [Client -> Call] /\ store \in [Owner -> Store] /\ LoadsOK
    BY DEF PInv, PasswordTypeOK
<1>1. call[c] \in [at : ChangeStep, new : Password, current : Password]
    BY <1>0, ShapeFacts DEF Changing
<1> DEFINE s == SetPassword(store[o], call[c].new)
           r == [call[c] EXCEPT !.at = step]
           new == call[c].new
<1>2. s \in Store /\ s.disk = store[o].disk
    BY <1>0, <1>1, SetPasswordFacts
<1>3. /\ store' \in [Owner -> Store] /\ store'[o] = s
      /\ \A w \in Owner \ {o} : store'[w] = store[w]
    BY <1>0, <1>2, BecomesFacts
<1>4. r.at = step /\ r.new = new
    BY <1>1
<1>5. LoadsOK' /\ call[c].at \notin SwapStep
    <2>1. \A d \in Client \ {c} : call'[d] = call[d]
        BY <1>0, GoesFacts
    <2>2. call[c].at \notin SwapStep
        BY DEF SwapStep
    <2> QED
        BY <1>0, <2>1, <2>2, LoadsStay
<1> HIDE DEF r
<1>6. ASSUME ChangeSound(c)
      PROVE  /\ step \notin {"undo", "undoPassword"}
             /\ \A w \in Owner : Kept(store'[w], w, r, hash, Raced(w)')
             /\ Fits(load'[c], call[c].new, store'["flock"].disk)
    <2>1. \A w \in Owner : Kept(store[w], w, call[c], hash, Raced(w))
        BY <1>6 DEF ChangeSound
    <2>2. \A w \in Owner : Raced(w)' <=> Raced(w)
        BY DEF Raced, flocks
    <2>3. StoreHeld(s, new, {new}, Raced(o)')
        <3> DEFINE stale == Raced(o)'
        <3>1. /\ EncodedBy(store[o], new)
              /\ ~stale /\ store[o].opened => store[o].list \in {Nothing, store[o].disk}
            BY <2>1, <2>2 DEF Kept, StoreHeld, StoreKept, Encoded
        <3>2. store[o] \in Store /\ new \in Password
            BY <1>0, <1>1
        <3> HIDE DEF stale, new
        <3>3. StoreHeld(SetPassword(store[o], new), new, {new}, stale)
            BY <3>1, <3>2, KeptSet
        <3> QED
            BY <3>3 DEF stale, new
    <2>4. Kept(s, o, r, hash, Raced(o)')
        <3>1. r.at \in Encoded(o) /\ r.at \in Told(o)
            BY <1>4 DEF Encoded, Told
        <3> QED
            BY <1>4, <2>3, <3>1 DEF Kept
    <2>5. ASSUME NEW w \in Owner \ {o} PROVE Kept(store[w], w, r, hash, Raced(w)')
        <3>1. /\ r.at \in Encoded(w) <=> call[c].at \in Encoded(w)
              /\ r.at \in Told(w) <=> call[c].at \in Told(w)
            BY <1>4, <2>5 DEF Encoded, Told, Owner
        <3>2. Kept(store[w], w, call[c], hash, Raced(w)) /\ (Raced(w)' <=> Raced(w))
            BY <2>1, <2>2
        <3> QED
            BY <1>4, <3>1, <3>2 DEF Kept, StoreHeld
    <2>6. load'[c] = NotLoading
        BY <1>0, <1>5 DEF LoadsOK, flocks
    <2> QED
        BY <1>3, <2>4, <2>5, <2>6, NotLoadingFacts
<1> HIDE DEF s
<1> QED
    BY <1>3, <1>5, <1>6, ChangeStepSound DEF r

(* Loading it. *)
LEMMA FlockLoadSound ==
    ASSUME PInv, NEW c \in Client, FlockLoad(c)
    PROVE  PInv'
<1>0. /\ call \in [Client -> Call] /\ store \in [Owner -> Store] /\ LoadsOK
      /\ Owner = {"wallet", "flock"}
    BY DEF PInv, PasswordTypeOK, Owner
<1>1. /\ {"flockLoad", "flockSwap", "hash"} \subseteq ChangeStep
      /\ "flockLoad" \notin SwapStep /\ "flockSwap" \in SwapStep
    BY DEF ChangeStep, SwapStep
<1>2. /\ Loads(c, "flockLoad", "flockSwap", "hash")
      /\ Disturbs(c, FALSE) /\ hash' = hash
    BY DEF FlockLoad
<1>3. PICK step \in {"flockLoad", "flockSwap", "hash"} : Goes(c, step)
    BY <1>0, <1>1, <1>2, LoadsTyped
<1>4. /\ call[c].at \in {"flockLoad", "flockSwap"}
      /\ LoadsOK' /\ store' \in [Owner -> Store]
      /\ store'["wallet"] = store["wallet"]
    BY <1>0, <1>1, <1>2, LoadsTyped
<1>5. Changing(c)
    BY <1>1, <1>4 DEF Changing
<1>6. call[c] \in [at : ChangeStep, new : Password, current : Password]
    BY <1>0, <1>5, ShapeFacts DEF Changing
<1> DEFINE r == [call[c] EXCEPT !.at = step]
           new == call[c].new
<1>7. r.at = step /\ r.new = new
    BY <1>6
<1> HIDE DEF r
<1>8. ASSUME ChangeSound(c)
      PROVE  /\ step \notin {"undo", "undoPassword"}
             /\ \A w \in Owner : Kept(store'[w], w, r, hash, Raced(w)')
             /\ Fits(load'[c], new, store'["flock"].disk)
    <2>1. \A w \in Owner : call[c].at \in Encoded(w) \cap Told(w)
                           /\ r.at \in Encoded(w) \cap Told(w)
        BY <1>4, <1>7 DEF Encoded, Told
    <2>2. /\ StoreHeld(store["flock"], new, {new}, raced)
          /\ StoreHeld(store["wallet"], new, {new}, FALSE)
        BY <1>0, <1>8, <2>1 DEF ChangeSound, Kept, Raced, StoreHeld
    <2>3. ASSUME NEW d \in Client PROVE Fits(load[d], new, store["flock"].disk)
        <3>1. CASE d = c
            BY <1>8, <3>1 DEF ChangeSound
        <3>2. CASE d # c
            <4>1. call[d] = Idle
                BY <1>8, <3>2 DEF ChangeSound, Others
            <4>2. load[d] = NotLoading
                BY <1>0, <4>1 DEF LoadsOK, Idle, SwapStep
            <4> QED
                BY <4>2, NotLoadingFacts
        <3> QED
            BY <3>1, <3>2
    <2>4. {new} \subseteq {NoPassword, new}
        OBVIOUS
    <2> HIDE DEF new
    <2>5. /\ StoreHeld(store'["flock"], new, {new}, raced')
          /\ \A d \in Client : Fits(load'[d], new, store'["flock"].disk)
        BY <1>0, <1>2, <2>2, <2>3, <2>4, LoadsHeld
    <2>6. ASSUME NEW w \in Owner PROVE StoreHeld(store'[w], new, {new}, Raced(w)')
        BY <1>0, <1>4, <2>2, <2>5 DEF Raced, StoreHeld
    <2>7. \A w \in Owner : Kept(store'[w], w, r, hash, Raced(w)')
        BY <1>7, <2>1, <2>6 DEF Kept
    <2> QED
        BY <2>5, <2>7
<1> QED
    BY <1>1, <1>2, <1>3, <1>4, <1>5, <1>8, ChangeStepSound DEF r

(* The steps of a change. *)
LEMMA ChangeNextSound ==
    ASSUME PInv, NEW c \in Client, ChangeNext(c)
    PROVE  PInv'
<1>0. /\ call \in [Client -> Call] /\ store \in [Owner -> Store]
      /\ hash \in Password \cup {NoPassword} /\ LoadsOK
    BY DEF PInv, PasswordTypeOK
<1>1. Changing(c)
    BY DEF ChangeNext, ReEncryptWallet, WalletPassword, ReEncryptFlock, FlockPassword,
           FlockLoad, Loads, Read, NoMapping, Remap, Swap, NewHash, UndoWallet,
           UndoPassword, At, Changing, ChangeStep
<1>2. call[c] \in [at : ChangeStep, new : Password, current : Password]
    BY <1>0, <1>1, ShapeFacts DEF Changing
<1>3. Owner = {"wallet", "flock"}
    BY DEF Owner
<1>4. /\ ChangeStep = {"wallet", "walletPassword", "flock", "flockPassword", "flockLoad",
                       "flockSwap", "hash", "undo", "undoPassword"}
      /\ SwapStep = {"swapFlock", "flockSwap"}
    BY DEF ChangeStep, SwapStep
<1>5. CASE ReEncryptWallet(c)
    BY <1>1, <1>3, <1>4, <1>5, EncodesSound DEF ReEncryptWallet, At
<1>6. CASE WalletPassword(c)
    BY <1>1, <1>3, <1>4, <1>6, TellsSound DEF WalletPassword, At
<1>7. CASE ReEncryptFlock(c)
    BY <1>1, <1>3, <1>4, <1>7, EncodesSound DEF ReEncryptFlock, At
<1>8. CASE FlockPassword(c)
    BY <1>1, <1>3, <1>4, <1>8, TellsSound DEF FlockPassword, TellFlock, At
<1>9. CASE FlockLoad(c)
    BY <1>9, FlockLoadSound
<1>13. ASSUME Returns(c), UNCHANGED flocks, call[c].at \notin SwapStep PROVE LoadsOK'
    <2>1. \A d \in Client \ {c} : call'[d] = call[d]
        BY <1>0, <1>13, SetFacts, ShapeFacts DEF Returns
    <2> QED
        BY <1>0, <1>13, <2>1, LoadsStay
<1>10. CASE NewHash(c)
    <2>0. call[c].at = "hash" /\ UNCHANGED <<store, flocks>> /\ hash' = call[c].new
        BY <1>10 DEF NewHash, At
    <2>1. ASSUME ChangeSound(c) PROVE Steady'
        <3>1. \A o \in Owner : "hash" \in Encoded(o) /\ "hash" \in Told(o)
            BY DEF Encoded, Told
        <3>2. \A o \in Owner :
                  StoreHeld(store[o], call[c].new, {call[c].new}, Raced(o))
            BY <2>0, <2>1, <3>1 DEF ChangeSound, Kept
        <3>3. \A o \in Owner : Raced(o)' <=> Raced(o)
            BY <2>0 DEF Raced, flocks
        <3>4. ASSUME NEW o \in Owner
              PROVE  StoreHeld(store'[o], hash', {NoPassword, hash'}, Raced(o)')
            BY <2>0, <3>2, <3>3 DEF StoreHeld, StoreKept
        <3>5. ASSUME NEW d \in Client PROVE load'[d] = NotLoading
            <4>1. call[d].at \notin SwapStep
                BY <1>4, <2>0, <2>1 DEF ChangeSound, Others, Idle
            <4> QED
                BY <1>0, <2>0, <4>1 DEF LoadsOK, flocks
        <3> QED
            BY <3>4, <3>5, NotLoadingFacts DEF Steady
    <2>2. hash' \in Password \cup {NoPassword} /\ store' \in [Owner -> Store]
        BY <1>0, <1>2, <2>0
    <2>3. LoadsOK'
        BY <1>4, <1>10, <1>13, <2>0 DEF NewHash
    <2> QED
        BY <1>1, <1>10, <2>1, <2>2, <2>3, ChangeEnds DEF NewHash
<1>11. CASE UndoWallet(c)
    <2>1. ~ChangeSound(c)
        BY <1>11 DEF UndoWallet, At, ChangeSound
    <2> QED
        BY <1>1, <1>3, <1>4, <1>11, <2>1, EncodesSound DEF UndoWallet, At
<1>12. CASE UndoPassword(c)
    <2>1. ~ChangeSound(c)
        BY <1>12 DEF UndoPassword, At, ChangeSound
    <2>2. store' \in [Owner -> Store] /\ hash' = hash
        BY <1>0, <1>2, <1>3, <1>12, SetPasswordFacts, BecomesFacts DEF UndoPassword
    <2>3. LoadsOK'
        BY <1>4, <1>12, <1>13 DEF UndoPassword, At
    <2> QED
        BY <1>0, <1>1, <1>12, <2>1, <2>2, <2>3, ChangeEnds DEF UndoPassword
<1> QED
    BY <1>5, <1>6, <1>7, <1>8, <1>9, <1>10, <1>11, <1>12 DEF ChangeNext

(* The end of a write, as it was or reported as failed. *)
LEMMA FlushEndsSound ==
    ASSUME PInv, NEW c \in Client, FlushEnds(c)
    PROVE  PInv'
<1>0. call \in [Client -> Call] /\ store \in [Owner -> Store] /\ LoadsOK
    BY DEF PInv, PasswordTypeOK
<1>1. /\ writing' = Nobody /\ UNCHANGED <<store, hash, load, raced>>
    BY DEF FlushEnds
<1>2. CASE UNCHANGED <<call, disturbed>>
    <2>1. LoadsOK' /\ PasswordTypeOK'
        BY <1>0, <1>1, <1>2 DEF LoadsOK, PInv, PasswordTypeOK
    <2> QED
        BY <1>1, <1>2, <2>1 DEF PInv, LoginSound, Changing, ChangeSound, Steady, Kept,
           Others, Raced
<1>3. CASE At(c, "flockPassword") /\ Goes(c, "undo") /\ Disturbs(c, TRUE)
    <2>1. /\ "undo" \in ChangeStep /\ Changing(c) /\ call[c].at \notin SwapStep
        BY <1>3 DEF ChangeStep, Changing, At, SwapStep
    <2>2. \A d \in Client \ {c} : call'[d] = call[d]
        BY <1>0, <1>3, GoesFacts
    <2>3. LoadsOK'
        BY <1>0, <1>1, <2>1, <2>2 DEF LoadsOK
    <2>4. store' \in [Owner -> Store]
        BY <1>0, <1>1
    <2> QED
        BY <1>1, <1>3, <2>1, <2>3, <2>4, ChangeStepSound
<1> QED
    BY <1>2, <1>3 DEF FlushEnds

(* A new process.  A death in a change is in the history. *)
LEMMA RestartSound == ASSUME PInv, Restart PROVE PInv'
<1>0. call \in [Client -> Call] /\ store \in [Owner -> Store] /\ LoadsOK
    BY DEF PInv, PasswordTypeOK
<1>1. PICK opens \in [Owner -> BOOLEAN] :
          store' = [o \in Owner |-> Reborn(store[o], opens[o])]
    BY DEF Restart
<1>2. \A o \in Owner : Reborn(store[o], opens[o]) \in Store
    BY <1>0, RebornFacts
<1>3. store' \in [Owner -> Store]
    BY <1>1, <1>2
<1>4. call' \in [Client -> Call] /\ \A c \in Client : call'[c] = Idle
    BY DEF Restart, Call
<1>5. PasswordTypeOK' /\ LoadsOK' /\ (\A c \in Client : load'[c] = NotLoading)
    <2>1. /\ \A c \in Client : load'[c] = NotLoading
          /\ load' \in [Client -> UnlockedLoad]
          /\ writing' = Nobody /\ raced' = FALSE
        BY NotLoadingFacts DEF Restart
    <2> QED
        BY <1>3, <1>4, <2>1, NotLoadingFacts DEF PInv, PasswordTypeOK, LoadsOK, Restart
<1>6. Idle.at \notin LoginStep \cup ChangeStep
    BY DEF Idle, LoginStep, ChangeStep
<1>7. ASSUME ~disturbed' PROVE Steady'
    <2>1. Steady
        BY <1>7 DEF Restart, PInv
    <2>2. ASSUME NEW o \in Owner
          PROVE  StoreHeld(store'[o], hash, {NoPassword, hash}, Raced(o)')
        <3> DEFINE stale == Raced(o)'
        <3>1. store[o] \in Store /\ EncodedBy(store[o], hash) /\ opens[o] \in BOOLEAN
            BY <1>0, <2>1 DEF Steady, StoreHeld
        <3> HIDE DEF stale
        <3>2. StoreHeld(Reborn(store[o], opens[o]), hash, {NoPassword, hash}, stale)
            BY <3>1, KeptReborn
        <3> QED
            BY <1>1, <3>2 DEF stale
    <2> QED
        BY <1>5, <2>2, NotLoadingFacts DEF Steady, Restart
<1> QED
    BY <1>4, <1>5, <1>6, <1>7 DEF PInv, Changing, LoginSound

(* The calls that are one operation of a store, and have its outcomes. *)
LEMMA StoreCallOutcome ==
    ASSUME PInv, NEW c \in Client, StoreCall(c)
    PROVE  \E o \in Owner : \E answers :
               /\ Entrust(c, answers, o)
               /\ \A a \in answers : \A q : Outcome(store[o], a, q)
<1> DEFINE Fine == \E o \in Owner : \E answers :
                      Entrust(c, answers, o) /\ \A a \in answers : \A q : Outcome(store[o], a, q)
<1>0. \A o \in Owner : store[o] \in Store
    BY DEF PInv, PasswordTypeOK
<1>1. Owner = {"wallet", "flock"}
    BY DEF Owner
<1>2. ASSUME NEW k \in Key, RemoveCard(c, k) \/ RemoveFlock(c, k) PROVE Fine
    <2>1. \A o \in Owner : \A a \in Remove(store[o], k) : \A q : Outcome(store[o], a, q)
        BY <1>0, RemoveOutcome
    <2> QED
        BY <1>1, <1>2, <2>1 DEF RemoveCard, RemoveFlock
<1>3. ASSUME NEW k \in Key, NEW v \in Value, ChangeFlock(c, k, v) PROVE Fine
    <2>1. \A o \in Owner : \A a \in Change(store[o], k, v) : \A q : Outcome(store[o], a, q)
        BY <1>0, ChangeOutcome
    <2> QED
        BY <1>1, <1>3, <2>1 DEF ChangeFlock
<1>4. ASSUME NEW k \in Key, NEW v \in Value, NEW o \in Owner, AddEntry(c, o, k, v)
      PROVE  Fine
    <2>1. (o = "flock") \in BOOLEAN
        OBVIOUS
    <2>2. \A a \in Add(store[o], k, v, o = "flock") : \A q : Outcome(store[o], a, q)
        BY <1>0, <2>1, AddOutcome
    <2> QED
        BY <1>4, <2>2 DEF AddEntry
<1>5. CASE ClearWallet(c)
    <2>1. \A o \in Owner : \A a \in ClearFile(store[o]) : \A q : Outcome(store[o], a, q)
        BY <1>0, ClearFileOutcome
    <2> QED
        BY <1>1, <1>5, <2>1 DEF ClearWallet
<1>6. CASE ClearFlocks(c)
    <2>1. \A o \in Owner : \A a \in ClearList(store[o]) : \A q : Outcome(store[o], a, q)
        BY <1>0, ClearListOutcome
    <2> QED
        BY <1>1, <1>6, <2>1 DEF ClearFlocks
<1>7. CASE ReadCards(c)
    <2> DEFINE w == store["wallet"]
               answers == IfOk(w, Refuse(Checked(w)))
    <2>1. w \in Store
        BY <1>0, <1>1
    <2>2. ASSUME NEW a \in answers, NEW q PROVE Outcome(w, a, q)
        BY <2>1, <2>2, RefuseOutcome DEF IfOk
    <2> QED
        BY <1>1, <1>7, <2>2 DEF ReadCards
<1> QED
    BY <1>1, <1>2, <1>3, <1>4, <1>5, <1>6, <1>7, KeyAssumption DEF StoreCall

(* Every step keeps the invariant. *)
LEMMA NextSound == PInv /\ [Next]_vars => PInv'
<1> SUFFICES ASSUME PInv, [Next]_vars PROVE PInv'
    OBVIOUS
<1>1. ASSUME NEW c \in Client, StoreCall(c) PROVE PInv'
    BY <1>1, StoreCallOutcome, EntrustSound
<1>2. ASSUME NEW c \in Client, NEW p \in Password, HasNoHash(c, p) \/ Login(c, p)
      PROVE  PInv'
    BY <1>2, FirstSound, LoginBeginSound
<1>3. ASSUME NEW c \in Client, NEW new \in Password, NEW current \in Password,
             ChangePassword(c, new, current)
      PROVE  PInv'
    BY <1>3, ChangeBeginSound
<1>4. ASSUME NEW c \in Client, FirstPassword(c) \/ LoginNext(c) \/ ChangeNext(c)
      PROVE  PInv'
    BY <1>4, FirstSound, LoginNextSound, ChangeNextSound
<1>7. ASSUME NEW c \in Client, FlushEnds(c) PROVE PInv'
    BY <1>7, FlushEndsSound
<1>5. CASE Restart
    BY <1>5, RestartSound
<1>6. CASE UNCHANGED vars
    BY <1>6 DEF vars, flocks, PInv, PasswordTypeOK, LoadsOK, LoginSound, Changing,
                ChangeSound, Steady, Kept, Others, Raced
<1> QED
    BY <1>1, <1>2, <1>3, <1>4, <1>5, <1>6, <1>7 DEF Next

-----------------------------------------------------------------------------
(* The stores, the hash and the calls have their types.                    *)
THEOREM PasswordTypeCorrect == Spec => []PasswordTypeOK
<1>1. PInv => PasswordTypeOK
    BY DEF PInv
<1> QED
    BY <1>1, InitSound, NextSound, PTL DEF Spec

(* "Decodes data with current password and encodes with new password.":    *)
(* between calls every entry of both files can be decoded with the         *)
(* password the hash stands for, if no change was disturbed.               *)
THEOREM AllEntriesReadable == Spec => []EntriesReadable
<1>1. PInv => EntriesReadable
    BY DEF PInv, EntriesReadable, Steady, StoreHeld, EncodedBy, IsBy
<1> QED
    BY <1>1, InitSound, NextSound, PTL DEF Spec

(* What a client is shown is in the file, if no change was disturbed; of   *)
(* the locked objects, if the last to touch their list was no load that    *)
(* overlapped a write.                                                     *)
THEOREM ShownIsStored == Spec => []ListIsOnDisk
<1>1. ASSUME PInv, ~disturbed, NEW o \in Owner, ~Raced(o)
      PROVE  store[o].opened => store[o].list \in {Nothing, store[o].disk}
    <2>1. CASE \A c \in Client : ~Changing(c)
        BY <1>1, <2>1 DEF PInv, Steady, StoreHeld, StoreKept
    <2>2. CASE \E c \in Client : Changing(c)
        BY <1>1, <2>2 DEF PInv, ChangeSound, Kept, StoreHeld, StoreKept
    <2> QED
        BY <2>1, <2>2
<1>2. PInv => ListIsOnDisk
    BY <1>1 DEF ListIsOnDisk
<1> QED
    BY <1>2, InitSound, NextSound, PTL DEF Spec

-----------------------------------------------------------------------------
(* The entry with key k is still in the file, or a write has failed. *)
Survives(s, t, k) ==
    s.disk[k] # NoEntry => t.disk[k] # NoEntry \/ (s.opened /\ ~t.opened)

(* A store that knows its password works on all of its file. *)
LEMMA CheckedIsDisk ==
    ASSUME NEW s \in Store, NEW q, StoreKept(s, q, {NoPassword, q}),
           s.opened, s.password # NoPassword
    PROVE  Checked(s).list = s.disk
<1>1. s.password = q /\ s.disk \in Contents /\ IsBy(s.disk, q)
    BY DEF StoreKept, EncodedBy, Store
<1>2. Readable(s.disk, s.password) = s.disk
    BY <1>1, ReadableFacts
<1>3. CASE s.list = Nothing
    BY <1>2, <1>3 DEF Checked, Loaded, Store
<1>4. CASE s.list # Nothing
    BY <1>4 DEF Checked, StoreKept
<1> QED
    BY <1>3, <1>4

(* After a write the file is the new list. *)
LEMMA WriteSurvives ==
    ASSUME NEW s \in Store, s.opened, NEW L \in Contents, NEW after \in Contents,
           NEW a \in Flush([Checked(s) EXCEPT !.list = L], after),
           NEW k, s.disk[k] # NoEntry => L[k] # NoEntry
    PROVE  Survives(s, a.store, k)
<1> DEFINE new == [Checked(s) EXCEPT !.list = L]
<1>1. new \in Store /\ new.list = L
    BY CheckedFacts DEF Store
<1> HIDE DEF new
<1>2. \/ a.ok /\ a.store = [new EXCEPT !.disk = new.list]
      \/ ~a.ok /\ ~a.store.opened
    BY <1>1, FlushFacts DEF new
<1>3. CASE a.store = [new EXCEPT !.disk = new.list]
    BY <1>1, <1>3 DEF Survives, Store
<1> QED
    BY <1>2, <1>3 DEF Survives

(* A refusal leaves the file. *)
LEMMA RefuseSurvives ==
    ASSUME NEW s \in Store, NEW k,
           NEW a \in Refuse(s) \cup (IF s.opened THEN Refuse(Checked(s)) ELSE {})
    PROVE  Survives(s, a.store, k)
<1>1. a.store = s \/ a.store = Checked(s)
    BY DEF Refuse, Answer
<1> QED
    BY <1>1, CheckedFacts DEF Survives

(* An operation that is not asked to remove an entry leaves it. *)
LEMMA OperationsKeep ==
    ASSUME NEW s \in Store, NEW q, StoreKept(s, q, {NoPassword, q}),
           s.password # NoPassword, NEW j \in Key, NEW k \in Key, NEW v \in Value,
           NEW kept \in BOOLEAN
    PROVE  /\ \A a \in Add(s, j, v, kept) : Survives(s, a.store, k)
           /\ \A a \in Change(s, j, v) : Survives(s, a.store, k)
<1> DEFINE c == Checked(s)
           x == [by |-> s.password, value |-> v]
           L == [c.list EXCEPT ![j] = x]
<1>0. c \in Store /\ c.password = s.password /\ (s.opened => c.list = s.disk)
    BY CheckedFacts, CheckedIsDisk
<1>1. c.list \in Contents /\ L \in Contents
    BY <1>0, PutFacts DEF Store
<1>2. x # NoEntry
    BY DEF NoEntry
<1>3. s.opened => (s.disk[k] # NoEntry => L[k] # NoEntry)
    BY <1>0, <1>1, <1>2 DEF Contents
<1>4. [c EXCEPT !.list[j] = [by |-> c.password, value |-> v]] = [c EXCEPT !.list = L]
      /\ [c EXCEPT !.list = L].list = L
    BY <1>0 DEF Store
<1>5. ASSUME NEW a \in Add(s, j, v, kept) PROVE Survives(s, a.store, k)
    <2>1. \/ a \in Refuse(s) \cup (IF s.opened THEN Refuse(c) ELSE {})
          \/ s.opened /\ a \in Flush([c EXCEPT !.list = L], IF kept THEN L ELSE c.list)
        BY <1>4, <1>5 DEF Add, IfOk
    <2>2. (IF kept THEN L ELSE c.list) \in Contents
        BY <1>1
    <2> HIDE DEF L, c
    <2>3. CASE a \in Refuse(s) \cup (IF s.opened THEN Refuse(c) ELSE {})
        BY <2>3, RefuseSurvives DEF c
    <2>4. CASE s.opened /\ a \in Flush([c EXCEPT !.list = L],
                                       IF kept THEN L ELSE c.list)
        BY <1>1, <1>3, <2>2, <2>4, WriteSurvives DEF c
    <2> QED
        BY <2>1, <2>3, <2>4
<1>6. ASSUME NEW a \in Change(s, j, v) PROVE Survives(s, a.store, k)
    <2>1. \/ a \in Refuse(s) \cup (IF s.opened THEN Refuse(c) ELSE {})
          \/ s.opened /\ a \in Flush([c EXCEPT !.list = L], L)
        BY <1>4, <1>6 DEF Change, IfOk
    <2> HIDE DEF L, c
    <2>2. CASE a \in Refuse(s) \cup (IF s.opened THEN Refuse(c) ELSE {})
        BY <2>2, RefuseSurvives DEF c
    <2>3. CASE s.opened /\ a \in Flush([c EXCEPT !.list = L], L)
        BY <1>1, <1>3, <2>3, WriteSurvives DEF c
    <2> QED
        BY <2>1, <2>2, <2>3
<1> QED
    BY <1>5, <1>6

LEMMA RemoveKeepsOthers ==
    ASSUME NEW s \in Store, NEW q, StoreKept(s, q, {NoPassword, q}),
           s.password # NoPassword, NEW j \in Key, NEW k \in Key \ {j},
           NEW a \in Remove(s, j)
    PROVE  Survives(s, a.store, k)
<1> DEFINE c == Checked(s)
           L == [c.list EXCEPT ![j] = NoEntry]
<1>0. c \in Store /\ (s.opened => c.list = s.disk)
    BY CheckedFacts, CheckedIsDisk
<1>1. c.list \in Contents
    BY <1>0 DEF Store
<1>2. L \in Contents
    BY <1>1 DEF Contents
<1>3. s.opened => (s.disk[k] # NoEntry => L[k] # NoEntry)
    BY <1>0, <1>1 DEF Contents
<1>4. [c EXCEPT !.list[j] = NoEntry] = [c EXCEPT !.list = L]
      /\ [c EXCEPT !.list = L].list = L
    BY <1>0 DEF Store
<1>5. CASE ~s.opened
    BY <1>5, RefuseSurvives DEF Remove, IfOk
<1>6. CASE s.opened
    <2>1. a \in Flush([c EXCEPT !.list = L], L)
        BY <1>4, <1>6 DEF Remove, IfOk
    <2> HIDE DEF L, c
    <2> QED
        BY <1>2, <1>3, <1>6, <2>1, WriteSurvives DEF c
<1> QED
    BY <1>5, <1>6

(* So does an encoding with a new password, if all can be decoded. *)
LEMMA ReEncryptKeeps ==
    ASSUME NEW s \in Store, NEW q \in Password, StoreKept(s, q, {NoPassword, q}),
           s.password # NoPassword, NEW new \in Password, NEW k \in Key,
           NEW a \in ReEncrypt(s, new, q)
    PROVE  Survives(s, a.store, k)
<1> DEFINE c == Checked(s)
           L == Reencoded(c.list, new, q)
<1>0. c \in Store /\ (s.opened => c.list = s.disk)
    BY CheckedFacts, CheckedIsDisk
<1>1. c.list \in Contents
    BY <1>0 DEF Store
<1>2. ASSUME NEW i \in Key, c.list[i].by = q
      PROVE  [c.list[i] EXCEPT !.by = new] \in Entry \ {NoEntry}
    <2>0. c.list[i] \in Entry \cup {NoEntry} /\ q # NoPassword
        BY <1>1, StoreAssumption DEF Contents
    <2>1. c.list[i] \in Entry
        BY <1>2, <2>0, EntryFacts
    <2>2. [c.list[i] EXCEPT !.by = new] \in Entry
          /\ [c.list[i] EXCEPT !.by = new].by # NoPassword
        BY <2>1, StoreAssumption DEF Entry
    <2> QED
        BY <2>2 DEF NoEntry
<1>3. L \in Contents
    BY <1>2 DEF Reencoded, Contents
<1>4. s.opened => (s.disk[k] # NoEntry => L[k] # NoEntry)
    <2> SUFFICES ASSUME s.opened, s.disk[k] # NoEntry PROVE L[k] # NoEntry
        OBVIOUS
    <2>1. c.list[k] \in Entry \cup {NoEntry} /\ c.list[k] = s.disk[k]
        BY <1>0, <1>1 DEF Contents
    <2>2. s.disk[k].by \in {q, NoPassword} /\ s.disk[k].by # NoPassword
        BY <2>1, EntryFacts DEF StoreKept, EncodedBy, IsBy
    <2> QED
        BY <1>2, <2>1, <2>2 DEF Reencoded
<1>5. [c EXCEPT !.list = Reencoded(@, new, q)] = [c EXCEPT !.list = L]
    BY <1>0 DEF Store
<1>6. CASE ~s.opened
    BY <1>6, RefuseSurvives DEF ReEncrypt, IfOk
<1>7. CASE s.opened
    <2>1. a \in Flush([c EXCEPT !.list = L], c.list)
        BY <1>5, <1>7 DEF ReEncrypt, IfOk
    <2> HIDE DEF L, c
    <2> QED
        BY <1>1, <1>3, <1>4, <1>7, <2>1, WriteSurvives DEF c
<1> QED
    BY <1>6, <1>7

-----------------------------------------------------------------------------
(* A load of the locked objects touches their file under a write only, and *)
(* opens nothing.                                                          *)
LEMMA LoadKeepsFile ==
    ASSUME PInv, NEW c \in Client, LoadFlock(c) \/ FlockLoad(c), NEW o \in Owner
    PROVE  /\ ~store[o].opened =>
                 ~store'[o].opened /\ store'[o].disk = store[o].disk
           /\ (o = "flock" => ~raced') => store'[o].disk = store[o].disk
<1>0. /\ LoadsOK /\ call \in [Client -> Call] /\ store \in [Owner -> Store]
      /\ Owner = {"wallet", "flock"}
    BY DEF PInv, PasswordTypeOK, Owner
<1>1. CASE LoadFlock(c)
    <2>1. /\ "swapFlock" \in SwapStep /\ "loadFlock" \notin SwapStep
          /\ {"loadFlock", "swapFlock", "giveWallet"} \subseteq LoginStep
        BY DEF SwapStep, LoginStep
    <2>2. Loads(c, "loadFlock", "swapFlock", "giveWallet")
        BY <1>1 DEF LoadFlock
    <2> QED
        BY <1>0, <2>1, <2>2, LoadsTyped
<1>2. CASE FlockLoad(c)
    <2>1. /\ "flockSwap" \in SwapStep /\ "flockLoad" \notin SwapStep
          /\ {"flockLoad", "flockSwap", "hash"} \subseteq ChangeStep
        BY DEF SwapStep, ChangeStep
    <2>2. Loads(c, "flockLoad", "flockSwap", "hash")
        BY <1>2 DEF FlockLoad
    <2> QED
        BY <1>0, <2>1, <2>2, LoadsTyped
<1> QED
    BY <1>1, <1>2

(* A step takes an entry out of a file for the named reasons only. *)
LEMMA StepSurvives ==
    ASSUME PInv, [Next]_vars, ~disturbed', NEW o \in Owner, NEW k \in Key,
           store[o].password # NoPassword, ~Asked(o, k), ~Raced(o), ~(Raced(o)')
    PROVE  Survives(store[o], store'[o], k)
<1>0. /\ call \in [Client -> Call] /\ store \in [Owner -> Store]
      /\ Owner = {"wallet", "flock"}
    BY DEF PInv, PasswordTypeOK, Owner
<1>1. ASSUME store'[o].disk = store[o].disk PROVE Survives(store[o], store'[o], k)
    BY <1>1 DEF Survives
<1>2. ASSUME NEW w \in Owner, NEW s \in Store, Becomes(w, s),
             w = o => Survives(store[o], s, k)
      PROVE  Survives(store[o], store'[o], k)
    <2>1. store'[w] = s /\ \A p \in Owner \ {w} : store'[p] = store[p]
        BY <1>0, <1>2, BecomesFacts
    <2>2. CASE w = o
        BY <1>2, <2>1, <2>2
    <2>3. CASE w # o
        BY <1>1, <2>1, <2>3
    <2> QED
        BY <2>2, <2>3
<1>3. ASSUME NEW c \in Client, NEW w \in Owner, NEW answers, Entrust(c, answers, w),
             \A a \in answers : \A q : Outcome(store[w], a, q),
             \A a \in answers : w = o => Survives(store[o], a.store, k)
      PROVE  Survives(store[o], store'[o], k)
    <2>1. PICK a \in answers : Becomes(w, a.store)
        BY <1>3 DEF Entrust, Operates
    <2>2. a.store \in Store
        BY <1>3 DEF Outcome
    <2> QED
        BY <1>2, <1>3, <2>1, <2>2
<1>4. ASSUME NEW c \in Client, StoreCall(c) PROVE Survives(store[o], store'[o], k)
    <2>1. ~disturbed /\ \A d \in Client : ~Changing(d)
        <3>1. call[c] = Idle /\ Disturbs(c, FALSE)
            BY <1>4 DEF StoreCall, RemoveCard, RemoveFlock, ChangeFlock, AddEntry,
                        ClearWallet, ClearFlocks, ReadCards, Entrust
        <3>2. ~Changing(c)
            BY <3>1 DEF Changing, Idle, ChangeStep
        <3>3. ~disturbed /\ \A d \in Others(c) : ~Changing(d)
            BY <3>1 DEF Disturbs, Overlaps
        <3> QED
            BY <3>2, <3>3 DEF Others
    <2>2. /\ \A w \in Owner : store[w] \in Store
          /\ StoreKept(store[o], hash, {NoPassword, hash})
        <3>1. StoreHeld(store[o], hash, {NoPassword, hash}, Raced(o))
            BY <2>1 DEF PInv, Steady
        <3> QED
            BY <1>0, <3>1 DEF StoreHeld
    <2>3. ASSUME NEW j \in Key, NEW w \in Owner,
                 \/ w = "wallet" /\ RemoveCard(c, j)
                 \/ w = "flock" /\ RemoveFlock(c, j)
          PROVE  Survives(store[o], store'[o], k)
        <3>1. \A a \in Remove(store[w], j) : \A q : Outcome(store[w], a, q)
            BY <2>2, RemoveOutcome
        <3>2. w = o => j # k
            BY <2>3 DEF Asked
        <3>3. \A a \in Remove(store[w], j) : w = o => Survives(store[o], a.store, k)
            BY <2>2, <3>2, RemoveKeepsOthers
        <3>4. Entrust(c, Remove(store[w], j), w)
            BY <2>3 DEF RemoveCard, RemoveFlock
        <3> QED
            BY <1>3, <3>1, <3>3, <3>4
    <2>4. ASSUME NEW j \in Key, NEW v \in Value, ChangeFlock(c, j, v)
          PROVE  Survives(store[o], store'[o], k)
        <3>1. \A a \in Change(store["flock"], j, v) : \A q : Outcome(store["flock"], a, q)
            BY <1>0, <2>2, ChangeOutcome
        <3>2. \A a \in Change(store["flock"], j, v) :
                  "flock" = o => Survives(store[o], a.store, k)
            <4>1. TRUE \in BOOLEAN
                OBVIOUS
            <4> QED
                BY <2>2, <4>1, OperationsKeep
        <3> QED
            BY <1>0, <1>3, <2>4, <3>1, <3>2 DEF ChangeFlock
    <2>5. ASSUME NEW j \in Key, NEW v \in Value, NEW w \in Owner, AddEntry(c, w, j, v)
          PROVE  Survives(store[o], store'[o], k)
        <3>1. (w = "flock") \in BOOLEAN
            OBVIOUS
        <3>2. \A a \in Add(store[w], j, v, w = "flock") : \A q : Outcome(store[w], a, q)
            BY <2>2, <3>1, AddOutcome
        <3>3. \A a \in Add(store[w], j, v, w = "flock") :
                  w = o => Survives(store[o], a.store, k)
            BY <2>2, <3>1, OperationsKeep
        <3> QED
            BY <1>3, <2>5, <3>2, <3>3 DEF AddEntry
    <2>6. ASSUME NEW w \in Owner,
                 \/ w = "wallet" /\ ClearWallet(c)
                 \/ w = "flock" /\ ClearFlocks(c)
          PROVE  Survives(store[o], store'[o], k)
        <3>1. w # o
            BY <2>6 DEF Asked
        <3>2. \A p \in Owner : /\ \A a \in ClearFile(store[p]) : \A q : Outcome(store[p], a, q)
                               /\ \A a \in ClearList(store[p]) : \A q : Outcome(store[p], a, q)
            BY <2>2, ClearFileOutcome, ClearListOutcome
        <3> QED
            BY <1>3, <2>6, <3>1, <3>2 DEF ClearWallet, ClearFlocks
    <2>7. CASE ReadCards(c)
        <3>1. PICK a \in IfOk(store["wallet"], Refuse(Checked(store["wallet"]))) :
                  Becomes("wallet", a.store)
            BY <2>7 DEF ReadCards, Entrust, Operates
        <3>2. a.store \in {store["wallet"], Checked(store["wallet"])}
            BY DEF IfOk, Answer, Refuse
        <3>3. a.store \in Store /\ a.store.disk = store["wallet"].disk
            BY <1>0, <2>2, <3>2, CheckedFacts
        <3>4. "wallet" = o => Survives(store[o], a.store, k)
            BY <3>3 DEF Survives
        <3> QED
            BY <1>0, <1>2, <3>1, <3>3, <3>4
    <2> QED
        BY <1>0, <1>4, <2>3, <2>4, <2>5, <2>6, <2>7, KeyAssumption DEF StoreCall
<1>5. ASSUME NEW c \in Client, LoginNext(c) PROVE Survives(store[o], store'[o], k)
    <2>1. call[c].at \in LoginStep
        BY <1>5 DEF LoginNext, InitMasterPassword, KeepPassword, GiveFlock, LoadFlock,
               Loads, Read, NoMapping, Remap, Swap, GiveWallet, At, LoginStep
    <2>2. call[c].new \in Password
        BY <1>0, <2>1, ShapeFacts
    <2>3. \A w \in Owner : /\ SetPassword(store[w], call[c].new) \in Store
                           /\ SetPassword(store[w], call[c].new).disk = store[w].disk
        BY <1>0, <2>2, SetPasswordFacts
    <2>4. CASE InitMasterPassword(c) \/ KeepPassword(c)
        BY <1>1, <2>4 DEF InitMasterPassword, KeepPassword
    <2>5. CASE GiveFlock(c)
        BY <1>0, <1>2, <2>3, <2>5 DEF GiveFlock, TellFlock, Survives
    <2>6. CASE LoadFlock(c)
        BY <1>1, <2>6, LoadKeepsFile DEF Raced
    <2>7. CASE GiveWallet(c)
        BY <1>0, <1>2, <2>3, <2>7 DEF GiveWallet, Survives
    <2> QED
        BY <1>5, <2>4, <2>5, <2>6, <2>7 DEF LoginNext
<1>6. ASSUME NEW c \in Client, ChangeNext(c) PROVE Survives(store[o], store'[o], k)
    <2>1. Changing(c) /\ \E failed \in BOOLEAN : Disturbs(c, failed)
        BY <1>6 DEF ChangeNext, ReEncryptWallet, WalletPassword, ReEncryptFlock,
                    FlockPassword, FlockLoad, Loads, Read, NoMapping, Remap, Swap,
                    NewHash, UndoWallet, UndoPassword, At, Changing, ChangeStep, Encodes
    <2>2. ChangeSound(c)
        BY <2>1 DEF Disturbs, PInv
    <2>3. call[c] \in [at : ChangeStep, new : Password, current : Password]
        BY <1>0, <2>1, ShapeFacts DEF Changing
    <2>4. \A w \in Owner : /\ SetPassword(store[w], call[c].new) \in Store
                           /\ SetPassword(store[w], call[c].new).disk = store[w].disk
        BY <1>0, <2>3, SetPasswordFacts
    <2>5. ASSUME NEW w \in Owner, NEW step, NEW failing,
                 Encodes(c, w, call[c].new, step, failing),
                 call[c].at \notin Encoded(w) \cup Told(w)
          PROVE  Survives(store[o], store'[o], k)
        <3>1. PICK a \in ReEncrypt(store[w], call[c].new, call[c].current) :
                  Becomes(w, a.store)
            BY <2>5 DEF Encodes, Operates
        <3>2. StoreHeld(store[w], hash, {NoPassword, hash}, Raced(w))
              /\ store[w] \in Store /\ call[c].current = hash /\ hash \in Password
            BY <1>0, <2>2, <2>3, <2>5 DEF ChangeSound, Kept
        <3>3. a.store \in Store
            BY <2>3, <3>1, <3>2, ReEncryptFacts
        <3>4. w = o => Survives(store[o], a.store, k)
            <4> SUFFICES ASSUME w = o PROVE Survives(store[o], a.store, k)
                OBVIOUS
            <4>1. StoreKept(store[o], hash, {NoPassword, hash})
                BY <3>2 DEF StoreHeld
            <4> QED
                BY <2>3, <3>1, <3>2, <4>1, ReEncryptKeeps
        <3> QED
            BY <1>2, <3>1, <3>3, <3>4
    <2>6. CASE ReEncryptWallet(c)
        BY <1>0, <2>5, <2>6 DEF ReEncryptWallet, At, Encoded, Told
    <2>7. CASE ReEncryptFlock(c)
        BY <1>0, <2>5, <2>7 DEF ReEncryptFlock, At, Encoded, Told
    <2>8. CASE WalletPassword(c)
        BY <1>0, <1>2, <2>4, <2>8 DEF WalletPassword, Survives
    <2>9. CASE FlockPassword(c)
        BY <1>0, <1>2, <2>4, <2>9 DEF FlockPassword, TellFlock, Survives
    <2>10. CASE FlockLoad(c)
        BY <1>1, <2>10, LoadKeepsFile DEF Raced
    <2>11. CASE NewHash(c)
        BY <1>1, <2>11 DEF NewHash
    <2>12. ~UndoWallet(c) /\ ~UndoPassword(c)
        BY <2>2 DEF ChangeSound, UndoWallet, UndoPassword, At
    <2> QED
        BY <1>6, <2>6, <2>7, <2>8, <2>9, <2>10, <2>11, <2>12 DEF ChangeNext
<1>7. CASE Restart
    <2>1. \A opens \in BOOLEAN : Reborn(store[o], opens).disk = store[o].disk
        BY <1>0, RebornFacts
    <2> QED
        BY <1>1, <1>7, <2>1 DEF Restart
<1>8. ASSUME UNCHANGED store PROVE Survives(store[o], store'[o], k)
    BY <1>1, <1>8
<1> QED
    BY <1>4, <1>5, <1>6, <1>7, <1>8
       DEF Next, vars, HasNoHash, Login, ChangePassword, FirstPassword, FlushEnds

(* What a client stored stays in the file: an entry leaves it when a       *)
(* client asks, when a write fails, before the first login, by a load that *)
(* overlapped a write of the locked objects or by the write that follows   *)
(* it, or after a change of the password was disturbed.                    *)
THEOREM EntriesStay == Spec => EntriesSurvive
<1>1. PInv /\ [Next]_vars =>
          [\A o \in Owner, k \in Key :
             store[o].disk[k] # NoEntry /\ store'[o].disk[k] = NoEntry =>
                 \/ Asked(o, k)
                 \/ WriteFails(o)
                 \/ NobodyLoggedIn(o)
                 \/ Raced(o) \/ Raced(o)'
                 \/ disturbed']_vars
    BY StepSurvives DEF Survives, WriteFails, NobodyLoggedIn
<1> QED
    BY <1>1, InitSound, NextSound, PTL DEF Spec, EntriesSurvive

-----------------------------------------------------------------------------
(* Nothing but a new process opens a store or touches its file again.      *)
LEMMA StepLeavesClosed ==
    ASSUME PInv, [Next]_vars, NEW o \in Owner, ~store[o].opened, ~Restart
    PROVE  ~store'[o].opened /\ store'[o].disk = store[o].disk
<1>0. /\ call \in [Client -> Call] /\ store \in [Owner -> Store]
      /\ Owner = {"wallet", "flock"}
    BY DEF PInv, PasswordTypeOK, Owner
<1>1. ASSUME NEW w \in Owner, NEW s \in Store, Becomes(w, s),
             w = o => ~s.opened /\ s.disk = store[o].disk
      PROVE  ~store'[o].opened /\ store'[o].disk = store[o].disk
    <2>1. store'[w] = s /\ \A p \in Owner \ {w} : store'[p] = store[p]
        BY <1>0, <1>1, BecomesFacts
    <2> QED
        BY <1>1, <2>1
<1>2. ASSUME NEW c \in Client, NEW w \in Owner, NEW answers, Entrust(c, answers, w),
             \A a \in answers : \A q : Outcome(store[w], a, q)
      PROVE  ~store'[o].opened /\ store'[o].disk = store[o].disk
    <2>1. PICK a \in answers : Becomes(w, a.store)
        BY <1>2 DEF Entrust, Operates
    <2>2. Outcome(store[w], a, NoPassword)
        BY <1>2
    <2>3. a.store \in Store
        BY <2>2 DEF Outcome
    <2>4. w = o => a.store = store[o]
        BY <2>2 DEF Outcome, Ends
    <2> QED
        BY <1>1, <2>1, <2>3, <2>4
<1>3. ASSUME NEW c \in Client, StoreCall(c)
      PROVE  ~store'[o].opened /\ store'[o].disk = store[o].disk
    <2>1. PICK w \in Owner : \E answers :
              Entrust(c, answers, w) /\ \A a \in answers : \A q : Outcome(store[w], a, q)
        BY <1>0, <1>3, StoreCallOutcome
    <2> QED
        BY <1>2, <2>1
<1>4. ASSUME NEW c \in Client, NEW w \in Owner, NEW p \in Password,
             Becomes(w, SetPassword(store[w], p))
      PROVE  ~store'[o].opened /\ store'[o].disk = store[o].disk
    <2>1. /\ SetPassword(store[w], p) \in Store
          /\ SetPassword(store[w], p).disk = store[w].disk
          /\ SetPassword(store[w], p).opened = store[w].opened
        BY <1>0, SetPasswordFacts
    <2> QED
        BY <1>1, <1>4, <2>1
<1>5. ASSUME NEW c \in Client, LoginNext(c)
      PROVE  ~store'[o].opened /\ store'[o].disk = store[o].disk
    <2>1. call[c].at \in LoginStep
        BY <1>5 DEF LoginNext, InitMasterPassword, KeepPassword, GiveFlock, LoadFlock,
               Loads, Read, NoMapping, Remap, Swap, GiveWallet, At, LoginStep
    <2>2. call[c].new \in Password
        BY <1>0, <2>1, ShapeFacts
    <2>3. CASE LoadFlock(c)
        BY <2>3, LoadKeepsFile
    <2> QED
        BY <1>0, <1>4, <1>5, <2>2, <2>3 DEF LoginNext, InitMasterPassword, KeepPassword,
           GiveFlock, TellFlock, GiveWallet
<1>6. ASSUME NEW c \in Client, ChangeNext(c)
      PROVE  ~store'[o].opened /\ store'[o].disk = store[o].disk
    <2>1. call[c].at \in ChangeStep
        BY <1>6 DEF ChangeNext, ReEncryptWallet, WalletPassword, ReEncryptFlock,
                    FlockPassword, FlockLoad, Loads, Read, NoMapping, Remap, Swap,
                    NewHash, UndoWallet, UndoPassword, At, ChangeStep
    <2>2. call[c].new \in Password /\ call[c].current \in Password
        BY <1>0, <2>1, ShapeFacts
    <2>3. ASSUME NEW w \in Owner, NEW p \in Password, NEW step, NEW failing,
                 Encodes(c, w, p, step, failing)
          PROVE  ~store'[o].opened /\ store'[o].disk = store[o].disk
        <3>1. PICK a \in ReEncrypt(store[w], p, call[c].current) : Becomes(w, a.store)
            BY <2>3 DEF Encodes, Operates
        <3>2. a.store \in Store /\ (~store[w].opened => a.store = store[w])
            BY <1>0, <2>2, <3>1, ReEncryptFacts
        <3> QED
            BY <1>1, <3>1, <3>2
    <2>4. CASE FlockLoad(c)
        BY <2>4, LoadKeepsFile
    <2> QED
        BY <1>0, <1>4, <1>6, <2>2, <2>3, <2>4 DEF ChangeNext, ReEncryptWallet,
           WalletPassword, ReEncryptFlock, FlockPassword, TellFlock, NewHash, UndoWallet,
           UndoPassword
<1> QED
    BY <1>3, <1>5, <1>6
       DEF Next, vars, HasNoHash, Login, ChangePassword, FirstPassword, FlushEnds

(* "Reload if not." never does: a store a failed write closed answers no   *)
(* call and keeps its file until the process is restarted.                 *)
THEOREM ClosedIsFinal == Spec => ClosedStaysClosed
<1>1. PInv /\ [Next]_vars =>
          [\A o \in Owner : ~store[o].opened =>
             \/ ~store'[o].opened /\ store'[o].disk = store[o].disk
             \/ Restart]_vars
    BY StepLeavesClosed
<1> QED
    BY <1>1, InitSound, NextSound, PTL DEF Spec, ClosedStaysClosed

-----------------------------------------------------------------------------
(* Nothing is in the file with key k that was not there, with its value.   *)
Honest(s, t, k) ==
    t.disk[k] # NoEntry =>
        s.disk[k] # NoEntry /\ s.disk[k].value = t.disk[k].value

(* A store holds in memory what is in its file, or nothing. *)
LEMMA CheckedPart ==
    ASSUME NEW s \in Store, NEW q, StoreKept(s, q, {NoPassword, q}), s.opened,
           NEW k \in Key
    PROVE  /\ Checked(s).list \in Contents
           /\ Checked(s).list[k] \in {NoEntry, s.disk[k]}
           /\ Checked(s).list[k] # NoEntry => Checked(s).list[k] = s.disk[k]
<1>1. Checked(s).list \in {s.list, Readable(s.disk, s.password)}
    BY CheckedFacts
<1>2. Readable(s.disk, s.password) \in {Nothing, s.disk}
    BY LoadsAll DEF StoreKept
<1>3. Checked(s).list \in {Nothing, s.disk}
    BY <1>1, <1>2 DEF StoreKept
<1>4. Checked(s).list \in Contents
    BY CheckedFacts DEF Store
<1> QED
    BY <1>3, <1>4 DEF Nothing

(* A write, complete or not, puts entries of the list into the file. *)
LEMMA WrittenOrCut ==
    ASSUME NEW s \in Store, NEW L \in Contents, NEW after,
           NEW a \in Flush([Checked(s) EXCEPT !.list = L], after), NEW k \in Key
    PROVE  a.store.disk[k] \in {L[k], NoEntry}
<1> DEFINE new == [Checked(s) EXCEPT !.list = L]
<1>1. new \in Store /\ new.list = L
    BY CheckedFacts DEF Store
<1> HIDE DEF new
<1>2. a \in Flush(new, after)
    BY DEF new
<1>3. CASE a = Answer(TRUE, [new EXCEPT !.disk = new.list])
    BY <1>1, <1>3 DEF Answer, Store
<1>4. ASSUME NEW n, a = Answer(FALSE, [new EXCEPT !.list = after, !.opened = FALSE,
                                                  !.disk = Cut(new.list, n)])
      PROVE  a.store.disk = Cut(L, n)
    BY <1>1, <1>4 DEF Answer, Store
<1>5. \A n : Cut(L, n)[k] \in {L[k], NoEntry}
    BY DEF Cut
<1> QED
    BY <1>2, <1>3, <1>4, <1>5, <1>1 DEF Flush, FlushFails, Answer, Store

(* A list that holds nothing new makes an honest file. *)
LEMMA WriteHonest ==
    ASSUME NEW s \in Store, NEW L \in Contents, NEW after,
           NEW a \in Flush([Checked(s) EXCEPT !.list = L], after), NEW k \in Key,
           L[k] # NoEntry => s.disk[k] # NoEntry /\ s.disk[k].value = L[k].value
    PROVE  Honest(s, a.store, k)
BY WrittenOrCut DEF Honest

(* So does a refusal. *)
LEMMA RefuseHonest ==
    ASSUME NEW s \in Store, NEW k,
           NEW a \in Refuse(s) \cup (IF s.opened THEN Refuse(Checked(s)) ELSE {})
    PROVE  Honest(s, a.store, k)
<1>1. a.store = s \/ a.store = Checked(s)
    BY DEF Refuse, Answer
<1> QED
    BY <1>1, CheckedFacts DEF Honest

(* What an add leaves: nothing new, or the new entry where there was none. *)
LEMMA AddHonest ==
    ASSUME NEW s \in Store, NEW q, StoreKept(s, q, {NoPassword, q}),
           NEW j \in Key, NEW k \in Key, NEW v \in Value, NEW kept \in BOOLEAN,
           NEW a \in Add(s, j, v, kept)
    PROVE  \/ Honest(s, a.store, k)
           \/ j = k /\ s.disk[k] = NoEntry /\ a.store.disk[k].value = v
<1> DEFINE c == Checked(s)
           x == [by |-> s.password, value |-> v]
           L == [c.list EXCEPT ![j] = x]
<1>0. c \in Store /\ c.password = s.password
    BY CheckedFacts
<1>1. [c EXCEPT !.list[j] = [by |-> c.password, value |-> v]] = [c EXCEPT !.list = L]
      /\ [c EXCEPT !.list = L].list = L
    BY <1>0 DEF Store
<1>2. CASE ~s.opened \/ c.list[j] # NoEntry \/ s.password = NoPassword
    <2>1. a \in Refuse(s) \cup (IF s.opened THEN Refuse(c) ELSE {})
        BY <1>0, <1>2 DEF Add, IfOk
    <2> QED
        BY <2>1, RefuseHonest
<1>3. CASE s.opened /\ c.list[j] = NoEntry /\ s.password # NoPassword
    <2>1. c.list \in Contents /\ L \in Contents /\ c.list = s.disk
        BY <1>0, <1>3, PutFacts, CheckedIsDisk DEF Store
    <2>2. a \in Flush([c EXCEPT !.list = L], IF kept THEN L ELSE c.list)
        BY <1>0, <1>1, <1>3 DEF Add, IfOk
    <2>3. L[k] = IF k = j THEN x ELSE s.disk[k]
        BY <2>1 DEF Contents
    <2>4. x.value = v
        OBVIOUS
    <2> HIDE DEF L, c, x
    <2>5. a.store.disk[k] \in {L[k], NoEntry}
        BY <2>1, <2>2, WrittenOrCut DEF c
    <2> QED
        BY <1>3, <2>1, <2>3, <2>4, <2>5 DEF Honest
<1> QED
    BY <1>2, <1>3

(* What a new state of a locked object leaves. *)
LEMMA ChangeHonest ==
    ASSUME NEW s \in Store, NEW q, StoreKept(s, q, {NoPassword, q}),
           NEW j \in Key, NEW k \in Key, NEW v \in Value,
           NEW a \in Change(s, j, v)
    PROVE  \/ Honest(s, a.store, k)
           \/ j = k /\ s.disk[k] # NoEntry /\ a.store.disk[k].value = v
<1> DEFINE c == Checked(s)
           x == [by |-> s.password, value |-> v]
           L == [c.list EXCEPT ![j] = x]
<1>0. c \in Store /\ c.password = s.password
    BY CheckedFacts
<1>1. [c EXCEPT !.list[j] = [by |-> c.password, value |-> v]] = [c EXCEPT !.list = L]
      /\ [c EXCEPT !.list = L].list = L
    BY <1>0 DEF Store
<1>2. CASE ~s.opened \/ c.list[j] = NoEntry \/ c.list[j].by # c.password
    <2>1. a \in Refuse(s) \cup (IF s.opened THEN Refuse(c) ELSE {})
        BY <1>2 DEF Change, IfOk
    <2> QED
        BY <2>1, RefuseHonest
<1>3. CASE s.opened /\ c.list[j] # NoEntry /\ c.list[j].by = c.password
    <2>0. s.password # NoPassword
        BY <1>0, <1>3, EntryFacts DEF Store, Contents
    <2>1. c.list \in Contents /\ L \in Contents /\ c.list = s.disk
        BY <1>0, <1>3, <2>0, PutFacts, CheckedIsDisk DEF Store
    <2>2. a \in Flush([c EXCEPT !.list = L], L)
        BY <1>1, <1>3 DEF Change, IfOk
    <2>3. L[k] = IF k = j THEN x ELSE s.disk[k]
        BY <2>1 DEF Contents
    <2>4. x.value = v
        OBVIOUS
    <2> HIDE DEF L, c, x
    <2>5. a.store.disk[k] \in {L[k], NoEntry}
        BY <2>1, <2>2, WrittenOrCut DEF c
    <2> QED
        BY <1>3, <2>1, <2>3, <2>4, <2>5 DEF Honest, c
<1> QED
    BY <1>2, <1>3

(* Taking an entry out puts nothing in. *)
LEMMA RemoveHonest ==
    ASSUME NEW s \in Store, NEW q, StoreKept(s, q, {NoPassword, q}),
           NEW j \in Key, NEW k \in Key, NEW a \in Remove(s, j)
    PROVE  Honest(s, a.store, k)
<1> DEFINE c == Checked(s)
           L == [c.list EXCEPT ![j] = NoEntry]
<1>1. CASE ~s.opened
    BY <1>1, RefuseHonest DEF Remove, IfOk
<1>2. CASE s.opened
    <2>1. c \in Store /\ c.list \in Contents /\ c.list[k] \in {NoEntry, s.disk[k]}
        BY <1>2, CheckedFacts, CheckedPart
    <2>2. L \in Contents /\ L[k] \in {NoEntry, s.disk[k]}
        BY <2>1 DEF Contents
    <2>3. [c EXCEPT !.list[j] = NoEntry] = [c EXCEPT !.list = L]
          /\ [c EXCEPT !.list = L].list = L
        BY <2>1 DEF Store
    <2>4. a \in Flush([c EXCEPT !.list = L], L)
        BY <1>2, <2>3 DEF Remove, IfOk
    <2> HIDE DEF L, c
    <2> QED
        BY <2>2, <2>4, WriteHonest DEF c
<1> QED
    BY <1>1, <1>2

(* Nor does emptying a list, or the wallet. *)
LEMMA ClearHonest ==
    ASSUME NEW s \in Store, NEW k \in Key
    PROVE  /\ \A a \in ClearList(s) : Honest(s, a.store, k)
           /\ \A a \in ClearFile(s) : Honest(s, a.store, k)
<1>0. Nothing \in Contents /\ Nothing[k] = NoEntry
    BY NothingFacts DEF Nothing
<1>1. ASSUME NEW a \in ClearList(s) PROVE Honest(s, a.store, k)
    <2>1. CASE ~s.opened
        BY <1>1, <2>1, RefuseHonest DEF ClearList, IfOk
    <2>2. CASE s.opened
        <3>1. a \in Flush([Checked(s) EXCEPT !.list = Nothing], Nothing)
            BY <1>1, <2>2 DEF ClearList, IfOk
        <3> QED
            BY <1>0, <3>1, WriteHonest
    <2> QED
        BY <2>1, <2>2
<1>2. ASSUME NEW a \in ClearFile(s) PROVE Honest(s, a.store, k)
    <2> DEFINE empty == [s EXCEPT !.list = Nothing, !.disk = Nothing]
               failed == [s EXCEPT !.disk = Nothing, !.opened = FALSE]
    <2>1. empty.disk = Nothing /\ failed.disk = Nothing
        BY DEF Store
    <2>2. a.store \in {s, empty, failed}
        BY DEF ClearFile, IfOk, Answer, Refuse
    <2> HIDE DEF empty, failed
    <2> QED
        BY <1>0, <2>1, <2>2 DEF Honest
<1> QED
    BY <1>1, <1>2

(* An encoding with a new password changes no value. *)
LEMMA ReEncryptHonest ==
    ASSUME NEW s \in Store, NEW q, StoreKept(s, q, {NoPassword, q}),
           NEW new \in Password, NEW old \in Password, NEW k \in Key,
           NEW a \in ReEncrypt(s, new, old)
    PROVE  Honest(s, a.store, k)
<1> DEFINE c == Checked(s)
           L == Reencoded(c.list, new, old)
<1>1. CASE ~s.opened
    BY <1>1, RefuseHonest DEF ReEncrypt, IfOk
<1>2. CASE s.opened
    <2>1. /\ c \in Store /\ c.list \in Contents
          /\ c.list[k] # NoEntry => c.list[k] = s.disk[k]
        BY <1>2, CheckedFacts, CheckedPart
    <2>2. ASSUME NEW i \in Key, c.list[i].by = old
          PROVE  /\ c.list[i] # NoEntry
                 /\ [c.list[i] EXCEPT !.by = new] \in Entry
                 /\ [c.list[i] EXCEPT !.by = new].value = c.list[i].value
        <3>1. c.list[i] \in Entry /\ c.list[i] # NoEntry
            BY <2>1, <2>2, StoreAssumption DEF Contents, NoEntry
        <3> QED
            BY <3>1 DEF Entry
    <2>3. L \in Contents
        BY <2>2 DEF Reencoded, Contents
    <2>4. L[k] # NoEntry => c.list[k] # NoEntry /\ L[k].value = c.list[k].value
        BY <2>2 DEF Reencoded
    <2>5. [c EXCEPT !.list = Reencoded(@, new, old)] = [c EXCEPT !.list = L]
        BY <2>1 DEF Store
    <2>6. a \in Flush([c EXCEPT !.list = L], c.list)
        BY <1>2, <2>5 DEF ReEncrypt, IfOk
    <2> HIDE DEF L, c
    <2> QED
        BY <2>1, <2>3, <2>4, <2>6, WriteHonest DEF c
<1> QED
    BY <1>1, <1>2

(* What an entry that was altered says was asked by a client. *)
AskedFor(o, k) ==
    \/ /\ store[o].disk[k] = NoEntry
       /\ \E c \in Client : AddEntry(c, o, k, store'[o].disk[k].value)
    \/ /\ store[o].disk[k] # NoEntry
       /\ o = "flock"
       /\ \E c \in Client : ChangeFlock(c, k, store'[o].disk[k].value)

(* A step leaves a key as it was, without its entry, or as asked. *)
AsAsked(o, k) == Honest(store[o], store'[o], k) \/ AskedFor(o, k)

(* Every step does. *)
LEMMA StepIsAskedFor ==
    ASSUME PInv, [Next]_vars, ~disturbed', NEW o \in Owner, NEW k \in Key,
           ~Raced(o), ~(Raced(o)')
    PROVE  AsAsked(o, k)
<1>0. /\ call \in [Client -> Call] /\ store \in [Owner -> Store]
      /\ Owner = {"wallet", "flock"}
    BY DEF PInv, PasswordTypeOK, Owner
<1>1. ASSUME store'[o].disk = store[o].disk PROVE AsAsked(o, k)
    BY <1>1 DEF AsAsked, Honest
<1>2. ASSUME NEW w \in Owner, NEW s \in Store, Becomes(w, s),
             w = o => Honest(store[o], s, k)
      PROVE  AsAsked(o, k)
    <2>1. store'[w] = s /\ \A p \in Owner \ {w} : store'[p] = store[p]
        BY <1>0, <1>2, BecomesFacts
    <2>2. CASE w = o
        BY <1>2, <2>1, <2>2 DEF AsAsked
    <2>3. CASE w # o
        BY <1>1, <2>1, <2>3
    <2> QED
        BY <2>2, <2>3
<1>3. ASSUME NEW c \in Client, NEW w \in Owner, NEW answers, Entrust(c, answers, w),
             \A a \in answers : \A q : Outcome(store[w], a, q),
             \A a \in answers : w = o => Honest(store[o], a.store, k)
      PROVE  AsAsked(o, k)
    <2>1. PICK a \in answers : Becomes(w, a.store)
        BY <1>3 DEF Entrust, Operates
    <2>2. a.store \in Store
        BY <1>3 DEF Outcome
    <2> QED
        BY <1>2, <1>3, <2>1, <2>2
<1>4. ASSUME NEW c \in Client, StoreCall(c) PROVE AsAsked(o, k)
    <2>1. ~disturbed /\ \A d \in Client : ~Changing(d)
        <3>1. call[c] = Idle /\ Disturbs(c, FALSE)
            BY <1>4 DEF StoreCall, RemoveCard, RemoveFlock, ChangeFlock, AddEntry,
                        ClearWallet, ClearFlocks, ReadCards, Entrust
        <3>2. ~Changing(c)
            BY <3>1 DEF Changing, Idle, ChangeStep
        <3>3. ~disturbed /\ \A d \in Others(c) : ~Changing(d)
            BY <3>1 DEF Disturbs, Overlaps
        <3> QED
            BY <3>2, <3>3 DEF Others
    <2>2. /\ \A w \in Owner : store[w] \in Store
          /\ StoreKept(store[o], hash, {NoPassword, hash})
        <3>1. StoreHeld(store[o], hash, {NoPassword, hash}, Raced(o))
            BY <2>1 DEF PInv, Steady
        <3> QED
            BY <1>0, <3>1 DEF StoreHeld
    <2>3. ASSUME NEW j \in Key, RemoveCard(c, j) \/ RemoveFlock(c, j)
          PROVE  AsAsked(o, k)
        <3>1. \A w \in Owner : \A a \in Remove(store[w], j) :
                  /\ \A q : Outcome(store[w], a, q)
                  /\ w = o => Honest(store[o], a.store, k)
            BY <2>2, RemoveOutcome, RemoveHonest
        <3> QED
            BY <1>0, <1>3, <2>3, <3>1 DEF RemoveCard, RemoveFlock
    <2>4. ASSUME NEW j \in Key, NEW v \in Value, ChangeFlock(c, j, v)
          PROVE  AsAsked(o, k)
        <3>1. PICK a \in Change(store["flock"], j, v) : Becomes("flock", a.store)
            BY <2>4 DEF ChangeFlock, Entrust, Operates
        <3>2. a.store \in Store
            BY <1>0, <2>2, <3>1, ChangeOutcome DEF Outcome
        <3>3. store'["flock"] = a.store
            BY <1>0, <3>1, <3>2, BecomesFacts
        <3>4. \/ o # "flock" \/ Honest(store["flock"], a.store, k)
              \/ /\ o = "flock" /\ j = k /\ store["flock"].disk[k] # NoEntry
                 /\ a.store.disk[k].value = v
            BY <1>0, <2>2, <3>1, ChangeHonest
        <3>5. CASE o # "flock" \/ Honest(store["flock"], a.store, k)
            BY <1>0, <1>2, <3>1, <3>2, <3>5
        <3>6. CASE /\ o = "flock" /\ j = k /\ store["flock"].disk[k] # NoEntry
                   /\ a.store.disk[k].value = v
            BY <2>4, <3>3, <3>6 DEF AsAsked, AskedFor
        <3> QED
            BY <3>4, <3>5, <3>6
    <2>5. ASSUME NEW j \in Key, NEW v \in Value, NEW w \in Owner, AddEntry(c, w, j, v)
          PROVE  AsAsked(o, k)
        <3>0. (w = "flock") \in BOOLEAN
            OBVIOUS
        <3>1. PICK a \in Add(store[w], j, v, w = "flock") : Becomes(w, a.store)
            BY <2>5 DEF AddEntry, Entrust, Operates
        <3>2. a.store \in Store
            BY <2>2, <3>0, <3>1, AddOutcome DEF Outcome
        <3>3. store'[w] = a.store
            BY <1>0, <3>1, <3>2, BecomesFacts
        <3>4. \/ o # w \/ Honest(store[w], a.store, k)
              \/ o = w /\ j = k /\ store[w].disk[k] = NoEntry /\ a.store.disk[k].value = v
            <4> DEFINE kept == w = "flock"
            <4>1. kept \in BOOLEAN /\ a \in Add(store[w], j, v, kept)
                BY <3>1
            <4> HIDE DEF kept
            <4> QED
                BY <2>2, <4>1, AddHonest
        <3>5. CASE o # w \/ Honest(store[w], a.store, k)
            BY <1>2, <3>1, <3>2, <3>5
        <3>6. CASE /\ o = w /\ j = k /\ store[w].disk[k] = NoEntry
                   /\ a.store.disk[k].value = v
            BY <2>5, <3>3, <3>6 DEF AsAsked, AskedFor
        <3> QED
            BY <3>4, <3>5, <3>6
    <2>6. CASE ClearWallet(c) \/ ClearFlocks(c)
        <3>1. \A w \in Owner :
                  /\ \A a \in ClearFile(store[w]) : /\ \A q : Outcome(store[w], a, q)
                                                    /\ w = o => Honest(store[o], a.store, k)
                  /\ \A a \in ClearList(store[w]) : /\ \A q : Outcome(store[w], a, q)
                                                    /\ w = o => Honest(store[o], a.store, k)
            BY <2>2, ClearFileOutcome, ClearListOutcome, ClearHonest
        <3> QED
            BY <1>0, <1>3, <2>6, <3>1 DEF ClearWallet, ClearFlocks
    <2>7. CASE ReadCards(c)
        <3>1. PICK a \in IfOk(store["wallet"], Refuse(Checked(store["wallet"]))) :
                  Becomes("wallet", a.store)
            BY <2>7 DEF ReadCards, Entrust, Operates
        <3>2. a.store \in {store["wallet"], Checked(store["wallet"])}
            BY DEF IfOk, Answer, Refuse
        <3>3. a.store \in Store /\ a.store.disk = store["wallet"].disk
            BY <1>0, <2>2, <3>2, CheckedFacts
        <3>4. "wallet" = o => Honest(store[o], a.store, k)
            BY <3>3 DEF Honest
        <3> QED
            BY <1>0, <1>2, <3>1, <3>3, <3>4
    <2> QED
        BY <1>0, <1>4, <2>3, <2>4, <2>5, <2>6, <2>7, KeyAssumption DEF StoreCall
<1>5. ASSUME NEW w \in Owner, NEW p \in Password,
             Becomes(w, SetPassword(store[w], p))
      PROVE  AsAsked(o, k)
    <2>1. /\ SetPassword(store[w], p) \in Store
          /\ SetPassword(store[w], p).disk = store[w].disk
        BY <1>0, SetPasswordFacts
    <2> QED
        BY <1>2, <1>5, <2>1 DEF Honest
<1>6. ASSUME NEW c \in Client, LoginNext(c) PROVE AsAsked(o, k)
    <2>1. call[c].at \in LoginStep
        BY <1>6 DEF LoginNext, InitMasterPassword, KeepPassword, GiveFlock, LoadFlock,
               Loads, Read, NoMapping, Remap, Swap, GiveWallet, At, LoginStep
    <2>2. call[c].new \in Password
        BY <1>0, <2>1, ShapeFacts
    <2>3. CASE LoadFlock(c)
        BY <1>1, <2>3, LoadKeepsFile DEF Raced
    <2> QED
        BY <1>0, <1>1, <1>5, <1>6, <2>2, <2>3 DEF LoginNext, InitMasterPassword,
           KeepPassword, GiveFlock, TellFlock, GiveWallet
<1>7. ASSUME NEW c \in Client, ChangeNext(c) PROVE AsAsked(o, k)
    <2>1. Changing(c) /\ \E failed \in BOOLEAN : Disturbs(c, failed)
        BY <1>7 DEF ChangeNext, ReEncryptWallet, WalletPassword, ReEncryptFlock,
                    FlockPassword, FlockLoad, Loads, Read, NoMapping, Remap, Swap,
                    NewHash, UndoWallet, UndoPassword, At, Changing, ChangeStep, Encodes
    <2>2. ChangeSound(c)
        BY <2>1 DEF Disturbs, PInv
    <2>3. call[c] \in [at : ChangeStep, new : Password, current : Password]
        BY <1>0, <2>1, ShapeFacts DEF Changing
    <2>4. ASSUME NEW w \in Owner, NEW step, NEW failing,
                 Encodes(c, w, call[c].new, step, failing),
                 call[c].at \notin Encoded(w) \cup Told(w)
          PROVE  AsAsked(o, k)
        <3>1. PICK a \in ReEncrypt(store[w], call[c].new, call[c].current) :
                  Becomes(w, a.store)
            BY <2>4 DEF Encodes, Operates
        <3>2. StoreHeld(store[w], hash, {NoPassword, hash}, Raced(w))
              /\ store[w] \in Store /\ call[c].current \in Password
            BY <1>0, <2>2, <2>3, <2>4 DEF ChangeSound, Kept
        <3>3. a.store \in Store
            BY <2>3, <3>1, <3>2, ReEncryptFacts
        <3>4. w = o => Honest(store[o], a.store, k)
            <4> SUFFICES ASSUME w = o PROVE Honest(store[o], a.store, k)
                OBVIOUS
            <4>1. StoreKept(store[o], hash, {NoPassword, hash})
                BY <3>2 DEF StoreHeld
            <4> QED
                BY <2>3, <3>1, <3>2, <4>1, ReEncryptHonest
        <3> QED
            BY <1>2, <3>1, <3>3, <3>4
    <2>5. CASE ReEncryptWallet(c) \/ ReEncryptFlock(c)
        BY <1>0, <2>4, <2>5 DEF ReEncryptWallet, ReEncryptFlock, At, Encoded, Told
    <2>6. CASE WalletPassword(c) \/ FlockPassword(c)
        BY <1>0, <1>5, <2>3, <2>6 DEF WalletPassword, FlockPassword, TellFlock
    <2>9. CASE FlockLoad(c)
        BY <1>1, <2>9, LoadKeepsFile DEF Raced
    <2>7. CASE NewHash(c)
        BY <1>1, <2>7 DEF NewHash
    <2>8. ~UndoWallet(c) /\ ~UndoPassword(c)
        BY <2>2 DEF ChangeSound, UndoWallet, UndoPassword, At
    <2> QED
        BY <1>7, <2>5, <2>6, <2>7, <2>8, <2>9 DEF ChangeNext
<1>8. CASE Restart
    <2>1. \A opens \in BOOLEAN : Reborn(store[o], opens).disk = store[o].disk
        BY <1>0, RebornFacts
    <2> QED
        BY <1>1, <1>8, <2>1 DEF Restart
<1>9. ASSUME UNCHANGED store PROVE AsAsked(o, k)
    BY <1>1, <1>9
<1> QED
    BY <1>4, <1>6, <1>7, <1>8, <1>9
       DEF Next, vars, HasNoHash, Login, ChangePassword, FirstPassword, FlushEnds

(* An entry appears in a file, or says another thing, only by the call of  *)
(* a client that asked for just that, unless a load overlapped a write or  *)
(* a change of the password was disturbed: failed writes, logins, restarts and encodings with another   *)
(* password invent nothing.                                                *)
THEOREM NothingIsInvented == Spec => FileSaysWhatWasAsked
<1>1. ASSUME PInv, [Next]_vars, NEW o \in Owner, NEW k \in Key, Altered(o, k)
      PROVE  AskedFor(o, k) \/ Raced(o) \/ Raced(o)' \/ disturbed'
    BY <1>1, StepIsAskedFor DEF AsAsked, Altered, Honest
<1>2. PInv /\ [Next]_vars =>
          [\A o \in Owner, k \in Key :
             Altered(o, k) =>
                 \/ /\ store[o].disk[k] = NoEntry
                    /\ \E c \in Client : AddEntry(c, o, k, store'[o].disk[k].value)
                 \/ /\ store[o].disk[k] # NoEntry
                    /\ o = "flock"
                    /\ \E c \in Client : ChangeFlock(c, k, store'[o].disk[k].value)
                 \/ Raced(o) \/ Raced(o)'
                 \/ disturbed']_vars
    BY <1>1 DEF AskedFor
<1> QED
    BY <1>2, InitSound, NextSound, PTL DEF Spec, FileSaysWhatWasAsked
=============================================================================
