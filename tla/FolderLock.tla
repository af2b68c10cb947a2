----------------------------- MODULE FolderLock ------------------------------
(***************************************************************************)
(* The list of locked objects of the service and what the driver is told   *)
(* of it (DgiFolderLockManager.cpp).  Every call that changes the list     *)
(* sends the whole of it to the driver: clear, then one rule after the     *)
(* other.  A client is a thread of the Thrift pool, and a step is what one *)
(* lock or one driver request protects: nothing spans a call.  A login     *)
(* loads the list without its lock, as in MasterPassword.                  *)
(*                                                                         *)
(* A key is a path and the id of its object; a value the policy of its     *)
(* state.  What the driver makes of the requests it accepts is in          *)
(* FLockStorage: here it answers as it likes.                              *)
(***************************************************************************)
EXTENDS EntryStore

CONSTANTS
    Client,
    Nobody,
    password,   \* the master password
    NoRule

ASSUME FolderLockAssumption ==
    password \in Password /\ NoRule \notin Value /\ Nobody \notin Client

VARIABLES
    store,      \* FileGuard::m_storage
    told,       \* the rules the driver accepted since it last was cleared
    call,       \* where each client is in its call
    writing,    \* the client that rewrites the file
    raced,      \* history: a load swapped or mapped under the last write
    current     \* history: a transfer ran alone and whole, the list is its own

flocks == <<store, writing, raced>>
vars == <<flocks, told, call, current>>

Rules == [Key -> Value \cup {NoRule}]
NoRules == [k \in Key |-> NoRule]
Policies(list) == [k \in Key |-> IF list[k] = NoEntry THEN NoRule ELSE list[k].value]

ToldNothing == [k \in Key |-> {}]
Only(rule) == IF rule = NoRule THEN {} ELSE {rule}

Idle == [at |-> "none"]

(* history, in clean: no other transfer, no refusal of the driver, and the *)
(* list has not changed since the transfer took its copy.                  *)
Call ==
    {Idle}
    \cup [at : {"add", "change"}, key : Key, value : Value]
    \cup [at : {"remove"}, key : Key]
    \cup [at : {"load"}]
    \cup [at : {"swap"}, read : Contents]
    \cup [at : {"loaded", "copy"}, clean : BOOLEAN]
    \cup [at : {"clear", "fill"}, policies : Rules, clean : BOOLEAN]

Init ==
    /\ store = [list |-> Nothing, disk |-> Nothing, opened |-> TRUE,
                password |-> NoPassword]
    /\ told = ToldNothing
    /\ call = [c \in Client |-> Idle]
    /\ writing = Nobody
    /\ raced = FALSE
    /\ current = TRUE

At(c, step) == call[c].at = step
Goes(c, to) == call' = [call EXCEPT ![c] = to]
Returns(c) == Goes(c, Idle)

Copied(d) == call[d].at \in {"clear", "fill"}
Transfers(d) == call[d].at \in {"loaded", "copy"} \/ Copied(d)
Alone(c) == \A d \in Client \ {c} : ~Transfers(d)

(* c goes on at next, and leaves the store as s.  What others send of the  *)
(* list of before is stale, and so is every transfer when c begins one.    *)
Leaves(c, s, next, sends) ==
    LET outdated(d) == \/ sends /\ Transfers(d)
                       \/ s.list # store.list /\ Copied(d)
    IN  /\ store' = s
        /\ current' = (current /\ ~sends /\ s.list = store.list)
        /\ call' = [d \in Client |->
                       IF d = c THEN next
                       ELSE IF outdated(d) THEN [call[d] EXCEPT !.clean = FALSE]
                       ELSE call[d]]
        /\ UNCHANGED told

-----------------------------------------------------------------------------
(* The test that begins a call, in a lock of its own.  Between the test    *)
(* and the storage add() writes the mark into the file; a file it cannot   *)
(* mark ends the call with nothing changed here.                           *)

Begins(c, to) ==
    /\ call[c] = Idle
    /\ writing = Nobody
    /\ Goes(c, to)
    /\ UNCHANGED <<flocks, told, current>>

AddTested(c, k, v) ==
    /\ store.list[k] = NoEntry
    /\ Begins(c, [at |-> "add", key |-> k, value |-> v])

RemoveTested(c, k) ==
    /\ store.list[k] # NoEntry
    /\ Begins(c, [at |-> "remove", key |-> k])

(* changeState, changeStateById. *)
ChangeTested(c, k, v) ==
    /\ store.opened
    /\ store.list[k] # NoEntry
    /\ Begins(c, [at |-> "change", key |-> k, value |-> v])

NotSigned(c) ==
    /\ At(c, "add")
    /\ Returns(c)
    /\ UNCHANGED <<flocks, told, current>>

(* The storage's operation; success goes on to the transfer, a failure     *)
(* leaves list and driver to differ.                                       *)
Stores(c, answers) ==
    /\ writing = Nobody
    /\ \E answer \in answers :
          /\ Leaves(c, answer.store,
                    IF answer.ok THEN [at |-> "loaded", clean |-> Alone(c)] ELSE Idle,
                    answer.ok)
          /\ IF Writes(store, answer) THEN writing' = c /\ raced' = FALSE
             ELSE UNCHANGED <<writing, raced>>

(* The write is over; one that a load got in the way of may be reported as *)
(* failed.                                                                 *)
FlushEnds(c) ==
    /\ writing = c
    /\ writing' = Nobody
    /\ UNCHANGED call \/ (raced /\ Returns(c))
    /\ UNCHANGED <<store, told, raced, current>>

StorageAdd(c) ==
    /\ At(c, "add")
    /\ Stores(c, Add(store, call[c].key, call[c].value, TRUE))

StorageRemove(c) ==
    /\ At(c, "remove")
    /\ Stores(c, Remove(store, call[c].key))

StorageSetState(c) ==
    /\ At(c, "change")
    /\ Stores(c, Change(store, call[c].key, call[c].value))

StorageClear(c) ==
    /\ call[c] = Idle
    /\ Stores(c, ClearList(store))

-----------------------------------------------------------------------------
(* ctrlSetPassword of a login: the password in a lock, and then the load   *)
(* without one, which reads the file, and swaps the list.                  *)

Login(c) ==
    /\ call[c] = Idle
    /\ writing = Nobody
    /\ store' = SetPassword(store, password)
    /\ Goes(c, [at |-> "load"])
    /\ UNCHANGED <<writing, raced, told, current>>

Read(c) ==
    /\ At(c, "load")
    /\ store.opened \/ writing # Nobody
    /\ \E read \in Reads(store, writing # Nobody) :
          Goes(c, [at |-> "swap", read |-> read])
    /\ UNCHANGED <<flocks, told, current>>

NoMapping(c) ==
    /\ At(c, "load")
    /\ ~store.opened \/ writing # Nobody
    /\ Returns(c)
    /\ UNCHANGED <<flocks, told, current>>

(* The write maps the file, and the load finds no mapping and remaps it.   *)
Remap(c) ==
    /\ At(c, "load")
    /\ writing # Nobody
    /\ store' \in Torn(store, store.list)
    /\ raced' = TRUE
    /\ UNCHANGED <<call, writing, told, current>>

Swap(c) ==
    /\ At(c, "swap")
    /\ \E s \in Swapped(store, call[c].read, writing # Nobody) :
          Leaves(c, s, Idle, FALSE)
    /\ raced' = (raced \/ writing # Nobody)
    /\ UNCHANGED writing

-----------------------------------------------------------------------------
(* sendFlocksToDriver.                                                     *)

IsLoaded(c) ==
    /\ At(c, "loaded")
    /\ writing = Nobody
    /\ IF store.opened THEN Goes(c, [call[c] EXCEPT !.at = "copy"]) ELSE Returns(c)
    /\ UNCHANGED <<flocks, told, current>>

(* Seeded defect: the entries themselves are sent. *)
GetEntries(c) ==
    /\ At(c, "copy")
    /\ writing = Nobody
    /\ Goes(c, [at |-> "clear", policies |-> store.list, clean |-> call[c].clean])
    /\ UNCHANGED <<flocks, told, current>>

(* "Do not touch the driver if there is nothing to update." *)
GetAll(c) ==
    /\ At(c, "copy")
    /\ writing = Nobody
    /\ LET policies == Policies(Readable(store.list, store.password))
       IN  IF policies = NoRules THEN Returns(c)
           ELSE Goes(c, [at |-> "clear", policies |-> policies, clean |-> call[c].clean])
    /\ UNCHANGED <<flocks, told, current>>

(* Seeded defect: the rules of before are merged with. *)
DriverMerge(c) ==
    /\ At(c, "clear")
    /\ Goes(c, [call[c] EXCEPT !.at = "fill"])
    /\ UNCHANGED <<flocks, told, current>>

(* A request the driver refuses is logged, and the transfer goes on. *)
DriverClear(c) ==
    /\ At(c, "clear")
    /\ \/ /\ told' = ToldNothing
          /\ Goes(c, [call[c] EXCEPT !.at = "fill"])
       \/ /\ UNCHANGED told
          /\ Goes(c, [call[c] EXCEPT !.at = "fill", !.clean = FALSE])
    /\ UNCHANGED <<flocks, current>>

(* The list's order is the map's: by path. *)
IsNext(c, k) ==
    /\ call[c].policies[k] # NoRule
    /\ \A j \in Key : call[c].policies[j] # NoRule => k <= j

DriverAdd(c) ==
    /\ At(c, "fill")
    /\ \E k \in Key :
        /\ IsNext(c, k)
        /\ \/ /\ told' = [told EXCEPT ![k] = @ \cup {call[c].policies[k]}]
              /\ Goes(c, [call[c] EXCEPT !.policies[k] = NoRule])
           \/ /\ UNCHANGED told
              /\ Goes(c, [call[c] EXCEPT !.policies[k] = NoRule, !.clean = FALSE])
    /\ UNCHANGED <<flocks, current>>

(* The refreshed caches and the flush of the driver's file are not in here. *)
Transferred(c) ==
    /\ At(c, "fill")
    /\ call[c].policies = NoRules
    /\ Returns(c)
    /\ current' = call[c].clean
    /\ UNCHANGED <<flocks, told>>

-----------------------------------------------------------------------------
(* The process ends in whatever it was doing.  The next one opens the      *)
(* file; neither tells the driver.                                         *)
Restart ==
    /\ \E opens \in BOOLEAN : store' = Reborn(store, opens)
    /\ call' = [c \in Client |-> Idle]
    /\ writing' = Nobody
    /\ raced' = FALSE
    /\ current' = (current /\ store.list = Nothing)
    /\ UNCHANGED told

Loads(c) == Read(c) \/ NoMapping(c) \/ Remap(c) \/ Swap(c)

Transfer(c) ==
    IsLoaded(c) \/ GetAll(c) \/ DriverClear(c) \/ DriverAdd(c) \/ Transferred(c)

Next ==
    \/ \E c \in Client :
          \/ /\ writing # c
             /\ \/ \E k \in Key, v \in Value : AddTested(c, k, v) \/ ChangeTested(c, k, v)
                \/ \E k \in Key : RemoveTested(c, k)
                \/ NotSigned(c)
                \/ StorageAdd(c)
                \/ StorageRemove(c)
                \/ StorageSetState(c)
                \/ StorageClear(c)
                \/ Login(c)
                \/ Loads(c)
                \/ Transfer(c)
          \/ FlushEnds(c)
    \/ Restart

Spec == Init /\ [][Next]_vars
=============================================================================
