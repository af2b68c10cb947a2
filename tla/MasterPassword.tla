--------------------------- MODULE MasterPassword ----------------------------
(***************************************************************************)
(* The master password of the service (DgiMainService.cpp, DgiEngine.cpp,  *)
(* master-password.cpp): setting it for the first time, the login that     *)
(* hands it to the wallet and to the list of locked objects, and the       *)
(* change that encodes both anew.                                          *)
(*                                                                         *)
(* A client is a thread of the Thrift pool.  A step is what one lock       *)
(* protects: an operation of a store or of the keeper of the hash.  The    *)
(* list of locked objects is loaded without its lock, so its rewriting is  *)
(* two steps: it takes effect, and it ends; a load of another client may   *)
(* fall in between.  The lock around a change is a comment in the code,    *)
(* and no call depends on a login: Manager::present (DgiSession.cpp)       *)
(* answers yes for every session.                                          *)
(* The password in the keeper's memory is left out: only the encryption of *)
(* files reads it.                                                         *)
(***************************************************************************)
EXTENDS EntryStore

CONSTANTS
    Client,
    Nobody,
    Card,       \* the keys of the wallet: card numbers
    Path        \* the keys of the locked objects

ASSUME ClientAssumption == Nobody \notin Client
ASSUME KeyAssumption == Card \cup Path \subseteq Key

VARIABLES
    store,      \* the two stores
    hash,       \* the password the hash file stands for
    call,       \* where each client is in its call, with its arguments
    writing,    \* the client that rewrites the file of the locked objects
    load,       \* what each client's load of them has read
    disturbed,  \* history: a change of the password was disturbed
    raced       \* history: a load that overlapped a write left the list or
                \* the file of the locked objects; cleared by the next write
                \* or load that does not

flocks == <<writing, load, raced>>
vars == <<store, hash, call, disturbed, flocks>>

Owner == {"wallet", "flock"}

Idle == [at |-> "none"]
LoginStep == {"init", "keep", "giveFlock", "loadFlock", "swapFlock", "giveWallet"}
ChangeStep == {"wallet", "walletPassword", "flock", "flockPassword", "flockLoad",
               "flockSwap", "hash", "undo", "undoPassword"}
Call ==
    {Idle}
    \cup [at : {"first"} \cup LoginStep, new : Password]
    \cup [at : ChangeStep, new : Password, current : Password]

Init ==
    /\ store = [o \in Owner |-> [list |-> Nothing, disk |-> Nothing,
                                 opened |-> TRUE, password |-> NoPassword]]
    /\ hash = NoPassword
    /\ call = [c \in Client |-> Idle]
    /\ writing = Nobody
    /\ load = [c \in Client |-> NotLoading]
    /\ disturbed = FALSE
    /\ raced = FALSE

(* History.  A change meets another call, or one of its writes fails.      *)
Changing(c) == call[c].at \in ChangeStep
Others(c) == Client \ {c}
Overlaps(c) ==
    \/ \E d \in Others(c) : Changing(d)
    \/ Changing(c) /\ \E d \in Others(c) : call[d] # Idle

Disturbs(c, failed) == disturbed' = (disturbed \/ failed \/ Overlaps(c))

(* A step of c's call that goes on at step. *)
At(c, step) == call[c].at = step
Goes(c, step) == call' = [call EXCEPT ![c].at = step]
Returns(c) == call' = [call EXCEPT ![c] = Idle]

Becomes(o, s) == store' = [store EXCEPT ![o] = s]

(* An operation of c on store o ends with answer.  That of the locked      *)
(* objects waits for the lock, and a load it writes under is not clean.    *)
Operates(c, o, answer) ==
    /\ Becomes(o, answer.store)
    /\ o = "flock" => writing = Nobody
    /\ IF o = "flock" /\ Writes(store[o], answer)
       THEN /\ writing' = c
            /\ load' = [d \in Client |-> [load[d] EXCEPT !.clean = FALSE]]
            /\ raced' = FALSE
       ELSE UNCHANGED flocks

(* The write is over.  One that a load got in the way of may be reported   *)
(* as failed; only a change of the password goes another way then.         *)
FlushEnds(c) ==
    /\ writing = c
    /\ writing' = Nobody
    /\ \/ UNCHANGED <<call, disturbed>>
       \/ raced /\ At(c, "flockPassword") /\ Goes(c, "undo") /\ Disturbs(c, TRUE)
    /\ UNCHANGED <<store, hash, load, raced>>

(* ctrlSetPassword, as far as it takes the lock. *)
TellFlock(c, p) ==
    /\ writing = Nobody
    /\ Becomes("flock", SetPassword(store["flock"], p))
    /\ UNCHANGED flocks

-----------------------------------------------------------------------------
(* Keeper::load, without the lock: it reads and decodes the file at one    *)
(* step, from, and swaps the list at the next.                             *)

Read(c, from, to) ==
    /\ At(c, from)
    /\ store["flock"].opened \/ writing # Nobody
    /\ \E read \in Reads(store["flock"], writing # Nobody) :
          load' = [load EXCEPT ![c] = [read |-> read, clean |-> writing = Nobody]]
    /\ Goes(c, to)
    /\ UNCHANGED <<store, writing, raced>>

(* A write maps the file anew for each entry; the load may find no mapping. *)
NoMapping(c, from, to) ==
    /\ At(c, from)
    /\ ~store["flock"].opened \/ writing # Nobody
    /\ Goes(c, to)
    /\ UNCHANGED <<store, flocks>>

(* It finds none, and when it unmaps and maps the write has mapped again.  *)
Remap(c, from) ==
    /\ At(c, from)
    /\ writing # Nobody
    /\ \E s \in Torn(store["flock"], store["flock"].list) : Becomes("flock", s)
    /\ raced' = TRUE
    /\ Goes(c, from)
    /\ UNCHANGED <<writing, load>>

Swap(c, from, to) ==
    /\ At(c, from)
    /\ \E s \in Swapped(store["flock"], load[c].read, writing # Nobody) :
          Becomes("flock", s)
    /\ load' = [load EXCEPT ![c] = NotLoading]
    /\ raced' = ~load[c].clean
    /\ Goes(c, to)
    /\ UNCHANGED writing

Loads(c, from, swap, to) ==
    \/ Read(c, from, swap)
    \/ NoMapping(c, from, to)
    \/ Remap(c, from)
    \/ Swap(c, swap, to)

-----------------------------------------------------------------------------
(* Calls that are one operation of a store. *)

Entrust(c, answers, o) ==
    /\ call[c] = Idle
    /\ \E answer \in answers : Operates(c, o, answer)
    /\ Disturbs(c, FALSE)
    /\ UNCHANGED <<hash, call>>

AddEntry(c, o, k, v) == Entrust(c, Add(store[o], k, v, o = "flock"), o)
RemoveCard(c, k) == Entrust(c, Remove(store["wallet"], k), "wallet")

(* The manager of the locked objects tests the list in memory first, in a  *)
(* lock of its own: FolderLock has the two steps.                          *)
RemoveFlock(c, k) ==
    /\ store["flock"].list[k] # NoEntry
    /\ Entrust(c, Remove(store["flock"], k), "flock")
ChangeFlock(c, k, v) ==
    /\ store["flock"].list[k] # NoEntry
    /\ Entrust(c, Change(store["flock"], k, v), "flock")
ClearWallet(c) == Entrust(c, ClearFile(store["wallet"]), "wallet")
ClearFlocks(c) == Entrust(c, ClearList(store["flock"]), "flock")

(* getCard, getCards: isOk loads an empty list; nothing is written.        *)
ReadCards(c) ==
    Entrust(c, IfOk(store["wallet"], Refuse(Checked(store["wallet"]))), "wallet")

-----------------------------------------------------------------------------
(* setPassword of the Thrift interface: hasHash, then the keeper.          *)

HasNoHash(c, p) ==
    /\ call[c] = Idle
    /\ hash = NoPassword
    /\ call' = [call EXCEPT ![c] = [at |-> "first", new |-> p]]
    /\ Disturbs(c, FALSE)
    /\ UNCHANGED <<store, hash, flocks>>

(* Another first password may have been faster; the hash file may fail to  *)
(* get its size.                                                           *)
FirstPassword(c) ==
    /\ At(c, "first")
    /\ \/ hash' = call[c].new
       \/ hash = NoPassword /\ UNCHANGED hash
    /\ Returns(c)
    /\ Disturbs(c, hash # NoPassword)
    /\ UNCHANGED <<store, flocks>>

-----------------------------------------------------------------------------
(* login: the password is tested by the handler and by initMasterPassword, *)
(* written once more by the keeper, and handed to one system after another.*)

Login(c, p) ==
    /\ call[c] = Idle
    /\ hash = p
    /\ call' = [call EXCEPT ![c] = [at |-> "init", new |-> p]]
    /\ Disturbs(c, FALSE)
    /\ UNCHANGED <<store, hash, flocks>>

InitMasterPassword(c) ==
    /\ At(c, "init")
    /\ IF hash = call[c].new THEN Goes(c, "keep") ELSE Returns(c)
    /\ Disturbs(c, FALSE)
    /\ UNCHANGED <<store, hash, flocks>>

(* The mapped hash is written; the flush that follows may fail. *)
KeepPassword(c) ==
    /\ At(c, "keep")
    /\ hash' = call[c].new
    /\ Goes(c, "giveFlock") \/ Returns(c)
    /\ Disturbs(c, FALSE)
    /\ UNCHANGED <<store, flocks>>

GiveFlock(c) ==
    /\ At(c, "giveFlock")
    /\ TellFlock(c, call[c].new)
    /\ Goes(c, "loadFlock")
    /\ Disturbs(c, FALSE)
    /\ UNCHANGED hash

LoadFlock(c) ==
    /\ Loads(c, "loadFlock", "swapFlock", "giveWallet")
    /\ Disturbs(c, FALSE)
    /\ UNCHANGED hash

GiveWallet(c) ==
    /\ At(c, "giveWallet")
    /\ Becomes("wallet", SetPassword(store["wallet"], call[c].new))
    /\ Returns(c)
    /\ Disturbs(c, FALSE)
    /\ UNCHANGED <<hash, flocks>>

-----------------------------------------------------------------------------
(* changePassword: the wallet first, the locked objects, the hash last.    *)

ChangePassword(c, new, current) ==
    /\ call[c] = Idle
    /\ hash = current
    /\ call' = [call EXCEPT ![c] =
                   [at |-> "wallet", new |-> new, current |-> current]]
    /\ disturbed' = (disturbed \/ \E d \in Others(c) : call[d] # Idle)
    /\ UNCHANGED <<store, hash, flocks>>

(* A store encodes with password p what decodes with the current one.      *)
Encodes(c, o, p, step, failing) ==
    \E answer \in ReEncrypt(store[o], p, call[c].current) :
        /\ Operates(c, o, answer)
        /\ IF answer.ok THEN Goes(c, step)
           ELSE IF failing = "none" THEN Returns(c) ELSE Goes(c, failing)
        /\ Disturbs(c, ~answer.ok)

ReEncryptWallet(c) ==
    /\ At(c, "wallet")
    /\ Encodes(c, "wallet", call[c].new, "walletPassword", "none")
    /\ UNCHANGED hash

WalletPassword(c) ==
    /\ At(c, "walletPassword")
    /\ Becomes("wallet", SetPassword(store["wallet"], call[c].new))
    /\ Goes(c, "flock")
    /\ Disturbs(c, FALSE)
    /\ UNCHANGED <<hash, flocks>>

ReEncryptFlock(c) ==
    /\ At(c, "flock")
    /\ Encodes(c, "flock", call[c].new, "flockPassword", "undo")
    /\ UNCHANGED hash

FlockPassword(c) ==
    /\ At(c, "flockPassword")
    /\ TellFlock(c, call[c].new)
    /\ Goes(c, "flockLoad")
    /\ Disturbs(c, FALSE)
    /\ UNCHANGED hash

FlockLoad(c) ==
    /\ Loads(c, "flockLoad", "flockSwap", "hash")
    /\ Disturbs(c, FALSE)
    /\ UNCHANGED hash

(* Seeded defects: the hash is left alone; the systems are told once more. *)
HashForgotten(c) == At(c, "hash") /\ Returns(c) /\ UNCHANGED <<store, hash, disturbed, flocks>>
HashAndTell(c) ==
    /\ At(c, "hash")
    /\ hash' = call[c].new
    /\ Goes(c, "giveFlock")
    /\ UNCHANGED <<store, disturbed, flocks>>

NewHash(c) ==
    /\ At(c, "hash")
    /\ hash' = call[c].new
    /\ Returns(c)
    /\ Disturbs(c, FALSE)
    /\ UNCHANGED <<store, flocks>>

(* "Roll back wallet's data.": from the current password to the current    *)
(* one, though the data is encoded with the new one by now.                *)
UndoWallet(c) ==
    /\ At(c, "undo")
    /\ Encodes(c, "wallet", call[c].current, "undoPassword", "none")
    /\ UNCHANGED hash

UndoPassword(c) ==
    /\ At(c, "undoPassword")
    /\ Becomes("wallet", SetPassword(store["wallet"], call[c].current))
    /\ Returns(c)
    /\ Disturbs(c, FALSE)
    /\ UNCHANGED <<hash, flocks>>

-----------------------------------------------------------------------------
(* The process ends, in whatever it was doing, and is started again. *)
Restart ==
    /\ \E opens \in [Owner -> BOOLEAN] :
          store' = [o \in Owner |-> Reborn(store[o], opens[o])]
    /\ call' = [c \in Client |-> Idle]
    /\ writing' = Nobody
    /\ load' = [c \in Client |-> NotLoading]
    /\ raced' = FALSE
    /\ disturbed' = (disturbed \/ \E c \in Client : Changing(c))
    /\ UNCHANGED hash

StoreCall(c) ==
    \/ \E k \in Card : RemoveCard(c, k)
    \/ \E k \in Path : RemoveFlock(c, k)
    \/ \E k \in Card, v \in Value : AddEntry(c, "wallet", k, v)
    \/ \E k \in Path, v \in Value : AddEntry(c, "flock", k, v) \/ ChangeFlock(c, k, v)
    \/ ClearWallet(c)
    \/ ClearFlocks(c)
    \/ ReadCards(c)

LoginNext(c) ==
    \/ InitMasterPassword(c)
    \/ KeepPassword(c)
    \/ GiveFlock(c)
    \/ LoadFlock(c)
    \/ GiveWallet(c)

ChangeNext(c) ==
    \/ ReEncryptWallet(c)
    \/ WalletPassword(c)
    \/ ReEncryptFlock(c)
    \/ FlockPassword(c)
    \/ FlockLoad(c)
    \/ NewHash(c)
    \/ UndoWallet(c)
    \/ UndoPassword(c)

Next ==
    \/ \E c \in Client :
          \/ /\ writing # c
             /\ \/ StoreCall(c)
                \/ \E p \in Password : HasNoHash(c, p) \/ Login(c, p)
                \/ \E new, current \in Password : ChangePassword(c, new, current)
                \/ FirstPassword(c)
                \/ LoginNext(c)
                \/ ChangeNext(c)
          \/ FlushEnds(c)
    \/ Restart

Spec == Init /\ [][Next]_vars
=============================================================================
