------------------------- MODULE MasterPasswordProps -------------------------
(***************************************************************************)
(* The properties of the master password and the stores under it.          *)
(***************************************************************************)
EXTENDS MasterPassword

PasswordTypeOK ==
    /\ store \in [Owner -> Store]
    /\ hash \in Password \cup {NoPassword}
    /\ call \in [Client -> Call]
    /\ writing \in Client \cup {Nobody}
    /\ load \in [Client -> UnlockedLoad]
    /\ {disturbed, raced} \subseteq BOOLEAN

(* "Decodes data with current password and encodes with new password.":    *)
(* between calls every entry of both files is encoded with the password    *)
(* the hash stands for, if no change of the password was disturbed.  The   *)
(* order of the steps, failed writes of other calls, deaths before and     *)
(* after a change and logins in any state may not break it.                *)
EntriesReadable ==
    ~disturbed /\ (\A c \in Client : ~Changing(c)) =>
        \A o \in Owner, k \in Key : store[o].disk[k].by \in {NoPassword, hash}

(* What a client is shown is stored: the list of an open store is empty    *)
(* (not loaded) or all of what its password decodes in the file.  Only the *)
(* load of the locked objects, which takes no lock, breaks this: what one  *)
(* that overlapped a write put into the list stays there until the next    *)
(* write or the next load.  Loads that overlap no write, in any order with *)
(* the operations of other clients, do not.                                *)
Raced(o) == o = "flock" /\ raced

ListIsOnDisk ==
    ~disturbed => \A o \in Owner :
        LET s == store[o]
        IN  s.opened /\ ~Raced(o) => s.list \in {Nothing, s.disk}

(* What a client stored stays in the file.  An entry leaves it when a      *)
(* client asks for that and when a write fails.  The code adds two ways.   *)
(* While nobody has logged in a store has no password and loads nothing,   *)
(* and what it then writes is that empty list.  And a load of the locked   *)
(* objects that overlaps a write shortens the list, then or for the next   *)
(* write; the cards have no such load.                                     *)
Asked(o, k) == \E c \in Client :
    \/ o = "wallet" /\ (RemoveCard(c, k) \/ ClearWallet(c))
    \/ o = "flock" /\ (RemoveFlock(c, k) \/ ClearFlocks(c))

WriteFails(o) == store[o].opened /\ ~store'[o].opened

NobodyLoggedIn(o) == store[o].password = NoPassword

EntriesSurvive ==
    [][\A o \in Owner, k \in Key :
          store[o].disk[k] # NoEntry /\ store'[o].disk[k] = NoEntry =>
              \/ Asked(o, k)
              \/ WriteFails(o)
              \/ NobodyLoggedIn(o)
              \/ Raced(o) \/ Raced(o)'
              \/ disturbed']_vars

(* Nothing else gets into a file: an entry appears in it, or says another  *)
(* thing, only by the call of a client that asked for just that.  Failed   *)
(* writes with their rollbacks, logins, restarts and the encoding of a     *)
(* store with another password invent nothing and change no value, and an  *)
(* add never overwrites.  A write that a load got in the way of, or that   *)
(* writes what such a load left, may bring back or keep what was there.    *)
Altered(o, k) ==
    LET old == store[o].disk[k]
        new == store'[o].disk[k]
    IN  new # NoEntry /\ (old = NoEntry \/ old.value # new.value)

FileSaysWhatWasAsked ==
    [][\A o \in Owner, k \in Key :
          Altered(o, k) =>
              \/ /\ store[o].disk[k] = NoEntry
                 /\ \E c \in Client : AddEntry(c, o, k, store'[o].disk[k].value)
              \/ /\ store[o].disk[k] # NoEntry
                 /\ o = "flock"
                 /\ \E c \in Client : ChangeFlock(c, k, store'[o].disk[k].value)
              \/ Raced(o) \/ Raced(o)'
              \/ disturbed']_vars

(* "Reload if not." never does: a store a failed write closed answers no   *)
(* call and keeps its file as it is, until the process is restarted.       *)
ClosedStaysClosed ==
    [][\A o \in Owner : ~store[o].opened =>
          \/ ~store'[o].opened /\ store'[o].disk = store[o].disk
          \/ Restart]_vars
=============================================================================
