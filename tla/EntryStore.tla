----------------------------- MODULE EntryStore ------------------------------
(***************************************************************************)
(* An encrypted list of the service: the cards of the wallet               *)
(* (CardsStorage.cpp) or the locked objects (DgiFolderLockStorage.cpp), in *)
(* memory and in a mapped file (tstorage.h, mapper.h).                     *)
(*                                                                         *)
(* An operation that holds the store's lock is an operator here: the set   *)
(* of what it may answer and leave behind.  The load of the locked objects *)
(* takes no lock: it reads, and later swaps the list, and both may fall    *)
(* into a write of another thread.  An entry is the password it was        *)
(* encoded with and its value; another password decodes nothing.           *)
(***************************************************************************)
EXTENDS Integers

CONSTANTS
    Key,        \* card numbers, paths: numbered in the order of the map
    Value,      \* what an entry says
    Password,
    NoPassword  \* a password that is not set

ASSUME StoreAssumption == Key \subseteq Nat /\ NoPassword \notin Password

Entry == [by : Password, value : Value]
NoEntry == [by |-> NoPassword]
Contents == [Key -> Entry \cup {NoEntry}]
Nothing == [k \in Key |-> NoEntry]

Store == [
    list : Contents,        \* m_entries
    disk : Contents,        \* the file, also through its mapping
    opened : BOOLEAN,       \* the mapping is there
    password : Password \cup {NoPassword}]  \* m_masterPassword

Readable(contents, password) ==
    [k \in Key |-> IF contents[k].by = password THEN contents[k] ELSE NoEntry]

(* The entries with the first keys, as far as a write got. *)
Cut(contents, n) == [k \in Key |-> IF k < n THEN contents[k] ELSE NoEntry]

CutPoints(contents) ==
    {n \in Key : Cut(contents, n) # contents \/ contents = Nothing}

(* ok: the whole list was written, and is reported so.                     *)
Answer(ok, store) == [ok |-> ok, store |-> store]
Refuse(store) == {Answer(FALSE, store)}

(* loadCards, loadEntries of an open file. *)
Loaded(s) == [s EXCEPT !.list = Readable(s.disk, s.password)]

(* isOk.  reload() flushes the mapping first, and fails without one: a     *)
(* store that was closed by a failure stays closed.                        *)
(* Seeded defects: an empty list is taken as it is; a closed store answers. *)
CheckedOnce(s) == s
IfReloaded(s, answers) == answers

Checked(s) == IF s.list = Nothing THEN Loaded(s) ELSE s
IfOk(s, answers) == IF s.opened THEN answers ELSE Refuse(s)


(* flushCards, flushEntries of s.list.  The file is cut to nothing and     *)
(* grows entry by entry, mapped anew each time; a mapping that fails       *)
(* closes the store, which defeats the rollback too.                       *)
FlushFails(s, listAfter) ==
    {Answer(FALSE, [s EXCEPT !.list = listAfter, !.opened = FALSE,
                             !.disk = Cut(s.list, n)]) : n \in CutPoints(s.list)}

(* Seeded defect: the file is only appended to.                            *)
FlushAppended(s, listAfter) ==
    {Answer(TRUE, [s EXCEPT !.disk =
        [k \in Key |-> IF s.list[k] = NoEntry THEN s.disk[k] ELSE s.list[k]]])}
        \cup FlushFails(s, listAfter)

Flush(s, listAfter) ==
    {Answer(TRUE, [s EXCEPT !.disk = s.list])} \cup FlushFails(s, listAfter)

-----------------------------------------------------------------------------
(* A failed write leaves the new entry in the list of the locked objects   *)
(* (kept) and takes it out of the list of cards.                           *)
Add(s, k, v, kept) ==
    LET c == Checked(s)
        new == [c EXCEPT !.list[k] = [by |-> c.password, value |-> v]]
    IN  IfOk(s, IF c.list[k] # NoEntry \/ c.password = NoPassword
                THEN Refuse(c)
                ELSE Flush(new, IF kept THEN new.list ELSE c.list))

Remove(s, k) ==
    LET new == [Checked(s) EXCEPT !.list[k] = NoEntry]
    IN  IfOk(s, Flush(new, new.list))

(* setState, setStateById: only what decodes can change. *)
Change(s, k, v) ==
    LET c == Checked(s)
        new == [c EXCEPT !.list[k] = [by |-> c.password, value |-> v]]
    IN  IfOk(s, IF c.list[k] = NoEntry \/ c.list[k].by # c.password
                THEN Refuse(c)
                ELSE Flush(new, new.list))

ClearList(s) ==
    LET new == [Checked(s) EXCEPT !.list = Nothing]
    IN  IfOk(s, Flush(new, Nothing))

(* The wallet clears the file first and asks isOk nothing. *)
ClearFile(s) ==
    IfOk(s, {Answer(TRUE, [s EXCEPT !.list = Nothing, !.disk = Nothing]),
             Answer(FALSE, [s EXCEPT !.disk = Nothing, !.opened = FALSE])})

(* What the current password does not decode is dropped. *)
Reencoded(contents, new, current) ==
    [k \in Key |-> IF contents[k].by = current
                   THEN [contents[k] EXCEPT !.by = new] ELSE NoEntry]

(* reEncrypt; a failed write puts the old list back, in memory. *)
ReEncrypt(s, new, current) ==
    LET c == Checked(s)
    IN  IfOk(s, Flush([c EXCEPT !.list = Reencoded(@, new, current)], c.list))

SetPassword(s, p) == [s EXCEPT !.password = p]

-----------------------------------------------------------------------------
(* load() without the lock.  What it has read, and whether no write        *)
(* overlapped it so far.                                                   *)
UnlockedLoad == [read : Contents, clean : BOOLEAN]
NotLoading == [read |-> Nothing, clean |-> FALSE]

(* An answer after which the file was rewritten.                           *)
Writes(s, a) == s.opened /\ (a.ok \/ ~a.store.opened)

(* What a file that is being written holds meanwhile. *)
Parts(contents) == {contents} \cup {Cut(contents, n) : n \in Key}

Reads(s, underWrite) ==
    {Readable(part, s.password) :
        part \in IF underWrite THEN Parts(s.disk) ELSE {s.disk}}

(* A load that swaps in list, or maps the file anew, under a write.  It    *)
(* may come before the write makes its own list; else the write goes on    *)
(* over the old list or the new one, and what it maps may be gone.         *)
Torn(s, list) ==
    {s} \cup
    {t \in [list : {list},
            disk : IF s.opened THEN Parts(s.disk) \cup Parts(list) ELSE {s.disk},
            opened : BOOLEAN,
            password : {s.password}] : t.opened => s.opened}

Swapped(s, list, underWrite) ==
    IF underWrite THEN Torn(s, list) ELSE {[s EXCEPT !.list = list]}

(* The process ends; the next one opens the file, if it can. *)
Reborn(s, opens) ==
    [s EXCEPT !.list = Nothing, !.opened = opens, !.password = NoPassword]
=============================================================================
