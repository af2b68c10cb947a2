-------------------------- MODULE EntryStoreProofs ---------------------------
(***************************************************************************)
(* What an operation of a store may answer and leave behind, for every set *)
(* of keys, values and passwords: the facts the proofs about the master    *)
(* password and the locked objects rest on.                                *)
(***************************************************************************)
EXTENDS EntryStore, TLAPS

(* Whatever is in memory and in the file is encoded with q. *)
IsBy(contents, q) == \A k \in Key : contents[k].by \in {q, NoPassword}
EncodedBy(s, q) == IsBy(s.list, q) /\ IsBy(s.disk, q)

(* How an operation on s ends: refused, perhaps loaded, written, or failed *)
(* and closed.                                                             *)
Ends(s, a) ==
    \/ ~a.ok /\ a.store = s
    \/ ~a.ok /\ s.opened /\ a.store = Checked(s)
    \/ a.ok /\ s.opened /\ a.store.opened /\ a.store.list = a.store.disk
    \/ ~a.ok /\ s.opened /\ ~a.store.opened

Outcome(s, a, q) ==
    /\ a.ok \in BOOLEAN
    /\ a.store \in Store
    /\ a.store.password = s.password
    /\ Ends(s, a)
    /\ EncodedBy(s, q) /\ s.password \in {q, NoPassword} => EncodedBy(a.store, q)

-----------------------------------------------------------------------------
(* Only the empty entry says it is encoded with no password. *)
LEMMA EntryFacts ==
    ASSUME NEW x \in Entry \cup {NoEntry}
    PROVE  /\ x.by \in Password \cup {NoPassword}
           /\ x.by = NoPassword <=> x = NoEntry
           /\ x # NoEntry => x.value \in Value
BY StoreAssumption DEF Entry, NoEntry

(* A file without entries. *)
LEMMA NothingFacts == Nothing \in Contents /\ \A q : IsBy(Nothing, q)
BY DEF Nothing, Contents, IsBy, NoEntry

(* Reading keeps what the password decodes. *)
LEMMA ReadableFacts ==
    ASSUME NEW contents \in Contents, NEW p
    PROVE  /\ Readable(contents, p) \in Contents
           /\ \A q : IsBy(contents, q) => IsBy(Readable(contents, p), q)
           /\ IsBy(contents, p) => Readable(contents, p) = contents
<1>1. Readable(contents, p) \in Contents
    BY DEF Readable, Contents
<1>2. ASSUME NEW q, IsBy(contents, q) PROVE IsBy(Readable(contents, p), q)
    BY <1>2 DEF Readable, IsBy, NoEntry
<1>3. ASSUME IsBy(contents, p) PROVE Readable(contents, p) = contents
    <2>1. \A k \in Key : contents[k] \in Entry \cup {NoEntry}
        BY DEF Contents
    <2>2. \A k \in Key : Readable(contents, p)[k] = contents[k]
        BY <1>3, <2>1, EntryFacts DEF Readable, IsBy
    <2> QED
        BY <1>1, <2>2 DEF Contents
<1> QED
    BY <1>1, <1>2, <1>3

(* Loading an empty list leaves everything else as it is. *)
LEMMA CheckedFacts ==
    ASSUME NEW s \in Store, NEW q
    PROVE  /\ Loaded(s) \in Store /\ Checked(s) \in Store
           /\ Checked(s).password = s.password
           /\ Checked(s).opened = s.opened
           /\ Checked(s).disk = s.disk
           /\ Checked(s).list \in {s.list, Readable(s.disk, s.password)}
           /\ EncodedBy(s, q) => EncodedBy(Checked(s), q) /\ EncodedBy(Loaded(s), q)
<1>1. s.disk \in Contents
    BY DEF Store
<1>2. Readable(s.disk, s.password) \in Contents
    BY <1>1, ReadableFacts
<1>3. Loaded(s) \in Store
    BY <1>2 DEF Loaded, Store
<1>4. EncodedBy(s, q) => EncodedBy(Loaded(s), q)
    BY <1>1, ReadableFacts DEF EncodedBy, Loaded, Store
<1> QED
    BY <1>3, <1>4 DEF Checked, Loaded, Store

(* A part of a file is made of its entries. *)
LEMMA CutFacts ==
    ASSUME NEW contents \in Contents, NEW n
    PROVE  /\ Cut(contents, n) \in Contents
           /\ \A q : IsBy(contents, q) => IsBy(Cut(contents, n), q)
<1>1. Cut(contents, n) \in Contents
    BY DEF Cut, Contents
<1>2. ASSUME NEW q, IsBy(contents, q) PROVE IsBy(Cut(contents, n), q)
    BY <1>2 DEF Cut, IsBy, NoEntry
<1> QED
    BY <1>1, <1>2

(* A write makes the file the list, or closes the store. *)
LEMMA FlushFacts ==
    ASSUME NEW s \in Store, NEW after \in Contents, NEW a \in Flush(s, after)
    PROVE  /\ a.ok \in BOOLEAN
           /\ a.store \in Store
           /\ a.store.password = s.password
           /\ \/ a.ok /\ a.store = [s EXCEPT !.disk = s.list]
              \/ ~a.ok /\ ~a.store.opened /\ a.store.list = after
           /\ \A q : IsBy(s.list, q) /\ IsBy(after, q) => EncodedBy(a.store, q)
<1>0. s.list \in Contents
    BY DEF Store
<1>1. CASE a = Answer(TRUE, [s EXCEPT !.disk = s.list])
    BY <1>1, <1>0 DEF Answer, Store, EncodedBy
<1>2. ASSUME NEW n \in CutPoints(s.list),
             a = Answer(FALSE, [s EXCEPT !.list = after, !.opened = FALSE,
                                         !.disk = Cut(s.list, n)])
      PROVE  /\ a.ok = FALSE /\ a.store \in Store
             /\ a.store.password = s.password
             /\ ~a.store.opened /\ a.store.list = after
             /\ a.store.disk = Cut(s.list, n)
    BY <1>2, <1>0, CutFacts DEF Answer, Store
<1> QED
    BY <1>0, <1>1, <1>2, CutFacts DEF Flush, FlushFails, EncodedBy

-----------------------------------------------------------------------------
(* An operation that writes list L, and leaves after when that fails. *)
LEMMA WriteOutcome ==
    ASSUME NEW s \in Store, s.opened, NEW q,
           NEW L \in Contents, NEW after \in Contents,
           NEW a \in Flush([Checked(s) EXCEPT !.list = L], after),
           EncodedBy(s, q) /\ s.password \in {q, NoPassword} =>
               IsBy(L, q) /\ IsBy(after, q)
    PROVE  Outcome(s, a, q)
<1> DEFINE new == [Checked(s) EXCEPT !.list = L]
<1>1. /\ Checked(s) \in Store
      /\ Checked(s).password = s.password
      /\ Checked(s).opened = s.opened
    BY CheckedFacts
<1>2. /\ new \in Store /\ new.list = L
      /\ new.opened = s.opened /\ new.password = s.password
    BY <1>1 DEF Store
<1> HIDE DEF new
<1>3. /\ a.ok \in BOOLEAN
      /\ a.store \in Store
      /\ a.store.password = new.password
      /\ \/ a.ok /\ a.store = [new EXCEPT !.disk = new.list]
         \/ ~a.ok /\ ~a.store.opened /\ a.store.list = after
      /\ IsBy(new.list, q) /\ IsBy(after, q) => EncodedBy(a.store, q)
    BY <1>2, FlushFacts DEF new
<1>4. Ends(s, a)
    <2>1. CASE a.ok /\ a.store = [new EXCEPT !.disk = new.list]
        BY <2>1, <1>2 DEF Ends, Store
    <2>2. CASE ~a.ok /\ ~a.store.opened
        BY <2>2 DEF Ends
    <2> QED
        BY <1>3, <2>1, <2>2
<1> QED
    BY <1>2, <1>3, <1>4 DEF Outcome

(* A refusal leaves the store, or the loaded one. *)
LEMMA RefuseOutcome ==
    ASSUME NEW s \in Store, NEW q,
           NEW a \in Refuse(s) \cup (IF s.opened THEN Refuse(Checked(s)) ELSE {})
    PROVE  Outcome(s, a, q)
<1>1. a.ok = FALSE /\ (a.store = s \/ (s.opened /\ a.store = Checked(s)))
    BY DEF Refuse, Answer
<1> QED
    BY <1>1, CheckedFacts DEF Outcome, Ends

(* Entries enter with the store's own password. *)
LEMMA PutFacts ==
    ASSUME NEW s \in Store, NEW k \in Key, NEW v \in Value, NEW q,
           s.password # NoPassword
    PROVE  LET L == [Checked(s).list EXCEPT ![k] = [by |-> s.password, value |-> v]]
           IN  /\ L \in Contents
               /\ EncodedBy(s, q) /\ s.password \in {q, NoPassword} => IsBy(L, q)
<1> DEFINE x == [by |-> s.password, value |-> v]
           L == [Checked(s).list EXCEPT ![k] = x]
<1>1. Checked(s) \in Store /\ (EncodedBy(s, q) => EncodedBy(Checked(s), q))
    BY CheckedFacts
<1>2. x \in Entry
    BY DEF Entry, Store
<1>3. Checked(s).list \in Contents
    BY <1>1 DEF Store
<1>4. L \in Contents
    BY <1>2, <1>3 DEF Contents
<1>5. \A j \in Key : L[j] = IF j = k THEN x ELSE Checked(s).list[j]
    BY <1>3 DEF Contents
<1>6. ASSUME EncodedBy(s, q), s.password \in {q, NoPassword} PROVE IsBy(L, q)
    <2>1. \A j \in Key : Checked(s).list[j].by \in {q, NoPassword}
        BY <1>1, <1>6 DEF EncodedBy, IsBy
    <2>2. x.by \in {q, NoPassword}
        BY <1>6
    <2> HIDE DEF x, L
    <2> QED
        BY <1>5, <2>1, <2>2 DEF IsBy
<1> QED
    BY <1>4, <1>6

(* Adding a card or a locked object. *)
LEMMA AddOutcome ==
    ASSUME NEW s \in Store, NEW k \in Key, NEW v \in Value, NEW kept \in BOOLEAN,
           NEW q, NEW a \in Add(s, k, v, kept)
    PROVE  Outcome(s, a, q)
<1> DEFINE c == Checked(s)
           L == [c.list EXCEPT ![k] = [by |-> s.password, value |-> v]]
           after == IF kept THEN L ELSE c.list
<1>0. c \in Store /\ c.password = s.password /\ (EncodedBy(s, q) => EncodedBy(c, q))
    BY CheckedFacts
<1>1. [c EXCEPT !.list[k] = [by |-> c.password, value |-> v]] = [c EXCEPT !.list = L]
    BY <1>0
<1>2. CASE ~s.opened \/ c.list[k] # NoEntry \/ s.password = NoPassword
    <2>1. a \in Refuse(s) \cup (IF s.opened THEN Refuse(c) ELSE {})
        BY <1>0, <1>2 DEF Add, IfOk
    <2> QED
        BY <2>1, RefuseOutcome
<1>3. CASE s.opened /\ c.list[k] = NoEntry /\ s.password # NoPassword
    <2>0. L \in Contents /\
          (EncodedBy(s, q) /\ s.password \in {q, NoPassword} => IsBy(L, q))
        BY <1>3, PutFacts
    <2>1. c.list \in Contents
        BY <1>0 DEF Store
    <2>2. after \in Contents /\
          (EncodedBy(s, q) /\ s.password \in {q, NoPassword} => IsBy(after, q))
        BY <1>0, <2>0, <2>1 DEF EncodedBy
    <2>3. [c EXCEPT !.list = L].list = L
        BY <1>0 DEF Store
    <2>4. a \in Flush([c EXCEPT !.list = L], after)
        BY <1>0, <1>1, <1>3, <2>3 DEF Add, IfOk
    <2> HIDE DEF after, L, c
    <2> QED
        BY <1>3, <2>0, <2>2, <2>4, WriteOutcome DEF c
<1> QED
    BY <1>2, <1>3

(* Taking one out. *)
LEMMA RemoveOutcome ==
    ASSUME NEW s \in Store, NEW k \in Key, NEW q, NEW a \in Remove(s, k)
    PROVE  Outcome(s, a, q)
<1> DEFINE c == Checked(s)
           L == [c.list EXCEPT ![k] = NoEntry]
<1>0. c \in Store /\ (EncodedBy(s, q) => EncodedBy(c, q))
    BY CheckedFacts
<1>1. c.list \in Contents
    BY <1>0 DEF Store
<1>2. L \in Contents
    BY <1>1 DEF Contents
<1>3. \A j \in Key : L[j] = IF j = k THEN NoEntry ELSE c.list[j]
    BY <1>1 DEF Contents
<1>4. ASSUME EncodedBy(s, q) PROVE IsBy(L, q)
    <2>1. \A j \in Key : c.list[j].by \in {q, NoPassword}
        BY <1>0, <1>4 DEF EncodedBy, IsBy
    <2>2. NoEntry.by = NoPassword
        BY DEF NoEntry
    <2> HIDE DEF c, L
    <2> QED
        BY <1>3, <2>1, <2>2 DEF IsBy
<1>5. [c EXCEPT !.list[k] = NoEntry] = [c EXCEPT !.list = L]
      /\ [c EXCEPT !.list = L].list = L
    BY <1>0 DEF Store
<1>6. CASE ~s.opened
    BY <1>6, RefuseOutcome DEF Remove, IfOk
<1>7. CASE s.opened
    <2>1. a \in Flush([c EXCEPT !.list = L], L)
        BY <1>5, <1>7 DEF Remove, IfOk
    <2> HIDE DEF L, c
    <2> QED
        BY <1>2, <1>4, <1>7, <2>1, WriteOutcome DEF c
<1> QED
    BY <1>6, <1>7

(* A new state of a locked object. *)
LEMMA ChangeOutcome ==
    ASSUME NEW s \in Store, NEW k \in Key, NEW v \in Value, NEW q,
           NEW a \in Change(s, k, v)
    PROVE  Outcome(s, a, q)
<1> DEFINE c == Checked(s)
           L == [c.list EXCEPT ![k] = [by |-> s.password, value |-> v]]
<1>0. c \in Store /\ c.password = s.password
    BY CheckedFacts
<1>1. [c EXCEPT !.list[k] = [by |-> c.password, value |-> v]] = [c EXCEPT !.list = L]
      /\ [c EXCEPT !.list = L].list = L
    BY <1>0 DEF Store
<1>2. CASE ~s.opened \/ c.list[k] = NoEntry \/ c.list[k].by # c.password
    <2>1. a \in Refuse(s) \cup (IF s.opened THEN Refuse(c) ELSE {})
        BY <1>2 DEF Change, IfOk
    <2> QED
        BY <2>1, RefuseOutcome
<1>3. CASE s.opened /\ c.list[k] # NoEntry /\ c.list[k].by = c.password
    <2>1. s.password # NoPassword
        BY <1>0, <1>3, EntryFacts DEF Store, Contents
    <2>2. L \in Contents /\
          (EncodedBy(s, q) /\ s.password \in {q, NoPassword} => IsBy(L, q))
        BY <2>1, PutFacts
    <2>3. a \in Flush([c EXCEPT !.list = L], L)
        BY <1>1, <1>3 DEF Change, IfOk
    <2> HIDE DEF L, c
    <2> QED
        BY <1>3, <2>2, <2>3, WriteOutcome DEF c
<1> QED
    BY <1>2, <1>3

(* Emptying a list, and emptying the wallet. *)
LEMMA ClearListOutcome ==
    ASSUME NEW s \in Store, NEW q, NEW a \in ClearList(s)
    PROVE  Outcome(s, a, q)
<1>0. Checked(s) \in Store
    BY CheckedFacts
<1>1. CASE ~s.opened
    BY <1>1, RefuseOutcome DEF ClearList, IfOk
<1>2. CASE s.opened
    <2>1. a \in Flush([Checked(s) EXCEPT !.list = Nothing], Nothing)
        BY <1>2 DEF ClearList, IfOk
    <2> QED
        BY <1>2, <2>1, NothingFacts, WriteOutcome
<1> QED
    BY <1>1, <1>2

LEMMA ClearFileOutcome ==
    ASSUME NEW s \in Store, NEW q, NEW a \in ClearFile(s)
    PROVE  Outcome(s, a, q)
<1>1. CASE ~s.opened
    BY <1>1, RefuseOutcome DEF ClearFile, IfOk
<1>2. CASE s.opened
    <2> DEFINE empty == [s EXCEPT !.list = Nothing, !.disk = Nothing]
               failed == [s EXCEPT !.disk = Nothing, !.opened = FALSE]
    <2>1. \/ a.ok = TRUE /\ a.store = empty
          \/ a.ok = FALSE /\ a.store = failed
        BY <1>2 DEF ClearFile, IfOk, Answer
    <2>2. /\ empty \in Store /\ empty.list = Nothing /\ empty.disk = Nothing
          /\ empty.opened = s.opened /\ empty.password = s.password
        BY NothingFacts DEF Store
    <2>3. /\ failed \in Store /\ failed.list = s.list /\ failed.disk = Nothing
          /\ failed.opened = FALSE /\ failed.password = s.password
        BY NothingFacts DEF Store
    <2>4. IsBy(Nothing, q)
        BY NothingFacts
    <2> HIDE DEF empty, failed
    <2> QED
        BY <1>2, <2>1, <2>2, <2>3, <2>4 DEF Outcome, Ends, EncodedBy
<1> QED
    BY <1>1, <1>2

-----------------------------------------------------------------------------
(* What an encoding with a new password leaves.  If it reports success the *)
(* file is the list, and all of it is encoded with the new password.       *)
LEMMA ReEncryptFacts ==
    ASSUME NEW s \in Store, NEW new \in Password, NEW old \in Password,
           NEW a \in ReEncrypt(s, new, old)
    PROVE  /\ a.ok \in BOOLEAN
           /\ a.store \in Store
           /\ a.store.password = s.password
           /\ ~s.opened => ~a.ok /\ a.store = s
           /\ a.ok => /\ a.store.opened
                      /\ a.store.list = a.store.disk
                      /\ EncodedBy(a.store, new)
           /\ s.opened => Writes(s, a)
<1> DEFINE c == Checked(s)
           L == Reencoded(c.list, new, old)
<1>0. c \in Store /\ c.password = s.password /\ c.opened = s.opened
    BY CheckedFacts
<1>1. c.list \in Contents
    BY <1>0 DEF Store
<1>2. L \in Contents /\ IsBy(L, new)
    <2>1. ASSUME NEW k \in Key, c.list[k].by = old
          PROVE  /\ [c.list[k] EXCEPT !.by = new] \in Entry
                 /\ [c.list[k] EXCEPT !.by = new].by = new
        <3>1. c.list[k] \in Entry
            BY <1>1, <2>1, StoreAssumption DEF Contents, NoEntry
        <3> QED
            BY <3>1 DEF Entry
    <2>2. \A k \in Key : L[k] \in Entry \cup {NoEntry} /\ L[k].by \in {new, NoPassword}
        BY <2>1 DEF Reencoded, NoEntry
    <2>3. L = [k \in Key |-> L[k]]
        BY DEF Reencoded
    <2> QED
        BY <2>2, <2>3 DEF Contents, IsBy
<1>3. [c EXCEPT !.list = L] \in Store /\ [c EXCEPT !.list = L].list = L
      /\ [c EXCEPT !.list = L].opened = s.opened
      /\ [c EXCEPT !.list = L].password = s.password
    BY <1>0, <1>2 DEF Store
<1>4. CASE ~s.opened
    <2>1. a \in Refuse(s)
        BY <1>4 DEF ReEncrypt, IfOk
    <2>2. a.ok = FALSE /\ a.store = s
        BY <2>1 DEF Refuse, Answer
    <2> QED
        BY <1>4, <2>2
<1>5. CASE s.opened
    <2>1. [c EXCEPT !.list = Reencoded(@, new, old)] = [c EXCEPT !.list = L]
        BY <1>0 DEF Store
    <2>2. a \in Flush([c EXCEPT !.list = L], c.list)
        BY <1>5, <2>1 DEF ReEncrypt, IfOk
    <2> DEFINE n == [c EXCEPT !.list = L]
    <2>3. n \in Store /\ n.list = L /\ n.opened /\ n.password = s.password
        BY <1>3, <1>5
    <2>4. a \in Flush(n, c.list)
        BY <2>2
    <2> HIDE DEF n, L, c
    <2>5. /\ a.ok \in BOOLEAN
          /\ a.store \in Store
          /\ a.store.password = n.password
          /\ a.ok => a.store = [n EXCEPT !.disk = n.list]
          /\ ~a.ok => ~a.store.opened
        BY <1>1, <2>3, <2>4, FlushFacts
    <2>6. a.ok => /\ a.store.opened /\ a.store.list = L /\ a.store.disk = L
        BY <2>3, <2>5 DEF Store
    <2> QED
        BY <1>2, <1>5, <2>3, <2>5, <2>6 DEF EncodedBy, Writes
<1> QED
    BY <1>4, <1>5

(* Setting the password, and a new process. *)
LEMMA SetPasswordFacts ==
    ASSUME NEW s \in Store, NEW p \in Password
    PROVE  /\ SetPassword(s, p) \in Store
           /\ SetPassword(s, p).list = s.list /\ SetPassword(s, p).disk = s.disk
           /\ SetPassword(s, p).opened = s.opened
           /\ SetPassword(s, p).password = p
BY DEF SetPassword, Store

LEMMA RebornFacts ==
    ASSUME NEW s \in Store, NEW opens \in BOOLEAN, NEW q
    PROVE  /\ Reborn(s, opens) \in Store
           /\ Reborn(s, opens).list = Nothing
           /\ Reborn(s, opens).disk = s.disk
           /\ Reborn(s, opens).opened = opens
           /\ Reborn(s, opens).password = NoPassword
           /\ EncodedBy(s, q) => EncodedBy(Reborn(s, opens), q)
BY NothingFacts DEF Reborn, Store, EncodedBy

-----------------------------------------------------------------------------
(* What a store loads is all of its file, or nothing. *)
LEMMA LoadsAll ==
    ASSUME NEW s \in Store, NEW q, EncodedBy(s, q), s.password \in {NoPassword, q}
    PROVE  Readable(s.disk, s.password) \in {Nothing, s.disk}
<1>1. s.disk \in Contents
    BY DEF Store
<1>2. CASE s.password = q
    BY <1>1, <1>2, ReadableFacts DEF EncodedBy
<1>3. CASE s.password = NoPassword
    <2>1. \A k \in Key : s.disk[k] \in Entry \cup {NoEntry}
        BY <1>1 DEF Contents
    <2>2. \A k \in Key : Readable(s.disk, s.password)[k] = NoEntry
        BY <1>3, <2>1, EntryFacts DEF Readable
    <2> QED
        BY <2>2 DEF Readable, Nothing
<1> QED
    BY <1>2, <1>3

(* A part of a file is made of its entries. *)
LEMMA PartFacts ==
    ASSUME NEW contents \in Contents, NEW part \in Parts(contents)
    PROVE  /\ part \in Contents
           /\ \A q : IsBy(contents, q) => IsBy(part, q)
BY CutFacts DEF Parts

(* What a load has read: entries of the file, and without a write all of   *)
(* them or none.                                                           *)
LEMMA ReadsFacts ==
    ASSUME NEW s \in Store, NEW underWrite \in BOOLEAN, NEW q, EncodedBy(s, q),
           NEW read \in Reads(s, underWrite)
    PROVE  /\ IsBy(read, q)
           /\ ~underWrite /\ s.password \in {NoPassword, q} =>
                  read \in {Nothing, s.disk}
<1>1. s.disk \in Contents /\ IsBy(s.disk, q)
    BY DEF Store, EncodedBy
<1>2. PICK part \in IF underWrite THEN Parts(s.disk) ELSE {s.disk} :
          read = Readable(part, s.password)
    BY DEF Reads
<1>3. part \in Contents /\ IsBy(part, q)
    BY <1>1, <1>2, PartFacts
<1>4. IsBy(read, q)
    BY <1>2, <1>3, ReadableFacts
<1>5. ASSUME ~underWrite, s.password \in {NoPassword, q}
      PROVE  read \in {Nothing, s.disk}
    BY <1>2, <1>5, LoadsAll
<1> QED
    BY <1>4, <1>5

LEMMA ReadsType ==
    ASSUME NEW s \in Store, NEW underWrite \in BOOLEAN, NEW read \in Reads(s, underWrite)
    PROVE  read \in Contents
<1>1. s.disk \in Contents
    BY DEF Store
<1>2. PICK part \in IF underWrite THEN Parts(s.disk) ELSE {s.disk} :
          read = Readable(part, s.password)
    BY DEF Reads
<1> QED
    BY <1>1, <1>2, PartFacts, ReadableFacts

(* What a load leaves of a store: entries of the file or of what was read, *)
(* and outside a write the file itself.                                    *)
LEMMA SwappedFacts ==
    ASSUME NEW s \in Store, NEW list \in Contents, NEW underWrite \in BOOLEAN,
           NEW t \in Swapped(s, list, underWrite)
    PROVE  /\ t \in Store
           /\ t.password = s.password
           /\ t.opened => s.opened
           /\ ~s.opened => t.disk = s.disk
           /\ \A q : EncodedBy(s, q) /\ IsBy(list, q) => EncodedBy(t, q)
           /\ ~underWrite =>
                 /\ t.list = list
                 /\ t.disk = s.disk
                 /\ t.opened = s.opened
<1>0. s.disk \in Contents
    BY DEF Store
<1>1. CASE ~underWrite
    <2>1. t = [s EXCEPT !.list = list]
        BY <1>1 DEF Swapped
    <2> QED
        BY <1>1, <2>1 DEF Store, EncodedBy
<1>2. CASE underWrite /\ t = s
    BY <1>2
<1>3. CASE underWrite /\ t # s
    <2>1. /\ t \in [list : {list},
                    disk : IF s.opened THEN Parts(s.disk) \cup Parts(list)
                           ELSE {s.disk},
                    opened : BOOLEAN,
                    password : {s.password}]
          /\ t.opened => s.opened
        BY <1>3 DEF Swapped, Torn
    <2>2. t.list = list /\ t.opened \in BOOLEAN /\ t.password = s.password
        BY <2>1
    <2>3. t.disk = s.disk \/ (s.opened /\ t.disk \in Parts(s.disk) \cup Parts(list))
        BY <2>1
    <2>4. /\ t.disk \in Contents
          /\ \A q : IsBy(s.disk, q) /\ IsBy(list, q) => IsBy(t.disk, q)
        BY <1>0, <2>3, PartFacts
    <2>5. t = [list |-> t.list, disk |-> t.disk, opened |-> t.opened,
               password |-> t.password]
        BY <2>1
    <2>6. t \in Store
        BY <2>2, <2>4, <2>5 DEF Store
    <2> QED
        BY <1>3, <2>1, <2>2, <2>3, <2>4, <2>6 DEF EncodedBy
<1> QED
    BY <1>1, <1>2, <1>3
=============================================================================
