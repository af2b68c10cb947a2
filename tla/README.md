# Data Guard: TLA+ models of the FLock driver and the service

Data Guard protects files and directories of a Windows user. Its core is the
**FLock minifilter driver** (`client/drivers/FLock/FLock`): a file that carries
"FLock meta" in its extended attributes names a rule, and while the driver's
storage holds a locking rule with that identifier, the file cannot be opened. A
user-mode **service** (`client/service/DgiService`) registers with the driver,
keeps an encrypted list of what is locked, sends it to the driver, marks files,
keeps an encrypted wallet under a master password, and erases and encrypts files
in the background, all over Thrift for a GUI and a console client.

These modules model the driver's state and the part of the service that has
state of its own. They are translated from the C and C++ sources; every
definition that stands for code is listed with its lines in `PROJECT.json`
("map").

## The system

| Part | State | Operations | Interacts with |
|---|---|---|---|
| File cache, `FLockCache.c` | open-addressing table of (MD5 of path, has meta?), counter | lookup, update-or-add, erase | called by post-create, directory listing |
| Rule storage, `FLockStorage.c` | array of (id, flags), length, allocated length, two gate flags, storage file, section and map | add, remove, update flags, clear, import, export, open, load, unload | called by every thread and filter of the driver |
| Threads, `FLock.c` | loader, flusher, flush event, stop flag | import at boot, flush on request, stop | storage; the dispatcher sets the event |
| Dispatcher, `FLockDispatcher.c` | none of its own | the IOCTLs of clients | storage, registration, file meta |
| Service registration, `FLock.c` | process number and process object | register, unregister, notice of a process's end, "are we the service?" | dispatcher, PreSetEa, process notice |
| Access filter, `requestCreate.c`, `requestSetEa.c`, `FLockHelpers.c` | the meta of files, what an opening has read so far | pre/post create, set EA | gates, cache, file system, rules, registration |
| Listing filters, `requestDirectoryControl.c`, `requestQueryEa.c` | none | hide entries | gates, cache, rules |
| Asynchronous requests, `AsyncDispatcher.cpp`, `AsyncRequestsKeeper.cpp` and their two users | table of request states, identifier counter, handler count, stored responses, detached threads | create, complete, ask, shut down | Thrift pool; erasing, encryption |
| Containers, `tstorage.h`, `mapper.h` | a mapped file | clear, append, flush, fill, reload | the two stores |
| Wallet and list of locked objects, `CardsStorage.cpp`, `DgiFolderLockStorage.cpp` | list in memory, file, password, one lock each | add, remove, change, clear, re-encrypt, load | containers; engine; folder lock manager |
| Master password, `DgiEngine.cpp`, `master-password.cpp`, `DgiMainService.cpp` | the hash file | first password, login, change | both stores |
| Folder lock, `DgiFolderLockManager.cpp` | none of its own | add, remove, change state, clear, send everything to the driver | the list's store, the driver's IOCTLs |
| Erasing and encryption of files, process and Thrift servers, FileErase driver, common driver code, installer, GUI, console | | | not modelled |

What makes the driver hard: the filters read the gate flags without a lock; an
opening reads gate, cache, attributes and rules one after the other while all of
them change; loader, flusher, clients and unload share one storage file and one
map; the power may go between two writes; registration has a comment where its
lock should be; and each array or table operation is right only together with
the others (probing of insert and lookup, growth and import).

What makes the service hard: every Thrift call runs on a thread of its own, each
of its steps has a lock of its own and no lock spans two steps; the load of the
locked objects takes none at all; a change of the password rewrites two files and
a hash one after the other; a file is rewritten by cutting it to nothing; the driver's list is rebuilt with one request per rule;
a handler thread reports through two tables with a lock each; any write, any
mapping and any request to the driver may fail, and the process may end anywhere.

What has to hold, for each part:

- **cache**: a lookup answers with the last verdict recorded or not at all; the
  recursive add ends;
- **storage**: a gate is never shut on a rule that can be found; scans stay
  inside the array; what was added is found, what was removed is gone;
- **threads**: a stored rule stays until someone removes it; a flush request is
  not lost; no map stays behind; the flusher ends at unload;
- **registration**: a dead process does not keep the slot, a new one does not
  inherit it;
- **access**: an opening of a file that is protected all along is denied;
- **requests**: an identifier names one request; a told request is finished one
  day and a finished one has its response; no handler outlives its dispatcher;
- **stores and password**: what is in a file can be decoded with the password
  the hash stands for; nothing leaves a file unasked; what is shown is stored;
- **folder lock**: after a transfer the driver has been told the list, all of it
  and nothing else.

`PROJECT.json` lists the components with their status and the hazards at their
lines.

## The modules

```
LossyMap            what the cache promises: the last value, or nothing
FLockCache          the hash table                     implements LossyMap
FLockStorage        rules, gates, storage file, power cuts
RuleBook            what the storage promises: whole files, single rules
  FLockDriver       EXTENDS FLockStorage: threads, handlers, unload
                                                         implements RuleBook
FLockService        registration, one field access per step
  FLockAccess       EXTENDS it, uses LossyMap: openings, meta
RequestTable        what an asynchronous request promises
AsyncRequests       dispatcher, keeper, handlers       implements RequestTable
EntryStore          operators: an encrypted list and its mapped file
  MasterPassword    EXTENDS it: two stores, hash, first password, login, change
  FolderLock        EXTENDS it: one store, the driver's rules, transfers
<M>Props            the properties of M
<M>Proofs           the theorems about M, checked by TLAPS
MC<M>, *.cfg        the instances for TLC
```

**FLockCache.** `cached` is the table, `length` the counter, `latest` history
(what was recorded since the last wipe). All operations run under the exclusive
cache lock, so an operation is one step. `RoomAt` is the scan for an insertion,
`HitAt` that of a lookup; they differ, as in the code, in the last bucket of the
wrapped part. A wipe clears `capacity` of the `capacity + 1` buckets. The pool
memory of the table is not zeroed by `FLockCacheInit`: `Init` allows any
contents, `CleanInit` is the case of zeroed pages.

**FLockStorage.** One action per critical section under `lockRules`. It includes
the two indexing errors of the code: an add stores at `length * sizeof(entry)`
(`NewEntrySlot`), a remove always overwrites slot 0. The sizes are the code's
formulas over small constants. A write outside the array, or one through a map
of another process, may stop the machine (`fault`); nothing is claimed of a
stopped machine. A slot of a grown array holds pool garbage until it is written
(`Junk`). The map is "mapped or not": a view has two pages at first and 10 MB
later, so that the model's few rules always fit. A failing view leaves nothing
mapped, and a section over an empty file has extended it by then ("unsigned").
An export through a map of another process may be refused, stop the machine, or
write into whatever that process has at the address (`FLockStorageExportOnDisk`).
`PowerCut` resets memory and
leaves the file in any of the states the order of writes allows.

**FLockDriver** composes the storage's sections into threads: the position of
each thread between two sections is a variable, and a client's pending add or
update keeps what the handler read. The handlers run in their client's process,
where an export goes to a map that is not there. One assumption is made for them:
the map's address is free in that process. Then the export of CLEAR_ALL is
refused or fatal (`ClearExport`) and never answers TRUE, and
`FLockStorageFlushFromMemoryToDisk`, which the handler calls after a TRUE
(`FLockDispatcher.c:955`), is not reached. `owed`, `dirty` and `kept` are
history. `RuleBook` is what the manager of the rules relies on: the file is only
ever replaced by all the rules of memory, memory by those of the file only until
the loader ended, and a request changes one rule or clears them all; the mapping
(`Book` in FLockDriverProps) takes the live slots for memory, the first `length`
entries of a signed file for the file, and "the loader has not ended" for
booting. A thread that has not ended when `DriverUnload` frees the storage ends
the run (`RunUnloaded`).

**FLockService / FLockAccess.** Registration is a read, a check and two writes;
the test of the service context reads number, then object; the notice of an end
tests, then clears twice. A process waits for one request at a time, and may end
and be born again with the same number and object address. An opening goes
lookup, read, record, verify; marking a file is an opening followed by the write
of its meta, which passes the same filters. The cache is `LossyMap`, the rules are
the set of locking identifiers, and the gate is open whenever there is one: the
first is shown in FLockCache (`ImplementsLossyMap`) for a zeroed table, the
second in FLockStorage (`GateNeverMisses`). Files, paths and hashes are one: no
renames, no hash collisions.

**AsyncRequests.** One dispatcher, of the erasing or of the encryption service.
A client is a thread of the Thrift pool and a step is what one lock or one atomic
counter protects: count, create (counter and table under one lock), start the
thread (`StartThread`), answer (`Answer`); a handler may have finished before its
client is answered. A handler works, stores its response (erasing only, and it keeps
that lock to its end), looks its request up and sets its final state. Stopping
takes no more calls, waits for the pool, and destroys the dispatcher once the
count is zero. `told` (the identifiers clients were given) is history, and the
variable the abstract `RequestTable` shares with the code's state table.

**EntryStore** has no variables. A store is a record (list, file, is the mapping
there, password), and an operation that holds the store's lock is the set of what
it may answer and leave behind: `isOk` with its lazy load (`Checked`), the rewrite
that cuts the file and may stop anywhere (`Flush`, `Cut`), the rollbacks as they
are, and the mapping that is lost with a failure (`opened`). An entry is "encoded
with a password, says a value"; another password decodes nothing. Cryptography is
that and nothing more. The load of the locked objects (`DgiFolderLockStorage.cpp:578`)
takes no lock; it has operators of its own: what it reads of a file that is being
rewritten (`Reads`, `Parts`), and what is left when it swaps the list, or maps the
file anew, under the rewrite (`Swapped`, `Torn`). `Torn` is generous: the list is
the one just swapped in, the file any beginning of it or of the list that was
being written, and the mapping may be gone. The load of the cards is locked.

**MasterPassword** has the wallet and the list of locked objects as two stores,
and the hash. `call` is where each client is in its call, with the call's
arguments, one step per lock, of a login, of a change and of its rollback. A
rewrite of the locked objects is two steps, it takes effect and it ends
(`FlushEnds`); `writing` is who is between the two and keeps everyone else out of
the lock. A load is two steps as well, it reads (`load` holds what) and it swaps,
and neither asks `writing`. Two variables are history: `disturbed` (another call
was under way during a change, one of its writes failed, or the process ended
inside it) and `raced` (the list or the file of the locked objects is what a load
that overlapped a write left; the next write or load that overlaps nothing ends
that). The keys of the two stores are `Card` and `Path`.

**FolderLock** has the list's store and `told`, the requests the driver accepted:
for each key the policies added since the last accepted clear. A call is a
test, an operation of the store, and the transfer: test, copy of the list, clear,
one add after the other in the order of paths. Logins come at any time, with the
same unlocked load: they change the list in the middle of calls and transfers,
and send nothing. `current` is history: the last transfer ran alone, was refused
nothing, and the list is still the one it sent. What the driver makes of requests
it accepts is not in this module: there `FLockStorage` is the model, and the run
`storage_added` shows that an accepted add may not be found.

The operators marked "Seeded defect" in a module are small errors of the kind
a change to the code might bring in. No specification uses them: they are there
to confirm that each property fails when one of them takes the place of the
definition next to it.

## The runs

All from this directory: `tlc -config X.cfg M`; `PROJECT.json` has the pairs.

| Run | Shows | Bounds | States |
|---|---|---|---|
| `cache_garbage` | never an older verdict; misses only at the end of the wrapped scan; the retry finds room; any initial contents | 3 paths with own buckets 0, 1, 2 of 4, limit 2, wrap to 1: every scan fails and wraps | 21 thousand |
| `cache_clean` | no gaps, no duplicates, no wrap; implements `LossyMap` | 5 paths, two in one bucket, 9 buckets, limit 3: longest run and wipe occur | 669 |
| `storage_ops` | gates, spare slot, arrays stay, removal reveals nothing | 2 ids, arrays of 2 slots growing to 4, 3 rules at most, every call may fail, power cuts | 95 thousand |
| `driver_threads` | map has an owner, file equals memory when clean, stored rules stay, flush happens, flusher stops; implements `RuleBook` | 1 id, 2 clients, 3 kinds of initial file, no call fails | 431 thousand |
| `access` | slot, inheritance, justified verdicts, protection | 2 processes, 2 files, 1 id, reads may fail | 3.6 million |
| `async_requests` | implements `RequestTable`; responses, handlers and destructor; told requests finish | 3 clients, 3 requests, limit 1: one above the limit; both services | 218 thousand |
| `master_password` | entries readable, lists agree with files, entries leave for named reasons and enter by a call only, a closed store stays closed | 2 clients, 1 card, 2 paths, 2 passwords, 2 values; any write fails, loads overlap writes, restarts; no call of several steps begins once a change was disturbed | 307 thousand |
| `folder_lock` | what the driver accepted in a transfer that ran alone is the list | 2 clients, 2 objects, 2 policies; logins at any time, writes and driver requests fail, restarts | 232 thousand |
| `storage_added` | **violation**: an added rule is not found | 2 ids | |
| `storage_removed` | **violation**: a removed rule is still there | 2 ids | |
| `driver_early_flush` | **violation**: a flush before the import empties the storage file | opening may fail | |
| `access_stale` | **violation**: a marked file is skipped because of an old verdict | 1 file, reads succeed | |

Why the bounds are enough. The cache needs chains that wrap, fail, cross and get
wiped; with four buckets and three paths every scan does. A storage array needs
to grow, to be imported at less and at more than its base size and to hold stale
slots. Two clients are as many as a check-then-act pair needs; two processes mix
their registrations in every way, and two openings are enough for a late record.
A third request is needed to have one told, one orphaned by a missing thread and
one under way. Two paths give a rewrite a cut between them, and a transfer an
object sent and one to come; two passwords are an old and a new one. The wallet takes no part in
the races of loads, and one card is enough for its order with the other steps.
`master_password` has a bound of its own, `NoCallBeginsOnceDisturbed`: after a
change of the password was disturbed the calls under way go to their end and single
operations and restarts go on, but no login, first password or change begins. Four
of its five properties say nothing from there on, and without the bound nearly all
of its states would be such; the theorem `ClosedIsFinal` covers the fifth.
What does not depend on the numbers is proved for all of them (below).

`driver_threads` has one identifier on purpose: with more, the misplaced write
of the violation `storage_added` breaks `OneEntryPerId` for a reason that run
does not study. It lets no call fail, since a failing open gives the violation of
`driver_early_flush`. `CHECK_DEADLOCK FALSE` is set for the driver because it
really stops: the machine halts, or the driver is unloaded and all threads ended;
and for `async_requests`, where a destroyed dispatcher is the end and a
destructor that waits for a count nobody lowers is another one. The symmetry of
clients, passwords and policies is used in runs whose properties name none of
them and say nothing about progress.

**Fairness.** `FLockDriver`: weak fairness of DriverEntry, loader, flusher and
of an unload that has begun, system threads that Windows schedules and whose
loops have no exit but the ones modelled; none of clients, nor of the success of
a call. `FlushHappens` and `FlusherStops` need it. `AsyncRequests`: weak fairness
of a client inside a call and of a started handler, threads that run; none of
clients beginning a call, of the service stopping, nor of which of a step's outcomes
happens. `ToldIsFinished` needs it. No other property is about progress:
`MasterPassword` and `FolderLock` promise nothing about when a call ends.

## What is wrong in the code

The four violations are listed under "findings" in `PROJECT.json`: the misplaced
add (`FLockStorage.c:405`), the shadowed position in remove (`:318`), the flush
that overtakes the import (`FLock.c:482`) and the stale "no meta" verdict
(`requestCreate.c:250`). Modelled as well, as the code has it:

- driver: the loader's test for "imported already" is a count of rules
  (`FLock.c:447`), so that over an empty file it imports once more and drops what
  clients added meanwhile (`Reload` of `RuleBook` is allowed while booting for
  that); mixed registrations, lost updates of flags, an add before the first
  import (a NULL array is freed), CLEAR_ALL during another thread's load, an
  unload that does not wait for its threads;
- requests: the limit is compared the wrong way round and only together with a
  flag set after the last call, so nothing is ever refused (`limitAchieved`);
  no handler takes itself off the count, so the destructor waits for ever once a
  request was accepted (`EndsOnlyUnused` states it, proved); the answer to a
  finished erasing is never delivered, since `getResponse` returns false after
  it copied the response; a request for which no thread could be made stays in
  process (nobody knows its identifier); identifiers start again at 1 with the
  service;
- stores: the load of the locked objects reads and swaps the list without the
  store's lock (`DgiFolderLockStorage.cpp:578`). Under a write of another thread it
  sees the beginning of the file only, or changes the list the write is going
  through; list and file then differ, and the next write makes the short list the
  file. `ListIsOnDisk`, `EntriesSurvive` and `FileSaysWhatWasAsked` exempt exactly
  that (`raced`), and are proved for every other order of loads and operations;
- stores: a failed write closes the mapping, so the rollback after it fails too,
  and `reload`, which flushes first, never opens it again (`ClosedStaysClosed`);
  `EntriesReadable` and `EntriesSurvive` exempt what is known to be lost: the
  rollback of a change re-encrypts from the current password to the current one
  and so empties the wallet; a change, or the removal of a card, before any login
  writes an empty list over the file; a login that overlaps a change puts the
  old hash back; an entry added inside a change may be encoded with the old
  password; two first passwords overtake each other;
- folder lock: `DriverWasToldTheList` exempts the empty list, which is never sent:
  removing the last object, or all of them, leaves rules with the driver;
  overlapping transfers, or an end inside one, leave a stale list there, a login
  that changes the list in the middle of a transfer leaves the driver with what
  was sent, and neither start nor login sends anything. `removeById` refuses every identifier,
  as it compares with the size of a constant; it is not in the model.

## What is proved

`tlapm` checks the theorems for every value of the constants that satisfies the
named assumptions: `CacheAssumption`, `StorageAssumption`, `DriverAssumption`,
`ServiceAssumption`, `AccessAssumption`, `AsyncAssumption`, `StoreAssumption`,
`ClientAssumption`, `KeyAssumption`, `FolderLockAssumption`. They say what sort of
thing a constant is;
`DriverAssumption` says besides that a client may set and clear any flag, and
`StoreAssumption` that keys are ordered, `KeyAssumption` that cards and paths are
keys. TLC evaluates them in the runs.

- **FLockCacheProofs.** `RetryTerminates` is about every table: own buckets lie
  below `capacity` because of the modulo, and the wipe clears them.
  `LatestIsHeld` is the inductive invariant: for a hash recorded since the last
  wipe, the scan for room stops at a bucket that holds the recorded value.
  `TypeOK` alone is not enough, since the table may hold several entries of one
  hash; what carries the induction is that an insertion of another hash only
  ever fills the bucket *its* scan stopped at, which was free or its own.
  `LookupNeverStale` and `MissesAreAtWrapEnd` follow: the lookup meets the
  buckets in the same order, all but one. The lemma `CleanTableSound` is the
  invariant for a zeroed table, under the hypothesis `HomesLeaveSlack`, which the
  code's constants satisfy (65535 + 33000 + 1 < 99999); from it come
  `ProbesHaveNoGap`, `PathHasOneBucket`, `CounterCovers`, `ScansNeverWrap` (three
  of them together are `CleanScans`), and `CleanTableIsLossyMap`: each step is a `Record`, a `Forget` or a stutter of
  `LossyMap`.
- **FLockStorageProofs.** `StorageTypeCorrect`, `ScansStayInside` and
  `GatesNeverMiss` come from one induction; `GateNeverMisses` needs that an array
  of length zero has no live slot, so that an import without memory may leave the
  gates as they were. `RemoveIsQuiet` is an action property from the types.
  `ImportedArrayStays` adds `ArrayIsBase`: an array's size is none or at least the
  base size, which doubling and both sizes of an import keep. Three theorems say
  what an operation does to the answers of *all* lookups, and so how far the two
  indexing errors reach: `UpdatesAreExact` (always), `PlacedAddsAreExact` (when the
  entry goes behind the last one: with the code's pointer the first entry of an
  array, with an unscaled one any) and `FirstRemovesAreExact` (a rule in the first
  slot, and no identifier twice).
- **FLockDriverProofs.** The storage's invariant is carried through the threads,
  whose steps use the file, change the rules or leave both alone
  (`DriverTypeCorrect`); the parked request of a client must be a rule for that.
  `MapIsOwned` is inductive by itself: whoever loads moves to a place from which
  it unloads. `FileIsMemory` assumes `MayFail = {}` and needs `FilePath`: before
  DriverEntry has imported, memory is empty, the file is open when it is to be
  loaded and mapped when it is to be imported. It holds for any number of
  identifiers: what a misplaced add stores or fails to store makes the rules
  dirty, and an export writes whatever memory has.
  `DriverKeepsTheBook` is the refinement of `RuleBook`, with failing calls; it
  needs `BootOrder` (the loader begins when DriverEntry is through) and, for each
  critical section, the lemma that says which rules come and go: a removal loses
  what sat in the first slot, an add brings its entry or a misread slot, and
  nothing brings or loses two.
  `OnlyRemoveLosesRules` strengthens `StoredRuleStays` to `KeptPath` (rules of the
  file nobody asked to take out are in the file, and in memory too once DriverEntry
  imported) and shows, for any number of identifiers, that the misplaced remove is
  the *only* thing that loses a stored rule: its hypothesis is that each remove
  spares the other identifiers, which with one identifier is always so
  (`OneStoredRuleStays`). In the same way `OnlyMisplacedAddDoubles` shows that an
  identifier gets a second entry only by an add whose entry skips a slot, however
  two clients interleave; with one identifier no add does (`OneRuleOnce`). Both
  carry that the file is left sound too, which is what the next boot starts from.
  `NoFlushIsLost` and `NoStopIsMissed` are the parts of `FlushHappens` and
  `FlusherStops` that are about states: an owed flush has its event set or its
  export ahead, and a flusher that waits while unloading will be woken.
  `DriverGatesNeverMiss` carries the storage's gates over to the threads.
- **FLockAccessProofs.** The invariant has four parts: registration
  (`ServiceInv`: who is written in a field is registered or on its way in or
  out), types, `NoMetaVerdictJustified`, and `OpeningSound`, which says of every
  opening in flight what it has read and whether that is still so.
  `ProtectedIsDenied` does not survive a step by itself: an opening about to
  record or verify must be known to hold the meta it found.
- **AsyncRequestsProofs.** The inductive invariant counts: `active` is the number
  of callers past their count plus the number of handlers ever started
  (`Counting`), from which `DestructorWaits` (`EndsOnlyUnused`) and
  `HandlersEndFirst` follow, since a destroyed dispatcher's count is zero.
  `ResponseBeforeFinish` needs that a response is stored before its request is
  looked up; `RequestsAreATable` (the refinement) that an identifier belongs to
  one caller at a time, from its creation to the answer (`OneStarter`), that a
  request somebody was told has had a handler, and that a handler at work has its
  request in process (`HandlersWork`). `NobodyIsRefused` is the limit that is none.
  `OneHandlerHoldsResponses` and `ToldIsNeverStuck` are the state part of
  `ToldIsFinished`: a told request is finished, or its handler is at work with the
  lock free, or some handler holds the lock at a step that waits for nobody.
- **EntryStoreProofs.** Lemmas only: how each operation of a store may end
  (`Ends`: refused, loaded, written with list and file equal, or failed and
  closed), and that it leaves only what the store's password or the new one encoded;
  and how an unlocked load may: what it reads is some of what its password decodes
  in the file (`ReadsFacts`), all of it when nobody writes (`LoadsAll`).
- **MasterPasswordProofs.** `PInv`: while no change was disturbed, nobody else is
  in a call during a change, and the step it has reached says which of the two
  stores is encoded with which password and knows which (`ChangeSound`); with no
  change under way both are encoded with the hash's password and know it or none
  (`Steady`); a login carries the hash's password (`LoginSound`).
  What a load under way has read is encoded as the file is, and is all of the
  file or nothing when no write overlapped it (`Fits`).
  `AllEntriesReadable` and `ShownIsStored` are conjuncts of it; `EntriesStay`,
  `ClosedIsFinal` and `NothingIsInvented` are action properties that go through
  every call. The last says that what enters a file was asked for, values
  included (`FileSaysWhatWasAsked`). It rests on `WrittenOrCut`, that a rewrite, complete
  or not, leaves entries of the new list only, and `CheckedPart`, that a store whose
  password is right or not set has nothing in memory that is not in its file.
- **FolderLockProofs.** `TransferSound`: what a clean transfer has still to send
  is the list's, what it has sent is with the driver, and nobody else transfers.
  A change of the list, be it by a load, makes the transfers under way unclean, so
  that `DriverIsToldTheList` follows when one ends: however many objects and
  clients there are. `ListStaysReadable`: list and file never hold what another
  password encoded, loads that race with writes included.

Model-checked only: progress itself (`FlushHappens`, `FlusherStops`,
`ToldIsFinished`: liveness and ENABLED are out of the prover's reach; what each
relies on in every state is proved, see above), and the four violations. The
fairness conjunct of a specification is not used in any proof. `StoredRuleStays`
and `OneEntryPerId` are theorems for one identifier, as in their run; with two the
storage's indexing errors break both, and the general theorems say by which step.
All other invariants and action properties of the runs, and the three
refinements, are theorems. Nothing here uses recursion, and nothing that would
need induction over data is claimed: `UpdatesAreExact` speaks of a lookup that
stops (`Found`) where a proof that a present identifier has a first slot would
need it.

## Not modelled, and the plan

Left out of the driver: validation and layout of buffers, IOCTLs that only read,
paging and volume opens, statistics, MD5, `FLockStorageIncreaseMap`,
`FLockStorageUpdateEntry`, `FLockStorageAddWithFlush` and
`FLockDriverCloseStorage` (no callers), the listing filters; of an opening, the
branch of `FLockPreCreate` for delete-on-close (`requestCreate.c:94-168`), its
early exit for requests of the file system's own threads (`:61-64`), and those
of `FLockPostCreate` for failed and redirected openings, such threads and paging
files (from `:199`), which read and change nothing. Left out of the service: an
exception in an asynchronous handler, which nothing catches and which ends the
process; of the unlocked load, the crash or garbage that freeing a list under
its iteration may bring (the end of the process is `Restart`), a read that mixes
two mappings, a swap seen half done, and a rollback that succeeds because a load
mapped the file again; in `FolderLock`, the driver's own restarts; the layout of
the container's file and its operations without a caller in these stores,
identifiers shared by two paths, the folder lock before a login, the marks on
files and parent directories, sessions (a locked map no call depends on:
`Manager::present` always says yes), start-up order, the work on the files
themselves. Thrift, the generated code, the vendored libraries, the GUI and the
console have no logic of their own in this sense; the FileErase driver is an
older product's.

What the plan has left:

1. `FLockEaList` — the filter that hides the meta in a list of extended
   attributes, against a reference definition, and directory listing with the
   cache.
2. Paths apart from files: renames onto a cached path, two paths with one
   identifier, the parent directory's mark (`HAS_FLOCKS`), which a write of meta
   overwrites.
3. `FolderLock` over `FLockStorage` itself instead of a driver that answers as it
   likes, with the findings of that module set right.
4. The container's offsets and counter, and `FLockStorageIncreaseMap`.
5. `FolderLock` as a refinement of an abstract list and driver, as `RuleBook` is
   of the storage; the order of answers to overlapping updates of flags.

Of the hazards with a note in `PROJECT.json`, the rename belongs to step 2; the
others are faults the model has as states or steps and that nothing in the
repository promises to avoid.
