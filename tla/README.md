# Nagravision DRM and crypto plugins: models and proofs

TLA+ modules, TLC configurations and TLAPS proofs for the two Android plugins
of this repository (`libs/`): the DRM plugin with its rights store, the crypto
plugin with the decryption of samples, and the helpers both use.  Section 1 is
the inventory of the system, 2 the modules and how they correspond to the
code, 3 the runs, 4 the proofs, 5 the disagreements between the code and its
comments, 6 what is not modelled, 7 what could come next.

Everything runs in this directory: `tlc -config X.cfg M` for a run of the table
in section 3, `tlapm M.tla` for a module of section 4.

## 1. Inventory

### Who runs what

Two system processes host the code.  The *drmserver* loads `NvDrmPlugin`, which
saves licences, registers the device and answers questions about rights.  The
*mediaserver* loads `NvCryptoPlugin` through `NvCryptoFactory`, which decrypts
the samples of a protected stream.  The two plugins never call each other: they
share the SQLite file in which the DRM kernel keeps its rights.  The crypto
kernel gets its content key from `DrmKernel_getRightKey`, which reads that file
in the mediaserver.  The host tests link everything into one process.

| Component | State | Operations | Talks to |
|---|---|---|---|
| Secure table (`nvDatabaseSecureTable.c`) | rows of the file: key, key id, protected content key, tag | create, insert (delete, then insert), select by key or key id, delete | SQLite, one statement at a time, each autocommitted |
| Connection (`nvDatabase.c`) | a `sqlite3*` and the name of its file | open, close, lock, unlock, does the table or the file exist, remove | SQLite, the file system; passed by pointer by the kernel, which opens and closes only |
| DRM kernel (`DrmKernel.c`) | the static `mDatabaseConnection`, one per process, without a lock | init, save of a right, registration, rights status, personalisation, key of a right | the two above; called by both plugins |
| Crypto kernel (`CryptoKernel.c`) | the unprotected key and its AES schedule, during a call; the caller's iv array | decrypt | `DrmKernel_getRightKey`, OpenSSL |
| Crypto plugin (`nvCryptoPlugin.cpp`) | the static instance | create, destroy, decrypt | crypto kernel; its hosts |
| Crypto factory (`nvCryptoFactory.cpp`) | the constant list of schemes | is a scheme supported, create a plugin | UUID helpers, crypto plugin |
| DRM plugin (`nvDrmPlugin.cpp`) | the static instance, maps of file types and schemes, the caller's buffer in a decrypt session | create, destroy, the `DrmEngineBase` methods | DRM kernel, MPD parsing, conversions; its hosts |
| Conversions (`drmDroidToNv.cpp`, `drmNvToDroid.cpp`) | allocated copies of lists and buffers | to the kernel's structures and back | DRM plugin |
| MPD parsing (`parseMpdHelpers.cpp`) | the document tree, the pointer of the scan | search of schemes and media types | libxml2; only with `USE_LIBXML2` |
| UUID helpers (`uuid.c`) | none | text to bytes, bytes to text, comparison | factory and plugins |

### What is hard about it, and what makes it right

*Rights store.*  Threads of a process interleave on `mDatabaseConnection` at
every SQLite call: a second open overwrites the handle of a first call, a close
closes whatever handle is there.  A save is two statements.  A process may be
killed between any two calls, and each call may fail.  It is correct when
nobody gets an answer or a key from a record that was not issued, when no
interleaving makes a row of its own, when a running statement keeps its
connection, when an acknowledged save is stored, when calls return and close what
they open, and when all of this amounts to a table with one record per key.  The
code is not always: section 5 has the failures and the second writer that it
does not handle, and the properties say what is left when they happen.

*Connection.*  Several processes lock, update, time out, die and remove the file
under each other; a statement that fails may take its transaction and its lock
along, a process that dies leaves a rollback journal to whoever comes next, and
the journal belongs to the path and not to the file.  It is correct when no
committed update is lost and none stays that was not committed, and when a table
that was found stays for the connection that found it.

*Plugin objects.*  Each library keeps one instance behind a static pointer and
hands it to every host, in a process that may hold both libraries and call the
kernel of one while the other is constructed again.  Nothing counts the hosts:
`destroy` deletes the instance whoever else holds it, and their pointers
dangle.  What the library can promise is that the next `create` hands out no
deleted object, that no object or connection is forgotten whatever is destroyed
twice, and that what a plugin needs is there whichever entry point made it.  In a
passthrough build a caller's buffer carries its room and its data in one length
field.

*Decryption.*  Sizes at their boundaries (no clear byte, no encrypted byte, no
whole block, a counter that wraps, a protected key of an unusual size), an iv
array that is advanced in place, and a key buffer that must be erased and freed
on each path.  It is correct when the output is what common encryption says,
failures are reported and no key outlives its call.

*MPD parsing.*  Hand-written walks of a tree with a pointer kept across
searches.  It is correct when it ends, accepts only what is protected and
playable and refuses nothing that is.

*Registration.*  Android objects copied to hand-linked lists and back, with
allocations that fail half way, memory read before it is initialised, names
compared by prefix, and a process that exits or dies between the steps of a
registration.  It is correct when what is acknowledged is stored under the tag
the caller gave, and what is acquired later is what was registered.

*UUIDs.*  A parser of strings that may end anywhere, a buffer reused between
conversions, and a comparison whose result is narrowed.

`PROJECT.json` lists the hazards one by one, each at its line with the
properties that watch it.

## 2. The modules

| Module | Models |
|---|---|
| `SecureRecord` | records of the table, their tag, the records that a registration and a save build |
| `RightsStore` | the abstract store: what a caller may rely on |
| `DrmStore` | the kernel's operations over connection and table, composed: processes, threads, crashes, failures |
| `DrmStoreProofs` | theorems about `DrmStore` |
| `RightBuffer` | the bytes of a right and of the input of its tag |
| `RightBufferProofs` | theorems about `RightBuffer` |
| `NvDatabase` | the whole interface of `nvDatabase.c`, with transactions, timeouts and the removal of the file |
| `NvDatabaseProofs` | theorems about `NvDatabase` |
| `PluginLife` | the instances of both libraries, the hosts that share them, the decrypt session of the DRM plugin |
| `PluginLifeProofs` | theorems about `PluginLife` |
| `CryptoKernel` | `NvCryptoPlugin::decrypt`, the kernel's `decrypt`, the key part of `DrmKernel_getRightKey` |
| `CryptoKernelProofs` | theorems about `CryptoKernel` |
| `DrmInfoExchange` | `onProcessDrmInfo` and `onAcquireDrmInfo` with their conversions and the kernel's list of attributes, over the abstract store |
| `DrmInfoExchangeProofs` | theorems about `DrmInfoExchange` |
| `MpdSearch` | `onCanHandle` and the searches of a media presentation description |
| `MpdSearchProofs` | theorems about `MpdSearch` |
| `Uuid` | the UUID helpers and `isCryptoSchemeSupported` |
| `UuidProofs` | theorems about `Uuid` |
| `MC*` | the instances that TLC checks |

### DrmStore

One action is one SQLite call with the code that follows it up to the next one:
that is the grain at which the threads of a process and the processes interleave.
`conn[p]` is `mDatabaseConnection._pDatabase` of process *p*, `live[p]` what
SQLite holds open, `stuck[p]` the connections with a statement that a failed
bind left unfinalized.  `db[t]` is the `sqlite3*` that `insertSecureRecord` and
`selectSecureRecord` get by value, read in `FetchHandle` after the open has
returned, so that it may be stale or another thread's.  `pc` names the next
call: `verify` (the tag test of `insertRecord`), `open`, `timeout` (the busy
timeout) and `create` (CREATE TABLE), which read the handle each, `fetch`, `delete`/`del_step` and `insert`/`ins_step`
(prepare and bind, then step to finalize), `select`/`sel_step`, `close`, `clear`
(the assignment after `sqlite3_close`), `answer`.  `leaked` counts the records
that a read loaded and nobody frees; `abandoned` (the connections of saves whose
open failed) and `damaged` (the storage has damaged a row) are histories.

Entry points need the plugin's constructor, which runs `DrmKernel_init`, except
`DrmKernel_getRightKey`: the crypto kernel calls it without one, and
`OpenUninitialised` is the NULL dereference of `_databaseName` that follows.

*Damage.*  `Damaged` is a set of records with a wrong tag that `Corrupt` may put
in the place of a row at any moment.

*Failures.*  `Faults` names the calls that may fail.  Where the code ignores a
result the model goes on (a failed delete), and where it misreads it the model
answers what the code answers (a failed INSERT step, whose error
`sqlite3_reset` consumes).

*Undefined behaviour.*  A call on a closed connection either fails or kills the
process (`UseOfStaleHandle`); `sqlite3_open` may return a handle that was closed
before, which a stale pointer then designates.  The uninitialised `_keyId` of a
registration is any key identifier, or a crash (`RegistrationFault`).

*Abstractions.*  Bytes and sizes of records are values of small sets.  A tag is
the triple it authenticates, which assumes that hash and cipher do not collide.
`AES_CBC` and SHA-256 are not modelled otherwise.  The waiting that
`sqlite3_busy_timeout` arranges is part of the call it delays.

`RightsStore` is the specification of all of it: a set of authentic records
with at most one per key; a save that removes the old record and then puts the
new one; reads that answer with a record stored at some moment of the call;
deaths that lose calls and keep records.  `DrmStore!ImplementsRightsStore`
instantiates it with the rows as the records and `pc` as the phase of a call.

### RightBuffer

The two conversions that `SecureRecord` abstracts from, byte by byte:
`HashInput` is what `checkRecordCrypto` hashes, `Parsed` the record that
`onSaveRights` cuts out of a right, whose key is skipped by the length of
`contentId` and not read.  `HashedApart` and `ReadAsIssued` are what `Mac` (the
tag as a triple) and `ParsedRight` (every field but the key from the buffer) rest
on; `MCDrmStore` has TLC evaluate them on three byte values in every run of the
store.

### NvDatabase

Each process has one connection.  `path` is the file that the database's name
designates; `removeDatabase` unlinks it, and connections that are open stay on
the old file while a later open creates another, so that files are values and
`stored` has one content for each.  `owner` is the exclusive lock that
`lockNvDatabase` takes, `draft` the content its transaction will commit, `writes`
the number of its updates.

`journal` is the rollback journal, with the content that it restores.  Its name
is that of the path: there is one for all the files that the path has designated.
The first update of a transaction writes it, the end of the transaction deletes
it, and the death of a process leaves it, with a file that holds its updates or
does not.  A journal belongs to any unlocked file of the path (`Hot`), and the
next statement of any connection to such a file plays it back, or deletes it
when the file is empty (`Recover`).  SQLite 3.8.3 and later refuse to write to a
file that has left its path; the Android releases of this code's time have older
ones, and the model is of those.

A call that needs the lock of another process waits in `pc`; `StatementFails` is
its error or the end of its busy timeout.  Inside a transaction an error may
also roll the transaction back, as SQLite does for SQLITE_NOMEM, SQLITE_IOERR and
SQLITE_FULL: `tableExists` then answers SQLITE_ERROR and its caller does not learn
that the lock is gone.  `Read` and `Write` are the callers that `nvDatabase.h`
speaks to: they add 1 to a value between a lock that answered SQLITE_OK and their
unlock; when the transaction is lost their statements commit one by one
(`Write`'s second disjunct).  `CallerFails` is a statement of theirs that fails,
after which they give up.  `trust` is what SQLITE_OK made a caller rely on.

Four histories tell the properties apart from what the interface does not
promise: `updates` counts what was committed, `doubt` has the callers that
`tableExists` answered SQLITE_ERROR since they locked, `suspect` the files that
such a caller has updated nevertheless, and `orphaned` says that a file was
unlinked under an open connection.  The threads that share a connection, and each
failure of open and close, are in `DrmStore`.

### PluginLife

`instance`, `heap` and `held` are the static pointer of each library, the
objects in memory and the pointers of the hosts; an address may be handed out
again after a delete.  `create` and `createDrmFactory` fill the reference maps,
construct (which runs `DrmKernel_init`) and share; `createPlugin` is the factory
of the crypto library.  `destroy` and `destroyCrypto` delete what the host
passes, whoever else holds it, and a host may pass a pointer that dangles: the
deletion then does nothing to the heap but what it does to an object that has the
same address by now, or the process dies (`Crash`).  `DeletePlugin` is the media
player service, which deletes its plugin without `destroy` (`bypassed` is its
history), `Forget` a host that drops its pointer.  Entry points run one at a time:
the libraries have no lock.  `calling`
is a call of the crypto kernel inside the DRM kernel of the process, which the
constructor may meet half way.  `onDecrypt` is the copy of a passthrough build,
`passthru` the build option; a host keeps its buffer for any series of samples
or takes another.  Addresses are symmetric.

### CryptoKernel

Output bytes are where they come from: untouched, the source byte, or the
source byte under byte *o* of keystream block *n* of a key schedule.
`UpdateOut` and `FinalOut` are the sizes `EVP_DecryptUpdate` and
`EVP_DecryptFinal` write with padding on; `FinalOut` lands on the *start* of the
buffer, as in the code, and `KeyLen` is the sum that the code returns.  The key
buffer is the set of its indices that hold content key bytes; bzero over
`KeyLen` is `LeftAfterErase`.  The iv array belongs to the caller, who reuses it
or resets it; `ivGiven` is its value when the call began, and the output is that
of common encryption from this value on: whether a reused array starts where
the caller thinks is not a question that a document answers.

### DrmInfoExchange

One call at a time: the conversions work on memory of their own, and the store
behind them is the one of `RightsStore` with its storage working, reduced to the
registration record (`DrmStore` has several threads and the failures of SQLite).
`list` is `pattributes`, `todo` the names that an iterator has still to give.
`Matches` is the `strncmp` of the kernel: a stored name
that is a prefix of the key matches.  Android iterates attributes in the order of
their names, so a prefix comes before the name itself.  `CopyHeader`,
`CopyAttribute` and `CopyMapNode` go to `null` when an allocation fails;
`ExitOnNull` is the `exit` of the plugin's `NV_ASSERT`, which also follows a
request with an empty mime type.  The map of a request is linked through
uninitialised pointers: an append ends well or is a `Crash`.  `UNIQUE_ID` is
copied from a tag without a final NUL, so that `Unterminated` bytes may follow.
`possible` is a history: the tags that the store may hold as far as the answers
so far tell.

### MpdSearch

A document is the tree libxml2 builds, with child and next pointers, text nodes
for white space included.  A node is numbered before its children and the
siblings that follow it, as the parser meets them: the walks end because a tree
has no cycle.  `getNodeByNameAndType` and `findScheme` are the recursive walks as
recursive functions, of which `SchemeFrom(wanted)` is what `findCencElement` and
`findDrmScheme` share; `ScanHit` and `ScanMiss` are one round
of the four `do ... while (cur)` loops of `findSupportedMediaUri`, one per kind
of element.  `odd` is the parity of the size of the vector the loop fills: it
makes an endless scan a behaviour that never rests, as it is in the code, where
the vector grows.  An attribute or a URL is what the search asks of it
(supported, unsupported, no extension, empty).  A scheme may stand on an element
of any name (`Role` has the same attributes), because the searches look at every
sibling that follows a ContentProtection.  An empty attribute has no text node,
its text is NULL, and the process dies of it where the code reads it
(`findCencElement`, `findDrmScheme`, `ReadMediaNull`).  The helpers are compiled
only with `USE_LIBXML2`, which no build file of the repository defines.

### Uuid

Characters are codes, a string is the sequence before its NUL, and reading past
the NUL is what `read` would show.  `Ends` are the bytes with which the groups of
a UUID end, <<4, 6, 8, 10, 16>> in the code; the characters of its text stand at
the positions that follow from them.  The buffer of the result is kept from one
scheme to the next and starts with garbage, as `nvUuid` does.  `memcmp` is the
difference of the first bytes that differ, which is what the C libraries of the
platform return; `Int8` is the conversion of `uuid_cmp`.

## 3. The runs

Passing runs:

| Run | Question | Instance |
|---|---|---|
| `store_reliable` | Do saves replace, and is this the abstract store, with crashes at every point? | drmserver and mediaserver, one thread each, both crashing; two rights of one content, a forged one, the registration; `SQLITE_SCHEMA` retries |
| `store_failing` | Are acknowledged saves stored, do answers agree with the table, and what does a process keep between its calls, when calls fail and leak? | the same processes; open, create, insert's prepare and bind, every part of the select and malloc fail |
| `store_races` | Do statements keep their connections, does a damaged row ever become an answer, do only saves of issued rights change rows, are records lost after damage only, does every call return? | one host process, a thread that saves and registers against one that checks and gets keys; five calls that fail, handles that run out or are stale, uninitialised starts, a storage that damages rows, fairness |
| `connection` | Are committed updates kept and no others, do tables stay? | two processes, two files, up to two updates of a file; statements and commits that fail and roll back, journals, deaths, removals |
| `plugin_life` | Does `create` ever hand out a deleted object, is anything forgotten, do copies stay in their buffers? | two hosts with both libraries, two addresses, two connections, buffers of up to 2 and samples of up to 3 bytes; destructions in any order and repeated, deletions without `destroy`, deaths |
| `decrypt_cenc` | Is the output common encryption, is every failure reported, is the key erased and freed, does the call return? | clear part 0..3, encrypted part 0..4, blocks of 2, counters modulo 4, protected keys of size 0..7 and padding 0..3 |
| `mpd_search` | Is the answer right and does the search end? | all descriptions of up to 6 elements and all extensions of a protected set by up to 3, with and without white space, with empty attributes and schemes on other elements |
| `registration` | Is an acknowledged registration that of the caller's tag, and what is acquired what was registered? | four names, one a proper prefix of "PERSO" and one that "PERSO" is a prefix of; up to two attributes; two authentic tags and a forged one; five types of request |
| `uuid` | Is conversion the inverse of printing, within the string; is support exact, and the comparison antisymmetric? | UUIDs of two bytes, strings of up to 5 of six characters, ten byte values |

Runs that show a disagreement (section 5): `insert_status`,
`decrypt_subsamples`, `mpd_last`.

Every run ends within three minutes with two workers.  `store_races` is without
symmetry, because it checks liveness too, and has one forged and one issued right
and a bound of three rowids for that reason.  The type invariants of `CryptoKernel`, `NvDatabase` and `PluginLife`
are in no run, because they are proved.

### Bounds, and why they are enough

- *Two threads.*  The hazards of the connection are pairwise: one thread's
  handle is overwritten, closed or cleared by another.  Section 4 says what is
  proved for any number.
- *Handles (2).*  One open connection and one to overwrite or leak; when none
  is left, `OpenNoMemory` fires, as it does when SQLite has no memory.
- *Keys.*  One content and the registration key; two key identifiers; two
  content keys for the same content, to tell a replaced right from its
  replacement.  Handles are symmetric: nothing compares them but by equality.
- *MaxRowid* (3 to 6) bounds inserts by `Room`: a thread starts a save only when
  there is room for every thread's row.  Rowids are reused after deletes, as in
  SQLite, so the bound does not bound the number of saves.
- *MaxLeaked* (1) bounds the records leaked by reads of damaged rows.
- *Blocks of 2 bytes*, counters modulo 4: every remainder, an empty part on
  either side, and a wrap in the middle of a sample all occur; a reused iv array
  reaches each counter.
- *Descriptions*: the protected set has six elements, and three more reach a
  second set, a second representation, a URL or a template under it.  The three
  properties of the answer are proved for descriptions of any size; the end of the
  search is not.
- *Two attributes*, of which one may hide, follow or be the one looked up; the
  conversion has a first, a middle and a last attribute to fail at.  Every
  property of `registration` is proved for any number.
- *Two files* (`connection`): the one that a connection stays on and the one that
  the path names after a removal.  `Unused` takes a file again when nobody has it
  open and nothing was committed to it; every file has `MaxUpdates` (2) updates,
  enough for one update on top of another's, two in one transaction and a roll
  back of the second.  The constraint `NoOrphan` stops at states in which a file
  was unlinked under an open connection: both properties say nothing of them,
  and they have no way back.
- *Two addresses*, *two hosts*: an object that is deleted has its address used
  again, by the other host or the same, while the other still points at it; a
  third host would repeat the second.  Both theorems about them hold for any
  number.
- *Samples longer than buffers*, buffers of 0, 1 and 2: a sample fits, does not
  fit, fits only the room an earlier sample left, or is empty.
- *UUIDs of two bytes* have two groups and one dash, so each test of the parser
  fails at each position; 128 and 0 differ by what an int8_t cannot hold.  Every
  property of `uuid` is proved for UUIDs and strings of any length.

`uuid` does not check for deadlock: a conversion that ended is the end of the
behaviour.  Every other run does.

### Fairness

`DrmStore!FairSpec`: each thread inside a call takes its next step (weak
fairness): the system schedules it and every SQLite call returns, busy ones
after their timeout.  Calls are never forced.  Strong fairness of the delete's
exit says that `SQLITE_SCHEMA` is not answered for ever: the schema of the file
changes only when the table is created.  `CryptoKernel!FairSpec` and
`MpdSearch!FairSpec`: a call runs on its caller's thread, which nothing blocks.
No liveness is stated for `NvDatabase`: that a call which waits for a lock
returns is the busy timeout of SQLite, the step `StatementFails`.

## 4. The proofs

For all values of the constants, under the named assumptions of the modules
(`DeploymentAssumption`, `InputsAssumption`, `PersoAssumption`,
`NoneAssumption`, `SizesAssumption`, `FormatAssumption`, `UuidAssumption`,
`SchemesAssumption`, `DocumentsAssumption`, `ExchangeAssumption`,
`NamesAssumption`, `FilesAssumption`, `HeapAssumption`), which the runs evaluate
on their instances.  Every invariant of a passing run is stated by a theorem, and
so are its action properties and its refinement; the histories that some of
them speak of are part of the modules.

**DrmStoreProofs.**
- `TypeCorrect`: the types.  They need `RecordAtHand` beside them: a record is
  only inserted by steps of an operation that has one, which is a fact about
  which `pc` each operation reaches.
- `StatementsKeepTheirConnection`: inductive with the types alone.  The one step
  that closes a connection of a living process is `CloseHandle`, and SQLite
  refuses it while `Prepared` is not empty; a death takes the statements along.
- `TableIsAuthentic`, `AnswersAreAuthentic`: by `AuthenticityInv`.  A save past
  its verification holds an issued record (`SaveVerified`), because the tag it
  verified was presented (`SavePresented`); what a read loaded was in the table
  under what it asked (`LoadedFromTable`); only the end of a read answers
  (`AnswerAtEnd`).  The damage of the storage is in it: `Damaged` is any set of
  records whose tag is wrong.
- `RowsChangeByIssuedSaves`: an action property.  A step that changes the rows
  of a key is the delete or insert step of a save of an issued record of that
  key, or damage of the storage.

- `RecordsAreFreed`: a read only rejects, and then loses, a record that is not
  authentic, and by `AuthenticityInv` the table has none before the storage has
  damaged a row.

These hold in every deployment.  The next four do not: they are promises that the
code keeps only where nothing breaks them, and each states its conditions as
hypotheses, defined in `DrmStore`.  `SingleWriter`: one thread saves and registers,
which is so on a device, where only the drmserver does.  `OneThreadEach`: a process
makes one call of the kernel at a time, since nothing guards
`mDatabaseConnection`.  `DeletesSucceed`: no deletion fails.  `Damaged = {}`: the storage
returns what was written.  What a condition excludes is a behaviour of section 5
or of `store_races`, not a convenience: without it the property is false.
`RunsAsTheorems` in `MCDrmStore` has TLC verify that the runs which check a
property meet the conditions under which it is proved.

- `AcknowledgedSavesAreStored`, for a single writer among any threads, when the
  step of the INSERT itself does not fail: by `AckedInv`, that a save that is going
  to answer success has its row from its insert step on.  No other thread deletes
  rows, and a death takes the answer along.
- `KeysStayUnique`, with one thread per process and a single writer whose
  deletions succeed: by `OneRowInv`.  Between its delete step and its insert step a
  save has no row of its key, and only its own steps add or remove one.  Its
  statements are on a living connection (`UsableInv`), so that a delete that ran
  has deleted.
- `ConnectionsAreClosed`, with one thread per process, for any set of failing
  calls, damage and deaths: by `HeldInv`, that a call holds, beside what failed
  calls have left (`Left`: `abandoned` and `stuck`), exactly the one connection it
  opened, from its open to its close.
- `StoreImplementsRightsStore`: the initial state is one of `RightsStore`, and each
  step is one of it or none.  A save's delete and insert steps are the abstract
  removal and insertion, the last statement of a call settles it, and everything
  about connections is a stutter.  `RefinementInv` adds to the invariants above
  `NothingYet`: before its last statement a call has loaded nothing and has no
  success to answer.  When the abstract store may not fail (`MayFail`), `HeldInv`
  says that nothing is left behind (`ClosesSucceed`) and the handle of a call is
  there, for which some handle must exist
  (`Handles # {}`: SQLite has memory for one connection).

**RightBufferProofs.**
- `RecordsAreHashedApart`: equal hash inputs come from equal fields.  The first
  NUL ends the key, so two keys have the same length (`NoShorterKey`); the other
  fields then lie at the same offsets (`Layout`).
- `RightsAreReadAsIssued`: by the same layout and the arithmetic of a size on two
  bytes (`Division`).

**CryptoKernelProofs.**
- `KeyIsFreed`, `KeyIsErased`, for any block size and any size and padding of
  the protected key.  The lemma `EraseIsComplete` is the arithmetic: the sum that
  `getRightKey` returns covers the two overlapping writes.  The invariant adds
  that the bytes held are those that the decryption wrote.
- `FailuresAreReported`: by `StageInv`, what the stages of the call have fixed of
  its error, its answer and its size before they go on.
- `DecryptIsCenc`: by `LoopInv` (the index of the block loop is a multiple of the
  block behind the clear part, and the iv array the given one advanced once per
  block, `CounterCarries`) and `OutputInv` (what lies before the index is what
  common encryption says, what lies behind is untouched).  That an index has one
  block and one place in it is `DivisionIsUnique`.
- `TypeCorrect`: the types, with the same invariants.

**NvDatabaseProofs**, by `DatabaseInv`, in which `NoLostUpdate` and the types stand.
Its first half (`LocksInv`) is about transactions, the second (`FileInv`) about what
the path designates.
- `UpdatesAreKept`: a lock belongs to the transaction of a connection to its file
  (`LockOfTransaction`), so that nobody commits under a transaction; a draft is
  ahead of its file by the updates it holds, and a value read in it is its own
  (`DraftIsAhead`); who relies on a lock is in a transaction, or in doubt
  (`Founded`).  Without orphans the journal of a transaction has the content that
  was committed (`OneFile`), so that what is found after a death, with half of the
  updates in the file or none, is that content (`Recovery`,
  `RollBackKeepsFound`).  The theorem leaves out, as `NoLostUpdate` does, files that
  were unlinked in use and updates of a caller in doubt, for which the code does
  not keep it (section 5).
- `TableStaysThereAlways`: every content that a journal restores, a transaction
  commits or a statement leaves in the one file that anybody has open has the
  table once somebody relies on it (`OneFile`); a half created table is nobody's
  to rely on.

**PluginLifeProofs**, by `LifeInv`.
- `InstancesAreLive`, `InstancesAreNotForgotten`, together inductive: an object is
  only constructed when the static pointer is NULL, when no object is in memory;
  a deletion of the instance resets the pointer, and one through a pointer that
  dangles meets no object.  No order of the hosts is assumed; `StaticIsLive`
  leaves out the crypto instance after a host deleted it without `destroy`.
- `ReferenceDataIsThere`, `CallsCloseTheirConnection`: the maps are marked only
  when filled (`MapsFilled`); the one open connection is that of the call under
  way (`ConnectionOfCall`), which a second initialisation does not touch.
- `DecryptStaysInBuffer`: no sample of any series is written past its buffer; what a
  buffer says of its room never grows.
- `NoErrorMeansCopied`: a buffer has no room only after an empty sample went through
  it (`RoomUntilEmptied`), so that until then DRM_NO_ERROR means a copy.

**DrmInfoExchangeProofs.**
- `GetAfterPut`, `PutKeepsOthers`: the list of attributes as a map.  Both loops
  stop at the first match, so what was put is what is got, even among names that
  are prefixes of the key; another key keeps its value unless a name is a prefix
  of both.
- `AcquiredIsWhatWasRegistered`: by `ExchangeInv`.  The store's content is always
  among the `possible` ones (`StoreKnown`), the list that a call is about to
  return was built from one of them (`ListOfAcquire`), and no answer of an
  earlier call is left while a call runs (`NoInfoUnderWay`).
- `AnswersAreOfTheCall`: by `AnswerInv`.  The status that the kernel is about to
  return is of the call's type (`StatusUnderWay`) and each stage belongs to one
  operation (`CallUnderWay`); a type that the first conversion keeps is kept by
  the second (`TypeKeptOrUnknown`).
- `ConversionsAreWhole`: by `ConversionInv`.  While a conversion runs the list has the
  attributes of the object but those still to come (`Copied`: each with its value,
  none twice), and an allocation that fails ends the call before the kernel.
- `RegistersWhatWasAsked`: by `RegistrationInv`.  The tag that the kernel finds in the
  converted list is the one the object has under "PERSO", since the first name that
  matches "PERSO" is "PERSO" itself when no proper prefix of it is among the names;
  it is the one verified, inserted and acknowledged.
- `TypeCorrect`: the types, with `ConversionInv`.

**MpdSearchProofs.**  The walks are recursive functions on the nodes of one tree, and
a node's children and next siblings have greater numbers, so that induction is
over a finite interval: a set of nodes that holds 0, and every node of which all
greater ones are in the set, holds them all (`FromTheLast`, by the greatest
element outside of it).  `Recursion` derives from it that a definition which looks
ahead only (`LooksAhead`) does define a function on the nodes, which is what
makes the definitions of the walks mean their equations.
- `TypeCorrect`: the pointers stay in the tree, or NULL.
- `AcceptanceNeedsProtection`, `SupportSuffices`: by `CallInv`, what the two searches
  have said and what the answer is made of.  A search that answers has a node that
  names its scheme, which is a ContentProtection or follows one under the same parent
  (`SchemeIsBeside`, `SchemeIsProtection`), and one over siblings of which any names
  it answers, or has died of an empty attribute before it (`SiblingsAreTried`).
- `AcceptanceNeedsSupport`: by `ScanInv`.  The elements beside the first of a kind are
  in the vector or still before the pointer (`Ahead`, `Collected`): a hit collects
  the first match and moves past it (`HitCollects`), and a miss has none of them
  left (`MissIsComplete`).  Its premise `NoneBelowBetween` says that no other element
  between two of a name has one of that name below it: `getNodeByNameAndType`
  goes into children before siblings, and the scan would continue down there.  No
  description that follows MPEG-DASH has one.

**UuidProofs.**
- `CmpIsEquality`: `uuid_cmp` is 0 for equal UUIDs only.  Two different bytes
  differ by less than 256, so the narrowing keeps the difference from 0.
- `CmpIsAntisymmetricUnless128`: results in the two orders are opposite unless
  memcmp answers 128 or -128, which the narrowing maps to the same number.
- `ReadsStayInString`: the parser reads nothing past the NUL.  The invariant
  bounds the next character to read; each conversion moves it only over
  characters that were digits or a dash, hence not the NUL.
- `Str2binInvertsBin2str`: by `ConversionInv`.  What stands before the pointer is the
  digits of the bytes stored and the dashes between groups (`ProgressInv`,
  `CharsInv`), so that an accepted string begins with the text of the UUID stored,
  and with no other's; a refusal found a character that no UUID has there
  (`RefusedInv`).  `TextPositions` is the arithmetic: each character of a text is a
  digit of one byte or the dash behind one group, which is why the printed text can
  be read back.
- `SupportIsExact`: by `SearchInv`.  A scheme that was tried without a match is not
  the text of the UUID asked about (`MismatchIsDifference`): its conversion succeeds,
  since the schemes are texts of UUIDs (`SchemesAssumption`), and overwrites all that
  the buffer held; and comparison is equality.
- `TypeCorrect`: the types, with the same invariants; no byte is written outside of
  the result.

**Left to TLC.**  Liveness, fairness and everything that depends on `ENABLED`:
`CallsReturn` of the store, the end of the decryption and of the search, and the
runs of section 5, which are about instances.  The
stores outside of the conditions above (several writers, two threads on one
connection, deletes that fail) keep what the unconditional theorems say of them.

## 5. Disagreements between code and comments

| Run | Comment | Code |
|---|---|---|
| `insert_status` | `nvDatabaseSecureTable.h:89`: SQLITE_OK means that the record was inserted | the error of a failed INSERT step is consumed by `sqlite3_reset`, and the insert answers SQLITE_OK |
| `decrypt_subsamples` | `CryptoKernel.c:90`: an array of subsamples and their number | only the first subsample is decrypted and counted |
| `mpd_last` | `nvDrmPlugin.h:87`: a hint about the ability to support a content | in a build with libxml2, an element that is the last node of its parent is found again for ever |

More were met while modelling and are in the models without a run of their
own.

- `nvDatabase.h:47` says that unless SQLITE_OK the connection was not created; when
  CREATE TABLE fails it stays open in `_pDatabase`, and `insertRecord` does not
  close it (`OpenFailed` in `DrmStore`, the `abandoned` of `ConnectionsClosed`).
- `nvDatabaseSecureTable.h:83` says that an existing record is deleted and replaced.
  A DELETE that fails is ignored, the key gets a second record, and reads find the
  old one (`DeleteStep`); two writers of one content that both delete before either
  inserts leave two records as well, since nothing calls `lockNvDatabase`.
  `KeysStayUnique` has both as conditions.
- `nvDatabase.h:105` says that SQLITE_ERROR of `tableExists` means that the table does
  not exist; a busy database, and any other failure, answers the same
  (`StatementFails` in `NvDatabase`).
- `nvDatabase.h:117` says that 0 means that the database was removed; a connection that
  is open elsewhere stays on the unlinked file and shares the journal of the
  database created next, in which an update that was not committed may stay
  (`removeDatabase`, `Hot`).
- `nvDatabase.h:60` says that SQLITE_OK of a close means that the connection was
  closed; two threads that open leave a connection that no close closes
  (`Open` in `DrmStore` overwrites `conn`).
- `utils/src/tests/main.c:109` expects comparisons of UUIDs in either order to be
  opposite; bytes that differ by 128 compare as -128 in both (the exception in
  `CmpIsAntisymmetric`).
- `removeDatabase` answers the -1 of `remove` for a missing file
  (`nvDatabase.h:119` says 1).
- A bind that fails leaves its statement, and SQLite refuses to close the connection
  from then on (`stuck`); a loaded record that fails its tag test is never freed
  (`AnswerRead`).
- `destroy` deletes the instance that other hosts hold, and the media player
  service deletes its plugin without `destroy`, which leaves the static pointer
  to a deleted object (`Delete`, `DeletePlugin` in `PluginLife`).
- An attribute with a prefix of "PERSO" as its name is taken for the tag (the
  premise `Unambiguous` of `RegisteredAsAsked`); an unregistration answers
  STATUS_OK and leaves the record (`ProcessOther`); a request with an empty mime
  type ends the process (`onAcquireDrmInfo`, `ExitOnNull`).
- After an empty sample has gone through a buffer, its length is 0, and `onDecrypt`
  answers DRM_NO_ERROR for later samples without copying them (`emptied` in
  `OkMeansCopied`).

## 6. What is not modelled

- The fixed answers of the DRM plugin's stubs, `onGetConstraints`, the copies of
  buffers and constraints between the two worlds, logging, and the functions
  without a caller outside of `nvDatabase.c` (`insertPersoRecord` and others).
- The ciphers and hashes themselves.
- `uuid_is_nil`, `requiresSecureDecoderComponent`: a loop over constant bytes and
  a string prefix.
- The host tests, read for the inputs the kernels are called with.
- The heap: blocks that the conversions, `onProcessDrmInfo` and a failed COMMIT
  (`nvDatabase.c:181`) leak are not counted; nothing in the code bounds or
  recovers them.
- Records longer than the buffer in which they are hashed: `RightBuffer` is about
  those that fit.
- Slips on one line that involve no other state, noted here only: the account and
  the subscription of a right are copies of its mime type
  (`drmDroidToNv.cpp:198`), and the kernel reads neither; the constructor of
  the DRM plugin publishes the address of a string that it deletes next, for half
  of the pairs (`nvDrmPlugin.cpp:222`); the message of a failed decrypt does not
  reach the caller (`nvCryptoPlugin.cpp:163`); the name of a table is appended to
  a query of 100 bytes without a test (`tableExists`, `nvDatabase.c:200`: the model
  has the one table of the repository); the texts of empty attributes are
  used without a NULL test (`parseMpdHelpers.cpp:90` and five more, modelled as
  deaths of the process); the maps of the DRM plugin compare the addresses of their keys
  (`nvDrmPlugin.cpp:86`), all of them literals of one file.
- Two entry points of a plugin library at once: the libraries do not lock, and the
  static pointer is read and written without any order.  What a call through a
  dangling pointer does beside ending well or killing the process.
- The checks by which SQLite from 3.8.3 on detects a database file that was moved
  or unlinked.

## 7. What could come next

The order followed: the rights store with its abstract specification first, since
both plugins depend on it and all concurrency and persistence are there; then
decryption; the two searches that decide what is accepted; the registration
through both plugin and kernel; the life of the plugins; the connection with its
transactions; and the proofs, component by component.

1. `DrmInfoExchange` over `DrmStore` itself instead of the abstract store, so that
   a registration meets the failures of SQLite; its state space needs bounds
   smaller than either module has alone.
2. Proofs: weaker conditions for `KeysStayUnique` and `AcknowledgedSavesAreStored`,
   such as several writers of different keys; that `RightsStore` itself has at most
   one record per key, so that the refinement carries it down; what a search answers
   for descriptions outside of `NoneBelowBetween`.
