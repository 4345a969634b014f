# A TLA+ model of anarchNet

anarchNet is a daemon that stores versioned objects, key-value pairs and files
on the local disk and serves them over JSON-RPC to a web front end (parannus).
This directory models the parts that carry its logic, checks them with TLC on
small instances and proves the central results with TLAPS for all instances.

    tlc -workers 2 -config FFStore.cfg MCFFStore           # a run
    tlapm FFStoreProofs.tla                                # a proof module

`PROJECT.json` lists the components, the runs, the lines of the source behind
every definition, the mutations that break the properties, the hazards, the
disagreements between code and documentation, and the theorems.

## 1. Inventory

Paths are relative to the repository.

| Component | State | Operations | Interacts with |
|---|---|---|---|
| Flat-file store (`src/modules/localstorage/flatfilestorage/ffstore.cc`) | two trees on disk: `raw/` (one file per value, named by its digest), `link/` (a directory per key with a symbolic link per value) | `kv_put`, `kv_get`, `kv_remove`, `initialise` | called through the signals of ModuleManager by every worker thread, without a lock |
| Objects and DBManager (`src/daemon/db.cc`, `db.h`, `db_manager.cc`) | an object: id, master revision, diffs, head | `create`, `update_object`, `rollback_object`, `get`, `get(revision)`, `save`, `get_object_head`, `delete_object` | stored as one value of the flat-file store |
| RPC methods (`src/daemon/rpc_manager.{h,cc}`) | none | `object.create`, `object.get`, `kv.*`, `file.*`; `object.delete`, `object.update` and the session methods are stubs | DBManager, ModuleManager |
| LRU cache (`src/daemon/lru_cache.h`) | keys and values in the order of use | `operator()`, `insert` | wraps `load_file` and `load_block` of the block store; no lock |
| Block store (`src/modules/localstorage/blockstore/blockstore.cc`) | `unique/` (headers of files, and blocks), a public directory of copies, two caches | `store_file`, `load_file`, `get_file`, `remove_file`; a key-value part that is not connected | LRU cache; `public_file` objects remove their copy when destroyed |
| RPC server (`src/rpc/rpc_server.{h,cc}`) and dispatcher (`third-party/jsonrpc`) | a buffer and a strand per connection, a pool of threads | accept, read until `\r\n`, dispatch, write, read again | handlers run on the pool; an exception leaves `io_service::run` and ends the process; the RPC methods are its callbacks |
| ModuleManager (`src/daemon/module_manager.{h,cc}`) | signals and their slots | combine the slots' results (`res_check`: true if one is) | one slot per signal in the build |
| FUSE storage (`src/daemon/storage.cc`) | virtual files and their blocks | load, read, write, store | `get_block` of the block store |
| Lifecycle (`src/daemon/daemon.cc`, `main.cc`, `singleton.h`) | singletons, threads, the mutexes of the log, NetManager, asio and signals2 | init, fork, run, signal handler, stop | all managers |
| SQL store (`src/modules/localstorage/sqlstore/`) | an SQLite database: objects, snapshots, diffs, their relations, a key-value table; one connection | `db_store_*`, `db_get_*`, `db_remove`, `kv_*` | called by every worker thread; not in the build at this commit |
| Front end (`frontend/parannus`) | table of callbacks, buffer of partial answers, package queues | `call`, data listener, store, save, install | the RPC server over one connection |

The rest (configuration, logger, plug-ins, host list, network manager, peer
database updater, `library/`) is start-up code, input and output, stubs, or not
part of the build; `PROJECT.json` says which, and section 6 why.

What is hard: the pool's threads interleave every access to the file system;
tests and the accesses they guard are separate system calls; files are
truncated in place; `save()` deletes before it writes; nothing is repaired after
a crash; an error that nobody catches ends the process; the cache evaluates its
function between looking up and inserting; a destructor deletes by path; TCP cuts
requests and answers anywhere and the server takes whatever has arrived; a signal
handler locks mutexes and destroys managers on top of any thread; a fork leaves
threads behind; operations of several statements share one database connection.

What would make each part correct:

- store: links lead to files; what was acknowledged is found again, also after
  a crash; calls return;
- objects: a revision is the text it was; no revision is lost; a get is current;
- cache: bounded, and it keeps what was used last;
- files: what was stored is loaded back byte for byte; blocks outlive the
  headers that need them; public copies are there while cached and gone after;
- RPC: every request of a connection is answered, once, with its own answer;
  one client cannot disturb another;
- lifecycle: requests meet complete managers; a signal ends the process;
- SQL store: transactions do not mix, what was committed stays, rows and
  relations belong together.

## 2. Modules

| Module | Models | Built on |
|---|---|---|
| `FFStore` | the flat-file store, one action per access to the file system | |
| `Objects` | objects and the operators on them (no state) | |
| `ObjectHistory` | one object in one caller's hands | `Objects` |
| `ObjectService` | `object.create` and `object.get` over the store | `FFStore`, `Objects` |
| `ObjectMap` | abstract: an atomic map from ids to histories | |
| `FileStore` | `store_file`, `load_file`, `remove_file`: the format of stored files, and workers that store at the same time | |
| `LruCache` | the cache and the threads that use it | |
| `PublicFiles` | `get_file`: cache, copies and the objects that own them | `LruCache` |
| `RpcConnection` | connections of the RPC server, the dispatcher, all RPC methods, the client `rpc.js` | |
| `Daemon` | start-up, fork, threads, signals, stop | |
| `SqlStore` | the SQL store, one action per statement | |
| `MC...` | constants, symmetry for TLC | |
| `FFStoreProofs`, `ObjectHistoryProofs`, `ObjectServiceProofs`, `FileStoreProofs`, `PublicFilesProofs`, `RpcConnectionProofs`, `DaemonProofs`, `SqlStoreProofs` | theorems | the module of that name, TLAPS; `ObjectServiceProofs` also on `FFStoreProofs` |

**FFStore.** A value stands for its own digest (the digest is assumed collision
free). `raw`, `torn`, `rawDirs` are the tree `raw/`: files that exist, those of
them that are truncated and not written, parent directories; `link`, `linkDirs`
the tree `link/`. A worker's `pc` names the next system call: `PutRawDir` is the
`exists` of `store_block`, `PutMkRaw` the `create_directories` (which returns
false when another worker was faster, and then so does the put), `PutOpen` the
truncating `ofstream`, `PutOpenFails` the `!file.good()` that may come of it
instead, `PutWrite` the flush, and so on to `PutSymlink`, which
throws when the link is there by now or its directory gone. `GetIter` picks any
entry (directory order), and in an empty directory returns an arbitrary Boolean,
because `kv_get` then runs off its end. `GetSize` and `GetRead` are separate: the
size may be that of a full or a truncated file by the time of the read.
`remove_all` is `RemoveStat`, `RemoveOpenDir` (the listing is read when the
directory is opened), one `RemoveEntry` per entry and `RemoveDir`; when it removed
nothing, `RemoveAgain` and the loop that follows. `Abort` is an exception that no
handler catches, `Kill` the death of the process by other means, `Restart` a new
start on the same files. `alone` and `acked` are history variables: puts and gets
that no removal of their key overlaps, and acknowledged puts.

**Objects.** A text is a function from regions to glyphs, a patch the set of its
hunks; `patch_apply` leaves out a hunk whose old text it does not find. (The
library in `third-party` also places a hunk whose surroundings have changed a
little; regions are far enough apart for that not to matter.) A
revision id is the patch itself (the code takes the patch's digest).

**ObjectService.** A worker carries a request (`job`) from stage to stage: load,
then put twice (`Object::create` stores, and the handler stores again and looks
only at the second result), or delete and save for an update. The store's calls
in between are FFStore's own actions. The answer to a get is the head; a request
with `full`, which changes nothing in the stores, is in `RpcConnection`. `log` records the acknowledged texts of a
key, `muddled` the keys whose creates overlapped, died, failed or came without an
id for an object that exists.

**FileStore.** A stored file is a header in `unique/`, either with the content
(`Inline`) or with the names of the blocks (`Index`), or a block. A worker goes
through `store_file` step by step: `StoreKnown` or `StoreNew` (the test whether
the file is there), `OpenHeader`, `OpenBlock` and `WriteBlock` for each block,
`CloseHeader`. Opening truncates; what is written to the header stays in the
stream's buffer until it is closed (an index longer than the buffer would reach
the disk in pieces, with the same end). `Remove` may take a file away from under
a worker that has it open, whose writes then go nowhere (`lost`, `Flush`).
`StoreFails` is every `return false`, `Die` the death of the process. Blocks but
the last are hashed as C strings: up to the first NUL, or beyond the buffer
(`Trails`). `HeadersApart` and `NamesApart` say what the format needs of the
contents that are stored: no file is the name of a block, and two blocks with one
name are one block. `Torn` is a file one of whose blocks is truncated.

**LruCache, PublicFiles.** A container operation is one step: the code has no
lock, and what a data race on the container itself would do is not modelled. A
`public_file` object lives while the cache or a worker refers to it (`Release`),
and removes the file at its path when it goes, whoever wrote it. Of a stored file
`PublicFiles` keeps whether `load_file` would read it back whole: it is cut short
from the opening of its index to the end of `store_file` (`StoreBegins`,
`StoreEnds`), or for ever if that fails, and again while the store of another file
rewrites a block they share (`StoreTears`). Of a short one `load_file` makes a
good object with a wrong copy (`LoadCopies` with the result "wrong"); where a block
is missing (`Broken`), an object that is not good. `LoadThrows` is `file_not_found`
at each place it is thrown; it ends the process. `read[w]` and `objs[t].whole`
record that the file was whole from the opening to the end of the copying.

**RpcConnection.** A request travels as a head and a tail, an answer as two
parts; `HandleRead` takes any prefix of what is on its way that holds a
delimiter, which is what `async_read_until` and the loop behind it do. `Text` are
the positions in that prefix that hold more than white space. What is
behind a delimiter is parsed with it or dropped; a text that does not begin with
a whole request makes the dispatcher throw, and an empty one, like an empty
response, leaves the connection without a pending operation (`deaf`). Each
method is an operator from the request to the set of its outcomes: an answer,
silence or an exception, with the stores after it (`Outcome`). `OnData` is the
listener of `rpc.js`: `Split` cuts the data at the delimiters, `parse` takes each
text but the last. A key arrives without its white space (`Arrives`), because
`handle_read` copies the text with `istream_iterator<char>`, and leads to a
directory of the store (`validate_key`): a key that is too short to be a digest is
hashed. `kv.get` reads one entry of the directory, any one, and asks the result for
the key, although it is kept under the digest of the content: it delivers the
content only if its digest is the key, and otherwise an empty one.
`frontend/parannus/lib/filestore.js:26-36` stores contents under names of its own
and would get nothing back. A method is one step. Where calls of two clients
could meet in a directory one of them writes (`Clash`, read from everything they
have sent so far), the step allows all that `FFStore` and `ObjectService` show to
come of a meeting: failures, rests, torn contents, and the exceptions of
`create_symlink`, `remove` and the directory iterator; this is more than the
interleavings of the moment can produce, never less.

**Daemon.** Every thread has a stack of what it does; a signal pushes the handler
on the stack of any thread. `Mutex` says at which points a thread takes which of
the mutexes that the handler takes as well: of Boost.Log's synchronous sink
(`LogRecord`), of NetManager, of RPCManager's `io_service` (the pool in `Poll`, the
handler in `RpcStop`) and of the signal `kv_put` (a request in `Emit`, the
destructor of ModuleManager in `Disconnect`). None is recursive. `Lock` takes one,
`Unlock` gives it back. The allocator's lock may be held at any point where a
thread is not waiting, so there a signal may hang the process at once ("hung"). The
steps of `anDaemon::init` are actions that may fail; `Fork` keeps the calling thread
and the mutexes as they are, or goes on as the parent, which exits. `stop()` is
`NetStop`, `RpcStop`, `Kill`. A use of a destroyed singleton (`Uses`) may or may not
end the process; an exception that leaves a request ends it ("thrown"). `Exit` and
`Leave` are the beginning and the end of the destructors at exit; a handler that
runs in between may crash on what is no more (`SignalLate`). Records logged before
the handlers are installed, other than the file system's, are left out: nothing
can interrupt them but the default action of the signal. So are the two of
RPCManager's own thread (`rpc_manager.cc:94-96`) and all but the first of a request,
where a signal meets what it meets at those that are there.

**SqlStore.** `live` is the database as the connection sees it, `disk` what the
last commit left. An operation is begun with the list of its statements and
executes them one by one (`Exec...`), so that the single statements of other
threads come in between; `Throw` is any of them failing. The INSERTs into `ObjID_`
and the table of the class are one step (`Write`): both are in the transaction, no
statement outside it touches either table, and what a failure between them leaves
is never committed. A record's list of others has at most `MaxList` elements, whose
own lists are empty; a longer list repeats the same statements. `kv_remove` selects
a row (`found`) and `kv_delete` deletes the row of that id afterwards, whichever pair
it holds by then; `reused` are the pairs of other keys that went into a selected
row. A link made before a
record has its id holds the id 0, as in the code. `seen` are the rows whose ids
callers hold and may store again, also after somebody removed them (`gone`,
`stale`).

## 3. Runs

| Run | Bounds | Shows |
|---|---|---|
| `FFStore` | 2 workers, 2 values, a short and a long name that share a directory, 1 restart | links never dangle (`NoDanglingLink`); files are incomplete only inside a write (`TornOnlyInsideWrite`); acknowledged puts survive, and gets find them (`AckedPutSurvives`, `GetFindsAckedPut`); every call returns (`EveryCallReturns`) |
| `ObjectHistory` | 2 regions, 2 glyphs, 5 diffs | along a linear history without repeated patches revisions replay (`RevisionsReplay`), the head is the master's text (`HeadIsMaster`), and no revision is lost (`RevisionsKept`) |
| `HistoryRollbackRestores` | 4 diffs | refutes `RollbackRestores`: an update after a rollback, or a patch made twice, changes what a revision replays to |
| `ObjectService` | 2 workers, 3 creates with and without id, 1 restart | gets are current (`GetReturnsLatest`), histories complete (`HistoryComplete`), and the daemon aborts only after creates met, died or failed (`AbortOnlyWhenMuddled`) |
| `ObjectRefines` | 1 worker, 4 creates, 2 ids | implements `ObjectMap`; every request is answered |
| `ObjectCrash` | 1 worker, 2 creates, 1 restart | refutes `GetReturnsActualRevision`: a death inside `save()` loses the object |
| `FileStore` | 2 workers, 3 files, blocks of 3 bytes, 3 stores that write | files for which the format works are loaded back (`SoundFilesLoad`), blocks stay while a header names them (`BlocksKept`), with concurrent, failing and dying stores |
| `PublicFiles` | 2 workers, 3 files (two stored beforehand, one of them with a missing block), capacity 2 | the cache is bounded and keeps what was used last (`Bounded`, `KeepsMostRecent`); owners, references and cache agree (`FTypeOK`); `NoLeakedCopy`; `CachedCopyComplete` |
| `PublicRace` | 2 workers, 2 files, capacity 2 | refutes `GivenPathExists`: of two gets that miss one file, the object that loses takes the copy of the other with it |
| `RpcConnection` | 2 clients, with 2 calls and 1 call, a key, its digest and a spelling of it with white space | only whole answers, once and in order (`AnswersOnceInOrder`); who waits is answered (`EveryCallAnswered`); the daemon ends only by a client that does not wait, a method that throws by itself or calls that meet in a directory (`TameClientsKeepServerUp`); a connection goes deaf only by its own client (`DeafOnlyByItsOwnClient`); `KvContentRight` |
| `Daemon` | 1 pool thread, 2 requests, 2 signals, with and without `--daemonize` and the peer updater | requests begin only while every manager is there (`RequestsFindManagers`); the daemonized process crashes only by a request under way during `stop`, or a handler that runs while `main` leaves (`CrashNeedsRequest`); a signal ends it, unless it catches a mutex or the allocator (`SignalEnds`); it gets to serve, unless the fork copies a held mutex (`GetsToServe`) |
| `SqlStore` | 2 workers, 1 identifier, 2 contents, 2 keys, 2 rows, 1 pair, 3 transactions | `OneTransaction`; what was written and acknowledged is on disk (`AckedKept`); `RowsWhole`, `RelationsSound`; an abandoned transaction holds back everything (`StuckUntilRestart`) |

Two workers are enough for every race found here: each is between one call and
one other on the same key or file. Two values per key make a directory with two
entries, two keys a value that is shared; one restart is a crash with a complete
second life after it. Two calls of one client are what it takes not to wait, and
two rows a relation between a record and the one it was stored with. One row for
pairs of two keys is what it takes to use its id again. In `Daemon` one thread of
the pool, main, the RPC thread and two helpers already hold every pair of
mutexes against each other, and the first signal's handler interrupted by the
second's; two requests are one before and one during a stop. Five diffs
contain two updates around a rollback and a
repeated patch. In `FileStore` the two long files share a block, one repeats it
and ends in a NUL, the other has a NUL in a full block and ends in the empty block
behind full blocks, and their names are apart all the same; three
stores are two that overlap and one after them. A cache of two makes every third
file an eviction. The bounds in guards are `MaxRestarts`, `MaxCreates`,
`MaxDiffs`, `MaxStores`, `MaxCalls`, `MaxRequests`, `MaxRow` and `MaxPair`; `MaxList`
bounds the lists that are passed to the SQL store, and `Fixed` are files that are
stored from the start and left alone.

Deadlock is not checked where the system may stop: the process has ended and its
restarts are used up, the bound on calls is reached, or, in `Daemon`, threads
hang on a mutex, at the places that the liveness properties except.

**Fairness.** `FFStore` and `ObjectRefines` assume weak fairness of each worker's
steps and nothing else: the kernel runs every thread of the pool, and a thread in
a handler waits for nobody, since there are no locks. `RpcConnection` assumes that
some handler that is ready, of the server or of the client's event loop, runs,
and `Daemon` that some thread that can go on does: less than fairness of each,
and enough, because calls, requests and signals are finitely many. Clients,
signals, kills and restarts are not assumed to happen.

### What the properties exclude, and why

The hypotheses of the passing properties mark behaviour of the code that a user
would not expect:

- a get may read an empty or half-filled buffer while another put of the same
  value rewrites the file (`TornOnlyInsideWrite` says when);
- of two overlapping updates of one object both are acknowledged and one is
  lost; between delete and create of an update a get finds nothing (`muddled`,
  `sure`);
- creating a text again without an id, after its object was updated, leaves two
  entries under one key, and gets answer with either (`muddled`);
- files of a size above a block less four bytes and up to a block, or of 4 GiB
  or more, are not loaded back (`Sound`), nor is one whose store failed once
  (`failed`); a death inside `store_file` empties the block then open, for every
  file that shares it (`Torn`);
- a file whose content is the name of a block is taken for it
  (`HeadersApart`); a full block with a NUL in it can take the name of another
  block and overwrite it (`NamesApart`). The block can belong to another file,
  which has no NUL at all: with blocks of three bytes `<<1, 1, 1, 2>>` and
  `<<2, 0, 3, 1>>` spoil each other, because the first block of the second
  file is hashed as `<<2>>`, the name of the last block of the first;
- two loads of one file that meet leave a cached object without its copy
  (`raced`); a file that is loaded while it, or a file it shares a block with, is
  being stored, or whose store failed, gets a wrong copy behind a good object
  (`whole`), and one with a missing block leaves a half-written copy (`Broken`);
- a file counts as stored as soon as its header is opened: a second `store_file`
  answers true while the first is still writing (`Storing`), and a store that
  shares a block empties it for a moment (`Torn`);
- `kv.remove` of a key that is not there, `file.get` of an id that is not stored,
  the two bootstrap methods and a request without parameters end the daemon by
  an exception (`Tame`), and so does `object.get` of a stored object with a `full`
  that is not a Boolean; so does a request that arrives cut in two behind another
  (`rushed`), and so may two calls that meet in a directory of the store, such as
  two puts of one value under one key (`Clash`);
- a content can be got under the digest of its own only, and one that was put
  under a short name or with white space in its key is got under the digest it
  leads to as well (`KvContentRight` says which keys);
- the stubs `object.update`, `object.delete` and `session.t.*` make a
  connection deaf (`Mute`); a failed accept ends accepting (`accepting`);
- invalid parameters are reported under `err`, not `error`
  (`createErrorResponse`);
- a signal that interrupts a thread inside `LOG`, the allocator, asio's queue or an
  emission of `kv_put`, or a second one inside the handler of the first, can hang
  the daemon (`Stuck`); one that comes while `main` leaves can crash it (`Leaving`);
  `--daemonize` can hang at
  the first record after the fork (`Lost`), and its child has neither the file
  system's thread nor the updater's;
- a failed operation of the SQL store leaves its transaction open: whatever is
  stored and acknowledged later through `kv_put` is lost at the restart
  (`unsure`); storing a record again that was removed writes nothing or hits
  another row, and is acknowledged all the same (`stale`, `Wrote`); a pair that is
  put into the row that a `kv_remove` of another key has selected is deleted by it
  (`reused`).

## 4. Proofs

`FFStoreProofs` (for all sets of workers, names, values, and any bound on
restarts):

- `TypeCorrect`: `Spec => []TypeOK`. `TypeOK` is inductive.
- `LinksNeverDangle`: `Spec => []NoDanglingLink`. Not inductive alone: a put that
  is about to link must have its file in `raw/` (`BlockBeforeLink`), which holds
  because no action removes from `raw`. That a removal never deletes a directory
  with entries comes from the test in `RemoveDir`.
- `AckedPutsSurvive`: `Spec => []AckedPutSurvives`, with `PutUndisturbed`: no
  worker is removing the key of an undisturbed put or of an acknowledged one,
  and such a put is linked when it returns true. `CallRemove` takes the marks
  away, and no step but a removal's takes a link away.
- `GetsFindAckedPuts`: `Spec => []GetFindsAckedPut`, with `GetUndisturbed`: an
  undisturbed get still has an acknowledged put of its key, so its directory
  exists and has an entry, and the entry it picked stays.
- `TornOnlyInsideWrites`: `Spec => []TornOnlyInsideWrite`, inductive with the
  types.

`ObjectHistoryProofs` (texts of any regions and glyphs, any number of diffs):

- `RevisionsAlwaysKept`, `RevisionsAlwaysReplay`, `HeadAlwaysMaster`. `HistoryInv`
  says where the text of a revision comes from: some diff has its id, and
  `Replay` up to that diff gives the text (`Made`), for every revision handed out
  and for the head under `master`. An update adds a diff at the end, which leaves
  `Replay` of the ones before it alone (`ReplayAppend`), and a patch that was just
  made applies to the text it was made from. The rest is `get_rev` finding that
  diff (`GetRevIndex`); `NoRepeatedPatch` makes it the only one.

`ObjectServiceProofs` (any workers, ids, texts, number of creates and restarts),
under the hypothesis `ObjectsStorable`, that the store takes any object as a value.
Two invariants carry it, both checked with TLC before they were proved:

- `Tracked` ties a request to the store's call it is in: the stage determines
  which steps of the store `pc` can be at, and the call is about the request's key
  and object; everything linked under a key, and everything a worker reads or
  writes, is an object whose id leads to that key (`Placed`, `Reads`). It rests on
  `TypeOK` and `Links` of `FFStoreProofs` and gives `ServiceTyped`:
  `SSpec => []STypeOK`.
- `Served` says, of every key that is not muddled, how far its create is
  (`DirInv`). At most one is under way. Between creates the directory holds one
  entry that records the acknowledged texts, or nothing (`Holds`). During one,
  `Progress` follows the directory from stage to stage: what the removal has
  left, that no put finds its link already made, that the object made records
  the acknowledged texts and the new one (`Records`). A get that no create
  overlapped reads the entry that `Holds` describes (`SureInv`). What the diffs of
  a created or updated object replay to is `CreateProper` and `UpdateProper`, by
  induction over the diffs.

From them:

- `HistoryAlwaysComplete`: `SSpec => []HistoryComplete`, and `GetsReturnLatest`:
  `SSpec => []GetReturnsLatest`.
- `AbortsOnlyWhenMuddled`: `SSpec => AbortOnlyWhenMuddled`. The removal of
  an update finds the directory, and the link of a put is not there yet while its
  directory is, so no step of the only create of a key throws (`CreatorUp`).
- `SerialImplementsObjectMap`: `SerialSpec => ImplementsObjectMap`, under
  `OneCaller` (one worker, and requests that name their object), the conditions of
  the run `ObjectRefines`; `SequentialImplementsObjectMap` is the same with the
  run's fairness. With one caller nothing is muddled and every get is sure
  (`Serial`), so the history of a key is what was acknowledged, and the text of
  the create under way from the moment its object is linked (`AllTexts`,
  `LinkedKnown`). Every step of the store but that one is then a stutter, a load
  that a get asked for is `Get`, and its reply is `Answered`.

The lemmas about `Replay` stand in this module as well as in
`ObjectHistoryProofs`: that one has variables of its own, and lemmas with
hypotheses cannot be cited through an INSTANCE.

`FileStoreProofs` (any workers, files, block sizes; contents are sequences of
bytes):

- `StoreTyped`: `StoreInv` adds the shape of a worker's call to the types: it
  never has written more blocks than the file has.
- `BlocksStay`: `KeptInv` adds the blocks that a worker has written and not yet
  named, and the one it has open. No file has the name of a block
  (`HeadersApart`), so `Remove` takes none of them.
- `StoredFilesLoad`: `LoadInv` says that whatever lies under the name of a block
  is that block or empty (`BlocksRight`, from `NamesApart`), that a header nobody
  has open is the whole header or belongs to a failed file (`HeaderRight`), and
  that a stored file has one. Reading then gives the blocks in order, and the
  blocks in order are the file: both by induction over the number of blocks.
- `NulFreeNamesApart`: files without NULs in full blocks meet `NamesApart`,
  whatever follows the buffer in memory.

The first attempt at `StoredFilesLoad` failed for a reason: the property used to
demand that the file itself has no NUL in a full block, which does not help
against the blocks of other files. TLC has the two files of section 3 as a
counterexample.

`PublicFilesProofs` (any finite pool of threads, any files, any capacity of at
least one):

- `CacheBounded`, `CacheKeepsRecent` for `LruCache` alone and
  `PublicCacheBounded`, `PublicCacheRecent` for `get_file`: `relocate`, `purge` and
  `insert` preserve "no key twice, at most `Capacity` keys", and until a key is
  inserted twice the container is the end of the list of all keys in the order
  of their last use (`CacheInv`).
- `ObjectsOwned`: `OwnInv` ties objects, the cache's references and the workers'
  pointers together. That a free token is always left is a counting argument:
  one object per cached key and per worker (`FiniteSetTheorems`).
- `CopiesNeverLeak` (`LeakInv`): a copy that a load has filled, rightly or wrongly,
  has a good object.
- `CachedCopiesComplete` (`SoleInv`): a file that was never loaded twice at a time
  has at most one object or one load, so no destructor takes the copy away from
  under another; what a load copies while the file is whole is complete.

`RpcConnectionProofs` (any clients, calls, keys, contents, any cut of the
streams). `RpcInv` numbers the parts of both streams: the part at place `i` of
`toServer` is number `Taken + i` of everything the client ever sent, hence head or
tail of a known request; the parts that `rpc.js` has kept followed by those on
their way (`Stream`) are the halves of the answers to the requests `executed`,
starting behind those `seen`. With that:

- `RpcTyped`, `AnswersAlwaysInOrder`: splitting the data of a listener's call
  gives whole answers in order and at most half an answer as the rest
  (`SplitEquation`, `ParsedPairs`), and what `handle_read` takes begins later than
  everything executed before.
- `TameClientsSafe`, `DeafnessIsOwn`: a client that waits has at most one request
  on its way, whole (`Waits`, from `AllAnswered`), so the text taken begins with a
  whole request, and only its method can throw or be silent (`DispatchFits`, one
  case per method). A method that is `Tame` throws only where calls could meet
  (`IfClash`), and that stays so, for `sent` only grows.
- `KvContentsRight`: contents in a directory were put by some call whose key leads
  there (`KvPut`), and an answer keeps what `kv.get` promised while it travels
  (`KvRight`).

`DaemonProofs` (any pool, any finite set of signals, any number of requests):

- `DaemonTyped`: stacks are one piece of own work below runs of the handler
  (`StackInv`), one per signal that was sent; the holder of a mutex is a frame at a
  point that takes it, or the file system's thread that the fork left behind
  (`LockInv`).
- `RequestsAlwaysFindManagers`: `Spec => RequestsFindManagers`. `OrderInv` reads
  from `main`'s point what is made, installed and started; `StopInv` says that a
  manager is destroyed only after the `io_service` was stopped, and a request
  begins only before.
- `CrashesNeedRequests`: the threads of init are not in the daemonized process
  (`OrderInv`), so who can use a destroyed manager is a thread of the pool that
  was in a request then (`busy`); and main leaves only when the pool and the RPC
  thread have returned (`JoinInv`), so who runs then is a handler.

`SqlStoreProofs` (for any number of threads, identifiers, rows and calls):

- `TransactionsExclude`: `Spec => []OneTransaction`. Inductive once `prog` is
  known to be a function (`TxInv`): an operation begins only when no transaction
  is open (`BeginsNeedNone`), and then by `OneTransaction` nobody is inside one;
  statements are executed by the one that is (`StatementsInside`), and the calls
  without begin leave `tx` and `prog` alone (`SinglesPassBy`).
- `AbandonedTransactionStays`: `Spec => StuckUntilRestart`, from the same lemmas:
  with a transaction open and nobody inside it no operation can begin, no
  statement runs, and single statements stay off the disk.

- `TablesTyped`: `SqlType` also types the programs: the statements still to run
  are in the order of the code and link only records that are there or follow.
- `AcknowledgedIsKept` (`AckInv`, `FoundInv`): outside a transaction connection and
  disk agree; inside, they differ from what was acknowledged only where the open
  transaction has written (`wrote`). The row that a `kv_remove` has selected holds a
  pair of its key or one that was put there since (`FoundInv`), so `kv_delete` takes
  no other acknowledged pair.
- `CommittedRowsWhole` (`WholeInv`, `NameInv`), `CommittedRelationsSound` (`SoundInv`):
  a statement is free to break a relation if the record it names is still to be
  written by the same program (`Later`); at the commit nothing is left to write.

**Induction.** The library's induction theorems take a predicate and cannot be
used; `LeastNat` (every non-empty set of naturals has a least element, from
`WFMin`) and `NatInductionSet` state induction over *sets* of naturals, which the
provers can instantiate. With them the proofs unfold the recursive functions
`Replay`, `Output` and `Split` and show what they compute for inputs of every
length.

**Assumptions.** Those named in the modules and evaluated by TLC in every run: a
digest for every name, long names used as they are (`NamesAssumption`), contents
a client cannot put (`ValuesAssumption`), natural bounds (`RestartAssumption`,
`SqlAssumption`), a capacity that is not zero (`CapacityAssumption`: the code
asserts it), the blank not being a glyph (`TextAssumption`), sizes
(`SizeAssumption`) and bytes (`ContentAssumption`), a finite pool
(`WorkersAssumption`), missing blocks only of known files (`BrokenAssumption`),
names of threads apart and finitely many signals (`DaemonAssumption`), files
stored beforehand among the known ones (`FixedAssumption`), digests being long keys
and archives no contents of clients (`KeyAssumption`), the absent
row not being a row (`RowAssumption`), calls over the given keys, contents and
files (`CallAssumption`), and ids of contents among the long names
(`ServiceAssumption`). `ObjectsStorable`, `OneCaller` and the conjunct `Undisturbed` of
`SerialSpec` are hypotheses of theorems:
the first is about infinitely many objects, which TLC cannot enumerate, and holds
in the runs, where `Values` is the set of objects; the second is the instance of
`ObjectRefines`, and with two callers, or without ids, the refinement does not
hold (section 3). Nor does it when an update that has deleted the object fails to
open its file, or the process ends there, which `Undisturbed` takes out.

**Only model-checked.** Liveness, which TLAPS does not reason about here:
`EveryCallReturns`, `EveryRequestAnswered`, `EveryCallAnswered`, `SignalEnds`,
`GetsToServe`. Every other property of a passing run is a theorem.

## 5. Assumptions of the model

- Digests do not collide; a digest never equals a name a client writes unless
  the constants say so.
- A value's content reaches its file in one write; a file is empty or complete.
- Uninitialised memory never parses as an archived object.
- `remove_all` sees the entries that were there when it opened the directory.
- The file system takes what is written, but for `StoreFails` and `PutOpenFails`.
- In `RpcConnection`, no client puts the archive of an object through `kv.put`
  (`KeyAssumption`).
- Container operations of the cache are atomic.
- TCP keeps the order of bytes and loses none while a connection is open.
- A statement of SQLite is atomic, and so is the creation of a record (`Write`); `begin` fails while a transaction is open; a
  transaction that was not committed is rolled back when the database is opened
  again.
- The header of a stored file reaches the disk when it is closed.

## 6. Not modelled

- The file operations of the FUSE storage (`storage.cc`): both stream operators
  run off their end without a return, a write behind the first block indexes
  past the vector, and `file::store` is empty. There is no defined behaviour a
  property could hold of. Its thread is in `Daemon`.
- The key-value part of the block store: connected to no signal.
- `NetManager::run`, Hello and GetPeers: never called, and stubs. The p2p port
  accepts connections that nobody serves.
- Arrays of requests and `system.describe` of the JSON-RPC dispatcher: the front
  end sends neither.
- Configuration, plug-in loading, host list and bootstrap server: input and
  output without state that changes later; the first two appear as steps of
  start-up that may fail.
- The queues of the front end above `rpc.js` (`db.js`, `ppm.js`, `setup.js`).
- Data races on the cache's container, whose outcome can be anything.
- `library/`: used by no target.

## 7. State of the work

The plan was to model the store and the objects above it first, then files and
public copies, the RPC connection, the daemon's life and the SQL store, and to
prove the safety properties of each in that order, `ObjectService` last because its
proofs rest on those of the store. All of that is done. What could follow is
outside the provers' reach (liveness) or needs code that is not there yet: the
FUSE files, once their operations return; the key-value part of the block store,
once it is connected; the network manager, once it runs.
