# cbfuse in TLA+

cbfuse is a FUSE file system that keeps its files in a Couchbase bucket: every
path is a key, and what a disk file system keeps in inodes, directories and
data blocks are documents of three collections. This directory holds a TLA+
specification of it, TLC configurations that check the specification on small
instances, and proofs, checked by TLAPS, of what holds on every instance.

Line numbers refer to `src/cbfuse/` unless another directory is named.

## 1. Inventory

### The parts, their state and their operations

| part | source | state | operations |
|---|---|---|---|
| FUSE handlers | `cbfuse.c` | none between requests but the `lcb` instance | getattr, open, create, unlink, readdir, read, write, chmod, truncate, utimens, mkdir, rmdir |
| start-up | `cbfuse.c:424-606` | the `lcb` instance | parse options, connect, open the bucket, look up the root directory, `insert_root`, `fuse_main` |
| stat documents | `stats.c` | collection *stats*: type, permissions, owner, times, size per path | `get_stat`, `insert_stat`, `remove_stat`, `update_stat_atime/_utimens/_size/_mode` |
| directory entries | `dentries.c` | collection *dentries*: JSON document with the array "c" of child names per directory | `add_new_dentry`, `get_dentry_json`, `add_child_to_dentry`, `remove_child_from_dentry`, `remove_dentry` |
| file data | `data.c` | collection *blocks*: the single block of each file | `read_data`, `write_data`, `truncate_data`, `remove_data` |
| synchronous calls | `sync_get.c`, `sync_store.c`, `sync_remove.c` | the result of the call under way | schedule, wait, copy the answer in a callback |
| limits | `common.c` | – | `MAX_PATH_LEN`, `MAX_DOC_LEN`, `MAX_FILE_LEN` |

### How they interact

The kernel resolves a path with getattr, decides whether to send the request,
and libfuse calls one handler. The handler is a straight line of functions of
`stats.c`, `dentries.c` and `data.c`, each of them one or two synchronous
key-value calls (a get, a get and a store, a remove). `main` forces `-s` and
`-f` (512-516), so one process serves one request at a time; nothing stops
several processes from mounting one bucket. There is no transaction: one
request changes up to three documents by as many calls, and a directory entry,
a stat document or a block is changed by reading it whole and storing it whole.
Only the four `update_stat_*` functions set a CAS.

### What is hard

* **Crashes between two calls.** What a handler leaves half done must not
  confuse the next process (`cbfuse_create`, `cbfuse_mkdir`, `insert_root`,
  `cbfuse_unlink`, `cbfuse_rmdir`, block before size in `write_data`).
* **Calls that fail, perhaps after having been carried out.** A call returns an
  error of the library (`-EIO`) or a failed status (`-ENOENT`, whatever the
  status was: a time-out, a wrong CAS, "too big"). Some callers ignore errors.
* **Documents that belong together.** `st_size` and the block; a name in a
  directory entry and the stat document of the child; a directory's stat
  document and its directory entry.
* **Boundaries.** Truncation to zero and to more than the length of the block;
  a write that ends exactly at, before or after the end of the block; the limit
  on files (256 documents long) against the limit on documents.
* **The inside of a synchronous call.** The result is freed by the caller and
  written by a callback; a command that timed out may be carried out later.
* **Bytes.** Growing, holes and truncation in a buffer that `malloc` returned.
* **Directories that change while they are read**, in calls whose buffer may be
  full.
* **Several mounts.** Read-modify-write with and without CAS; two processes
  that create the root directory.

`PROJECT.json` lists these hazards line by line with the properties that cover
them.

### What makes each part correct

* Stat documents: no update is lost (`NoLostStatUpdate`); whatever else is
  stored for a path has one (`StatAnchors`).
* Directory entries: no name twice (`NoDuplicateChildren`), every path named by
  its parent (`TreeComplete`).
* File data: the block is as long as the size says (`SizeMatchesBlock`), a
  successful write is there (`WriteVisible`).
* Handlers: what a return value of 0 vouches for is stored (`SuccessIsStored`,
  which lists it request by request), and every handler returns
  (`EveryRequestReturns`).
* The handlers together: a file system whose requests are atomic
  (`ImplementsFileTree`).
* File contents: what was written is read (`ImplementsFileBytes`); stamps are
  times (`StampsAreTimes`).
* readdir: every name once (`ListsAllOnce`), and an end (`ListingEnds`).
* Synchronous calls: each is an atomic call with one outcome
  (`ImplementsKeyValueStore`) and returns (`EveryCallReturns`); results live as
  long as they may be written to (`ResultsLive`).
* Start-up: FUSE is entered only with its arguments, an open bucket and a root
  directory, of which a stat document is enough if it is found
  (`ServesOnlyWhenReady`); a failure shows (`SuccessMeansServed`); it succeeds
  after any crash (`RestartSucceeds`), changes nothing that is there
  (`BootstrapNeverClobbers`), and leaves a root that works (`MountedRootReady`,
  which the code breaks).

## 2. Modules

| module | models | with |
|---|---|---|
| `KeyValue` | a synchronous call as its caller sees it | `Outcomes`, `Takes`, `Reply` |
| `CbfuseState` | collections, the control state of a mount | parameters, assumptions, `TypeOK`, `ExpireCas` |
| `CbfuseHandlers` | order of calls and error paths of `cbfuse.c`, `data.c` | one table per handler: call just made × what it reported → next call |
| `CbfuseStats` | `stats.c`, `cbfuse_getattr`, `cbfuse_open` | one action per call on collection *stats* |
| `CbfuseDentries` | `dentries.c` | one action per call on collection *dentries* |
| `CbfuseData` | `data.c` | one action per call on collection *blocks* (lengths) |
| `Cbfuse` | the processes and the kernel that drives them | `Init`, requests, mount, unmount, crash, `Next`, `Spec`, `FairSpec` |
| `CbfuseProperties` | what is checked | |
| `FileTree` | abstract: a tree of files and directories, atomic requests | |
| `CbfuseTree` | the mapping from documents to that tree | `ImplementsFileTree` |
| `CbfuseHomes` | rules for mounts that keep apart | `HomesSpec` |
| `FileBytes` | abstract: the bytes of a file | |
| `CbfuseFile` | `data.c` on bytes, `stats.c` on time stamps, for one file | `ImplementsFileBytes`, `StampsAreTimes` |
| `CbfuseReaddir` | the loop of `cbfuse_readdir`, libfuse's filler, a user who reads on | `ListsAllOnce`, `ListingEnds` |
| `KeyValueCommands`, `KeyValueStore` | abstract: commands, and atomic calls with one of the outcomes of `KeyValue` | |
| `CbfuseSync` | `sync_get.c`, `sync_store.c`, `sync_remove.c` on a lossy connection | `ImplementsKeyValueStore`, `EveryCallReturns`, `ResultsLive` |
| `CbfuseStart` | `main` and `cbfuse_opt_proc` | `ServesOnlyWhenReady`, `SuccessMeansServed` |
| `MCCbfuse`, `MCHomes`, `MCReaddir`, `MCSync` | small instances for TLC | trees of paths, symmetry of mounts |
| `CbfuseProofs` | TLAPS proofs for any number of mounts and any faults | `TypeCorrect`, `StatUpdatesKept`, `StartClobbersNothing` |
| `CbfuseAnchors` | TLAPS proofs for one mount whose calls do not fail | `AnchorInv`, `StatAnchorsHold`, `NamesListedOnce` |
| `CbfuseComplete` | TLAPS proofs for one mount: requests leave nothing half done | `TreeIsComplete`, `SizesMatchBlocks`, `WritesVisible`, `SuccessStored` |
| `CbfuseRestart` | a TLAPS proof on top of them about the next process | `RestartAlwaysSucceeds` |
| `CbfuseFileProofs` | TLAPS proofs for blocks of any size | `FileBytesImplemented`, `StampsHoldTimes`, `FileTypeCorrect` |
| `CbfuseReaddirProofs` | TLAPS proofs for directories, names and buffers of any size | `EveryNameListedOnce`, `NeverListedTwice`, `ReaddirTypeCorrect` |
| `CbfuseSyncProofs` | TLAPS proofs for any number of keys, commands and results | `CallsAreAtomic`, `ResultsOutliveCallbacks` |
| `CbfuseStartProofs` | TLAPS proofs about `main` | `ReadyWhenServing`, `SuccessEarned` |

How they compose: `CbfuseState`, `CbfuseHandlers`, `CbfuseStats`,
`CbfuseDentries`, `CbfuseData` and `Cbfuse` are one specification in layers. Its
steps are key-value calls, which `KeyValue` takes as atomic; that they are is
shown from below by `CbfuseSync`, and that the steps of a handler amount to one
atomic request is shown above by `CbfuseTree`. `CbfuseFile`, `CbfuseReaddir` and
`CbfuseStart` look closer at three things of which that specification keeps only
the outline: the contents of a file, of which it has the length; the listing of
a directory, of which it has the call that fetches it; and start-up, which it
begins with the look-up of the root.

### State of Cbfuse

* `stats`, `dentries`, `blocks`: a document or `Absent` per path. A stat
  document has type bits, permission bits and size. The "c" array is a bag of
  children: how often each name occurs. `remove_child_from_dentry` deletes
  every occurrence (dentries.c:267-275), so the count may stop at `MaxCopies`.
  Of a block only the length is kept.
* `pc[m]`: the key-value call mount `m` makes next, `"idle"` between requests,
  `"down"` when there is no process.
* `req[m]`: the request served; `fresult[m]`: the handler's return value;
  `result[m]`: the document in a mount's buffer between the two halves of a
  read-modify-write; `casValid[m]`: whether the CAS it read is still the
  document's. A CAS is only ever compared for equality with the current one, so
  that bit is all there is to it.

### Steps of Cbfuse

One step is one key-value call and the code up to the next one: what a handler
does between two calls touches nothing another process sees. Each call has one
of the `Outcomes`: the server's answer, an error of the library (`rc`), or a
failed status such as a time-out, each of the last two with and without the
server having carried the call out. `Reply` is the error code the calling
function makes of it, `After` what its handler does then. (Codes are negative but
for `+ENAMETOOLONG`, to which the code forgets the sign: cbfuse.c:92, 139, 174.
For the caller it is an error as any other.) Whether the server
performs the call when asked is a named operator per kind of call:
`InsertAllowed` (LCB_STORE_INSERT), `ReplaceAllowed` (LCB_STORE_REPLACE with a
CAS), existence (LCB_STORE_REPLACE, remove), length (LCB_STORE_UPSERT).

A handler's first step is the kernel's look-up of the path (`getattr`), with
whose answer the kernel decides whether to go on (`LookupAdmits`). The walk over
the ancestors is part of the guard of `Begin` (`Issues`): it is not a step of
its own. `read` and `write` begin with `cbfuse_open`, for they come with an open
file; a file that stays open for several requests adds nothing, for cbfuse keeps
no state for it. `chmod` sends back the type bits the look-up found, as the
kernel does.

`update_block_overrun` and the truncation branch of `UpdatedLength` are the two
outcomes of undefined behaviour in `update_block` (data.c:109-112): to make a
block longer only its length is set, and storing it reads past the buffer. The
process may be killed, or it stores a longer block.

### From documents to a tree

`FileTree` has requests that are called, take effect at one moment and are
answered, and a `Verdict` for each state and request. `CbfuseTree` maps a
request's effect to the first of its calls that changes a document; the
documents it has yet to change (`Committed`, `Underway`) are mapped as if it
had. Existence is taken from the directory entries, the type from whether a path
has an entry of its own, the size from the block. Since the kernel and the
handlers go by the stat documents, the refinement fails if the collections ever
disagree when a request looks. Two oddities of the code are in `FileTree`
because they are not what the run is about: reading a file without data fails
(`ReadFailsOnlyOnError` is about that), and every failure of read and write is
-1, which is `-EPERM`.

### The bytes of a file

In `CbfuseFile` a request is one step of one process whose calls do not fail.
What `malloc` returns, and what lies behind the end of a buffer, is any sequence
of bytes; `FileBytes` accordingly lets bytes between the old end of a file and a
write be anything, but what they are they stay. `ts_now` of
`update_stat_utimens` is `Garbage` unless the clock was read.

### Inside a synchronous call

`CbfuseSync` has one process. A command goes to the server or is lost; the
server executes the commands for one key in the order they were sent, those for
different keys in any order, at any time; answers are delayed or lost. Inside
`lcb_wait` the library calls back with an answer or a time-out. The three
`sync_*` functions differ only in the type of command, so there is one action
for each line they share, with the kind of command as parameter. Of the library
it is assumed that `lcb_wait` returns only when each scheduled command was
called back, and that an answer finds its command by an opaque number, so that
one to a command that timed out is dropped. In collection *stats* a document has
versions, its contents with its CAS, and a replace names the one it expects, the
`LCB_STORE_REPLACE` of `update_stat_*`; elsewhere documents are replaced and
upserted as they stand. A version that is stored again is the same version here;
in Couchbase the CAS would be a new one, and a late replace would be refused more
often. The mapping takes the documents as
they will be when all that was sent is carried out (`Settled`, the last stage of
each document's `Course`); `effect` is an auxiliary variable that keeps what the
command under way found.

This is for one process. With several, a late change to one document may be seen
by another process after the call that sent it returned; `Cbfuse` has it happen
by then.

### Start-up

`CbfuseStart` steps through `main`, one action per call or per group of calls
that fail the same way, the two inserts of `insert_root` one by one. Processes
follow one another; the root directory's stat document and directory entry are
what one leaves to the next, and before the first there may be either.
`get_root_rc` is what the look-up of the root told `main`: a root that is found
is accepted by its stat document, one that is made gets both. Other processes and
crashes between these steps are in `Cbfuse`.

## 3. Runs

The runs of `Cbfuse` use `MCCbfuse` (and `homes` `MCHomes`). The paths are a
root, `a` and `b` in it, `ax` and `ay` in `a`; a path may be a file in one
moment and a directory in the next. The limits are `MAX_DOC_LEN` 2 and
`MAX_FILE_LEN` 3 (one less in `homes`), so that with offsets 0-2 and length 1 a
range can end before, at and after the end of a block, past the limit on
documents but within that on files (hazard data.c:73), and, with length 2, past
both. A count of 2 is enough to see a name listed twice.

| run | instance | checks | shows |
|---|---|---|---|
| `crash` | 1 mount, 3 paths, crashes; mkdir with and without type bits | `TypeOK`, `StatAnchors`, `NoDuplicateChildren`, `RestartSucceeds` | whatever is left half done hangs on a stat document and can be removed; no name occurs twice; the next process starts |
| `quiet` | 1 mount, 5 paths (one too long), nothing fails | `TreeComplete`, `SizeMatchesBlock`, `WriteVisible` | without failures the three collections agree between requests |
| `faults` | 1 mount, 2 paths, every fault, crashes, `FairSpec` | `SuccessIsStored`, `EveryRequestReturns` | after a 0 create and mkdir have all their documents, chmod its bits, write a block that reaches far enough, truncate the size (and no block at size 0), unlink and rmdir no stat document; every handler returns |
| `mounts` | 2 mounts, 2 paths, every fault, crashes | `NoLostStatUpdate`, `BootstrapNeverClobbers` | the CAS keeps updates of stat documents apart; starting destroys nothing |
| `homes` | 2 mounts that keep apart, 3 paths, nothing fails, all operations but truncate, `HomesSpec` | `ImplementsFileTree` | the handlers are atomic requests of one file system, with its answers |
| `file` | a file of at most 3 bytes, offsets 0-3, lengths 1-2, a clock that ticks once, all `timespec` pairs | `TypeOK`, `StampsAreTimes`, `ImplementsFileBytes` | written bytes are read until overwritten or cut off; no stamp is an unassigned variable |
| `readdir` | up to 4 names, room for 2 in the buffer, names added meanwhile, `FairSpec` | `TypeOK`, `ListsAllOnce`, `ListingEnds` | a listing that does not fail has every name once, and reading ends |
| `sync` | a stat document of 2 versions and another document, 2 commands or answers under way, 2 cells of memory, `FairSpec` | `ResultsLive`, `ImplementsKeyValueStore`, `EveryCallReturns` | a call is atomic, whatever is lost or late, a replace whose CAS has expired by then included, and returns |
| `start` | all command lines, all failures, all documents of a root there may be | `ServesOnlyWhenReady`, `SuccessMeansServed` | FUSE runs only with arguments, bucket and root directory; failures show |

Deadlock is checked in all of them: a mount that rests can always be used or
unmounted, a directory read again, a call made, `main` started again, so no
system here stops.

Bounds and why they are enough. One mount suffices where the hazard is a
crash or a failed call: nothing else runs. Three paths give a child of the root
that is a directory with a child of its own, hence both levels at which a parent
and a child may be half made; five add a sibling and a path beyond
`MAX_PATH_LEN`. For the CAS two mounts and one file are the least that compete;
`mounts` leaves out the operations that change nothing (`getattr`, `open`,
`readdir`), and `utimens` and `read`, whose replace without the time stamps
stores what it read. Lost answers (`rc_applied`, `status_applied`) are included
there because a handler that goes on after one is where a version could be
overwritten. There is no counter to cap: the state is finite by itself.
`EveryRequestReturns` is checked with one mount: what another one can do to a
handler's progress is to make a call of it fail, a replace whose CAS has expired
included, and the faults of the run do that to every call. `homes` covers one
mount alone as well, for the other one may stay down.

In `file` offsets reach from the start to the end of the longest file, so that
writes begin and end on either side of the end of the block, and past either
limit; two values of a byte tell bytes apart, and one tick a stamp that is set
from one that is kept. `sync` needs two opaque numbers for a late command or
answer beside that of the call under way, and two cells so that a late one could
hit memory given to another. Its stat document has two versions: a CAS is the
current one, has expired, or is the current one again; of the other document
absent and present are enough. `readdir` has names of one length:
a full buffer, growth between calls, offsets before, at and behind the end.
In `CbfuseFile`, `MaxTime` caps the clock.

Conditions of the single runs. In `quiet`, users remove empty directories only
(`RmdirEmptyOnly`): `cbfuse_rmdir` does not look, and the kernel does not
either. Elsewhere they remove what they like. `StatAnchors`,
`NoDuplicateChildren` and `RestartSucceeds` are claims about one mount whose
calls do not fail: a failed removal in the middle of `cbfuse_unlink` is ignored
and breaks `StatAnchors` (cbfuse.c:217 says that "others can fail silently";
what may stay is `UnlinkLeavesNothing`, violated in `MCUnlinkFaults`), and a failed call at
start-up is a legitimate reason to end. The repository's README disclaims
distributed locking and CAS, so what two mounts do to one directory or one block
is not claimed. What can be claimed is the run `homes`: users of each mount
change paths of their own; a directory that one mount makes for another
(`Homes`) is used once it is listed and is not removed; processes start one
after the other. Each of the rules is needed: a directory's stat document is
visible before its entry (cbfuse.c:336-340), and two processes that start
together race for the root. `homes` leaves out truncate, which disagrees with
any file system (see `TruncateNeverGrowsBlock` and `TruncateToZeroSucceeds`);
`quiet` and `file` have it. `readdir` adds names while a directory is read and
does not remove any: offsets are positions in the array, and a removal shifts
them.

### Disagreements between the code and its comments

Each line is a statement made by a comment or by the program's usage text, and a
property that says it. TLC finds each one violated. The first three are runs of
the project (`root_ready`, `write_after_timeout`, `readdir_full`); the other
configurations are kept beside them, to be run by hand.

| property | run or configuration, module | the comment says | the code does |
|---|---|---|---|
| `MountedRootReady` | `root_ready`, `MCCbfuse` | cbfuse.c:567 "VERIFY OR INSTALL ROOT DIR" | verifies the stat document only; after a crash inside `insert_root` every later process accepts a root without a directory entry, in which nothing can be created |
| `WriteKeepsBlock` | `write_after_timeout`, `MCCbfuse` | data.c:78-80 "if a block wasn't found: ... allocate memory to store the new data" | takes a time-out for "not found" and replaces the block by a shorter one |
| `DeliversInSequence` | `readdir_full`, `MCReaddir` | cbfuse.c:241-243 "skip to the offset", "fill with the next offset or zero if no more" | goes on after a name that did not fit: a shorter one behind it is delivered and the other never; if the last name does not fit, the call fails |
| `TruncateCutsBlock` | `MCTruncateTimeout.cfg`, `MCCbfuse` | data.c:275 "Strategy here is just to truncate existing data if smaller" | takes a time-out for "not found", stores the size, returns 0 and leaves the block as long as it was |
| `TruncateNeverGrowsBlock` | `MCTruncateGrows.cfg`, `MCCbfuse` | data.c:275-277, the same, and "If larger, we just want to verify upper limit is available" | stores a longer block, from behind its buffer |
| `TruncateToZeroSucceeds` | `MCTruncateZero.cfg`, `MCCbfuse` | data.c:284 "truncating to zero is equivalent to removing all data" | fails when there is no data to remove |
| `WriteVisible`, with crashes | `MCWriteAfterCrash.cfg`, `MCCbfuse` | data.c:224 "Update the write result to indicate how many bytes were written" | reports bytes that stay past the end of the file: a crash between block and size is not repaired by repeating the write |
| `WriteNeverShrinks` | `MCWriteShrinks.cfg`, `MCCbfuse` | data.c:276-278 "If larger ... New blocks will just be allocated on future writes" | the next write sets the size to its own end, below what the truncation set |
| `MtimeIsLastChange` | `MCMtime.cfg`, `CbfuseFile` | stats.h:28 "Last data modification time" | a write that does not enlarge the block leaves it |
| `ChmodKeepsType` | `MCChmodType.cfg`, `MCCbfuse` | cbfuse.c:274 "Change the permission bits of a file" | stores the file type the kernel sends along, stale if another mount replaced the file by a directory |
| `CtimeIsLastChange` | `MCCtime.cfg`, `CbfuseFile` | stats.h:30 "Time of last status change" | set when the document is inserted, never again |
| `ReadFailsOnlyOnError` | `MCReadEmpty.cfg`, `CbfuseFile` | data.c:195 "read must return 0 on EOF or -1 when an error happens" | -1 for a file without a block |
| `CommandsDestroyed` | `MCSyncLeak.cfg`, `MCSync` | sync_get.h:42 "the command will be destraoyed after it is used" | not when the library refuses it |
| `StartNeverCrashes` | `MCStartCrash.cfg`, `CbfuseStart` | cbfuse.c:463-464, user name and password are options of their own | takes the length of both when one is given |

### Fairness

`FairSpec` asks for weak fairness of `Serve(m)` for each mount, the steps of its
handlers. A mount's only thread does nothing else while a handler runs, and each
call ends because `lcb_wait` does, with a time-out if need be. Requests, mounts,
unmounts and crashes are not fair: nobody has to use the file system.

`HomesSpec` has the same fairness. In `CbfuseSync` the library's timer
(`TimeOut`), the return of `lcb_wait` and the caller are fair; the server and
the network are not. In `CbfuseReaddir` `FairSpec` has the handler go on and the
user who reads a directory ask for the rest. The abstract specification
`FileTree` carries fairness of its own (what was called is answered), which the
refinement establishes; `KeyValueStore`, `FileBytes`, `CbfuseFile` and
`CbfuseStart` are about safety alone, and that calls return is said by
`EveryCallReturns`.

## 4. Proofs

The proofs about the whole system start from the assumptions of `CbfuseState`
alone (`PathAssumption`, `DataAssumption`, `EnvironmentAssumption`). `PathAssumption` does not even say
that the paths form a tree: nothing proved needs it. The recursive function
`ancestors` is what its definition says whatever `dirname` is (`AncestorsOf`).

`CbfuseProofs`, for any number of mounts and paths, any fault and any crash:

* `TypeCorrect`: `Spec => []TypeOK`. `TypeOK` contains its own strengthening:
  without "a mount holds a document of the right kind exactly between the halves
  of a read-modify-write" (`Buffered`) a replace could not be shown to store a
  document. Lemmas about the control tables (`AfterTyped`, `AfterStores`,
  `AfterLookupTyped`) say that a handler stores only right after the get that
  filled the buffer; then there is one lemma per action.
* `StatUpdatesKept`: `Spec => NoLostStatUpdate`. The inductive invariant is
  `TypeOK /\ CasHolds`: a mount whose CAS is still valid holds the document as it
  stands. `NoLostStatUpdate` speaks of the step that stores, and nothing but
  `CasHolds` connects what was read to what is replaced. Each action either
  leaves a path's stat document alone or expires every CAS on it
  (`CasKeptByExpiry`, `CasKeptQuietly`).
* `StartClobbersNothing`: `Spec => BootstrapNeverClobbers`. The invariant
  (`StartsOnly`) is that a process that has not finished `main`'s preparations
  makes only a get and two inserts; an insert changes no document there is.

`CbfuseAnchors`, for any tree and any crashes of one mount whose calls do not
fail (`Alone`, the conditions of the run `crash`):

* `StatAnchorsHold`: `Spec => []StatAnchors`, and
* `NamesListedOnce`: `Spec => []NoDuplicateChildren`. Neither is inductive.
  `AnchorInv` adds what each handler has achieved when it makes its next call
  (`Stage`): `cbfuse_mkdir` has the stat document and no name in the parent's
  entry when it stores that entry, `cbfuse_unlink` has removed block and name
  when it removes the stat document, and so on; that a directory entry about to
  be replaced is the one that was read (`HoldsDentry`); and `CasHolds`, for a
  replace of a stat document keeps its type only because it replaces the
  document it read. There is one lemma per key-value call; `ResumeOnCourse` and
  `QuietStep` carry what they share. TLC finds no state of the instance of the
  run `crash` that violates `AnchorInv`.

`CbfuseRestart`, under the same conditions:

* `RestartAlwaysSucceeds`: `Spec => []RestartSucceeds`. `RestartInv` adds to
  `AnchorInv` that what is stored for the root is a directory, and that
  `insert_root` inserts what is not there: without a stat document for the root
  there is no directory entry either, which is `StatAnchors`. Users can neither
  remove the root nor change its type (`ReplaceKeepsTypes`).

`Alone` cannot be dropped. With faults, `cbfuse_unlink` removes the stat
document after a failed removal of the block (`UnlinkLeavesNothing`), and a
failed call ends `main`; with several mounts, a directory entry is replaced
without a CAS.

`CbfuseFileProofs`, for blocks, offsets and lengths of any size, from
`DataAssumption` (the limit on documents is not above that on files) and
`TimeAssumption` of `CbfuseFile`:

* `FileBytesImplemented`: `Spec => ImplementsFileBytes`, the refinement as a
  whole, for neither specification has fairness. The invariant is `BlockFits`, a
  block is bytes that fit into a document; there is one lemma per request
  (`ReadRefines`, `WriteRefines`, `TruncateToZeroRefines`, `TruncateRefines`),
  and `MemcpyResult` and `BufferKeeps` about the buffers.
* `StampsHoldTimes`: `Spec => []StampsAreTimes`, from `ClockWasRead`: whichever
  stamp is set to the present, `ts_now` was assigned.
* `FileTypeCorrect`: `Spec => []TypeOK`.

`CbfuseComplete`, for one mount and any tree, offsets, lengths and limits:

* `TreeIsComplete`: `Spec => []TreeComplete`, if no call fails, the process is
  not killed and users remove empty directories only. `TreeComplete` speaks of a
  mount at rest. `TreeInv` adds to `AnchorInv` that all paths but the one a
  request makes or removes are complete at any time, at which calls that one need
  not be (`Unfinished`), what has been made of it by then (`Made`), and that its
  parent has an entry and a directory to be removed no children (`Prepared`).
* `SizesMatchBlocks`: `Spec => []SizeMatchesBlock`, and
* `WritesVisible`: `Spec => WriteVisible`, without the condition on what users
  remove. `SizeInv` adds to `AnchorInv` that sizes and blocks agree but for the
  file whose size a write or truncation is about to set; there the block is as
  long as the size will be (`SizeStage`), which for a truncation is its offset.
* `SuccessStored`: `Spec => SuccessIsStored`, for one mount with every fault and
  crashes. The invariant is `TypeOK` with the calls each handler may be at and
  what it has stored by then (`Course`): not every call's failure is reported.
  A write is at the calls on its stat document only with a block that reaches
  far enough, a truncation to zero only without a block. Of other truncations
  nothing of the kind holds (`TruncateCutsBlock`), nor of `st_size` after a write
  (`WriteVisible`, for which calls must not fail).

Each condition is needed. A crash or a failed call leaves a path half made;
a directory that is removed with children in it leaves them without a parent;
and with two mounts one removes what the other has just stored.

`CbfuseReaddirProofs`, for directories and buffers of any size to which names are
added while they are read (`OnlyAdded`), from `ReaddirAssumption`:

* `NeverListedTwice`, with names of any lengths and whatever calls fail for want
  of room: no name is listed twice. `ListingInv` says that what was listed are
  names before the next offset, and that the buffer holds names of the array in
  hand from the offset on, in its order.
* `EveryNameListedOnce`: `Spec => []ListsAllOnce`, for names of one length
  (`OneLength`), from `NothingLeftOut`: before the next offset every name was
  listed. With names of different lengths `DeliversInSequence` fails, and so does
  this; a removal shifts the offsets.
* `ReaddirTypeCorrect`: `Spec => []TypeOK`.

`CbfuseSyncProofs`, whatever is lost or late, from `KeyAssumption` of
`KeyValueCommands` (the keys of stat documents are keys):

* `ResultsOutliveCallbacks`: `Spec => []ResultsLive`. The invariant `Live` adds
  that outside `lcb_wait` nothing is scheduled, which is the library's contract,
  and that an answer is never the mark of a free cell.
* `CallsAreAtomic`: `Spec => ImplementsKeyValueStore`, replaces with a CAS
  included, when `KeyValueStore` may
  fail in all four ways of `KeyValue` (`FaultKinds \subseteq Faults`): each of
  them is needed. A call takes place when its command is scheduled, which is
  before the server sees it, so the invariant has to tell the future: `CallInv`
  adds to `Live` that the command under way, where it still is in the channel, is
  the last for its key and will find what `effect` says it finds (`AsForeseen`),
  and that an answer or result for it says success only if it was one
  (`Truthful`). A number is given to a command only when no other command or
  answer has it, and that is why a late answer is not taken for that of the next
  call. `CourseAppend` and `CourseTail` say how the documents' course goes on when
  a command is sent and when one is carried out; that the recursive function
  exists and is unique is proved by induction over sets of numbers
  (`SetInduction`), for the library's induction theorems cannot be used here.

`CbfuseStartProofs`: `ReadyWhenServing` and `SuccessEarned` say that
`ServesOnlyWhenReady` and `SuccessMeansServed` always hold, whichever calls fail
and whichever documents of a root there are. `Progress` is what `main` has
achieved at each point, `Outcome` what keeps `fresult` at its initial value.
Neither says that a root that was found works: `MountedRootReady` does, and the
code breaks it.

Only model-checked: the refinement `ImplementsFileTree`, and liveness
(`EveryRequestReturns`, `ListingEnds`, `EveryCallReturns`, the fairness of
`FileTree`), which is out of the prover's reach. The properties of the
violation runs do not hold.

## 5. What is left out, and why

* In `Cbfuse`, the time stamps: an update of a time stamp is a replace that
  changes nothing there. `CbfuseFile` has them, in seconds and nanoseconds as one
  value. Owner and link count are not stored.
* In `CbfuseFile`, crashes and failed calls: what they do to a block and its size
  is in `Cbfuse`.
* Late execution of a command as other processes see it (see section 2), and
  duplicated commands, which the library does not send.
* `cbfuse_init`: it tells the kernel the largest read and write.
* Failures of `malloc` and of the JSON parser, and `-EBADF` for a document of
  the wrong size: they need a corrupted bucket or a process out of memory.
* `cbfuse_mkdir`'s test of the file type (327) ORs `S_IFDIR` in before it looks
  and never fails; that it then stores the mode as it came is in the model
  (`MkdirTypes`).
* libfuse refuses to unlink an open file: it hides it by rename, which cbfuse
  does not have. Writes of length zero do not reach the handler.
* The kernel's caches of attributes, and the getattr libfuse adds after create
  and mkdir: both read only.
* What usage prints, `custom-uthash.h` (used nowhere), build files.

## 6. Plan

Done: sections 2-4. All that the passing runs check is proved, except for
`ImplementsFileTree` and liveness.
Next:

1. The safety part of `ImplementsFileTree` for one mount without crashes, on top
   of `TreeInv` and `SizeInv`: the documents as mapped change at the first call
   of a request that changes one, and `Verdict` is what the look-up decides.
2. The same for mounts that keep apart (`HomesSpec`), where each of `TreeStage`
   and `SizeStage` has to hold for the paths of one mount.
