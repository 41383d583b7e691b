# MultiLanes in TLA+

MultiLanes gives each container its own I/O stack on a many-core machine. This
directory models the parts of it that keep state of their own, checks them with
TLC on small instances, and proves the safety properties of the block device
driver and of the partitioned inode cache with TLAPS for every value of the
constants that the named assumptions of the modules allow. Where the code breaks
a property in some case, model and theorem have that case as an exception.

## 1. The system

The repository has three trees: the driver alone for Linux 3.10, a patched
Linux 3.8.2, and the stackable file system SFS. The two kernel trees are almost
entirely stock Linux. The models cover what MultiLanes adds or changes there
and the stock functions it runs into, which is about one line in eighty of the
repository.

| Part | Code | State | Model |
|---|---|---|---|
| Block translation | `drivers/block/loop.c` | block cache (hash and LRU list), list of `cio_req`, `LOOP_DIRTY` | `LoopTranslate`, `VirtualDisk` |
| Bio remapping | `loop.c` 414-498, 583-841 | `lo_bio_head` with its sub-bios | `BioRedirect` |
| Device lifecycle | `loop.c` 1226-2256, 2645-2740 | `lo_state`, backing file, thread, references | `LoopDevice` |
| Partitioned VFS | `fs/super.c`, `fs/inode.c` | hash tables and locks of a superblock | `InodeCache` |
| Partitioned page cache | `mm/swap.c`, `vmscan.c`, `memcontrol.c`, `compaction.c` | LRU lists of a memory cgroup and their lock | `LruLock` |
| ext3 | `fs/ext3/inode.c` | block map | by what the driver uses |
| SFS lookup and repair | `sfs16/namei.c` 198-615, `kv.c` | attribute `trusted.sfs.meta` | `SfsFiles` |
| SFS create, link, unlink, rename | `sfs16/namei.c`, `rename.c` | replicas, ids in dentries | `SfsNamespace` |
| SFS directories | `namei.c` 30-160, 630-862, 1177-1263, `rename.c` 107-201 | copies of a directory, normal marks, `normal_dir_map` | `SfsDirs` |
| SFS readdir | `sfs16/dir.c` | `dir_info`: current file, positions, hash table | `SfsReaddir` |
| SFS file I/O, attributes, options | `file.c`, `inode.c`, `super.c` | little: calls are passed on | not modelled |

How they interact: SFS calls the file systems of its replicas, each mounted on
one virtual device. The driver turns the bios of such a file system into bios
of the host device, and asks the host's ext3 where the blocks of the image file
are. The partitioned VFS gives the file systems on `/dev/loop*` hash tables of
their own; the partitioned page cache gives each memory cgroup a lock for its
LRU lists.

What makes the code hard to test: clients and the translation thread share a
cache whose nodes are recycled; a request lives on the stack of a task that
sleeps; completions free what the submit loop walks; the host commits and
crashes when it likes; tables and flags change locks under tasks that have read
which one to take; a rename in SFS spans two file systems that commit
independently, and a lookup after the crash has to find out how far it came.
`PROJECT.json` lists these hazards with their lines.

## 2. Modules

### LoopTranslate and VirtualDisk: block translation

A client is a task in `redirect_bio`. Its `pc` follows the function: test
`LOOP_DIRTY` for a bio with `REQ_FLUSH`, queue a flush request and wait
(`TestDirty`, `Enqueue`, `WakePre`), look the block up (`Lookup`, and `ReadNode`,
which reads the node after the bucket lock is dropped), queue a mapping request
on a miss and wait (`WakeMap`), submit (`Send`), and flush again for `REQ_FUA`
(`WakeFua`). `LowerDone` is the completion by the host device.

The thread pops a request (`Pop`), serves a flush (`Fsync`, `ClearDirty`,
`Complete`) or a mapping: `Hit`, or `GetBlock`, `SetDirty`, `Answer`, and
`AddNew`, `Recycle`, `Reuse` for the blocks it prefetches. `HostCommit`, `Crash`
and `Rebind` are the environment. `fmap` and `durable` are the block map of the
image in memory and on the host's disk. A spinlocked section is one step and
what follows the unlock another: that is how a recycled node can be read
(`stale`). The variables marked history record what has completed, and two
things the driver does: `late`, that the thread, after `get_block` failed at a
prefetch position, completed a request whose client had woken and left;
`forgotten`, the blocks whose mapping was not durable when a rebind cleared
`LOOP_DIRTY`. No action reads them.

`VirtualDisk` is what the driver promises: no cache, queue or thread, only bios
that are taken, located, issued and finished, and a map that grows, is committed
and is lost in a crash. A flush finishes with success only when the writes that
completed before it are secured, but for those a rebind made it forget
(`Reattach`), and it promises nothing more once a completion came late
(`Break`). `LoopTranslate` maps its `pc` to the stages
(`Stage`), its answers to `at`, and shows `ActsAsDisk`.

### BioRedirect: one bio

`redirect_bio` from the first block to the last `submit_bio`, for one bio given by
its start and the lengths of its pages, over one block map. `NextBlock`
and `AddPage` join or begin host bios (`bio_add_page` may refuse a page), the
submit loop walks the chain (`SubmitBio`, `NextBio`), and `EndBio` steps of `lo_end_bio` come in any order and
between any two steps. `wire` records which sector of the guest's bio went where.

### LoopDevice: the life of a device

open, release with autoclear, `loop_set_fd` in its two halves, `loop_change_fd`,
`loop_clr_fd` with the wait for the thread, `LOOP_CTL_REMOVE` and add, by several
tasks; tasks with the device open do I/O, and so do flushers, which write back
without having it open. `early` marks I/O that began inside `loop_set_fd`,
`switched` a device whose file `loop_change_fd` has changed.

### InodeCache: the partitioned VFS

`iget_locked`, `insert_inode_locked`, `iput`, the shrinker, eviction and unlink over
hash tables that `mount_fs` gives to the superblock of a loop device after
`type->mount` has hashed the root inode, and again when it is mounted a second
time. A section under one of the table locks is one step. An inode knows the
table it is in; a task keeps the table it has read.

### LruLock: the partitioned page cache

The sections of `mm/` that take a page on or off the list of a lruvec, or handle
`PG_lru`, under `lruvec->lock`, `zone->lru_lock`, both or none. A list that would be
corrupted, or a BUG, sets `fault` to what went wrong and to the sections other
tasks were in (`Why`), and ends the behaviour.

### SfsFiles and SfsNamespace: files of SFS

`SfsFiles` has no variables. A replica is its directories, those of them marked
normal, and an object per path: its contents and the four links of
`trusted.sfs.meta`. `validate_partitioned_file` returns the calls the code makes
for a given state, the ids it leaves in the dentry, and the replicas whose
parent directory it dereferences without a test. `Visible` is what a lookup
with a cold cache shows.

`SfsNamespace` runs one operation at a time, as VFS holds the mutexes of the
directories. `Begin` validates source and destination like
`sfs_rename_other`; `Validated` chooses the way (`rename2non_turn`,
`rename2non_meta`, `rename2exist_overwrite`, `rename2exist_hide`,
`rename2exist_meta`, one for each branch of the code) and leaves the sequence of
calls in `todo`; `Call` makes the next call, `CallFails` follows its error path
(`els`); `Complete` updates the dentries. Between any two calls a replica may
commit and the machine may crash. `mem` and `disk` are the replicas in memory
and on disk; `ns` is the namespace the applications have made, and `allowed`
the ones a crash may leave: a rename is durable when it returns, creations and
deletions may be lost until a sync. A sync in SFS is `write_inode_now`, which
returns at once when the inode is not dirty (`fs-writeback.c:533`); whether ext3
leaves it dirty is decided in code that is not in the repository, so the model
has both outcomes, a commit of the replica and `SyncSkips`, which sets `skipped`.
`exposed` has the paths in which a periodic commit has written a meta file
without its links. Contents of files are tokens, so two names
of one inode have the same token and share the attribute.

### SfsDirs: directories of SFS

mkdir, rmdir, rename of a directory and creation of files over the copies of a
directory in the replicas, with the cloning of missing copies (`CloneCheck`,
`CloneMkdir`) step by step and two tasks at a time; lookups, dropped
dentries and remounts. `made` records the files whose creation succeeded,
`harmed` and `holed` the directories that a call which failed has changed.

### SfsReaddir: reading a directory

One open directory, the files below it and the position arithmetic of
`sfs_iterate` and `sfs_dir_seek`. A step of `iterate` below is one slot.
`astray` says that the minor position is not the place in the file: after a seek
the names skipped are read, and counted, again (`twice`), and a seek behind the
last file leaves the position at the end (`past`).
Entries come and go between calls, never during one (VFS holds `i_mutex`).

Modules whose names begin with MC hold the sets that the configurations use, and
those that end in Proofs hold theorems only.

## 3. Runs

Runs that must pass:

| Run | Instance | Checks |
|---|---|---|
| `translate_cache` | 2 clients, 2 blocks, cache of 2 nodes, prefetch 2, 3 host blocks, `get_block` failing anywhere | `AnsweredOnce`, `ExactTranslation`, `WritesStayInFile`, `CacheSound` |
| `translate_flush` | 2 clients, cache of 1, flush and FUA bios, commits, crashes, rebinds, failing fsyncs | `SyncedSurvives`, `EndedOnce`, `BioCompletes`, `ActsAsDisk` |
| `bio_redirect` | every bio of up to 4 sectors in up to 3 pages, blocks of 2 sectors, every map to 3 host blocks or holes | `DataInPlace`, `NothingLost`, `NoUseAfterFree`, `OrigEndedOnce`, `OrigCompletes` |
| `loop_device` | 2 tasks, 1 flusher, 2 files | `OpenIsPresent`, `BoundDuringIO`, `OneFile`, `FilesHeld`, `CallsReturn` |
| `inode_cache` | 3 tasks, a loop device and another, 2 numbers, 3 inodes, 2 tables | `OneInode`, `RefsSafe`, `NumberIsFree`, `UnderLock`, `WaitsForFreeing` |
| `lru_lock` | 3 tasks, 1 page, 2 groups, every job | `ListsIntact`, `AssertionsHold`, `OwnLists`, `AtRest` |
| `readdir_scan` | 2 files below with 3 slots and 1, filled by the names, buffers of 2 and 9, seeks, failures, entries added and removed | `NoDuplicates`, `ScanComplete`, `PositionsGrow` |
| `sfs_dirs` | 2 tasks, 2 replicas, 3 directories one of which is nested, 6 calls | `FilesVisible`, `PathsAgree`, `MapIsDisk`, `NoOops` |
| `sfs_ops` | 3 replicas, threshold 2, directories in one replica each, 3 paths, hard links | `LookupAgrees`, `CacheAgrees`, `NoLeftovers` |
| `sfs_crash` | 2 replicas, 3 paths, commits, crashes, failing calls | `LookupAgrees`, `CrashSafe` |
| `sfs_partition` | 2 replicas, threshold 1, 3 paths, commits, crashes | `CrashSafe` |

`translate_fua` must find a violation: a FUA write completes before its mapping
is durable, against the comment quoted under `findings`.

Where the code does not keep a property in some case, the property names the
case as its exception, and the run shows that there is no other:

| Exception | Code | Property |
|---|---|---|
| `get_block` fails at a prefetched block, and a request whose client has left is completed again (`late`) | `loop.c:1143` | `AnsweredOnce`, `ExactTranslation`, `WritesStayInFile`, `SyncedSurvives`, `ActsAsDisk` |
| a rebind takes mappings for durable that are not (`forgotten`) | `loop.c:1550` | `SyncedSurvives`, `ActsAsDisk` |
| a cache node is recycled between its lookup and its use (`stale`); a read of a hole goes to host block 0 | `loop.c:506`, `loop.c:1181` | `ExactTranslation` |
| the fsync behind a FUA write fails and the bio is ended a second time (`fuaerr`) | `loop.c:830` | `EndedOnce` |
| a page is refused with part of its block already added (`mid`) | `loop.c:771` | `DataInPlace` |
| I/O begins inside `loop_set_fd` (`early`) | `loop.c:1563` | `BoundDuringIO`, `OneFile`, `CallsReturn` |
| the file was changed under the cache (`switched`) | `loop.c:1330` | `OneFile`, `FilesHeld` |
| the root inode is hashed before the private table exists; a second mount replaces the table (`Replaced`) | `super.c:1157` | `OneInode`, `NumberIsFree`, `UnderLock` |
| `PG_lru` is handled outside the lruvec's lock (`release`, `compact`, `charge`, `cull`), or the group changes after it was read (`regroup`) | `compaction.c:572`, `swap.c:61`, `swap.c:519`, `memcontrol.c:2739`, `vmscan.c:1247` | `ListsIntact`, `AssertionsHold`, `OwnLists` |
| an entry is refused by a full buffer; a scan after `rewinddir` finds the hash table filled (`clean`) | `dir.c:404`, `dir.c:362` | `ScanComplete` |
| names that a seek skipped are counted twice, or the position is past the end (`astray`) | `dir.c:259` | `PositionsGrow` |
| a removal that failed took copies of a directory (`harmed`, `holed`); a rename returned EEXIST with all copies moved | `namei.c:1209`, `rename.c:187` | `FilesVisible`, `PathsAgree`, `MapIsDisk`, `NoOops` |
| a file with hard links becomes partitioned or is replaced (`tangled`) | `namei.c:966` | `LookupAgrees`, `CacheAgrees`, `NoLeftovers` |
| `write_inode_now` finds the inode clean and commits nothing (`skipped`) | `fs-writeback.c:533` | `CrashSafe`, `LookupAgrees` |
| a commit between the creation of a meta file and the put of its POINTER leaves an empty file after a crash (`exposed`) | `rename.c:297` | `CrashSafe` |

Behaviours that have left a property's scope are not followed further in
`translate_cache` (`NotLate`), `sfs_crash` and `sfs_partition` (`NotSkipped`): the
variable stays set, and the properties of these runs say nothing about the states
cut off. `CacheSound` alone has no such exception; `CacheCorrect` proves it for
all states.

Where a run leaves something out, the property does not hold there. Each case
can be seen by changing the named constants:

| Case | Code | How to see it |
|---|---|---|
| a RENAME or HIDDEN link wipes the POINTER of a meta file; overwritten contents return after a second rename and a crash | `rename.c:574`, `rename.c:629` | `sfs_partition` with `Ops <- Synced`: `CrashSafe` |
| a link to a directory that is not there | `namei.c:258` | `sfs_crash` with `InitDirs <- Apart`: `CrashSafe` (`Oops`) |

### Bounds

Two clients are enough for a client to race another and the thread. A cache of
two nodes with two blocks and prefetch of two makes hits, misses, duplicates and
recycling happen. Blocks of two sectors and bios of four make every kind of
overlap of pages, blocks and extents. Three tasks on a page or an inode give one
that holds it, one that frees it and one that looks it up. The proofs remove
these bounds.

With two replicas a file and its meta file fill both; the third replica of
`sfs_ops` allows a source that is in neither. Three paths in two directories
allow renames inside a directory, between directories, and chains of them.
Contents are reused once no replica holds them (`Fresh`), so the number of
operations is not bounded. `MaxSlots`, `MaxRead` and `Bufs` bound a scan; the
names fill a directory below to its i_size (`DirSize`), so that positions reach
the range of the next one.

`sfs_dirs` bounds the calls (`MaxCalls`) and says which renames are made
(`Moves`), so it may come to an end, and deadlock is checked in all runs but this
one. Operations inside a directory that is being renamed are not interleaved
with the rename; a directory that has subdirectories is not renamed, and none
after a call that has done harm; calls of the file systems below do not fail.

Clients, tasks, inodes and contents are symmetric; runs with a temporal
property use no symmetry.

### Fairness

`translate_flush` assumes weak fairness of the thread, of every client inside
`redirect_bio`, and of the host device's completions; `bio_redirect` of the task
and of completions; `loop_device` of users that have begun a call, and of the
thread. The thread is a kernel thread that is woken whenever a request is
queued, a task is runnable once its completion is signalled, and a block device
completes what it is given. Nobody is forced to begin a call.

## 4. Proofs

Every theorem holds for any sizes and any sets of tasks, blocks, files, inodes
and groups that the named ASSUMEs of the modules allow.

* `TypeCorrect`, `CacheCorrect` (`LoopTranslateProofs`). `StructInv` joins the
  types, `CacheSound`, and what the local variables of the thread say about the
  block map and the cache at each place of its loop. It is needed because
  `CacheSound` is broken and mended inside the thread: between `Recycle` and
  `Reuse` a node is in no list, and what is inserted was computed before.
* `RequestsAnsweredOnce`, `TranslationIsExact`, `WritesConfined`
  (`LoopTranslateProofs`). `ServeInv` adds what the thread owes to the request it
  serves, and for every client what its pointer and its answer mean at each
  place of `redirect_bio`. It is an invariant while no completion came late: from
  there on a client may take the answer of an earlier request for its own, which
  is why the three properties have that exception. Nothing is assumed about where
  `get_block` fails.
* `FlushIsDurable`, `BiosEndOnce` (`LoopDiskProofs`). `FlushInv` says that while a
  mapping is not durable either `LOOP_DIRTY` is set or the thread is about to set
  it, and tracks which completed writes each flush under way has to cover; a block
  that a rebind took for clean is left out until a commit writes it. Rebinds,
  crashes and failures may come in any order.
* `DriverIsDisk` (`LoopDiskProofs`): every step of `LoopTranslate` is a step of
  `VirtualDisk` or a stutter. There is a lemma for each action, all from
  `FlushInv` and `ServeInv`: a flush finishes with success only after its writes
  are secured, and what is located is what the map says.
* `DataGoesInPlace`, `TransferIsWhole`, `ChainOutlivesUse`, `BioEndedOnce`
  (`BioRedirectProofs`), for every size of block, map and bio. One half of the
  invariant follows the cursors through pages and blocks: what is on the wire is
  what lies before the cursor, once. The other follows the chain: parts behind
  the cursor of the submit loop are on their way or back, they are counted
  under `head_lock`, and only the one that finds itself last ends the bio.
* `OpenDeviceStays`, `IOFindsDeviceBound`, `BlocksOfOneFile`, `FileReferences`,
  `AutoclearTakesEffect` (`LoopDeviceProofs`). The invariant says what exists in
  each state of the device and who holds `lo_ctl_mutex`, that `refcnt` is the
  number of openers, and where each request is.
* `CacheInvariant`, `FileHasOneInode`, `UsersHaveReferences`, `FreeNumbersAreFree`,
  `UnhashedUnderLock`, `WaitersAreWoken` (`InodeLookupProofs`, `InodeReleaseProofs`,
  `InodeCacheProofs`).
  `CacheInv` relates superblocks, inodes, tasks and disk: which table an inode
  and a task can be in, the references of an inode, who removes it, and that a
  task which creates or evicts is alone with its number. `OneInode` needs all of
  it: an inode is hashed after the lock was dropped, so the number must have
  stayed free on disk or the table must have been searched again.

Only model-checked: the liveness properties `BioCompletes`, `OrigCompletes` and
`CallsReturn`, which are out of the prover's reach; `SfsReaddir`, whose positions
are folds over the files below, and `SfsNamespace`, whose lookups are folds over
calls, so that their invariants need induction over data; `SfsDirs`, whose
`Visible` is recursive; and `LruLock`.

## 5. What is not modelled

`PROJECT.json` lists each part with the reason. In short: transfer functions and
thread placement (no state that a property could be about); file I/O and
attributes of SFS (passed on to one file below) and mount options; the status
ioctls of the driver; the private dentry tables, and that private tables are
never freed and their locks initialised again by a second mount; huge pages,
rotation, `check_move_unevictable_pages` and the order of the LRU lists.
`sfs_sync_dir` (`dir.c` 622-646) syncs one replica and reports success for all; no
model has an fsync of a directory. Deletions are not part of the crash runs. The
rest of the two kernel trees is stock Linux, which no model here is about.
