# A TLA+ model of LWFS, the Lightweight File System

LWFS (`src/src/`) is a set of C servers (authorization, naming, storage) and
client libraries over the Portals message-passing library. A client asks the
authorization server for *containers* and *capabilities*, the storage servers
for *objects* in a container, and the naming server for *names* of objects.
Every server is the same RPC loop with another table of operations. This
directory models that machinery in TLA+, checks it with TLC on small
instances, and proves the central facts with TLAPS for every size.

Paths below are relative to `src/src/` unless they start with `src/`.

## 1. Inventory

### 1.1 The parts and how they interact

| Part | Source | State it keeps | Operations |
|---|---|---|---|
| thread pool | `support/threadpool/` | request list, list of handler threads, one recursive mutex, one condition variable, `done` flag | `lwfs_thread_pool_init`, `_add_request`, `_fini`; the loop of a handler thread |
| RPC server | `server/rpc_server/rpc_server.c` | two request buffers with their match entry and memory descriptor, an event queue, counters per buffer, the table of operations | `lwfs_service_init`, `_add_ops`, `_start`, `_fini`; `process_request`, `fetch_args`, `send_result` |
| Portals glue | `common/rpc_common/lwfs_ptls.c` | `lwfs_ptl_lock`, event queues | `lwfs_ptl_put`, `lwfs_ptl_get`, `lwfs_ptl_eq_poll`, posting buffers |
| RPC client | `client/rpc_client/rpc_client.c` | an `lwfs_request` per call (status, event queue, posted buffers), the counters that make match bits | `lwfs_call_rpc`, `lwfs_wait`, `_waitall`, `_waitany`, `_timedwait`, `lwfs_get_service`, `lwfs_kill` |
| client stubs | `client/{authr,naming,storage}_client/` | the cache of verified capabilities (`authr_client.c`); otherwise none | one function per operation, asynchronous and `_sync` |
| libsysio driver | `client/sysio_client/fs_lwfs.c` | an inode per open file (cached size, position), the transfers of a read or write, caches of containers and capabilities | mount (`lwfs_connect`), open, lookup, link, unlink, rename, read, write, seek, `iodone`, and directories, attributes |
| object store | `server/storage_server/sysio_obj.c` | hash table oid -> {fd, id, mode}; the bounded list of open files; the files | create, remove, read, write, get/set attributes, truncate, sync |
| storage server | `server/storage_server/storage_server.c`, `storage_db.c` | object attributes | `ss_create_obj`, `ss_remove_obj`, `ss_read`, `ss_write`, `ss_*_attr`, `ss_truncate` |
| authorization server | `server/authr_server/` | access-control lists by (container, op), the counter of container ids, the key that signs capabilities | create/remove container, get/mod ACL, get/verify capabilities |
| naming server | `server/naming_server/` | a Berkeley DB of directory entries with three secondary indices, and one of inodes with reference counts | create/remove namespace and directory, create file, link, unlink, lookup, list |
| signals | `support/signal/lwfs_signal.c` | `_exit_now` | `lwfs_abort`, `lwfs_exit_now`, the handler |
| containers | `support/hashtable/`, `support/list/` | a chained hash table and a list, each with a mutex per operation | insert, search, remove; append, delete, iterate |

A client call is a PUT of a short request (a header, the arguments when they
fit, otherwise a promise to serve them by GET) into a request buffer of the
server. The server's main thread sees the event, wraps the buffer's slot in a
request and gives it to the thread pool. A pool thread decodes it in place,
GETs long arguments from the client, calls the operation (which may itself be
the client of another server: the storage and naming servers ask the
authorization server to verify capabilities), and PUTs the result, waiting for
the client's GET if the result is long. The client waits for the result's
event and matches it to its request by match bits alone.

The servers share no state. Inside a server, pool threads share the operation's
data (hash table, open-file list, databases) under locks that are taken and
released inside each container operation, and no lock spans two of them.

### 1.2 What is hard, and what makes each part correct

* **Thread pool.** One signal per request while threads come and go, the pool
  grows while it is full and shrinks when idle, and shuts down while requests
  are queued. Correct: each request runs exactly once, in FIFO order; no queued
  request is left with every thread asleep; `fini` joins every thread and drops
  a request only when the process is exiting.
* **RPC server.** Requests are decoded in buffers that the main thread re-posts
  and frees; the event queue has a capacity; a worker holds `lwfs_ptl_lock`
  across calls; transfers time out. Correct: a request is answered on its own
  bytes, never after its buffer is re-posted or freed; the counters that
  trigger re-posting are exact; a full service accepts again; `exit` stops it.
* **RPC client.** Match bits come from unsynchronised counters; an error in the
  middle of a call leaves buffers posted; timeouts race answers. Correct: a
  result reaches the request it answers; memory is not reused while the network
  can still write it; a wait returns the request's own status.
* **Object store.** A hash table and a bounded list share elements under
  separate locks; the descriptor in an element is read, evicted, closed and
  reused by different threads. Correct: a read or write goes to the file of the
  object it names; the list holds no freed element; the number of descriptors
  stays within its bound; a removed object is gone.
* **Naming server.** Each operation is several database calls and no
  transaction. Correct: every entry has an inode, the reference count of an
  inode is the number of its entries, no entry is unreachable, names are unique
  in a directory.
* **Authorization server.** ACL entries are replaced by delete and insert;
  creation and removal of a container are several puts; a list is an array that
  is sorted, merged and searched with one comparison function. Correct: a search
  finds exactly the users that were added and not removed; a list changes only
  as a request asks; an id never stands for two containers; two modifications do
  not lose one another.
* **Access to storage.** An operation checks the object, then the capability
  (perhaps in a cache), then acts, with other requests and changes of access in
  between; a failure in the middle must free what was allocated once and say so.
  Correct: what is done was allowed since the request began, attributes go with
  their object, `LWFS_OK` means done.
* **libsysio driver.** Creating or removing a file is a dozen calls of three kinds
  of servers, without a transaction; a read or write is cut into pieces for several
  servers, all in flight at once; sizes are cached. Correct: a name leads to a
  whole file, a byte is read where it was written, a read that succeeds returns
  the file.

## 2. The modules

| Module | Models | State in the code |
|---|---|---|
| `WorkQueue` | what a thread pool promises: FIFO start, each request finishes once, nothing dropped unless the process exits | none: the abstraction |
| `ThreadPool` | `support/threadpool/` | one mutex, one condition variable, request list, threads |
| `ThreadPoolProofs` | the theorems about `ThreadPool` | |
| `RpcServer` | `server/rpc_server/rpc_server.c` | buffers, event queue, counters, workers, `lwfs_ptl_lock` |
| `RpcServerProofs` | the theorems about `RpcServer` | |
| `StorageObj` | `server/storage_server/sysio_obj.c`, called as `storage_server.c` does | hash table, open-file list, descriptors, directory, attributes |
| `StorageObjProofs` | the theorems about `StorageObj` | |
| `Naming` | `server/naming_server/naming_server.c`, `naming_db.c` | dirents, inodes, reference counts |
| `NamingProofs` | the theorems about `Naming` | |
| `AclList` | the uid arrays of `server/authr_server/authr_server.c` | none: `qsort`, `bsearch`, merging and their comparison as operators |
| `AclService` | what the authorization server promises: a set of users per container and operation | none: the abstraction |
| `Authr` | `server/authr_server/authr_server.c`, `authr_db.c`, `support/security/cap.c` | access lists, existence entries, the counter, the key |
| `AuthrProofs` | the theorems about `Authr` and `AclList` | |
| `MCAuthr` | argument sets of `Authr` for TLC | |
| `RpcClient` | `client/rpc_client/rpc_client.c` with the service's side of a call | requests, counters, posted entries |
| `RpcClientProofs` | the theorems about `RpcClient` | |
| `Access` | `server/storage_server/storage_server.c` above the object store, `storage_db.c`, the cache of `client/authr_client/authr_client.c` | objects, attributes, cache of capabilities |
| `AccessProofs` | the theorems about `Access` | |
| `Striping` | the arithmetic of `sso_io` in `client/sysio_client/fs_lwfs.c` | none: operators |
| `Mount` | `lwfs_connect` in `client/sysio_client/fs_lwfs.c`, over the naming and the authorization server | the file system's namespace, container, lists; each process's capabilities |
| `FsLwfs` | `client/sysio_client/fs_lwfs.c` | entries, the parts of files, open files, buffers, transfers |
| `DriverProofs` | the theorems about `Mount` and `FsLwfs` | |

`WorkQueue` joins the first two: `ThreadPool` implements it (checked and
proved), and `RpcServer` keeps its pool at that abstraction and checks that it
uses it as such (`PoolIsWorkQueue`). `StorageObj` and `Naming` are the
operations that an `RpcServer` worker calls in `RunOp`; they share nothing with
the RPC loop but the number of threads that may be in them at once, so they are
modules of their own with `Threads` as a parameter; the same holds for `Authr`
and `Access`. `Authr` implements `AclService` (checked and, for one
thread, proved), and `Access` keeps the
authorization server at that abstraction: one step changes one list. `AclList`
and `Striping` are the pure arithmetic of `Authr` and `FsLwfs`. `FsLwfs` takes
each remote call as one step of a server. `Mount` composes: the steps of `Naming`
and `Authr` that one namespace and one container take, between the calls of the
processes that mount, with a server that has one thread or several.

Each action names its code in `map` of `PROJECT.json`. Operators next to an
action whose names add a word to it (`UnlinkMELate`, `CloseForgets`, ...) are
variants of that action with a plausible bug; no specification uses them. They
exist so that each property can be shown to fail when the code is wrong.

### 2.1 ThreadPool

* A thread's `pc` is the place in `handle_requests_loop`: `lock` (asking for
  the mutex), `loop` (holding it, at the head of the loop), `handle` (running a
  request without it), `wait` (in `pthread_cond_wait`), `exited`.
* The owner's `main`: `serve` (may call `lwfs_thread_pool_add_request`), `grow`
  (inside it, after the queue insertion: a separate critical section), `join`
  (inside `_fini`, after the broadcast), `done`.
* `AddRequest` = `add_request` with its `pthread_cond_signal`; `GrowPool` = the
  rest of `lwfs_thread_pool_add_request`; `CancelThreads`, `JoinThread`,
  `DeletePool` = the three phases of `lwfs_thread_pool_fini`. A handler keeps
  the mutex across the decisions of its loop, so `mutex` is a variable and each
  decision is a step: `TakeRequest`, `ShutdownExit`, `CondWait`, `ExitNow`.
* `pthread_cond_signal` wakes any one waiter or none if there is none;
  `SpuriousWakeup` is allowed as POSIX does. `exit_now` is read without a lock
  and may be set before any step (`Abort`).

### 2.2 RpcServer

* A request buffer is `ReqsPerQueue` fixed-size slots; `md` counts what its
  memory descriptor still accepts, `meList` is the match list. A client's put
  (`ClientPut`) writes the slot of the first accepting entry and enqueues
  PUT_START and PUT_END *together*; an event that finds the queue full is lost.
  A request's content is its message number, so "answers its own bytes" is that
  what was decoded from the slot is what was put there for this request.
* The main thread's `main` follows `lwfs_service_start`: `top` (the loop test),
  `wait` (polling), `inline` (no pool: processing it itself), `reset`/`attach`
  (buffer posted again), `cleanup`, `fini`, `done`; `aborted` is the
  `abort()` of a worker that decodes garbage.
* A worker follows `process_request`: `decode`, `args` (header decoded; then
  arguments, in place or by GET), `op`, `send`, `await` (result header sent,
  waiting for the client's GET of a long result). `ptl_lock` is the recursive
  `lwfs_ptl_lock` when a worker keeps it between steps; all steps that take
  and release it need it free.
* `MaxReqs` is `max_reqs`; a value above `MaxMsgs` (9 in some configurations)
  is a service without a maximum.
* `ended` are the requests whose `process_request` returned, for whatever reason;
  `Served` says that one was answered: its operation ran on its own header and
  arguments, and its client has the result.
* A short result, a long result, long arguments, an unknown operation and the
  kill request are the five kinds of request; formats are left out.

### 2.3 StorageObj

* An element (`oid_el`) is a memory cell. `free()` releases the cell and leaves
  its bytes to whoever is next: after it, `fd` of the freed cell is arbitrary
  among numbers that may be descriptors, and a later create may get the cell.
* `hash` and `openList` hold cells; each call of the hash table or list is one
  step (they lock a mutex inside). `fdtab` is the kernel's: file and position;
  `open` takes the lowest free number. `dir` are the files, `attr` the database.
* A thread's `pc` walks through the operation: `exists` (the test in
  `storage_server.c`), then for read and write `find`, `openOid`, `open`,
  `count`, `evict`, ..., `seek`, `transfer`; for create `access`, `creat`,
  `addOid`, `setattr`; for remove `hash`, `checkClosed`, `free`, `unlink`,
  `rmattrs`. `trunc` stands also for `fsync` and `stat`, which
  take the same path (`open_oid`, then one system call on the descriptor).
* The descriptor of an element without an open file is 0, and the operations use it
  without another look. So `add_to_open_files`, which may close the file that was
  opened just before, sends what follows to standard input: `Seek` and `Transfer` on
  descriptor 0 are calls on file `None` (whether standard input can seek is left open,
  and where it stands is left out). On -1 and on a number that is not open they fail.
* Loading the descriptor from the element and the system call that uses it are
  one step. With `OpenErrors` an `open()` may fail while descriptors are left.
  Data is left out: `io` records what file and position each transfer
  reached. A crash drops everything but `dir` and `attr`; a restart repopulates
  the table from the directory, as `repopulate_oid_hashtable` does.
* `Serialized` states the assumption of `sysio_obj.c` ("assumes that object
  already exists"): clients never have two operations on one object at once.
  The code does not enforce it, so runs are made with and without.

### 2.4 Naming

* `dirents` is the primary database and its indices (a set of records, found by
  parent and name, by oid, or by parent), `inodes` the reference count of each
  stored inode. Each Berkeley DB call is one step. The environment is opened
  with `DB_THREAD` but without locking or transactions, so that a call is
  atomic is an assumption in the code's favour.
* Each operation is a sequence of database calls, named as the function is
  (`naming_create_link`, ...) and composed as the function is of `check_perm`,
  `naming_db_get_by_name`, `naming_db_put`, `naming_db_del`; `naming_op_array` is the
  table. `todo` is what is left of a thread's operation, and each call is an action
  (`Get`, `GetInode`, `Put`, `PutInode`, `IncGet`, ...); the first that fails ends the
  operation. The position of a cursor in a listing is abstracted: `Size` counts and
  allocates, `Fetch` copies what is there by then.
* `check_perm` may refuse at any time; on a dirent it reads the inode first.
* The oids of dirents and inodes come from one counter.
* `threaded` is `--use-threads`, chosen at the start: with it each thread serves
  requests, without it the server does one thing after another (`Serves`). Clients
  are supposed to remove only directories that were empty when they asked;
  `naming_remove_dir` does not look. Without threads what they found is still so
  when the request is served, and `Start` requires it; with threads it need not be.
* `ThreadedOps` are the operations for which the databases agree with threads: all but
  links (and `remove_dir`, which makes the same calls as `unlink`).
* `Restart` is `naming_server_fini` or a crash, then `naming_server_init`. Nothing is
  synced before the databases are closed (the calls are comments), so after a crash a
  record is any of those stored under its key since the databases were opened (`disk`
  keeps them), each on its own. The index files are taken to be as old as the entries,
  an assumption in the code's favour. `dbrecover` is an argument that
  `naming_db_init` does not use.

### 2.5 Authr

* `lists` and `exists` are the two kinds of records of the access database, each
  Berkeley DB call a step; `NoAcl` is a missing record. The `pc` of a thread is the
  next such call: `newcid`, `putcid`, `fresh`, `putexist`, `putacl` (creating),
  `remove` ... (removing), `modacl`, `modget`, `moddel`, `modput` (modifying), `perm`
  (`check_perm`, one list after another), `verify`.
* A list is the sequence that the code stores, computed by `AclList` as the code
  does: the sets are sorted, duplicates replaced by the infinite uid, merged.
  `qsort` and `bsearch` are given a comparison that may be no order; `Qsort` may
  then leave any arrangement. A uid is a number below `2 * HalfWord` (2^32 in the
  code); `LongIs32` says whether `long` is as wide as `unsigned int`, `CrayPortals`
  selects the reversed comparison of that build. `InOrder` are the uids that
  `compare_uids` puts in one order with the infinite uid last: 0 to `HalfWord - 2` (below
  2^31 - 1 in the code) where `long` is 32 bits wide, and none with a 64-bit `long` or on
  Cray. Every build and every uid is in the model; `named`, a history variable, holds the
  uids a list was ever given or asked to lose, so that the properties can say what holds of
  any list and what only of one whose uids are all in order.
* A capability is the record the server signs, with the key in the place of the
  signature; `Restart` draws a new key when no request is served. `live` counts
  creations of a container that succeeded, for `OneContainerPerCid`.
* `AclService` has sets of users. Its `Modify` lets nobody in who is not granted access,
  and makes exactly the change asked for while the uids named are in order; with others a
  modification may lose users, or keep one it was asked to take off.
* `acl_db_enabled` is on. Credentials are not checked, as `creds_enabled` is
  FALSE in the code.

### 2.6 RpcClient

* `entries` are the posted match entries, in order, each with portal (data,
  result, arguments), match bits and request. A message of the service goes to the
  first entry that matches, whoever posted it.
* The three static counters are loaded, stored and read again in separate steps
  (`LoadCounter`, `StoreCounter`, `Post`), since nothing locks them.
* `svc` and `inbox` are the service's side of a call (`FetchArgs`, `RunOp`,
  `ResultStart`, `ResultEnd`): the arrival of a result has two events, and the
  first alone makes `lwfs_waitany` go on.
* `Wait`, `PollFirst`, `PollRest`, `TimeOutEarly`, `TimeOutHalfway`,
  `ProcessResult`, `CleanUp`, `Finish` follow `lwfs_waitany` with its `goto`s;
  `lwfs_wait` and `lwfs_timedwait` are waits for one request. `Late` allows
  timeouts, `GarbageValid` that `which` = -1 indexes memory that looks like a
  request, `Kinds` are the kinds of calls, among them one whose operation the
  service does not know and never answers.

### 2.7 Access

* `pc` is `exists`, `ops` (the capability names the operation), `verify` (key, then
  list after list at the authorization server), then the operation: a step for
  each call of the object store or of the attribute database. `getattr`,
  `setattr` and `rmattr` take the steps of `getattrs`, `setattrs` and `rmattrs` with one
  name. A record per handler (`ss_create_obj`, ...) says whether the object is looked for first, what
  the capability must allow, and where the operation begins; `op_array` is the table.
* `acl`, `svcKey` and `caps` are the authorization server. `ever` and `seen` are
  history: what was allowed at some time, and since the request began.
* `frees` counts who freed the data buffer of a write. `Fails` are the failures
  that may happen: `"data"` (fetching the data from the client, or sending it), `"open"`
  (of the object's file: a read, a stat or a truncate then answers LWFS_OK all the same, a
  write or a sync an error), `"put"` (an attribute), `"short"` (fewer bytes written than asked
  for), `"trunc"`. `Hidden` is the table of the failures answered LWFS_OK.

### 2.8 FsLwfs and Striping

* `files` is what exists on the servers of each file: the container's access
  list, one data object per storage server with its bytes, how much of the
  management object is written, the link count; `data` is the file as its writers
  meant it, kept for the properties. `entries` is the naming server.
* `pc` (`at`) follows the calls: `lookup`, `again` (`lwfs_stat_path` looks the
  name up a second time), `stat`, `load`; `container`, `acl`, `dso`, `mo`, `name`
  for `create_file`; `unlink`, `reload`, `remove`, `removeMo`; `io`.
* `CallFails` fails any remote call of the operations on names, `TransferFails` any
  transfer (the object is gone, the capability is refused, the server is full or ends),
  `IoFails` a wait; `Outcomes` are what `sso_io` can come to, with a transfer anywhere that
  cannot be begun. `CollideDso` is an id that is taken, `Crash` ends a process anywhere.
  `MaxFaults` counts them together.
* `outs` is the set of transfers in flight, each with its place in the file and in its
  object. A process's requests reach one server in order and are carried out by it in
  any interleaving with other servers; `IoDone` and `IoFails` are `lwfs_inop_iodone`.
  A transfer is `sent`, then `done` or `failed`, and a write to an object that is
  there `lost` when it fails: the file keeps what it held at that place.
* `SeekPast`, `Torn`, `GoesOn` and `Swaps` say what applications do: seek past the end,
  open or read a file while a write is unfinished (or could not be carried out), go on
  after a failed transfer, give a
  name to another file while it is being opened (the second look-up then finds another
  file than the first). `ReadsReturnFile` needs that they do not: each alone breaks it
  (section 7).
* `Mishaps` says which failures the driver takes for success: `"restart"` is a first
  transfer that `sso_io` could not begin and begins again, a whole chunk from the middle
  of one; `"refused"` that it fails there again, with a positive code that is returned
  as a number of bytes; `"empty"` a server that cannot open an object's file and answers a
  read LWFS_OK with no bytes. Each breaks `ReadsReturnFile`, and `"restart"` also
  `StripesHoldFile`, as it puts bytes into the wrong object (section 7); the run checks what
  holds without them. `EntryHasObjects` holds in any case, and so does `StripesHoldFile`
  but for `"restart"`; it speaks of the objects that exist, also of a file that is being
  made or taken apart.

### 2.9 Mount

* `pc` is the next step of `lwfs_connect`: `namespace`, `nsinode` (creating the
  namespace: entry, inode), `find` (it exists), `create`, `putacl` (creating the
  container: the record that it exists, then list after list), `capmodacl` (it exists),
  `modacl`, `modget`, `moddel`, `modput` (adding the user to the lists to read and to
  write: each is read, deleted, put), `capread`, `capwrite`, `mounted`. `InNaming` and
  `InAuthr` are the steps within a request: a server without threads (`threaded`)
  serves no other meanwhile.
* `lists` are sets of users, as in `AclService`; `orig` is what `mod_acl` has read. A
  capability is the key it was signed with.
* A process that failed or ended begins again as a new process, with an empty cache.
  `End` ends one between two requests, `Restart` starts the authorization server again
  between two requests, or (`Midway`) in the middle of one. A storage or naming server
  that restarts changes nothing that mounting looks at.
* Only the creator of the container is on the list `MODACL`, so only this user's
  processes mount (`MountedInTheEnd` allows for the others).
* No name is one of `FsLwfs` (`MountInit`, `MountNext`, `MountSpec`, `turn`, ...), so that
  `DriverProofs` can extend both halves of the driver.

## 3. The runs

A *passing* run checks all its properties on all reachable states; a
*violation* run is a finding: it checks what the code's own comments say, and TLC
shows a behaviour of the code that contradicts it. Section 7 describes these
and further counterexamples, with the configuration that shows each.

| Run | Shows |
|---|---|
| `pool` (`ThreadPool.cfg`, `TypeOK`, `EachRequestOnce`, `NoLostWakeup`, `DrainedUnlessExit`, `NoThreadOutlivesPool`, `ImplementsWorkQueue`, `PoolGetsOn`) | Every interleaving of the owner, up to three handler threads and an exit request at any time: requests are conserved, no wakeup is lost, fini drains and joins, and the pool refines the abstract work queue. With threads that run and handlers that return, each added request is handled or exit_now is set, and lwfs_thread_pool_fini returns. |
| `rpc_serial` (`RpcSerial.cfg`, `TypeOK`, `DecodesWhatCame`, `NothingCutShort`) | Without a thread pool: buffers of one request each are posted again and again under every kind of request, the memory limit, a stop at max_reqs and an exit at any time; no request is lost at a reset, overwritten before it is decoded, or read from a freed buffer, and unless the service is told to exit each request that it takes is served to the end, its long result fetched. |
| `rpc_threads` (`RpcThreads.cfg`, `BufferAccounting`, `PoolIsWorkQueue`, `ServiceGetsOn`) | With two pool threads that contend for lwfs_ptl_lock while one waits for its client's fetch: the buffer counters stay exact, and the pool is used as the abstract work queue; requests are processed, full buffers are posted again, and an exit request stops the service. |
| `store_serialized` (`StoreSerialized.cfg`, `TablesAgree`, `ElementStaysInUse`, `TransfersHitTheirPlace`) | Two threads, every operation, at most one operation on an object at a time, fewer files than the limit, and a crash with its restart anywhere: hash table, directory and attributes agree, no element is used after it was freed, and every read, write and call on a file reaches the file and the offset it asked for. |
| `store_evict` (`StoreEvict.cfg`, `TypeOK`, `DescriptorsAccounted`, `IOGoesToItsObject`) | One thread, more objects than the limit of open files, opens that fail, a crash and a restart: files are closed for others, the limit is kept, no descriptor is forgotten, and a read or write still reaches its own file, also when the file closed is the object's own. |
| `naming` (`Naming.cfg`, `TypeOK`, `AgreeUntilCrash`, `NoAbort`) | With threads, two operations at once on the same names (without links): whoever wins a race, entries, inodes and counts agree and no inode is left behind. Without threads, every operation that changes the databases, with one restart after a shutdown or after a crash in the middle of an operation that leaves any of the unsynced records on disk: until the crash all agrees and every entry can be reached, and nothing that a crash leaves makes a count negative and the server abort. |
| `rpc_reset` (`RpcReset.cfg`, `AnswersOwnRequest`) | *Violation.* With a pool, a request buffer is posted again while a pool thread has still to decode it. |
| `authr` (`AuthrSerial.cfg`, `TypeOK`, `LookupsAgree`, `OneContainerPerCid`, `ImplementsAclService`) | One thread serves containers that are created, removed, and whose access lists are changed and asked, across restarts of the server, with uids at both ends of what compare_uids puts in order and one beyond: nobody who is not on a list gets in, as long as the uids given are in order everybody on it is found, an id never stands for two containers, and the lists change as the abstract sets of users do. |
| `access` (`Access.cfg`, `TypeOK`, `EffectWasAllowed`, `NothingLeftBehind`, `OkMeansDone`) | Every storage operation with its checks, while access is given, taken away and re-keyed, with and without the cache of verified capabilities, and with transfers, opens and puts that fail: nothing is done that was not allowed, removals take the attributes along, buffers are freed once, and an answer LWFS_OK means done. |
| `client` (`Client.cfg`, `TypeOK`, `OwnBuffers`, `WaitTellsTruth`, `WaitsReturn`) | One client thread, two calls of every kind in flight, waits for any of them and for one, and timeouts at every poll: a service reaches only the buffers of the call it answers, a wait reports what the service answered, and with fair threads and services a wait returns. |
| `fs` (`Fs.cfg`, `EntryHasObjects`, `StripesHoldFile`, `ReadsReturnFile`) | Two processes open, create, link, rename, unlink, read and write two names striped over two storage servers, with a call, a transfer or a wait that fails, a transfer that cannot be begun, an id collision or a crash anywhere: a name always leads to a whole file, each byte lies where it is looked for, and a read that succeeded returns the file's bytes. |
| `mount` (`Mount.cfg`, `MountedHasAccess`, `SerialFirstTryMounts`, `SerialMountedInTheEnd`) | Three processes of two users mount one new file system at once, over servers with threads and without, while a process ends and the authorization server starts again: who has mounted keeps its access; of servers without threads the first try succeeds for the user who owns the container, and in the end everybody has mounted or is of another user than who has. |

### Bounds, and why they are enough

* **ThreadPool**: up to 3 threads and 5 requests, watermarks at 1. Three threads
  are enough for one to wait, one to handle and one to be created; the pool
  starts with two, grows once and is full; more requests than threads, so the queue
  holds some while all threads are busy. The proofs remove these bounds.
* **RpcServer**: buffers of one or two requests, three or four requests in all.
  With one slot per buffer the first request of each fills it, so three requests
  mean that a buffer is posted a second time; two workers give contention for
  `lwfs_ptl_lock`. The event queue has 8 slots, more than can be filled, except
  in `RpcEvents.cfg`, which uses the code's ratio (as many events as requests
  per buffer). `rpc_serial` stops after three of four requests, or is told to exit before.
  `rpc_threads` has long results only: a short one takes the same
  steps as a long one that its client fetches at once.
* **StorageObj**: one to three objects, a limit of 1, 2, 4 or 5 open files, two
  or three threads, three or four operations, one crash and restart. In `store_evict`
  the limit is 2, so that the third entry evicts, another object's file or, as a
  creation and the first access both list an element, its own; in `store_serialized` the limit is above the
  number of objects so that no eviction happens, and `store_evict` takes the
  opposite. `store_serialized` has a cell more than objects, so that a freed cell
  is reused or not while it is still referred to. `MAX_OPEN_FILES` is 1014 in the
  code; only with a limit of 1 (`StoreEviction.cfg`) can one thread close the file that it
  has opened again, and can the list be empty when `add_to_open_files` takes its tail.
* **Naming**: two names, which are interchangeable (`Alike`, as are the threads); four
  operations: a namespace, an entry in it, and two more that race for it, or a link and a
  removal of either name. Two threads, so that between two steps of one operation the
  other thread does one or two whole operations. Without threads one restart anywhere,
  with the records that a crash leaves in every combination. `lookup` and `list_dir`,
  which store nothing, are left to the server with threads. `NamingAbort.cfg` has `"/"`, a
  name that the database is initialised with.
* **Authr**: three uids, so that a search halves twice: the least and the greatest of those
  in order, and one of the high half, with which the comparison goes in circles; two containers and four of
  the six operations of a container (the lists of the two left out, writing and
  executing, are treated as that of the first); three requests, enough to create, modify and look, or to create,
  remove and create again, and one restart between. A word of 16 values (`HalfWord` = 8) instead of
  2^32, on which the comparison's arithmetic is the same modulo its size.
* **RpcClient**: two calls of all six kinds in flight from one thread, so that
  `lwfs_waitany` chooses between them, either may be late and either may leave
  its buffers behind.
* **Access**: one object and two names of attributes, one of them the container's;
  four requests (create, set, remove, and one more) and one change of access or
  of the key at any moment.
* **Mount**: two processes of one user and one of another, so that a process finds a
  container that another one of its user, or somebody else, is creating; one process
  that ends, one restart of the authorization server; both kinds of servers.
* **FsLwfs**: two processes, two names, two storage servers with chunks of two
  bytes; transfers of one and of four bytes, the latter of three pieces when it
  starts inside a chunk; files of up to six bytes, so that a server's object has more than
  one chunk; one existing file of three bytes; four operations and one fault. To swap a name takes a fifth operation before a read is
  wrong.

### Fairness

The runs `pool`, `rpc_threads` and `client` use `FairSpec`. In `ThreadPool` it is weak
fairness of each handler thread's steps, which contain the return of a handler
(threads run; an operation returns), and of `JoinThread` and `DeletePool` (a
`fini` that was called goes on). In `RpcServer` it is weak fairness of the main
thread, of each worker, and of `ClientGet`: a client that has the header of a
long result fetches it, which is what `lwfs_wait` does as soon as it sees the
header. In `RpcClient` it is weak fairness of each thread's steps in a call or a
wait, and of the service's steps for each request: a polling loop polls again and a
service that has a request works on it (`rpc_threads` checks that
`RpcServer` does). Weak fairness does not
promise every thread the pool's mutex or every worker `lwfs_ptl_lock`; the
properties do not need it, since another thread takes the request and the
requests of a behaviour are finitely many (which also means that starvation
under an endless stream of requests is not examined). Nothing is
assumed of clients beginning requests, of the owner calling `fini`, of an exit
request, of spurious wakeups or of timeouts. `Mount` assumes weak fairness of each
process's steps, those of the servers within its requests included, and that a process whose
mount failed (or the next one in its place) tries again: without that a failed mount is
the end, and the property says that trying again is enough. The other modules have no liveness
properties: their threads never wait for one another.

## 4. What is proved

Each `...Proofs` module extends the module it is about and holds its theorems. They
hold for *every* value of the constants that the module's assumptions allow, so
without the bounds of section 3; what a theorem assumes beyond that is its own
`ASSUME`, given below. Every state property is proved the same way: an inductive
invariant that TLC checked first (on instances of the run's size), a lemma per action
that preserves it, and the property from the invariant.

| Module | Theorem | Assumes | Statement |
|---|---|---|---|
| `ThreadPoolProofs` | `TypeCorrect` | | `Spec => []TypeOK`; never more than `max_thread_count` threads |
| | `RequestsAreConserved` | | `Spec => []EachRequestOnce` |
| | `NoWakeupIsLost` | | `Spec => []NoLostWakeup` |
| | `FiniDrains` | | `Spec => []DrainedUnlessExit` |
| | `FiniJoinsEveryThread` | | `Spec => []NoThreadOutlivesPool` |
| | `PoolImplementsWorkQueue` | | `Spec => ImplementsWorkQueue`: the pool refines `WorkQueue` |
| `RpcServerProofs` | `TypeCorrect` | | `Spec => []TypeOK` |
| | `BuffersAccounted` | | `Spec => []BufferAccounting` |
| | `ResultsOutliveFetch` | `~NetTimeouts` | `Spec => []ResultOutlivesFetch` |
| | `CutsNothingShort` | `~UseThreads`, `~NetTimeouts` | `Spec => []NothingCutShort` |
| | `DecodesOwn` | `~UseThreads` | `Spec => []DecodesWhatCame` |
| | `PoolUsedAsWorkQueue` | `UseThreads`, `EqSlots >= 2 * MaxMsgs` | `Spec => PoolIsWorkQueue`: the service refines `WorkQueue` |
| `RpcClientProofs` | `TypeCorrect` | | `Spec => []TypeOK` |
| | `BuffersAreOwn` | `OneThread` | `Spec => []OwnBuffers` |
| | `WaitsTellTruth` | `OneThread`, `~GarbageValid` | `Spec => []WaitTellsTruth` |
| `AccessProofs` | `TypeCorrect` | | `Spec => []TypeOK` |
| | `EffectsWereAllowed` | | `Spec => []EffectWasAllowed` |
| | `NothingLeft` | `OneThread`, `"short" \notin Fails` | `Spec => []NothingLeftBehind` |
| | `OkIsDone` | `OneThread` | `Spec => []OkMeansDone` |
| | `NothingStale` | `TRUE \notin CachingArgs` | `Spec => []NoStaleService` |
| `StorageObjProofs` | `StoreTypeCorrect` | | `Spec => []TypeOK` |
| | `StoreTablesAgree` | `Apart` | `Spec => []TablesAgree` |
| | `StoreTransfersHit` | `Apart` | `Spec /\ []NoEviction => []TransfersHitTheirPlace` |
| | `StoreWithinLimit` | `Apart`, `"remove" \notin Ops`, `MAX_OPEN_FILES >= 2 * NumOids` | `Spec => []NoEviction /\ []TransfersHitTheirPlace` |
| | `StoreElementStays` | `Apart`, `~OpenErrors`, `NumFds >= NumOids` | `Spec /\ []NoEviction => []ElementStaysInUse` |
| | `StoreDescriptors` | `OneThread`, `"remove" \notin Ops` | `Spec => []DescriptorsAccounted` |
| | `StoreIOGoesHome` | `OneThread`, `"remove" \notin Ops`, `MAX_OPEN_FILES >= 2` | `Spec => []IOGoesToItsObject` |
| `NamingProofs` | `NamingTypeCorrect` | | `Spec => []TypeOK` |
| | `NamesAreUnique` | | `Spec => []UniqueNames` |
| | `NamingAgrees` | `"create_link" \notin ThreadedOps` | `Spec => []AgreeUntilCrash` |
| | `NamingNeverAborts` | `Names \cap BuiltinNames = {}` | `Spec => []NoAbort` |
| `AuthrProofs` | `AuthrTypeCorrect` | | `Spec => []TypeOK`; lists given only uids in order hold each once, from the greatest down |
| | `AuthrLookups` | | `Spec => []LookupsAgree` |
| | `AuthrOneContainer` | `OneThread` | `Spec => []OneContainerPerCid` |
| | `AuthrWhole` | `OneThread` | `Spec => []WholeOrGone` |
| | `AuthrRefines` | `OneThread` | `Spec => ImplementsAclService`: the server refines `AclService` |
| `DriverProofs` | `MountsStayAllowed` | `~Midway` | `MountSpec => []MountedHasAccess` |
| | `FirstTryIsEnough` | `~Midway` | `MountSpec => []SerialFirstTryMounts` |
| | `NamesLeadToFiles` | | `Spec => []EntryHasObjects` |
| | `BytesKeepApart` | | `ObjIndex` and `ObjOffset` give two bytes of a file two places |
| | `EveryPlaceIsUsed` | | and leave no place of an object out |
| | `StripesAreTheFile` | `"restart" \notin Mishaps` | `Spec => []StripesHoldFile` |
| | `ReadsGiveTheFile` | `~SeekPast`, `~Torn`, `~GoesOn`, `~Swaps`, `Mishaps = {}` | `Spec => []ReadsReturnFile` |

The assumptions in the third column are the ones under which the code satisfies the
property; without each of them TLC has the counterexample that section 7 describes
(two client threads, a truncate that fails, a crash within a request, a transfer that
times out, a pool that decodes late, an event queue that is too small, two operations on
one object, a file closed for another one, a pointer to a removed object in the list of
open files, a link made while its file is removed, a name of the new database used by a
client, two authorization threads, a file with a gap, a
file read while it is written, a process that goes on after a failed transfer, a name
given to another file while it is opened, a loop that begins its first transfer again, an
error code taken for a number of bytes, a read answered with no bytes). The
assumptions of the modules themselves say what the constants are: numbers, finite
sets, that a model value for "none" is not one of the things it is the absence of
(`NoneAssumption`; `NoAcl` is no set of users).

### ThreadPool

From `PoolAssumption` (the arguments are integers, negative and contradictory ones
too, since `lwfs_thread_pool_init` repairs them). None of the properties is
inductive. The invariant `IInv` adds what the code relies on without saying so:

* `MutexInv`: a thread is between the loop's decisions iff it owns the mutex;
* `HandlerInv`: a thread has a request in hand iff it runs one;
* `ListInv`: the list of threads is a prefix of the ranks, the rest were never
  created or have been joined;
* `OwnerInv`, `ExitInv`: what holds in each phase of the owner, and that a
  thread exits only after the pool was told to finish or the process to exit;
* `QueueInv`, `PlaceInv`: the queue is the increasing run of requests up to the
  last one added; those before it were taken, and each is in one place;
* `NoLostWakeup` itself: the signal of `add_request` meets a waiter or a thread
  that will look at the queue again before it waits, because a thread only waits
  when it saw the queue empty under the mutex.

The refinement has one lemma per action that is a step of the queue (`AddRefines`,
`TakeRefines`, `ReturnRefines`, `DeleteRefines`); all others stutter. The refinement
mapping computes each request's status; the `...View` lemmas say what the invariant
makes of it, in terms that can be used after a step.

### RpcServer

`IInv` is for any number of workers, with a pool or without, any event queue (one
that loses events included) and every kind of request:

* `LinkInv`: a buffer is on the match list once, unless it was freed or is being
  posted again; `PhaseInv`: buffers are freed at the end only;
* `CountInv` is `BufferAccounting` for both buffers and all phases: what the memory
  descriptor has taken is what was counted, waits as an END event, or was lost with
  it. It is inductive because each event takes one place in one of these three; the
  lemmas `EndsAppend` and `EndsTail` count the events of a queue that grows at one
  end and shrinks at the other;
* `CameInv`: what is dispatched is in a slot that the network has written.

`DrainInv` adds that each dispatched request is running, queued or ended. `HeldInv` is for
the service without a pool: a request between its event and its decoding is still in its
slot, because a buffer is posted again only when its last request was processed inline.
`ServedInv`, also without a pool, follows a request on: its operation has run once it is
past it, its client has the header of a long result while the service waits for the fetch, and
whatever has ended was served. `OrderInv` and
`PlaceInv` are for the refinement: requests are dispatched in the order in which they
came (their END events are in the event queue in that order, none missing), and those in
the pool's queue are the increasing run of the ones dispatched last.

### RpcClient

`IInv` holds for any threads: `ThreadInv` (one call is made by one thread; `which` is
among the calls waited for), `CountInv` (a counter is at most the number of calls that
are past it) and `RegInv`. One thread adds `OwnInv`: match bits at a portal are distinct
(`BitsInv`), an entry is of a call that still has it posted (`EntryInv`), and the service
of a call finds its own entries (`SvcInv`). That the counter is below the next call's
bits is the step that two threads break: both load, and both store the same number.
`OwnBuffers` needs nothing of `which`, so it holds even where `which` = -1 indexes
memory that looks like a request. `TruthInv` adds what a wait relies on: an answer is
written once (`OnceInv`), into the buffers of its call (`UsedInv`), and the result of a
wait is that answer (`ToldInv`, `ResultInv`).

### StorageObj

`Apart` is `Serialized \/ OneThread`: no two operations on one object at a time, because
clients see to it or because the server has one thread. `NoEviction` says that no thread is
at `evict`, where `add_to_open_files` closes a file for another one; `Alone` is one thread
and no removals. These invariants stand on one another:

* `IInv`, for any threads: an operation is at a place of its own path, with the returns
  of `add_to_open_files` and `remove_from_open_files` that belong to it (`PathInv`), and
  a descriptor without a file is closed (`FdTyped`).
* `ApartInv`: one thread works on an object (`Sole`), the elements in the table are live
  (`Kept`), an object has one (`Once`), a live element is in the table or is being removed
  (`Owned`), objects at rest agree with directory and attributes (`AtRest`), and what an
  operation has found out about its object stays true until it ends (`Knows`).
  `StoreTablesAgree` needs no more, so it holds whatever fails, however many crashes there
  are, and with files closed for others.
* `FdInv`: the descriptor in an element is open and of the object's file, unless it is
  being closed (`Known`), each open descriptor is in an element (`FdsHeld`), and at each place
  of its path an operation knows what it needs (`Safe`: at `transfer` the descriptor
  is 0, or open and at the offset). This is where eviction hurts: with it another thread may
  close the descriptor between two steps (`StoreEviction.cfg`), so `NextFd` assumes that there is
  none or that there is one thread.
* `SteadyInv`, without eviction: from its opening to the transfer the file is open, so the
  descriptor is not 0 (`StoreTransfersHit`).
* `SoloInv`, for `Alone` with eviction: sysio_obj_read and _write look at the descriptor once
  more and open the file again, and then it must not be the last of the list. So the
  invariant follows the places that an element has in the list: twice at most (`NotThrice`),
  once while its file is closed (`OnceIfShut`), and at the front when it is to be opened again
  (`Solo`), which with two places or more is not the last. An element that is there twice
  would still be there after its own closing; that it is not closed for its mode while it is
  open is `ModeSet`. The other operations do not look again, and for them the property is false
  (section 7).
* `ListInv`, for `Alone`: an element with an open file is in the list or in hand
  (`AllListed`), and who adds to the list has made room (`Room`). `OpenFilesBounded` then
  counts: each open descriptor is in an element of its own in the list (`FS_PigeonHole`).

`[]NoEviction` is about behaviours, not constants, because with removals it cannot be
otherwise: a removal may leave an entry in the list (`StoreList.cfg`), so the list grows with
the operations, not with the objects. It is not empty: `store_serialized` never reaches
`evict`. Without removals `StoreWithinLimit` replaces it by a condition on the constants:
`LimitInv` says that an element is in the list twice at most, once from its creation and
once from the first access, and once at most while its file is closed; so with
`MAX_OPEN_FILES` (1014 in the code) at least twice the number of objects
no file is ever closed for another, by any number of threads. `StoreElementStays` is the
one about removals: its step is that `open()` finds a free descriptor, since each of
the others is held by another object (`OneLeft`), so `open_oid` returns no NULL.

### Naming

The 15 steps are of two kinds: a quiet one (`Quiet`) changes neither database, a changing
one (`Changing`) stores or deletes one record. `Paths` joins each operation's steps into
one sequence and `Follows` says which step comes after which, so that what is left of
an operation is always the end of its path (`ThreadsOK`).

* `TypeInv`, for anything: the oids and the counts are bounded by the operations that
  were started. `Room` counts, over the threads under way, the entries and counts that
  they still have to store, so `TypeOK` is not inductive without it. A crash adds
  nothing: `EntriesNumbered` is about what may be on disk too (`AllEntries`), where an
  oid still belongs to one entry.
* `UniqueNames` needs only that the put of an entry fails where there is one, and that
  a crash brings back one record for each key.
* `AbortInv`, for any threads, links and crashes: a count is zero in no record of a
  client's inode, neither in the database nor among those that a crash may bring back,
  so an operation that is about to decrement one has read at least 1 (`Countable`). The
  count may well be wrong by then (`NamingThreads.cfg`): the code deletes an inode at 0
  and never stores a 0. Only the three entries of a new database have a 0, which is why
  the names of clients must differ from theirs (`NamingAbort.cfg`).
* `AgreeInv`, until a crash: `Exact` is the heart. At most one operation is between its
  change of an entry and that of the count (`Holds`), and a count is the number of its
  entries but for what that operation still has to store; when nothing is under way
  this is `RefCountExact`, and a count that is stored is at least 1, hence
  `EntriesResolve`. `Knows` says that what an operation has read it may still rely on. Without
  threads (`Serial`) because it is alone, links included; `ParentsExist` is then kept since
  the parent was found and a removed directory was empty. With threads (`Threaded`)
  because without links an inode has the oid of its one entry and the count 1, so that of
  two removals one finds the entry gone and nobody else comes near the inode. With links
  that is false: `NamingThreads.cfg` has two increments of which one is lost.

### Access

`IInv` holds for any threads, any failures, with and without the cache. Its part
`CheckedInv` says how far a capability has been verified: the ops that are no longer
`left` were seen on their lists since the request began; `CapsInv` says that a
capability, and so a cached one, was once allowed. `PathInv` ties a thread's step to its
operation through `op_array`. `SoleInv` is for one thread: what a request has found out
about its object stays true, and attributes without an object are those of the
removal in service (`AttrsInv`). `NothingStale` needs only that an empty cache stays
empty.

### Mount

`MountInv` holds for servers with threads and without: `ListsInv` says what the three lists
hold depending on how far the creator of the container has come, with `NoAcl` only
between a `mod_acl`'s delete and put; `AloneInv` that there is one creator and at most one
process between the delete and the put of a list (two would have to have read the
list, which the first deleted); `ProcInv` that a process past the capability to change lists is
of the creator's user. `MountedHasAccess` follows, as a put restores the list with at
least the user who was on it. `SerialInv` adds what servers without threads guarantee
between requests: no list is half-way.

### FsLwfs

The three invariants stand on one another: `FilesInv`, `StripeInv`, `ReadInv`. The first
two hold for any processes, names, storage servers and operations, with
calls, transfers and waits that fail, ids that collide and processes that end at any point,
whatever applications do (`SeekPast`, `Torn`, `GoesOn`, `Swaps` in any setting), and
without a bound on operations or faults; `FilesInv` for any `Mishaps`, `StripeInv` for
those without `"restart"`, which it names as its first part.

`FilesInv` is what makes `EntryHasObjects` inductive:

* `FileInv`: a file counts its names, and one with a name is whole. Alone it is not
  inductive: that a file has all its parts when it gets its name depends on the steps
  before, and that nothing is removed from under a name on who else holds the file.
* `WorkInv`: the file that a process makes or takes apart has *no* name; of one that is
  made the list comes first, then the objects from server to server (those below the
  loop's `i` exist), then the management object part after part, and the name only when
  all is there.
* `Apart`: nobody else works on a file that is being made. Of who takes a file apart
  nothing needs to be said: it has lost its last name, and only its maker can give a name
  to a file that has none.
* `Shapes`: which files and fields there are, without saying what the bytes are.

`Frame` says what is to be shown of a step: what it does to its own process, and that the
others' files keep their parts and stay nameless. The steps that move only a process
(`FrameProc`) and those that change only bytes follow at once; a lemma each remains for
creating, naming, linking and unlinking (renaming is a link and an unlink).

`StripeInv` adds for `StripesHoldFile`:

* `HoldsBytes`: byte after byte, what an existing object holds is what the file has at
  the place that belongs to it (`Holds`); `BytesTypes` are the types of the bytes.
* `OpenInv`: what a process that opens or creates knows of its file so far.
* `OutsInv`: a transfer in flight stays within one chunk and goes to the server and the
  place in the object that `sso_calc_obj_index_offset` gives for its place in the file;
  a write lies within its buffer.

That a write then changes the file and the object alike is the arithmetic of striping
(`BytesKeepApart`). What the loop that cuts a transfer up comes to (`PiecesAre`: its pieces
cover the transfer, lie within it and each in one chunk) is an argument by a least
counterexample, as for the lists of `Authr`.

`ReadInv` adds for `ReadsReturnFile`, for applications that neither leave gaps, nor
read what is being written, nor go on after a failure, nor swap a name that is opened:

* `WritesInv`: a byte of the file is missing from its object only when a write in
  flight or lost still owes it or the object is gone, and no write in flight or lost
  leaves a gap.
* `FdInv`: a process's positions and its size lie within the file. `StatInv`: while
  the sizes are being added up, the sum is at most what the file has on the objects seen.
* `RestInv`: between two operations nothing is in flight and the descriptor's position
  is the inode's; `EndedInv` says that an operation that has ended left in the buffer what
  it should have.
* `IoInv`: the transfers in flight and those done make up the operation, if all could
  be begun (an operation that could not cannot end but by failing); while one
  reads no write is in flight; a read that is done has put the file's bytes (`Got`) in
  their places in the buffer.

`OwnProc` (what a step does to its own process), `OthersProc` (what it may not take from
the others) and `WritesSteps` are what each action is shown to keep.

### Authr

The lists are the hard part: what `Qsort`, `RemoveDups`, `Matched` and `Bsearch` compute
for arrays of any length. The library's induction theorems cannot be used, as they take an
operator as a parameter; a least counterexample can: the lemma `Least` (from
`NatLessThanWellFounded` and `WFMin`) gives the shortest array, the smallest distance to
the ends of two arrays or the narrowest interval for which a claim is wrong, and the step
shows that a smaller one is wrong too. In this way, where `compare_uids` is an order (of
the uids of `InOrder`, on the builds of `CompareWorks`),

* `SortExists`, `QsortIs`: an array has a sorted arrangement, and what `qsort` leaves is
  one, since `compare_uids` is the order by `Rank` (`ComparIs`);
* `MatchedIs`, `BsearchIs`: the walk along two sorted arrays finds exactly the common
  uids, the search exactly the uids that are there;
* `Dropped`, `RemoveDupsIs`, `AddUidsIs`, `RemoveUidsIs`, `ModifiedAclIs`: the uids
  overwritten with the infinite one are sorted to the end and cut off there, so that a
  modified list is a stored list (strictly descending) of the old users and
  the granted ones without the revoked ones.

On any build, whatever the comparison says, the arrays are arrangements of the words that
went in (`ArrangedIs`), the walk ends (`Solution`) and overwrites only places of the array
(`MatchedPlaces`), so that nobody is on a modified list who was not on the old one or
granted access (`RemoveDupsFrom`, `RemoveUidsFrom`, `ModifiedAclFrom`); and the search meets
a word only where it is, as two words compare as equal only when they are (`EqualWords`,
`BsearchFound`).

`TypeInv` holds for any threads: the state has its types (`StateTyped`), a thread is on the
path of its request (`OnPath`) and within its bounds (`AtPlace`). `KeptInv` says of every
list in the database, and of the one that `mod_acl` has read, that it is sorted and holds no
overwritten entry as long as the uids it was given are in order (`Kept`); it needs the
history `named`, since one uid that is not in order may spoil a list for good.
`TypeOK` and `LookupsAgree` follow from the two, without assumptions. `SoleInv` is for one thread: a container's
lists are all there or all gone, except those that the request in service has not
yet put or deleted (`Amid`, `Halfway`). It gives `OneContainerPerCid` (a creation puts a
list where none is, so the container was gone), `WholeOrGone`, and the refinement:
`UsersAllowed` keeps the users of the list that `mod_acl` has taken away until it puts the
new one, so its delete is a stutter and its put the change; one lemma per action
(`...Serves`) says which abstract step it is.

### What is only model-checked

Liveness: `PoolGetsOn`, `ServiceGetsOn`, `WaitsReturn` and `SerialMountedInTheEnd`. Fairness
and ENABLED are out of the prover's reach. Every other property of the runs is stated by
a theorem, most without further assumptions, the others under those of the table.

## 5. What the properties do not promise

* `DecodesWhatCame` and `NothingCutShort` hold *without* a pool. With one the two halves of
  the first fail (`rpc_reset`, `RpcShutdown.cfg`), and so does the second: a stop at
  `max_reqs` frees the buffers of requests that are still queued, which are then decoded
  from freed memory and end without an answer, or abort the process. The services of
  the repository start with a pool if asked on the command line. `NothingCutShort` also
  needs transfers that do not time out (`RpcTimeouts.cfg`), and says nothing of requests in
  work when the service is told to exit.
* The object store is right when clients serialise their operations on an
  object *and* do not need more files than may be open. Without the first, two
  threads suffice to forget a descriptor (`StoreShared.cfg`); without the second,
  three threads suffice to read another object's file (`StoreEviction.cfg`).
  `store_serialized` and `store_evict` are the two halves of what holds, and
  `StoreWithinLimit` says how many files are enough when objects are not removed.
  Even one thread is not enough for truncate, stat and fsync when the limit is reached:
  they may be made on standard input (section 7), which is why `store_evict` checks reads
  and writes only.
* The naming server is right one operation at a time, and without links also
  concurrently, except that an entry may survive its directory (hazard list):
  `AgreeUntilCrash` says that of `ParentsExist` only without threads and of clients that
  only remove empty directories. A crash breaks all of that (`NamingRecover.cfg`); what is
  left is that the server does not abort on what the crash left behind (`NoAbort`).
* Mounting is right over servers without threads and an authorization server that ends
  between two requests. With threads a first try may fail on a list that is being
  changed, and two processes of one user may fail on one another again and again; a
  crash between the record of the container and its lists ends mounting for good
  (`MountCrash.cfg`).
* The authorization server is right with one thread, and for uids below 2^31 - 1 where
  `long` is no wider than `int`. On any other build, or with larger uids, nobody gets in
  who was not let in (`LookupsAgree`, `ImplementsAclService`), but users on a list may not
  be found (`AuthrLong.cfg`) and users taken off it may stay (`AuthrCray.cfg`). With two threads not even `OneContainerPerCid` holds, though
  it takes five requests to see it (`AuthrThreads.cfg`).
* `EffectWasAllowed` allows for the cache: a cached capability goes on being
  served after its access was taken away (`AccessCache.cfg`).
* `BufferFreedOnce` holds when writes are complete; `AttrsHaveObjects` and `OkMeansDone` with
  one thread. `OkMeansDone` exempts what the code hides: a read, a stat or a truncate whose
  file cannot be opened (or truncated) answers LWFS_OK. Without that exemption it is
  `OkTellsFailures`, which is false (section 7).
* `WaitTellsTruth` is about the calls that a wait reports as answered. A call that
  the service never answers (an unknown operation) makes `lwfs_wait` wait for ever.
* `ReadsReturnFile` is a promise to applications that read what is at rest (`Torn`),
  do not leave gaps (`SeekPast`), stop at a failed transfer (`GoesOn`) and leave a name
  with its file while it is being opened (`Swaps`), and it is kept only as long as failures
  are noticed (`Mishaps`): a first transfer that cannot be begun, or an object whose
  file its server cannot open, is enough for a read that succeeds with other bytes. It
  says nothing of a file that was removed or replaced while open except that
  no other file's bytes are returned.

## 6. Not modelled, and why

* The transfer layer (`lwfs_ptls.c`): its outcomes are in `RpcServer` and
  `RpcClient`, its own steps come later (section 8).
* Client stubs (`client/*_client`): each fills an argument structure and calls
  the RPC client; the cache of verified capabilities is in `Access`.
* Of the libsysio driver: directories, symbolic links and listings (single calls of
  the naming server), attributes
  and their cache, the cache of containers, files that share a
  container (`LWFS_FILE_CID`), fake I/O, `sync` and `datasync`; libsysio itself. Of its
  transfers: a first transfer that reached the server though sending it failed, and then is
  begun again; a loop that began again and fails later; a write that a server carried out
  in part.
* Programs, configuration, logging, timers, tracing: pure input and output.
* The metadata server is not built; transactions and locks are stubs that
  return -1; the authentication server is a header.
* XDR code is generated; clients send requests that decode, and only what is
  read from freed memory may not (`DecodeGarbage` in `RpcServer`).
* In modelled parts: `sysio_obj_fini` (the process ends right after), the
  contents of attributes, `naming_stat` and `naming_list_namespaces` (reads),
  crashes of the authorization server within a request in `Authr` (they are in `Mount`),
  containers that differ between a capability and an object (`ss_verify_cap` has
  that comparison commented out), `lwfs_waitall`.

## 7. Findings and further counterexamples

The violation run:

* `rpc_reset` (`server/rpc_server/rpc_server.c:1442`): With a thread pool queue_count counts requests that were dispatched, not processed, so a buffer is re-posted while requests in it are still undecoded and a new request overwrites them; rpc_server.c:1441 says "if we've processed all we can on this queue, reset".

While the models were written TLC found more disagreements between the code and
its comments. Each configuration below ends with a counterexample to the property
named (a configuration that names several is checked with one of them at a time).

* `ThreadPoolShrink.cfg`, `LowWatermarkShrinksPool` (`support/threadpool/thread_pool.c:212`): The low watermark never removes a thread. The call of delete_handler_thread is commented out, so the pool never gets smaller before fini; thread_pool.h:43 says of low_watermark "request queue size at which we start killing threads" and thread_pool.c:197-198 says "if there are few requests and too many handler threads, cancel a handler thread".
* `RpcShutdown.cfg`, `DecodesLiveBuffer` and `NothingCutShort` (`server/rpc_server/rpc_server.c:1492`): At a stop the request buffers are freed while pool threads still decode from them. cleanup frees the request buffers and only afterwards calls lwfs_thread_pool_fini, which processes the requests still queued, so process_request decodes freed memory and drops the request, or aborts; rpc_server.c:28-29 says of lwfs_service_start:cleanup that it "should pthread_join() - wait for event processing to complete".
* `RpcEvents.cfg`, `EveryRequestSeen` (`server/rpc_server/rpc_server.c:1221`): The event queue is smaller than what two buffers can deliver. The event queue shared by both buffers has reqs_per_queue slots but each put makes a START and an END event, so the events of accepted requests are dropped before a buffer is full, and queue_count then never reaches the value that resets it; rpc_server.c:1177 says "each md can recv reqs_per_queue messages".
* `RpcTimeouts.cfg`, `MemoryLimitExits` (`server/rpc_server/rpc_server.c:767`): A request over the memory limit is given up, and the service goes on. When the memory in use exceeds max_mem_allowed the request is dropped without an answer and the service continues; rpc_server.c:751-752 says "if memory in use is greater than maximum memory allowed, then exit".
* `RpcTimeouts.cfg`, `ResultOutlivesFetch` (`server/rpc_server/rpc_server.c:681`): A long result is freed while the client may still fetch it. When lwfs_ptl_put times out although the header reached the client, send_result frees the long result without unlinking it or waiting for the client's GET; rpc_server.c:600-601 says "if the client has to fetch the results, we need to wait for the GET to complete".
* `StoreList.cfg`, `ListHoldsLiveElements` (`server/storage_server/sysio_obj.c:263`): One thread creates, reads and removes: the open-file list keeps a pointer to the freed element. sysio_obj_create puts a new element into the open-file list although its file is closed (sysio_obj.c:786), the first access puts it there again, and remove_from_open_files deletes only the first match (remove_oid of an object that was never accessed deletes none), so the list keeps a pointer to a freed element; sysio_obj.c:254-255 says remove_from_open_files "removes the object from the open files list; includes closure of an open file".
* `StoreEviction.cfg`, `IOGoesToItsObject` (`server/storage_server/sysio_obj.c:292`): Three threads read three different objects while only one file may be open. add_to_open_files closes the descriptor of an object that another thread is about to read; its number is given to a third object's file before the element's fd is cleared, and the read returns that file's data, although no two threads work on the same object; storage_server.h:59 says of the operation "Read from a stored object".
* `StoreEvict.cfg`, `CallsReachTheirObject` (`server/storage_server/sysio_obj.c:292`, `1029-1114`): one thread creates an object and truncates it while the list is full and the object's own first entry is the last: open_oid opens the file, add_to_open_files closes it to make room for it and sets fd to 0, and ftruncate, fsync or fstat is called on descriptor 0; storage_server.h:112-122 says of these operations "Stat an object", "Sync object data to storage" and "Truncate an object".
* `StoreShared.cfg`, `NoDescriptorLeak` (`server/storage_server/sysio_obj.c:363`): Two threads access an object whose file is closed. Both threads see fd == 0 and open the file; the second store overwrites the first descriptor, which is never closed; sysio_obj.c:70 says "we maintain 10 fewer than the max number of open file descriptors".
* `StoreShared.cfg`, `UsesLiveElement` (`server/storage_server/sysio_obj.c:398`): One thread removes the object that another one reads. remove_oid frees the element while another thread, past its check, still uses it; sysio_obj.c:830 says of sysio_obj_read "assumes that object already exists" and storage_server.c:684 "verify that the object exists", but nothing keeps it in existence.
* `StoreCreate.cfg`, `OneElementPerObject` (`server/storage_server/sysio_obj.c:751`): Two threads create the same object. access and creat are two steps, so two creates of one object both succeed and the hash table holds two elements for it; sysio_obj.c:750 says "check for the existence of the file" and answers LWFS_ERR_EXIST.
* `StoreShared.cfg`, `NoSegfault` (`server/storage_server/sysio_obj.c:1000`): One thread removes the object that another one is about to write. sysio_obj_write reads result->id in the branch where result is NULL, so a write of an object that was removed after the check (or that cannot be opened) ends the server; the branch's own message at sysio_obj.c:1000 says "could not write because object id (%s) not found".
* `NamingThreads.cfg`, `EntriesResolve` (`server/naming_server/naming_db.c:1983`): A file is removed while a link to it is created. naming_db_put stores the link's entry first and then increments the inode's count; when the inode was removed in between it returns an error and leaves the entry, whose name can then be neither looked up nor removed nor created again; naming_server.c:1124 says "indicate that the new entry is a link to an existing entry".
* `NamingAbort.cfg`, `NoAbort` (`server/naming_server/naming_db.c:674`): A client, alone, removes the namespace that is named like the root entry. The root entry, the orphans entry and the id entry have the parent oid of the namespaces and ref_cnt 0, so naming_remove_namespace finds them and db_del decrements to -1 and calls abort() without any concurrency; naming_db.c:674 says "negative ref count. concurrency error. abort."
* `NamingRecover.cfg`, `Recovered` (`server/naming_server/naming_db.c:1244`): naming_db_init never looks at dbrecover: after a crash it opens the files as they are, with entries without an inode and counts that are wrong; server/naming_server/cmdline_default.c:37 says of --naming-db-recover "Recover the naming database after a crash", and naming_db.c:1237 calls the argument "flag to signal recovery from crash".
* `NamingList.cfg`, `ListFits` (`server/naming_server/naming_db.c:763`): An entry is created while a directory with one entry is listed. naming_list_dir counts and allocates, and db3_get fetches a second entry before it compares with maxlen, so with one entry counted and another one added the second is written past the array; naming_server.c:1371 says "allocate space for the entries".
* `RpcTimeouts.cfg`, `OpNotRunWithoutArgs` (`server/rpc_server/rpc_server.c:348`): fetch_args returns LWFS_OK also after lwfs_ptl_get failed, so process_request runs the operation on zeroed arguments; rpc_server.c:828-833 expects the error: "if (rc != LWFS_OK) ... unable to fetch args ... goto cleanup".
* `StoreShared.cfg`, `IOAtItsOffset` (`server/storage_server/sysio_obj.c:893`): lseek and read (or write) are two calls on a descriptor that all threads share, so a transfer of another thread in between moves the position; sysio_obj.c:892 says "seek to the right location".
* `NamingThreads.cfg`, `RefCountExact` (`server/naming_server/naming_db.c:1211`): inode_increment_refcnt reads and writes the count in two calls without a transaction, so one of two increments is lost; a later removal then frees an inode that still has entries. naming_db.h:28-30 says "ref_cnt tracks the number of references. When the ref_cnt goes to zero, the inode can be freed".
* `AuthrLong.cfg`, `EverybodyFound` (`server/authr_server/authr_server.c:190`): compare_uids subtracts unsigned ints into a long, so where long has 64 bits its result is never negative; the arrays are then not sorted, duplicates stay and a user on a list is not found; what follows (bsearch in check_perm, the merge in remove_uids) takes the arrays to be sorted. The same with `LongIs32 = TRUE`: 12 is of the high half, 0 comes before 12, 12 before 6 and 6 before 0, and of the three on one list not all are found.
* `AuthrCray.cfg`, `RevokedAreOff` (`server/authr_server/authr_server.c:156`): on Cray Portals qsort is given the reversed comparison, while the merge that follows goes by compare_uids itself, and a removed user stays on the list.
* `AuthrLost.cfg`, `ImplementsAclService` and `WholeOrGone` (`server/authr_server/authr_server.c:1180`): two modifications of one list at once lose one of them or leave no list; a modification at the same time as a removal leaves one list of a container that is gone; authr_server.c:1180 says "THESE TWO OPERATIONS NEED TO BE IN A TRANSACTION".
* `AuthrThreads.cfg`, `OneContainerPerCid` (`server/authr_server/authr_server.c:1180`): one request creates a container under the next free id while another creates that id explicitly; each list that the one that is late is to put has just been deleted by a mod_acl, which is going to put it again, so both creations succeed; authr_server.c:1180 says of the delete and the put "THESE TWO OPERATIONS NEED TO BE IN A TRANSACTION".
* `AccessCache.cfg`, `NoStaleService` (`client/authr_client/authr_client.c:517`): a capability that was verified once is served although its access was taken away; the comment before the cache says the verifier "register[s] ourself as a trusted verifier of the cap", and no call takes an entry out again.
* `Access.cfg`, `OkTellsFailures` (`server/storage_server/storage_server.c:1360`, `sysio_obj.c:882`, `1068`): sysio_obj_trunc returns one upon success and zero otherwise, and ss_truncate returns that as its code, where zero is LWFS_OK (`Fails = {"trunc"}`); with `Fails = {"open"}` a read answers LWFS_OK with no bytes and a stat LWFS_OK with nothing filled in.
* `Access.cfg` with `Fails = {"short"}`, `BufferFreedOnce` (`server/storage_server/storage_server.c:814`): after a short write both sysio_obj_write and ss_write free the buffer.
* `AccessThreads.cfg`, `AttrsHaveObjects` and `ListFits` (`server/storage_server/storage_server.c:1008`, `sysio_obj.c:1142`): an attribute is put for an object that was removed after the check; attributes are counted, then fetched, and one that came in between is written past the array.
* `ClientThreads.cfg`, `OwnBuffers` (`client/rpc_client/rpc_client.c:1058`): two threads increment local_count at once and post their results under the same match bits; the answer of one call reaches the buffer of the other.
* `ClientFailed.cfg`, `WaitTellsTruth` (`client/rpc_client/rpc_client.c:736`): after a timeout lwfs_waitany cleans up req_array[-1]; what lies there may look like a request and its codes are reported.
* `ClientFailed.cfg`, `NoStrayReply` and `FailedCallsAreOver` (`client/rpc_client/rpc_client.c:1376`): a call whose request was not acknowledged in time returns an error and leaves its buffers posted, and the service carries it out with them later.
* `FsReadWrite.cfg`, `InsideBuffer` (`client/sysio_client/fs_lwfs.c:1388`): a write moves fpos but not st_size, and a read after it computes st_size - fpos as an unsigned number.
* `Fs.cfg` with `Torn = TRUE`, `ReadsReturnFile` (`client/sysio_client/fs_lwfs.c:2002`): a file is opened while a write is unfinished; the sum of its objects' sizes is not the place where it ends.
* `Fs.cfg` with `SeekPast = TRUE`, `ReadsReturnFile` (`client/sysio_client/fs_lwfs.c:1446`): a file with a gap has a shorter object; a read of it gets fewer bytes than it asked for, which nothing looks at, and the buffer keeps what it held.
* `Fs.cfg` with `GoesOn = TRUE`, `ReadsReturnFile` (`client/sysio_client/fs_lwfs.c:4262`): lwfs_inop_iodone returns at the first failed transfer; the others later write into the buffer of the next operation.
* `Fs.cfg` with `Swaps = TRUE` and `MaxOps = 5`, `ReadsReturnFile` (`client/sysio_client/fs_lwfs.c:2865`): an open looks the name up twice, for the entry and again in lwfs_stat_path; when the name is given to another file in between, the inode has the objects of one file and the size of the other.
* `Fs.cfg` with `Mishaps = {"restart"}`, `StripesHoldFile` and `ReadsReturnFile` (`client/sysio_client/fs_lwfs.c:1416-1452`): sso_io logs that the first transfer could not be begun and goes on with a whole chunk at the same place; the chunk crosses the boundary, and bytes of the next server's chunk are written to, or read from, this server's object.
* `Fs.cfg` with `Mishaps = {"refused"}`, `ReadsReturnFile` (`client/sysio_client/fs_lwfs.c:1453-1456`, `1478-1481`): when no capability is given, the loop returns the positive error code, which doiov and the caller take for the number of bytes read.
* `Fs.cfg` with `Mishaps = {"empty"}`, `ReadsReturnFile` (`server/storage_server/sysio_obj.c:849-884`, `storage_server.c:713-732`): a server that cannot open the object's file answers LWFS_OK with no bytes; the driver does not look at how many came, and the buffer keeps what it held.
* `FsLeak.cfg`, `NothingLeaks` (`client/sysio_client/fs_lwfs.c:3659`): two processes create one name; the objects of the one that is late are left without a name; the calls rollback_ss_obj() and rollback_naming_obj() are comments.
* `FsRename.cfg`, `RenameKeepsOthers` (`client/sysio_client/fs_lwfs.c:4004`): between the link and the unlink of a rename the old name is removed and made again; the new file is removed.
* `MountCrash.cfg`, `SerialMountedInTheEnd` (`server/authr_server/authr_server.c:868`): the server ends after it put the record that a container exists and before it put the list that says who may change its lists; every later mount finds the container and gets no capability for it.
* `MountCrash.cfg`, `FirstTryMounts` and `MountedInTheEnd` (`server/authr_server/authr_server.c:1180`): while one process's mod_acl has deleted a list to put it again, another process's mount finds none and fails; two processes of a user that try again at the wrong moments fail for ever.
* `MountCrash.cfg`, `CachedCapsVerify` (`client/sysio_client/fs_lwfs.c:573`): the driver keeps the capability of a mounted file system and never asks for another; after a restart of the authorization server, which signs with a new key, no server accepts it.

## 8. Plan

In order; the first block is done.

1. *Done:* `WorkQueue`, `ThreadPool` and its proofs; `RpcServer`; `StorageObj`;
   `Naming`; then `AclList`, `AclService`, `Authr`; `RpcClient` with its service;
   `Access`; `Striping`, `FsLwfs`; a restart in `Naming`; `Mount`.
2. **Theorems**, done: `ThreadPool`, `RpcServer`, `RpcClient`, `Access`, `Mount`,
   `Authr`, `StorageObj`, `Naming`, `Striping` and `FsLwfs` (section 4): every safety
   property of the runs. No module uses `RECURSIVE`, so what follows can be proved
   about too.
3. Crashes within the requests of `Authr`, and index files of `Naming` that are older
   than the entries.
4. **`Transfer`** (`common/rpc_common/lwfs_ptls.c`): `lwfs_ptl_put` and `_get`
   with their event sequence, retry test and timeout, against an abstract
   transfer that happens once or fails; two servers that are each other's client
   with `lwfs_ptl_lock` held.
5. **Abstract specifications**: `ObjectStore` (a map from object to file),
   refined by `StorageObj` when serialised; `Namespace` (a tree of names),
   refined by `Naming` without links.
6. Directories and shared containers in `FsLwfs`.

## 9. Running

    tlc -workers 2 -config StoreEvict.cfg StorageObj.tla
    tlapm ThreadPoolProofs.tla      # and the other *Proofs modules

`PROJECT.json` lists the runs with module and configuration, the mutants (for
each property, a definition and the faulty variant that must violate it), the
source lines of every definition, the hazards of the code and the properties
that watch them.
