# Cyrus IMAP: TLA+ models of its database, processes, replication and mailboxes

Cyrus keeps almost all of its server-wide and per-user state (the list of
mailboxes, seen state, annotations, subscriptions, quotas, conversations, TLS
sessions, duplicate suppression) in small key-value databases behind the
`cyrusdb` interface, and mail in mailboxes with an index file each.  Many
processes open the same files, any of them may be killed at any time, the
machine may lose power, and a replica has to follow.  This development models

* *twoskip* (`lib/cyrusdb_twoskip.c` on `lib/mappedfile.c` and
  `lib/lock_fcntl.c`), the default database engine: its write order and crash
  recovery, cached locations and iteration, checkpoint, and the protocol by which
  processes agree on which file is the database;
* *master* (`master/master.c`), which forks, counts and stops all other
  processes, with the loop that its workers run (`master/service.c`);
* *replication* (`imap/sync_log.c`, `imap/sync_client.c`,
  `imap/sync_support.c`): the log that every process appends to, the rolling
  client that works it off, and the update of one mailbox on a replica that may
  have been changed as well;
* *mailbox and index* (`imap/mailbox.c`, `imap/index.c`): IMAP sessions on a
  mailbox that others deliver to, expunge, clean up and repack.

It also holds the inventory and the plan for the rest of the server.

## Contents

| File | What it is |
| --- | --- |
| `TwoSkipFile.tla` | file layer: header, records, page cache and disk, the write order of one writer |
| `TwoSkipFileProofs.tla` | proofs about it, for every size of file, number of levels, keys, values |
| `TwoSkip.tla` | process layer: transactions, lookups, foreach, commit, abort, recovery1, checkpoint, crashes |
| `TwoSkipProofs.tla` | proofs about it: its safety properties and both refinements |
| `TxnStore.tla` | the abstract transactional store that TwoSkip implements |
| `DbFile.tla`, `DbFileProofs.tla` | names, inodes and locks: creating, opening, locking and replacing the file |
| `Padding.tla`, `PaddingProofs.tla` | `add_padding`: record heads and disk blocks |
| `Master.tla`, `MasterProofs.tla` | master, one service of it, and the service's workers |
| `SyncLog.tla` | one channel of the replication log: writers and the renaming reader |
| `EventQueue.tla` | the queue that SyncLog implements |
| `SyncClient.tla`, `SyncClientProofs.tla` | rolling replication: the mail store, the log, and `sync_do_reader`; proofs about it and about the log |
| `Replica.tla`, `ReplicaProofs.tla` | one mailbox on two servers and `sync_do_update_mailbox` |
| `Index.tla`, `IndexProofs.tla` | one mailbox, the sessions that have it selected, and their clients |
| `MCTwoSkip.tla`, `MCDbFile.tla`, `MCMaster.tla`, `MCSyncClient.tla`, `MCReplica.tla`, `MCIndex.tla` | constants and symmetry sets for TLC |
| `*.cfg` | the runs |
| `PROJECT.json` | components, runs, mutants, source map, findings, hazards, theorems |

To check: `tlc -config TwoSkipCrash.cfg MCTwoSkip`, and likewise for the other
configurations; `tlapm TwoSkipFileProofs.tla`, and likewise for the other proof
modules.

## Inventory of the system

For each component: the state it keeps, its operations, whom it talks to, what
is hard about it, and what makes it correct.

**twoskip** (`lib/cyrusdb_twoskip.c`).  State: one file with a 64-byte header
(flags, generation, number of records, `current_size`, `repack_size`) and a log
of records (DUMMY, RECORD, DELETE, COMMIT) that are linked into a skip list;
in each process the header, the end of the file and a cached location.
Operations: open, fetch, fetchnext, foreach, store, create, delete, commit,
abort, checkpoint, consistency check, recovery.  Hard: the write order under
crashes, a second recovery after an interrupted one, cached offsets after the
file has changed, foreach callbacks that use the database.  Correct if every
commit is atomic and durable, recovery always finds the last commit, and no
lookup is misled by what it has cached.

**mappedfile and lock_fcntl**.  State: a descriptor, a mapping, a lock status.
Operations: open and create, read and write lock with reopening, write, sync,
truncate, rename.  Hard: a lock belongs to an inode, not to a name.  Correct if
whoever acts on a lock has the current file, and writers are alone.

**Other cyrusdb backends**: `flat` (a sorted text file that each commit
replaces by rename), `skiplist` (the predecessor of twoskip, with a log that is
replayed), `quotalegacy` (one file for each quota root, commits not atomic
across files), `sql`.  They promise what `TxnStore` says, as far as they can.

**master and service** (`master/master.c`, `master/service.c`).  State: for
each service the number of active and ready workers, a table of children with
their states READY, BUSY, DEAD; in each worker the accept lock and a use count.
Workers send AVAILABLE, UNAVAILABLE and CONNECTION messages through a pipe;
master forks, reaps, forgets dead children after two seconds, recycles workers
on SIGHUP.  Hard: exits, messages and forks are seen in any order.  Correct if
the counts are the truth once the messages are read, the limits are kept, and a
waiting connection is served.

**Replication** (`imap/sync_log.c`, `sync_client.c`, `sync_support.c`).  State:
a log of events for each channel that any process appends to and that a reader
renames away; in the client the lists of what a batch asks for, and a cache of
what the replica is known to have; for each mailbox on both sides its records,
`last_uid`, `highestmodseq`, `deletedmodseq` and sync CRC.  Operations: log an
event; take the log, work it off in the order of its lists, defer what is locked,
promote what fails to something larger, start over; for one mailbox compare,
upload and apply, or fetch everything and merge.  Hard: writers that hold the
renamed file, reprocessing after a kill, one result for several commands,
changes on both sides during a comparison, answers that are lost.  Correct if no
event that was logged is forgotten, both sides converge, and no message is lost,
doubled or given another's UID on the way.

**mailbox and index** (`imap/mailbox.c`, `imap/index.c`, `imap/append.c`).
State: header, index, cache and message files of a mailbox, with UID and modseq
counters, `deletedmodseq` and a generation; in each session a map from message
numbers to records, with what the client was last told.  Operations: append,
rewrite, expunge, unlink, repack; select, refresh, fetch, store, expunge, copy,
move, and the untagged responses.  Hard: a session reads without the index lock
and may learn of changes only when it locks again, and may tell expunges only
in some commands; repack moves records; in the immediate modes files disappear
at once.  Correct if message numbers mean the same to both sides, nothing is
rewritten under a reader, and every change is told, at once or to a client that
resumes.

**Mailbox list and murder** (`imap/mboxlist.c`, `imap/mupdate.c`).  State: the
database of mailboxes, on several servers in a murder.  Hard: create, delete and
rename change the database, the directories and the mupdate master in separate
steps.  Correct if a crash leaves no half-created or doubly active mailbox.

**Quota, conversations, annotations, seen, statuscache**: counters and values
that follow the index; correct if they can be recomputed from it.

**Front ends** (`imapd`, `pop3d`, `nntpd`, `lmtpd`, `httpd` with DAV and JMAP,
`timsieved`, `sieve`), **search**, **backup**, **idled**, **notifyd**,
**ptclient**, **cyr_expire**: protocol handling and batch work on top of the
above.  `PROJECT.json` lists every component with the reason when it is not
modelled.

## The models

### TwoSkipFile: the write order

An offset is the number of a record; 1 is the DUMMY and 0 the null pointer.
Byte lengths are left out, because the code only compares offsets with each
other and with `current_size` (`Padding` looks at bytes).  Everything in the
file has two sides: what a process reads through the mapping (`cache`, `size`,
`hcache`), and the *set of versions* that a power loss may leave (`disk`,
`sdisk`, `hdisk`), which a write enlarges and a sync shrinks to what the mapping
shows.  `PowerLoss` picks for each record, for the size and for the header one
version, independently: pages are written back in any order.  A record head is
one such location because `add_padding` keeps it in one disk block, and the
header because it is 64 bytes at the start of the file.

The actions are the writes that the engine performs: dirty the header and sync
it (`append_record`), append records and re-link others (`write_record`,
`rewrite_record` in `stitch`), append the COMMIT record and sync (`mycommit`),
write and sync the header with the new `current_size`, the repairs of
`recovery1`, its truncation, sync and clean header, and the replacement by a
checkpoint.  `getloc` and `slot` are the two pointers of level zero, the heart
of the design.  `face` is a history variable: for each `current_size` that a
header on the disk may have, what every record looked like when it was
committed.

### TwoSkip: processes

| Source | Action or operator |
| --- | --- |
| `relocate`, `find_loc`, `advance_loc` | operators of the same names |
| `newtxn`, `write_lock`, `read_lock` | `Begin`, `BeginShared`, `ReadRecover` |
| `myfetch`, `fetchnext`, `myforeach` | actions of the same names, `foreachInTxn` |
| `mystore`, `skipwrite`, `store_here`, `delete_here` | `store`, `delete`, `store_here`, `delete_here` |
| `append_record`, `stitch` | `WriteDirty`, `SyncDirtyHeader`, `append_record`, `stitch` (one step for each rewrite) |
| `mycommit` | `CommitUnchanged`, `CommitRecord`, `SyncCommit`, `WritePublish`, `SyncPublish`, `Finish` |
| `mycheckpoint` | `Checkpoint`, `CheckpointFails`, `CheckpointCannotOpen` |
| `myabort` | `abort`, `giveUp`, `myabort`; after an I/O error `IoFail` |
| `recovery1` | `RecoverCheck` ... `RecoverDone`, one step for each rewrite |
| a kill, a failed assert | `Die` |
| a power loss | `Power` |

The write lock has one holder, so what its code keeps in memory is one copy;
only the cached location `loc` and the position of a foreach `iter` outlive a
lock and exist for each process.  A write is split at every system call that a
crash could separate.  A lookup is one step because its lock is held throughout.
`randlvl` is a choice of any level.  Loops that only read are walks: `Walk` iterates
a step, `Chain` follows level zero from the DUMMY, `Live` is the set of what it
passes, and `search` is so many turns of the loop of `relocate` that it must have
ended; a list that ran in a circle would give a `Chain` that never reaches 0, and
violate `Consistent`.  `work` and `acked` are history variables:
what the open transaction should contain and what the last completed commit
promised.

`FileSpec` of `TwoSkipFile` is a property of `TwoSkip` (same variables): every
step of every process is a step of the file layer, so what is proved about the
file layer holds for the engine.  `StoreSpec` is `TxnStore` under the refinement
mapping `view <- View`, the contents found along level zero under the current
header, and `dur <-` the contents under each header that may be on the disk.

### TxnStore: the promise

One writer at a time; its changes become visible in one step, and are durable
when its commit returns; a writer that aborts or dies leaves no trace.

### DbFile: which file is the database

The name denotes an inode; a process has one open; locks are on inodes.  The
loop of `mappedfile_readlock` and `lock_reopen_ex` is three steps: `Lock` (wait
for the lock on what is open), `Check` (compare inodes), `Reopen` (`dup2` drops
the lock).  `opendb` takes a read lock, asks for a write lock if the file is
empty (or needs a recovery), and creates the database by two writes.
`mycheckpoint` is `Copy`, `Rename`, `Switch`.  A file's contents are the number
of commits in it: what happens inside a commit is `TwoSkip`'s subject, and
conversely `TwoSkip` takes a checkpoint as one step and one lock per file from
here.

### Padding

Offsets in words of 8 bytes.  `Wraps` is the condition of the loop in
`add_padding` with its two remainders.

### Master: processes, signals and messages

One service, its workers, and master's loop.  The two sides share a pipe with
status messages (`pipe`), the queue of the listening socket (`clients`), and
signals.  `child` is the truth about the processes; `entry` (the child table) and
`svc` (the entry of `Services`) are what master believes.

| Source | Action or operator |
| --- | --- |
| `service.c`: start, accept loop | `Start`, `Accept`, `Deny`, `TellUnavailable`, `TellConnection`, `Serve`, `Leave` |
| reuse timeout, new executable, `max_use` | `IdleExit` |
| errors and kills | `Crash` |
| top of the loop, `begin_shutdown` | `Top` |
| `spawn_schedule` | `spawn_schedule`, `EventDone` |
| `reap_child` | `Reap`, `reap_child` (one round of its loop), `ReapEnd`, `account`, `readyFail` |
| undermanned services, removal, exit | `Man`, `Spawn`, `spawn_service` |
| `reread_conf`, `add_service`, `service_create` | `reread_conf`, `recycle`, `add_service`, `service_create` |
| `myselect` and its retry | `SelectReady`, `SelectTimeout`, `SelectSignal` |
| `read_msg`, `process_msg` | `ReadMsg`, `process_msg`, `after` |
| somebody wants to talk to us | `Talk` |
| `child_janitor` | `child_janitor`, `expired` |

Every test and every fork of the loop is a step of its own, because workers run
in between.  SIGCHLD, SIGQUIT, SIGTERM and SIGINT wait in `pend` until pselect
delivers them, as `sighandler_setup` blocks them; SIGHUP is not blocked.  As on
Linux, pselect returns what is readable without delivering what is pending.
`gen` tells the sockets and pipes of a service that was created again from those
that its old workers still have.  Times are choices: the janitor frees any subset
of the dead entries, failures are or are not within ten seconds, a fork may be
refused for its rate.  In the build that is modelled `MESSAGE_MASTER_ON_EXIT` is 0
(its default), so a worker says nothing when it ends.

### SyncLog and EventQueue: the replication log

The names `log` and `log-run` denote inodes (variables `log` and `work`); locks
and contents belong to inodes, and an inode that nothing uses is used again.

| Source | Action |
| --- | --- |
| `sync_log`, `sync_log_channel` | `Log` |
| `sync_log_base` | `Open`, `Lock`, `Check`, `GiveUp`, `Write` (one step for each system call that another process can come between) |
| its error returns, a kill of the writer | `Abandon` |
| `sync_log_reader_begin` | `Reprocess`, `Rename`, `OpenWork`, `LockWork` |
| `sync_log_reader_getitem` up to the end | `Read` |
| `sync_log_reader_end` | `End` |
| an error or a kill of the reader | `Restart` |

A line is the set of items that it stands for.  `EventQueue` is the promise:
items are put in, the reader takes all there are and either finishes them or puts
them back.  `QueueSpec` maps the queue to what is in the two files and is not
being worked on.

### SyncClient: rolling replication

Extends `SyncLog` with the two sides of it.  On the master, processes change
mailboxes, metadata, quotas, server annotations and users and then log what they
changed (`ChangeMailbox`, `MoveMessages`, `DeleteMailbox`, `ChangeMeta`,
`ChangeQuota`, `ChangeAnnotation`, `DeleteUser`): the contents of the two servers
are the set `stale` of objects in which they differ.  Two history variables
remember some of these: `unlogged` those whose writer did not manage to log them,
`lapsed` those whose update failed and counted as done.  The client is
`do_daemon_work` around `sync_do_reader`:

| Source | Action or operator |
| --- | --- |
| reading the items into lists, striking out redundant ones | `ReadLog`, `active` |
| `split_user_mailboxes`, `do_mailboxes`, RESTART | `Batch`: `BatchDone`, `BatchLocked`, `BatchFailed` |
| `if (r) goto cleanup` after the mailboxes | `BoxesDone`, `Bail` |
| the loops over the other lists, in their order | `Task`: `TaskDone`, `TaskLocked`, `TaskFailed`, `promoted` |
| `sync_do_user_seen` and `sync_do_seen`, which drop results | `TaskUnseen` |
| a failure of ANNOTATION "", which is passed over | `TaskIgnored` |
| `sync_do_user` of an entry without a user, into which a failed QUOTA is promoted | `nameless`, `NoUserDies` |
| `sync_log_channel_*` of what is locked | `defer`, a writer of the same log |
| `sync_log_reader_end`, failure, reconnect, kill | `Finish`, `Bail`, `Fail` |

The variable `r` is the local variable of that name, with its overwriting.  What a
command does when it works is `synced`: a mailbox or user that is not there is left
alone, UNMAILBOX and UNUSER leave alone what is there again.  `SeenFails` says
whether the seen database of the master may fail to open.

### Replica: one mailbox, two servers

Each side has a mailbox with records (GUID, flags, expunged, modseq,
last_updated) under UIDs.  The client never holds locks on both, so it is a
sequence of steps, each under one lock, and users, deliveries and `cyr_expire`
act on both sides in between.

| Source | Action or operator |
| --- | --- |
| `sync_do_mailboxes`: cache or GET MAILBOXES | `Lookup` |
| `update_mailbox_once`, `is_unchanged`, `sync_prepare_dlists` | `Refetch`, `Once`, `inefficient`, `prepared` |
| `sync_apply_mailbox`, `sync_mailbox_compare_update` | `changed`, `mismatch`, `conflict`, `written`, `applied`, `answer` |
| `sync_do_update_mailbox`: what a result leads to | `Apply` |
| `mailbox_full_update` | `Full`, `Merge`, `merge`, `ApplyExpunge`, `return` |
| `mailbox_update_loop`, `compare_one_record`, `copyback_one_record`, `renumber_one_record`, `copy_local`, `copy_remote` | operators of the same names |
| one turn of that loop; one turn of the loop over the noted actions | `update_one`, `do_kaction` |
| `sync_cache`, `sync_uncache` | `store`, `uncache` |
| kills, lost connections and answers, refused commands | `Fail`, `ApplyUnanswered`, `ExpungeUnanswered`, `ExpungeRefused` |
| `goto done` and `goto cleanup` out of the two passes of the loop | `LoopFails`: the turns before it are in the mailbox, what they noted is not done |
| `goto cleanup` out of the annotations and the loop over the noted actions | `ActionFails`, `failing`: the actions before it are done, maybe half of its own, and the UIDs they are about are still expunged on the replica |

The clock of each side may show any of a set of times, so clocks may be wrong.
A sync CRC is perfect: it is the set of live records.  Each message is delivered
on one side only.

### Index: sessions and what their clients know

The mailbox is `mbox` (header and records) and `files`.  A session has its
`index_state` (map, `oldexists`, `highestmodseq`, `oldhighestmodseq`,
`delayed_modseq`, generation) and, as `view` and `modseq`, what its client has
been told.  What happens under one lock of the index is one step.

| Source | Action or operator |
| --- | --- |
| `mailbox_append_index_record`, `mailbox_rewrite_index_record` | `append`, `written`, `rewrite` |
| `mailbox_close`, `mailbox_index_unlink`, `mailbox_index_repack` | `Cleanup`, `gone`, `repack` |
| `cyr_expire`, `mailbox_expunge_cleanup` | `Expire`, `expunge_cleanup` |
| `index_refresh_locked`, `index_lock`, `index_unlock` | operators of the same names, with `missing`, `found`, `update`, `fresh`, `lower` |
| `index_tellexpunge`, `index_tellexists`, `index_tellchanges`, `index_check` | operators of the same names |
| SELECT, with or without QRESYNC (`index_vanished`) | `Select`, `Resume` |
| NOOP and `imapd_check`; STATUS, SEARCH, SORT | `Check`; `CheckQuiet`, `Refresh` |
| FETCH (`_fetch_setseen`, then `index_fetchresponses`) | `Fetch`, `Respond` |
| STORE, EXPUNGE, of any set of messages | `Store`, `Expunge` |
| the loops of FETCH, STORE and EXPUNGE over the messages, under one lock | `setflags`, `expunge_one`, `index_expunge` |
| the assertion on `recno`: the process ends and what it has rewritten stays | `missed` in `Fetch` |
| COPY and MOVE | `Copy`, `Copied`, `Move`, `CheckAfter` |
| sessions of others | `Other` |
| CLOSE, and the end of a session with `autoexpunge` | the expunge is one of `Other`, then `Logout`: nothing of it is told |

A cleanup needs the name lock for itself; a session that reads outside the index
lock holds it too (`reading`), as may somebody else, so a cleanup may always
fail.  `misled` and `late` are history variables that mark clients to which the
code does not keep its promise (see Findings).  The loops over records and map
entries are recursive functions over positions (`pick`, `delayed`,
`index_tellexpunge`, `setflags`, `index_expunge`), one entry at a time in the order
of the code.  Each message that a command rewrites counts as a change of the
bound `MaxOps`.

## The runs

| Run | Bounds | What it shows |
| --- | --- | --- |
| `crash` | one process, 3 keys, 2 levels, 7 records, one value, kills, power losses and I/O errors without limit | after any sequence of them the committed list is intact (`CrashSafe`), clean headers are truthful (`CleanSound`), pointers of all levels are linked (`Consistent`), a transaction reads its writes, acknowledged commits stay (`Durable`), `recovery1` succeeds also on files with committed DELETE records (`RecoverySucceeds`), and each step is one of the file layer (`FileSpec`) |
| `txn` | one process, 2 keys, 2 values, 5 records, checkpoints, all faults | the engine implements `TxnStore`, and every operation returns |
| `share` | two processes that write, one of which also reads and iterates, 2 keys, 6 records, checkpoints | cached locations never mislead a lookup; foreach skips and repeats nothing |
| `dbfile` | three processes, 3 files, 3 commits, kills anywhere | locks are on the current file, one writer, no lost commit, one creation |
| `padding` | the real block size (64 words) and levels (31), two blocks of offsets | heads in one block; the loop ends |
| `work` | 3 pids, TCP, `maxchild` 1, `prefork` 2, 2 clients, 1 crash that disables the service, 2 SIGHUPs, forks that fail | `nactive` is the number of the service's processes (`ActiveCount`), `ready_workers` that of the READY entries until the service is created anew (`ReadyCount`), after all messages are read master's picture of each worker is right (`TrueView`), an entry of `Services` is given up when its last process was reaped (`SlotFree`), several workers are forked after one check of `maxchild`, and it is exceeded by less than `prefork` (`WorkersBounded`) |
| `serve` | 2 pids, `maxchild` 1, `prefork` 0, 2 clients, 1 crash, 1 idle exit, 1 event | a waiting client is served, a shutdown ends, and master ends after its workers |
| `hang` | 2 pids, `maxchild` 2, 2 clients | violated: see Findings |
| `replicate` | one writer and the client, 3 users with 4 mailboxes, 2 inodes, 2 attempts to lock, 2 changes, 2 faults | nobody appends to a file that is being read (`NoLateWrite`); when nothing is left to do the servers agree but for what could not be logged and for what the code passes over (`InSync`); what was logged reaches the replica, with the same exceptions (`Replicated`); the log is a queue (`QueueSpec`) |
| `splitbrain` | 2 messages, 2 flags, 4 changes on either side, 1 fault, a cache, a replica whose clock is behind or ahead | no message is lost (`NoMessageLost`) or doubled (`NoDuplicate`), no UID changes its meaning or comes back to life (`UidStable`), the replica always has the files that it is told to use (`FilesSent`), both sides become equal (`Converges`) |
| `mailbox` | one session and its client, others that deliver, change, expunge and expire, 1 message at first, 4 UIDs, 3 changes, all three expunge modes | message numbers agree (`InStep`), the map is complete (`MapComplete`), nothing moves under a reader (`NobodyRewrites`), all changes are told (`Told`), also to a client that resumes (`Resumed`); the last two and the first with the exceptions below |
| `gone` | as `mailbox`, 2 messages at first | violated: see Findings |

`TypeOK` of each module states the types of its variables; it is checked in
`splitbrain` and proved as a part of `FileInv` and `DbFileInv` and as `LogTypes`,
`MasterTypes`, `ReplicaTypes` and `IndexTypes`; for `TwoSkip` and `SyncClient` the types are
parts of the inductive invariants of the proofs (`ProcTypes`, `ClientInv`).

Why the bounds are enough.  Two levels are the smallest list with an upper level
(level zero has two pointers and no upper pointer of its own); three keys give a
record before, at and after the one that changes.  Seven records let a
transaction of two changes and its commit follow an earlier transaction of two
stores, so that pointers of two transactions compete for the two slots, a second
transaction follow an aborted one, and a transaction begin to write after one
that has committed a DELETE record.  Offsets are never reused within a
file except after a truncation, which happens in `crash` and `txn`.
Two processes suffice for locations: a location belongs to one process, and the
others only matter as the one that changes the file.  `Padding` repeats with the
block size: two blocks cover every alignment.  `MaxGen` bounds checkpoints (a
database beyond it behaves as one opened with NOCOMPACT), `Reads` and `Faults`
switch parts of the model off that a run does not ask about.  Processes and
values are symmetric; keys are not, they are ordered.

For `Master`, a worker is born, lives and dies by itself and master treats its
children alike, so what can go wrong concerns one child, or one child and the
count of the others: three pids are a worker that dies, the one that replaces it
and a third, such as the worker of an earlier socket.  The excess over `maxchild` needs
a turn that forks more than one worker and a service at its limit, so `work` has
`prefork` 2 and `maxchild` 1 (the code does not ask `prefork` to be less): two workers
are the excess, a third would violate `WorkersBounded`.  Pids are reused, so
behaviours are as long as the bounds on crashes and clients allow.  One service
suffices because master keeps separate counters, sockets and pipes for each.

For `SyncLog`, what a writer can do wrong depends on the reader and on the inode
that it holds: one writer besides the client, which is the second.  An inode has one
of three roles (the log, the work file, and one that is unlinked while it is open),
two of them at a time in the run; what the run checks but `Replicated` is proved for any
number of writers and inodes.  `MCSyncClient` has a
line of each kind that is promoted or struck out, for a user with a mailbox, a
user with two, and a user that is deleted; two changes and two faults let a
change follow the rename or fall into a batch that is deferred, promoted or
begun again, and an update fail both as SEEN and as META.  For `Replica`, conflicts are about one UID or one message: with two
messages both sides can give the same UID to different messages, and with four
changes a message can be delivered, seen, expunged and expired on either side.
In `Index` the other sessions are one nondeterministic actor (`Other`), so one
session with a client suffices: nothing that a session keeps depends on another's
state.  With one message at first and three changes a second can be delivered and
one command can change or expunge both.  Three changes and the cleanups between
them reach every combination of expunged, unlinked and repacked for a message that
the client knows and one that it does not.

Deadlock is checked in all runs except those of `Master` with a shutdown, where
master ends, and those of `SyncClient`, `Replica` and `Index`, where the bounds on
changes end what users do.

**Fairness.**  `FairSpec` of `TwoSkip` has weak fairness of `Step(p)` only, the
steps inside an operation: straight-line code and loops that hold their lock and
wait for nobody.  No fairness is assumed of users, of locks or of crashes.
`Padding` has weak fairness of its loop.  `FairSpec` of `Master` has weak fairness
of master's loop and of each worker's steps: both are processes that the
scheduler runs.  The end of a client's session is a worker's step (`Serve`), so it
is assumed that clients do not stay for ever, which the inactivity timeouts of the
protocols ensure.  There is no fairness of clients, signals, crashes, idle exits
or events.  `serve` has no failing forks: whether fork succeeds
is not up to master.  `FairSpec` of `SyncClient` has weak fairness of the steps of
writers that are under way and of the client, which master starts again; none of
users, faults and kills, which are bounded: the property is about what happens
when locks and the replica are there again.  `FairSpec` of `Replica` has weak fairness
of the client's steps: `sync_client` tries a mailbox again as long as it is logged,
and `Converges` is about a client that does.

**Mutants.**  Each property of a passing run is violated by a mutant of the code
it is about: a definition with a comment "With a bug" just before the definition
it replaces, such as a skipped sync, a level too few in `stitch`, or a lock that is
not checked against the name.

## What is proved

TLAPS proves the following for every value of the constants.

*The file layer* (`TwoSkipFileProofs`).  `FileCrashSafe` and `FileCleanSound`
rest on the inductive invariant `FileInv`.  `CrashSafe` alone is not inductive.
It needs that one of the two level zero pointers of every version of every
record is a committed one (`OldPointers`), that records are only written while
all headers on the disk agree on `current_size` (`SameSize`), that no power loss
leaves a file shorter than its header says (`Sized`), that what the mapping shows
may reach the disk and nothing lies past the end (`Kept`), and what each phase of
the write order has already synced (`Ordered`).  `CleanSound` is needed for
`CrashSafe`, since a header that says clean is the one case in which nobody
repairs the file.  The lemmas `RestitchKeepsFace` and `ZeroKeepsFace` are the
algorithmic core: moving the uncommitted pointer, in a transaction or in a
recovery, is invisible under the committed size.  The proof has one lemma for
each kind of write (`CommitStep`, `PwriteStep`, `AppendStep`, `HeaderStep`,
`PublishStep`, `TruncateStep`, `PowerStep`) and one step for each action.
Assumption: `FileAssumption` (keys are positive numbers, there is a level and an
offset).

*The process layer of twoskip* (`TwoSkipProofs`).  `RecoveryAlwaysSucceeds`,
`AlwaysConsistent`, `OwnWritesRead`, `LocationsSound`, `ForeachDelivers`, the refinements
`ImplementsFile` and `ImplementsStore`, and what they carry over: `DiskCrashSafe`,
`DiskCleanSound`, and `CommitsDurable` from `StoreDurable` (which is inductive in the
abstract store as it stands).  They hold for any processes, keys, values, levels, file
sizes, generations and faults.  None of the properties is inductive: a crash, a stitch
that is half done or a location that another process cached long ago make each
depend on what the others do not say.  The inductive invariant `SkipInv` is `FileInv`
of the file layer with

* `ProcTypes`, `Phases`: the types, and which step of the writer goes with which
  phase of the file;
* `FileMore`: what every header that may be on the disk stands for is a list in
  key order (`Lists`) whose last place is a COMMIT record or the DUMMY (`Ended`), which is
  what makes the end of the file tell two commits apart; a DELETE record points
  back with its first pointer only (`Deletes`); and unless the header on the disk is
  dirty the file is whole on all levels (`Tidy`);
* `Whole`, `Working`: the list is whole on all levels whenever the writer is not inside
  `stitch` or a recovery, and is what the transaction should contain, with the right
  count;
* `Prepared`, `Stitching`: the location a write begins with is right and new; and while
  `stitch` runs the levels below `op.lvl` lead to the new record, or past the deleted one,
  and the others still to the old list (`Fits`, `Sewn`);
* `Walking`: what `recovery1` has passed is the committed list on all levels, and `prev` is
  the last record of each level that it has passed (`Walked`); what lies ahead may still
  be anything that a crash leaves;
* `Locs`: a cached location of the current generation is not newer than the file, and
  right if it is as new; for the writer this is about its transaction, for everybody
  else about the committed file.

The module treats the operators first: walks (`ChainList`: a list in key order is
exactly what `Chain` visits), the search (`SearchTurn`, `SearchEnds`, `Relocated`), cached locations
(`Found`, `Advanced`), stitching (`SewStep`, `SewnFull`), the steps of `recovery1` (`WalkStart` ...
`WalkEnd`, `Cut`) and the copy of a checkpoint (`CompactedFull`).  Then there is one lemma for
each action, and each shows three things of the action: it keeps `SkipInv`, it is a step
of the store or none (`Storing`), and it is a step of the file or none (`Filing`).
Assumptions: `FileAssumption` and `TwoSkipAssumption` (nobody is not a process, no transaction is
not a contents, the first transaction fits into the file).  There is one hypothesis,
`OneGeneration`: no checkpoint finds the database empty, unless the bound allows no checkpoint
at all.  It cannot be dropped: the copy of an empty database keeps
generation 1, and then `LocationSound` is false (finding 3 below).  The code makes
such copies, so none of these theorems, `LocationsSound` and `ForeachDelivers` least of
all, says anything of a database that is emptied and then checkpointed.

*The lock protocol* (`DbFileProofs`).  `LocksAreCurrent`, `WritersAreAlone`,
`CommitsAreKept`, `DatabaseIsCreatedOnce`, from `DbFileInv`, for any number of
processes, files and commits.  `HolderHasDatabase` is kept by a rename because
only the holder of the write lock on the current file renames (`Exclusive`,
`Progress`), and everybody else who is inside would have to hold a lock on the
same file.  `NoCommitLost` needs `CopyComplete`: between the copy and the rename
nobody commits.  Assumption: the bounds are numbers.

*The replication log* (`SyncClientProofs`).  `LogTypes`, `LateWriteExcluded` and
`LogIsQueue`, for any number of writers, items, inodes and retries.
`NoLateWrite` is inductive together with `WorkFile`: the reader works on the work
file, which is not the log, so that a writer that has passed its check either has
the log or had its lock over the rename, and then the reader waits for it in
`LockWork`.  The refinement maps each step to `Put`, `Take`, `Done`, `Return` or a
stutter; `WorkFile` says that what the reader has read is all that is in the
file when it is unlinked.  Assumption: `SyncLogAssumption` (`NoFile` is no inode).

*Rolling replication* (`SyncClientProofs`).  `ClientUsesLog` says that `SyncClient` takes
only steps of `SyncLog`, so that the above holds there.  `NothingForgotten` is `InSync`,
for any users, mailboxes, writers and numbers of faults.  The inductive invariant
`ClientInv` says twice that every object that differs is covered by an item:
by one that is still in a file or in a writer's hand (`Covered(pending)`), which is what
a kill of the client leaves, and while a pass runs also by one that the pass has
not worked off yet or that was logged after it read the log (`Covered(ahead)`), which is
what is left when the pass succeeds and unlinks the work file.  The first alone
is not inductive, since the unlink removes items; the second alone is not, since a
kill removes the lists of the pass.  An item may be struck out, deferred, or
promoted to a larger one only where the rest covers what it covered: for that
UNUSER must mean that the user is gone (`Gone`), and a user who is there has an inbox
(`Whole`).  What the code passes over is in neither account: `lapsed` is split off, and
the invariant keeps it within `Passed`, so that mailboxes, subscriptions and scripts are
never among it.  Two hypotheses are needed, and the findings 6 and 7 below show that without
either of them `InSync` is false: every mailbox has an owner (`Owned`), and users are
deleted as a whole and for good (`Lasting`).  Assumptions: `SyncClientAssumption` (nobody is
not a user, an inbox belongs to its user) and `ItemAssumption` (the items of an
instance are closed under deferral and promotion).

*Padding* (`PaddingProofs`).  `HeadsInOneBlock`, for every block size into which
the largest head fits, at every offset; `SameBlock` is the arithmetic.

*Master* (`MasterProofs`).  `MasterTypes`, `ActiveCounted`, `ReadyCounted`,
`ViewTrue`, `SlotsFree`, `MaxChild` and `NobodyLeft`, for any number of processes,
connections, crashes, SIGHUPs and events, and any `maxchild` and `prefork`.  The
inductive invariant is `MasterInv`.  That `nactive` is a cardinality (`Counts`)
survives a step only if master's table and the processes fit together (`Tables`):
a pid that is given to a new process has no live entry, and a message never comes
from the process of an event.  `TrueView` speaks of an empty pipe; it becomes
inductive as `View`, which says that the last unread message of a worker tells
where it is, and without one its entry does.  `Loop` keeps what was tested before
the forks of one turn until the last of them, which is where the excess over
`maxchild` comes from.  Cardinalities change by one with one entry, which the lemmas
state once for every pair of sets that differ in one pid.  Assumption:
`MasterAssumption` (the bounds are numbers, pids are finitely many, `maxchild` is
positive).  `ready_workers` is shown not to be negative for the first socket only; it
does become negative later (finding 5).

*Replication of a mailbox* (`ReplicaProofs`).  `ReplicaTypes`, `NothingLost`,
`MessagesSent`, `NothingTwice` and `UidsStable`, for any messages, flags, clocks, and
numbers of changes and faults.  The invariant `ReplicaInv` has three parts.  `Types`
says that what the client remembers is the past of the replica, by `Grows`, which
every step of both mailboxes refines; `FilesSent` and `UidStable` follow.  `Loss`: what
is expunged somewhere, in a mailbox or in something the client holds, is wanted by
nobody or is on the master under another UID that it can never go back to
(`Burnt`), since UIDs only grow.  `Single`: without a fault a message has one UID on
both sides, except for what the pending APPLY EXPUNGE will remove.  The merge is
two loops that change the master while they compare it with an old picture of the
replica; `LoopInv` and `DoneInv` are their invariants, and `update_one` and
`do_kaction` the turns that keep them.  They hold after any number of turns, which is
what a merge that fails in the middle leaves: the UIDs that are then expunged on the
replica are those whose messages were already copied.  Assumption: `ReplicaAssumption` (GUIDs are
numbers, there is a flag).

*Mailbox and sessions* (`IndexProofs`).  `IndexTypes`, `NumbersAgree`, `MapsComplete`,
`ReadersKeep`, `ChangesTold` and `ResumesWhole`, for any number of sessions, messages,
flags and changes, in every expunge mode.  The invariant `IndexInv` relates a
session to a mailbox that has gone on without it, by the modseq n up to which it
has seen it:

* `Box`: records are in the order of their UIDs, and which of them are expunged,
  unlinked and have a file depends on the expunge mode.
* `IsEntry`, `Complete`: an entry is as its record was, unless the record has a
  modseq above n; an entry without a record is known to be expunged, or
  `deletedmodseq` is above n.  This is what makes a refresh by modseq sound.
* `InView`, with its clause about `oldhighestmodseq`: what the short cut of
  `index_tellchanges` skips are only expunged messages.
* `Clean`, `Reading`: what is found under the lock is not unlinked, so a cleanup that
  waits for the readers takes nothing from them.
* `Has`, `Covered`, `Resumable`: what a client relies on that resumes.  `Has` is not kept
  between the two steps of a FETCH, nor `Clean` between the expunge of a MOVE and its
  last check, so both depend on where the session is.

`Evolves` says how a mailbox may change; append, rewrite, expiry, unlink and repack
are instances (`AppendBox` ... `RepackBox`), and `SessEvolves` shows once that every
session that does not step keeps its invariant.  For the session that does step
there is one lemma for each call (`Lock`, `TellExpunge`, `CoreExists`, `CorePrinted`,
`RewroteCore`, `Resynced`) and one for each command (`SelectStep` ... `MoveStep`).  The
commands that rewrite several messages are loops; `Turning` is what holds after each of
their turns, `Turn` shows that a turn keeps it, `Loop` that it then holds at the end, and
`SetFlags` and `Expunges` apply this to the two loops.  `NumbersAgree` and `ChangesTold`
are about clients that are not misled, `ResumesWhole` about those that are neither misled
nor late; for the others the code does not keep what they say (see Findings).
Assumption: `IndexAssumption` (modes and bounds; the initial flags and \Seen are
flags).

Induction over data.  What a loop computes is proved without an induction rule for
operators: the set of the positions at which the loop's invariant holds has zero and
is closed under successor, so by `NatSet` (from the minimum of a nonempty set of
numbers) it is all of them.  The loops are recursive functions for this reason.

Only model-checked: liveness (`OperationsReturn`, `PaddingEnds`, `Served`,
`ShutdownEnds`, `Replicated`, `Converges`), because the prover handles neither fairness
nor ENABLED.

## Findings

With a run of their own:

1. A client that waits during a shutdown keeps pselect from delivering SIGCHLD,
   and master never ends, if the service has room for another worker (`hang`).
   The run `serve`, with `maxchild` 1 so that master does not look at the socket
   while a worker is left, meets no other obstacle.
2. A FETCH that sets \Seen of a message whose record another process has removed
   rewrites record number 0, and the assertion in `mailbox_rewrite_index_record`
   ends the session (`gone`).  STORE and EXPUNGE pass over such entries,
   `_fetch_setseen` does not.

Seen by changing a constant of a run; the runs keep away from them, as said:

3. A checkpoint of a database without records keeps generation 1: `mycommit`
   returns early because the copy is not dirty, so the header with the incremented
   generation is never written.  A process that cached a location in generation 1
   at the same size takes it for valid (`share` with `CompactEmpty = TRUE`).
4. A process killed between the two writes of the creation leaves a file that
   nobody can open and nobody creates again (state `headless` of `DbFile`).
5. A service that is enabled again forgets its old ready workers; the count
   becomes negative, and while it is master does not listen for clients
   (`work` without the condition `gen = 1` in `ReadyCount`).
6. The cohorts of `split_user_mailboxes` share one result: the failure of
   mailboxes without an owner is overwritten by the next cohort, the work file
   is unlinked, and the change is not replicated until the mailbox is logged
   again (`replicate` with a mailbox of `NoUser`).
7. UNUSER strikes out everything else that the batch has for the user.  If the
   user was created again in the same batch, `do_unuser` finds the inbox and does
   nothing, and the new user's metadata is not replicated (`replicate` with a
   mailbox change of the user that is deleted).
8. `mailbox_full_update` puts the outer list of the answer into the cache, which the
   next lookup cannot parse.  For a mailbox with an owner the promotion to USER
   hides this; without one the mailbox fails until the cache is removed
   (`splitbrain` with `Owned = FALSE` violates `Converges`).

Seen by leaving out the exception `lapsed` of `InSync`:

9. `sync_do_user_seen` drops the result of each update and returns 0.  A seen state
   whose update fails as SEEN is promoted to META, and if it fails there again this
   counts as done: the work file is unlinked and the replica keeps the old state
   until the user's seen state changes again or the whole user is replicated.  With
   `SeenFails = FALSE` the shortest case is these two failures; with TRUE one suffices,
   a seen database that cannot be opened.
10. A failed QUOTA is promoted with its quota root where the list has the name of a
    mailbox and no user.  `sync_do_user` asks the replica for USER NIL; if that is
    answered, it opens a mailbox without a name and the process dies, and the next
    one begins the same work file again (`NoUserDies`).  If that entry is locked, it
    is deferred as USER "", and the change of the quota is forgotten.
11. A failure or a lock of ANNOTATION "" is passed over; if a later command of the batch
    works, its result replaces the failure, and the annotation is forgotten.

Exceptions that the properties name, because the code has them:

* `dropped` in `NoMessageLost`: a message that only the replica has, with a UID
  that the master has passed and a modseq below the master's `deletedmodseq`, is
  taken for one that the master has cleaned up, and expunged.
* `misled` in `Converges`: a cache entry that equals the master hides changes of
  the replica until the master changes.
* `faults = 0` in `NoDuplicate`: a client that fails between copying a message and
  expunging its old UID leaves it twice.
* `misled` in `InStep`, `Told` and `Resumed`: STATUS, SEARCH, SORT and the expunge of MOVE refresh the
  map without telling; the next refresh sets `oldexists` to a number that was never
  told, new messages are not announced, and an EXPUNGE may have a number that
  the client does not know.  A refresh for a repack alone also makes flags wait
  that a quiet refresh has found.  A HIGHESTMODSEQ that the client is given after a
  quiet refresh covers what that found and did not tell, so a client that resumes
  from it may miss a change; the exception of `Resumed` ends with the next SELECT
  without QRESYNC.
* `late` in `Resumed`: `delayed_modseq` is lowered for a smaller modseq only (`<` where
  `<=` is needed), so of two expunges with adjacent modseqs that wait to be told
  one is covered by the HIGHESTMODSEQ that enabling CONDSTORE sends, and a client
  that resumes from it never learns of that one.
* `unlogged` in `InSync`: a writer that is killed before it logs, or that gives up. It
  gives up one attempt early: a lock that is got at the last permitted attempt
  counts as a failure.
* `lapsed` in `InSync` and `Replicated`, for seen states, quotas and server
  annotations only (`Passed`): what the findings 9 to 11 forget.

Smaller things that the models have as the code has them: `mycheckpoint` returns
with the lock held when it cannot open the `.NEW` file; `maxchild` is checked once
before several forks, so it can be exceeded (`WorkersBounded` says by how much); a
service that was disabled "until next SIGHUP" stays disabled if old workers still
have its port; master does not wait for the processes of events.

## What is left out

* `Master`: daemons, UDP services, the second address family of a service,
  `service-thread.c`, `nconnections` and the statistics file.  The babysitter's
  branch cannot be reached (babysit implies prefork, and a service with prefork
  and no children is undermanned).  A pid is not reused while messages of the dead
  worker are unread.
* `recovery2` and `_copy_commit`, which salvage a file that `recovery1` cannot
  repair; no crash leads there (`RecoveryAlwaysSucceeds`).
* I/O errors inside `recovery1`, at the write of the new header and later (the
  process then stops at the assert in `mappedfile_unlock`, a kill for everyone
  else), and torn appends: an append reaches the file whole or not at all.  A
  torn one lies past `current_size` and is truncated like a whole one.
* The failure of the directory sync after a rename, and the durability of the
  rename: a checkpoint is durable in one step.
* foreach with a prefix or a filter, and its release of the lock every 256
  misses, which is one more place for what happens at every callback.
* The list of open databases of one process and its reference counts; a second
  open of the same file by the same process.
* Between the header of a commit and its sync, the death of the writer leaves
  contents that others see and a power loss may still take back, even after a
  later transaction without changes has returned.  `Durable` speaks of commits
  that were acknowledged by their own sync.
* `SyncLog`: torn lines (a write that is cut short makes the next line unreadable
  too), two readers of one channel, which is a matter of configuration, and
  reading from a given file.
* `SyncClient`: RENAME items, the data behind an item, and the other modes of
  `sync_client`.  ANNOTATION of a mailbox, and with it its promotion, is left out
  because no server logs one (`annotate.c` logs "" and changes of a mailbox's own
  annotations are logged as MAILBOX); only `cyr_synclog` can.
* `Replica`: partial updates (`sync_batchsize`), annotations (but for the failure to
  merge them), ACLs, UIDVALIDITY, conversations, and CRC collisions; a kill in the
  middle of writing the index, which is a matter of the files under a crash.
* `Index`: STORE with UNCHANGEDSINCE or SILENT, seen state that is kept per user (for a
  user who does not own the mailbox \Seen changes the session only: nothing is
  rewritten, no modseq is assigned and nobody else is told, index.c:1319), \Recent,
  annotations, EXAMINE, sessions that show expunged messages, mailboxes that are deleted or created
  again.  A cleanup is one step; the files of a mailbox under a crash are in the plan.
* CRCs: a location is whole or absent, so a CRC never fails except on zeros.

## Plan

1. The files of a mailbox under crashes: the commit order of cache, index and
   header, unlink and repack by rename.
2. `recovery2` and `_copy_commit` against the log of committed transactions, with
   the DELETE record whose pointer names the next record, while
   `recovery2` takes it for the record that was deleted.
3. `Flat` as a second implementation of `TxnStore` on the lock protocol of
   `DbFile`; `quotalegacy` as a weaker one.
4. Mailbox list operations with the mupdate master; RENAME in `SyncClient`.
5. Two services that share the child table of master; `service-thread.c`.
