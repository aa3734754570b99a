------------------------------- MODULE TwoSkip -------------------------------
(***************************************************************************)
(* The twoskip database engine (lib/cyrusdb_twoskip.c) as processes use    *)
(* it: transactions, lookups through the cached location, iteration,       *)
(* commit, abort, recovery1 and checkpoint, with processes killed and the  *)
(* power lost between any two writes.                                      *)
(*                                                                         *)
(* The write lock has one holder, so what its code keeps in memory (pc,    *)
(* op, num, rv, ret) is one copy; only the location loc and the iteration  *)
(* iter outlive a lock.  A reader holds the lock over a whole lookup, so a *)
(* lookup is one step.  While a process has the lock, db->end is size + 1  *)
(* and the header in memory is hcache with num for its num_records.        *)
(***************************************************************************)
EXTENDS TwoSkipFile, FiniteSetsExt, FiniteSets, Sequences

CONSTANTS
  Proc,         \* the processes that have the database open
  NoProc,       \* nobody
  NoTxn,        \* no transaction
  MinRewrite,   \* MINREWRITE, in records
  Start,        \* the keys that the first transaction has stored
  MaxGen,       \* bound: the largest generation
  CompactEmpty, \* bound: whether a checkpoint may find the database empty
  Reads,        \* bound: the processes that look up keys and iterate
  Faults        \* bound: the faults that happen, of "power", "kill", "io"

ASSUME TwoSkipAssumption ==
  /\ NoProc \notin Proc
  /\ NoTxn \notin UNION {[ks -> Val] : ks \in SUBSET Key}
  /\ MinRewrite \in Nat /\ MaxGen \in Nat /\ CompactEmpty \in BOOLEAN
  /\ Start \subseteq Key /\ IsFiniteSet(Start)
  /\ Start # {} => Cardinality(Start) + 2 <= MaxOffset

VARIABLES
  owner,    \* the holder of the write lock
  readers,  \* the processes in a shared transaction (read lock held)
  pc,       \* the next step of the owner
  op,       \* the record being added and the progress of stitch
  num,      \* db->header.num_records of the owner
  rv,       \* the variables of recovery1
  ret,      \* where the owner goes on after recovery1
  loc,      \* db->loc of each process
  iter,     \* the last key of each process's foreach, 0 when none runs
  titer,    \* the last key of the owner's foreach inside its transaction
  work,     \* history: what the open transaction should contain
  acked     \* history: what the last completed commit promised

procVars == <<owner, readers, pc, op, num, rv, ret, loc, iter, titer, work, acked>>
vars == <<fileVars, procVars>>

Levels == 0..(MaxLevel - 1)
NoOffsets == [l \in Levels |-> 0]
NoLoc == [key |-> 0, exact |-> FALSE, at |-> 0, back |-> NoOffsets,
          fwd |-> NoOffsets, gen |-> 0, end |-> 0]
NoOp == [rec |-> Absent, max |-> 0, lvl |-> 0]
NoUppers == [i \in 2..MaxLevel |-> 0]
NoRv == [last |-> 0, cur |-> 0, prev |-> NoUppers, next |-> NoUppers, n |-> 0]

-----------------------------------------------------------------------------
(* Contents: what a walk of level zero finds.                               *)

skipdelete(c, o) ==
  IF o # 0 /\ c[o].type = "DELETE" THEN c[o].nextloc[0] ELSE o

\* The places of a walk of n steps from o.
Walk(step, o, n) ==
  LET place[i \in 0..n] == IF i = 0 THEN o ELSE step[place[i - 1]] IN place

\* The offset after o on level zero, a DELETE record skipped.
following(f, o) ==
  LET n == f[o].next
  IN IF n # 0 /\ f[n].type = "DELETE" THEN f[n].next ELSE n

\* The walk of level zero from the DUMMY; 0 where it has ended.
Chain(f) ==
  Walk([o \in Ptr |-> IF o = 0 THEN 0 ELSE following(f, o)], DUMMY_OFFSET, MaxOffset)

\* The records on level zero; a walk longer than the file would be a loop.
Live(f) == LET chain == Chain(f) IN {chain[n] : n \in Offset} \ {0}

\* The mapping from keys to values that a file with these faces stands for.
FaceContent(f) ==
  LET live == Live(f)
  IN [k \in {f[o].key : o \in live} |-> f[CHOOSE o \in live : f[o].key = k].val]

Content(c, end) == FaceContent(Faces(c, end))

\* What a process that takes the lock now finds.
View == Content(cache, hcache.current_size)

Put(m, k, v) == [x \in DOMAIN m \cup {k} |-> IF x = k THEN v ELSE m[x]]
Remove(m, k) == [x \in DOMAIN m \ {k} |-> m[x]]

-----------------------------------------------------------------------------
(* Locations.                                                               *)

keyat(o) == IF o = 0 THEN 0 ELSE cache[o].key
levelat(o) == IF o = 0 THEN 0 ELSE cache[o].level

\* The forward offsets of the record at o; levels above it keep theirs.
forward(c, o, fwd) ==
  [l \in Levels |-> IF l < c[o].level THEN getloc(c[o], l, size + 1) ELSE fwd[l]]

backward(o, back) == [l \in Levels |-> IF l < levelat(o) THEN o ELSE back[l]]

\* The variables of the search loop of relocate.
Search == [level: 0..MaxLevel, at: Offset, old: Ptr, new: Ptr, found: BOOLEAN,
           back: [Levels -> Ptr], fwd: [Levels -> Ptr]]

\* One turn of the loop: down one level, or along this one.
turn(k, s) ==
  LET level == s.level - 1
      offset == getloc(cache[s.at], level, size + 1)
      new == skipdelete(cache, offset)
      t == [s EXCEPT !.back[level] = s.at, !.fwd[level] = offset]
  IN IF s.level = 0 THEN s
     ELSE IF offset = s.old THEN [t EXCEPT !.level = level]
     ELSE IF new # 0 /\ keyat(new) < k
     THEN [t EXCEPT !.old = offset, !.at = new, !.new = new, !.found = FALSE]
     ELSE [t EXCEPT !.level = level, !.old = offset, !.new = new,
                    !.found = IF new = 0 THEN @ ELSE keyat(new) = k]

search(k) ==
  LET start == [level |-> MaxLevel, at |-> DUMMY_OFFSET, old |-> 0, new |-> 0,
                found |-> FALSE, back |-> NoOffsets, fwd |-> NoOffsets]
      turns == MaxLevel + MaxOffset
  IN Walk([s \in Search |-> turn(k, s)], start, turns)[turns]

relocate(k) ==
  LET s == search(k)
      l == [key |-> k, exact |-> FALSE, at |-> s.at, back |-> s.back,
            fwd |-> s.fwd, gen |-> hcache.generation, end |-> size + 1]
  IN IF k = 0
     THEN [l EXCEPT !.at = DUMMY_OFFSET, !.back = [i \in Levels |-> DUMMY_OFFSET],
                    !.fwd = forward(cache, DUMMY_OFFSET, NoOffsets)]
     ELSE IF s.found
     THEN [l EXCEPT !.exact = TRUE, !.at = s.new,
                    !.fwd = forward(cache, s.new, s.fwd)]
     ELSE l

\* With a bug: the size alone tells whether the file has changed.
freshSize(l) == l.end = size + 1

fresh(l) == l.end = size + 1 /\ l.gen = hcache.generation

\* The location of k, from the location l if k is at or just after it.
find_loc(l, k) ==
  LET next == skipdelete(cache, l.fwd[0])
      gap == [l EXCEPT !.key = k, !.exact = FALSE, !.back = backward(l.at, @)]
  IN IF k = 0 \/ ~fresh(l) THEN relocate(k)
     ELSE IF l.exact /\ keyat(l.at) = k THEN [l EXCEPT !.key = k]
     ELSE IF keyat(l.at) >= k THEN relocate(k)
     ELSE IF next = 0 \/ keyat(next) > k THEN gap
     ELSE IF keyat(next) = k
          THEN [gap EXCEPT !.exact = TRUE, !.at = next,
                           !.fwd = forward(cache, next, @)]
     ELSE relocate(k)

advance_loc(l) ==
  LET m == IF fresh(l) THEN l ELSE relocate(l.key)
      next == skipdelete(cache, m.fwd[0])
  IN IF next = 0 THEN relocate(0)
     ELSE [m EXCEPT !.key = keyat(next), !.exact = TRUE, !.at = next,
                    !.back = backward(m.at, @), !.fwd = forward(cache, next, @)]

-----------------------------------------------------------------------------
(* Locks and lookups.                                                       *)

Idle(p) == owner # p /\ p \notin readers
CanRead == owner = NoProc /\ db_is_clean(hcache, size)
InTxn(p) == owner = p /\ pc = "txn"

unlock ==
  /\ owner' = NoProc /\ pc' = "idle" /\ work' = NoTxn
  /\ op' = NoOp /\ num' = 0 /\ rv' = NoRv /\ ret' = "idle" /\ titer' = 0
  /\ UNCHANGED acked

\* newtxn, not shared: write_lock rereads the header and recovers the file.
Begin(p) ==
  /\ owner = NoProc /\ readers = {}
  /\ owner' = p /\ num' = hcache.num_records
  /\ IF db_is_clean(hcache, size)
     THEN pc' = "txn" /\ ret' = "idle" /\ work' = View
     ELSE pc' = "recover" /\ ret' = "txn" /\ UNCHANGED work
  /\ UNCHANGED <<fileVars, readers, op, rv, loc, iter, titer, acked>>

\* read_lock on an unclean file: the write lock is taken to repair it.
ReadRecover(p) ==
  /\ owner = NoProc /\ readers = {}
  /\ ~db_is_clean(hcache, size)
  /\ owner' = p /\ num' = hcache.num_records
  /\ pc' = "recover" /\ ret' = "idle"
  /\ UNCHANGED <<fileVars, readers, op, rv, loc, iter, titer, work, acked>>

BeginShared(p) ==
  /\ p \in Reads /\ Idle(p) /\ CanRead
  /\ readers' = readers \cup {p}
  /\ UNCHANGED <<fileVars, owner, pc, op, num, rv, ret, loc, iter, titer, work, acked>>

EndShared(p) ==
  /\ p \in readers
  /\ readers' = readers \ {p}
  /\ UNCHANGED <<fileVars, owner, pc, op, num, rv, ret, loc, iter, titer, work, acked>>

lookup(p, l) ==
  /\ p \in Reads /\ (CanRead \/ InTxn(p))
  /\ loc' = [loc EXCEPT ![p] = l]
  /\ UNCHANGED <<fileVars, owner, readers, pc, op, num, rv, ret, work, acked>>

myfetch(p, k) == lookup(p, find_loc(loc[p], k)) /\ UNCHANGED <<iter, titer>>

fetchnext(p, k) ==
  lookup(p, advance_loc(find_loc(loc[p], k))) /\ UNCHANGED <<iter, titer>>

\* With a bug: the iteration ends when its last key is gone.
myforeachStops(p) ==
  LET here == find_loc(loc[p], iter[p])
      l == IF here.exact \/ iter[p] = 0 THEN advance_loc(here) ELSE here
  IN /\ Idle(p) /\ lookup(p, l)
     /\ iter' = [iter EXCEPT ![p] = IF l.exact THEN l.key ELSE 0]
     /\ UNCHANGED titer

\* One round of myforeach up to the next callback: the first from the start of
\* the database, the others from a copy of the last key.  The lock is free
\* during the callback, in which the process may use the database itself.
myforeach(p) ==
  LET l == advance_loc(find_loc(loc[p], iter[p]))
  IN /\ Idle(p) /\ lookup(p, l)
     /\ iter' = [iter EXCEPT ![p] = IF l.exact THEN l.key ELSE 0]
     /\ UNCHANGED titer

\* The same inside the process's own transaction, which keeps the lock.
foreachInTxn(p) ==
  LET l == advance_loc(find_loc(loc[p], titer))
  IN /\ InTxn(p) /\ lookup(p, l)
     /\ titer' = IF l.exact THEN l.key ELSE 0
     /\ UNCHANGED iter

-----------------------------------------------------------------------------
(* Writes in a transaction.                                                 *)

\* Unchanged by the steps of one write or of a commit.
owned == <<owner, readers, ret, rv, iter, titer, acked>>

\* append_record: the header is dirtied first if it is not dirty yet.
startWrite(p, l, rec, max, n) ==
  /\ op' = [rec |-> rec, max |-> max, lvl |-> 0]
  /\ num' = n
  /\ loc' = [loc EXCEPT ![p] = l]
  /\ pc' = IF hcache.flags = "dirty" THEN "append" ELSE "dirty"
  /\ UNCHANGED <<fileVars, owned, work>>

store_here(p, l, v) ==
  \E level \in 1..MaxLevel :
    startWrite(p, l,
      [type |-> "RECORD", level |-> level, key |-> l.key, val |-> v,
       nextloc |-> [j \in 0..MaxLevel |-> IF j \in 1..level THEN l.fwd[j - 1] ELSE 0]],
      IF l.exact THEN Max({level, levelat(l.at)}) ELSE level,
      IF l.exact THEN num - 1 ELSE num)

\* With a bug: the DELETE record points to the record that it deletes.
delete_hereSelf(p, l) ==
  startWrite(p, l, [Absent EXCEPT !.type = "DELETE",
                                  !.nextloc = [NoPtrs EXCEPT ![0] = l.at]],
             levelat(l.at), num - 1)

delete_here(p, l) ==
  startWrite(p, l,
    [Absent EXCEPT !.type = "DELETE",
                   !.nextloc = [NoPtrs EXCEPT ![0] = skipdelete(cache, l.fwd[0])]],
    levelat(l.at), num - 1)

\* myabort: the location is forgotten and recovery1 undoes the writes.
abort(p) ==
  /\ ret' = "idle"
  /\ loc' = [loc EXCEPT ![p] = NoLoc]
  /\ work' = NoTxn /\ op' = NoOp /\ titer' = 0
  /\ UNCHANGED <<cache, size, hcache, disk, sdisk, hdisk, face,
                 owner, readers, num, rv, iter, acked>>

\* The transaction is given up by its user or after an error that wrote nothing.
giveUp(p) == abort(p) /\ pc' = "recover" /\ UNCHANGED phase

\* A write that changes nothing only moves the location.
nowrite(p, l) ==
  /\ loc' = [loc EXCEPT ![p] = l]
  /\ UNCHANGED <<fileVars, owned, pc, op, num, work>>

\* Bound: a transaction that has begun to write keeps room for its COMMIT record.
Room == size + 1 < MaxOffset \/ (size < MaxOffset /\ size + 1 = hcache.current_size)

\* mystore with data: an error aborts the whole transaction.
store(p, k, v, force) ==
  LET l == find_loc(loc[p], k)
  IN /\ InTxn(p)
     /\ \/ l.exact /\ ~force /\ giveUp(p)
        \/ l.exact /\ force /\ cache[l.at].val = v /\ nowrite(p, l)
        \/ l.exact /\ force /\ cache[l.at].val # v /\ Room /\ store_here(p, l, v)
        \/ ~l.exact /\ Room /\ store_here(p, l, v)

\* mystore without data.
delete(p, k, force) ==
  LET l == find_loc(loc[p], k)
  IN /\ InTxn(p)
     /\ \/ l.exact /\ Room /\ delete_here(p, l)
        \/ ~l.exact /\ force /\ nowrite(p, l)
        \/ ~l.exact /\ ~force /\ giveUp(p)

\* With a bug: no sync between the DIRTY header and the first record.
WriteDirtyUnsynced(p) ==
  /\ owner = p /\ pc = "dirty"
  /\ write_header([hcache EXCEPT !.flags = "dirty", !.num_records = num])
  /\ phase' = "txn" /\ pc' = "append"
  /\ UNCHANGED <<cache, size, disk, sdisk, face, owned, op, num, loc, work>>

\* commit_header of append_record and of recovery1.
WriteDirty(p) ==
  /\ owner = p /\ pc = "dirty"
  /\ write_header([hcache EXCEPT !.flags = "dirty", !.num_records = num])
  /\ phase' = "dirtying" /\ pc' = "dirtysync"
  /\ UNCHANGED <<cache, size, disk, sdisk, face, owned, op, num, loc, work>>

SyncDirtyHeader(p) ==
  /\ owner = p /\ pc = "dirtysync"
  /\ commit
  /\ phase' = "txn" /\ pc' = IF op = NoOp THEN "recover" ELSE "append"
  /\ UNCHANGED <<owned, op, num, loc, work>>

append_record(p) ==
  /\ owner = p /\ pc = "append"
  /\ write_record(op.rec)
  /\ loc' = [loc EXCEPT ![p].fwd =
               [l \in Levels |-> IF l < Max({1, op.rec.level}) THEN size + 1 ELSE @[l]]]
  /\ pc' = "stitch"
  /\ UNCHANGED <<phase, owned, op, num, work>>

\* With a bug: the same level again.
climbStuck(o) == op.lvl

\* The record at o has all the levels that are left, or those below its own.
done(o) == cache[o].level >= op.max
climb(o) == cache[o].level

\* One rewrite of stitch.  The last one ends the operation.
stitch(p) ==
  LET l == loc[p]
      o == l.back[op.lvl]
      stored == op.rec.type = "RECORD"
      at == IF stored THEN size ELSE l.back[0]
  IN /\ owner = p /\ pc = "stitch"
     /\ pwrite(o, setlocs(cache[o], op.lvl, op.max, l.fwd, hcache.current_size))
     /\ IF ~done(o)
        THEN /\ op' = [op EXCEPT !.lvl = climb(o)]
             /\ UNCHANGED <<pc, loc, num, work>>
        ELSE /\ pc' = "txn" /\ op' = NoOp
             /\ loc' = [loc EXCEPT ![p] =
                          [l EXCEPT !.at = at, !.exact = stored, !.end = size + 1,
                                    !.fwd = forward(cache', at, @)]]
             /\ num' = IF stored THEN num + 1 ELSE num
             /\ work' = IF stored THEN Put(work, l.key, op.rec.val)
                        ELSE Remove(work, l.key)
     /\ UNCHANGED <<size, hcache, sdisk, hdisk, phase, face, owned>>

\* A failed write or sync before the new header: the transaction is aborted,
\* and the header in memory is dirty even if the one in the file is not.
IoFail(p) ==
  /\ owner = p /\ "io" \in Faults
  /\ \/ pc \in {"dirty", "dirtysync"} /\ op # NoOp
     \/ pc \in {"append", "stitch", "commitsync"}
  /\ abort(p) /\ pc' = "dummy" /\ phase' = "fix"

myabort(p) == InTxn(p) /\ giveUp(p)

-----------------------------------------------------------------------------
(* mycommit and mycheckpoint.                                               *)

\* Unchanged by the steps of a commit.
committing == <<owner, readers, op, num, rv, ret, loc, iter, titer, work>>

\* A transaction that wrote nothing has nothing to commit.
CommitUnchanged(p) ==
  /\ InTxn(p) /\ hcache.flags = "clean"
  /\ pc' = "finish"
  /\ UNCHANGED <<fileVars, committing, acked>>

CommitRecord(p) ==
  /\ InTxn(p) /\ hcache.flags = "dirty" /\ size < MaxOffset
  /\ write_record(commitRecord(hcache.current_size))
  /\ phase' = "commit" /\ pc' = "commitsync"
  /\ UNCHANGED <<committing, acked>>

\* With a bug: the header is written while the records are not synced.
SyncCommitSkipped(p) ==
  /\ owner = p /\ pc = "commitsync"
  /\ phase' = "synced" /\ pc' = "publish"
  /\ UNCHANGED <<cache, size, hcache, disk, sdisk, hdisk, face, committing, acked>>

SyncCommit(p) ==
  /\ owner = p /\ pc = "commitsync"
  /\ commit
  /\ phase' = "synced" /\ pc' = "publish"
  /\ UNCHANGED <<committing, acked>>

WritePublish(p) ==
  /\ owner = p /\ pc = "publish"
  /\ write_header([hcache EXCEPT !.flags = "clean", !.num_records = num,
                                 !.current_size = size + 1])
  /\ face' = [face EXCEPT ![size + 1] = Faces(cache, size + 1)]
  /\ phase' = "publish" /\ pc' = "publishsync" /\ acked' = NoTxn
  /\ UNCHANGED <<cache, size, disk, sdisk, committing>>

\* With a bug: the commit returns before its header is synced.
SyncPublishSkipped(p) ==
  /\ owner = p /\ pc = "publishsync"
  /\ phase' = "clean" /\ pc' = "finish" /\ acked' = work
  /\ UNCHANGED <<cache, size, hcache, disk, sdisk, hdisk, face, committing>>

SyncPublish(p) ==
  /\ owner = p /\ pc = "publishsync"
  /\ commit
  /\ phase' = "clean" /\ pc' = "finish" /\ acked' = work
  /\ UNCHANGED committing

NeedsCheckpoint ==
  /\ hcache.current_size > MinRewrite
  /\ hcache.current_size > 2 * hcache.repack_size

\* The bound on checkpoints: beyond it a database is open with NOCOMPACT.
MayCompact == hcache.generation < MaxGen /\ (CompactEmpty \/ hcache.num_records > 0)

\* mycommit releases the lock, by itself or through mycheckpoint.
Finish(p) ==
  /\ owner = p /\ pc = "finish" /\ ~(NeedsCheckpoint /\ MayCompact)
  /\ unlock
  /\ UNCHANGED <<fileVars, readers, loc, iter>>

\* The file that mycheckpoint writes: the records in key order with new levels.
Compacted(ks, m, level) ==
  LET after(i, j) == {x \in i + 1 .. Len(ks) : level[x] >= j}
      next(i, j) == IF j = 0 \/ after(i, j) = {} THEN 0 ELSE Min(after(i, j)) + 1
      ptrs(i, lvl) == [j \in 0..MaxLevel |-> IF j <= lvl THEN next(i, j) ELSE 0]
  IN [o \in Offset |->
        IF o = DUMMY_OFFSET THEN [dummy EXCEPT !.nextloc = ptrs(0, MaxLevel)]
        ELSE IF o <= Len(ks) + 1
        THEN [type |-> "RECORD", level |-> level[o - 1], key |-> ks[o - 1],
              val |-> m[ks[o - 1]], nextloc |-> ptrs(o - 1, level[o - 1])]
        ELSE IF o = Len(ks) + 2 /\ ks # <<>> THEN commitRecord(2)
        ELSE Absent]

\* The location of the copy, at its last record: the process keeps it.
CopyLoc(ks, level) ==
  LET n == Len(ks)
  IN IF ks = <<>> THEN NoLoc
     ELSE [key |-> ks[n], exact |-> TRUE, at |-> n + 1, fwd |-> NoOffsets,
           back |-> [l \in Levels |->
              Max({DUMMY_OFFSET} \cup {x + 1 : x \in {y \in 1..n - 1 : level[y] > l}})],
           gen |-> 1, end |-> n + 2]

\* A complete, synced file is renamed over this one.  An empty copy is never
\* dirtied: its header keeps the first generation.
Checkpoint(p) ==
  LET chain == Chain(Faces(cache, size + 1))
      ks == [i \in {n \in Offset : chain[n] # 0} |-> cache[chain[i]].key]
  IN /\ owner = p /\ pc = "finish" /\ NeedsCheckpoint /\ MayCompact
     /\ \E level \in [DOMAIN ks -> 1..MaxLevel] :
          /\ cache' = Compacted(ks, View, level)
          /\ loc' = [loc EXCEPT ![p] = CopyLoc(ks, level)]
     /\ size' = IF ks = <<>> THEN 1 ELSE Len(ks) + 2
     /\ hcache' = [flags |-> "clean", current_size |-> size' + 1,
                   num_records |-> Len(ks), repack_size |-> Len(ks) + 2,
                   generation |-> IF ks = <<>> THEN 1 ELSE hcache.generation + 1]
     /\ disk' = [o \in Offset |-> {cache'[o]}]
     /\ sdisk' = {size'} /\ hdisk' = {hcache'}
     /\ face' = [s \in Size |-> Faces(cache', size' + 1)]
     /\ unlock
     /\ UNCHANGED <<phase, readers, iter>>

\* mycheckpoint fails while it writes the copy: the old file stays.
CheckpointFails(p) ==
  /\ owner = p /\ pc = "finish" /\ NeedsCheckpoint /\ "io" \in Faults
  /\ unlock
  /\ UNCHANGED <<fileVars, readers, loc, iter>>

\* mycheckpoint cannot open the copy: it returns without releasing the lock, and
\* the next lock that the process takes fails an assert.
CheckpointCannotOpen(p) ==
  /\ owner = p /\ pc = "finish" /\ NeedsCheckpoint /\ "io" \in Faults
  /\ pc' = "returned"
  /\ UNCHANGED <<fileVars, committing, acked>>

-----------------------------------------------------------------------------
(* recovery1.                                                               *)

\* Unchanged by the steps of recovery1.
recovering == <<owner, readers, op, num, ret, loc, iter, titer, acked>>

\* Where the caller of recovery1 goes on.
return ==
  \/ ret = "txn" /\ pc' = "txn" /\ work' = View /\ rv' = NoRv /\ ret' = "idle"
                 /\ UNCHANGED <<owner, op, num, titer, acked>>
  \/ ret = "idle" /\ unlock

RecoverCheck(p) ==
  /\ owner = p /\ pc = "recover"
  /\ IF db_is_clean(hcache, size)
     THEN /\ return
          /\ UNCHANGED <<fileVars, readers, loc, iter>>
     ELSE /\ pc' = IF hcache.flags = "clean" THEN "dirty" ELSE "dummy"
          /\ phase' = IF hcache.flags = "clean" THEN phase ELSE "fix"
          /\ UNCHANGED <<cache, size, hcache, disk, sdisk, hdisk, face,
                         recovering, rv, work>>

\* The next record on level zero for recovery1, from o on.
alive(o) == Walk([n \in Ptr |-> skipdelete(cache, n)], o, MaxOffset)[MaxOffset]

\* With a bug: DELETE records are not skipped.
nextoffsetDeleted(o) ==
  getloc(zerolocs(cache[o], hcache.current_size), 0, hcache.current_size)

nextoffset(o) ==
  LET r == zerolocs(cache[o], hcache.current_size)
  IN alive(getloc(r, 0, hcache.current_size))

\* recovery1 gives up on a record that is missing or out of order.
walkOn(last, o) ==
  pc' = IF o # 0 /\ (cache[o].type # "RECORD" \/ cache[o].key <= cache[last].key)
        THEN "recovery2" ELSE "walk"

\* Rewrite the level zero pointers of o that lie past the end, if there are any.
fixLevelZero(o) ==
  LET new == zerolocs(cache[o], hcache.current_size)
  IN /\ IF new = cache[o] THEN UNCHANGED <<cache, disk>> ELSE pwrite(o, new)
     /\ UNCHANGED <<size, hcache, sdisk, hdisk, phase, face>>

RecoverDummy(p) ==
  /\ owner = p /\ pc = "dummy"
  /\ fixLevelZero(DUMMY_OFFSET)
  /\ rv' = [last |-> DUMMY_OFFSET, cur |-> nextoffset(DUMMY_OFFSET), n |-> 0,
            prev |-> [i \in 2..MaxLevel |-> DUMMY_OFFSET],
            next |-> [i \in 2..MaxLevel |-> cache[DUMMY_OFFSET].nextloc[i]]]
  /\ walkOn(DUMMY_OFFSET, nextoffset(DUMMY_OFFSET))
  /\ UNCHANGED <<recovering, work>>

\* With a bug: pointers that lead out of the truncated file are kept.
DanglingKept == {}

\* The levels at which the last record does not point to cur (0 at the end).
Wrong == {i \in 2..levelat(rv.cur) : rv.next[i] # rv.cur}
Dangling == {i \in 2..MaxLevel : rv.next[i] # 0}

\* Rewrite the pointer of the record before cur at the lowest wrong level.
fixUpper(levels) ==
  LET i == Min(levels)
  IN /\ pwrite(rv.prev[i], [cache[rv.prev[i]] EXCEPT !.nextloc[i] = rv.cur])
     /\ rv' = [rv EXCEPT !.next[i] = rv.cur]
     /\ UNCHANGED <<size, hcache, sdisk, hdisk, phase, face, pc, recovering, work>>

RecoverUpper(p) ==
  /\ owner = p /\ pc = "walk" /\ rv.cur # 0
  /\ Wrong # {} /\ fixUpper(Wrong)

RecoverRecord(p) ==
  LET r == cache[rv.cur]
      passed == 2..r.level
  IN /\ owner = p /\ pc = "walk" /\ rv.cur # 0
     /\ Wrong = {}
     /\ fixLevelZero(rv.cur)
     /\ rv' = [last |-> rv.cur, cur |-> nextoffset(rv.cur), n |-> rv.n + 1,
               prev |-> [i \in 2..MaxLevel |-> IF i \in passed THEN rv.cur ELSE rv.prev[i]],
               next |-> [i \in 2..MaxLevel |-> IF i \in passed THEN r.nextloc[i]
                                               ELSE rv.next[i]]]
     /\ walkOn(rv.cur, nextoffset(rv.cur))
     /\ UNCHANGED <<recovering, work>>

RecoverTail(p) ==
  /\ owner = p /\ pc = "walk" /\ rv.cur = 0
  /\ Dangling # {} /\ fixUpper(Dangling)

RecoverTruncate(p) ==
  /\ owner = p /\ pc = "walk" /\ rv.cur = 0 /\ Dangling = {}
  /\ truncate(hcache.current_size - 1)
  /\ phase' = "truncated" /\ pc' = "truncsync"
  /\ UNCHANGED <<hcache, hdisk, face, recovering, rv, work>>

RecoverSync(p) ==
  /\ owner = p /\ pc = "truncsync"
  /\ commit
  /\ phase' = "fixed" /\ pc' = "clear"
  /\ UNCHANGED <<recovering, rv, work>>

RecoverClear(p) ==
  /\ owner = p /\ pc = "clear"
  /\ write_header([hcache EXCEPT !.flags = "clean", !.num_records = rv.n])
  /\ phase' = "clearing" /\ pc' = "clearsync" /\ num' = rv.n
  /\ UNCHANGED <<cache, size, disk, sdisk, face, owner, readers, op, ret, rv,
                 loc, iter, titer, work, acked>>

RecoverDone(p) ==
  /\ owner = p /\ pc = "clearsync"
  /\ commit
  /\ phase' = "clean"
  /\ return
  /\ UNCHANGED <<readers, loc, iter>>

RecoverStep(p) ==
  \/ RecoverCheck(p) \/ RecoverDummy(p) \/ RecoverUpper(p)
  \/ RecoverRecord(p) \/ RecoverTail(p) \/ RecoverTruncate(p)
  \/ RecoverSync(p) \/ RecoverClear(p) \/ RecoverDone(p)

-----------------------------------------------------------------------------
(* Crashes, and the specification.                                          *)

\* A process is killed, or stopped by an assert, and a new one takes its place.
Die(p) ==
  /\ "kill" \in Faults \/ (owner = p /\ pc = "returned")
  /\ IF owner = p THEN WriterDies /\ unlock
     ELSE UNCHANGED <<fileVars, owner, pc, op, num, rv, ret, titer, work, acked>>
  /\ readers' = readers \ {p}
  /\ loc' = [loc EXCEPT ![p] = NoLoc]
  /\ iter' = [iter EXCEPT ![p] = 0]

\* The records that the disk may show after a power loss in a file of s records.
Versions(s) ==
  LET upto[o \in Ptr] ==
        IF o = 0 THEN {<<>>}
        ELSE {Append(c, r) : c \in upto[o - 1], r \in IF o <= s THEN disk[o] ELSE {Absent}}
  IN upto[MaxOffset]

Power ==
  /\ "power" \in Faults
  /\ \E s \in sdisk, h \in hdisk : \E c \in Versions(s) : PowerLoss(c, s, h)
  /\ unlock
  /\ readers' = {}
  /\ loc' = [p \in Proc |-> NoLoc]
  /\ iter' = [p \in Proc |-> 0]

\* A new file, or one in which one transaction has stored Start in key order.
Init ==
  /\ \E ks \in [1..Cardinality(Start) -> Start], v \in [Start -> Val],
        level \in [1..Cardinality(Start) -> 1..MaxLevel] :
       /\ \A i \in 2..Len(ks) : ks[i - 1] < ks[i]
       /\ cache = Compacted(ks, v, level)
  /\ size = IF Start = {} THEN 1 ELSE Cardinality(Start) + 2
  /\ hcache = [flags |-> "clean", current_size |-> size + 1,
               num_records |-> Cardinality(Start), generation |-> 1,
               repack_size |-> 2]
  /\ disk = [o \in Offset |-> {cache[o]}]
  /\ sdisk = {size} /\ hdisk = {hcache}
  /\ phase = "clean"
  /\ face = [s \in Size |-> Faces(cache, size + 1)]
  /\ owner = NoProc /\ readers = {} /\ pc = "idle" /\ op = NoOp /\ num = 0
  /\ rv = NoRv /\ ret = "idle" /\ titer = 0 /\ work = NoTxn
  /\ acked = View
  /\ loc = [p \in Proc |-> NoLoc]
  /\ iter = [p \in Proc |-> 0]

User(p) ==
  \/ Begin(p) \/ ReadRecover(p) \/ BeginShared(p) \/ EndShared(p)
  \/ myforeach(p) \/ foreachInTxn(p) \/ myabort(p)
  \/ CommitUnchanged(p) \/ CommitRecord(p)
  \/ \E k \in Key : myfetch(p, k) \/ fetchnext(p, k)
  \/ \E k \in Key, v \in Val, force \in BOOLEAN : store(p, k, v, force)
  \/ \E k \in Key, force \in BOOLEAN : delete(p, k, force)

Step(p) ==
  \/ WriteDirty(p) \/ SyncDirtyHeader(p) \/ append_record(p) \/ stitch(p)
  \/ SyncCommit(p) \/ WritePublish(p) \/ SyncPublish(p)
  \/ Finish(p) \/ Checkpoint(p) \/ CheckpointFails(p) \/ CheckpointCannotOpen(p)
  \/ RecoverStep(p)

Next == Power \/ \E p \in Proc : User(p) \/ Step(p) \/ IoFail(p) \/ Die(p)

Spec == Init /\ [][Next]_vars

\* A process that is inside the code of an operation goes on: no step of it
\* waits for anybody else.
FairSpec == Spec /\ \A p \in Proc : WF_vars(Step(p))

-----------------------------------------------------------------------------
(* Properties.                                                              *)

Loc == [key: Key \cup {0}, exact: BOOLEAN, at: Ptr, back: [Levels -> Ptr],
        fwd: [Levels -> Ptr], gen: 0..MaxGen, end: Size]

\* Every variable has its type: offsets stay in the file, levels in range.
TypeOK ==
  /\ FileTypeOK
  /\ owner \in Proc \cup {NoProc} /\ readers \subseteq Proc
  /\ (owner = NoProc) = (pc = "idle")
  /\ owner # NoProc => readers = {}
  /\ op \in [rec: Rec, max: 0..MaxLevel, lvl: Levels]
  /\ loc \in [Proc -> Loc]
  /\ iter \in [Proc -> Key \cup {0}] /\ titer \in Key \cup {0}
  /\ num \in Nat /\ ret \in {"idle", "txn"}
  /\ rv.prev \in [2..MaxLevel -> Ptr] /\ rv.next \in [2..MaxLevel -> Ptr]

\* recovery1 always succeeds: after any number of kills and power losses, at any
\* point of a transaction or of an earlier recovery, recovery2 is never needed.
RecoverySucceeds == pc # "recovery2"

\* The states between two operations: myconsistent is meant to hold.
Settled == pc \in {"txn", "finish"} \/ CanRead

count == IF pc = "txn" THEN num ELSE hcache.num_records

\* n is the first of the records s after the key k, 0 if there is none.
IsNext(f, s, k, n) ==
  IF n = 0 THEN \A x \in s : f[x].key <= k
  ELSE n \in s /\ f[n].key > k /\ \A x \in s : f[x].key > k => f[n].key <= f[x].key

\* What myconsistent checks: keys ascend, every level links exactly the records
\* that have it, and num_records counts them.  It holds whenever the file is
\* clean, and between any two operations of a transaction.
Consistent ==
  Settled =>
    LET f == Faces(cache, size + 1)
        live == Live(f)
        on(l) == {x \in live : l < f[x].level}
    IN /\ \A o \in live : f[o].type = "RECORD"
       /\ \A o \in live \cup {DUMMY_OFFSET} : IsNext(f, live, f[o].key, following(f, o))
       /\ \A o \in live \cup {DUMMY_OFFSET}, l \in 1..MaxLevel - 1 :
            l < f[o].level => IsNext(f, on(l), f[o].key, getloc(cache[o], l, size + 1))
       /\ count = Cardinality(live)

\* A process that may read, wherever its cached location is, finds each key at
\* the place and with the pointers of a full search, and finds what is stored.
LocationSound ==
  \A p \in Proc : CanRead \/ InTxn(p) =>
    LET content == Content(cache, size + 1)
    IN \A k \in Key :
         LET l == find_loc(loc[p], k)
         IN /\ l = relocate(k)
            /\ l.exact = (k \in DOMAIN content)
            /\ l.exact => cache[l.at].val = content[k]

\* Inside a transaction a process reads its own writes, and the commit makes
\* exactly these writes visible to everyone.
ReadsOwnWrites ==
  /\ pc = "txn" => Content(cache, size + 1) = work
  /\ pc \in {"publishsync", "finish"} => View = work

\* A foreach goes to the next key after the last one that is in the database
\* when it takes the lock again, and ends only when there is none: whatever
\* happened to the file in between, no key is skipped or delivered twice.
ForeachStep(last, new) ==
  LET later == {k \in DOMAIN Content(cache, size + 1) : k > last}
  IN new = IF later = {} THEN 0 ELSE Min(later)

ForeachComplete ==
  [][/\ \A p \in Proc : myforeach(p) => ForeachStep(iter[p], iter'[p])
     /\ \A p \in Proc : foreachInTxn(p) => ForeachStep(titer, titer')]_vars

\* Every operation returns: stitch climbs, and the walk of recovery1 ends even
\* though it follows pointers out of a file that a crash has left half written.
Returned == pc \in {"idle", "txn", "returned"}
OperationsReturn == ~Returned ~> Returned

\* The database is a store of transactions that survives crashes.
Store == INSTANCE TxnStore
           WITH view <- View,
                dur <- {FaceContent(face[h.current_size]) : h \in hdisk}
StoreSpec == Store!Spec

\* What a returned commit promised is what everyone finds, and all that a power
\* loss can leave, whatever crashes follow, until a later commit replaces it.
Durable == Store!Durable
=============================================================================
