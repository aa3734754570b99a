----------------------------- MODULE TwoSkipFile -----------------------------
(***************************************************************************)
(* The file layer of the twoskip database (lib/cyrusdb_twoskip.c on top of *)
(* lib/mappedfile.c): the order in which one writer dirties the header,    *)
(* appends and rewrites records, syncs, publishes a new current_size, and  *)
(* repairs the file after an abort or a crash.                             *)
(*                                                                         *)
(* An offset is the number of a record in the file: 1 is the DUMMY, 0 the  *)
(* null pointer.  Padding and byte lengths are left out: only the order of *)
(* offsets matters to the code.  current_size and end are the number of    *)
(* the first record that is not (yet) part of the database.                *)
(*                                                                         *)
(* Every location has two sides: what a process reads through the mapping  *)
(* (cache, size, hcache) and the set of versions of it that a power loss   *)
(* may leave (disk, sdisk, hdisk): every version written since the last    *)
(* fsync.  A record head is padded to lie in one disk block, so a version  *)
(* is on the disk entirely or not at all.                                  *)
(***************************************************************************)
EXTENDS Integers

CONSTANTS
  Key,        \* the keys: positive numbers, ordered as compar orders them
  Val,        \* the values
  NoVal,      \* no value
  MaxLevel,   \* MAXLEVEL
  MaxOffset   \* bound: the largest offset of a record

ASSUME FileAssumption ==
  /\ Key \subseteq Nat \ {0}
  /\ NoVal \notin Val
  /\ MaxLevel \in Nat \ {0}
  /\ MaxOffset \in Nat \ {0}

VARIABLES
  cache,   \* [Offset -> Rec]: the records as the mapping shows them
  size,    \* the last offset of the file (SIZE(db))
  hcache,  \* the header as the mapping shows it
  disk,    \* [Offset -> SUBSET Rec]: the versions a power loss may leave
  sdisk,   \* the sizes a power loss may leave
  hdisk,   \* the headers a power loss may leave
  phase,   \* how far the writer is in its write order
  face     \* history: the committed face of every record, per current_size

fileVars == <<cache, size, hcache, disk, sdisk, hdisk, phase, face>>

DUMMY_OFFSET == 1
Offset == 1..MaxOffset
Ptr == 0..MaxOffset
Size == 0..(MaxOffset + 1)

Rec == [type: {"ABSENT", "DUMMY", "RECORD", "DELETE", "COMMIT"},
        level: 0..MaxLevel,
        key: Key \cup {0},
        val: Val \cup {NoVal},
        nextloc: [0..MaxLevel -> Ptr]]

Header == [flags: {"clean", "dirty"}, current_size: Size,
           num_records: Int, generation: Nat, repack_size: Size]

Phase == {"clean",      \* nothing to write: the file is consistent
          "dirtying",   \* DIRTY header written, not yet synced
          "txn",        \* DIRTY header synced, records may be written
          "commit",     \* COMMIT record appended
          "synced",     \* all records of the transaction synced
          "publish",    \* header with the new current_size written
          "dead",       \* the writer is gone and left an unclean file
          "fix",        \* recovery1 is repairing pointers
          "truncated",  \* recovery1 has truncated the file
          "fixed",      \* recovery1 has synced its repairs
          "clearing"}   \* recovery1 has written the clean header

NoPtrs == [l \in 0..MaxLevel |-> 0]

\* What a read finds where nothing was written: zeros, which fail the CRC.
Absent == [type |-> "ABSENT", level |-> 0, key |-> 0, val |-> NoVal,
           nextloc |-> NoPtrs]

dummy == [Absent EXCEPT !.type = "DUMMY", !.level = MaxLevel]

-----------------------------------------------------------------------------
(* The level zero magic: nextloc[0] and nextloc[1] alternate.               *)

getloc(r, level, end) ==
  IF level > 0 THEN r.nextloc[level + 1]
  ELSE IF r.nextloc[0] >= end THEN r.nextloc[1]
  ELSE IF r.nextloc[1] >= end THEN r.nextloc[0]
  ELSE IF r.nextloc[0] > r.nextloc[1] THEN r.nextloc[0]
  ELSE r.nextloc[1]

\* With a bug: the older pointer goes, even if the other is not committed yet.
slotOlder(r, current_size) ==
  IF r.nextloc[1] > r.nextloc[0] THEN 0 ELSE 1

\* The slot of nextloc that setloc overwrites at level zero.
slot(r, current_size) ==
  IF r.nextloc[0] >= current_size THEN 0
  ELSE IF r.nextloc[1] >= current_size THEN 1
  ELSE IF r.nextloc[1] > r.nextloc[0] THEN 0
  ELSE 1

\* setloc for every level of lo .. hi - 1 that the record has.
setlocs(r, lo, hi, fwd, current_size) ==
  [r EXCEPT !.nextloc =
     [j \in 0..MaxLevel |->
        IF j \in {0, 1}
        THEN IF lo = 0 /\ hi > 0 /\ j = slot(r, current_size)
             THEN fwd[0] ELSE r.nextloc[j]
        ELSE IF j - 1 >= lo /\ j - 1 < hi /\ j <= r.level
             THEN fwd[j - 1] ELSE r.nextloc[j]]]

\* recovery1's repair of the level zero pointers past the end.
zerolocs(r, end) ==
  [r EXCEPT !.nextloc =
     [j \in 0..MaxLevel |->
        IF j \in {0, 1} /\ r.nextloc[j] >= end THEN 0 ELSE r.nextloc[j]]]

db_is_clean(h, s) == h.current_size = s + 1 /\ h.flags = "clean"

\* All of a record that a reader of the committed database can see.
Face(r, current_size) ==
  [type |-> r.type, level |-> r.level, key |-> r.key, val |-> r.val,
   next |-> getloc(r, 0, current_size)]

Faces(c, current_size) == [o \in Offset |-> Face(c[o], current_size)]

\* No header that a power loss may leave says the file is clean.
DirtyDurable == \A h \in hdisk : h.flags = "dirty"

-----------------------------------------------------------------------------
(* The writes of mappedfile.c.                                              *)

pwrite(o, r) ==
  /\ cache' = [cache EXCEPT ![o] = r]
  /\ disk' = [disk EXCEPT ![o] = @ \cup {r}]

write_header(h) ==
  /\ hcache' = h
  /\ hdisk' = hdisk \cup {h}

\* mappedfile_commit: everything written so far is on the disk.  The history
\* forgets the faces that no header on the disk can select any more.
commit ==
  /\ disk' = [o \in Offset |-> {cache[o]}]
  /\ sdisk' = {size}
  /\ hdisk' = {hcache}
  /\ face' = [s \in Size |-> face[hcache.current_size]]
  /\ UNCHANGED <<cache, size, hcache>>

truncate(s) ==
  /\ size' = s
  /\ sdisk' = sdisk \cup {s}
  /\ cache' = [o \in Offset |-> IF o > s THEN Absent ELSE cache[o]]
  /\ disk' = [o \in Offset |-> IF o > s THEN disk[o] \cup {Absent} ELSE disk[o]]

-----------------------------------------------------------------------------
(* The write order.                                                         *)

\* append_record and recovery1 dirty the header before the first write.
DirtyHeader(n) ==
  /\ phase \in {"clean", "dead"} /\ hcache.flags = "clean"
  /\ n \in Int
  /\ write_header([hcache EXCEPT !.flags = "dirty", !.num_records = n])
  /\ phase' = "dirtying"
  /\ UNCHANGED <<cache, size, disk, sdisk, face>>

SyncDirty ==
  /\ phase = "dirtying"
  /\ commit
  /\ phase' = "txn"

write_record(r) ==
  /\ pwrite(size + 1, r)
  /\ size' = size + 1
  /\ sdisk' = sdisk \cup {size + 1}
  /\ UNCHANGED <<hcache, hdisk, face>>

AppendRecord(r) ==
  /\ phase = "txn" /\ DirtyDurable
  /\ size < MaxOffset
  /\ r \in Rec /\ r.type \in {"RECORD", "DELETE"}
  /\ r.nextloc[0] = 0 \/ r.nextloc[1] = 0
  /\ write_record(r)
  /\ UNCHANGED phase

\* What setlocs may do to a record: its level zero pointer of this transaction
\* moves to a record of this transaction, the committed one stays.
Restitched(r, new, current_size) ==
  /\ new \in Rec
  /\ new = [r EXCEPT !.nextloc = new.nextloc]
  /\ \A j \in {0, 1} :
        new.nextloc[j] # r.nextloc[j]
          => j = slot(r, current_size) /\ new.nextloc[j] >= current_size

\* rewrite_record from stitch.
RewriteRecord(o, new) ==
  /\ phase = "txn" /\ DirtyDurable
  /\ o <= size
  /\ Restitched(cache[o], new, hcache.current_size)
  /\ pwrite(o, new)
  /\ UNCHANGED <<size, hcache, sdisk, hdisk, phase, face>>

commitRecord(current_size) ==
  [Absent EXCEPT !.type = "COMMIT",
                 !.nextloc = [NoPtrs EXCEPT ![0] = current_size]]

AppendCommit ==
  /\ phase = "txn" /\ DirtyDurable
  /\ size < MaxOffset
  /\ write_record(commitRecord(hcache.current_size))
  /\ phase' = "commit"

SyncData ==
  /\ phase = "commit"
  /\ commit
  /\ phase' = "synced"

PublishHeader(n) ==
  /\ phase = "synced" /\ n \in Int
  /\ write_header([hcache EXCEPT !.flags = "clean", !.num_records = n,
                                 !.current_size = size + 1])
  /\ phase' = "publish"
  /\ face' = [face EXCEPT ![size + 1] = Faces(cache, size + 1)]
  /\ UNCHANGED <<cache, size, disk, sdisk>>

SyncHeader ==
  /\ phase = "publish"
  /\ commit
  /\ phase' = "clean"

\* recovery1 starts on an unclean file, or in myabort after a failed write.
BeginRecovery ==
  /\ phase \in {"clean", "dead", "dirtying", "txn", "commit"}
  /\ phase' = "fix"
  /\ UNCHANGED <<cache, size, hcache, disk, sdisk, hdisk, face>>

FixLevelZero(o) ==
  /\ phase = "fix" /\ DirtyDurable
  /\ o < hcache.current_size
  /\ pwrite(o, zerolocs(cache[o], hcache.current_size))
  /\ UNCHANGED <<size, hcache, sdisk, hdisk, phase, face>>

FixUpper(o, new) ==
  /\ phase = "fix" /\ DirtyDurable
  /\ o < hcache.current_size
  /\ new \in Rec
  /\ new = [cache[o] EXCEPT !.nextloc = new.nextloc]
  /\ \A j \in {0, 1} : new.nextloc[j] = cache[o].nextloc[j]
  /\ pwrite(o, new)
  /\ UNCHANGED <<size, hcache, sdisk, hdisk, phase, face>>

Truncate ==
  /\ phase = "fix"
  /\ DirtyDurable \/ size = hcache.current_size - 1
  /\ truncate(hcache.current_size - 1)
  /\ phase' = "truncated"
  /\ UNCHANGED <<hcache, hdisk, face>>

SyncTruncate ==
  /\ phase = "truncated"
  /\ commit
  /\ phase' = "fixed"

ClearHeader(n) ==
  /\ phase = "fixed" /\ n \in Int
  /\ write_header([hcache EXCEPT !.flags = "clean", !.num_records = n])
  /\ phase' = "clearing"
  /\ UNCHANGED <<cache, size, disk, sdisk, face>>

SyncClear ==
  /\ phase = "clearing"
  /\ commit
  /\ phase' = "clean"

\* A closed file: no pointer leaves it and its header says clean.
Closed(c, s, h) ==
  /\ c \in [Offset -> Rec] /\ s \in Offset /\ h \in Header
  /\ \A o \in Offset : o > s => c[o] = Absent
  /\ \A o \in Offset : c[o].nextloc[0] <= s /\ c[o].nextloc[1] <= s
  /\ db_is_clean(h, s)

\* mycheckpoint: a complete, synced file is renamed over this one.
Replace(c, s, h) ==
  /\ phase = "clean"
  /\ Closed(c, s, h)
  /\ cache' = c /\ size' = s /\ hcache' = h
  /\ disk' = [o \in Offset |-> {c[o]}] /\ sdisk' = {s} /\ hdisk' = {h}
  /\ face' = [t \in Size |-> Faces(c, s + 1)]
  /\ UNCHANGED phase

\* The process that held the write lock dies: the kernel keeps its writes.
WriterDies ==
  /\ phase' = IF db_is_clean(hcache, size) THEN "clean" ELSE "dead"
  /\ UNCHANGED <<cache, size, hcache, disk, sdisk, hdisk, face>>

\* Power loss: for each location any version that may be on the disk.
PowerLoss(c, s, h) ==
  /\ s \in sdisk /\ h \in hdisk
  /\ c \in [Offset -> Rec]
  /\ \A o \in Offset : IF o <= s THEN c[o] \in disk[o] ELSE c[o] = Absent
  /\ cache' = c /\ size' = s /\ hcache' = h
  /\ disk' = [o \in Offset |-> {c[o]}] /\ sdisk' = {s} /\ hdisk' = {h}
  /\ phase' = IF db_is_clean(h, s) THEN "clean" ELSE "dead"
  /\ face' = [t \in Size |-> face[h.current_size]]

FileInit ==
  /\ Closed(cache, size, hcache)
  /\ disk = [o \in Offset |-> {cache[o]}]
  /\ sdisk = {size}
  /\ hdisk = {hcache}
  /\ phase = "clean"
  /\ face = [s \in Size |-> Faces(cache, size + 1)]

FileNext ==
  \/ DirtyHeader(hcache'.num_records) \/ SyncDirty
  \/ AppendRecord(cache'[size + 1])
  \/ \E o \in Offset : RewriteRecord(o, cache'[o])
  \/ AppendCommit \/ SyncData
  \/ PublishHeader(hcache'.num_records) \/ SyncHeader
  \/ BeginRecovery
  \/ \E o \in Offset : FixLevelZero(o) \/ FixUpper(o, cache'[o])
  \/ Truncate \/ SyncTruncate
  \/ ClearHeader(hcache'.num_records) \/ SyncClear
  \/ Replace(cache', size', hcache')
  \/ WriterDies
  \/ PowerLoss(cache', size', hcache')

FileSpec == FileInit /\ [][FileNext]_fileVars

-----------------------------------------------------------------------------
(* Properties.                                                              *)

FaceRec == [type: {"ABSENT", "DUMMY", "RECORD", "DELETE", "COMMIT"},
            level: 0..MaxLevel, key: Key \cup {0}, val: Val \cup {NoVal}, next: Ptr]

\* Every location of the file has its type.
FileTypeOK ==
  /\ cache \in [Offset -> Rec] /\ size \in Offset /\ hcache \in Header
  /\ disk \in [Offset -> SUBSET Rec]
  /\ sdisk \in SUBSET Offset /\ hdisk \in SUBSET Header
  /\ phase \in Phase
  /\ face \in [Size -> [Offset -> FaceRec]]

\* The guarantee of the second level zero pointer: whatever the disk has kept of
\* the writes of a transaction or of a recovery, each record in any version and
\* in any combination, a file read under a header that may be on the disk has
\* the records and the level zero list that were committed under that header.
CrashSafe ==
  \A h \in hdisk, o \in Offset :
    o < h.current_size =>
      \A v \in disk[o] : Face(v, h.current_size) = face[h.current_size][o]

\* The point of the DIRTY flag and of the order of syncs: if a power loss may
\* leave a header that says clean, then nothing else is waiting for a sync and
\* the header has the size of the file, so it is right to skip recovery.
CleanSound ==
  (\E h \in hdisk : h.flags = "clean") =>
    /\ disk = [o \in Offset |-> {cache[o]}]
    /\ sdisk = {size}
    /\ \A h \in hdisk : h.flags = "clean" => h.current_size = size + 1

-----------------------------------------------------------------------------
(* The inductive invariant behind CrashSafe and CleanSound.                 *)

\* What the mapping shows may reach the disk; nothing lies past the end.
Kept ==
  /\ hcache \in hdisk /\ size \in sdisk
  /\ \A o \in Offset : cache[o] \in disk[o]
  /\ \A o \in Offset : o > size => cache[o] = Absent

\* No power loss leaves a file shorter than its header says.
Sized ==
  \A h \in hdisk : /\ h.current_size >= 2
                   /\ \A s \in sdisk : h.current_size - 1 <= s

\* One of the two level zero pointers is always a committed one.
OneCommitted(r, current_size) ==
  r.nextloc[0] < current_size \/ r.nextloc[1] < current_size

OldPointers ==
  \A h \in hdisk, o \in Offset : \A v \in disk[o] : OneCommitted(v, h.current_size)

\* Records are only written when every header on the disk has the same size.
SameSize == DirtyDurable => \A h \in hdisk : h.current_size = hcache.current_size

Synced ==
  disk = [o \in Offset |-> {cache[o]}] /\ sdisk = {size} /\ hdisk = {hcache}

Ordered ==
  /\ phase \in {"clean", "publish", "clearing"} => db_is_clean(hcache, size)
  /\ phase \in {"synced", "fixed"} => Synced
  /\ phase \in {"truncated", "fixed"} => size = hcache.current_size - 1

FileCore ==
  /\ FileTypeOK /\ Kept /\ Sized /\ OldPointers /\ SameSize
  /\ CleanSound /\ CrashSafe

FileInv == FileCore /\ Ordered
=============================================================================
