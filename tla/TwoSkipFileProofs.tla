-------------------------- MODULE TwoSkipFileProofs --------------------------
(***************************************************************************)
(* TLAPS proofs about the file layer of twoskip: for every set of keys and *)
(* values, every number of levels and every file length, FileInv is an     *)
(* inductive invariant of FileSpec, hence CrashSafe and CleanSound hold.   *)
(***************************************************************************)
EXTENDS TwoSkipFile, TLAPS

-----------------------------------------------------------------------------
(* What the operators on records preserve.                                  *)

\* A face has its type.
LEMMA FaceType ==
  ASSUME NEW r \in Rec, NEW cs
  PROVE  Face(r, cs) \in FaceRec
  BY FileAssumption DEF Face, FaceRec, getloc, Rec, Ptr

\* So do the faces of all records of a file.
LEMMA FacesType ==
  ASSUME NEW c \in [Offset -> Rec], NEW cs
  PROVE  Faces(c, cs) \in [Offset -> FaceRec]
  BY FaceType DEF Faces

\* The zeros past the end of a file read as a record with null pointers.
LEMMA AbsentType == Absent \in Rec /\ Absent.nextloc[0] = 0
  BY FileAssumption DEF Absent, NoPtrs, Rec, Ptr

\* A COMMIT record has its type, and its second pointer is null.
LEMMA CommitRecordType ==
  ASSUME NEW cs \in Ptr
  PROVE  commitRecord(cs) \in Rec /\ commitRecord(cs).nextloc[1] = 0
<1> DEFINE ptrs == [NoPtrs EXCEPT ![0] = cs]
<1>1. ptrs \in [0..MaxLevel -> Ptr] /\ ptrs[1] = 0
  BY FileAssumption DEF NoPtrs, Ptr
<1>2. commitRecord(cs) = [Absent EXCEPT !.type = "COMMIT", !.nextloc = ptrs]
  BY DEF commitRecord
<1> HIDE DEF ptrs
<1> QED BY <1>1, <1>2, AbsentType DEF Rec

\* setloc moves the uncommitted pointer and keeps the committed one, so a reader
\* of the committed file does not notice.
LEMMA RestitchKeepsFace ==
  ASSUME NEW r \in Rec, NEW new, NEW cs \in Size,
         Restitched(r, new, cs), OneCommitted(r, cs)
  PROVE  /\ new \in Rec
         /\ Face(new, cs) = Face(r, cs)
         /\ OneCommitted(new, cs)
<1> DEFINE a == r.nextloc[0]
           b == r.nextloc[1]
           x == new.nextloc[0]
           y == new.nextloc[1]
<1>1. new \in Rec BY DEF Restitched
<1>2. a \in Int /\ b \in Int /\ x \in Int /\ y \in Int /\ cs \in Int
  BY <1>1, FileAssumption DEF Rec, Ptr, Size
<1>3. /\ new.type = r.type /\ new.level = r.level
      /\ new.key = r.key /\ new.val = r.val
  BY DEF Restitched, Rec
<1>4. /\ x # a => slot(r, cs) = 0 /\ x >= cs
      /\ y # b => slot(r, cs) = 1 /\ y >= cs
  BY DEF Restitched
<1>5. getloc(new, 0, cs) = getloc(r, 0, cs) /\ OneCommitted(new, cs)
  BY <1>2, <1>4 DEF getloc, slot, OneCommitted
<1> QED BY <1>1, <1>3, <1>5 DEF Face

\* recovery1 clears uncommitted pointers only.
LEMMA ZeroKeepsFace ==
  ASSUME NEW r \in Rec, NEW cs \in Size, cs >= 1, OneCommitted(r, cs)
  PROVE  /\ zerolocs(r, cs) \in Rec
         /\ Face(zerolocs(r, cs), cs) = Face(r, cs)
         /\ OneCommitted(zerolocs(r, cs), cs)
<1> DEFINE new == zerolocs(r, cs)
           a == r.nextloc[0]
           b == r.nextloc[1]
           ptrs == [j \in 0..MaxLevel |->
                      IF j \in {0, 1} /\ r.nextloc[j] >= cs THEN 0 ELSE r.nextloc[j]]
<1>1. new \in Rec
  <2>1. ptrs \in [0..MaxLevel -> Ptr] BY FileAssumption DEF Rec, Ptr
  <2>2. new = [r EXCEPT !.nextloc = ptrs] BY DEF zerolocs
  <2> HIDE DEF ptrs, new
  <2> QED BY <2>1, <2>2 DEF Rec
<1>2. a \in Nat /\ b \in Nat /\ cs \in Int
  BY FileAssumption DEF Rec, Ptr, Size
<1>3. /\ new.type = r.type /\ new.level = r.level
      /\ new.key = r.key /\ new.val = r.val
  BY DEF zerolocs, Rec
<1>4. /\ new.nextloc[0] = IF a >= cs THEN 0 ELSE a
      /\ new.nextloc[1] = IF b >= cs THEN 0 ELSE b
  BY FileAssumption DEF zerolocs, Rec
<1> HIDE DEF new
<1>5. getloc(new, 0, cs) = getloc(r, 0, cs) /\ OneCommitted(new, cs)
  BY <1>2, <1>4 DEF getloc, OneCommitted
<1> QED BY <1>1, <1>3, <1>5 DEF Face, new

\* A record whose level zero pointers are not touched shows the same face.
LEMMA UpperKeepsFace ==
  ASSUME NEW r \in Rec, NEW new \in Rec, NEW cs,
         new = [r EXCEPT !.nextloc = new.nextloc],
         new.nextloc[0] = r.nextloc[0], new.nextloc[1] = r.nextloc[1],
         OneCommitted(r, cs)
  PROVE  Face(new, cs) = Face(r, cs) /\ OneCommitted(new, cs)
  BY DEF Face, getloc, OneCommitted, Rec

-----------------------------------------------------------------------------
(* What the writes of mappedfile.c do to FileCore.                          *)

\* A sync turns everything that may be on the disk into what the mapping shows.
LEMMA CommitStep ==
  ASSUME FileCore, commit, phase' \in Phase
  PROVE  FileCore' /\ Synced'
<1> USE DEF FileCore, commit
<1>1. hcache.current_size \in Size BY DEF FileTypeOK, Header
<1>2. FileTypeOK' BY <1>1 DEF FileTypeOK
<1>3. Kept' BY DEF Kept
<1>4. Sized' BY DEF Sized, Kept
<1>5. OldPointers' BY DEF OldPointers, Kept
<1>6. SameSize' BY DEF SameSize
<1>7. CleanSound' BY DEF CleanSound, Kept
<1>8. CrashSafe' BY <1>1 DEF CrashSafe, Kept
<1>9. Synced' BY DEF Synced
<1> QED BY <1>2, <1>3, <1>4, <1>5, <1>6, <1>7, <1>8, <1>9

\* Rewriting a record with one that shows the same face, while every header on
\* the disk is dirty, changes nothing for a reader of the committed file.
LEMMA PwriteStep ==
  ASSUME FileCore, DirtyDurable, NEW o \in Offset, NEW r \in Rec, o <= size,
         pwrite(o, r), UNCHANGED <<size, hcache, sdisk, hdisk, phase, face>>,
         Face(r, hcache.current_size) = Face(cache[o], hcache.current_size),
         OneCommitted(r, hcache.current_size)
  PROVE  FileCore'
<1> USE DEF FileCore, pwrite
<1>1. /\ cache' \in [Offset -> Rec] /\ disk' \in [Offset -> SUBSET Rec]
      /\ cache'[o] = r /\ disk'[o] = disk[o] \cup {r}
      /\ \A x \in Offset \ {o} : cache'[x] = cache[x] /\ disk'[x] = disk[x]
  BY DEF FileTypeOK
<1>2. \A h \in hdisk : h.current_size = hcache.current_size
  BY DEF SameSize
<1>3. FileTypeOK' BY <1>1 DEF FileTypeOK
<1>4. Kept'
  <2>1. \A x \in Offset : cache'[x] \in disk'[x] BY <1>1 DEF Kept
  <2>2. \A x \in Offset : x > size => x # o BY DEF Offset, FileTypeOK
  <2> QED BY <1>1, <2>1, <2>2 DEF Kept
<1>5. Sized' BY DEF Sized
<1>6. OldPointers' BY <1>1, <1>2 DEF OldPointers
<1>7. SameSize' BY <1>2 DEF SameSize
<1>8. CleanSound' BY DEF CleanSound, DirtyDurable
<1>9. CrashSafe'
  <2> SUFFICES ASSUME NEW h \in hdisk, NEW x \in Offset, x < h.current_size,
                      NEW v \in disk'[x]
               PROVE  Face(v, h.current_size) = face[h.current_size][x]
    BY DEF CrashSafe
  <2>1. CASE v \in disk[x] BY <2>1 DEF CrashSafe
  <2>2. CASE x = o /\ v = r
    <3>1. cache[o] \in disk[o] BY DEF Kept
    <3> QED BY <1>2, <2>2, <3>1 DEF CrashSafe
  <2> QED BY <1>1, <2>1, <2>2
<1> QED BY <1>3, <1>4, <1>5, <1>6, <1>7, <1>8, <1>9

\* A record appended to a dirty file lies past every committed size.
LEMMA AppendStep ==
  ASSUME FileCore, DirtyDurable, NEW r \in Rec, size < MaxOffset,
         r.nextloc[0] = 0 \/ r.nextloc[1] = 0,
         write_record(r), phase' \in Phase
  PROVE  FileCore'
<1> USE DEF FileCore
<1> DEFINE n == size + 1
<1>0. n \in Offset /\ size \in Int /\ \A x \in Offset : x \in Int
  BY FileAssumption DEF FileTypeOK, Offset
<1>1. /\ cache' \in [Offset -> Rec] /\ disk' \in [Offset -> SUBSET Rec]
      /\ cache'[n] = r /\ disk'[n] = disk[n] \cup {r}
      /\ \A x \in Offset \ {n} : cache'[x] = cache[x] /\ disk'[x] = disk[x]
  BY <1>0 DEF FileTypeOK, write_record, pwrite
<1>2. /\ size' = n /\ sdisk' = sdisk \cup {n}
      /\ hcache' = hcache /\ hdisk' = hdisk /\ face' = face
  BY DEF write_record
<1>3. \A h \in hdisk : h.current_size \in Int /\ 2 <= h.current_size /\ h.current_size <= n
  BY <1>0 DEF FileTypeOK, Header, Size, Sized, Kept
<1> HIDE DEF n
<1>4. FileTypeOK' BY <1>0, <1>1, <1>2 DEF FileTypeOK
<1>5. Kept'
  <2>1. \A x \in Offset : cache'[x] \in disk'[x] BY <1>1 DEF Kept
  <2>2. \A x \in Offset : x > n => x # n /\ x > size BY <1>0 DEF n
  <2> QED BY <1>1, <1>2, <2>1, <2>2 DEF Kept
<1>6. Sized' BY <1>0, <1>2, <1>3 DEF Sized
<1>7. OldPointers' BY <1>1, <1>2, <1>3 DEF OldPointers, OneCommitted
<1>8. SameSize' BY <1>2 DEF SameSize, DirtyDurable
<1>9. CleanSound' BY <1>2 DEF CleanSound, DirtyDurable
<1>10. CrashSafe' BY <1>0, <1>1, <1>2, <1>3 DEF CrashSafe
<1> QED BY <1>4, <1>5, <1>6, <1>7, <1>8, <1>9, <1>10

\* A header with the same current_size, dirty or truthfully clean.
LEMMA HeaderStep ==
  ASSUME FileCore, NEW h \in Header, write_header(h), phase' \in Phase,
         UNCHANGED <<cache, size, disk, sdisk, face>>,
         h.current_size = hcache.current_size,
         hcache.flags = "clean" \/ (Synced /\ db_is_clean(h, size))
  PROVE  FileCore'
<1> USE DEF FileCore, write_header
<1>1. hcache \in hdisk BY DEF Kept
<1>2. FileTypeOK' BY DEF FileTypeOK
<1>3. Kept' BY DEF Kept
<1>4. Sized' BY <1>1 DEF Sized
<1>5. OldPointers' BY <1>1 DEF OldPointers
<1>6. SameSize' BY <1>1 DEF SameSize, DirtyDurable, Synced
<1>7. CleanSound'
  <2>1. CASE hcache.flags = "clean" BY <1>1, <2>1 DEF CleanSound
  <2>2. CASE Synced /\ db_is_clean(h, size)
    BY <1>1, <2>2 DEF CleanSound, Synced, db_is_clean
  <2> QED BY <2>1, <2>2
<1>8. CrashSafe' BY <1>1 DEF CrashSafe
<1> QED BY <1>2, <1>3, <1>4, <1>5, <1>6, <1>7, <1>8

\* A file in which no pointer leaves the file, synced and clean: a database that
\* was just opened, or the copy that mycheckpoint renames over the old file.
Fresh ==
  /\ Closed(cache, size, hcache) /\ Synced
  /\ phase = "clean"
  /\ face = [s \in Size |-> Faces(cache, size + 1)]

\* A closed and synced file satisfies the invariant.
LEMMA FreshFile == Fresh => FileInv
<1> SUFFICES ASSUME Fresh PROVE FileInv OBVIOUS
<1> USE DEF Fresh, Closed, Synced
<1>1. size \in Int /\ size >= 1 /\ size + 1 \in Size
  BY FileAssumption DEF Offset, Size
<1>2. hcache.current_size = size + 1 /\ hcache.flags = "clean"
  BY DEF db_is_clean
<1>3. FileTypeOK
  <2>1. face \in [Size -> [Offset -> FaceRec]] BY FacesType
  <2>2. hcache \in Header /\ phase \in Phase BY DEF Phase
  <2> QED BY <2>1, <2>2 DEF FileTypeOK
<1>4. Kept BY DEF Kept
<1>5. Sized BY <1>1, <1>2 DEF Sized
<1>6. OldPointers
  <2> SUFFICES ASSUME NEW o \in Offset PROVE OneCommitted(cache[o], size + 1)
    BY <1>2 DEF OldPointers
  <2>1. cache[o].nextloc[0] \in Int
    BY FileAssumption DEF Rec, Ptr
  <2> QED BY <1>1, <2>1 DEF OneCommitted
<1>7. SameSize BY DEF SameSize
<1>8. CleanSound BY <1>2 DEF CleanSound
<1>9. CrashSafe BY <1>1, <1>2 DEF CrashSafe, Faces
<1>10. Ordered BY DEF Ordered, db_is_clean, Phase
<1> QED BY <1>3, <1>4, <1>5, <1>6, <1>7, <1>8, <1>9, <1>10 DEF FileInv, FileCore

\* The commit point: a new current_size, written when everything is synced.
LEMMA PublishStep ==
  ASSUME FileInv, NEW n, PublishHeader(n)
  PROVE  FileInv'
<1> USE DEF FileInv, FileCore
<1> DEFINE h == [hcache EXCEPT !.flags = "clean", !.num_records = n,
                               !.current_size = size + 1]
<1>1. Synced BY DEF PublishHeader, Ordered
<1>2. /\ hcache' = h /\ hdisk' = {hcache, h}
      /\ face' = [face EXCEPT ![size + 1] = Faces(cache, size + 1)]
      /\ cache' = cache /\ size' = size /\ disk' = disk /\ sdisk' = sdisk
      /\ phase' = "publish" /\ n \in Int
  BY <1>1 DEF PublishHeader, write_header, Synced
<1>3. size \in Offset /\ size \in Int /\ size >= 1 /\ size + 1 \in Size
  BY FileAssumption DEF FileTypeOK, Offset, Size
<1>4. h \in Header /\ h.current_size = size + 1 /\ h.flags = "clean"
  BY <1>2, <1>3 DEF FileTypeOK, Header
<1>5. /\ hcache.current_size \in Int
      /\ 2 <= hcache.current_size /\ hcache.current_size <= size + 1
  BY <1>1, <1>3 DEF FileTypeOK, Header, Size, Sized, Synced
<1> HIDE DEF h
<1>6. FileTypeOK'
  <2>1. face' \in [Size -> [Offset -> FaceRec]]
    BY <1>2, <1>3, FacesType DEF FileTypeOK
  <2>2. phase' \in Phase BY <1>2 DEF Phase
  <2> QED BY <1>2, <1>4, <2>1, <2>2 DEF FileTypeOK
<1>7. Kept' BY <1>2 DEF Kept
<1>8. Sized' BY <1>1, <1>2, <1>3, <1>4, <1>5 DEF Sized, Synced
<1>9. OldPointers'
  <2> SUFFICES ASSUME NEW o \in Offset
               PROVE  /\ OneCommitted(cache[o], hcache.current_size)
                      /\ OneCommitted(cache[o], size + 1)
    BY <1>1, <1>2, <1>4 DEF OldPointers, Synced
  <2>1. OneCommitted(cache[o], hcache.current_size)
    BY <1>1 DEF OldPointers, Synced
  <2>2. cache[o].nextloc[0] \in Int /\ cache[o].nextloc[1] \in Int
    BY FileAssumption DEF FileTypeOK, Rec, Ptr
  <2> QED BY <1>3, <1>5, <2>1, <2>2 DEF OneCommitted
<1>10. SameSize' BY <1>2, <1>4 DEF SameSize, DirtyDurable
<1>11. CleanSound' BY <1>1, <1>2, <1>4 DEF CleanSound, Synced
<1>12. CrashSafe'
  <2> SUFFICES ASSUME NEW g \in {hcache, h}, NEW o \in Offset, o < g.current_size
               PROVE  Face(cache[o], g.current_size) = face'[g.current_size][o]
    BY <1>1, <1>2 DEF CrashSafe, Synced
  <2>1. CASE g.current_size = size + 1
    BY <1>2, <1>3, <2>1 DEF FileTypeOK, Faces
  <2>2. CASE g.current_size # size + 1
    <3>1. g = hcache /\ hcache.current_size \in Size
      BY <1>4, <2>2 DEF FileTypeOK, Header
    <3>2. face'[g.current_size] = face[g.current_size]
      BY <1>2, <2>2, <3>1 DEF FileTypeOK
    <3> QED BY <1>1, <3>1, <3>2 DEF CrashSafe, Synced
  <2> QED BY <2>1, <2>2
<1>13. Ordered' BY <1>2, <1>4 DEF Ordered, db_is_clean
<1> QED BY <1>6, <1>7, <1>8, <1>9, <1>10, <1>11, <1>12, <1>13

\* recovery1 cuts off what lies past the committed size.
LEMMA TruncateStep ==
  ASSUME FileInv, Truncate
  PROVE  FileInv'
<1> USE DEF FileInv, FileCore
<1> DEFINE s == hcache.current_size - 1
<1>1. hcache.current_size \in Int /\ s \in Offset /\ s \in Int /\ size \in Int
  BY FileAssumption DEF FileTypeOK, Header, Size, Sized, Kept, Offset
<1>2. /\ size' = s /\ sdisk' = sdisk \cup {s}
      /\ cache' = [o \in Offset |-> IF o > s THEN Absent ELSE cache[o]]
      /\ disk' = [o \in Offset |-> IF o > s THEN disk[o] \cup {Absent} ELSE disk[o]]
      /\ hcache' = hcache /\ hdisk' = hdisk /\ face' = face
      /\ phase' = "truncated"
  BY DEF Truncate, truncate
<1>3. \A h \in hdisk : /\ h.current_size \in Int /\ 2 <= h.current_size
                       /\ h.current_size - 1 <= s
  BY <1>1 DEF Truncate, SameSize, FileTypeOK, Header, Size, Sized, Kept
<1>4. s = hcache'.current_size - 1 BY <1>2
<1> HIDE DEF s
<1>5. FileTypeOK'
  <2>1. cache' \in [Offset -> Rec] /\ disk' \in [Offset -> SUBSET Rec]
    BY <1>2, AbsentType DEF FileTypeOK
  <2>2. phase' \in Phase BY <1>2 DEF Phase
  <2> QED BY <1>1, <1>2, <2>1, <2>2 DEF FileTypeOK
<1>6. Kept' BY <1>2 DEF Kept
<1>7. Sized' BY <1>2, <1>3 DEF Sized
<1>8. OldPointers' BY <1>2, <1>3, AbsentType DEF OldPointers, OneCommitted
<1>9. SameSize' BY <1>2 DEF SameSize, DirtyDurable
<1>10. CleanSound'
  <2> SUFFICES ASSUME ~DirtyDurable
               PROVE  /\ disk' = [o \in Offset |-> {cache'[o]}]
                      /\ sdisk' = {size'}
                      /\ \A h \in hdisk : h.flags = "clean" => h.current_size = size' + 1
    BY <1>2 DEF CleanSound, DirtyDurable
  <2>1. size = s BY DEF Truncate, s
  <2>2. \E h \in hdisk : h.flags = "clean"
    BY DEF DirtyDurable, FileTypeOK, Header
  <2>3. /\ disk = [o \in Offset |-> {cache[o]}] /\ sdisk = {size}
        /\ \A h \in hdisk : h.flags = "clean" => h.current_size = size + 1
    BY <2>2 DEF CleanSound
  <2>4. \A o \in Offset : disk'[o] = {cache'[o]} BY <1>2, <2>1, <2>3 DEF Kept
  <2> QED BY <1>2, <2>1, <2>3, <2>4
<1>11. CrashSafe'
  <2>1. \A h \in hdisk, o \in Offset : o < h.current_size => ~(o > s)
    BY <1>1, <1>3 DEF Offset
  <2> QED BY <1>2, <2>1 DEF CrashSafe
<1>12. Ordered' BY <1>2, <1>4 DEF Ordered
<1> QED BY <1>5, <1>6, <1>7, <1>8, <1>9, <1>10, <1>11, <1>12

\* A power loss picks one version of every location, and any choice is good.
LEMMA PowerStep ==
  ASSUME FileInv, PowerLoss(cache', size', hcache')
  PROVE  FileInv'
<1> USE DEF FileInv, FileCore
<1>1. /\ size' \in sdisk /\ hcache' \in hdisk /\ cache' \in [Offset -> Rec]
      /\ \A o \in Offset : IF o <= size' THEN cache'[o] \in disk[o]
                                         ELSE cache'[o] = Absent
      /\ disk' = [o \in Offset |-> {cache'[o]}]
      /\ sdisk' = {size'} /\ hdisk' = {hcache'}
      /\ phase' = IF db_is_clean(hcache', size') THEN "clean" ELSE "dead"
      /\ face' = [t \in Size |-> face[hcache'.current_size]]
  BY DEF PowerLoss
<1>2. /\ size' \in Offset /\ size' \in Int /\ hcache' \in Header
      /\ hcache'.current_size \in Size /\ hcache'.current_size \in Int
  BY <1>1, FileAssumption DEF FileTypeOK, Offset, Header, Size
<1>3. 2 <= hcache'.current_size /\ hcache'.current_size - 1 <= size'
  BY <1>1 DEF Sized
<1>4. FileTypeOK'
  <2>1. phase' \in Phase BY <1>1 DEF Phase
  <2>2. face' \in [Size -> [Offset -> FaceRec]] BY <1>1, <1>2 DEF FileTypeOK
  <2> QED BY <1>1, <1>2, <2>1, <2>2 DEF FileTypeOK
<1>5. Kept'
  <2>1. \A o \in Offset : o > size' => ~(o <= size') BY <1>2 DEF Offset
  <2> QED BY <1>1, <2>1 DEF Kept
<1>6. Sized' BY <1>1, <1>3 DEF Sized
<1>7. OldPointers'
  <2> SUFFICES ASSUME NEW o \in Offset
               PROVE  OneCommitted(cache'[o], hcache'.current_size)
    BY <1>1 DEF OldPointers
  <2>1. CASE o <= size' BY <1>1, <2>1 DEF OldPointers
  <2>2. CASE ~(o <= size')
    BY <1>1, <1>2, <1>3, <2>2, AbsentType DEF OneCommitted
  <2> QED BY <2>1, <2>2
<1>8. SameSize' BY <1>1 DEF SameSize
<1>9. CleanSound' BY <1>1 DEF CleanSound
<1>10. CrashSafe'
  <2> SUFFICES ASSUME NEW o \in Offset, o < hcache'.current_size
               PROVE  Face(cache'[o], hcache'.current_size)
                        = face[hcache'.current_size][o]
    BY <1>1, <1>2 DEF CrashSafe
  <2>1. cache'[o] \in disk[o] BY <1>1, <1>2, <1>3 DEF Offset
  <2> QED BY <1>1, <2>1 DEF CrashSafe
<1>11. Ordered' BY <1>1 DEF Ordered, db_is_clean
<1> QED BY <1>4, <1>5, <1>6, <1>7, <1>8, <1>9, <1>10, <1>11

-----------------------------------------------------------------------------
(* FileInv is inductive.                                                    *)

\* Every step of a writer, of recovery1 and of a crash keeps FileInv.
LEMMA FileStep == FileInv /\ [FileNext]_fileVars => FileInv'
<1> SUFFICES ASSUME FileInv, [FileNext]_fileVars PROVE FileInv' OBVIOUS
<1>0. /\ FileCore /\ Ordered
      /\ hcache \in Header /\ hcache \in hdisk /\ hcache.current_size \in Size
      /\ cache \in [Offset -> Rec] /\ size \in Offset
  BY DEF FileInv, FileCore, FileTypeOK, Kept, Header
<1>c. \A o \in Offset : OneCommitted(cache[o], hcache.current_size)
  BY <1>0 DEF FileCore, OldPointers, Kept
<1>s. /\ hcache.current_size \in Int /\ hcache.current_size >= 2 /\ size \in Int
      /\ \A o \in Offset : o < hcache.current_size => o <= size
  BY <1>0 DEF FileCore, Sized, Kept, Offset, Size
<1>t. CASE commit /\ phase' \in Phase /\ Ordered'
  BY <1>0, <1>t, CommitStep DEF FileInv
<1>1. CASE DirtyHeader(hcache'.num_records)
  <2> DEFINE h == [hcache EXCEPT !.flags = "dirty", !.num_records = hcache'.num_records]
  <2>1. h \in Header /\ h.current_size = hcache.current_size
    BY <1>0, <1>1 DEF DirtyHeader, Header
  <2>2. write_header(h) /\ phase' = "dirtying" BY <1>1 DEF DirtyHeader
  <2> HIDE DEF h
  <2>3. FileCore' BY <1>0, <1>1, <2>1, <2>2, HeaderStep DEF DirtyHeader, Phase
  <2>4. Ordered' BY <2>2 DEF Ordered
  <2> QED BY <2>3, <2>4 DEF FileInv
<1>2. CASE SyncDirty BY <1>2, <1>t DEF SyncDirty, Phase, Ordered
<1>3. CASE AppendRecord(cache'[size + 1])
  <2>1. FileCore' BY <1>0, <1>3, AppendStep DEF AppendRecord, FileTypeOK, FileCore
  <2>2. Ordered' BY <1>3 DEF AppendRecord, Ordered
  <2> QED BY <2>1, <2>2 DEF FileInv
<1>4. CASE \E o \in Offset : RewriteRecord(o, cache'[o])
  <2> PICK o \in Offset : RewriteRecord(o, cache'[o]) BY <1>4
  <2> DEFINE r == cache'[o]
  <2>1. /\ r \in Rec /\ OneCommitted(r, hcache.current_size)
        /\ Face(r, hcache.current_size) = Face(cache[o], hcache.current_size)
    BY <1>0, <1>c, RestitchKeepsFace DEF RewriteRecord
  <2>2. FileCore' BY <1>0, <2>1, PwriteStep DEF RewriteRecord
  <2>3. Ordered' BY DEF RewriteRecord, Ordered
  <2> QED BY <2>2, <2>3 DEF FileInv
<1>5. CASE AppendCommit
  <2> DEFINE r == commitRecord(hcache.current_size)
  <2>1. hcache.current_size - 1 <= size BY <1>0 DEF FileCore, Sized, Kept
  <2>2. hcache.current_size \in Ptr
    BY <1>5, <1>s, <2>1, FileAssumption DEF AppendCommit, Ptr
  <2>3. r \in Rec /\ r.nextloc[1] = 0 BY <2>2, CommitRecordType
  <2> HIDE DEF r
  <2>4. write_record(r) /\ phase' \in Phase BY <1>5 DEF AppendCommit, Phase, r
  <2>5. FileCore' BY <1>0, <1>5, <2>3, <2>4, AppendStep DEF AppendCommit
  <2>6. Ordered' BY <1>5 DEF AppendCommit, Ordered
  <2> QED BY <2>5, <2>6 DEF FileInv
<1>6. CASE SyncData
  <2>1. FileCore' /\ Synced' BY <1>0, <1>6, CommitStep DEF SyncData, Phase
  <2>2. Ordered' BY <1>6, <2>1 DEF SyncData, Ordered
  <2> QED BY <2>1, <2>2 DEF FileInv
<1>7. CASE PublishHeader(hcache'.num_records) BY <1>7, PublishStep
<1>8. CASE SyncHeader
  BY <1>0, <1>8, <1>t DEF SyncHeader, Phase, Ordered, commit, db_is_clean
<1>9. CASE BeginRecovery
  <2>1. FileCore'
    BY <1>0, <1>9 DEF BeginRecovery, Phase, FileCore, FileTypeOK, Kept, Sized,
       OldPointers, SameSize, DirtyDurable, CleanSound, CrashSafe
  <2>2. Ordered' BY <1>9 DEF BeginRecovery, Ordered
  <2> QED BY <2>1, <2>2 DEF FileInv
<1>10. CASE \E o \in Offset : FixLevelZero(o)
  <2> PICK o \in Offset : FixLevelZero(o) BY <1>10
  <2> DEFINE r == zerolocs(cache[o], hcache.current_size)
  <2>1. /\ r \in Rec /\ OneCommitted(r, hcache.current_size)
        /\ Face(r, hcache.current_size) = Face(cache[o], hcache.current_size)
    BY <1>0, <1>c, <1>s, ZeroKeepsFace
  <2>2. pwrite(o, r) BY DEF FixLevelZero
  <2> HIDE DEF r
  <2>3. FileCore' BY <1>0, <1>s, <2>1, <2>2, PwriteStep DEF FixLevelZero
  <2>4. Ordered' BY DEF FixLevelZero, Ordered
  <2> QED BY <2>3, <2>4 DEF FileInv
<1>11. CASE \E o \in Offset : FixUpper(o, cache'[o])
  <2> PICK o \in Offset : FixUpper(o, cache'[o]) BY <1>11
  <2>1. /\ cache'[o] \in Rec /\ OneCommitted(cache'[o], hcache.current_size)
        /\ Face(cache'[o], hcache.current_size) = Face(cache[o], hcache.current_size)
    BY <1>0, <1>c, UpperKeepsFace DEF FixUpper
  <2>2. FileCore' BY <1>0, <1>s, <2>1, PwriteStep DEF FixUpper
  <2>3. Ordered' BY DEF FixUpper, Ordered
  <2> QED BY <2>2, <2>3 DEF FileInv
<1>12. CASE Truncate BY <1>12, TruncateStep
<1>13. CASE SyncTruncate
  <2>1. FileCore' /\ Synced' BY <1>0, <1>13, CommitStep DEF SyncTruncate, Phase
  <2>2. Ordered' BY <1>0, <1>13, <2>1 DEF SyncTruncate, Ordered, commit
  <2> QED BY <2>1, <2>2 DEF FileInv
<1>14. CASE ClearHeader(hcache'.num_records)
  <2> DEFINE h == [hcache EXCEPT !.flags = "clean", !.num_records = hcache'.num_records]
  <2>1. /\ h \in Header /\ h.current_size = hcache.current_size
        /\ h.flags = "clean"
    BY <1>0, <1>14 DEF ClearHeader, Header
  <2>2. write_header(h) /\ phase' = "clearing" BY <1>14 DEF ClearHeader
  <2>3. Synced /\ size = hcache.current_size - 1
    BY <1>0, <1>14 DEF ClearHeader, Ordered
  <2> HIDE DEF h
  <2>4. db_is_clean(h, size) BY <1>s, <2>1, <2>3 DEF db_is_clean
  <2>5. FileCore' BY <1>0, <1>14, <2>1, <2>2, <2>3, <2>4, HeaderStep DEF ClearHeader, Phase
  <2>6. Ordered' BY <1>14, <2>2, <2>4 DEF Ordered, ClearHeader, write_header
  <2> QED BY <2>5, <2>6 DEF FileInv
<1>15. CASE SyncClear
  BY <1>0, <1>15, <1>t DEF SyncClear, Phase, Ordered, commit, db_is_clean
<1>16. CASE Replace(cache', size', hcache')
  <2>1. Fresh' BY <1>16 DEF Replace, Fresh, Synced
  <2> QED BY <2>1, FreshFile, PTL
<1>17. CASE WriterDies
  <2>1. FileCore'
    BY <1>0, <1>17 DEF WriterDies, Phase, FileCore, FileTypeOK, Kept, Sized,
       OldPointers, SameSize, DirtyDurable, CleanSound, CrashSafe
  <2>2. Ordered' BY <1>17 DEF WriterDies, Ordered, db_is_clean
  <2> QED BY <2>1, <2>2 DEF FileInv
<1>18. CASE PowerLoss(cache', size', hcache') BY <1>18, PowerStep
<1>19. CASE UNCHANGED fileVars
  BY <1>0, <1>19 DEF fileVars, FileInv, FileCore, FileTypeOK, Kept, Sized, OldPointers,
     SameSize, DirtyDurable, CleanSound, CrashSafe, Ordered, Synced, db_is_clean
<1> QED BY <1>1, <1>2, <1>3, <1>4, <1>5, <1>6, <1>7, <1>8, <1>9, <1>10, <1>11,
           <1>12, <1>13, <1>14, <1>15, <1>16, <1>17, <1>18, <1>19 DEF FileNext

\* The write order keeps FileInv, whatever the file holds when it is opened.
THEOREM FileInvariant == FileSpec => []FileInv
<1>1. FileInit => FileInv
  <2>1. FileInit => Fresh BY DEF FileInit, Fresh, Synced
  <2> QED BY <2>1, FreshFile
<1> QED BY <1>1, FileStep, PTL DEF FileSpec

\* For every file: no power loss and no kill, during a transaction, a commit or
\* a recovery, changes a record or a level zero pointer of the committed file.
THEOREM FileCrashSafe == FileSpec => []CrashSafe
<1>1. FileInv => CrashSafe BY DEF FileInv, FileCore
<1> QED BY <1>1, FileInvariant, PTL

\* For every file: a header on the disk that says clean says the truth.
THEOREM FileCleanSound == FileSpec => []CleanSound
<1>1. FileInv => CleanSound BY DEF FileInv, FileCore
<1> QED BY <1>1, FileInvariant, PTL
=============================================================================
