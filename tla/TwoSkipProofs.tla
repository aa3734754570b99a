---------------------------- MODULE TwoSkipProofs ----------------------------
(***************************************************************************)
(* The processes of module TwoSkip, for any processes, keys, values,       *)
(* levels, file sizes and faults: SkipInv is inductive, and from it follow *)
(* the safety properties of the runs and both refinements, of the file     *)
(* (FileSpec) and of the abstract store (StoreSpec).                       *)
(*                                                                         *)
(*   Numbers and walks, locations, stitch, recovery1 and the copy of       *)
(*   mycheckpoint are treated first, as facts about operators; then the    *)
(*   parts of the invariant; then one lemma per action.  Each of these     *)
(*   shows that the action keeps SkipInv and is a step of the store and    *)
(*   of the file, or none.                                                 *)
(***************************************************************************)
EXTENDS TwoSkip, TwoSkipFileProofs, FiniteSetTheorems, WellFoundedInduction,
        SequenceTheorems

-----------------------------------------------------------------------------
(* Lists.                                                                   *)

Nodes(L) == L \cup {DUMMY_OFFSET}

\* The records of L that have level l.
Above(f, L, l) == {x \in L : l < f[x].level}

\* The DUMMY, and records with different keys.
Records(f, n, L) ==
  /\ L \subseteq 2 .. n - 1
  /\ f[DUMMY_OFFSET].type = "DUMMY" /\ f[DUMMY_OFFSET].key = 0
  /\ f[DUMMY_OFFSET].level = MaxLevel
  /\ \A o \in L : /\ f[o].type = "RECORD" /\ f[o].key \in Key
                  /\ f[o].level \in 1 .. MaxLevel /\ f[o].val \in Val
  /\ \A o, x \in L : f[o].key = f[x].key => o = x

\* The place after o on level zero, which is not past n.
Linked(f, n, L, o) ==
  /\ f[o].next < n
  /\ IsNext(f, L, f[o].key, following(f, o))

\* The records L are linked on level zero in the order of their keys.
List(f, n, L) == Records(f, n, L) /\ \A o \in Nodes(L) : Linked(f, n, L, o)

ContentOf(f, L) ==
  [k \in {f[o].key : o \in L} |-> f[CHOOSE o \in L : f[o].key = k].val]

\* The pointer of o at level l is right.
Upper(f, c, L, o, l) == IsNext(f, Above(f, L, l), f[o].key, c[o].nextloc[l + 1])

\* A file of s records that has the list L on level zero and on each level above
\* the records that have it.
Full(c, s, L) ==
  LET f == Faces(c, s + 1)
  IN /\ List(f, s + 1, L)
     /\ \A o \in Nodes(L) : c[o].nextloc[0] <= s /\ c[o].nextloc[1] <= s
     /\ \A o \in Nodes(L) : \A l \in 1 .. f[o].level - 1 : Upper(f, c, L, o, l)

\* x is the last of the records with level l before the key k.
IsPrev(f, L, l, k, x) ==
  /\ x \in Nodes(L) /\ l < f[x].level
  /\ x # DUMMY_OFFSET => f[x].key < k
  /\ \A y \in Above(f, L, l) : f[y].key < k => f[y].key <= f[x].key

\* The location l is where its key is, or where it would be.
IsLoc(f, L, l) ==
  /\ l.exact = (\E o \in L : f[o].key = l.key)
  /\ l.exact => l.at \in L /\ f[l.at].key = l.key
  /\ ~l.exact => l.at = l.back[0]
  /\ \A i \in Levels : IsPrev(f, L, i, l.key, l.back[i])
  /\ l.fwd[0] = f[l.at].next
  /\ \A i \in Levels \ {0} : IsNext(f, Above(f, L, i), l.key, l.fwd[i])

LocType == [key: Key \cup {0}, exact: BOOLEAN, at: Ptr, back: [Levels -> Ptr],
            fwd: [Levels -> Ptr], gen: Nat, end: Size]

-----------------------------------------------------------------------------
(* The state.                                                               *)

now == Faces(cache, size + 1)
W == Live(now)
then(h) == face[h.current_size]

\* The records of the committed file.
Base == Live(then(hcache))

\* A DELETE record points back, with its first pointer only.
Deletes ==
  \A o \in Offset : \A v \in disk[o] :
    v.type = "DELETE" => v.nextloc[1] = 0 /\ v.nextloc[0] < o

Lists ==
  \A h \in hdisk : /\ List(then(h), h.current_size, Live(then(h)))
                   /\ h.flags = "clean" => h.num_records = Cardinality(Live(then(h)))

Tidy == ~DirtyDurable => hcache.current_size = size + 1 /\ Full(cache, size, W)

\* The last record of a file that has any is no record of the list.
Ended ==
  \A h \in hdisk : /\ h.current_size - 1 \notin Live(then(h))
                   /\ h.generation >= 1 /\ h.generation = hcache.generation

FileMore == Deletes /\ Lists /\ Tidy /\ Ended

Writing == {"txn", "dirty", "dirtysync", "append", "commitsync", "publish"}
Opening == {"dirty", "dirtysync", "append"}
Repaired == {"truncsync", "clear", "clearsync"}
Mending == {"recover", "dummy", "walk"} \cup Repaired

\* The step of the writer and the phase of the file.
Phases ==
  /\ pc = "idle" => phase = IF db_is_clean(hcache, size) THEN "clean" ELSE "dead"
  /\ pc = "txn" => \/ phase = "clean"
                   \/ phase = "txn" /\ hcache.flags = "dirty" /\ DirtyDurable
  /\ pc = "dirty" => phase = "clean"
  /\ pc = "dirtysync" => phase = "dirtying" /\ hcache.flags = "dirty"
                         /\ hcache.current_size = size + 1
  /\ pc \in {"append", "stitch"} => phase = "txn" /\ hcache.flags = "dirty" /\ DirtyDurable
  /\ pc = "commitsync" => phase = "commit" /\ hcache.flags = "dirty" /\ DirtyDurable
  /\ pc = "publish" => phase = "synced" /\ hcache.flags = "dirty"
  /\ pc \in {"stitch", "commitsync", "publish"} => hcache.current_size <= size
  /\ pc = "publishsync" => phase = "publish"
  /\ pc \in {"finish", "returned"} => phase = "clean"
  /\ pc = "recover" => \/ phase = "clean" /\ ret = "idle"
                       \/ phase \in {"dead", "txn"} /\ hcache.flags = "dirty"
  /\ pc \in {"dummy", "walk"} => phase = "fix"
  /\ pc = "truncsync" => phase = "truncated"
  /\ pc = "clear" => phase = "fixed"
  /\ pc = "clearsync" => /\ phase = "clearing"
                         /\ \A h \in hdisk : h.current_size = hcache.current_size

ProcTypes ==
  /\ owner \in Proc \cup {NoProc} /\ readers \subseteq Proc
  /\ pc \in {"idle", "stitch", "publishsync", "finish", "returned"} \cup Writing \cup Mending
  /\ (owner = NoProc) = (pc = "idle")
  /\ owner # NoProc => readers = {}
  /\ op = [rec |-> op.rec, max |-> op.max, lvl |-> op.lvl]
  /\ (op # NoOp) = (pc \in Opening \cup {"stitch"})
  /\ loc \in [Proc -> LocType]
  /\ iter \in [Proc -> Key \cup {0}] /\ titer \in Key \cup {0}
  /\ num \in Int /\ ret \in {"idle", "txn"}
  /\ pc \notin Mending => ret = "idle"
  /\ pc \in {"idle"} \cup Mending => work = NoTxn

\* A list that is whole, and what the transaction has made of it.
Whole ==
  pc \in Writing \cup Repaired \cup {"publishsync", "finish", "returned"} =>
    Full(cache, size, W)

Working ==
  /\ pc \in Writing => work = ContentOf(now, W)
  /\ pc \in {"publishsync", "finish"} => work = ContentOf(now, W)
  /\ pc \in {"txn", "commitsync", "publish", "clearsync"} => num = Cardinality(W)
  /\ pc \in {"commitsync", "publish"} => size \notin W
  /\ pc \in {"truncsync", "clear"} => rv.n = Cardinality(W)

\* The record that is written for the location l, and its number of levels.
IsStore(l, rec, mx) ==
  \E level \in 1 .. MaxLevel, v \in Val :
    /\ rec = [type |-> "RECORD", level |-> level, key |-> l.key, val |-> v,
              nextloc |-> [j \in 0..MaxLevel |-> IF j \in 1..level THEN l.fwd[j - 1] ELSE 0]]
    /\ mx = IF l.exact THEN Max({level, levelat(l.at)}) ELSE level
IsDelete(l, rec, mx) ==
  /\ l.exact
  /\ rec = [Absent EXCEPT !.type = "DELETE",
                          !.nextloc = [NoPtrs EXCEPT ![0] = skipdelete(cache, l.fwd[0])]]
  /\ mx = levelat(l.at)

Prepared ==
  pc \in Opening =>
    LET l == loc[owner]
    IN /\ IsLoc(now, W, l) /\ l.key # 0 /\ l.end = size + 1
       /\ l.gen = hcache.generation
       /\ op.lvl = 0
       /\ IsStore(l, op.rec, op.max) \/ IsDelete(l, op.rec, op.max)
       /\ num = Cardinality(IF l.exact THEN W \ {l.at} ELSE W)
       /\ size < MaxOffset

\* The record rec at the end of the file, s, is to be linked at the location l into
\* the records L, or to take one out; mx is the number of levels that change.
Fits(f, c, s, L, l, rec, mx) ==
  LET stored == rec.type = "RECORD"
      top == IF stored THEN rec.level ELSE 1
      k == l.key
  IN /\ Records(f, s, L) /\ k \in Key /\ c[s] = rec
     /\ l.exact = (\E o \in L : f[o].key = k)
     /\ l.exact => l.at \in L /\ f[l.at].key = k
     /\ \A i \in Levels : IsPrev(f, L, i, k, l.back[i])
     /\ \A i \in Levels : IF i < top THEN l.fwd[i] = s
                          ELSE IsNext(f, Above(f, L, i), k, l.fwd[i])
     /\ stored => /\ rec.key = k /\ rec.val \in Val /\ rec.level \in 1 .. MaxLevel
                  /\ mx = IF l.exact THEN Max({rec.level, f[l.at].level}) ELSE rec.level
                  /\ rec.nextloc[0] = 0 /\ rec.nextloc[1] < s
                  /\ IsNext(f, L, k, following(f, s))
                  /\ \A i \in 1 .. rec.level - 1 : IsNext(f, Above(f, L, i), k, rec.nextloc[i + 1])
     /\ ~stored => /\ rec.type = "DELETE" /\ l.exact /\ mx = f[l.at].level
                   /\ rec.nextloc[1] = 0 /\ rec.nextloc[0] < s
                   /\ IsNext(f, L, k, rec.nextloc[0])

\* The levels below lvl lead to the new record, or past the deleted one.
Sewn(f, c, s, L, l, lvl) ==
  \A o \in Nodes(L) :
    /\ c[o].nextloc[0] <= s /\ c[o].nextloc[1] <= s
    /\ IF lvl > 0 /\ o = l.back[0] THEN f[o].next = s ELSE Linked(f, s, L, o)
    /\ \A i \in 1 .. f[o].level - 1 :
         IF i < lvl /\ o = l.back[i] THEN c[o].nextloc[i + 1] = l.fwd[i]
         ELSE Upper(f, c, L, o, i)

Stitched(L) ==
  LET l == loc[owner]
  IN /\ Fits(now, cache, size, L, l, op.rec, op.max)
     /\ Sewn(now, cache, size, L, l, op.lvl)
     /\ op.lvl \in 0 .. op.max - 1 /\ size >= 2 /\ l.gen = hcache.generation
     /\ work = ContentOf(now, L)
     /\ num = Cardinality(IF l.exact THEN L \ {l.at} ELSE L)

Stitching == pc = "stitch" => \E L \in SUBSET Offset : Stitched(L)

\* What recovery1 has passed is right; prev is where the levels go on.
Walk1 == [last: Ptr, cur: Ptr, prev: [2 .. MaxLevel -> Ptr],
          next: [2 .. MaxLevel -> Ptr], n: Nat]
Walked(c, r, f, n, L) ==
  /\ r \in Walk1 /\ r.last \in Nodes(L) /\ IsNext(f, L, f[r.last].key, r.cur)
  /\ \A i \in 2 .. MaxLevel :
       /\ r.prev[i] \in Nodes(L) /\ i <= f[r.prev[i]].level
       /\ f[r.prev[i]].key <= f[r.last].key
       /\ \A y \in L : i <= f[y].level /\ f[y].key <= f[r.last].key
                         => f[y].key <= f[r.prev[i]].key
       /\ r.next[i] = c[r.prev[i]].nextloc[i]
  /\ \A o \in Nodes(L) : f[o].key <= f[r.last].key =>
       /\ c[o].nextloc[0] < n /\ c[o].nextloc[1] < n
       /\ \A l \in 1 .. f[o].level - 1 : o # r.prev[l + 1] => Upper(f, c, L, o, l)
  /\ r.n = Cardinality({o \in L : f[o].key <= f[r.last].key})

Walking ==
  pc = "walk" =>
    Walked(cache, rv, then(hcache), hcache.current_size, Base)

\* A location of the generation g is no newer than the file of n - 1 records, and
\* right if it is as new.
Fit(l, g, n, f, L) == l.gen = g => l.end <= n /\ (l.end = n => IsLoc(f, L, l))

\* The locations fit the committed file, and the writer's its transaction.
Locs ==
  \A q \in Proc :
    /\ loc[q].gen <= hcache.generation
    /\ q = owner /\ pc \in Writing => Fit(loc[q], hcache.generation, size + 1, now, W)
    /\ q # owner \/ pc \notin Writing \cup {"stitch"} =>
         Fit(loc[q], hcache.generation, hcache.current_size, then(hcache), Base)

SkipInv ==
  /\ FileInv /\ ProcTypes /\ FileMore /\ Phases /\ Whole /\ Working
  /\ Prepared /\ Stitching /\ Walking /\ Locs

-----------------------------------------------------------------------------
(* Numbers and walks.                                                       *)

\* Induction, as a fact about sets.
LEMMA NatSet ==
  ASSUME NEW S, 0 \in S, \A n \in Nat : n \in S => n + 1 \in S
  PROVE  \A n \in Nat : n \in S
<1> SUFFICES ASSUME Nat \ S # {} PROVE FALSE OBVIOUS
<1> DEFINE T == Nat \ S
<1>1. PICK x \in T : \A y \in T : ~(<<y, x>> \in OpToRel(<, Nat))
  <2>1. T \subseteq Nat /\ T # {} OBVIOUS
  <2> HIDE DEF T
  <2> QED BY <2>1, NatLessThanWellFounded, WFMin, Zenon
<1>2. x \in Nat \ {0} /\ x - 1 \in Nat /\ x = (x - 1) + 1 OBVIOUS
<1>3. x - 1 \in T BY <1>2
<1>4. <<x - 1, x>> \in OpToRel(<, Nat)
  <2>1. x - 1 < x /\ x - 1 \in Nat /\ x \in Nat BY <1>2
  <2> QED BY <2>1, Zenon DEF OpToRel
<1> QED BY <1>1, <1>3, <1>4, Zenon

\* Induction up to a bound.
LEMMA UpTo ==
  ASSUME NEW n \in Nat, NEW S, 0 \in S, \A i \in 0 .. n - 1 : i \in S => i + 1 \in S
  PROVE  \A i \in 0 .. n : i \in S
<1> DEFINE T == {i \in Nat : i <= n => i \in S}
<1>1. 0 \in T OBVIOUS
<1>2. \A i \in Nat : i \in T => i + 1 \in T OBVIOUS
<1> HIDE DEF T
<1>3. \A i \in Nat : i \in T BY <1>1, <1>2, NatSet
<1> QED BY <1>3 DEF T

\* A set of numbers that is not empty has a least one.
LEMMA Least ==
  ASSUME NEW S, S \subseteq Nat, S # {}
  PROVE  Min(S) \in S /\ \A y \in S : Min(S) <= y
<1>1. PICK x \in S : \A y \in S : ~(<<y, x>> \in OpToRel(<, Nat))
  BY NatLessThanWellFounded, WFMin, Zenon
<1>2. \A y \in S : x <= y
  <2> SUFFICES ASSUME NEW y \in S, y < x PROVE FALSE OBVIOUS
  <2>1. <<y, x>> \in OpToRel(<, Nat) BY Zenon DEF OpToRel
  <2> QED BY <1>1, <2>1
<1> QED BY <1>2 DEF Min

\* A bounded one has a greatest.
LEMMA Greatest ==
  ASSUME NEW n \in Nat, NEW S, S \subseteq 0 .. n, S # {}
  PROVE  Max(S) \in S /\ \A y \in S : y <= Max(S)
<1> DEFINE T == {n - x : x \in S}
<1>1. T \subseteq Nat /\ T # {}
  <2>1. \A x \in S : n - x \in Nat OBVIOUS
  <2>2. PICK x \in S : TRUE OBVIOUS
  <2>3. n - x \in T OBVIOUS
  <2> QED BY <2>1, <2>3
<1>2. Min(T) \in T /\ \A y \in T : Min(T) <= y
  <2> HIDE DEF T
  <2> QED BY <1>1, Least
<1>3. PICK x \in S : Min(T) = n - x BY <1>2
<1>4. \A y \in S : y <= x
  <2> SUFFICES ASSUME NEW y \in S PROVE y <= x OBVIOUS
  <2>1. n - y \in T OBVIOUS
  <2>2. n - x <= n - y BY <1>2, <1>3, <2>1
  <2> QED BY <2>2
<1>5. \E z \in S : \A y \in S : z >= y BY <1>4
<1> QED BY <1>5 DEF Max

IsWalk(f, step, o, n) == f = [i \in 0 .. n |-> IF i = 0 THEN o ELSE step[f[i - 1]]]

\* A walk is the function that its recursion describes.
LEMMA WalkExists ==
  ASSUME NEW step, NEW o
  PROVE  \A n \in Nat : \E f : IsWalk(f, step, o, n)
<1> DEFINE P == {n \in Nat : \E f : IsWalk(f, step, o, n)}
<1>1. 0 \in P
  <2>1. [i \in 0 .. 0 |-> o]
          = [i \in 0 .. 0 |-> IF i = 0 THEN o ELSE step[[j \in 0 .. 0 |-> o][i - 1]]]
    OBVIOUS
  <2> QED BY <2>1 DEF IsWalk
<1>2. ASSUME NEW n \in Nat, n \in P PROVE n + 1 \in P
  <2>1. PICK f : IsWalk(f, step, o, n) BY <1>2
  <2> DEFINE g == [i \in 0 .. n + 1 |-> IF i <= n THEN f[i] ELSE step[f[n]]]
  <2>2. ASSUME NEW i \in 0 .. n + 1 PROVE g[i] = IF i = 0 THEN o ELSE step[g[i - 1]]
    <3>1. CASE i <= n
      <4>1. i \in 0 .. n BY <3>1
      <4>2. f[i] = IF i = 0 THEN o ELSE step[f[i - 1]] BY <2>1, <4>1 DEF IsWalk
      <4>3. i # 0 => i - 1 \in 0 .. n + 1 /\ i - 1 <= n BY <4>1
      <4> QED BY <4>1, <4>2, <4>3
    <3>2. CASE i = n + 1 BY <3>2
    <3> QED BY <3>1, <3>2
  <2>3. IsWalk(g, step, o, n + 1)
    <3> HIDE DEF g
    <3>1. g = [i \in 0 .. n + 1 |-> g[i]] BY DEF g
    <3> QED BY <3>1, <2>2, Zenon DEF IsWalk
  <2> HIDE DEF g
  <2> QED BY <2>3
<1> HIDE DEF P
<1>3. \A n \in Nat : n \in P BY <1>1, <1>2, NatSet
<1> QED BY <1>3 DEF P

\* A walk begins where it begins, and goes on with its step.
LEMMA WalkSteps ==
  ASSUME NEW S, NEW step \in [S -> S], NEW o \in S, NEW n \in Nat
  PROVE  LET w == Walk(step, o, n)
         IN /\ w[0] = o
            /\ \A i \in 0 .. n : w[i] \in S
            /\ \A i \in 0 .. n - 1 : w[i + 1] = step[w[i]]
<1> DEFINE w == Walk(step, o, n)
<1>1. w = CHOOSE f : IsWalk(f, step, o, n) BY DEF Walk, IsWalk
<1>2. IsWalk(w, step, o, n) BY <1>1, WalkExists
<1> HIDE DEF w
<1>3. w[0] = o BY <1>2 DEF IsWalk
<1>4. ASSUME NEW i \in 0 .. n - 1 PROVE w[i + 1] = step[w[i]]
  <2>1. i + 1 \in 0 .. n /\ i + 1 # 0 /\ (i + 1) - 1 = i OBVIOUS
  <2> QED BY <1>2, <2>1 DEF IsWalk
<1>5. \A i \in 0 .. n : w[i] \in S
  <2> DEFINE P == {i \in Nat : w[i] \in S}
  <2>1. 0 \in P BY <1>3
  <2>2. \A i \in 0 .. n - 1 : i \in P => i + 1 \in P BY <1>4
  <2> HIDE DEF P
  <2>3. \A i \in 0 .. n : i \in P BY <2>1, <2>2, UpTo
  <2> QED BY <2>3 DEF P
<1> QED BY <1>3, <1>4, <1>5 DEF w

-----------------------------------------------------------------------------
(* What the list on level zero is.                                          *)

\* Keys are positive numbers; 0 stands for the start of the database.
LEMMA Keys == \A k \in Key : k \in Nat /\ k > 0
BY FileAssumption

\* The types of the DUMMY and of the records of a list.
LEMMA RecordFacts ==
  ASSUME NEW f \in [Offset -> FaceRec], NEW n \in 2 .. MaxOffset + 1, NEW L, Records(f, n, L)
  PROVE  /\ L \subseteq Offset /\ Nodes(L) \subseteq Offset
         /\ DUMMY_OFFSET \in Offset /\ DUMMY_OFFSET \notin L /\ 0 \notin Nodes(L)
         /\ \A o \in Nodes(L) : /\ f[o].key \in Nat /\ o < n
                                /\ f[o].level \in 1 .. MaxLevel /\ f[o].type # "DELETE"
         /\ \A o \in L : f[o].key > 0
         /\ \A o \in Offset : f[o].next \in Ptr /\ f[o].level \in 0 .. MaxLevel
         /\ \A o, x \in Nodes(L) : f[o].key = f[x].key => o = x
<1>1. L \subseteq Offset /\ DUMMY_OFFSET \in Offset /\ DUMMY_OFFSET \notin L
  BY FileAssumption DEF Records, Offset, DUMMY_OFFSET
<1>2. 0 \notin L BY DEF Records
<1>3. \A o \in L : f[o].key \in Nat /\ f[o].key > 0 BY Keys DEF Records
<1>4. \A o \in L : f[o].level \in 1 .. MaxLevel /\ f[o].type # "DELETE" /\ o < n
  BY DEF Records
<1>5. \A o \in Offset : f[o].next \in Ptr /\ f[o].level \in 0 .. MaxLevel BY DEF FaceRec
<1>6. /\ f[DUMMY_OFFSET].key = 0 /\ f[DUMMY_OFFSET].level = MaxLevel
      /\ f[DUMMY_OFFSET].type = "DUMMY" /\ MaxLevel \in 1 .. MaxLevel
      /\ DUMMY_OFFSET < n
  BY FileAssumption DEF Records, DUMMY_OFFSET
<1>7. \A o, x \in L : f[o].key = f[x].key => o = x BY DEF Records
<1> QED BY <1>1, <1>2, <1>3, <1>4, <1>5, <1>6, <1>7 DEF Nodes, DUMMY_OFFSET

\* There is one first record after a key.
LEMMA NextUnique ==
  ASSUME NEW f \in [Offset -> FaceRec], NEW n \in 2 .. MaxOffset + 1, NEW L, Records(f, n, L),
         NEW S, S \subseteq L, NEW k \in Nat, NEW x, NEW y,
         IsNext(f, S, k, x), IsNext(f, S, k, y)
  PROVE  x = y
<1>0. \A o \in S : f[o].key \in Nat /\ o # 0
  BY RecordFacts DEF Nodes
<1>1. CASE x = 0 /\ y # 0 BY <1>0, <1>1 DEF IsNext
<1>2. CASE x # 0 /\ y = 0 BY <1>0, <1>2 DEF IsNext
<1>3. CASE x # 0 /\ y # 0
  <2>1. x \in L /\ y \in L /\ f[x].key <= f[y].key /\ f[y].key <= f[x].key
    BY <1>0, <1>3 DEF IsNext
  <2>2. f[x].key = f[y].key BY <1>0, <1>3, <2>1 DEF IsNext
  <2> QED BY <2>1, <2>2, RecordFacts DEF Nodes
<1> QED BY <1>1, <1>2, <1>3

\* There is one last record before a key.
LEMMA PrevUnique ==
  ASSUME NEW f \in [Offset -> FaceRec], NEW n \in 2 .. MaxOffset + 1, NEW L, Records(f, n, L),
         NEW l \in Levels, NEW k \in Nat, NEW x, NEW y,
         IsPrev(f, L, l, k, x), IsPrev(f, L, l, k, y)
  PROVE  x = y
<1>0. \A o \in Nodes(L) : f[o].key \in Nat BY RecordFacts
<1>1. \A o \in L : f[o].key > 0 /\ o # DUMMY_OFFSET BY RecordFacts
<1>2. f[DUMMY_OFFSET].key = 0 BY DEF Records
<1>3. x \in Nodes(L) /\ y \in Nodes(L) BY DEF IsPrev
<1>4. f[x].key <= f[y].key
  <2>1. CASE x = DUMMY_OFFSET BY <1>0, <1>2, <1>3, <2>1
  <2>2. CASE x # DUMMY_OFFSET
    <3>1. x \in Above(f, L, l) /\ f[x].key < k BY <2>2 DEF IsPrev, Nodes, Above
    <3> QED BY <3>1 DEF IsPrev
  <2> QED BY <2>1, <2>2
<1>5. f[y].key <= f[x].key
  <2>1. CASE y = DUMMY_OFFSET BY <1>0, <1>2, <1>3, <2>1
  <2>2. CASE y # DUMMY_OFFSET
    <3>1. y \in Above(f, L, l) /\ f[y].key < k BY <2>2 DEF IsPrev, Nodes, Above
    <3> QED BY <3>1 DEF IsPrev
  <2> QED BY <2>1, <2>2
<1>6. f[x].key = f[y].key BY <1>0, <1>3, <1>4, <1>5
<1> QED BY <1>3, <1>6, RecordFacts

\* The place after a record is an offset or the end.
LEMMA FollowingType ==
  ASSUME NEW f \in [Offset -> FaceRec], NEW o \in Offset
  PROVE  following(f, o) \in Ptr
<1>1. \A x \in Offset : f[x].next \in Ptr BY DEF FaceRec
<1>2. CASE f[o].next # 0 /\ f[f[o].next].type = "DELETE"
  <2>1. f[o].next \in Offset BY <1>1, <1>2, FileAssumption DEF Ptr, Offset
  <2> QED BY <1>1, <1>2, <2>1 DEF following
<1>3. CASE ~(f[o].next # 0 /\ f[f[o].next].type = "DELETE") BY <1>1, <1>3 DEF following
<1> QED BY <1>2, <1>3

\* The walk along a list meets its records in order and ends.
LEMMA ChainList ==
  ASSUME NEW f \in [Offset -> FaceRec], NEW n \in 2 .. MaxOffset + 1, NEW L, List(f, n, L)
  PROVE  LET c == Chain(f)
         IN /\ c[0] = DUMMY_OFFSET
            /\ \A i \in 0 .. MaxOffset : c[i] \in Nodes(L) \cup {0}
            /\ \A i \in 0 .. MaxOffset - 1 :
                 c[i + 1] = IF c[i] = 0 THEN 0 ELSE following(f, c[i])
            /\ \A j \in 0 .. MaxOffset : \A i \in 0 .. MaxOffset :
                 i < j /\ c[j] # 0 => c[i] # 0 /\ f[c[i]].key < f[c[j]].key
            /\ c[MaxOffset] = 0
<1> DEFINE c == Chain(f)
           step == [o \in Ptr |-> IF o = 0 THEN 0 ELSE following(f, o)]
<1>0. MaxOffset \in Nat /\ DUMMY_OFFSET \in Ptr BY FileAssumption DEF Ptr, DUMMY_OFFSET
<1>00. Records(f, n, L) BY DEF List
<1>1. step \in [Ptr -> Ptr]
  <2>1. \A o \in Ptr : o # 0 => o \in Offset BY FileAssumption DEF Ptr, Offset
  <2>2. 0 \in Ptr BY FileAssumption DEF Ptr
  <2> QED BY <2>1, <2>2, FollowingType
<1>2. /\ c[0] = DUMMY_OFFSET
      /\ \A i \in 0 .. MaxOffset : c[i] \in Ptr
      /\ \A i \in 0 .. MaxOffset - 1 : c[i + 1] = step[c[i]]
  <2>1. c = Walk(step, DUMMY_OFFSET, MaxOffset) BY DEF Chain
  <2> HIDE DEF c, step
  <2> QED BY <1>0, <1>1, <2>1, WalkSteps
<1> HIDE DEF c
<1>3. \A i \in 0 .. MaxOffset - 1 : c[i + 1] = IF c[i] = 0 THEN 0 ELSE following(f, c[i])
  <2>1. \A i \in 0 .. MaxOffset - 1 : c[i] \in Ptr BY <1>0, <1>2
  <2> QED BY <1>2, <2>1
<1> HIDE DEF step
<1>4. \A i \in 0 .. MaxOffset : c[i] \in Nodes(L) \cup {0}
  <2> DEFINE P == {i \in Nat : c[i] \in Nodes(L) \cup {0}}
  <2>1. 0 \in P BY <1>2 DEF Nodes
  <2>2. \A i \in 0 .. MaxOffset - 1 : i \in P => i + 1 \in P
    <3> SUFFICES ASSUME NEW i \in 0 .. MaxOffset - 1, c[i] \in Nodes(L) \cup {0}
                 PROVE  c[i + 1] \in Nodes(L) \cup {0}
      BY <1>0
    <3>1. CASE c[i] = 0 BY <1>3, <3>1
    <3>2. CASE c[i] # 0
      <4>1. IsNext(f, L, f[c[i]].key, c[i + 1]) BY <1>3, <3>2 DEF List, Linked
      <4> QED BY <4>1 DEF IsNext, Nodes
    <3> QED BY <3>1, <3>2
  <2> HIDE DEF P
  <2>3. \A i \in 0 .. MaxOffset : i \in P BY <1>0, <2>1, <2>2, UpTo
  <2> QED BY <2>3 DEF P
<1>5. \A i \in 0 .. MaxOffset - 1 :
        c[i + 1] # 0 => c[i] # 0 /\ f[c[i]].key < f[c[i + 1]].key
  <2> SUFFICES ASSUME NEW i \in 0 .. MaxOffset - 1, c[i + 1] # 0
               PROVE  c[i] # 0 /\ f[c[i]].key < f[c[i + 1]].key
    OBVIOUS
  <2>1. c[i] # 0 BY <1>3
  <2>2. c[i] \in Nodes(L) /\ c[i + 1] \in Nodes(L) BY <1>0, <1>4, <2>1
  <2>3. IsNext(f, L, f[c[i]].key, c[i + 1]) BY <1>3, <2>1, <2>2 DEF List, Linked
  <2>4. f[c[i]].key \in Nat /\ f[c[i + 1]].key \in Nat BY <1>00, <2>2, RecordFacts
  <2> QED BY <2>1, <2>3, <2>4 DEF IsNext
<1>6. \A j \in 0 .. MaxOffset : \A i \in 0 .. MaxOffset :
        i < j /\ c[j] # 0 => c[i] # 0 /\ f[c[i]].key < f[c[j]].key
  <2> DEFINE P == {j \in Nat : \A i \in 0 .. MaxOffset :
                       i < j /\ c[j] # 0 => c[i] # 0 /\ f[c[i]].key < f[c[j]].key}
  <2>1. 0 \in P OBVIOUS
  <2>2. \A j \in 0 .. MaxOffset - 1 : j \in P => j + 1 \in P
    <3> SUFFICES ASSUME NEW j \in 0 .. MaxOffset - 1, j \in P,
                        NEW i \in 0 .. MaxOffset, i < j + 1, c[j + 1] # 0
                 PROVE  c[i] # 0 /\ f[c[i]].key < f[c[j + 1]].key
      BY <1>0
    <3>1. c[j] # 0 /\ f[c[j]].key < f[c[j + 1]].key BY <1>5
    <3>2. CASE i = j BY <3>1, <3>2
    <3>3. CASE i < j
      <4>1. c[i] # 0 /\ f[c[i]].key < f[c[j]].key BY <3>1, <3>3
      <4>2. f[c[i]].key \in Nat /\ f[c[j]].key \in Nat /\ f[c[j + 1]].key \in Nat
        BY <1>0, <1>00, <1>4, <3>1, <4>1, RecordFacts
      <4> QED BY <3>1, <4>1, <4>2
    <3> QED BY <3>2, <3>3
  <2> HIDE DEF P
  <2>3. \A j \in 0 .. MaxOffset : j \in P BY <1>0, <2>1, <2>2, UpTo
  <2> QED BY <2>3 DEF P
<1>7. c[MaxOffset] = 0
  <2> SUFFICES ASSUME c[MaxOffset] # 0 PROVE FALSE OBVIOUS
  <2>1. \A i \in 0 .. MaxOffset : c[i] # 0 BY <1>0, <1>6
  <2> DEFINE g == [i \in 0 .. MaxOffset |-> c[i]]
  <2>2. g \in [0 .. MaxOffset -> Offset]
    BY <1>00, <1>4, <2>1, RecordFacts
  <2>3. /\ IsFiniteSet(0 .. MaxOffset) /\ Cardinality(0 .. MaxOffset) = MaxOffset + 1
        /\ IsFiniteSet(Offset) /\ Cardinality(Offset) = MaxOffset
    BY <1>0, FileAssumption, FS_Interval DEF Offset
  <2>4. Cardinality(Offset) < Cardinality(0 .. MaxOffset) BY <1>0, <2>3
  <2>5. PICK x, y \in 0 .. MaxOffset : x # y /\ g[x] = g[y]
    <3> DEFINE S == 0 .. MaxOffset
    <3>1. IsFiniteSet(S) /\ g \in [S -> Offset] /\ Cardinality(Offset) < Cardinality(S)
      BY <2>2, <2>3, <2>4
    <3> HIDE DEF g, S
    <3>2. \E x, y \in S : x # y /\ g[x] = g[y] BY <2>3, <3>1, FS_PigeonHole, Zenon
    <3> QED BY <3>2 DEF S
  <2>6. \A i \in 0 .. MaxOffset : f[c[i]].key \in Nat BY <1>00, <1>4, <2>1, RecordFacts
  <2>7. CASE x < y BY <1>6, <2>1, <2>5, <2>6, <2>7
  <2>8. CASE y < x BY <1>6, <2>1, <2>5, <2>6, <2>8
  <2> QED BY <1>0, <2>5, <2>7, <2>8
<1> QED BY <1>2, <1>3, <1>4, <1>6, <1>7 DEF c

\* The walk finds exactly the records of the list.
LEMMA LiveList ==
  ASSUME NEW f \in [Offset -> FaceRec], NEW n \in 2 .. MaxOffset + 1, NEW L, List(f, n, L)
  PROVE  Live(f) = L
<1> DEFINE c == Chain(f)
<1>0. MaxOffset \in Nat /\ Records(f, n, L) BY FileAssumption DEF List
<1>1. /\ c[0] = DUMMY_OFFSET
      /\ \A i \in 0 .. MaxOffset : c[i] \in Nodes(L) \cup {0}
      /\ \A i \in 0 .. MaxOffset - 1 : c[i + 1] = IF c[i] = 0 THEN 0 ELSE following(f, c[i])
      /\ \A j \in 0 .. MaxOffset : \A i \in 0 .. MaxOffset :
           i < j /\ c[j] # 0 => c[i] # 0 /\ f[c[i]].key < f[c[j]].key
      /\ c[MaxOffset] = 0
  BY ChainList
<1>2. Live(f) = {c[i] : i \in Offset} \ {0} BY DEF Live
<1> HIDE DEF c
<1>3. ASSUME NEW i \in Offset, c[i] # 0 PROVE c[i] \in L
  <2>1. i \in 0 .. MaxOffset /\ 0 < i /\ 0 \in 0 .. MaxOffset BY <1>0 DEF Offset
  <2>2. f[c[0]].key < f[c[i]].key BY <1>1, <1>3, <2>1
  <2>3. f[DUMMY_OFFSET].key = 0 BY <1>0 DEF Records
  <2> QED BY <1>1, <1>3, <2>1, <2>2, <2>3 DEF Nodes
<1>4. ASSUME NEW y \in L, \A i \in Offset : c[i] # y PROVE FALSE
  <2> DEFINE P == {i \in Nat : c[i] # 0 /\ f[c[i]].key < f[y].key}
  <2>0. f[y].key \in Nat /\ f[y].key > 0 BY <1>0, RecordFacts DEF Nodes
  <2>1. 0 \in P BY <1>0, <1>1, <2>0 DEF Records, DUMMY_OFFSET
  <2>2. \A i \in 0 .. MaxOffset - 1 : i \in P => i + 1 \in P
    <3> SUFFICES ASSUME NEW i \in 0 .. MaxOffset - 1, c[i] # 0, f[c[i]].key < f[y].key
                 PROVE  c[i + 1] # 0 /\ f[c[i + 1]].key < f[y].key
      OBVIOUS
    <3>1. c[i] \in Nodes(L) BY <1>0, <1>1
    <3>2. IsNext(f, L, f[c[i]].key, c[i + 1]) BY <1>1, <3>1 DEF List, Linked
    <3>3. f[c[i]].key \in Nat BY <1>0, <3>1, RecordFacts
    <3>4. c[i + 1] # 0 /\ c[i + 1] \in L /\ f[c[i + 1]].key <= f[y].key
      BY <2>0, <3>2, <3>3 DEF IsNext
    <3>5. c[i + 1] # y BY <1>0, <1>4 DEF Offset
    <3>6. f[c[i + 1]].key # f[y].key BY <1>0, <3>4, <3>5 DEF Records
    <3>7. f[c[i + 1]].key \in Nat BY <1>0, <3>4, RecordFacts DEF Nodes
    <3> QED BY <2>0, <3>4, <3>6, <3>7
  <2> HIDE DEF P
  <2>3. \A i \in 0 .. MaxOffset : i \in P BY <1>0, <2>1, <2>2, UpTo
  <2>4. MaxOffset \in P BY <1>0, <2>3
  <2> QED BY <1>1, <2>4 DEF P
<1>5. 0 \notin L BY <1>0, RecordFacts DEF Nodes
<1> QED BY <1>2, <1>3, <1>4, <1>5

-----------------------------------------------------------------------------
(* What a list depends on, and its contents.                                *)

\* A list is decided by the faces of the records before its end.
LEMMA Local ==
  ASSUME NEW f \in [Offset -> FaceRec], NEW g \in [Offset -> FaceRec],
         NEW n \in 2 .. MaxOffset + 1, \A o \in 1 .. n - 1 : f[o] = g[o],
         NEW L, List(f, n, L)
  PROVE  List(g, n, L)
<1>0. Records(f, n, L) BY DEF List
<1>1. \A o \in Nodes(L) : o \in 1 .. n - 1 /\ f[o] = g[o]
  <2>1. \A o \in Nodes(L) : o \in Offset /\ o < n BY <1>0, RecordFacts
  <2> QED BY <2>1, FileAssumption DEF Offset
<1>2. Records(g, n, L) BY <1>0, <1>1 DEF Records, Nodes
<1>3. ASSUME NEW o \in Nodes(L) PROVE Linked(g, n, L, o)
  <2>1. Linked(f, n, L, o) BY DEF List
  <2>2. f[o].next \in Ptr /\ f[o].next < n BY <1>0, <2>1, RecordFacts DEF Linked
  <2>3. f[o].next # 0 => f[f[o].next] = g[f[o].next] BY <2>2, FileAssumption DEF Ptr
  <2>4. following(g, o) = following(f, o) BY <1>1, <2>3 DEF following
  <2>5. IsNext(g, L, g[o].key, following(g, o))
    <3>1. IsNext(f, L, f[o].key, following(f, o)) BY <2>1 DEF Linked
    <3>2. \A x \in L : f[x] = g[x] BY <1>1 DEF Nodes
    <3> QED BY <1>1, <2>4, <3>1, <3>2 DEF IsNext
  <2> QED BY <1>1, <2>2, <2>5 DEF Linked
<1> QED BY <1>2, <1>3 DEF List

\* Faces that agree on the records have the same contents.
LEMMA ContentSame ==
  ASSUME NEW f, NEW g, NEW L, \A o \in L : f[o] = g[o]
  PROVE  ContentOf(f, L) = ContentOf(g, L)
<1>1. {f[o].key : o \in L} = {g[o].key : o \in L} OBVIOUS
<1>2. ASSUME NEW k \in {f[o].key : o \in L}
      PROVE  f[CHOOSE o \in L : f[o].key = k].val = g[CHOOSE o \in L : g[o].key = k].val
  <2>1. (CHOOSE o \in L : f[o].key = k) = CHOOSE o \in L : g[o].key = k
    <3>1. \A o : o \in L /\ f[o].key = k <=> o \in L /\ g[o].key = k OBVIOUS
    <3> QED BY <3>1
  <2>2. (CHOOSE o \in L : f[o].key = k) \in L OBVIOUS
  <2> QED BY <2>1, <2>2
<1> DEFINE D == {f[o].key : o \in L}
           a(k) == f[CHOOSE o \in L : f[o].key = k].val
           b(k) == g[CHOOSE o \in L : g[o].key = k].val
<1>3. ContentOf(f, L) = [k \in D |-> a(k)] BY DEF ContentOf
<1>4. ContentOf(g, L) = [k \in D |-> b(k)] BY <1>1, Zenon DEF ContentOf
<1>5. \A k \in D : a(k) = b(k) BY <1>2
<1> HIDE DEF D, a, b
<1> QED BY <1>3, <1>4, <1>5

KeysOf(f, L) == {f[o].key : o \in L}

\* Contents map the keys of the records to their values.
LEMMA ContentFacts ==
  ASSUME NEW f, NEW n, NEW L, Records(f, n, L)
  PROVE  /\ DOMAIN ContentOf(f, L) = KeysOf(f, L)
         /\ \A o \in L : ContentOf(f, L)[f[o].key] = f[o].val
         /\ ContentOf(f, L) \in [KeysOf(f, L) -> Val]
         /\ KeysOf(f, L) \subseteq Key
         /\ ContentOf(f, L) # NoTxn
<1>1. \A o \in L : f[o].key \in Key /\ f[o].val \in Val BY DEF Records
<1>2. \A o \in L : ContentOf(f, L)[f[o].key] = f[o].val
  <2> SUFFICES ASSUME NEW o \in L PROVE ContentOf(f, L)[f[o].key] = f[o].val OBVIOUS
  <2> DEFINE x == CHOOSE x \in L : f[x].key = f[o].key
  <2>1. x \in L /\ f[x].key = f[o].key OBVIOUS
  <2> HIDE DEF x
  <2>2. x = o BY <2>1 DEF Records
  <2> QED BY <2>2 DEF ContentOf, x
<1>3. DOMAIN ContentOf(f, L) = KeysOf(f, L) BY DEF ContentOf, KeysOf
<1>4. ContentOf(f, L) \in [KeysOf(f, L) -> Val]
  <2>1. \A k \in KeysOf(f, L) : ContentOf(f, L)[k] \in Val BY <1>1, <1>2 DEF KeysOf
  <2>2. ContentOf(f, L) = [k \in KeysOf(f, L) |-> ContentOf(f, L)[k]] BY DEF ContentOf, KeysOf
  <2> QED BY <2>1, <2>2
<1>5. KeysOf(f, L) \in SUBSET Key BY <1>1 DEF KeysOf
<1>6. ContentOf(f, L) # NoTxn BY <1>4, <1>5, TwoSkipAssumption
<1> QED BY <1>2, <1>3, <1>4, <1>5, <1>6

\* What a walk of level zero finds is what the records of the list say.
LEMMA ContentList ==
  ASSUME NEW f \in [Offset -> FaceRec], NEW n \in 2 .. MaxOffset + 1, NEW L, List(f, n, L)
  PROVE  FaceContent(f) = ContentOf(f, L)
<1>1. Live(f) = L BY LiveList
<1>2. FaceContent(f) = ContentOf(f, Live(f)) BY DEF FaceContent, ContentOf
<1> QED BY <1>1, <1>2

-----------------------------------------------------------------------------
(* Faces of records.                                                        *)

PointBack(c) ==
  \A o \in Offset : c[o].type = "DELETE" => c[o].nextloc[1] = 0 /\ c[o].nextloc[0] < o

\* What the face of a record shows.
LEMMA FacesAt ==
  ASSUME NEW c \in [Offset -> Rec], NEW e, NEW o \in Offset
  PROVE  LET f == Faces(c, e)
         IN /\ f[o].type = c[o].type /\ f[o].level = c[o].level /\ f[o].key = c[o].key
            /\ f[o].val = c[o].val /\ f[o].next = getloc(c[o], 0, e)
            /\ f[o] = Face(c[o], e)
BY DEF Faces, Face

\* The fields of a record and their types.
LEMMA RecFields ==
  ASSUME NEW r \in Rec
  PROVE  /\ r.type \in {"ABSENT", "DUMMY", "RECORD", "DELETE", "COMMIT"}
         /\ r.level \in 0 .. MaxLevel /\ r.key \in Key \cup {0} /\ r.val \in Val \cup {NoVal}
         /\ r.nextloc \in [0 .. MaxLevel -> Ptr]
         /\ \A j \in 0 .. MaxLevel : r.nextloc[j] \in Nat /\ r.nextloc[j] <= MaxOffset
BY FileAssumption DEF Rec, Ptr

\* What skipdelete returns.
LEMMA SkipDelete ==
  ASSUME NEW c \in [Offset -> Rec], PointBack(c), NEW e \in Nat, NEW x \in Ptr, x < e
  PROVE  /\ skipdelete(c, x) = IF x # 0 /\ Faces(c, e)[x].type = "DELETE"
                               THEN Faces(c, e)[x].next ELSE x
         /\ skipdelete(c, x) \in Ptr
<1>1. CASE x = 0 BY <1>1 DEF skipdelete
<1>2. CASE x # 0
  <2>1. x \in Offset BY <1>2, FileAssumption DEF Ptr, Offset
  <2>2. c[x].nextloc[0] \in Ptr /\ c[x].nextloc[0] \in Nat
    BY <2>1, FileAssumption DEF Rec, Ptr
  <2>3. CASE c[x].type = "DELETE"
    <3>1. c[x].nextloc[1] = 0 /\ c[x].nextloc[0] < e BY <2>1, <2>2, <2>3 DEF PointBack, Offset
    <3>2. getloc(c[x], 0, e) = c[x].nextloc[0] BY <2>2, <3>1 DEF getloc
    <3> QED BY <1>2, <2>1, <2>2, <2>3, <3>2, FacesAt DEF skipdelete
  <2>4. CASE c[x].type # "DELETE" BY <2>1, <2>4, FacesAt DEF skipdelete
  <2> QED BY <2>3, <2>4
<1> QED BY <1>1, <1>2

\* skipdelete after getloc is the step of the walk of level zero.
LEMMA SkipFollowing ==
  ASSUME NEW c \in [Offset -> Rec], PointBack(c), NEW e \in Nat, NEW o \in Offset,
         Faces(c, e)[o].next < e
  PROVE  skipdelete(c, Faces(c, e)[o].next) = following(Faces(c, e), o)
<1>1. Faces(c, e)[o].next \in Ptr BY FacesType DEF FaceRec
<1> QED BY <1>1, SkipDelete DEF following

-----------------------------------------------------------------------------
(* Locations in a file that is whole.                                       *)

\* A file that is whole, as lookups find it.
Sound(L) ==
  /\ cache \in [Offset -> Rec] /\ size \in Offset /\ hcache \in Header
  /\ PointBack(cache) /\ Full(cache, size, L)

\* What a whole file says of its records and pointers.
LEMMA SoundFacts ==
  ASSUME NEW L, Sound(L)
  PROVE  /\ now \in [Offset -> FaceRec] /\ size + 1 \in 2 .. MaxOffset + 1 /\ size + 1 \in Nat
         /\ Records(now, size + 1, L) /\ List(now, size + 1, L)
         /\ L \subseteq Offset /\ Nodes(L) \subseteq Offset /\ DUMMY_OFFSET \in Nodes(L)
         /\ DUMMY_OFFSET \notin L /\ 0 \notin Nodes(L)
         /\ \A o \in Nodes(L) : /\ now[o].key \in Nat /\ now[o].level \in 1 .. MaxLevel
                                /\ now[o].type # "DELETE" /\ o <= size
                                /\ cache[o].key = now[o].key /\ cache[o].level = now[o].level
         /\ now[DUMMY_OFFSET].key = 0 /\ now[DUMMY_OFFSET].level = MaxLevel
         /\ \A o \in L : now[o].key > 0 /\ now[o].key \in Key
         /\ \A o, x \in Nodes(L) : now[o].key = now[x].key => o = x
         /\ \A l \in Levels : Above(now, L, l) \subseteq L
         /\ Above(now, L, 0) = L
<1> USE DEF Sound, Full, now
<1>1. now \in [Offset -> FaceRec] BY FacesType
<1>2. size + 1 \in 2 .. MaxOffset + 1 /\ size + 1 \in Nat BY FileAssumption DEF Offset
<1>3. List(now, size + 1, L) /\ Records(now, size + 1, L) BY DEF List
<1> HIDE DEF now
<1>4. /\ L \subseteq Offset /\ Nodes(L) \subseteq Offset
      /\ DUMMY_OFFSET \in Offset /\ DUMMY_OFFSET \notin L /\ 0 \notin Nodes(L)
      /\ \A o \in Nodes(L) : /\ now[o].key \in Nat /\ o < size + 1
                             /\ now[o].level \in 1 .. MaxLevel /\ now[o].type # "DELETE"
      /\ \A o \in L : now[o].key > 0
      /\ \A o, x \in Nodes(L) : now[o].key = now[x].key => o = x
  BY <1>1, <1>2, <1>3, RecordFacts
<1>5. \A o \in Offset : cache[o].key = now[o].key /\ cache[o].level = now[o].level
  BY FacesAt DEF now
<1>6. \A o \in Nodes(L) : o <= size BY <1>2, <1>4 DEF Offset
<1>7. Above(now, L, 0) = L BY <1>4 DEF Above, Nodes
<1>8. \A o \in L : now[o].key \in Key BY <1>3 DEF Records
<1>9. now[DUMMY_OFFSET].key = 0 /\ now[DUMMY_OFFSET].level = MaxLevel BY <1>3 DEF Records
<1> QED BY <1>1, <1>2, <1>3, <1>4, <1>5, <1>6, <1>7, <1>8, <1>9 DEF Above, Nodes

\* The pointer of a record at each of its levels leads to the next record there.
LEMMA PointerNext ==
  ASSUME NEW L, Sound(L), NEW o \in Nodes(L), NEW l \in Levels, l < now[o].level
  PROVE  LET x == getloc(cache[o], l, size + 1)
         IN /\ x \in Ptr /\ skipdelete(cache, x) \in Ptr
            /\ IsNext(now, Above(now, L, l), now[o].key, skipdelete(cache, x))
            /\ l # 0 => skipdelete(cache, x) = x
            /\ l = 0 => x = now[o].next
<1> DEFINE x == getloc(cache[o], l, size + 1)
<1>0. /\ now \in [Offset -> FaceRec] /\ size + 1 \in Nat /\ o \in Offset
      /\ cache \in [Offset -> Rec] /\ PointBack(cache) /\ now = Faces(cache, size + 1)
  BY SoundFacts DEF Sound, now
<1>1. CASE l = 0
  <2>1. x = now[o].next BY <1>0, <1>1, FacesAt
  <2>2. Linked(now, size + 1, L, o) BY SoundFacts DEF List
  <2>3. x < size + 1 /\ IsNext(now, L, now[o].key, following(now, o))
    BY <2>1, <2>2 DEF Linked
  <2>4. skipdelete(cache, x) = following(now, o) BY <1>0, <2>1, <2>3, SkipFollowing
  <2>5. x \in Ptr BY <1>0, <2>1 DEF FaceRec
  <2>6. following(now, o) \in Ptr BY <1>0, FollowingType
  <2> QED BY <1>1, <2>1, <2>3, <2>4, <2>5, <2>6, SoundFacts
<1>2. CASE l # 0
  <2>1. l \in 1 .. now[o].level - 1 /\ l + 1 \in 0 .. MaxLevel
    BY <1>0, <1>2, SoundFacts, FileAssumption DEF Levels
  <2>2. Upper(now, cache, L, o, l) BY <2>1 DEF Sound, Full, now
  <2>3. x = cache[o].nextloc[l + 1] BY <1>2, FileAssumption DEF getloc, Levels
  <2>4. IsNext(now, Above(now, L, l), now[o].key, x) BY <2>2, <2>3 DEF Upper
  <2>5. x \in Ptr
    <3>1. cache[o] \in Rec BY <1>0
    <3>2. cache[o].nextloc \in [0 .. MaxLevel -> Ptr] BY <3>1, RecFields
    <3> QED BY <2>1, <2>3, <3>2
  <2>6. skipdelete(cache, x) = x
    <3>1. CASE x = 0 BY <3>1 DEF skipdelete
    <3>2. CASE x # 0
      <4>1. x \in L BY <2>4, <3>2 DEF IsNext, Above
      <4>2. cache[x].type # "DELETE" BY <1>0, <4>1, SoundFacts, FacesAt DEF Nodes
      <4> QED BY <4>2 DEF skipdelete
    <3> QED BY <3>1, <3>2
  <2> QED BY <1>2, <2>4, <2>5, <2>6
<1> QED BY <1>1, <1>2

\* From the record before k to the first one after k.
LEMMA PrevNext ==
  ASSUME NEW L, Sound(L), NEW l \in Levels, NEW k \in Nat, NEW b, NEW x,
         IsPrev(now, L, l, k, b), IsNext(now, Above(now, L, l), now[b].key, x),
         \A y \in Above(now, L, l) : now[y].key # k
  PROVE  IsNext(now, Above(now, L, l), k, x)
<1>0. \A y \in Above(now, L, l) : now[y].key \in Nat
  BY SoundFacts DEF Above, Nodes
<1>1. b \in Nodes(L) /\ now[b].key \in Nat BY SoundFacts DEF IsPrev
<1>2. \A y \in Above(now, L, l) : now[y].key > now[b].key <=> now[y].key > k
  <2> SUFFICES ASSUME NEW y \in Above(now, L, l)
               PROVE  now[y].key > now[b].key <=> now[y].key > k
    OBVIOUS
  <2>1. CASE b = DUMMY_OFFSET BY <1>0, <1>1, <2>1, SoundFacts DEF IsPrev, Above
  <2>2. CASE b # DUMMY_OFFSET BY <1>0, <1>1, <2>2 DEF IsPrev
  <2> QED BY <2>1, <2>2
<1> QED BY <1>0, <1>1, <1>2 DEF IsNext

-----------------------------------------------------------------------------
(* relocate.                                                                *)

Passed(L, o) == {x \in L : now[x].key <= now[o].key}

\* The invariant of the search loop: what it has left is right, old is the last
\* offset that was looked at.
Searched(k, L, s, n) ==
  /\ s \in Search
  /\ s.at \in Nodes(L) /\ now[s.at].key < k /\ s.level <= now[s.at].level
  /\ \A i \in Levels : i >= s.level =>
       /\ IsPrev(now, L, i, k, s.back[i])
       /\ s.fwd[i] = getloc(cache[s.back[i]], i, size + 1)
  /\ s.found => s.new \in L /\ now[s.new].key = k /\ s.level <= now[s.new].level
  /\ s.old # 0 => \/ skipdelete(cache, s.old) = s.at
                  \/ skipdelete(cache, s.old) = 0
                  \/ /\ skipdelete(cache, s.old) = s.new /\ s.new \in L
                     /\ now[s.new].key >= k /\ s.found = (now[s.new].key = k)
  /\ s.level = 0 => s.at = s.back[0] /\ s.found = (\E o \in L : now[o].key = k)
  /\ s.level = 0 \/ n <= MaxLevel - s.level + Cardinality(Passed(L, s.at))

\* A search that goes along a level has passed more records.
LEMMA PassedMore ==
  ASSUME NEW L, Sound(L), NEW o \in Nodes(L), NEW x \in L, now[o].key < now[x].key
  PROVE  Cardinality(Passed(L, x)) >= Cardinality(Passed(L, o)) + 1
<1>0. \A y \in Nodes(L) : now[y].key \in Nat BY SoundFacts
<1>1. IsFiniteSet(L)
  <2>1. IsFiniteSet(Offset) BY FS_Interval, FileAssumption DEF Offset
  <2> QED BY <2>1, FS_Subset, SoundFacts
<1>2. IsFiniteSet(Passed(L, o)) /\ IsFiniteSet(Passed(L, x))
  BY <1>1, FS_Subset DEF Passed
<1>3. x \notin Passed(L, o) BY <1>0 DEF Passed, Nodes
<1>4. Passed(L, o) \cup {x} \subseteq Passed(L, x) BY <1>0 DEF Passed, Nodes
<1>5. /\ IsFiniteSet(Passed(L, o) \cup {x})
      /\ Cardinality(Passed(L, o) \cup {x}) = Cardinality(Passed(L, o)) + 1
  BY <1>2, <1>3, FS_AddElement
<1>6. Cardinality(Passed(L, o) \cup {x}) <= Cardinality(Passed(L, x))
  BY <1>2, <1>4, FS_Subset
<1>7. Cardinality(Passed(L, o)) \in Nat /\ Cardinality(Passed(L, x)) \in Nat
  BY <1>2, FS_CardinalityType
<1> QED BY <1>5, <1>6, <1>7

\* What one turn of the loop looks at.
LEMMA TurnTypes ==
  ASSUME cache \in [Offset -> Rec], NEW s \in Search, s.level # 0
  PROVE  LET level == s.level - 1
             offset == getloc(cache[s.at], level, size + 1)
         IN /\ level \in Levels /\ offset \in Ptr /\ skipdelete(cache, offset) \in Ptr
            /\ [s.back EXCEPT ![level] = s.at] \in [Levels -> Ptr]
            /\ [s.fwd EXCEPT ![level] = offset] \in [Levels -> Ptr]
<1> DEFINE level == s.level - 1
           offset == getloc(cache[s.at], level, size + 1)
<1>1. s.level \in 1 .. MaxLevel /\ s.at \in Offset /\ s.back \in [Levels -> Ptr]
      /\ s.fwd \in [Levels -> Ptr]
  BY FileAssumption DEF Search
<1>2. level \in Levels /\ level + 1 \in 0 .. MaxLevel BY <1>1, FileAssumption DEF Levels
<1>3. \A o \in Offset : cache[o].nextloc \in [0 .. MaxLevel -> Ptr] BY RecFields
<1>4. offset \in Ptr BY <1>1, <1>2, <1>3, FileAssumption DEF getloc
<1>5. skipdelete(cache, offset) \in Ptr
  <2>1. \A x \in Ptr : x # 0 => x \in Offset BY FileAssumption DEF Ptr, Offset
  <2> QED BY <1>3, <1>4, <2>1, FileAssumption DEF skipdelete
<1>6. s.at \in Ptr BY <1>1, FileAssumption DEF Ptr, Offset
<1> QED BY <1>1, <1>2, <1>4, <1>5, <1>6

\* The loop variables t of a turn of s that has found offset on its level, and
\* skipped a DELETE record to get to new.
Turned(k, s, t, level, offset, new) ==
  /\ t \in Search
  /\ t.back = [s.back EXCEPT ![level] = s.at]
  /\ t.fwd = [s.fwd EXCEPT ![level] = offset]
  /\ offset = s.old =>
       /\ t.level = level /\ t.at = s.at /\ t.old = s.old
       /\ t.new = s.new /\ t.found = s.found
  /\ offset # s.old /\ new # 0 /\ cache[new].key < k =>
       /\ t.level = s.level /\ t.at = new /\ t.old = offset
       /\ t.new = new /\ t.found = FALSE
  /\ offset # s.old /\ ~(new # 0 /\ cache[new].key < k) =>
       /\ t.level = level /\ t.at = s.at /\ t.old = offset /\ t.new = new
       /\ t.found = IF new = 0 THEN s.found ELSE cache[new].key = k

\* The loop variables after one turn.
LEMMA TurnFields ==
  ASSUME cache \in [Offset -> Rec], NEW k, NEW s \in Search, s.level # 0
  PROVE  LET offset == getloc(cache[s.at], s.level - 1, size + 1)
         IN Turned(k, s, turn(k, s), s.level - 1, offset, skipdelete(cache, offset))
<1> DEFINE level == s.level - 1
           offset == getloc(cache[s.at], level, size + 1)
           new == skipdelete(cache, offset)
           bk == [s.back EXCEPT ![level] = s.at]
           fw == [s.fwd EXCEPT ![level] = offset]
<1>1. /\ level \in Levels /\ offset \in Ptr /\ new \in Ptr
      /\ bk \in [Levels -> Ptr] /\ fw \in [Levels -> Ptr]
  BY TurnTypes
<1>2. turn(k, s) = IF offset = s.old THEN [s EXCEPT !.back = bk, !.fwd = fw, !.level = level]
                   ELSE IF new # 0 /\ keyat(new) < k
                   THEN [s EXCEPT !.back = bk, !.fwd = fw, !.old = offset, !.at = new, !.new = new,
                                  !.found = FALSE]
                   ELSE [s EXCEPT !.back = bk, !.fwd = fw, !.level = level, !.old = offset,
                                  !.new = new, !.found = IF new = 0 THEN @ ELSE keyat(new) = k]
  BY DEF turn, Search
<1>3. new # 0 => keyat(new) = cache[new].key BY DEF keyat
<1>4. new # 0 => new \in Offset BY <1>1, FileAssumption DEF Ptr, Offset
<1>5. level \in 0 .. MaxLevel BY <1>1, FileAssumption DEF Levels
<1> HIDE DEF level, offset, new, bk, fw
<1>6. turn(k, s) \in Search
  <2>1. CASE offset = s.old BY <1>1, <1>2, <1>5, <2>1 DEF Search
  <2>2. CASE offset # s.old /\ new # 0 /\ keyat(new) < k
    BY <1>1, <1>2, <1>4, <2>2 DEF Search
  <2>3. CASE offset # s.old /\ ~(new # 0 /\ keyat(new) < k)
    <3>1. (IF new = 0 THEN s.found ELSE keyat(new) = k) \in BOOLEAN BY DEF Search
    <3> QED BY <1>1, <1>2, <1>5, <2>3, <3>1 DEF Search
  <2> QED BY <2>1, <2>2, <2>3
<1>7. /\ turn(k, s).back = bk /\ turn(k, s).fwd = fw BY <1>2 DEF Search
<1>8. offset = s.old =>
        /\ turn(k, s).level = level /\ turn(k, s).at = s.at /\ turn(k, s).old = s.old
        /\ turn(k, s).new = s.new /\ turn(k, s).found = s.found
  BY <1>2 DEF Search
<1>9. offset # s.old /\ new # 0 /\ cache[new].key < k =>
        /\ turn(k, s).level = s.level /\ turn(k, s).at = new /\ turn(k, s).old = offset
        /\ turn(k, s).new = new /\ turn(k, s).found = FALSE
  BY <1>2, <1>3 DEF Search
<1>10. offset # s.old /\ ~(new # 0 /\ cache[new].key < k) =>
        /\ turn(k, s).level = level /\ turn(k, s).at = s.at /\ turn(k, s).old = offset
        /\ turn(k, s).new = new
        /\ turn(k, s).found = IF new = 0 THEN s.found ELSE cache[new].key = k
  BY <1>2, <1>3 DEF Search
<1>11. Turned(k, s, turn(k, s), level, offset, new)
  BY <1>6, <1>7, <1>8, <1>9, <1>10 DEF Turned, bk, fw
<1> QED BY <1>11 DEF level, offset, new

\* Each turn keeps the invariant of the loop.
LEMMA SearchTurn ==
  ASSUME NEW L, Sound(L), NEW k \in Key, NEW n \in Nat, NEW s, Searched(k, L, s, n)
  PROVE  Searched(k, L, turn(k, s), n + 1)
<1> DEFINE level == s.level - 1
           offset == getloc(cache[s.at], level, size + 1)
           new == skipdelete(cache, offset)
           t == turn(k, s)
<1>1. CASE s.level = 0
  <2>1. turn(k, s) = s BY <1>1 DEF turn
  <2> QED BY <1>1, <2>1 DEF Searched
<1>2. CASE s.level # 0
  <2>0. /\ s \in Search /\ cache \in [Offset -> Rec] /\ s.level \in 1 .. MaxLevel
        /\ s.at \in Nodes(L) /\ now[s.at].key < k /\ s.level <= now[s.at].level
        /\ MaxLevel \in Nat /\ k \in Nat /\ k > 0
    BY <1>2, FileAssumption, Keys DEF Searched, Sound, Search
  <2>1. /\ level \in Levels /\ offset \in Ptr /\ new \in Ptr BY <1>2, <2>0, TurnTypes
  <2>2. now[s.at].level \in Nat /\ now[s.at].key \in Nat /\ level < now[s.at].level
    BY <2>0, SoundFacts
  <2>3. IsNext(now, Above(now, L, level), now[s.at].key, new)
    BY <2>0, <2>1, <2>2, PointerNext
  <2>4. /\ t \in Search
        /\ t.back = [s.back EXCEPT ![level] = s.at]
        /\ t.fwd = [s.fwd EXCEPT ![level] = offset]
        /\ offset = s.old =>
             /\ t.level = level /\ t.at = s.at /\ t.old = s.old
             /\ t.new = s.new /\ t.found = s.found
        /\ offset # s.old /\ new # 0 /\ cache[new].key < k =>
             /\ t.level = s.level /\ t.at = new /\ t.old = offset
             /\ t.new = new /\ t.found = FALSE
        /\ offset # s.old /\ ~(new # 0 /\ cache[new].key < k) =>
             /\ t.level = level /\ t.at = s.at /\ t.old = offset /\ t.new = new
             /\ t.found = IF new = 0 THEN s.found ELSE cache[new].key = k
    <3>1. Turned(k, s, t, level, offset, new) BY <1>2, <2>0, TurnFields
    <3> HIDE DEF level, offset, new, t
    <3> QED BY <3>1, Zenon DEF Turned
  <2>5. offset = getloc(cache[s.at], level, size + 1) /\ new = skipdelete(cache, offset)
        /\ level = s.level - 1
    OBVIOUS
  <2>6. s.back \in [Levels -> Ptr] /\ s.fwd \in [Levels -> Ptr] BY <2>0 DEF Search
  <2> HIDE DEF level, offset, new, t
  <2>7. new # 0 => /\ new \in L /\ new \in Nodes(L) /\ now[new].key \in Nat
                   /\ now[new].key > now[s.at].key /\ cache[new].key = now[new].key
                   /\ level < now[new].level /\ now[new].level \in Nat
    BY <2>3, SoundFacts DEF IsNext, Above, Nodes
  <2>8. \A i \in Levels : i >= s.level =>
           t.back[i] = s.back[i] /\ t.fwd[i] = s.fwd[i] /\ i # level
    BY <2>0, <2>4, <2>5, <2>6 DEF Levels
  <2>9. /\ s.found => s.new \in L /\ now[s.new].key = k /\ s.level <= now[s.new].level
        /\ \A i \in Levels : i >= s.level =>
             /\ IsPrev(now, L, i, k, s.back[i])
             /\ s.fwd[i] = getloc(cache[s.back[i]], i, size + 1)
        /\ s.old # 0 => \/ skipdelete(cache, s.old) = s.at
                        \/ skipdelete(cache, s.old) = 0
                        \/ /\ skipdelete(cache, s.old) = s.new /\ s.new \in L
                           /\ now[s.new].key >= k /\ s.found = (now[s.new].key = k)
        /\ n <= MaxLevel - s.level + Cardinality(Passed(L, s.at))
    BY <1>2 DEF Searched
  <2>10. IsFiniteSet(Passed(L, s.at)) /\ Cardinality(Passed(L, s.at)) \in Nat
    <3>1. IsFiniteSet(Offset) BY FS_Interval, FileAssumption DEF Offset
    <3>2. Passed(L, s.at) \subseteq Offset BY SoundFacts DEF Passed
    <3> QED BY <3>1, <3>2, FS_Subset, FS_CardinalityType
  <2>11. s.found => new # 0 /\ now[new].key <= k
    <3> SUFFICES ASSUME s.found PROVE new # 0 /\ now[new].key <= k OBVIOUS
    <3>1. s.new \in Above(now, L, level)
      BY <2>0, <2>5, <2>9, SoundFacts DEF Above, Nodes
    <3>2. now[s.new].key > now[s.at].key BY <2>0, <2>9
    <3> QED BY <2>0, <2>2, <2>3, <2>9, <3>1, <3>2 DEF IsNext
  <2>12. CASE offset # s.old /\ new # 0 /\ cache[new].key < k
    <3>1. /\ t.level = s.level /\ t.at = new /\ t.old = offset
          /\ t.new = new /\ t.found = FALSE
      BY <2>4, <2>12
    <3>2. now[t.at].key < k /\ t.at \in Nodes(L) /\ t.level <= now[t.at].level
      BY <2>0, <2>5, <2>7, <2>12, <3>1
    <3>3. Cardinality(Passed(L, new)) >= Cardinality(Passed(L, s.at)) + 1
      BY <2>0, <2>7, <2>12, PassedMore
    <3>4. Cardinality(Passed(L, new)) \in Nat
      <4>1. IsFiniteSet(Offset) BY FS_Interval, FileAssumption DEF Offset
      <4>2. Passed(L, new) \subseteq Offset BY SoundFacts DEF Passed
      <4> QED BY <4>1, <4>2, FS_Subset, FS_CardinalityType
    <3>5. n + 1 <= MaxLevel - t.level + Cardinality(Passed(L, t.at))
      BY <2>0, <2>9, <2>10, <3>1, <3>3, <3>4
    <3>6. \A i \in Levels : i >= t.level =>
            /\ IsPrev(now, L, i, k, t.back[i])
            /\ t.fwd[i] = getloc(cache[t.back[i]], i, size + 1)
      BY <2>8, <2>9, <3>1
    <3>7. skipdelete(cache, t.old) = t.at BY <2>5, <3>1
    <3> QED BY <1>2, <2>4, <3>1, <3>2, <3>5, <3>6, <3>7 DEF Searched, t
  <2>13. CASE ~(offset # s.old /\ new # 0 /\ cache[new].key < k)
    <3>1. t.level = level /\ t.at = s.at BY <2>4, <2>13
    <3>2. new # 0 => now[new].key >= k
      <4> SUFFICES ASSUME new # 0 PROVE now[new].key >= k OBVIOUS
      <4>1. CASE offset # s.old BY <2>0, <2>7, <2>13, <4>1
      <4>2. CASE offset = s.old
        <5>1. s.old # 0 BY <2>5, <4>2 DEF skipdelete
        <5>2. new # s.at BY <2>2, <2>7
        <5> QED BY <2>5, <2>9, <4>2, <5>1, <5>2
      <4> QED BY <4>1, <4>2
    <3>3. IsPrev(now, L, level, k, s.at)
      <4>1. ASSUME NEW y \in Above(now, L, level), now[y].key < k
            PROVE  now[y].key <= now[s.at].key
        <5>1. now[y].key \in Nat BY SoundFacts DEF Above, Nodes
        <5>2. CASE new = 0 BY <2>3, <5>2 DEF IsNext
        <5>3. CASE new # 0 BY <2>0, <2>2, <2>3, <2>7, <3>2, <4>1, <5>1, <5>3 DEF IsNext
        <5> QED BY <5>2, <5>3
      <4> QED BY <2>0, <2>2, <4>1 DEF IsPrev
    <3>4. \A i \in Levels : i >= t.level =>
            /\ IsPrev(now, L, i, k, t.back[i])
            /\ t.fwd[i] = getloc(cache[t.back[i]], i, size + 1)
      <4>1. t.back[level] = s.at /\ t.fwd[level] = offset BY <2>1, <2>4, <2>6
      <4>2. ASSUME NEW i \in Levels, i >= level PROVE i = level \/ i >= s.level
        BY <2>0, <2>1, <2>5, <4>2, FileAssumption DEF Levels
      <4> QED BY <2>5, <2>8, <2>9, <3>1, <3>3, <4>1, <4>2
    <3>5. n + 1 <= MaxLevel - t.level + Cardinality(Passed(L, t.at))
      BY <2>0, <2>5, <2>9, <2>10, <3>1
    <3>6. t.found = (new # 0 /\ now[new].key = k)
      <4>1. CASE offset # s.old
        <5>1. t.found = IF new = 0 THEN s.found ELSE cache[new].key = k BY <2>4, <2>13, <4>1
        <5>2. s.found \in BOOLEAN BY <2>0 DEF Search
        <5> QED BY <2>7, <2>11, <5>1, <5>2
      <4>2. CASE offset = s.old
        <5>0. s.found \in BOOLEAN /\ t.found = s.found BY <2>0, <2>4, <4>2 DEF Search
        <5>1. CASE new = 0 BY <2>11, <5>0, <5>1
        <5>2. CASE new # 0
          <6>1. s.old # 0 BY <2>5, <4>2, <5>2 DEF skipdelete
          <6>2. new # s.at BY <2>2, <2>7, <5>2
          <6>3. new = s.new /\ s.found = (now[s.new].key = k)
            BY <2>5, <2>9, <4>2, <5>2, <6>1, <6>2
          <6> QED BY <5>0, <5>2, <6>3
        <5> QED BY <5>1, <5>2
      <4> QED BY <4>1, <4>2
    <3>7. new # 0 => t.found = (now[new].key = k) BY <3>6
    <3>8. t.found => t.new \in L /\ now[t.new].key = k /\ t.level <= now[t.new].level
      <4> SUFFICES ASSUME t.found
                   PROVE  t.new \in L /\ now[t.new].key = k /\ t.level <= now[t.new].level
        OBVIOUS
      <4>1. new # 0 /\ now[new].key = k BY <3>6
      <4>2. level <= now[new].level BY <2>0, <2>5, <2>7, <4>1
      <4>3. CASE offset # s.old BY <2>4, <2>7, <2>13, <3>1, <4>1, <4>2, <4>3
      <4>4. CASE offset = s.old
        <5>1. t.new = s.new /\ s.found BY <2>4, <4>4
        <5>2. now[s.new].level \in Nat BY <2>9, <5>1, SoundFacts DEF Nodes
        <5> QED BY <2>0, <2>5, <2>9, <3>1, <5>1, <5>2
      <4> QED BY <4>3, <4>4
    <3>9. t.old # 0 => \/ skipdelete(cache, t.old) = t.at
                       \/ skipdelete(cache, t.old) = 0
                       \/ /\ skipdelete(cache, t.old) = t.new /\ t.new \in L
                          /\ now[t.new].key >= k /\ t.found = (now[t.new].key = k)
      <4>1. CASE offset # s.old
        <5>1. t.old = offset /\ t.new = new BY <2>4, <2>13, <4>1
        <5> QED BY <2>5, <2>7, <3>2, <3>7, <5>1
      <4>2. CASE offset = s.old
        <5>1. t.old = s.old /\ t.new = s.new /\ t.found = s.found BY <2>4, <4>2
        <5> QED BY <2>9, <3>1, <5>1
      <4> QED BY <4>1, <4>2
    <3>10. t.level = 0 => t.at = t.back[0] /\ t.found = (\E o \in L : now[o].key = k)
      <4> SUFFICES ASSUME t.level = 0
                   PROVE  t.at = t.back[0] /\ t.found = (\E o \in L : now[o].key = k)
        OBVIOUS
      <4>1. level = 0 BY <3>1
      <4>2. t.at = t.back[0] BY <2>1, <2>4, <2>6, <3>1, <4>1
      <4>3. IsNext(now, L, now[s.at].key, new) BY <2>3, <4>1, SoundFacts
      <4>4. (\E o \in L : now[o].key = k) => new # 0 /\ now[new].key = k
        <5> SUFFICES ASSUME NEW o \in L, now[o].key = k PROVE new # 0 /\ now[new].key = k
          OBVIOUS
        <5> QED BY <2>0, <2>2, <2>7, <3>2, <4>3 DEF IsNext
      <4> QED BY <2>7, <3>6, <4>2, <4>4
    <3>11. t.at \in Nodes(L) /\ now[t.at].key < k /\ t.level <= now[t.at].level
      BY <2>0, <2>2, <2>5, <3>1
    <3> QED BY <2>4, <3>4, <3>5, <3>8, <3>9, <3>10, <3>11 DEF Searched, t
  <2> QED BY <2>12, <2>13 DEF t
<1> QED BY <1>1, <1>2

\* The search ends at level zero, at the record before k or at k.
LEMMA SearchEnds ==
  ASSUME NEW L, Sound(L), NEW k \in Key
  PROVE  LET s == search(k)
         IN /\ s \in Search /\ s.at = s.back[0]
            /\ \A i \in Levels : /\ IsPrev(now, L, i, k, s.back[i])
                                 /\ s.fwd[i] = getloc(cache[s.back[i]], i, size + 1)
            /\ s.found = (\E o \in L : now[o].key = k)
            /\ s.found => s.new \in L /\ now[s.new].key = k
<1> DEFINE start == [level |-> MaxLevel, at |-> DUMMY_OFFSET, old |-> 0, new |-> 0,
                     found |-> FALSE, back |-> NoOffsets, fwd |-> NoOffsets]
           turns == MaxLevel + MaxOffset
           step == [s \in Search |-> turn(k, s)]
           w == Walk(step, start, turns)
<1>0. /\ MaxLevel \in Nat /\ MaxLevel > 0 /\ MaxOffset \in Nat /\ cache \in [Offset -> Rec]
      /\ k \in Nat /\ k > 0 /\ turns \in Nat
  BY FileAssumption, Keys DEF Sound
<1>1. start \in Search
  <2>1. DUMMY_OFFSET \in Offset /\ NoOffsets \in [Levels -> Ptr] /\ 0 \in Ptr
    BY FileAssumption DEF DUMMY_OFFSET, Offset, NoOffsets, Ptr
  <2>2. MaxLevel \in 0 .. MaxLevel BY <1>0
  <2> QED BY <2>1, <2>2 DEF Search
<1>2. step \in [Search -> Search]
  <2> SUFFICES ASSUME NEW s \in Search PROVE turn(k, s) \in Search OBVIOUS
  <2>1. CASE s.level = 0 BY <2>1 DEF turn
  <2>2. CASE s.level # 0 BY <1>0, <2>2, TurnFields DEF Turned
  <2> QED BY <2>1, <2>2
<1>3. search(k) = w[turns] BY DEF search
<1>4. Searched(k, L, start, 0)
  <2>1. /\ DUMMY_OFFSET \in Nodes(L) /\ now[DUMMY_OFFSET].key < k
        /\ MaxLevel <= now[DUMMY_OFFSET].level
    BY <1>0, SoundFacts
  <2>2. Cardinality(Passed(L, DUMMY_OFFSET)) \in Nat
    <3>1. IsFiniteSet(Offset) BY FS_Interval, FileAssumption DEF Offset
    <3>2. Passed(L, DUMMY_OFFSET) \subseteq Offset BY SoundFacts DEF Passed
    <3> QED BY <3>1, <3>2, FS_Subset, FS_CardinalityType
  <2>3. \A i \in Levels : ~(i >= MaxLevel) BY <1>0 DEF Levels
  <2> QED BY <1>0, <1>1, <2>1, <2>2, <2>3 DEF Searched
<1> HIDE DEF step, start, turns
<1>5. /\ w[0] = start /\ \A i \in 0 .. turns : w[i] \in Search
      /\ \A i \in 0 .. turns - 1 : w[i + 1] = step[w[i]]
  BY <1>0, <1>1, <1>2, WalkSteps
<1> HIDE DEF w
<1>6. \A i \in 0 .. turns : Searched(k, L, w[i], i)
  <2> DEFINE S == {i \in 0 .. turns : Searched(k, L, w[i], i)}
  <2>1. 0 \in S BY <1>0, <1>4, <1>5
  <2>2. ASSUME NEW i \in 0 .. turns - 1, i \in S PROVE i + 1 \in S
    <3>1. w[i + 1] = turn(k, w[i]) BY <1>0, <1>5, <2>2 DEF step
    <3>2. Searched(k, L, turn(k, w[i]), i + 1) BY <1>0, <2>2, SearchTurn
    <3> QED BY <1>0, <2>2, <3>1, <3>2
  <2> HIDE DEF S
  <2>3. \A i \in 0 .. turns : i \in S BY <1>0, <2>1, <2>2, UpTo
  <2> QED BY <2>3 DEF S
<1> DEFINE s == w[turns]
<1>7. Searched(k, L, s, turns) BY <1>0, <1>6
<1> HIDE DEF s
<1>8. s.level = 0
  <2>1. Cardinality(Passed(L, s.at)) <= MaxOffset /\ Cardinality(Passed(L, s.at)) \in Nat
    <3>1. IsFiniteSet(Offset) /\ Cardinality(Offset) = MaxOffset
      BY FS_Interval, FileAssumption DEF Offset
    <3>2. Passed(L, s.at) \subseteq Offset BY SoundFacts DEF Passed
    <3> QED BY <3>1, <3>2, FS_Subset, FS_CardinalityType
  <2>2. s.level \in 0 .. MaxLevel BY <1>7 DEF Searched, Search
  <2>3. s.level = 0 \/ turns <= MaxLevel - s.level + Cardinality(Passed(L, s.at))
    BY <1>7 DEF Searched
  <2> QED BY <1>0, <2>1, <2>2, <2>3 DEF turns
<1>9. search(k) = s BY <1>3 DEF s
<1>10. \A i \in Levels : i >= 0 BY DEF Levels
<1> QED BY <1>7, <1>8, <1>9, <1>10 DEF Searched

\* What a location says about its file besides the place.
Tagged(l) == l \in LocType /\ l.gen = hcache.generation /\ l.end = size + 1

\* The forward pointers of a record are those of a location at it.
LEMMA ForwardNext ==
  ASSUME NEW L, Sound(L), NEW k \in Nat, NEW o \in Nodes(L), now[o].key = k,
         NEW fwd \in [Levels -> Ptr],
         \A i \in Levels : i >= now[o].level => IsNext(now, Above(now, L, i), k, fwd[i])
  PROVE  LET w == forward(cache, o, fwd)
         IN /\ w \in [Levels -> Ptr] /\ w[0] = now[o].next
            /\ \A i \in Levels \ {0} : IsNext(now, Above(now, L, i), k, w[i])
<1> DEFINE w == forward(cache, o, fwd)
<1>1. cache[o].level = now[o].level /\ now[o].level \in 1 .. MaxLevel BY SoundFacts
<1>2. w = [l \in Levels |-> IF l < now[o].level THEN getloc(cache[o], l, size + 1) ELSE fwd[l]]
  BY <1>1 DEF forward
<1> HIDE DEF w
<1>3. \A l \in Levels : l < now[o].level => getloc(cache[o], l, size + 1) \in Ptr
  BY PointerNext
<1>4. w \in [Levels -> Ptr] BY <1>2, <1>3
<1>5. 0 \in Levels BY FileAssumption DEF Levels
<1>6. w[0] = now[o].next BY <1>1, <1>2, <1>5, PointerNext
<1>7. ASSUME NEW i \in Levels \ {0} PROVE IsNext(now, Above(now, L, i), k, w[i])
  <2>1. CASE i < now[o].level
    <3>1. w[i] = getloc(cache[o], i, size + 1) BY <1>2, <2>1
    <3>2. /\ IsNext(now, Above(now, L, i), now[o].key, skipdelete(cache, w[i]))
          /\ skipdelete(cache, w[i]) = w[i]
      BY <2>1, <3>1, PointerNext
    <3> QED BY <3>2
  <2>2. CASE ~(i < now[o].level)
    BY <1>1, <1>2, <2>2 DEF Levels
  <2> QED BY <2>1, <2>2
<1> QED BY <1>4, <1>6, <1>7 DEF w

\* relocate finds the place of every key.
LEMMA Relocated ==
  ASSUME NEW L, Sound(L), NEW k \in Key \cup {0}
  PROVE  IsLoc(now, L, relocate(k)) /\ relocate(k).key = k /\ Tagged(relocate(k))
<1>0. /\ 0 \in Levels /\ \A i \in Levels : i \in Nat /\ i < MaxLevel
  BY FileAssumption DEF Levels
<1>t. hcache.generation \in Nat /\ size + 1 \in Size
  BY FileAssumption DEF Sound, Header, Offset, Size
<1>d. DUMMY_OFFSET \in Ptr BY FileAssumption DEF Ptr, DUMMY_OFFSET
<1>1. CASE k = 0
  <2> DEFINE fw == forward(cache, DUMMY_OFFSET, NoOffsets)
  <2>1. relocate(k) = [key |-> 0, exact |-> FALSE, at |-> DUMMY_OFFSET,
                       back |-> [i \in Levels |-> DUMMY_OFFSET], fwd |-> fw,
                       gen |-> hcache.generation, end |-> size + 1]
    BY <1>1 DEF relocate
  <2>2. NoOffsets \in [Levels -> Ptr] BY FileAssumption DEF NoOffsets, Ptr
  <2>3. /\ DUMMY_OFFSET \in Nodes(L) /\ now[DUMMY_OFFSET].key = 0
        /\ now[DUMMY_OFFSET].level = MaxLevel /\ MaxLevel \in Nat
    BY SoundFacts, FileAssumption
  <2>4. /\ fw \in [Levels -> Ptr] /\ fw[0] = now[DUMMY_OFFSET].next
        /\ \A i \in Levels \ {0} : IsNext(now, Above(now, L, i), 0, fw[i])
    <3>1. \A i \in Levels : ~(i >= now[DUMMY_OFFSET].level) BY <1>0, <2>3
    <3> QED BY <2>2, <2>3, <3>1, ForwardNext
  <2> HIDE DEF fw
  <2>5. Tagged(relocate(k)) BY <1>t, <1>d, <2>1, <2>4 DEF Tagged, LocType
  <2>6. \A o \in L : now[o].key \in Nat /\ now[o].key > 0 BY SoundFacts DEF Nodes
  <2>7. ASSUME NEW i \in Levels PROVE IsPrev(now, L, i, 0, DUMMY_OFFSET)
    BY <1>0, <2>3, <2>6 DEF IsPrev, Above
  <2>8. IsLoc(now, L, relocate(k))
    BY <1>0, <2>1, <2>4, <2>6, <2>7 DEF IsLoc
  <2> QED BY <1>1, <2>1, <2>5, <2>8
<1>2. CASE k # 0
  <2>0. k \in Key /\ k \in Nat BY <1>2, Keys
  <2> DEFINE s == search(k)
  <2>1. /\ s \in Search /\ s.at = s.back[0]
        /\ \A i \in Levels : /\ IsPrev(now, L, i, k, s.back[i])
                             /\ s.fwd[i] = getloc(cache[s.back[i]], i, size + 1)
        /\ s.found = (\E o \in L : now[o].key = k)
        /\ s.found => s.new \in L /\ now[s.new].key = k
    BY <2>0, SearchEnds
  <2>2. relocate(k) = IF s.found
                      THEN [key |-> k, exact |-> TRUE, at |-> s.new, back |-> s.back,
                            fwd |-> forward(cache, s.new, s.fwd),
                            gen |-> hcache.generation, end |-> size + 1]
                      ELSE [key |-> k, exact |-> FALSE, at |-> s.at, back |-> s.back,
                            fwd |-> s.fwd, gen |-> hcache.generation, end |-> size + 1]
    <3>1. CASE s.found
      <4> DEFINE l == [key |-> k, exact |-> FALSE, at |-> s.at, back |-> s.back,
                       fwd |-> s.fwd, gen |-> hcache.generation, end |-> size + 1]
                 fw == forward(cache, s.new, s.fwd)
      <4>1. relocate(k) = [l EXCEPT !.exact = TRUE, !.at = s.new, !.fwd = fw]
        BY <1>2, <3>1, Zenon DEF relocate
      <4> HIDE DEF fw, s
      <4>2. relocate(k) = [key |-> k, exact |-> TRUE, at |-> s.new, back |-> s.back,
                           fwd |-> fw, gen |-> hcache.generation, end |-> size + 1]
        BY <4>1
      <4> QED BY <3>1, <4>2 DEF fw
    <3>2. CASE ~s.found BY <1>2, <3>2 DEF relocate
    <3> QED BY <3>1, <3>2
  <2> HIDE DEF s
  <2>3. s.back \in [Levels -> Ptr] /\ s.fwd \in [Levels -> Ptr] /\ s.found \in BOOLEAN
        /\ s.at \in Ptr
    BY <2>1, FileAssumption DEF Search, Offset, Ptr
  <2>4. ASSUME NEW i \in Levels
        PROVE  /\ s.back[i] \in Nodes(L) /\ i < now[s.back[i]].level
               /\ IsNext(now, Above(now, L, i), now[s.back[i]].key, skipdelete(cache, s.fwd[i]))
               /\ i # 0 => skipdelete(cache, s.fwd[i]) = s.fwd[i]
               /\ i = 0 => s.fwd[i] = now[s.back[i]].next
    <3>1. s.back[i] \in Nodes(L) /\ i < now[s.back[i]].level BY <2>1 DEF IsPrev
    <3> QED BY <2>1, <3>1, PointerNext
  <2>5. ASSUME NEW i \in Levels, \A y \in Above(now, L, i) : now[y].key # k
        PROVE  IsNext(now, Above(now, L, i), k, skipdelete(cache, s.fwd[i]))
    BY <2>0, <2>1, <2>4, <2>5, PrevNext
  <2>6. CASE s.found
    <3> DEFINE fw == forward(cache, s.new, s.fwd)
    <3>1. s.new \in L /\ now[s.new].key = k /\ s.new \in Nodes(L) /\ s.new \in Ptr
          /\ now[s.new].level \in 1 .. MaxLevel
      <4>1. s.new \in L /\ now[s.new].key = k /\ s.new \in Nodes(L) BY <2>1, <2>6 DEF Nodes
      <4>2. s.new \in Offset /\ now[s.new].level \in 1 .. MaxLevel BY <4>1, SoundFacts
      <4> QED BY <4>1, <4>2, FileAssumption DEF Offset, Ptr
    <3>2. ASSUME NEW i \in Levels, i >= now[s.new].level
          PROVE  IsNext(now, Above(now, L, i), k, s.fwd[i])
      <4>1. \A y \in Above(now, L, i) : now[y].key # k
        BY <1>0, <3>1, <3>2, SoundFacts DEF Above, Nodes
      <4>2. i # 0 BY <3>1, <3>2
      <4> QED BY <2>4, <2>5, <4>1, <4>2
    <3>3. /\ fw \in [Levels -> Ptr] /\ fw[0] = now[s.new].next
          /\ \A i \in Levels \ {0} : IsNext(now, Above(now, L, i), k, fw[i])
      BY <2>0, <2>3, <3>1, <3>2, ForwardNext
    <3>4. relocate(k) = [key |-> k, exact |-> TRUE, at |-> s.new, back |-> s.back,
                         fwd |-> fw, gen |-> hcache.generation, end |-> size + 1]
      BY <2>2, <2>6
    <3> HIDE DEF fw
    <3>5. Tagged(relocate(k)) BY <1>t, <2>3, <3>1, <3>3, <3>4 DEF Tagged, LocType
    <3>6. IsLoc(now, L, relocate(k)) BY <2>1, <2>6, <3>1, <3>3, <3>4 DEF IsLoc
    <3> QED BY <3>4, <3>5, <3>6
  <2>7. CASE ~s.found
    <3>1. relocate(k) = [key |-> k, exact |-> FALSE, at |-> s.at, back |-> s.back,
                         fwd |-> s.fwd, gen |-> hcache.generation, end |-> size + 1]
      BY <2>2, <2>7
    <3>2. Tagged(relocate(k)) BY <1>t, <2>3, <3>1 DEF Tagged, LocType
    <3>3. \A y \in L : now[y].key # k BY <2>1, <2>7
    <3>4. \A i \in Levels \ {0} : IsNext(now, Above(now, L, i), k, s.fwd[i])
      BY <2>4, <2>5, <3>3 DEF Above
    <3>5. s.fwd[0] = now[s.at].next BY <1>0, <2>1, <2>4
    <3>6. IsLoc(now, L, relocate(k)) BY <2>1, <2>7, <3>1, <3>3, <3>4, <3>5 DEF IsLoc
    <3> QED BY <3>1, <3>2, <3>6
  <2> QED BY <2>6, <2>7
<1> QED BY <1>1, <1>2

\* A key has one location.
LEMMA LocUnique ==
  ASSUME NEW L, Sound(L), NEW l, NEW m, Tagged(l), Tagged(m), l.key = m.key,
         IsLoc(now, L, l), IsLoc(now, L, m)
  PROVE  l = m
<1>0. /\ now \in [Offset -> FaceRec] /\ size + 1 \in 2 .. MaxOffset + 1
      /\ Records(now, size + 1, L) /\ \A o, x \in Nodes(L) : now[o].key = now[x].key => o = x
  BY SoundFacts
<1>1. /\ l \in LocType /\ m \in LocType /\ l.gen = m.gen /\ l.end = m.end
      /\ l.back \in [Levels -> Ptr] /\ m.back \in [Levels -> Ptr]
      /\ l.fwd \in [Levels -> Ptr] /\ m.fwd \in [Levels -> Ptr]
      /\ l.key \in Nat
  BY Keys DEF Tagged, LocType
<1>2. l.exact = m.exact BY DEF IsLoc
<1>3. ASSUME NEW i \in Levels PROVE l.back[i] = m.back[i]
  <2>1. IsPrev(now, L, i, l.key, l.back[i]) /\ IsPrev(now, L, i, l.key, m.back[i]) BY DEF IsLoc
  <2> QED BY <1>0, <1>1, <2>1, PrevUnique
<1>4. l.back = m.back BY <1>1, <1>3
<1>5. l.at = m.at
  <2>1. CASE l.exact
    <3>1. l.at \in L /\ m.at \in L /\ now[l.at].key = now[m.at].key BY <1>2, <2>1 DEF IsLoc
    <3> QED BY <1>0, <3>1 DEF Nodes
  <2>2. CASE ~l.exact BY <1>2, <1>4, <2>2 DEF IsLoc
  <2> QED BY <2>1, <2>2
<1>6. ASSUME NEW i \in Levels PROVE l.fwd[i] = m.fwd[i]
  <2>1. CASE i = 0 BY <1>5, <2>1 DEF IsLoc
  <2>2. CASE i # 0
    <3>1. IsNext(now, Above(now, L, i), l.key, l.fwd[i])
          /\ IsNext(now, Above(now, L, i), l.key, m.fwd[i])
      BY <2>2 DEF IsLoc
    <3>2. Above(now, L, i) \subseteq L BY DEF Above
    <3> QED BY <1>0, <1>1, <3>1, <3>2, NextUnique
  <2> QED BY <2>1, <2>2
<1>7. l.fwd = m.fwd BY <1>1, <1>6
<1> QED BY <1>1, <1>2, <1>4, <1>5, <1>7 DEF LocType

\* The first record after a key is still the first after one that lies in between.
LEMMA NextShift ==
  ASSUME NEW f, NEW S, NEW j, NEW k, NEW x,
         \A y \in S : f[y].key \in Nat /\ (f[y].key > j <=> f[y].key > k),
         j \in Nat, k \in Nat, IsNext(f, S, j, x)
  PROVE  IsNext(f, S, k, x)
<1>1. CASE x = 0 BY <1>1 DEF IsNext
<1>2. CASE x # 0 BY <1>2 DEF IsNext
<1> QED BY <1>1, <1>2

\* Where a location is.
LEMMA LocAt ==
  ASSUME NEW L, Sound(L), NEW l, Tagged(l), IsLoc(now, L, l)
  PROVE  LET next == skipdelete(cache, l.fwd[0])
         IN /\ l.at \in Nodes(L) /\ l.key \in Nat
            /\ \A y \in L : now[y].key > now[l.at].key <=> now[y].key > l.key
            /\ now[l.at].key <= l.key /\ (l.exact => now[l.at].key = l.key)
            /\ IsNext(now, L, now[l.at].key, next) /\ IsNext(now, L, l.key, next)
            /\ next \in Ptr
<1>0. \A o \in Nodes(L) : now[o].key \in Nat /\ now[o].level \in 1 .. MaxLevel BY SoundFacts
<1>1. l.key \in Nat BY Keys DEF Tagged, LocType
<1>2. 0 \in Levels BY FileAssumption DEF Levels
<1>3. l.at \in Nodes(L) /\ now[l.at].key <= l.key /\ (l.exact => now[l.at].key = l.key)
      /\ \A y \in L : now[y].key > now[l.at].key <=> now[y].key > l.key
  <2>1. CASE l.exact
    <3>1. l.at \in L /\ l.at \in Nodes(L) /\ now[l.at].key = l.key
      BY <2>1 DEF IsLoc, Nodes
    <3> QED BY <1>0, <1>1, <3>1
  <2>2. CASE ~l.exact
    <3>1. IsPrev(now, L, 0, l.key, l.at) /\ l.at \in Nodes(L)
      BY <1>2, <2>2 DEF IsLoc, IsPrev
    <3>2. \A y \in L : now[y].key # l.key BY <2>2 DEF IsLoc
    <3>3. now[l.at].key <= l.key
      BY <1>0, <1>1, <3>1, SoundFacts DEF IsPrev
    <3>4. \A y \in L : now[y].key < l.key => now[y].key <= now[l.at].key
      BY <3>1, SoundFacts DEF IsPrev
    <3> QED BY <1>0, <1>1, <2>2, <3>1, <3>2, <3>3, <3>4 DEF Nodes
  <2> QED BY <2>1, <2>2
<1>4. l.fwd[0] = getloc(cache[l.at], 0, size + 1) /\ 0 < now[l.at].level
  <2>1. l.fwd[0] = now[l.at].next BY DEF IsLoc
  <2>2. l.at \in Offset /\ cache \in [Offset -> Rec] BY <1>3, SoundFacts DEF Sound
  <2> QED BY <1>0, <1>3, <2>1, <2>2, FacesAt DEF now
<1>5. /\ IsNext(now, Above(now, L, 0), now[l.at].key, skipdelete(cache, l.fwd[0]))
      /\ skipdelete(cache, l.fwd[0]) \in Ptr
  BY <1>2, <1>3, <1>4, PointerNext
<1>6. IsNext(now, L, now[l.at].key, skipdelete(cache, l.fwd[0])) BY <1>5, SoundFacts
<1>7. IsNext(now, L, l.key, skipdelete(cache, l.fwd[0]))
  <2>1. \A y \in L : now[y].key \in Nat BY <1>0 DEF Nodes
  <2> QED BY <1>0, <1>1, <1>3, <1>6, <2>1, NextShift
<1> QED BY <1>1, <1>3, <1>5, <1>6, <1>7

\* From a location to a key with no other between: the pointers back, and the
\* pointers forward on the levels that the key does not have.
LEMMA Move ==
  ASSUME NEW L, Sound(L), NEW l, Tagged(l), IsLoc(now, L, l), NEW k \in Key,
         now[l.at].key < k,
         \A y \in L : ~(now[l.at].key < now[y].key /\ now[y].key < k)
  PROVE  LET b == backward(l.at, l.back)
         IN /\ b \in [Levels -> Ptr] /\ b[0] = l.at
            /\ \A i \in Levels : IsPrev(now, L, i, k, b[i])
            /\ \A i \in Levels \ {0} : (\A y \in Above(now, L, i) : now[y].key # k)
                 => IsNext(now, Above(now, L, i), k, l.fwd[i])
<1> DEFINE b == backward(l.at, l.back)
           a == l.at
<1>0. \A o \in Nodes(L) : now[o].key \in Nat /\ now[o].level \in 1 .. MaxLevel BY SoundFacts
<1>1. k \in Nat /\ k > 0 BY Keys
<1>2. /\ a \in Nodes(L) /\ l.key \in Nat
      /\ \A y \in L : now[y].key > now[a].key <=> now[y].key > l.key
      /\ now[a].key <= l.key /\ (l.exact => now[a].key = l.key)
  BY LocAt
<1>3. levelat(a) = now[a].level BY <1>2, SoundFacts DEF levelat
<1>4. b = [i \in Levels |-> IF i < now[a].level THEN a ELSE l.back[i]]
  BY <1>3 DEF backward
<1>5. a \in Ptr BY <1>2, SoundFacts, FileAssumption DEF Offset, Ptr
<1>6. l.back \in [Levels -> Ptr] BY DEF Tagged, LocType
<1>7. 0 \in Levels /\ \A i \in Levels : i \in Nat BY FileAssumption DEF Levels
<1> HIDE DEF b
<1>8. b \in [Levels -> Ptr] BY <1>4, <1>5, <1>6
<1>9. b[0] = l.at BY <1>0, <1>2, <1>4, <1>7
<1>10. ASSUME NEW i \in Levels PROVE IsPrev(now, L, i, k, b[i])
  <2>1. CASE i < now[a].level
    <3>1. b[i] = a BY <1>4, <2>1
    <3>2. ASSUME NEW y \in Above(now, L, i), now[y].key < k PROVE now[y].key <= now[a].key
      BY <1>0, <1>1, <1>2, <3>2 DEF Above, Nodes
    <3> QED BY <1>2, <2>1, <3>1, <3>2 DEF IsPrev
  <2>2. CASE ~(i < now[a].level)
    <3>1. b[i] = l.back[i] BY <1>4, <2>2
    <3>2. IsPrev(now, L, i, l.key, b[i]) BY <3>1 DEF IsLoc
    <3> DEFINE x == b[i]
    <3>3. x \in Nodes(L) /\ i < now[x].level BY <3>2 DEF IsPrev
    <3>4. x # DUMMY_OFFSET => now[x].key < k
      <4> SUFFICES ASSUME x # DUMMY_OFFSET PROVE now[x].key < k OBVIOUS
      <4>1. x \in L /\ now[x].key < l.key BY <3>2, <3>3 DEF IsPrev, Nodes
      <4> QED BY <1>0, <1>1, <1>2, <3>3, <4>1
    <3>5. ASSUME NEW y \in Above(now, L, i), now[y].key < k PROVE now[y].key <= now[x].key
      <4>1. y \in L /\ y \in Nodes(L) /\ i < now[y].level BY DEF Above, Nodes
      <4>2. y # a BY <1>0, <1>2, <1>7, <2>2, <4>1
      <4>3. now[y].key <= now[a].key BY <1>0, <1>1, <1>2, <3>5, <4>1
      <4>4. now[y].key # now[a].key BY <1>2, <4>1, <4>2, SoundFacts
      <4>5. now[y].key < l.key BY <1>0, <1>2, <4>1, <4>3, <4>4
      <4> QED BY <3>2, <4>5 DEF IsPrev
    <3> QED BY <3>3, <3>4, <3>5 DEF IsPrev
  <2> QED BY <2>1, <2>2
<1>11. ASSUME NEW i \in Levels \ {0}, \A y \in Above(now, L, i) : now[y].key # k
       PROVE  IsNext(now, Above(now, L, i), k, l.fwd[i])
  <2>1. IsNext(now, Above(now, L, i), l.key, l.fwd[i]) BY DEF IsLoc
  <2>2. \A y \in Above(now, L, i) : now[y].key \in Nat /\ (now[y].key > l.key <=> now[y].key > k)
    <3> SUFFICES ASSUME NEW y \in Above(now, L, i)
                 PROVE  now[y].key \in Nat /\ (now[y].key > l.key <=> now[y].key > k)
      OBVIOUS
    <3>1. y \in L /\ y \in Nodes(L) BY DEF Above, Nodes
    <3> QED BY <1>0, <1>1, <1>2, <1>11, <3>1
  <2> QED BY <1>1, <1>2, <2>1, <2>2, NextShift
<1> QED BY <1>8, <1>9, <1>10, <1>11 DEF b

onward(l, next) ==
  [l EXCEPT !.key = keyat(next), !.exact = TRUE, !.at = next,
            !.back = backward(l.at, @), !.fwd = forward(cache, next, @)]

\* The next record after a location.
LEMMA Onward ==
  ASSUME NEW L, Sound(L), NEW l, Tagged(l), IsLoc(now, L, l),
         NEW next, next = skipdelete(cache, l.fwd[0]), next # 0
  PROVE  LET m == onward(l, next)
         IN IsLoc(now, L, m) /\ Tagged(m) /\ m.key = keyat(next) /\ m.exact
            /\ keyat(next) = now[next].key /\ next \in L
<1> DEFINE k == now[next].key
           b == backward(l.at, l.back)
           fw == forward(cache, next, l.fwd)
           m == onward(l, next)
<1>0. \A o \in Nodes(L) : now[o].key \in Nat /\ now[o].level \in 1 .. MaxLevel BY SoundFacts
<1>1. /\ l.at \in Nodes(L) /\ l.key \in Nat
      /\ IsNext(now, L, now[l.at].key, next) /\ next \in Ptr
  BY LocAt
<1>2. next \in L /\ next \in Nodes(L) /\ k \in Key /\ now[l.at].key < k
  BY <1>0, <1>1, SoundFacts DEF IsNext, Nodes
<1>3. keyat(next) = k BY <1>2, SoundFacts DEF keyat
<1>4. \A y \in L : ~(now[l.at].key < now[y].key /\ now[y].key < k)
  BY <1>0, <1>1 DEF IsNext, Nodes
<1>5. /\ b \in [Levels -> Ptr] /\ b[0] = l.at
      /\ \A i \in Levels : IsPrev(now, L, i, k, b[i])
      /\ \A i \in Levels \ {0} : (\A y \in Above(now, L, i) : now[y].key # k)
           => IsNext(now, Above(now, L, i), k, l.fwd[i])
  BY <1>2, <1>4, Move
<1>6. l \in LocType /\ l.fwd \in [Levels -> Ptr] BY DEF Tagged, LocType
<1>7. ASSUME NEW i \in Levels, i >= now[next].level
      PROVE  IsNext(now, Above(now, L, i), k, l.fwd[i])
  <2>1. i \in Nat BY FileAssumption DEF Levels
  <2>2. \A y \in Above(now, L, i) : now[y].key # k
    <3> SUFFICES ASSUME NEW y \in Above(now, L, i), now[y].key = k PROVE FALSE OBVIOUS
    <3>1. y = next BY <1>2, SoundFacts DEF Above, Nodes
    <3> QED BY <1>0, <1>2, <1>7, <2>1, <3>1 DEF Above
  <2> QED BY <1>0, <1>2, <1>5, <1>7, <2>1, <2>2
<1>8. k \in Nat BY <1>2, Keys
<1>9. /\ fw \in [Levels -> Ptr] /\ fw[0] = now[next].next
      /\ \A i \in Levels \ {0} : IsNext(now, Above(now, L, i), k, fw[i])
  BY <1>2, <1>6, <1>7, <1>8, ForwardNext
<1>10. m = [l EXCEPT !.key = k, !.exact = TRUE, !.at = next, !.back = b, !.fwd = fw]
  BY <1>3, <1>6 DEF LocType, onward
<1> HIDE DEF k, b, fw, m
<1>11. /\ m.key = k /\ m.exact = TRUE /\ m.at = next /\ m.back = b /\ m.fwd = fw
       /\ m.gen = l.gen /\ m.end = l.end /\ m \in LocType
  BY <1>1, <1>2, <1>5, <1>6, <1>9, <1>10 DEF LocType
<1>12. Tagged(m) BY <1>11 DEF Tagged
<1>13. IsLoc(now, L, m) BY <1>2, <1>5, <1>9, <1>11 DEF IsLoc, k
<1> QED BY <1>2, <1>3, <1>11, <1>12, <1>13 DEF m, k

\* A key that is not there, after a location.
LEMMA Gap ==
  ASSUME NEW L, Sound(L), NEW l, Tagged(l), IsLoc(now, L, l), NEW k \in Key,
         now[l.at].key < k,
         NEW next, next = skipdelete(cache, l.fwd[0]), next = 0 \/ now[next].key > k
  PROVE  LET m == [l EXCEPT !.key = k, !.exact = FALSE, !.back = backward(l.at, @)]
         IN IsLoc(now, L, m) /\ Tagged(m) /\ m.key = k
<1> DEFINE b == backward(l.at, l.back)
           m == [l EXCEPT !.key = k, !.exact = FALSE, !.back = backward(l.at, @)]
<1>0. \A o \in Nodes(L) : now[o].key \in Nat BY SoundFacts
<1>1. /\ l.at \in Nodes(L) /\ IsNext(now, L, now[l.at].key, next)
  BY LocAt
<1>2. k \in Nat BY Keys
<1>3. \A y \in L : ~(now[l.at].key < now[y].key /\ now[y].key <= k)
  <2> SUFFICES ASSUME NEW y \in L, now[l.at].key < now[y].key, now[y].key <= k PROVE FALSE
    OBVIOUS
  <2>1. CASE next = 0 BY <1>0, <1>1, <2>1 DEF IsNext, Nodes
  <2>2. CASE next # 0 BY <1>0, <1>1, <1>2, <2>2 DEF IsNext, Nodes
  <2> QED BY <2>1, <2>2
<1>4. /\ \A y \in L : ~(now[l.at].key < now[y].key /\ now[y].key < k)
      /\ \A y \in L : now[y].key # k
  BY <1>0, <1>1, <1>2, <1>3 DEF Nodes
<1>5. /\ b \in [Levels -> Ptr] /\ b[0] = l.at
      /\ \A i \in Levels : IsPrev(now, L, i, k, b[i])
      /\ \A i \in Levels \ {0} : (\A y \in Above(now, L, i) : now[y].key # k)
           => IsNext(now, Above(now, L, i), k, l.fwd[i])
  BY <1>4, Move
<1>6. l \in LocType BY DEF Tagged
<1>7. m = [l EXCEPT !.key = k, !.exact = FALSE, !.back = b]
  BY <1>6 DEF LocType
<1> HIDE DEF b, m
<1>8. /\ m.key = k /\ m.exact = FALSE /\ m.at = l.at /\ m.back = b /\ m.fwd = l.fwd
      /\ m.gen = l.gen /\ m.end = l.end /\ m \in LocType
  BY <1>5, <1>6, <1>7 DEF LocType
<1>9. Tagged(m) BY <1>8 DEF Tagged
<1>10. l.fwd[0] = now[l.at].next BY DEF IsLoc
<1>11. \A i \in Levels \ {0} : IsNext(now, Above(now, L, i), k, l.fwd[i])
  BY <1>4, <1>5 DEF Above
<1>12. IsLoc(now, L, m) BY <1>4, <1>5, <1>8, <1>10, <1>11 DEF IsLoc
<1> QED BY <1>8, <1>9, <1>12 DEF m

-----------------------------------------------------------------------------
(* Lookups.                                                                 *)

\* A cached location: right if it is as new as the file.
Usable(L, l) == l \in LocType /\ (fresh(l) => IsLoc(now, L, l))

\* A fresh location is right and has the tag of the file.
LEMMA FreshTagged ==
  ASSUME NEW L, NEW l, Usable(L, l), fresh(l)
  PROVE  IsLoc(now, L, l) /\ Tagged(l)
BY DEF Usable, fresh, Tagged

\* find_loc finds the place of every key, as a full search does.
LEMMA Found ==
  ASSUME NEW L, Sound(L), NEW l, Usable(L, l), NEW k \in Key \cup {0}
  PROVE  /\ IsLoc(now, L, find_loc(l, k)) /\ find_loc(l, k).key = k /\ Tagged(find_loc(l, k))
         /\ find_loc(l, k) = relocate(k)
<1> DEFINE next == skipdelete(cache, l.fwd[0])
           gap == [l EXCEPT !.key = k, !.exact = FALSE, !.back = backward(l.at, @)]
           at == [gap EXCEPT !.exact = TRUE, !.at = next, !.fwd = forward(cache, next, @)]
           n == find_loc(l, k)
<1>0. IsLoc(now, L, relocate(k)) /\ relocate(k).key = k /\ Tagged(relocate(k)) BY Relocated
<1>1. n = IF k = 0 \/ ~fresh(l) THEN relocate(k)
          ELSE IF l.exact /\ keyat(l.at) = k THEN [l EXCEPT !.key = k]
          ELSE IF keyat(l.at) >= k THEN relocate(k)
          ELSE IF next = 0 \/ keyat(next) > k THEN gap
          ELSE IF keyat(next) = k THEN at ELSE relocate(k)
  BY Zenon DEF find_loc
<1> HIDE DEF n
<1>2. CASE n = relocate(k) BY <1>0, <1>2 DEF n
<1>3. CASE n # relocate(k)
  <2>1. k \in Key /\ k \in Nat /\ fresh(l) BY <1>1, <1>3, Keys
  <2>2. IsLoc(now, L, l) /\ Tagged(l) /\ l \in LocType BY <2>1, FreshTagged DEF Tagged
  <2>3. /\ l.at \in Nodes(L) /\ l.key \in Nat /\ (l.exact => now[l.at].key = l.key)
        /\ IsNext(now, L, now[l.at].key, next) /\ next \in Ptr
    BY <2>2, LocAt
  <2>4. keyat(l.at) = now[l.at].key /\ now[l.at].key \in Nat BY <2>3, SoundFacts DEF keyat
  <2>5. next # 0 => next \in L /\ keyat(next) = now[next].key /\ now[next].key \in Nat
    BY <2>3, SoundFacts DEF IsNext, keyat, Nodes
  <2> HIDE DEF next
  <2>6. CASE l.exact /\ keyat(l.at) = k
    <3>1. n = [l EXCEPT !.key = k] BY <1>1, <2>1, <2>6, Keys
    <3>2. l.key = k BY <2>3, <2>4, <2>6
    <3>3. n = l BY <2>2, <3>1, <3>2 DEF LocType
    <3> QED BY <1>0, <2>2, <3>2, <3>3, LocUnique DEF n
  <2>7. CASE ~(l.exact /\ keyat(l.at) = k)
    <3>0. k # 0 BY <2>1, Keys
    <3>1. now[l.at].key < k BY <1>1, <1>3, <2>1, <2>4, <2>7, <3>0
    <3>2. CASE next = 0 \/ keyat(next) > k
      <4>1. n = gap BY <1>1, <2>1, <2>4, <2>7, <3>0, <3>1, <3>2
      <4>2. next = 0 \/ now[next].key > k BY <2>5, <3>2
      <4>3. IsLoc(now, L, gap) /\ Tagged(gap) /\ gap.key = k
        BY <2>1, <2>2, <3>1, <4>2, Gap DEF next
      <4> QED BY <1>0, <4>1, <4>3, LocUnique DEF n
    <3>3. CASE next # 0 /\ keyat(next) = k
      <4> DEFINE m == onward(l, next)
      <4>1. n = at BY <1>1, <2>1, <2>4, <2>7, <3>0, <3>1, <3>3
      <4>2. at = m BY <2>2, <3>3 DEF LocType, onward
      <4>3. IsLoc(now, L, m) /\ Tagged(m) /\ m.key = keyat(next)
        <5>1. next = skipdelete(cache, l.fwd[0]) BY DEF next
        <5> QED BY <2>2, <3>3, <5>1, Onward
      <4> QED BY <1>0, <3>3, <4>1, <4>2, <4>3, LocUnique DEF n
    <3> QED BY <1>1, <1>3, <2>1, <2>4, <2>7, <3>0, <3>1, <3>2, <3>3
  <2> QED BY <2>6, <2>7
<1> QED BY <1>2, <1>3

\* advance_loc goes to the first key after the location's.
LEMMA Advanced ==
  ASSUME NEW L, Sound(L), NEW l, Usable(L, l)
  PROVE  LET n == advance_loc(l)
         IN /\ IsLoc(now, L, n) /\ Tagged(n)
            /\ n.exact => \E o \in L : n.key = now[o].key /\ IsNext(now, L, l.key, o)
            /\ ~n.exact => IsNext(now, L, l.key, 0)
<1> DEFINE m == IF fresh(l) THEN l ELSE relocate(l.key)
           next == skipdelete(cache, m.fwd[0])
           t == onward(m, next)
           n == advance_loc(l)
<1>0. l.key \in Key \cup {0} BY DEF Usable, LocType
<1>1. IsLoc(now, L, m) /\ Tagged(m) /\ m.key = l.key
  BY <1>0, FreshTagged, Relocated
<1>2. n = IF next = 0 THEN relocate(0) ELSE t BY Zenon DEF advance_loc, onward
<1>3. IsNext(now, L, m.key, next) BY <1>1, LocAt
<1> HIDE DEF m
<1>4. CASE next = 0
  <2>1. n = relocate(0) BY <1>2, <1>4
  <2>2. IsLoc(now, L, n) /\ Tagged(n) /\ n.key = 0 BY <2>1, Relocated
  <2>3. ~n.exact BY <2>2, SoundFacts DEF IsLoc
  <2> QED BY <1>1, <1>3, <1>4, <2>2, <2>3
<1>5. CASE next # 0
  <2>1. n = t BY <1>2, <1>5
  <2>2. /\ IsLoc(now, L, t) /\ Tagged(t) /\ t.key = keyat(next) /\ t.exact
        /\ keyat(next) = now[next].key /\ next \in L
    <3>1. next = skipdelete(cache, m.fwd[0]) OBVIOUS
    <3> HIDE DEF next
    <3> QED BY <1>1, <1>5, <3>1, Onward
  <2> QED BY <1>1, <1>3, <2>1, <2>2
<1> QED BY <1>4, <1>5

-----------------------------------------------------------------------------
(* stitch.                                                                  *)

\* What putting a record with the key k on a level, or taking one out, does to
\* the pointers there: b is the last record before k.
Splices(f, S, T, k, b, s, put) ==
  /\ k \in Nat /\ put \in BOOLEAN /\ s # 0
  /\ \A y \in S : f[y].key \in Nat
  /\ f[b].key \in Nat /\ f[b].key < k
  /\ put => f[s].key = k
  /\ \A y : y \in T <=> (y \in S /\ f[y].key # k) \/ (put /\ y = s)
  /\ \A y \in S : f[y].key < k => f[y].key <= f[b].key

\* The pointers of a level after a record is put in or taken out.
LEMMA Splice ==
  ASSUME NEW f, NEW S, NEW T, NEW k, NEW b, NEW s, NEW put, Splices(f, S, T, k, b, s, put)
  PROVE  /\ put => IsNext(f, T, f[b].key, s)
         /\ \A n : ~put /\ IsNext(f, S, k, n) => IsNext(f, T, f[b].key, n)
         /\ \A n : IsNext(f, S, k, n) => IsNext(f, T, k, n)
         /\ \A x, n : /\ f[x].key \in Nat /\ f[x].key # f[b].key /\ f[x].key # k
                      /\ f[x].key < k => f[x].key < f[b].key /\ b \in S
                      /\ IsNext(f, S, f[x].key, n)
                      => IsNext(f, T, f[x].key, n)
<1> USE DEF Splices
<1>0. /\ \A y \in T : f[y].key \in Nat
      /\ \A y \in T : (y \in S /\ f[y].key # k) \/ (put /\ y = s)
      /\ \A y \in S : f[y].key # k => y \in T
      /\ put => s \in T
  OBVIOUS
<1>1. ASSUME put PROVE IsNext(f, T, f[b].key, s)
  <2>1. ASSUME NEW y \in T, f[y].key > f[b].key PROVE f[s].key <= f[y].key
    BY <1>0, <1>1, <2>1
  <2> QED BY <1>0, <1>1, <2>1 DEF IsNext
<1>2. ASSUME NEW n, IsNext(f, S, k, n) PROVE IsNext(f, T, k, n)
  <2>1. CASE n = 0
    <3>1. ASSUME NEW y \in T PROVE f[y].key <= k BY <1>0, <1>2, <2>1 DEF IsNext
    <3> QED BY <2>1, <3>1 DEF IsNext
  <2>2. CASE n # 0
    <3>1. n \in S /\ f[n].key > k /\ f[n].key \in Nat BY <1>2, <2>2 DEF IsNext
    <3>2. n \in T BY <1>0, <3>1
    <3>3. ASSUME NEW y \in T, f[y].key > k PROVE f[n].key <= f[y].key
      BY <1>0, <1>2, <2>2, <3>3 DEF IsNext
    <3> QED BY <2>2, <3>1, <3>2, <3>3 DEF IsNext
  <2> QED BY <2>1, <2>2
<1>3. ASSUME NEW n, ~put, IsNext(f, S, k, n) PROVE IsNext(f, T, f[b].key, n)
  <2>1. IsNext(f, T, k, n) BY <1>2, <1>3
  <2>2. \A y \in T : f[y].key \in Nat /\ (f[y].key > k <=> f[y].key > f[b].key)
    BY <1>0, <1>3
  <2> QED BY <2>1, <2>2, NextShift
<1>4. ASSUME NEW x, NEW n, f[x].key \in Nat, f[x].key # f[b].key, f[x].key # k,
             f[x].key < k => f[x].key < f[b].key /\ b \in S, IsNext(f, S, f[x].key, n)
      PROVE  IsNext(f, T, f[x].key, n)
  <2>1. CASE f[x].key < k
    <3>1. b \in S /\ f[x].key < f[b].key BY <1>4, <2>1
    <3>2. n # 0 /\ n \in S /\ f[n].key \in Nat /\ f[n].key > f[x].key /\ f[n].key <= f[b].key
      BY <1>4, <3>1 DEF IsNext
    <3>3. n \in T BY <1>0, <3>2
    <3>4. ASSUME NEW y \in T, f[y].key > f[x].key PROVE f[n].key <= f[y].key
      BY <1>0, <1>4, <3>2, <3>4 DEF IsNext
    <3> QED BY <3>2, <3>3, <3>4 DEF IsNext
  <2>2. CASE ~(f[x].key < k)
    <3>1. f[x].key > k BY <1>4, <2>2
    <3>2. \A y \in T : f[y].key > f[x].key => y \in S BY <1>0, <1>4, <3>1
    <3>3. CASE n = 0
      <4>1. ASSUME NEW y \in T PROVE f[y].key <= f[x].key
        BY <1>0, <1>4, <3>1, <3>3 DEF IsNext
      <4> QED BY <3>3, <4>1 DEF IsNext
    <3>4. CASE n # 0
      <4>1. n \in S /\ f[n].key \in Nat /\ f[n].key > f[x].key BY <1>4, <3>4 DEF IsNext
      <4>2. n \in T BY <1>0, <1>4, <3>1, <4>1
      <4>3. ASSUME NEW y \in T, f[y].key > f[x].key PROVE f[n].key <= f[y].key
        BY <1>4, <3>2, <3>4, <4>3 DEF IsNext
      <4> QED BY <3>4, <4>1, <4>2, <4>3 DEF IsNext
    <3> QED BY <3>3, <3>4
  <2> QED BY <2>1, <2>2
<1> QED BY <1>1, <1>2, <1>3, <1>4

\* Faces that differ in the level zero pointer only.
Alike(f, g) ==
  \A x \in Offset : /\ g[x].type = f[x].type /\ g[x].level = f[x].level
                    /\ g[x].key = f[x].key /\ g[x].val = f[x].val

\* Faces that differ in their pointers only have the same records.
LEMMA AlikeSame ==
  ASSUME NEW f, NEW g, Alike(f, g), NEW L, L \subseteq Offset, DUMMY_OFFSET \in Offset
  PROVE  /\ \A l : Above(g, L, l) = Above(f, L, l)
         /\ \A S \in SUBSET Offset : \A k, x : IsNext(f, S, k, x) => IsNext(g, S, k, x)
         /\ \A l, k, x : IsPrev(f, L, l, k, x) => IsPrev(g, L, l, k, x)
         /\ \A n : Records(f, n, L) => Records(g, n, L)
<1>1. \A l : Above(g, L, l) = Above(f, L, l) BY DEF Alike, Above
<1>2. ASSUME NEW S \in SUBSET Offset, NEW k, NEW x, IsNext(f, S, k, x) PROVE IsNext(g, S, k, x)
  <2>1. \A y \in S : g[y].key = f[y].key BY DEF Alike
  <2> QED BY <1>2, <2>1 DEF IsNext
<1>3. ASSUME NEW l, NEW k, NEW x, IsPrev(f, L, l, k, x) PROVE IsPrev(g, L, l, k, x)
  <2>1. x \in Offset BY <1>3 DEF IsPrev, Nodes
  <2>2. \A y \in Above(f, L, l) : g[y].key = f[y].key BY DEF Alike, Above
  <2> QED BY <1>1, <1>3, <2>1, <2>2 DEF IsPrev, Alike
<1>4. ASSUME NEW n, Records(f, n, L) PROVE Records(g, n, L)
  BY <1>4 DEF Records, Alike
<1> QED BY <1>1, <1>2, <1>3, <1>4

\* The file and the location during stitch.
Cloth(c, s, L, l, rec, mx, lvl) ==
  /\ c \in [Offset -> Rec] /\ PointBack(c) /\ s \in Offset /\ s >= 2 /\ l \in LocType
  /\ Fits(Faces(c, s + 1), c, s, L, l, rec, mx)
  /\ Sewn(Faces(c, s + 1), c, s, L, l, lvl)

\* The types of a file in the middle of stitch.
LEMMA ClothFacts ==
  ASSUME NEW c, NEW s, NEW L, NEW l, NEW rec, NEW mx, NEW lvl, Cloth(c, s, L, l, rec, mx, lvl)
  PROVE  LET f == Faces(c, s + 1)
         IN /\ f \in [Offset -> FaceRec] /\ s \in 2 .. MaxOffset + 1 /\ s \in Nat
            /\ Records(f, s, L) /\ L \subseteq Offset /\ Nodes(L) \subseteq Offset
            /\ DUMMY_OFFSET \in Offset /\ DUMMY_OFFSET \notin L /\ 0 \notin Nodes(L) /\ s \notin Nodes(L)
            /\ \A o \in Nodes(L) : /\ f[o].key \in Nat /\ o < s /\ f[o].level \in 1 .. MaxLevel
                                   /\ f[o].type # "DELETE" /\ c[o].level = f[o].level
            /\ \A o \in L : f[o].key > 0
            /\ \A o, x \in Nodes(L) : f[o].key = f[x].key => o = x
            /\ f[DUMMY_OFFSET].key = 0 /\ f[DUMMY_OFFSET].level = MaxLevel
            /\ l.key \in Key /\ l.key \in Nat /\ l.key > 0
            /\ l.back \in [Levels -> Ptr] /\ l.fwd \in [Levels -> Ptr]
            /\ mx \in 1 .. MaxLevel /\ (rec.type = "RECORD" => rec.level <= mx)
            /\ (l.exact => f[l.at].level <= mx)
            /\ f[s].type = rec.type /\ f[s].key = rec.key /\ f[s].level = rec.level
            /\ f[s].val = rec.val /\ c[s] = rec /\ rec \in Rec
<1> DEFINE f == Faces(c, s + 1)
<1>0. /\ c \in [Offset -> Rec] /\ s \in Offset /\ s >= 2 /\ l \in LocType
      /\ Fits(f, c, s, L, l, rec, mx)
  BY DEF Cloth
<1>1. f \in [Offset -> FaceRec] BY <1>0, FacesType
<1>2. s \in 2 .. MaxOffset + 1 /\ s \in Nat BY <1>0, FileAssumption DEF Offset
<1>3. Records(f, s, L) BY <1>0 DEF Fits
<1>4. \A o \in Offset : /\ f[o].type = c[o].type /\ f[o].level = c[o].level
                        /\ f[o].key = c[o].key /\ f[o].val = c[o].val
  BY <1>0, FacesAt
<1> HIDE DEF f
<1>5. /\ L \subseteq Offset /\ Nodes(L) \subseteq Offset
      /\ DUMMY_OFFSET \in Offset /\ DUMMY_OFFSET \notin L /\ 0 \notin Nodes(L)
      /\ \A o \in Nodes(L) : /\ f[o].key \in Nat /\ o < s
                             /\ f[o].level \in 1 .. MaxLevel /\ f[o].type # "DELETE"
      /\ \A o \in L : f[o].key > 0
      /\ \A o, x \in Nodes(L) : f[o].key = f[x].key => o = x
  BY <1>1, <1>2, <1>3, RecordFacts
<1>6. s \notin Nodes(L) BY <1>2, <1>5
<1>7. f[DUMMY_OFFSET].key = 0 /\ f[DUMMY_OFFSET].level = MaxLevel BY <1>3 DEF Records
<1>8. l.key \in Key /\ l.key \in Nat /\ l.key > 0 BY <1>0, Keys DEF Fits
<1>9. l.back \in [Levels -> Ptr] /\ l.fwd \in [Levels -> Ptr] BY <1>0 DEF LocType
<1>10. /\ mx \in 1 .. MaxLevel /\ (rec.type = "RECORD" => rec.level <= mx)
       /\ (l.exact => f[l.at].level <= mx)
  <2>1. l.exact => l.at \in Nodes(L) /\ f[l.at].level \in 1 .. MaxLevel
    BY <1>0, <1>5 DEF Fits, Nodes
  <2>2. CASE rec.type = "RECORD"
    <3>1. /\ rec.level \in 1 .. MaxLevel
          /\ mx = IF l.exact THEN Max({rec.level, f[l.at].level}) ELSE rec.level
      BY <1>0, <2>2 DEF Fits
    <3>2. CASE l.exact
      <4> DEFINE S == {rec.level, f[l.at].level}
      <4>1. S \subseteq 0 .. MaxLevel /\ S # {} /\ MaxLevel \in Nat
        BY <2>1, <3>1, <3>2, FileAssumption
      <4>2. Max(S) \in S /\ \A y \in S : y <= Max(S) BY <4>1, Greatest
      <4> QED BY <2>1, <3>1, <3>2, <4>2, FileAssumption
    <3>3. CASE ~l.exact BY <3>1, <3>3, FileAssumption
    <3> QED BY <3>2, <3>3
  <2>3. CASE rec.type # "RECORD"
    <3>1. l.exact /\ mx = f[l.at].level BY <1>0, <2>3 DEF Fits
    <3> QED BY <2>1, <2>3, <3>1, FileAssumption
  <2> QED BY <2>2, <2>3
<1>11. c[s] = rec BY <1>0 DEF Fits
<1> QED BY <1>0, <1>1, <1>2, <1>3, <1>4, <1>5, <1>6, <1>7, <1>8, <1>9, <1>10, <1>11 DEF f

\* The record before k on one level is the one before k on all its levels above.
LEMMA BackSame ==
  ASSUME NEW c, NEW s, NEW L, NEW l, NEW rec, NEW mx, NEW lvl, Cloth(c, s, L, l, rec, mx, lvl),
         NEW i \in Levels, NEW j \in Levels, i <= j, j < Faces(c, s + 1)[l.back[i]].level
  PROVE  l.back[j] = l.back[i]
<1> DEFINE f == Faces(c, s + 1)
<1>1. IsPrev(f, L, i, l.key, l.back[i]) /\ IsPrev(f, L, j, l.key, l.back[j])
  BY DEF Cloth, Fits
<1>2. /\ f \in [Offset -> FaceRec] /\ s \in 2 .. MaxOffset + 1 /\ Records(f, s, L) /\ l.key \in Nat
      /\ \A o \in Nodes(L) : f[o].level \in Nat
  BY ClothFacts
<1> HIDE DEF f
<1>3. i \in Nat /\ j \in Nat BY FileAssumption DEF Levels
<1>4. Above(f, L, j) \subseteq Above(f, L, i) BY <1>2, <1>3 DEF Above, Nodes
<1>5. IsPrev(f, L, j, l.key, l.back[i]) BY <1>1, <1>4 DEF IsPrev, f
<1> QED BY <1>1, <1>2, <1>5, PrevUnique

\* What setlocs does to a record.
LEMMA SetLocs ==
  ASSUME NEW r \in Rec, NEW lo \in Nat, NEW hi \in Nat, lo < hi, NEW fwd \in [Levels -> Ptr],
         NEW cs
  PROVE  LET new == setlocs(r, lo, hi, fwd, cs)
             sl == slot(r, cs)
         IN /\ new \in Rec /\ new = [r EXCEPT !.nextloc = new.nextloc]
            /\ new.type = r.type /\ new.level = r.level /\ new.key = r.key /\ new.val = r.val
            /\ sl \in {0, 1}
            /\ \A j \in {0, 1} : new.nextloc[j] = IF lo = 0 /\ j = sl THEN fwd[0] ELSE r.nextloc[j]
            /\ \A i \in Levels \ {0} :
                 new.nextloc[i + 1] = IF i >= lo /\ i < hi /\ i + 1 <= r.level
                                      THEN fwd[i] ELSE r.nextloc[i + 1]
<1> DEFINE sl == slot(r, cs)
           ptrs == [j \in 0..MaxLevel |->
                      IF j \in {0, 1}
                      THEN IF lo = 0 /\ hi > 0 /\ j = sl THEN fwd[0] ELSE r.nextloc[j]
                      ELSE IF j - 1 >= lo /\ j - 1 < hi /\ j <= r.level
                           THEN fwd[j - 1] ELSE r.nextloc[j]]
           new == setlocs(r, lo, hi, fwd, cs)
<1>0. r.nextloc \in [0 .. MaxLevel -> Ptr] /\ MaxLevel \in Nat /\ MaxLevel >= 1
  BY RecFields, FileAssumption
<1>1. sl \in {0, 1} BY DEF slot
<1>2. new = [r EXCEPT !.nextloc = ptrs] BY DEF setlocs
<1> HIDE DEF sl, new
<1>3. ptrs \in [0..MaxLevel -> Ptr]
  <2> SUFFICES ASSUME NEW j \in 0 .. MaxLevel PROVE ptrs[j] \in Ptr OBVIOUS
  <2>1. CASE j \in {0, 1}
    <3>1. fwd[0] \in Ptr BY <1>0 DEF Levels
    <3> QED BY <1>0, <2>1, <3>1
  <2>2. CASE j \notin {0, 1}
    <3>1. fwd[j - 1] \in Ptr BY <1>0, <2>2 DEF Levels
    <3> QED BY <1>0, <2>2, <3>1
  <2> QED BY <2>1, <2>2
<1>4. \A j \in {0, 1} : ptrs[j] = IF lo = 0 /\ j = sl THEN fwd[0] ELSE r.nextloc[j]
  BY <1>0
<1>5. \A i \in Levels \ {0} :
        ptrs[i + 1] = IF i >= lo /\ i < hi /\ i + 1 <= r.level THEN fwd[i] ELSE r.nextloc[i + 1]
  <2> SUFFICES ASSUME NEW i \in Levels \ {0}
               PROVE  ptrs[i + 1] = IF i >= lo /\ i < hi /\ i + 1 <= r.level
                                    THEN fwd[i] ELSE r.nextloc[i + 1]
    OBVIOUS
  <2>1. i + 1 \in 0 .. MaxLevel /\ i + 1 \notin {0, 1} /\ (i + 1) - 1 = i
    BY <1>0 DEF Levels
  <2> QED BY <2>1
<1> HIDE DEF ptrs
<1>6. new.nextloc = ptrs /\ new \in Rec /\ new = [r EXCEPT !.nextloc = new.nextloc]
      /\ new.type = r.type /\ new.level = r.level /\ new.key = r.key /\ new.val = r.val
  BY <1>2, <1>3 DEF Rec
<1> QED BY <1>1, <1>4, <1>5, <1>6 DEF new, sl

\* The next level of stitch after a record of level h.
nextLevel(h, mx) == IF h >= mx THEN mx ELSE h

\* d is c with the record r in place of the one at o.
written(d, c, o, r) == d = [c EXCEPT ![o] = r]

\* One rewrite of stitch links the levels of the record it rewrites.
LEMMA SewStep ==
  ASSUME NEW c, NEW s, NEW L, NEW l, NEW rec, NEW mx, NEW lvl \in Nat, lvl < mx,
         Cloth(c, s, L, l, rec, mx, lvl), NEW cs \in Nat, cs <= s,
         NEW o, o = l.back[lvl], NEW new, new = setlocs(c[o], lvl, mx, l.fwd, cs),
         NEW d, written(d, c, o, new)
  PROVE  /\ o \in Nodes(L) /\ Restitched(c[o], new, cs) /\ c[o].level > lvl
         /\ Alike(Faces(c, s + 1), Faces(d, s + 1))
         /\ Cloth(d, s, L, l, rec, mx, nextLevel(c[o].level, mx))
<1> DEFINE f == Faces(c, s + 1)
           g == Faces(d, s + 1)
           sl == slot(c[o], cs)
           up == nextLevel(c[o].level, mx)
<1>0. /\ c \in [Offset -> Rec] /\ PointBack(c) /\ s \in Offset /\ s >= 2 /\ l \in LocType
      /\ Fits(f, c, s, L, l, rec, mx) /\ Sewn(f, c, s, L, l, lvl)
  BY DEF Cloth
<1>1. /\ f \in [Offset -> FaceRec] /\ s \in 2 .. MaxOffset + 1 /\ s \in Nat
      /\ Records(f, s, L) /\ L \subseteq Offset /\ Nodes(L) \subseteq Offset
      /\ DUMMY_OFFSET \in Offset /\ DUMMY_OFFSET \notin L /\ 0 \notin Nodes(L) /\ s \notin Nodes(L)
      /\ \A x \in Nodes(L) : /\ f[x].key \in Nat /\ x < s /\ f[x].level \in 1 .. MaxLevel
                             /\ f[x].type # "DELETE" /\ c[x].level = f[x].level
      /\ l.back \in [Levels -> Ptr] /\ l.fwd \in [Levels -> Ptr]
      /\ mx \in 1 .. MaxLevel
  BY ClothFacts
<1> HIDE DEF f
<1>a. c \in [Offset -> Rec] /\ Fits(f, c, s, L, l, rec, mx) BY <1>0, Zenon
<1>b. s \in Nat /\ mx \in 1 .. MaxLevel BY <1>1, Zenon
<1>2. /\ MaxLevel \in Nat /\ lvl \in Levels /\ 0 \in Levels
      /\ \A i \in Levels : i \in Nat /\ i < MaxLevel
  BY <1>1, FileAssumption DEF Levels
<1>3. o \in Nodes(L) /\ lvl < f[o].level /\ o \in Offset
  BY <1>0, <1>1, <1>2 DEF Fits, IsPrev
<1>4. c[o] \in Rec /\ c[o].level = f[o].level /\ c[o].level \in 1 .. MaxLevel /\ mx \in Nat
  <2>1. c[o] \in Rec BY <1>0, <1>3
  <2>2. c[o].level = f[o].level /\ c[o].level \in 1 .. MaxLevel BY <1>1, <1>3
  <2>3. mx \in Nat BY <1>b, FileAssumption
  <2> QED BY <2>1, <2>2, <2>3
<1>5. /\ new \in Rec /\ new = [c[o] EXCEPT !.nextloc = new.nextloc]
      /\ new.type = c[o].type /\ new.level = c[o].level /\ new.key = c[o].key /\ new.val = c[o].val
      /\ sl \in {0, 1}
      /\ \A j \in {0, 1} :
           new.nextloc[j] = IF lvl = 0 /\ j = sl THEN l.fwd[0] ELSE c[o].nextloc[j]
      /\ \A i \in Levels \ {0} :
           new.nextloc[i + 1] = IF i >= lvl /\ i < mx /\ i + 1 <= c[o].level
                                THEN l.fwd[i] ELSE c[o].nextloc[i + 1]
  <2> DEFINE r == c[o]
             fwd == l.fwd
             nw == setlocs(r, lvl, mx, fwd, cs)
  <2>1. r \in Rec /\ fwd \in [Levels -> Ptr] /\ mx \in Nat BY <1>1, <1>4
  <2> HIDE DEF r, fwd
  <2>2. /\ nw \in Rec /\ nw = [r EXCEPT !.nextloc = nw.nextloc]
        /\ nw.type = r.type /\ nw.level = r.level /\ nw.key = r.key /\ nw.val = r.val
        /\ slot(r, cs) \in {0, 1}
        /\ \A j \in {0, 1} :
             nw.nextloc[j] = IF lvl = 0 /\ j = slot(r, cs) THEN fwd[0] ELSE r.nextloc[j]
        /\ \A i \in Levels \ {0} :
             nw.nextloc[i + 1] = IF i >= lvl /\ i < mx /\ i + 1 <= r.level
                                 THEN fwd[i] ELSE r.nextloc[i + 1]
    BY <2>1, SetLocs
  <2> HIDE DEF nw
  <2>3. nw = new BY DEF nw, r, fwd
  <2> QED BY <2>2, <2>3 DEF r, fwd, sl
<1>c. c[o] \in Rec /\ o \in Offset /\ new \in Rec BY <1>3, <1>4, <1>5, Zenon
<1>6. l.fwd[0] = s
  <2>0. rec.type = "RECORD" => rec.level \in 1 .. MaxLevel BY <1>a, Zenon DEF Fits
  <2>1. 0 < (IF rec.type = "RECORD" THEN rec.level ELSE 1) BY <2>0, FileAssumption
  <2> QED BY <1>0, <1>2, <2>1 DEF Fits
<1> HIDE DEF sl
<1>7. Restitched(c[o], new, cs)
  <2>1. \A j \in {0, 1} : new.nextloc[j] # c[o].nextloc[j] => j = sl /\ new.nextloc[j] = s
    BY <1>5, <1>6, Zenon
  <2>2. \A j \in {0, 1} : new.nextloc[j] # c[o].nextloc[j]
                            => j = slot(c[o], cs) /\ new.nextloc[j] >= cs
    BY <1>b, <2>1 DEF sl
  <2> QED BY <1>5, <2>2, Zenon DEF Restitched
<1>8. /\ d \in [Offset -> Rec] /\ d[o] = new /\ \A x \in Offset \ {o} : d[x] = c[x]
  BY <1>a, <1>c DEF written
<1>9. PointBack(d)
  <2>1. c[o].type # "DELETE" BY <1>0, <1>1, <1>3, FacesAt DEF f
  <2> QED BY <1>0, <1>5, <1>8, <2>1 DEF PointBack
<1>d. d \in [Offset -> Rec] BY <1>8, Zenon
<1>10. g \in [Offset -> FaceRec] BY <1>d, FacesType
<1>11. /\ \A x \in Offset \ {o} : g[x] = f[x]
       /\ g[o].type = f[o].type /\ g[o].level = f[o].level /\ g[o].key = f[o].key
       /\ g[o].val = f[o].val
       /\ g[o].next = IF lvl = 0 THEN s ELSE f[o].next
  <2>1. \A x \in Offset : g[x] = Face(d[x], s + 1) BY <1>8, FacesAt
  <2>2. \A x \in Offset : f[x] = Face(c[x], s + 1) BY <1>0, FacesAt DEF f
  <2>3. \A x \in Offset \ {o} : g[x] = f[x] BY <1>8, <2>1, <2>2
  <2>4. getloc(new, 0, s + 1) = IF lvl = 0 THEN s ELSE getloc(c[o], 0, s + 1)
    <3>1. CASE lvl = 0
      <4>1. c[o].nextloc[0] <= s /\ c[o].nextloc[1] <= s BY <1>0, <1>3 DEF Sewn
      <4>2. c[o].nextloc[0] \in Nat /\ c[o].nextloc[1] \in Nat
        BY <1>c, RecFields, FileAssumption
      <4>0. /\ sl \in {0, 1}
            /\ \A j \in {0, 1} :
                 new.nextloc[j] = IF lvl = 0 /\ j = sl THEN l.fwd[0] ELSE c[o].nextloc[j]
        BY <1>5, Zenon
      <4>3. /\ new.nextloc[sl] = s
            /\ \A j \in {0, 1} \ {sl} : new.nextloc[j] <= s /\ new.nextloc[j] \in Nat
        BY <1>b, <1>6, <3>1, <4>1, <4>2, <4>0
      <4>4. CASE sl = 0 BY <1>b, <3>1, <4>3, <4>4 DEF getloc
      <4>5. CASE sl = 1 BY <1>b, <3>1, <4>3, <4>5 DEF getloc
      <4> QED BY <1>5, <4>4, <4>5
    <3>2. CASE lvl # 0 BY <1>5, <3>2 DEF getloc
    <3> QED BY <3>1, <3>2
  <2>5. g[o] = Face(new, s + 1) /\ f[o] = Face(c[o], s + 1) BY <1>3, <1>8, <2>1, <2>2
  <2>6. /\ g[o].type = new.type /\ g[o].level = new.level /\ g[o].key = new.key
        /\ g[o].val = new.val /\ g[o].next = getloc(new, 0, s + 1)
        /\ f[o].type = c[o].type /\ f[o].level = c[o].level /\ f[o].key = c[o].key
        /\ f[o].val = c[o].val /\ f[o].next = getloc(c[o], 0, s + 1)
    BY <2>5 DEF Face
  <2> HIDE DEF g
  <2> QED BY <1>5, <2>3, <2>4, <2>6
<1> HIDE DEF g
<1>12. Alike(f, g) BY <1>3, <1>11 DEF Alike
<1>13. /\ \A i : Above(g, L, i) = Above(f, L, i)
       /\ \A S \in SUBSET Offset : \A k, x : IsNext(f, S, k, x) => IsNext(g, S, k, x)
       /\ \A i, k, x : IsPrev(f, L, i, k, x) => IsPrev(g, L, i, k, x)
       /\ Records(g, s, L)
  <2>1. /\ \A i : Above(g, L, i) = Above(f, L, i)
        /\ \A S \in SUBSET Offset : \A k, x : IsNext(f, S, k, x) => IsNext(g, S, k, x)
        /\ \A i, k, x : IsPrev(f, L, i, k, x) => IsPrev(g, L, i, k, x)
        /\ \A n : Records(f, n, L) => Records(g, n, L)
    BY <1>1, <1>12, AlikeSame, Zenon
  <2> QED BY <1>1, <2>1, Zenon
<1>14. \A i : Above(f, L, i) \in SUBSET Offset BY <1>1 DEF Above
<1>15. ASSUME NEW x \in Offset, g[x].next = f[x].next PROVE following(g, x) = following(f, x)
  <2>1. f[x].next \in Ptr BY <1>1 DEF FaceRec
  <2>2. CASE f[x].next = 0 BY <1>15, <2>2 DEF following
  <2>3. CASE f[x].next # 0
    <3>1. f[x].next \in Offset BY <2>1, <2>3, FileAssumption DEF Ptr, Offset
    <3>2. CASE f[x].next = o BY <1>1, <1>3, <1>11, <1>15, <3>2 DEF following
    <3>3. CASE f[x].next # o BY <1>11, <1>15, <3>1, <3>3 DEF following
    <3> QED BY <3>2, <3>3
  <2> QED BY <2>2, <2>3
<1>16. Fits(g, d, s, L, l, rec, mx)
  <2>1. s \in Offset \ {o} /\ d[s] = c[s] /\ g[s] = f[s] BY <1>0, <1>1, <1>3, <1>8, <1>11
  <2>2. following(g, s) = following(f, s) BY <1>15, <2>1
  <2>3. \A x \in L : g[x].key = f[x].key /\ g[x].level = f[x].level BY <1>1, <1>12 DEF Alike
  <2>4. l.exact => l.at \in L /\ f[l.at].key = l.key BY <1>0 DEF Fits
  <2>5. /\ l.exact = (\E x \in L : g[x].key = l.key)
        /\ l.exact => l.at \in L /\ g[l.at].key = l.key
    BY <1>0, <2>3, <2>4 DEF Fits
  <2>6. \A i \in Levels : IsPrev(g, L, i, l.key, l.back[i]) BY <1>0, <1>13 DEF Fits
  <2>7. \A i \in Levels : IF i < (IF rec.type = "RECORD" THEN rec.level ELSE 1) THEN l.fwd[i] = s
                          ELSE IsNext(g, Above(g, L, i), l.key, l.fwd[i])
    BY <1>0, <1>13, <1>14 DEF Fits
  <2>8. rec.type = "RECORD" =>
          /\ rec.key = l.key /\ rec.val \in Val /\ rec.level \in 1 .. MaxLevel
          /\ mx = IF l.exact THEN Max({rec.level, g[l.at].level}) ELSE rec.level
          /\ rec.nextloc[0] = 0 /\ rec.nextloc[1] < s
          /\ IsNext(g, L, l.key, following(g, s))
          /\ \A i \in 1 .. rec.level - 1 : IsNext(g, Above(g, L, i), l.key, rec.nextloc[i + 1])
    <3> SUFFICES ASSUME rec.type = "RECORD"
                 PROVE /\ rec.key = l.key /\ rec.val \in Val /\ rec.level \in 1 .. MaxLevel
                       /\ mx = IF l.exact THEN Max({rec.level, g[l.at].level}) ELSE rec.level
                       /\ rec.nextloc[0] = 0 /\ rec.nextloc[1] < s
                       /\ IsNext(g, L, l.key, following(g, s))
                       /\ \A i \in 1 .. rec.level - 1 :
                            IsNext(g, Above(g, L, i), l.key, rec.nextloc[i + 1])
      OBVIOUS
    <3>1. /\ rec.key = l.key /\ rec.val \in Val /\ rec.level \in 1 .. MaxLevel
          /\ mx = IF l.exact THEN Max({rec.level, f[l.at].level}) ELSE rec.level
          /\ rec.nextloc[0] = 0 /\ rec.nextloc[1] < s
          /\ IsNext(f, L, l.key, following(f, s))
          /\ \A i \in 1 .. rec.level - 1 : IsNext(f, Above(f, L, i), l.key, rec.nextloc[i + 1])
      BY <1>0 DEF Fits
    <3>2. IsNext(g, L, l.key, following(g, s)) BY <1>1, <1>13, <2>2, <3>1
    <3>3. \A i \in 1 .. rec.level - 1 : IsNext(g, Above(g, L, i), l.key, rec.nextloc[i + 1])
      BY <1>13, <1>14, <3>1
    <3>4. l.exact => g[l.at].level = f[l.at].level BY <2>3, <2>4
    <3> QED BY <3>1, <3>2, <3>3, <3>4
  <2>9. rec.type # "RECORD" =>
          /\ rec.type = "DELETE" /\ l.exact /\ mx = g[l.at].level
          /\ rec.nextloc[1] = 0 /\ rec.nextloc[0] < s
          /\ IsNext(g, L, l.key, rec.nextloc[0])
    BY <1>0, <1>1, <1>13, <2>3, <2>4 DEF Fits
  <2>10. l.key \in Key /\ d[s] = rec BY <1>0, <2>1 DEF Fits
  <2> QED BY <1>13, <2>5, <2>6, <2>7, <2>8, <2>9, <2>10 DEF Fits
<1>17. up \in Nat /\ up > lvl /\ up <= mx /\ up <= f[o].level
       /\ (up = mx \/ up = f[o].level)
  BY <1>2, <1>3, <1>4 DEF nextLevel
<1> HIDE DEF up
<1>18. Sewn(g, d, s, L, l, up)
  <2> SUFFICES ASSUME NEW x \in Nodes(L)
               PROVE  /\ d[x].nextloc[0] <= s /\ d[x].nextloc[1] <= s
                      /\ IF up > 0 /\ x = l.back[0] THEN g[x].next = s ELSE Linked(g, s, L, x)
                      /\ \A i \in 1 .. g[x].level - 1 :
                           IF i < up /\ x = l.back[i] THEN d[x].nextloc[i + 1] = l.fwd[i]
                           ELSE Upper(g, d, L, x, i)
    BY DEF Sewn
  <2>0. x \in Offset /\ g[x].key = f[x].key /\ g[x].level = f[x].level
    BY <1>1, <1>12 DEF Alike
  <2>1. /\ c[x].nextloc[0] <= s /\ c[x].nextloc[1] <= s
        /\ IF lvl > 0 /\ x = l.back[0] THEN f[x].next = s ELSE Linked(f, s, L, x)
        /\ \A i \in 1 .. f[x].level - 1 :
             IF i < lvl /\ x = l.back[i] THEN c[x].nextloc[i + 1] = l.fwd[i]
             ELSE Upper(f, c, L, x, i)
    BY <1>0 DEF Sewn
  <2>2. d[x].nextloc[0] <= s /\ d[x].nextloc[1] <= s
    <3>1. CASE x # o BY <1>8, <2>0, <2>1, <3>1
    <3>2. CASE x = o
      <4>1. \A j \in {0, 1} : new.nextloc[j] = s \/ new.nextloc[j] = c[x].nextloc[j]
        BY <1>5, <1>6, <3>2
      <4>2. d[x] = new /\ s \in Nat BY <1>1, <1>8, <3>2
      <4> QED BY <2>1, <4>1, <4>2
    <3> QED BY <3>1, <3>2
  <2>3. IF up > 0 /\ x = l.back[0] THEN g[x].next = s ELSE Linked(g, s, L, x)
    <3>1. CASE x = l.back[0]
      <4>1. CASE lvl = 0 BY <1>11, <1>17, <3>1, <4>1
      <4>2. CASE lvl # 0
        <5>1. f[x].next = s BY <2>1, <3>1, <4>2
        <5>2. g[x].next = f[x].next BY <1>11, <2>0, <4>2
        <5> QED BY <1>17, <3>1, <5>1, <5>2
      <4> QED BY <4>1, <4>2
    <3>2. CASE x # l.back[0]
      <4>1. Linked(f, s, L, x) BY <2>1, <3>2
      <4>2. g[x].next = f[x].next BY <1>11, <2>0, <3>2
      <4>3. following(g, x) = following(f, x) BY <1>15, <2>0, <4>2
      <4> QED BY <1>1, <1>13, <2>0, <3>2, <4>1, <4>2, <4>3 DEF Linked
    <3> QED BY <3>1, <3>2
  <2>4. ASSUME NEW i \in 1 .. g[x].level - 1
        PROVE  IF i < up /\ x = l.back[i] THEN d[x].nextloc[i + 1] = l.fwd[i]
               ELSE Upper(g, d, L, x, i)
    <3>0. i \in Levels \ {0} /\ i \in Nat /\ i < f[x].level /\ i \in 1 .. f[x].level - 1
      BY <1>1, <1>2, <2>0 DEF Levels
    <3>1. IF i < lvl /\ x = l.back[i] THEN c[x].nextloc[i + 1] = l.fwd[i]
          ELSE Upper(f, c, L, x, i)
      BY <2>1, <3>0
    <3>2. ASSUME d[x].nextloc[i + 1] = c[x].nextloc[i + 1], Upper(f, c, L, x, i)
          PROVE  Upper(g, d, L, x, i)
      BY <1>13, <1>14, <2>0, <3>2 DEF Upper
    <3>3. lvl <= i /\ i < f[o].level => l.back[i] = o
      BY <1>2, <3>0, BackSame DEF f
    <3>4. CASE x # o
      <4>1. d[x].nextloc[i + 1] = c[x].nextloc[i + 1] BY <1>8, <2>0, <3>4
      <4>2. CASE i < lvl /\ x = l.back[i] BY <1>17, <3>1, <4>1, <4>2
      <4>3. CASE ~(i < lvl /\ x = l.back[i])
        <5>1. ~(i < up /\ x = l.back[i])
          BY <1>1, <1>3, <1>17, <3>0, <3>3, <3>4, <4>3
        <5> QED BY <3>1, <3>2, <4>1, <4>3, <5>1
      <4> QED BY <4>2, <4>3
    <3>5. CASE x = o
      <4>1. d[x].nextloc[i + 1] = IF i >= lvl /\ i < mx /\ i + 1 <= c[o].level
                                  THEN l.fwd[i] ELSE c[o].nextloc[i + 1]
        BY <1>5, <1>8, <3>0, <3>5
      <4>2. i + 1 <= c[o].level BY <1>4, <3>0, <3>5
      <4>3. CASE i < lvl
        <5>1. d[x].nextloc[i + 1] = c[x].nextloc[i + 1] BY <3>0, <3>5, <4>1, <4>3
        <5>2. i < up BY <1>17, <3>0, <4>3
        <5> QED BY <3>1, <3>2, <4>3, <5>1, <5>2
      <4>4. CASE i >= lvl /\ i < mx
        <5>1. l.back[i] = o /\ i < up BY <1>1, <1>3, <1>17, <3>0, <3>3, <3>5, <4>4
        <5> QED BY <3>5, <4>1, <4>2, <4>4, <5>1
      <4>5. CASE ~(i < mx) /\ i >= lvl
        <5>1. d[x].nextloc[i + 1] = c[x].nextloc[i + 1] BY <3>5, <4>1, <4>5
        <5>2. ~(i < up) /\ ~(i < lvl) BY <1>1, <1>17, <3>0, <4>5
        <5> QED BY <3>1, <3>2, <5>1, <5>2
      <4> QED BY <3>0, <4>3, <4>4, <4>5
    <3> QED BY <3>4, <3>5
  <2> QED BY <2>2, <2>3, <2>4
<1>19. Cloth(d, s, L, l, rec, mx, up)
  BY <1>0, <1>8, <1>9, <1>16, <1>18 DEF Cloth, g
<1> QED BY <1>3, <1>4, <1>7, <1>12, <1>19 DEF f, g, up

-----------------------------------------------------------------------------
(* The list after stitch.                                                   *)

Spliced(f, s, L, k, rec) ==
  {x \in L : f[x].key # k} \cup (IF rec.type = "RECORD" THEN {s} ELSE {})

\* Splice, for a level of the file.
LEMMA SpliceAt ==
  ASSUME NEW c, NEW s, NEW L, NEW l, NEW rec, NEW mx, NEW lvl, Cloth(c, s, L, l, rec, mx, lvl),
         NEW i \in Levels
  PROVE  LET f == Faces(c, s + 1)
             k == l.key
             b == l.back[i]
             S == Above(f, L, i)
             T == Above(f, Spliced(f, s, L, k, rec), i)
             put == rec.type = "RECORD" /\ i < rec.level
         IN /\ put => IsNext(f, T, f[b].key, s)
            /\ \A n : ~put /\ IsNext(f, S, k, n) => IsNext(f, T, f[b].key, n)
            /\ \A n : IsNext(f, S, k, n) => IsNext(f, T, k, n)
            /\ \A x \in Nodes(L) : \A n :
                 x # b /\ f[x].key # k /\ i < f[x].level /\ IsNext(f, S, f[x].key, n)
                   => IsNext(f, T, f[x].key, n)
            /\ b \in Nodes(L) /\ f[b].key < k /\ i < f[b].level
<1> DEFINE f == Faces(c, s + 1)
           k == l.key
           b == l.back[i]
           S == Above(f, L, i)
           T == Above(f, Spliced(f, s, L, k, rec), i)
           put == rec.type = "RECORD" /\ i < rec.level
<1>1. /\ \A o \in Nodes(L) : f[o].key \in Nat
      /\ \A o \in L : f[o].key > 0
      /\ \A o, x \in Nodes(L) : f[o].key = f[x].key => o = x
      /\ f[DUMMY_OFFSET].key = 0 /\ DUMMY_OFFSET \in Nodes(L) /\ k \in Nat /\ k > 0
      /\ s # 0 /\ f[s].key = rec.key /\ f[s].level = rec.level
  <2>1. DUMMY_OFFSET \in Nodes(L) BY DEF Nodes
  <2> QED BY <2>1, ClothFacts
<1>2. IsPrev(f, L, i, k, b) /\ (rec.type = "RECORD" => rec.key = k) BY DEF Cloth, Fits
<1>3. \A y : y \in T <=> (y \in S /\ f[y].key # k) \/ (put /\ y = s)
  BY <1>1 DEF Above, Spliced
<1> HIDE DEF f, k, b
<1>4. b \in Nodes(L) /\ f[b].key < k /\ f[b].key \in Nat /\ i < f[b].level
  <2>1. b \in Nodes(L) /\ i < f[b].level BY <1>2 DEF IsPrev
  <2>2. f[b].key < k
    <3>1. CASE b = DUMMY_OFFSET BY <1>1, <3>1
    <3>2. CASE b # DUMMY_OFFSET BY <1>2, <3>2 DEF IsPrev
    <3> QED BY <3>1, <3>2
  <2> QED BY <1>1, <2>1, <2>2
<1>5. \A y \in S : f[y].key \in Nat BY <1>1 DEF Above, Nodes
<1>6. \A y \in S : f[y].key < k => f[y].key <= f[b].key BY <1>2 DEF IsPrev
<1>7. put => f[s].key = k BY <1>1, <1>2
<1>8. put \in BOOLEAN OBVIOUS
<1>9. ASSUME NEW x \in Nodes(L), x # b, i < f[x].level, f[x].key < k
      PROVE  f[x].key < f[b].key /\ b \in S
  <2>1. f[x].key <= f[b].key
    <3>1. CASE x = DUMMY_OFFSET BY <1>1, <1>4, <3>1
    <3>2. CASE x # DUMMY_OFFSET
      <4>1. x \in S BY <1>9, <3>2 DEF Above, Nodes
      <4> QED BY <1>6, <1>9, <4>1
    <3> QED BY <3>1, <3>2
  <2>2. f[x].key # f[b].key BY <1>1, <1>4, <1>9
  <2>3. f[x].key < f[b].key /\ f[x].key \in Nat BY <1>1, <1>4, <2>1, <2>2
  <2>4. b # DUMMY_OFFSET BY <1>1, <2>3
  <2> QED BY <1>4, <2>3, <2>4 DEF Above, Nodes
<1> HIDE DEF S, T, put
<1>10. /\ put => IsNext(f, T, f[b].key, s)
       /\ \A n : ~put /\ IsNext(f, S, k, n) => IsNext(f, T, f[b].key, n)
       /\ \A n : IsNext(f, S, k, n) => IsNext(f, T, k, n)
       /\ \A x, n : /\ f[x].key \in Nat /\ f[x].key # f[b].key /\ f[x].key # k
                    /\ f[x].key < k => f[x].key < f[b].key /\ b \in S
                    /\ IsNext(f, S, f[x].key, n)
                    => IsNext(f, T, f[x].key, n)
  <2>1. s # 0 /\ k \in Nat BY <1>1
  <2>2. Splices(f, S, T, k, b, s, put)
    BY <1>3, <1>4, <1>5, <1>6, <1>7, <1>8, <2>1 DEF Splices
  <2> QED BY <2>2, Splice, Zenon
<1>11. ASSUME NEW x \in Nodes(L), NEW n, x # b, f[x].key # k, i < f[x].level,
              IsNext(f, S, f[x].key, n)
       PROVE  IsNext(f, T, f[x].key, n)
  <2>1. f[x].key \in Nat /\ f[x].key # f[b].key BY <1>1, <1>4, <1>11
  <2>2. f[x].key < k => f[x].key < f[b].key /\ b \in S BY <1>9, <1>11
  <2> QED BY <1>10, <1>11, <2>1, <2>2, Zenon
<1>12. \A x \in Nodes(L) : \A n :
         x # b /\ f[x].key # k /\ i < f[x].level /\ IsNext(f, S, f[x].key, n)
           => IsNext(f, T, f[x].key, n)
  BY <1>11, Zenon
<1> QED BY <1>4, <1>10, <1>12, Zenon DEF f, k, b, S, T, put

\* The file is whole again when all the levels are linked.
LEMMA SewnFull ==
  ASSUME NEW c, NEW s, NEW L, NEW l, NEW rec, NEW mx, Cloth(c, s, L, l, rec, mx, mx)
  PROVE  Full(c, s, Spliced(Faces(c, s + 1), s, L, l.key, rec))
<1> DEFINE f == Faces(c, s + 1)
           k == l.key
           T == Spliced(f, s, L, k, rec)
<1>0. /\ c \in [Offset -> Rec] /\ PointBack(c)
      /\ Fits(f, c, s, L, l, rec, mx) /\ Sewn(f, c, s, L, l, mx)
  BY DEF Cloth
<1>1. /\ f \in [Offset -> FaceRec] /\ s \in 2 .. MaxOffset + 1 /\ s \in Nat
      /\ Records(f, s, L) /\ L \subseteq Offset /\ Nodes(L) \subseteq Offset
      /\ DUMMY_OFFSET \in Offset /\ DUMMY_OFFSET \notin L /\ 0 \notin Nodes(L) /\ s \notin Nodes(L)
      /\ \A o \in Nodes(L) : /\ f[o].key \in Nat /\ o < s /\ f[o].level \in 1 .. MaxLevel
                             /\ f[o].type # "DELETE" /\ c[o].level = f[o].level
      /\ \A o \in L : f[o].key > 0
      /\ \A o, x \in Nodes(L) : f[o].key = f[x].key => o = x
      /\ f[DUMMY_OFFSET].key = 0 /\ f[DUMMY_OFFSET].level = MaxLevel
      /\ k \in Key /\ k \in Nat /\ k > 0
      /\ l.back \in [Levels -> Ptr] /\ l.fwd \in [Levels -> Ptr]
      /\ mx \in 1 .. MaxLevel /\ (rec.type = "RECORD" => rec.level <= mx)
      /\ (l.exact => f[l.at].level <= mx)
      /\ f[s].type = rec.type /\ f[s].key = rec.key /\ f[s].level = rec.level
      /\ f[s].val = rec.val /\ c[s] = rec /\ rec \in Rec
  BY ClothFacts
<1> HIDE DEF f
<1>2. MaxLevel \in Nat /\ 0 \in Levels /\ \A i \in Levels : i \in Nat /\ i < MaxLevel
  BY FileAssumption DEF Levels
<1>3. rec.type = "RECORD" =>
        /\ rec.key = k /\ rec.val \in Val /\ rec.level \in 1 .. MaxLevel
        /\ rec.nextloc[0] = 0 /\ rec.nextloc[1] < s
        /\ IsNext(f, L, k, following(f, s))
        /\ \A i \in 1 .. rec.level - 1 : IsNext(f, Above(f, L, i), k, rec.nextloc[i + 1])
  BY <1>0 DEF Fits
<1>4. rec.type # "RECORD" =>
        /\ rec.type = "DELETE" /\ l.exact
        /\ rec.nextloc[1] = 0 /\ rec.nextloc[0] < s /\ IsNext(f, L, k, rec.nextloc[0])
  BY <1>0 DEF Fits
<1>5. l.exact = (\E o \in L : f[o].key = k) /\ (l.exact => l.at \in L /\ f[l.at].key = k)
  BY <1>0 DEF Fits
<1>6. /\ T \subseteq L \cup {s} /\ (\A x \in T : x # s => x \in L /\ f[x].key # k)
      /\ (s \in T => rec.type = "RECORD")
  BY <1>1 DEF Spliced, Nodes
<1>7. ASSUME NEW i \in Levels
      PROVE  /\ rec.type = "RECORD" /\ i < rec.level => IsNext(f, Above(f, T, i), f[l.back[i]].key, s)
             /\ \A n : ~(rec.type = "RECORD" /\ i < rec.level) /\ IsNext(f, Above(f, L, i), k, n)
                  => IsNext(f, Above(f, T, i), f[l.back[i]].key, n)
             /\ \A n : IsNext(f, Above(f, L, i), k, n) => IsNext(f, Above(f, T, i), k, n)
             /\ \A x \in Nodes(L) : \A n :
                  x # l.back[i] /\ f[x].key # k /\ i < f[x].level
                  /\ IsNext(f, Above(f, L, i), f[x].key, n)
                    => IsNext(f, Above(f, T, i), f[x].key, n)
             /\ l.back[i] \in Nodes(L) /\ f[l.back[i]].key < k /\ i < f[l.back[i]].level
  BY SpliceAt, Zenon DEF f
<1>8. Above(f, L, 0) = L BY <1>1 DEF Above, Nodes
<1>9. Above(f, T, 0) = T
  BY <1>1, <1>3, <1>6 DEF Above, Nodes
<1>10. Records(f, s + 1, T)
  <2>1. T \subseteq 2 .. (s + 1) - 1
    <3>1. \A x \in L : x \in 2 .. s BY <1>1 DEF Records
    <3>2. s \in 2 .. s /\ (s + 1) - 1 = s BY <1>1
    <3> QED BY <1>6, <3>1, <3>2
  <2>2. ASSUME NEW o \in T
        PROVE  /\ f[o].type = "RECORD" /\ f[o].key \in Key
               /\ f[o].level \in 1 .. MaxLevel /\ f[o].val \in Val
    <3>1. CASE o = s BY <1>1, <1>3, <1>6, <3>1
    <3>2. CASE o # s BY <1>1, <1>6, <3>2 DEF Records
    <3> QED BY <3>1, <3>2
  <2>3. ASSUME NEW o \in T, NEW x \in T, f[o].key = f[x].key PROVE o = x
    <3>1. s \in T => f[s].key = k BY <1>1, <1>3, <1>6
    <3>2. CASE o = s BY <1>6, <2>3, <3>1, <3>2
    <3>3. CASE x = s BY <1>6, <2>3, <3>1, <3>3
    <3>4. CASE o # s /\ x # s BY <1>1, <1>6, <2>3, <3>4 DEF Nodes
    <3> QED BY <3>2, <3>3, <3>4
  <2> QED BY <1>1, <2>1, <2>2, <2>3 DEF Records
<1>11. \A x \in Nodes(T) : x = s \/ (x \in Nodes(L) /\ f[x].key # k)
  BY <1>1, <1>6 DEF Nodes
<1>12. ASSUME NEW x \in Nodes(T) PROVE c[x].nextloc[0] <= s /\ c[x].nextloc[1] <= s
  <2>1. CASE x = s
    <3>1. x # DUMMY_OFFSET BY <1>1, <2>1 DEF Nodes
    <3>2. rec.type = "RECORD" BY <1>6, <2>1, <3>1 DEF Nodes
    <3>3. rec.nextloc[1] \in Nat
      <4>1. 1 \in 0 .. MaxLevel BY FileAssumption
      <4>2. rec \in Rec BY <1>1
      <4> QED BY <4>1, <4>2, RecFields
    <3> QED BY <1>1, <1>3, <2>1, <3>2, <3>3
  <2>2. CASE x \in Nodes(L) BY <1>0, <2>2 DEF Sewn
  <2> QED BY <1>11, <2>1, <2>2
<1>13. ASSUME NEW x \in Nodes(T) PROVE Linked(f, s + 1, T, x)
  <2>0. x \in Offset BY <1>1, <1>6, <1>0, <1>11 DEF Cloth
  <2>1. f[x].next < s + 1
    <3>1. f[x].next = getloc(c[x], 0, s + 1) BY <1>0, <2>0, FacesAt DEF f
    <3>2. c[x].nextloc[0] \in Nat /\ c[x].nextloc[1] \in Nat
      BY <1>0, <2>0, RecFields, FileAssumption
    <3> QED BY <1>1, <1>12, <3>1, <3>2 DEF getloc
  <2>2. IsNext(f, T, f[x].key, following(f, x))
    <3>1. CASE x = s
      <4>1. x # DUMMY_OFFSET BY <1>1, <3>1 DEF Nodes
      <4>2. rec.type = "RECORD" BY <1>6, <3>1, <4>1 DEF Nodes
      <4>3. IsNext(f, L, k, following(f, s)) BY <1>3, <4>2
      <4>4. IsNext(f, T, k, following(f, s)) BY <1>2, <1>7, <1>8, <1>9, <4>3
      <4> QED BY <1>1, <1>3, <3>1, <4>2, <4>4
    <3>2. CASE x # s /\ x = l.back[0]
      <4>1. f[x].next = s BY <1>0, <1>1, <1>11, <3>2 DEF Sewn
      <4>2. CASE rec.type = "RECORD"
        <5>1. following(f, x) = s BY <1>1, <4>1, <4>2 DEF following
        <5>2. 0 < rec.level BY <1>3, <4>2
        <5> QED BY <1>2, <1>7, <1>9, <3>2, <4>2, <5>1, <5>2
      <4>3. CASE rec.type # "RECORD"
        <5>1. following(f, x) = f[s].next BY <1>1, <1>4, <4>1, <4>3 DEF following
        <5>2. f[s].next = getloc(rec, 0, s + 1)
          <6>1. s \in Offset BY DEF Cloth
          <6> QED BY <1>0, <1>1, <6>1, FacesAt DEF f
        <5>3. rec.nextloc[0] \in Nat BY <1>1, RecFields, FileAssumption
        <5>4. f[s].next = rec.nextloc[0] BY <1>1, <1>4, <4>3, <5>2, <5>3 DEF getloc
        <5>5. IsNext(f, T, f[l.back[0]].key, rec.nextloc[0])
          BY <1>2, <1>4, <1>7, <1>8, <1>9, <4>3
        <5> QED BY <3>2, <5>1, <5>4, <5>5
      <4> QED BY <4>2, <4>3
    <3>3. CASE x # s /\ x # l.back[0]
      <4>1. Linked(f, s, L, x) BY <1>0, <1>11, <3>3 DEF Sewn
      <4>2. IsNext(f, L, f[x].key, following(f, x)) BY <4>1 DEF Linked
      <4>3. x \in Nodes(L) /\ f[x].key # k /\ 0 < f[x].level BY <1>1, <1>11, <3>3
      <4> QED BY <1>2, <1>7, <1>8, <1>9, <3>3, <4>2, <4>3
    <3> QED BY <3>1, <3>2, <3>3
  <2> QED BY <2>1, <2>2 DEF Linked
<1>14. ASSUME NEW x \in Nodes(T), NEW i \in 1 .. f[x].level - 1 PROVE Upper(f, c, T, x, i)
  <2>0. f[x].level \in 1 .. MaxLevel
    <3>1. CASE x = s
      <4>1. x # DUMMY_OFFSET BY <1>1, <3>1 DEF Nodes
      <4>2. rec.type = "RECORD" BY <1>6, <3>1, <4>1 DEF Nodes
      <4> QED BY <1>1, <1>3, <3>1, <4>2
    <3>2. CASE x # s BY <1>1, <1>11, <3>2
    <3> QED BY <3>1, <3>2
  <2>1. i \in Levels \ {0} /\ i \in Levels /\ i \in Nat /\ i < f[x].level /\ i >= 1
    BY <1>2, <2>0 DEF Levels
  <2>2. CASE x = s
    <3>1. x # DUMMY_OFFSET BY <1>1, <2>2 DEF Nodes
    <3>2. rec.type = "RECORD" BY <1>6, <2>2, <3>1 DEF Nodes
    <3>3. i \in 1 .. rec.level - 1 BY <1>1, <2>2
    <3>4. IsNext(f, Above(f, L, i), k, rec.nextloc[i + 1]) BY <1>3, <3>2, <3>3
    <3>5. IsNext(f, Above(f, T, i), k, rec.nextloc[i + 1]) BY <1>7, <2>1, <3>4
    <3> QED BY <1>1, <1>3, <2>2, <3>2, <3>5 DEF Upper
  <2>3. CASE x # s
    <3>0. x \in Nodes(L) /\ f[x].key # k BY <1>11, <2>3
    <3>1. IF i < mx /\ x = l.back[i] THEN c[x].nextloc[i + 1] = l.fwd[i]
          ELSE Upper(f, c, L, x, i)
      BY <1>0, <3>0 DEF Sewn
    <3>2. CASE i < mx /\ x = l.back[i]
      <4>1. c[x].nextloc[i + 1] = l.fwd[i] BY <3>1, <3>2
      <4>2. IF i < (IF rec.type = "RECORD" THEN rec.level ELSE 1) THEN l.fwd[i] = s
            ELSE IsNext(f, Above(f, L, i), k, l.fwd[i])
        BY <1>0, <2>1 DEF Fits
      <4>3. CASE rec.type = "RECORD" /\ i < rec.level
        <5>1. l.fwd[i] = s BY <4>2, <4>3
        <5>2. IsNext(f, Above(f, T, i), f[l.back[i]].key, s) BY <1>7, <2>1, <4>3
        <5> QED BY <3>2, <4>1, <5>1, <5>2 DEF Upper
      <4>4. CASE ~(rec.type = "RECORD" /\ i < rec.level)
        <5>1. IsNext(f, Above(f, L, i), k, l.fwd[i])
          <6>1. ~(i < (IF rec.type = "RECORD" THEN rec.level ELSE 1)) BY <2>1, <4>4
          <6> QED BY <4>2, <6>1
        <5>2. IsNext(f, Above(f, T, i), f[l.back[i]].key, l.fwd[i]) BY <1>7, <2>1, <4>4, <5>1
        <5> QED BY <3>2, <4>1, <5>2 DEF Upper
      <4> QED BY <4>3, <4>4
    <3>3. CASE x # l.back[i]
      <4>1. IsNext(f, Above(f, L, i), f[x].key, c[x].nextloc[i + 1]) BY <3>1, <3>3 DEF Upper
      <4>2. IsNext(f, Above(f, T, i), f[x].key, c[x].nextloc[i + 1])
        BY <1>7, <2>1, <3>0, <3>3, <4>1
      <4> QED BY <4>2 DEF Upper
    <3>4. CASE x = l.back[i] /\ ~(i < mx)
      <4>1. Upper(f, c, L, x, i) BY <3>1, <3>4
      <4>2. Above(f, T, i) = Above(f, L, i)
        <5>0. i >= mx /\ mx \in Nat BY <1>1, <1>2, <2>1, <3>4
        <5>1. s \in T => ~(i < f[s].level)
          BY <1>1, <1>3, <1>6, <2>1, <5>0
        <5>2. ASSUME NEW y \in L, i < f[y].level PROVE f[y].key # k
          <6> SUFFICES ASSUME f[y].key = k PROVE FALSE OBVIOUS
          <6>1. l.exact /\ l.at = y BY <1>1, <1>5 DEF Nodes
          <6>2. f[y].level <= mx /\ f[y].level \in Nat BY <1>1, <6>1 DEF Nodes
          <6> QED BY <2>1, <5>0, <5>2, <6>2
        <5>3. \A y \in T : i < f[y].level => y \in L BY <1>6, <5>1
        <5>4. \A y \in L : i < f[y].level => y \in T BY <5>2 DEF Spliced
        <5> HIDE DEF T
        <5> QED BY <5>3, <5>4 DEF Above
      <4> QED BY <4>1, <4>2 DEF Upper
    <3> QED BY <3>2, <3>3, <3>4
  <2> QED BY <2>2, <2>3
<1>15. List(f, s + 1, T) BY <1>10, <1>13 DEF List
<1> QED BY <1>12, <1>14, <1>15 DEF Full, f

\* The location that stitch leaves.
sewnLoc(c, s, l, rec) ==
  LET stored == rec.type = "RECORD"
      at == IF stored THEN s ELSE l.back[0]
  IN [l EXCEPT !.at = at, !.exact = stored, !.end = s + 1, !.fwd = forward(c, at, @)]

\* The location after the last rewrite of stitch is right.
LEMMA SewnLoc ==
  ASSUME NEW c, NEW s, s = size, NEW L, NEW l, NEW rec, NEW mx, Cloth(c, s, L, l, rec, mx, mx)
  PROVE  LET m == sewnLoc(c, s, l, rec)
             f == Faces(c, s + 1)
         IN /\ m \in LocType /\ m.key = l.key /\ m.gen = l.gen /\ m.end = s + 1
            /\ IsLoc(f, Spliced(f, s, L, l.key, rec), m)
<1> DEFINE f == Faces(c, s + 1)
           k == l.key
           T == Spliced(f, s, L, k, rec)
           stored == rec.type = "RECORD"
           at == IF stored THEN s ELSE l.back[0]
           fw == forward(c, at, l.fwd)
           m == sewnLoc(c, s, l, rec)
<1>0. /\ c \in [Offset -> Rec] /\ PointBack(c) /\ s \in Offset /\ l \in LocType
      /\ Fits(f, c, s, L, l, rec, mx)
  BY DEF Cloth
<1>1. /\ f \in [Offset -> FaceRec] /\ s \in Nat
      /\ L \subseteq Offset /\ Nodes(L) \subseteq Offset /\ s \notin Nodes(L)
      /\ \A o \in Nodes(L) : /\ f[o].key \in Nat /\ f[o].level \in 1 .. MaxLevel
                             /\ c[o].level = f[o].level
      /\ \A o, x \in Nodes(L) : f[o].key = f[x].key => o = x
      /\ k \in Key /\ k \in Nat /\ k > 0
      /\ l.back \in [Levels -> Ptr] /\ l.fwd \in [Levels -> Ptr]
      /\ f[s].type = rec.type /\ f[s].key = rec.key /\ f[s].level = rec.level
      /\ c[s] = rec /\ rec \in Rec
  BY ClothFacts
<1>f. Full(c, s, T) BY SewnFull
<1> HIDE DEF f
<1>2. MaxLevel \in Nat /\ 0 \in Levels /\ \A i \in Levels : i \in Nat /\ i < MaxLevel
  BY FileAssumption DEF Levels
<1>3. stored => rec.key = k /\ rec.level \in 1 .. MaxLevel BY <1>0 DEF Fits
<1>4. /\ \A x \in T : (x \in L /\ f[x].key # k) \/ (stored /\ x = s)
      /\ \A x \in L : f[x].key # k => x \in T
      /\ stored => s \in T
  BY DEF Spliced
<1>5. ASSUME NEW i \in Levels
      PROVE  /\ \A n : IsNext(f, Above(f, L, i), k, n) => IsNext(f, Above(f, T, i), k, n)
             /\ l.back[i] \in Nodes(L) /\ f[l.back[i]].key < k /\ i < f[l.back[i]].level
  BY SpliceAt, Zenon DEF f
<1>6. at \in Nodes(T) /\ at \in Offset /\ at \in Ptr /\ c[at].level = f[at].level
      /\ f[at].level \in 1 .. MaxLevel
  <2>1. CASE stored
    <3>1. at = s BY <2>1
    <3>2. s \in Ptr BY <1>0, FileAssumption DEF Offset, Ptr
    <3> HIDE DEF at
    <3> QED BY <1>0, <1>1, <1>3, <1>4, <2>1, <3>1, <3>2 DEF Nodes
  <2>2. CASE ~stored
    <3>1. at = l.back[0] /\ at \in Nodes(L) /\ f[at].key < k BY <1>2, <1>5, <2>2
    <3> HIDE DEF at
    <3>2. f[at].key \in Nat BY <1>1, <3>1
    <3>3. at \in Nodes(T) BY <1>1, <1>4, <3>1, <3>2 DEF Nodes
    <3>4. at \in Offset BY <1>1, <3>1
    <3>5. at \in Ptr BY <3>4, FileAssumption DEF Offset, Ptr
    <3> QED BY <1>1, <3>1, <3>3, <3>4, <3>5
  <2> QED BY <2>1, <2>2
<1>7. fw = [i \in Levels |-> IF i < f[at].level THEN getloc(c[at], i, s + 1) ELSE l.fwd[i]]
  BY <1>6 DEF forward
<1>8. ASSUME NEW i \in Levels PROVE getloc(c[at], i, s + 1) \in Ptr
  <2>1. c[at].nextloc \in [0 .. MaxLevel -> Ptr] BY <1>0, <1>6, RecFields
  <2>2. 0 \in 0 .. MaxLevel /\ 1 \in 0 .. MaxLevel /\ i + 1 \in 0 .. MaxLevel
    BY <1>2, FileAssumption
  <2> QED BY <2>1, <2>2 DEF getloc
<1>9. m = [l EXCEPT !.at = at, !.exact = stored, !.end = s + 1, !.fwd = fw]
  BY <1>0 DEF sewnLoc, LocType
<1> HIDE DEF at, fw, m
<1>10. fw \in [Levels -> Ptr] BY <1>1, <1>7, <1>8
<1>11. /\ m.at = at /\ m.exact = stored /\ m.end = s + 1 /\ m.fwd = fw
       /\ m.key = k /\ m.back = l.back /\ m.gen = l.gen
  BY <1>0, <1>9 DEF LocType
<1>12. m \in LocType
  <2>1. s + 1 \in Size BY <1>0, FileAssumption DEF Offset, Size
  <2>2. stored \in BOOLEAN OBVIOUS
  <2> HIDE DEF stored
  <2> QED BY <1>0, <1>6, <1>9, <1>10, <2>1, <2>2 DEF LocType
<1>13. stored = (\E o \in T : f[o].key = k)
  <2>1. CASE stored BY <1>1, <1>3, <1>4, <2>1
  <2>2. CASE ~stored BY <1>4, <2>2
  <2> QED BY <2>1, <2>2
<1>14. stored => at \in T /\ f[at].key = k BY <1>1, <1>3, <1>4 DEF at
<1>15. ASSUME NEW i \in Levels PROVE IsPrev(f, T, i, k, l.back[i])
  <2>1. IsPrev(f, L, i, k, l.back[i]) BY <1>0 DEF Fits
  <2>2. l.back[i] \in Nodes(T)
    <3>1. l.back[i] \in Nodes(L) /\ f[l.back[i]].key < k BY <1>5
    <3>2. f[l.back[i]].key \in Nat BY <1>1, <3>1
    <3> QED BY <1>1, <1>4, <3>1, <3>2 DEF Nodes
  <2>3. ASSUME NEW y \in Above(f, T, i), f[y].key < k PROVE f[y].key <= f[l.back[i]].key
    <3>1. y \in Above(f, L, i) BY <1>1, <1>3, <1>4, <2>3 DEF Above
    <3> QED BY <2>1, <2>3, <3>1 DEF IsPrev
  <2> QED BY <2>1, <2>2, <2>3 DEF IsPrev
<1>16. fw[0] = f[at].next
  <2>1. fw[0] = getloc(c[at], 0, s + 1) BY <1>2, <1>6, <1>7
  <2> QED BY <1>0, <1>6, <2>1, FacesAt DEF f
<1>17. ASSUME NEW i \in Levels \ {0} PROVE IsNext(f, Above(f, T, i), k, fw[i])
  <2>0. i \in Nat /\ i >= 1 /\ i < MaxLevel BY <1>2
  <2>1. CASE i < f[at].level
    <3>1. fw[i] = c[at].nextloc[i + 1] BY <1>7, <2>0, <2>1 DEF getloc
    <3>2. i \in 1 .. f[at].level - 1 BY <1>6, <2>0, <2>1
    <3>3. Upper(f, c, T, at, i) BY <1>6, <1>f, <3>2 DEF Full, f
    <3>4. IsNext(f, Above(f, T, i), f[at].key, fw[i]) BY <3>1, <3>3 DEF Upper
    <3>5. CASE stored BY <1>14, <3>4, <3>5
    <3>6. CASE ~stored
      <4>1. at = l.back[0] /\ f[at].key < k BY <1>2, <1>5, <3>6 DEF at
      <4>2. IsPrev(f, T, 0, k, at) BY <1>2, <1>15, <4>1
      <4>3. ASSUME NEW y \in Above(f, T, i)
            PROVE  f[y].key \in Nat /\ (f[y].key > f[at].key <=> f[y].key > k)
        <5>1. y \in L /\ f[y].key # k /\ f[y].key \in Nat /\ y \in T
          BY <1>1, <1>4, <3>6 DEF Above, Nodes
        <5>2. y \in Above(f, T, 0) BY <1>1, <5>1 DEF Above, Nodes
        <5>3. f[y].key < k => f[y].key <= f[at].key BY <4>2, <5>2 DEF IsPrev
        <5>4. f[at].key \in Nat BY <1>1, <1>2, <1>5, <4>1
        <5> QED BY <1>1, <4>1, <5>1, <5>3, <5>4
      <4>4. f[at].key \in Nat /\ k \in Nat BY <1>1, <1>2, <1>5, <4>1
      <4> QED BY <3>4, <4>3, <4>4, NextShift
    <3> QED BY <3>5, <3>6
  <2>2. CASE ~(i < f[at].level)
    <3>1. fw[i] = l.fwd[i] BY <1>7, <2>2
    <3>2. IF i < (IF stored THEN rec.level ELSE 1) THEN l.fwd[i] = s
          ELSE IsNext(f, Above(f, L, i), k, l.fwd[i])
      BY <1>0 DEF Fits
    <3>3. ~(i < (IF stored THEN rec.level ELSE 1))
      BY <1>1, <2>0, <2>2 DEF at
    <3> QED BY <1>5, <3>1, <3>2, <3>3
  <2> QED BY <2>1, <2>2
<1>18. ~stored => at = l.back[0] BY DEF at
<1>19. IsLoc(f, T, m)
  BY <1>11, <1>13, <1>14, <1>15, <1>16, <1>17, <1>18 DEF IsLoc
<1> QED BY <1>11, <1>12, <1>19 DEF m, f

\* Faces that differ in their pointers only have the same contents.
LEMMA ContentAlike ==
  ASSUME NEW f, NEW g, NEW L, \A o \in L : f[o].key = g[o].key /\ f[o].val = g[o].val,
         \A o, x \in L : f[o].key = f[x].key => o = x
  PROVE  ContentOf(f, L) = ContentOf(g, L)
<1> DEFINE D == {f[o].key : o \in L}
           E == {g[o].key : o \in L}
           a(k) == f[CHOOSE o \in L : f[o].key = k].val
           b(k) == g[CHOOSE o \in L : g[o].key = k].val
<1>1. D = E OBVIOUS
<1>2. ASSUME NEW k \in D PROVE a(k) = b(k)
  <2>1. PICK o \in L : f[o].key = k BY <1>2
  <2>2. (CHOOSE x \in L : f[x].key = k) = o BY <2>1
  <2>3. (CHOOSE x \in L : g[x].key = k) = o
    <3>1. g[o].key = k BY <2>1
    <3>2. \A x \in L : g[x].key = k => x = o BY <2>1
    <3> QED BY <3>1, <3>2
  <2> QED BY <2>1, <2>2, <2>3
<1>3. ContentOf(f, L) = [k \in D |-> a(k)] BY DEF ContentOf
<1>4. ContentOf(g, L) = [k \in E |-> b(k)] BY DEF ContentOf
<1> HIDE DEF D, E, a, b
<1>5. [k \in E |-> b(k)] = [k \in D |-> a(k)] BY <1>1, <1>2
<1> QED BY <1>3, <1>4, <1>5

\* What stitch does to the contents and to their number.
LEMMA SewnContent ==
  ASSUME NEW c, NEW s, NEW L, NEW l, NEW rec, NEW mx, Cloth(c, s, L, l, rec, mx, mx)
  PROVE  LET f == Faces(c, s + 1)
             T == Spliced(f, s, L, l.key, rec)
             n == Cardinality(IF l.exact THEN L \ {l.at} ELSE L)
         IN /\ ContentOf(f, T) = IF rec.type = "RECORD" THEN Put(ContentOf(f, L), l.key, rec.val)
                                 ELSE Remove(ContentOf(f, L), l.key)
            /\ Cardinality(T) = IF rec.type = "RECORD" THEN n + 1 ELSE n
            /\ n \in Nat
<1> DEFINE f == Faces(c, s + 1)
           k == l.key
           T == Spliced(f, s, L, k, rec)
           D == {x \in L : f[x].key # k}
           stored == rec.type = "RECORD"
<1>0. Fits(f, c, s, L, l, rec, mx) BY DEF Cloth
<1>1. /\ L \subseteq Offset /\ s \notin Nodes(L) /\ Records(f, s, L) /\ k \in Key
      /\ f[s].key = rec.key /\ f[s].val = rec.val
      /\ \A o, x \in Nodes(L) : f[o].key = f[x].key => o = x
  BY ClothFacts
<1>f. Full(c, s, T) BY SewnFull
<1>2. Records(f, s + 1, T) BY <1>f DEF Full, List
<1> HIDE DEF f
<1>3. l.exact = (\E o \in L : f[o].key = k) /\ (l.exact => l.at \in L /\ f[l.at].key = k)
      /\ (stored => rec.key = k)
  BY <1>0 DEF Fits
<1>4. D = IF l.exact THEN L \ {l.at} ELSE L
  <2>1. CASE l.exact
    <3>1. \A x \in L : f[x].key = k => x = l.at BY <1>1, <1>3, <2>1 DEF Nodes
    <3> QED BY <1>3, <2>1, <3>1
  <2>2. CASE ~l.exact BY <1>3, <2>2
  <2> QED BY <2>1, <2>2
<1>5. T = IF stored THEN D \cup {s} ELSE D BY DEF Spliced
<1>6. IsFiniteSet(D) /\ s \notin D /\ Cardinality(D) \in Nat
  <2>1. IsFiniteSet(Offset) BY FS_Interval, FileAssumption DEF Offset
  <2>2. D \subseteq Offset BY <1>1
  <2>3. s \notin D BY <1>1 DEF Nodes
  <2> QED BY <2>1, <2>2, <2>3, FS_Subset, FS_CardinalityType
<1> HIDE DEF D
<1>7. Cardinality(T) = IF stored THEN Cardinality(D) + 1 ELSE Cardinality(D)
  <2>1. Cardinality(D \cup {s}) = Cardinality(D) + 1 BY <1>6, FS_AddElement
  <2> QED BY <1>5, <2>1
<1> DEFINE C == ContentOf(f, L)
           E == ContentOf(f, T)
           KL == KeysOf(f, L)
           KT == KeysOf(f, T)
<1>8. DOMAIN C = KL /\ (\A o \in L : C[f[o].key] = f[o].val) /\ C \in [KL -> Val]
  BY <1>1, ContentFacts
<1>9. DOMAIN E = KT /\ (\A o \in T : E[f[o].key] = f[o].val) /\ E \in [KT -> Val]
  BY <1>2, ContentFacts
<1>10. \A x : x \in D <=> x \in L /\ f[x].key # k BY DEF D
<1> HIDE DEF C, E, T
<1>11. CASE stored
  <2>1. KT = KL \cup {k} BY <1>1, <1>3, <1>5, <1>10, <1>11 DEF KeysOf
  <2>2. ASSUME NEW x \in KT PROVE E[x] = IF x = k THEN rec.val ELSE C[x]
    <3>1. CASE x = k
      <4>1. s \in T /\ f[s].key = k BY <1>1, <1>3, <1>5, <1>11
      <4>2. E[f[s].key] = f[s].val BY <1>9, <4>1
      <4> QED BY <1>1, <3>1, <4>1, <4>2
    <3>2. CASE x # k
      <4>1. PICK o \in T : f[o].key = x BY DEF KeysOf
      <4>2. o \in L BY <1>1, <1>3, <1>5, <1>10, <1>11, <3>2, <4>1
      <4> QED BY <1>8, <1>9, <3>2, <4>1, <4>2
    <3> QED BY <3>1, <3>2
  <2>3. E = [x \in KT |-> E[x]] BY <1>9
  <2> HIDE DEF KT, KL
  <2>4. E = [x \in KL \cup {k} |-> IF x = k THEN rec.val ELSE C[x]] BY <2>1, <2>2, <2>3
  <2>5. E = Put(C, k, rec.val) BY <1>8, <2>4 DEF Put
  <2> QED BY <1>4, <1>6, <1>7, <1>11, <2>5 DEF f, C, E, T
<1>12. CASE ~stored
  <2>1. KT = KL \ {k} BY <1>5, <1>10, <1>12 DEF KeysOf
  <2>2. ASSUME NEW x \in KT PROVE E[x] = C[x]
    <3>1. PICK o \in T : f[o].key = x BY DEF KeysOf
    <3>2. o \in L BY <1>5, <1>10, <1>12, <3>1
    <3> QED BY <1>8, <1>9, <3>1, <3>2
  <2>3. E = [x \in KT |-> E[x]] BY <1>9
  <2> HIDE DEF KT, KL
  <2>4. E = [x \in KL \ {k} |-> C[x]] BY <2>1, <2>2, <2>3
  <2>5. E = Remove(C, k) BY <1>8, <2>4 DEF Remove
  <2> QED BY <1>4, <1>6, <1>7, <1>12, <2>5 DEF f, C, E, T
<1> QED BY <1>11, <1>12

-----------------------------------------------------------------------------
(* append_record.                                                           *)

\* Pointers that do not leave the file read the same in a longer one.
LEMMA FaceLonger ==
  ASSUME NEW r \in Rec, NEW e \in Nat, r.nextloc[0] < e, r.nextloc[1] < e
  PROVE  Face(r, e + 1) = Face(r, e)
<1>1. r.nextloc[0] \in Nat /\ r.nextloc[1] \in Nat
  BY RecFields, FileAssumption
<1> QED BY <1>1 DEF Face, getloc

\* The forward offsets of a location after append_record.
appended(l, s, rec) ==
  [l EXCEPT !.fwd = [i \in Levels |-> IF i < Max({1, rec.level}) THEN s ELSE @[i]]]

\* The record of an operation is a RECORD or a DELETE.
LEMMA OpRecord ==
  ASSUME NEW L, Sound(L), NEW l, Tagged(l), IsLoc(now, L, l), l.key # 0,
         NEW rec, NEW mx, IsStore(l, rec, mx) \/ IsDelete(l, rec, mx)
  PROVE  /\ rec \in Rec /\ rec.type \in {"RECORD", "DELETE"} /\ mx \in 1 .. MaxLevel
         /\ rec.type = "RECORD" =>
              /\ rec.key = l.key /\ rec.val \in Val /\ rec.level \in 1 .. MaxLevel
              /\ mx = IF l.exact THEN Max({rec.level, now[l.at].level}) ELSE rec.level
              /\ rec.nextloc[0] = 0 /\ rec.nextloc[1] = l.fwd[0]
              /\ \A i \in 1 .. rec.level - 1 : rec.nextloc[i + 1] = l.fwd[i]
         /\ rec.type # "RECORD" =>
              /\ l.exact /\ mx = now[l.at].level /\ rec.level = 0
              /\ rec.nextloc[1] = 0 /\ rec.nextloc[0] = skipdelete(cache, l.fwd[0])
<1>0. l \in LocType /\ l.fwd \in [Levels -> Ptr] /\ l.key \in Key BY DEF Tagged, LocType
<1>1. l.at \in Nodes(L) /\ skipdelete(cache, l.fwd[0]) \in Ptr BY LocAt
<1>2. levelat(l.at) = now[l.at].level /\ now[l.at].level \in 1 .. MaxLevel
  BY <1>1, SoundFacts DEF levelat
<1>3. MaxLevel \in Nat /\ MaxLevel >= 1 BY FileAssumption
<1>4. CASE IsStore(l, rec, mx)
  <2>1. PICK level \in 1 .. MaxLevel, v \in Val :
          /\ rec = [type |-> "RECORD", level |-> level, key |-> l.key, val |-> v,
                    nextloc |-> [j \in 0..MaxLevel |-> IF j \in 1..level THEN l.fwd[j - 1] ELSE 0]]
          /\ mx = IF l.exact THEN Max({level, levelat(l.at)}) ELSE level
    BY <1>4 DEF IsStore
  <2> DEFINE ptrs == [j \in 0..MaxLevel |-> IF j \in 1..level THEN l.fwd[j - 1] ELSE 0]
  <2>2. ptrs \in [0 .. MaxLevel -> Ptr]
    <3> SUFFICES ASSUME NEW j \in 0 .. MaxLevel PROVE ptrs[j] \in Ptr OBVIOUS
    <3>1. j \in 1 .. level => j - 1 \in Levels BY <1>3 DEF Levels
    <3>2. 0 \in Ptr BY FileAssumption DEF Ptr
    <3> QED BY <1>0, <3>1, <3>2
  <2>3. ptrs[0] = 0 /\ ptrs[1] = l.fwd[0] BY <1>3
  <2>4. \A i \in 1 .. level - 1 : ptrs[i + 1] = l.fwd[i]
    <3> SUFFICES ASSUME NEW i \in 1 .. level - 1 PROVE ptrs[i + 1] = l.fwd[i] OBVIOUS
    <3>1. i + 1 \in 0 .. MaxLevel /\ i + 1 \in 1 .. level /\ (i + 1) - 1 = i BY <1>3
    <3> QED BY <3>1
  <2>5. rec = [type |-> "RECORD", level |-> level, key |-> l.key, val |-> v, nextloc |-> ptrs]
    BY <2>1
  <2> HIDE DEF ptrs
  <2>6. /\ rec.type = "RECORD" /\ rec.level = level /\ rec.key = l.key /\ rec.val = v
        /\ rec.nextloc = ptrs
    BY <2>5
  <2>7. rec \in Rec BY <1>0, <1>3, <2>2, <2>5 DEF Rec
  <2>8. mx \in 1 .. MaxLevel
    <3>1. CASE l.exact
      <4> DEFINE S == {level, now[l.at].level}
      <4>1. S \subseteq 0 .. MaxLevel /\ S # {} BY <1>2, <1>3
      <4>2. Max(S) \in S BY <1>3, <4>1, Greatest
      <4> QED BY <1>2, <2>1, <3>1, <4>2
    <3>2. CASE ~l.exact BY <2>1, <3>2
    <3> QED BY <3>1, <3>2
  <2> QED BY <1>2, <2>1, <2>3, <2>4, <2>6, <2>7, <2>8
<1>5. CASE IsDelete(l, rec, mx)
  <2> DEFINE ptrs == [NoPtrs EXCEPT ![0] = skipdelete(cache, l.fwd[0])]
  <2>1. /\ l.exact /\ mx = levelat(l.at)
        /\ rec = [Absent EXCEPT !.type = "DELETE", !.nextloc = ptrs]
    BY <1>5 DEF IsDelete
  <2>2. ptrs \in [0 .. MaxLevel -> Ptr] /\ ptrs[1] = 0 /\ ptrs[0] = skipdelete(cache, l.fwd[0])
    <3>1. 0 \in Ptr /\ 0 \in 0 .. MaxLevel /\ 1 \in 0 .. MaxLevel BY FileAssumption DEF Ptr
    <3>2. NoPtrs \in [0 .. MaxLevel -> Ptr] /\ NoPtrs[1] = 0 BY <3>1 DEF NoPtrs
    <3> HIDE DEF NoPtrs
    <3> QED BY <1>1, <3>1, <3>2
  <2> HIDE DEF ptrs
  <2>3. Absent \in Rec /\ Absent.level = 0 BY AbsentType DEF Absent
  <2>4. rec \in Rec /\ rec.type = "DELETE" /\ rec.level = 0 /\ rec.nextloc = ptrs
    BY <2>1, <2>2, <2>3 DEF Rec
  <2> QED BY <1>2, <2>1, <2>2, <2>4
<1> QED BY <1>4, <1>5

\* After append_record the new record fits, and nothing leads to it yet.
LEMMA Cut ==
  ASSUME NEW L, Sound(L), NEW l, Tagged(l), IsLoc(now, L, l), l.key # 0,
         NEW rec, NEW mx, IsStore(l, rec, mx) \/ IsDelete(l, rec, mx), size < MaxOffset,
         NEW d, written(d, cache, size + 1, rec)
  PROVE  /\ Cloth(d, size + 1, L, appended(l, size + 1, rec), rec, mx, 0)
         /\ \A o \in Nodes(L) : Faces(d, (size + 1) + 1)[o] = now[o]
         /\ appended(l, size + 1, rec).exact = l.exact /\ appended(l, size + 1, rec).at = l.at
         /\ appended(l, size + 1, rec).gen = l.gen
<1> DEFINE s == size + 1
           g == Faces(d, s + 1)
           m == appended(l, s, rec)
           top == IF rec.type = "RECORD" THEN rec.level ELSE 1
           k == l.key
<1>0. /\ cache \in [Offset -> Rec] /\ size \in Offset /\ PointBack(cache) /\ Full(cache, size, L)
      /\ now = Faces(cache, size + 1)
  BY DEF Sound, now
<1>1. /\ now \in [Offset -> FaceRec] /\ size + 1 \in 2 .. MaxOffset + 1 /\ size + 1 \in Nat
      /\ Records(now, size + 1, L) /\ List(now, size + 1, L)
      /\ L \subseteq Offset /\ Nodes(L) \subseteq Offset
      /\ \A o \in Nodes(L) : o <= size /\ now[o].type # "DELETE" /\ now[o].level \in 1 .. MaxLevel
  BY SoundFacts
<1>2. s \in Offset /\ s >= 2 /\ s \in Nat /\ size \in Nat /\ s \notin Nodes(L)
  BY <1>0, <1>1, FileAssumption DEF Offset
<1>3. /\ rec \in Rec /\ rec.type \in {"RECORD", "DELETE"} /\ mx \in 1 .. MaxLevel
      /\ rec.type = "RECORD" =>
           /\ rec.key = l.key /\ rec.val \in Val /\ rec.level \in 1 .. MaxLevel
           /\ mx = IF l.exact THEN Max({rec.level, now[l.at].level}) ELSE rec.level
           /\ rec.nextloc[0] = 0 /\ rec.nextloc[1] = l.fwd[0]
           /\ \A i \in 1 .. rec.level - 1 : rec.nextloc[i + 1] = l.fwd[i]
      /\ rec.type # "RECORD" =>
           /\ l.exact /\ mx = now[l.at].level /\ rec.level = 0
           /\ rec.nextloc[1] = 0 /\ rec.nextloc[0] = skipdelete(cache, l.fwd[0])
  BY OpRecord
<1>4. d \in [Offset -> Rec] /\ d[s] = rec /\ \A o \in Offset \ {s} : d[o] = cache[o]
  BY <1>0, <1>2, <1>3 DEF written
<1>l. /\ l.at \in Nodes(L) /\ skipdelete(cache, l.fwd[0]) \in Ptr
      /\ IsNext(now, L, l.key, skipdelete(cache, l.fwd[0])) /\ l.key \in Nat
  BY LocAt
<1>5. skipdelete(cache, l.fwd[0]) <= size
  <2>1. CASE skipdelete(cache, l.fwd[0]) = 0 BY <1>2, <2>1
  <2>2. CASE skipdelete(cache, l.fwd[0]) # 0 BY <1>1, <1>l, <2>2 DEF IsNext, Nodes
  <2> QED BY <2>1, <2>2
<1>6. PointBack(d)
  <2> SUFFICES ASSUME NEW o \in Offset, d[o].type = "DELETE"
               PROVE  d[o].nextloc[1] = 0 /\ d[o].nextloc[0] < o
    BY DEF PointBack
  <2>1. CASE o # s BY <1>0, <1>4, <2>1 DEF PointBack
  <2>2. CASE o = s
    <3>1. rec.type # "RECORD" BY <1>4, <2>2
    <3>2. skipdelete(cache, l.fwd[0]) \in Nat BY <1>l, FileAssumption DEF Ptr
    <3> QED BY <1>2, <1>3, <1>4, <1>5, <2>2, <3>1, <3>2
  <2> QED BY <2>1, <2>2
<1>7. l \in LocType /\ l.fwd \in [Levels -> Ptr] /\ l.key \in Key BY DEF Tagged, LocType
<1>8. Max({1, rec.level}) = top
  <2>1. rec.level \in 0 .. MaxLevel /\ MaxLevel \in Nat /\ MaxLevel >= 1
    BY <1>3, RecFields, FileAssumption
  <2> DEFINE S == {1, rec.level}
  <2>2. S \subseteq 0 .. MaxLevel /\ S # {} BY <2>1
  <2>3. Max(S) \in S /\ \A y \in S : y <= Max(S) BY <2>1, <2>2, Greatest
  <2> HIDE DEF S
  <2>4. 1 \in S /\ rec.level \in S /\ \A y \in S : y = 1 \/ y = rec.level BY DEF S
  <2>5. Max(S) = top BY <1>3, <2>1, <2>3, <2>4
  <2> QED BY <2>5 DEF S
<1> DEFINE fw == [i \in Levels |-> IF i < top THEN s ELSE l.fwd[i]]
<1>9. m = [l EXCEPT !.fwd = fw]
  <2>1. m = [l EXCEPT !.fwd = [i \in Levels |-> IF i < Max({1, rec.level}) THEN s ELSE l.fwd[i]]]
    BY <1>7 DEF appended, LocType
  <2> QED BY <1>8, <2>1, Zenon
<1>10. fw \in [Levels -> Ptr]
  <2>1. s \in Ptr BY <1>2, FileAssumption DEF Offset, Ptr
  <2> QED BY <1>7, <2>1
<1> HIDE DEF m, fw, g
<1>11. /\ m \in LocType /\ m.fwd = fw /\ m.key = l.key /\ m.exact = l.exact /\ m.at = l.at
       /\ m.back = l.back /\ m.gen = l.gen
  BY <1>7, <1>9, <1>10 DEF LocType
<1>12. g \in [Offset -> FaceRec] BY <1>4, FacesType DEF g
<1>13. ASSUME NEW o \in Offset, o # s, cache[o].nextloc[0] < s, cache[o].nextloc[1] < s
       PROVE  g[o] = now[o]
  <2>1. g[o] = Face(cache[o], s + 1) BY <1>4, <1>13, FacesAt DEF g
  <2>2. now[o] = Face(cache[o], s) BY <1>0, FacesAt
  <2>3. cache[o] \in Rec BY <1>0
  <2> QED BY <1>2, <1>13, <2>1, <2>2, <2>3, FaceLonger
<1>14. \A o \in Nodes(L) : g[o] = now[o]
  <2> SUFFICES ASSUME NEW o \in Nodes(L) PROVE g[o] = now[o] OBVIOUS
  <2>1. cache[o].nextloc[0] <= size /\ cache[o].nextloc[1] <= size BY <1>0 DEF Full
  <2>2. o \in Offset /\ o # s BY <1>1, <1>2
  <2>3. cache[o].nextloc[0] \in Nat /\ cache[o].nextloc[1] \in Nat
    BY <1>0, <2>2, RecFields, FileAssumption
  <2> QED BY <1>2, <1>13, <2>1, <2>2, <2>3
<1>15. ASSUME NEW o \in Offset, o < s, now[o].type = "DELETE" PROVE g[o] = now[o]
  <2>1. cache[o].type = "DELETE" BY <1>0, <1>15, FacesAt
  <2>2. cache[o].nextloc[1] = 0 /\ cache[o].nextloc[0] < o BY <1>0, <2>1 DEF PointBack
  <2>3. cache[o].nextloc[0] \in Nat /\ o \in Nat BY <1>0, RecFields, FileAssumption DEF Offset
  <2>4. o # s /\ cache[o].nextloc[0] < s /\ cache[o].nextloc[1] < s
    BY <1>2, <1>15, <2>2, <2>3
  <2> QED BY <1>13, <2>4
<1>16. \A o \in Offset : o # s => g[o].type = now[o].type
  <2> SUFFICES ASSUME NEW o \in Offset, o # s PROVE g[o].type = now[o].type OBVIOUS
  <2>1. g[o].type = d[o].type BY DEF g, Faces, Face
  <2>2. now[o].type = cache[o].type BY <1>0, FacesAt
  <2> QED BY <1>4, <2>1, <2>2
<1>17. ASSUME NEW n \in Ptr, n < s
       PROVE  (IF n # 0 /\ g[n].type = "DELETE" THEN g[n].next ELSE n)
              = (IF n # 0 /\ now[n].type = "DELETE" THEN now[n].next ELSE n)
  <2>1. CASE n = 0 BY <2>1
  <2>2. CASE n # 0
    <3>1. n \in Offset /\ n # s BY <1>2, <1>17, <2>2, FileAssumption DEF Ptr, Offset
    <3> QED BY <1>15, <1>16, <1>17, <3>1
  <2> QED BY <2>1, <2>2
<1>18. ASSUME NEW o \in Nodes(L) PROVE Linked(g, s, L, o)
  <2>1. Linked(now, s, L, o) BY <1>1 DEF List
  <2>2. now[o].next < s /\ now[o].next \in Ptr BY <1>1, <2>1 DEF Linked, FaceRec
  <2>3. following(g, o) = following(now, o) BY <1>14, <1>17, <2>2 DEF following
  <2>4. \A x \in L : g[x] = now[x] BY <1>14 DEF Nodes
  <2> QED BY <1>14, <2>1, <2>3, <2>4 DEF Linked, IsNext
<1>19. \A i : Above(g, L, i) = Above(now, L, i) BY <1>14 DEF Above, Nodes
<1>20. \A S \in SUBSET L : \A j, x : IsNext(now, S, j, x) => IsNext(g, S, j, x)
  <2> SUFFICES ASSUME NEW S \in SUBSET L, NEW j, NEW x, IsNext(now, S, j, x)
               PROVE  IsNext(g, S, j, x)
    OBVIOUS
  <2>1. \A y \in S : g[y] = now[y] BY <1>14 DEF Nodes
  <2> QED BY <2>1 DEF IsNext
<1>21. \A i : Above(now, L, i) \in SUBSET L BY DEF Above
<1>22. ASSUME NEW o \in Nodes(L)
       PROVE          /\ d[o].nextloc[0] <= s /\ d[o].nextloc[1] <= s
                      /\ Linked(g, s, L, o)
                      /\ \A i \in 1 .. g[o].level - 1 : ~(i < 0) /\ Upper(g, d, L, o, i)
  <2>1. o \in Offset /\ o # s /\ d[o] = cache[o] BY <1>1, <1>2, <1>4
  <2>2. cache[o].nextloc[0] <= size /\ cache[o].nextloc[1] <= size BY <1>0 DEF Full
  <2>3. cache[o].nextloc[0] \in Nat /\ cache[o].nextloc[1] \in Nat
    BY <1>0, <2>1, RecFields, FileAssumption
  <2>4. ASSUME NEW i \in 1 .. g[o].level - 1 PROVE ~(i < 0) /\ Upper(g, d, L, o, i)
    <3>1. Upper(now, cache, L, o, i) BY <1>0, <1>14 DEF Full
    <3>2. ~(i < 0) BY <1>1, <1>14
    <3> QED BY <1>14, <1>19, <1>20, <1>21, <2>1, <3>1, <3>2 DEF Upper
  <2>5. d[o].nextloc[0] <= s /\ d[o].nextloc[1] <= s BY <1>2, <2>1, <2>2, <2>3
  <2> QED BY <1>18, <2>4, <2>5, Zenon
<1>22a. Sewn(g, d, s, L, m, 0)
  <2>1. ~(0 > 0) OBVIOUS
  <2> QED BY <1>22, <2>1, Zenon DEF Sewn
<1>23. Fits(g, d, s, L, m, rec, mx)
  <2>1. Records(g, s, L) BY <1>1, <1>14 DEF Records, Nodes
  <2>2. /\ m.exact = (\E o \in L : g[o].key = k)
        /\ m.exact => m.at \in L /\ g[m.at].key = k
    <3>1. l.exact = (\E o \in L : now[o].key = k) /\ (l.exact => l.at \in L /\ now[l.at].key = k)
      BY DEF IsLoc
    <3>2. \A o \in L : g[o].key = now[o].key BY <1>14 DEF Nodes
    <3>3. (\E o \in L : g[o].key = k) = (\E o \in L : now[o].key = k) BY <3>2, Zenon
    <3>4. m.exact = (\E o \in L : g[o].key = k) BY <1>11, <3>1, <3>3, Zenon
    <3>5. m.exact => m.at \in L /\ g[m.at].key = k BY <1>11, <3>1, <3>2, Zenon
    <3> QED BY <3>4, <3>5
  <2>3. ASSUME NEW i \in Levels PROVE IsPrev(g, L, i, k, m.back[i])
    <3>1. IsPrev(now, L, i, k, l.back[i]) BY DEF IsLoc
    <3>2. \A y \in Above(now, L, i) : g[y] = now[y] BY <1>14, <1>21 DEF Nodes
    <3> QED BY <1>11, <1>14, <1>19, <3>1, <3>2 DEF IsPrev
  <2>4. ASSUME NEW i \in Levels
        PROVE  IF i < top THEN m.fwd[i] = s ELSE IsNext(g, Above(g, L, i), k, m.fwd[i])
    <3>1. CASE i < top BY <1>11, <3>1 DEF fw
    <3>2. CASE ~(i < top)
      <4>1. i # 0
        <5>1. top \in Nat /\ top >= 1 BY <1>3, FileAssumption
        <5> HIDE DEF top
        <5> QED BY <3>2, <5>1
      <4>2. IsNext(now, Above(now, L, i), k, l.fwd[i]) BY <4>1 DEF IsLoc
      <4>3. m.fwd[i] = l.fwd[i] BY <1>11, <3>2 DEF fw
      <4> QED BY <1>19, <1>20, <1>21, <3>2, <4>2, <4>3
    <3> QED BY <3>1, <3>2
  <2>5. ASSUME rec.type = "RECORD"
        PROVE  /\ rec.key = k /\ rec.val \in Val /\ rec.level \in 1 .. MaxLevel
               /\ mx = IF m.exact THEN Max({rec.level, g[m.at].level}) ELSE rec.level
               /\ rec.nextloc[0] = 0 /\ rec.nextloc[1] < s
               /\ IsNext(g, L, k, following(g, s))
               /\ \A i \in 1 .. rec.level - 1 : IsNext(g, Above(g, L, i), k, rec.nextloc[i + 1])
    <3>1. l.fwd[0] = now[l.at].next /\ now[l.at].next < s /\ now[l.at].next \in Ptr
      <4>1. l.fwd[0] = now[l.at].next BY DEF IsLoc
      <4>2. Linked(now, s, L, l.at) BY <1>1, <1>l DEF List
      <4> QED BY <1>1, <1>l, <4>1, <4>2 DEF Linked, FaceRec
    <3>2. g[s].next = l.fwd[0]
      <4>1. g[s].next = getloc(rec, 0, s + 1) BY <1>2, <1>4, FacesAt DEF g
      <4>2. l.fwd[0] \in Nat BY <3>1, FileAssumption DEF Ptr
      <4> QED BY <1>2, <1>3, <2>5, <3>1, <4>1, <4>2 DEF getloc
    <3>3. following(g, s) = skipdelete(cache, l.fwd[0])
      <4>1. following(g, s) = following(now, l.at)
        BY <1>17, <3>1, <3>2 DEF following
      <4>2. skipdelete(cache, now[l.at].next) = following(now, l.at)
        BY <1>0, <1>1, <1>2, <1>l, <3>1, SkipFollowing
      <4> QED BY <3>1, <4>1, <4>2
    <3>4. IsNext(g, L, k, following(g, s)) BY <1>l, <1>20, <3>3
    <3>5. ASSUME NEW i \in 1 .. rec.level - 1
          PROVE  IsNext(g, Above(g, L, i), k, rec.nextloc[i + 1])
      <4>1. i \in Levels \ {0} BY <1>3, <2>5, FileAssumption DEF Levels
      <4>2. IsNext(now, Above(now, L, i), k, l.fwd[i]) BY <4>1 DEF IsLoc
      <4> QED BY <1>3, <1>19, <1>20, <1>21, <2>5, <4>2
    <3>6. g[m.at].level = now[l.at].level BY <1>11, <1>14, <1>l
    <3> QED BY <1>3, <1>11, <2>5, <3>1, <3>4, <3>5, <3>6
  <2>6. ASSUME rec.type # "RECORD"
        PROVE  /\ rec.type = "DELETE" /\ m.exact /\ mx = g[m.at].level
               /\ rec.nextloc[1] = 0 /\ rec.nextloc[0] < s
               /\ IsNext(g, L, k, rec.nextloc[0])
    <3>1. g[m.at].level = now[l.at].level BY <1>11, <1>14, <1>l
    <3>2. skipdelete(cache, l.fwd[0]) \in Nat BY <1>l, FileAssumption DEF Ptr
    <3>3. skipdelete(cache, l.fwd[0]) < s BY <1>2, <1>5, <3>2
    <3> QED BY <1>3, <1>11, <1>20, <1>l, <2>6, <3>1, <3>3
  <2> QED BY <1>4, <1>7, <1>11, <2>1, <2>2, <2>3, <2>4, <2>5, <2>6 DEF Fits
<1>24. Cloth(d, s, L, m, rec, mx, 0)
  BY <1>2, <1>4, <1>6, <1>11, <1>22a, <1>23 DEF Cloth, g
<1> QED BY <1>11, <1>14, <1>24 DEF m, g

-----------------------------------------------------------------------------
(* recovery1.                                                               *)

\* The file c of which the first n - 1 records are committed: as f shows them.
Committed(c, f, n, L) ==
  /\ c \in [Offset -> Rec] /\ PointBack(c) /\ n \in 2 .. MaxOffset + 1
  /\ f \in [Offset -> FaceRec] /\ List(f, n, L)
  /\ \A o \in 1 .. n - 1 : Face(c[o], n) = f[o] /\ OneCommitted(c[o], n)

\* The types of a file of which the first records are committed.
LEMMA CommittedFacts ==
  ASSUME NEW c, NEW f, NEW n, NEW L, Committed(c, f, n, L)
  PROVE  /\ n \in Nat /\ n >= 2 /\ n \in Size
         /\ Records(f, n, L) /\ L \subseteq Offset /\ Nodes(L) \subseteq Offset
         /\ DUMMY_OFFSET \in Offset /\ DUMMY_OFFSET \notin L /\ 0 \notin Nodes(L)
         /\ \A o \in 1 .. n - 1 : /\ c[o].type = f[o].type /\ c[o].level = f[o].level
                                  /\ c[o].key = f[o].key /\ f[o].next = getloc(c[o], 0, n)
                                  /\ o \in Offset
         /\ \A o \in Nodes(L) : /\ o \in 1 .. n - 1 /\ f[o].key \in Nat
                                /\ f[o].level \in 1 .. MaxLevel /\ c[o] \in Rec
         /\ \A o \in L : f[o].key > 0 /\ f[o].type = "RECORD"
         /\ \A o, x \in Nodes(L) : f[o].key = f[x].key => o = x
         /\ f[DUMMY_OFFSET].key = 0 /\ f[DUMMY_OFFSET].level = MaxLevel
         /\ \A o \in Nodes(L) : IsNext(f, L, f[o].key, following(f, o)) /\ f[o].next < n
<1>1. n \in Nat /\ n >= 2 /\ n \in Size /\ n <= MaxOffset + 1 /\ MaxOffset \in Nat
  BY FileAssumption DEF Committed, Size
<1>2. /\ Records(f, n, L) /\ f \in [Offset -> FaceRec] /\ c \in [Offset -> Rec]
      /\ \A o \in Nodes(L) : Linked(f, n, L, o)
  BY DEF Committed, List
<1>3. n \in 2 .. MaxOffset + 1 BY DEF Committed
<1>4. /\ L \subseteq Offset /\ Nodes(L) \subseteq Offset
      /\ DUMMY_OFFSET \in Offset /\ DUMMY_OFFSET \notin L /\ 0 \notin Nodes(L)
      /\ \A o \in Nodes(L) : f[o].key \in Nat /\ o < n /\ f[o].level \in 1 .. MaxLevel
      /\ \A o \in L : f[o].key > 0
      /\ \A o, x \in Nodes(L) : f[o].key = f[x].key => o = x
  BY <1>2, <1>3, RecordFacts
<1>5. \A o \in Nodes(L) : o \in 1 .. n - 1 /\ c[o] \in Rec
  <2> SUFFICES ASSUME NEW o \in Nodes(L) PROVE o \in 1 .. n - 1 /\ c[o] \in Rec OBVIOUS
  <2>1. o \in Offset /\ o < n BY <1>4
  <2> QED BY <1>1, <1>2, <2>1 DEF Offset
<1>6. ASSUME NEW o \in 1 .. n - 1
      PROVE  /\ c[o].type = f[o].type /\ c[o].level = f[o].level
             /\ c[o].key = f[o].key /\ f[o].next = getloc(c[o], 0, n) /\ o \in Offset
  <2>1. Face(c[o], n) = f[o] BY DEF Committed
  <2>2. o \in Offset BY <1>1 DEF Offset
  <2> QED BY <2>1, <2>2 DEF Face
<1>7. \A o \in L : f[o].type = "RECORD" BY <1>2 DEF Records
<1>8. f[DUMMY_OFFSET].key = 0 /\ f[DUMMY_OFFSET].level = MaxLevel BY <1>2 DEF Records
<1>9. \A o \in Nodes(L) : IsNext(f, L, f[o].key, following(f, o)) /\ f[o].next < n
  BY <1>2 DEF Linked
<1> QED BY <1>1, <1>2, <1>4, <1>5, <1>6, <1>7, <1>8, <1>9

\* The record that recovery1 goes to is the next of the committed list.
LEMMA NextOffset ==
  ASSUME NEW f, NEW n, NEW L, Committed(cache, f, n, L), n = hcache.current_size,
         NEW o \in Nodes(L)
  PROVE  /\ nextoffset(o) = following(f, o) /\ nextoffset(o) \in Nodes(L) \cup {0}
         /\ nextoffset(o) # 1 /\ IsNext(f, L, f[o].key, nextoffset(o))
<1> DEFINE r == zerolocs(cache[o], n)
           x == getloc(r, 0, n)
           y == following(f, o)
           g == Faces(cache, n)
<1>1. /\ cache \in [Offset -> Rec] /\ PointBack(cache) /\ n \in Nat /\ n >= 2 /\ n \in Size
      /\ f \in [Offset -> FaceRec] /\ o \in 1 .. n - 1 /\ o \in Offset /\ cache[o] \in Rec
      /\ IsNext(f, L, f[o].key, y) /\ f[o].next < n /\ 0 \notin Nodes(L)
      /\ L \subseteq Offset
      /\ DUMMY_OFFSET \notin L
  BY CommittedFacts DEF Committed
<1>2. Face(cache[o], n) = f[o] /\ OneCommitted(cache[o], n) BY <1>1 DEF Committed
<1>3. x = f[o].next
  <2>1. Face(r, n) = Face(cache[o], n) BY <1>1, <1>2, ZeroKeepsFace
  <2>2. Face(r, n).next = x BY DEF Face
  <2> QED BY <1>2, <2>1, <2>2
<1>4. x \in Ptr /\ x < n BY <1>1, <1>3 DEF FaceRec
<1>5. \A z \in 1 .. n - 1 : g[z] = f[z]
  <2> SUFFICES ASSUME NEW z \in 1 .. n - 1 PROVE g[z] = f[z] OBVIOUS
  <2>1. z \in Offset BY CommittedFacts
  <2> QED BY <1>1, <2>1, FacesAt DEF Committed
<1>6. skipdelete(cache, x) = y
  <2>1. g[o].next = x BY <1>1, <1>3, <1>5
  <2>2. skipdelete(cache, x) = following(g, o) BY <1>1, <1>4, <2>1, SkipFollowing
  <2>3. following(g, o) = following(f, o)
    <3>1. CASE x = 0 BY <1>3, <2>1, <3>1 DEF following
    <3>2. CASE x # 0
      <4>1. x \in 1 .. n - 1 BY <1>1, <1>4, <3>2, FileAssumption DEF Ptr
      <4> QED BY <1>3, <1>5, <2>1, <4>1 DEF following
    <3> QED BY <3>1, <3>2
  <2> QED BY <2>2, <2>3
<1>7. y \in L \cup {0} BY <1>1 DEF IsNext
<1>8. skipdelete(cache, y) = y /\ y \in Ptr
  <2>1. CASE y = 0 BY <2>1, FileAssumption DEF skipdelete, Ptr
  <2>2. CASE y \in L
    <3>1. y \in 1 .. n - 1 /\ f[y].type = "RECORD" BY <2>2, CommittedFacts DEF Nodes
    <3>2. cache[y].type = "RECORD" BY <3>1, CommittedFacts
    <3>3. y \in Offset BY <1>1, <2>2
    <3> QED BY <3>2, <3>3 DEF skipdelete, Offset, Ptr
  <2> QED BY <1>7, <2>1, <2>2
<1> DEFINE step == [m \in Ptr |-> skipdelete(cache, m)]
           w == Walk(step, x, MaxOffset)
           M == MaxOffset
<1>9. step \in [Ptr -> Ptr]
  <2> SUFFICES ASSUME NEW m \in Ptr PROVE skipdelete(cache, m) \in Ptr OBVIOUS
  <2>1. CASE m = 0 BY <2>1 DEF skipdelete
  <2>2. CASE m # 0
    <3>1. m \in Offset BY <2>2, FileAssumption DEF Ptr, Offset
    <3>2. cache[m] \in Rec BY <1>1, <3>1
    <3>3. cache[m].nextloc[0] \in Ptr BY <3>2, RecFields, FileAssumption
    <3> QED BY <3>3 DEF skipdelete
  <2> QED BY <2>1, <2>2
<1>10. step[x] = y /\ step[y] = y BY <1>4, <1>6, <1>8
<1> HIDE DEF step
<1>11. M \in Nat /\ M >= 1 BY FileAssumption
<1> HIDE DEF M
<1>12. /\ w[0] = x /\ \A i \in 0 .. M - 1 : w[i + 1] = step[w[i]]
  BY <1>4, <1>9, <1>11, WalkSteps DEF M
<1> HIDE DEF w
<1> DEFINE S == {i \in 0 .. M : i >= 1 => w[i] = y}
<1>13. \A i \in 0 .. M : i \in S
  <2>1. 0 \in S BY <1>11
  <2>2. \A i \in 0 .. M - 1 : i \in S => i + 1 \in S
    <3> SUFFICES ASSUME NEW i \in 0 .. M - 1, i \in S PROVE i + 1 \in S OBVIOUS
    <3>1. w[i + 1] = step[w[i]] BY <1>12
    <3>2. w[i] = x \/ w[i] = y BY <1>12
    <3>3. i + 1 \in 0 .. M BY <1>11
    <3> QED BY <1>10, <3>1, <3>2, <3>3
  <2> HIDE DEF S
  <2> QED BY <1>11, <2>1, <2>2, UpTo
<1>14. w[M] = y BY <1>11, <1>13
<1>15. nextoffset(o) = y BY <1>14 DEF nextoffset, alive, w, step, M
<1> QED BY <1>1, <1>7, <1>15 DEF Nodes, DUMMY_OFFSET

\* The pointers past the end are cleared, the others are as before.
LEMMA ZeroFacts ==
  ASSUME NEW r \in Rec, NEW n \in Nat, n >= 2
  PROVE  LET z == zerolocs(r, n)
         IN /\ z \in Rec /\ z.type = r.type /\ z.level = r.level /\ z.key = r.key
            /\ z.nextloc[0] < n /\ z.nextloc[1] < n
            /\ \A j \in 2 .. MaxLevel : z.nextloc[j] = r.nextloc[j]
            /\ r.nextloc[0] < n /\ r.nextloc[1] < n => z = r
<1> DEFINE ptrs == [j \in 0..MaxLevel |->
                      IF j \in {0, 1} /\ r.nextloc[j] >= n THEN 0 ELSE r.nextloc[j]]
<1>1. /\ r.nextloc \in [0 .. MaxLevel -> Ptr]
      /\ \A j \in 0 .. MaxLevel : r.nextloc[j] \in Nat
      /\ 0 \in Ptr /\ 0 \in 0 .. MaxLevel /\ 1 \in 0 .. MaxLevel
  BY RecFields, FileAssumption DEF Ptr
<1>2. ptrs \in [0 .. MaxLevel -> Ptr] BY <1>1
<1>3. ptrs[0] < n /\ ptrs[1] < n BY <1>1
<1>4. \A j \in 2 .. MaxLevel : ptrs[j] = r.nextloc[j]
  <2> SUFFICES ASSUME NEW j \in 2 .. MaxLevel PROVE ptrs[j] = r.nextloc[j] OBVIOUS
  <2>1. j \in 0 .. MaxLevel /\ j \notin {0, 1} BY FileAssumption
  <2> QED BY <2>1
<1>5. r.nextloc[0] < n /\ r.nextloc[1] < n => ptrs = r.nextloc
  <2> SUFFICES ASSUME r.nextloc[0] < n, r.nextloc[1] < n PROVE ptrs = r.nextloc OBVIOUS
  <2>1. \A j \in 0 .. MaxLevel : ~(j \in {0, 1} /\ r.nextloc[j] >= n) BY <1>1
  <2> QED BY <1>1, <2>1
<1>6. zerolocs(r, n) = [r EXCEPT !.nextloc = ptrs] BY DEF zerolocs
<1> HIDE DEF ptrs
<1>7. /\ zerolocs(r, n) \in Rec /\ zerolocs(r, n).nextloc = ptrs
      /\ zerolocs(r, n).type = r.type /\ zerolocs(r, n).level = r.level
      /\ zerolocs(r, n).key = r.key
  BY <1>2, <1>6 DEF Rec
<1>8. ptrs = r.nextloc => zerolocs(r, n) = r BY <1>6 DEF Rec
<1> QED BY <1>3, <1>4, <1>5, <1>7, <1>8

\* Where the levels go on after the record prev[i]: at cur, if it has them.
LEMMA WalkNext ==
  ASSUME NEW c, NEW f, NEW n, NEW L, Committed(c, f, n, L), NEW r, Walked(c, r, f, n, L),
         NEW i \in 2 .. MaxLevel, r.cur # 0 => i <= f[r.cur].level
  PROVE  IsNext(f, Above(f, L, i - 1), f[r.prev[i]].key, r.cur)
<1>1. /\ \A o \in Nodes(L) : f[o].key \in Nat /\ f[o].level \in 1 .. MaxLevel
      /\ L \subseteq Nodes(L)
  BY CommittedFacts DEF Nodes
<1> DEFINE p == r.prev[i]
<1>2. /\ r.last \in Nodes(L) /\ IsNext(f, L, f[r.last].key, r.cur) /\ p \in Nodes(L)
      /\ f[p].key <= f[r.last].key
      /\ \A y \in L : i <= f[y].level /\ f[y].key <= f[r.last].key => f[y].key <= f[p].key
  BY DEF Walked
<1> HIDE DEF p
<1>3. f[r.last].key \in Nat /\ f[p].key \in Nat BY <1>1, <1>2
<1>4. i \in Nat /\ MaxLevel \in Nat BY FileAssumption
<1>5. \A y : y \in Above(f, L, i - 1) => y \in L /\ i <= f[y].level /\ f[y].key \in Nat
  BY <1>1, <1>4 DEF Above
<1>6. CASE r.cur = 0
  <2>1. \A y \in L : f[y].key <= f[r.last].key BY <1>2, <1>6 DEF IsNext
  <2>2. \A y \in Above(f, L, i - 1) : f[y].key <= f[p].key BY <1>2, <1>5, <2>1
  <2> QED BY <1>6, <2>2 DEF IsNext, p
<1>7. CASE r.cur # 0
  <2>1. /\ r.cur \in L /\ f[r.cur].key > f[r.last].key
        /\ \A x \in L : f[x].key > f[r.last].key => f[r.cur].key <= f[x].key
    BY <1>2, <1>7 DEF IsNext
  <2>2. f[r.cur].key \in Nat /\ f[r.cur].level \in 1 .. MaxLevel BY <1>1, <2>1
  <2>3. r.cur \in Above(f, L, i - 1) BY <1>4, <1>7, <2>1, <2>2 DEF Above
  <2>4. f[r.cur].key > f[p].key BY <1>2, <1>3, <2>1, <2>2
  <2>5. ASSUME NEW x \in Above(f, L, i - 1), f[x].key > f[p].key PROVE f[r.cur].key <= f[x].key
    <3>1. x \in L /\ i <= f[x].level /\ f[x].key \in Nat BY <1>5
    <3>2. ~(f[x].key <= f[r.last].key) BY <1>2, <1>3, <2>5, <3>1
    <3> QED BY <1>3, <2>1, <3>1, <3>2
  <2> QED BY <1>7, <2>3, <2>4, <2>5 DEF IsNext, p
<1> QED BY <1>6, <1>7

\* The variables of recovery1 after the DUMMY and after the record r.cur, when the
\* next is x.
passedDummy(c, x) ==
  [last |-> DUMMY_OFFSET, cur |-> x, n |-> 0,
   prev |-> [i \in 2..MaxLevel |-> DUMMY_OFFSET],
   next |-> [i \in 2..MaxLevel |-> c[DUMMY_OFFSET].nextloc[i]]]
passedRecord(c, r, x) ==
  [last |-> r.cur, cur |-> x, n |-> r.n + 1,
   prev |-> [i \in 2..MaxLevel |-> IF i \in 2 .. c[r.cur].level THEN r.cur ELSE r.prev[i]],
   next |-> [i \in 2..MaxLevel |-> IF i \in 2 .. c[r.cur].level THEN c[r.cur].nextloc[i]
                                   ELSE r.next[i]]]

\* A record, and the variables of recovery1, with the pointer i repaired.
pointed(r, i, x) == [r EXCEPT !.nextloc[i] = x]
repointed(r, new) ==
  /\ new \in Rec /\ new = [r EXCEPT !.nextloc = new.nextloc]
  /\ \A j \in {0, 1} : new.nextloc[j] = r.nextloc[j]
reached(t, r, i) == t = [r EXCEPT !.next[i] = r.cur]

\* The DUMMY is passed.
LEMMA WalkStart ==
  ASSUME NEW c, NEW f, NEW n, NEW L, Committed(c, f, n, L),
         NEW d, written(d, c, DUMMY_OFFSET, zerolocs(c[DUMMY_OFFSET], n)),
         NEW x \in Ptr, IsNext(f, L, f[DUMMY_OFFSET].key, x)
  PROVE  Walked(d, passedDummy(c, x), f, n, L)
<1> DEFINE D == DUMMY_OFFSET
           pv == [i \in 2..MaxLevel |-> DUMMY_OFFSET]
           nx == [i \in 2..MaxLevel |-> c[DUMMY_OFFSET].nextloc[i]]
           r == [last |-> D, cur |-> x, n |-> 0, prev |-> pv, next |-> nx]
<1>1. /\ n \in Nat /\ n >= 2 /\ L \subseteq Offset /\ D \in Offset /\ D \in Nodes(L)
      /\ c \in [Offset -> Rec] /\ c[D] \in Rec
      /\ f[D].key = 0 /\ f[D].level = MaxLevel /\ MaxLevel \in Nat
      /\ \A o \in Nodes(L) : f[o].key \in Nat
      /\ \A o \in L : f[o].key > 0 /\ f[o].key \in Nat
      /\ \A o, y \in Nodes(L) : f[o].key = f[y].key => o = y
  BY CommittedFacts, FileAssumption DEF Committed, Nodes
<1>2. D \in Ptr /\ 0 \in Ptr BY FileAssumption DEF DUMMY_OFFSET, Ptr
<1> HIDE DEF D
<1>3. pv \in [2 .. MaxLevel -> Ptr] /\ \A i \in 2 .. MaxLevel : pv[i] = D BY <1>2 DEF D
<1>4. nx \in [2 .. MaxLevel -> Ptr] /\ \A i \in 2 .. MaxLevel : nx[i] = c[D].nextloc[i]
  <2>1. \A i \in 2 .. MaxLevel : c[D].nextloc[i] \in Ptr
    <3> SUFFICES ASSUME NEW i \in 2 .. MaxLevel PROVE c[D].nextloc[i] \in Ptr OBVIOUS
    <3>1. i \in 0 .. MaxLevel BY <1>1
    <3>2. c[D].nextloc \in [0 .. MaxLevel -> Ptr] BY <1>1, RecFields
    <3> QED BY <3>1, <3>2
  <2> QED BY <2>1 DEF D
<1> HIDE DEF pv, nx
<1>5. r \in Walk1 BY <1>2, <1>3, <1>4 DEF Walk1
<1>6. r.last = D /\ r.cur = x /\ r.n = 0 /\ r.prev = pv /\ r.next = nx OBVIOUS
<1> HIDE DEF r
<1>7. /\ d[D].nextloc[0] < n /\ d[D].nextloc[1] < n
      /\ \A j \in 2 .. MaxLevel : d[D].nextloc[j] = c[D].nextloc[j]
  <2>1. d[D] = zerolocs(c[D], n) BY <1>1 DEF D, written
  <2> QED BY <1>1, <2>1, ZeroFacts
<1>8. {o \in L : f[o].key <= f[D].key} = {}
  <2> SUFFICES ASSUME NEW o \in L, f[o].key <= 0 PROVE FALSE BY <1>1
  <2> QED BY <1>1
<1>9. \A o \in Nodes(L) : f[o].key <= f[D].key => o = D
  <2> SUFFICES ASSUME NEW o \in Nodes(L), f[o].key <= f[D].key PROVE o = D OBVIOUS
  <2>1. f[o].key = 0 BY <1>1
  <2> QED BY <1>1, <2>1
<1>10. ASSUME NEW i \in 2 .. MaxLevel
       PROVE /\ r.prev[i] \in Nodes(L) /\ i <= f[r.prev[i]].level
             /\ f[r.prev[i]].key <= f[r.last].key
             /\ \A y \in L : i <= f[y].level /\ f[y].key <= f[r.last].key
                               => f[y].key <= f[r.prev[i]].key
             /\ r.next[i] = d[r.prev[i]].nextloc[i]
  <2>1. r.prev[i] = D /\ r.next[i] = d[D].nextloc[i] BY <1>3, <1>4, <1>6, <1>7
  <2> QED BY <1>1, <1>6, <2>1
<1>11. ASSUME NEW o \in Nodes(L), f[o].key <= f[r.last].key
       PROVE  /\ d[o].nextloc[0] < n /\ d[o].nextloc[1] < n
              /\ \A l \in 1 .. f[o].level - 1 : o # r.prev[l + 1] => Upper(f, d, L, o, l)
  <2>1. o = D BY <1>6, <1>9, <1>11
  <2>2. \A l \in 1 .. f[o].level - 1 : r.prev[l + 1] = D
    <3> SUFFICES ASSUME NEW l \in 1 .. f[o].level - 1 PROVE r.prev[l + 1] = D OBVIOUS
    <3>1. l + 1 \in 2 .. MaxLevel BY <1>1, <2>1
    <3> QED BY <1>3, <1>6, <3>1
  <2> QED BY <1>7, <2>1, <2>2
<1>12. r.n = Cardinality({o \in L : f[o].key <= f[r.last].key}) BY <1>6, <1>8, FS_EmptySet
<1>13. r.last \in Nodes(L) /\ IsNext(f, L, f[r.last].key, r.cur) BY <1>1, <1>6 DEF D
<1>14. Walked(d, r, f, n, L) BY <1>5, <1>10, <1>11, <1>12, <1>13 DEF Walked
<1> QED BY <1>14 DEF r, pv, nx, D, passedDummy

\* A pointer of a level above zero is repaired.
LEMMA WalkUpper ==
  ASSUME NEW c, NEW f, NEW n, NEW L, Committed(c, f, n, L), NEW r, Walked(c, r, f, n, L),
         NEW i \in 2 .. MaxLevel,
         NEW d, written(d, c, r.prev[i], pointed(c[r.prev[i]], i, r.cur)),
         NEW t, reached(t, r, i)
  PROVE  /\ Walked(d, t, f, n, L) /\ r.prev[i] \in Nodes(L)
         /\ repointed(c[r.prev[i]], d[r.prev[i]])
<1> DEFINE p == r.prev[i]
           new == d[p]
           ptrs == [c[p].nextloc EXCEPT ![i] = r.cur]
<1>1. p \in Nodes(L) /\ r \in Walk1 BY DEF Walked
<1>2. p \in Offset /\ c \in [Offset -> Rec] /\ c[p] \in Rec BY <1>1, CommittedFacts DEF Committed
<1>3. i \in 0 .. MaxLevel /\ MaxLevel \in Nat /\ i # 0 /\ i # 1 BY FileAssumption
<1>4. r.cur \in Ptr /\ r.prev \in [2 .. MaxLevel -> Ptr] /\ r.next \in [2 .. MaxLevel -> Ptr]
  BY <1>1 DEF Walk1
<1>5. c[p].nextloc \in [0 .. MaxLevel -> Ptr] BY <1>2, RecFields
<1>6. ptrs \in [0 .. MaxLevel -> Ptr] /\ ptrs[i] = r.cur
      /\ \A j \in 0 .. MaxLevel : j # i => ptrs[j] = c[p].nextloc[j]
  BY <1>3, <1>4, <1>5
<1>7. new = [c[p] EXCEPT !.nextloc = ptrs]
  <2>1. new = [c[p] EXCEPT !.nextloc[i] = r.cur] BY <1>2 DEF written, pointed
  <2> QED BY <1>2, <2>1 DEF Rec
<1>8. \A o \in Offset : o # p => d[o] = c[o] BY <1>2 DEF written
<1> HIDE DEF ptrs, p, new
<1>9. new \in Rec /\ new.nextloc = ptrs /\ new = [c[p] EXCEPT !.nextloc = new.nextloc]
  BY <1>2, <1>6, <1>7 DEF Rec
<1>10. t \in Walk1 /\ t.last = r.last /\ t.cur = r.cur /\ t.n = r.n /\ t.prev = r.prev
       /\ t.next = [r.next EXCEPT ![i] = r.cur]
  <2> DEFINE nx == [r.next EXCEPT ![i] = r.cur]
  <2>1. nx \in [2 .. MaxLevel -> Ptr] BY <1>4
  <2>2. t = [r EXCEPT !.next = nx] BY <1>1 DEF Walk1, reached
  <2> HIDE DEF nx
  <2>3. t \in Walk1 /\ t.next = nx BY <1>1, <2>1, <2>2 DEF Walk1
  <2> QED BY <1>1, <2>2, <2>3 DEF Walk1, nx
<1>11. \A o \in Offset, j \in 0 .. MaxLevel : j # i \/ o # p => d[o].nextloc[j] = c[o].nextloc[j]
  <2> SUFFICES ASSUME NEW o \in Offset, NEW j \in 0 .. MaxLevel, j # i \/ o # p
               PROVE  d[o].nextloc[j] = c[o].nextloc[j]
    OBVIOUS
  <2>1. CASE o # p BY <1>8, <2>1
  <2>2. CASE o = p BY <1>6, <1>9, <2>2 DEF new
  <2> QED BY <2>1, <2>2
<1>12. Nodes(L) \subseteq Offset BY CommittedFacts
<1>13. ASSUME NEW j \in 2 .. MaxLevel
       PROVE  /\ t.prev[j] \in Nodes(L) /\ j <= f[t.prev[j]].level
              /\ f[t.prev[j]].key <= f[t.last].key
              /\ \A y \in L : j <= f[y].level /\ f[y].key <= f[t.last].key
                                => f[y].key <= f[t.prev[j]].key
              /\ t.next[j] = d[t.prev[j]].nextloc[j]
  <2>1. /\ r.prev[j] \in Nodes(L) /\ j <= f[r.prev[j]].level
        /\ f[r.prev[j]].key <= f[r.last].key
        /\ \A y \in L : j <= f[y].level /\ f[y].key <= f[r.last].key
                          => f[y].key <= f[r.prev[j]].key
        /\ r.next[j] = c[r.prev[j]].nextloc[j]
    BY DEF Walked
  <2>2. t.next[j] = d[t.prev[j]].nextloc[j]
    <3>1. CASE j = i
      <4>1. t.next[j] = r.cur BY <1>4, <1>10, <3>1
      <4>2. t.prev[j] = p BY <1>10, <3>1 DEF p
      <4> QED BY <1>6, <1>9, <3>1, <4>1, <4>2 DEF new
    <3>2. CASE j # i
      <4>1. t.next[j] = r.next[j] BY <1>4, <1>10, <3>2
      <4>2. r.prev[j] \in Offset /\ j \in 0 .. MaxLevel BY <1>3, <1>12, <2>1
      <4> QED BY <1>10, <1>11, <2>1, <3>2, <4>1, <4>2
    <3> QED BY <3>1, <3>2
  <2> QED BY <1>10, <2>1, <2>2
<1>14. ASSUME NEW o \in Nodes(L), f[o].key <= f[t.last].key
       PROVE  /\ d[o].nextloc[0] < n /\ d[o].nextloc[1] < n
              /\ \A l \in 1 .. f[o].level - 1 : o # t.prev[l + 1] => Upper(f, d, L, o, l)
  <2>1. /\ c[o].nextloc[0] < n /\ c[o].nextloc[1] < n
        /\ \A l \in 1 .. f[o].level - 1 : o # r.prev[l + 1] => Upper(f, c, L, o, l)
    BY <1>10, <1>14 DEF Walked
  <2>2. 0 \in 0 .. MaxLevel /\ 1 \in 0 .. MaxLevel /\ o \in Offset BY <1>12, FileAssumption
  <2>3. d[o].nextloc[0] = c[o].nextloc[0] /\ d[o].nextloc[1] = c[o].nextloc[1]
    BY <1>3, <1>11, <2>2
  <2>4. ASSUME NEW l \in 1 .. f[o].level - 1, o # t.prev[l + 1] PROVE Upper(f, d, L, o, l)
    <3>1. Upper(f, c, L, o, l) BY <1>10, <2>1, <2>4
    <3>2. f[o].level \in 1 .. MaxLevel BY CommittedFacts
    <3>3. l + 1 \in 0 .. MaxLevel BY <1>3, <3>2
    <3>4. l + 1 # i \/ o # p BY <1>10, <2>4 DEF p
    <3>5. d[o].nextloc[l + 1] = c[o].nextloc[l + 1] BY <1>11, <2>2, <3>3, <3>4
    <3> QED BY <3>1, <3>5 DEF Upper
  <2> QED BY <2>1, <2>3, <2>4
<1>15. /\ t.last \in Nodes(L) /\ IsNext(f, L, f[t.last].key, t.cur)
       /\ t.n = Cardinality({o \in L : f[o].key <= f[t.last].key})
  BY <1>10 DEF Walked
<1>16. Walked(d, t, f, n, L) BY <1>10, <1>13, <1>14, <1>15 DEF Walked
<1>17. \A j \in {0, 1} : new.nextloc[j] = c[p].nextloc[j]
  <2> SUFFICES ASSUME NEW j \in {0, 1} PROVE new.nextloc[j] = c[p].nextloc[j] OBVIOUS
  <2>1. j \in 0 .. MaxLevel /\ j # i BY <1>3, FileAssumption
  <2> QED BY <1>6, <1>9, <2>1
<1>18. repointed(c[p], new) BY <1>9, <1>17 DEF repointed
<1> QED BY <1>1, <1>16, <1>18 DEF p, new

\* A record is passed.
LEMMA WalkRecord ==
  ASSUME NEW c, NEW f, NEW n, NEW L, Committed(c, f, n, L), NEW r, Walked(c, r, f, n, L),
         r.cur # 0, \A i \in 2 .. f[r.cur].level : r.next[i] = r.cur,
         NEW d, written(d, c, r.cur, zerolocs(c[r.cur], n)),
         NEW x \in Ptr, IsNext(f, L, f[r.cur].key, x)
  PROVE  /\ r.cur \in L
         /\ Walked(d, passedRecord(c, r, x), f, n, L)
<1> DEFINE o == r.cur
           h == c[r.cur].level
           pv == [i \in 2..MaxLevel |-> IF i \in 2 .. c[r.cur].level THEN r.cur ELSE r.prev[i]]
           nx == [i \in 2..MaxLevel |-> IF i \in 2 .. c[r.cur].level THEN c[r.cur].nextloc[i]
                                        ELSE r.next[i]]
           t == [last |-> r.cur, cur |-> x, n |-> r.n + 1, prev |-> pv, next |-> nx]
<1>1. /\ r \in Walk1 /\ r.last \in Nodes(L) /\ IsNext(f, L, f[r.last].key, r.cur)
      /\ r.n = Cardinality({z \in L : f[z].key <= f[r.last].key})
  BY DEF Walked
<1>2. /\ o \in L /\ f[o].key > f[r.last].key
      /\ \A z \in L : f[z].key > f[r.last].key => f[o].key <= f[z].key
  BY <1>1 DEF IsNext
<1>3. /\ n \in Nat /\ n >= 2 /\ L \subseteq Offset /\ Nodes(L) \subseteq Offset
      /\ \A z \in Nodes(L) : f[z].key \in Nat /\ f[z].level \in 1 .. MaxLevel /\ c[z] \in Rec
      /\ \A z \in Nodes(L) : c[z].level = f[z].level
      /\ c \in [Offset -> Rec] /\ L \subseteq Nodes(L)
      /\ \A z, y \in Nodes(L) : f[z].key = f[y].key => z = y
      /\ f[DUMMY_OFFSET].key = 0
  BY CommittedFacts DEF Committed, Nodes
<1>4. o \in Offset /\ o \in Nodes(L) /\ c[o] \in Rec /\ h = f[o].level /\ h \in 1 .. MaxLevel
  BY <1>2, <1>3
<1>5. /\ r.prev \in [2 .. MaxLevel -> Ptr] /\ r.next \in [2 .. MaxLevel -> Ptr]
      /\ r.n \in Nat /\ MaxLevel \in Nat
  BY <1>1, FileAssumption DEF Walk1
<1> HIDE DEF h, o
<1>6. /\ pv \in [2 .. MaxLevel -> Ptr]
      /\ \A i \in 2 .. MaxLevel : pv[i] = IF i <= h THEN o ELSE r.prev[i]
  <2>1. o \in Ptr BY <1>4 DEF Offset, Ptr
  <2>2. \A i \in 2 .. MaxLevel : pv[i] = IF i \in 2 .. h THEN o ELSE r.prev[i] BY DEF h, o
  <2>3. \A i \in 2 .. MaxLevel : i \in 2 .. h <=> i <= h BY <1>4, <1>5
  <2>4. \A i \in 2 .. MaxLevel : pv[i] = IF i <= h THEN o ELSE r.prev[i] BY <2>2, <2>3
  <2>5. \A i \in 2 .. MaxLevel : pv[i] \in Ptr BY <1>5, <2>1, <2>4
  <2> QED BY <2>4, <2>5
<1>7. /\ nx \in [2 .. MaxLevel -> Ptr]
      /\ \A i \in 2 .. MaxLevel : nx[i] = IF i <= h THEN c[o].nextloc[i] ELSE r.next[i]
  <2>2. \A i \in 2 .. MaxLevel : nx[i] = IF i \in 2 .. h THEN c[o].nextloc[i] ELSE r.next[i]
    BY DEF h, o
  <2>3. \A i \in 2 .. MaxLevel : i \in 2 .. h <=> i <= h BY <1>4, <1>5
  <2>4. \A i \in 2 .. MaxLevel : nx[i] = IF i <= h THEN c[o].nextloc[i] ELSE r.next[i]
    BY <2>2, <2>3
  <2>5. \A i \in 2 .. MaxLevel : nx[i] \in Ptr
    <3> SUFFICES ASSUME NEW i \in 2 .. MaxLevel PROVE nx[i] \in Ptr OBVIOUS
    <3>1. c[o].nextloc \in [0 .. MaxLevel -> Ptr] /\ i \in 0 .. MaxLevel
      BY <1>4, <1>5, RecFields
    <3> QED BY <1>5, <2>4, <3>1
  <2> QED BY <2>4, <2>5
<1> HIDE DEF pv, nx
<1>8. t \in Walk1 /\ t.last = o /\ t.cur = x /\ t.n = r.n + 1 /\ t.prev = pv /\ t.next = nx
  <2>1. o \in Ptr BY <1>4 DEF Offset, Ptr
  <2>2. t = [last |-> o, cur |-> x, n |-> r.n + 1, prev |-> pv, next |-> nx] BY DEF o
  <2> QED BY <1>5, <1>6, <1>7, <2>1, <2>2 DEF Walk1
<1> HIDE DEF t
<1>9. /\ d[o].nextloc[0] < n /\ d[o].nextloc[1] < n
      /\ \A j \in 2 .. MaxLevel : d[o].nextloc[j] = c[o].nextloc[j]
      /\ \A z \in Offset : z # o => d[z] = c[z]
  <2>1. d[o] = zerolocs(c[o], n) /\ \A z \in Offset : z # o => d[z] = c[z]
    BY <1>3, <1>4 DEF o, written
  <2> QED BY <1>3, <1>4, <2>1, ZeroFacts
<1>10. ASSUME NEW z \in Nodes(L), f[z].key <= f[o].key, z # o PROVE f[z].key <= f[r.last].key
  <2>1. f[z].key < f[o].key BY <1>3, <1>4, <1>10
  <2>2. f[r.last].key \in Nat /\ f[z].key \in Nat /\ f[o].key \in Nat BY <1>1, <1>3, <1>4
  <2>3. CASE z \in L BY <1>2, <2>1, <2>2, <2>3
  <2>4. CASE z = DUMMY_OFFSET BY <1>3, <2>2, <2>4
  <2> QED BY <2>3, <2>4 DEF Nodes
<1>11. ASSUME NEW i \in 2 .. MaxLevel
       PROVE /\ t.prev[i] \in Nodes(L) /\ i <= f[t.prev[i]].level
             /\ f[t.prev[i]].key <= f[t.last].key
             /\ \A y \in L : i <= f[y].level /\ f[y].key <= f[t.last].key
                               => f[y].key <= f[t.prev[i]].key
             /\ t.next[i] = d[t.prev[i]].nextloc[i]
  <2>1. /\ r.prev[i] \in Nodes(L) /\ i <= f[r.prev[i]].level
        /\ f[r.prev[i]].key <= f[r.last].key
        /\ \A y \in L : i <= f[y].level /\ f[y].key <= f[r.last].key
                          => f[y].key <= f[r.prev[i]].key
        /\ r.next[i] = c[r.prev[i]].nextloc[i]
    BY DEF Walked
  <2>2. CASE i <= h
    <3>1. t.prev[i] = o /\ t.next[i] = c[o].nextloc[i] BY <1>6, <1>7, <1>8, <2>2
    <3>2. f[o].key <= f[o].key BY <1>3, <1>4
    <3> QED BY <1>4, <1>8, <1>9, <2>2, <3>1, <3>2
  <2>3. CASE ~(i <= h)
    <3>1. t.prev[i] = r.prev[i] /\ t.next[i] = r.next[i] BY <1>6, <1>7, <1>8, <2>3
    <3>2. f[r.prev[i]].key \in Nat /\ f[r.last].key \in Nat /\ f[o].key \in Nat
      BY <1>1, <1>3, <1>4, <2>1
    <3>3. f[r.prev[i]].key <= f[o].key BY <1>2, <2>1, <3>2
    <3>4. r.prev[i] # o BY <1>4, <2>1, <2>3
    <3>5. d[r.prev[i]] = c[r.prev[i]] BY <1>3, <1>9, <2>1, <3>4
    <3>6. ASSUME NEW y \in L, i <= f[y].level, f[y].key <= f[o].key
          PROVE  f[y].key <= f[r.prev[i]].key
      <4>1. y # o /\ y \in Nodes(L) BY <1>3, <1>4, <2>3, <3>6
      <4>2. f[y].key <= f[r.last].key BY <1>10, <3>6, <4>1
      <4> QED BY <2>1, <3>6, <4>2
    <3> QED BY <1>8, <2>1, <3>1, <3>3, <3>5, <3>6
  <2> QED BY <2>2, <2>3
<1>12. ASSUME NEW z \in Nodes(L), f[z].key <= f[t.last].key
       PROVE  /\ d[z].nextloc[0] < n /\ d[z].nextloc[1] < n
              /\ \A l \in 1 .. f[z].level - 1 : z # t.prev[l + 1] => Upper(f, d, L, z, l)
  <2>1. CASE z = o
    <3>1. \A l \in 1 .. f[z].level - 1 : t.prev[l + 1] = o
      <4> SUFFICES ASSUME NEW l \in 1 .. f[z].level - 1 PROVE t.prev[l + 1] = o OBVIOUS
      <4>1. l + 1 \in 2 .. MaxLevel /\ l + 1 <= h BY <1>4, <1>5, <2>1
      <4> QED BY <1>6, <1>8, <4>1
    <3> QED BY <1>9, <2>1, <3>1
  <2>2. CASE z # o
    <3>1. f[z].key <= f[r.last].key BY <1>8, <1>10, <1>12, <2>2
    <3>2. /\ c[z].nextloc[0] < n /\ c[z].nextloc[1] < n
          /\ \A l \in 1 .. f[z].level - 1 : z # r.prev[l + 1] => Upper(f, c, L, z, l)
      BY <3>1 DEF Walked
    <3>3. d[z] = c[z] BY <1>3, <1>9, <2>2
    <3>4. ASSUME NEW l \in 1 .. f[z].level - 1 PROVE Upper(f, c, L, z, l) \/ z = t.prev[l + 1]
      <4>1. l + 1 \in 2 .. MaxLevel /\ (l + 1) - 1 = l
        <5>1. f[z].level \in 1 .. MaxLevel BY <1>3
        <5> QED BY <1>5, <5>1
      <4>2. CASE z # r.prev[l + 1] BY <3>2, <4>2
      <4>3. CASE z = r.prev[l + 1] /\ ~(l + 1 <= h)
        <5>1. t.prev[l + 1] = r.prev[l + 1] BY <1>6, <1>8, <4>1, <4>3
        <5> QED BY <4>3, <5>1
      <4>4. CASE z = r.prev[l + 1] /\ l + 1 <= h
        <5>1. l + 1 \in 2 .. f[r.cur].level BY <1>4, <4>1, <4>4 DEF o
        <5>2. r.next[l + 1] = o BY <5>1 DEF o
        <5>3. r.next[l + 1] = c[z].nextloc[l + 1] BY <4>1, <4>4 DEF Walked
        <5>4. l + 1 <= f[r.cur].level BY <1>4, <4>4 DEF o
        <5>5. IsNext(f, Above(f, L, (l + 1) - 1), f[r.prev[l + 1]].key, r.cur)
          BY <4>1, <5>4, WalkNext
        <5>6. IsNext(f, Above(f, L, l), f[z].key, o) BY <4>1, <4>4, <5>5 DEF o
        <5> QED BY <5>2, <5>3, <5>6 DEF Upper
      <4> QED BY <4>2, <4>3, <4>4
    <3> QED BY <3>2, <3>3, <3>4 DEF Upper
  <2> QED BY <2>1, <2>2
<1>13. t.n = Cardinality({z \in L : f[z].key <= f[t.last].key})
  <2> DEFINE A == {z \in L : f[z].key <= f[r.last].key}
             B == {z \in L : f[z].key <= f[o].key}
  <2>1. o \notin A BY <1>1, <1>2, <1>3, <1>4
  <2>2. B = A \cup {o}
    <3>1. f[r.last].key \in Nat /\ f[o].key \in Nat BY <1>1, <1>3, <1>4
    <3>2. ASSUME NEW z \in L PROVE f[z].key <= f[o].key <=> f[z].key <= f[r.last].key \/ z = o
      <4>1. f[z].key \in Nat /\ z \in Nodes(L) BY <1>3
      <4> QED BY <1>2, <1>10, <3>1, <4>1
    <3> QED BY <1>2, <3>2
  <2>3. IsFiniteSet(A)
    <3>1. IsFiniteSet(Offset) BY FS_Interval, FileAssumption DEF Offset
    <3>2. A \subseteq Offset BY <1>3
    <3> QED BY <3>1, <3>2, FS_Subset
  <2> HIDE DEF A
  <2>4. Cardinality(A \cup {o}) = Cardinality(A) + 1 BY <2>1, <2>3, FS_AddElement
  <2>5. r.n = Cardinality(A) BY <1>1 DEF A
  <2>6. t.n = Cardinality(B) BY <1>8, <2>2, <2>4, <2>5
  <2> QED BY <1>8, <2>6
<1>14. t.last \in Nodes(L) /\ IsNext(f, L, f[t.last].key, t.cur) BY <1>4, <1>8 DEF o
<1>15. Walked(d, t, f, n, L) BY <1>8, <1>11, <1>12, <1>13, <1>14 DEF Walked
<1> QED BY <1>2, <1>15 DEF t, pv, nx, o, passedRecord

\* Faces that agree on the nodes have the same next records.
LEMMA NextSame ==
  ASSUME NEW f, NEW g, NEW L, \A o \in Nodes(L) : f[o] = g[o]
  PROVE  /\ \A l : Above(f, L, l) = Above(g, L, l)
         /\ \A S \in SUBSET L : \A k, x : IsNext(f, S, k, x) => IsNext(g, S, k, x)
         /\ \A c, l : \A o \in Nodes(L) : Upper(f, c, L, o, l) => Upper(g, c, L, o, l)
<1>1. \A o \in L : f[o] = g[o] BY DEF Nodes
<1>2. \A l : Above(f, L, l) = Above(g, L, l) BY <1>1 DEF Above
<1>3. \A S \in SUBSET L : \A k, x : IsNext(f, S, k, x) => IsNext(g, S, k, x)
  <2> SUFFICES ASSUME NEW S \in SUBSET L, NEW k, NEW x, IsNext(f, S, k, x)
               PROVE  IsNext(g, S, k, x)
    OBVIOUS
  <2>1. \A y \in S : f[y] = g[y] BY <1>1
  <2> QED BY <2>1 DEF IsNext
<1>4. \A c, l : \A o \in Nodes(L) : Upper(f, c, L, o, l) => Upper(g, c, L, o, l)
  <2> SUFFICES ASSUME NEW c, NEW l, NEW o \in Nodes(L), Upper(f, c, L, o, l)
               PROVE  Upper(g, c, L, o, l)
    OBVIOUS
  <2>1. Above(f, L, l) \in SUBSET L BY DEF Above
  <2>2. IsNext(f, Above(f, L, l), f[o].key, c[o].nextloc[l + 1]) BY DEF Upper
  <2>3. IsNext(g, Above(f, L, l), f[o].key, c[o].nextloc[l + 1]) BY <1>3, <2>1, <2>2
  <2>4. IsNext(g, Above(g, L, l), g[o].key, c[o].nextloc[l + 1]) BY <1>2, <2>3
  <2> QED BY <2>4 DEF Upper
<1> QED BY <1>2, <1>3, <1>4

\* Nothing is left to repair: the truncated file is whole.
LEMMA WalkEnd ==
  ASSUME NEW c, NEW f, NEW n, NEW L, Committed(c, f, n, L), NEW r, Walked(c, r, f, n, L),
         r.cur = 0, \A i \in 2 .. MaxLevel : r.next[i] = 0,
         NEW e \in [Offset -> Rec], \A o \in 1 .. n - 1 : e[o] = c[o], NEW s \in Nat, s = n - 1
  PROVE  Full(e, s, L) /\ r.n = Cardinality(L)
<1> DEFINE g == Faces(e, n)
<1>0. s + 1 = n /\ n \in Nat /\ n >= 2 BY CommittedFacts
<1>1. /\ f \in [Offset -> FaceRec] /\ n \in 2 .. MaxOffset + 1 /\ List(f, n, L)
      /\ L \subseteq Offset
      /\ Nodes(L) \subseteq Offset /\ L \subseteq Nodes(L)
      /\ \A o \in Nodes(L) : o \in 1 .. n - 1 /\ f[o].key \in Nat /\ f[o].level \in 1 .. MaxLevel
      /\ \A o \in Nodes(L) : c[o] \in Rec
      /\ f[DUMMY_OFFSET].key = 0
  BY CommittedFacts DEF Committed, Nodes
<1>2. \A o \in 1 .. n - 1 : g[o] = f[o]
  <2> SUFFICES ASSUME NEW o \in 1 .. n - 1 PROVE g[o] = f[o] OBVIOUS
  <2>1. o \in Offset /\ Face(c[o], n) = f[o] BY CommittedFacts DEF Committed
  <2>2. g[o] = Face(e[o], n) BY <2>1, FacesAt
  <2> QED BY <2>1, <2>2
<1>3. g \in [Offset -> FaceRec] BY FacesType
<1> HIDE DEF g
<1>4. List(g, n, L) BY <1>1, <1>2, <1>3, Local
<1>5. r.last \in Nodes(L) /\ IsNext(f, L, f[r.last].key, 0) BY DEF Walked
<1>6. \A o \in Nodes(L) : f[o].key <= f[r.last].key
  <2> SUFFICES ASSUME NEW o \in Nodes(L) PROVE f[o].key <= f[r.last].key OBVIOUS
  <2>1. CASE o \in L BY <1>5, <2>1 DEF IsNext
  <2>2. CASE o = DUMMY_OFFSET BY <1>1, <1>5, <2>2
  <2> QED BY <2>1, <2>2 DEF Nodes
<1>7. r.n = Cardinality(L)
  <2>1. {o \in L : f[o].key <= f[r.last].key} = L BY <1>1, <1>6
  <2>2. r.n = Cardinality({o \in L : f[o].key <= f[r.last].key}) BY DEF Walked
  <2> QED BY <2>1, <2>2
<1>8. \A o \in Nodes(L) : f[o] = g[o] BY <1>1, <1>2
<1>9. ASSUME NEW o \in Nodes(L)
      PROVE  /\ e[o].nextloc[0] <= s /\ e[o].nextloc[1] <= s
             /\ \A l \in 1 .. g[o].level - 1 : Upper(g, e, L, o, l)
  <2>1. /\ c[o].nextloc[0] < n /\ c[o].nextloc[1] < n
        /\ \A l \in 1 .. f[o].level - 1 : o # r.prev[l + 1] => Upper(f, c, L, o, l)
    BY <1>6 DEF Walked
  <2>2. e[o] = c[o] BY <1>1
  <2>3. c[o].nextloc[0] \in Nat /\ c[o].nextloc[1] \in Nat BY <1>1, RecFields, FileAssumption
  <2>4. ASSUME NEW l \in 1 .. f[o].level - 1 PROVE Upper(f, e, L, o, l)
    <3>1. CASE o # r.prev[l + 1] BY <2>1, <2>2, <3>1 DEF Upper
    <3>2. CASE o = r.prev[l + 1]
      <4>1. l + 1 \in 2 .. MaxLevel /\ (l + 1) - 1 = l
        <5>1. f[o].level \in 1 .. MaxLevel BY <1>1
        <5> QED BY <5>1, FileAssumption
      <4>2. IsNext(f, Above(f, L, (l + 1) - 1), f[r.prev[l + 1]].key, r.cur)
        BY <4>1, WalkNext
      <4>3. r.next[l + 1] = c[o].nextloc[l + 1] BY <3>2, <4>1 DEF Walked
      <4>4. c[o].nextloc[l + 1] = 0 BY <4>1, <4>3
      <4>5. IsNext(f, Above(f, L, l), f[o].key, 0) BY <3>2, <4>1, <4>2
      <4> QED BY <2>2, <4>4, <4>5 DEF Upper
    <3> QED BY <3>1, <3>2
  <2>5. ASSUME NEW l \in 1 .. g[o].level - 1 PROVE Upper(g, e, L, o, l)
    <3>1. Upper(f, e, L, o, l) BY <1>8, <2>4
    <3> QED BY <1>8, <3>1, NextSame
  <2>6. e[o].nextloc[0] <= s /\ e[o].nextloc[1] <= s BY <1>0, <2>1, <2>2, <2>3
  <2> QED BY <2>5, <2>6
<1>10. Full(e, s, L)
  <2>1. g = Faces(e, s + 1) /\ List(g, s + 1, L) BY <1>0, <1>4 DEF g
  <2> QED BY <1>9, <2>1 DEF Full
<1> QED BY <1>7, <1>10

\* In a file that is whole recovery1 has nothing to repair.
LEMMA WalkSilent ==
  ASSUME NEW c, NEW f, NEW n, NEW L, Committed(c, f, n, L), NEW s \in Nat, s = n - 1,
         Full(c, s, L)
  PROVE  /\ \A o \in Nodes(L) : zerolocs(c[o], n) = c[o]
         /\ \A r : Walked(c, r, f, n, L) =>
              /\ r.cur # 0 => \A i \in 2 .. f[r.cur].level : r.next[i] = r.cur
              /\ r.cur = 0 => \A i \in 2 .. MaxLevel : r.next[i] = 0
<1> DEFINE g == Faces(c, n)
<1>0. s + 1 = n /\ n \in Nat /\ n >= 2 BY CommittedFacts
<1>1. /\ f \in [Offset -> FaceRec] /\ n \in 2 .. MaxOffset + 1 /\ Records(f, n, L)
      /\ L \subseteq Offset /\ c \in [Offset -> Rec]
      /\ Nodes(L) \subseteq Offset /\ L \subseteq Nodes(L)
      /\ \A o \in Nodes(L) : o \in 1 .. n - 1 /\ f[o].key \in Nat /\ f[o].level \in 1 .. MaxLevel
      /\ \A o \in Nodes(L) : c[o] \in Rec
  BY CommittedFacts DEF Committed, Nodes, List
<1>2. \A o \in 1 .. n - 1 : g[o] = f[o]
  <2> SUFFICES ASSUME NEW o \in 1 .. n - 1 PROVE g[o] = f[o] OBVIOUS
  <2>1. o \in Offset /\ Face(c[o], n) = f[o] BY CommittedFacts DEF Committed
  <2>2. g[o] = Face(c[o], n) BY <1>1, <2>1, FacesAt
  <2> QED BY <2>1, <2>2
<1>3. g = Faces(c, s + 1) BY <1>0
<1> HIDE DEF g
<1>4. \A o \in Nodes(L) : g[o] = f[o] BY <1>1, <1>2
<1>5. ASSUME NEW o \in Nodes(L)
      PROVE  /\ c[o].nextloc[0] <= s /\ c[o].nextloc[1] <= s
             /\ \A l \in 1 .. f[o].level - 1 : Upper(f, c, L, o, l)
  <2>1. /\ c[o].nextloc[0] <= s /\ c[o].nextloc[1] <= s
        /\ \A l \in 1 .. g[o].level - 1 : Upper(g, c, L, o, l)
    BY <1>3 DEF Full
  <2>2. ASSUME NEW l \in 1 .. f[o].level - 1 PROVE Upper(f, c, L, o, l)
    <3>1. Upper(g, c, L, o, l) BY <1>4, <2>1
    <3> QED BY <1>4, <3>1, NextSame
  <2> QED BY <2>1, <2>2
<1>6. ASSUME NEW o \in Nodes(L) PROVE zerolocs(c[o], n) = c[o]
  <2>1. c[o] \in Rec BY <1>1
  <2>2. c[o].nextloc[0] \in Nat /\ c[o].nextloc[1] \in Nat BY <2>1, RecFields, FileAssumption
  <2>3. c[o].nextloc[0] < n /\ c[o].nextloc[1] < n BY <1>0, <1>5, <2>2
  <2> QED BY <1>0, <2>1, <2>3, ZeroFacts
<1>7. ASSUME NEW r, Walked(c, r, f, n, L), NEW i \in 2 .. MaxLevel,
             r.cur # 0 => i <= f[r.cur].level
      PROVE  r.next[i] = r.cur
  <2>1. IsNext(f, Above(f, L, i - 1), f[r.prev[i]].key, r.cur) BY <1>7, WalkNext
  <2> DEFINE p == r.prev[i]
  <2>2. p \in Nodes(L) /\ i <= f[p].level /\ r.next[i] = c[p].nextloc[i] BY <1>7 DEF Walked
  <2>3. i - 1 \in 1 .. f[p].level - 1 /\ (i - 1) + 1 = i
    <3>1. f[p].level \in 1 .. MaxLevel BY <1>1, <2>2
    <3> QED BY <2>2, <3>1, FileAssumption
  <2>4. Upper(f, c, L, p, i - 1) BY <1>5, <2>2, <2>3
  <2>5. IsNext(f, Above(f, L, i - 1), f[p].key, r.next[i]) BY <2>2, <2>3, <2>4 DEF Upper
  <2>6. Above(f, L, i - 1) \subseteq L /\ f[p].key \in Nat BY <1>1, <2>2 DEF Above
  <2> HIDE DEF p
  <2>7. IsNext(f, Above(f, L, i - 1), f[p].key, r.cur) BY <2>1 DEF p
  <2> QED BY <1>1, <2>5, <2>6, <2>7, NextUnique
<1>8. ASSUME NEW r, Walked(c, r, f, n, L), r.cur # 0, NEW i \in 2 .. f[r.cur].level
      PROVE  r.next[i] = r.cur
  <2>1. r.cur \in L BY <1>8 DEF Walked, IsNext
  <2>2. f[r.cur].level \in 1 .. MaxLevel BY <1>1, <2>1
  <2>3. i \in 2 .. MaxLevel /\ i <= f[r.cur].level BY <2>2, FileAssumption
  <2> QED BY <1>7, <1>8, <2>3
<1>9. ASSUME NEW r, Walked(c, r, f, n, L), r.cur = 0, NEW i \in 2 .. MaxLevel
      PROVE  r.next[i] = 0
  BY <1>7, <1>9
<1> QED BY <1>6, <1>8, <1>9

-----------------------------------------------------------------------------
(* The file that mycheckpoint writes.                                       *)

\* The keys ks with the values m are written in order, with the levels lv.
Copies(ks, n, m, lv) ==
  /\ n \in Nat /\ ks \in [1 .. n -> Key] /\ lv \in [1 .. n -> 1 .. MaxLevel]
  /\ \A i \in 1 .. n : m[ks[i]] \in Val
  /\ \A i, j \in 1 .. n : i < j => ks[i] < ks[j]
  /\ n > 0 => n + 2 <= MaxOffset

copySize(n) == IF n = 0 THEN 1 ELSE n + 2

later(lv, n, i, j) == {x \in i + 1 .. n : lv[x] >= j}
link(lv, n, i, j) ==
  IF j = 0 \/ later(lv, n, i, j) = {} THEN 0 ELSE Min(later(lv, n, i, j)) + 1
links(lv, n, i, h) == [j \in 0 .. MaxLevel |-> IF j <= h THEN link(lv, n, i, j) ELSE 0]

\* A function on 1 .. n is a sequence of length n.
LEMMA SeqLen ==
  ASSUME NEW n \in Nat, NEW S, NEW ks \in [1 .. n -> S]
  PROVE  ks \in Seq(S) /\ Len(ks) = n /\ (ks = <<>> <=> n = 0)
<1>1. ks \in Seq(S) BY SeqDef
<1>2. Len(ks) \in Nat /\ DOMAIN ks = 1 .. Len(ks) BY <1>1, LenProperties
<1>3. DOMAIN ks = 1 .. n OBVIOUS
<1>4. Len(ks) = n
  <2>1. 1 .. Len(ks) = 1 .. n BY <1>2, <1>3
  <2>2. IsFiniteSet(1 .. n) /\ Cardinality(1 .. n) = n BY FS_Interval
  <2> DEFINE k == Len(ks)
  <2>3. k \in Nat /\ 1 .. k = 1 .. n BY <1>2, <2>1
  <2> HIDE DEF k
  <2>4. Cardinality(1 .. k) = k BY <2>3, FS_Interval
  <2> QED BY <2>2, <2>3, <2>4 DEF k
<1> QED BY <1>1, <1>4, EmptySeq

\* A link of the copy leads to the next record that has the level.
LEMMA LinkFacts ==
  ASSUME NEW ks, NEW n, NEW m, NEW lv, Copies(ks, n, m, lv), NEW i \in 0 .. n,
         NEW j \in 1 .. MaxLevel
  PROVE  LET x == link(lv, n, i, j)
         IN /\ x \in 0 .. n + 1
            /\ x = 0 => \A y \in i + 1 .. n : lv[y] < j
            /\ x # 0 => /\ x - 1 \in i + 1 .. n /\ lv[x - 1] >= j
                        /\ \A y \in i + 1 .. n : lv[y] >= j => x - 1 <= y
<1>1. n \in Nat /\ lv \in [1 .. n -> 1 .. MaxLevel] /\ MaxLevel \in Nat
  BY FileAssumption DEF Copies
<1> DEFINE A == later(lv, n, i, j)
<1>2. \A y \in i + 1 .. n : y \in 1 .. n /\ lv[y] \in Nat
  <2> SUFFICES ASSUME NEW y \in i + 1 .. n PROVE y \in 1 .. n /\ lv[y] \in Nat OBVIOUS
  <2>1. y \in 1 .. n BY <1>1
  <2> QED BY <1>1, <2>1
<1>3. CASE A = {}
  <2>1. link(lv, n, i, j) = 0 BY <1>3 DEF link
  <2>2. \A y \in i + 1 .. n : lv[y] < j
    <3> SUFFICES ASSUME NEW y \in i + 1 .. n PROVE lv[y] < j OBVIOUS
    <3>1. ~(lv[y] >= j) BY <1>3 DEF later
    <3> QED BY <1>1, <1>2, <3>1
  <2> QED BY <1>1, <2>1, <2>2
<1>4. CASE A # {}
  <2>1. A \subseteq Nat BY <1>1, <1>2 DEF later
  <2>2. Min(A) \in A /\ \A y \in A : Min(A) <= y BY <1>4, <2>1, Least
  <2> DEFINE x == Min(A)
  <2>3. link(lv, n, i, j) = x + 1 BY <1>4 DEF link
  <2> HIDE DEF x
  <2>4. x \in i + 1 .. n /\ lv[x] >= j BY <2>2 DEF x, later
  <2>5. x \in Nat /\ (x + 1) - 1 = x /\ x + 1 # 0 /\ x + 1 \in 0 .. n + 1 BY <1>1, <2>4
  <2>6. \A y \in i + 1 .. n : lv[y] >= j => x <= y BY <2>2 DEF x, later
  <2> QED BY <2>3, <2>4, <2>5, <2>6
<1> QED BY <1>3, <1>4

\* The links of a record are offsets in the copy.
LEMMA LinksType ==
  ASSUME NEW ks, NEW n, NEW m, NEW lv, Copies(ks, n, m, lv), NEW i \in 0 .. n,
         NEW h \in 1 .. MaxLevel
  PROVE  LET p == links(lv, n, i, h)
         IN /\ p \in [0 .. MaxLevel -> Ptr] /\ p[0] = 0 /\ p[1] = link(lv, n, i, 1)
            /\ p[1] <= copySize(n) /\ p[1] \in Nat
            /\ \A l \in 0 .. h - 1 : p[l + 1] = link(lv, n, i, l + 1)
<1>1. /\ n \in Nat /\ MaxLevel \in Nat /\ MaxOffset \in Nat /\ MaxLevel >= 1
      /\ n > 0 => n + 2 <= MaxOffset
  BY FileAssumption DEF Copies
<1> DEFINE p == links(lv, n, i, h)
<1>2. ASSUME NEW j \in 0 .. MaxLevel PROVE link(lv, n, i, j) \in 0 .. n + 1 /\ (n = 0 => link(lv, n, i, j) = 0)
  <2>1. CASE j = 0 BY <1>1, <2>1 DEF link
  <2>2. CASE j # 0
    <3>1. j \in 1 .. MaxLevel BY <2>2
    <3> DEFINE x == link(lv, n, i, j)
    <3>2. x \in 0 .. n + 1 /\ (x # 0 => x - 1 \in i + 1 .. n) BY <3>1, LinkFacts
    <3> HIDE DEF x
    <3>3. n = 0 => x = 0 BY <1>1, <3>2
    <3> QED BY <3>2, <3>3 DEF x
  <2> QED BY <2>1, <2>2
<1>3. \A j \in 0 .. MaxLevel : link(lv, n, i, j) \in Ptr
  <2> SUFFICES ASSUME NEW j \in 0 .. MaxLevel PROVE link(lv, n, i, j) \in Ptr OBVIOUS
  <2> DEFINE x == link(lv, n, i, j)
  <2>1. x \in 0 .. n + 1 /\ (n = 0 => x = 0) BY <1>2
  <2> HIDE DEF x
  <2>2. x \in Ptr BY <1>1, <2>1 DEF Ptr
  <2> QED BY <2>2 DEF x
<1>4. \A j \in 0 .. MaxLevel : p[j] = IF j <= h THEN link(lv, n, i, j) ELSE 0 BY DEF links
<1>5. p \in [0 .. MaxLevel -> Ptr]
  <2>1. 0 \in Ptr BY <1>1 DEF Ptr
  <2> QED BY <1>3, <2>1 DEF links
<1> HIDE DEF p
<1>6. p[0] = 0 BY <1>1, <1>4 DEF link
<1>7. p[1] = link(lv, n, i, 1) BY <1>1, <1>4
<1>8. p[1] <= copySize(n) /\ p[1] \in Nat
  <2>1. p[1] \in 0 .. n + 1 /\ (n = 0 => p[1] = 0) BY <1>1, <1>2, <1>7
  <2> QED BY <1>1, <2>1 DEF copySize
<1>9. \A l \in 0 .. h - 1 : p[l + 1] = link(lv, n, i, l + 1)
  <2> SUFFICES ASSUME NEW l \in 0 .. h - 1 PROVE p[l + 1] = link(lv, n, i, l + 1) OBVIOUS
  <2>1. l + 1 \in 0 .. MaxLevel /\ l + 1 <= h BY <1>1
  <2> QED BY <1>4, <2>1
<1> QED BY <1>5, <1>6, <1>7, <1>8, <1>9 DEF p

\* The record at each offset of the copy.
LEMMA CompactedAt ==
  ASSUME NEW ks, NEW n, NEW m, NEW lv, Copies(ks, n, m, lv)
  PROVE  LET c == Compacted(ks, m, lv)
         IN /\ c[1] = [dummy EXCEPT !.nextloc = links(lv, n, 0, MaxLevel)]
            /\ \A i \in 1 .. n :
                 c[i + 1] = [type |-> "RECORD", level |-> lv[i], key |-> ks[i],
                             val |-> m[ks[i]], nextloc |-> links(lv, n, i, lv[i])]
            /\ n > 0 => c[n + 2] = commitRecord(2)
            /\ \A o \in Offset : o > copySize(n) => c[o] = Absent
            /\ DOMAIN c = Offset /\ c = [o \in Offset |-> c[o]]
            /\ \A o \in Offset : o = 1 \/ o - 1 \in 1 .. n \/ (n > 0 /\ o = n + 2) \/ o > copySize(n)
<1>1. /\ n \in Nat /\ MaxOffset \in Nat /\ MaxOffset >= 1 /\ (n > 0 => n + 2 <= MaxOffset)
      /\ ks \in [1 .. n -> Key]
  BY FileAssumption DEF Copies
<1>2. Len(ks) = n /\ (ks = <<>> <=> n = 0) BY <1>1, SeqLen
<1> DEFINE c == Compacted(ks, m, lv)
<1>3. c = [o \in Offset |->
        IF o = DUMMY_OFFSET THEN [dummy EXCEPT !.nextloc = links(lv, Len(ks), 0, MaxLevel)]
        ELSE IF o <= Len(ks) + 1
        THEN [type |-> "RECORD", level |-> lv[o - 1], key |-> ks[o - 1],
              val |-> m[ks[o - 1]], nextloc |-> links(lv, Len(ks), o - 1, lv[o - 1])]
        ELSE IF o = Len(ks) + 2 /\ ks # <<>> THEN commitRecord(2)
        ELSE Absent]
  BY DEF Compacted, links, link, later
<1> HIDE DEF c
<1>4. \A o \in Offset : o \in Nat /\ o >= 1 /\ o <= MaxOffset BY <1>1 DEF Offset
<1>5. ASSUME NEW o \in Offset
      PROVE c[o] = IF o = DUMMY_OFFSET THEN [dummy EXCEPT !.nextloc = links(lv, n, 0, MaxLevel)]
        ELSE IF o <= n + 1
        THEN [type |-> "RECORD", level |-> lv[o - 1], key |-> ks[o - 1],
              val |-> m[ks[o - 1]], nextloc |-> links(lv, n, o - 1, lv[o - 1])]
        ELSE IF o = n + 2 /\ ks # <<>> THEN commitRecord(2)
        ELSE Absent
  BY <1>2, <1>3
<1>6. c[1] = [dummy EXCEPT !.nextloc = links(lv, n, 0, MaxLevel)]
  <2>1. 1 \in Offset BY <1>1 DEF Offset
  <2> QED BY <1>5, <2>1, Zenon DEF DUMMY_OFFSET
<1>7. ASSUME NEW i \in 1 .. n
      PROVE  c[i + 1] = [type |-> "RECORD", level |-> lv[i], key |-> ks[i],
                         val |-> m[ks[i]], nextloc |-> links(lv, n, i, lv[i])]
  <2> DEFINE o == i + 1
  <2>1. o \in Offset /\ o # 1 /\ o <= n + 1 /\ o - 1 = i BY <1>1 DEF Offset
  <2> HIDE DEF o
  <2>2. c[o] = [type |-> "RECORD", level |-> lv[o - 1], key |-> ks[o - 1],
                val |-> m[ks[o - 1]], nextloc |-> links(lv, n, o - 1, lv[o - 1])]
    BY <1>5, <2>1, Zenon DEF DUMMY_OFFSET
  <2> QED BY <2>1, <2>2 DEF o
<1>8. n > 0 => c[n + 2] = commitRecord(2)
  <2> SUFFICES ASSUME n > 0 PROVE c[n + 2] = commitRecord(2) OBVIOUS
  <2> DEFINE o == n + 2
  <2>1. o \in Offset /\ o # 1 /\ ~(o <= n + 1) /\ o = n + 2 /\ ks # <<>> BY <1>1, <1>2 DEF Offset
  <2> HIDE DEF o
  <2> QED BY <1>5, <2>1, Zenon DEF DUMMY_OFFSET
<1>9. ASSUME NEW o \in Offset, o > copySize(n) PROVE c[o] = Absent
  <2>1. o # 1 /\ ~(o <= n + 1) /\ ~(o = n + 2 /\ ks # <<>>) BY <1>1, <1>2, <1>4, <1>9 DEF copySize
  <2> QED BY <1>5, <2>1, Zenon DEF DUMMY_OFFSET
<1>10. DOMAIN c = Offset /\ c = [o \in Offset |-> c[o]]
  <2>1. DOMAIN c = Offset BY <1>3
  <2>2. c = [o \in DOMAIN c |-> c[o]] BY <1>3
  <2> QED BY <2>1, <2>2
<1>11. \A o \in Offset : o = 1 \/ o - 1 \in 1 .. n \/ (n > 0 /\ o = n + 2) \/ o > copySize(n)
  BY <1>1, <1>4 DEF copySize
<1> QED BY <1>6, <1>7, <1>8, <1>9, <1>10, <1>11 DEF c

copyKey(ks, i) == IF i = 0 THEN 0 ELSE ks[i]
copyLevel(lv, i) == IF i = 0 THEN MaxLevel ELSE lv[i]

\* The copy is made of records and points nowhere past its end.
LEMMA CompactedFields ==
  ASSUME NEW ks, NEW n, NEW m, NEW lv, Copies(ks, n, m, lv), NEW c, c = Compacted(ks, m, lv)
  PROVE  /\ c \in [Offset -> Rec]
         /\ \A i \in 0 .. n :
              /\ i + 1 \in Offset
              /\ c[i + 1].type = IF i = 0 THEN "DUMMY" ELSE "RECORD"
              /\ c[i + 1].key = copyKey(ks, i) /\ c[i + 1].level = copyLevel(lv, i)
              /\ i # 0 => c[i + 1].val = m[ks[i]]
              /\ c[i + 1].nextloc = links(lv, n, i, copyLevel(lv, i))
              /\ copyLevel(lv, i) \in 1 .. MaxLevel
         /\ \A o \in Offset : c[o].type # "DELETE"
         /\ \A o \in Offset : c[o].nextloc[0] <= copySize(n) /\ c[o].nextloc[1] <= copySize(n)
         /\ \A o \in Offset : o > copySize(n) => c[o] = Absent
<1>1. /\ n \in Nat /\ MaxOffset \in Nat /\ MaxOffset >= 1 /\ (n > 0 => n + 2 <= MaxOffset)
      /\ MaxLevel \in Nat /\ MaxLevel >= 1
      /\ ks \in [1 .. n -> Key] /\ lv \in [1 .. n -> 1 .. MaxLevel]
      /\ \A i \in 1 .. n : m[ks[i]] \in Val
  BY FileAssumption DEF Copies
<1>2. /\ c[1] = [dummy EXCEPT !.nextloc = links(lv, n, 0, MaxLevel)]
      /\ \A i \in 1 .. n :
           c[i + 1] = [type |-> "RECORD", level |-> lv[i], key |-> ks[i],
                       val |-> m[ks[i]], nextloc |-> links(lv, n, i, lv[i])]
      /\ n > 0 => c[n + 2] = commitRecord(2)
      /\ \A o \in Offset : o > copySize(n) => c[o] = Absent
      /\ DOMAIN c = Offset /\ c = [o \in Offset |-> c[o]]
      /\ \A o \in Offset : o = 1 \/ o - 1 \in 1 .. n \/ (n > 0 /\ o = n + 2) \/ o > copySize(n)
  BY CompactedAt
<1>3. \A i \in 0 .. n : copyLevel(lv, i) \in 1 .. MaxLevel BY <1>1 DEF copyLevel
<1>4. ASSUME NEW i \in 0 .. n
      PROVE  /\ c[i + 1].type = IF i = 0 THEN "DUMMY" ELSE "RECORD"
             /\ c[i + 1].key = copyKey(ks, i) /\ c[i + 1].level = copyLevel(lv, i)
             /\ i # 0 => c[i + 1].val = m[ks[i]]
             /\ c[i + 1].nextloc = links(lv, n, i, copyLevel(lv, i))
             /\ c[i + 1] \in Rec
  <2> DEFINE p == links(lv, n, i, copyLevel(lv, i))
  <2>1. p \in [0 .. MaxLevel -> Ptr] BY <1>3, LinksType
  <2>2. CASE i = 0
    <3>1. c[i + 1] = [dummy EXCEPT !.nextloc = p] BY <1>2, <2>2 DEF copyLevel
    <3> HIDE DEF p
    <3>2. dummy \in Rec /\ dummy.type = "DUMMY" /\ dummy.level = MaxLevel /\ dummy.key = 0
      <4>1. Absent \in Rec /\ Absent.key = 0 BY AbsentType DEF Absent
      <4>2. dummy = [Absent EXCEPT !.type = "DUMMY", !.level = MaxLevel] BY DEF dummy
      <4>3. MaxLevel \in 0 .. MaxLevel BY <1>1
      <4> HIDE DEF Absent
      <4> QED BY <4>1, <4>2, <4>3 DEF Rec
    <3> HIDE DEF dummy
    <3>3. /\ c[i + 1].type = "DUMMY" /\ c[i + 1].key = 0 /\ c[i + 1].level = MaxLevel
          /\ c[i + 1].nextloc = p /\ c[i + 1] \in Rec
      BY <2>1, <3>1, <3>2 DEF Rec
    <3> QED BY <2>2, <3>3 DEF copyKey, copyLevel, p
  <2>3. CASE i # 0
    <3>1. i \in 1 .. n BY <1>1, <2>3
    <3>2. c[i + 1] = [type |-> "RECORD", level |-> lv[i], key |-> ks[i],
                      val |-> m[ks[i]], nextloc |-> p]
      BY <1>2, <2>3, <3>1 DEF copyLevel
    <3> HIDE DEF p
    <3>3. lv[i] \in 0 .. MaxLevel /\ ks[i] \in Key /\ m[ks[i]] \in Val BY <1>1, <3>1
    <3>4. c[i + 1] \in Rec BY <2>1, <3>2, <3>3 DEF Rec
    <3>5. /\ c[i + 1].type = "RECORD" /\ c[i + 1].level = lv[i] /\ c[i + 1].key = ks[i]
          /\ c[i + 1].val = m[ks[i]] /\ c[i + 1].nextloc = p
      BY <3>2
    <3> QED BY <2>3, <3>4, <3>5 DEF copyKey, copyLevel, p
  <2> QED BY <2>2, <2>3
<1>5. \A i \in 0 .. n : i + 1 \in Offset BY <1>1 DEF Offset
<1>6. n > 0 => /\ c[n + 2] \in Rec /\ c[n + 2].type = "COMMIT"
               /\ c[n + 2].nextloc[1] = 0 /\ c[n + 2].nextloc[0] = 2
  <2> SUFFICES ASSUME n > 0
               PROVE  /\ c[n + 2] \in Rec /\ c[n + 2].type = "COMMIT"
                      /\ c[n + 2].nextloc[1] = 0 /\ c[n + 2].nextloc[0] = 2
    OBVIOUS
  <2>1. 2 \in Ptr /\ c[n + 2] = commitRecord(2) BY <1>1, <1>2 DEF Ptr
  <2>2. commitRecord(2) \in Rec /\ commitRecord(2).nextloc[1] = 0 BY <2>1, CommitRecordType
  <2>3. commitRecord(2).type = "COMMIT" BY DEF commitRecord, Absent
  <2>4. commitRecord(2).nextloc = [NoPtrs EXCEPT ![0] = 2] BY DEF commitRecord, Absent
  <2>5. [NoPtrs EXCEPT ![0] = 2][0] = 2 BY <1>1 DEF NoPtrs
  <2> QED BY <2>1, <2>2, <2>3, <2>4, <2>5
<1>7. Absent \in Rec /\ Absent.nextloc[0] = 0 /\ Absent.nextloc[1] = 0 /\ Absent.type = "ABSENT"
  BY <1>1, AbsentType DEF Absent, NoPtrs
<1>8. copySize(n) \in Nat /\ copySize(n) >= 1 BY <1>1 DEF copySize
<1>9. ASSUME NEW o \in Offset
      PROVE  /\ c[o] \in Rec /\ c[o].type # "DELETE"
             /\ c[o].nextloc[0] <= copySize(n) /\ c[o].nextloc[1] <= copySize(n)
  <2>1. CASE o - 1 \in 0 .. n
    <3> DEFINE i == o - 1
    <3>1. i \in 0 .. n /\ i + 1 = o BY <2>1 DEF Offset
    <3> HIDE DEF i
    <3>2. c[o] \in Rec /\ c[o].type # "DELETE" BY <1>4, <3>1
    <3>3. c[o].nextloc = links(lv, n, i, copyLevel(lv, i)) BY <1>4, <3>1
    <3>4. c[o].nextloc[0] = 0 /\ c[o].nextloc[1] <= copySize(n) BY <1>3, <3>1, <3>3, LinksType
    <3> QED BY <1>8, <3>2, <3>4
  <2>2. CASE n > 0 /\ o = n + 2
    <3>1. copySize(n) >= 2 BY <1>1, <2>2 DEF copySize
    <3>2. /\ c[o] \in Rec /\ c[o].type = "COMMIT" /\ c[o].nextloc[1] = 0 /\ c[o].nextloc[0] = 2
      BY <1>6, <2>2
    <3> QED BY <1>8, <3>1, <3>2
  <2>3. CASE o > copySize(n) BY <1>2, <1>7, <1>8, <2>3
  <2>4. o = 1 \/ o - 1 \in 1 .. n => o - 1 \in 0 .. n BY <1>1
  <2> QED BY <1>2, <2>1, <2>2, <2>3, <2>4
<1>10. c \in [Offset -> Rec]
  <2>1. \A o \in Offset : c[o] \in Rec BY <1>9
  <2>2. c = [o \in Offset |-> c[o]] BY <1>2, Zenon
  <2> QED BY <2>1, <2>2
<1> QED BY <1>2, <1>3, <1>4, <1>5, <1>9, <1>10

\* The copy is whole, and has the contents that were to be copied.
LEMMA CompactedFull ==
  ASSUME NEW ks, NEW n, NEW m, NEW lv, Copies(ks, n, m, lv), NEW c, c = Compacted(ks, m, lv),
         NEW s, s = copySize(n)
  PROVE  LET L == 2 .. n + 1
         IN /\ s \in Offset /\ PointBack(c) /\ Full(c, s, L) /\ s \notin L
            /\ L \in SUBSET Offset /\ Cardinality(L) = n
            /\ ContentOf(Faces(c, s + 1), L) = [k \in {ks[i] : i \in 1 .. n} |-> m[k]]
<1> DEFINE L == 2 .. n + 1
           f == Faces(c, s + 1)
<1>1. /\ n \in Nat /\ MaxOffset \in Nat /\ MaxOffset >= 1 /\ (n > 0 => n + 2 <= MaxOffset)
      /\ MaxLevel \in Nat /\ MaxLevel >= 1
      /\ ks \in [1 .. n -> Key] /\ lv \in [1 .. n -> 1 .. MaxLevel]
      /\ \A i \in 1 .. n : m[ks[i]] \in Val
      /\ \A i, j \in 1 .. n : i < j => ks[i] < ks[j]
  BY FileAssumption DEF Copies
<1>2. /\ c \in [Offset -> Rec]
      /\ \A i \in 0 .. n :
           /\ i + 1 \in Offset
           /\ c[i + 1].type = IF i = 0 THEN "DUMMY" ELSE "RECORD"
           /\ c[i + 1].key = copyKey(ks, i) /\ c[i + 1].level = copyLevel(lv, i)
           /\ i # 0 => c[i + 1].val = m[ks[i]]
           /\ c[i + 1].nextloc = links(lv, n, i, copyLevel(lv, i))
           /\ copyLevel(lv, i) \in 1 .. MaxLevel
      /\ \A o \in Offset : c[o].type # "DELETE"
      /\ \A o \in Offset : c[o].nextloc[0] <= s /\ c[o].nextloc[1] <= s
  BY CompactedFields
<1>3. s \in Offset /\ s \notin L /\ s \in Nat BY <1>1 DEF copySize, Offset
<1>4. PointBack(c) BY <1>2 DEF PointBack
<1>5. Cardinality(L) = n BY <1>1, FS_Interval
<1>6. L \in SUBSET Offset BY <1>1 DEF Offset
<1>7. ASSUME NEW o \in Nodes(L) PROVE o - 1 \in 0 .. n /\ (o - 1) + 1 = o /\ (o \in L <=> o - 1 # 0) /\ (o = DUMMY_OFFSET <=> o - 1 = 0)
  BY <1>1 DEF Nodes, DUMMY_OFFSET
<1>k. \A i \in 0 .. n : copyKey(ks, i) \in Nat /\ (i # 0 => copyKey(ks, i) > 0 /\ copyKey(ks, i) = ks[i] /\ copyKey(ks, i) \in Key)
                        /\ (i = 0 => copyKey(ks, i) = 0)
  <2> SUFFICES ASSUME NEW i \in 0 .. n PROVE copyKey(ks, i) \in Nat /\ (i # 0 => copyKey(ks, i) > 0 /\ copyKey(ks, i) = ks[i] /\ copyKey(ks, i) \in Key)
                        /\ (i = 0 => copyKey(ks, i) = 0)
    OBVIOUS
  <2>1. CASE i = 0 BY <2>1 DEF copyKey
  <2>2. CASE i # 0
    <3>1. i \in 1 .. n BY <1>1, <2>2
    <3>2. ks[i] \in Key BY <1>1, <3>1
    <3> QED BY <2>2, <3>2, Keys DEF copyKey
  <2> QED BY <2>1, <2>2
<1>8. \A i, j \in 0 .. n : i < j => copyKey(ks, i) < copyKey(ks, j)
  <2> SUFFICES ASSUME NEW i \in 0 .. n, NEW j \in 0 .. n, i < j
               PROVE  copyKey(ks, i) < copyKey(ks, j)
    OBVIOUS
  <2>1. j # 0 /\ j \in 1 .. n BY <1>1
  <2>2. CASE i = 0 BY <1>k, <2>1, <2>2
  <2>3. CASE i # 0
    <3>1. i \in 1 .. n BY <1>1, <2>3
    <3> QED BY <1>1, <1>k, <2>1, <2>3, <3>1
  <2> QED BY <2>2, <2>3
<1>9. ASSUME NEW i \in 0 .. n
      PROVE  LET o == i + 1
             IN /\ f[o].type = IF i = 0 THEN "DUMMY" ELSE "RECORD"
                /\ f[o].key = copyKey(ks, i) /\ f[o].level = copyLevel(lv, i)
                /\ i # 0 => f[o].val = m[ks[i]]
                /\ f[o].next = link(lv, n, i, 1)
                /\ \A l \in 0 .. copyLevel(lv, i) - 1 : c[o].nextloc[l + 1] = link(lv, n, i, l + 1)
  <2> DEFINE o == i + 1
             h == copyLevel(lv, i)
             p == links(lv, n, i, h)
  <2>1. /\ o \in Offset /\ c[o].nextloc = p /\ h \in 1 .. MaxLevel /\ c[o] \in Rec
        /\ c[o].type = IF i = 0 THEN "DUMMY" ELSE "RECORD"
        /\ c[o].key = copyKey(ks, i) /\ c[o].level = copyLevel(lv, i)
        /\ i # 0 => c[o].val = m[ks[i]]
    BY <1>2
  <2>2. /\ p[0] = 0 /\ p[1] = link(lv, n, i, 1) /\ p[1] <= s /\ p[1] \in Nat
        /\ \A l \in 0 .. h - 1 : p[l + 1] = link(lv, n, i, l + 1)
    BY <2>1, LinksType
  <2>3. /\ f[o].type = c[o].type /\ f[o].level = c[o].level /\ f[o].key = c[o].key
        /\ f[o].val = c[o].val /\ f[o].next = getloc(c[o], 0, s + 1)
    BY <1>2, <2>1, FacesAt
  <2> HIDE DEF p, h, f, o
  <2>4. getloc(c[o], 0, s + 1) = p[1] BY <1>3, <2>1, <2>2 DEF getloc
  <2> QED BY <2>1, <2>2, <2>3, <2>4 DEF o, h
<1> HIDE DEF f
<1>10. ASSUME NEW i \in 0 .. n, NEW l \in Levels
       PROVE  IsNext(f, Above(f, L, l), copyKey(ks, i), link(lv, n, i, l + 1))
  <2> DEFINE x == link(lv, n, i, l + 1)
  <2>1. l + 1 \in 1 .. MaxLevel /\ l \in Nat BY <1>1 DEF Levels
  <2>2. /\ x \in 0 .. n + 1
        /\ x = 0 => \A y \in i + 1 .. n : lv[y] < l + 1
        /\ x # 0 => /\ x - 1 \in i + 1 .. n /\ lv[x - 1] >= l + 1
                    /\ \A y \in i + 1 .. n : lv[y] >= l + 1 => x - 1 <= y
    BY <2>1, LinkFacts
  <2> HIDE DEF x
  <2>3. ASSUME NEW z \in Above(f, L, l)
        PROVE  /\ z - 1 \in 1 .. n /\ f[z].key = copyKey(ks, z - 1) /\ lv[z - 1] >= l + 1
               /\ copyKey(ks, z - 1) \in Nat
    <3>1. z \in L /\ l < f[z].level BY DEF Above
    <3>2. z - 1 \in 1 .. n /\ z - 1 \in 0 .. n /\ (z - 1) + 1 = z /\ z - 1 # 0 BY <1>1, <3>1
    <3>3. f[z].key = copyKey(ks, z - 1) /\ f[z].level = copyLevel(lv, z - 1) BY <1>9, <3>2
    <3>4. copyLevel(lv, z - 1) = lv[z - 1] /\ lv[z - 1] \in Nat BY <1>1, <3>2 DEF copyLevel
    <3> QED BY <1>k, <2>1, <3>1, <3>2, <3>3, <3>4
  <2>4. CASE x = 0
    <3> SUFFICES ASSUME NEW z \in Above(f, L, l) PROVE f[z].key <= copyKey(ks, i)
      BY <2>4 DEF IsNext, x
    <3>1. /\ z - 1 \in 1 .. n /\ f[z].key = copyKey(ks, z - 1) /\ lv[z - 1] >= l + 1
          /\ copyKey(ks, z - 1) \in Nat
      BY <2>3
    <3>2. lv[z - 1] \in Nat BY <1>1, <3>1
    <3>3. ~(z - 1 \in i + 1 .. n) BY <2>1, <2>2, <2>4, <3>1, <3>2
    <3>4. z - 1 <= i /\ z - 1 \in 0 .. n BY <1>1, <3>1, <3>3
    <3>5. CASE z - 1 = i BY <1>k, <3>1, <3>5
    <3>6. CASE z - 1 < i
      <4>1. copyKey(ks, z - 1) < copyKey(ks, i) BY <1>8, <3>4, <3>6
      <4> QED BY <1>k, <3>1, <4>1
    <3> QED BY <1>1, <3>4, <3>5, <3>6
  <2>5. CASE x # 0
    <3>1. /\ x - 1 \in 1 .. n /\ x - 1 \in 0 .. n /\ (x - 1) + 1 = x /\ x - 1 # 0 /\ i < x - 1
          /\ x \in L
      BY <1>1, <2>2, <2>5
    <3>2. f[x].key = copyKey(ks, x - 1) /\ f[x].level = copyLevel(lv, x - 1) BY <1>9, <3>1
    <3>3. copyLevel(lv, x - 1) = lv[x - 1] /\ lv[x - 1] \in Nat BY <1>1, <3>1 DEF copyLevel
    <3>4. x \in Above(f, L, l) BY <2>1, <2>2, <2>5, <3>1, <3>2, <3>3 DEF Above
    <3>5. f[x].key > copyKey(ks, i)
      <4>1. copyKey(ks, i) < copyKey(ks, x - 1) BY <1>8, <3>1
      <4> QED BY <1>k, <3>1, <3>2, <4>1
    <3>6. ASSUME NEW z \in Above(f, L, l), f[z].key > copyKey(ks, i) PROVE f[x].key <= f[z].key
      <4>1. /\ z - 1 \in 1 .. n /\ f[z].key = copyKey(ks, z - 1) /\ lv[z - 1] >= l + 1
            /\ copyKey(ks, z - 1) \in Nat /\ z - 1 \in 0 .. n
        BY <1>1, <2>3
      <4>2. ~(z - 1 <= i)
        <5>1. CASE z - 1 = i BY <1>k, <3>6, <4>1, <5>1
        <5>2. CASE z - 1 < i
          <6>1. copyKey(ks, z - 1) < copyKey(ks, i) BY <1>8, <4>1, <5>2
          <6> QED BY <1>k, <3>6, <4>1, <6>1
        <5>3. i \in Nat /\ z - 1 \in Nat BY <1>1, <4>1
        <5> QED BY <5>1, <5>2, <5>3
      <4>3. z - 1 \in i + 1 .. n BY <1>1, <4>1, <4>2
      <4>4. x - 1 <= z - 1 BY <2>2, <2>5, <4>1, <4>3
      <4>5. CASE x - 1 = z - 1 BY <3>2, <4>1, <4>5
      <4>6. CASE x - 1 < z - 1
        <5>1. copyKey(ks, x - 1) < copyKey(ks, z - 1) BY <1>8, <3>1, <4>1, <4>6
        <5> QED BY <1>k, <3>1, <3>2, <4>1, <5>1
      <4> QED BY <1>1, <3>1, <4>1, <4>4, <4>5, <4>6
    <3>7. IsNext(f, Above(f, L, l), copyKey(ks, i), x) BY <2>5, <3>4, <3>5, <3>6 DEF IsNext
    <3> QED BY <3>7 DEF x
  <2> QED BY <2>4, <2>5
<1>11. Records(f, s + 1, L)
  <2>1. L \subseteq 2 .. (s + 1) - 1 BY <1>1 DEF copySize
  <2>2. f[DUMMY_OFFSET].type = "DUMMY" /\ f[DUMMY_OFFSET].key = 0 /\ f[DUMMY_OFFSET].level = MaxLevel
    <3>1. 0 \in 0 .. n /\ 0 + 1 = DUMMY_OFFSET BY <1>1 DEF DUMMY_OFFSET
    <3> QED BY <1>9, <3>1 DEF copyKey, copyLevel
  <2>3. ASSUME NEW o \in L PROVE f[o].type = "RECORD" /\ f[o].key \in Key
                                  /\ f[o].level \in 1 .. MaxLevel /\ f[o].val \in Val
    <3> DEFINE i == o - 1
    <3>1. i \in 1 .. n /\ i \in 0 .. n /\ i + 1 = o /\ i # 0 BY <1>1
    <3> HIDE DEF i
    <3>2. /\ f[o].type = "RECORD" /\ f[o].key = copyKey(ks, i) /\ f[o].level = copyLevel(lv, i)
          /\ f[o].val = m[ks[i]]
      BY <1>9, <3>1
    <3>3. copyLevel(lv, i) = lv[i] /\ lv[i] \in 1 .. MaxLevel BY <1>1, <3>1 DEF copyLevel
    <3> QED BY <1>1, <1>k, <3>1, <3>2, <3>3
  <2>4. ASSUME NEW o \in L, NEW x \in L, f[o].key = f[x].key PROVE o = x
    <3> DEFINE i == o - 1
               j == x - 1
    <3>1. i \in 0 .. n /\ i + 1 = o /\ j \in 0 .. n /\ j + 1 = x BY <1>1
    <3> HIDE DEF i, j
    <3>2. f[o].key = copyKey(ks, i) /\ f[x].key = copyKey(ks, j) BY <1>9, <3>1
    <3>a. copyKey(ks, i) \in Nat /\ copyKey(ks, i) = copyKey(ks, j) BY <1>k, <2>4, <3>1, <3>2
    <3>b. /\ i < j => copyKey(ks, i) < copyKey(ks, j)
          /\ j < i => copyKey(ks, j) < copyKey(ks, i)
      BY <1>8, <3>1
    <3>3. ~(i < j) /\ ~(j < i) BY <3>a, <3>b
    <3>4. i = j BY <1>1, <3>1, <3>3
    <3> QED BY <3>1, <3>4
  <2> QED BY <2>1, <2>2, <2>3, <2>4 DEF Records
<1>12. ASSUME NEW o \in Nodes(L) PROVE Linked(f, s + 1, L, o)
  <2> DEFINE i == o - 1
             x == link(lv, n, i, 1)
  <2>1. i \in 0 .. n /\ i + 1 = o BY <1>7
  <2>2. 0 \in Levels /\ 0 + 1 = 1 BY <1>1 DEF Levels
  <2> HIDE DEF i
  <2>3. f[o].next = x /\ f[o].key = copyKey(ks, i) BY <1>9, <2>1
  <2>4. IsNext(f, Above(f, L, 0), copyKey(ks, i), x) BY <1>10, <2>1, <2>2
  <2> HIDE DEF x
  <2>5. Above(f, L, 0) = L
    <3>1. \A z \in L : f[z].level \in 1 .. MaxLevel BY <1>11 DEF Records
    <3> QED BY <1>1, <3>1 DEF Above
  <2>6. x = 0 \/ x \in L BY <2>4, <2>5 DEF IsNext
  <2>7. f[o].next < s + 1
    <3>1. \A z \in L : z <= n + 1 /\ n > 0 /\ z \in Nat BY <1>1
    <3>2. n > 0 => s = n + 2 BY <1>1 DEF copySize
    <3> HIDE DEF L
    <3>3. CASE x = 0 BY <1>3, <2>3, <3>3
    <3>4. CASE x \in L BY <1>1, <1>3, <2>3, <3>1, <3>2, <3>4
    <3> QED BY <2>6, <3>3, <3>4
  <2>8. x \in L => f[x].type = "RECORD" BY <1>11 DEF Records
  <2>9. following(f, o) = x BY <2>3, <2>6, <2>8 DEF following
  <2> QED BY <2>3, <2>4, <2>5, <2>7, <2>9 DEF Linked
<1>13. ASSUME NEW o \in Nodes(L), NEW l \in 1 .. f[o].level - 1 PROVE Upper(f, c, L, o, l)
  <2> DEFINE i == o - 1
  <2>1. i \in 0 .. n /\ i + 1 = o BY <1>7
  <2> HIDE DEF i
  <2>2. /\ f[o].level = copyLevel(lv, i) /\ f[o].key = copyKey(ks, i)
        /\ \A j \in 0 .. copyLevel(lv, i) - 1 : c[o].nextloc[j + 1] = link(lv, n, i, j + 1)
    BY <1>9, <2>1
  <2>3. copyLevel(lv, i) \in 1 .. MaxLevel BY <1>2, <2>1
  <2>4. l \in Levels /\ l \in 0 .. copyLevel(lv, i) - 1 BY <1>1, <2>2, <2>3 DEF Levels
  <2>5. IsNext(f, Above(f, L, l), copyKey(ks, i), link(lv, n, i, l + 1)) BY <1>10, <2>1, <2>4
  <2> QED BY <2>2, <2>4, <2>5 DEF Upper
<1>14. Full(c, s, L)
  <2>1. Nodes(L) \subseteq Offset BY <1>1, <1>6 DEF Nodes, Offset, DUMMY_OFFSET
  <2>2. List(f, s + 1, L) BY <1>11, <1>12 DEF List
  <2>3. f = Faces(c, s + 1) BY DEF f
  <2> HIDE DEF L
  <2> QED BY <1>2, <1>13, <2>1, <2>2, <2>3 DEF Full
<1>15. ContentOf(f, L) = [k \in {ks[i] : i \in 1 .. n} |-> m[k]]
  <2> DEFINE C == ContentOf(f, L)
             K == KeysOf(f, L)
             R == {ks[i] : i \in 1 .. n}
  <2>1. DOMAIN C = K /\ (\A o \in L : C[f[o].key] = f[o].val) /\ C \in [K -> Val]
    <3> HIDE DEF L
    <3> QED BY <1>11, ContentFacts
  <2>2. ASSUME NEW o \in L PROVE o - 1 \in 1 .. n /\ f[o].key = ks[o - 1] /\ f[o].val = m[ks[o - 1]]
    <3>1. o - 1 \in 1 .. n /\ o - 1 \in 0 .. n /\ (o - 1) + 1 = o /\ o - 1 # 0 BY <1>1
    <3> QED BY <1>9, <1>k, <3>1
  <2>3. ASSUME NEW i \in 1 .. n PROVE i + 1 \in L /\ f[i + 1].key = ks[i]
    <3>1. i \in 0 .. n /\ i # 0 /\ i + 1 \in L BY <1>1
    <3> QED BY <1>9, <1>k, <3>1
  <2>4. K = R
    <3>1. \A k \in K : k \in R BY <2>2 DEF KeysOf
    <3>2. \A k \in R : k \in K BY <2>3 DEF KeysOf
    <3> QED BY <3>1, <3>2
  <2>5. ASSUME NEW k \in K PROVE C[k] = m[k]
    <3>1. PICK o \in L : f[o].key = k BY DEF KeysOf
    <3> QED BY <2>1, <2>2, <3>1
  <2> HIDE DEF K, R, C
  <2>6. C = [k \in K |-> C[k]] BY <2>1
  <2>7. C = [k \in K |-> m[k]] BY <2>5, <2>6
  <2>8. C = [k \in R |-> m[k]] BY <2>4, <2>7
  <2> QED BY <2>8 DEF C, R
<1> QED BY <1>3, <1>4, <1>5, <1>6, <1>14, <1>15 DEF f

-----------------------------------------------------------------------------
(* What the invariant says of the file.                                     *)

\* The types that the invariant of the file gives.
LEMMA FileFacts ==
  ASSUME FileInv, FileMore
  PROVE  /\ cache \in [Offset -> Rec] /\ size \in Offset /\ size \in Nat /\ size >= 1
         /\ hcache \in Header /\ hcache \in hdisk /\ PointBack(cache)
         /\ hcache.current_size \in Nat /\ hcache.current_size \in 2 .. MaxOffset + 1
         /\ hcache.current_size \in Size /\ hcache.current_size <= size + 1
         /\ hcache.generation \in Nat /\ hcache.generation >= 1
         /\ size + 1 \in 2 .. MaxOffset + 1 /\ size + 1 \in Nat /\ size + 1 \in Size
         /\ now \in [Offset -> FaceRec] /\ then(hcache) \in [Offset -> FaceRec]
         /\ Committed(cache, then(hcache), hcache.current_size, Base)
         /\ hdisk \in SUBSET Header
         /\ \A h \in hdisk : /\ h.current_size \in Nat /\ h.current_size \in 2 .. MaxOffset + 1
                             /\ h.current_size \in Size
                             /\ then(h) \in [Offset -> FaceRec]
<1>1. FileTypeOK /\ Kept /\ Sized /\ OldPointers /\ CrashSafe BY DEF FileInv, FileCore
<1>2. /\ cache \in [Offset -> Rec] /\ size \in Offset /\ hcache \in Header /\ hcache \in hdisk
      /\ size \in Nat /\ size >= 1 /\ size <= MaxOffset /\ hdisk \in SUBSET Header
      /\ face \in [Size -> [Offset -> FaceRec]] /\ disk \in [Offset -> SUBSET Rec]
      /\ size \in sdisk
  BY <1>1, FileAssumption DEF FileTypeOK, Kept, Offset
<1>3. PointBack(cache)
  <2> SUFFICES ASSUME NEW o \in Offset, cache[o].type = "DELETE"
               PROVE  cache[o].nextloc[1] = 0 /\ cache[o].nextloc[0] < o
    BY DEF PointBack
  <2>1. cache[o] \in disk[o] BY <1>1 DEF Kept
  <2> QED BY <2>1 DEF FileMore, Deletes
<1>4. ASSUME NEW h \in hdisk
      PROVE  /\ h.current_size \in Nat /\ h.current_size \in 2 .. MaxOffset + 1
             /\ h.current_size \in Size /\ h.current_size <= size + 1
             /\ then(h) \in [Offset -> FaceRec]
  <2>1. h.current_size \in Size BY <1>2 DEF Header
  <2>2. h.current_size >= 2 /\ h.current_size - 1 <= size BY <1>1, <1>2 DEF Sized
  <2>3. h.current_size \in Nat /\ h.current_size <= MaxOffset + 1 /\ MaxOffset \in Nat
    BY <2>1, FileAssumption DEF Size
  <2> QED BY <1>2, <2>1, <2>2, <2>3 DEF then
<1>5. hcache.generation \in Nat /\ hcache.generation >= 1
  BY <1>2 DEF FileMore, Ended, Header
<1>6. size + 1 \in 2 .. MaxOffset + 1 /\ size + 1 \in Nat /\ size + 1 \in Size
  BY <1>2, FileAssumption DEF Size
<1>7. now \in [Offset -> FaceRec] BY <1>2, FacesType DEF now
<1>8. Committed(cache, then(hcache), hcache.current_size, Base)
  <2> DEFINE n == hcache.current_size
             f == then(hcache)
  <2>1. List(f, n, Base) BY <1>2 DEF FileMore, Lists, Base
  <2>2. ASSUME NEW o \in 1 .. n - 1 PROVE Face(cache[o], n) = f[o] /\ OneCommitted(cache[o], n)
    <3>1. o \in Offset /\ o < n BY <1>2, <1>4, FileAssumption DEF Offset
    <3>2. cache[o] \in disk[o] BY <1>1, <3>1 DEF Kept
    <3> QED BY <1>1, <1>2, <3>1, <3>2 DEF CrashSafe, OldPointers, then
  <2> QED BY <1>2, <1>3, <1>4, <2>1, <2>2 DEF Committed
<1> QED BY <1>2, <1>3, <1>4, <1>5, <1>6, <1>7, <1>8

\* Two lists of faces that agree in the file of n - 1 records.
LEMMA SameList ==
  ASSUME NEW f \in [Offset -> FaceRec], NEW g \in [Offset -> FaceRec],
         NEW n \in 2 .. MaxOffset + 1, \A o \in 1 .. n - 1 : f[o] = g[o],
         NEW L, List(f, n, L)
  PROVE  /\ List(g, n, L) /\ Live(f) = L /\ Live(g) = L
         /\ FaceContent(f) = ContentOf(f, L) /\ FaceContent(g) = FaceContent(f)
         /\ L \subseteq 1 .. n - 1 /\ Nodes(L) \subseteq 1 .. n - 1
         /\ \A o \in Nodes(L) : f[o] = g[o]
         /\ \A o \in Nodes(L) : following(f, o) = following(g, o)
<1>1. List(g, n, L) BY Local
<1>2. Live(f) = L /\ Live(g) = L BY <1>1, LiveList
<1>3. Records(f, n, L) BY DEF List
<1>n. n \in Nat /\ n >= 2 BY FileAssumption
<1>4. Nodes(L) \subseteq 1 .. n - 1 /\ L \subseteq 1 .. n - 1
  <2>1. L \subseteq 2 .. n - 1 BY <1>3 DEF Records
  <2> QED BY <1>n, <2>1 DEF Nodes, DUMMY_OFFSET
<1>5. \A o \in L : f[o] = g[o] BY <1>4
<1>6. ContentOf(f, L) = ContentOf(g, L) BY <1>5, ContentSame
<1>7. FaceContent(f) = ContentOf(f, L) /\ FaceContent(g) = ContentOf(g, L) BY <1>1, ContentList
<1>8. ASSUME NEW o \in Nodes(L) PROVE following(f, o) = following(g, o)
  <2>1. f[o].next < n BY DEF List, Linked
  <2>2. o \in 1 .. n - 1 /\ o \in Offset BY <1>4, <1>n, FileAssumption DEF Offset
  <2>3. f[o] = g[o] BY <2>2
  <2>4. f[o].next \in Ptr BY <2>2 DEF FaceRec
  <2>5. f[o].next # 0 => f[o].next \in 1 .. n - 1 BY <1>n, <2>1, <2>4, FileAssumption DEF Ptr
  <2> QED BY <2>3, <2>5 DEF following
<1> QED BY <1>1, <1>2, <1>4, <1>6, <1>7, <1>8

\* What everybody finds is what was committed.
LEMMA ViewFacts ==
  ASSUME FileInv, FileMore
  PROVE  /\ View = FaceContent(then(hcache)) /\ View = ContentOf(then(hcache), Base)
         /\ List(then(hcache), hcache.current_size, Base)
         /\ Base \subseteq 1 .. hcache.current_size - 1
         /\ hcache.current_size = size + 1 =>
              /\ W = Base /\ View = ContentOf(now, W) /\ List(now, size + 1, W)
              /\ \A o \in Nodes(W) : now[o] = then(hcache)[o]
              /\ FaceContent(now) = View
<1> DEFINE n == hcache.current_size
           f == then(hcache)
           g == Faces(cache, n)
<1>1. /\ n \in 2 .. MaxOffset + 1 /\ f \in [Offset -> FaceRec] /\ cache \in [Offset -> Rec]
      /\ Committed(cache, f, n, Base)
  BY FileFacts
<1>2. g \in [Offset -> FaceRec] BY <1>1, FacesType
<1>3. \A o \in 1 .. n - 1 : f[o] = g[o]
  <2> SUFFICES ASSUME NEW o \in 1 .. n - 1 PROVE f[o] = g[o] OBVIOUS
  <2>1. o \in Offset BY <1>1, CommittedFacts
  <2>2. g[o] = Face(cache[o], n) BY <1>1, <2>1, FacesAt
  <2> QED BY <1>1, <2>2 DEF Committed
<1>4. List(f, n, Base) BY <1>1 DEF Committed
<1>5. View = FaceContent(g) BY DEF View, Content
<1>6. n = size + 1 => now = g BY DEF now
<1> HIDE DEF n, f, g
<1>7. /\ List(g, n, Base) /\ Live(f) = Base /\ Live(g) = Base
      /\ FaceContent(f) = ContentOf(f, Base) /\ FaceContent(g) = FaceContent(f)
      /\ Base \subseteq 1 .. n - 1
      /\ \A o \in Nodes(Base) : f[o] = g[o]
  BY <1>1, <1>2, <1>3, <1>4, SameList
<1>8. \A o \in Base : f[o] = g[o] BY <1>7 DEF Nodes
<1>9. ContentOf(f, Base) = ContentOf(g, Base) BY <1>8, ContentSame
<1>10. ASSUME n = size + 1
       PROVE  /\ W = Base /\ View = ContentOf(now, W) /\ List(now, size + 1, W)
              /\ \A o \in Nodes(W) : now[o] = f[o] /\ FaceContent(now) = View
  <2>1. now = g BY <1>6, <1>10
  <2>2. W = Base BY <1>7, <2>1 DEF W
  <2> QED BY <1>5, <1>7, <1>9, <1>10, <2>1, <2>2
<1>11. n = size + 1 => FaceContent(now) = View BY <1>5, <1>6
<1> QED BY <1>4, <1>5, <1>7, <1>10, <1>11 DEF n, f

\* A clean header is right.
LEMMA CleanFacts ==
  ASSUME FileInv, FileMore
  PROVE  /\ hcache.flags = "clean" => hcache.current_size = size + 1 /\ ~DirtyDurable
         /\ ~DirtyDurable => hcache.current_size = size + 1 /\ Full(cache, size, W)
         /\ hcache.flags = "clean" => hcache.num_records = Cardinality(W)
         /\ hcache.flags \in {"clean", "dirty"}
<1>1. hcache \in hdisk /\ CleanSound /\ hcache \in Header
  BY DEF FileInv, FileCore, Kept, FileTypeOK
<1>2. hcache.flags \in {"clean", "dirty"} BY <1>1 DEF Header
<1>3. hcache.flags = "clean" => hcache.current_size = size + 1 /\ ~DirtyDurable
  BY <1>1 DEF CleanSound, DirtyDurable
<1>4. ~DirtyDurable => hcache.current_size = size + 1 /\ Full(cache, size, W)
  BY DEF FileMore, Tidy
<1>5. hcache.flags = "clean" => hcache.num_records = Cardinality(W)
  <2> SUFFICES ASSUME hcache.flags = "clean" PROVE hcache.num_records = Cardinality(W) OBVIOUS
  <2>1. hcache.num_records = Cardinality(Base) BY <1>1 DEF FileMore, Lists, Base
  <2>2. W = Base BY <1>3, ViewFacts
  <2> QED BY <2>1, <2>2
<1> QED BY <1>2, <1>3, <1>4, <1>5

\* A whole file is sound.
LEMMA WholeSound ==
  ASSUME FileInv, FileMore, Full(cache, size, W)
  PROVE  Sound(W)
BY FileFacts DEF Sound

\* A location for the committed file is one for the file as it is, if it is clean.

\* A location is right in faces that agree on the nodes.
LEMMA IsLocSame ==
  ASSUME NEW f, NEW g, NEW L, \A o \in Nodes(L) : f[o] = g[o], NEW l, IsLoc(f, L, l)
  PROVE  IsLoc(g, L, l)
<1>1. /\ \A i : Above(f, L, i) = Above(g, L, i)
      /\ \A S \in SUBSET L : \A k, x : IsNext(f, S, k, x) => IsNext(g, S, k, x)
  BY NextSame
<1>2. \A o \in L : f[o] = g[o] BY DEF Nodes
<1>3. ASSUME NEW i \in Levels PROVE IsPrev(g, L, i, l.key, l.back[i])
  <2>1. IsPrev(f, L, i, l.key, l.back[i]) BY DEF IsLoc
  <2> DEFINE x == l.back[i]
  <2>2. x \in Nodes(L) /\ f[x] = g[x] BY <2>1 DEF IsPrev
  <2>3. \A y \in Above(g, L, i) : f[y] = g[y] BY <1>2 DEF Above
  <2> HIDE DEF x
  <2>4. IsPrev(f, L, i, l.key, x) BY <2>1 DEF x
  <2>5. IsPrev(g, L, i, l.key, x) BY <1>1, <2>2, <2>3, <2>4 DEF IsPrev
  <2> QED BY <2>5 DEF x
<1>4. 0 \in Levels BY FileAssumption DEF Levels
<1>5. l.at \in Nodes(L)
  <2>1. CASE l.exact BY <2>1 DEF IsLoc, Nodes
  <2>2. CASE ~l.exact BY <1>3, <1>4, <2>2 DEF IsLoc, IsPrev
  <2> QED BY <2>1, <2>2
<1>6. l.fwd[0] = g[l.at].next BY <1>5 DEF IsLoc
<1>7. ASSUME NEW i \in Levels \ {0} PROVE IsNext(g, Above(g, L, i), l.key, l.fwd[i])
  <2>1. IsNext(f, Above(f, L, i), l.key, l.fwd[i]) BY DEF IsLoc
  <2>2. Above(f, L, i) \in SUBSET L BY DEF Above
  <2>3. IsNext(g, Above(f, L, i), l.key, l.fwd[i]) BY <1>1, <2>1, <2>2
  <2> QED BY <1>1, <2>3
<1>8. l.exact = (\E o \in L : g[o].key = l.key)
  <2>1. l.exact = (\E o \in L : f[o].key = l.key) BY DEF IsLoc
  <2>2. (\E o \in L : f[o].key = l.key) = (\E o \in L : g[o].key = l.key) BY <1>2, Zenon
  <2> QED BY <2>1, <2>2, Zenon
<1>9. l.exact => l.at \in L /\ g[l.at].key = l.key BY <1>2 DEF IsLoc
<1>10. ~l.exact => l.at = l.back[0] BY DEF IsLoc
<1> QED BY <1>3, <1>6, <1>7, <1>8, <1>9, <1>10 DEF IsLoc

\* While nothing is written, a location fits the transaction as it fits the file.
LEMMA LocSame ==
  ASSUME FileInv, FileMore, hcache.current_size = size + 1, NEW l
  PROVE  Fit(l, hcache.generation, size + 1, now, W)
           <=> Fit(l, hcache.generation, hcache.current_size, then(hcache), Base)
<1>1. W = Base /\ \A o \in Nodes(W) : now[o] = then(hcache)[o] BY ViewFacts
<1>2. IsLoc(now, W, l) => IsLoc(then(hcache), W, l) BY <1>1, IsLocSame
<1>3. IsLoc(then(hcache), W, l) => IsLoc(now, W, l) BY <1>1, IsLocSame
<1> QED BY <1>1, <1>2, <1>3 DEF Fit

\* In a sound file a location that is right can be used.
LEMMA LocUsable ==
  ASSUME NEW l \in LocType, hcache.generation \in Nat, l.gen <= hcache.generation,
         Fit(l, hcache.generation, size + 1, now, W)
  PROVE  Usable(W, l)
BY DEF Usable, fresh, Fit

\* What a lookup finds is right.
LEMMA TaggedOk ==
  ASSUME NEW L, NEW l, IsLoc(now, L, l), Tagged(l), size \in Nat
  PROVE  l \in LocType /\ l.gen = hcache.generation /\ Fit(l, hcache.generation, size + 1, now, L)
BY DEF Tagged, Fit

-----------------------------------------------------------------------------
(* What the writes do to the file.                                          *)

\* A sync.
LEMMA MoreSync ==
  ASSUME FileInv, FileMore, commit
  PROVE  /\ FileMore' /\ then(hcache)' = then(hcache) /\ now' = now /\ W' = W
         /\ DirtyDurable => DirtyDurable'
<1> USE DEF commit
<1>1. /\ hcache \in hdisk /\ hcache.current_size \in Size /\ cache \in [Offset -> Rec]
      /\ \A o \in Offset : cache[o] \in disk[o]
  BY FileFacts DEF FileInv, FileCore, Kept
<1>2. then(hcache)' = then(hcache) BY <1>1 DEF then
<1>3. now' = now /\ W' = W BY DEF now, W
<1>4. Deletes' BY <1>1 DEF FileMore, Deletes
<1>5. Lists'
  <2>1. hdisk' = {hcache'} OBVIOUS
  <2>2. /\ List(then(hcache), hcache.current_size, Live(then(hcache)))
        /\ hcache.flags = "clean" => hcache.num_records = Cardinality(Live(then(hcache)))
    BY <1>1 DEF FileMore, Lists
  <2>3. \A h \in hdisk' : h = hcache OBVIOUS
  <2>4. face'[hcache.current_size] = then(hcache) BY <1>1 DEF then
  <2> QED BY <2>2, <2>3, <2>4 DEF Lists, then
<1>6. DirtyDurable => DirtyDurable' BY <1>1 DEF DirtyDurable
<1>7. Tidy' BY <1>3, <1>6 DEF FileMore, Tidy, DirtyDurable
<1>8. Ended'
  <2>1. \A h \in hdisk' : h = hcache OBVIOUS
  <2>2. face'[hcache.current_size] = then(hcache) BY <1>1 DEF then
  <2>3. hcache.current_size - 1 \notin Live(then(hcache)) /\ hcache.generation >= 1
    BY <1>1 DEF FileMore, Ended
  <2> QED BY <2>1, <2>2, <2>3 DEF Ended, then
<1> QED BY <1>2, <1>3, <1>4, <1>5, <1>6, <1>7, <1>8 DEF FileMore

\* The header is written with the size it had.
LEMMA MoreHeader ==
  ASSUME FileInv, FileMore, NEW h, write_header(h), UNCHANGED <<cache, size, disk, sdisk, face>>,
         h.current_size = hcache.current_size, h.generation = hcache.generation,
         h.flags = "clean" => h.num_records = Cardinality(Base),
         hcache.current_size = size + 1, Full(cache, size, W)
  PROVE  FileMore' /\ then(hcache)' = then(hcache) /\ now' = now /\ W' = W
<1> USE DEF write_header
<1>1. hcache \in hdisk /\ hcache' = h BY FileFacts
<1>2. then(hcache)' = then(hcache) BY <1>1 DEF then
<1>3. now' = now /\ W' = W BY DEF now, W
<1>4. Deletes' BY DEF FileMore, Deletes
<1>5. Lists'
  <2> SUFFICES ASSUME NEW x \in hdisk'
               PROVE /\ List(face[x.current_size], x.current_size, Live(face[x.current_size]))
                     /\ x.flags = "clean" => x.num_records = Cardinality(Live(face[x.current_size]))
    BY DEF Lists, then
  <2>1. CASE x \in hdisk BY <2>1 DEF FileMore, Lists, then
  <2>2. CASE x = h
    <3>1. List(then(hcache), hcache.current_size, Live(then(hcache))) BY <1>1 DEF FileMore, Lists
    <3> QED BY <2>2, <3>1 DEF Base, then
  <2> QED BY <2>1, <2>2
<1>6. Tidy' BY <1>1, <1>3 DEF Tidy
<1>7. Ended'
  <2> SUFFICES ASSUME NEW x \in hdisk'
               PROVE /\ x.current_size - 1 \notin Live(face[x.current_size])
                     /\ x.generation >= 1 /\ x.generation = h.generation
    BY <1>1 DEF Ended, then
  <2>1. CASE x \in hdisk BY <2>1 DEF FileMore, Ended, then
  <2>2. CASE x = h BY <1>1, <2>2 DEF FileMore, Ended, then
  <2> QED BY <2>1, <2>2
<1> QED BY <1>2, <1>3, <1>4, <1>5, <1>6, <1>7 DEF FileMore

\* Records are written while only a dirty header can be on the disk.
LEMMA MoreWrite ==
  ASSUME FileInv, FileMore, DirtyDurable, UNCHANGED <<hcache, hdisk, face>>,
         NEW o \in Offset, NEW r, r.type = "DELETE" => r.nextloc[1] = 0 /\ r.nextloc[0] < o,
         disk' = [disk EXCEPT ![o] = @ \cup {r}]
  PROVE  FileMore' /\ then(hcache)' = then(hcache) /\ DirtyDurable'
<1>1. disk \in [Offset -> SUBSET Rec] BY DEF FileInv, FileCore, FileTypeOK
<1>2. then(hcache)' = then(hcache) BY DEF then
<1>3. DirtyDurable' BY DEF DirtyDurable
<1>4. Deletes'
  <2> SUFFICES ASSUME NEW x \in Offset, NEW v \in disk'[x], v.type = "DELETE"
               PROVE  v.nextloc[1] = 0 /\ v.nextloc[0] < x
    BY DEF Deletes
  <2>1. CASE v \in disk[x] BY <2>1 DEF FileMore, Deletes
  <2>2. CASE ~(v \in disk[x])
    <3>1. x = o /\ v = r BY <1>1, <2>2
    <3> QED BY <3>1
  <2> QED BY <2>1, <2>2
<1>5. Lists' BY DEF FileMore, Lists, then
<1>6. Tidy' BY <1>3 DEF Tidy
<1>7. Ended' BY DEF FileMore, Ended, then
<1> QED BY <1>2, <1>3, <1>4, <1>5, <1>6, <1>7 DEF FileMore

-----------------------------------------------------------------------------
(* Steps that write nothing.                                                *)

\* A step of the file, or none.
Filing == [FileNext]_fileVars

\* Each step of the file keeps its invariant.
LEMMA FileKept ==
  ASSUME FileInv, [FileNext]_fileVars
  PROVE  FileInv' /\ Filing
BY FileStep DEF Filing

\* The file stays as it is; phase is only the writer's.
LEMMA Quiet ==
  ASSUME FileInv, FileMore, UNCHANGED <<cache, size, hcache, disk, sdisk, hdisk, face>>
  PROVE  /\ FileMore' /\ then(hcache)' = then(hcache) /\ now' = now /\ W' = W
         /\ Base' = Base /\ DirtyDurable' = DirtyDurable
<1>1. then(hcache)' = then(hcache) /\ now' = now /\ W' = W /\ Base' = Base
  BY DEF then, now, W, Base
<1>2. DirtyDurable' = DirtyDurable BY DEF DirtyDurable
<1>3. Deletes' BY DEF FileMore, Deletes
<1>4. Lists' BY DEF FileMore, Lists, then
<1>5. Tidy' BY <1>1, <1>2 DEF FileMore, Tidy
<1>6. Ended' BY DEF FileMore, Ended, then
<1> QED BY <1>1, <1>2, <1>3, <1>4, <1>5, <1>6 DEF FileMore

\* A step that leaves all of the file alone.
LEMMA QuietAll ==
  ASSUME FileInv, FileMore, UNCHANGED fileVars
  PROVE  /\ FileInv' /\ Filing /\ FileMore' /\ then(hcache)' = then(hcache) /\ now' = now /\ W' = W
         /\ Base' = Base /\ DirtyDurable' = DirtyDurable
<1>1. FileInv' /\ Filing BY FileKept
<1>2. UNCHANGED <<cache, size, hcache, disk, sdisk, hdisk, face>> BY DEF fileVars
<1> QED BY <1>1, <1>2, Quiet

\* A file that is clean.
LEMMA ReadyFacts ==
  ASSUME SkipInv, CanRead \/ pc = "txn"
  PROVE  Full(cache, size, W) /\ Sound(W)
<1>1. FileInv /\ FileMore BY DEF SkipInv
<1>2. Full(cache, size, W)
  <2>1. CASE CanRead BY <1>1, <2>1, CleanFacts DEF CanRead, db_is_clean
  <2>2. CASE pc = "txn" BY <2>2 DEF SkipInv, Whole, Writing
  <2> QED BY <2>1, <2>2
<1> QED BY <1>1, <1>2, WholeSound

\* newtxn takes the lock of a clean file, or begins its recovery.
LEMMA BeginStep ==
  ASSUME SkipInv, NEW p \in Proc, Begin(p)
  PROVE  SkipInv' /\ Filing
<1>1. /\ FileInv /\ FileMore /\ ProcTypes /\ Phases /\ Whole /\ Working
      /\ Prepared /\ Stitching /\ Walking /\ Locs
  BY DEF SkipInv
<1>2. /\ owner = NoProc /\ pc = "idle" /\ p # NoProc /\ owner' = p /\ num' = hcache.num_records
      /\ UNCHANGED <<fileVars, readers, op, rv, loc, iter, titer, acked>>
      /\ readers = {} /\ op = NoOp /\ work = NoTxn
  BY <1>1, TwoSkipAssumption DEF Begin, ProcTypes, Opening
<1>3. /\ FileInv' /\ Filing /\ FileMore' /\ then(hcache)' = then(hcache) /\ now' = now /\ W' = W
      /\ Base' = Base /\ DirtyDurable' = DirtyDurable
  BY <1>1, <1>2, QuietAll
<1>f. UNCHANGED <<cache, size, hcache, disk, sdisk, hdisk, phase, face>> BY <1>2 DEF fileVars
<1>4. CASE db_is_clean(hcache, size)
  <2>1. pc' = "txn" /\ ret' = "idle" /\ work' = View BY <1>4 DEF Begin
  <2>2. /\ hcache.flags = "clean" /\ hcache.current_size = size + 1 /\ phase = "clean"
        /\ Full(cache, size, W) /\ hcache.num_records = Cardinality(W)
        /\ View = ContentOf(now, W)
    BY <1>1, <1>2, <1>4, CleanFacts, ViewFacts DEF db_is_clean, Phases
  <2>3. ProcTypes'
    BY <1>1, <1>2, <1>f, <2>1, FileFacts DEF ProcTypes, Opening, Mending, Repaired, Writing, Header
  <2>4. Phases' BY <1>f, <2>1, <2>2 DEF Phases
  <2>5. Whole' BY <1>3, <1>f, <2>2 DEF Whole
  <2>6. Working' BY <1>2, <1>3, <1>f, <2>1, <2>2 DEF Working, Writing
  <2>7. Prepared' /\ Stitching' /\ Walking' BY <2>1 DEF Prepared, Stitching, Walking, Opening
  <2>8. Locs'
    <3> SUFFICES ASSUME NEW q \in Proc
                 PROVE  /\ loc[q].gen <= hcache.generation
                        /\ Fit(loc[q], hcache.generation, size + 1, now, W)
                        /\ Fit(loc[q], hcache.generation, hcache.current_size, then(hcache), Base)
      BY <1>2, <1>3, <1>f DEF Locs
    <3>1. loc[q].gen <= hcache.generation BY <1>1 DEF Locs
    <3>2. Fit(loc[q], hcache.generation, hcache.current_size, then(hcache), Base)
      BY <1>1, <1>2, TwoSkipAssumption DEF Locs
    <3>3. Fit(loc[q], hcache.generation, size + 1, now, W)
      BY <1>1, <2>2, <3>2, LocSame
    <3> QED BY <3>1, <3>2, <3>3
  <2> QED BY <1>3, <2>3, <2>4, <2>5, <2>6, <2>7, <2>8 DEF SkipInv
<1>5. CASE ~db_is_clean(hcache, size)
  <2>1. pc' = "recover" /\ ret' = "txn" /\ work' = work BY <1>5 DEF Begin
  <2>2. hcache.flags = "dirty" /\ phase = "dead"
    BY <1>1, <1>2, <1>5, CleanFacts DEF db_is_clean, Phases
  <2>3. ProcTypes'
    BY <1>1, <1>2, <1>f, <2>1, FileFacts DEF ProcTypes, Opening, Mending, Repaired, Writing, Header
  <2>4. Phases' BY <1>f, <2>1, <2>2 DEF Phases
  <2>5. Whole' /\ Working' BY <2>1 DEF Whole, Working, Writing, Repaired
  <2>7. Prepared' /\ Stitching' /\ Walking' BY <2>1 DEF Prepared, Stitching, Walking, Opening
  <2>8. Locs'
    <3> SUFFICES ASSUME NEW q \in Proc
                 PROVE  /\ loc[q].gen <= hcache.generation
                        /\ Fit(loc[q], hcache.generation, hcache.current_size, then(hcache), Base)
      BY <1>2, <1>3, <1>f, <2>1 DEF Locs, Writing
    <3> QED BY <1>1, <1>2, TwoSkipAssumption DEF Locs
  <2> QED BY <1>3, <2>3, <2>4, <2>5, <2>7, <2>8 DEF SkipInv
<1> QED BY <1>4, <1>5

-----------------------------------------------------------------------------
(* What the abstract store sees.                                            *)

\* The contents that a power loss may leave.
Left == {FaceContent(then(h)) : h \in hdisk}

\* A step of the abstract store, or none.
Storing == [Store!Next]_(Store!vars)

\* A step that the abstract store does not see.
LEMMA Unseen ==
  ASSUME View' = View, Left' = Left, UNCHANGED <<owner, work, acked>>
  PROVE  Storing
BY DEF Storing, Store!vars, Left, then

\* A file that stays as it is has the same contents.
LEMMA QuietView ==
  ASSUME UNCHANGED <<cache, size, hcache, disk, sdisk, hdisk, face>>
  PROVE  View' = View /\ Left' = Left
<1>1. View' = View BY DEF View
<1>2. Left' = Left BY DEF Left, then
<1> QED BY <1>1, <1>2

\* The locations of the other processes stay right while the committed file does.
LEMMA LocsKept ==
  ASSUME SkipInv, NEW p \in Proc, owner \in {p, NoProc}, owner' \in {p, NoProc},
         hcache'.generation = hcache.generation, hcache'.current_size = hcache.current_size,
         then(hcache)' = then(hcache), Base' = Base,
         \A q \in Proc : q # p => loc'[q] = loc[q],
         loc'[p].gen <= hcache.generation,
         owner' = p /\ pc' \in Writing => Fit(loc'[p], hcache.generation, size' + 1, now', W'),
         owner' # p \/ pc' \notin Writing \cup {"stitch"} =>
           Fit(loc'[p], hcache.generation, hcache.current_size, then(hcache), Base)
  PROVE  Locs'
<1> SUFFICES ASSUME NEW q \in Proc
             PROVE  /\ loc'[q].gen <= hcache.generation
                    /\ q = owner' /\ pc' \in Writing
                         => Fit(loc'[q], hcache.generation, size' + 1, now', W')
                    /\ q # owner' \/ pc' \notin Writing \cup {"stitch"} =>
                         Fit(loc'[q], hcache.generation, hcache.current_size, then(hcache), Base)
  BY DEF Locs, Writing
<1>1. CASE q = p BY <1>1
<1>2. CASE q # p
  <2>1. q # owner /\ q # owner' /\ loc'[q] = loc[q] BY <1>2, TwoSkipAssumption
  <2> QED BY <2>1 DEF SkipInv, Locs
<1> QED BY <1>1, <1>2

\* A location of no generation is as good as none.
LEMMA NoLocFit ==
  ASSUME NEW l, l.gen = 0, NEW g \in Nat, g >= 1, NEW n, NEW f, NEW L
  PROVE  Fit(l, g, n, f, L)
BY DEF Fit

\* No location is a location of no generation.
LEMMA NoLocType == NoLoc \in LocType /\ NoLoc.gen = 0
BY FileAssumption DEF NoLoc, LocType, NoOffsets, Levels, Ptr, Size

\* No operation is a record of three fields.
LEMMA NoOpForm == NoOp = [rec |-> NoOp.rec, max |-> NoOp.max, lvl |-> NoOp.lvl]
BY DEF NoOp

\* read_lock takes the write lock of an unclean file.
LEMMA ReadRecoverStep ==
  ASSUME SkipInv, NEW p \in Proc, ReadRecover(p)
  PROVE  SkipInv' /\ Storing /\ Filing
<1>1. /\ FileInv /\ FileMore /\ ProcTypes /\ Phases /\ Locs
  BY DEF SkipInv
<1>2. /\ owner = NoProc /\ pc = "idle" /\ p # NoProc /\ owner' = p /\ num' = hcache.num_records
      /\ UNCHANGED <<fileVars, readers, op, rv, loc, iter, titer, acked, work>>
      /\ readers = {} /\ op = NoOp /\ work = NoTxn /\ pc' = "recover" /\ ret' = "idle"
      /\ ~db_is_clean(hcache, size)
  BY <1>1, TwoSkipAssumption DEF ReadRecover, ProcTypes, Opening
<1>3. /\ FileInv' /\ Filing /\ FileMore' /\ then(hcache)' = then(hcache) /\ now' = now /\ W' = W
      /\ Base' = Base /\ DirtyDurable' = DirtyDurable
  BY <1>1, <1>2, QuietAll
<1>f. UNCHANGED <<cache, size, hcache, disk, sdisk, hdisk, phase, face>> BY <1>2 DEF fileVars
<1>4. hcache.flags = "dirty" /\ phase = "dead"
  BY <1>1, <1>2, CleanFacts DEF db_is_clean, Phases
<1>5. ProcTypes'
  BY <1>1, <1>2, <1>f, FileFacts DEF ProcTypes, Opening, Mending, Repaired, Writing, Header
<1>6. Phases' BY <1>2, <1>f, <1>4 DEF Phases
<1>7. Whole' /\ Working' BY <1>2 DEF Whole, Working, Writing, Repaired
<1>8. Prepared' /\ Stitching' /\ Walking' BY <1>2 DEF Prepared, Stitching, Walking, Opening
<1>9. Locs'
  <2>1. loc[p].gen <= hcache.generation
        /\ Fit(loc[p], hcache.generation, hcache.current_size, then(hcache), Base)
    BY <1>1, <1>2, TwoSkipAssumption DEF Locs
  <2>2. pc' \notin Writing BY <1>2 DEF Writing
  <2> QED BY <1>2, <1>3, <1>f, <2>1, <2>2, LocsKept
<1>10. Storing
  <2>1. View' = View /\ Left' = Left BY <1>f, QuietView
  <2>2. Store!Lock(p) BY <1>2, <2>1 DEF Store!Lock, Left, then
  <2> QED BY <2>2 DEF Storing, Store!Next
<1> QED BY <1>3, <1>5, <1>6, <1>7, <1>8, <1>9, <1>10 DEF SkipInv

\* newtxn is a lock of the abstract store.
LEMMA BeginStore ==
  ASSUME SkipInv, NEW p \in Proc, Begin(p)
  PROVE  Storing
<1>1. UNCHANGED <<cache, size, hcache, disk, sdisk, hdisk, face>> /\ UNCHANGED acked
      /\ owner = NoProc /\ owner' = p
  BY DEF Begin, fileVars
<1>2. View' = View /\ Left' = Left BY <1>1, QuietView
<1>3. work' \in {NoTxn, View} BY <1>1 DEF Begin, SkipInv, ProcTypes
<1>4. Store!Lock(p) BY <1>1, <1>2, <1>3 DEF Store!Lock, Left, then
<1> QED BY <1>4 DEF Storing, Store!Next

\* A shared transaction changes nothing but the set of readers.
LEMMA SharedStep ==
  ASSUME SkipInv, NEW p \in Proc, BeginShared(p) \/ EndShared(p)
  PROVE  SkipInv' /\ Storing /\ Filing
<1>1. /\ FileInv /\ FileMore /\ ProcTypes /\ Phases /\ Whole /\ Working
      /\ Prepared /\ Stitching /\ Walking /\ Locs
  BY DEF SkipInv
<1>2. UNCHANGED <<fileVars, owner, pc, op, num, rv, ret, loc, iter, titer, work, acked>>
  BY DEF BeginShared, EndShared
<1>3. /\ FileInv' /\ Filing /\ FileMore' /\ then(hcache)' = then(hcache) /\ now' = now /\ W' = W
      /\ Base' = Base /\ DirtyDurable' = DirtyDurable
  BY <1>1, <1>2, QuietAll
<1>f. UNCHANGED <<cache, size, hcache, disk, sdisk, hdisk, phase, face>> BY <1>2 DEF fileVars
<1>4. ProcTypes'
  <2>1. readers' \subseteq Proc /\ (owner # NoProc => readers' = {})
    BY <1>1 DEF BeginShared, EndShared, CanRead, ProcTypes
  <2> QED BY <1>1, <1>2, <2>1 DEF ProcTypes
<1>5. Phases' BY <1>1, <1>2, <1>3, <1>f DEF Phases
<1>6. Whole' /\ Working' BY <1>1, <1>2, <1>3, <1>f DEF Whole, Working
<1>7. Prepared' BY <1>1, <1>2, <1>3, <1>f DEF Prepared, IsStore, IsDelete, levelat
<1>8. Stitching' BY <1>1, <1>2, <1>3, <1>f DEF Stitching, Stitched
<1>9. Walking' BY <1>1, <1>2, <1>3, <1>f DEF Walking
<1>10. Locs' BY <1>1, <1>2, <1>3, <1>f DEF Locs
<1>11. Storing BY <1>2, <1>f, QuietView, Unseen
<1> QED BY <1>3, <1>4, <1>5, <1>6, <1>7, <1>8, <1>9, <1>10, <1>11 DEF SkipInv

\* A lookup moves the location to a place that is right.
LEMMA Looked ==
  ASSUME SkipInv, NEW p \in Proc, CanRead \/ InTxn(p), NEW l, IsLoc(now, W, l), Tagged(l),
         loc' = [loc EXCEPT ![p] = l],
         UNCHANGED <<fileVars, owner, readers, pc, op, num, rv, ret, work, acked>>,
         iter' \in [Proc -> Key \cup {0}], titer' \in Key \cup {0}
  PROVE  SkipInv' /\ Storing /\ Filing
<1>1. /\ FileInv /\ FileMore /\ ProcTypes /\ Phases /\ Whole /\ Working /\ Locs
  BY DEF SkipInv
<1>2. UNCHANGED <<fileVars, owner, readers, pc, op, num, rv, ret, work, acked>> OBVIOUS
<1>3. /\ FileInv' /\ Filing /\ FileMore' /\ then(hcache)' = then(hcache) /\ now' = now /\ W' = W
      /\ Base' = Base /\ DirtyDurable' = DirtyDurable
  BY <1>1, <1>2, QuietAll
<1>f. UNCHANGED <<cache, size, hcache, disk, sdisk, hdisk, phase, face>> BY <1>2 DEF fileVars
<1>a. pc \in {"idle", "txn"} /\ owner \in {p, NoProc} /\ (pc = "idle" => db_is_clean(hcache, size))
  BY <1>1, TwoSkipAssumption DEF CanRead, InTxn, ProcTypes
<1>b. l \in LocType /\ l.gen = hcache.generation /\ Fit(l, hcache.generation, size + 1, now, W)
  BY <1>1, FileFacts, TaggedOk
<1>c. loc \in [Proc -> LocType] BY <1>1 DEF ProcTypes
<1>4. ProcTypes'
  <2>1. loc' \in [Proc -> LocType] BY <1>b, <1>c
  <2> QED BY <1>1, <1>2, <2>1 DEF ProcTypes
<1>5. Phases' BY <1>1, <1>2, <1>3, <1>f DEF Phases
<1>6. Whole' /\ Working' BY <1>1, <1>2, <1>3, <1>f DEF Whole, Working
<1>7. Prepared' /\ Stitching' /\ Walking'
  BY <1>2, <1>a DEF Prepared, Stitching, Walking, Opening
<1>8. Locs'
  <2>1. loc'[p] = l /\ \A q \in Proc : q # p => loc'[q] = loc[q] BY <1>c
  <2>2. owner' = p => pc' = "txn" BY <1>a, <1>2, <1>1, TwoSkipAssumption DEF ProcTypes
  <2>3. ASSUME owner' # p \/ pc' \notin Writing \cup {"stitch"}
        PROVE Fit(l, hcache.generation, hcache.current_size, then(hcache), Base)
    <3>1. owner = NoProc /\ pc = "idle"
      BY <1>1, <1>2, <1>a, <2>2, <2>3, TwoSkipAssumption DEF ProcTypes, Writing
    <3>2. hcache.current_size = size + 1 BY <1>a, <3>1 DEF db_is_clean
    <3> QED BY <1>1, <1>b, <3>2, LocSame
  <2>4. l.gen <= hcache.generation BY <1>1, <1>b, FileFacts
  <2> QED BY <1>2, <1>3, <1>a, <1>f, <1>b, <2>1, <2>3, <2>4, LocsKept
<1>9. Storing BY <1>2, <1>f, QuietView, Unseen
<1> QED BY <1>3, <1>4, <1>5, <1>6, <1>7, <1>8, <1>9 DEF SkipInv

\* The location of a process that may read is right if it is as new as the file.
LEMMA ReadUsable ==
  ASSUME SkipInv, NEW p \in Proc, CanRead \/ InTxn(p)
  PROVE  Sound(W) /\ Usable(W, loc[p])
<1>1. FileInv /\ FileMore /\ ProcTypes /\ Locs BY DEF SkipInv
<1>2. Sound(W) BY ReadyFacts DEF InTxn
<1>3. loc[p] \in LocType /\ hcache.generation \in Nat /\ loc[p].gen <= hcache.generation
  BY <1>1, FileFacts DEF ProcTypes, Locs
<1>4. Fit(loc[p], hcache.generation, size + 1, now, W)
  <2>1. CASE InTxn(p) BY <1>1, <2>1 DEF Locs, InTxn, Writing
  <2>2. CASE CanRead
    <3>1. owner # p /\ hcache.current_size = size + 1
      BY <2>2, TwoSkipAssumption DEF CanRead, db_is_clean
    <3>2. Fit(loc[p], hcache.generation, hcache.current_size, then(hcache), Base)
      BY <1>1, <3>1 DEF Locs
    <3> QED BY <1>1, <3>1, <3>2, LocSame
  <2> QED BY <2>1, <2>2
<1> QED BY <1>2, <1>3, <1>4, LocUsable

\* The contents of a file that can be read.
LEMMA ReadContent ==
  ASSUME NEW L, Sound(L)
  PROVE  /\ Content(cache, size + 1) = ContentOf(now, L)
         /\ DOMAIN ContentOf(now, L) = KeysOf(now, L)
         /\ \A o \in L : ContentOf(now, L)[now[o].key] = now[o].val
<1>1. /\ now \in [Offset -> FaceRec] /\ size + 1 \in 2 .. MaxOffset + 1
      /\ List(now, size + 1, L) /\ Records(now, size + 1, L)
  BY SoundFacts
<1>2. FaceContent(now) = ContentOf(now, L) BY <1>1, ContentList
<1>3. /\ DOMAIN ContentOf(now, L) = KeysOf(now, L)
      /\ \A o \in L : ContentOf(now, L)[now[o].key] = now[o].val
  BY <1>1, ContentFacts
<1> QED BY <1>2, <1>3 DEF Content, now

\* The next key of an iteration.
LEMMA NextKey ==
  ASSUME NEW L, Sound(L), NEW l, Usable(L, l), l.key \in Nat
  PROVE  LET n == advance_loc(l)
         IN ForeachStep(l.key, IF n.exact THEN n.key ELSE 0)
<1> DEFINE n == advance_loc(l)
           D == {k \in KeysOf(now, L) : k > l.key}
<1>1. /\ n.exact => \E o \in L : n.key = now[o].key /\ IsNext(now, L, l.key, o)
      /\ ~n.exact => IsNext(now, L, l.key, 0)
      /\ n \in LocType
  BY Advanced DEF Tagged
<1>2. /\ \A o \in L : now[o].key \in Nat /\ now[o].key > 0
      /\ 0 \notin L
  BY SoundFacts DEF Nodes
<1>3. ForeachStep(l.key, IF n.exact THEN n.key ELSE 0)
        <=> (IF n.exact THEN n.key ELSE 0) = (IF D = {} THEN 0 ELSE Min(D))
  BY ReadContent DEF ForeachStep
<1>4. n.exact \in BOOLEAN BY <1>1 DEF LocType
<1> SUFFICES ForeachStep(l.key, IF n.exact THEN n.key ELSE 0) OBVIOUS
<1> HIDE DEF n
<1>5. CASE ~n.exact
  <2>1. D = {} BY <1>1, <1>2, <1>5 DEF IsNext, KeysOf
  <2> QED BY <1>3, <1>5, <2>1
<1>6. CASE n.exact
  <2>1. PICK o \in L : n.key = now[o].key /\ IsNext(now, L, l.key, o) BY <1>1, <1>6
  <2>2. o # 0 /\ now[o].key > l.key /\ \A x \in L : now[x].key > l.key => now[o].key <= now[x].key
    BY <1>2, <2>1 DEF IsNext
  <2>3. now[o].key \in D /\ \A y \in D : now[o].key <= y BY <2>2 DEF KeysOf
  <2>4. D \subseteq Nat BY <1>2 DEF KeysOf
  <2> HIDE DEF D
  <2>5. Min(D) \in D /\ \A y \in D : Min(D) <= y BY <2>3, <2>4, Least
  <2>6. Min(D) = now[o].key
    <3>1. Min(D) \in Nat /\ now[o].key \in Nat BY <2>3, <2>4, <2>5
    <3>2. Min(D) <= now[o].key /\ now[o].key <= Min(D) BY <2>3, <2>5
    <3> QED BY <3>1, <3>2
  <2> QED BY <1>3, <1>6, <2>1, <2>3, <2>6
<1> QED BY <1>4, <1>5, <1>6

\* Each lookup finds its place, and an iteration its next key.
LEMMA LookupStep ==
  ASSUME SkipInv, NEW p \in Proc,
         \/ \E k \in Key : myfetch(p, k) \/ fetchnext(p, k)
         \/ myforeach(p) \/ foreachInTxn(p)
  PROVE  /\ SkipInv' /\ Storing /\ Filing
         /\ myforeach(p) => ForeachStep(iter[p], iter'[p])
         /\ foreachInTxn(p) => ForeachStep(titer, titer')
<1>1. FileInv /\ FileMore /\ ProcTypes BY DEF SkipInv
<1>2. CanRead \/ InTxn(p) BY DEF myfetch, fetchnext, myforeach, foreachInTxn, lookup
<1>3. Sound(W) /\ Usable(W, loc[p]) BY <1>2, ReadUsable
<1>4. \A k \in Key \cup {0} :
        LET l == find_loc(loc[p], k)
            n == advance_loc(l)
        IN /\ IsLoc(now, W, l) /\ l.key = k /\ Tagged(l)
           /\ IsLoc(now, W, n) /\ Tagged(n) /\ n.key \in Key \cup {0}
           /\ ForeachStep(k, IF n.exact THEN n.key ELSE 0)
  <2> SUFFICES ASSUME NEW k \in Key \cup {0}
               PROVE  LET l == find_loc(loc[p], k)
                          n == advance_loc(l)
                      IN /\ IsLoc(now, W, l) /\ l.key = k /\ Tagged(l)
                         /\ IsLoc(now, W, n) /\ Tagged(n) /\ n.key \in Key \cup {0}
                         /\ ForeachStep(k, IF n.exact THEN n.key ELSE 0)
    OBVIOUS
  <2> DEFINE l == find_loc(loc[p], k)
             n == advance_loc(l)
  <2>1. IsLoc(now, W, l) /\ l.key = k /\ Tagged(l) BY <1>3, Found
  <2> HIDE DEF l
  <2>2. Usable(W, l) BY <2>1 DEF Usable, Tagged
  <2>3. IsLoc(now, W, n) /\ Tagged(n) BY <1>3, <2>2, Advanced
  <2>4. k \in Nat BY Keys
  <2>5. ForeachStep(l.key, IF n.exact THEN n.key ELSE 0) BY <1>3, <2>1, <2>2, <2>4, NextKey
  <2> HIDE DEF n
  <2>6. n.key \in Key \cup {0} BY <2>3 DEF Tagged, LocType
  <2> QED BY <2>1, <2>3, <2>5, <2>6 DEF l, n
<1>5. iter \in [Proc -> Key \cup {0}] /\ titer \in Key \cup {0} BY <1>1 DEF ProcTypes
<1>6. ASSUME NEW k \in Key, myfetch(p, k) PROVE SkipInv' /\ Storing /\ Filing
  <2> DEFINE l == find_loc(loc[p], k)
  <2>1. IsLoc(now, W, l) /\ Tagged(l) BY <1>4
  <2>2. /\ loc' = [loc EXCEPT ![p] = l] /\ UNCHANGED <<iter, titer>>
        /\ UNCHANGED <<fileVars, owner, readers, pc, op, num, rv, ret, work, acked>>
    BY <1>6 DEF myfetch, lookup
  <2> HIDE DEF l
  <2> QED BY <1>2, <1>5, <2>1, <2>2, Looked
<1>7. ASSUME NEW k \in Key, fetchnext(p, k) PROVE SkipInv' /\ Storing /\ Filing
  <2> DEFINE l == advance_loc(find_loc(loc[p], k))
  <2>1. IsLoc(now, W, l) /\ Tagged(l) BY <1>4
  <2>2. /\ loc' = [loc EXCEPT ![p] = l] /\ UNCHANGED <<iter, titer>>
        /\ UNCHANGED <<fileVars, owner, readers, pc, op, num, rv, ret, work, acked>>
    BY <1>7 DEF fetchnext, lookup
  <2> HIDE DEF l
  <2> QED BY <1>2, <1>5, <2>1, <2>2, Looked
<1>8. ASSUME myforeach(p) PROVE SkipInv' /\ Storing /\ Filing /\ ForeachStep(iter[p], iter'[p])
  <2> DEFINE l == advance_loc(find_loc(loc[p], iter[p]))
  <2>1. /\ IsLoc(now, W, l) /\ Tagged(l) /\ l.key \in Key \cup {0}
        /\ ForeachStep(iter[p], IF l.exact THEN l.key ELSE 0)
    BY <1>4, <1>5
  <2>2. /\ loc' = [loc EXCEPT ![p] = l] /\ UNCHANGED titer
        /\ iter' = [iter EXCEPT ![p] = IF l.exact THEN l.key ELSE 0]
        /\ UNCHANGED <<fileVars, owner, readers, pc, op, num, rv, ret, work, acked>>
    BY <1>8 DEF myforeach, lookup
  <2> HIDE DEF l
  <2>3. iter' \in [Proc -> Key \cup {0}] /\ iter'[p] = IF l.exact THEN l.key ELSE 0
    BY <1>5, <2>1, <2>2
  <2>4. SkipInv' /\ Storing /\ Filing BY <1>2, <1>5, <2>1, <2>2, <2>3, Looked
  <2> QED BY <2>1, <2>3, <2>4
<1>9. ASSUME foreachInTxn(p) PROVE SkipInv' /\ Storing /\ Filing /\ ForeachStep(titer, titer')
  <2> DEFINE l == advance_loc(find_loc(loc[p], titer))
  <2>1. /\ IsLoc(now, W, l) /\ Tagged(l) /\ l.key \in Key \cup {0}
        /\ ForeachStep(titer, IF l.exact THEN l.key ELSE 0)
    BY <1>4, <1>5
  <2>2. /\ loc' = [loc EXCEPT ![p] = l] /\ UNCHANGED iter
        /\ titer' = IF l.exact THEN l.key ELSE 0
        /\ UNCHANGED <<fileVars, owner, readers, pc, op, num, rv, ret, work, acked>>
    BY <1>9 DEF foreachInTxn, lookup
  <2> HIDE DEF l
  <2>3. titer' \in Key \cup {0} BY <2>1, <2>2
  <2>4. SkipInv' /\ Storing /\ Filing BY <1>2, <1>5, <2>1, <2>2, <2>3, Looked
  <2> QED BY <2>1, <2>2, <2>4
<1> QED BY <1>6, <1>7, <1>8, <1>9

\* What a process that may read finds.
LEMMA FoundRight ==
  ASSUME SkipInv, NEW p \in Proc, CanRead \/ InTxn(p), NEW k \in Key
  PROVE  LET l == find_loc(loc[p], k)
             content == Content(cache, size + 1)
         IN /\ l = relocate(k)
            /\ l.exact = (k \in DOMAIN content)
            /\ l.exact => cache[l.at].val = content[k]
<1> DEFINE l == find_loc(loc[p], k)
<1>1. Sound(W) /\ Usable(W, loc[p]) BY ReadUsable
<1>2. IsLoc(now, W, l) /\ l.key = k /\ l = relocate(k) /\ l \in LocType BY <1>1, Found DEF Tagged
<1>3. /\ Content(cache, size + 1) = ContentOf(now, W)
      /\ DOMAIN ContentOf(now, W) = KeysOf(now, W)
      /\ \A o \in W : ContentOf(now, W)[now[o].key] = now[o].val
  BY <1>1, ReadContent
<1> HIDE DEF l
<1>4. l.exact = (\E o \in W : now[o].key = k) BY <1>2 DEF IsLoc
<1>5. l.exact => l.at \in W /\ now[l.at].key = k BY <1>2 DEF IsLoc
<1>6. \A o \in W : cache[o].val = now[o].val BY <1>1, SoundFacts, FacesAt DEF Sound, now
<1>7. l.exact = (k \in KeysOf(now, W))
  <2>1. (\E o \in W : now[o].key = k) <=> k \in KeysOf(now, W) BY DEF KeysOf
  <2>2. l.exact \in BOOLEAN BY <1>2 DEF LocType
  <2>3. l.exact <=> (\E o \in W : now[o].key = k) BY <1>4, <2>2
  <2>4. l.exact <=> k \in KeysOf(now, W) BY <2>1, <2>3
  <2> QED BY <2>2, <2>4
<1>8. l.exact => cache[l.at].val = ContentOf(now, W)[k] BY <1>3, <1>5, <1>6
<1> QED BY <1>2, <1>3, <1>7, <1>8 DEF l

-----------------------------------------------------------------------------
(* The operations of a transaction.                                         *)

\* What holds between two operations of a transaction.
LEMMA InTxnFacts ==
  ASSUME SkipInv, NEW p \in Proc, InTxn(p)
  PROVE  /\ owner = p /\ pc = "txn" /\ p # NoProc /\ readers = {} /\ op = NoOp /\ ret = "idle"
         /\ Full(cache, size, W) /\ Sound(W) /\ work = ContentOf(now, W) /\ num = Cardinality(W)
         /\ IsFiniteSet(W) /\ num \in Nat
         /\ hcache.flags = "dirty" => phase = "txn" /\ DirtyDurable
         /\ hcache.flags # "dirty" => phase = "clean" /\ hcache.flags = "clean"
<1>1. FileInv /\ FileMore /\ ProcTypes /\ Phases /\ Whole /\ Working BY DEF SkipInv
<1>2. owner = p /\ pc = "txn" /\ p # NoProc /\ readers = {} /\ op = NoOp /\ ret = "idle"
  BY <1>1, TwoSkipAssumption DEF InTxn, ProcTypes, Opening, Mending, Repaired
<1>3. Full(cache, size, W) /\ work = ContentOf(now, W) /\ num = Cardinality(W)
  BY <1>1, <1>2 DEF Whole, Working, Writing
<1>4. Sound(W) BY <1>1, <1>3, WholeSound
<1>5. IsFiniteSet(W)
  <2>1. W \subseteq 1 .. MaxOffset BY <1>4, SoundFacts DEF Offset
  <2>2. IsFiniteSet(1 .. MaxOffset) BY FS_Interval, FileAssumption
  <2> QED BY <2>1, <2>2, FS_Subset
<1>6. num \in Nat BY <1>3, <1>5, FS_CardinalityType
<1>7. /\ hcache.flags = "dirty" => phase = "txn" /\ DirtyDurable
      /\ hcache.flags # "dirty" => phase = "clean" /\ hcache.flags = "clean"
  <2>1. hcache.flags \in {"clean", "dirty"} BY <1>1, CleanFacts
  <2>2. phase = "clean" => hcache.flags = "clean" BY <1>1 DEF FileInv, Ordered, db_is_clean
  <2> QED BY <1>1, <1>2, <2>1, <2>2 DEF Phases
<1> QED BY <1>2, <1>3, <1>4, <1>5, <1>6, <1>7

\* The record of a write is prepared.
LEMMA StartWrite ==
  ASSUME SkipInv, NEW p \in Proc, InTxn(p), NEW l, IsLoc(now, W, l), Tagged(l), l.key # 0,
         NEW rec, NEW mx, IsStore(l, rec, mx) \/ IsDelete(l, rec, mx), size < MaxOffset,
         startWrite(p, l, rec, mx, IF l.exact THEN num - 1 ELSE num)
  PROVE  SkipInv' /\ Storing /\ Filing
<1>1. FileInv /\ FileMore /\ ProcTypes /\ Phases /\ Whole /\ Working /\ Locs BY DEF SkipInv
<1>2. /\ owner = p /\ pc = "txn" /\ p # NoProc /\ readers = {} /\ op = NoOp /\ ret = "idle"
      /\ Full(cache, size, W) /\ Sound(W) /\ work = ContentOf(now, W) /\ num = Cardinality(W)
      /\ IsFiniteSet(W) /\ num \in Nat
      /\ hcache.flags = "dirty" => phase = "txn" /\ DirtyDurable
      /\ hcache.flags # "dirty" => phase = "clean" /\ hcache.flags = "clean"
  BY InTxnFacts
<1>3. /\ op' = [rec |-> rec, max |-> mx, lvl |-> 0]
      /\ num' = IF l.exact THEN num - 1 ELSE num
      /\ loc' = [loc EXCEPT ![p] = l]
      /\ pc' = IF hcache.flags = "dirty" THEN "append" ELSE "dirty"
      /\ UNCHANGED <<fileVars, owner, readers, ret, rv, iter, titer, acked, work>>
  BY DEF startWrite, owned
<1>4. /\ FileInv' /\ Filing /\ FileMore' /\ then(hcache)' = then(hcache) /\ now' = now /\ W' = W
      /\ Base' = Base /\ DirtyDurable' = DirtyDurable
  BY <1>1, <1>3, QuietAll
<1>f. UNCHANGED <<cache, size, hcache, disk, sdisk, hdisk, phase, face>> BY <1>3 DEF fileVars
<1>5. l \in LocType /\ l.gen = hcache.generation /\ Fit(l, hcache.generation, size + 1, now, W)
  BY <1>1, FileFacts, TaggedOk
<1>6. loc \in [Proc -> LocType] BY <1>1 DEF ProcTypes
<1>7. rec.type \in {"RECORD", "DELETE"} BY <1>2, OpRecord
<1>8. op' # NoOp
  <2>1. op'.rec.type = rec.type BY <1>3
  <2>2. NoOp.rec.type = "ABSENT" BY DEF NoOp, Absent
  <2> QED BY <1>7, <2>1, <2>2
<1>9. l.exact \in BOOLEAN /\ (l.exact => l.at \in W) BY <1>5 DEF IsLoc, LocType
<1>10. num' = Cardinality(IF l.exact THEN W \ {l.at} ELSE W) /\ num' \in Int
  <2>1. CASE l.exact
    <3>1. l.at \in W BY <1>9, <2>1
    <3>2. Cardinality(W \ {l.at}) = Cardinality(W) - 1 BY <1>2, <3>1, FS_RemoveElement
    <3> QED BY <1>2, <1>3, <2>1, <3>2
  <2>2. CASE ~l.exact BY <1>2, <1>3, <2>2
  <2> QED BY <2>1, <2>2
<1>11. loc' \in [Proc -> LocType] /\ loc'[p] = l /\ \A q \in Proc : q # p => loc'[q] = loc[q]
  BY <1>3, <1>5, <1>6
<1>12. ProcTypes'
  <2>1. pc' \in Opening /\ pc' \notin {"idle"} /\ pc' \notin Mending
    BY <1>3 DEF Opening, Mending, Repaired
  <2>2. pc' \in {"idle", "stitch", "publishsync", "finish", "returned"} \cup Writing \cup Mending
    BY <1>3 DEF Writing
  <2> QED BY <1>1, <1>2, <1>3, <1>8, <1>10, <1>11, <2>1, <2>2 DEF ProcTypes
<1>13. Phases' BY <1>2, <1>3, <1>4, <1>f DEF Phases
<1>14. Whole' BY <1>2, <1>4, <1>f DEF Whole
<1>15. Working' BY <1>2, <1>3, <1>4, <1>f DEF Working
<1>16. Prepared'
  <2>1. l.end = size + 1 BY DEF Tagged
  <2>2. (IsStore(l, rec, mx) \/ IsDelete(l, rec, mx))'
    BY <1>f DEF IsStore, IsDelete, levelat
  <2>3. loc'[owner'] = l /\ op'.rec = rec /\ op'.max = mx /\ op'.lvl = 0 BY <1>2, <1>3, <1>11
  <2> QED BY <1>3, <1>4, <1>5, <1>10, <1>f, <2>1, <2>2, <2>3 DEF Prepared
<1>17. Stitching' /\ Walking' BY <1>3 DEF Stitching, Walking
<1>18. Locs'
  <2>1. pc' \in Writing BY <1>3 DEF Writing
  <2>2. l.gen <= hcache.generation BY <1>1, <1>5, FileFacts
  <2> QED BY <1>2, <1>3, <1>4, <1>5, <1>11, <1>f, <2>1, <2>2, LocsKept
<1>19. Storing BY <1>3, <1>f, QuietView, Unseen
<1> QED BY <1>4, <1>12, <1>13, <1>14, <1>15, <1>16, <1>17, <1>18, <1>19 DEF SkipInv

\* The transaction is undone; what was written is left to recovery1.
LEMMA AbortStep ==
  ASSUME SkipInv, NEW p \in Proc, owner = p, work # NoTxn, abort(p),
         \/ pc = "txn" /\ pc' = "recover" /\ UNCHANGED phase
         \/ pc' = "dummy" /\ phase' = "fix"
            /\ phase \in {"clean", "dead", "dirtying", "txn", "commit"}
  PROVE  SkipInv' /\ Storing /\ Filing
<1>1. FileInv /\ FileMore /\ ProcTypes /\ Phases /\ Locs BY DEF SkipInv
<1>2. /\ ret' = "idle" /\ loc' = [loc EXCEPT ![p] = NoLoc]
      /\ work' = NoTxn /\ op' = NoOp /\ titer' = 0
      /\ UNCHANGED <<cache, size, hcache, disk, sdisk, hdisk, face,
                     owner, readers, num, rv, iter, acked>>
  BY DEF abort
<1>3. FileInv' /\ Filing
  <2>1. CASE phase' = phase
    <3>1. UNCHANGED fileVars BY <1>2, <2>1 DEF fileVars
    <3> QED BY <1>1, <3>1, FileKept
  <2>2. CASE phase' # phase
    <3>1. BeginRecovery BY <1>2, <2>2 DEF BeginRecovery
    <3> QED BY <1>1, <3>1, FileKept DEF FileNext
  <2> QED BY <2>1, <2>2
<1>4. /\ FileMore' /\ then(hcache)' = then(hcache) /\ now' = now /\ W' = W
      /\ Base' = Base /\ DirtyDurable' = DirtyDurable
  BY <1>1, <1>2, Quiet
<1>5. loc \in [Proc -> LocType] BY <1>1 DEF ProcTypes
<1>6. loc' \in [Proc -> LocType] /\ loc'[p] = NoLoc /\ \A q \in Proc : q # p => loc'[q] = loc[q]
  BY <1>2, <1>5, NoLocType
<1>p. p # NoProc BY TwoSkipAssumption
<1>7. ProcTypes'
  <2>1. pc' \in Mending /\ pc' \notin Opening \cup {"stitch"} /\ pc' # "idle"
    BY DEF Opening, Mending
  <2> QED BY <1>1, <1>2, <1>6, <1>p, <2>1, NoOpForm DEF ProcTypes
<1>8. Phases'
  <2>1. CASE pc = "txn" /\ pc' = "recover" /\ UNCHANGED phase
    BY <1>1, <1>2, <2>1 DEF Phases
  <2>2. CASE pc' = "dummy" /\ phase' = "fix" BY <2>2 DEF Phases
  <2> QED BY <2>1, <2>2
<1>9. Whole' /\ Working' BY DEF Whole, Working, Writing, Repaired
<1>10. Prepared' /\ Stitching' /\ Walking' BY DEF Prepared, Stitching, Walking, Opening
<1>11. Locs'
  <2>1. pc' \notin Writing BY DEF Writing
  <2>2. /\ NoLoc.gen <= hcache.generation
        /\ Fit(NoLoc, hcache.generation, hcache.current_size, then(hcache), Base)
    BY <1>1, FileFacts, NoLocFit, NoLocType
  <2> QED BY <1>2, <1>4, <1>6, <2>1, <2>2, LocsKept
<1>12. Storing
  <2>1. View' = View /\ Left' = Left BY <1>2, QuietView
  <2>2. Store!Abort BY <1>2, <2>1 DEF Store!Abort, Left, then
  <2> QED BY <2>2 DEF Storing, Store!Next
<1> QED BY <1>3, <1>4, <1>7, <1>8, <1>9, <1>10, <1>11, <1>12 DEF SkipInv

\* An open transaction has contents.
LEMMA WorkOpen ==
  ASSUME SkipInv, pc \in Writing \cup {"stitch", "publishsync", "finish"}
  PROVE  work # NoTxn
<1>1. FileInv /\ FileMore /\ Whole /\ Working /\ Stitching BY DEF SkipInv
<1>2. CASE pc = "stitch"
  <2>1. PICK L \in SUBSET Offset : Stitched(L) BY <1>1, <1>2 DEF Stitching
  <2>2. Records(now, size, L) /\ work = ContentOf(now, L) BY <2>1 DEF Stitched, Fits
  <2> QED BY <2>2, ContentFacts
<1>3. CASE pc # "stitch"
  <2>1. Full(cache, size, W) /\ work = ContentOf(now, W) BY <1>1, <1>3 DEF Whole, Working
  <2>2. Records(now, size + 1, W) BY <2>1, <1>1, WholeSound, SoundFacts
  <2> QED BY <2>1, <2>2, ContentFacts
<1> QED BY <1>2, <1>3

\* myabort, and an operation that fails before it has written.
LEMMA GiveUpStep ==
  ASSUME SkipInv, NEW p \in Proc, InTxn(p), giveUp(p)
  PROVE  SkipInv' /\ Storing /\ Filing
<1>1. owner = p /\ pc = "txn" /\ pc \in Writing BY DEF InTxn, Writing
<1>2. work # NoTxn BY <1>1, WorkOpen
<1> QED BY <1>1, <1>2, AbortStep DEF giveUp

\* A write or sync of the transaction fails.
LEMMA IoFailStep ==
  ASSUME SkipInv, NEW p \in Proc, IoFail(p)
  PROVE  SkipInv' /\ Storing /\ Filing
<1>1. /\ owner = p /\ pc \in Writing \cup {"stitch"} /\ abort(p) /\ pc' = "dummy" /\ phase' = "fix"
      /\ pc \in {"dirty", "dirtysync", "append", "stitch", "commitsync"}
  BY DEF IoFail, Writing
<1>2. phase \in {"clean", "dead", "dirtying", "txn", "commit"} BY <1>1 DEF SkipInv, Phases
<1>3. work # NoTxn BY <1>1, WorkOpen
<1> QED BY <1>1, <1>2, <1>3, AbortStep

\* mystore with data: an error, no change, or the start of a write.
LEMMA StoreStep ==
  ASSUME SkipInv, NEW p \in Proc, NEW k \in Key, NEW v \in Val, NEW force, store(p, k, v, force)
  PROVE  SkipInv' /\ Storing /\ Filing
<1> DEFINE l == find_loc(loc[p], k)
<1>1. InTxn(p) BY DEF store
<1>2. Sound(W) /\ Usable(W, loc[p]) BY <1>1, ReadUsable
<1>3. IsLoc(now, W, l) /\ l.key = k /\ Tagged(l) /\ l.exact \in BOOLEAN
  BY <1>2, Found DEF Tagged, LocType
<1>4. giveUp(p) \/ nowrite(p, l) \/ (Room /\ store_here(p, l, v))
  BY DEF store
<1>5. l.key # 0 BY <1>3, Keys
<1>6. size \in Nat BY FileFacts DEF SkipInv
<1> HIDE DEF l
<1>7. CASE giveUp(p) BY <1>1, <1>7, GiveUpStep
<1>8. CASE nowrite(p, l)
  <2>1. /\ loc' = [loc EXCEPT ![p] = l]
        /\ UNCHANGED <<fileVars, owner, readers, pc, op, num, rv, ret, work, acked>>
        /\ UNCHANGED <<iter, titer>>
    BY <1>8 DEF nowrite, owned
  <2>2. iter' \in [Proc -> Key \cup {0}] /\ titer' \in Key \cup {0}
    BY <2>1 DEF SkipInv, ProcTypes
  <2> QED BY <1>1, <1>3, <2>1, <2>2, Looked
<1>9. CASE Room /\ store_here(p, l, v)
  <2>1. size < MaxOffset BY <1>6, <1>9, FileAssumption DEF Room
  <2>2. PICK level \in 1 .. MaxLevel :
          startWrite(p, l,
            [type |-> "RECORD", level |-> level, key |-> l.key, val |-> v,
             nextloc |-> [j \in 0..MaxLevel |-> IF j \in 1..level THEN l.fwd[j - 1] ELSE 0]],
            IF l.exact THEN Max({level, levelat(l.at)}) ELSE level,
            IF l.exact THEN num - 1 ELSE num)
    BY <1>9 DEF store_here
  <2> DEFINE rec == [type |-> "RECORD", level |-> level, key |-> l.key, val |-> v,
                     nextloc |-> [j \in 0..MaxLevel |-> IF j \in 1..level THEN l.fwd[j - 1] ELSE 0]]
             mx == IF l.exact THEN Max({level, levelat(l.at)}) ELSE level
  <2>3. IsStore(l, rec, mx) BY DEF IsStore
  <2>4. startWrite(p, l, rec, mx, IF l.exact THEN num - 1 ELSE num) BY <2>2
  <2> HIDE DEF rec, mx
  <2> QED BY <1>1, <1>3, <1>5, <2>1, <2>3, <2>4, StartWrite
<1> QED BY <1>4, <1>7, <1>8, <1>9

\* mystore without data: an error, no change, or the start of a write.
LEMMA DeleteStep ==
  ASSUME SkipInv, NEW p \in Proc, NEW k \in Key, NEW force, delete(p, k, force)
  PROVE  SkipInv' /\ Storing /\ Filing
<1> DEFINE l == find_loc(loc[p], k)
<1>1. InTxn(p) BY DEF delete
<1>2. Sound(W) /\ Usable(W, loc[p]) BY <1>1, ReadUsable
<1>3. IsLoc(now, W, l) /\ l.key = k /\ Tagged(l) /\ l.exact \in BOOLEAN
  BY <1>2, Found DEF Tagged, LocType
<1>4. giveUp(p) \/ nowrite(p, l) \/ (l.exact /\ Room /\ delete_here(p, l))
  BY DEF delete
<1>5. l.key # 0 BY <1>3, Keys
<1>6. size \in Nat BY FileFacts DEF SkipInv
<1> HIDE DEF l
<1>7. CASE giveUp(p) BY <1>1, <1>7, GiveUpStep
<1>8. CASE nowrite(p, l)
  <2>1. /\ loc' = [loc EXCEPT ![p] = l]
        /\ UNCHANGED <<fileVars, owner, readers, pc, op, num, rv, ret, work, acked>>
        /\ UNCHANGED <<iter, titer>>
    BY <1>8 DEF nowrite, owned
  <2>2. iter' \in [Proc -> Key \cup {0}] /\ titer' \in Key \cup {0}
    BY <2>1 DEF SkipInv, ProcTypes
  <2> QED BY <1>1, <1>3, <2>1, <2>2, Looked
<1>9. CASE l.exact /\ Room /\ delete_here(p, l)
  <2>1. size < MaxOffset BY <1>6, <1>9, FileAssumption DEF Room
  <2> DEFINE rec == [Absent EXCEPT !.type = "DELETE",
                       !.nextloc = [NoPtrs EXCEPT ![0] = skipdelete(cache, l.fwd[0])]]
             mx == levelat(l.at)
  <2>3. IsDelete(l, rec, mx) BY <1>9 DEF IsDelete
  <2>4. startWrite(p, l, rec, mx, IF l.exact THEN num - 1 ELSE num) BY <1>9 DEF delete_here
  <2> HIDE DEF rec, mx
  <2> QED BY <1>1, <1>3, <1>5, <2>1, <2>3, <2>4, StartWrite
<1> QED BY <1>4, <1>7, <1>8, <1>9

-----------------------------------------------------------------------------
(* The end of a transaction and of a process.                               *)

\* Nobody has the write lock, and the locations fit the file.
Rested ==
  /\ owner = NoProc /\ pc = "idle" /\ work = NoTxn /\ op = NoOp /\ num = 0
  /\ ret = "idle" /\ titer = 0 /\ readers \subseteq Proc
  /\ loc \in [Proc -> LocType] /\ iter \in [Proc -> Key \cup {0}]
  /\ phase = IF db_is_clean(hcache, size) THEN "clean" ELSE "dead"
  /\ \A q \in Proc : /\ loc[q].gen <= hcache.generation
                     /\ Fit(loc[q], hcache.generation, hcache.current_size, then(hcache), Base)

\* A file that nobody has locked.
LEMMA RestedInv == FileInv /\ FileMore /\ Rested => SkipInv
<1> SUFFICES ASSUME FileInv, FileMore, Rested PROVE SkipInv OBVIOUS
<1>1. pc = "idle" /\ owner = NoProc BY DEF Rested
<1>2. ProcTypes BY NoOpForm DEF Rested, ProcTypes, Opening, Mending, Repaired
<1>3. Phases BY DEF Rested, Phases
<1>4. Whole /\ Working BY <1>1 DEF Whole, Working, Writing, Repaired
<1>5. Prepared /\ Stitching /\ Walking BY <1>1 DEF Prepared, Stitching, Walking, Opening
<1>6. Locs
  <2>1. pc \notin Writing BY <1>1 DEF Writing
  <2> QED BY <2>1 DEF Locs, Rested
<1> QED BY <1>2, <1>3, <1>4, <1>5, <1>6 DEF SkipInv

\* The same of the next state.
LEMMA Rest == FileInv' /\ FileMore' /\ Rested' => SkipInv'
<1>1. (FileInv /\ FileMore /\ Rested => SkipInv)' BY RestedInv, PTL
<1> QED BY <1>1

\* The lock is released and the file stays: the locations still fit.
LEMMA Released ==
  ASSUME SkipInv, NEW p \in Proc, owner = p, pc \notin Writing \cup {"stitch"}, unlock,
         UNCHANGED <<cache, size, hcache, disk, sdisk, hdisk, face>>, FileInv',
         UNCHANGED <<readers, loc, iter>>,
         phase' = IF db_is_clean(hcache, size) THEN "clean" ELSE "dead"
  PROVE  SkipInv'
<1>1. FileInv /\ FileMore /\ ProcTypes /\ Locs BY DEF SkipInv
<1>2. /\ FileMore' /\ then(hcache)' = then(hcache) /\ Base' = Base
  BY <1>1, Quiet
<1>3. Rested'
  <2>1. \A q \in Proc : /\ loc[q].gen <= hcache.generation
                        /\ Fit(loc[q], hcache.generation, hcache.current_size, then(hcache), Base)
    BY <1>1 DEF Locs
  <2> QED BY <1>1, <1>2, <2>1 DEF Rested, unlock, ProcTypes
<1> QED BY <1>2, <1>3, Rest

\* A commit of a transaction that has written nothing.
LEMMA CommitUnchangedStep ==
  ASSUME SkipInv, NEW p \in Proc, CommitUnchanged(p)
  PROVE  SkipInv' /\ Storing /\ Filing
<1>1. FileInv /\ FileMore /\ ProcTypes /\ Locs BY DEF SkipInv
<1>2. /\ owner = p /\ pc = "txn" /\ hcache.flags = "clean" /\ pc' = "finish"
      /\ UNCHANGED <<fileVars, owner, readers, op, num, rv, ret, loc, iter, titer, work, acked>>
  BY DEF CommitUnchanged, InTxn, committing
<1>3. /\ FileInv' /\ Filing /\ FileMore' /\ then(hcache)' = then(hcache) /\ now' = now /\ W' = W
      /\ Base' = Base /\ DirtyDurable' = DirtyDurable
  BY <1>1, <1>2, QuietAll
<1>f. UNCHANGED <<cache, size, hcache, disk, sdisk, hdisk, phase, face>> BY <1>2 DEF fileVars
<1>4. /\ p # NoProc /\ readers = {} /\ op = NoOp /\ ret = "idle"
      /\ Full(cache, size, W) /\ work = ContentOf(now, W) /\ phase = "clean"
  BY <1>2, InTxnFacts DEF InTxn
<1>5. ProcTypes'
  <2>1. pc' \notin Opening \cup {"stitch"} /\ pc' \notin Mending BY <1>2 DEF Opening, Mending, Repaired
  <2> QED BY <1>1, <1>2, <1>4, <2>1 DEF ProcTypes
<1>6. Phases' BY <1>2, <1>4, <1>f DEF Phases
<1>7. Whole' /\ Working' BY <1>2, <1>3, <1>4, <1>f DEF Whole, Working, Writing
<1>8. Prepared' /\ Stitching' /\ Walking' BY <1>2 DEF Prepared, Stitching, Walking, Opening
<1>9. Locs'
  <2>1. pc' \notin Writing /\ pc \in Writing BY <1>2 DEF Writing
  <2>2. loc[p].gen <= hcache.generation /\ Fit(loc[p], hcache.generation, size + 1, now, W)
    BY <1>1, <1>2, <2>1 DEF Locs
  <2>3. hcache.current_size = size + 1 BY <1>1, <1>2, CleanFacts
  <2>4. Fit(loc[p], hcache.generation, hcache.current_size, then(hcache), Base)
    BY <1>1, <2>2, <2>3, LocSame
  <2> QED BY <1>2, <1>3, <1>f, <2>1, <2>2, <2>4, LocsKept
<1>10. Storing BY <1>2, <1>f, QuietView, Unseen
<1> QED BY <1>3, <1>5, <1>6, <1>7, <1>8, <1>9, <1>10 DEF SkipInv

\* A published transaction is what everyone finds.
LEMMA Published ==
  ASSUME SkipInv, pc \in {"publishsync", "finish"}
  PROVE  /\ work = View /\ work # NoTxn /\ db_is_clean(hcache, size)
         /\ Full(cache, size, W) /\ Sound(W) /\ View = ContentOf(now, W)
         /\ phase \in {"publish", "clean"} /\ (pc = "finish" => phase = "clean")
<1>1. FileInv /\ FileMore /\ Whole /\ Working /\ Phases BY DEF SkipInv
<1>2. phase \in {"publish", "clean"} /\ (pc = "finish" => phase = "clean") BY <1>1 DEF Phases
<1>3. db_is_clean(hcache, size) BY <1>1, <1>2 DEF FileInv, Ordered
<1>4. hcache.current_size = size + 1 BY <1>3 DEF db_is_clean
<1>5. Full(cache, size, W) /\ work = ContentOf(now, W) BY <1>1 DEF Whole, Working
<1>6. View = ContentOf(now, W) BY <1>1, <1>4, ViewFacts
<1>7. Sound(W) BY <1>1, <1>5, WholeSound
<1>8. work # NoTxn BY WorkOpen
<1> QED BY <1>2, <1>3, <1>5, <1>6, <1>7, <1>8

\* mycommit releases the lock, or mycheckpoint after a failure.
LEMMA FinishStep ==
  ASSUME SkipInv, NEW p \in Proc, Finish(p) \/ CheckpointFails(p)
  PROVE  SkipInv' /\ Storing /\ Filing
<1>1. FileInv /\ FileMore BY DEF SkipInv
<1>2. owner = p /\ pc = "finish" /\ unlock /\ UNCHANGED <<fileVars, readers, loc, iter>>
  BY DEF Finish, CheckpointFails
<1>f. UNCHANGED <<cache, size, hcache, disk, sdisk, hdisk, phase, face>> BY <1>2 DEF fileVars
<1>3. work = View /\ db_is_clean(hcache, size) /\ phase = "clean" BY <1>2, Published
<1>4. FileInv' /\ Filing BY <1>1, <1>2, FileKept
<1>5. SkipInv'
  <2>1. pc \notin Writing \cup {"stitch"} BY <1>2 DEF Writing
  <2> QED BY <1>2, <1>3, <1>4, <1>f, <2>1, Released
<1>6. Storing
  <2>1. View' = View /\ Left' = Left BY <1>f, QuietView
  <2>2. Store!Commit BY <1>2, <1>3, <2>1, TwoSkipAssumption DEF Store!Commit, Left, then, unlock
  <2> QED BY <2>2 DEF Storing, Store!Next
<1> QED BY <1>4, <1>5, <1>6

\* mycheckpoint returns with the lock.
LEMMA CannotOpenStep ==
  ASSUME SkipInv, NEW p \in Proc, CheckpointCannotOpen(p)
  PROVE  SkipInv' /\ Storing /\ Filing
<1>1. FileInv /\ FileMore /\ ProcTypes /\ Locs BY DEF SkipInv
<1>2. /\ owner = p /\ pc = "finish" /\ pc' = "returned"
      /\ UNCHANGED <<fileVars, owner, readers, op, num, rv, ret, loc, iter, titer, work, acked>>
  BY DEF CheckpointCannotOpen, committing
<1>3. /\ FileInv' /\ Filing /\ FileMore' /\ then(hcache)' = then(hcache) /\ now' = now /\ W' = W
      /\ Base' = Base /\ DirtyDurable' = DirtyDurable
  BY <1>1, <1>2, QuietAll
<1>f. UNCHANGED <<cache, size, hcache, disk, sdisk, hdisk, phase, face>> BY <1>2 DEF fileVars
<1>4. Full(cache, size, W) /\ phase = "clean" BY <1>2, Published
<1>5. ProcTypes'
  <2>1. /\ pc' \notin Opening \cup {"stitch"} /\ pc' \notin Mending
        /\ pc \notin Opening \cup {"stitch"} /\ pc \notin Mending
    BY <1>2 DEF Opening, Mending, Repaired
  <2> QED BY <1>1, <1>2, <2>1 DEF ProcTypes
<1>6. Phases' BY <1>2, <1>4, <1>f DEF Phases
<1>7. Whole' /\ Working' BY <1>2, <1>3, <1>4, <1>f DEF Whole, Working, Writing
<1>8. Prepared' /\ Stitching' /\ Walking' BY <1>2 DEF Prepared, Stitching, Walking, Opening
<1>9. Locs'
  <2>1. pc' \notin Writing \cup {"stitch"} /\ pc \notin Writing \cup {"stitch"} BY <1>2 DEF Writing
  <2> QED BY <1>1, <1>2, <1>3, <1>f, <2>1 DEF Locs
<1>10. Storing BY <1>2, <1>f, QuietView, Unseen
<1> QED BY <1>3, <1>5, <1>6, <1>7, <1>8, <1>9, <1>10 DEF SkipInv

\* recovery1 returns on a clean file and begins on an unclean one.
LEMMA RecoverCheckStep ==
  ASSUME SkipInv, NEW p \in Proc, RecoverCheck(p)
  PROVE  SkipInv' /\ Storing /\ Filing
<1>1. FileInv /\ FileMore /\ ProcTypes /\ Phases /\ Locs BY DEF SkipInv
<1>2. owner = p /\ pc = "recover" BY DEF RecoverCheck
<1>a. p # NoProc BY TwoSkipAssumption
<1>b. work = NoTxn BY <1>1, <1>2 DEF ProcTypes, Mending
<1>c. pc \notin Writing \cup {"stitch"} BY <1>2 DEF Writing
<1>3. CASE db_is_clean(hcache, size)
  <2>1. hcache.flags = "clean" BY <1>3 DEF db_is_clean
  <2>2. phase = "clean" /\ ret = "idle" BY <1>1, <1>2, <2>1 DEF Phases
  <2>3. unlock /\ UNCHANGED <<fileVars, readers, loc, iter>> BY <1>3, <2>2 DEF RecoverCheck, return
  <2>f. UNCHANGED <<cache, size, hcache, disk, sdisk, hdisk, phase, face>> BY <2>3 DEF fileVars
  <2>4. FileInv' /\ Filing BY <1>1, <2>3, FileKept
  <2>5. SkipInv' BY <1>2, <1>3, <1>c, <2>2, <2>3, <2>4, <2>f, Released
  <2>6. View' = View /\ Left' = Left BY <2>f, QuietView
  <2>7. Store!Unlock BY <1>2, <1>a, <1>b, <2>3, <2>6 DEF Store!Unlock, Left, then, unlock
  <2> QED BY <2>4, <2>5, <2>7 DEF Storing, Store!Next
<1>4. CASE ~db_is_clean(hcache, size)
  <2>1. hcache.flags = "dirty" BY <1>1, <1>4, CleanFacts DEF db_is_clean
  <2>2. /\ pc' = "dummy" /\ phase' = "fix"
        /\ UNCHANGED <<cache, size, hcache, disk, sdisk, hdisk, face,
                       owner, readers, op, num, ret, loc, iter, titer, acked, rv, work>>
    BY <1>4, <2>1 DEF RecoverCheck, recovering
  <2>3. phase \in {"dead", "txn"}
    <3>1. phase # "clean" BY <1>1, <1>4 DEF FileInv, Ordered
    <3> QED BY <1>1, <1>2, <3>1 DEF Phases
  <2>4. FileInv' /\ Filing
    <3>1. BeginRecovery BY <2>2, <2>3 DEF BeginRecovery
    <3> QED BY <1>1, <3>1, FileKept DEF FileNext
  <2>5. /\ FileMore' /\ then(hcache)' = then(hcache) /\ now' = now /\ W' = W
        /\ Base' = Base /\ DirtyDurable' = DirtyDurable
    BY <1>1, <2>2, Quiet
  <2>6. ProcTypes'
    <3>1. /\ pc' \notin Opening \cup {"stitch"} /\ pc' \in Mending
          /\ pc \notin Opening \cup {"stitch"} /\ pc \in Mending
      BY <1>2, <2>2 DEF Opening, Mending, Repaired
    <3> QED BY <1>1, <1>2, <2>2, <3>1 DEF ProcTypes
  <2>7. Phases' BY <2>2 DEF Phases
  <2>8. Whole' /\ Working' BY <2>2 DEF Whole, Working, Writing, Repaired
  <2>9. Prepared' /\ Stitching' /\ Walking' BY <2>2 DEF Prepared, Stitching, Walking, Opening
  <2>10. Locs'
    <3>1. pc' \notin Writing \cup {"stitch"} BY <2>2 DEF Writing
    <3> QED BY <1>1, <2>2, <1>c, <2>5, <3>1 DEF Locs
  <2>11. Storing BY <2>2, QuietView, Unseen
  <2> QED BY <2>4, <2>5, <2>6, <2>7, <2>8, <2>9, <2>10, <2>11 DEF SkipInv
<1> QED BY <1>3, <1>4

\* A process is killed.
LEMMA DieStep ==
  ASSUME SkipInv, NEW p \in Proc, Die(p)
  PROVE  SkipInv' /\ Storing /\ Filing
<1>1. /\ FileInv /\ FileMore /\ ProcTypes /\ Phases /\ Whole /\ Working
      /\ Prepared /\ Stitching /\ Walking /\ Locs
  BY DEF SkipInv
<1>2. /\ readers' = readers \ {p} /\ loc' = [loc EXCEPT ![p] = NoLoc]
      /\ iter' = [iter EXCEPT ![p] = 0]
  BY DEF Die
<1>3. loc' \in [Proc -> LocType] /\ loc'[p] = NoLoc /\ \A q \in Proc : q # p => loc'[q] = loc[q]
  BY <1>1, <1>2, NoLocType DEF ProcTypes
<1>4. iter' \in [Proc -> Key \cup {0}] /\ readers' \subseteq Proc /\ (readers = {} => readers' = {})
  BY <1>1, <1>2 DEF ProcTypes
<1>5. NoLoc.gen <= hcache.generation /\ NoLoc.gen = 0 /\ hcache.generation \in Nat /\ hcache.generation >= 1
  BY <1>1, FileFacts, NoLocType
<1>6. CASE owner = p
  <2>1. WriterDies /\ unlock BY <1>6 DEF Die
  <2>2. /\ phase' = IF db_is_clean(hcache, size) THEN "clean" ELSE "dead"
        /\ UNCHANGED <<cache, size, hcache, disk, sdisk, hdisk, face>>
    BY <2>1 DEF WriterDies
  <2>3. FileInv' /\ Filing BY <1>1, <2>1, FileKept DEF FileNext
  <2>4. FileMore' /\ then(hcache)' = then(hcache) /\ Base' = Base BY <1>1, <2>2, Quiet
  <2>5. \A q \in Proc : /\ loc'[q].gen <= hcache.generation
                        /\ Fit(loc'[q], hcache.generation, hcache.current_size, then(hcache), Base)
    <3> SUFFICES ASSUME NEW q \in Proc
                 PROVE  /\ loc'[q].gen <= hcache.generation
                        /\ Fit(loc'[q], hcache.generation, hcache.current_size, then(hcache), Base)
      OBVIOUS
    <3>1. CASE q = p BY <1>3, <1>5, <3>1, NoLocFit
    <3>2. CASE q # p BY <1>1, <1>3, <1>6, <3>2 DEF Locs
    <3> QED BY <3>1, <3>2
  <2>6. Rested' BY <1>3, <1>4, <2>1, <2>2, <2>4, <2>5 DEF Rested, unlock
  <2>7. View' = View /\ Left' = Left BY <2>2, QuietView
  <2>8. Store!Die BY <1>6, <2>1, <2>7, TwoSkipAssumption DEF Store!Die, Left, then, unlock
  <2> QED BY <2>3, <2>4, <2>6, <2>8, Rest DEF Storing, Store!Next
<1>7. CASE owner # p
  <2>1. UNCHANGED <<fileVars, owner, pc, op, num, rv, ret, titer, work, acked>>
    BY <1>7 DEF Die
  <2>2. /\ FileInv' /\ Filing /\ FileMore' /\ then(hcache)' = then(hcache) /\ now' = now /\ W' = W
        /\ Base' = Base /\ DirtyDurable' = DirtyDurable
    BY <1>1, <2>1, QuietAll
  <2>f. UNCHANGED <<cache, size, hcache, disk, sdisk, hdisk, phase, face>> BY <2>1 DEF fileVars
  <2>3. ProcTypes' BY <1>1, <1>3, <1>4, <2>1 DEF ProcTypes
  <2>4. Phases' BY <1>1, <2>1, <2>2, <2>f DEF Phases
  <2>5. Whole' /\ Working' BY <1>1, <2>1, <2>2, <2>f DEF Whole, Working
  <2>6. pc # "idle" => loc'[owner'] = loc[owner]
    BY <1>1, <1>3, <1>7, <2>1 DEF ProcTypes
  <2>7. Prepared'
    BY <1>1, <2>1, <2>2, <2>f, <2>6 DEF Prepared, IsStore, IsDelete, levelat, Opening
  <2>8. Stitching' BY <1>1, <2>1, <2>2, <2>f, <2>6 DEF Stitching, Stitched
  <2>9. Walking' BY <1>1, <2>1, <2>2, <2>f DEF Walking
  <2>10. Locs'
    <3> SUFFICES ASSUME NEW q \in Proc
                 PROVE  /\ loc'[q].gen <= hcache.generation
                        /\ q = owner /\ pc \in Writing
                             => Fit(loc'[q], hcache.generation, size + 1, now, W)
                        /\ q # owner \/ pc \notin Writing \cup {"stitch"} =>
                             Fit(loc'[q], hcache.generation, hcache.current_size, then(hcache), Base)
      BY <2>1, <2>2, <2>f DEF Locs
    <3>1. CASE q = p BY <1>3, <1>5, <3>1, NoLocFit
    <3>2. CASE q # p BY <1>1, <1>3, <3>2 DEF Locs
    <3> QED BY <3>1, <3>2
  <2>11. Storing BY <2>1, <2>f, QuietView, Unseen
  <2> QED BY <2>2, <2>3, <2>4, <2>5, <2>7, <2>8, <2>9, <2>10, <2>11 DEF SkipInv
<1> QED BY <1>6, <1>7

-----------------------------------------------------------------------------
(* Headers and syncs.                                                       *)

\* What is committed decides what is seen.
LEMMA SeenSame ==
  ASSUME FileInv, FileMore, FileInv', FileMore', then(hcache)' = then(hcache)
  PROVE  View' = View
<1>1. View = FaceContent(then(hcache)) BY ViewFacts
<1>2. (FileInv /\ FileMore => View = FaceContent(then(hcache)))' BY ViewFacts, PTL
<1> QED BY <1>1, <1>2

\* A header of the same size leaves the contents.
LEMMA HeaderView ==
  ASSUME FileInv, FileMore, FileInv', FileMore', then(hcache)' = then(hcache),
         NEW h, write_header(h), UNCHANGED face, h.current_size = hcache.current_size
  PROVE  View' = View /\ Left' = Left
<1>1. View' = View BY SeenSame
<1>2. hdisk' = hdisk \cup {h} BY DEF write_header
<1>3. hcache \in hdisk BY FileFacts
<1>4. Left' = {FaceContent(face[g.current_size]) : g \in hdisk'} BY DEF Left, then
<1>5. Left' = Left BY <1>2, <1>3, <1>4 DEF Left, then
<1> QED BY <1>1, <1>5

\* After a sync, what everyone finds is all that a power loss can leave.
LEMMA SyncView ==
  ASSUME FileInv, FileMore, FileInv', commit
  PROVE  /\ View' = View /\ Left' = {View}
         /\ FileMore' /\ then(hcache)' = then(hcache) /\ now' = now /\ W' = W /\ Base' = Base
         /\ (hcache.flags = "dirty" => DirtyDurable')
         /\ UNCHANGED <<cache, size, hcache>>
<1>1. FileMore' /\ then(hcache)' = then(hcache) /\ now' = now /\ W' = W BY MoreSync
<1>2. View' = View BY <1>1, SeenSame
<1>3. Base' = Base BY <1>1 DEF Base
<1>4. hdisk' = {hcache} /\ UNCHANGED <<cache, size, hcache>> BY DEF commit
<1>5. Left' = {FaceContent(then(hcache)')} BY <1>4 DEF Left, then
<1>6. View = FaceContent(then(hcache)) BY ViewFacts
<1>7. hcache.flags = "dirty" => DirtyDurable' BY <1>4 DEF DirtyDurable
<1> QED BY <1>1, <1>2, <1>3, <1>4, <1>5, <1>6, <1>7

\* A sync, after which the commit may promise what is seen.
LEMMA Flushed ==
  ASSUME View' = View, Left' = {View}, UNCHANGED <<owner, work>>, acked' \in {acked, View}
  PROVE  Storing
<1>1. Store!Flush BY DEF Store!Flush, Left, then
<1> QED BY <1>1 DEF Storing, Store!Next

\* An operation stays prepared as long as the records do.
LEMMA PreparedKept ==
  ASSUME Prepared, pc \in Opening, now' = now, W' = W, hcache'.generation = hcache.generation,
         UNCHANGED <<cache, size, op, num, loc, owner>>
  PROVE  Prepared'
BY DEF Prepared, IsStore, IsDelete, levelat

\* The location of the writer, when its step changes nothing for it.
LEMMA OwnerLocs ==
  ASSUME SkipInv, NEW p \in Proc, owner = p, owner' = p, UNCHANGED <<size, loc>>,
         hcache'.generation = hcache.generation, hcache'.current_size = hcache.current_size,
         then(hcache)' = then(hcache), Base' = Base, now' = now, W' = W,
         \/ pc \in Writing /\ pc' \in Writing
         \/ pc \notin Writing \cup {"stitch"} /\ pc' \notin Writing \cup {"stitch"}
  PROVE  Locs'
<1>1. /\ loc[p].gen <= hcache.generation
      /\ pc' \in Writing => Fit(loc[p], hcache.generation, size + 1, now, W)
      /\ pc' \notin Writing \cup {"stitch"} =>
           Fit(loc[p], hcache.generation, hcache.current_size, then(hcache), Base)
  BY DEF SkipInv, Locs
<1> QED BY <1>1, LocsKept

\* The header is dirtied before the first record is written.
LEMMA WriteDirtyStep ==
  ASSUME SkipInv, NEW p \in Proc, WriteDirty(p)
  PROVE  SkipInv' /\ Storing /\ Filing
<1>1. /\ FileInv /\ FileMore /\ ProcTypes /\ Phases /\ Whole /\ Working
      /\ Prepared /\ Locs
  BY DEF SkipInv
<1> DEFINE h == [hcache EXCEPT !.flags = "dirty", !.num_records = num]
<1>2. /\ owner = p /\ pc = "dirty" /\ write_header(h) /\ phase' = "dirtying" /\ pc' = "dirtysync"
      /\ UNCHANGED <<cache, size, disk, sdisk, face>>
      /\ UNCHANGED <<owner, readers, ret, rv, iter, titer, acked, op, num, loc, work>>
  BY DEF WriteDirty, owned
<1>3. phase = "clean" /\ op # NoOp /\ Full(cache, size, W)
  BY <1>1, <1>2 DEF Phases, ProcTypes, Opening, Whole, Writing
<1>4. hcache.flags = "clean" /\ hcache.current_size = size + 1
  BY <1>1, <1>3 DEF FileInv, Ordered, db_is_clean
<1>5. hcache \in Header /\ num \in Int BY <1>1, FileFacts DEF ProcTypes
<1>6. /\ h.current_size = hcache.current_size /\ h.generation = hcache.generation
      /\ h.flags = "dirty" /\ h.num_records = num /\ hcache' = h
  BY <1>2, <1>5 DEF Header, write_header
<1>7. FileInv' /\ Filing
  <2>1. DirtyHeader(num) BY <1>2, <1>3, <1>4, <1>5 DEF DirtyHeader
  <2>2. hcache'.num_records = num BY <1>6
  <2> QED BY <1>1, <2>1, <2>2, FileKept DEF FileNext
<1> HIDE DEF h
<1>8. FileMore' /\ then(hcache)' = then(hcache) /\ now' = now /\ W' = W
  BY <1>1, <1>2, <1>3, <1>4, <1>6, MoreHeader
<1>9. Base' = Base BY <1>8 DEF Base
<1>10. ProcTypes'
  <2>1. pc' \in Opening /\ pc' \notin Mending /\ pc' # "idle" /\ pc' \in Writing
        /\ pc \in Opening /\ pc \notin Mending /\ pc # "idle"
    BY <1>2 DEF Opening, Mending, Repaired, Writing
  <2> QED BY <1>1, <1>2, <2>1 DEF ProcTypes
<1>11. Phases' BY <1>2, <1>4, <1>6 DEF Phases
<1>12. Whole' BY <1>2, <1>3, <1>8 DEF Whole
<1>13. Working' BY <1>1, <1>2, <1>8 DEF Working, Writing
<1>14. Prepared'
  <2>1. pc \in Opening BY <1>2 DEF Opening
  <2> QED BY <1>1, <1>2, <1>6, <1>8, <2>1, PreparedKept
<1>15. Stitching' /\ Walking' BY <1>2 DEF Stitching, Walking
<1>16. Locs'
  <2>1. pc \in Writing /\ pc' \in Writing BY <1>2 DEF Writing
  <2> QED BY <1>2, <1>6, <1>8, <1>9, <2>1, OwnerLocs
<1>17. Storing
  <2>1. View' = View /\ Left' = Left BY <1>1, <1>2, <1>6, <1>7, <1>8, HeaderView
  <2> QED BY <1>2, <2>1, Unseen
<1> QED BY <1>7, <1>8, <1>10, <1>11, <1>12, <1>13, <1>14, <1>15, <1>16, <1>17 DEF SkipInv

\* The dirty header is synced.
LEMMA SyncDirtyStep ==
  ASSUME SkipInv, NEW p \in Proc, SyncDirtyHeader(p)
  PROVE  SkipInv' /\ Storing /\ Filing
<1>1. /\ FileInv /\ FileMore /\ ProcTypes /\ Phases /\ Whole /\ Working
      /\ Prepared /\ Locs
  BY DEF SkipInv
<1>2. /\ owner = p /\ pc = "dirtysync" /\ commit /\ phase' = "txn"
      /\ UNCHANGED <<owner, readers, ret, rv, iter, titer, acked, op, num, loc, work>>
  BY DEF SyncDirtyHeader, owned
<1>3. /\ phase = "dirtying" /\ hcache.flags = "dirty" /\ op # NoOp /\ Full(cache, size, W)
      /\ hcache.current_size = size + 1
  BY <1>1, <1>2 DEF Phases, ProcTypes, Opening, Whole, Writing
<1>4. pc' = "append" BY <1>3 DEF SyncDirtyHeader
<1>5. FileInv' /\ Filing
  <2>1. SyncDirty BY <1>2, <1>3 DEF SyncDirty
  <2> QED BY <1>1, <2>1, FileKept DEF FileNext
<1>6. /\ View' = View /\ Left' = {View}
      /\ FileMore' /\ then(hcache)' = then(hcache) /\ now' = now /\ W' = W /\ Base' = Base
      /\ DirtyDurable' /\ UNCHANGED <<cache, size, hcache>>
  BY <1>1, <1>2, <1>3, <1>5, SyncView
<1>7. ProcTypes'
  <2>1. pc' \in Opening /\ pc' \notin Mending /\ pc' # "idle" /\ pc' \in Writing
        /\ pc \in Opening /\ pc \notin Mending /\ pc # "idle"
    BY <1>2, <1>4 DEF Opening, Mending, Repaired, Writing
  <2> QED BY <1>1, <1>2, <2>1 DEF ProcTypes
<1>8. Phases' BY <1>2, <1>3, <1>4, <1>6 DEF Phases
<1>9. Whole' BY <1>3, <1>6 DEF Whole
<1>10. Working' BY <1>1, <1>2, <1>4, <1>6 DEF Working, Writing
<1>11. Prepared'
  <2>1. pc \in Opening BY <1>2 DEF Opening
  <2> QED BY <1>1, <1>2, <1>6, <2>1, PreparedKept
<1>12. Stitching' /\ Walking' BY <1>4 DEF Stitching, Walking
<1>13. Locs'
  <2>1. pc \in Writing /\ pc' \in Writing BY <1>2, <1>4 DEF Writing
  <2> QED BY <1>2, <1>6, <2>1, OwnerLocs
<1>14. Storing BY <1>2, <1>6, Flushed
<1> QED BY <1>5, <1>6, <1>7, <1>8, <1>9, <1>10, <1>11, <1>12, <1>13, <1>14 DEF SkipInv

\* The records of the transaction are synced.
LEMMA SyncCommitStep ==
  ASSUME SkipInv, NEW p \in Proc, SyncCommit(p)
  PROVE  SkipInv' /\ Storing /\ Filing
<1>1. /\ FileInv /\ FileMore /\ ProcTypes /\ Phases /\ Whole /\ Working /\ Locs
  BY DEF SkipInv
<1>2. /\ owner = p /\ pc = "commitsync" /\ commit /\ phase' = "synced" /\ pc' = "publish"
      /\ UNCHANGED <<owner, readers, ret, rv, iter, titer, acked, op, num, loc, work>>
  BY DEF SyncCommit, committing
<1>3. /\ phase = "commit" /\ hcache.flags = "dirty" /\ Full(cache, size, W)
      /\ hcache.current_size <= size
  BY <1>1, <1>2 DEF Phases, Whole, Writing
<1>4. FileInv' /\ Filing
  <2>1. SyncData BY <1>2, <1>3 DEF SyncData
  <2> QED BY <1>1, <2>1, FileKept DEF FileNext
<1>5. /\ View' = View /\ Left' = {View}
      /\ FileMore' /\ then(hcache)' = then(hcache) /\ now' = now /\ W' = W /\ Base' = Base
      /\ DirtyDurable' /\ UNCHANGED <<cache, size, hcache>>
  BY <1>1, <1>2, <1>3, <1>4, SyncView
<1>6. ProcTypes'
  <2>1. pc' \notin Opening \cup {"stitch"} /\ pc' \notin Mending /\ pc' # "idle" /\ pc' \in Writing
        /\ pc \notin Opening \cup {"stitch"} /\ pc \notin Mending /\ pc # "idle"
    BY <1>2 DEF Opening, Mending, Repaired, Writing
  <2> QED BY <1>1, <1>2, <2>1 DEF ProcTypes
<1>7. Phases' BY <1>2, <1>3, <1>5 DEF Phases
<1>8. Whole' BY <1>3, <1>5 DEF Whole
<1>9. Working' BY <1>1, <1>2, <1>5 DEF Working, Writing
<1>10. Prepared' /\ Stitching' /\ Walking' BY <1>2 DEF Prepared, Opening, Stitching, Walking
<1>11. Locs'
  <2>1. pc \in Writing /\ pc' \in Writing BY <1>2 DEF Writing
  <2> QED BY <1>2, <1>5, <2>1, OwnerLocs
<1>12. Storing BY <1>2, <1>5, Flushed
<1> QED BY <1>4, <1>5, <1>6, <1>7, <1>8, <1>9, <1>10, <1>11, <1>12 DEF SkipInv

\* The header of the commit is synced, and the commit returns.
LEMMA SyncPublishStep ==
  ASSUME SkipInv, NEW p \in Proc, SyncPublish(p)
  PROVE  SkipInv' /\ Storing /\ Filing
<1>1. /\ FileInv /\ FileMore /\ ProcTypes /\ Phases /\ Whole /\ Working /\ Locs
  BY DEF SkipInv
<1>2. /\ owner = p /\ pc = "publishsync" /\ commit /\ phase' = "clean" /\ pc' = "finish"
      /\ acked' = work
      /\ UNCHANGED <<owner, readers, ret, rv, iter, titer, op, num, loc, work>>
  BY DEF SyncPublish, committing
<1>3. phase = "publish" /\ Full(cache, size, W) /\ work = View
  BY <1>1, <1>2, Published DEF Phases
<1>4. FileInv' /\ Filing
  <2>1. SyncHeader BY <1>2, <1>3 DEF SyncHeader
  <2> QED BY <1>1, <2>1, FileKept DEF FileNext
<1>5. /\ View' = View /\ Left' = {View}
      /\ FileMore' /\ then(hcache)' = then(hcache) /\ now' = now /\ W' = W /\ Base' = Base
      /\ UNCHANGED <<cache, size, hcache>>
  BY <1>1, <1>2, <1>4, SyncView
<1>6. ProcTypes'
  <2>1. pc' \notin Opening \cup {"stitch"} /\ pc' \notin Mending /\ pc' # "idle"
        /\ pc \notin Opening \cup {"stitch"} /\ pc \notin Mending /\ pc # "idle"
    BY <1>2 DEF Opening, Mending, Repaired
  <2> QED BY <1>1, <1>2, <2>1 DEF ProcTypes
<1>7. Phases' BY <1>2 DEF Phases
<1>8. Whole' BY <1>3, <1>5 DEF Whole
<1>9. Working' BY <1>1, <1>2, <1>5 DEF Working, Writing
<1>10. Prepared' /\ Stitching' /\ Walking' BY <1>2 DEF Prepared, Opening, Stitching, Walking
<1>11. Locs'
  <2>1. pc \notin Writing \cup {"stitch"} /\ pc' \notin Writing \cup {"stitch"} BY <1>2 DEF Writing
  <2> QED BY <1>2, <1>5, <2>1, OwnerLocs
<1>12. Storing BY <1>2, <1>3, <1>5, Flushed
<1> QED BY <1>4, <1>5, <1>6, <1>7, <1>8, <1>9, <1>10, <1>11, <1>12 DEF SkipInv

\* The repaired and truncated file is synced.
LEMMA RecoverSyncStep ==
  ASSUME SkipInv, NEW p \in Proc, RecoverSync(p)
  PROVE  SkipInv' /\ Storing /\ Filing
<1>1. /\ FileInv /\ FileMore /\ ProcTypes /\ Phases /\ Whole /\ Working /\ Locs
  BY DEF SkipInv
<1>2. /\ owner = p /\ pc = "truncsync" /\ commit /\ phase' = "fixed" /\ pc' = "clear"
      /\ UNCHANGED <<owner, readers, ret, rv, iter, titer, acked, op, num, loc, work>>
  BY DEF RecoverSync, recovering
<1>3. phase = "truncated" /\ Full(cache, size, W)
  BY <1>1, <1>2 DEF Phases, Whole, Repaired
<1>4. FileInv' /\ Filing
  <2>1. SyncTruncate BY <1>2, <1>3 DEF SyncTruncate
  <2> QED BY <1>1, <2>1, FileKept DEF FileNext
<1>5. /\ View' = View /\ Left' = {View}
      /\ FileMore' /\ then(hcache)' = then(hcache) /\ now' = now /\ W' = W /\ Base' = Base
      /\ UNCHANGED <<cache, size, hcache>>
  BY <1>1, <1>2, <1>4, SyncView
<1>6. ProcTypes'
  <2>1. pc' \notin Opening \cup {"stitch"} /\ pc' \in Mending /\ pc' # "idle"
        /\ pc \notin Opening \cup {"stitch"} /\ pc \in Mending /\ pc # "idle"
    BY <1>2 DEF Opening, Mending, Repaired
  <2> QED BY <1>1, <1>2, <2>1 DEF ProcTypes
<1>7. Phases' BY <1>2 DEF Phases
<1>8. Whole' BY <1>3, <1>5 DEF Whole
<1>9. Working' BY <1>1, <1>2, <1>5 DEF Working, Writing
<1>10. Prepared' /\ Stitching' /\ Walking' BY <1>2 DEF Prepared, Opening, Stitching, Walking
<1>11. Locs'
  <2>1. pc \notin Writing \cup {"stitch"} /\ pc' \notin Writing \cup {"stitch"} BY <1>2 DEF Writing
  <2> QED BY <1>2, <1>5, <2>1, OwnerLocs
<1>12. Storing BY <1>2, <1>5, Flushed
<1> QED BY <1>4, <1>5, <1>6, <1>7, <1>8, <1>9, <1>10, <1>11, <1>12 DEF SkipInv

\* The header of the repaired file is written.
LEMMA RecoverClearStep ==
  ASSUME SkipInv, NEW p \in Proc, RecoverClear(p)
  PROVE  SkipInv' /\ Storing /\ Filing
<1>1. /\ FileInv /\ FileMore /\ ProcTypes /\ Phases /\ Whole /\ Working /\ Locs
  BY DEF SkipInv
<1> DEFINE h == [hcache EXCEPT !.flags = "clean", !.num_records = rv.n]
<1>2. /\ owner = p /\ pc = "clear" /\ write_header(h) /\ phase' = "clearing" /\ pc' = "clearsync"
      /\ num' = rv.n /\ UNCHANGED <<cache, size, disk, sdisk, face>>
      /\ UNCHANGED <<owner, readers, op, ret, rv, loc, iter, titer, work, acked>>
  BY DEF RecoverClear
<1>3. phase = "fixed" /\ Full(cache, size, W) /\ rv.n = Cardinality(W)
  BY <1>1, <1>2 DEF Phases, Whole, Repaired, Working
<1>4. /\ Synced /\ hcache.current_size = size + 1 /\ hdisk = {hcache}
  <2>1. Synced /\ size = hcache.current_size - 1 BY <1>1, <1>3 DEF FileInv, Ordered
  <2>2. hcache.current_size \in Nat /\ size \in Nat BY <1>1, FileFacts
  <2> QED BY <2>1, <2>2 DEF Synced
<1>5. Base = W BY <1>1, <1>4, ViewFacts
<1>6. rv.n \in Int
  <2>1. Sound(W) BY <1>1, <1>3, WholeSound
  <2>2. W \subseteq 1 .. MaxOffset BY <2>1, SoundFacts DEF Offset
  <2>3. IsFiniteSet(1 .. MaxOffset) BY FS_Interval, FileAssumption
  <2>4. IsFiniteSet(W) BY <2>2, <2>3, FS_Subset
  <2> QED BY <1>3, <2>4, FS_CardinalityType
<1>7. hcache \in Header BY <1>1, FileFacts
<1>8. /\ h.current_size = hcache.current_size /\ h.generation = hcache.generation
      /\ h.flags = "clean" /\ h.num_records = rv.n /\ hcache' = h /\ hdisk' = hdisk \cup {h}
  BY <1>2, <1>7 DEF Header, write_header
<1>9. FileInv' /\ Filing
  <2>1. ClearHeader(rv.n) BY <1>2, <1>3, <1>6 DEF ClearHeader
  <2>2. hcache'.num_records = rv.n BY <1>8
  <2> QED BY <1>1, <2>1, <2>2, FileKept DEF FileNext
<1> HIDE DEF h
<1>10. FileMore' /\ then(hcache)' = then(hcache) /\ now' = now /\ W' = W
  BY <1>1, <1>2, <1>3, <1>4, <1>5, <1>8, MoreHeader
<1>11. Base' = Base BY <1>10 DEF Base
<1>12. ProcTypes'
  <2>1. pc' \notin Opening \cup {"stitch"} /\ pc' \in Mending /\ pc' # "idle"
        /\ pc \notin Opening \cup {"stitch"} /\ pc \in Mending /\ pc # "idle"
    BY <1>2 DEF Opening, Mending, Repaired
  <2> QED BY <1>1, <1>2, <1>6, <2>1 DEF ProcTypes
<1>13. Phases'
  <2>1. \A g \in hdisk' : g.current_size = hcache'.current_size BY <1>4, <1>8
  <2> QED BY <1>2, <2>1 DEF Phases
<1>14. Whole' BY <1>2, <1>3, <1>10 DEF Whole
<1>15. Working' BY <1>2, <1>3, <1>10 DEF Working, Writing
<1>16. Prepared' /\ Stitching' /\ Walking' BY <1>2 DEF Prepared, Opening, Stitching, Walking
<1>17. Locs'
  <2>1. pc \notin Writing \cup {"stitch"} /\ pc' \notin Writing \cup {"stitch"} BY <1>2 DEF Writing
  <2> QED BY <1>2, <1>8, <1>10, <1>11, <2>1, OwnerLocs
<1>18. Storing
  <2>1. View' = View /\ Left' = Left BY <1>1, <1>2, <1>8, <1>9, <1>10, HeaderView
  <2> QED BY <1>2, <2>1, Unseen
<1> QED BY <1>9, <1>10, <1>12, <1>13, <1>14, <1>15, <1>16, <1>17, <1>18 DEF SkipInv

\* The header of the repaired file is synced, and recovery1 returns.
LEMMA RecoverDoneStep ==
  ASSUME SkipInv, NEW p \in Proc, RecoverDone(p)
  PROVE  SkipInv' /\ Storing /\ Filing
<1>1. /\ FileInv /\ FileMore /\ ProcTypes /\ Phases /\ Whole /\ Working /\ Locs
  BY DEF SkipInv
<1>2. /\ owner = p /\ pc = "clearsync" /\ commit /\ phase' = "clean" /\ return
      /\ UNCHANGED <<readers, loc, iter>>
  BY DEF RecoverDone
<1>3. /\ phase = "clearing" /\ Full(cache, size, W) /\ num = Cardinality(W)
      /\ \A h \in hdisk : h.current_size = hcache.current_size
  BY <1>1, <1>2 DEF Phases, Whole, Repaired, Working
<1>4. hcache.flags = "clean" /\ hcache.current_size = size + 1
  BY <1>1, <1>3 DEF FileInv, Ordered, db_is_clean
<1>5. FileInv' /\ Filing
  <2>1. SyncClear BY <1>2, <1>3 DEF SyncClear
  <2> QED BY <1>1, <2>1, FileKept DEF FileNext
<1>6. /\ View' = View /\ Left' = {View}
      /\ FileMore' /\ then(hcache)' = then(hcache) /\ now' = now /\ W' = W /\ Base' = Base
      /\ UNCHANGED <<cache, size, hcache>>
  BY <1>1, <1>2, <1>5, SyncView
<1>7. Left = {View}
  <2>1. \A h \in hdisk : FaceContent(then(h)) = View BY <1>1, <1>3, ViewFacts DEF then
  <2>2. hcache \in hdisk BY <1>1, FileFacts
  <2> QED BY <2>1, <2>2 DEF Left
<1>8. work = NoTxn /\ op = NoOp /\ p # NoProc /\ readers = {}
  BY <1>1, <1>2, TwoSkipAssumption DEF ProcTypes, Mending, Repaired, Opening
<1>9. CASE ret = "txn"
  <2>1. /\ pc' = "txn" /\ work' = View /\ ret' = "idle" /\ UNCHANGED <<owner, op, num, titer, acked>>
    BY <1>2, <1>9 DEF return
  <2>2. ProcTypes'
    <3>1. pc' \notin Opening \cup {"stitch"} /\ pc' \notin Mending /\ pc' # "idle" /\ pc' \in Writing
      BY <2>1 DEF Opening, Mending, Repaired, Writing
    <3> QED BY <1>1, <1>2, <1>8, <2>1, <3>1 DEF ProcTypes
  <2>3. Phases' BY <1>2, <2>1 DEF Phases
  <2>4. Whole' BY <1>3, <1>6 DEF Whole
  <2>5. Working'
    <3>1. View = ContentOf(now, W) BY <1>1, <1>4, ViewFacts
    <3> QED BY <1>3, <1>6, <2>1, <3>1 DEF Working
  <2>6. Prepared' /\ Stitching' /\ Walking' BY <2>1 DEF Prepared, Opening, Stitching, Walking
  <2>7. Locs'
    <3>1. pc \notin Writing \cup {"stitch"} /\ pc' \in Writing BY <1>2, <2>1 DEF Writing
    <3>2. /\ loc[p].gen <= hcache.generation
          /\ Fit(loc[p], hcache.generation, hcache.current_size, then(hcache), Base)
      BY <1>1, <3>1 DEF Locs
    <3>3. Fit(loc[p], hcache.generation, size + 1, now, W) BY <1>1, <1>4, <3>2, LocSame
    <3> QED BY <1>2, <1>6, <2>1, <3>1, <3>2, <3>3, LocsKept
  <2>8. Store!Begin BY <1>2, <1>6, <1>7, <1>8, <2>1 DEF Store!Begin, Left, then
  <2> QED BY <1>5, <1>6, <2>2, <2>3, <2>4, <2>5, <2>6, <2>7, <2>8 DEF SkipInv, Storing, Store!Next
<1>10. CASE ret # "txn"
  <2>1. unlock BY <1>2, <1>10 DEF return
  <2>2. Rested'
    <3>1. pc \notin Writing \cup {"stitch"} BY <1>2 DEF Writing
    <3>2. \A q \in Proc : /\ loc[q].gen <= hcache.generation
                          /\ Fit(loc[q], hcache.generation, hcache.current_size, then(hcache), Base)
      BY <1>1, <3>1 DEF Locs
    <3>3. db_is_clean(hcache, size) BY <1>4 DEF db_is_clean
    <3> QED BY <1>1, <1>2, <1>6, <2>1, <3>2, <3>3 DEF Rested, unlock, ProcTypes
  <2>3. Store!Unlock BY <1>2, <1>6, <1>7, <1>8, <2>1 DEF Store!Unlock, Left, then, unlock
  <2> QED BY <1>5, <1>6, <2>2, <2>3, Rest DEF Storing, Store!Next
<1> QED BY <1>9, <1>10

\* The header of the commit makes the whole transaction visible.
LEMMA WritePublishStep ==
  ASSUME SkipInv, NEW p \in Proc, WritePublish(p)
  PROVE  SkipInv' /\ Storing /\ Filing
<1>1. /\ FileInv /\ FileMore /\ ProcTypes /\ Phases /\ Whole /\ Working /\ Locs
  BY DEF SkipInv
<1> DEFINE h == [hcache EXCEPT !.flags = "clean", !.num_records = num, !.current_size = size + 1]
<1>2. /\ owner = p /\ pc = "publish" /\ write_header(h) /\ phase' = "publish" /\ pc' = "publishsync"
      /\ face' = [face EXCEPT ![size + 1] = now] /\ acked' = NoTxn
      /\ UNCHANGED <<cache, size, disk, sdisk>>
      /\ UNCHANGED <<owner, readers, op, num, rv, ret, loc, iter, titer, work>>
  BY DEF WritePublish, committing, now
<1>3. /\ phase = "synced" /\ Full(cache, size, W) /\ hcache.current_size <= size
      /\ work = ContentOf(now, W) /\ num = Cardinality(W) /\ size \notin W
  BY <1>1, <1>2 DEF Phases, Whole, Writing, Working
<1>4. /\ hcache \in Header /\ num \in Int /\ face \in [Size -> [Offset -> FaceRec]]
      /\ size \in Nat /\ size + 1 \in Size /\ hcache.current_size \in Nat /\ hcache.current_size \in Size
  BY <1>1, FileFacts DEF ProcTypes, FileInv, FileCore, FileTypeOK
<1>5. hdisk = {hcache} BY <1>1, <1>3 DEF FileInv, Ordered, Synced
<1>6. /\ h.current_size = size + 1 /\ h.generation = hcache.generation
      /\ h.flags = "clean" /\ h.num_records = num /\ hcache' = h /\ hdisk' = {hcache, h}
  BY <1>2, <1>4, <1>5 DEF Header, write_header
<1>7. FileInv' /\ Filing
  <2>1. PublishHeader(num) BY <1>2, <1>3, <1>4 DEF PublishHeader, now
  <2>2. hcache'.num_records = num BY <1>6
  <2> QED BY <1>1, <2>1, <2>2, FileKept DEF FileNext
<1> HIDE DEF h
<1>8. face'[size + 1] = now /\ face'[hcache.current_size] = face[hcache.current_size]
  BY <1>2, <1>3, <1>4
<1>9. now' = now /\ W' = W BY <1>2 DEF now, W
<1>10. then(hcache)' = now /\ Base' = W /\ hcache'.current_size = size + 1
       /\ hcache'.generation = hcache.generation
  <2>1. then(hcache)' = now BY <1>6, <1>8 DEF then
  <2> QED BY <1>6, <2>1 DEF Base, W
<1>11. Sound(W) BY <1>1, <1>3, WholeSound
<1>12. List(now, size + 1, W) BY <1>11, SoundFacts
<1>13. FileMore'
  <2>1. Deletes' BY <1>1, <1>2 DEF FileMore, Deletes
  <2>2. Lists'
    <3>1. Lists' <=> \A g \in hdisk' :
             /\ List(face'[g.current_size], g.current_size, Live(face'[g.current_size]))
             /\ g.flags = "clean" => g.num_records = Cardinality(Live(face'[g.current_size]))
      BY DEF Lists, then
    <3>2. /\ List(face'[h.current_size], h.current_size, Live(face'[h.current_size]))
          /\ h.flags = "clean" => h.num_records = Cardinality(Live(face'[h.current_size]))
      BY <1>3, <1>6, <1>8, <1>12 DEF W
    <3>3. /\ List(face[hcache.current_size], hcache.current_size, Live(face[hcache.current_size]))
          /\ hcache.flags = "clean" => hcache.num_records = Cardinality(Live(face[hcache.current_size]))
      BY <1>1, <1>5 DEF FileMore, Lists, then
    <3> QED BY <1>6, <1>8, <3>1, <3>2, <3>3
  <2>3. Tidy' BY <1>2, <1>3, <1>9, <1>10 DEF Tidy
  <2>4. Ended'
    <3>1. Ended' <=> \A g \in hdisk' :
             /\ g.current_size - 1 \notin Live(face'[g.current_size])
             /\ g.generation >= 1 /\ g.generation = hcache'.generation
      BY DEF Ended, then
    <3>2. h.current_size - 1 \notin Live(face'[h.current_size])
      BY <1>3, <1>4, <1>6, <1>8 DEF W
    <3>3. /\ hcache.current_size - 1 \notin Live(face[hcache.current_size])
          /\ hcache.generation >= 1
      BY <1>1, <1>5 DEF FileMore, Ended, then
    <3> QED BY <1>6, <1>8, <3>1, <3>2, <3>3
  <2> QED BY <2>1, <2>2, <2>3, <2>4 DEF FileMore
<1>14. ProcTypes'
  <2>1. pc' \notin Opening \cup {"stitch"} /\ pc' \notin Mending /\ pc' # "idle"
        /\ pc \notin Opening \cup {"stitch"} /\ pc \notin Mending /\ pc # "idle"
    BY <1>2 DEF Opening, Mending, Repaired
  <2> QED BY <1>1, <1>2, <2>1 DEF ProcTypes
<1>15. Phases' BY <1>2 DEF Phases
<1>16. Whole' BY <1>2, <1>3, <1>9 DEF Whole
<1>17. Working' BY <1>2, <1>3, <1>9 DEF Working, Writing
<1>18. Prepared' /\ Stitching' /\ Walking' BY <1>2 DEF Prepared, Opening, Stitching, Walking
<1>19. Locs'
  <2> SUFFICES ASSUME NEW q \in Proc
               PROVE  /\ loc[q].gen <= hcache.generation
                      /\ Fit(loc[q], hcache.generation, size + 1, now, W)
    BY <1>2, <1>9, <1>10 DEF Locs, Writing
  <2>1. loc[q].gen <= hcache.generation BY <1>1 DEF Locs
  <2>2. CASE q = p
    <3>1. pc \in Writing BY <1>2 DEF Writing
    <3> QED BY <1>1, <1>2, <2>1, <2>2, <3>1 DEF Locs
  <2>3. CASE q # p
    <3>1. Fit(loc[q], hcache.generation, hcache.current_size, then(hcache), Base)
      BY <1>1, <1>2, <2>3 DEF Locs
    <3>2. loc[q].end \in Nat BY <1>1, FileAssumption DEF ProcTypes, LocType, Size
    <3>3. loc[q].gen = hcache.generation => loc[q].end <= size + 1 /\ loc[q].end # size + 1
      BY <1>3, <1>4, <3>1, <3>2 DEF Fit
    <3> QED BY <2>1, <3>3 DEF Fit
  <2> QED BY <2>2, <2>3
<1>20. Storing
  <2>1. (FileInv /\ FileMore => View = FaceContent(then(hcache)))' BY ViewFacts, PTL
  <2>2. FaceContent(now) = ContentOf(now, W) BY <1>11, SoundFacts, ContentList
  <2>3. View' = work BY <1>3, <1>7, <1>10, <1>13, <2>1, <2>2
  <2>4. View = FaceContent(then(hcache)) BY <1>1, ViewFacts
  <2>5. Left' = {FaceContent(face'[hcache.current_size]), FaceContent(face'[h.current_size])}
    BY <1>6 DEF Left, then
  <2>6. Left = {FaceContent(face[hcache.current_size])} BY <1>5 DEF Left, then
  <2>7. FaceContent(face'[h.current_size]) = work BY <1>3, <1>6, <1>8, <2>2
  <2>8. Left' = Left \cup {work} BY <1>8, <2>5, <2>6, <2>7
  <2>9. work # NoTxn
    <3>1. pc \in Writing BY <1>2 DEF Writing
    <3> QED BY <3>1, WorkOpen
  <2>10. Store!Publish BY <1>2, <2>3, <2>8, <2>9 DEF Store!Publish, Left, then
  <2> QED BY <2>10 DEF Storing, Store!Next
<1> QED BY <1>7, <1>13, <1>14, <1>15, <1>16, <1>17, <1>18, <1>19, <1>20 DEF SkipInv

-----------------------------------------------------------------------------
(* Records.                                                                 *)

\* A record more at the end changes nothing for the list.
LEMMA Longer ==
  ASSUME NEW L, Sound(L), NEW rec \in Rec, size < MaxOffset,
         NEW d, written(d, cache, size + 1, rec)
  PROVE  /\ \A o \in Nodes(L) : Faces(d, (size + 1) + 1)[o] = now[o]
         /\ Full(d, size + 1, L) /\ d \in [Offset -> Rec] /\ size + 1 \in Offset
         /\ size + 1 \notin L
<1> DEFINE s == size + 1
           g == Faces(d, s + 1)
<1>0. /\ cache \in [Offset -> Rec] /\ size \in Offset /\ PointBack(cache) /\ Full(cache, size, L)
      /\ now = Faces(cache, size + 1)
  BY DEF Sound, now
<1>1. /\ now \in [Offset -> FaceRec] /\ size + 1 \in 2 .. MaxOffset + 1 /\ size + 1 \in Nat
      /\ Records(now, size + 1, L) /\ List(now, size + 1, L)
      /\ L \subseteq Offset /\ Nodes(L) \subseteq Offset
      /\ \A o \in Nodes(L) : o <= size /\ now[o].type # "DELETE" /\ now[o].level \in 1 .. MaxLevel
  BY SoundFacts
<1>2. s \in Offset /\ s \in Nat /\ size \in Nat /\ s \notin Nodes(L)
  BY <1>0, <1>1, FileAssumption DEF Offset
<1>3. d \in [Offset -> Rec] /\ \A o \in Offset \ {s} : d[o] = cache[o]
  BY <1>0, <1>2 DEF written
<1> HIDE DEF g
<1>12. g \in [Offset -> FaceRec] BY <1>3, FacesType DEF g
<1>13. ASSUME NEW o \in Offset, o # s, cache[o].nextloc[0] < s, cache[o].nextloc[1] < s
       PROVE  g[o] = now[o]
  <2>1. g[o] = Face(cache[o], s + 1) BY <1>3, <1>13, FacesAt DEF g
  <2>2. now[o] = Face(cache[o], s) BY <1>0, FacesAt
  <2>3. cache[o] \in Rec BY <1>0
  <2> QED BY <1>2, <1>13, <2>1, <2>2, <2>3, FaceLonger
<1>14. \A o \in Nodes(L) : g[o] = now[o]
  <2> SUFFICES ASSUME NEW o \in Nodes(L) PROVE g[o] = now[o] OBVIOUS
  <2>1. cache[o].nextloc[0] <= size /\ cache[o].nextloc[1] <= size BY <1>0 DEF Full
  <2>2. o \in Offset /\ o # s BY <1>1, <1>2
  <2>3. cache[o].nextloc[0] \in Nat /\ cache[o].nextloc[1] \in Nat
    BY <1>0, <2>2, RecFields, FileAssumption
  <2> QED BY <1>2, <1>13, <2>1, <2>2, <2>3
<1>15. ASSUME NEW o \in Offset, o < s, now[o].type = "DELETE" PROVE g[o] = now[o]
  <2>1. cache[o].type = "DELETE" BY <1>0, <1>15, FacesAt
  <2>2. cache[o].nextloc[1] = 0 /\ cache[o].nextloc[0] < o BY <1>0, <2>1 DEF PointBack
  <2>3. cache[o].nextloc[0] \in Nat /\ o \in Nat BY <1>0, RecFields, FileAssumption DEF Offset
  <2>4. o # s /\ cache[o].nextloc[0] < s /\ cache[o].nextloc[1] < s
    BY <1>2, <1>15, <2>2, <2>3
  <2> QED BY <1>13, <2>4
<1>16. \A o \in Offset : o # s => g[o].type = now[o].type
  <2> SUFFICES ASSUME NEW o \in Offset, o # s PROVE g[o].type = now[o].type OBVIOUS
  <2>1. g[o].type = d[o].type BY DEF g, Faces, Face
  <2>2. now[o].type = cache[o].type BY <1>0, FacesAt
  <2> QED BY <1>3, <2>1, <2>2
<1>17. ASSUME NEW n \in Ptr, n < s
       PROVE  (IF n # 0 /\ g[n].type = "DELETE" THEN g[n].next ELSE n)
              = (IF n # 0 /\ now[n].type = "DELETE" THEN now[n].next ELSE n)
  <2>1. CASE n = 0 BY <2>1
  <2>2. CASE n # 0
    <3>1. n \in Offset /\ n # s BY <1>2, <1>17, <2>2, FileAssumption DEF Ptr, Offset
    <3> QED BY <1>15, <1>16, <1>17, <3>1
  <2> QED BY <2>1, <2>2
<1>18. ASSUME NEW o \in Nodes(L) PROVE Linked(g, s + 1, L, o)
  <2>1. Linked(now, s, L, o) BY <1>1 DEF List
  <2>2. now[o].next < s /\ now[o].next \in Ptr BY <1>1, <2>1 DEF Linked, FaceRec
  <2>3. following(g, o) = following(now, o) BY <1>14, <1>17, <2>2 DEF following
  <2>4. \A x \in L : g[x] = now[x] BY <1>14 DEF Nodes
  <2>5. IsNext(g, L, g[o].key, following(g, o)) BY <1>14, <2>1, <2>3, <2>4 DEF Linked, IsNext
  <2>6. g[o].next < s + 1
    <3>1. now[o].next \in Nat BY <2>2, FileAssumption DEF Ptr
    <3> QED BY <1>2, <1>14, <2>2, <3>1
  <2> QED BY <2>5, <2>6 DEF Linked
<1>19. /\ \A l : Above(now, L, l) = Above(g, L, l)
       /\ \A c, l : \A o \in Nodes(L) : Upper(now, c, L, o, l) => Upper(g, c, L, o, l)
  BY <1>14, NextSame
<1>20. Records(g, s + 1, L)
  <2>1. L \subseteq 2 .. (s + 1) - 1 BY <1>1, <1>2 DEF Records
  <2> QED BY <1>1, <1>14, <2>1 DEF Records, Nodes
<1>21. ASSUME NEW o \in Nodes(L)
       PROVE  /\ d[o].nextloc[0] <= s /\ d[o].nextloc[1] <= s
              /\ \A i \in 1 .. g[o].level - 1 : Upper(g, d, L, o, i)
  <2>1. o \in Offset /\ o # s /\ d[o] = cache[o] BY <1>1, <1>2, <1>3
  <2>2. cache[o].nextloc[0] <= size /\ cache[o].nextloc[1] <= size BY <1>0 DEF Full
  <2>3. cache[o].nextloc[0] \in Nat /\ cache[o].nextloc[1] \in Nat
    <3>1. cache[o] \in Rec BY <1>0, <2>1
    <3> QED BY <3>1, RecFields, FileAssumption
  <2>4. ASSUME NEW i \in 1 .. g[o].level - 1 PROVE Upper(g, d, L, o, i)
    <3>1. Upper(now, cache, L, o, i) BY <1>0, <1>14 DEF Full
    <3>2. Upper(now, d, L, o, i) BY <2>1, <3>1 DEF Upper
    <3> QED BY <1>19, <3>2
  <2>5. d[o].nextloc[0] <= s /\ d[o].nextloc[1] <= s BY <1>2, <2>1, <2>2, <2>3
  <2> QED BY <2>4, <2>5
<1>22. Full(d, s, L) BY <1>18, <1>20, <1>21 DEF Full, List, g
<1> QED BY <1>2, <1>3, <1>14, <1>22 DEF g, Nodes

\* A record is written under a dirty header: nobody sees it.
LEMMA WriteView ==
  ASSUME FileInv, FileMore, FileInv', FileMore', UNCHANGED <<hcache, hdisk, face>>
  PROVE  View' = View /\ Left' = Left
<1>1. then(hcache)' = then(hcache) BY DEF then
<1>2. Left' = Left BY DEF Left, then
<1> QED BY <1>1, <1>2, SeenSame

\* The COMMIT record is written at the end of the transaction.
LEMMA CommitRecordStep ==
  ASSUME SkipInv, NEW p \in Proc, CommitRecord(p)
  PROVE  SkipInv' /\ Storing /\ Filing
<1>1. /\ FileInv /\ FileMore /\ ProcTypes /\ Phases /\ Whole /\ Working /\ Locs
  BY DEF SkipInv
<1> DEFINE r == commitRecord(hcache.current_size)
<1>2. /\ InTxn(p) /\ hcache.flags = "dirty" /\ size < MaxOffset /\ write_record(r)
      /\ phase' = "commit" /\ pc' = "commitsync"
      /\ UNCHANGED <<owner, readers, op, num, rv, ret, loc, iter, titer, work, acked>>
  BY DEF CommitRecord, committing
<1>3. /\ cache' = [cache EXCEPT ![size + 1] = r] /\ disk' = [disk EXCEPT ![size + 1] = @ \cup {r}]
      /\ size' = size + 1 /\ UNCHANGED <<hcache, hdisk, face>>
  BY <1>2 DEF write_record, pwrite
<1>4. /\ owner = p /\ pc = "txn" /\ p # NoProc /\ readers = {} /\ op = NoOp /\ ret = "idle"
      /\ Full(cache, size, W) /\ Sound(W) /\ work = ContentOf(now, W) /\ num = Cardinality(W)
      /\ phase = "txn" /\ DirtyDurable
  BY <1>2, InTxnFacts
<1>5. /\ hcache.current_size \in Nat /\ hcache.current_size <= size + 1 /\ size \in Nat
      /\ hcache.current_size \in Ptr /\ size \in Offset
  BY <1>1, <1>2, FileFacts, FileAssumption DEF Ptr
<1>6. r \in Rec /\ r.type = "COMMIT"
  BY <1>5, CommitRecordType DEF commitRecord, Absent
<1>7. FileInv' /\ Filing
  <2>1. AppendCommit BY <1>2, <1>4 DEF AppendCommit
  <2> QED BY <1>1, <2>1, FileKept DEF FileNext
<1> HIDE DEF r
<1>8. /\ \A o \in Nodes(W) : Faces(cache', (size + 1) + 1)[o] = now[o]
      /\ Full(cache', size + 1, W) /\ cache' \in [Offset -> Rec] /\ size + 1 \in Offset
      /\ size + 1 \notin W
  <2> DEFINE d == [cache EXCEPT ![size + 1] = r]
  <2>1. /\ \A o \in Nodes(W) : Faces(d, (size + 1) + 1)[o] = now[o]
        /\ Full(d, size + 1, W) /\ d \in [Offset -> Rec] /\ size + 1 \in Offset
        /\ size + 1 \notin W
    <3> HIDE DEF d
    <3>1. written(d, cache, size + 1, r) BY DEF d, written
    <3>2. Sound(W) /\ r \in Rec /\ size < MaxOffset BY <1>2, <1>4, <1>6
    <3> QED BY <3>1, <3>2, Longer, Zenon
  <2> QED BY <1>3, <2>1 DEF written
<1>9. FileMore' /\ then(hcache)' = then(hcache) /\ DirtyDurable'
  BY <1>1, <1>3, <1>4, <1>6, <1>8, MoreWrite
<1>10. Base' = Base BY <1>9 DEF Base
<1>11. now' = Faces(cache', (size + 1) + 1) BY <1>3 DEF now
<1>12. W' = W
  <2>1. List(now', (size + 1) + 1, W) BY <1>8, <1>11 DEF Full
  <2>2. now' \in [Offset -> FaceRec] BY <1>8, <1>11, FacesType
  <2>3. (size + 1) + 1 \in 2 .. MaxOffset + 1 BY <1>5, <1>8, FileAssumption DEF Offset
  <2>4. Live(now') = W BY <2>1, <2>2, <2>3, LiveList
  <2> QED BY <2>4 DEF W
<1>13. ContentOf(now', W) = ContentOf(now, W)
  BY <1>8, <1>11, ContentSame DEF Nodes
<1>14. ProcTypes'
  <2>1. pc' \notin Opening \cup {"stitch"} /\ pc' \notin Mending /\ pc' # "idle" /\ pc' \in Writing
    BY <1>2 DEF Opening, Mending, Repaired, Writing
  <2> QED BY <1>1, <1>2, <1>4, <2>1 DEF ProcTypes
<1>15. Phases' BY <1>2, <1>3, <1>5, <1>9 DEF Phases
<1>16. Whole' BY <1>3, <1>8, <1>12 DEF Whole
<1>17. Working' BY <1>2, <1>3, <1>4, <1>8, <1>12, <1>13 DEF Working
<1>18. Prepared' /\ Stitching' /\ Walking' BY <1>2 DEF Prepared, Opening, Stitching, Walking
<1>19. Locs'
  <2>1. pc \in Writing /\ pc' \in Writing BY <1>2, <1>4 DEF Writing
  <2>2. loc[p].gen <= hcache.generation /\ Fit(loc[p], hcache.generation, size + 1, now, W)
    BY <1>1, <1>4, <2>1 DEF Locs
  <2>3. loc[p].end \in Nat BY <1>1, FileAssumption DEF ProcTypes, LocType, Size
  <2>4. Fit(loc[p], hcache.generation, size' + 1, now', W')
    <3>1. loc[p].gen = hcache.generation =>
            loc[p].end <= size' + 1 /\ loc[p].end # size' + 1
      BY <1>3, <1>5, <2>2, <2>3 DEF Fit
    <3> QED BY <3>1 DEF Fit
  <2> QED BY <1>2, <1>3, <1>4, <1>9, <1>10, <2>1, <2>2, <2>4, LocsKept
<1>20. Storing
  <2>1. View' = View /\ Left' = Left BY <1>1, <1>3, <1>7, <1>9, WriteView
  <2> QED BY <1>2, <2>1, Unseen
<1> QED BY <1>7, <1>9, <1>14, <1>15, <1>16, <1>17, <1>18, <1>19, <1>20 DEF SkipInv

\* The new record is written at the end of the file, not linked yet.
LEMMA AppendRecordStep ==
  ASSUME SkipInv, NEW p \in Proc, append_record(p)
  PROVE  SkipInv' /\ Storing /\ Filing
<1>1. /\ FileInv /\ FileMore /\ ProcTypes /\ Phases /\ Whole /\ Working /\ Prepared /\ Locs
  BY DEF SkipInv
<1> DEFINE rec == op.rec
           l == loc[p]
           m == appended(l, size + 1, rec)
<1>2. /\ owner = p /\ pc = "append" /\ write_record(rec) /\ pc' = "stitch"
      /\ loc' = [loc EXCEPT ![p].fwd =
               [i \in Levels |-> IF i < Max({1, rec.level}) THEN size + 1 ELSE @[i]]]
      /\ UNCHANGED <<phase, owner, readers, ret, rv, iter, titer, acked, op, num, work>>
  BY DEF append_record, owned
<1>3. /\ cache' = [cache EXCEPT ![size + 1] = rec] /\ disk' = [disk EXCEPT ![size + 1] = @ \cup {rec}]
      /\ size' = size + 1 /\ UNCHANGED <<hcache, hdisk, face>>
  BY <1>2 DEF write_record, pwrite
<1>4. /\ IsLoc(now, W, l) /\ l.key # 0 /\ l.end = size + 1 /\ l.gen = hcache.generation
      /\ op.lvl = 0 /\ (IsStore(l, rec, op.max) \/ IsDelete(l, rec, op.max))
      /\ num = Cardinality(IF l.exact THEN W \ {l.at} ELSE W) /\ size < MaxOffset
  BY <1>1, <1>2 DEF Prepared, Opening
<1>5. /\ Full(cache, size, W) /\ work = ContentOf(now, W) /\ phase = "txn"
      /\ hcache.flags = "dirty" /\ DirtyDurable /\ op # NoOp
  BY <1>1, <1>2 DEF Whole, Working, Writing, Phases, ProcTypes, Opening
<1>6. Sound(W) BY <1>1, <1>5, WholeSound
<1>7. Tagged(l) /\ l \in LocType /\ loc \in [Proc -> LocType] BY <1>1, <1>4 DEF Tagged, ProcTypes
<1>8. /\ hcache.current_size \in Nat /\ hcache.current_size <= size + 1 /\ size \in Nat /\ size >= 1
      /\ size + 1 \in Offset
  BY <1>1, <1>4, FileFacts, FileAssumption DEF Offset
<1>11. loc' = [loc EXCEPT ![p] = m] BY <1>2, <1>7 DEF appended
<1> HIDE DEF m, l, rec
<1>9. /\ rec \in Rec /\ rec.type \in {"RECORD", "DELETE"} /\ op.max \in 1 .. MaxLevel
      /\ rec.nextloc[0] = 0 \/ rec.nextloc[1] = 0
  <2> DEFINE mx == op.max
  <2> HIDE DEF mx
  <2>1. /\ Sound(W) /\ Tagged(l) /\ IsLoc(now, W, l) /\ l.key # 0
        /\ IsStore(l, rec, mx) \/ IsDelete(l, rec, mx)
    BY <1>4, <1>6, <1>7 DEF mx
  <2>2. /\ rec \in Rec /\ rec.type \in {"RECORD", "DELETE"} /\ mx \in 1 .. MaxLevel
        /\ rec.type = "RECORD" => rec.nextloc[0] = 0
        /\ rec.type # "RECORD" => rec.nextloc[1] = 0
    BY <2>1, OpRecord
  <2> QED BY <2>2 DEF mx
<1>10. /\ Cloth(cache', size + 1, W, m, rec, op.max, 0)
       /\ \A o \in Nodes(W) : Faces(cache', (size + 1) + 1)[o] = now[o]
       /\ m.exact = l.exact /\ m.at = l.at /\ m.gen = l.gen
  <2> DEFINE d == [cache EXCEPT ![size + 1] = rec]
  <2>1. /\ Cloth(d, size + 1, W, m, rec, op.max, 0)
        /\ \A o \in Nodes(W) : Faces(d, (size + 1) + 1)[o] = now[o]
        /\ m.exact = l.exact /\ m.at = l.at /\ m.gen = l.gen
    <3> HIDE DEF d
    <3>1. written(d, cache, size + 1, rec) BY DEF d, written
    <3>2. /\ Sound(W) /\ Tagged(l) /\ IsLoc(now, W, l) /\ l.key # 0 /\ size < MaxOffset
          /\ IsStore(l, rec, op.max) \/ IsDelete(l, rec, op.max)
      BY <1>4, <1>6, <1>7
    <3> QED BY <3>1, <3>2, Cut, Zenon DEF m
  <2> QED BY <1>3, <2>1 DEF written
<1>12. FileInv' /\ Filing
  <2>1. cache'[size + 1] = rec
    <3>1. cache \in [Offset -> Rec] BY <1>1, FileFacts
    <3> QED BY <1>3, <1>8, <3>1
  <2>2. AppendRecord(rec) BY <1>2, <1>4, <1>5, <1>9 DEF AppendRecord
  <2> QED BY <1>1, <2>1, <2>2, FileKept DEF FileNext
<1>13. rec.type = "DELETE" => rec.nextloc[1] = 0 /\ rec.nextloc[0] < size + 1
  BY <1>10 DEF Cloth, Fits
<1>14. FileMore' /\ then(hcache)' = then(hcache) /\ DirtyDurable'
  BY <1>1, <1>3, <1>5, <1>8, <1>13, MoreWrite
<1>15. Base' = Base BY <1>14 DEF Base
<1>16. now' = Faces(cache', (size + 1) + 1) BY <1>3 DEF now
<1>17. ContentOf(now', W) = ContentOf(now, W) BY <1>10, <1>16, ContentSame DEF Nodes
<1>18. m \in LocType /\ loc'[p] = m /\ loc' \in [Proc -> LocType]
       /\ \A q \in Proc : q # p => loc'[q] = loc[q]
  BY <1>7, <1>10, <1>11 DEF Cloth
<1>19. ProcTypes'
  <2>1. pc' \notin Mending /\ pc' # "idle" BY <1>2 DEF Mending, Repaired
  <2>2. pc \notin Mending /\ pc # "idle" BY <1>2 DEF Mending, Repaired
  <2> QED BY <1>1, <1>2, <1>5, <1>18, <2>1, <2>2 DEF ProcTypes
<1>20. Phases' BY <1>2, <1>3, <1>5, <1>8, <1>14 DEF Phases
<1>21. Whole' /\ Working' BY <1>2 DEF Whole, Working, Writing, Repaired
<1>22. Prepared' /\ Walking' BY <1>2 DEF Prepared, Opening, Walking
<1>23. Stitching'
  <2>1. W \in SUBSET Offset BY <1>6, SoundFacts
  <2>2. op' = op /\ loc'[owner'] = m /\ op.rec = rec BY <1>2, <1>18 DEF rec
  <2>3. Fits(now', cache', size', W, m, rec, op.max) /\ Sewn(now', cache', size', W, m, 0)
    BY <1>3, <1>10, <1>16 DEF Cloth
  <2>4. op.lvl \in 0 .. op.max - 1 /\ size' >= 2 BY <1>3, <1>4, <1>8, <1>9
  <2>5. Stitched(W)'
        <=> LET k == loc'[owner']
            IN /\ Fits(now', cache', size', W', k, op'.rec, op'.max)
               /\ Sewn(now', cache', size', W', k, op'.lvl)
               /\ op'.lvl \in 0 .. op'.max - 1 /\ size' >= 2 /\ k.gen = hcache'.generation
               /\ work' = ContentOf(now', W')
               /\ num' = Cardinality(IF k.exact THEN W' \ {k.at} ELSE W')
    BY DEF Stitched
  <2>6. \E L \in SUBSET Offset :
          LET k == loc'[owner']
            IN /\ Fits(now', cache', size', L, k, op'.rec, op'.max)
               /\ Sewn(now', cache', size', L, k, op'.lvl)
               /\ op'.lvl \in 0 .. op'.max - 1 /\ size' >= 2 /\ k.gen = hcache'.generation
               /\ work' = ContentOf(now', L)
               /\ num' = Cardinality(IF k.exact THEN L \ {k.at} ELSE L)
    <3> WITNESS W \in SUBSET Offset
    <3> QED BY <1>2, <1>3, <1>4, <1>5, <1>10, <1>17, <2>2, <2>3, <2>4
  <2> QED BY <2>6 DEF Stitching, Stitched
<1>24. Locs'
  <2>1. pc' \notin Writing BY <1>2 DEF Writing
  <2>2. m.gen <= hcache.generation
    <3>1. hcache.generation \in Nat BY <1>1, FileFacts
    <3> QED BY <1>4, <1>10, <3>1
  <2> QED BY <1>2, <1>3, <1>14, <1>15, <1>18, <2>1, <2>2, LocsKept
<1>25. Storing
  <2>1. View' = View /\ Left' = Left BY <1>1, <1>3, <1>12, <1>14, WriteView
  <2> QED BY <1>2, <2>1, Unseen
<1> QED BY <1>12, <1>14, <1>19, <1>20, <1>21, <1>22, <1>23, <1>24, <1>25 DEF SkipInv

-----------------------------------------------------------------------------
(* stitch.                                                                  *)

\* One rewrite of stitch, and the next level of it: the file.
LEMMA StitchFile ==
  ASSUME SkipInv, NEW p \in Proc, stitch(p), NEW L \in SUBSET Offset, Stitched(L)
  PROVE  LET l == loc[p]
             o == l.back[op.lvl]
             rec == op.rec
             mx == op.max
             g == Faces(cache', size + 1)
         IN /\ owner = p /\ l \in LocType /\ o \in Nodes(L) /\ cache[o].level \in 1 .. MaxLevel
            /\ Cloth(cache', size, L, l, rec, mx, nextLevel(cache[o].level, mx))
            /\ Alike(now, g) /\ FileInv' /\ Filing /\ FileMore' /\ then(hcache)' = then(hcache)
            /\ DirtyDurable' /\ work = ContentOf(g, L) /\ mx \in 1 .. MaxLevel
            /\ UNCHANGED <<size, hcache, sdisk, hdisk, phase, face, owner, readers, ret, rv,
                           iter, titer, acked>>
<1> DEFINE l == loc[p]
           o == l.back[op.lvl]
           rec == op.rec
           mx == op.max
           cs == hcache.current_size
           new == setlocs(cache[o], op.lvl, op.max, l.fwd, cs)
           d == [cache EXCEPT ![o] = new]
           g == Faces(d, size + 1)
<1>1. /\ FileInv /\ FileMore /\ ProcTypes /\ Phases
  BY DEF SkipInv
<1>2. /\ owner = p /\ pc = "stitch" /\ pwrite(o, new)
      /\ UNCHANGED <<size, hcache, sdisk, hdisk, phase, face, owner, readers, ret, rv,
                     iter, titer, acked>>
  BY DEF stitch, owned
<1>3. cache' = d /\ disk' = [disk EXCEPT ![o] = @ \cup {new}] BY <1>2 DEF pwrite
<1>4. /\ Fits(now, cache, size, L, l, rec, mx) /\ Sewn(now, cache, size, L, l, op.lvl)
      /\ op.lvl \in 0 .. mx - 1 /\ size >= 2 /\ work = ContentOf(now, L)
  BY <1>2 DEF Stitched
<1>5. /\ cache \in [Offset -> Rec] /\ PointBack(cache) /\ size \in Offset /\ size \in Nat
      /\ cs \in Nat /\ cs <= size /\ l \in LocType
      /\ phase = "txn" /\ DirtyDurable
  BY <1>1, <1>2, FileFacts DEF Phases, ProcTypes
<1>6. Cloth(cache, size, L, l, rec, mx, op.lvl) BY <1>4, <1>5 DEF Cloth, now
<1>7. mx \in 1 .. MaxLevel /\ op.lvl \in Nat /\ op.lvl < mx
  <2>1. mx \in 1 .. MaxLevel BY <1>6, ClothFacts
  <2> QED BY <1>4, <2>1, FileAssumption
<1> HIDE DEF d, new, o, l, rec, mx, cs
<1>8. /\ o \in Nodes(L) /\ Restitched(cache[o], new, cs) /\ cache[o].level > op.lvl
      /\ Alike(now, g) /\ Cloth(d, size, L, l, rec, mx, nextLevel(cache[o].level, mx))
  <2> DEFINE lvl == op.lvl
  <2>1. o = l.back[lvl] /\ new = setlocs(cache[o], lvl, mx, l.fwd, cs) BY DEF o, new, mx, cs
  <2>2. written(d, cache, o, new) BY DEF written, d
  <2>3. lvl \in Nat /\ lvl < mx /\ Cloth(cache, size, L, l, rec, mx, lvl) /\ cs \in Nat /\ cs <= size
    BY <1>5, <1>6, <1>7
  <2> HIDE DEF lvl
  <2>4. /\ o \in Nodes(L) /\ Restitched(cache[o], new, cs) /\ cache[o].level > lvl
        /\ Alike(Faces(cache, size + 1), Faces(d, size + 1))
        /\ Cloth(d, size, L, l, rec, mx, nextLevel(cache[o].level, mx))
    BY <2>1, <2>2, <2>3, SewStep
  <2> QED BY <2>4 DEF lvl, now
<1>9. /\ L \subseteq Offset /\ Nodes(L) \subseteq Offset
      /\ \A x \in Nodes(L) : /\ now[x].key \in Nat /\ x < size /\ now[x].level \in 1 .. MaxLevel
                             /\ now[x].type # "DELETE" /\ cache[x].level = now[x].level
      /\ \A x, y \in Nodes(L) : now[x].key = now[y].key => x = y
  BY <1>6, ClothFacts DEF now
<1>10. o \in Offset /\ o <= size /\ cache[o].level \in 1 .. MaxLevel /\ cache[o].type # "DELETE"
  <2>1. o \in Offset /\ o < size /\ cache[o].level \in 1 .. MaxLevel /\ now[o].type # "DELETE"
    BY <1>8, <1>9
  <2>2. now[o].type = cache[o].type BY <1>5, <2>1, FacesAt DEF now
  <2> QED BY <1>5, <2>1, <2>2 DEF Offset
<1>11. new.type = cache[o].type
  <2>1. new = [cache[o] EXCEPT !.nextloc = new.nextloc] BY <1>8 DEF Restitched
  <2>2. cache[o] \in Rec BY <1>5, <1>10
  <2> QED BY <2>1, <2>2 DEF Rec
<1>12. FileInv' /\ Filing
  <2>1. cache'[o] = new BY <1>3, <1>5, <1>10 DEF d
  <2>2. RewriteRecord(o, new) BY <1>2, <1>5, <1>8, <1>10 DEF RewriteRecord, cs
  <2> QED BY <1>1, <1>10, <2>1, <2>2, FileKept DEF FileNext
<1>13. FileMore' /\ then(hcache)' = then(hcache) /\ DirtyDurable'
  BY <1>1, <1>2, <1>3, <1>5, <1>10, <1>11, MoreWrite
<1>14. ContentOf(g, L) = ContentOf(now, L)
  <2>1. \A x \in L : now[x].key = g[x].key /\ now[x].val = g[x].val BY <1>8, <1>9 DEF Alike
  <2>2. \A x, y \in L : now[x].key = now[y].key => x = y BY <1>9 DEF Nodes
  <2> HIDE DEF g
  <2> QED BY <2>1, <2>2, ContentAlike
<1> QED BY <1>2, <1>3, <1>4, <1>5, <1>7, <1>8, <1>10, <1>12, <1>13, <1>14 DEF o, l, rec, mx

\* stitch has more to rewrite.
LEMMA StitchMore ==
  ASSUME SkipInv, NEW p \in Proc, stitch(p), ~done(loc[p].back[op.lvl])
  PROVE  SkipInv' /\ Storing /\ Filing
<1> DEFINE l == loc[p]
           o == l.back[op.lvl]
           rec == op.rec
           mx == op.max
           h == cache[o].level
<1>1. /\ FileInv /\ FileMore /\ ProcTypes /\ Phases /\ Locs /\ Stitching
  BY DEF SkipInv
<1>2. /\ pc = "stitch" /\ op' = [op EXCEPT !.lvl = h] /\ UNCHANGED <<pc, loc, num, work>> /\ h < mx
  <2>1. /\ pc = "stitch" /\ op' = [op EXCEPT !.lvl = h] /\ UNCHANGED <<pc, loc, num, work>>
        /\ ~(h >= mx)
    BY DEF stitch, done, climb
  <2>2. PICK L \in SUBSET Offset : Stitched(L) BY <1>1, <2>1 DEF Stitching
  <2>3. h \in 1 .. MaxLevel /\ mx \in 1 .. MaxLevel BY <2>2, StitchFile
  <2> HIDE DEF h, mx
  <2> QED BY <2>1, <2>3, FileAssumption
<1>3. PICK L \in SUBSET Offset : Stitched(L) BY <1>1, <1>2 DEF Stitching
<1> DEFINE g == Faces(cache', size + 1)
<1>4. /\ owner = p /\ l \in LocType /\ o \in Nodes(L) /\ h \in 1 .. MaxLevel
      /\ Cloth(cache', size, L, l, rec, mx, nextLevel(h, mx))
      /\ Alike(now, g) /\ FileInv' /\ Filing /\ FileMore' /\ then(hcache)' = then(hcache)
      /\ DirtyDurable' /\ work = ContentOf(g, L) /\ mx \in 1 .. MaxLevel
      /\ UNCHANGED <<size, hcache, sdisk, hdisk, phase, face, owner, readers, ret, rv,
                     iter, titer, acked>>
  BY <1>3, StitchFile
<1>5. /\ l.gen = hcache.generation /\ size >= 2
      /\ num = Cardinality(IF l.exact THEN L \ {l.at} ELSE L)
  BY <1>3, <1>4 DEF Stitched
<1>6. nextLevel(h, mx) = h BY <1>2, <1>4, FileAssumption DEF nextLevel
<1>7. /\ op'.rec = rec /\ op'.max = mx /\ op'.lvl = h
      /\ op' = [rec |-> op'.rec, max |-> op'.max, lvl |-> op'.lvl]
  <2>1. op = [rec |-> op.rec, max |-> op.max, lvl |-> op.lvl] BY <1>1 DEF ProcTypes
  <2> HIDE DEF h
  <2> QED BY <1>2, <2>1
<1>8. op' # NoOp
  <2> HIDE DEF h
  <2>1. op'.lvl # 0 BY <1>4, <1>7
  <2> QED BY <2>1 DEF NoOp
<1> HIDE DEF g, l, o, rec, mx, h
<1>9. Base' = Base BY <1>4 DEF Base
<1>10. now' = g BY <1>4 DEF now, g
<1>11. ProcTypes' BY <1>1, <1>2, <1>4, <1>7, <1>8 DEF ProcTypes
<1>12. Phases'
  <2>1. /\ phase' = phase /\ hcache' = hcache /\ size' = size /\ DirtyDurable' /\ pc' = "stitch" BY <1>2, <1>4
  <2> QED BY <1>1, <1>2, <2>1 DEF Phases
<1>13. Whole' /\ Working' /\ Prepared' /\ Walking'
  BY <1>2 DEF Whole, Working, Prepared, Walking, Writing, Repaired, Opening
<1>14. Stitching'
  <2>1. loc'[owner'] = l BY <1>2, <1>4 DEF l
  <2>2. Fits(now', cache', size', L, l, rec, mx) /\ Sewn(now', cache', size', L, l, h)
    BY <1>4, <1>6, <1>10 DEF Cloth, g
  <2>3. h \in 0 .. mx - 1 BY <1>2, <1>4, FileAssumption
  <2>6. \E M \in SUBSET Offset :
          LET k == loc'[owner']
            IN /\ Fits(now', cache', size', M, k, op'.rec, op'.max)
               /\ Sewn(now', cache', size', M, k, op'.lvl)
               /\ op'.lvl \in 0 .. op'.max - 1 /\ size' >= 2 /\ k.gen = hcache'.generation
               /\ work' = ContentOf(now', M)
               /\ num' = Cardinality(IF k.exact THEN M \ {k.at} ELSE M)
    <3> WITNESS L \in SUBSET Offset
    <3> QED BY <1>2, <1>4, <1>5, <1>7, <1>10, <2>1, <2>2, <2>3
  <2> QED BY <2>6 DEF Stitching, Stitched
<1>15. Locs'
  <2>1. pc' = "stitch" /\ pc' \notin Writing /\ loc' = loc BY <1>2 DEF Writing
  <2>2. loc[p].gen <= hcache.generation BY <1>1 DEF Locs
  <2> QED BY <1>4, <1>9, <2>1, <2>2, LocsKept
<1>16. Storing
  <2>1. View' = View /\ Left' = Left BY <1>1, <1>4, WriteView
  <2> QED BY <1>2, <1>4, <2>1, Unseen
<1> QED BY <1>4, <1>11, <1>12, <1>13, <1>14, <1>15, <1>16 DEF SkipInv

\* The last rewrite of stitch: the list is whole again, with the new record.
LEMMA StitchLast ==
  ASSUME SkipInv, NEW p \in Proc, stitch(p), done(loc[p].back[op.lvl])
  PROVE  SkipInv' /\ Storing /\ Filing
<1> DEFINE l == loc[p]
           o == l.back[op.lvl]
           rec == op.rec
           mx == op.max
           h == cache[o].level
           m == sewnLoc(cache', size, l, rec)
           stored == rec.type = "RECORD"
<1>1. /\ FileInv /\ FileMore /\ ProcTypes /\ Phases /\ Locs /\ Stitching
  BY DEF SkipInv
<1>2. /\ pc = "stitch" /\ pc' = "txn" /\ op' = NoOp /\ loc' = [loc EXCEPT ![p] = m]
      /\ num' = (IF stored THEN num + 1 ELSE num)
      /\ work' = (IF stored THEN Put(work, l.key, rec.val) ELSE Remove(work, l.key))
      /\ h >= mx
  BY DEF stitch, done, sewnLoc
<1>3. PICK L \in SUBSET Offset : Stitched(L) BY <1>1, <1>2 DEF Stitching
<1> DEFINE g == Faces(cache', size + 1)
           T == Spliced(g, size, L, l.key, rec)
           n == Cardinality(IF l.exact THEN L \ {l.at} ELSE L)
<1>4. /\ owner = p /\ l \in LocType /\ o \in Nodes(L) /\ h \in 1 .. MaxLevel
      /\ Cloth(cache', size, L, l, rec, mx, nextLevel(h, mx))
      /\ Alike(now, g) /\ FileInv' /\ Filing /\ FileMore' /\ then(hcache)' = then(hcache)
      /\ DirtyDurable' /\ work = ContentOf(g, L) /\ mx \in 1 .. MaxLevel
      /\ UNCHANGED <<size, hcache, sdisk, hdisk, phase, face, owner, readers, ret, rv,
                     iter, titer, acked>>
  BY <1>3, StitchFile
<1>5. l.gen = hcache.generation /\ num = n /\ Fits(now, cache, size, L, l, rec, mx)
  BY <1>3, <1>4 DEF Stitched
<1>6. Cloth(cache', size, L, l, rec, mx, mx)
  <2>1. nextLevel(h, mx) = mx BY <1>2, <1>4, FileAssumption DEF nextLevel
  <2> QED BY <1>4, <2>1
<1>7. l.key \in Key /\ l.exact \in BOOLEAN /\ (stored => rec.val \in Val) /\ (~stored => l.exact)
  BY <1>4, <1>5 DEF Fits, LocType
<1>8. /\ m \in LocType /\ m.key = l.key /\ m.gen = l.gen /\ m.end = size + 1 /\ IsLoc(g, T, m)
  <2> HIDE DEF l, rec, mx
  <2> QED BY <1>6, SewnLoc
<1> HIDE DEF l, o, rec, mx, h, m
<1>9. Full(cache', size, T) BY <1>6, SewnFull
<1>10. /\ ContentOf(g, T) = (IF rec.type = "RECORD" THEN Put(ContentOf(g, L), l.key, rec.val)
                            ELSE Remove(ContentOf(g, L), l.key))
       /\ Cardinality(T) = (IF rec.type = "RECORD" THEN n + 1 ELSE n)
       /\ n \in Nat
  BY <1>6, SewnContent
<1>11. now' = g BY <1>4 DEF now
<1>12. W' = T
  <2>1. List(g, size + 1, T) BY <1>9 DEF Full
  <2>2. g \in [Offset -> FaceRec] /\ size + 1 \in 2 .. MaxOffset + 1
    <3>1. cache' \in [Offset -> Rec] /\ size \in Offset BY <1>6 DEF Cloth
    <3> QED BY <3>1, FacesType, FileAssumption DEF Offset
  <2> HIDE DEF g, T
  <2>3. Live(g) = T BY <2>1, <2>2, LiveList
  <2> QED BY <1>11, <2>3 DEF W
<1> HIDE DEF g, T, n
<1>13. Full(cache', size', W') /\ work' = ContentOf(now', W') /\ num' = Cardinality(W')
       /\ num' \in Int
  BY <1>2, <1>4, <1>5, <1>9, <1>10, <1>11, <1>12
<1>14. phase = "txn" /\ hcache.flags = "dirty" BY <1>1, <1>2 DEF Phases
<1>15. Base' = Base BY <1>4 DEF Base
<1>16. loc'[p] = m /\ loc' \in [Proc -> LocType] /\ \A q \in Proc : q # p => loc'[q] = loc[q]
  BY <1>1, <1>2, <1>8 DEF ProcTypes
<1>17. ProcTypes'
  <2>1. /\ pc' \notin Mending /\ pc' # "idle" /\ pc' \notin Opening \cup {"stitch"} /\ pc' \in Writing
        /\ pc \notin Mending /\ pc # "idle"
    BY <1>2 DEF Mending, Repaired, Opening, Writing
  <2> QED BY <1>1, <1>2, <1>4, <1>13, <1>16, <2>1, NoOpForm DEF ProcTypes
<1>18. Phases' BY <1>2, <1>4, <1>14 DEF Phases
<1>19. Whole' /\ Working' BY <1>2, <1>13 DEF Whole, Working
<1>20. Prepared' /\ Stitching' /\ Walking' BY <1>2 DEF Prepared, Opening, Stitching, Walking
<1>21. Locs'
  <2>1. pc' \in Writing BY <1>2 DEF Writing
  <2>2. hcache.generation \in Nat BY <1>1, FileFacts
  <2>3. Fit(m, hcache.generation, size' + 1, now', W')
    <3>1. size \in Nat BY <1>1, FileFacts
    <3> QED BY <1>4, <1>8, <1>11, <1>12, <3>1 DEF Fit
  <2>4. m.gen <= hcache.generation BY <1>5, <1>8, <2>2
  <2> QED BY <1>4, <1>15, <1>16, <2>1, <2>3, <2>4, LocsKept
<1>22. Storing
  <2>1. View' = View /\ Left' = Left BY <1>1, <1>4, WriteView
  <2>2. work # NoTxn BY <1>2, WorkOpen
  <2>3. CASE stored
    <3>1. Store!Put(l.key, rec.val)
      BY <1>2, <1>4, <2>1, <2>2, <2>3 DEF Store!Put, Put, Left, then
    <3> QED BY <1>7, <2>3, <3>1 DEF Storing, Store!Next
  <2>4. CASE ~stored
    <3>1. l.key \in DOMAIN work
      <4>1. l.at \in L /\ now[l.at].key = l.key BY <1>5, <1>7, <2>4 DEF Fits
      <4>2. Records(now, size, L) BY <1>5 DEF Fits
      <4>3. work = ContentOf(now, L) BY <1>3 DEF Stitched
      <4>4. DOMAIN ContentOf(now, L) = KeysOf(now, L)
        <5> DEFINE f == now
        <5> HIDE DEF f
        <5>1. Records(f, size, L) BY <4>2 DEF f
        <5>2. DOMAIN ContentOf(f, L) = KeysOf(f, L) BY <5>1, ContentFacts
        <5> QED BY <5>2 DEF f
      <4>5. l.key \in KeysOf(now, L) BY <4>1 DEF KeysOf
      <4> QED BY <4>3, <4>4, <4>5
    <3>2. Store!Del(l.key)
      BY <1>2, <1>4, <2>1, <2>2, <2>4, <3>1 DEF Store!Del, Remove, Left, then
    <3> QED BY <1>7, <3>2 DEF Storing, Store!Next
  <2> QED BY <2>3, <2>4
<1> QED BY <1>4, <1>17, <1>18, <1>19, <1>20, <1>21, <1>22 DEF SkipInv

\* One rewrite of stitch.
LEMMA StitchStep ==
  ASSUME SkipInv, NEW p \in Proc, stitch(p)
  PROVE  SkipInv' /\ Storing /\ Filing
BY StitchMore, StitchLast

-----------------------------------------------------------------------------
(* The repairs of recovery1.                                                *)

\* The committed file, for the lemmas on recovery1.
LEMMA MendFacts ==
  ASSUME FileInv, FileMore
  PROVE  LET f == then(hcache)
             n == hcache.current_size
         IN /\ Committed(cache, f, n, Base) /\ n \in Nat /\ n >= 2
            /\ ~DirtyDurable =>
                 /\ \A o \in Nodes(Base) : zerolocs(cache[o], n) = cache[o]
                 /\ \A r : Walked(cache, r, f, n, Base) =>
                      /\ r.cur # 0 => \A i \in 2 .. f[r.cur].level : r.next[i] = r.cur
                      /\ r.cur = 0 => \A i \in 2 .. MaxLevel : r.next[i] = 0
            /\ Nodes(Base) \subseteq Offset
            /\ \A o \in Nodes(Base) : /\ o < n /\ o <= size /\ cache[o] \in Rec
                                      /\ cache[o].type # "DELETE" /\ cache[o].level = f[o].level
                                      /\ cache[o].key = f[o].key /\ f[o].key \in Nat
                                      /\ f[o].level \in 1 .. MaxLevel
            /\ \A o \in Base : cache[o].type = "RECORD"
<1> DEFINE f == then(hcache)
           n == hcache.current_size
<1>1. /\ Committed(cache, f, n, Base) /\ n \in Nat /\ n \in 2 .. MaxOffset + 1 /\ size \in Nat
      /\ n <= size + 1
  BY FileFacts
<1> HIDE DEF f, n
<1>2. ASSUME ~DirtyDurable
      PROVE  /\ \A o \in Nodes(Base) : zerolocs(cache[o], n) = cache[o]
             /\ \A r : Walked(cache, r, f, n, Base) =>
                  /\ r.cur # 0 => \A i \in 2 .. f[r.cur].level : r.next[i] = r.cur
                  /\ r.cur = 0 => \A i \in 2 .. MaxLevel : r.next[i] = 0
  <2>1. n = size + 1 /\ Full(cache, size, W) BY <1>2, CleanFacts DEF n
  <2>2. W = Base BY <2>1, ViewFacts DEF n
  <2>3. Full(cache, size, Base) /\ size = n - 1 BY <1>1, <2>1, <2>2
  <2> QED BY <1>1, <2>3, WalkSilent
<1>3. /\ \A o \in 1 .. n - 1 : /\ cache[o].type = f[o].type /\ cache[o].level = f[o].level
                               /\ cache[o].key = f[o].key /\ o \in Offset
      /\ \A o \in Nodes(Base) : /\ o \in 1 .. n - 1 /\ f[o].key \in Nat
                                /\ f[o].level \in 1 .. MaxLevel /\ cache[o] \in Rec
      /\ \A o \in Base : f[o].type = "RECORD"
      /\ Records(f, n, Base)
  BY <1>1, CommittedFacts
<1>4. ASSUME NEW o \in Nodes(Base)
      PROVE  /\ o < n /\ o <= size /\ cache[o] \in Rec /\ o \in Offset
             /\ cache[o].type # "DELETE" /\ cache[o].level = f[o].level
             /\ cache[o].key = f[o].key /\ f[o].key \in Nat
             /\ f[o].level \in 1 .. MaxLevel
             /\ (o \in Base => cache[o].type = "RECORD")
  <2>1. o \in 1 .. n - 1 BY <1>3
  <2>2. f[o].type # "DELETE" BY <1>3 DEF Records, Nodes
  <2>3. o < n /\ o <= size BY <1>1, <2>1
  <2> QED BY <1>3, <2>1, <2>2, <2>3
<1>5. n >= 2 BY <1>1
<1> QED BY <1>1, <1>2, <1>4, <1>5 DEF f, n, Nodes

\* A step of the walk that leaves it where it should be.
LEMMA Mended ==
  ASSUME SkipInv, NEW p \in Proc, owner = p, pc \in {"dummy", "walk"}, pc' = "walk",
         FileInv', Filing, FileMore',
         UNCHANGED <<size, hcache, hdisk, phase, face, owner, readers, op, num, ret, loc,
                     iter, titer, acked, work>>,
         Walked(cache', rv', then(hcache), hcache.current_size, Base)
  PROVE  SkipInv' /\ Storing /\ Filing
<1>1. /\ FileInv /\ FileMore /\ ProcTypes /\ Phases /\ Locs
  BY DEF SkipInv
<1>2. then(hcache)' = then(hcache) BY DEF then
<1>3. Base' = Base BY <1>2 DEF Base
<1>4. /\ pc \in Mending /\ pc' \in Mending /\ pc # "idle" /\ pc' # "idle"
      /\ pc \notin Opening \cup {"stitch"} /\ pc' \notin Opening \cup {"stitch"}
      /\ pc \notin Writing \cup {"stitch"} /\ pc' \notin Writing \cup {"stitch"}
  BY DEF Mending, Opening, Writing
<1>5. ProcTypes' BY <1>1, <1>4 DEF ProcTypes
<1>6. Phases' BY <1>1 DEF Phases
<1>7. Whole' /\ Working' /\ Prepared' /\ Stitching'
  BY DEF Whole, Working, Prepared, Stitching, Writing, Repaired, Opening
<1>8. Walking' BY <1>2, <1>3 DEF Walking
<1>9. Locs'
  <2>1. /\ loc[p].gen <= hcache.generation
        /\ Fit(loc[p], hcache.generation, hcache.current_size, then(hcache), Base)
    BY <1>1, <1>4 DEF Locs
  <2> QED BY <1>2, <1>3, <1>4, <2>1, LocsKept
<1>10. Storing
  <2>1. View' = View /\ Left' = Left BY <1>1, WriteView
  <2> QED BY <2>1, Unseen
<1> QED BY <1>5, <1>6, <1>7, <1>8, <1>9, <1>10 DEF SkipInv

\* The pointers of level zero are repaired, or there is nothing to repair.
LEMMA FixZero ==
  ASSUME FileInv, FileMore, phase = "fix", NEW o \in Nodes(Base), fixLevelZero(o)
  PROVE  /\ written(cache', cache, o, zerolocs(cache[o], hcache.current_size))
         /\ FileInv' /\ Filing /\ FileMore' /\ UNCHANGED <<size, hcache, sdisk, hdisk, phase, face>>
<1> DEFINE n == hcache.current_size
           new == zerolocs(cache[o], n)
<1>1. /\ n \in Nat /\ n >= 2 /\ o \in Offset /\ o < n /\ o <= size /\ cache[o] \in Rec
      /\ cache[o].type # "DELETE" /\ (~DirtyDurable => new = cache[o])
  BY MendFacts
<1>2. cache \in [Offset -> Rec] /\ disk \in [Offset -> SUBSET Rec]
  BY DEF FileInv, FileCore, FileTypeOK
<1>3. UNCHANGED <<size, hcache, sdisk, hdisk, phase, face>> BY DEF fixLevelZero
<1>4. new.type = cache[o].type /\ new \in Rec BY <1>1, ZeroFacts
<1>5. CASE new = cache[o]
  <2>1. cache' = cache /\ disk' = disk BY <1>5 DEF fixLevelZero
  <2>2. cache' = [cache EXCEPT ![o] = new]
    <3> HIDE DEF new
    <3> QED BY <1>1, <1>2, <1>5, <2>1
  <2>3. FileInv' /\ Filing /\ FileMore' BY <1>3, <2>1, QuietAll DEF fileVars
  <2> QED BY <1>3, <2>2, <2>3 DEF written
<1>6. CASE new # cache[o]
  <2>1. pwrite(o, new) BY <1>6 DEF fixLevelZero
  <2>2. DirtyDurable BY <1>1, <1>6
  <2>3. FixLevelZero(o) BY <1>1, <1>3, <2>1, <2>2 DEF FixLevelZero
  <2>4. FileInv' /\ Filing BY <1>1, <2>3, FileKept DEF FileNext
  <2> HIDE DEF new
  <2>5. cache' = [cache EXCEPT ![o] = new] /\ disk' = [disk EXCEPT ![o] = @ \cup {new}]
    BY <2>1 DEF pwrite
  <2>6. FileMore' BY <1>1, <1>3, <1>4, <2>2, <2>5, MoreWrite
  <2> QED BY <1>3, <2>4, <2>5, <2>6 DEF written, new
<1> QED BY <1>5, <1>6

\* recovery1 finds a next record that is in order, or the end.
LEMMA WalkOn ==
  ASSUME FileInv, FileMore, NEW o \in Nodes(Base), walkOn(o, nextoffset(o))
  PROVE  /\ pc' = "walk" /\ nextoffset(o) \in Ptr
         /\ IsNext(then(hcache), Base, then(hcache)[o].key, nextoffset(o))
<1> DEFINE x == nextoffset(o)
           f == then(hcache)
           n == hcache.current_size
<1>1. Committed(cache, f, n, Base) BY FileFacts
<1>2. IsNext(f, Base, f[o].key, x)
  <2> HIDE DEF f, n
  <2> QED BY <1>1, NextOffset DEF n
<1> HIDE DEF x
<1>3. CASE x = 0
  <2>1. pc' = "walk" BY <1>3 DEF walkOn, x
  <2> QED BY <1>2, <1>3, <2>1, FileAssumption DEF Ptr, x
<1>4. CASE x # 0
  <2>1. x \in Base /\ f[x].key > f[o].key BY <1>2, <1>4 DEF IsNext
  <2>2. /\ cache[x].key = f[x].key /\ cache[o].key = f[o].key /\ f[x].key \in Nat /\ f[o].key \in Nat
        /\ cache[x].type = "RECORD" /\ x \in Offset
    BY <2>1, MendFacts DEF Nodes
  <2>3. ~(cache[x].key <= cache[o].key)
    <3> HIDE DEF f
    <3> QED BY <2>1, <2>2
  <2>4. pc' = "walk" BY <1>4, <2>2, <2>3 DEF walkOn, x
  <2> QED BY <1>2, <2>2, <2>4 DEF Ptr, Offset, x
<1> QED BY <1>3, <1>4

\* recovery1 begins its walk at the DUMMY.
LEMMA RecoverDummyStep ==
  ASSUME SkipInv, NEW p \in Proc, RecoverDummy(p)
  PROVE  SkipInv' /\ Storing /\ Filing
<1> DEFINE D == DUMMY_OFFSET
           x == nextoffset(D)
           f == then(hcache)
           n == hcache.current_size
<1>1. FileInv /\ FileMore /\ phase = "fix" BY DEF SkipInv, Phases, RecoverDummy
<1>2. /\ owner = p /\ pc = "dummy" /\ fixLevelZero(D) /\ walkOn(D, x)
      /\ rv' = passedDummy(cache, x)
      /\ UNCHANGED <<owner, readers, op, num, ret, loc, iter, titer, acked, work>>
  BY DEF RecoverDummy, recovering, passedDummy
<1>3. D \in Nodes(Base) BY DEF Nodes
<1>4. /\ written(cache', cache, D, zerolocs(cache[D], n)) /\ FileInv' /\ Filing /\ FileMore'
      /\ UNCHANGED <<size, hcache, sdisk, hdisk, phase, face>>
  BY <1>1, <1>2, <1>3, FixZero
<1>5. pc' = "walk" /\ x \in Ptr /\ IsNext(f, Base, f[D].key, x) BY <1>1, <1>2, <1>3, WalkOn
<1>6. Committed(cache, f, n, Base) BY <1>1, FileFacts
<1> HIDE DEF x, f, n
<1>7. Walked(cache', passedDummy(cache, x), f, n, Base) BY <1>4, <1>5, <1>6, WalkStart
<1> QED BY <1>2, <1>4, <1>5, <1>7, Mended DEF f, n

\* The walk of recovery1 passes a record.
LEMMA RecoverRecordStep ==
  ASSUME SkipInv, NEW p \in Proc, RecoverRecord(p)
  PROVE  SkipInv' /\ Storing /\ Filing
<1> DEFINE o == rv.cur
           x == nextoffset(o)
           f == then(hcache)
           n == hcache.current_size
<1>1. FileInv /\ FileMore /\ phase = "fix" /\ Walked(cache, rv, f, n, Base)
  BY DEF SkipInv, Phases, Walking, RecoverRecord
<1>2. /\ owner = p /\ pc = "walk" /\ o # 0 /\ Wrong = {} /\ fixLevelZero(o) /\ walkOn(o, x)
      /\ rv' = passedRecord(cache, rv, x)
      /\ UNCHANGED <<owner, readers, op, num, ret, loc, iter, titer, acked, work>>
  BY DEF RecoverRecord, recovering, passedRecord
<1>3. o \in Base /\ o \in Nodes(Base)
  <2>1. IsNext(f, Base, f[rv.last].key, rv.cur) BY <1>1 DEF Walked
  <2> QED BY <1>2, <2>1 DEF IsNext, Nodes
<1>4. /\ written(cache', cache, o, zerolocs(cache[o], n)) /\ FileInv' /\ Filing /\ FileMore'
      /\ UNCHANGED <<size, hcache, sdisk, hdisk, phase, face>>
  BY <1>1, <1>2, <1>3, FixZero
<1>5. pc' = "walk" /\ x \in Ptr /\ IsNext(f, Base, f[o].key, x) BY <1>1, <1>2, <1>3, WalkOn
<1>6. Committed(cache, f, n, Base) BY <1>1, FileFacts
<1>7. \A i \in 2 .. f[o].level : rv.next[i] = rv.cur
  <2>1. cache[o].level = f[o].level BY <1>1, <1>3, MendFacts
  <2>2. levelat(rv.cur) = f[o].level BY <1>2, <2>1 DEF levelat
  <2> QED BY <1>2, <2>2 DEF Wrong
<1> HIDE DEF x, f, n
<1>8. Walked(cache', passedRecord(cache, rv, x), f, n, Base)
  <2> DEFINE r == rv
             d == cache'
             c == cache
  <2>1. /\ Committed(c, f, n, Base) /\ Walked(c, r, f, n, Base) /\ r.cur # 0
        /\ \A i \in 2 .. f[r.cur].level : r.next[i] = r.cur
        /\ written(d, c, r.cur, zerolocs(c[r.cur], n)) /\ IsNext(f, Base, f[r.cur].key, x)
    BY <1>1, <1>2, <1>4, <1>5, <1>6, <1>7
  <2> HIDE DEF r, c, d
  <2>2. Walked(d, passedRecord(c, r, x), f, n, Base) BY <1>5, <2>1, WalkRecord
  <2> QED BY <2>2 DEF r, d, c
<1> QED BY <1>2, <1>4, <1>5, <1>8, Mended DEF f, n

\* A pointer above level zero is repaired.
LEMMA FixPointer ==
  ASSUME SkipInv, NEW p \in Proc, owner = p, pc = "walk", DirtyDurable,
         NEW levels, levels # {}, levels \subseteq 2 .. MaxLevel, fixUpper(levels)
  PROVE  SkipInv' /\ Storing /\ Filing
<1> DEFINE i == Min(levels)
           o == rv.prev[i]
           new == pointed(cache[o], i, rv.cur)
           f == then(hcache)
           n == hcache.current_size
<1>1. FileInv /\ FileMore /\ phase = "fix" /\ Walked(cache, rv, f, n, Base)
  BY DEF SkipInv, Phases, Walking
<1>2. /\ pwrite(o, new) /\ reached(rv', rv, i)
      /\ UNCHANGED <<size, hcache, sdisk, hdisk, phase, face, pc, owner, readers, op, num,
                     ret, loc, iter, titer, acked, work>>
  BY DEF fixUpper, recovering, pointed, reached
<1>3. i \in 2 .. MaxLevel
  <2>1. levels \subseteq Nat BY FileAssumption
  <2> QED BY <2>1, Least
<1>4. Committed(cache, f, n, Base) BY <1>1, FileFacts
<1> HIDE DEF f, n, i
<1>5. written(cache', cache, rv.prev[i], pointed(cache[rv.prev[i]], i, rv.cur))
  BY <1>2 DEF pwrite, written
<1>6. /\ Walked(cache', rv', f, n, Base) /\ o \in Nodes(Base)
      /\ repointed(cache[o], cache'[o])
  <2> DEFINE r == rv
             d == cache'
             c == cache
             t == rv'
  <2>1. /\ Committed(c, f, n, Base) /\ Walked(c, r, f, n, Base)
        /\ written(d, c, r.prev[i], pointed(c[r.prev[i]], i, r.cur)) /\ reached(t, r, i)
    BY <1>1, <1>2, <1>4, <1>5
  <2> HIDE DEF r, c, d, t
  <2>2. /\ Walked(d, t, f, n, Base) /\ r.prev[i] \in Nodes(Base)
        /\ repointed(c[r.prev[i]], d[r.prev[i]])
    BY <1>3, <2>1, WalkUpper
  <2> QED BY <2>2 DEF r, c, d, t
<1> HIDE DEF o, new
<1>7. o \in Offset /\ o < n /\ cache[o] \in Rec /\ cache[o].type # "DELETE"
  BY <1>1, <1>6, MendFacts DEF n
<1>8. cache'[o] = new
  <2>1. cache \in [Offset -> Rec] BY <1>1, FileFacts
  <2> QED BY <1>2, <1>7, <2>1 DEF pwrite
<1>9. FileInv' /\ Filing
  <2>1. FixUpper(o, cache'[o]) BY <1>1, <1>2, <1>6, <1>7, <1>8 DEF FixUpper, repointed, n
  <2> QED BY <1>1, <1>7, <2>1, FileKept DEF FileNext
<1>10. FileMore'
  <2>1. new.type # "DELETE"
    <3>1. new = [cache[o] EXCEPT !.nextloc = new.nextloc] BY <1>6, <1>8 DEF repointed
    <3> QED BY <1>7, <3>1 DEF Rec
  <2>2. disk' = [disk EXCEPT ![o] = @ \cup {new}] BY <1>2 DEF pwrite
  <2> QED BY <1>1, <1>2, <1>7, <2>1, <2>2, MoreWrite
<1> QED BY <1>2, <1>6, <1>9, <1>10, Mended DEF f, n

\* recovery1 repairs one pointer above level zero.
LEMMA RecoverUpperStep ==
  ASSUME SkipInv, NEW p \in Proc, RecoverUpper(p) \/ RecoverTail(p)
  PROVE  SkipInv' /\ Storing /\ Filing
<1> DEFINE f == then(hcache)
           n == hcache.current_size
<1>1. /\ owner = p /\ pc = "walk"
  BY DEF RecoverUpper, RecoverTail
<1>2. FileInv /\ FileMore /\ Walked(cache, rv, f, n, Base) BY <1>1 DEF SkipInv, Walking
<1>3. ~DirtyDurable => /\ rv.cur # 0 => \A i \in 2 .. f[rv.cur].level : rv.next[i] = rv.cur
                       /\ rv.cur = 0 => \A i \in 2 .. MaxLevel : rv.next[i] = 0
  <2> DEFINE r == rv
  <2>1. Walked(cache, r, then(hcache), hcache.current_size, Base) BY <1>2
  <2> HIDE DEF r
  <2>2. ~DirtyDurable => /\ r.cur # 0 => \A i \in 2 .. then(hcache)[r.cur].level : r.next[i] = r.cur
                         /\ r.cur = 0 => \A i \in 2 .. MaxLevel : r.next[i] = 0
    BY <1>2, <2>1, MendFacts
  <2> QED BY <2>2 DEF r
<1>4. CASE RecoverUpper(p)
  <2>1. rv.cur # 0 /\ Wrong # {} /\ fixUpper(Wrong) BY <1>4 DEF RecoverUpper
  <2>2. rv.cur \in Nodes(Base)
    <3>1. IsNext(f, Base, f[rv.last].key, rv.cur) BY <1>2 DEF Walked
    <3> QED BY <2>1, <3>1 DEF IsNext, Nodes
  <2>3. levelat(rv.cur) = f[rv.cur].level /\ f[rv.cur].level \in 1 .. MaxLevel
    <3>1. cache[rv.cur].level = f[rv.cur].level /\ f[rv.cur].level \in 1 .. MaxLevel
      BY <1>2, <2>2, MendFacts
    <3> QED BY <2>1, <3>1 DEF levelat
  <2> HIDE DEF f
  <2>4. Wrong \subseteq 2 .. MaxLevel /\ DirtyDurable
    <3>1. \A i \in Wrong : i \in 2 .. f[rv.cur].level /\ rv.next[i] # rv.cur BY <2>3 DEF Wrong
    <3>2. DirtyDurable BY <1>3, <2>1, <3>1
    <3>3. Wrong \subseteq 2 .. MaxLevel BY <2>3, <3>1, FileAssumption
    <3> QED BY <3>2, <3>3
  <2> QED BY <1>1, <2>1, <2>4, FixPointer
<1>5. CASE RecoverTail(p)
  <2>1. rv.cur = 0 /\ Dangling # {} /\ fixUpper(Dangling) BY <1>5 DEF RecoverTail
  <2>2. Dangling \subseteq 2 .. MaxLevel /\ DirtyDurable BY <1>3, <2>1 DEF Dangling
  <2> QED BY <1>1, <2>1, <2>2, FixPointer
<1> QED BY <1>4, <1>5

\* The walk is over: recovery1 cuts off what was not committed.
LEMMA RecoverTruncateStep ==
  ASSUME SkipInv, NEW p \in Proc, RecoverTruncate(p)
  PROVE  SkipInv' /\ Storing /\ Filing
<1> DEFINE f == then(hcache)
           n == hcache.current_size
           s == n - 1
<1>1. FileInv /\ FileMore /\ ProcTypes /\ Locs /\ phase = "fix" /\ Walked(cache, rv, f, n, Base)
  BY DEF SkipInv, Phases, Walking, RecoverTruncate
<1>2. /\ owner = p /\ pc = "walk" /\ rv.cur = 0 /\ Dangling = {} /\ truncate(s)
      /\ phase' = "truncated" /\ pc' = "truncsync"
      /\ UNCHANGED <<hcache, hdisk, face, owner, readers, op, num, ret, loc, iter, titer,
                     acked, rv, work>>
  BY DEF RecoverTruncate, recovering
<1>3. /\ size' = s /\ cache' = [o \in Offset |-> IF o > s THEN Absent ELSE cache[o]]
      /\ disk' = [o \in Offset |-> IF o > s THEN disk[o] \cup {Absent} ELSE disk[o]]
  BY <1>2 DEF truncate
<1>4. Committed(cache, f, n, Base) /\ n \in Nat /\ n \in 2 .. MaxOffset + 1 /\ size \in Nat
      /\ cache \in [Offset -> Rec] /\ disk \in [Offset -> SUBSET Rec]
  BY <1>1, FileFacts DEF FileInv, FileCore, FileTypeOK
<1>5. FileInv' /\ Filing
  <2>1. DirtyDurable \/ size = hcache.current_size - 1
    <3>1. ~DirtyDurable => n = size + 1 BY <1>1, CleanFacts
    <3> QED BY <1>4, <3>1
  <2>2. Truncate BY <1>1, <1>2, <2>1 DEF Truncate
  <2> QED BY <1>1, <2>2, FileKept DEF FileNext
<1>6. cache' \in [Offset -> Rec] /\ s \in Nat /\ \A o \in 1 .. n - 1 : cache'[o] = cache[o]
  <2>1. s \in Nat BY <1>4
  <2>2. cache' \in [Offset -> Rec] BY <1>3, <1>4, AbsentType
  <2>3. ASSUME NEW o \in 1 .. n - 1 PROVE cache'[o] = cache[o]
    <3>1. o \in Offset /\ ~(o > s) BY <1>4, FileAssumption DEF Offset
    <3> QED BY <1>3, <3>1
  <2> QED BY <2>1, <2>2, <2>3
<1>7. \A i \in 2 .. MaxLevel : rv.next[i] = 0 BY <1>2 DEF Dangling
<1> HIDE DEF f, n, s
<1>8. Full(cache', s, Base) /\ rv.n = Cardinality(Base)
  <2>1. s = n - 1 BY DEF s
  <2> DEFINE r == rv
             e == cache'
             c == cache
  <2>2. /\ Committed(c, f, n, Base) /\ Walked(c, r, f, n, Base) /\ r.cur = 0
        /\ \A i \in 2 .. MaxLevel : r.next[i] = 0
        /\ e \in [Offset -> Rec] /\ \A o \in 1 .. n - 1 : e[o] = c[o]
    BY <1>1, <1>2, <1>4, <1>6, <1>7
  <2> HIDE DEF r, e, c
  <2>3. Full(e, s, Base) /\ r.n = Cardinality(Base) BY <1>6, <2>1, <2>2, WalkEnd
  <2> QED BY <2>3 DEF r, e
<1>9. now' = Faces(cache', s + 1) BY <1>3 DEF now
<1>10. W' = Base
  <2>1. List(now', s + 1, Base) BY <1>8, <1>9 DEF Full
  <2>2. now' \in [Offset -> FaceRec] BY <1>6, <1>9, FacesType
  <2>3. s + 1 \in 2 .. MaxOffset + 1 BY <1>4 DEF s
  <2>4. Live(now') = Base BY <2>1, <2>2, <2>3, LiveList
  <2> QED BY <2>4 DEF W
<1>11. then(hcache)' = then(hcache) BY <1>2 DEF then
<1>12. Base' = Base BY <1>11 DEF Base
<1>13. FileMore'
  <2>1. Deletes'
    <3> SUFFICES ASSUME NEW x \in Offset, NEW v \in disk'[x], v.type = "DELETE"
                 PROVE  v.nextloc[1] = 0 /\ v.nextloc[0] < x
      BY DEF Deletes
    <3>1. v \in disk[x] \/ v = Absent BY <1>3
    <3>2. v \in disk[x] BY <3>1 DEF Absent
    <3> QED BY <1>1, <3>2 DEF FileMore, Deletes
  <2>2. Lists' BY <1>1, <1>2 DEF FileMore, Lists, then
  <2>3. Tidy'
    <3>1. hcache'.current_size = size' + 1 BY <1>2, <1>3, <1>4 DEF n, s
    <3> QED BY <1>3, <1>8, <1>10, <3>1 DEF Tidy
  <2>4. Ended' BY <1>1, <1>2 DEF FileMore, Ended, then
  <2> QED BY <2>1, <2>2, <2>3, <2>4 DEF FileMore
<1>14. /\ pc \in Mending /\ pc' \in Mending /\ pc # "idle" /\ pc' # "idle"
       /\ pc \notin Opening \cup {"stitch"} /\ pc' \notin Opening \cup {"stitch"}
       /\ pc \notin Writing \cup {"stitch"} /\ pc' \notin Writing \cup {"stitch"}
  BY <1>2 DEF Mending, Repaired, Opening, Writing
<1>15. ProcTypes' BY <1>1, <1>2, <1>14 DEF ProcTypes
<1>16. Phases' BY <1>2 DEF Phases
<1>17. Whole' /\ Working'
  BY <1>2, <1>3, <1>8, <1>10 DEF Whole, Working, Writing
<1>18. Prepared' /\ Stitching' /\ Walking' BY <1>2 DEF Prepared, Opening, Stitching, Walking
<1>19. Locs'
  <2>1. /\ loc[p].gen <= hcache.generation
        /\ Fit(loc[p], hcache.generation, hcache.current_size, then(hcache), Base)
    BY <1>1, <1>2, <1>14 DEF Locs
  <2> QED BY <1>2, <1>11, <1>12, <1>14, <2>1, LocsKept
<1>20. Storing
  <2>1. View' = View /\ Left' = Left BY <1>1, <1>2, <1>5, <1>13, WriteView
  <2> QED BY <1>2, <2>1, Unseen
<1> QED BY <1>5, <1>13, <1>15, <1>16, <1>17, <1>18, <1>19, <1>20 DEF SkipInv

-----------------------------------------------------------------------------
(* Power loss.                                                              *)

\* After a power loss the file is one that recovery1 can repair.
LEMMA PowerSkip ==
  ASSUME SkipInv, Power
  PROVE  SkipInv' /\ Storing /\ Filing
<1>1. FileInv /\ FileMore BY DEF SkipInv
<1>2. /\ PowerLoss(cache', size', hcache') /\ unlock /\ readers' = {}
      /\ loc' = [q \in Proc |-> NoLoc] /\ iter' = [q \in Proc |-> 0]
  BY DEF Power, PowerLoss
<1>3. /\ size' \in sdisk /\ hcache' \in hdisk /\ cache' \in [Offset -> Rec]
      /\ \A o \in Offset : IF o <= size' THEN cache'[o] \in disk[o] ELSE cache'[o] = Absent
      /\ disk' = [o \in Offset |-> {cache'[o]}] /\ sdisk' = {size'} /\ hdisk' = {hcache'}
      /\ phase' = IF db_is_clean(hcache', size') THEN "clean" ELSE "dead"
      /\ face' = [t \in Size |-> face[hcache'.current_size]]
  BY <1>2 DEF PowerLoss
<1>4. FileInv' /\ Filing BY <1>1, <1>2, FileKept DEF FileNext
<1>5. hcache' \in Header /\ hcache'.current_size \in Size /\ hcache'.flags \in {"clean", "dirty"}
  BY <1>1, <1>3, FileFacts DEF Header
<1>6. then(hcache)' = then(hcache')
  BY <1>3, <1>5 DEF then
<1>7. Lists' /\ Ended' /\ Deletes'
  <2>1. Lists' BY <1>1, <1>3, <1>6 DEF FileMore, Lists, then
  <2>2. Ended' BY <1>1, <1>3, <1>6 DEF FileMore, Ended, then
  <2>3. Deletes'
    <3> SUFFICES ASSUME NEW o \in Offset, NEW v \in disk'[o], v.type = "DELETE"
                 PROVE  v.nextloc[1] = 0 /\ v.nextloc[0] < o
      BY DEF Deletes
    <3>1. v = cache'[o] BY <1>3
    <3>2. v \in disk[o] BY <1>3, <3>1 DEF Absent
    <3> QED BY <1>1, <3>2 DEF FileMore, Deletes
  <2> QED BY <2>1, <2>2, <2>3
<1>8. Tidy'
  <2> SUFFICES ASSUME ~DirtyDurable' PROVE hcache'.current_size = size' + 1 /\ Full(cache', size', W')
    BY DEF Tidy
  <2>1. hcache'.flags = "clean" BY <1>3, <1>5 DEF DirtyDurable
  <2>2. /\ disk = [o \in Offset |-> {cache[o]}] /\ sdisk = {size}
        /\ hcache'.current_size = size + 1
    BY <1>1, <1>3, <2>1 DEF FileInv, FileCore, CleanSound
  <2>3. ~DirtyDurable BY <1>3, <2>1 DEF DirtyDurable
  <2>4. Full(cache, size, W) BY <1>1, <2>3, CleanFacts
  <2>5. size' = size /\ size \in Nat BY <1>1, <1>3, <2>2, FileFacts
  <2>6. cache' = cache
    <3>1. cache \in [Offset -> Rec] BY <1>1, FileFacts
    <3>2. ASSUME NEW o \in Offset PROVE cache'[o] = cache[o]
      <4>1. CASE o <= size BY <1>3, <2>2, <2>5, <4>1
      <4>2. CASE ~(o <= size)
        <5>1. o > size BY <2>5, <4>2 DEF Offset
        <5>2. cache[o] = Absent BY <1>1, <5>1 DEF FileInv, FileCore, Kept
        <5> QED BY <1>3, <2>5, <4>2, <5>2
      <4> QED BY <4>1, <4>2
    <3> QED BY <1>3, <3>1, <3>2
  <2>7. W' = W BY <2>5, <2>6 DEF W, now
  <2> QED BY <2>2, <2>4, <2>5, <2>6, <2>7
<1>9. FileMore' BY <1>7, <1>8 DEF FileMore
<1>10. Rested'
  <2>1. hcache'.generation \in Nat /\ hcache'.generation >= 1
    <3>1. (FileInv /\ FileMore => hcache.generation \in Nat /\ hcache.generation >= 1)'
      BY FileFacts, PTL
    <3> QED BY <1>4, <1>9, <3>1
  <2>2. \A q \in Proc : loc'[q] = NoLoc BY <1>2
  <2>3. \A q \in Proc :
          /\ loc'[q].gen <= hcache'.generation
          /\ Fit(loc'[q], hcache'.generation, hcache'.current_size, then(hcache)', Base')
    BY <2>1, <2>2, NoLocType, NoLocFit
  <2>4. loc' \in [Proc -> LocType] /\ iter' \in [Proc -> Key \cup {0}]
    BY <1>2, NoLocType
  <2> QED BY <1>2, <1>3, <2>3, <2>4 DEF Rested, unlock
<1>11. Storing
  <2>1. View' = FaceContent(then(hcache)')
    <3>1. (FileInv /\ FileMore => View = FaceContent(then(hcache)))' BY ViewFacts, PTL
    <3> QED BY <1>4, <1>9, <3>1
  <2>2. View' \in Left BY <1>3, <1>6, <2>1 DEF Left
  <2>3. Left' = {View'} BY <1>3, <2>1 DEF Left, then
  <2>4. Store!Power BY <1>2, <2>2, <2>3 DEF Store!Power, unlock, Left, then
  <2> QED BY <2>4 DEF Storing, Store!Next
<1> QED BY <1>4, <1>9, <1>10, <1>11, Rest

-----------------------------------------------------------------------------
(* New files.                                                               *)

\* The file is a fresh copy of the contents m.
Copied(ks, n, m, lv) ==
  /\ Copies(ks, n, m, lv) /\ cache = Compacted(ks, m, lv) /\ size = copySize(n)
  /\ hcache \in Header /\ hcache.flags = "clean" /\ hcache.current_size = size + 1
  /\ hcache.num_records = n /\ hcache.generation >= 1
  /\ disk = [o \in Offset |-> {cache[o]}] /\ sdisk = {size} /\ hdisk = {hcache}
  /\ phase = "clean"
  /\ face = [s \in Size |-> Faces(cache, size + 1)]

\* It is a file that no transaction has written to.
LEMMA CopyInit ==
  ASSUME NEW ks, NEW n, NEW m, NEW lv, Copied(ks, n, m, lv)
  PROVE  FileInit
<1>1. /\ Copies(ks, n, m, lv) /\ cache = Compacted(ks, m, lv) /\ size = copySize(n)
      /\ hcache \in Header /\ hcache.flags = "clean" /\ hcache.current_size = size + 1
      /\ disk = [o \in Offset |-> {cache[o]}] /\ sdisk = {size} /\ hdisk = {hcache}
      /\ phase = "clean" /\ face = [s \in Size |-> Faces(cache, size + 1)]
  BY DEF Copied
<1>2. size \in Offset BY <1>1, CompactedFull
<1>3. /\ cache \in [Offset -> Rec]
      /\ \A o \in Offset : cache[o].nextloc[0] <= size /\ cache[o].nextloc[1] <= size
      /\ \A o \in Offset : o > size => cache[o] = Absent
  BY <1>1, CompactedFields
<1>4. db_is_clean(hcache, size) BY <1>1 DEF db_is_clean
<1>5. Closed(cache, size, hcache) BY <1>1, <1>2, <1>3, <1>4 DEF Closed
<1> QED BY <1>1, <1>5 DEF FileInit

\* So the file is whole and holds m.
LEMMA CopyFile ==
  ASSUME NEW ks, NEW n, NEW m, NEW lv, Copied(ks, n, m, lv)
  PROVE  /\ FileInv /\ FileMore /\ db_is_clean(hcache, size)
         /\ View = [k \in {ks[i] : i \in 1 .. n} |-> m[k]] /\ Left = {View}
<1> DEFINE L == 2 .. n + 1
           f == Faces(cache, size + 1)
<1>1. /\ Copies(ks, n, m, lv) /\ cache = Compacted(ks, m, lv) /\ size = copySize(n)
      /\ hcache \in Header /\ hcache.flags = "clean" /\ hcache.current_size = size + 1
      /\ hcache.num_records = n /\ hcache.generation >= 1
      /\ disk = [o \in Offset |-> {cache[o]}] /\ sdisk = {size} /\ hdisk = {hcache}
      /\ phase = "clean" /\ face = [s \in Size |-> f]
  BY DEF Copied
<1>2. /\ size \in Offset /\ PointBack(cache) /\ Full(cache, size, L) /\ size \notin L
      /\ L \in SUBSET Offset /\ Cardinality(L) = n
      /\ ContentOf(f, L) = [k \in {ks[i] : i \in 1 .. n} |-> m[k]]
  BY <1>1, CompactedFull
<1>3. /\ cache \in [Offset -> Rec]
      /\ \A o \in Offset : cache[o].nextloc[0] <= size /\ cache[o].nextloc[1] <= size
      /\ \A o \in Offset : o > size => cache[o] = Absent
  BY <1>1, CompactedFields
<1> HIDE DEF L
<1>4. db_is_clean(hcache, size) BY <1>1 DEF db_is_clean
<1>5. FileInv
  <2>1. Closed(cache, size, hcache) BY CopyInit DEF FileInit
  <2>2. Fresh BY <1>1, <2>1 DEF Fresh, Synced
  <2> QED BY <2>2, FreshFile
<1>6. size + 1 \in Size /\ size + 1 \in 2 .. MaxOffset + 1 /\ size \in Nat
  BY <1>2, FileAssumption DEF Offset, Size
<1>7. then(hcache) = f BY <1>1, <1>6 DEF then
<1>8. List(f, size + 1, L) /\ f \in [Offset -> FaceRec]
  BY <1>2, <1>3, FacesType DEF Full
<1> HIDE DEF f
<1>9. Live(f) = L BY <1>6, <1>8, LiveList
<1>10. W = L BY <1>9 DEF W, now, f
<1>11. Deletes
  <2> SUFFICES ASSUME NEW o \in Offset, NEW v \in disk[o], v.type = "DELETE"
               PROVE  v.nextloc[1] = 0 /\ v.nextloc[0] < o
    BY DEF Deletes
  <2>1. v = cache[o] BY <1>1
  <2> QED BY <1>2, <2>1 DEF PointBack
<1>12. Lists BY <1>1, <1>2, <1>7, <1>8, <1>9 DEF Lists
<1>13. Tidy BY <1>1, <1>2, <1>10 DEF Tidy
<1>14. Ended
  <2>1. hcache.current_size - 1 = size BY <1>1, <1>6
  <2> QED BY <1>1, <1>2, <1>7, <1>9, <2>1 DEF Ended
<1>15. FileMore BY <1>11, <1>12, <1>13, <1>14 DEF FileMore
<1>16. View = ContentOf(f, L)
  <2>1. View = FaceContent(then(hcache)) BY <1>5, <1>15, ViewFacts
  <2> QED BY <1>6, <1>7, <1>8, <2>1, ContentList
<1>17. Left = {View}
  <2>1. View = FaceContent(then(hcache)) BY <1>5, <1>15, ViewFacts
  <2> QED BY <1>1, <2>1 DEF Left
<1> QED BY <1>2, <1>4, <1>5, <1>15, <1>16, <1>17

\* The same of the next state.
LEMMA CopyNext ==
  ASSUME NEW ks, NEW n, NEW m, NEW lv
  PROVE  Copied(ks, n, m, lv)' =>
           /\ FileInit' /\ FileInv' /\ FileMore' /\ db_is_clean(hcache, size)'
           /\ View' = [k \in {ks[i] : i \in 1 .. n} |-> m[k]] /\ Left' = {View'}
<1> DEFINE P == Copied(ks, n, m, lv)
           Q == /\ FileInit /\ FileInv /\ FileMore /\ db_is_clean(hcache, size)
                /\ View = [k \in {ks[i] : i \in 1 .. n} |-> m[k]] /\ Left = {View}
<1>1. P => Q
  <2>1. P => FileInit BY CopyInit
  <2>2. P => /\ FileInv /\ FileMore /\ db_is_clean(hcache, size)
             /\ View = [k \in {ks[i] : i \in 1 .. n} |-> m[k]] /\ Left = {View}
    BY CopyFile
  <2> QED BY <2>1, <2>2
<1>2. P' => Q'
  <2> HIDE DEF P, Q
  <2> QED BY <1>1, PTL
<1> QED BY <1>2

\* The walk of level zero passes each record once, in the order of the keys.
LEMMA ChainOrder ==
  ASSUME NEW f \in [Offset -> FaceRec], NEW n \in 2 .. MaxOffset + 1, NEW L, List(f, n, L)
  PROVE  LET c == Chain(f)
         IN \E N \in Nat :
              /\ {i \in Offset : c[i] # 0} = 1 .. N /\ N <= MaxOffset
              /\ \A i \in 1 .. N : c[i] \in L
              /\ \A o \in L : \E i \in 1 .. N : c[i] = o
              /\ \A i, j \in 1 .. N : i < j => f[c[i]].key < f[c[j]].key
              /\ N = Cardinality(L)
<1> DEFINE c == Chain(f)
           D == {i \in Offset : c[i] # 0}
           N == IF D = {} THEN 0 ELSE Max(D)
<1>1. /\ c[0] = DUMMY_OFFSET
      /\ \A i \in 0 .. MaxOffset : c[i] \in Nodes(L) \cup {0}
      /\ \A j \in 0 .. MaxOffset : \A i \in 0 .. MaxOffset :
           i < j /\ c[j] # 0 => c[i] # 0 /\ f[c[i]].key < f[c[j]].key
  BY ChainList
<1>2. L = {c[i] : i \in Offset} \ {0} BY LiveList DEF Live
<1> HIDE DEF c
<1>3. MaxOffset \in Nat /\ Offset = 1 .. MaxOffset BY FileAssumption DEF Offset
<1>4. /\ N \in 0 .. MaxOffset /\ (N # 0 => N \in D) /\ \A i \in D : i <= N
  <2>1. CASE D = {} BY <1>3, <2>1
  <2>2. CASE D # {}
    <3>1. D \subseteq 0 .. MaxOffset BY <1>3
    <3> HIDE DEF D
    <3>2. Max(D) \in D /\ \A y \in D : y <= Max(D) BY <1>3, <2>2, <3>1, Greatest
    <3> QED BY <2>2, <3>1, <3>2
  <2> QED BY <2>1, <2>2
<1> HIDE DEF N
<1>5. D = 1 .. N
  <2>1. ASSUME NEW i \in D PROVE i \in 1 .. N BY <1>3, <1>4, <2>1
  <2>2. ASSUME NEW i \in 1 .. N PROVE i \in D
    <3>1. i \in 0 .. MaxOffset /\ N \in 0 .. MaxOffset /\ N # 0 BY <1>3, <1>4
    <3>2. CASE i = N BY <1>4, <3>1, <3>2
    <3>3. CASE i # N
      <4>1. i < N /\ c[N] # 0 /\ i \in Offset BY <1>3, <1>4, <3>1, <3>3
      <4>2. c[i] # 0 BY <1>1, <3>1, <4>1
      <4> QED BY <4>1, <4>2
    <3> QED BY <3>2, <3>3
  <2> QED BY <2>1, <2>2
<1>6. \A i \in 1 .. N : i \in Offset /\ i \in 0 .. MaxOffset /\ c[i] # 0
  BY <1>3, <1>4, <1>5
<1>7. \A i \in 1 .. N : c[i] \in L BY <1>2, <1>6
<1>8. ASSUME NEW o \in L PROVE \E i \in 1 .. N : c[i] = o
  <2>1. PICK i \in Offset : c[i] = o /\ o # 0 BY <1>2
  <2>2. i \in D BY <2>1
  <2> QED BY <1>5, <2>1, <2>2
<1>9. \A i, j \in 1 .. N : i < j => f[c[i]].key < f[c[j]].key BY <1>1, <1>6
<1>10. N = Cardinality(L)
  <2> DEFINE b == [i \in 1 .. N |-> c[i]]
  <2>1. b \in [1 .. N -> L] BY <1>7
  <2>2. \A i, j \in 1 .. N : b[i] = b[j] => i = j
    <3> SUFFICES ASSUME NEW i \in 1 .. N, NEW j \in 1 .. N, c[i] = c[j], i # j PROVE FALSE
      OBVIOUS
    <3>1. i \in Nat /\ j \in Nat BY <1>3, <1>4
    <3>2. f[c[i]].key < f[c[j]].key \/ f[c[j]].key < f[c[i]].key BY <1>9, <3>1
    <3>3. f[c[i]].key \in Nat
      <4>1. c[i] \in Nodes(L) BY <1>7 DEF Nodes
      <4>2. Records(f, n, L) BY DEF List
      <4> QED BY <4>1, <4>2, RecordFacts
    <3> QED BY <3>2, <3>3
  <2>3. \A o \in L : \E i \in 1 .. N : b[i] = o BY <1>8
  <2> HIDE DEF b
  <2>4. b \in Bijection(1 .. N, L)
    BY <2>1, <2>2, <2>3 DEF Bijection, Injection, Surjection, IsInjective
  <2>5. ExistsBijection(1 .. N, L) BY <2>4 DEF ExistsBijection
  <2>6. N \in Nat BY <1>3, <1>4
  <2> QED BY <2>5, <2>6, FS_CountingElements
<1>11. N \in Nat /\ N <= MaxOffset BY <1>3, <1>4
<1> QED BY <1>5, <1>7, <1>8, <1>9, <1>10, <1>11 DEF c

\* The location that the process keeps from the copy.
LEMMA CopyLocType ==
  ASSUME NEW ks, NEW n, NEW m, NEW lv, Copies(ks, n, m, lv), n > 0
  PROVE  CopyLoc(ks, lv) \in LocType /\ CopyLoc(ks, lv).gen = 1
<1>1. /\ n \in Nat /\ ks \in [1 .. n -> Key] /\ lv \in [1 .. n -> 1 .. MaxLevel]
      /\ n + 2 <= MaxOffset /\ MaxOffset \in Nat
  BY FileAssumption DEF Copies
<1>2. Len(ks) = n /\ ks # <<>> BY <1>1, SeqLen
<1> DEFINE B(l) == {DUMMY_OFFSET} \cup {x + 1 : x \in {y \in 1..n - 1 : lv[y] > l}}
           back == [l \in Levels |-> Max(B(l))]
<1>3. back \in [Levels -> Ptr]
  <2> SUFFICES ASSUME NEW l \in Levels PROVE Max(B(l)) \in Ptr OBVIOUS
  <2> DEFINE S == B(l)
  <2>1. S \subseteq 0 .. n /\ S # {} BY <1>1 DEF DUMMY_OFFSET
  <2> HIDE DEF S
  <2>2. Max(S) \in S BY <1>1, <2>1, Greatest
  <2> DEFINE x == Max(S)
  <2> HIDE DEF x
  <2>3. x \in 0 .. n BY <2>1, <2>2 DEF x
  <2>4. x \in Ptr BY <1>1, <2>3 DEF Ptr
  <2> QED BY <2>4 DEF S, x
<1>4. CopyLoc(ks, lv) = [key |-> ks[n], exact |-> TRUE, at |-> n + 1, fwd |-> NoOffsets,
                        back |-> back, gen |-> 1, end |-> n + 2]
  BY <1>2 DEF CopyLoc
<1> HIDE DEF back
<1>5. NoOffsets \in [Levels -> Ptr] BY FileAssumption DEF NoOffsets, Ptr
<1>6. n + 1 \in Ptr /\ n + 2 \in Size /\ ks[n] \in Key BY <1>1 DEF Ptr, Size
<1> QED BY <1>3, <1>4, <1>5, <1>6 DEF LocType

\* No checkpoint copies a database without records, so that a generation is never used
\* twice.  The code makes such copies and does not give them a new generation: what
\* follows from this assumption is not claimed of a database that is emptied and
\* checkpointed, and LocationSound is false there.
OneGeneration == CompactEmpty => MaxGen <= 1

\* mycheckpoint replaces the file with a copy of the next generation.
LEMMA CheckpointStep ==
  ASSUME SkipInv, NEW p \in Proc, Checkpoint(p), OneGeneration
  PROVE  SkipInv' /\ Storing /\ Filing
<1> DEFINE chain == Chain(now)
           keys == [i \in {n \in Offset : chain[n] # 0} |-> cache[chain[i]].key]
<1>1. FileInv /\ FileMore /\ ProcTypes /\ Locs BY DEF SkipInv
<1>2. /\ owner = p /\ pc = "finish" /\ MayCompact /\ unlock
      /\ \E level \in [DOMAIN keys -> 1..MaxLevel] :
           /\ cache' = Compacted(keys, View, level)
           /\ loc' = [loc EXCEPT ![p] = CopyLoc(keys, level)]
      /\ size' = (IF keys = <<>> THEN 1 ELSE Len(keys) + 2)
      /\ hcache' = [flags |-> "clean", current_size |-> size' + 1,
                    num_records |-> Len(keys), repack_size |-> Len(keys) + 2,
                    generation |-> IF keys = <<>> THEN 1 ELSE hcache.generation + 1]
      /\ disk' = [o \in Offset |-> {cache'[o]}] /\ sdisk' = {size'} /\ hdisk' = {hcache'}
      /\ face' = [s \in Size |-> Faces(cache', size' + 1)]
      /\ UNCHANGED <<phase, readers, iter>>
  BY DEF Checkpoint, now
<1>3. /\ work = View /\ db_is_clean(hcache, size) /\ Sound(W) /\ View = ContentOf(now, W)
      /\ phase = "clean"
  BY <1>2, Published
<1>4. /\ now \in [Offset -> FaceRec] /\ size + 1 \in 2 .. MaxOffset + 1 /\ size \in Nat
      /\ size \in Offset /\ cache \in [Offset -> Rec] /\ List(now, size + 1, W)
      /\ Records(now, size + 1, W) /\ W \subseteq Offset
      /\ hcache.generation \in Nat /\ hcache.generation >= 1
  BY <1>1, <1>3, FileFacts, SoundFacts
<1>5. PICK N \in Nat :
        /\ {i \in Offset : chain[i] # 0} = 1 .. N /\ N <= MaxOffset
        /\ \A i \in 1 .. N : chain[i] \in W
        /\ \A o \in W : \E i \in 1 .. N : chain[i] = o
        /\ \A i, j \in 1 .. N : i < j => now[chain[i]].key < now[chain[j]].key
        /\ N = Cardinality(W)
  <2> DEFINE f == now
             e == size + 1
             L == W
  <2>1. f \in [Offset -> FaceRec] /\ e \in 2 .. MaxOffset + 1 /\ List(f, e, L) BY <1>4
  <2> HIDE DEF f, e, L
  <2>2. \E N \in Nat :
              /\ {i \in Offset : Chain(f)[i] # 0} = 1 .. N /\ N <= MaxOffset
              /\ \A i \in 1 .. N : Chain(f)[i] \in L
              /\ \A o \in L : \E i \in 1 .. N : Chain(f)[i] = o
              /\ \A i, j \in 1 .. N : i < j => f[Chain(f)[i]].key < f[Chain(f)[j]].key
              /\ N = Cardinality(L)
    BY <2>1, ChainOrder
  <2> QED BY <2>2 DEF f, L
<1> HIDE DEF chain
<1>6. keys = [i \in 1 .. N |-> cache[chain[i]].key] BY <1>5
<1>7. PICK ks : ks = keys OBVIOUS
<1> HIDE DEF keys
<1>8. \A i \in 1 .. N : /\ ks[i] = now[chain[i]].key /\ ks[i] \in Key /\ chain[i] \in W
                        /\ View[ks[i]] \in Val
  <2> SUFFICES ASSUME NEW i \in 1 .. N
               PROVE  /\ ks[i] = now[chain[i]].key /\ ks[i] \in Key /\ chain[i] \in W
                      /\ View[ks[i]] \in Val
    OBVIOUS
  <2>1. chain[i] \in W /\ chain[i] \in Offset BY <1>4, <1>5
  <2>2. ks[i] = cache[chain[i]].key BY <1>6, <1>7
  <2>3. now[chain[i]].key = cache[chain[i]].key BY <1>4, <2>1, FacesAt DEF now
  <2>4. now[chain[i]].key \in Key /\ now[chain[i]].val \in Val BY <1>4, <2>1 DEF Records
  <2>5. View[now[chain[i]].key] = now[chain[i]].val
    <3> DEFINE f == now
               L == W
    <3>1. Records(f, size + 1, L) BY <1>4
    <3> HIDE DEF f, L
    <3>2. \A o \in L : ContentOf(f, L)[f[o].key] = f[o].val BY <3>1, ContentFacts
    <3> QED BY <1>3, <2>1, <3>2 DEF f, L
  <2> QED BY <2>1, <2>2, <2>3, <2>4, <2>5
<1>9. N > 0
  <2>1. MaxGen > 1 BY <1>2, <1>4, TwoSkipAssumption DEF MayCompact
  <2>2. ~CompactEmpty BY <2>1, TwoSkipAssumption DEF OneGeneration
  <2>3. hcache.num_records > 0 BY <1>2, <2>2 DEF MayCompact
  <2>4. hcache.num_records = Cardinality(W) BY <1>1, <1>3, CleanFacts DEF db_is_clean
  <2> QED BY <1>5, <2>3, <2>4
<1>10. N + 2 <= size /\ N + 2 <= MaxOffset
  <2>1. size \notin W
    <3>1. hcache \in hdisk BY <1>1, FileFacts
    <3>2. hcache.current_size = size + 1 BY <1>3 DEF db_is_clean
    <3>3. W = Base BY <1>1, <3>2, ViewFacts
    <3>4. hcache.current_size - 1 \notin Base BY <1>1, <3>1 DEF FileMore, Ended, Base
    <3> QED BY <1>4, <3>2, <3>3, <3>4
  <2>2. W \subseteq 2 .. size - 1
    <3>1. W \subseteq 2 .. (size + 1) - 1 BY <1>4 DEF Records
    <3> QED BY <1>4, <2>1, <3>1
  <2>3. /\ IsFiniteSet(2 .. size - 1)
        /\ Cardinality(2 .. size - 1) = IF 2 > size - 1 THEN 0 ELSE (size - 1) - 2 + 1
    <3> DEFINE b == size - 1
    <3>1. b \in Int BY <1>4
    <3> HIDE DEF b
    <3>2. /\ IsFiniteSet(2 .. b) /\ Cardinality(2 .. b) = IF 2 > b THEN 0 ELSE b - 2 + 1
      BY <3>1, FS_Interval
    <3> QED BY <3>2 DEF b
  <2>4. N <= Cardinality(2 .. size - 1)
    <3> DEFINE S == 2 .. size - 1
               T == W
    <3>1. IsFiniteSet(S) /\ T \in SUBSET S BY <2>2, <2>3
    <3> HIDE DEF S, T
    <3>2. Cardinality(T) <= Cardinality(S) BY <3>1, FS_Subset
    <3> QED BY <1>5, <3>2 DEF S, T
  <2> DEFINE C == Cardinality(2 .. size - 1)
  <2>5. C = (IF 2 > size - 1 THEN 0 ELSE (size - 1) - 2 + 1) /\ N <= C BY <2>3, <2>4
  <2> HIDE DEF C
  <2>6. N \in Nat /\ size \in Nat /\ size <= MaxOffset /\ MaxOffset \in Nat
    BY <1>4, FileAssumption DEF Offset
  <2>7. N + 2 <= size BY <1>9, <2>5, <2>6
  <2> QED BY <2>6, <2>7
<1>11. PICK m : m = View OBVIOUS
<1>12. PICK lv \in [DOMAIN keys -> 1..MaxLevel] :
         /\ cache' = Compacted(keys, View, lv)
         /\ loc' = [loc EXCEPT ![p] = CopyLoc(keys, lv)]
  BY <1>2
<1>13. Copies(ks, N, m, lv)
  <2>1. ks \in [1 .. N -> Key] BY <1>6, <1>7, <1>8
  <2>2. lv \in [1 .. N -> 1 .. MaxLevel] BY <1>6, <1>12
  <2>3. \A i, j \in 1 .. N : i < j => ks[i] < ks[j] BY <1>5, <1>8
  <2> QED BY <1>8, <1>10, <1>11, <2>1, <2>2, <2>3 DEF Copies
<1>14. Len(ks) = N /\ ks # <<>>
  <2>1. ks \in [1 .. N -> Key] BY <1>13 DEF Copies
  <2> QED BY <1>9, <2>1, SeqLen
<1>15. /\ cache' = Compacted(ks, m, lv) /\ loc' = [loc EXCEPT ![p] = CopyLoc(ks, lv)]
       /\ size' = N + 2 /\ size' = copySize(N)
       /\ hcache' = [flags |-> "clean", current_size |-> size' + 1, num_records |-> N,
                     repack_size |-> N + 2, generation |-> hcache.generation + 1]
  <2>1. /\ size' = (IF ks = <<>> THEN 1 ELSE Len(ks) + 2)
        /\ hcache' = [flags |-> "clean", current_size |-> size' + 1,
                      num_records |-> Len(ks), repack_size |-> Len(ks) + 2,
                      generation |-> IF ks = <<>> THEN 1 ELSE hcache.generation + 1]
    BY <1>2, <1>7
  <2>2. /\ cache' = Compacted(ks, m, lv) /\ loc' = [loc EXCEPT ![p] = CopyLoc(ks, lv)]
    BY <1>7, <1>11, <1>12
  <2>3. size' = N + 2 BY <1>14, <2>1
  <2>4. copySize(N) = N + 2 BY <1>9 DEF copySize
  <2>5. hcache' = [flags |-> "clean", current_size |-> size' + 1, num_records |-> N,
                   repack_size |-> N + 2, generation |-> hcache.generation + 1]
    BY <1>14, <2>1
  <2> QED BY <2>2, <2>3, <2>4, <2>5
<1>16. Copied(ks, N, m, lv)'
  <2>1. hcache' \in Header
    <3>1. size' + 1 \in Size /\ N + 2 \in Size /\ N \in Int /\ hcache.generation + 1 \in Nat
      BY <1>4, <1>10, <1>15, FileAssumption DEF Size
    <3> QED BY <1>15, <3>1 DEF Header
  <2>2. /\ hcache'.flags = "clean" /\ hcache'.current_size = size' + 1
        /\ hcache'.num_records = N /\ hcache'.generation >= 1
    BY <1>4, <1>15
  <2> QED BY <1>2, <1>3, <1>13, <1>15, <2>1, <2>2 DEF Copied
<1>17. /\ FileInit' /\ FileInv' /\ FileMore' /\ db_is_clean(hcache, size)'
       /\ View' = [k \in {ks[i] : i \in 1 .. N} |-> m[k]] /\ Left' = {View'}
  BY <1>16, CopyNext
<1>18. View' = View
  <2>1. DOMAIN View = {ks[i] : i \in 1 .. N}
    <3> DEFINE f == now
               L == W
    <3>1. Records(f, size + 1, L) BY <1>4
    <3> HIDE DEF f, L
    <3>2. DOMAIN ContentOf(f, L) = KeysOf(f, L) /\ ContentOf(f, L) \in [KeysOf(f, L) -> Val]
      BY <3>1, ContentFacts
    <3>3. DOMAIN View = {now[o].key : o \in W} BY <1>3, <3>2 DEF f, L, KeysOf
    <3>4. {now[o].key : o \in W} = {ks[i] : i \in 1 .. N} BY <1>5, <1>8
    <3> QED BY <3>3, <3>4
  <2>2. View = [k \in DOMAIN View |-> View[k]]
    <3>1. View = ContentOf(now, W) BY <1>3
    <3> QED BY <3>1 DEF ContentOf
  <2> QED BY <1>11, <1>17, <2>1, <2>2
<1>19. CopyLoc(ks, lv) \in LocType /\ CopyLoc(ks, lv).gen = 1
  BY <1>9, <1>13, CopyLocType
<1>20. Rested'
  <2>1. loc \in [Proc -> LocType] BY <1>1 DEF ProcTypes
  <2>2. loc' \in [Proc -> LocType] BY <1>15, <1>19, <2>1
  <2>3. hcache'.generation = hcache.generation + 1 BY <1>15
  <2>4. ASSUME NEW q \in Proc
        PROVE  loc'[q].gen < hcache'.generation /\ loc'[q].gen <= hcache'.generation
    <3>1. CASE q = p
      <4>1. loc'[q].gen = 1 BY <1>15, <1>19, <2>1, <3>1
      <4> QED BY <1>4, <2>3, <4>1
    <3>2. CASE q # p
      <4>1. loc'[q] = loc[q] BY <1>15, <2>1, <3>2
      <4>2. loc[q].gen <= hcache.generation BY <1>1 DEF Locs
      <4>3. loc[q].gen \in Nat BY <2>1 DEF LocType
      <4> QED BY <1>4, <2>3, <4>1, <4>2, <4>3
    <3> QED BY <3>1, <3>2
  <2>5. \A q \in Proc :
          /\ loc'[q].gen <= hcache'.generation
          /\ Fit(loc'[q], hcache'.generation, hcache'.current_size, then(hcache)', Base')
    <3> SUFFICES ASSUME NEW q \in Proc
                 PROVE  /\ loc'[q].gen <= hcache'.generation
                        /\ Fit(loc'[q], hcache'.generation, hcache'.current_size, then(hcache)', Base')
      OBVIOUS
    <3>1. loc'[q].gen \in Nat /\ hcache'.generation \in Nat BY <1>4, <2>2, <2>3 DEF LocType
    <3>2. loc'[q].gen # hcache'.generation BY <2>4, <3>1
    <3> QED BY <2>4, <3>2 DEF Fit
  <2>6. readers' \subseteq Proc /\ iter' \in [Proc -> Key \cup {0}] BY <1>1, <1>2 DEF ProcTypes
  <2>7. phase' = IF db_is_clean(hcache', size') THEN "clean" ELSE "dead" BY <1>2, <1>3, <1>17
  <2> QED BY <1>2, <2>2, <2>5, <2>6, <2>7 DEF Rested, unlock
<1>21. Storing
  <2>1. View \in Left
    <3>1. View = FaceContent(then(hcache)) /\ hcache \in hdisk BY <1>1, ViewFacts, FileFacts
    <3> QED BY <3>1 DEF Left
  <2>2. Store!Power BY <1>2, <1>17, <1>18, <2>1 DEF Store!Power, unlock, Left, then
  <2> QED BY <2>2 DEF Storing, Store!Next
<1>22. Filing
  <2>1. phase = "clean" /\ UNCHANGED phase BY <1>2, <1>3
  <2>2. Replace(cache', size', hcache') BY <1>17, <2>1 DEF FileInit, Replace
  <2> QED BY <2>2 DEF Filing, FileNext
<1> QED BY <1>17, <1>20, <1>21, <1>22, Rest

-----------------------------------------------------------------------------
(* The specification.                                                       *)

\* Keys of which each is larger than the one before ascend.
LEMMA Ascending ==
  ASSUME NEW n \in Nat, NEW ks \in [1 .. n -> Key], \A i \in 2 .. n : ks[i - 1] < ks[i]
  PROVE  \A i, j \in 1 .. n : i < j => ks[i] < ks[j]
<1> SUFFICES ASSUME NEW i \in 1 .. n PROVE \A j \in 1 .. n : i < j => ks[i] < ks[j]
  OBVIOUS
<1> DEFINE S == {j \in 0 .. n : i < j => ks[i] < ks[j]}
<1>1. 0 \in S OBVIOUS
<1>2. \A k \in 1 .. n : ks[k] \in Nat
  <2>1. \A k \in 1 .. n : ks[k] \in Key OBVIOUS
  <2> QED BY <2>1, Keys
<1>3. ASSUME NEW j \in 0 .. n - 1, j \in S PROVE j + 1 \in S
  <2>1. CASE i < j
    <3>1. /\ j \in 1 .. n /\ j + 1 \in 1 .. n /\ j + 1 \in 2 .. n /\ (j + 1) - 1 = j
          /\ j + 1 \in 0 .. n
      BY <2>1
    <3>2. ks[i] < ks[j] BY <1>3, <2>1
    <3>3. ks[j] < ks[j + 1] BY <3>1
    <3>4. ks[i] < ks[j + 1] BY <1>2, <3>1, <3>2, <3>3
    <3> QED BY <3>1, <3>4
  <2>2. CASE i = j
    <3>1. j + 1 \in 2 .. n /\ (j + 1) - 1 = j /\ j + 1 \in 0 .. n BY <2>2
    <3>2. ks[j] < ks[j + 1] BY <3>1
    <3> QED BY <2>2, <3>1, <3>2
  <2>3. CASE i > j BY <2>3
  <2> QED BY <2>1, <2>2, <2>3
<1> HIDE DEF S
<1>4. \A j \in 0 .. n : j \in S BY <1>1, <1>3, UpTo
<1> QED BY <1>4 DEF S

\* The first file is a copy of what the first transaction stored.
LEMMA InitCopied ==
  ASSUME Init
  PROVE  \E ks, m, lv : Copied(ks, Cardinality(Start), m, lv)
<1> DEFINE n == Cardinality(Start)
<1>1. n \in Nat /\ (n = 0 <=> Start = {}) BY TwoSkipAssumption, FS_CardinalityType, FS_EmptySet
<1>2. PICK ks \in [1 .. n -> Start], m \in [Start -> Val], lv \in [1 .. n -> 1 .. MaxLevel] :
        (\A i \in 2 .. Len(ks) : ks[i - 1] < ks[i]) /\ cache = Compacted(ks, m, lv)
  BY DEF Init
<1>a. /\ Start \subseteq Key /\ (Start # {} => n + 2 <= MaxOffset) BY TwoSkipAssumption
<1>b. /\ size = (IF Start = {} THEN 1 ELSE n + 2)
      /\ hcache = [flags |-> "clean", current_size |-> size + 1, num_records |-> n,
                   generation |-> 1, repack_size |-> 2]
      /\ disk = [o \in Offset |-> {cache[o]}] /\ sdisk = {size} /\ hdisk = {hcache}
      /\ phase = "clean" /\ face = [s \in Size |-> Faces(cache, size + 1)]
  BY DEF Init
<1> SUFFICES \E ks2, m2, lv2 : Copied(ks2, n, m2, lv2) OBVIOUS
<1> HIDE DEF n
<1>3. Len(ks) = n BY <1>1, <1>2, SeqLen
<1>4. Copies(ks, n, m, lv)
  <2>1. ks \in [1 .. n -> Key] BY <1>2, <1>a
  <2>2. \A i \in 2 .. n : ks[i - 1] < ks[i] BY <1>2, <1>3
  <2>3. \A i, j \in 1 .. n : i < j => ks[i] < ks[j] BY <1>1, <2>1, <2>2, Ascending
  <2>4. \A i \in 1 .. n : m[ks[i]] \in Val BY <1>2
  <2>5. n > 0 => n + 2 <= MaxOffset BY <1>1, <1>a
  <2> QED BY <1>1, <1>2, <2>1, <2>3, <2>4, <2>5 DEF Copies
<1>5. size = copySize(n) BY <1>1, <1>b DEF copySize
<1>6. size + 1 \in Size /\ 2 \in Size
  BY <1>1, <1>a, <1>b, FileAssumption DEF Size
<1>7. hcache \in Header BY <1>1, <1>6, <1>b DEF Header
<1>8. Copied(ks, n, m, lv) BY <1>2, <1>4, <1>5, <1>7, <1>b DEF Copied
<1> QED BY <1>8

\* A new file is whole, and the abstract store starts with what it holds.
LEMMA InitInv == Init => SkipInv /\ Store!Init
<1> SUFFICES ASSUME Init PROVE SkipInv /\ Store!Init OBVIOUS
<1>1. PICK ks, m, lv : Copied(ks, Cardinality(Start), m, lv) BY InitCopied
<1> DEFINE n == Cardinality(Start)
<1>2. Copied(ks, n, m, lv) BY <1>1
<1> HIDE DEF n
<1>3. /\ FileInv /\ FileMore /\ db_is_clean(hcache, size)
      /\ View = [k \in {ks[i] : i \in 1 .. n} |-> m[k]] /\ Left = {View}
  BY <1>2, CopyFile
<1>4. /\ owner = NoProc /\ readers = {} /\ pc = "idle" /\ op = NoOp /\ num = 0
      /\ ret = "idle" /\ titer = 0 /\ work = NoTxn /\ acked = View
      /\ loc = [p \in Proc |-> NoLoc] /\ iter = [p \in Proc |-> 0] /\ phase = "clean"
  BY DEF Init
<1>5. Rested
  <2>1. hcache.generation \in Nat /\ hcache.generation >= 1 BY <1>2 DEF Copied, Header
  <2>2. loc \in [Proc -> LocType] /\ \A q \in Proc : loc[q].gen = 0 BY <1>4, NoLocType
  <2>3. ASSUME NEW q \in Proc
        PROVE  /\ loc[q].gen <= hcache.generation
               /\ Fit(loc[q], hcache.generation, hcache.current_size, then(hcache), Base)
    BY <2>1, <2>2, NoLocFit
  <2> QED BY <1>3, <1>4, <2>2, <2>3 DEF Rested
<1>6. SkipInv BY <1>3, <1>5, RestedInv
<1>7. View \in UNION {[S -> Val] : S \in SUBSET Key}
  <2>1. ks \in [1 .. n -> Key] /\ \A i \in 1 .. n : m[ks[i]] \in Val
    BY <1>2 DEF Copied, Copies
  <2> DEFINE S == {ks[i] : i \in 1 .. n}
  <2>2. S \in SUBSET Key /\ View \in [S -> Val] BY <1>3, <2>1
  <2> QED BY <2>2
<1>8. Store!Init BY <1>3, <1>4, <1>7 DEF Store!Init, Store!Contents, Left, then
<1> QED BY <1>6, <1>8

\* Nothing happens.
LEMMA StutterStep ==
  ASSUME SkipInv, UNCHANGED vars
  PROVE  SkipInv' /\ Storing /\ Filing
<1>1. /\ FileInv /\ FileMore /\ ProcTypes /\ Phases /\ Whole /\ Working
      /\ Prepared /\ Stitching /\ Walking /\ Locs
  BY DEF SkipInv
<1>2. UNCHANGED <<fileVars, owner, readers, pc, op, num, rv, ret, loc, iter, titer, work, acked>>
  BY DEF vars, procVars
<1>3. /\ FileInv' /\ Filing /\ FileMore' /\ then(hcache)' = then(hcache) /\ now' = now /\ W' = W
      /\ Base' = Base /\ DirtyDurable' = DirtyDurable
  BY <1>1, <1>2, QuietAll
<1>f. UNCHANGED <<cache, size, hcache, disk, sdisk, hdisk, phase, face>> BY <1>2 DEF fileVars
<1>4. ProcTypes' BY <1>1, <1>2 DEF ProcTypes
<1>5. Phases' BY <1>1, <1>2, <1>3, <1>f DEF Phases
<1>6. Whole' /\ Working' BY <1>1, <1>2, <1>3, <1>f DEF Whole, Working
<1>7. Prepared' BY <1>1, <1>2, <1>3, <1>f DEF Prepared, IsStore, IsDelete, levelat
<1>8. Stitching' BY <1>1, <1>2, <1>3, <1>f DEF Stitching, Stitched
<1>9. Walking' BY <1>1, <1>2, <1>3, <1>f DEF Walking
<1>10. Locs' BY <1>1, <1>2, <1>3, <1>f DEF Locs
<1>11. Storing BY <1>2, <1>f, QuietView, Unseen
<1> QED BY <1>3, <1>4, <1>5, <1>6, <1>7, <1>8, <1>9, <1>10, <1>11 DEF SkipInv

\* Every step of every process, and a power loss.
LEMMA SkipStep ==
  ASSUME OneGeneration, SkipInv, [Next]_vars
  PROVE  SkipInv' /\ Storing /\ Filing
<1>1. CASE Power BY <1>1, PowerSkip
<1>2. ASSUME NEW p \in Proc, User(p) PROVE SkipInv' /\ Storing /\ Filing
  <2>1. CASE Begin(p) BY <2>1, BeginStep, BeginStore
  <2>2. CASE ReadRecover(p) BY <2>2, ReadRecoverStep
  <2>3. CASE BeginShared(p) \/ EndShared(p) BY <2>3, SharedStep
  <2>4. CASE myforeach(p) \/ foreachInTxn(p) BY <2>4, LookupStep
  <2>5. CASE myabort(p) BY <2>5, GiveUpStep DEF myabort
  <2>6. CASE CommitUnchanged(p) BY <2>6, CommitUnchangedStep
  <2>7. CASE CommitRecord(p) BY <2>7, CommitRecordStep
  <2>8. CASE \E k \in Key : myfetch(p, k) \/ fetchnext(p, k) BY <2>8, LookupStep
  <2>9. CASE \E k \in Key, v \in Val, force \in BOOLEAN : store(p, k, v, force)
    BY <2>9, StoreStep
  <2>10. CASE \E k \in Key, force \in BOOLEAN : delete(p, k, force) BY <2>10, DeleteStep
  <2> QED BY <1>2, <2>1, <2>2, <2>3, <2>4, <2>5, <2>6, <2>7, <2>8, <2>9, <2>10 DEF User
<1>3. ASSUME NEW p \in Proc, RecoverStep(p) PROVE SkipInv' /\ Storing /\ Filing
  <2>1. CASE RecoverCheck(p) BY <2>1, RecoverCheckStep
  <2>2. CASE RecoverDummy(p) BY <2>2, RecoverDummyStep
  <2>3. CASE RecoverUpper(p) \/ RecoverTail(p) BY <2>3, RecoverUpperStep
  <2>4. CASE RecoverRecord(p) BY <2>4, RecoverRecordStep
  <2>5. CASE RecoverTruncate(p) BY <2>5, RecoverTruncateStep
  <2>6. CASE RecoverSync(p) BY <2>6, RecoverSyncStep
  <2>7. CASE RecoverClear(p) BY <2>7, RecoverClearStep
  <2>8. CASE RecoverDone(p) BY <2>8, RecoverDoneStep
  <2> QED BY <1>3, <2>1, <2>2, <2>3, <2>4, <2>5, <2>6, <2>7, <2>8 DEF RecoverStep
<1>4. ASSUME NEW p \in Proc, Step(p) PROVE SkipInv' /\ Storing /\ Filing
  <2>1. CASE WriteDirty(p) BY <2>1, WriteDirtyStep
  <2>2. CASE SyncDirtyHeader(p) BY <2>2, SyncDirtyStep
  <2>3. CASE append_record(p) BY <2>3, AppendRecordStep
  <2>4. CASE stitch(p) BY <2>4, StitchStep
  <2>5. CASE SyncCommit(p) BY <2>5, SyncCommitStep
  <2>6. CASE WritePublish(p) BY <2>6, WritePublishStep
  <2>7. CASE SyncPublish(p) BY <2>7, SyncPublishStep
  <2>8. CASE Finish(p) \/ CheckpointFails(p) BY <2>8, FinishStep
  <2>9. CASE Checkpoint(p) BY <2>9, CheckpointStep
  <2>10. CASE CheckpointCannotOpen(p) BY <2>10, CannotOpenStep
  <2>11. CASE RecoverStep(p) BY <1>3, <2>11
  <2> QED BY <1>4, <2>1, <2>2, <2>3, <2>4, <2>5, <2>6, <2>7, <2>8, <2>9, <2>10, <2>11 DEF Step
<1>5. ASSUME NEW p \in Proc, IoFail(p) PROVE SkipInv' /\ Storing /\ Filing BY <1>5, IoFailStep
<1>6. ASSUME NEW p \in Proc, Die(p) PROVE SkipInv' /\ Storing /\ Filing BY <1>6, DieStep
<1>7. CASE UNCHANGED vars BY <1>7, StutterStep
<1> QED BY <1>1, <1>2, <1>4, <1>5, <1>6, <1>7 DEF Next

\* The inductive invariant of the processes and their file.
THEOREM SkipInvariant == ASSUME OneGeneration PROVE Spec => []SkipInv
<1>1. Init => SkipInv BY InitInv
<1>2. SkipInv /\ [Next]_vars => SkipInv' BY SkipStep
<1> QED BY <1>1, <1>2, PTL DEF Spec

\* After any number of kills and power losses, in a transaction, a commit or an
\* earlier recovery, recovery1 repairs the file: recovery2 is never needed.
THEOREM RecoveryAlwaysSucceeds == ASSUME OneGeneration PROVE Spec => []RecoverySucceeds
<1>1. SkipInv => RecoverySucceeds
  BY DEF SkipInv, ProcTypes, RecoverySucceeds, Writing, Mending, Repaired
<1> QED BY <1>1, SkipInvariant, PTL

\* What myconsistent checks follows from the invariant.
LEMMA InvConsistent == SkipInv => Consistent
<1> SUFFICES ASSUME SkipInv, Settled PROVE Consistent BY DEF Consistent
<1> DEFINE f == now
           L == W
<1>1. Full(cache, size, L) /\ Sound(L)
  <2>1. CASE CanRead \/ pc = "txn" BY <2>1, ReadyFacts
  <2>2. CASE pc = "finish" BY <2>2, Published
  <2> QED BY <2>1, <2>2 DEF Settled
<1>2. count = Cardinality(L)
  <2>1. CASE pc = "txn" BY <2>1 DEF count, SkipInv, Working
  <2>2. CASE pc # "txn"
    <3>1. db_is_clean(hcache, size) BY <2>2, Published DEF Settled, CanRead
    <3>2. FileInv /\ FileMore BY DEF SkipInv
    <3> QED BY <2>2, <3>1, <3>2, CleanFacts DEF count, db_is_clean
  <2> QED BY <2>1, <2>2
<1>3. /\ List(f, size + 1, L) /\ Records(f, size + 1, L)
      /\ \A o \in Nodes(L) : /\ f[o].level \in 1 .. MaxLevel
                             /\ \A l \in 1 .. f[o].level - 1 : Upper(f, cache, L, o, l)
  BY <1>1, SoundFacts DEF Full, now
<1>4. \A o \in L : f[o].type = "RECORD" BY <1>3 DEF Records
<1>5. \A o \in Nodes(L) : IsNext(f, L, f[o].key, following(f, o)) BY <1>3 DEF List, Linked
<1>6. ASSUME NEW o \in Nodes(L), NEW l \in 1 .. MaxLevel - 1, l < f[o].level
      PROVE  IsNext(f, Above(f, L, l), f[o].key, getloc(cache[o], l, size + 1))
  <2>1. MaxLevel \in Nat BY FileAssumption
  <2>2. l \in 1 .. f[o].level - 1 BY <1>3, <1>6, <2>1
  <2>3. getloc(cache[o], l, size + 1) = cache[o].nextloc[l + 1] BY <2>1 DEF getloc
  <2> QED BY <1>3, <2>2, <2>3 DEF Upper
<1> QED BY <1>2, <1>4, <1>5, <1>6 DEF Consistent, Nodes, Above, W, now

\* What myconsistent checks holds whenever the file is clean, and between any two
\* operations of a transaction.
THEOREM AlwaysConsistent == ASSUME OneGeneration PROVE Spec => []Consistent
BY InvConsistent, SkipInvariant, PTL

\* A transaction reads its own writes, and its commit publishes exactly these.
THEOREM OwnWritesRead == ASSUME OneGeneration PROVE Spec => []ReadsOwnWrites
<1>1. SkipInv => ReadsOwnWrites
  <2> SUFFICES ASSUME SkipInv PROVE ReadsOwnWrites OBVIOUS
  <2>1. ASSUME pc = "txn" PROVE Content(cache, size + 1) = work
    <3>1. Sound(W) BY <2>1, ReadyFacts
    <3>2. work = ContentOf(now, W) BY <2>1 DEF SkipInv, Working, Writing
    <3> DEFINE g == now
               L == W
               n == size + 1
    <3>3. g \in [Offset -> FaceRec] /\ n \in 2 .. MaxOffset + 1 /\ List(g, n, L)
      BY <3>1, SoundFacts
    <3> HIDE DEF g, L, n
    <3>4. FaceContent(g) = ContentOf(g, L) BY <3>3, ContentList
    <3> QED BY <3>2, <3>4 DEF Content, now, g, L
  <2>2. ASSUME pc \in {"publishsync", "finish"} PROVE View = work BY <2>2, Published
  <2> QED BY <2>1, <2>2 DEF ReadsOwnWrites
<1> QED BY <1>1, SkipInvariant, PTL

\* A location that a process has kept while others used the database, or while it
\* wrote itself, leads find_loc to the place of a full search, if no checkpoint finds
\* the database without records (OneGeneration): after one it may not.
THEOREM LocationsSound == ASSUME OneGeneration PROVE Spec => []LocationSound
<1>1. SkipInv => LocationSound BY FoundRight DEF LocationSound
<1> QED BY <1>1, SkipInvariant, PTL

\* A foreach skips no key and delivers none twice, whatever happened to the file
\* since its last callback, but for a checkpoint that finds the database without
\* records (OneGeneration).
THEOREM ForeachDelivers == ASSUME OneGeneration PROVE Spec => ForeachComplete
<1> DEFINE A == /\ \A p \in Proc : myforeach(p) => ForeachStep(iter[p], iter'[p])
                /\ \A p \in Proc : foreachInTxn(p) => ForeachStep(titer, titer')
<1>1. SkipInv => A BY LookupStep
<1>2. SkipInv /\ [Next]_vars => [A]_vars BY <1>1
<1> HIDE DEF A
<1>3. Spec => [][A]_vars BY <1>2, SkipInvariant, PTL DEF Spec
<1> QED BY <1>3 DEF ForeachComplete, A

\* The database implements the store of transactions.
THEOREM ImplementsStore == ASSUME OneGeneration PROVE Spec => StoreSpec
<1>1. Init => Store!Init BY InitInv
<1>2. SkipInv /\ [Next]_vars => [Store!Next]_(Store!vars) BY SkipStep DEF Storing
<1> QED BY <1>1, <1>2, SkipInvariant, PTL DEF Spec, StoreSpec, Store!Spec

\* The processes write their file in the order that keeps it safe.
THEOREM ImplementsFile == ASSUME OneGeneration PROVE Spec => FileSpec
<1>1. Init => FileInit BY InitCopied, CopyInit
<1>2. SkipInv /\ [Next]_vars => [FileNext]_fileVars BY SkipStep DEF Filing
<1> QED BY <1>1, <1>2, SkipInvariant, PTL DEF Spec, FileSpec

\* Whatever the disk has kept of the writes of a transaction or of a recovery, the
\* committed records and their list can be read from it.
THEOREM DiskCrashSafe == ASSUME OneGeneration PROVE Spec => []CrashSafe
BY ImplementsFile, FileCrashSafe, PTL

\* A header that may be on the disk and says clean has nothing left to sync.
THEOREM DiskCleanSound == ASSUME OneGeneration PROVE Spec => []CleanSound
BY ImplementsFile, FileCleanSound, PTL

\* The abstract store keeps its promise.
THEOREM StoreDurable == Store!Spec => []Store!Durable
<1>1. Store!Init => Store!Durable BY DEF Store!Init, Store!Durable
<1>2. Store!Durable /\ [Store!Next]_(Store!vars) => Store!Durable'
  <2> SUFFICES ASSUME Store!Durable, [Store!Next]_(Store!vars) PROVE Store!Durable' OBVIOUS
  <2> DEFINE D == {FaceContent(face[h.current_size]) : h \in hdisk}
  <2>0. acked # NoTxn => View = acked /\ D = {acked} BY DEF Store!Durable
  <2> SUFFICES acked' # NoTxn => View' = acked' /\ D' = {acked'} BY DEF Store!Durable
  <2>1. CASE Store!Publish BY <2>1 DEF Store!Publish
  <2>2. CASE Store!Flush BY <2>0, <2>2 DEF Store!Flush
  <2>3. CASE Store!Power BY <2>0, <2>3 DEF Store!Power
  <2>4. CASE View' = View /\ D' = D /\ acked' = acked BY <2>0, <2>4
  <2> QED BY <2>1, <2>2, <2>3, <2>4
          DEF Store!Next, Store!vars, Store!Lock, Store!Begin, Store!Abort, Store!Commit,
              Store!Unlock, Store!Die, Store!Del, Store!Put
<1> QED BY <1>1, <1>2, PTL DEF Store!Spec

\* A commit that has returned survives every crash until a later one replaces it.
THEOREM CommitsDurable == ASSUME OneGeneration PROVE Spec => []Durable
<1>1. Store!Durable => Durable BY DEF Durable
<1> QED BY <1>1, ImplementsStore, StoreDurable, PTL DEF StoreSpec
=============================================================================
