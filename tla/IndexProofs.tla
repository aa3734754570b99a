----------------------------- MODULE IndexProofs -----------------------------
(***************************************************************************)
(* Theorems about Index: message numbers mean the same to a session and    *)
(* its client, every change is told, also to a client that resumes, and    *)
(* nothing moves under a reader, for any number of sessions, messages and  *)
(* changes.                                                                *)
(***************************************************************************)
EXTENDS Index, FiniteSetTheorems, WellFoundedInduction, TLAPS

\* The messages of q are in the order of their UIDs.
Sorted(q) == \A i, j \in DOMAIN q : i < j => q[i].uid < q[j].uid

-----------------------------------------------------------------------------
\* The mailbox

\* An expunged record is unlinked at once, or with a repack if expunge is delayed.
IsRecord(m, b, fs, rec) ==
  /\ rec.uid <= b.last_uid /\ rec.modseq <= b.highestmodseq
  /\ (rec.unlinked => rec.expunged)
  /\ (m # "delayed" /\ rec.expunged => rec.unlinked)
  /\ (m = "delayed" /\ rec.unlinked => b.needs_repack)
  /\ (m = "delayed" \/ ~rec.unlinked => rec.uid \in fs)

Box(m, b, fs) ==
  /\ b \in Mailbox /\ Sorted(b.recs) /\ fs \subseteq 1..b.last_uid
  /\ b.highestmodseq > 0 /\ b.deletedmodseq <= b.highestmodseq
  /\ \A r \in DOMAIN b.recs : IsRecord(m, b, fs, b.recs[r])

-----------------------------------------------------------------------------
\* A session: n is the modseq up to which it has seen the mailbox.

\* An entry that has been found in the mailbox b.  It is as the record was at n.
Seen(b, n, im) ==
  \A r \in DOMAIN b.recs : b.recs[r].uid = im.uid /\ b.recs[r].modseq <= n =>
    /\ b.recs[r].expunged = im.expunged
    /\ b.recs[r].flags = im.flags
    /\ b.recs[r].modseq = im.modseq

\* A message that is known to be expunged is; its modseq is no more than that of the
\* record, or of the repack that removed it.
Dead(b, im) ==
  /\ \A r \in DOMAIN b.recs : b.recs[r].uid = im.uid =>
       b.recs[r].expunged /\ b.recs[r].modseq >= im.modseq
  /\ (\A r \in DOMAIN b.recs : b.recs[r].uid # im.uid) => b.deletedmodseq >= im.modseq

\* A message that is not known to be expunged has a record, or was removed after n.
Alive(b, n, im) == (\A r \in DOMAIN b.recs : b.recs[r].uid # im.uid) => b.deletedmodseq > n

IsEntry(b, n, im) ==
  /\ im.uid <= b.last_uid /\ im.modseq <= n /\ im.told <= im.modseq
  /\ (im.recno = 0 => im.expunged)
  /\ (im.unlinked => im.expunged)
  /\ (im.recno # 0 => Seen(b, n, im))
  /\ (im.expunged => Dead(b, im))
  /\ (~im.expunged => Alive(b, n, im))

\* In the generation of the session its entries find their records.
Located(b, im) == im.recno # 0 => im.recno \in DOMAIN b.recs /\ b.recs[im.recno].uid = im.uid

\* The map has what was there at n, and all there is up to its last message.
Complete(b, n, map) ==
  \A r \in DOMAIN b.recs :
    /\ ~b.recs[r].expunged
    /\ b.recs[r].modseq <= n \/ (map # <<>> /\ b.recs[r].uid <= map[Len(map)].uid)
    => \E j \in DOMAIN map : map[j].uid = b.recs[r].uid

\* The session has expunged a message itself and will tell it.
Expunging(c) == c.pc = "check" /\ c.byuid

\* Nothing that was found is unlinked; without delayed expunge it is not expunged.
Clean(m, map) ==
  \A j \in DOMAIN map : map[j].recno # 0 => ~map[j].unlinked /\ (m # "delayed" => ~map[j].expunged)

Reading(b, fs, c) ==
  /\ c.generation = b.generation_no
  /\ \A j \in DOMAIN c.map : c.map[j].recno # 0 => c.map[j].uid \in fs

MapInv(b, c) ==
  /\ c.highestmodseq <= b.highestmodseq /\ c.generation <= b.generation_no
  /\ c.oldhighestmodseq <= c.highestmodseq /\ c.delayed_modseq <= c.highestmodseq
  /\ c.modseq <= c.highestmodseq
  /\ c.oldexists <= Len(c.map)
  /\ Sorted(c.map)
  /\ \A j \in DOMAIN c.map : IsEntry(b, c.highestmodseq, c.map[j])
  /\ (c.generation = b.generation_no => \A j \in DOMAIN c.map : Located(b, c.map[j]))
  /\ Complete(b, c.highestmodseq, c.map)

-----------------------------------------------------------------------------
\* A client

\* It counts the messages that the session counts, and has the flags of those of which
\* no change waits to be told.
InView(c) ==
  /\ ~c.unknown /\ Len(c.view) = c.oldexists
  /\ \A j \in 1..c.oldexists :
       /\ c.view[j].uid = c.map[j].uid
       /\ ~c.map[j].expunged /\ c.map[j].modseq <= c.map[j].told => c.view[j].flags = c.map[j].flags
  /\ (c.oldhighestmodseq = c.highestmodseq => \A j \in changed(c) : c.map[j].expunged)

\* Nothing waits to be told.
AllTold(c) ==
  /\ c.oldexists = Len(c.map) /\ changed(c) = {}
  /\ \A j \in DOMAIN c.map : ~c.map[j].expunged

\* What it relies on when it resumes from the modseq n: the messages that have not
\* changed since, ...
Has(b, view, n) ==
  \A r \in DOMAIN b.recs : ~b.recs[r].expunged /\ b.recs[r].modseq <= n =>
    \E i \in DOMAIN view : view[i] = [uid |-> b.recs[r].uid, flags |-> b.recs[r].flags]

\* ... all the messages up to its last one, and that it is told of those that are gone.
Resumable(b, view, n) ==
  /\ Sorted(view) /\ Has(b, view, n)
  /\ \A r \in DOMAIN b.recs : \A k \in DOMAIN view :
       ~b.recs[r].expunged /\ b.recs[r].uid <= view[k].uid =>
         \E i \in DOMAIN view : view[i].uid = b.recs[r].uid
  /\ \A i \in DOMAIN view :
       /\ view[i].uid <= b.last_uid
       /\ \A r \in DOMAIN b.recs : b.recs[r].uid = view[i].uid /\ b.recs[r].expunged =>
            b.recs[r].modseq > n
       /\ (\A r \in DOMAIN b.recs : b.recs[r].uid # view[i].uid) => b.deletedmodseq > n

\* While it is connected: what it is not told of yet is later than n.
Covered(map, n) == \A j \in DOMAIN map : map[j].expunged => map[j].modseq > n

\* A session between any two calls in a command
Core(b, c) ==
  /\ c \in State /\ MapInv(b, c)
  /\ (~c.misled => InView(c))
  /\ (~c.misled /\ ~c.late => Covered(c.map, c.modseq))

\* A session between two steps
Closed(b, c) ==
  /\ c.map = <<>> /\ c.oldexists = 0 /\ c.highestmodseq = 0 /\ c.last \in {"none", "failed"}
  /\ c.modseq <= b.highestmodseq
  /\ (~c.misled => ~c.unknown)
  /\ (~c.misled /\ ~c.late /\ c.modseq # 0 => Resumable(b, c.view, c.modseq))

Opened(m, b, fs, c) ==
  /\ Core(b, c)
  /\ (~Expunging(c) => Clean(m, c.map))
  /\ (c.pc \in {"fetch", "copy"} => Reading(b, fs, c))
  /\ (c.pc = "move" => c.byuid)
  /\ (~c.misled /\ c.last \in {"noop", "expunge"} => AllTold(c))
  /\ (~c.misled /\ ~c.late /\ c.pc # "fetch" => Has(b, c.view, c.modseq))
  /\ (~c.misled /\ ~c.late /\ c.last = "resume" => c.view = known(c.map))

Sess(m, b, fs, c) ==
  /\ c \in State
  /\ (c.pc = "off" => Closed(b, c))
  /\ (c.pc # "off" => Opened(m, b, fs, c))

IndexInv ==
  /\ mode \in Modes /\ closing \in BOOLEAN /\ ops \in 0..MaxOps
  /\ Box(mode, mbox, files)
  /\ ses \in [Session -> State]
  /\ \A s \in Session : Sess(mode, mbox, files, ses[s])
-----------------------------------------------------------------------------
\* Numbers and sequences

\* Induction, as a fact about sets
LEMMA NatSet ==
  ASSUME NEW S, 0 \in S, \A n \in Nat : n \in S => n + 1 \in S
  PROVE  \A n \in Nat : n \in S
<1> SUFFICES ASSUME Nat \ S # {} PROVE FALSE OBVIOUS
<1> DEFINE T == Nat \ S
<1>1. PICK x \in T : \A y \in T : ~(<<y, x>> \in OpToRel(<, Nat))
  <2>1. T \subseteq Nat /\ T # {} OBVIOUS
  <2> HIDE DEF T
  <2> QED BY <2>1, NatLessThanWellFounded, WFMin, Zenon
<1>2. x \in Nat \ {0} /\ x - 1 \in Nat /\ x = (x - 1) + 1 OBVIOUS
<1>3. x - 1 \in T BY <1>2
<1>4. <<x - 1, x>> \in OpToRel(<, Nat)
  <2>1. x - 1 < x /\ x - 1 \in Nat /\ x \in Nat BY <1>2
  <2> QED BY <2>1, Zenon DEF OpToRel
<1> QED BY <1>1, <1>3, <1>4, Zenon

\* A bounded set of numbers has a greatest element.
LEMMA MaxBounded ==
  ASSUME NEW n \in Nat, NEW S, S \subseteq 0 .. n, S # {}
  PROVE  Max(S) \in S /\ \A x \in S : x <= Max(S)
<1> DEFINE P == {k \in Nat : \A T \in SUBSET (0 .. k) :
                     T # {} => \E x \in T : \A y \in T : x >= y}
<1>1. 0 \in P
  <2>1. ASSUME NEW T \in SUBSET (0 .. 0), NEW x \in T PROVE \A y \in T : x >= y OBVIOUS
  <2> QED BY <2>1
<1>2. ASSUME NEW k \in Nat, k \in P PROVE k + 1 \in P
  <2> SUFFICES ASSUME NEW T \in SUBSET (0 .. k + 1), T # {}
               PROVE  \E x \in T : \A y \in T : x >= y
    OBVIOUS
  <2>1. CASE k + 1 \in T BY <2>1
  <2>2. CASE k + 1 \notin T
    <3>1. T \subseteq 0 .. k BY <2>2
    <3> QED BY <3>1, <1>2
  <2> QED BY <2>1, <2>2
<1> HIDE DEF P
<1>3. n \in P BY <1>1, <1>2, NatSet
<1>4. \E x \in S : \A y \in S : x >= y BY <1>3 DEF P
<1> QED BY <1>4 DEF Max

\* The recursive functions of the model: what defines them exists.
IsPicked(f, q, S, n) ==
  f = [k \in 0 .. n |-> IF k = 0 THEN <<>>
                        ELSE IF k \in S THEN Append(f[k - 1], q[k]) ELSE f[k - 1]]

IsLowered(f, map, n) == f = [k \in 0 .. n |-> IF k = 0 THEN 0 ELSE lower(f[k - 1], map[k])]

IsTold(f, c, n) ==
  f = [k \in 0 .. n |-> IF k = 0 THEN [c EXCEPT !.map = <<>>] ELSE tell_one(f[k - 1], c.map[k])]

LEMMA PickedExists ==
  ASSUME NEW q, NEW S
  PROVE  \A n \in Nat : \E f : IsPicked(f, q, S, n)
<1> DEFINE base == <<>>
           one(x, k) == IF k \in S THEN Append(x, q[k]) ELSE x
           D(f, n) == f = [k \in 0 .. n |-> IF k = 0 THEN base ELSE one(f[k - 1], k)]
           P == {n \in Nat : \E f : D(f, n)}
<1> HIDE DEF base, one
<1>1. 0 \in P
  <2>1. [k \in 0 .. 0 |-> base]
          = [k \in 0 .. 0 |-> IF k = 0 THEN base ELSE one([j \in 0 .. 0 |-> base][k - 1], k)]
    OBVIOUS
  <2> QED BY <2>1
<1>2. ASSUME NEW n \in Nat, n \in P PROVE n + 1 \in P
  <2>1. PICK f : D(f, n) BY <1>2
  <2> DEFINE g == [k \in 0 .. n + 1 |-> IF k <= n THEN f[k] ELSE one(f[n], n + 1)]
  <2>2. ASSUME NEW k \in 0 .. n + 1 PROVE g[k] = IF k = 0 THEN base ELSE one(g[k - 1], k)
    <3>1. CASE k <= n
      <4>1. k \in 0 .. n BY <3>1
      <4>2. f[k] = IF k = 0 THEN base ELSE one(f[k - 1], k) BY <2>1, <4>1
      <4>3. k # 0 => k - 1 \in 0 .. n + 1 /\ k - 1 <= n BY <4>1
      <4> QED BY <4>1, <4>2, <4>3
    <3>2. CASE k = n + 1 BY <3>2
    <3> QED BY <3>1, <3>2
  <2>3. D(g, n + 1)
    <3> HIDE DEF g
    <3>1. g = [k \in 0 .. n + 1 |-> g[k]] BY DEF g
    <3> QED BY <3>1, <2>2, Zenon
  <2> HIDE DEF g, D
  <2> QED BY <2>3
<1> HIDE DEF P
<1>3. \A n \in Nat : n \in P BY <1>1, <1>2, NatSet
<1> QED BY <1>3 DEF P, base, one, IsPicked

\* pick goes through the sequence.
LEMMA PickedSteps ==
  ASSUME NEW q, NEW S, Len(q) \in Nat
  PROVE  \E f : /\ f[0] = <<>>
                /\ \A k \in 1 .. Len(q) : f[k] = IF k \in S THEN Append(f[k - 1], q[k]) ELSE f[k - 1]
                /\ pick(q, S) = f[Len(q)]
<1> DEFINE n == Len(q)
           base == <<>>
           one(x, k) == IF k \in S THEN Append(x, q[k]) ELSE x
           D(f) == f = [k \in 0 .. n |-> IF k = 0 THEN base ELSE one(f[k - 1], k)]
           F == CHOOSE f : IsPicked(f, q, S, n)
<1>1. pick(q, S) = F[n] BY DEF pick, IsPicked
<1>2. n \in Nat OBVIOUS
<1> HIDE DEF n
<1>3. \E f : IsPicked(f, q, S, n) BY <1>2, PickedExists
<1>4. D(F)
  <2>1. IsPicked(F, q, S, n) BY <1>3
  <2> HIDE DEF F
  <2> QED BY <2>1 DEF IsPicked
<1> HIDE DEF base, one
<1> HIDE DEF F
<1>5. F[0] = base BY <1>2, <1>4
<1>6. ASSUME NEW k \in 1 .. n PROVE F[k] = one(F[k - 1], k)
  <2>1. k \in 0 .. n /\ k # 0 BY <1>2
  <2> QED BY <1>4, <2>1
<1> QED BY <1>1, <1>2, <1>5, <1>6 DEF base, one, n

LEMMA LoweredExists ==
  ASSUME NEW map
  PROVE  \A n \in Nat : \E f : IsLowered(f, map, n)
<1> DEFINE base == 0
           one(x, k) == lower(x, map[k])
           D(f, n) == f = [k \in 0 .. n |-> IF k = 0 THEN base ELSE one(f[k - 1], k)]
           P == {n \in Nat : \E f : D(f, n)}
<1> HIDE DEF base, one
<1>1. 0 \in P
  <2>1. [k \in 0 .. 0 |-> base]
          = [k \in 0 .. 0 |-> IF k = 0 THEN base ELSE one([j \in 0 .. 0 |-> base][k - 1], k)]
    OBVIOUS
  <2> QED BY <2>1
<1>2. ASSUME NEW n \in Nat, n \in P PROVE n + 1 \in P
  <2>1. PICK f : D(f, n) BY <1>2
  <2> DEFINE g == [k \in 0 .. n + 1 |-> IF k <= n THEN f[k] ELSE one(f[n], n + 1)]
  <2>2. ASSUME NEW k \in 0 .. n + 1 PROVE g[k] = IF k = 0 THEN base ELSE one(g[k - 1], k)
    <3>1. CASE k <= n
      <4>1. k \in 0 .. n BY <3>1
      <4>2. f[k] = IF k = 0 THEN base ELSE one(f[k - 1], k) BY <2>1, <4>1
      <4>3. k # 0 => k - 1 \in 0 .. n + 1 /\ k - 1 <= n BY <4>1
      <4> QED BY <4>1, <4>2, <4>3
    <3>2. CASE k = n + 1 BY <3>2
    <3> QED BY <3>1, <3>2
  <2>3. D(g, n + 1)
    <3> HIDE DEF g
    <3>1. g = [k \in 0 .. n + 1 |-> g[k]] BY DEF g
    <3> QED BY <3>1, <2>2, Zenon
  <2> HIDE DEF g, D
  <2> QED BY <2>3
<1> HIDE DEF P
<1>3. \A n \in Nat : n \in P BY <1>1, <1>2, NatSet
<1> QED BY <1>3 DEF P, base, one, IsLowered

\* delayed goes through the map.
LEMMA LoweredSteps ==
  ASSUME NEW map, Len(map) \in Nat
  PROVE  \E f : /\ f[0] = 0
                /\ \A k \in 1 .. Len(map) : f[k] = lower(f[k - 1], map[k])
                /\ delayed(map) = f[Len(map)]
<1> DEFINE n == Len(map)
           base == 0
           one(x, k) == lower(x, map[k])
           D(f) == f = [k \in 0 .. n |-> IF k = 0 THEN base ELSE one(f[k - 1], k)]
           F == CHOOSE f : IsLowered(f, map, n)
<1>1. delayed(map) = F[n] BY DEF delayed, IsLowered
<1>2. n \in Nat OBVIOUS
<1> HIDE DEF n
<1>3. \E f : IsLowered(f, map, n) BY <1>2, LoweredExists
<1>4. D(F)
  <2>1. IsLowered(F, map, n) BY <1>3
  <2> HIDE DEF F
  <2> QED BY <2>1 DEF IsLowered
<1> HIDE DEF base, one
<1> HIDE DEF F
<1>5. F[0] = base BY <1>2, <1>4
<1>6. ASSUME NEW k \in 1 .. n PROVE F[k] = one(F[k - 1], k)
  <2>1. k \in 0 .. n /\ k # 0 BY <1>2
  <2> QED BY <1>4, <2>1
<1> QED BY <1>1, <1>2, <1>5, <1>6 DEF base, one, n

LEMMA ToldExists ==
  ASSUME NEW c
  PROVE  \A n \in Nat : \E f : IsTold(f, c, n)
<1> DEFINE base == [c EXCEPT !.map = <<>>]
           one(x, k) == tell_one(x, c.map[k])
           D(f, n) == f = [k \in 0 .. n |-> IF k = 0 THEN base ELSE one(f[k - 1], k)]
           P == {n \in Nat : \E f : D(f, n)}
<1> HIDE DEF base, one
<1>1. 0 \in P
  <2>1. [k \in 0 .. 0 |-> base]
          = [k \in 0 .. 0 |-> IF k = 0 THEN base ELSE one([j \in 0 .. 0 |-> base][k - 1], k)]
    OBVIOUS
  <2> QED BY <2>1
<1>2. ASSUME NEW n \in Nat, n \in P PROVE n + 1 \in P
  <2>1. PICK f : D(f, n) BY <1>2
  <2> DEFINE g == [k \in 0 .. n + 1 |-> IF k <= n THEN f[k] ELSE one(f[n], n + 1)]
  <2>2. ASSUME NEW k \in 0 .. n + 1 PROVE g[k] = IF k = 0 THEN base ELSE one(g[k - 1], k)
    <3>1. CASE k <= n
      <4>1. k \in 0 .. n BY <3>1
      <4>2. f[k] = IF k = 0 THEN base ELSE one(f[k - 1], k) BY <2>1, <4>1
      <4>3. k # 0 => k - 1 \in 0 .. n + 1 /\ k - 1 <= n BY <4>1
      <4> QED BY <4>1, <4>2, <4>3
    <3>2. CASE k = n + 1 BY <3>2
    <3> QED BY <3>1, <3>2
  <2>3. D(g, n + 1)
    <3> HIDE DEF g
    <3>1. g = [k \in 0 .. n + 1 |-> g[k]] BY DEF g
    <3> QED BY <3>1, <2>2, Zenon
  <2> HIDE DEF g, D
  <2> QED BY <2>3
<1> HIDE DEF P
<1>3. \A n \in Nat : n \in P BY <1>1, <1>2, NatSet
<1> QED BY <1>3 DEF P, base, one, IsTold

\* index_tellexpunge goes through the map.
LEMMA ToldSteps ==
  ASSUME NEW c, Len(c.map) \in Nat
  PROVE  \E f : /\ f[0] = [c EXCEPT !.map = <<>>]
                /\ \A k \in 1 .. Len(c.map) : f[k] = tell_one(f[k - 1], c.map[k])
                /\ index_tellexpunge(c) = [f[Len(c.map)] EXCEPT !.delayed_modseq = 0]
<1> DEFINE n == Len(c.map)
           base == [c EXCEPT !.map = <<>>]
           one(x, k) == tell_one(x, c.map[k])
           D(f) == f = [k \in 0 .. n |-> IF k = 0 THEN base ELSE one(f[k - 1], k)]
           F == CHOOSE f : IsTold(f, c, n)
<1>1. index_tellexpunge(c) = [F[n] EXCEPT !.delayed_modseq = 0] BY DEF index_tellexpunge, IsTold
<1>2. n \in Nat OBVIOUS
<1> HIDE DEF n
<1>3. \E f : IsTold(f, c, n) BY <1>2, ToldExists
<1>4. D(F)
  <2>1. IsTold(F, c, n) BY <1>3
  <2> HIDE DEF F
  <2> QED BY <2>1 DEF IsTold
<1> HIDE DEF base, one
<1> HIDE DEF F
<1>5. F[0] = base BY <1>2, <1>4
<1>6. ASSUME NEW k \in 1 .. n PROVE F[k] = one(F[k - 1], k)
  <2>1. k \in 0 .. n /\ k # 0 BY <1>2
  <2> QED BY <1>4, <2>1
<1> QED BY <1>1, <1>2, <1>5, <1>6 DEF base, one, n

\* One turn of the loops that rewrite the records of the messages in js: x says whether
\* they are expunged or get the flags fl.
turned(x, st, c, js, fl, k) ==
  IF k \notin js THEN st
  ELSE IF x THEN expunge_one(st, k)
  ELSE rewritten(st, k, [record(c.map[k]) EXCEPT !.flags = fl])

IsTurned(f, x, c, js, fl, n) ==
  f = [k \in 0 .. n |-> IF k = 0 THEN locked(c) ELSE turned(x, f[k - 1], c, js, fl, k)]

LEMMA TurnedExists ==
  ASSUME NEW x, NEW c, NEW js, NEW fl
  PROVE  \A n \in Nat : \E f : IsTurned(f, x, c, js, fl, n)
<1> DEFINE base == locked(c)
           one(st, k) == turned(x, st, c, js, fl, k)
           D(f, n) == f = [k \in 0 .. n |-> IF k = 0 THEN base ELSE one(f[k - 1], k)]
           P == {n \in Nat : \E f : D(f, n)}
<1> HIDE DEF base, one
<1>1. 0 \in P
  <2>1. [k \in 0 .. 0 |-> base]
          = [k \in 0 .. 0 |-> IF k = 0 THEN base ELSE one([j \in 0 .. 0 |-> base][k - 1], k)]
    OBVIOUS
  <2> QED BY <2>1
<1>2. ASSUME NEW n \in Nat, n \in P PROVE n + 1 \in P
  <2>1. PICK f : D(f, n) BY <1>2
  <2> DEFINE g == [k \in 0 .. n + 1 |-> IF k <= n THEN f[k] ELSE one(f[n], n + 1)]
  <2>2. ASSUME NEW k \in 0 .. n + 1 PROVE g[k] = IF k = 0 THEN base ELSE one(g[k - 1], k)
    <3>1. CASE k <= n
      <4>1. k \in 0 .. n BY <3>1
      <4>2. f[k] = IF k = 0 THEN base ELSE one(f[k - 1], k) BY <2>1, <4>1
      <4>3. k # 0 => k - 1 \in 0 .. n + 1 /\ k - 1 <= n BY <4>1
      <4> QED BY <4>1, <4>2, <4>3
    <3>2. CASE k = n + 1 BY <3>2
    <3> QED BY <3>1, <3>2
  <2>3. D(g, n + 1)
    <3> HIDE DEF g
    <3>1. g = [k \in 0 .. n + 1 |-> g[k]] BY DEF g
    <3> QED BY <3>1, <2>2, Zenon
  <2> HIDE DEF g, D
  <2> QED BY <2>3
<1> HIDE DEF P
<1>3. \A n \in Nat : n \in P BY <1>1, <1>2, NatSet
<1> QED BY <1>3 DEF P, base, one, IsTurned

\* f is what a loop has after each of its turns.
Turns(f, x, c, js, fl) ==
  /\ f[0] = locked(c)
  /\ \A k \in 1 .. Len(c.map) : f[k] = turned(x, f[k - 1], c, js, fl, k)

LEMMA TurnedTurns ==
  ASSUME NEW f, NEW x, NEW c, NEW js, NEW fl, Len(c.map) \in Nat, IsTurned(f, x, c, js, fl, Len(c.map))
  PROVE  Turns(f, x, c, js, fl)
<1> DEFINE n == Len(c.map)
           base == locked(c)
           one(st, k) == turned(x, st, c, js, fl, k)
<1>1. f = [k \in 0 .. n |-> IF k = 0 THEN base ELSE one(f[k - 1], k)] BY DEF IsTurned
<1>2. n \in Nat OBVIOUS
<1> HIDE DEF n, base, one
<1>3. f[0] = base BY <1>1, <1>2
<1>4. ASSUME NEW k \in 1 .. n PROVE f[k] = one(f[k - 1], k)
  <2>1. k \in 0 .. n /\ k # 0 BY <1>2
  <2> QED BY <1>1, <2>1
<1> QED BY <1>3, <1>4 DEF Turns, base, one, n

LEMMA SetTurns ==
  ASSUME NEW c, Len(c.map) \in Nat, NEW js, NEW fl
  PROVE  \E f : Turns(f, FALSE, c, js, fl) /\ setflags(c, js, fl) = f[Len(c.map)]
<1> DEFINE n == Len(c.map)
           D(f) == f = [k \in 0 .. n |->
                          IF k = 0 THEN locked(c)
                          ELSE IF k \in js THEN rewritten(f[k - 1], k, [record(c.map[k]) EXCEPT !.flags = fl])
                          ELSE f[k - 1]]
           F == CHOOSE f : D(f)
<1>1. setflags(c, js, fl) = F[n] BY DEF setflags
<1>2. ASSUME NEW f PROVE D(f) <=> IsTurned(f, FALSE, c, js, fl, n) BY DEF IsTurned, turned
<1>3. \E f : D(f)
  <2>1. PICK f : IsTurned(f, FALSE, c, js, fl, n) BY TurnedExists
  <2> QED BY <2>1, <1>2
<1> HIDE DEF D
<1>4. D(F) BY <1>3
<1> HIDE DEF F
<1>5. Turns(F, FALSE, c, js, fl) BY <1>2, <1>4, TurnedTurns
<1> QED BY <1>1, <1>5

LEMMA ExpungeTurns ==
  ASSUME NEW c, Len(c.map) \in Nat, NEW js, NEW fl
  PROVE  \E f : Turns(f, TRUE, c, js, fl) /\ index_expunge(c, js) = f[Len(c.map)]
<1> DEFINE n == Len(c.map)
           D(f) == f = [k \in 0 .. n |->
                          IF k = 0 THEN locked(c)
                          ELSE IF k \in js THEN expunge_one(f[k - 1], k)
                          ELSE f[k - 1]]
           F == CHOOSE f : D(f)
<1>1. index_expunge(c, js) = F[n] BY DEF index_expunge
<1>2. ASSUME NEW f PROVE D(f) <=> IsTurned(f, TRUE, c, js, fl, n) BY DEF IsTurned, turned
<1>3. \E f : D(f)
  <2>1. PICK f : IsTurned(f, TRUE, c, js, fl, n) BY TurnedExists
  <2> QED BY <2>1, <1>2
<1> HIDE DEF D
<1>4. D(F) BY <1>3
<1> HIDE DEF F
<1>5. Turns(F, TRUE, c, js, fl) BY <1>2, <1>4, TurnedTurns
<1> QED BY <1>1, <1>5

\* p are the elements of q at the positions in S up to n, and g their positions.
Picks(p, g, q, S, n) ==
  /\ Len(g) = Len(p)
  /\ \A i \in 1 .. Len(p) : g[i] \in 1 .. n /\ g[i] \in S /\ p[i] = q[g[i]]
  /\ \A i, j \in 1 .. Len(p) : i < j => g[i] < g[j]
  /\ \A k \in 1 .. n : k \in S => \E i \in 1 .. Len(p) : g[i] = k

LEMMA PicksNext ==
  ASSUME NEW T, NEW q \in Seq(T), NEW S, NEW n \in Nat, n + 1 <= Len(q),
         NEW p \in Seq(T), NEW g \in Seq(Nat), Picks(p, g, q, S, n)
  PROVE  /\ n + 1 \in S => /\ Append(p, q[n + 1]) \in Seq(T) /\ Append(g, n + 1) \in Seq(Nat)
                           /\ Picks(Append(p, q[n + 1]), Append(g, n + 1), q, S, n + 1)
         /\ n + 1 \notin S => Picks(p, g, q, S, n + 1)
<1>1. ASSUME n + 1 \in S
      PROVE  /\ Append(p, q[n + 1]) \in Seq(T) /\ Append(g, n + 1) \in Seq(Nat)
             /\ Picks(Append(p, q[n + 1]), Append(g, n + 1), q, S, n + 1)
  <2> DEFINE p2 == Append(p, q[n + 1])
             g2 == Append(g, n + 1)
  <2>1. q[n + 1] \in T OBVIOUS
  <2>2. /\ p2 \in Seq(T) /\ Len(p2) = Len(p) + 1 /\ p2[Len(p) + 1] = q[n + 1]
        /\ \A i \in 1 .. Len(p) : p2[i] = p[i]
    BY <2>1
  <2>3. /\ g2 \in Seq(Nat) /\ Len(g2) = Len(g) + 1 /\ g2[Len(g) + 1] = n + 1
        /\ \A i \in 1 .. Len(g) : g2[i] = g[i]
    OBVIOUS
  <2> HIDE DEF p2, g2
  <2>4. Len(g) = Len(p) BY DEF Picks
  <2>5. \A i \in 1 .. Len(p2) : i \in 1 .. Len(p) \/ i = Len(p) + 1 BY <2>2
  <2>a. Len(p) \in Nat OBVIOUS
  <2>b. \A i \in 1 .. Len(p) : g2[i] = g[i] /\ p2[i] = p[i] BY <2>2, <2>3, <2>4
  <2>c. g2[Len(p) + 1] = n + 1 /\ p2[Len(p) + 1] = q[n + 1] BY <2>2, <2>3, <2>4
  <2>d. \A i \in 1 .. Len(p) : g[i] \in 1 .. n /\ g[i] \in S /\ p[i] = q[g[i]] BY DEF Picks
  <2>e. \A i, j \in 1 .. Len(p) : i < j => g[i] < g[j] BY DEF Picks
  <2>6. ASSUME NEW i \in 1 .. Len(p2) PROVE g2[i] \in 1 .. n + 1 /\ g2[i] \in S /\ p2[i] = q[g2[i]]
    <3>1. CASE i \in 1 .. Len(p)
      <4>1. g[i] \in 1 .. n /\ g[i] \in S /\ p[i] = q[g[i]] BY <3>1, <2>d
      <4>2. g[i] \in 1 .. n + 1 BY <4>1
      <4> QED BY <3>1, <4>1, <4>2, <2>b
    <3>2. CASE i = Len(p) + 1
      <4>1. n + 1 \in 1 .. n + 1 OBVIOUS
      <4> QED BY <3>2, <4>1, <2>c, <1>1, Zenon
    <3> QED BY <3>1, <3>2, <2>5
  <2>7. ASSUME NEW i \in 1 .. Len(p2), NEW j \in 1 .. Len(p2), i < j PROVE g2[i] < g2[j]
    <3>1. i \in 1 .. Len(p) BY <2>7, <2>2, <2>a
    <3>2. CASE j \in 1 .. Len(p) BY <3>1, <3>2, <2>7, <2>b, <2>e
    <3>3. CASE j = Len(p) + 1
      <4>1. g[i] \in 1 .. n BY <3>1, <2>d
      <4>2. g2[i] = g[i] /\ g2[j] = n + 1 BY <3>1, <3>3, <2>b, <2>c
      <4>3. g[i] < n + 1 BY <4>1
      <4> QED BY <4>2, <4>3
    <3> QED BY <3>2, <3>3, <2>5
  <2>8. ASSUME NEW k \in 1 .. n + 1, k \in S PROVE \E i \in 1 .. Len(p2) : g2[i] = k
    <3>1. CASE k = n + 1 BY <3>1, <2>2, <2>3, <2>4, SMTT(40)
    <3>2. CASE k \in 1 .. n
      <4>1. PICK i \in 1 .. Len(p) : g[i] = k BY <3>2, <2>8 DEF Picks
      <4> QED BY <4>1, <2>2, <2>3, <2>4, SMTT(40)
    <3> QED BY <3>1, <3>2
  <2>9. Picks(p2, g2, q, S, n + 1) BY <2>2, <2>3, <2>4, <2>6, <2>7, <2>8 DEF Picks
  <2> QED BY <2>2, <2>3, <2>9 DEF p2, g2
<1>2. ASSUME n + 1 \notin S PROVE Picks(p, g, q, S, n + 1)
  <2>1. \A i \in 1 .. Len(p) : g[i] \in 1 .. n /\ g[i] \in S /\ p[i] = q[g[i]] BY DEF Picks
  <2>2. \A k \in 1 .. n : k \in 1 .. n + 1 OBVIOUS
  <2>3. \A i \in 1 .. Len(p) : g[i] \in 1 .. n + 1 /\ g[i] \in S /\ p[i] = q[g[i]] BY <2>1, <2>2
  <2>4. \A k \in 1 .. n + 1 : k \in 1 .. n \/ k = n + 1 OBVIOUS
  <2>5. \A k \in 1 .. n + 1 : k \in S => \E i \in 1 .. Len(p) : g[i] = k BY <1>2, <2>4 DEF Picks
  <2> QED BY <2>3, <2>5 DEF Picks
<1> QED BY <1>1, <1>2

LEMMA Picked ==
  ASSUME NEW T, NEW q \in Seq(T), NEW S
  PROVE  /\ pick(q, S) \in Seq(T)
         /\ \E g \in Seq(Nat) : Picks(pick(q, S), g, q, S, Len(q))
<1>1. Len(q) \in Nat OBVIOUS
<1>2. PICK f : /\ f[0] = <<>>
               /\ \A k \in 1 .. Len(q) : f[k] = IF k \in S THEN Append(f[k - 1], q[k]) ELSE f[k - 1]
               /\ pick(q, S) = f[Len(q)]
  BY <1>1, PickedSteps
<1> DEFINE I == {n \in Nat : n <= Len(q) =>
                   f[n] \in Seq(T) /\ \E g \in Seq(Nat) : Picks(f[n], g, q, S, n)}
<1>3. 0 \in I
  <2>1. <<>> \in Seq(T) /\ <<>> \in Seq(Nat) /\ Picks(<<>>, <<>>, q, S, 0) BY DEF Picks
  <2> QED BY <2>1, <1>2
<1>4. ASSUME NEW n \in Nat, n \in I PROVE n + 1 \in I
  <2> SUFFICES ASSUME n + 1 <= Len(q)
               PROVE  f[n + 1] \in Seq(T) /\ \E g \in Seq(Nat) : Picks(f[n + 1], g, q, S, n + 1)
    OBVIOUS
  <2>1. f[n] \in Seq(T) BY <1>4, <1>1
  <2>2. PICK g \in Seq(Nat) : Picks(f[n], g, q, S, n) BY <1>4, <1>1
  <2>3. f[n + 1] = IF n + 1 \in S THEN Append(f[n], q[n + 1]) ELSE f[n]
    <3>1. n + 1 \in 1 .. Len(q) /\ (n + 1) - 1 = n BY <1>1
    <3> QED BY <3>1, <1>2
  <2>4. CASE n + 1 \in S
    <3>1. /\ Append(f[n], q[n + 1]) \in Seq(T) /\ Append(g, n + 1) \in Seq(Nat)
          /\ Picks(Append(f[n], q[n + 1]), Append(g, n + 1), q, S, n + 1)
      BY <2>1, <2>2, <2>4, PicksNext
    <3> QED BY <3>1, <2>3, <2>4, Zenon
  <2>5. CASE n + 1 \notin S
    <3>1. Picks(f[n], g, q, S, n + 1) BY <2>1, <2>2, <2>5, PicksNext
    <3> QED BY <3>1, <2>1, <2>3, <2>5, Zenon
  <2> QED BY <2>4, <2>5
<1> HIDE DEF I
<1>5. Len(q) \in I BY <1>1, <1>3, <1>4, NatSet
<1> QED BY <1>1, <1>2, <1>5 DEF I

\* The elements of p are those of q at the positions in S.
Chosen(p, q, S) ==
  /\ \A i \in DOMAIN p : \E k \in DOMAIN q \cap S : p[i] = q[k]
  /\ \A k \in DOMAIN q \cap S : \E i \in DOMAIN p : p[i] = q[k]

\* What it means for messages that are in the order of their UIDs
LEMMA PickedSorted ==
  ASSUME NEW T, NEW q \in Seq(T), Sorted(q), NEW S
  PROVE  pick(q, S) \in Seq(T) /\ Sorted(pick(q, S)) /\ Chosen(pick(q, S), q, S)
<1> DEFINE p == pick(q, S)
<1>1. p \in Seq(T) BY Picked
<1>2. PICK g \in Seq(Nat) : Picks(p, g, q, S, Len(q)) BY Picked
<1> HIDE DEF p
<1>3. DOMAIN p = 1 .. Len(p) /\ DOMAIN q = 1 .. Len(q) BY <1>1
<1>4. Sorted(p)
  <2> SUFFICES ASSUME NEW i \in DOMAIN p, NEW j \in DOMAIN p, i < j PROVE p[i].uid < p[j].uid
    BY DEF Sorted
  <2>1. i \in 1 .. Len(p) /\ j \in 1 .. Len(p) BY <1>3
  <2>2. g[i] \in 1 .. Len(q) /\ g[j] \in 1 .. Len(q) /\ g[i] < g[j] /\ p[i] = q[g[i]] /\ p[j] = q[g[j]]
    BY <1>2, <2>1 DEF Picks
  <2>3. q[g[i]].uid < q[g[j]].uid BY <1>3, <2>2 DEF Sorted
  <2> QED BY <2>2, <2>3
<1>5. \A i \in DOMAIN p : \E k \in DOMAIN q \cap S : p[i] = q[k] BY <1>2, <1>3 DEF Picks
<1>6. \A k \in DOMAIN q \cap S : \E i \in DOMAIN p : p[i] = q[k]
  <2> TAKE k \in DOMAIN q \cap S
  <2>1. PICK i \in 1 .. Len(p) : g[i] = k BY <1>2, <1>3 DEF Picks
  <2> QED BY <2>1, <1>2, <1>3 DEF Picks
<1> QED BY <1>1, <1>4, <1>5, <1>6 DEF p, Chosen

LEMMA Antisym == ASSUME NEW a \in Nat, NEW b \in Nat, a <= b, b <= a PROVE a = b
OBVIOUS

LEMMA SameSeq ==
  ASSUME NEW T, NEW p \in Seq(T), NEW q \in Seq(T), Len(p) = Len(q),
         \A k \in 1 .. Len(p) : p[k] = q[k]
  PROVE  p = q
OBVIOUS

HaveUids(T) == \A x \in T : x.uid \in Nat

\* All elements of p are in q.
Among(p, q) == \A i \in DOMAIN p : \E j \in DOMAIN q : p[i] = q[j]

\* Two such sequences of the same elements are the same.
LEMMA SortedUnique ==
  ASSUME NEW T, HaveUids(T), NEW p \in Seq(T), NEW q \in Seq(T), Sorted(p), Sorted(q),
         Among(p, q), Among(q, p)
  PROVE  p = q
<1> DEFINE I == {n \in Nat : \A k \in 1 .. n : (k \in DOMAIN p <=> k \in DOMAIN q)
                                               /\ (k \in DOMAIN p => p[k] = q[k])}
<1>1. 0 \in I OBVIOUS
<1>0. /\ DOMAIN p = 1 .. Len(p) /\ DOMAIN q = 1 .. Len(q) /\ Len(p) \in Nat /\ Len(q) \in Nat
      /\ \A i \in DOMAIN p : p[i].uid \in Nat
      /\ \A i \in DOMAIN q : q[i].uid \in Nat
  BY DEF HaveUids
<1>2. ASSUME NEW n \in Nat, n \in I PROVE n + 1 \in I
  <2>1. ASSUME n + 1 \in DOMAIN p
        PROVE  \E j \in DOMAIN q : j >= n + 1 /\ p[n + 1] = q[j]
    <3>1. PICK j \in DOMAIN q : p[n + 1] = q[j] BY <2>1 DEF Among
    <3>2. ASSUME j <= n PROVE FALSE
      <4>1. j \in 1 .. n /\ j \in DOMAIN p /\ p[j] = q[j] BY <3>2, <1>2, <1>0
      <4>2. p[j].uid < p[n + 1].uid
        <5>1. j < n + 1 BY <4>1
        <5> QED BY <4>1, <2>1, <5>1, Zenon DEF Sorted
      <4> QED BY <4>1, <4>2, <3>1, <1>0
    <3> QED BY <3>1, <3>2, <1>0
  <2>2. ASSUME n + 1 \in DOMAIN q
        PROVE  \E j \in DOMAIN p : j >= n + 1 /\ q[n + 1] = p[j]
    <3>1. PICK j \in DOMAIN p : q[n + 1] = p[j] BY <2>2 DEF Among
    <3>2. ASSUME j <= n PROVE FALSE
      <4>1. j \in 1 .. n /\ j \in DOMAIN q /\ p[j] = q[j] BY <3>2, <1>2, <1>0
      <4>2. q[j].uid < q[n + 1].uid
        <5>1. j < n + 1 BY <4>1
        <5> QED BY <4>1, <2>2, <5>1, Zenon DEF Sorted
      <4> QED BY <4>1, <4>2, <3>1, <1>0
    <3> QED BY <3>1, <3>2, <1>0
  <2>3. n + 1 \in DOMAIN p <=> n + 1 \in DOMAIN q BY <2>1, <2>2, <1>0
  <2>4. ASSUME n + 1 \in DOMAIN p PROVE p[n + 1] = q[n + 1]
    <3>1. PICK j \in DOMAIN q : j >= n + 1 /\ p[n + 1] = q[j] BY <2>1, <2>4
    <3>2. PICK i \in DOMAIN p : i >= n + 1 /\ q[n + 1] = p[i] BY <2>2, <2>3, <2>4
    <3>3. j > n + 1 => q[n + 1].uid < q[j].uid BY <2>3, <2>4, <3>1, <1>0 DEF Sorted
    <3>4. i > n + 1 => p[n + 1].uid < p[i].uid BY <2>4, <3>2, <1>0 DEF Sorted
    <3>5. j = n + 1 \/ i = n + 1
      <4>1. n + 1 \in DOMAIN q BY <2>3, <2>4
      <4>2. p[n + 1].uid \in Nat /\ q[n + 1].uid \in Nat BY <4>1, <2>4, <1>0
      <4>3. p[n + 1].uid = q[j].uid /\ q[n + 1].uid = p[i].uid BY <3>1, <3>2
      <4>4. j \in Nat /\ i \in Nat BY <1>0
      <4>5. CASE j > n + 1 /\ i > n + 1
        <5>1. q[n + 1].uid < p[n + 1].uid /\ p[n + 1].uid < q[n + 1].uid BY <4>3, <4>5, <3>3, <3>4
        <5> QED BY <4>2, <5>1
      <4> QED BY <4>4, <4>5, <3>1, <3>2
    <3> QED BY <3>1, <3>2, <3>5
  <2>5. \A k \in 1 .. n + 1 : k \in 1 .. n \/ k = n + 1 OBVIOUS
  <2>6. \A k \in 1 .. n : (k \in DOMAIN p <=> k \in DOMAIN q) /\ (k \in DOMAIN p => p[k] = q[k])
    BY <1>2
  <2>7. \A k \in 1 .. n + 1 : (k \in DOMAIN p <=> k \in DOMAIN q) /\ (k \in DOMAIN p => p[k] = q[k])
    BY <2>3, <2>4, <2>5, <2>6, Zenon
  <2> QED BY <2>7
<1>3. \A n \in Nat : n \in I
  <2> HIDE DEF I
  <2> QED BY <1>1, <1>2, NatSet, SMTT(40)
<1>4. \A k \in Nat \ {0} : (k \in DOMAIN p <=> k \in DOMAIN q) /\ (k \in DOMAIN p => p[k] = q[k])
  <2> TAKE k \in Nat \ {0}
  <2>1. k \in I
    <3> HIDE DEF I
    <3> QED BY <1>3
  <2>2. k \in 1 .. k OBVIOUS
  <2> QED BY <2>1, <2>2, Zenon
<1>5. Len(p) = Len(q)
  <2>1. Len(p) + 1 \notin DOMAIN q BY <1>0, <1>4
  <2>2. Len(q) + 1 \notin DOMAIN p BY <1>0, <1>4
  <2>3. Len(q) <= Len(p) BY <2>1, <1>0
  <2>4. Len(p) <= Len(q) BY <2>2, <1>0
  <2> QED BY <2>3, <2>4, <1>0, Antisym
<1>6. \A k \in 1 .. Len(p) : p[k] = q[k] BY <1>0, <1>4
<1> QED BY <1>5, <1>6, SameSeq

\* The UIDs are at least as large as the positions.
LEMMA SortedCount ==
  ASSUME NEW q, \A i \in DOMAIN q : q[i].uid \in Nat \ {0}, NEW n \in Nat, DOMAIN q = 1 .. n, Sorted(q)
  PROVE  \A i \in DOMAIN q : i <= q[i].uid
<1> DEFINE I == {k \in Nat : k \in DOMAIN q => k <= q[k].uid}
<1>1. 0 \in I OBVIOUS
<1>2. ASSUME NEW k \in Nat, k \in I PROVE k + 1 \in I
  <2>1. CASE k \in DOMAIN q /\ k + 1 \in DOMAIN q
    <3>1. q[k].uid < q[k + 1].uid BY <2>1 DEF Sorted
    <3> QED BY <3>1, <2>1, <1>2
  <2>2. CASE k = 0 BY <2>2
  <2> QED BY <2>1, <2>2
<1>3. \A k \in Nat : k \in I
  <2> HIDE DEF I
  <2> QED BY <1>1, <1>2, NatSet
<1> QED BY <1>3

\* delayed_modseq is below the modseqs that it is made of.
LEMMA Delayed ==
  ASSUME NEW map \in Seq(Entry), NEW n \in Nat, \A j \in DOMAIN map : map[j].modseq <= n
  PROVE  delayed(map) \in Nat /\ delayed(map) <= n
<1>1. Len(map) \in Nat OBVIOUS
<1>2. PICK f : /\ f[0] = 0
               /\ \A k \in 1 .. Len(map) : f[k] = lower(f[k - 1], map[k])
               /\ delayed(map) = f[Len(map)]
  BY <1>1, LoweredSteps
<1> DEFINE I == {k \in Nat : k <= Len(map) => f[k] \in Nat /\ f[k] <= n}
<1>3. 0 \in I BY <1>2
<1>4. ASSUME NEW k \in Nat, k \in I PROVE k + 1 \in I
  <2> SUFFICES ASSUME k + 1 <= Len(map) PROVE f[k + 1] \in Nat /\ f[k + 1] <= n OBVIOUS
  <2>1. k + 1 \in 1 .. Len(map) /\ (k + 1) - 1 = k BY <1>1
  <2>2. f[k + 1] = lower(f[k], map[k + 1]) BY <1>2, <2>1
  <2>3. map[k + 1].modseq \in Nat \ {0} /\ map[k + 1].modseq <= n
    <3>1. map[k + 1] \in Entry BY <2>1
    <3> QED BY <3>1, <2>1, SMTT(40) DEF Entry
  <2>4. f[k] \in Nat /\ f[k] <= n BY <1>4, <2>1
  <2> QED BY <2>2, <2>3, <2>4 DEF lower
<1>5. Len(map) \in I
  <2> HIDE DEF I
  <2> QED BY <1>1, <1>3, <1>4, NatSet
<1> QED BY <1>1, <1>2, <1>5

-----------------------------------------------------------------------------
\* The mailbox

\* A record and what has become of it: as it was, or written after all there was in b
Succeeds(b, old, new) ==
  /\ new.uid = old.uid
  /\ (old.expunged => new.expunged)
  /\ \/ new.modseq = old.modseq /\ new.flags = old.flags /\ new.expunged = old.expunged
     \/ new.modseq > b.highestmodseq

\* d is b or a later state of b: what is not there any more was expunged, which
\* deletedmodseq says, and in one generation no record moves.
Evolves(b, d) ==
  /\ b.last_uid <= d.last_uid /\ b.highestmodseq <= d.highestmodseq
  /\ b.deletedmodseq <= d.deletedmodseq /\ b.generation_no <= d.generation_no
  /\ \A r \in DOMAIN d.recs :
       \/ d.recs[r].uid > b.last_uid /\ d.recs[r].modseq > b.highestmodseq
       \/ \E k \in DOMAIN b.recs : Succeeds(b, b.recs[k], d.recs[r])
  /\ \A k \in DOMAIN b.recs :
       \/ \E r \in DOMAIN d.recs : Succeeds(b, b.recs[k], d.recs[r])
       \/ b.recs[k].expunged /\ d.deletedmodseq >= b.recs[k].modseq
  /\ (b.generation_no = d.generation_no =>
        \A k \in DOMAIN b.recs : k \in DOMAIN d.recs /\ d.recs[k].uid = b.recs[k].uid)

LEMMA RecordFields ==
  ASSUME NEW rec \in Record
  PROVE  /\ rec.uid \in 1 .. MaxUid /\ rec.uid \in Nat \ {0} /\ rec.modseq \in Nat \ {0}
         /\ rec.flags \in Flags /\ rec.expunged \in BOOLEAN /\ rec.unlinked \in BOOLEAN
BY IndexAssumption DEF Record

LEMMA BoxFields ==
  ASSUME NEW b \in Mailbox
  PROVE  /\ b.recs \in Seq(Record) /\ b.last_uid \in 0 .. MaxUid /\ b.last_uid \in Nat
         /\ b.highestmodseq \in Nat /\ b.deletedmodseq \in Nat /\ b.generation_no \in Nat
         /\ b.needs_repack \in BOOLEAN /\ b.needs_unlink \in BOOLEAN
         /\ DOMAIN b.recs = 1 .. Len(b.recs) /\ Len(b.recs) \in Nat
         /\ \A r \in DOMAIN b.recs : b.recs[r] \in Record
BY IndexAssumption DEF Mailbox

LEMMA SucceedsSame ==
  ASSUME NEW b, NEW rec
  PROVE  Succeeds(b, rec, rec)
BY DEF Succeeds

LEMMA EvolvesSame ==
  ASSUME NEW b \in Mailbox
  PROVE  Evolves(b, b)
<1>1. /\ b.last_uid <= b.last_uid /\ b.highestmodseq <= b.highestmodseq
      /\ b.deletedmodseq <= b.deletedmodseq /\ b.generation_no <= b.generation_no
  BY BoxFields
<1> QED BY <1>1, SucceedsSame DEF Evolves

LEMMA AppendBox ==
  ASSUME NEW m, NEW b, NEW fs, Box(m, b, fs), b.last_uid < MaxUid
  PROVE  /\ Box(m, append(b), fs \cup {append(b).last_uid})
         /\ Evolves(b, append(b))
<1> DEFINE new == [uid |-> b.last_uid + 1, modseq |-> b.highestmodseq + 1, flags |-> "none",
                   expunged |-> FALSE, unlinked |-> FALSE]
           d == append(b)
<1>0. b \in Mailbox BY DEF Box
<1>1. new \in Record BY <1>0, BoxFields, IndexAssumption DEF Record
<1>2. /\ d.recs = Append(b.recs, new) /\ d.last_uid = b.last_uid + 1
      /\ d.highestmodseq = b.highestmodseq + 1 /\ d.deletedmodseq = b.deletedmodseq
      /\ d.generation_no = b.generation_no /\ d.needs_repack = b.needs_repack
      /\ d.needs_unlink = b.needs_unlink
  BY <1>0 DEF append, Mailbox
<1>3. d \in Mailbox
  <2>1. Append(b.recs, new) \in Seq(Record) BY <1>0, <1>1, BoxFields
  <2>2. b.last_uid + 1 \in 0 .. MaxUid /\ b.highestmodseq + 1 \in Nat
    BY <1>0, BoxFields, IndexAssumption
  <2> HIDE DEF new
  <2> QED BY <1>0, <2>1, <2>2 DEF append, Mailbox, new
<1>4. /\ new.uid = b.last_uid + 1 /\ new.modseq = b.highestmodseq + 1
      /\ ~new.expunged /\ ~new.unlinked
  OBVIOUS
<1> HIDE DEF new, d
<1>5. /\ DOMAIN d.recs = 1 .. Len(b.recs) + 1 /\ d.recs[Len(b.recs) + 1] = new
      /\ \A r \in DOMAIN b.recs : r \in DOMAIN d.recs /\ d.recs[r] = b.recs[r]
  BY <1>0, <1>1, <1>2, BoxFields
<1>6. \A r \in DOMAIN d.recs : r \in DOMAIN b.recs \/ r = Len(b.recs) + 1
  BY <1>0, <1>5, BoxFields
<1>7. Sorted(d.recs)
  <2> SUFFICES ASSUME NEW i \in DOMAIN d.recs, NEW j \in DOMAIN d.recs, i < j
               PROVE  d.recs[i].uid < d.recs[j].uid
    BY DEF Sorted
  <2>1. i \in DOMAIN b.recs BY <1>0, <1>5, BoxFields
  <2>2. CASE j \in DOMAIN b.recs BY <2>1, <2>2, <1>5 DEF Box, Sorted
  <2>3. CASE j = Len(b.recs) + 1
    <3>1. b.recs[i].uid <= b.last_uid BY <2>1 DEF Box, IsRecord
    <3>2. b.recs[i].uid \in Nat /\ b.last_uid \in Nat BY <1>0, <2>1, BoxFields, RecordFields
    <3>3. d.recs[i].uid = b.recs[i].uid /\ d.recs[j].uid = b.last_uid + 1 BY <2>1, <2>3, <1>4, <1>5
    <3> QED BY <3>1, <3>2, <3>3
  <2> QED BY <2>2, <2>3, <1>6
<1> DEFINE gs == fs \cup {d.last_uid}
<1>8. ASSUME NEW r \in DOMAIN d.recs PROVE IsRecord(m, d, gs, d.recs[r])
  <2>1. CASE r \in DOMAIN b.recs
    <3>1. IsRecord(m, b, fs, b.recs[r]) BY <2>1 DEF Box
    <3>2. b.recs[r].uid \in Nat /\ b.recs[r].modseq \in Nat BY <1>0, <2>1, BoxFields, RecordFields
    <3>3. b.recs[r].uid <= b.last_uid + 1 /\ b.recs[r].modseq <= b.highestmodseq + 1
      BY <1>0, <3>1, <3>2, BoxFields DEF IsRecord
    <3> QED BY <2>1, <3>1, <3>3, <1>2, <1>5, Zenon DEF IsRecord
  <2>2. CASE r = Len(b.recs) + 1
    <3>1. new.uid <= d.last_uid /\ new.modseq <= d.highestmodseq /\ new.uid \in gs
      BY <1>0, <1>2, <1>4, BoxFields
    <3> QED BY <2>2, <3>1, <1>4, <1>5 DEF IsRecord
  <2> QED BY <2>1, <2>2, <1>6
<1>9. gs \subseteq 1 .. d.last_uid
  <2>1. b.last_uid \in Nat BY <1>0, BoxFields
  <2>2. fs \subseteq 1 .. b.last_uid BY DEF Box
  <2>3. 1 .. b.last_uid \subseteq 1 .. b.last_uid + 1 /\ b.last_uid + 1 \in 1 .. b.last_uid + 1 BY <2>1
  <2> QED BY <2>2, <2>3, <1>2
<1>10. d.highestmodseq > 0 /\ d.deletedmodseq <= d.highestmodseq BY <1>0, <1>2, BoxFields DEF Box
<1>11. Box(m, d, gs) BY <1>3, <1>7, <1>8, <1>9, <1>10 DEF Box
<1>12. Evolves(b, d)
  <2>1. /\ b.last_uid <= d.last_uid /\ b.highestmodseq <= d.highestmodseq
        /\ b.deletedmodseq <= d.deletedmodseq /\ b.generation_no <= d.generation_no
    BY <1>0, <1>2, BoxFields
  <2>2. new.uid > b.last_uid /\ new.modseq > b.highestmodseq BY <1>0, <1>4, BoxFields
  <2> QED BY <2>1, <2>2, <1>5, <1>6, SucceedsSame, Zenon DEF Evolves
<1> QED BY <1>11, <1>12 DEF d

\* A record that may be rewritten as rec
Rewritable(b, recno, rec) ==
  /\ recno \in DOMAIN b.recs /\ rec \in Record /\ rec.uid = b.recs[recno].uid
  /\ (b.recs[recno].expunged => rec.expunged) /\ ~rec.unlinked

LEMMA WrittenFields ==
  ASSUME NEW b \in Mailbox, NEW rec \in Record
  PROVE  LET new == written(b, rec)
         IN  /\ new \in Record /\ new.uid = rec.uid /\ new.modseq = b.highestmodseq + 1
             /\ new.flags = rec.flags /\ new.expunged = rec.expunged
             /\ (new.unlinked <=> rec.unlinked \/ (rec.expunged /\ mode # "delayed"))
<1>1. b.highestmodseq + 1 \in Nat \ {0} BY BoxFields
<1> QED BY <1>1 DEF written, Record

LEMMA RewriteFields ==
  ASSUME NEW b \in Mailbox, NEW recno \in DOMAIN b.recs, NEW rec \in Record
  PROVE  LET d == rewrite(b, recno, rec)
         IN  /\ d \in Mailbox /\ DOMAIN d.recs = DOMAIN b.recs
             /\ d.recs[recno] = written(b, rec)
             /\ \A r \in DOMAIN b.recs : r # recno => d.recs[r] = b.recs[r]
             /\ d.last_uid = b.last_uid /\ d.highestmodseq = b.highestmodseq + 1
             /\ d.deletedmodseq = b.deletedmodseq /\ d.generation_no = b.generation_no
             /\ (b.needs_repack => d.needs_repack)
<1> DEFINE new == written(b, rec)
           recs == [b.recs EXCEPT ![recno] = new]
<1>1. new \in Record /\ new.unlinked \in BOOLEAN BY WrittenFields, RecordFields
<1> HIDE DEF new
<1>2. /\ b.recs \in Seq(Record) /\ b.highestmodseq + 1 \in Nat
      /\ b.needs_repack \in BOOLEAN /\ b.needs_unlink \in BOOLEAN
  BY BoxFields
<1>3. recs \in Seq(Record) /\ DOMAIN recs = DOMAIN b.recs /\ recs[recno] = new
      /\ \A r \in DOMAIN b.recs : r # recno => recs[r] = b.recs[r]
  BY <1>1, <1>2
<1> DEFINE unl == b.needs_unlink \/ new.unlinked
           rep == b.needs_repack \/ (new.unlinked /\ mode = "immediate")
<1>4. unl \in BOOLEAN /\ rep \in BOOLEAN /\ (b.needs_repack => rep) BY <1>1, <1>2, Zenon
<1>5. rewrite(b, recno, rec)
        = [b EXCEPT !.recs = recs, !.highestmodseq = b.highestmodseq + 1,
                    !.needs_unlink = unl, !.needs_repack = rep]
  BY DEF rewrite, new, Mailbox
<1> HIDE DEF recs, unl, rep
<1> QED BY <1>2, <1>3, <1>4, <1>5 DEF Mailbox, new

LEMMA RewriteBox ==
  ASSUME NEW b, NEW fs, Box(mode, b, fs), NEW recno, NEW rec, Rewritable(b, recno, rec)
  PROVE  /\ Box(mode, rewrite(b, recno, rec), fs)
         /\ Evolves(b, rewrite(b, recno, rec))
<1> DEFINE new == written(b, rec)
           old == b.recs[recno]
           d == rewrite(b, recno, rec)
<1>0. b \in Mailbox /\ recno \in DOMAIN b.recs /\ rec \in Record /\ old \in Record
  BY BoxFields DEF Box, Rewritable
<1>1. /\ new \in Record /\ new.uid = old.uid /\ new.modseq = b.highestmodseq + 1
      /\ new.flags = rec.flags /\ (old.expunged => new.expunged)
      /\ (new.unlinked <=> new.expunged /\ mode # "delayed")
  BY <1>0, WrittenFields DEF Rewritable
<1>2. /\ d \in Mailbox /\ DOMAIN d.recs = DOMAIN b.recs
      /\ d.recs[recno] = new
      /\ \A r \in DOMAIN b.recs : r # recno => d.recs[r] = b.recs[r]
      /\ d.last_uid = b.last_uid /\ d.highestmodseq = b.highestmodseq + 1
      /\ d.deletedmodseq = b.deletedmodseq /\ d.generation_no = b.generation_no
      /\ (b.needs_repack => d.needs_repack)
  BY <1>0, RewriteFields
<1>3. IsRecord(mode, b, fs, old) BY <1>0 DEF Box
<1> HIDE DEF new, d, old
<1>4. \A r \in DOMAIN b.recs : d.recs[r].uid = b.recs[r].uid BY <1>1, <1>2 DEF old
<1>5. Sorted(d.recs) BY <1>2, <1>4 DEF Box, Sorted
<1>6. ASSUME NEW r \in DOMAIN d.recs PROVE IsRecord(mode, d, fs, d.recs[r])
  <2>1. CASE r = recno
    <3>1. new.uid <= d.last_uid BY <1>1, <1>2, <1>3 DEF IsRecord
    <3>2. new.modseq <= d.highestmodseq BY <1>0, <1>1, <1>2, BoxFields
    <3>3. mode = "delayed" \/ ~new.unlinked => new.uid \in fs BY <1>1, <1>3 DEF IsRecord
    <3> QED BY <2>1, <3>1, <3>2, <3>3, <1>1, <1>2, Zenon DEF IsRecord
  <2>2. CASE r # recno
    <3>1. IsRecord(mode, b, fs, b.recs[r]) BY <1>2 DEF Box
    <3>2. b.recs[r].modseq \in Nat /\ b.highestmodseq \in Nat BY <1>0, <1>2, BoxFields, RecordFields
    <3>3. b.recs[r].modseq <= d.highestmodseq BY <3>1, <3>2, <1>2 DEF IsRecord
    <3> QED BY <2>2, <3>1, <3>3, <1>2, Zenon DEF IsRecord
  <2> QED BY <2>1, <2>2
<1>7. d.highestmodseq > 0 /\ d.deletedmodseq <= d.highestmodseq BY <1>0, <1>2, BoxFields DEF Box
<1>8. Box(mode, d, fs) BY <1>2, <1>5, <1>6, <1>7 DEF Box
<1>9. Evolves(b, d)
  <2>1. /\ b.last_uid <= d.last_uid /\ b.highestmodseq <= d.highestmodseq
        /\ b.deletedmodseq <= d.deletedmodseq /\ b.generation_no <= d.generation_no
    BY <1>0, <1>2, BoxFields
  <2>2. new.modseq > b.highestmodseq BY <1>0, <1>1, BoxFields
  <2>3. Succeeds(b, old, new) BY <2>2, <1>1 DEF Succeeds
  <2>4. \A r \in DOMAIN b.recs : Succeeds(b, b.recs[r], d.recs[r])
    BY <2>3, <1>2, SucceedsSame DEF old
  <2> QED BY <2>1, <2>4, <1>2, <1>4, Zenon DEF Evolves
<1> QED BY <1>8, <1>9 DEF d

LEMMA ExpireBox ==
  ASSUME NEW m, NEW b, NEW fs, Box(m, b, fs), NEW mark \in Nat
  PROVE  /\ Box(m, expunge_cleanup(b, mark), fs)
         /\ Evolves(b, expunge_cleanup(b, mark))
<1> DEFINE stale(rec) == rec.unlinked \/ (rec.expunged /\ rec.modseq <= mark)
           d == expunge_cleanup(b, mark)
           recs == [r \in DOMAIN b.recs |-> [b.recs[r] EXCEPT !.unlinked = stale(b.recs[r])]]
           rep == b.needs_repack \/ \E r \in DOMAIN b.recs : stale(b.recs[r])
           unl == b.needs_unlink \/ \E r \in DOMAIN b.recs : stale(b.recs[r]) /\ ~b.recs[r].unlinked
<1>0. b \in Mailbox BY DEF Box
<1>1. d = [b EXCEPT !.recs = recs, !.needs_repack = rep, !.needs_unlink = unl]
  BY <1>0 DEF expunge_cleanup, Mailbox
<1>2. ASSUME NEW r \in DOMAIN b.recs
      PROVE  /\ recs[r] \in Record /\ recs[r].uid = b.recs[r].uid
             /\ recs[r].modseq = b.recs[r].modseq /\ recs[r].flags = b.recs[r].flags
             /\ recs[r].expunged = b.recs[r].expunged
             /\ (recs[r].unlinked <=> stale(b.recs[r]))
  <2>1. b.recs[r] \in Record BY <1>0, BoxFields
  <2>2. stale(b.recs[r]) \in BOOLEAN BY <2>1, RecordFields, Zenon
  <2> HIDE DEF stale
  <2> QED BY <2>1, <2>2 DEF Record
<1>3. recs \in Seq(Record) /\ DOMAIN recs = DOMAIN b.recs
  <2>1. recs \in [1 .. Len(b.recs) -> Record] /\ Len(b.recs) \in Nat
    <3>1. DOMAIN b.recs = 1 .. Len(b.recs) /\ Len(b.recs) \in Nat BY <1>0, BoxFields
    <3>2. \A r \in DOMAIN b.recs : recs[r] \in Record BY <1>2
    <3>3. recs = [r \in DOMAIN b.recs |-> recs[r]] BY Zenon
    <3> HIDE DEF recs
    <3> QED BY <3>1, <3>2, <3>3
  <2> HIDE DEF recs
  <2>2. recs \in Seq(Record) BY <2>1
  <2> QED BY <2>2 DEF recs
<1>4. rep \in BOOLEAN /\ unl \in BOOLEAN
  <2>1. b.needs_repack \in BOOLEAN /\ b.needs_unlink \in BOOLEAN BY <1>0, BoxFields
  <2> QED BY <2>1, Zenon
<1>5. \A r \in DOMAIN b.recs : recs[r].unlinked => rep BY <1>2, Zenon
<1>6. b.needs_repack => rep OBVIOUS
<1> HIDE DEF recs, rep, unl, d
<1>7. /\ d \in Mailbox /\ d.recs = recs /\ d.needs_repack = rep
      /\ d.last_uid = b.last_uid /\ d.highestmodseq = b.highestmodseq
      /\ d.deletedmodseq = b.deletedmodseq /\ d.generation_no = b.generation_no
  BY <1>0, <1>1, <1>3, <1>4 DEF Mailbox
<1>8. Sorted(d.recs) BY <1>2, <1>3, <1>7 DEF Box, Sorted
<1>9. ASSUME NEW r \in DOMAIN d.recs PROVE IsRecord(m, d, fs, d.recs[r])
  <2>1. r \in DOMAIN b.recs BY <1>3, <1>7
  <2>2. IsRecord(m, b, fs, b.recs[r]) BY <2>1 DEF Box
  <2>3. /\ recs[r].uid = b.recs[r].uid /\ recs[r].modseq = b.recs[r].modseq
        /\ recs[r].expunged = b.recs[r].expunged
        /\ (recs[r].unlinked => rep) /\ (b.recs[r].unlinked => recs[r].unlinked)
        /\ (recs[r].unlinked => b.recs[r].unlinked \/ b.recs[r].expunged)
    BY <2>1, <1>2, <1>5, Zenon
  <2> QED BY <2>2, <2>3, <1>7, Zenon DEF IsRecord
<1>10. Box(m, d, fs) BY <1>7, <1>8, <1>9, Zenon DEF Box
<1>11. Evolves(b, d)
  <2>1. /\ b.last_uid <= d.last_uid /\ b.highestmodseq <= d.highestmodseq
        /\ b.deletedmodseq <= d.deletedmodseq /\ b.generation_no <= d.generation_no
    BY <1>0, <1>7, BoxFields
  <2>2. \A r \in DOMAIN b.recs : Succeeds(b, b.recs[r], d.recs[r]) BY <1>2, <1>7, Zenon DEF Succeeds
  <2> QED BY <2>1, <2>2, <1>2, <1>3, <1>7, Zenon DEF Evolves
<1> QED BY <1>10, <1>11 DEF d

\* The file of a record that is not unlinked is not among those that are removed.
LEMMA GoneOnly ==
  ASSUME NEW m, NEW b, NEW fs, Box(m, b, fs), NEW r \in linkedIn(b)
  PROVE  b.recs[r].uid \notin gone(b)
<1>0. b \in Mailbox /\ r \in DOMAIN b.recs /\ ~b.recs[r].unlinked BY DEF Box, linkedIn
<1> SUFFICES ASSUME NEW k \in DOMAIN b.recs, b.recs[k].unlinked, b.recs[k].uid = b.recs[r].uid
             PROVE  FALSE
  BY DEF gone
<1>1. k \in Nat /\ r \in Nat /\ k # r BY <1>0, BoxFields
<1>2. b.recs[k].uid \in Nat /\ b.recs[r].uid \in Nat BY <1>0, BoxFields, RecordFields
<1>3. (k < r => b.recs[k].uid < b.recs[r].uid) /\ (r < k => b.recs[r].uid < b.recs[k].uid)
  BY <1>0 DEF Box, Sorted
<1> QED BY <1>1, <1>2, <1>3

LEMMA UnlinkBox ==
  ASSUME NEW m, NEW b, NEW fs, Box(m, b, fs), ~b.needs_repack
  PROVE  LET d == [b EXCEPT !.needs_unlink = FALSE]
         IN  Box(m, d, fs \ gone(b)) /\ Evolves(b, d)
<1> DEFINE d == [b EXCEPT !.needs_unlink = FALSE]
           gs == fs \ gone(b)
<1>0. b \in Mailbox BY DEF Box
<1>1. /\ d \in Mailbox /\ d.recs = b.recs /\ d.needs_repack = b.needs_repack
      /\ d.last_uid = b.last_uid /\ d.highestmodseq = b.highestmodseq
      /\ d.deletedmodseq = b.deletedmodseq /\ d.generation_no = b.generation_no
  BY <1>0 DEF Mailbox
<1> HIDE DEF d
<1>2. ASSUME NEW r \in DOMAIN b.recs PROVE IsRecord(m, d, gs, b.recs[r])
  <2>1. IsRecord(m, b, fs, b.recs[r]) BY DEF Box
  <2>2. b.recs[r].unlinked => m # "delayed" BY <2>1 DEF IsRecord
  <2>3. ~b.recs[r].unlinked => b.recs[r].uid \notin gone(b) BY GoneOnly DEF linkedIn
  <2> QED BY <2>1, <2>2, <2>3, <1>1, Zenon DEF IsRecord
<1>3. Box(m, d, gs) BY <1>1, <1>2 DEF Box
<1>4. Evolves(b, d) BY <1>0, <1>1, EvolvesSame DEF Evolves, Succeeds
<1> QED BY <1>3, <1>4 DEF d

LEMMA RepackBox ==
  ASSUME NEW m, NEW b, NEW fs, Box(m, b, fs)
  PROVE  /\ Box(m, repack(b), fs \ gone(b)) /\ Evolves(b, repack(b))
         /\ repack(b).generation_no = b.generation_no + 1
<1> DEFINE d == repack(b)
           gs == fs \ gone(b)
           dead == {b.recs[r].modseq : r \in {r \in DOMAIN b.recs : b.recs[r].unlinked}}
           top == Max({b.deletedmodseq} \cup dead)
           recs == pick(b.recs, linkedIn(b))
<1>0. b \in Mailbox BY DEF Box
<1>1. top \in {b.deletedmodseq} \cup dead /\ \A x \in {b.deletedmodseq} \cup dead : x <= top
  <2>1. \A r \in DOMAIN b.recs : b.recs[r].modseq \in 0 .. b.highestmodseq
    <3> TAKE r \in DOMAIN b.recs
    <3>1. b.recs[r].modseq \in Nat BY <1>0, BoxFields, RecordFields
    <3>2. b.recs[r].modseq <= b.highestmodseq BY DEF Box, IsRecord
    <3> QED BY <3>1, <3>2, <1>0, BoxFields
  <2>2. b.deletedmodseq \in 0 .. b.highestmodseq BY <1>0, BoxFields DEF Box
  <2>3. {b.deletedmodseq} \cup dead \subseteq 0 .. b.highestmodseq BY <2>1, <2>2
  <2>4. b.highestmodseq \in Nat BY <1>0, BoxFields
  <2> HIDE DEF dead
  <2> QED BY <2>3, <2>4, MaxBounded
<1>2. top \in Nat /\ b.deletedmodseq <= top /\ top <= b.highestmodseq
  <2>1. \A x \in dead : x \in Nat /\ x <= b.highestmodseq
    <3> SUFFICES ASSUME NEW r \in DOMAIN b.recs
                 PROVE  b.recs[r].modseq \in Nat /\ b.recs[r].modseq <= b.highestmodseq
      OBVIOUS
    <3>1. b.recs[r].modseq \in Nat BY <1>0, BoxFields, RecordFields
    <3> QED BY <3>1 DEF Box, IsRecord
  <2>2. b.deletedmodseq \in Nat /\ b.deletedmodseq <= b.highestmodseq BY <1>0, BoxFields DEF Box
  <2> HIDE DEF top, dead
  <2> QED BY <1>1, <2>1, <2>2
<1>3. \A r \in DOMAIN b.recs : b.recs[r].unlinked => b.recs[r].modseq <= top
  <2> HIDE DEF top
  <2> QED BY <1>1
<1>4. d = [b EXCEPT !.recs = recs, !.deletedmodseq = top, !.generation_no = b.generation_no + 1,
                    !.needs_repack = FALSE, !.needs_unlink = FALSE]
  BY <1>0 DEF repack, Mailbox
<1>5. /\ recs \in Seq(Record) /\ Sorted(recs)
      /\ \A i \in DOMAIN recs : \E k \in linkedIn(b) : recs[i] = b.recs[k]
      /\ \A k \in linkedIn(b) : \E i \in DOMAIN recs : recs[i] = b.recs[k]
  <2>1. b.recs \in Seq(Record) /\ Sorted(b.recs) BY <1>0, BoxFields DEF Box
  <2>2. DOMAIN b.recs \cap linkedIn(b) = linkedIn(b) BY DEF linkedIn
  <2>3. recs \in Seq(Record) /\ Sorted(recs) /\ Chosen(recs, b.recs, linkedIn(b))
    BY <2>1, PickedSorted
  <2> HIDE DEF recs
  <2> QED BY <2>2, <2>3 DEF Chosen
<1> HIDE DEF top, recs, dead
<1>6. /\ d \in Mailbox /\ d.recs = recs /\ d.deletedmodseq = top
      /\ d.last_uid = b.last_uid /\ d.highestmodseq = b.highestmodseq
      /\ d.generation_no = b.generation_no + 1
  <2>1. b.generation_no + 1 \in Nat BY <1>0, BoxFields
  <2> QED BY <1>0, <1>2, <1>4, <1>5, <2>1 DEF Mailbox
<1> HIDE DEF d
<1>7. ASSUME NEW i \in DOMAIN recs PROVE IsRecord(m, d, gs, recs[i])
  <2>1. PICK k \in linkedIn(b) : recs[i] = b.recs[k] BY <1>5
  <2>2. k \in DOMAIN b.recs /\ ~b.recs[k].unlinked BY DEF linkedIn
  <2>3. IsRecord(m, b, fs, b.recs[k]) BY <2>2 DEF Box
  <2>4. b.recs[k].uid \notin gone(b) BY GoneOnly
  <2> QED BY <2>1, <2>2, <2>3, <2>4, <1>6, Zenon DEF IsRecord
<1>8. gs \subseteq 1 .. d.last_uid BY <1>6 DEF Box
<1>9. d.highestmodseq > 0 /\ d.deletedmodseq <= d.highestmodseq BY <1>2, <1>6 DEF Box
<1>10. Box(m, d, gs) BY <1>5, <1>6, <1>7, <1>8, <1>9 DEF Box
<1>11. Evolves(b, d)
  <2>1. /\ b.last_uid <= d.last_uid /\ b.highestmodseq <= d.highestmodseq
        /\ b.deletedmodseq <= d.deletedmodseq /\ b.generation_no <= d.generation_no
        /\ b.generation_no # d.generation_no
    BY <1>0, <1>2, <1>6, BoxFields
  <2>2. \A i \in DOMAIN recs : \E k \in DOMAIN b.recs : Succeeds(b, b.recs[k], recs[i])
    BY <1>5, SucceedsSame, Zenon DEF linkedIn
  <2>3. ASSUME NEW k \in DOMAIN b.recs
        PROVE  \/ \E i \in DOMAIN recs : Succeeds(b, b.recs[k], recs[i])
               \/ b.recs[k].expunged /\ top >= b.recs[k].modseq
    <3>1. CASE b.recs[k].unlinked
      <4>1. b.recs[k].expunged BY <3>1 DEF Box, IsRecord
      <4>2. b.recs[k].modseq <= top BY <3>1, <1>3
      <4>3. b.recs[k].modseq \in Nat BY <1>0, BoxFields, RecordFields
      <4> QED BY <4>1, <4>2, <4>3, <1>2
    <3>2. CASE ~b.recs[k].unlinked BY <3>2, <1>5, SucceedsSame, Zenon DEF linkedIn
    <3> QED BY <3>1, <3>2
  <2> QED BY <2>1, <2>2, <2>3, <1>6, Zenon DEF Evolves
<1> QED BY <1>6, <1>10, <1>11 DEF d

-----------------------------------------------------------------------------
\* Sessions while others change the mailbox

LEMMA StateFields ==
  ASSUME NEW c \in State
  PROVE  /\ c.map \in Seq(Entry) /\ c.oldexists \in Nat /\ c.highestmodseq \in Nat
         /\ c.oldhighestmodseq \in Nat /\ c.delayed_modseq \in Nat /\ c.generation \in Nat
         /\ c.modseq \in Nat /\ c.seq \in SUBSET Nat /\ c.byuid \in BOOLEAN
         /\ c.view \in Seq([uid : 1 .. MaxUid, flags : Flags])
         /\ c.unknown \in BOOLEAN /\ c.late \in BOOLEAN /\ c.misled \in BOOLEAN
         /\ DOMAIN c.map = 1 .. Len(c.map) /\ Len(c.map) \in Nat
         /\ DOMAIN c.view = 1 .. Len(c.view) /\ Len(c.view) \in Nat
         /\ \A j \in DOMAIN c.map : c.map[j] \in Entry
         /\ \A j \in DOMAIN c.view : c.view[j] \in [uid : 1 .. MaxUid, flags : Flags]
<1>1. /\ c.map \in Seq(Entry) /\ c.oldexists \in Nat /\ c.highestmodseq \in Nat
      /\ c.oldhighestmodseq \in Nat /\ c.delayed_modseq \in Nat /\ c.generation \in Nat
      /\ c.modseq \in Nat /\ c.seq \in SUBSET Nat
      /\ c.view \in Seq([uid : 1 .. MaxUid, flags : Flags])
  BY DEF State
<1>2. c.byuid \in BOOLEAN /\ c.unknown \in BOOLEAN /\ c.late \in BOOLEAN /\ c.misled \in BOOLEAN
  BY DEF State
<1> DEFINE K == [uid : 1 .. MaxUid, flags : Flags]
<1> HIDE DEF K
<1>3. ASSUME NEW T, NEW q \in Seq(T)
      PROVE  DOMAIN q = 1 .. Len(q) /\ Len(q) \in Nat /\ \A j \in DOMAIN q : q[j] \in T
  OBVIOUS
<1>4. c.view \in Seq(K) BY <1>1 DEF K
<1>5. DOMAIN c.map = 1 .. Len(c.map) /\ Len(c.map) \in Nat /\ \A j \in DOMAIN c.map : c.map[j] \in Entry
  BY <1>1, <1>3
<1>6. DOMAIN c.view = 1 .. Len(c.view) /\ Len(c.view) \in Nat /\ \A j \in DOMAIN c.view : c.view[j] \in K
  BY <1>3, <1>4
<1> QED BY <1>1, <1>2, <1>5, <1>6 DEF K

LEMMA EntryFields ==
  ASSUME NEW im \in Entry
  PROVE  /\ im.uid \in 1 .. MaxUid /\ im.uid \in Nat \ {0} /\ im.recno \in 0 .. MaxUid
         /\ im.recno \in Nat /\ im.modseq \in Nat \ {0} /\ im.told \in Nat /\ im.flags \in Flags
         /\ im.expunged \in BOOLEAN /\ im.unlinked \in BOOLEAN
BY IndexAssumption DEF Entry

LEMMA KnownFields ==
  ASSUME NEW v \in [uid : 1 .. MaxUid, flags : Flags]
  PROVE  v.uid \in Nat \ {0} /\ v.uid \in 1 .. MaxUid /\ v.flags \in Flags
BY IndexAssumption

\* Where a record of d comes from, for a UID that b has given
LEMMA Descends ==
  ASSUME NEW b, NEW d, Evolves(b, d), NEW r \in DOMAIN d.recs,
         d.recs[r].uid \in Nat, b.last_uid \in Nat, d.recs[r].uid <= b.last_uid
  PROVE  \E k \in DOMAIN b.recs : Succeeds(b, b.recs[k], d.recs[r])
<1>1. ~(d.recs[r].uid > b.last_uid) OBVIOUS
<1> QED BY <1>1 DEF Evolves

LEMMA BoxUids ==
  ASSUME NEW m, NEW b, NEW fs, Box(m, b, fs), NEW r \in DOMAIN b.recs
  PROVE  /\ b.recs[r].uid \in Nat \ {0} /\ b.recs[r].modseq \in Nat \ {0}
         /\ b.recs[r].expunged \in BOOLEAN /\ b.recs[r].uid <= b.last_uid
         /\ b.recs[r].modseq <= b.highestmodseq
         /\ b.last_uid \in Nat /\ b.highestmodseq \in Nat /\ b.deletedmodseq \in Nat
<1>1. b \in Mailbox /\ IsRecord(m, b, fs, b.recs[r]) BY DEF Box
<1> QED BY <1>1, BoxFields, RecordFields DEF IsRecord

LEMMA EntryEvolves ==
  ASSUME NEW m, NEW b, NEW fs, Box(m, b, fs), NEW d, NEW gs, Box(m, d, gs), Evolves(b, d),
         NEW n \in Nat, n <= b.highestmodseq, NEW im \in Entry, IsEntry(b, n, im)
  PROVE  IsEntry(d, n, im)
<1>0. /\ b \in Mailbox /\ d \in Mailbox /\ b.last_uid \in Nat /\ d.last_uid \in Nat
      /\ b.highestmodseq \in Nat /\ b.deletedmodseq \in Nat /\ d.deletedmodseq \in Nat
      /\ im.uid \in Nat /\ im.modseq \in Nat
  BY BoxFields, EntryFields DEF Box
<1>1. im.uid <= b.last_uid /\ im.modseq <= n BY DEF IsEntry
<1>2. b.last_uid <= d.last_uid /\ b.deletedmodseq <= d.deletedmodseq BY DEF Evolves
<1>3. im.uid <= d.last_uid BY <1>0, <1>1, <1>2
<1>4. ASSUME NEW r \in DOMAIN d.recs, d.recs[r].uid = im.uid
      PROVE  \E k \in DOMAIN b.recs : b.recs[k].uid = im.uid /\ Succeeds(b, b.recs[k], d.recs[r])
  BY <1>0, <1>1, <1>4, Descends DEF Succeeds
<1>5. ASSUME im.recno # 0 PROVE Seen(d, n, im)
  <2> SUFFICES ASSUME NEW r \in DOMAIN d.recs, d.recs[r].uid = im.uid, d.recs[r].modseq <= n
               PROVE  /\ d.recs[r].expunged = im.expunged /\ d.recs[r].flags = im.flags
                      /\ d.recs[r].modseq = im.modseq
    BY DEF Seen
  <2>1. PICK k \in DOMAIN b.recs : b.recs[k].uid = im.uid /\ Succeeds(b, b.recs[k], d.recs[r])
    BY <1>4
  <2>2. d.recs[r].modseq \in Nat BY BoxUids
  <2>3. ~(d.recs[r].modseq > b.highestmodseq) BY <2>2, <1>0
  <2>4. /\ d.recs[r].modseq = b.recs[k].modseq /\ d.recs[r].flags = b.recs[k].flags
        /\ d.recs[r].expunged = b.recs[k].expunged
    BY <2>1, <2>3 DEF Succeeds
  <2>5. Seen(b, n, im) BY <1>5 DEF IsEntry
  <2>6. b.recs[k].modseq <= n BY <2>4
  <2> QED BY <2>1, <2>4, <2>5, <2>6, Zenon DEF Seen
<1>6. ASSUME NEW k \in DOMAIN b.recs, b.recs[k].uid = im.uid,
             \A r \in DOMAIN d.recs : d.recs[r].uid # im.uid
      PROVE  b.recs[k].expunged /\ d.deletedmodseq >= b.recs[k].modseq
  BY <1>6 DEF Evolves, Succeeds
<1>7. ASSUME im.expunged PROVE Dead(d, im)
  <2>0. Dead(b, im) BY <1>7 DEF IsEntry
  <2>1. ASSUME NEW r \in DOMAIN d.recs, d.recs[r].uid = im.uid
        PROVE  d.recs[r].expunged /\ d.recs[r].modseq >= im.modseq
    <3>1. PICK k \in DOMAIN b.recs : b.recs[k].uid = im.uid /\ Succeeds(b, b.recs[k], d.recs[r])
      BY <1>4, <2>1
    <3>2. b.recs[k].expunged /\ b.recs[k].modseq >= im.modseq BY <3>1, <2>0 DEF Dead
    <3>3. d.recs[r].modseq \in Nat /\ b.recs[k].modseq \in Nat BY BoxUids
    <3>4. d.recs[r].modseq = b.recs[k].modseq \/ d.recs[r].modseq > b.highestmodseq
      BY <3>1 DEF Succeeds
    <3>5. d.recs[r].modseq >= im.modseq BY <3>2, <3>3, <3>4, <1>0, <1>1
    <3> QED BY <3>1, <3>2, <3>5 DEF Succeeds
  <2>2. ASSUME \A r \in DOMAIN d.recs : d.recs[r].uid # im.uid
        PROVE  d.deletedmodseq >= im.modseq
    <3>1. CASE \A k \in DOMAIN b.recs : b.recs[k].uid # im.uid
      <4>1. b.deletedmodseq >= im.modseq BY <3>1, <2>0 DEF Dead
      <4> QED BY <4>1, <1>0, <1>2
    <3>2. ASSUME NEW k \in DOMAIN b.recs, b.recs[k].uid = im.uid PROVE d.deletedmodseq >= im.modseq
      <4>1. b.recs[k].modseq >= im.modseq BY <3>2, <2>0 DEF Dead
      <4>2. d.deletedmodseq >= b.recs[k].modseq BY <3>2, <2>2, <1>6
      <4>3. b.recs[k].modseq \in Nat BY BoxUids
      <4> QED BY <4>1, <4>2, <4>3, <1>0
    <3> QED BY <3>1, <3>2
  <2> QED BY <2>1, <2>2 DEF Dead
<1>8. ASSUME ~im.expunged PROVE Alive(d, n, im)
  <2> SUFFICES ASSUME \A r \in DOMAIN d.recs : d.recs[r].uid # im.uid PROVE d.deletedmodseq > n
    BY DEF Alive
  <2>1. CASE \A k \in DOMAIN b.recs : b.recs[k].uid # im.uid
    <3>1. b.deletedmodseq > n BY <2>1, <1>8 DEF IsEntry, Alive
    <3> QED BY <3>1, <1>0, <1>2
  <2>2. ASSUME NEW k \in DOMAIN b.recs, b.recs[k].uid = im.uid PROVE d.deletedmodseq > n
    <3>1. b.recs[k].expunged /\ d.deletedmodseq >= b.recs[k].modseq BY <2>2, <1>6
    <3>2. Seen(b, n, im) BY <1>8 DEF IsEntry
    <3>3. ~(b.recs[k].modseq <= n) BY <3>1, <3>2, <2>2, <1>8 DEF Seen
    <3>4. b.recs[k].modseq \in Nat BY BoxUids
    <3> QED BY <3>1, <3>3, <3>4, <1>0
  <2> QED BY <2>1, <2>2
<1> QED BY <1>3, <1>5, <1>7, <1>8, Zenon DEF IsEntry

LEMMA CompleteEvolves ==
  ASSUME NEW m, NEW b, NEW fs, Box(m, b, fs), NEW d, NEW gs, Box(m, d, gs), Evolves(b, d),
         NEW n \in Nat, n <= b.highestmodseq, NEW map \in Seq(Entry),
         map # <<>> => map[Len(map)].uid <= b.last_uid, Complete(b, n, map)
  PROVE  Complete(d, n, map)
<1>0. b.last_uid \in Nat /\ b.highestmodseq \in Nat BY BoxFields DEF Box
<1> SUFFICES ASSUME NEW r \in DOMAIN d.recs, ~d.recs[r].expunged,
                    d.recs[r].modseq <= n \/ (map # <<>> /\ d.recs[r].uid <= map[Len(map)].uid)
             PROVE  \E j \in DOMAIN map : map[j].uid = d.recs[r].uid
  BY DEF Complete
<1>1. d.recs[r].uid \in Nat /\ d.recs[r].modseq \in Nat BY BoxUids
<1>2. map # <<>> => map[Len(map)].uid \in Nat
  <2>1. map # <<>> => Len(map) \in DOMAIN map OBVIOUS
  <2>2. map # <<>> => map[Len(map)] \in Entry BY <2>1
  <2> QED BY <2>2, EntryFields
<1>3. ~(d.recs[r].uid > b.last_uid /\ d.recs[r].modseq > b.highestmodseq) BY <1>0, <1>1, <1>2
<1>4. PICK k \in DOMAIN b.recs : Succeeds(b, b.recs[k], d.recs[r]) BY <1>3 DEF Evolves
<1>5. ~b.recs[k].expunged /\ b.recs[k].uid = d.recs[r].uid BY <1>4 DEF Succeeds
<1>6. d.recs[r].modseq <= n => b.recs[k].modseq <= n BY <1>0, <1>1, <1>4 DEF Succeeds
<1> QED BY <1>5, <1>6, Zenon DEF Complete

LEMMA HasEvolves ==
  ASSUME NEW m, NEW b, NEW fs, Box(m, b, fs), NEW d, NEW gs, Box(m, d, gs), Evolves(b, d),
         NEW n \in Nat, n <= b.highestmodseq, NEW view, Has(b, view, n)
  PROVE  Has(d, view, n)
<1>0. b.last_uid \in Nat /\ b.highestmodseq \in Nat BY BoxFields DEF Box
<1> SUFFICES ASSUME NEW r \in DOMAIN d.recs, ~d.recs[r].expunged, d.recs[r].modseq <= n
             PROVE  \E i \in DOMAIN view :
                      view[i] = [uid |-> d.recs[r].uid, flags |-> d.recs[r].flags]
  BY DEF Has
<1>1. d.recs[r].modseq \in Nat BY BoxUids
<1>2. ~(d.recs[r].modseq > b.highestmodseq) BY <1>0, <1>1
<1>3. PICK k \in DOMAIN b.recs : Succeeds(b, b.recs[k], d.recs[r]) BY <1>2 DEF Evolves
<1>4. /\ d.recs[r].modseq = b.recs[k].modseq /\ d.recs[r].flags = b.recs[k].flags
      /\ d.recs[r].expunged = b.recs[k].expunged /\ d.recs[r].uid = b.recs[k].uid
  BY <1>2, <1>3 DEF Succeeds
<1>5. ~b.recs[k].expunged /\ b.recs[k].modseq <= n BY <1>4
<1>6. PICK i \in DOMAIN view : view[i] = [uid |-> b.recs[k].uid, flags |-> b.recs[k].flags]
  BY <1>5 DEF Has
<1> QED BY <1>4, <1>6

LEMMA ResumableEvolves ==
  ASSUME NEW m, NEW b, NEW fs, Box(m, b, fs), NEW d, NEW gs, Box(m, d, gs), Evolves(b, d),
         NEW n \in Nat, n <= b.highestmodseq,
         NEW view \in Seq([uid : 1 .. MaxUid, flags : Flags]), Resumable(b, view, n)
  PROVE  Resumable(d, view, n)
<1>0. /\ b.last_uid \in Nat /\ b.highestmodseq \in Nat /\ b.deletedmodseq \in Nat
      /\ d.last_uid \in Nat /\ d.deletedmodseq \in Nat
  BY BoxFields DEF Box
<1>1. b.last_uid <= d.last_uid /\ b.deletedmodseq <= d.deletedmodseq BY DEF Evolves
<1>2. ASSUME NEW i \in DOMAIN view PROVE view[i].uid \in Nat /\ view[i].uid <= b.last_uid
  <2>1. view[i].uid \in Nat
    <3> DEFINE K == [uid : 1 .. MaxUid, flags : Flags]
    <3>1. view[i] \in K
      <4> HIDE DEF K
      <4>1. view \in Seq(K) BY DEF K
      <4> QED BY <4>1
    <3> QED BY <3>1, KnownFields
  <2> QED BY <2>1 DEF Resumable
<1>3. Has(d, view, n) BY HasEvolves DEF Resumable
<1>4. ASSUME NEW r \in DOMAIN d.recs, d.recs[r].uid <= b.last_uid
      PROVE  \E k \in DOMAIN b.recs : Succeeds(b, b.recs[k], d.recs[r])
  BY <1>0, <1>4, Descends, BoxUids
<1>5. ASSUME NEW r \in DOMAIN d.recs, NEW k \in DOMAIN view, ~d.recs[r].expunged,
             d.recs[r].uid <= view[k].uid
      PROVE  \E i \in DOMAIN view : view[i].uid = d.recs[r].uid
  <2>1. d.recs[r].uid \in Nat BY BoxUids
  <2>2. d.recs[r].uid <= b.last_uid BY <2>1, <1>0, <1>2, <1>5
  <2>3. PICK j \in DOMAIN b.recs : Succeeds(b, b.recs[j], d.recs[r]) BY <1>4, <2>2
  <2>4. ~b.recs[j].expunged /\ b.recs[j].uid = d.recs[r].uid BY <1>5, <2>3 DEF Succeeds
  <2> QED BY <1>5, <2>4 DEF Resumable
<1>6. ASSUME NEW i \in DOMAIN view
      PROVE  /\ view[i].uid <= d.last_uid
             /\ \A r \in DOMAIN d.recs : d.recs[r].uid = view[i].uid /\ d.recs[r].expunged =>
                  d.recs[r].modseq > n
             /\ (\A r \in DOMAIN d.recs : d.recs[r].uid # view[i].uid) => d.deletedmodseq > n
  <2>1. view[i].uid <= d.last_uid BY <1>0, <1>1, <1>2
  <2>2. ASSUME NEW r \in DOMAIN d.recs, d.recs[r].uid = view[i].uid, d.recs[r].expunged
        PROVE  d.recs[r].modseq > n
    <3>1. PICK j \in DOMAIN b.recs : Succeeds(b, b.recs[j], d.recs[r]) BY <1>2, <1>4, <2>2
    <3>2. d.recs[r].modseq \in Nat BY BoxUids
    <3>3. CASE d.recs[r].modseq > b.highestmodseq BY <3>2, <3>3, <1>0
    <3>4. CASE d.recs[r].modseq = b.recs[j].modseq /\ d.recs[r].expunged = b.recs[j].expunged
      <4>1. b.recs[j].uid = view[i].uid /\ b.recs[j].expunged BY <3>1, <3>4, <2>2 DEF Succeeds
      <4>2. b.recs[j].modseq > n BY <4>1 DEF Resumable
      <4> QED BY <3>4, <4>2
    <3> QED BY <3>1, <3>3, <3>4 DEF Succeeds
  <2>3. ASSUME \A r \in DOMAIN d.recs : d.recs[r].uid # view[i].uid PROVE d.deletedmodseq > n
    <3>1. CASE \A k \in DOMAIN b.recs : b.recs[k].uid # view[i].uid
      <4>1. b.deletedmodseq > n BY <3>1 DEF Resumable
      <4> QED BY <4>1, <1>0, <1>1
    <3>2. ASSUME NEW k \in DOMAIN b.recs, b.recs[k].uid = view[i].uid PROVE d.deletedmodseq > n
      <4>1. b.recs[k].expunged /\ d.deletedmodseq >= b.recs[k].modseq
        BY <3>2, <2>3 DEF Evolves, Succeeds
      <4>2. b.recs[k].modseq > n BY <3>2, <4>1 DEF Resumable
      <4>3. b.recs[k].modseq \in Nat BY BoxUids
      <4> QED BY <4>1, <4>2, <4>3, <1>0
    <3> QED BY <3>1, <3>2
  <2> QED BY <2>1, <2>2, <2>3
<1>7. Sorted(view) BY DEF Resumable
<1> QED BY <1>3, <1>5, <1>6, <1>7, Zenon DEF Resumable

\* A session keeps its invariant when the mailbox changes, if nothing is removed under
\* a reader.
LEMMA SessEvolves ==
  ASSUME NEW m, NEW b, NEW fs, Box(m, b, fs), NEW d, NEW gs, Box(m, d, gs), Evolves(b, d),
         NEW c, Sess(m, b, fs, c),
         c.pc \in {"fetch", "copy"} => fs \subseteq gs /\ d.generation_no = b.generation_no
  PROVE  Sess(m, d, gs, c)
<1>0. c \in State /\ b \in Mailbox /\ d \in Mailbox BY DEF Sess, Box
<1>1. /\ b.highestmodseq \in Nat /\ b.generation_no \in Nat /\ d.highestmodseq \in Nat
      /\ d.generation_no \in Nat /\ c.highestmodseq \in Nat /\ c.generation \in Nat /\ c.modseq \in Nat
      /\ c.map \in Seq(Entry) /\ \A j \in DOMAIN c.map : c.map[j] \in Entry
      /\ DOMAIN c.map = 1 .. Len(c.map) /\ Len(c.map) \in Nat
  BY <1>0, BoxFields, StateFields
<1>2. b.highestmodseq <= d.highestmodseq /\ b.generation_no <= d.generation_no BY DEF Evolves
<1>3. ASSUME c.pc = "off" PROVE Closed(d, c)
  <2>1. Closed(b, c) BY <1>3 DEF Sess
  <2>2. c.modseq <= d.highestmodseq BY <2>1, <1>1, <1>2 DEF Closed
  <2>3. ASSUME Resumable(b, c.view, c.modseq) PROVE Resumable(d, c.view, c.modseq)
    BY <2>1, <2>3, <1>0, <1>1, StateFields, ResumableEvolves DEF Closed
  <2> QED BY <2>1, <2>2, <2>3 DEF Closed
<1>4. ASSUME c.pc # "off" PROVE Opened(m, d, gs, c)
  <2>0. Opened(m, b, fs, c) BY <1>4 DEF Sess
  <2>1. Core(b, c) /\ MapInv(b, c) BY <2>0 DEF Opened, Core
  <2>2. c.highestmodseq <= b.highestmodseq /\ c.generation <= b.generation_no
        /\ c.modseq <= c.highestmodseq
    BY <2>1 DEF MapInv
  <2>3. c.highestmodseq <= d.highestmodseq /\ c.generation <= d.generation_no
        /\ c.modseq <= b.highestmodseq
    BY <2>2, <1>1, <1>2
  <2>4. \A j \in DOMAIN c.map : IsEntry(d, c.highestmodseq, c.map[j])
    BY <2>1, <2>2, <1>1, EntryEvolves DEF MapInv
  <2>5. ASSUME c.generation = d.generation_no, NEW j \in DOMAIN c.map PROVE Located(d, c.map[j])
    <3>1. c.generation = b.generation_no /\ b.generation_no = d.generation_no
      BY <2>2, <2>5, <1>1, <1>2
    <3>2. Located(b, c.map[j]) BY <3>1, <2>1 DEF MapInv
    <3> QED BY <3>1, <3>2 DEF Located, Evolves
  <2>6. Complete(d, c.highestmodseq, c.map)
    <3>1. c.map # <<>> => c.map[Len(c.map)].uid <= b.last_uid
      <4>1. c.map # <<>> => Len(c.map) \in DOMAIN c.map BY <1>1
      <4> QED BY <4>1, <2>1 DEF MapInv, IsEntry
    <3> QED BY <3>1, <2>1, <2>2, <1>1, CompleteEvolves DEF MapInv
  <2>7. Core(d, c) BY <2>1, <2>3, <2>4, <2>5, <2>6 DEF Core, MapInv
  <2>8. ASSUME Reading(b, fs, c), c.pc \in {"fetch", "copy"} PROVE Reading(d, gs, c)
    BY <2>8 DEF Reading
  <2>9. ASSUME Has(b, c.view, c.modseq) PROVE Has(d, c.view, c.modseq)
    BY <2>3, <2>9, <1>1, HasEvolves
  <2> QED BY <2>0, <2>7, <2>8, <2>9 DEF Opened
<1> QED BY <1>0, <1>3, <1>4 DEF Sess

-----------------------------------------------------------------------------
\* index_refresh_locked

LEMMA UidUnique ==
  ASSUME NEW m, NEW b, NEW fs, Box(m, b, fs), NEW r \in DOMAIN b.recs, NEW k \in DOMAIN b.recs,
         b.recs[r].uid = b.recs[k].uid
  PROVE  r = k
<1>0. b \in Mailbox BY DEF Box
<1>1. k \in Nat /\ r \in Nat BY <1>0, BoxFields
<1>2. b.recs[k].uid \in Nat /\ b.recs[r].uid \in Nat BY BoxUids
<1>3. (k < r => b.recs[k].uid < b.recs[r].uid) /\ (r < k => b.recs[r].uid < b.recs[k].uid)
  BY DEF Box, Sorted
<1> QED BY <1>1, <1>2, <1>3

\* What a refresh makes of an entry of a session that has seen the mailbox up to n
Updates(n, im, u) ==
  /\ u.uid = im.uid /\ u.told = im.told /\ u.modseq >= im.modseq
  /\ (im.expunged => u.expunged)
  /\ (u.expunged /\ ~im.expunged => u.modseq > n)
  /\ (~u.expunged /\ u.modseq <= u.told => im.modseq <= im.told /\ u.flags = im.flags)
  /\ (~u.expunged /\ n = mbox.highestmodseq => u.modseq = im.modseq)

\* An entry after a refresh
Fresh(u) ==
  /\ u \in Entry /\ IsEntry(mbox, mbox.highestmodseq, u) /\ Located(mbox, u)
  /\ (u.recno # 0 => ~u.unlinked /\ (mode # "delayed" => ~u.expunged))

\* A record that is found; the entry may be new.
LEMMA FoundEntry ==
  ASSUME Box(mode, mbox, files), NEW r \in linked,
         NEW im \in [uid : 1 .. MaxUid, recno : 0 .. MaxUid, modseq : Nat, told : Nat, flags : Flags,
                     expunged : BOOLEAN, unlinked : BOOLEAN],
         im.uid = mbox.recs[r].uid, im.told <= mbox.recs[r].modseq
  PROVE  LET u == found(im, r)
         IN  /\ Fresh(u) /\ u.uid = im.uid /\ u.told = im.told /\ u.recno = r
             /\ u.modseq = mbox.recs[r].modseq /\ u.flags = mbox.recs[r].flags
             /\ u.expunged = mbox.recs[r].expunged
<1> DEFINE u == found(im, r)
           rec == mbox.recs[r]
<1>0. r \in DOMAIN mbox.recs /\ ~rec.unlinked BY DEF linked, linkedIn
<1>1. mbox \in Mailbox BY DEF Box
<1>2. rec \in Record /\ IsRecord(mode, mbox, files, rec) BY <1>0, <1>1, BoxFields DEF Box
<1>3. r \in 1 .. MaxUid
  <2>1. \A i \in DOMAIN mbox.recs : mbox.recs[i].uid \in Nat \ {0} BY BoxUids
  <2>2. \A i \in DOMAIN mbox.recs : i <= mbox.recs[i].uid
    BY <2>1, <1>1, BoxFields, SortedCount DEF Box
  <2>3. r <= rec.uid BY <2>2, <1>0
  <2>4. r \in Nat \ {0} BY <1>0, <1>1, BoxFields
  <2> QED BY <2>3, <2>4, <1>2, RecordFields, IndexAssumption
<1>4. r \in 0 .. MaxUid /\ r # 0 BY <1>3
<1>5. /\ u \in Entry /\ u.uid = im.uid /\ u.told = im.told /\ u.recno = r
      /\ u.modseq = rec.modseq /\ u.flags = rec.flags
      /\ u.expunged = rec.expunged /\ u.unlinked = FALSE
  <2>1. /\ rec.modseq \in Nat \ {0} /\ rec.flags \in Flags /\ rec.expunged \in BOOLEAN
    BY <1>2, RecordFields
  <2> QED BY <1>4, <2>1 DEF found, Entry
<1> HIDE DEF u
<1>6. \A k \in DOMAIN mbox.recs : mbox.recs[k].uid = u.uid => k = r
  BY <1>0, <1>5, UidUnique
<1>7. Seen(mbox, mbox.highestmodseq, u) BY <1>5, <1>6, Zenon DEF Seen
<1>8. u.expunged => Dead(mbox, u)
  <2>1. rec.modseq >= rec.modseq BY <1>2, RecordFields
  <2> QED BY <2>1, <1>0, <1>5, <1>6 DEF Dead
<1>9. Alive(mbox, mbox.highestmodseq, u) BY <1>0, <1>5 DEF Alive
<1>10. u.uid <= mbox.last_uid /\ u.modseq <= mbox.highestmodseq BY <1>2, <1>5 DEF IsRecord
<1>11. IsEntry(mbox, mbox.highestmodseq, u) BY <1>4, <1>5, <1>7, <1>8, <1>9, <1>10 DEF IsEntry
<1>12. Located(mbox, u) BY <1>0, <1>5 DEF Located
<1>13. mode # "delayed" => ~u.expunged BY <1>0, <1>2, <1>5 DEF IsRecord
<1> QED BY <1>5, <1>11, <1>12, <1>13 DEF Fresh, u

\* An entry of the map: found again, or not.
LEMMA UpdatedEntry ==
  ASSUME Box(mode, mbox, files), NEW c \in State, c.highestmodseq <= mbox.highestmodseq,
         NEW i \in DOMAIN c.map, IsEntry(mbox, c.highestmodseq, c.map[i])
  PROVE  Fresh(update(c)[i]) /\ Updates(c.highestmodseq, c.map[i], update(c)[i])
<1> DEFINE im == c.map[i]
           n == c.highestmodseq
           N == mbox.highestmodseq
           u == update(c)[i]
           at == {r \in linked : mbox.recs[r].uid = im.uid}
<1>0. /\ im \in Entry /\ n \in Nat /\ N \in Nat /\ mbox \in Mailbox /\ mbox.deletedmodseq \in Nat
      /\ mbox.deletedmodseq <= N
  BY StateFields, BoxFields DEF Box
<1>1. u = IF at = {} THEN missing(c, im) ELSE found(im, CHOOSE r \in at : TRUE) BY DEF update
<1>2. /\ im.modseq \in Nat \ {0} /\ im.told \in Nat /\ im.modseq <= n /\ im.told <= im.modseq
      /\ im.uid <= mbox.last_uid
  BY <1>0, EntryFields DEF IsEntry
<1> HIDE DEF im, u
<1>e. IsEntry(mbox, n, im) BY DEF im
<1>3. ASSUME NEW r \in DOMAIN mbox.recs, mbox.recs[r].uid = im.uid
      PROVE  /\ mbox.recs[r].modseq \in Nat /\ mbox.recs[r].modseq >= im.modseq
             /\ (im.expunged => mbox.recs[r].expunged)
             /\ (~im.expunged => \/ mbox.recs[r].modseq > n
                                 \/ /\ mbox.recs[r].modseq = im.modseq
                                    /\ mbox.recs[r].flags = im.flags
                                    /\ mbox.recs[r].expunged = im.expunged)
  <2>1. mbox.recs[r].modseq \in Nat BY BoxUids
  <2>2. CASE im.expunged BY <2>1, <2>2, <1>3, <1>e DEF IsEntry, Dead
  <2>3. CASE ~im.expunged
    <3>1. Seen(mbox, n, im) BY <2>3, <1>e DEF IsEntry
    <3>2. CASE mbox.recs[r].modseq <= n
      <4>1. /\ mbox.recs[r].modseq = im.modseq /\ mbox.recs[r].flags = im.flags
            /\ mbox.recs[r].expunged = im.expunged
        BY <3>1, <3>2, <1>3 DEF Seen
      <4> QED BY <4>1, <2>1, <2>3
    <3>3. CASE mbox.recs[r].modseq > n BY <3>3, <2>1, <2>3, <1>0, <1>2
    <3> QED BY <3>2, <3>3, <2>1, <1>0
  <2> QED BY <2>2, <2>3
<1>4. CASE at = {}
  <2>1. u = missing(c, im) BY <1>1, <1>4
  <2>2. \A r \in DOMAIN mbox.recs : mbox.recs[r].uid = im.uid => mbox.recs[r].unlinked
    BY <1>4 DEF linked, linkedIn
  <2>3. \A r \in DOMAIN mbox.recs : mbox.recs[r].uid = im.uid => mbox.recs[r].expunged
    BY <2>2 DEF Box, IsRecord
  <2>4. ASSUME ~im.expunged, NEW r \in DOMAIN mbox.recs, mbox.recs[r].uid = im.uid
        PROVE  mbox.recs[r].modseq > n
    BY <2>3, <2>4, <1>3
  <2>5. ASSUME ~im.expunged, \A r \in DOMAIN mbox.recs : mbox.recs[r].uid # im.uid
        PROVE  mbox.deletedmodseq > n
    BY <2>5, <1>e DEF IsEntry, Alive
  <2>6. ~im.expunged => n < N
    <3> SUFFICES ASSUME ~im.expunged PROVE n < N OBVIOUS
    <3>1. CASE \A r \in DOMAIN mbox.recs : mbox.recs[r].uid # im.uid BY <3>1, <2>5, <1>0
    <3>2. ASSUME NEW r \in DOMAIN mbox.recs, mbox.recs[r].uid = im.uid PROVE n < N
      <4>1. mbox.recs[r].modseq > n BY <2>4, <3>2
      <4>2. mbox.recs[r].modseq <= N /\ mbox.recs[r].modseq \in Nat BY BoxUids
      <4> QED BY <4>1, <4>2, <1>0
    <3> QED BY <3>1, <3>2
  <2>7. /\ u.uid = im.uid /\ u.told = im.told /\ u.recno = 0 /\ u.expunged = TRUE
        /\ u.unlinked = TRUE /\ u.flags = im.flags
        /\ u.modseq = (IF im.expunged THEN im.modseq ELSE n + 1)
    BY <2>1, <1>0 DEF missing, Entry
  <2>8. u \in Entry
    <3>1. (IF im.expunged THEN im.modseq ELSE n + 1) \in Nat \ {0} BY <1>0, <1>2
    <3>2. 0 \in 0 .. MaxUid BY IndexAssumption
    <3> QED BY <2>1, <3>1, <3>2, <1>0 DEF missing, Entry
  <2>9. u.modseq \in Nat /\ im.modseq <= u.modseq /\ u.modseq <= N /\ u.told <= u.modseq
        /\ (~im.expunged => u.modseq > n)
    BY <2>6, <2>7, <1>0, <1>2
  <2>10. Dead(mbox, u)
    <3>1. ASSUME NEW r \in DOMAIN mbox.recs, mbox.recs[r].uid = u.uid
          PROVE  mbox.recs[r].expunged /\ mbox.recs[r].modseq >= u.modseq
      <4>1. mbox.recs[r].uid = im.uid BY <3>1, <2>7
      <4>2. mbox.recs[r].modseq \in Nat /\ mbox.recs[r].modseq >= im.modseq BY <4>1, <1>3
      <4>3. ~im.expunged => mbox.recs[r].modseq > n BY <4>1, <2>4
      <4> QED BY <4>1, <4>2, <4>3, <2>3, <2>7, <1>0
    <3>2. ASSUME \A r \in DOMAIN mbox.recs : mbox.recs[r].uid # u.uid
          PROVE  mbox.deletedmodseq >= u.modseq
      <4>1. \A r \in DOMAIN mbox.recs : mbox.recs[r].uid # im.uid BY <3>2, <2>7
      <4>2. im.expunged => mbox.deletedmodseq >= im.modseq BY <4>1, <1>e DEF IsEntry, Dead
      <4>3. ~im.expunged => mbox.deletedmodseq > n BY <4>1, <2>5
      <4> QED BY <4>2, <4>3, <2>7, <1>0
    <3> QED BY <3>1, <3>2 DEF Dead
  <2>11. IsEntry(mbox, N, u) BY <2>7, <2>9, <2>10, <1>2 DEF IsEntry
  <2>12. Fresh(u) BY <2>7, <2>8, <2>11 DEF Fresh, Located
  <2>13. u.modseq >= im.modseq BY <2>9, <1>2
  <2>14. Updates(n, im, u) BY <2>7, <2>9, <2>13 DEF Updates
  <2> QED BY <2>12, <2>14 DEF im, u
<1>5. CASE at # {}
  <2>1. PICK r \in at : u = found(im, r)
    <3> HIDE DEF at
    <3> QED BY <1>1, <1>5
  <2>2. r \in linked /\ r \in DOMAIN mbox.recs /\ mbox.recs[r].uid = im.uid BY DEF linked, linkedIn
  <2>3. mbox.recs[r].modseq \in Nat /\ mbox.recs[r].modseq >= im.modseq BY <2>2, <1>3
  <2>4. im \in [uid : 1 .. MaxUid, recno : 0 .. MaxUid, modseq : Nat, told : Nat, flags : Flags,
                expunged : BOOLEAN, unlinked : BOOLEAN]
    BY <1>0 DEF Entry
  <2>5. im.told <= mbox.recs[r].modseq BY <2>3, <1>2
  <2>6. /\ Fresh(u) /\ u.uid = im.uid /\ u.told = im.told
        /\ u.modseq = mbox.recs[r].modseq /\ u.flags = mbox.recs[r].flags
        /\ u.expunged = mbox.recs[r].expunged
    BY <2>1, <2>2, <2>4, <2>5, FoundEntry
  <2>7. im.expunged => u.expunged BY <2>2, <2>6, <1>3
  <2>8. ASSUME u.expunged, ~im.expunged PROVE u.modseq > n BY <2>2, <2>6, <2>8, <1>3
  <2>9. ASSUME ~u.expunged, u.modseq <= u.told PROVE im.modseq <= im.told /\ u.flags = im.flags
    <3>1. ~im.expunged BY <2>7, <2>9
    <3>2. ~(mbox.recs[r].modseq > n) BY <2>3, <2>6, <2>9, <1>0, <1>2
    <3>3. mbox.recs[r].modseq = im.modseq /\ mbox.recs[r].flags = im.flags
      BY <2>2, <3>1, <3>2, <1>3
    <3> QED BY <3>3, <2>6, <2>9
  <2>10. ASSUME ~u.expunged, n = N PROVE u.modseq = im.modseq
    <3>1. ~im.expunged BY <2>7, <2>10
    <3>2. mbox.recs[r].modseq <= N BY <2>2, BoxUids
    <3>3. ~(mbox.recs[r].modseq > n) BY <3>2, <2>3, <2>10, <1>0
    <3> QED BY <2>2, <2>6, <3>1, <3>3, <1>3
  <2>11. Updates(n, im, u) BY <2>3, <2>6, <2>7, <2>8, <2>9, <2>10 DEF Updates
  <2> QED BY <2>6, <2>11 DEF im, u
<1> QED BY <1>4, <1>5


LEMMA Joined ==
  ASSUME NEW T, NEW p \in Seq(T), NEW q \in Seq(T)
  PROVE  /\ p \o q \in Seq(T) /\ Len(p \o q) = Len(p) + Len(q)
         /\ DOMAIN (p \o q) = 1 .. Len(p) + Len(q)
         /\ \A i \in DOMAIN p : i \in DOMAIN (p \o q) /\ (p \o q)[i] = p[i]
         /\ \A i \in DOMAIN q : Len(p) + i \in DOMAIN (p \o q) /\ (p \o q)[Len(p) + i] = q[i]
         /\ \A i \in DOMAIN (p \o q) : i \notin DOMAIN p =>
              i - Len(p) \in DOMAIN q /\ (p \o q)[i] = q[i - Len(p)]
OBVIOUS

LEMMA IsSeq ==
  ASSUME NEW T, NEW n \in Nat, NEW f, f = [j \in 1 .. n |-> f[j]], \A j \in 1 .. n : f[j] \in T
  PROVE  f \in Seq(T) /\ Len(f) = n /\ DOMAIN f = 1 .. n
OBVIOUS

LastUid(map) == IF map = <<>> THEN 0 ELSE map[Len(map)].uid

\* An entry of a message after the one with the UID last
IsNew(last, u) == Fresh(u) /\ u.uid > last /\ ~u.expunged /\ u.told = u.modseq /\ u.recno # 0

HasNew(last, q) == \A r \in linked : mbox.recs[r].uid > last /\ ~mbox.recs[r].expunged =>
  \E i \in DOMAIN q : q[i].uid = mbox.recs[r].uid

LEMMA FreshEntries ==
  ASSUME Box(mode, mbox, files), NEW c \in State
  PROVE  /\ fresh(c) \in Seq(Entry) /\ Sorted(fresh(c))
         /\ \A i \in DOMAIN fresh(c) : IsNew(LastUid(c.map), fresh(c)[i])
         /\ HasNew(LastUid(c.map), fresh(c))
<1> DEFINE last == LastUid(c.map)
           new == {r \in linked : mbox.recs[r].uid > last /\ ~mbox.recs[r].expunged}
           base(r) == [uid |-> mbox.recs[r].uid, told |-> mbox.recs[r].modseq, recno |-> 0,
                       modseq |-> 0, flags |-> "none", expunged |-> FALSE, unlinked |-> FALSE]
           all == [r \in DOMAIN mbox.recs |-> r]
           at == pick(all, new)
           q == [i \in DOMAIN at |-> found(base(at[i]), at[i])]
<1>1. fresh(c) = q BY DEF fresh, LastUid, Last
<1>2. mbox \in Mailbox BY DEF Box
<1>3. all \in Seq(Nat) /\ Len(all) = Len(mbox.recs) /\ DOMAIN mbox.recs = 1 .. Len(mbox.recs)
      /\ \A r \in DOMAIN mbox.recs : all[r] = r
  BY <1>2, BoxFields
<1> HIDE DEF all
<1>4. at \in Seq(Nat) BY <1>3, Picked
<1>5. PICK g \in Seq(Nat) : Picks(at, g, all, new, Len(all)) BY <1>3, Picked
<1> HIDE DEF at
<1>6. DOMAIN at = 1 .. Len(at) /\ Len(at) \in Nat BY <1>4
<1>7. ASSUME NEW i \in DOMAIN at PROVE at[i] = g[i] /\ at[i] \in new /\ at[i] \in DOMAIN mbox.recs
  <2>1. g[i] \in 1 .. Len(all) /\ g[i] \in new /\ at[i] = all[g[i]] BY <1>5, <1>6 DEF Picks
  <2> QED BY <2>1, <1>3
<1>8. ASSUME NEW i \in DOMAIN at
      PROVE  IsNew(last, q[i]) /\ q[i].uid = mbox.recs[at[i]].uid
  <2> DEFINE r == at[i]
  <2>1. r \in linked /\ mbox.recs[r].uid > last /\ ~mbox.recs[r].expunged /\ r \in DOMAIN mbox.recs
    BY <1>7
  <2> HIDE DEF r
  <2>2. mbox.recs[r].uid \in 1 .. MaxUid /\ mbox.recs[r].modseq \in Nat BY <2>1, <1>2, BoxFields, RecordFields
  <2>3. base(r) \in [uid : 1 .. MaxUid, recno : 0 .. MaxUid, modseq : Nat, told : Nat, flags : Flags,
                     expunged : BOOLEAN, unlinked : BOOLEAN]
    <3>1. 0 \in 0 .. MaxUid /\ "none" \in Flags BY IndexAssumption
    <3> QED BY <2>2, <3>1
  <2>4. base(r).uid = mbox.recs[r].uid /\ base(r).told = mbox.recs[r].modseq
        /\ base(r).told <= mbox.recs[r].modseq
    BY <2>2
  <2>5. q[i] = found(base(r), r) BY DEF r
  <2> HIDE DEF base, q
  <2>6. /\ Fresh(q[i]) /\ q[i].uid = base(r).uid /\ q[i].told = base(r).told /\ q[i].recno = r
        /\ q[i].modseq = mbox.recs[r].modseq /\ q[i].expunged = mbox.recs[r].expunged
    BY <2>1, <2>3, <2>4, <2>5, FoundEntry
  <2>7. r # 0 BY <2>1, <1>3
  <2> QED BY <2>1, <2>4, <2>6, <2>7 DEF IsNew, r
<1>9. q \in Seq(Entry) /\ DOMAIN q = DOMAIN at
  <2>1. DOMAIN q = DOMAIN at OBVIOUS
  <2>2. \A i \in DOMAIN at : q[i] \in Entry BY <1>8 DEF IsNew, Fresh
  <2>3. q = [i \in 1 .. Len(at) |-> q[i]] BY <1>6
  <2> HIDE DEF q
  <2> QED BY <2>1, <2>2, <2>3, <1>6
<1> HIDE DEF q
<1>10. Sorted(q)
  <2> SUFFICES ASSUME NEW i \in DOMAIN q, NEW j \in DOMAIN q, i < j PROVE q[i].uid < q[j].uid
    BY DEF Sorted
  <2>1. i \in 1 .. Len(at) /\ j \in 1 .. Len(at) BY <1>6, <1>9
  <2>2. g[i] < g[j] BY <2>1, <1>5 DEF Picks
  <2>3. at[i] < at[j] /\ at[i] \in DOMAIN mbox.recs /\ at[j] \in DOMAIN mbox.recs BY <2>2, <1>7, <1>9
  <2>4. mbox.recs[at[i]].uid < mbox.recs[at[j]].uid BY <2>3 DEF Box, Sorted
  <2> QED BY <2>4, <1>8, <1>9
<1>11. HasNew(last, q)
  <2> SUFFICES ASSUME NEW r \in linked, mbox.recs[r].uid > last, ~mbox.recs[r].expunged
               PROVE  \E i \in DOMAIN q : q[i].uid = mbox.recs[r].uid
    BY DEF HasNew
  <2>1. r \in new /\ r \in 1 .. Len(all) BY <1>3 DEF linked, linkedIn
  <2>2. PICK i \in 1 .. Len(at) : g[i] = r BY <2>1, <1>5 DEF Picks
  <2>3. i \in DOMAIN at /\ at[i] = r BY <2>2, <1>6, <1>7
  <2> QED BY <2>3, <1>8, <1>9
<1> QED BY <1>1, <1>8, <1>9, <1>10, <1>11

\* What a refresh needs of a session, ...
Refreshable(c) ==
  /\ c \in State /\ c.highestmodseq <= mbox.highestmodseq /\ Sorted(c.map)
  /\ \A j \in DOMAIN c.map : IsEntry(mbox, c.highestmodseq, c.map[j])
  /\ Complete(mbox, c.highestmodseq, c.map)

\* ... what the lock and the refresh leave alone, ...
SameClient(c, d) ==
  /\ d.pc = c.pc /\ d.last = c.last /\ d.capa = c.capa /\ d.seq = c.seq /\ d.byuid = c.byuid
  /\ d.view = c.view /\ d.modseq = c.modseq /\ d.unknown = c.unknown /\ d.late = c.late

\* ... and what the refresh makes of the map.
Refreshed(c, d) ==
  /\ Len(d.map) >= Len(c.map) /\ Sorted(d.map)
  /\ \A j \in DOMAIN d.map : Fresh(d.map[j])
  /\ \A j \in DOMAIN c.map : Updates(c.highestmodseq, c.map[j], d.map[j])
  /\ \A j \in DOMAIN d.map : j \notin DOMAIN c.map =>
       ~d.map[j].expunged /\ d.map[j].told = d.map[j].modseq
  /\ Complete(mbox, mbox.highestmodseq, d.map)

LEMMA RefreshFields ==
  ASSUME Box(mode, mbox, files), NEW c, Refreshable(c)
  PROVE  LET d == index_refresh_locked(c)
         IN  /\ d \in State /\ SameClient(c, d)
             /\ d.highestmodseq = mbox.highestmodseq /\ d.oldhighestmodseq = c.highestmodseq
             /\ d.generation = mbox.generation_no /\ d.oldexists = Len(c.map)
             /\ d.delayed_modseq <= mbox.highestmodseq
             /\ (d.misled <=> c.misled \/ forgotten(c))
             /\ Refreshed(c, d)
<1> DEFINE d == index_refresh_locked(c)
           p == update(c)
           q == fresh(c)
           map == p \o q
           N == mbox.highestmodseq
           last == LastUid(c.map)
<1>0. c \in State /\ mbox \in Mailbox BY DEF Refreshable, Box
<1>1. /\ c.map \in Seq(Entry) /\ DOMAIN c.map = 1 .. Len(c.map) /\ Len(c.map) \in Nat
      /\ N \in Nat /\ mbox.generation_no \in Nat /\ c.highestmodseq \in Nat /\ mbox.last_uid \in Nat
  BY <1>0, StateFields, BoxFields
<1>2. ASSUME NEW j \in DOMAIN c.map
      PROVE  Fresh(p[j]) /\ Updates(c.highestmodseq, c.map[j], p[j]) /\ p[j].uid = c.map[j].uid
  <2>1. Fresh(p[j]) /\ Updates(c.highestmodseq, c.map[j], p[j])
    BY <1>0, UpdatedEntry DEF Refreshable
  <2> QED BY <2>1 DEF Updates
<1>3. p \in Seq(Entry) /\ Len(p) = Len(c.map) /\ DOMAIN p = DOMAIN c.map
  <2>1. DOMAIN p = 1 .. Len(c.map) /\ p = [j \in 1 .. Len(c.map) |-> p[j]] BY <1>1 DEF update
  <2>2. \A j \in 1 .. Len(c.map) : p[j] \in Entry BY <1>1, <1>2 DEF Fresh
  <2> HIDE DEF p
  <2> QED BY <2>1, <2>2, <1>1, IsSeq
<1>4. /\ q \in Seq(Entry) /\ Sorted(q)
      /\ \A i \in DOMAIN q : IsNew(last, q[i])
      /\ HasNew(last, q)
  BY <1>0, FreshEntries
<1>d. d = [c EXCEPT !.map = map, !.oldexists = Len(c.map), !.delayed_modseq = delayed(map),
                !.oldhighestmodseq = c.highestmodseq, !.highestmodseq = mbox.highestmodseq,
                !.generation = mbox.generation_no, !.misled = @ \/ forgotten(c)]
  BY DEF index_refresh_locked
<1> HIDE DEF p, q, d, last
<1>5. /\ map \in Seq(Entry) /\ Len(map) = Len(p) + Len(q) /\ DOMAIN map = 1 .. Len(p) + Len(q)
      /\ \A i \in DOMAIN p : i \in DOMAIN map /\ map[i] = p[i]
      /\ \A i \in DOMAIN q : Len(p) + i \in DOMAIN map /\ map[Len(p) + i] = q[i]
      /\ \A i \in DOMAIN map : i \notin DOMAIN p => i - Len(p) \in DOMAIN q /\ map[i] = q[i - Len(p)]
  <2>1. p \in Seq(Entry) /\ q \in Seq(Entry) BY <1>3, <1>4
  <2> QED BY ONLY <2>1, Joined
<1> HIDE DEF map
<1>6. ASSUME NEW i \in DOMAIN map
      PROVE  /\ Fresh(map[i]) /\ map[i] \in Entry /\ map[i].modseq <= N
             /\ (i \in DOMAIN c.map => map[i] = p[i])
             /\ (i \notin DOMAIN c.map => IsNew(last, map[i]))
  <2>1. CASE i \in DOMAIN p BY <2>1, <1>2, <1>3, <1>5 DEF Fresh, IsEntry
  <2>2. CASE i \notin DOMAIN p
    <3>1. IsNew(last, map[i]) BY <2>2, <1>4, <1>5
    <3> QED BY <3>1, <2>2, <1>3 DEF IsNew, Fresh, IsEntry
  <2> QED BY <2>1, <2>2
<1>7. delayed(map) \in Nat /\ delayed(map) <= N BY <1>1, <1>5, <1>6, Delayed
<1>8. d \in State /\ SameClient(c, d)
  <2>1. forgotten(c) \in BOOLEAN BY DEF forgotten
  <2>2. (c.misled \/ forgotten(c)) \in BOOLEAN OBVIOUS
  <2> QED BY <1>0, <1>1, <1>5, <1>7, <1>d, <2>2 DEF State, SameClient
<1>9. /\ d.highestmodseq = N /\ d.oldhighestmodseq = c.highestmodseq
      /\ d.generation = mbox.generation_no /\ d.oldexists = Len(c.map)
      /\ d.delayed_modseq <= N /\ d.map = map /\ (d.misled <=> c.misled \/ forgotten(c))
  <2>1. /\ d.highestmodseq = N /\ d.oldhighestmodseq = c.highestmodseq
        /\ d.generation = mbox.generation_no /\ d.oldexists = Len(c.map)
        /\ d.delayed_modseq = delayed(map) /\ d.map = map
        /\ d.misled = (c.misled \/ forgotten(c))
    BY <1>0, <1>d DEF State
  <2> QED BY <2>1, <1>7
<1>u. ASSUME NEW i \in DOMAIN map PROVE map[i].uid \in Nat
  BY <1>6, EntryFields
<1>l. \A i \in DOMAIN c.map : c.map[i].uid <= last /\ last \in Nat /\ p[i].uid = c.map[i].uid
  <2> TAKE i \in DOMAIN c.map
  <2>1. last = c.map[Len(c.map)].uid /\ Len(c.map) \in DOMAIN c.map BY <1>1 DEF last, LastUid
  <2>2. c.map[i].uid \in Nat /\ last \in Nat BY <2>1, <1>0, StateFields, EntryFields
  <2>3. i = Len(c.map) \/ i < Len(c.map) BY <1>1
  <2>4. i < Len(c.map) => c.map[i].uid < last BY <2>1 DEF Refreshable, Sorted
  <2> QED BY <2>1, <2>2, <2>3, <2>4, <1>2
<1>10. Sorted(map)
  <2> SUFFICES ASSUME NEW i \in DOMAIN map, NEW j \in DOMAIN map, i < j PROVE map[i].uid < map[j].uid
    BY DEF Sorted
  <2>1. CASE j \in DOMAIN p
    <3>1. i \in DOMAIN p BY <2>1, <1>1, <1>3, <1>5
    <3>2. c.map[i].uid < c.map[j].uid BY <2>1, <3>1, <1>3 DEF Refreshable, Sorted
    <3> QED BY <2>1, <3>1, <3>2, <1>l, <1>3, <1>5
  <2>2. CASE j \notin DOMAIN p /\ i \in DOMAIN p
    <3>1. map[j].uid > last BY <2>2, <1>3, <1>6 DEF IsNew
    <3>2. map[i].uid <= last /\ last \in Nat BY <2>2, <1>l, <1>3, <1>5
    <3> QED BY <3>1, <3>2, <1>u
  <2>3. CASE j \notin DOMAIN p /\ i \notin DOMAIN p
    <3>1. i - Len(p) \in DOMAIN q /\ map[i] = q[i - Len(p)] BY <2>3, <1>5
    <3>2. j - Len(p) \in DOMAIN q /\ map[j] = q[j - Len(p)] BY <2>3, <1>5
    <3>3. i - Len(p) < j - Len(p) BY <1>1, <1>3, <1>5
    <3> QED BY <3>1, <3>2, <3>3, <1>4 DEF Sorted
  <2> QED BY <2>1, <2>2, <2>3
<1>11. Complete(mbox, N, map)
  <2> SUFFICES ASSUME NEW r \in DOMAIN mbox.recs, ~mbox.recs[r].expunged
               PROVE  \E j \in DOMAIN map : map[j].uid = mbox.recs[r].uid
    BY DEF Complete
  <2>1. r \in linked BY DEF linked, linkedIn, Box, IsRecord
  <2>2. mbox.recs[r].uid \in Nat BY BoxUids
  <2>3. CASE mbox.recs[r].uid > last
    <3>1. PICK i \in DOMAIN q : q[i].uid = mbox.recs[r].uid BY <2>1, <2>3, <1>4 DEF HasNew
    <3> QED BY <3>1, <1>5
  <2>4. CASE ~(mbox.recs[r].uid > last)
    <3>1. c.map # <<>>
      <4>1. mbox.recs[r].uid > 0 BY BoxUids
      <4> QED BY <4>1, <2>4 DEF last, LastUid
    <3>2. last = c.map[Len(c.map)].uid /\ Len(c.map) \in DOMAIN c.map BY <3>1, <1>1 DEF last, LastUid
    <3>3. last \in Nat BY <3>2, <1>l
    <3>4. mbox.recs[r].uid <= c.map[Len(c.map)].uid BY <3>2, <3>3, <2>2, <2>4
    <3>5. PICK j \in DOMAIN c.map : c.map[j].uid = mbox.recs[r].uid
      BY <3>1, <3>4 DEF Refreshable, Complete
    <3> QED BY <3>5, <1>l, <1>3, <1>5
  <2> QED BY <2>3, <2>4
<1>12. Refreshed(c, d)
  <2>1. Len(map) >= Len(c.map) BY <1>1, <1>3, <1>4, <1>5
  <2>2. \A j \in DOMAIN c.map : Updates(c.highestmodseq, c.map[j], map[j])
    BY <1>2, <1>3, <1>5
  <2>3. \A j \in DOMAIN map : Fresh(map[j]) BY <1>6
  <2>4. \A j \in DOMAIN map : j \notin DOMAIN c.map => ~map[j].expunged /\ map[j].told = map[j].modseq
    BY <1>6 DEF IsNew
  <2> QED BY <2>1, <2>2, <2>3, <2>4, <1>9, <1>10, <1>11 DEF Refreshed
<1> QED BY <1>8, <1>9, <1>12 DEF d

LEMMA RefreshMap ==
  ASSUME Box(mode, mbox, files), NEW c, Refreshable(c), c.modseq <= mbox.highestmodseq
  PROVE  MapInv(mbox, index_refresh_locked(c)) /\ Clean(mode, index_refresh_locked(c).map)
<1> DEFINE d == index_refresh_locked(c)
<1>1. /\ d \in State /\ SameClient(c, d)
      /\ d.highestmodseq = mbox.highestmodseq /\ d.oldhighestmodseq = c.highestmodseq
      /\ d.generation = mbox.generation_no /\ d.oldexists = Len(c.map)
      /\ d.delayed_modseq <= mbox.highestmodseq
      /\ Refreshed(c, d)
  BY RefreshFields
<1>2. mbox \in Mailbox /\ c \in State BY DEF Box, Refreshable
<1>3. /\ mbox.highestmodseq \in Nat /\ mbox.generation_no \in Nat /\ Len(c.map) \in Nat
      /\ c.highestmodseq <= mbox.highestmodseq
  BY <1>2, BoxFields, StateFields DEF Refreshable
<1> HIDE DEF d
<1>4. d.modseq = c.modseq BY <1>1 DEF SameClient
<1>5. d.highestmodseq <= mbox.highestmodseq /\ d.generation <= mbox.generation_no BY <1>1, <1>3
<1>6. d.oldexists <= Len(d.map)
  <2>1. Len(d.map) \in Nat BY <1>1, StateFields
  <2> QED BY <2>1, <1>1, <1>3 DEF Refreshed
<1>7. MapInv(mbox, d) BY <1>1, <1>3, <1>4, <1>5, <1>6 DEF MapInv, Refreshed, Fresh
<1>8. Clean(mode, d.map) BY <1>1 DEF Clean, Refreshed, Fresh
<1> QED BY <1>7, <1>8 DEF d

\* A client that has been told all of an earlier refresh is in step after the next one.
LEMMA RefreshInView ==
  ASSUME Box(mode, mbox, files), NEW c, Refreshable(c), ~forgotten(c), InView(c)
  PROVE  InView(index_refresh_locked(c))
<1> DEFINE d == index_refresh_locked(c)
<1>1. /\ d \in State /\ SameClient(c, d)
      /\ d.highestmodseq = mbox.highestmodseq /\ d.oldhighestmodseq = c.highestmodseq
      /\ d.oldexists = Len(c.map)
      /\ Refreshed(c, d)
  BY RefreshFields
<1> HIDE DEF d
<1>2. c \in State /\ c.oldexists = Len(c.map) BY DEF Refreshable, forgotten
<1>3. /\ DOMAIN c.map = 1 .. Len(c.map) /\ Len(c.map) \in Nat
      /\ DOMAIN d.map = 1 .. Len(d.map) /\ Len(d.map) \in Nat
      /\ Len(d.map) >= Len(c.map)
  BY <1>1, <1>2, StateFields DEF Refreshed
<1>4. ~d.unknown /\ Len(d.view) = d.oldexists /\ d.view = c.view BY <1>1, <1>2 DEF SameClient, InView
<1>5. ASSUME NEW j \in 1 .. d.oldexists
      PROVE  /\ d.view[j].uid = d.map[j].uid
             /\ (~d.map[j].expunged /\ d.map[j].modseq <= d.map[j].told => d.view[j].flags = d.map[j].flags)
  <2>1. j \in DOMAIN c.map /\ j \in 1 .. c.oldexists BY <1>1, <1>2, <1>3
  <2>2. Updates(c.highestmodseq, c.map[j], d.map[j]) BY <2>1, <1>1 DEF Refreshed
  <2>3. /\ c.view[j].uid = c.map[j].uid
        /\ (~c.map[j].expunged /\ c.map[j].modseq <= c.map[j].told => c.view[j].flags = c.map[j].flags)
    BY <2>1 DEF InView
  <2> QED BY <2>2, <2>3, <1>4 DEF Updates
<1>6. ASSUME d.oldhighestmodseq = d.highestmodseq, NEW j \in changed(d) PROVE d.map[j].expunged
  <2> SUFFICES ASSUME ~d.map[j].expunged PROVE FALSE OBVIOUS
  <2>1. j \in DOMAIN d.map /\ d.map[j].modseq > d.map[j].told BY DEF changed
  <2>2. d.map[j].modseq \in Nat /\ d.map[j].told \in Nat BY <2>1, <1>1, StateFields, EntryFields
  <2>3. j \in DOMAIN c.map BY <2>1, <2>2, <1>1 DEF Refreshed
  <2>4. Updates(c.highestmodseq, c.map[j], d.map[j]) BY <2>3, <1>1 DEF Refreshed
  <2>5. c.highestmodseq = mbox.highestmodseq BY <1>1, <1>6
  <2>6. c.map[j].modseq > c.map[j].told BY <2>1, <2>4, <2>5 DEF Updates
  <2>7. changed(c) = {} BY <2>5 DEF forgotten
  <2> QED BY <2>3, <2>6, <2>7 DEF changed
<1> QED BY <1>4, <1>5, <1>6 DEF InView, d

LEMMA RefreshCovered ==
  ASSUME Box(mode, mbox, files), NEW c, Refreshable(c), NEW n \in Nat, n <= c.highestmodseq,
         Covered(c.map, n)
  PROVE  Covered(index_refresh_locked(c).map, n)
<1> DEFINE d == index_refresh_locked(c)
<1>1. d \in State /\ Refreshed(c, d) BY RefreshFields
<1>2. c \in State /\ c.highestmodseq \in Nat BY StateFields DEF Refreshable
<1> HIDE DEF d
<1> SUFFICES ASSUME NEW j \in DOMAIN d.map, d.map[j].expunged PROVE d.map[j].modseq > n
  BY DEF Covered, d
<1>3. j \in DOMAIN c.map BY <1>1 DEF Refreshed
<1>4. Updates(c.highestmodseq, c.map[j], d.map[j]) BY <1>1, <1>3 DEF Refreshed
<1>5. d.map[j].modseq \in Nat /\ c.map[j].modseq \in Nat BY <1>1, <1>2, <1>3, StateFields, EntryFields
<1>6. CASE c.map[j].expunged
  <2>1. c.map[j].modseq > n BY <1>3, <1>6 DEF Covered
  <2>2. d.map[j].modseq >= c.map[j].modseq BY <1>4 DEF Updates
  <2> QED BY <2>1, <2>2, <1>5
<1>7. CASE ~c.map[j].expunged
  <2>1. d.map[j].modseq > c.highestmodseq BY <1>4, <1>7 DEF Updates
  <2> QED BY <2>1, <1>2, <1>5
<1> QED BY <1>6, <1>7

LEMMA CoreRefreshable ==
  ASSUME NEW c, Core(mbox, c)
  PROVE  Refreshable(c)
BY DEF Core, MapInv, Refreshable

LEMMA CoreRefreshed ==
  ASSUME Box(mode, mbox, files), NEW c, Core(mbox, c)
  PROVE  Core(mbox, index_refresh_locked(c)) /\ Clean(mode, index_refresh_locked(c).map)
<1> DEFINE d == index_refresh_locked(c)
<1>1. Refreshable(c) BY CoreRefreshable
<1>2. d \in State /\ SameClient(c, d) /\ (d.misled <=> c.misled \/ forgotten(c)) BY <1>1, RefreshFields
<1>3. mbox \in Mailbox /\ c \in State /\ c.modseq <= c.highestmodseq /\ c.highestmodseq <= mbox.highestmodseq
  BY DEF Box, Core, MapInv
<1>4. c.modseq \in Nat /\ c.modseq <= mbox.highestmodseq BY <1>3, StateFields, BoxFields
<1>5. MapInv(mbox, d) /\ Clean(mode, d.map) BY <1>1, <1>4, RefreshMap
<1>6. ~d.misled => InView(d) BY <1>1, <1>2, RefreshInView DEF Core
<1>7. ~d.misled /\ ~d.late => Covered(d.map, d.modseq)
  <2>1. d.late = c.late /\ d.modseq = c.modseq BY <1>2 DEF SameClient
  <2>2. ~c.misled /\ ~c.late => Covered(c.map, c.modseq) BY DEF Core
  <2> QED BY <2>1, <2>2, <1>1, <1>2, <1>3, <1>4, RefreshCovered
<1> HIDE DEF d
<1>8. Core(mbox, d) BY <1>2, <1>5, <1>6, <1>7 DEF Core
<1> QED BY <1>5, <1>8 DEF d

\* A session that holds the lock has seen the mailbox as it is.
UpTo(b, c) == c.highestmodseq = b.highestmodseq /\ c.generation = b.generation_no

Current(c) == UpTo(mbox, c)

LEMMA Lock ==
  ASSUME Box(mode, mbox, files), NEW c, Core(mbox, c)
  PROVE  LET d == index_lock(c)
         IN  /\ Core(mbox, d) /\ SameClient(c, d) /\ Current(d)
             /\ (Clean(mode, c.map) => Clean(mode, d.map))
             /\ (c.misled => d.misled)
<1> DEFINE d == index_lock(c)
<1>1. CASE c.highestmodseq # mbox.highestmodseq \/ c.generation # mbox.generation_no
  <2>1. d = index_refresh_locked(c) BY <1>1 DEF index_lock
  <2> HIDE DEF d
  <2>2. Core(mbox, d) /\ Clean(mode, d.map) BY <2>1, CoreRefreshed
  <2>3. SameClient(c, d) /\ Current(d) /\ (d.misled <=> c.misled \/ forgotten(c))
    BY <2>1, CoreRefreshable, RefreshFields DEF Current, UpTo
  <2> QED BY <2>2, <2>3 DEF d
<1>2. CASE ~(c.highestmodseq # mbox.highestmodseq \/ c.generation # mbox.generation_no)
  <2>1. d = c BY <1>2 DEF index_lock
  <2>2. Current(c) BY <1>2 DEF Current, UpTo
  <2> HIDE DEF d
  <2> QED BY <2>1, <2>2 DEF SameClient, d
<1> QED BY <1>1, <1>2

\* A client that has been told all has every message that is not later than n.
LEMMA HasAll ==
  ASSUME NEW m, NEW b, NEW fs, Box(m, b, fs), NEW c \in State, MapInv(b, c), InView(c),
         c.oldexists = Len(c.map), \A j \in changed(c) : c.map[j].expunged,
         NEW n \in Nat, n <= c.highestmodseq
  PROVE  Has(b, c.view, n)
<1> SUFFICES ASSUME NEW r \in DOMAIN b.recs, ~b.recs[r].expunged, b.recs[r].modseq <= n
             PROVE  \E i \in DOMAIN c.view :
                      c.view[i] = [uid |-> b.recs[r].uid, flags |-> b.recs[r].flags]
  BY DEF Has
<1>1. b.recs[r].modseq \in Nat /\ c.highestmodseq \in Nat BY BoxUids, StateFields
<1>2. b.recs[r].modseq <= c.highestmodseq BY <1>1
<1>3. PICK j \in DOMAIN c.map : c.map[j].uid = b.recs[r].uid BY <1>2 DEF MapInv, Complete
<1>4. IsEntry(b, c.highestmodseq, c.map[j]) BY DEF MapInv
<1>5. ~c.map[j].expunged BY <1>3, <1>4 DEF IsEntry, Dead
<1>6. c.map[j].recno # 0 BY <1>4, <1>5 DEF IsEntry
<1>7. b.recs[r].flags = c.map[j].flags BY <1>2, <1>3, <1>4, <1>6 DEF IsEntry, Seen
<1>8. j \notin changed(c) BY <1>5
<1>9. c.map[j].modseq \in Nat /\ c.map[j].told \in Nat BY StateFields, EntryFields
<1>10. c.map[j].modseq <= c.map[j].told BY <1>8, <1>9 DEF changed
<1>11. j \in 1 .. c.oldexists /\ j \in DOMAIN c.view BY StateFields DEF InView
<1>12. c.view[j].uid = c.map[j].uid /\ c.view[j].flags = c.map[j].flags BY <1>5, <1>10, <1>11 DEF InView
<1>13. c.view[j] \in [uid : 1 .. MaxUid, flags : Flags] BY <1>11, StateFields
<1>14. c.view[j] = [uid |-> c.view[j].uid, flags |-> c.view[j].flags] BY <1>13
<1> QED BY <1>3, <1>7, <1>11, <1>12, <1>14

-----------------------------------------------------------------------------
\* index_tellexpunge

LEMMA RemovedAt ==
  ASSUME NEW T, NEW q \in Seq(T), NEW i \in DOMAIN q
  PROVE  /\ RemoveAt(q, i) \in Seq(T) /\ Len(RemoveAt(q, i)) = Len(q) - 1
         /\ DOMAIN RemoveAt(q, i) = 1 .. Len(q) - 1
         /\ \A k \in 1 .. Len(q) - 1 : RemoveAt(q, i)[k] = IF k < i THEN q[k] ELSE q[k + 1]
<1> DEFINE p == SubSeq(q, 1, i - 1)
           r == SubSeq(q, i + 1, Len(q))
<1>0. i \in 1 .. Len(q) /\ Len(q) \in Nat OBVIOUS
<1>1. p \in Seq(T) /\ Len(p) = i - 1 /\ \A k \in 1 .. i - 1 : p[k] = q[k] BY <1>0
<1>2. r \in Seq(T) /\ Len(r) = Len(q) - i /\ \A k \in 1 .. Len(q) - i : r[k] = q[k + i] BY <1>0
<1>3. RemoveAt(q, i) = p \o r BY DEF RemoveAt
<1> HIDE DEF p, r
<1>4. p \o r \in Seq(T) /\ Len(p \o r) = Len(q) - 1 /\ DOMAIN (p \o r) = 1 .. Len(q) - 1
  BY <1>0, <1>1, <1>2
<1>5. ASSUME NEW k \in 1 .. Len(q) - 1 PROVE (p \o r)[k] = IF k < i THEN q[k] ELSE q[k + 1]
  <2>1. CASE k < i BY <2>1, <1>0, <1>1, <1>2
  <2>2. CASE ~(k < i)
    <3>1. (p \o r)[k] = r[k - (i - 1)] BY <2>2, <1>0, <1>1, <1>2, SMTT(40)
    <3>2. k - (i - 1) \in 1 .. Len(q) - i /\ (k - (i - 1)) + i = k + 1 BY <2>2, <1>0
    <3> QED BY <3>1, <3>2, <2>2, <1>2
  <2> QED BY <2>1, <2>2
<1> QED BY <1>3, <1>4, <1>5

\* VANISHED with its UID and EXPUNGE with its number remove the same message.
LEMMA RemovedSame ==
  ASSUME NEW T, HaveUids(T), NEW q \in Seq(T), Sorted(q), NEW i \in DOMAIN q
  PROVE  /\ Sorted(RemoveAt(q, i))
         /\ pick(q, {k \in DOMAIN q : q[k].uid # q[i].uid}) = RemoveAt(q, i)
<1> DEFINE S == {k \in DOMAIN q : q[k].uid # q[i].uid}
           p == pick(q, S)
           d == RemoveAt(q, i)
<1>0. i \in 1 .. Len(q) /\ Len(q) \in Nat /\ DOMAIN q = 1 .. Len(q) OBVIOUS
<1>1. /\ d \in Seq(T) /\ DOMAIN d = 1 .. Len(q) - 1
      /\ \A k \in 1 .. Len(q) - 1 : d[k] = IF k < i THEN q[k] ELSE q[k + 1]
  BY RemovedAt
<1>2. p \in Seq(T) /\ Sorted(p) /\ Chosen(p, q, S) BY PickedSorted
<1>u. \A k \in DOMAIN q : q[k].uid \in Nat BY DEF HaveUids
<1>3. \A k \in DOMAIN q : k # i <=> k \in S
  <2> TAKE k \in DOMAIN q
  <2>1. (k < i => q[k].uid < q[i].uid) /\ (i < k => q[i].uid < q[k].uid) BY DEF Sorted
  <2>2. k < i \/ i < k \/ k = i BY <1>0
  <2> QED BY <2>1, <2>2, <1>u
<1> HIDE DEF p, d, S
<1>4. Sorted(d)
  <2> SUFFICES ASSUME NEW j \in DOMAIN d, NEW k \in DOMAIN d, j < k PROVE d[j].uid < d[k].uid
    BY DEF Sorted
  <2>1. j \in 1 .. Len(q) - 1 /\ k \in 1 .. Len(q) - 1 BY <1>1
  <2>2. d[j] = (IF j < i THEN q[j] ELSE q[j + 1]) /\ d[k] = (IF k < i THEN q[k] ELSE q[k + 1])
    BY <2>1, <1>1
  <2>3. /\ j \in DOMAIN q /\ j + 1 \in DOMAIN q /\ k \in DOMAIN q /\ k + 1 \in DOMAIN q
        /\ j < k + 1 /\ j + 1 < k + 1 /\ (~(j < i) => ~(k < i))
    BY <2>1, <1>0
  <2>4. q[j].uid < q[k].uid /\ q[j].uid < q[k + 1].uid /\ q[j + 1].uid < q[k + 1].uid
    BY <2>3 DEF Sorted
  <2> QED BY <2>2, <2>3, <2>4
<1>5. Among(d, p)
  <2> SUFFICES ASSUME NEW k \in DOMAIN d PROVE \E j \in DOMAIN p : d[k] = p[j] BY DEF Among
  <2>1. k \in 1 .. Len(q) - 1 BY <1>1
  <2>2. PICK x \in DOMAIN q : x # i /\ d[k] = q[x]
    <3>1. CASE k < i BY <3>1, <2>1, <1>0, <1>1
    <3>2. CASE ~(k < i)
      <4>1. k + 1 \in DOMAIN q /\ k + 1 # i BY <3>2, <2>1, <1>0
      <4> QED BY <4>1, <3>2, <2>1, <1>1
    <3> QED BY <3>1, <3>2
  <2>3. x \in DOMAIN q \cap S BY <2>2, <1>3
  <2> QED BY <2>2, <2>3, <1>2 DEF Chosen
<1>6. Among(p, d)
  <2> SUFFICES ASSUME NEW j \in DOMAIN p PROVE \E k \in DOMAIN d : p[j] = d[k] BY DEF Among
  <2>1. PICK x \in DOMAIN q \cap S : p[j] = q[x] BY <1>2 DEF Chosen
  <2>2. x \in DOMAIN q /\ x # i BY <1>3
  <2>3. CASE x < i
    <3>1. x \in 1 .. Len(q) - 1 BY <2>2, <2>3, <1>0
    <3> QED BY <3>1, <2>1, <2>3, <1>1
  <2>4. CASE ~(x < i)
    <3>1. x - 1 \in 1 .. Len(q) - 1 /\ ~(x - 1 < i) /\ (x - 1) + 1 = x BY <2>2, <2>4, <1>0
    <3> QED BY <3>1, <2>1, <1>1
  <2> QED BY <2>3, <2>4
<1>7. p = d BY <1>1, <1>2, <1>4, <1>5, <1>6, SortedUnique
<1> QED BY <1>4, <1>7 DEF p, d, S

View == [uid : 1 .. MaxUid, flags : Flags]

LEMMA ViewUids == HaveUids(View) BY KnownFields DEF HaveUids, View

LEMMA EntryUids == HaveUids(Entry) BY EntryFields DEF HaveUids

\* What the client knows of the message with the entry im
Knows(v, im) ==
  /\ v.uid = im.uid
  /\ (~im.expunged /\ im.modseq <= im.told => v.flags = im.flags)

\* What telling leaves alone
SameSession(c, d) ==
  /\ d.pc = c.pc /\ d.last = c.last /\ d.capa = c.capa /\ d.seq = c.seq /\ d.byuid = c.byuid
  /\ d.modseq = c.modseq /\ d.late = c.late /\ d.misled = c.misled
  /\ d.highestmodseq = c.highestmodseq /\ d.oldhighestmodseq = c.oldhighestmodseq
  /\ d.generation = c.generation

\* The messages of p are those of q up to n that are not expunged.
Kept(p, q, n) ==
  /\ Sorted(p)
  /\ \A i \in DOMAIN p : \E k \in 1 .. n : p[i] = q[k] /\ ~q[k].expunged
  /\ \A k \in 1 .. n : ~q[k].expunged => \E i \in DOMAIN p : p[i] = q[k]

\* The loop of index_tellexpunge after n messages: what it counts ...
TellCount(c, a, n) ==
  /\ (n <= c.oldexists => a.oldexists = Len(a.map) + (c.oldexists - n))
  /\ (n >= c.oldexists => a.oldexists <= Len(a.map))

\* ... and what the client has; the rest of its messages are those from n + 1 on.
TellView(c, a, n) ==
  /\ ~a.unknown /\ Len(a.view) = a.oldexists /\ Sorted(a.view)
  /\ \A k \in 1 .. a.oldexists :
       /\ (k <= Len(a.map) => Knows(a.view[k], a.map[k]))
       /\ (k > Len(a.map) => Knows(a.view[k], c.map[n + (k - Len(a.map))]))

Telling(c, a, n) ==
  /\ a \in State /\ SameSession(c, a)
  /\ Kept(a.map, c.map, n) /\ TellCount(c, a, n)
  /\ (InView(c) => TellView(c, a, n))

LEMMA KeptNext ==
  ASSUME NEW q \in Seq(Entry), Sorted(q), NEW n \in Nat, n + 1 <= Len(q),
         NEW p \in Seq(Entry), Kept(p, q, n)
  PROVE  /\ (q[n + 1].expunged => Kept(p, q, n + 1))
         /\ (~q[n + 1].expunged => Kept(Append(p, q[n + 1]), q, n + 1))
<1>0. Len(q) \in Nat /\ DOMAIN q = 1 .. Len(q) /\ n + 1 \in DOMAIN q /\ q[n + 1] \in Entry
      /\ DOMAIN p = 1 .. Len(p) /\ Len(p) \in Nat
  OBVIOUS
<1>k. \A k \in 1 .. n + 1 : k \in 1 .. n \/ k = n + 1 OBVIOUS
<1>i. \A k \in 1 .. n : k \in 1 .. n + 1 /\ k \in DOMAIN q /\ k < n + 1 BY <1>0
<1>1. ASSUME q[n + 1].expunged PROVE Kept(p, q, n + 1)
  <2>1. \A k \in 1 .. n + 1 : ~q[k].expunged => \E i \in DOMAIN p : p[i] = q[k]
    BY <1>1, <1>k DEF Kept
  <2>2. \A i \in DOMAIN p : \E k \in 1 .. n + 1 : p[i] = q[k] /\ ~q[k].expunged BY <1>i DEF Kept
  <2> QED BY <2>1, <2>2 DEF Kept
<1>2. ASSUME ~q[n + 1].expunged PROVE Kept(Append(p, q[n + 1]), q, n + 1)
  <2> DEFINE d == Append(p, q[n + 1])
  <2>1. /\ DOMAIN d = 1 .. Len(p) + 1 /\ d[Len(p) + 1] = q[n + 1]
        /\ \A i \in DOMAIN p : d[i] = p[i] /\ i \in DOMAIN d
        /\ \A i \in DOMAIN d : i \in DOMAIN p \/ i = Len(p) + 1
    BY <1>0
  <2>0. Len(p) + 1 \in DOMAIN d BY <2>1, <1>0
  <2> HIDE DEF d
  <2>2. \A i \in DOMAIN d : \E k \in 1 .. n + 1 : d[i] = q[k] /\ ~q[k].expunged
    <3> TAKE i \in DOMAIN d
    <3>1. CASE i \in DOMAIN p BY <3>1, <2>1, <1>i DEF Kept
    <3>2. CASE i = Len(p) + 1
      <4>1. n + 1 \in 1 .. n + 1 OBVIOUS
      <4> QED BY <4>1, <3>2, <2>1, <1>2
    <3> QED BY <3>1, <3>2, <2>1
  <2>3. \A k \in 1 .. n + 1 : ~q[k].expunged => \E i \in DOMAIN d : d[i] = q[k]
    BY <2>0, <2>1, <1>k DEF Kept
  <2>4. Sorted(d)
    <3> SUFFICES ASSUME NEW i \in DOMAIN d, NEW j \in DOMAIN d, i < j PROVE d[i].uid < d[j].uid
      BY DEF Sorted
    <3>1. i \in DOMAIN p BY <2>1, <1>0
    <3>2. CASE j \in DOMAIN p BY <3>1, <3>2, <2>1 DEF Kept, Sorted
    <3>3. CASE j = Len(p) + 1
      <4>1. PICK k \in 1 .. n : p[i] = q[k] BY <3>1 DEF Kept
      <4>2. q[k].uid < q[n + 1].uid BY <1>0, <1>i DEF Sorted
      <4> QED BY <3>1, <3>3, <4>1, <4>2, <2>1
    <3> QED BY <3>2, <3>3, <2>1
  <2> QED BY <2>2, <2>3, <2>4 DEF Kept, d
<1> QED BY <1>1, <1>2

LEMMA RemovedFields ==
  ASSUME NEW a \in State, NEW j, NEW uid
  PROVE  LET e == removed(a, j, uid)
         IN  /\ e \in State /\ SameSession(a, e) /\ e.map = a.map /\ e.oldexists = a.oldexists
             /\ (Sorted(a.view) /\ j \in DOMAIN a.view /\ a.view[j].uid = uid =>
                   e.view = RemoveAt(a.view, j) /\ e.unknown = a.unknown)
<1> DEFINE e == removed(a, j, uid)
           p == pick(a.view, {i \in DOMAIN a.view : a.view[i].uid # uid})
<1>1. a.view \in Seq(View) BY StateFields DEF View
<1>2. p \in Seq(View) BY <1>1, Picked
<1>3. ASSUME Sorted(a.view), j \in DOMAIN a.view, a.view[j].uid = uid PROVE p = RemoveAt(a.view, j)
  BY <1>1, <1>3, ViewUids, RemovedSame
<1> HIDE DEF p
<1>4. CASE a.capa = "qresync"
  <2>1. e = [a EXCEPT !.view = p] BY <1>4 DEF removed, p
  <2>2. e \in State /\ SameSession(a, e) /\ e.map = a.map /\ e.oldexists = a.oldexists
        /\ e.view = p /\ e.unknown = a.unknown
    BY <2>1, <1>2 DEF State, SameSession, View
  <2> HIDE DEF e
  <2> QED BY <2>2, <1>3 DEF e
<1>5. CASE a.capa # "qresync" /\ j \in DOMAIN a.view
  <2>1. e = [a EXCEPT !.view = RemoveAt(a.view, j)] BY <1>5 DEF removed
  <2>0. RemoveAt(a.view, j) \in Seq(View) BY <1>1, <1>5, RemovedAt
  <2>2. e \in State /\ SameSession(a, e) /\ e.map = a.map /\ e.oldexists = a.oldexists
        /\ e.view = RemoveAt(a.view, j) /\ e.unknown = a.unknown
    BY <2>0, <2>1 DEF State, SameSession, View
  <2> HIDE DEF e
  <2> QED BY <2>2 DEF e
<1>6. CASE a.capa # "qresync" /\ j \notin DOMAIN a.view
  <2>1. e = [a EXCEPT !.unknown = TRUE] BY <1>6 DEF removed
  <2>2. e \in State /\ SameSession(a, e) /\ e.map = a.map /\ e.oldexists = a.oldexists
    BY <2>1 DEF State, SameSession
  <2> HIDE DEF e
  <2> QED BY <2>2, <1>6 DEF e
<1> QED BY <1>4, <1>5, <1>6

LEMMA CountStays ==
  ASSUME NEW n \in Nat, NEW m \in Nat, NEW x \in Nat, NEW y \in Nat,
         n <= x => y = m + (x - n), n >= x => y <= m
  PROVE  /\ (n + 1 <= x => y = (m + 1) + (x - (n + 1)))
         /\ (n + 1 >= x => y <= m + 1)
OBVIOUS

LEMMA CountGoes ==
  ASSUME NEW n \in Nat, NEW m \in Nat, NEW x \in Nat, NEW y \in Nat,
         n <= x => y = m + (x - n), n >= x => y <= m, m + 1 <= y
  PROVE  /\ y - 1 \in Nat /\ n + 1 <= x /\ m + 1 \in 1 .. y
         /\ (n + 1 <= x => y - 1 = m + (x - (n + 1)))
         /\ (n + 1 >= x => y - 1 <= m)
OBVIOUS

LEMMA CountShifts ==
  ASSUME NEW k \in Nat, NEW m \in Nat, NEW n \in Nat, k > m
  PROVE  ~(k < m + 1) /\ ~(k <= m) /\ k + 1 > m /\ n + ((k + 1) - m) = (n + 1) + (k - m)
OBVIOUS

\* A message stays: the client counts it already, or it will be told of it.
LEMMA TellStays ==
  ASSUME NEW c \in State, Sorted(c.map), c.oldexists <= Len(c.map), NEW n \in Nat, n + 1 <= Len(c.map),
         NEW a, Telling(c, a, n), ~c.map[n + 1].expunged
  PROVE  Telling(c, tell_one(a, c.map[n + 1]), n + 1)
<1> DEFINE im == c.map[n + 1]
           d == tell_one(a, im)
           m == Len(a.map)
<1>0. /\ a \in State /\ c.map \in Seq(Entry) /\ a.map \in Seq(Entry) /\ im \in Entry
      /\ m \in Nat /\ c.oldexists \in Nat /\ a.oldexists \in Nat
  <2>1. a \in State BY DEF Telling
  <2> QED BY <2>1, StateFields
<1>1. d = [a EXCEPT !.map = Append(a.map, im)] BY DEF tell_one
<1>2. Append(a.map, im) \in Seq(Entry) /\ Len(Append(a.map, im)) = m + 1
      /\ Append(a.map, im)[m + 1] = im /\ \A i \in 1 .. m : Append(a.map, im)[i] = a.map[i]
  <2> HIDE DEF im
  <2> QED BY <1>0
<1>3. Kept(Append(a.map, im), c.map, n + 1) BY <1>0, KeptNext DEF Telling
<1> HIDE DEF d, im
<1>4. /\ d \in State /\ SameSession(a, d) /\ d.map = Append(a.map, im) /\ d.oldexists = a.oldexists
      /\ d.view = a.view /\ d.unknown = a.unknown
  BY <1>0, <1>1, <1>2 DEF State, SameSession
<1>5. SameSession(c, d) BY <1>4 DEF Telling, SameSession
<1>6. TellCount(c, d, n + 1)
  <2>1. /\ (n <= c.oldexists => a.oldexists = m + (c.oldexists - n))
        /\ (n >= c.oldexists => a.oldexists <= m)
    BY DEF Telling, TellCount
  <2>2. Len(d.map) = m + 1 BY <1>2, <1>4
  <2>3. /\ (n + 1 <= c.oldexists => a.oldexists = (m + 1) + (c.oldexists - (n + 1)))
        /\ (n + 1 >= c.oldexists => a.oldexists <= m + 1)
    <3> HIDE DEF m
    <3> QED BY <2>1, <1>0, CountStays
  <2> QED BY <2>2, <2>3, <1>4, Zenon DEF TellCount
<1>7. ASSUME InView(c) PROVE TellView(c, d, n + 1)
  <2>1. TellView(c, a, n) BY <1>7 DEF Telling
  <2>2. ~d.unknown /\ Len(d.view) = d.oldexists /\ Sorted(d.view) BY <2>1, <1>4 DEF TellView
  <2>3. ASSUME NEW k \in 1 .. d.oldexists
        PROVE  /\ (k <= m + 1 => Knows(d.view[k], d.map[k]))
               /\ (k > m + 1 => Knows(d.view[k], c.map[(n + 1) + (k - (m + 1))]))
    <3>1. k \in 1 .. a.oldexists BY <1>4
    <3>2. CASE k <= m
      <4>1. Knows(a.view[k], a.map[k]) BY <3>1, <3>2, <2>1 DEF TellView
      <4>2. d.map[k] = a.map[k] BY <3>1, <3>2, <1>0, <1>2, <1>4
      <4>3. ~(k > m + 1) BY <3>1, <3>2, <1>0
      <4> QED BY <4>1, <4>2, <4>3, <1>4
    <3>3. CASE k = m + 1
      <4>1. k > m /\ n + (k - m) = n + 1 /\ ~(k > m + 1) BY <3>3, <1>0
      <4>2. Knows(a.view[k], c.map[n + 1]) BY <3>1, <4>1, <2>1 DEF TellView
      <4> QED BY <4>1, <4>2, <3>3, <1>2, <1>4 DEF im
    <3>4. CASE k > m + 1
      <4>1. k > m /\ n + (k - m) = (n + 1) + (k - (m + 1)) /\ ~(k <= m + 1) BY <3>1, <3>4, <1>0
      <4>2. Knows(a.view[k], c.map[n + (k - m)]) BY <3>1, <4>1, <2>1 DEF TellView
      <4> QED BY <4>1, <4>2, <1>4
    <3>5. k <= m \/ k = m + 1 \/ k > m + 1 BY <3>1, <1>0
    <3> QED BY <3>2, <3>3, <3>4, <3>5
  <2>4. Len(d.map) = m + 1 BY <1>2, <1>4
  <2> QED BY <2>2, <2>3, <2>4 DEF TellView
<1> QED BY <1>3, <1>4, <1>5, <1>6, <1>7 DEF Telling, d, im

\* An expunged message goes: the client is told, unless it does not know it.
LEMMA TellGoes ==
  ASSUME NEW c \in State, Sorted(c.map), c.oldexists <= Len(c.map), NEW n \in Nat, n + 1 <= Len(c.map),
         NEW a, Telling(c, a, n), c.map[n + 1].expunged
  PROVE  Telling(c, tell_one(a, c.map[n + 1]), n + 1)
<1> DEFINE im == c.map[n + 1]
           d == tell_one(a, im)
           m == Len(a.map)
           e == removed(a, m + 1, im.uid)
<1>0. /\ a \in State /\ c.map \in Seq(Entry) /\ a.map \in Seq(Entry) /\ im \in Entry
      /\ m \in Nat /\ c.oldexists \in Nat /\ a.oldexists \in Nat /\ a.view \in Seq(View)
  <2>1. a \in State BY DEF Telling
  <2>2. a.view \in Seq(View) BY <2>1, StateFields DEF View
  <2>3. im \in Entry /\ c.map \in Seq(Entry) /\ c.oldexists \in Nat BY StateFields
  <2>4. a.map \in Seq(Entry) /\ m \in Nat /\ a.oldexists \in Nat BY <2>1, StateFields
  <2> QED BY <2>1, <2>2, <2>3, <2>4
<1>1. d = IF m + 1 > a.oldexists THEN a ELSE [e EXCEPT !.oldexists = @ - 1] BY DEF tell_one
<1>2. Kept(a.map, c.map, n + 1) BY <1>0, KeptNext DEF Telling
<1>3. /\ e \in State /\ SameSession(a, e) /\ e.map = a.map /\ e.oldexists = a.oldexists
      /\ (Sorted(a.view) /\ m + 1 \in DOMAIN a.view /\ a.view[m + 1].uid = im.uid =>
                   e.view = RemoveAt(a.view, m + 1) /\ e.unknown = a.unknown)
  BY <1>0, RemovedFields
<1> HIDE DEF d, e, im
<1>c. /\ (n <= c.oldexists => a.oldexists = m + (c.oldexists - n))
      /\ (n >= c.oldexists => a.oldexists <= m)
  BY DEF Telling, TellCount
<1>4. CASE m + 1 > a.oldexists
  <2>1. d = a BY <1>1, <1>4
  <2>2. n >= c.oldexists /\ a.oldexists <= m /\ ~(n + 1 <= c.oldexists)
    <3> HIDE DEF m
    <3> QED BY <1>0, <1>4, <1>c
  <2>3. TellCount(c, d, n + 1) BY <2>1, <2>2 DEF TellCount
  <2>4. ASSUME InView(c) PROVE TellView(c, d, n + 1)
    <3>1. TellView(c, a, n) BY <2>4 DEF Telling
    <3>2. \A k \in 1 .. a.oldexists : k <= m /\ ~(k > m)
      <4> HIDE DEF m
      <4> QED BY <2>2, <1>0
    <3> QED BY <3>1, <3>2, <2>1 DEF TellView
  <2> QED BY <2>1, <2>3, <2>4, <1>2 DEF Telling, d, im
<1>5. CASE ~(m + 1 > a.oldexists)
  <2>1. d = [e EXCEPT !.oldexists = a.oldexists - 1] BY <1>1, <1>3, <1>5
  <2>2. /\ a.oldexists - 1 \in Nat /\ n + 1 <= c.oldexists /\ m + 1 \in 1 .. a.oldexists
        /\ (n + 1 <= c.oldexists => a.oldexists - 1 = m + (c.oldexists - (n + 1)))
        /\ (n + 1 >= c.oldexists => a.oldexists - 1 <= m)
    <3> HIDE DEF m
    <3>1. m + 1 <= a.oldexists BY <1>0, <1>5
    <3> QED BY <3>1, <1>0, <1>c, CountGoes
  <2>3. /\ d \in State /\ SameSession(e, d) /\ d.map = a.map /\ d.oldexists = a.oldexists - 1
        /\ d.view = e.view /\ d.unknown = e.unknown
    BY <2>1, <2>2, <1>3 DEF State, SameSession
  <2>4. SameSession(c, d) BY <2>3, <1>3 DEF Telling, SameSession
  <2>5. TellCount(c, d, n + 1)
    <3>1. Len(d.map) = m BY <2>3
    <3> QED BY <3>1, <2>2, <2>3, Zenon DEF TellCount
  <2>6. ASSUME InView(c) PROVE TellView(c, d, n + 1)
    <3>1. TellView(c, a, n) BY <2>6 DEF Telling
    <3>2. Sorted(a.view) /\ Len(a.view) = a.oldexists /\ ~a.unknown BY <3>1 DEF TellView
    <3>3. m + 1 \in DOMAIN a.view
      <4>1. DOMAIN a.view = 1 .. Len(a.view) BY <1>0
      <4> QED BY <4>1, <3>2, <2>2
    <3>4. m + 1 > m /\ n + ((m + 1) - m) = n + 1 BY <1>0
    <3>5. Knows(a.view[m + 1], c.map[n + 1]) BY <3>1, <3>4, <2>2 DEF TellView
    <3>6. d.view = RemoveAt(a.view, m + 1) /\ ~d.unknown
      BY <3>2, <3>3, <3>5, <1>3, <2>3 DEF Knows, im
    <3>7. /\ Len(d.view) = a.oldexists - 1
          /\ \A k \in 1 .. a.oldexists - 1 : d.view[k] = IF k < m + 1 THEN a.view[k] ELSE a.view[k + 1]
      <4>1. /\ Len(RemoveAt(a.view, m + 1)) = Len(a.view) - 1
            /\ \A k \in 1 .. Len(a.view) - 1 :
                 RemoveAt(a.view, m + 1)[k] = IF k < m + 1 THEN a.view[k] ELSE a.view[k + 1]
        BY <3>3, <1>0, RemovedAt
      <4> QED BY <4>1, <3>2, <3>6, Zenon
    <3>8. Sorted(d.view) BY <3>2, <3>3, <3>6, <1>0, ViewUids, RemovedSame
    <3>9. ASSUME NEW k \in 1 .. d.oldexists
          PROVE  /\ (k <= m => Knows(d.view[k], d.map[k]))
                 /\ (k > m => Knows(d.view[k], c.map[(n + 1) + (k - m)]))
      <4>0. k \in 1 .. a.oldexists - 1 /\ k \in 1 .. a.oldexists /\ k + 1 \in 1 .. a.oldexists
        BY <2>2, <2>3, <1>0, SMTT(40)
      <4>1. CASE k <= m
        <5>1. k < m + 1 /\ ~(k > m) BY <4>0, <4>1, <1>0
        <5>2. Knows(a.view[k], a.map[k]) BY <3>1, <4>0, <4>1 DEF TellView
        <5> QED BY <5>1, <5>2, <4>0, <3>7, <2>3
      <4>2. CASE k > m
        <5>1. ~(k < m + 1) /\ ~(k <= m) /\ k + 1 > m /\ n + ((k + 1) - m) = (n + 1) + (k - m)
          <6> HIDE DEF m
          <6>1. k \in Nat /\ m \in Nat BY <4>0, <1>0
          <6> QED BY <6>1, <4>2, CountShifts
        <5>2. Knows(a.view[k + 1], c.map[n + ((k + 1) - m)]) BY <3>1, <4>0, <5>1 DEF TellView
        <5> QED BY <5>1, <5>2, <4>0, <3>7
      <4> QED BY <4>0, <4>1, <4>2, <1>0
    <3>10. Len(d.map) = m BY <2>3
    <3> QED BY <3>6, <3>7, <3>8, <3>9, <3>10, <2>3 DEF TellView
  <2>7. Kept(d.map, c.map, n + 1) BY <2>3, <1>2
  <2> QED BY <2>3, <2>4, <2>5, <2>6, <2>7 DEF Telling, d, im
<1> QED BY <1>4, <1>5

LEMMA ViewSorted ==
  ASSUME NEW c \in State, Sorted(c.map), c.oldexists <= Len(c.map), InView(c)
  PROVE  Sorted(c.view)
<1> SUFFICES ASSUME NEW i \in DOMAIN c.view, NEW j \in DOMAIN c.view, i < j
             PROVE  c.view[i].uid < c.view[j].uid
  BY DEF Sorted
<1>1. /\ i \in 1 .. c.oldexists /\ j \in 1 .. c.oldexists /\ i \in DOMAIN c.map /\ j \in DOMAIN c.map
  <2>1. /\ DOMAIN c.view = 1 .. Len(c.view) /\ DOMAIN c.map = 1 .. Len(c.map) /\ Len(c.map) \in Nat
        /\ c.oldexists \in Nat
    BY StateFields
  <2>2. Len(c.view) = c.oldexists BY DEF InView
  <2> QED BY <2>1, <2>2
<1>2. c.view[i].uid = c.map[i].uid /\ c.view[j].uid = c.map[j].uid BY <1>1 DEF InView
<1> QED BY <1>1, <1>2 DEF Sorted

LEMMA TellExpunge ==
  ASSUME NEW c \in State, Sorted(c.map), c.oldexists <= Len(c.map)
  PROVE  LET d == index_tellexpunge(c)
         IN  /\ d \in State /\ SameSession(c, d) /\ d.delayed_modseq = 0
             /\ Kept(d.map, c.map, Len(c.map)) /\ d.oldexists <= Len(d.map)
             /\ (InView(c) => InView(d))
<1>1. Len(c.map) \in Nat /\ c.oldexists \in Nat /\ DOMAIN c.map = 1 .. Len(c.map) BY StateFields
<1>2. PICK f : /\ f[0] = [c EXCEPT !.map = <<>>]
               /\ \A k \in 1 .. Len(c.map) : f[k] = tell_one(f[k - 1], c.map[k])
               /\ index_tellexpunge(c) = [f[Len(c.map)] EXCEPT !.delayed_modseq = 0]
  BY <1>1, ToldSteps
<1> DEFINE I == {n \in Nat : n <= Len(c.map) => Telling(c, f[n], n)}
<1>3. 0 \in I
  <2> DEFINE a == f[0]
  <2>1. /\ a \in State /\ SameSession(c, a) /\ a.map = <<>> /\ a.oldexists = c.oldexists
        /\ a.view = c.view /\ a.unknown = c.unknown
    <3>1. <<>> \in Seq(Entry) OBVIOUS
    <3> QED BY <1>2, <3>1 DEF State, SameSession
  <2> HIDE DEF a
  <2>2. Kept(a.map, c.map, 0) BY <2>1 DEF Kept, Sorted
  <2>3. Len(a.map) = 0 BY <2>1
  <2>4. TellCount(c, a, 0) BY <2>1, <2>3, <1>1 DEF TellCount
  <2>5. ASSUME InView(c) PROVE TellView(c, a, 0)
    <3>1. Sorted(a.view) BY <2>1, <2>5, ViewSorted
    <3>2. ~a.unknown /\ Len(a.view) = a.oldexists BY <2>1, <2>5 DEF InView
    <3>3. ASSUME NEW k \in 1 .. a.oldexists
          PROVE  ~(k <= 0) /\ Knows(a.view[k], c.map[0 + (k - 0)])
      <4>1. ~(k <= 0) /\ 0 + (k - 0) = k BY <2>1, <1>1
      <4> QED BY <4>1, <2>1, <2>5 DEF InView, Knows
    <3> QED BY <3>1, <3>2, <3>3, <2>3 DEF TellView
  <2> QED BY <2>1, <2>2, <2>4, <2>5 DEF Telling, a
<1>4. ASSUME NEW n \in Nat, n \in I PROVE n + 1 \in I
  <2> SUFFICES ASSUME n + 1 <= Len(c.map) PROVE Telling(c, f[n + 1], n + 1) OBVIOUS
  <2>1. n <= Len(c.map) /\ n + 1 \in 1 .. Len(c.map) /\ (n + 1) - 1 = n BY <1>1
  <2>2. Telling(c, f[n], n) BY <2>1, <1>4
  <2>3. f[n + 1] = tell_one(f[n], c.map[n + 1]) BY <2>1, <1>2
  <2> QED BY <2>2, <2>3, TellStays, TellGoes
<1>5. Len(c.map) \in I
  <2> HIDE DEF I
  <2> QED BY <1>1, <1>3, <1>4, NatSet
<1> DEFINE e == f[Len(c.map)]
           d == index_tellexpunge(c)
<1>6. Telling(c, e, Len(c.map)) BY <1>1, <1>5
<1>7. d = [e EXCEPT !.delayed_modseq = 0] BY <1>2
<1> HIDE DEF e, d
<1>8. /\ d \in State /\ SameSession(e, d) /\ d.delayed_modseq = 0 /\ d.map = e.map
      /\ d.oldexists = e.oldexists /\ d.view = e.view /\ d.unknown = e.unknown
  <2>1. e \in State BY <1>6 DEF Telling
  <2> QED BY <2>1, <1>7 DEF State, SameSession
<1>9. SameSession(c, d) BY <1>6, <1>8 DEF Telling, SameSession
<1>10. Kept(d.map, c.map, Len(c.map)) BY <1>6, <1>8 DEF Telling
<1>11. d.oldexists <= Len(d.map)
  <2>1. Len(c.map) >= c.oldexists BY <1>1
  <2>2. e.oldexists <= Len(e.map) BY <2>1, <1>6 DEF Telling, TellCount
  <2> QED BY <2>2, <1>8
<1>12. ASSUME InView(c) PROVE InView(d)
  <2>1. TellView(c, e, Len(c.map)) BY <1>6, <1>12 DEF Telling
  <2>2. ~d.unknown /\ Len(d.view) = d.oldexists BY <2>1, <1>8 DEF TellView
  <2>3. \A k \in 1 .. d.oldexists : k <= Len(d.map)
    <3>1. d.oldexists \in Nat /\ Len(d.map) \in Nat BY <1>8, StateFields
    <3> QED BY <3>1, <1>11
  <2>4. \A k \in 1 .. d.oldexists : Knows(d.view[k], d.map[k]) BY <2>1, <2>3, <1>8 DEF TellView
  <2>5. ASSUME d.oldhighestmodseq = d.highestmodseq, NEW j \in changed(d) PROVE d.map[j].expunged
    <3>1. j \in DOMAIN d.map /\ d.map[j].modseq > d.map[j].told BY DEF changed
    <3>2. PICK k \in 1 .. Len(c.map) : d.map[j] = c.map[k] BY <3>1, <1>10 DEF Kept
    <3>3. k \in changed(c) BY <3>1, <3>2, <1>1 DEF changed
    <3>4. c.oldhighestmodseq = c.highestmodseq BY <2>5, <1>9 DEF SameSession
    <3> QED BY <3>2, <3>3, <3>4, <1>12 DEF InView
  <2> QED BY <2>2, <2>4, <2>5 DEF InView, Knows
<1> QED BY <1>8, <1>9, <1>10, <1>11, <1>12 DEF d

LEMMA KeptMap ==
  ASSUME NEW m, NEW b, NEW fs, Box(m, b, fs), NEW c \in State, MapInv(b, c), NEW d \in State,
         SameSession(c, d), d.delayed_modseq = 0, Kept(d.map, c.map, Len(c.map)),
         d.oldexists <= Len(d.map)
  PROVE  /\ MapInv(b, d) /\ Clean(m, d.map)
         /\ \A j \in DOMAIN d.map : ~d.map[j].expunged
<1> DEFINE n == c.highestmodseq
<1>0. /\ DOMAIN c.map = 1 .. Len(c.map) /\ Len(c.map) \in Nat /\ n \in Nat
      /\ DOMAIN d.map = 1 .. Len(d.map) /\ Len(d.map) \in Nat
  BY StateFields
<1>1. ASSUME NEW j \in DOMAIN d.map
      PROVE  \E k \in DOMAIN c.map : d.map[j] = c.map[k] /\ ~d.map[j].expunged /\ IsEntry(b, n, d.map[j])
  <2>1. PICK k \in 1 .. Len(c.map) : d.map[j] = c.map[k] /\ ~c.map[k].expunged BY DEF Kept
  <2>2. IsEntry(b, n, c.map[k]) BY <1>0 DEF MapInv
  <2> QED BY <2>1, <2>2, <1>0
<1>2. /\ d.highestmodseq = n /\ d.generation = c.generation /\ d.oldhighestmodseq = c.oldhighestmodseq
      /\ d.modseq = c.modseq
  BY DEF SameSession
<1>3. /\ d.highestmodseq <= b.highestmodseq /\ d.generation <= b.generation_no
      /\ d.oldhighestmodseq <= d.highestmodseq /\ d.modseq <= d.highestmodseq
  BY <1>2 DEF MapInv
<1>4. d.delayed_modseq <= d.highestmodseq BY <1>0, <1>2
<1>5. Sorted(d.map) BY DEF Kept
<1>6. d.generation = b.generation_no => \A j \in DOMAIN d.map : Located(b, d.map[j])
  BY <1>1, <1>2 DEF MapInv
<1>7. Complete(b, n, d.map)
  <2> SUFFICES ASSUME NEW r \in DOMAIN b.recs, ~b.recs[r].expunged,
                      b.recs[r].modseq <= n \/ (d.map # <<>> /\ b.recs[r].uid <= d.map[Len(d.map)].uid)
               PROVE  \E j \in DOMAIN d.map : d.map[j].uid = b.recs[r].uid
    BY DEF Complete
  <2>1. b.recs[r].modseq <= n \/ (c.map # <<>> /\ b.recs[r].uid <= c.map[Len(c.map)].uid)
    <3>1. CASE b.recs[r].modseq <= n BY <3>1
    <3>2. CASE d.map # <<>> /\ b.recs[r].uid <= d.map[Len(d.map)].uid
      <4>1. Len(d.map) \in DOMAIN d.map
        <5>1. d.map \in Seq(Entry) BY StateFields
        <5> QED BY <5>1, <3>2
      <4>2. PICK k \in DOMAIN c.map : d.map[Len(d.map)] = c.map[k] BY <4>1, <1>1
      <4>3. Len(c.map) \in DOMAIN c.map /\ (k = Len(c.map) \/ k < Len(c.map)) BY <1>0
      <4>4. k < Len(c.map) => c.map[k].uid < c.map[Len(c.map)].uid BY <4>3 DEF MapInv, Sorted
      <4>5. b.recs[r].uid \in Nat /\ c.map[k].uid \in Nat /\ c.map[Len(c.map)].uid \in Nat
        BY <4>3, BoxUids, StateFields, EntryFields
      <4>6. b.recs[r].uid <= c.map[Len(c.map)].uid BY <3>2, <4>2, <4>3, <4>4, <4>5
      <4>7. c.map # <<>> BY <4>3
      <4> QED BY <4>6, <4>7
    <3> QED BY <3>1, <3>2
  <2>2. PICK j \in DOMAIN c.map : c.map[j].uid = b.recs[r].uid BY <2>1 DEF MapInv, Complete
  <2>3. ~c.map[j].expunged
    <3>1. IsEntry(b, n, c.map[j]) BY DEF MapInv
    <3> QED BY <3>1, <2>2 DEF IsEntry, Dead
  <2>4. PICK i \in DOMAIN d.map : d.map[i] = c.map[j] BY <2>3, <1>0 DEF Kept
  <2> QED BY <2>2, <2>4
<1> HIDE DEF n
<1>8. MapInv(b, d) BY <1>1, <1>2, <1>3, <1>4, <1>5, <1>6, <1>7 DEF MapInv
<1>9. Clean(m, d.map) BY <1>1 DEF Clean, IsEntry
<1> QED BY <1>1, <1>8, <1>9

LEMMA CoreExpunged ==
  ASSUME NEW m, NEW b, NEW fs, Box(m, b, fs), NEW c, Core(b, c)
  PROVE  LET d == index_tellexpunge(c)
         IN  /\ Core(b, d) /\ SameSession(c, d) /\ Clean(m, d.map)
             /\ \A j \in DOMAIN d.map : ~d.map[j].expunged
<1> DEFINE d == index_tellexpunge(c)
<1>1. c \in State /\ MapInv(b, c) /\ Sorted(c.map) /\ c.oldexists <= Len(c.map) BY DEF Core, MapInv
<1>2. /\ d \in State /\ SameSession(c, d) /\ d.delayed_modseq = 0
      /\ Kept(d.map, c.map, Len(c.map)) /\ d.oldexists <= Len(d.map)
      /\ (InView(c) => InView(d))
  BY <1>1, TellExpunge
<1> HIDE DEF d
<1>3. /\ MapInv(b, d) /\ Clean(m, d.map)
      /\ \A j \in DOMAIN d.map : ~d.map[j].expunged
  BY <1>1, <1>2, KeptMap
<1>4. ~d.misled => InView(d) BY <1>2 DEF Core, SameSession
<1>5. Covered(d.map, d.modseq) BY <1>3 DEF Covered
<1> QED BY <1>2, <1>3, <1>4, <1>5 DEF Core, d

-----------------------------------------------------------------------------
\* index_tellexists, index_printflags and index_tellchanges

LEMMA KnownSeq ==
  ASSUME NEW q \in Seq(Entry)
  PROVE  /\ known(q) \in Seq(View) /\ Len(known(q)) = Len(q) /\ DOMAIN known(q) = DOMAIN q
         /\ \A i \in DOMAIN q : /\ known(q)[i] = [uid |-> q[i].uid, flags |-> q[i].flags]
                                /\ known(q)[i].uid = q[i].uid /\ known(q)[i].flags = q[i].flags
<1> DEFINE d == known(q)
<1>0. DOMAIN q = 1 .. Len(q) /\ Len(q) \in Nat /\ \A i \in DOMAIN q : q[i] \in Entry OBVIOUS
<1>1. d = [i \in 1 .. Len(q) |-> [uid |-> q[i].uid, flags |-> q[i].flags]] BY <1>0 DEF known
<1>2. ASSUME NEW i \in 1 .. Len(q) PROVE [uid |-> q[i].uid, flags |-> q[i].flags] \in View
  BY <1>0, EntryFields DEF View
<1> HIDE DEF d
<1>3. d = [i \in 1 .. Len(q) |-> d[i]] /\ \A i \in 1 .. Len(q) : d[i] \in View BY <1>1, <1>2
<1>4. d \in Seq(View) /\ Len(d) = Len(q) /\ DOMAIN d = 1 .. Len(q) BY <1>0, <1>3, IsSeq
<1>5. \A i \in 1 .. Len(q) : d[i] = [uid |-> q[i].uid, flags |-> q[i].flags] BY <1>1
<1> QED BY <1>0, <1>4, <1>5 DEF d

LEMMA SubSequence ==
  ASSUME NEW T, NEW q \in Seq(T), NEW k \in Nat, k <= Len(q)
  PROVE  /\ Len(SubSeq(q, k + 1, Len(q))) = Len(q) - k
         /\ \A i \in 1 .. Len(q) - k : SubSeq(q, k + 1, Len(q))[i] = q[k + i]
<1> DEFINE n == Len(q)
<1>1. n \in Nat /\ k <= n OBVIOUS
<1>2. SubSeq(q, k + 1, n) = [i \in 1 .. n - k |-> q[k + i]]
  <2>1. (n - (k + 1)) + 1 = n - k /\ \A i \in 1 .. n - k : (i + (k + 1)) - 1 = k + i BY <1>1
  <2> QED BY <1>1
<1>3. n - k \in Nat BY <1>1
<1> HIDE DEF n
<1> QED BY <1>2, <1>3 DEF n

\* The view after EXISTS
LEMMA ViewGrows ==
  ASSUME NEW map \in Seq(Entry), NEW view \in Seq(View)
  PROVE  LET q == view \o known(SubSeq(map, Len(view) + 1, Len(map)))
         IN  /\ q \in Seq(View)
             /\ Len(view) <= Len(map) =>
                  /\ Len(q) = Len(map)
                  /\ \A k \in 1 .. Len(view) : q[k] = view[k]
                  /\ \A k \in 1 .. Len(map) : k > Len(view) =>
                       q[k] = [uid |-> map[k].uid, flags |-> map[k].flags]
<1> DEFINE s == SubSeq(map, Len(view) + 1, Len(map))
           w == known(s)
           q == view \o w
<1>0. Len(map) \in Nat /\ Len(view) \in Nat /\ DOMAIN map = 1 .. Len(map) /\ DOMAIN view = 1 .. Len(view)
  OBVIOUS
<1>1. s \in Seq(Entry)
  <2>1. \A i \in 1 .. Len(map) : map[i] \in Entry OBVIOUS
  <2> QED BY <1>0, <2>1
<1>2. ASSUME Len(view) <= Len(map)
      PROVE  /\ Len(s) = Len(map) - Len(view)
             /\ \A k \in 1 .. Len(map) - Len(view) : s[k] = map[Len(view) + k]
  <2> DEFINE k == Len(view)
  <2>1. k \in Nat /\ k <= Len(map) BY <1>0, <1>2
  <2> HIDE DEF k
  <2>2. /\ Len(SubSeq(map, k + 1, Len(map))) = Len(map) - k
        /\ \A i \in 1 .. Len(map) - k : SubSeq(map, k + 1, Len(map))[i] = map[k + i]
    BY <2>1, SubSequence
  <2> QED BY <2>2 DEF k
<1> HIDE DEF s
<1>3. /\ w \in Seq(View) /\ Len(w) = Len(s) /\ DOMAIN w = DOMAIN s
      /\ \A i \in DOMAIN s : w[i] = [uid |-> s[i].uid, flags |-> s[i].flags]
  BY <1>1, KnownSeq
<1> HIDE DEF w
<1>w. w \in Seq(View) BY <1>3
<1>4. /\ q \in Seq(View) /\ Len(q) = Len(view) + Len(w)
      /\ \A i \in DOMAIN view : q[i] = view[i]
      /\ \A i \in DOMAIN w : q[Len(view) + i] = w[i]
  BY <1>w, Joined
<1> HIDE DEF q
<1>5. ASSUME Len(view) <= Len(map)
      PROVE  /\ Len(q) = Len(map)
             /\ \A k \in 1 .. Len(view) : q[k] = view[k]
             /\ \A k \in 1 .. Len(map) : k > Len(view) =>
                  q[k] = [uid |-> map[k].uid, flags |-> map[k].flags]
  <2>1. Len(q) = Len(map)
    <3>1. Len(q) = Len(view) + (Len(map) - Len(view)) BY <1>2, <1>3, <1>4, <1>5, Zenon
    <3> QED BY <3>1, <1>0
  <2>2. \A k \in 1 .. Len(view) : q[k] = view[k] BY <1>0, <1>4
  <2>3. ASSUME NEW k \in 1 .. Len(map), k > Len(view)
        PROVE  q[k] = [uid |-> map[k].uid, flags |-> map[k].flags]
    <3>1. k - Len(view) \in 1 .. Len(map) - Len(view) /\ Len(view) + (k - Len(view)) = k
      BY <1>0, <2>3
    <3>2. s[k - Len(view)] = map[k] BY <3>1, <1>2, <1>5
    <3>3. k - Len(view) \in DOMAIN s
      <4>1. DOMAIN s = 1 .. Len(s) BY <1>1
      <4> QED BY <4>1, <3>1, <1>2, <1>5
    <3> QED BY <3>1, <3>2, <3>3, <1>3, <1>4
  <2> QED BY <2>1, <2>2, <2>3
<1> QED BY <1>4, <1>5 DEF q, w, s

LEMMA TellExists ==
  ASSUME NEW c \in State, c.oldexists <= Len(c.map)
  PROVE  LET d == index_tellexists(c)
         IN  /\ d \in State /\ SameSession(c, d) /\ d.map = c.map /\ d.oldexists = Len(c.map)
             /\ d.delayed_modseq = c.delayed_modseq /\ d.unknown = c.unknown
             /\ (InView(c) => InView(d))
<1> DEFINE d == index_tellexists(c)
           q == c.view \o known(SubSeq(c.map, Len(c.view) + 1, Len(c.map)))
<1>0. /\ c.map \in Seq(Entry) /\ c.view \in Seq(View) /\ Len(c.map) \in Nat /\ c.oldexists \in Nat
      /\ DOMAIN c.map = 1 .. Len(c.map)
  BY StateFields DEF View
<1>1. /\ q \in Seq(View)
      /\ Len(c.view) <= Len(c.map) =>
           /\ Len(q) = Len(c.map)
           /\ \A k \in 1 .. Len(c.view) : q[k] = c.view[k]
           /\ \A k \in 1 .. Len(c.map) : k > Len(c.view) =>
                q[k] = [uid |-> c.map[k].uid, flags |-> c.map[k].flags]
  BY <1>0, ViewGrows
<1>2. d = [c EXCEPT !.oldexists = Len(c.map), !.view = q] BY DEF index_tellexists
<1> HIDE DEF q
<1>3. /\ d \in State /\ SameSession(c, d) /\ d.map = c.map /\ d.oldexists = Len(c.map)
      /\ d.delayed_modseq = c.delayed_modseq /\ d.unknown = c.unknown /\ d.view = q
  BY <1>0, <1>1, <1>2 DEF State, SameSession, View
<1> HIDE DEF d
<1>4. ASSUME InView(c) PROVE InView(d)
  <2>1. Len(c.view) = c.oldexists /\ ~c.unknown BY <1>4 DEF InView
  <2>2. /\ Len(q) = Len(c.map)
        /\ \A k \in 1 .. c.oldexists : q[k] = c.view[k]
        /\ \A k \in 1 .. Len(c.map) : k > c.oldexists =>
                q[k] = [uid |-> c.map[k].uid, flags |-> c.map[k].flags]
    BY <2>1, <1>1
  <2>3. ASSUME NEW j \in 1 .. Len(c.map) PROVE Knows(q[j], c.map[j])
    <3>1. CASE j > c.oldexists
      <4>1. q[j] = [uid |-> c.map[j].uid, flags |-> c.map[j].flags] BY <3>1, <2>2
      <4> QED BY <4>1 DEF Knows
    <3>2. CASE ~(j > c.oldexists)
      <4>1. j \in 1 .. c.oldexists BY <3>2, <1>0
      <4> QED BY <4>1, <2>2, <1>4 DEF InView, Knows
    <3> QED BY <3>1, <3>2
  <2>4. changed(d) = changed(c) BY <1>3 DEF changed
  <2>5. d.oldhighestmodseq = d.highestmodseq => \A j \in changed(d) : d.map[j].expunged
    BY <2>4, <1>3, <1>4 DEF InView, SameSession
  <2> QED BY <2>1, <2>2, <2>3, <2>5, <1>3 DEF InView, Knows
<1> QED BY <1>3, <1>4 DEF d

LEMMA CoreExists ==
  ASSUME NEW b, NEW c, Core(b, c)
  PROVE  LET d == exists_changed(c)
         IN  /\ Core(b, d) /\ SameSession(c, d) /\ d.map = c.map /\ d.oldexists = Len(c.map)
<1> DEFINE d == exists_changed(c)
<1>0. c \in State /\ MapInv(b, c) /\ c.oldexists <= Len(c.map) /\ Len(c.map) \in Nat
  BY StateFields DEF Core, MapInv
<1>1. CASE c.oldexists = Len(c.map)
  <2>1. d = c BY <1>1 DEF exists_changed
  <2> HIDE DEF d
  <2> QED BY <1>1, <2>1 DEF SameSession, d
<1>2. CASE c.oldexists # Len(c.map)
  <2>1. d = index_tellexists(c) BY <1>2 DEF exists_changed
  <2> HIDE DEF d
  <2>2. /\ d \in State /\ SameSession(c, d) /\ d.map = c.map /\ d.oldexists = Len(c.map)
        /\ d.delayed_modseq = c.delayed_modseq /\ (InView(c) => InView(d))
    BY <1>0, <2>1, TellExists
  <2>3. Len(c.map) <= Len(c.map) BY <1>0
  <2>4. MapInv(b, d) BY <1>0, <2>2, <2>3 DEF MapInv, SameSession
  <2>5. Core(b, d) BY <2>2, <2>4 DEF Core, SameSession
  <2> QED BY <2>2, <2>5 DEF d
<1> QED BY <1>1, <1>2

\* The entry after a change is told
SameEntry(im, u) ==
  /\ u.uid = im.uid /\ u.recno = im.recno /\ u.modseq = im.modseq /\ u.flags = im.flags
  /\ u.expunged = im.expunged /\ u.unlinked = im.unlinked /\ (u.told = im.told \/ u.told = im.modseq)

LEMMA PrintFlags ==
  ASSUME NEW c \in State, NEW js \in SUBSET DOMAIN c.map
  PROVE  LET d == printflags(c, js)
         IN  /\ d \in State /\ SameSession(c, d) /\ d.oldexists = c.oldexists
             /\ d.delayed_modseq = c.delayed_modseq /\ d.unknown = c.unknown
             /\ Len(d.map) = Len(c.map) /\ DOMAIN d.map = DOMAIN c.map
             /\ \A j \in DOMAIN c.map : SameEntry(c.map[j], d.map[j])
             /\ \A j \in DOMAIN c.map : d.map[j].told = IF j \in js THEN c.map[j].modseq ELSE c.map[j].told
             /\ Len(d.view) = Len(c.view)
             /\ \A j \in DOMAIN c.view :
                  /\ d.view[j].uid = c.view[j].uid
                  /\ d.view[j].flags = IF j \in js THEN c.map[j].flags ELSE c.view[j].flags
<1> DEFINE d == printflags(c, js)
           map == [j \in DOMAIN c.map |-> IF j \in js THEN [c.map[j] EXCEPT !.told = c.map[j].modseq]
                                          ELSE c.map[j]]
           view == [j \in DOMAIN c.view |-> IF j \in js THEN [c.view[j] EXCEPT !.flags = c.map[j].flags]
                                            ELSE c.view[j]]
<1>0. /\ DOMAIN c.map = 1 .. Len(c.map) /\ Len(c.map) \in Nat
      /\ DOMAIN c.view = 1 .. Len(c.view) /\ Len(c.view) \in Nat
      /\ \A j \in DOMAIN c.map : c.map[j] \in Entry
      /\ \A j \in DOMAIN c.view : c.view[j] \in View
  BY StateFields DEF View
<1>1. ASSUME NEW j \in DOMAIN c.map
      PROVE  /\ map[j] \in Entry /\ SameEntry(c.map[j], map[j])
             /\ map[j].told = IF j \in js THEN c.map[j].modseq ELSE c.map[j].told
  <2>1. c.map[j] \in Entry BY <1>0
  <2>2. CASE j \in js
    <3>1. map[j] = [c.map[j] EXCEPT !.told = c.map[j].modseq] BY <2>2
    <3>2. c.map[j].modseq \in Nat BY <2>1, EntryFields
    <3> HIDE DEF map
    <3> QED BY <2>1, <2>2, <3>1, <3>2 DEF Entry, SameEntry
  <2>3. CASE j \notin js BY <2>1, <2>3 DEF SameEntry
  <2> QED BY <2>2, <2>3
<1>2. ASSUME NEW j \in DOMAIN c.view
      PROVE  /\ view[j] \in View /\ view[j].uid = c.view[j].uid
             /\ view[j].flags = IF j \in js THEN c.map[j].flags ELSE c.view[j].flags
  <2>1. c.view[j] \in View BY <1>0
  <2>2. CASE j \in js
    <3>1. view[j] = [c.view[j] EXCEPT !.flags = c.map[j].flags] BY <2>2
    <3>2. c.map[j].flags \in Flags BY <2>2, <1>0, EntryFields
    <3> HIDE DEF view
    <3> QED BY <2>1, <2>2, <3>1, <3>2 DEF View
  <2>3. CASE j \notin js BY <2>1, <2>3
  <2> QED BY <2>2, <2>3
<1>3. d = [c EXCEPT !.map = map, !.view = view] BY DEF printflags
<1>4. /\ DOMAIN map = 1 .. Len(c.map) /\ map = [j \in 1 .. Len(c.map) |-> map[j]]
      /\ DOMAIN view = 1 .. Len(c.view) /\ view = [j \in 1 .. Len(c.view) |-> view[j]]
  BY <1>0
<1> HIDE DEF map, view
<1>5. map \in Seq(Entry) /\ Len(map) = Len(c.map) BY <1>0, <1>1, <1>4, IsSeq
<1>6. view \in Seq(View) /\ Len(view) = Len(c.view) BY <1>0, <1>2, <1>4, IsSeq
<1>7. /\ d \in State /\ SameSession(c, d) /\ d.oldexists = c.oldexists
      /\ d.delayed_modseq = c.delayed_modseq /\ d.unknown = c.unknown
      /\ d.map = map /\ d.view = view
  BY <1>3, <1>5, <1>6 DEF State, SameSession, View
<1> HIDE DEF d
<1> QED BY <1>0, <1>1, <1>2, <1>4, <1>5, <1>6, <1>7 DEF d

LEMMA EntrySame ==
  ASSUME NEW b, NEW n, NEW im \in Entry, NEW u, SameEntry(im, u), IsEntry(b, n, im)
  PROVE  IsEntry(b, n, u)
<1>1. im.modseq <= im.modseq BY EntryFields
<1>2. u.told <= u.modseq BY <1>1 DEF SameEntry, IsEntry
<1>3. (Seen(b, n, im) => Seen(b, n, u)) /\ (Dead(b, im) => Dead(b, u)) /\ (Alive(b, n, im) => Alive(b, n, u))
  BY DEF SameEntry, Seen, Dead, Alive
<1> QED BY <1>2, <1>3 DEF IsEntry, SameEntry

\* The same messages, told or not
SameMap(p, q) ==
  /\ Len(q) = Len(p) /\ DOMAIN q = DOMAIN p
  /\ \A j \in DOMAIN p : SameEntry(p[j], q[j])

LEMMA MapSame ==
  ASSUME NEW b, NEW c \in State, NEW d \in State, MapInv(b, c), SameMap(c.map, d.map),
         d.highestmodseq = c.highestmodseq, d.generation = c.generation,
         d.oldhighestmodseq <= c.highestmodseq, d.modseq <= c.highestmodseq,
         d.oldexists <= Len(c.map), d.delayed_modseq <= c.highestmodseq
  PROVE  MapInv(b, d)
<1> DEFINE n == c.highestmodseq
<1>1. \A j \in DOMAIN c.map : c.map[j] \in Entry /\ IsEntry(b, n, c.map[j]) BY StateFields DEF MapInv
<1>2. \A j \in DOMAIN d.map : j \in DOMAIN c.map /\ SameEntry(c.map[j], d.map[j]) /\ d.map[j].uid = c.map[j].uid
  BY DEF SameMap, SameEntry
<1>3. \A j \in DOMAIN d.map : IsEntry(b, n, d.map[j]) BY <1>1, <1>2, EntrySame
<1>4. Sorted(d.map) BY <1>2 DEF MapInv, Sorted
<1>5. c.generation = b.generation_no => \A j \in DOMAIN d.map : Located(b, d.map[j])
  BY <1>2 DEF MapInv, Located, SameEntry
<1>6. Complete(b, n, d.map)
  <2> SUFFICES ASSUME NEW r \in DOMAIN b.recs, ~b.recs[r].expunged,
                      b.recs[r].modseq <= n \/ (d.map # <<>> /\ b.recs[r].uid <= d.map[Len(d.map)].uid)
               PROVE  \E j \in DOMAIN d.map : d.map[j].uid = b.recs[r].uid
    BY DEF Complete
  <2>1. d.map # <<>> => c.map # <<>> /\ d.map[Len(d.map)].uid = c.map[Len(c.map)].uid
    <3> SUFFICES ASSUME d.map # <<>>
                 PROVE  c.map # <<>> /\ d.map[Len(d.map)].uid = c.map[Len(c.map)].uid
      OBVIOUS
    <3>0. d.map \in Seq(Entry) /\ c.map \in Seq(Entry) BY StateFields
    <3>1. Len(d.map) \in DOMAIN d.map BY <3>0
    <3>2. Len(c.map) = Len(d.map) BY DEF SameMap
    <3>3. d.map[Len(d.map)].uid = c.map[Len(c.map)].uid /\ Len(c.map) \in DOMAIN c.map BY <3>1, <3>2, <1>2
    <3> QED BY <3>0, <3>3
  <2>2. PICK j \in DOMAIN c.map : c.map[j].uid = b.recs[r].uid BY <2>1 DEF MapInv, Complete
  <2> QED BY <2>2, <1>2 DEF SameMap
<1> HIDE DEF n
<1>7. Len(d.map) = Len(c.map) BY DEF SameMap
<1>8. c.highestmodseq <= b.highestmodseq /\ c.generation <= b.generation_no BY DEF MapInv
<1> QED BY <1>3, <1>4, <1>5, <1>6, <1>7, <1>8 DEF MapInv, n

LEMMA CorePrinted ==
  ASSUME NEW b, NEW c, Core(b, c), NEW js \in SUBSET DOMAIN c.map
  PROVE  LET d == printflags(c, js)
         IN  /\ Core(b, d) /\ SameSession(c, d) /\ SameMap(c.map, d.map)
             /\ d.oldexists = c.oldexists /\ changed(d) = changed(c) \ js
             /\ d.delayed_modseq = c.delayed_modseq
<1> DEFINE d == printflags(c, js)
<1>0. c \in State /\ MapInv(b, c) BY DEF Core
<1>1. /\ d \in State /\ SameSession(c, d) /\ d.oldexists = c.oldexists
      /\ d.delayed_modseq = c.delayed_modseq /\ d.unknown = c.unknown
      /\ Len(d.map) = Len(c.map) /\ DOMAIN d.map = DOMAIN c.map
      /\ \A j \in DOMAIN c.map : SameEntry(c.map[j], d.map[j])
      /\ \A j \in DOMAIN c.map : d.map[j].told = IF j \in js THEN c.map[j].modseq ELSE c.map[j].told
      /\ Len(d.view) = Len(c.view)
      /\ \A j \in DOMAIN c.view :
           /\ d.view[j].uid = c.view[j].uid
           /\ d.view[j].flags = IF j \in js THEN c.map[j].flags ELSE c.view[j].flags
  BY <1>0, PrintFlags
<1> HIDE DEF d
<1>2. SameMap(c.map, d.map) BY <1>1 DEF SameMap
<1>3. MapInv(b, d)
  <2>1. /\ d.highestmodseq = c.highestmodseq /\ d.generation = c.generation
        /\ d.oldhighestmodseq <= c.highestmodseq /\ d.modseq <= c.highestmodseq
        /\ d.oldexists <= Len(c.map) /\ d.delayed_modseq <= c.highestmodseq
    BY <1>0, <1>1 DEF SameSession, MapInv
  <2> QED BY <2>1, <1>0, <1>1, <1>2, MapSame
<1>4. changed(d) = changed(c) \ js
  <2>1. ASSUME NEW j \in DOMAIN c.map
        PROVE  d.map[j].modseq > d.map[j].told <=> (c.map[j].modseq > c.map[j].told /\ j \notin js)
    <3>1. c.map[j].modseq \in Nat BY <1>0, StateFields, EntryFields
    <3>2. d.map[j].modseq = c.map[j].modseq BY <1>1 DEF SameEntry
    <3> QED BY <3>1, <3>2, <1>1
  <2> QED BY <2>1, <1>1 DEF changed
<1>5. ASSUME InView(c) PROVE InView(d)
  <2>1. ~d.unknown /\ Len(d.view) = d.oldexists BY <1>1, <1>5 DEF InView
  <2>2. ASSUME NEW j \in 1 .. d.oldexists PROVE Knows(d.view[j], d.map[j])
    <3>1. j \in DOMAIN c.view /\ j \in DOMAIN c.map /\ j \in 1 .. c.oldexists
      <4>1. /\ DOMAIN c.view = 1 .. Len(c.view) /\ DOMAIN c.map = 1 .. Len(c.map)
            /\ Len(c.map) \in Nat /\ c.oldexists \in Nat
        BY <1>0, StateFields
      <4>2. c.oldexists <= Len(c.map) BY <1>0 DEF MapInv
      <4> QED BY <4>1, <4>2, <1>1, <1>5 DEF InView
    <3>2. Knows(c.view[j], c.map[j]) BY <3>1, <1>5 DEF InView, Knows
    <3>3. SameEntry(c.map[j], d.map[j]) /\ d.view[j].uid = c.view[j].uid BY <3>1, <1>1
    <3>4. CASE j \in js
      <4>1. d.view[j].flags = c.map[j].flags BY <3>1, <3>4, <1>1
      <4> QED BY <4>1, <3>2, <3>3 DEF Knows, SameEntry
    <3>5. CASE j \notin js
      <4>1. d.view[j].flags = c.view[j].flags /\ d.map[j].told = c.map[j].told BY <3>1, <3>5, <1>1
      <4> QED BY <4>1, <3>2, <3>3 DEF Knows, SameEntry
    <3> QED BY <3>4, <3>5
  <2>3. ASSUME d.oldhighestmodseq = d.highestmodseq, NEW j \in changed(d) PROVE d.map[j].expunged
    <3>1. j \in changed(c) BY <1>4
    <3>2. j \in DOMAIN c.map BY <3>1 DEF changed
    <3>3. c.map[j].expunged BY <2>3, <3>1, <1>1, <1>5 DEF InView, SameSession
    <3> QED BY <3>2, <3>3, <1>1 DEF SameEntry
  <2> QED BY <2>1, <2>2, <2>3 DEF InView, Knows
<1>6. Covered(c.map, c.modseq) => Covered(d.map, d.modseq)
  BY <1>1 DEF Covered, SameEntry, SameSession
<1>7. Core(b, d) BY <1>1, <1>3, <1>5, <1>6 DEF Core, SameSession
<1> QED BY <1>1, <1>2, <1>4, <1>7 DEF d

LEMMA CleanSame ==
  ASSUME NEW m, NEW p, NEW q, SameMap(p, q), Clean(m, p)
  PROVE  Clean(m, q)
BY DEF Clean, SameMap, SameEntry

LEMMA TellChanges ==
  ASSUME NEW m, NEW b, NEW fs, Box(m, b, fs), NEW c, Core(b, c), NEW canexpunge \in BOOLEAN
  PROVE  LET d == index_tellchanges(c, canexpunge)
         IN  /\ Core(b, d) /\ SameSession(c, d) /\ d.oldexists = Len(d.map)
             /\ (~d.misled => \A j \in changed(d) : d.map[j].expunged)
             /\ (canexpunge => \A j \in DOMAIN d.map : ~d.map[j].expunged)
             /\ (canexpunge \/ Clean(m, c.map) => Clean(m, d.map))
<1> DEFINE a == IF canexpunge THEN index_tellexpunge(c) ELSE c
           e == exists_changed(a)
           d == index_tellchanges(c, canexpunge)
<1>1. /\ Core(b, a) /\ SameSession(c, a)
      /\ (canexpunge => \A j \in DOMAIN a.map : ~a.map[j].expunged)
      /\ (canexpunge \/ Clean(m, c.map) => Clean(m, a.map))
  <2>1. CASE canexpunge
    <3>1. a = index_tellexpunge(c) BY <2>1
    <3> HIDE DEF a
    <3> QED BY <2>1, <3>1, CoreExpunged
  <2>2. CASE ~canexpunge
    <3>1. a = c BY <2>2
    <3> HIDE DEF a
    <3> QED BY <2>2, <3>1 DEF SameSession
  <2> QED BY <2>1, <2>2
<1>2. d = IF e.oldhighestmodseq = e.highestmodseq THEN e ELSE printflags(e, changed(e))
  BY DEF index_tellchanges
<1> HIDE DEF a
<1>3. Core(b, e) /\ SameSession(a, e) /\ e.map = a.map /\ e.oldexists = Len(a.map) BY <1>1, CoreExists
<1> HIDE DEF e, d
<1>4. SameSession(c, e) BY <1>1, <1>3 DEF SameSession
<1>5. CASE e.oldhighestmodseq = e.highestmodseq
  <2>1. d = e BY <1>2, <1>5
  <2>2. ~e.misled => \A j \in changed(e) : e.map[j].expunged BY <1>3, <1>5 DEF Core, InView
  <2> QED BY <2>1, <2>2, <1>1, <1>3, <1>4 DEF d
<1>6. CASE e.oldhighestmodseq # e.highestmodseq
  <2>1. d = printflags(e, changed(e)) BY <1>2, <1>6
  <2>2. changed(e) \in SUBSET DOMAIN e.map BY DEF changed
  <2>3. /\ Core(b, d) /\ SameSession(e, d) /\ SameMap(e.map, d.map)
        /\ d.oldexists = e.oldexists /\ changed(d) = changed(e) \ changed(e)
    BY <2>1, <2>2, <1>3, CorePrinted
  <2>4. changed(d) = {} BY <2>3
  <2>5. SameSession(c, d) BY <2>3, <1>4 DEF SameSession
  <2>6. d.oldexists = Len(d.map) BY <2>3, <1>3 DEF SameMap
  <2>7. canexpunge => \A j \in DOMAIN d.map : ~d.map[j].expunged BY <2>3, <1>1, <1>3 DEF SameMap, SameEntry
  <2>8. canexpunge \/ Clean(m, c.map) => Clean(m, d.map) BY <2>3, <1>1, <1>3, CleanSame
  <2> QED BY <2>3, <2>4, <2>5, <2>6, <2>7, <2>8 DEF d
<1> QED BY <1>5, <1>6

-----------------------------------------------------------------------------
\* The parts of a command

\* Two sessions that differ in what a command keeps for itself only
SameState(c, d) ==
  /\ d.map = c.map /\ d.oldexists = c.oldexists /\ d.highestmodseq = c.highestmodseq
  /\ d.oldhighestmodseq = c.oldhighestmodseq /\ d.delayed_modseq = c.delayed_modseq
  /\ d.generation = c.generation /\ d.view = c.view /\ d.modseq = c.modseq
  /\ d.unknown = c.unknown /\ d.late = c.late /\ d.misled = c.misled

LEMMA StateSame ==
  ASSUME NEW c, NEW d, SameState(c, d)
  PROVE  /\ (InView(c) => InView(d)) /\ (AllTold(c) => AllTold(d))
         /\ \A b : MapInv(b, c) => MapInv(b, d)
<1>1. changed(c) = changed(d) BY DEF SameState, changed
<1>2. InView(c) => InView(d) BY <1>1 DEF SameState, InView
<1>3. AllTold(c) => AllTold(d) BY <1>1 DEF SameState, AllTold
<1>4. \A b : MapInv(b, c) => MapInv(b, d) BY DEF SameState, MapInv
<1> QED BY <1>2, <1>3, <1>4

LEMMA CoreSame ==
  ASSUME NEW b, NEW c, Core(b, c), NEW d \in State, SameState(c, d)
  PROVE  Core(b, d)
<1>1. (InView(c) => InView(d)) /\ (MapInv(b, c) => MapInv(b, d)) BY StateSame
<1> QED BY <1>1 DEF Core, SameState

\* A step ends: what has to be shown of the session c that goes to pc
LEMMA StepEnds ==
  ASSUME NEW m, NEW b, NEW fs, NEW c, Core(b, c), NEW d \in State, SameState(c, d), d.pc # "off",
         ~Expunging(d) => Clean(m, c.map),
         d.pc \in {"fetch", "copy"} => Reading(b, fs, c),
         d.pc = "move" => d.byuid,
         ~c.misled /\ d.last \in {"noop", "expunge"} => AllTold(c),
         ~c.misled /\ ~c.late /\ d.pc # "fetch" => Has(b, c.view, c.modseq),
         ~c.misled /\ ~c.late /\ d.last = "resume" => c.view = known(c.map)
  PROVE  Sess(m, b, fs, d)
<1>1. Core(b, d) BY CoreSame
<1>2. AllTold(c) => AllTold(d) BY StateSame
<1>3. Reading(b, fs, c) => Reading(b, fs, d) BY DEF Reading, SameState
<1>4. Opened(m, b, fs, d) BY <1>1, <1>2, <1>3 DEF Opened, SameState
<1> QED BY <1>4 DEF Sess

Pcs == {"off", "idle", "refresh", "fetch", "copy", "move", "check"}
Lasts == {"none", "select", "resume", "noop", "expunge", "failed"}

\* A session after a step
at(c, pc, last) == [c EXCEPT !.pc = pc, !.last = last]

LEMMA Goes ==
  ASSUME NEW c \in State, NEW pc \in Pcs, NEW last \in Lasts
  PROVE  LET d == at(c, pc, last)
         IN  /\ d \in State /\ SameState(c, d) /\ d.pc = pc /\ d.last = last
             /\ d.seq = c.seq /\ d.byuid = c.byuid /\ d.capa = c.capa
BY DEF State, SameState, Pcs, Lasts, at

LEMMA Done ==
  ASSUME NEW c \in State
  PROVE  done(c) \in State /\ SameState(c, done(c)) /\ done(c).byuid = FALSE
BY DEF State, SameState, done

LEMMA Unlock ==
  ASSUME NEW c \in State, NEW b, c.highestmodseq = b.highestmodseq
  PROVE  index_unlock(c, b) = c
BY DEF State, index_unlock

\* What a session reads after it has left the lock is there.
LEMMA ReadingNow ==
  ASSUME NEW b, Box(mode, b, files), NEW c, Core(b, c), UpTo(b, c), Clean(mode, c.map)
  PROVE  Reading(b, files, c)
<1>0. c \in State /\ MapInv(b, c) BY DEF Core
<1> SUFFICES ASSUME NEW j \in DOMAIN c.map, c.map[j].recno # 0 PROVE c.map[j].uid \in files
  BY DEF Reading, UpTo
<1> DEFINE r == c.map[j].recno
<1>1. r \in DOMAIN b.recs /\ b.recs[r].uid = c.map[j].uid BY <1>0 DEF MapInv, UpTo, Located
<1> HIDE DEF r
<1>2. IsRecord(mode, b, files, b.recs[r]) BY <1>1 DEF Box
<1>3. CASE mode = "delayed" BY <1>1, <1>2, <1>3 DEF IsRecord
<1>4. CASE mode # "delayed"
  <2>1. ~c.map[j].expunged BY <1>4 DEF Clean
  <2>2. Seen(b, b.highestmodseq, c.map[j]) BY <1>0 DEF MapInv, IsEntry, UpTo
  <2>3. b.recs[r].modseq <= b.highestmodseq BY <1>1, BoxUids
  <2>4. ~b.recs[r].expunged BY <2>1, <2>2, <2>3, <1>1 DEF Seen
  <2> QED BY <2>4, <1>1, <1>2 DEF IsRecord
<1> QED BY <1>3, <1>4

\* A client that goes can come back.
LEMMA Leaves ==
  ASSUME NEW m, NEW b, NEW fs, Box(m, b, fs), NEW c, Core(b, c), ~c.misled, ~c.late,
         Has(b, c.view, c.modseq)
  PROVE  Resumable(b, c.view, c.modseq)
<1> DEFINE n == c.modseq
<1>0. c \in State /\ MapInv(b, c) /\ InView(c) /\ Covered(c.map, n) BY DEF Core
<1>1. /\ DOMAIN c.map = 1 .. Len(c.map) /\ Len(c.map) \in Nat /\ c.oldexists \in Nat
      /\ DOMAIN c.view = 1 .. Len(c.view) /\ n \in Nat /\ c.highestmodseq \in Nat
      /\ \A j \in DOMAIN c.map : c.map[j] \in Entry
  BY <1>0, StateFields
<1>2. /\ c.oldexists <= Len(c.map) /\ Sorted(c.map) /\ n <= c.highestmodseq
      /\ \A j \in DOMAIN c.map : IsEntry(b, c.highestmodseq, c.map[j])
      /\ Complete(b, c.highestmodseq, c.map)
  BY <1>0 DEF MapInv
<1>3. ASSUME NEW k \in DOMAIN c.view
      PROVE  k \in DOMAIN c.map /\ k \in 1 .. c.oldexists /\ c.view[k].uid = c.map[k].uid
  <2>1. Len(c.view) = c.oldexists BY <1>0 DEF InView
  <2>2. k \in DOMAIN c.map /\ k \in 1 .. c.oldexists BY <2>1, <1>1, <1>2
  <2> QED BY <2>2, <1>0 DEF InView
<1>u. \A j \in DOMAIN c.map : c.map[j].uid \in Nat /\ c.map[j].modseq \in Nat BY <1>1, EntryFields
<1>4. Sorted(c.view) BY <1>0, <1>2, ViewSorted
<1>5. ASSUME NEW r \in DOMAIN b.recs, NEW k \in DOMAIN c.view, ~b.recs[r].expunged,
             b.recs[r].uid <= c.view[k].uid
      PROVE  \E i \in DOMAIN c.view : c.view[i].uid = b.recs[r].uid
  <2>1. k \in DOMAIN c.map /\ c.view[k].uid = c.map[k].uid /\ k \in 1 .. c.oldexists BY <1>3
  <2>2. b.recs[r].uid \in Nat BY BoxUids
  <2>3. Len(c.map) \in DOMAIN c.map /\ (k = Len(c.map) \/ k < Len(c.map)) BY <2>1, <1>1
  <2>4. k < Len(c.map) => c.map[k].uid < c.map[Len(c.map)].uid BY <2>1, <2>3, <1>2 DEF Sorted
  <2>5. b.recs[r].uid <= c.map[Len(c.map)].uid BY <2>1, <2>2, <2>3, <2>4, <1>5, <1>u
  <2>6. c.map # <<>> BY <2>3
  <2>7. PICK j \in DOMAIN c.map : c.map[j].uid = b.recs[r].uid BY <2>5, <2>6, <1>2, <1>5 DEF Complete
  <2>8. ~(k < j)
    <3> SUFFICES ASSUME k < j PROVE FALSE OBVIOUS
    <3>1. c.map[k].uid < c.map[j].uid BY <2>1, <1>2 DEF Sorted
    <3> QED BY <3>1, <2>1, <2>2, <2>7, <1>5, <1>u
  <2>9. j \in DOMAIN c.view
    <3>1. Len(c.view) = c.oldexists BY <1>0 DEF InView
    <3> QED BY <3>1, <2>1, <2>8, <1>1
  <2> QED BY <2>7, <2>9, <1>3
<1>6. ASSUME NEW i \in DOMAIN c.view
      PROVE  /\ c.view[i].uid <= b.last_uid
             /\ \A r \in DOMAIN b.recs : b.recs[r].uid = c.view[i].uid /\ b.recs[r].expunged =>
                  b.recs[r].modseq > n
             /\ (\A r \in DOMAIN b.recs : b.recs[r].uid # c.view[i].uid) => b.deletedmodseq > n
  <2> DEFINE im == c.map[i]
  <2>1. i \in DOMAIN c.map /\ c.view[i].uid = im.uid BY <1>3
  <2>2. IsEntry(b, c.highestmodseq, im) /\ im.modseq \in Nat BY <2>1, <1>2, <1>u
  <2>3. im.expunged => im.modseq > n BY <2>1, <1>0 DEF Covered
  <2> HIDE DEF im
  <2>4. ASSUME NEW r \in DOMAIN b.recs, b.recs[r].uid = im.uid, b.recs[r].expunged
        PROVE  b.recs[r].modseq > n
    <3>0. b.recs[r].modseq \in Nat BY BoxUids
    <3>1. CASE im.expunged
      <4>1. b.recs[r].modseq >= im.modseq BY <2>2, <2>4, <3>1 DEF IsEntry, Dead
      <4> QED BY <4>1, <3>0, <3>1, <2>2, <2>3, <1>1
    <3>2. CASE ~im.expunged
      <4>1. Seen(b, c.highestmodseq, im) BY <2>2, <3>2 DEF IsEntry
      <4>2. ~(b.recs[r].modseq <= c.highestmodseq) BY <4>1, <2>4, <3>2 DEF Seen
      <4> QED BY <4>2, <3>0, <1>1, <1>2
    <3> QED BY <3>1, <3>2
  <2>5. ASSUME \A r \in DOMAIN b.recs : b.recs[r].uid # im.uid PROVE b.deletedmodseq > n
    <3>0. b.deletedmodseq \in Nat BY BoxFields DEF Box
    <3>1. CASE im.expunged
      <4>1. b.deletedmodseq >= im.modseq BY <2>2, <2>5, <3>1 DEF IsEntry, Dead
      <4> QED BY <4>1, <3>0, <3>1, <2>2, <2>3, <1>1
    <3>2. CASE ~im.expunged
      <4>1. b.deletedmodseq > c.highestmodseq BY <2>2, <2>5, <3>2 DEF IsEntry, Alive
      <4> QED BY <4>1, <3>0, <1>1, <1>2
    <3> QED BY <3>1, <3>2
  <2>6. im.uid <= b.last_uid BY <2>2 DEF IsEntry
  <2> QED BY <2>1, <2>4, <2>5, <2>6
<1> HIDE DEF n
<1> QED BY <1>4, <1>5, <1>6, Zenon DEF Resumable, n

LEMMA Closes ==
  ASSUME NEW b, Box(mode, b, files), NEW c, Core(b, c), NEW last \in {"none", "failed"},
         ~c.misled /\ ~c.late => Has(b, c.view, c.modseq)
  PROVE  [closed(c) EXCEPT !.pc = "off", !.last = last] \in State
         /\ Sess(mode, b, files, [closed(c) EXCEPT !.pc = "off", !.last = last])
<1> DEFINE d == [closed(c) EXCEPT !.pc = "off", !.last = last]
<1>0. c \in State /\ MapInv(b, c) /\ b \in Mailbox BY DEF Core, Box
<1>1. /\ d \in State /\ d.map = <<>> /\ d.oldexists = 0 /\ d.highestmodseq = 0 /\ d.last = last
      /\ d.pc = "off" /\ d.view = c.view /\ d.modseq = c.modseq /\ d.late = c.late
      /\ d.misled = c.misled /\ d.unknown = c.unknown
  <2>1. <<>> \in Seq(Entry) OBVIOUS
  <2> QED BY <2>1, <1>0 DEF closed, blank, State
<1> HIDE DEF d
<1>2. c.modseq <= b.highestmodseq
  <2>1. c.modseq \in Nat /\ c.highestmodseq \in Nat /\ b.highestmodseq \in Nat
    BY <1>0, StateFields, BoxFields
  <2> QED BY <2>1, <1>0 DEF MapInv
<1>3. ~c.misled /\ ~c.late => Resumable(b, c.view, c.modseq) BY Leaves
<1>u. ~c.misled => ~c.unknown BY DEF Core, InView
<1>4. Closed(b, d) BY <1>1, <1>2, <1>3, <1>u DEF Closed
<1> QED BY <1>1, <1>4 DEF Sess, d

LEMMA Condstore ==
  ASSUME NEW b, NEW c, Core(b, c)
  PROVE  LET d == condstore(c)
         IN  /\ Core(b, d) /\ d.map = c.map /\ d.pc = c.pc /\ d.last = c.last
<1> DEFINE d == condstore(c)
           n == index_highestmodseq(c)
<1>0. c \in State /\ MapInv(b, c) BY DEF Core
<1>1. n \in Nat /\ n <= c.highestmodseq
  <2>1. c.delayed_modseq \in Nat /\ c.highestmodseq \in Nat /\ c.delayed_modseq <= c.highestmodseq
    BY <1>0, StateFields DEF MapInv
  <2> QED BY <2>1 DEF index_highestmodseq
<1>2. d = [c EXCEPT !.capa = "condstore", !.modseq = n, !.late = c.late \/ ~covers(c, n)]
  BY DEF condstore
<1>3. covers(c, n) = Covered(c.map, n) BY DEF covers, Covered
<1> HIDE DEF d, n
<1>4. (c.late \/ ~covers(c, n)) \in BOOLEAN OBVIOUS
<1>5. /\ d \in State /\ d.map = c.map /\ d.oldexists = c.oldexists /\ d.highestmodseq = c.highestmodseq
      /\ d.oldhighestmodseq = c.oldhighestmodseq /\ d.delayed_modseq = c.delayed_modseq
      /\ d.generation = c.generation /\ d.view = c.view /\ d.modseq = n
      /\ d.unknown = c.unknown /\ d.misled = c.misled /\ d.late = (c.late \/ ~covers(c, n))
      /\ d.pc = c.pc /\ d.last = c.last
  BY <1>0, <1>1, <1>2, <1>4 DEF State
<1>6. MapInv(b, d) BY <1>0, <1>1, <1>5 DEF MapInv
<1>7. InView(c) => InView(d)
  <2>1. changed(c) = changed(d) BY <1>5 DEF changed
  <2> QED BY <2>1, <1>5 DEF InView
<1>8. Core(b, d) BY <1>3, <1>5, <1>6, <1>7 DEF Core
<1> QED BY <1>5, <1>8 DEF d

\* A record that a session rewrites is its own entry of the map.
Own(c, j, rec) ==
  /\ j \in DOMAIN c.map /\ c.map[j].recno # 0 /\ rec \in Record /\ rec.uid = c.map[j].uid
  /\ ~rec.unlinked /\ (c.map[j].expunged => rec.expunged)

LEMMA OwnRewritable ==
  ASSUME NEW b, Box(mode, b, files), NEW c, Core(b, c), UpTo(b, c), NEW j, NEW rec, Own(c, j, rec)
  PROVE  Rewritable(b, c.map[j].recno, rec)
<1>0. MapInv(b, c) /\ j \in DOMAIN c.map BY DEF Core, Own
<1> DEFINE r == c.map[j].recno
<1>1. r \in DOMAIN b.recs /\ b.recs[r].uid = c.map[j].uid BY <1>0 DEF MapInv, UpTo, Located, Own
<1>2. Seen(b, b.highestmodseq, c.map[j]) BY <1>0 DEF MapInv, IsEntry, UpTo, Own
<1>3. b.recs[r].modseq <= b.highestmodseq BY <1>1, BoxUids
<1>4. b.recs[r].expunged = c.map[j].expunged BY <1>1, <1>2, <1>3 DEF Seen
<1> QED BY <1>1, <1>4 DEF Rewritable, Own

\* The entries after a session has rewritten a record: u is the one of that record.
LEMMA OwnEntry ==
  ASSUME NEW b, Box(mode, b, files), NEW c, Core(b, c), UpTo(b, c), NEW j, NEW rec, Own(c, j, rec),
         NEW u \in Entry,
         LET new == written(b, rec)
         IN  /\ u.uid = new.uid /\ u.recno = c.map[j].recno /\ u.modseq = new.modseq
             /\ u.flags = new.flags /\ u.expunged = new.expunged /\ u.unlinked = new.unlinked
             /\ u.told <= new.modseq
  PROVE  LET d == rewrite(b, c.map[j].recno, rec)
         IN  IsEntry(d, d.highestmodseq, u) /\ Located(d, u)
<1> DEFINE r == c.map[j].recno
           d == rewrite(b, r, rec)
           new == written(b, rec)
           n == b.highestmodseq
<1>0. b \in Mailbox /\ rec \in Record /\ r # 0 /\ j \in DOMAIN c.map /\ MapInv(b, c)
  BY DEF Box, Own, Core
<1>1. Rewritable(b, r, rec) BY OwnRewritable
<1>2. r \in DOMAIN b.recs BY <1>1 DEF Rewritable
<1>3. /\ d \in Mailbox /\ DOMAIN d.recs = DOMAIN b.recs
      /\ d.recs[r] = new
      /\ \A k \in DOMAIN b.recs : k # r => d.recs[k] = b.recs[k]
      /\ d.last_uid = b.last_uid /\ d.highestmodseq = n + 1
  BY <1>0, <1>2, RewriteFields
<1>4. /\ new \in Record /\ new.uid = rec.uid /\ new.modseq = n + 1
      /\ (new.unlinked <=> rec.unlinked \/ (rec.expunged /\ mode # "delayed"))
      /\ new.expunged = rec.expunged
  BY <1>0, WrittenFields
<1>5. /\ u.uid = new.uid /\ u.recno = r /\ u.modseq = new.modseq
      /\ u.flags = new.flags /\ u.expunged = new.expunged /\ u.unlinked = new.unlinked
      /\ u.told <= new.modseq
  OBVIOUS
<1>6. Box(mode, d, files) BY <1>1, RewriteBox
<1> HIDE DEF new, d, r
<1>7. \A k \in DOMAIN d.recs : d.recs[k].uid = u.uid => k = r BY <1>2, <1>3, <1>5, <1>6, UidUnique
<1>8. Seen(d, d.highestmodseq, u) BY <1>3, <1>5, <1>7, Zenon DEF Seen
<1>9. Dead(d, u) \/ ~u.expunged
  <2>1. n \in Nat /\ n + 1 >= n + 1 BY <1>0, BoxFields
  <2> QED BY <2>1, <1>2, <1>3, <1>4, <1>5, <1>7 DEF Dead
<1>10. Alive(d, d.highestmodseq, u) BY <1>2, <1>3, <1>5 DEF Alive
<1>11. u.uid <= d.last_uid BY <1>2, <1>3, <1>5, <1>6, BoxUids
<1>12. u.modseq <= d.highestmodseq
  <2>1. n \in Nat /\ n + 1 <= n + 1 BY <1>0, BoxFields
  <2> QED BY <2>1, <1>3, <1>4, <1>5
<1>13. u.unlinked => u.expunged BY <1>4, <1>5 DEF Own
<1>14. IsEntry(d, d.highestmodseq, u)
  BY <1>0, <1>5, <1>8, <1>9, <1>10, <1>11, <1>12, <1>13 DEF IsEntry
<1>15. Located(d, u) BY <1>2, <1>3, <1>5 DEF Located
<1> QED BY <1>14, <1>15 DEF d, r

\* The other entries have seen the mailbox up to this change too.
LEMMA OthersEntry ==
  ASSUME NEW b, Box(mode, b, files), NEW c, Core(b, c), UpTo(b, c), NEW j, NEW rec, Own(c, j, rec),
         NEW i \in DOMAIN c.map, i # j
  PROVE  LET d == rewrite(b, c.map[j].recno, rec)
         IN  IsEntry(d, d.highestmodseq, c.map[i]) /\ Located(d, c.map[i])
<1> DEFINE r == c.map[j].recno
           d == rewrite(b, r, rec)
           n == b.highestmodseq
           im == c.map[i]
<1>0. /\ b \in Mailbox /\ rec \in Record /\ j \in DOMAIN c.map /\ MapInv(b, c) /\ c \in State
      /\ c.highestmodseq = n /\ n \in Nat
  BY BoxFields DEF Box, Own, Core, UpTo
<1>1. Rewritable(b, r, rec) BY OwnRewritable
<1>2. r \in DOMAIN b.recs /\ b.recs[r].uid = c.map[j].uid BY <1>1 DEF Rewritable, Own
<1>3. /\ d \in Mailbox /\ DOMAIN d.recs = DOMAIN b.recs
      /\ \A k \in DOMAIN b.recs : k # r => d.recs[k] = b.recs[k]
      /\ d.recs[r].uid = rec.uid
      /\ d.last_uid = b.last_uid /\ d.highestmodseq = n + 1
  BY <1>0, <1>2, RewriteFields, WrittenFields
<1>4. Box(mode, d, files) /\ Evolves(b, d) BY <1>1, RewriteBox
<1>5. im \in Entry /\ IsEntry(b, n, im) /\ Located(b, im) BY <1>0, StateFields DEF MapInv, UpTo
<1>6. im.uid # rec.uid
  <2>1. i < j \/ j < i BY <1>0, StateFields
  <2>2. (i < j => im.uid < c.map[j].uid) /\ (j < i => c.map[j].uid < im.uid) BY <1>0 DEF MapInv, Sorted
  <2>3. im.uid \in Nat /\ c.map[j].uid \in Nat BY <1>0, <1>5, StateFields, EntryFields
  <2>4. im.uid # c.map[j].uid BY <2>1, <2>2, <2>3
  <2> QED BY <2>4 DEF Own
<1>7. IsEntry(d, n, im)
  <2>1. n <= b.highestmodseq BY <1>0
  <2> QED BY <2>1, <1>0, <1>4, <1>5, EntryEvolves
<1> HIDE DEF d, r, im
<1>8. ASSUME NEW k \in DOMAIN d.recs, d.recs[k].uid = im.uid
      PROVE  k # r /\ d.recs[k] = b.recs[k] /\ k \in DOMAIN b.recs /\ d.recs[k].modseq <= n
  <2>1. k # r BY <1>3, <1>6, <1>8
  <2> QED BY <2>1, <1>3, BoxUids
<1>9. Seen(d, n, im) => Seen(d, n + 1, im) BY <1>8 DEF Seen
<1>10. Alive(b, n, im) => Alive(d, n + 1, im)
  <2> SUFFICES ASSUME Alive(b, n, im), \A k \in DOMAIN d.recs : d.recs[k].uid # im.uid PROVE FALSE
    BY DEF Alive
  <2>1. ASSUME NEW k \in DOMAIN b.recs, b.recs[k].uid = im.uid PROVE FALSE
    <3>1. k # r BY <2>1, <1>2, <1>6 DEF Own
    <3> QED BY <2>1, <3>1, <1>3
  <2>2. b.deletedmodseq > n BY <2>1 DEF Alive
  <2>3. b.deletedmodseq <= n /\ b.deletedmodseq \in Nat BY <1>0, BoxFields DEF Box
  <2> QED BY <2>2, <2>3, <1>0
<1>11. im.modseq <= n + 1
  <2>1. im.modseq \in Nat BY <1>5, EntryFields
  <2> QED BY <2>1, <1>0, <1>5 DEF IsEntry
<1>12. IsEntry(d, n + 1, im) BY <1>5, <1>7, <1>9, <1>10, <1>11 DEF IsEntry
<1>13. Located(d, im)
  <2> SUFFICES ASSUME im.recno # 0 PROVE im.recno \in DOMAIN d.recs /\ d.recs[im.recno].uid = im.uid
    BY DEF Located
  <2>1. im.recno \in DOMAIN b.recs /\ b.recs[im.recno].uid = im.uid BY <1>5 DEF Located
  <2>2. im.recno # r BY <2>1, <1>2, <1>6 DEF Own
  <2> QED BY <2>1, <2>2, <1>3
<1> QED BY <1>3, <1>12, <1>13 DEF d, r, im

\* A session e after it has rewritten the record of message j of the session c
Rewrote(b, c, j, rec, e) ==
  LET new == written(b, rec)
  IN  /\ e \in State /\ SameClient(c, e) /\ e.misled = c.misled /\ e.oldexists = c.oldexists
      /\ e.oldhighestmodseq = c.oldhighestmodseq /\ e.delayed_modseq = c.delayed_modseq
      /\ e.generation = c.generation /\ e.highestmodseq = b.highestmodseq + 1
      /\ Len(e.map) = Len(c.map) /\ DOMAIN e.map = DOMAIN c.map
      /\ \A i \in DOMAIN c.map : i # j => e.map[i] = c.map[i]
      /\ e.map[j].uid = new.uid /\ e.map[j].recno = c.map[j].recno /\ e.map[j].modseq = new.modseq
      /\ e.map[j].flags = new.flags /\ e.map[j].expunged = new.expunged
      /\ e.map[j].unlinked = new.unlinked
      /\ \/ e.map[j].told = c.map[j].told
         \/ e.map[j].told = new.modseq /\ new.expunged

LEMMA Rewritten ==
  ASSUME NEW b, Box(mode, b, files), NEW c, Core(b, c), UpTo(b, c), NEW j, NEW rec, Own(c, j, rec)
  PROVE  LET st == rewritten([c |-> c, b |-> b], j, rec)
         IN  st.b = rewrite(b, c.map[j].recno, rec) /\ Rewrote(b, c, j, rec, st.c)
<1> DEFINE st == rewritten([c |-> c, b |-> b], j, rec)
           e == st.c
           d == rewrite(b, c.map[j].recno, rec)
           new == written(b, rec)
           u == [c.map[j] EXCEPT !.modseq = new.modseq, !.flags = new.flags,
                                 !.expunged = new.expunged, !.unlinked = new.unlinked]
           map == [c.map EXCEPT ![j] = u]
<1>0. /\ c \in State /\ b \in Mailbox /\ j \in DOMAIN c.map /\ rec \in Record
      /\ rec.uid = c.map[j].uid /\ b.highestmodseq \in Nat
  BY BoxFields DEF Core, Box, Own
<1>1. c.map[j].recno \in DOMAIN b.recs BY OwnRewritable DEF Rewritable
<1>2. d.highestmodseq = b.highestmodseq + 1 BY <1>0, <1>1, RewriteFields
<1>3. new \in Record /\ new.uid = rec.uid BY <1>0, WrittenFields
<1>4. c.map \in Seq(Entry) /\ c.map[j] \in Entry BY <1>0, StateFields
<1>u. u = [c.map[j] EXCEPT !.modseq = new.modseq, !.flags = new.flags,
                           !.expunged = new.expunged, !.unlinked = new.unlinked]
  OBVIOUS
<1>6. st.b = d /\ e = [c EXCEPT !.map = map, !.highestmodseq = d.highestmodseq]
  BY DEF rewritten, mapped, index_unlock
<1> HIDE DEF new, d, u, e
<1>5. /\ u \in Entry /\ u.uid = c.map[j].uid /\ u.recno = c.map[j].recno /\ u.told = c.map[j].told
      /\ u.modseq = new.modseq /\ u.flags = new.flags /\ u.expunged = new.expunged
      /\ u.unlinked = new.unlinked
  <2> DEFINE im == c.map[j]
  <2>1. im \in Entry BY <1>4
  <2>2. u = [im EXCEPT !.modseq = new.modseq, !.flags = new.flags,
                       !.expunged = new.expunged, !.unlinked = new.unlinked]
    BY <1>u
  <2> HIDE DEF im
  <2>3. /\ u \in Entry /\ u.uid = im.uid /\ u.recno = im.recno /\ u.told = im.told
        /\ u.modseq = new.modseq /\ u.flags = new.flags /\ u.expunged = new.expunged
        /\ u.unlinked = new.unlinked
    <3>1. /\ new.modseq \in Nat \ {0} /\ new.flags \in Flags /\ new.expunged \in BOOLEAN
          /\ new.unlinked \in BOOLEAN
      BY <1>3, RecordFields
    <3> QED BY <2>1, <2>2, <3>1 DEF Entry
  <2> QED BY <2>3 DEF im
<1>7. /\ map \in Seq(Entry) /\ Len(map) = Len(c.map) /\ DOMAIN map = DOMAIN c.map /\ map[j] = u
      /\ \A i \in DOMAIN c.map : i # j => map[i] = c.map[i]
  BY <1>0, <1>4, <1>5
<1> HIDE DEF map
<1>8. /\ e \in State /\ SameClient(c, e) /\ e.misled = c.misled /\ e.oldexists = c.oldexists
      /\ e.oldhighestmodseq = c.oldhighestmodseq /\ e.delayed_modseq = c.delayed_modseq
      /\ e.generation = c.generation /\ e.highestmodseq = d.highestmodseq /\ e.map = map
  <2>1. d.highestmodseq \in Nat BY <1>0, <1>2
  <2> QED BY <2>1, <1>0, <1>6, <1>7 DEF State, SameClient
<1>9. Rewrote(b, c, j, rec, e) BY <1>0, <1>2, <1>3, <1>5, <1>7, <1>8 DEF Rewrote, new
<1> QED BY <1>6, <1>9 DEF d, e

LEMMA RewroteEntries ==
  ASSUME NEW b, Box(mode, b, files), NEW c, Core(b, c), UpTo(b, c), NEW j, NEW rec, Own(c, j, rec),
         NEW e, Rewrote(b, c, j, rec, e), NEW i \in DOMAIN e.map
  PROVE  LET d == rewrite(b, c.map[j].recno, rec)
         IN  IsEntry(d, d.highestmodseq, e.map[i]) /\ Located(d, e.map[i])
<1>1. CASE i # j
  <2>1. i \in DOMAIN c.map /\ e.map[i] = c.map[i] BY <1>1 DEF Rewrote
  <2> QED BY <1>1, <2>1, OthersEntry
<1>2. CASE i = j
  <2> DEFINE new == written(b, rec)
             u == e.map[j]
  <2>1. /\ u.uid = new.uid /\ u.recno = c.map[j].recno /\ u.modseq = new.modseq
        /\ u.flags = new.flags /\ u.expunged = new.expunged /\ u.unlinked = new.unlinked
    BY DEF Rewrote
  <2>2. c \in State /\ j \in DOMAIN c.map /\ e \in State /\ b \in Mailbox /\ rec \in Record
    BY DEF Core, Own, Rewrote, Box
  <2>3. u \in Entry BY <1>2, <2>2, StateFields
  <2>4. u.told <= new.modseq
    <3>1. new.modseq = b.highestmodseq + 1 /\ b.highestmodseq \in Nat
      BY <2>2, WrittenFields, BoxFields
    <3>2. c.map[j].told <= c.map[j].modseq /\ c.map[j].modseq <= b.highestmodseq
      BY <2>2 DEF Core, MapInv, IsEntry, UpTo
    <3>3. c.map[j].told \in Nat /\ c.map[j].modseq \in Nat BY <2>2, StateFields, EntryFields
    <3>4. u.told = c.map[j].told \/ u.told = new.modseq BY DEF Rewrote
    <3> HIDE DEF new, u
    <3> QED BY <3>1, <3>2, <3>3, <3>4
  <2> HIDE DEF u
  <2> QED BY <1>2, <2>1, <2>3, <2>4, OwnEntry DEF u
<1> QED BY <1>1, <1>2

LEMMA RewroteMap ==
  ASSUME NEW b, Box(mode, b, files), NEW c, Core(b, c), UpTo(b, c), NEW j, NEW rec, Own(c, j, rec),
         NEW e, Rewrote(b, c, j, rec, e)
  PROVE  LET d == rewrite(b, c.map[j].recno, rec)
         IN  /\ MapInv(d, e) /\ e.highestmodseq = d.highestmodseq /\ e.generation = d.generation_no
<1> DEFINE r == c.map[j].recno
           d == rewrite(b, r, rec)
           n == b.highestmodseq
<1>0. /\ b \in Mailbox /\ rec \in Record /\ j \in DOMAIN c.map /\ MapInv(b, c) /\ c \in State
      /\ c.highestmodseq = n /\ n \in Nat /\ b.generation_no \in Nat /\ e \in State
      /\ c.generation = b.generation_no
  BY BoxFields DEF Box, Own, Core, UpTo, Rewrote
<1>1. r \in DOMAIN b.recs /\ b.recs[r].uid = c.map[j].uid BY OwnRewritable DEF Rewritable, Own
<1>2. /\ DOMAIN d.recs = DOMAIN b.recs
      /\ \A k \in DOMAIN b.recs : k # r => d.recs[k] = b.recs[k]
      /\ d.recs[r].uid = rec.uid
      /\ d.highestmodseq = n + 1 /\ d.generation_no = b.generation_no
  BY <1>0, <1>1, RewriteFields, WrittenFields
<1>3. \A i \in DOMAIN e.map : IsEntry(d, d.highestmodseq, e.map[i]) /\ Located(d, e.map[i])
  BY RewroteEntries
<1> HIDE DEF d, r
<1>4. /\ e.highestmodseq = d.highestmodseq /\ e.generation = d.generation_no
      /\ e.modseq = c.modseq /\ e.oldexists = c.oldexists /\ e.oldhighestmodseq = c.oldhighestmodseq
      /\ e.delayed_modseq = c.delayed_modseq
  BY <1>0, <1>2 DEF Rewrote, SameClient
<1>5. /\ e.oldhighestmodseq <= e.highestmodseq /\ e.delayed_modseq <= e.highestmodseq
      /\ e.modseq <= e.highestmodseq /\ e.oldexists <= Len(e.map)
  <2>1. /\ c.oldhighestmodseq \in Nat /\ c.delayed_modseq \in Nat /\ c.modseq \in Nat
    BY <1>0, StateFields
  <2>2. /\ c.oldhighestmodseq <= n /\ c.delayed_modseq <= n /\ c.modseq <= n
        /\ c.oldexists <= Len(c.map)
    BY <1>0 DEF MapInv
  <2>3. Len(e.map) = Len(c.map) BY DEF Rewrote
  <2>4. e.oldexists <= Len(e.map) BY <2>2, <2>3, <1>4
  <2>5. n + 1 >= c.oldhighestmodseq /\ n + 1 >= c.delayed_modseq /\ n + 1 >= c.modseq BY <2>1, <2>2, <1>0
  <2> QED BY <2>1, <2>4, <2>5, <1>0, <1>2, <1>4
<1>6. ASSUME NEW i \in DOMAIN c.map PROVE e.map[i].uid = c.map[i].uid /\ i \in DOMAIN e.map
  <2>1. CASE i # j BY <2>1 DEF Rewrote
  <2>2. CASE i = j BY <2>2, <1>0, WrittenFields DEF Rewrote, Own
  <2> QED BY <2>1, <2>2
<1>7. Sorted(e.map)
  <2>1. DOMAIN e.map = DOMAIN c.map BY DEF Rewrote
  <2> QED BY <2>1, <1>0, <1>6 DEF MapInv, Sorted
<1>8. Complete(d, d.highestmodseq, e.map)
  <2> SUFFICES ASSUME NEW k \in DOMAIN d.recs, ~d.recs[k].expunged
               PROVE  \E i \in DOMAIN e.map : e.map[i].uid = d.recs[k].uid
    BY DEF Complete
  <2>1. CASE k = r BY <2>1, <1>0, <1>2, <1>6 DEF Own
  <2>2. CASE k # r
    <3>1. k \in DOMAIN b.recs /\ d.recs[k] = b.recs[k] BY <2>2, <1>2
    <3>2. b.recs[k].modseq <= n BY <3>1, BoxUids
    <3>3. PICK i \in DOMAIN c.map : c.map[i].uid = b.recs[k].uid
      BY <3>1, <3>2, <1>0 DEF MapInv, Complete
    <3> QED BY <3>1, <3>3, <1>6
  <2> QED BY <2>1, <2>2
<1>9. d.highestmodseq <= d.highestmodseq /\ d.generation_no <= d.generation_no BY <1>0, <1>2
<1>10. MapInv(d, e) BY <1>3, <1>4, <1>5, <1>7, <1>8, <1>9 DEF MapInv
<1> QED BY <1>4, <1>10 DEF d, r

LEMMA RewroteCore ==
  ASSUME NEW b, Box(mode, b, files), NEW c, Core(b, c), UpTo(b, c), NEW j, NEW rec, Own(c, j, rec),
         NEW e, Rewrote(b, c, j, rec, e)
  PROVE  LET d == rewrite(b, c.map[j].recno, rec)
         IN  /\ Core(d, e) /\ e.highestmodseq = d.highestmodseq /\ e.generation = d.generation_no
<1> DEFINE d == rewrite(b, c.map[j].recno, rec)
           n == b.highestmodseq
<1>0. /\ b \in Mailbox /\ rec \in Record /\ j \in DOMAIN c.map /\ MapInv(b, c) /\ c \in State
      /\ c.highestmodseq = n /\ n \in Nat /\ e \in State
  BY BoxFields DEF Box, Own, Core, UpTo, Rewrote
<1>1. MapInv(d, e) /\ e.highestmodseq = d.highestmodseq /\ e.generation = d.generation_no BY RewroteMap
<1> HIDE DEF d
<1>2. e.highestmodseq = n + 1 /\ e.map[j].modseq = n + 1 BY <1>0, WrittenFields DEF Rewrote
<1>3. ASSUME InView(c) PROVE InView(e)
  <2>1. ~e.unknown /\ Len(e.view) = e.oldexists /\ e.view = c.view /\ e.oldexists = c.oldexists
    BY <1>3 DEF InView, Rewrote, SameClient
  <2>2. ASSUME NEW i \in 1 .. c.oldexists PROVE Knows(c.view[i], e.map[i])
    <3>0. Knows(c.view[i], c.map[i]) BY <1>3 DEF InView, Knows
    <3>1. CASE i # j
      <4>1. i \in DOMAIN c.map
        <5>1. DOMAIN c.map = 1 .. Len(c.map) /\ c.oldexists \in Nat /\ Len(c.map) \in Nat BY <1>0, StateFields
        <5> QED BY <5>1, <1>0 DEF MapInv
      <4> QED BY <3>0, <3>1, <4>1 DEF Rewrote
    <3>2. CASE i = j
      <4>1. e.map[j].uid = c.map[j].uid BY <1>0, WrittenFields DEF Rewrote, Own
      <4>2. e.map[j].expunged \/ e.map[j].told = c.map[j].told BY DEF Rewrote
      <4>3. c.map[j].told <= c.map[j].modseq /\ c.map[j].modseq <= n BY <1>0 DEF MapInv, IsEntry
      <4>4. c.map[j].told \in Nat /\ c.map[j].modseq \in Nat BY <1>0, StateFields, EntryFields
      <4>5. ~(n + 1 <= c.map[j].told) BY <4>3, <4>4, <1>0
      <4> QED BY <3>0, <3>2, <4>1, <4>2, <4>5, <1>2 DEF Knows
    <3> QED BY <3>1, <3>2
  <2>3. e.oldhighestmodseq # e.highestmodseq
    <3>1. c.oldhighestmodseq <= n /\ c.oldhighestmodseq \in Nat BY <1>0, StateFields DEF MapInv
    <3>2. e.oldhighestmodseq = c.oldhighestmodseq BY DEF Rewrote
    <3>3. c.oldhighestmodseq # n + 1 BY <3>1, <1>0
    <3> QED BY <3>2, <3>3, <1>2
  <2> QED BY <2>1, <2>2, <2>3 DEF InView, Knows
<1>4. ASSUME Covered(c.map, c.modseq) PROVE Covered(e.map, e.modseq)
  <2> SUFFICES ASSUME NEW i \in DOMAIN e.map, e.map[i].expunged PROVE e.map[i].modseq > c.modseq
    BY DEF Covered, Rewrote, SameClient
  <2>1. CASE i # j BY <2>1, <1>4 DEF Covered, Rewrote
  <2>2. CASE i = j
    <3>1. c.modseq <= n /\ c.modseq \in Nat BY <1>0, StateFields DEF MapInv
    <3>2. n + 1 > c.modseq BY <3>1, <1>0
    <3> QED BY <2>2, <3>2, <1>2
  <2> QED BY <2>1, <2>2
<1>5. e.misled = c.misled /\ e.late = c.late BY DEF Rewrote, SameClient
<1>6. Core(d, e) BY <1>0, <1>1, <1>3, <1>4, <1>5 DEF Core
<1> QED BY <1>1, <1>6 DEF d

\* A record that is not expunged by it stays clean.
LEMMA RewroteClean ==
  ASSUME NEW b, Box(mode, b, files), NEW c, Core(b, c), Clean(mode, c.map), NEW j, NEW rec,
         Own(c, j, rec), rec.expunged = c.map[j].expunged, NEW e, Rewrote(b, c, j, rec, e)
  PROVE  Clean(mode, e.map)
<1>0. b \in Mailbox /\ rec \in Record /\ j \in DOMAIN c.map BY DEF Box, Own
<1> SUFFICES ASSUME NEW i \in DOMAIN e.map, e.map[i].recno # 0
             PROVE  ~e.map[i].unlinked /\ (mode # "delayed" => ~e.map[i].expunged)
  BY DEF Clean
<1>1. CASE i # j BY <1>1 DEF Clean, Rewrote
<1>2. CASE i = j
  <2> DEFINE new == written(b, rec)
  <2>1. /\ (new.unlinked <=> rec.unlinked \/ (rec.expunged /\ mode # "delayed"))
        /\ new.expunged = rec.expunged
    BY <1>0, WrittenFields
  <2>2. mode # "delayed" => ~rec.expunged BY <1>0 DEF Clean, Own
  <2>3. ~new.unlinked BY <2>1, <2>2 DEF Own
  <2> QED BY <1>2, <2>1, <2>2, <2>3 DEF Rewrote
<1> QED BY <1>1, <1>2

-----------------------------------------------------------------------------
\* index_open_mailbox

\* A session that has just opened the mailbox has what is not expunged.
JustOpened(d) ==
  /\ d \in State /\ Current(d) /\ d.oldexists = Len(d.map) /\ MapInv(mbox, d) /\ Clean(mode, d.map)
  /\ \A j \in DOMAIN d.map : ~d.map[j].expunged /\ d.map[j].told = d.map[j].modseq

LEMMA Opens ==
  ASSUME Box(mode, mbox, files), NEW c \in State, c.view = <<>>, c.modseq <= mbox.highestmodseq
  PROVE  LET d == opened(c)
         IN  /\ JustOpened(d) /\ d.view = known(d.map)
             /\ d.modseq = c.modseq /\ d.late = c.late /\ d.misled = c.misled
             /\ d.unknown = c.unknown
<1> DEFINE a == blank(c)
           r == index_refresh_locked(a)
           d == opened(c)
<1>0. mbox \in Mailbox /\ mbox.highestmodseq \in Nat BY BoxFields DEF Box
<1>1. /\ a \in State /\ a.map = <<>> /\ a.highestmodseq = 0 /\ a.oldexists = 0 /\ a.view = <<>>
      /\ a.modseq = c.modseq /\ a.late = c.late /\ a.misled = c.misled /\ a.unknown = c.unknown
  <2>1. <<>> \in Seq(Entry) OBVIOUS
  <2> QED BY <2>1 DEF blank, State
<1> HIDE DEF a
<1>2. Refreshable(a)
  <2>1. Complete(mbox, 0, <<>>)
    <3> SUFFICES ASSUME NEW k \in DOMAIN mbox.recs, mbox.recs[k].modseq <= 0 PROVE FALSE
      BY DEF Complete
    <3>1. mbox.recs[k].modseq \in Nat \ {0} BY BoxUids
    <3> QED BY <3>1
  <2> QED BY <2>1, <1>0, <1>1 DEF Refreshable, Sorted
<1>3. /\ r \in State /\ SameClient(a, r)
      /\ r.highestmodseq = mbox.highestmodseq /\ r.generation = mbox.generation_no
      /\ r.oldexists = Len(a.map) /\ (r.misled <=> a.misled \/ forgotten(a))
      /\ Refreshed(a, r)
  BY <1>2, RefreshFields
<1>4. MapInv(mbox, r) /\ Clean(mode, r.map) BY <1>1, <1>2, RefreshMap
<1>5. ~forgotten(a)
  <2>1. Len(a.map) = 0 /\ changed(a) = {} BY <1>1 DEF changed
  <2> QED BY <2>1, <1>1 DEF forgotten
<1> HIDE DEF r
<1>6. r.misled = c.misled
  <2>1. r.misled \in BOOLEAN /\ c.misled \in BOOLEAN BY <1>3, StateFields
  <2> QED BY <2>1, <1>1, <1>3, <1>5
<1>7. d = index_tellexists(r)
  <2>1. index_unlock(r, mbox) = r BY <1>3, Unlock
  <2> QED BY <2>1 DEF opened, r, a
<1> HIDE DEF d
<1>8. r.oldexists <= Len(r.map)
  <2>1. Len(r.map) \in Nat /\ Len(a.map) = 0 BY <1>1, <1>3, StateFields
  <2> QED BY <2>1, <1>3
<1>9. /\ d \in State /\ SameSession(r, d) /\ d.map = r.map /\ d.oldexists = Len(r.map)
      /\ d.delayed_modseq = r.delayed_modseq /\ d.unknown = r.unknown
  BY <1>3, <1>7, <1>8, TellExists
<1>10. d.view = known(d.map)
  <2>1. r.view = <<>> /\ r.map \in Seq(Entry) BY <1>1, <1>3, StateFields DEF SameClient
  <2>e. <<>> \in Seq(View) /\ Len(<<>>) = 0 OBVIOUS
  <2>2. d.view = r.view \o known(SubSeq(r.map, Len(r.view) + 1, Len(r.map)))
    BY <1>3, <1>7 DEF index_tellexists, State
  <2>v. r.view \in Seq(View) /\ Len(r.view) = 0 BY <2>1, <2>e
  <2>3. /\ d.view \in Seq(View)
        /\ Len(r.view) <= Len(r.map) =>
             /\ Len(d.view) = Len(r.map)
             /\ \A k \in 1 .. Len(r.map) : k > Len(r.view) =>
                  d.view[k] = [uid |-> r.map[k].uid, flags |-> r.map[k].flags]
    <3> DEFINE q == r.view \o known(SubSeq(r.map, Len(r.view) + 1, Len(r.map)))
    <3>1. /\ q \in Seq(View)
          /\ Len(r.view) <= Len(r.map) =>
               /\ Len(q) = Len(r.map)
               /\ \A k \in 1 .. Len(r.view) : q[k] = r.view[k]
               /\ \A k \in 1 .. Len(r.map) : k > Len(r.view) =>
                    q[k] = [uid |-> r.map[k].uid, flags |-> r.map[k].flags]
      BY <2>1, <2>v, ViewGrows
    <3> HIDE DEF q
    <3>2. d.view = q BY <2>2 DEF q
    <3> QED BY <3>1, <3>2
  <2>n. Len(r.map) \in Nat /\ DOMAIN r.map = 1 .. Len(r.map) BY <2>1
  <2>4. Len(r.view) <= Len(r.map) /\ \A k \in 1 .. Len(r.map) : k > Len(r.view) BY <2>v, <2>n
  <2>5. /\ d.view \in Seq(View) /\ Len(d.view) = Len(r.map)
        /\ \A k \in 1 .. Len(r.map) : d.view[k] = [uid |-> r.map[k].uid, flags |-> r.map[k].flags]
    BY <2>3, <2>4
  <2>6. /\ known(r.map) \in Seq(View) /\ Len(known(r.map)) = Len(r.map)
        /\ \A k \in 1 .. Len(r.map) : known(r.map)[k] = [uid |-> r.map[k].uid, flags |-> r.map[k].flags]
    BY <2>1, <2>n, KnownSeq
  <2> DEFINE q == known(r.map)
  <2> HIDE DEF q
  <2>7. /\ q \in Seq(View) /\ Len(q) = Len(r.map)
        /\ \A k \in 1 .. Len(r.map) : q[k] = [uid |-> r.map[k].uid, flags |-> r.map[k].flags]
    BY <2>6 DEF q
  <2>8. \A k \in 1 .. Len(d.view) : d.view[k] = q[k] BY <2>5, <2>7
  <2>9. d.view = q BY <2>5, <2>7, <2>8, SameSeq
  <2> QED BY <2>9, <1>9 DEF q
<1>11. MapInv(mbox, d)
  <2>1. SameMap(r.map, d.map) BY <1>9 DEF SameMap, SameEntry
  <2>2. Len(r.map) <= Len(r.map)
    <3>1. Len(r.map) \in Nat BY <1>3, StateFields
    <3> QED BY <3>1
  <2>3. /\ d.highestmodseq = r.highestmodseq /\ d.generation = r.generation
        /\ d.oldhighestmodseq <= r.highestmodseq /\ d.modseq <= r.highestmodseq
        /\ d.oldexists <= Len(r.map) /\ d.delayed_modseq <= r.highestmodseq
    BY <2>2, <1>4, <1>9 DEF MapInv, SameSession
  <2> QED BY <2>1, <2>3, <1>3, <1>4, <1>9, MapSame
<1>12. \A j \in DOMAIN d.map : ~d.map[j].expunged /\ d.map[j].told = d.map[j].modseq
  <2>1. \A j \in DOMAIN r.map : j \notin DOMAIN a.map BY <1>1
  <2> QED BY <2>1, <1>3, <1>9 DEF Refreshed
<1>13. Current(d) /\ d.oldexists = Len(d.map) BY <1>3, <1>9 DEF Current, UpTo, SameSession
<1>14. d.modseq = c.modseq /\ d.late = c.late /\ d.misled = c.misled /\ d.unknown = c.unknown
  BY <1>1, <1>3, <1>6, <1>9 DEF SameSession, SameClient
<1>15. JustOpened(d) BY <1>4, <1>9, <1>11, <1>12, <1>13 DEF JustOpened
<1> QED BY <1>10, <1>14, <1>15 DEF d

\* Its client, if it has what the session has, knows all.
LEMMA OpenedKnows ==
  ASSUME Box(mode, mbox, files), NEW d, JustOpened(d), NEW e \in State,
         e.map = d.map, e.oldexists = d.oldexists, e.highestmodseq = d.highestmodseq,
         e.oldhighestmodseq = d.oldhighestmodseq, e.delayed_modseq = d.delayed_modseq,
         e.generation = d.generation, e.modseq = d.highestmodseq,
         ~e.misled => ~e.unknown /\ e.view = known(d.map)
  PROVE  /\ Core(mbox, e) /\ (~e.misled => Has(mbox, e.view, e.modseq))
         /\ (~e.misled => e.view = known(e.map))
<1>0. /\ d \in State /\ MapInv(mbox, d) /\ d.oldexists = Len(d.map)
      /\ \A j \in DOMAIN d.map : ~d.map[j].expunged /\ d.map[j].told = d.map[j].modseq
  BY DEF JustOpened
<1>1. d.map \in Seq(Entry) /\ d.highestmodseq \in Nat /\ DOMAIN d.map = 1 .. Len(d.map) BY <1>0, StateFields
<1>2. MapInv(mbox, e)
  <2>1. d.highestmodseq <= d.highestmodseq BY <1>1
  <2> QED BY <2>1, <1>0 DEF MapInv
<1>3. changed(e) = {}
  <2>1. \A j \in DOMAIN d.map : ~(d.map[j].modseq > d.map[j].told)
    <3> TAKE j \in DOMAIN d.map
    <3>1. d.map[j].modseq \in Nat BY <1>0, StateFields, EntryFields
    <3> QED BY <3>1, <1>0
  <2> QED BY <2>1 DEF changed
<1>4. ASSUME ~e.misled PROVE InView(e)
  <2>1. /\ Len(e.view) = Len(d.map)
        /\ \A j \in DOMAIN d.map : e.view[j].uid = d.map[j].uid /\ e.view[j].flags = d.map[j].flags
    BY <1>1, <1>4, KnownSeq
  <2> QED BY <2>1, <1>0, <1>1, <1>3, <1>4 DEF InView
<1>5. Covered(e.map, e.modseq) BY <1>0 DEF Covered
<1>6. Core(mbox, e) BY <1>2, <1>4, <1>5 DEF Core
<1>7. ASSUME ~e.misled PROVE Has(mbox, e.view, e.modseq)
  <2>1. e.modseq \in Nat /\ e.modseq <= e.highestmodseq BY <1>1
  <2>2. e.oldexists = Len(e.map) BY <1>0
  <2> QED BY <2>1, <2>2, <1>2, <1>3, <1>4, <1>7, HasAll
<1> QED BY <1>6, <1>7

-----------------------------------------------------------------------------
\* A client that resumes

Live(uid) == \E r \in DOMAIN mbox.recs : mbox.recs[r].uid = uid /\ ~mbox.recs[r].expunged

\* Of the messages it has the client is told exactly those that are gone.
LEMMA Vanished ==
  ASSUME Box(mode, mbox, files), NEW view \in Seq(View), NEW n \in Nat, Resumable(mbox, view, n),
         NEW i \in DOMAIN view
  PROVE  view[i].uid \notin index_vanished(n) <=> Live(view[i].uid)
<1> DEFINE uid == view[i].uid
           recs == {mbox.recs[r] : r \in DOMAIN mbox.recs}
           dead == {rec.uid : rec \in {rec \in recs : rec.expunged /\ rec.modseq > n}}
           alive == {rec.uid : rec \in {rec \in recs : ~rec.expunged}}
<1>0. /\ mbox.highestmodseq \in Nat /\ mbox.deletedmodseq \in Nat /\ mbox.last_uid \in Nat
      /\ mbox.deletedmodseq <= mbox.highestmodseq
  BY BoxFields DEF Box
<1>1. uid \in 1 .. mbox.last_uid
  <2>1. view[i] \in View OBVIOUS
  <2>2. uid \in Nat \ {0} BY <2>1, KnownFields DEF View
  <2>3. uid <= mbox.last_uid BY DEF Resumable
  <2> QED BY <2>2, <2>3, <1>0
<1>2. index_vanished(n) = IF n >= mbox.highestmodseq THEN {}
                          ELSE IF n >= mbox.deletedmodseq THEN dead ELSE 1 .. mbox.last_uid \ alive
  BY DEF index_vanished
<1>3. \A r \in DOMAIN mbox.recs : mbox.recs[r].uid = uid /\ mbox.recs[r].expunged => mbox.recs[r].modseq > n
  BY DEF Resumable
<1>4. (\A r \in DOMAIN mbox.recs : mbox.recs[r].uid # uid) => mbox.deletedmodseq > n
  BY DEF Resumable
<1> HIDE DEF uid
<1>5. uid \in alive <=> Live(uid)
  <2>1. ASSUME uid \in alive PROVE Live(uid) BY <2>1 DEF Live
  <2>2. ASSUME Live(uid) PROVE uid \in alive
    <3>1. PICK r \in DOMAIN mbox.recs : mbox.recs[r].uid = uid /\ ~mbox.recs[r].expunged BY <2>2 DEF Live
    <3>2. mbox.recs[r] \in recs OBVIOUS
    <3> HIDE DEF recs
    <3> QED BY <3>1, <3>2
  <2> QED BY <2>1, <2>2
<1>6. ASSUME uid \in dead PROVE ~Live(uid)
  <2>1. PICK r \in DOMAIN mbox.recs : mbox.recs[r].uid = uid /\ mbox.recs[r].expunged BY <1>6
  <2>2. \A k \in DOMAIN mbox.recs : mbox.recs[k].uid = uid => k = r BY <2>1, UidUnique
  <2> QED BY <2>1, <2>2 DEF Live
<1>7. ASSUME ~Live(uid), uid \notin dead PROVE mbox.deletedmodseq > n
  <2>1. ASSUME NEW r \in DOMAIN mbox.recs, mbox.recs[r].uid = uid PROVE FALSE
    <3>1. mbox.recs[r].expunged BY <2>1, <1>7 DEF Live
    <3>2. mbox.recs[r].modseq > n BY <2>1, <3>1, <1>3
    <3>3. mbox.recs[r] \in recs OBVIOUS
    <3>4. mbox.recs[r].uid \in dead
      <4> HIDE DEF recs
      <4> QED BY <3>1, <3>2, <3>3
    <3> QED BY <2>1, <3>4, <1>7
  <2> QED BY <2>1, <1>4
<1>8. ASSUME n >= mbox.highestmodseq PROVE uid \notin dead
  <2> SUFFICES ASSUME uid \in dead PROVE FALSE OBVIOUS
  <2>1. PICK r \in DOMAIN mbox.recs : mbox.recs[r].modseq > n OBVIOUS
  <2>2. mbox.recs[r].modseq <= mbox.highestmodseq /\ mbox.recs[r].modseq \in Nat BY BoxUids
  <2> QED BY <2>1, <2>2, <1>0, <1>8
<1> HIDE DEF dead, alive
<1>9. CASE n >= mbox.highestmodseq
  <2>1. index_vanished(n) = {} BY <1>2, <1>9
  <2>2. Live(uid)
    <3> SUFFICES ASSUME ~Live(uid) PROVE FALSE OBVIOUS
    <3>1. mbox.deletedmodseq > n BY <1>7, <1>8, <1>9
    <3> QED BY <3>1, <1>0, <1>9
  <2> QED BY <2>1, <2>2 DEF uid
<1>10. CASE ~(n >= mbox.highestmodseq) /\ n >= mbox.deletedmodseq
  <2>1. index_vanished(n) = dead BY <1>2, <1>10
  <2>2. ~(mbox.deletedmodseq > n) BY <1>0, <1>10
  <2> QED BY <2>1, <2>2, <1>6, <1>7 DEF uid
<1>11. CASE ~(n >= mbox.highestmodseq) /\ ~(n >= mbox.deletedmodseq)
  <2>1. index_vanished(n) = 1 .. mbox.last_uid \ alive BY <1>2, <1>11
  <2> QED BY <2>1, <1>1, <1>5 DEF uid
<1> QED BY <1>9, <1>10, <1>11

\* Each entry of a session that has just opened the mailbox is a record, and conversely.
LEMMA OpenedRecords ==
  ASSUME Box(mode, mbox, files), NEW d, JustOpened(d)
  PROVE  /\ \A j \in DOMAIN d.map : \E r \in DOMAIN mbox.recs :
              /\ mbox.recs[r].uid = d.map[j].uid /\ mbox.recs[r].flags = d.map[j].flags
              /\ mbox.recs[r].modseq = d.map[j].modseq /\ ~mbox.recs[r].expunged
         /\ \A uid : Live(uid) => \E j \in DOMAIN d.map : d.map[j].uid = uid
<1>0. d \in State /\ MapInv(mbox, d) /\ Current(d) /\ \A j \in DOMAIN d.map : ~d.map[j].expunged
  BY DEF JustOpened
<1>1. ASSUME NEW j \in DOMAIN d.map
      PROVE  \E r \in DOMAIN mbox.recs :
              /\ mbox.recs[r].uid = d.map[j].uid /\ mbox.recs[r].flags = d.map[j].flags
              /\ mbox.recs[r].modseq = d.map[j].modseq /\ ~mbox.recs[r].expunged
  <2>1. IsEntry(mbox, mbox.highestmodseq, d.map[j]) /\ Located(mbox, d.map[j]) /\ ~d.map[j].expunged
    BY <1>0 DEF MapInv, Current, UpTo
  <2>2. d.map[j].recno # 0 /\ Seen(mbox, mbox.highestmodseq, d.map[j]) BY <2>1 DEF IsEntry
  <2> DEFINE r == d.map[j].recno
  <2>3. r \in DOMAIN mbox.recs /\ mbox.recs[r].uid = d.map[j].uid BY <2>1, <2>2 DEF Located
  <2>4. mbox.recs[r].modseq <= mbox.highestmodseq BY <2>3, BoxUids
  <2> QED BY <2>1, <2>2, <2>3, <2>4 DEF Seen
<1>2. ASSUME NEW uid, Live(uid) PROVE \E j \in DOMAIN d.map : d.map[j].uid = uid
  <2>1. PICK r \in DOMAIN mbox.recs : mbox.recs[r].uid = uid /\ ~mbox.recs[r].expunged BY <1>2 DEF Live
  <2>2. mbox.recs[r].modseq <= mbox.highestmodseq BY BoxUids
  <2> QED BY <2>1, <2>2, <1>0 DEF MapInv, Current, UpTo, Complete
<1> QED BY <1>1, <1>2

LEMMA KnownSorted ==
  ASSUME NEW q \in Seq(Entry), Sorted(q)
  PROVE  Sorted(known(q))
<1>1. /\ DOMAIN known(q) = DOMAIN q
      /\ \A i \in DOMAIN q : known(q)[i].uid = q[i].uid
  BY KnownSeq
<1> QED BY <1>1 DEF Sorted

\* In the order of UIDs each UID is there once.
LEMMA SortedOnce ==
  ASSUME NEW T, HaveUids(T), NEW q \in Seq(T), Sorted(q), NEW i \in DOMAIN q, NEW j \in DOMAIN q,
         q[i].uid = q[j].uid
  PROVE  i = j
<1>1. q[i].uid \in Nat /\ q[j].uid \in Nat BY DEF HaveUids
<1>2. (i < j => q[i].uid < q[j].uid) /\ (j < i => q[j].uid < q[i].uid) BY DEF Sorted
<1>3. i \in Nat /\ j \in Nat OBVIOUS
<1> QED BY <1>1, <1>2, <1>3

LEMMA Resynced ==
  ASSUME Box(mode, mbox, files), NEW d, JustOpened(d), NEW view \in Seq(View), NEW n \in Nat,
         Resumable(mbox, view, n)
  PROVE  resynced(d, view, n) = known(d.map)
<1> DEFINE S == {i \in DOMAIN view : view[i].uid \notin index_vanished(n)}
           kept == pick(view, S)
           told == {j \in DOMAIN d.map : d.map[j].modseq > n}
           now(v) == {j \in told : d.map[j].uid = v.uid}
           new == {j \in told : \A i \in DOMAIN kept : kept[i].uid # d.map[j].uid}
           all == known(d.map)
           p == [i \in DOMAIN kept |-> IF now(kept[i]) = {} THEN kept[i]
                                       ELSE all[CHOOSE j \in now(kept[i]) : TRUE]]
           rest == pick(d.map, new)
           q == known(rest)
<1>1. resynced(d, view, n) = p \o q BY DEF resynced
<1>2. /\ d.map \in Seq(Entry) /\ Sorted(d.map) /\ DOMAIN d.map = 1 .. Len(d.map)
      /\ \A j \in DOMAIN d.map : d.map[j] \in Entry /\ d.map[j].uid \in Nat /\ d.map[j].modseq \in Nat
  BY StateFields, EntryFields DEF JustOpened, MapInv
<1>3. /\ all \in Seq(View) /\ DOMAIN all = DOMAIN d.map /\ Sorted(all)
      /\ \A j \in DOMAIN d.map : all[j] = [uid |-> d.map[j].uid, flags |-> d.map[j].flags]
                                 /\ all[j].uid = d.map[j].uid
  BY <1>2, KnownSeq, KnownSorted
<1>4. Sorted(view) BY DEF Resumable
<1>5. kept \in Seq(View) /\ Sorted(kept) /\ Chosen(kept, view, S) BY <1>4, PickedSorted
<1>6. rest \in Seq(Entry) /\ Sorted(rest) /\ Chosen(rest, d.map, new) BY <1>2, PickedSorted
<1> HIDE DEF all, kept, rest, q
<1>7. /\ q \in Seq(View) /\ Sorted(q) /\ DOMAIN q = DOMAIN rest
      /\ \A i \in DOMAIN rest : q[i] = [uid |-> rest[i].uid, flags |-> rest[i].flags]
                                /\ q[i].uid = rest[i].uid
  BY <1>6, KnownSeq, KnownSorted DEF q
<1>k. DOMAIN kept = 1 .. Len(kept) /\ Len(kept) \in Nat BY <1>5
<1>8. ASSUME NEW i \in DOMAIN kept
      PROVE  Live(kept[i].uid) /\ \E k \in DOMAIN view : kept[i] = view[k]
  <2>1. PICK k \in DOMAIN view \cap S : kept[i] = view[k] BY <1>5 DEF Chosen
  <2> QED BY <2>1, Vanished
<1>9. ASSUME NEW k \in DOMAIN view, Live(view[k].uid) PROVE \E i \in DOMAIN kept : kept[i] = view[k]
  <2>1. k \in DOMAIN view \cap S BY <1>9, Vanished
  <2> QED BY <2>1, <1>5 DEF Chosen
<1>10. ASSUME NEW j \in DOMAIN d.map, d.map[j].modseq <= n
       PROVE  \E i \in DOMAIN kept : kept[i] = all[j]
  <2>1. PICK r \in DOMAIN mbox.recs :
              /\ mbox.recs[r].uid = d.map[j].uid /\ mbox.recs[r].flags = d.map[j].flags
              /\ mbox.recs[r].modseq = d.map[j].modseq /\ ~mbox.recs[r].expunged
    BY OpenedRecords
  <2>2. PICK k \in DOMAIN view : view[k] = [uid |-> mbox.recs[r].uid, flags |-> mbox.recs[r].flags]
    BY <2>1, <1>10 DEF Resumable, Has
  <2>3. view[k] = all[j] /\ view[k].uid = mbox.recs[r].uid BY <2>1, <2>2, <1>3
  <2>4. Live(view[k].uid) BY <2>1, <2>3 DEF Live
  <2> QED BY <2>3, <2>4, <1>9
<1>11. ASSUME NEW i \in DOMAIN kept
       PROVE  \E j \in DOMAIN d.map : p[i] = all[j] /\ d.map[j].uid = kept[i].uid
  <2>1. PICK j \in DOMAIN d.map : d.map[j].uid = kept[i].uid BY <1>8, OpenedRecords
  <2>2. CASE now(kept[i]) = {}
    <3>1. ~(d.map[j].modseq > n) BY <2>1, <2>2
    <3>2. d.map[j].modseq <= n BY <3>1, <1>2
    <3>3. PICK k \in DOMAIN kept : kept[k] = all[j] BY <3>2, <1>10
    <3>4. kept[k].uid = kept[i].uid BY <2>1, <3>3, <1>3
    <3>5. k = i BY <3>4, <1>5, ViewUids, SortedOnce
    <3>6. p[i] = kept[i] BY <2>2
    <3> HIDE DEF p
    <3> QED BY <2>1, <3>3, <3>5, <3>6
  <2>3. CASE now(kept[i]) # {}
    <3> DEFINE x == CHOOSE y \in now(kept[i]) : TRUE
    <3>1. x \in now(kept[i])
      <4> HIDE DEF now
      <4> QED BY <2>3
    <3>2. p[i] = all[x] BY <2>3
    <3> HIDE DEF x, p
    <3> QED BY <3>1, <3>2
  <2> QED BY <2>2, <2>3
<1>12. p \in Seq(View) /\ Len(p) = Len(kept) /\ DOMAIN p = DOMAIN kept
       /\ \A i \in DOMAIN kept : p[i].uid = kept[i].uid
  <2>1. \A i \in DOMAIN kept : p[i] \in View /\ p[i].uid = kept[i].uid
    <3> TAKE i \in DOMAIN kept
    <3>1. PICK j \in DOMAIN d.map : p[i] = all[j] /\ d.map[j].uid = kept[i].uid BY <1>11
    <3>2. all[j].uid = d.map[j].uid BY <1>3
    <3>3. all \in Seq(View) /\ j \in DOMAIN all BY <1>3
    <3>4. all[j] \in View BY ONLY <3>3
    <3> HIDE DEF p
    <3> QED BY <3>1, <3>2, <3>4
  <2>2. p = [i \in 1 .. Len(kept) |-> p[i]] BY <1>k
  <2> HIDE DEF p
  <2> QED BY <2>1, <2>2, <1>k, IsSeq
<1> HIDE DEF p
<1>13. ASSUME NEW i \in DOMAIN q
       PROVE  \E j \in DOMAIN d.map : /\ q[i] = all[j] /\ d.map[j].uid = q[i].uid
                                      /\ \A k \in DOMAIN kept : kept[k].uid # d.map[j].uid
  <2>1. i \in DOMAIN rest BY <1>7
  <2>2. PICK j \in DOMAIN d.map \cap new : rest[i] = d.map[j] BY <2>1, <1>6 DEF Chosen
  <2> QED BY <2>1, <2>2, <1>3, <1>7
<1>14. ASSUME NEW i \in DOMAIN p, NEW k \in DOMAIN q PROVE p[i].uid < q[k].uid
  <2>1. PICK j \in DOMAIN d.map : /\ d.map[j].uid = q[k].uid
                                  /\ \A x \in DOMAIN kept : kept[x].uid # d.map[j].uid
    BY <1>13
  <2>2. Live(d.map[j].uid) BY OpenedRecords DEF Live
  <2>3. PICK v \in DOMAIN view : kept[i] = view[v] BY <1>8, <1>12
  <2>4. \A x \in DOMAIN view : view[x].uid # d.map[j].uid
    <3> SUFFICES ASSUME NEW x \in DOMAIN view, view[x].uid = d.map[j].uid PROVE FALSE OBVIOUS
    <3>1. PICK y \in DOMAIN kept : kept[y] = view[x] BY <2>2, <1>9
    <3> QED BY <3>1, <2>1
  <2>5. PICK r \in DOMAIN mbox.recs : mbox.recs[r].uid = d.map[j].uid /\ ~mbox.recs[r].expunged
    BY <2>2 DEF Live
  <2>6. ~(mbox.recs[r].uid <= view[v].uid)
    <3> SUFFICES ASSUME mbox.recs[r].uid <= view[v].uid PROVE FALSE OBVIOUS
    <3>1. PICK x \in DOMAIN view : view[x].uid = mbox.recs[r].uid BY <2>5 DEF Resumable
    <3> QED BY <3>1, <2>4, <2>5
  <2>7. view[v].uid \in Nat /\ mbox.recs[r].uid \in Nat
    <3>1. view[v] \in View OBVIOUS
    <3> QED BY <3>1, KnownFields, BoxUids DEF View
  <2>8. p[i].uid = view[v].uid /\ q[k].uid = mbox.recs[r].uid BY <2>1, <2>3, <2>5, <1>12
  <2> QED BY <2>6, <2>7, <2>8
<1> DEFINE w == p \o q
<1>15. /\ w \in Seq(View) /\ DOMAIN w = 1 .. Len(p) + Len(q)
       /\ \A i \in DOMAIN p : i \in DOMAIN w /\ w[i] = p[i]
       /\ \A i \in DOMAIN q : Len(p) + i \in DOMAIN w /\ w[Len(p) + i] = q[i]
       /\ \A i \in DOMAIN w : i \notin DOMAIN p => i - Len(p) \in DOMAIN q /\ w[i] = q[i - Len(p)]
  <2>1. p \in Seq(View) /\ q \in Seq(View) BY <1>7, <1>12
  <2> QED BY ONLY <2>1, Joined
<1> HIDE DEF w
<1>n. Len(p) \in Nat /\ Len(q) \in Nat /\ DOMAIN p = 1 .. Len(p) BY <1>7, <1>12
<1>16. Sorted(w)
  <2> SUFFICES ASSUME NEW i \in DOMAIN w, NEW j \in DOMAIN w, i < j PROVE w[i].uid < w[j].uid
    BY DEF Sorted
  <2>1. CASE j \in DOMAIN p
    <3>1. i \in DOMAIN p BY <2>1, <1>n, <1>15
    <3>2. kept[i].uid < kept[j].uid BY <2>1, <3>1, <1>5, <1>12 DEF Sorted
    <3> QED BY <2>1, <3>1, <3>2, <1>12, <1>15
  <2>2. CASE j \notin DOMAIN p /\ i \in DOMAIN p
    <3>1. j - Len(p) \in DOMAIN q /\ w[j] = q[j - Len(p)] BY <2>2, <1>15
    <3> QED BY <2>2, <3>1, <1>14, <1>15
  <2>3. CASE j \notin DOMAIN p /\ i \notin DOMAIN p
    <3>1. i - Len(p) \in DOMAIN q /\ w[i] = q[i - Len(p)] BY <2>3, <1>15
    <3>2. j - Len(p) \in DOMAIN q /\ w[j] = q[j - Len(p)] BY <2>3, <1>15
    <3>3. i - Len(p) < j - Len(p) BY <1>n, <1>15
    <3> QED BY <3>1, <3>2, <3>3, <1>7 DEF Sorted
  <2> QED BY <2>1, <2>2, <2>3
<1>17. Among(w, all)
  <2> SUFFICES ASSUME NEW i \in DOMAIN w PROVE \E j \in DOMAIN all : w[i] = all[j] BY DEF Among
  <2>1. CASE i \in DOMAIN p BY <2>1, <1>3, <1>11, <1>12, <1>15
  <2>2. CASE i \notin DOMAIN p
    <3>1. i - Len(p) \in DOMAIN q /\ w[i] = q[i - Len(p)] BY <2>2, <1>15
    <3> QED BY <3>1, <1>3, <1>13
  <2> QED BY <2>1, <2>2
<1>18. Among(all, w)
  <2> SUFFICES ASSUME NEW j \in DOMAIN all PROVE \E i \in DOMAIN w : all[j] = w[i] BY DEF Among
  <2>0. j \in DOMAIN d.map BY <1>3
  <2>1. ASSUME NEW i \in DOMAIN kept, kept[i].uid = d.map[j].uid PROVE \E x \in DOMAIN w : all[j] = w[x]
    <3>1. PICK k \in DOMAIN d.map : p[i] = all[k] /\ d.map[k].uid = kept[i].uid BY <1>11
    <3>2. k = j BY <2>0, <2>1, <3>1, <1>2, EntryUids, SortedOnce
    <3> QED BY <3>1, <3>2, <1>12, <1>15
  <2>2. ASSUME \A i \in DOMAIN kept : kept[i].uid # d.map[j].uid PROVE \E x \in DOMAIN w : all[j] = w[x]
    <3>1. d.map[j].modseq > n
      <4> SUFFICES ASSUME ~(d.map[j].modseq > n) PROVE FALSE OBVIOUS
      <4>1. d.map[j].modseq <= n BY <2>0, <1>2
      <4>2. PICK i \in DOMAIN kept : kept[i] = all[j] BY <2>0, <4>1, <1>10
      <4> QED BY <2>0, <2>2, <4>2, <1>3
    <3>2. j \in DOMAIN d.map \cap new BY <2>0, <2>2, <3>1
    <3>3. PICK i \in DOMAIN rest : rest[i] = d.map[j] BY <3>2, <1>6 DEF Chosen
    <3>4. i \in DOMAIN q /\ q[i] = all[j] BY <2>0, <3>3, <1>3, <1>7
    <3> QED BY <3>4, <1>15
  <2> QED BY <2>1, <2>2
<1>19. w = all BY <1>3, <1>15, <1>16, <1>17, <1>18, ViewUids, SortedUnique
<1> QED BY <1>1, <1>19 DEF w, all
-----------------------------------------------------------------------------
\* Answers

\* After its answers the client has what the session has found, and with the
\* expunges, which x allows, nothing waits.
Answered(b, x, d) ==
  /\ Core(b, d)
  /\ (~d.misled => \A n \in Nat : n <= d.highestmodseq => Has(b, d.view, n))
  /\ (x /\ ~d.misled => AllTold(d))

LEMMA Answers ==
  ASSUME NEW m, NEW b, NEW fs, Box(m, b, fs), NEW c, Core(b, c), NEW x \in BOOLEAN
  PROVE  LET d == index_tellchanges(c, x)
         IN  /\ Answered(b, x, d) /\ SameSession(c, d)
             /\ (x \/ Clean(m, c.map) => Clean(m, d.map))
<1> DEFINE d == index_tellchanges(c, x)
<1>1. /\ Core(b, d) /\ SameSession(c, d) /\ d.oldexists = Len(d.map)
      /\ (~d.misled => \A j \in changed(d) : d.map[j].expunged)
      /\ (x => \A j \in DOMAIN d.map : ~d.map[j].expunged)
      /\ (x \/ Clean(m, c.map) => Clean(m, d.map))
  BY TellChanges
<1> HIDE DEF d
<1>2. ASSUME ~d.misled, NEW n \in Nat, n <= d.highestmodseq PROVE Has(b, d.view, n)
  <2>1. d \in State /\ MapInv(b, d) /\ InView(d) BY <1>1, <1>2 DEF Core
  <2> QED BY <1>1, <1>2, <2>1, HasAll
<1>3. ASSUME x, ~d.misled PROVE AllTold(d)
  <2>1. changed(d) = {} BY <1>1, <1>3 DEF changed
  <2> QED BY <1>1, <1>3, <2>1 DEF AllTold
<1>4. Answered(b, x, d) BY <1>1, <1>2, <1>3 DEF Answered
<1> QED BY <1>1, <1>4 DEF d

LEMMA Checks ==
  ASSUME Box(mode, mbox, files), NEW c, Core(mbox, c), NEW x \in BOOLEAN
  PROVE  LET d == index_check(c, x)
         IN  /\ Answered(mbox, x, d) /\ Current(d)
             /\ (x \/ Clean(mode, c.map) => Clean(mode, d.map))
<1> DEFINE l == index_lock(c)
           d == index_tellchanges(l, x)
<1>1. /\ Core(mbox, l) /\ Current(l) /\ (Clean(mode, c.map) => Clean(mode, l.map)) BY Lock
<1> HIDE DEF l
<1>2. /\ Answered(mbox, x, d) /\ SameSession(l, d)
      /\ (x \/ Clean(mode, l.map) => Clean(mode, d.map))
  BY <1>1, Answers
<1> HIDE DEF d
<1>3. Current(d) BY <1>1, <1>2 DEF Current, UpTo, SameSession
<1>4. d \in State BY <1>2 DEF Answered, Core
<1>5. index_unlock(d, mbox) = d BY <1>3, <1>4, Unlock DEF Current, UpTo
<1>6. index_check(c, x) = d BY <1>5 DEF index_check, d, l
<1> QED BY <1>1, <1>2, <1>3, <1>6

LEMMA AnswerEnds ==
  ASSUME NEW m, NEW b, NEW fs, NEW x, NEW c, Answered(b, x, c), Clean(m, c.map), NEW d \in State,
         SameState(c, d), d.pc \in {"idle", "refresh", "copy", "check"},
         d.pc = "copy" => Reading(b, fs, c),
         d.last \in {"noop", "expunge"} => x, d.last # "resume"
  PROVE  Sess(m, b, fs, d)
<1>1. Core(b, c) BY DEF Answered
<1>2. c.modseq \in Nat /\ c.modseq <= c.highestmodseq BY <1>1, StateFields DEF Core, MapInv
<1>3. ~c.misled => Has(b, c.view, c.modseq) BY <1>2 DEF Answered
<1>4. ~c.misled /\ d.last \in {"noop", "expunge"} => AllTold(c) BY DEF Answered
<1>5. d.pc # "off" /\ d.pc # "move" /\ d.pc # "fetch" OBVIOUS
<1> QED BY <1>1, <1>3, <1>4, <1>5, StepEnds

\* The responses to a FETCH tell all changes, those of expunged messages excepted.
LEMMA Responses ==
  ASSUME NEW m, NEW b, NEW c, Core(b, c), Clean(m, c.map)
  PROVE  Core(b, fetchresponses(c)) /\ Clean(m, fetchresponses(c).map)
<1> DEFINE e == exists_changed(c)
           asked == {j \in DOMAIN e.map : e.map[j].uid \in e.seq}
           range == IF e.oldhighestmodseq = e.highestmodseq THEN asked ELSE DOMAIN e.map
           js == {j \in changed(e) \cap range : j \in asked => e.map[j].recno # 0}
           f == printflags(e, js)
           g == [f EXCEPT !.oldhighestmodseq = e.highestmodseq]
<1>1. fetchresponses(c) = g BY DEF fetchresponses
<1>2. Core(b, e) /\ e.map = c.map BY CoreExists
<1> HIDE DEF e
<1>3. js \in SUBSET DOMAIN e.map BY DEF changed
<1>4. ASSUME NEW j \in changed(e) \ js, ~e.misled PROVE e.map[j].expunged
  <2>1. j \in DOMAIN e.map BY DEF changed
  <2>2. CASE j \notin range
    <3>1. e.oldhighestmodseq = e.highestmodseq BY <2>1, <2>2
    <3> QED BY <3>1, <1>2, <1>4 DEF Core, InView
  <2>3. CASE j \in range
    <3>1. e.map[j].recno = 0 BY <2>3
    <3>2. IsEntry(b, e.highestmodseq, e.map[j]) BY <1>2, <2>1 DEF Core, MapInv
    <3> QED BY <3>1, <3>2 DEF IsEntry
  <2> QED BY <2>2, <2>3
<1> HIDE DEF js
<1>5. /\ Core(b, f) /\ SameSession(e, f) /\ SameMap(e.map, f.map)
      /\ changed(f) = changed(e) \ js
  BY <1>2, <1>3, CorePrinted
<1> HIDE DEF f
<1>6. f \in State /\ e \in State BY <1>2, <1>5 DEF Core
<1>7. f.highestmodseq = e.highestmodseq /\ e.highestmodseq \in Nat /\ f.misled = e.misled
  BY <1>5, <1>6, StateFields DEF SameSession
<1>8. /\ g \in State /\ g.map = f.map /\ g.oldhighestmodseq = f.highestmodseq
      /\ g.highestmodseq = f.highestmodseq /\ g.generation = f.generation /\ g.modseq = f.modseq
      /\ g.oldexists = f.oldexists /\ g.delayed_modseq = f.delayed_modseq
      /\ g.view = f.view /\ g.misled = f.misled /\ g.late = f.late /\ g.unknown = f.unknown
  BY <1>6, <1>7 DEF State
<1> HIDE DEF g
<1>9. f.highestmodseq <= f.highestmodseq BY <1>7
<1>10. MapInv(b, g) BY <1>5, <1>8, <1>9 DEF Core, MapInv
<1>11. ASSUME ~g.misled PROVE InView(g)
  <2>1. InView(f) BY <1>5, <1>8, <1>11 DEF Core
  <2>2. changed(g) = changed(f) BY <1>8 DEF changed
  <2>3. \A j \in changed(g) : g.map[j].expunged
    <3> TAKE j \in changed(g)
    <3>1. j \in changed(e) \ js BY <2>2, <1>5
    <3>2. e.map[j].expunged BY <3>1, <1>4, <1>7, <1>8, <1>11
    <3>3. j \in DOMAIN e.map BY <3>1 DEF changed
    <3> QED BY <3>2, <3>3, <1>5, <1>8 DEF SameMap, SameEntry
  <2> QED BY <2>1, <2>3, <1>8 DEF InView
<1>12. Core(b, g) BY <1>5, <1>8, <1>10, <1>11 DEF Core
<1>13. Clean(m, g.map) BY <1>2, <1>5, <1>8, CleanSame
<1> QED BY <1>1, <1>12, <1>13

-----------------------------------------------------------------------------
\* Steps

\* A session steps, and nothing else.
LEMMA SessionSteps ==
  ASSUME IndexInv, NEW s \in Session, NEW c, Sess(mode, mbox, files, c), unchanged,
         ses' = [ses EXCEPT ![s] = c]
  PROVE  IndexInv'
<1>1. mode' = mode /\ mbox' = mbox /\ files' = files /\ closing' = closing /\ ops' = ops
  BY DEF unchanged
<1>2. c \in State BY DEF Sess
<1>3. ses' \in [Session -> State] /\ ses'[s] = c /\ \A t \in Session : t # s => ses'[t] = ses[t]
  BY <1>2 DEF IndexInv
<1>4. \A t \in Session : Sess(mode, mbox, files, ses'[t]) BY <1>3 DEF IndexInv
<1>5. mode' \in Modes /\ closing' \in BOOLEAN /\ ops' \in 0 .. MaxOps /\ Box(mode', mbox', files')
  BY <1>1 DEF IndexInv
<1> QED BY <1>1, <1>3, <1>4, <1>5 DEF IndexInv

\* The mailbox changes, and no session steps: what is read stays.
LEMMA MailboxSteps ==
  ASSUME IndexInv, NEW d, NEW gs, Box(mode, d, gs), Evolves(mbox, d),
         mode' = mode, mbox' = d, files' = gs, closing' \in BOOLEAN, ops' \in 0 .. MaxOps,
         reading # {} => files \subseteq gs /\ d.generation_no = mbox.generation_no,
         ses' = ses
  PROVE  IndexInv'
<1>1. \A t \in Session : Sess(mode, d, gs, ses[t])
  <2> TAKE t \in Session
  <2>1. Sess(mode, mbox, files, ses[t]) /\ Box(mode, mbox, files) BY DEF IndexInv
  <2>2. ses[t].pc \in {"fetch", "copy"} => files \subseteq gs /\ d.generation_no = mbox.generation_no
    BY DEF reading
  <2> QED BY <2>1, <2>2, SessEvolves
<1>2. mode' \in Modes /\ ses' \in [Session -> State] BY DEF IndexInv
<1>3. Box(mode', mbox', files') OBVIOUS
<1>4. \A t \in Session : Sess(mode', mbox', files', ses'[t]) BY <1>1
<1> QED BY <1>2, <1>3, <1>4 DEF IndexInv

\* A session rewrites records.
LEMMA RewriteSteps ==
  ASSUME IndexInv, NEW s \in Session, NEW c, NEW js, Cardinality(js) \in Nat, NEW b, Rewrite(js, b),
         Box(mode, b, files), \A t \in Session : Sess(mode, b, files, ses[t]),
         Sess(mode, b, files, c), ses' = [ses EXCEPT ![s] = c]
  PROVE  IndexInv'
<1>1. mode' = mode /\ mbox' = b /\ files' = files /\ closing' = closing
  BY DEF Rewrite
<1>2. ops' \in 0 .. MaxOps
  <2>1. ops \in 0 .. MaxOps /\ ops + Cardinality(js) <= MaxOps /\ ops' = ops + Cardinality(js)
    BY DEF Rewrite, IndexInv
  <2> QED BY <2>1, IndexAssumption
<1>3. c \in State BY DEF Sess
<1>4. ses' \in [Session -> State] /\ ses'[s] = c /\ \A t \in Session : t # s => ses'[t] = ses[t]
  BY <1>3 DEF IndexInv
<1>5. \A t \in Session : Sess(mode, b, files, ses'[t]) BY <1>4
<1>6. mode' \in Modes /\ closing' \in BOOLEAN /\ Box(mode', mbox', files') BY <1>1 DEF IndexInv
<1> QED BY <1>1, <1>2, <1>4, <1>5, <1>6 DEF IndexInv

\* What is known of a session that has the mailbox open
LEMMA SessionFacts ==
  ASSUME IndexInv, NEW s \in Session, ses[s].pc # "off"
  PROVE  /\ Box(mode, mbox, files) /\ ses[s] \in State /\ Core(mbox, ses[s])
         /\ (~Expunging(ses[s]) => Clean(mode, ses[s].map))
         /\ (ses[s].pc # "check" => Clean(mode, ses[s].map))
         /\ (ses[s].pc \in {"fetch", "copy"} => Reading(mbox, files, ses[s]))
         /\ (ses[s].pc = "move" => ses[s].byuid)
         /\ (~ses[s].misled /\ ~ses[s].late /\ ses[s].pc # "fetch" =>
               Has(mbox, ses[s].view, ses[s].modseq))
BY DEF IndexInv, Sess, Opened, Expunging

LEMMA CheckStep ==
  ASSUME IndexInv, NEW s \in Session, Check(s) \/ CheckQuiet(s) \/ CheckAfter(s)
  PROVE  IndexInv'
<1> DEFINE c == ses[s]
<1>1. unchanged /\ c.pc \in {"idle", "check"} BY DEF Check, CheckQuiet, CheckAfter
<1>2. /\ Box(mode, mbox, files) /\ c \in State /\ Core(mbox, c)
      /\ (c.pc # "check" => Clean(mode, c.map)) /\ (~Expunging(c) => Clean(mode, c.map))
  BY <1>1, SessionFacts
<1> HIDE DEF c
<1>3. ASSUME NEW x \in BOOLEAN, NEW pc \in {"idle", "refresh"}, NEW last \in {"none", "noop"},
             last = "noop" => x, x \/ Clean(mode, c.map), NEW d, d \in State,
             SameState(index_check(c, x), d), ses' = [ses EXCEPT ![s] = [d EXCEPT !.pc = pc, !.last = last]]
      PROVE  IndexInv'
  <2> DEFINE k == index_check(c, x)
             e == at(d, pc, last)
  <2>1. Answered(mbox, x, k) /\ Clean(mode, k.map) BY <1>2, <1>3, Checks
  <2>2. SameState(k, d) BY <1>3
  <2> HIDE DEF k
  <2>3. pc \in Pcs /\ last \in Lasts BY DEF Pcs, Lasts
  <2>4. e \in State /\ SameState(d, e) /\ e.pc = pc /\ e.last = last
    <3>1. d \in State BY <1>3
    <3> QED BY ONLY <2>3, <3>1, Goes
  <2>5. ses' = [ses EXCEPT ![s] = e] BY <1>3 DEF at
  <2> HIDE DEF e
  <2>6. SameState(k, e) BY <2>2, <2>4 DEF SameState
  <2>7. /\ e.pc \in {"idle", "refresh", "copy", "check"} /\ e.pc # "copy" /\ e.last # "resume"
        /\ (e.last \in {"noop", "expunge"} => x)
    BY <1>3, <2>4
  <2>8. Sess(mode, mbox, files, e) BY <2>1, <2>4, <2>6, <2>7, AnswerEnds
  <2> QED BY <1>1, <2>5, <2>8, SessionSteps
<1>4. \A x \in BOOLEAN : /\ index_check(c, x) \in State
                         /\ SameState(index_check(c, x), index_check(c, x))
  BY <1>2, Checks DEF Answered, Core, SameState
<1>5. CASE Check(s)
  <2>1. PICK x \in BOOLEAN : /\ c.pc = "idle"
                             /\ go(s, "idle", IF x THEN "noop" ELSE "none", index_check(c, x))
    BY <1>5 DEF Check, c
  <2> DEFINE last == IF x THEN "noop" ELSE "none"
  <2>2. last \in {"none", "noop"} /\ (last = "noop" => x) OBVIOUS
  <2>3. ses' = [ses EXCEPT ![s] = [index_check(c, x) EXCEPT !.pc = "idle", !.last = last]]
    BY <2>1 DEF go
  <2> HIDE DEF last
  <2>4. Clean(mode, c.map) BY <2>1, <1>2
  <2> QED BY <1>3, <1>4, <2>2, <2>3, <2>4
<1>6. CASE CheckQuiet(s)
  <2>1. c.pc = "idle" /\ go(s, "refresh", "none", index_check(c, FALSE)) BY <1>6 DEF CheckQuiet, c
  <2>2. ses' = [ses EXCEPT ![s] = [index_check(c, FALSE) EXCEPT !.pc = "refresh", !.last = "none"]]
    BY <2>1 DEF go
  <2>3. Clean(mode, c.map) BY <2>1, <1>2
  <2> QED BY <1>3, <1>4, <2>2, <2>3
<1>7. CASE CheckAfter(s)
  <2>1. PICK ismove \in BOOLEAN :
          go(s, "idle", IF ismove \/ c.byuid THEN "noop" ELSE "none", done(index_check(c, ismove \/ c.byuid)))
    BY <1>7 DEF CheckAfter, c
  <2> DEFINE x == ismove \/ c.byuid
             last == IF x THEN "noop" ELSE "none"
             k == index_check(c, x)
  <2>2. x \in BOOLEAN BY <1>2, StateFields
  <2>3. last \in {"none", "noop"} /\ (last = "noop" => x) OBVIOUS
  <2>4. ses' = [ses EXCEPT ![s] = [done(k) EXCEPT !.pc = "idle", !.last = last]]
    BY <2>1 DEF go
  <2>5. x \/ Clean(mode, c.map) BY <1>2 DEF Expunging
  <2> HIDE DEF last, x
  <2>6. k \in State BY <2>2, <1>4
  <2>7. done(k) \in State /\ SameState(k, done(k)) BY <2>6, Done
  <2> QED BY <1>3, <2>2, <2>3, <2>4, <2>5, <2>7
<1> QED BY <1>5, <1>6, <1>7

LEMMA RefreshStep ==
  ASSUME IndexInv, NEW s \in Session, Refresh(s)
  PROVE  IndexInv'
<1> DEFINE c == ses[s]
           l == index_lock(c)
           e == at(l, "idle", "none")
<1>1. unchanged /\ c.pc = "refresh" /\ ses' = [ses EXCEPT ![s] = [index_unlock(l, mbox) EXCEPT !.pc = "idle", !.last = "none"]]
  BY DEF Refresh, go
<1>2. /\ Box(mode, mbox, files) /\ c \in State /\ Core(mbox, c) /\ Clean(mode, c.map)
      /\ (~c.misled /\ ~c.late => Has(mbox, c.view, c.modseq))
  BY <1>1, SessionFacts
<1> HIDE DEF c
<1>3. /\ Core(mbox, l) /\ Clean(mode, l.map) /\ Current(l) /\ SameClient(c, l) /\ (c.misled => l.misled)
  BY <1>2, Lock
<1> HIDE DEF l
<1>4. l \in State BY <1>3 DEF Core
<1>5. index_unlock(l, mbox) = l BY <1>3, <1>4, Unlock DEF Current, UpTo
<1>6. e \in State /\ SameState(l, e) /\ e.pc = "idle" /\ e.last = "none"
  <2>1. "idle" \in Pcs /\ "none" \in Lasts BY DEF Pcs, Lasts
  <2> QED BY ONLY <1>4, <2>1, Goes
<1>7. ses' = [ses EXCEPT ![s] = e] BY <1>1, <1>5 DEF at
<1> HIDE DEF e
<1>8. ~l.misled /\ ~l.late => Has(mbox, l.view, l.modseq) BY <1>2, <1>3 DEF SameClient
<1>9. Sess(mode, mbox, files, e) BY <1>3, <1>6, <1>8, StepEnds
<1> QED BY <1>1, <1>7, <1>9, SessionSteps

LEMMA LogoutStep ==
  ASSUME IndexInv, NEW s \in Session, Logout(s)
  PROVE  IndexInv'
<1> DEFINE c == ses[s]
           e == [closed(c) EXCEPT !.pc = "off", !.last = "none"]
<1>1. unchanged /\ c.pc = "idle" /\ ses' = [ses EXCEPT ![s] = e] BY DEF Logout, go
<1>2. /\ Box(mode, mbox, files) /\ Core(mbox, c)
      /\ (~c.misled /\ ~c.late => Has(mbox, c.view, c.modseq))
  BY <1>1, SessionFacts
<1>3. Sess(mode, mbox, files, e) BY <1>2, Closes
<1> HIDE DEF e
<1> QED BY <1>1, <1>3, SessionSteps

LEMMA Emptied ==
  ASSUME NEW c \in State
  PROVE  LET b == [c EXCEPT !.view = <<>>]
         IN  /\ b \in State /\ b.view = <<>> /\ b.modseq = c.modseq /\ b.late = c.late
             /\ b.misled = c.misled /\ b.unknown = c.unknown
<1> DEFINE v == <<>>
<1>1. v \in Seq([uid : 1 .. MaxUid, flags : Flags]) OBVIOUS
<1> HIDE DEF v
<1>2. /\ [c EXCEPT !.view = v] \in State /\ [c EXCEPT !.view = v].view = v
      /\ [c EXCEPT !.view = v].modseq = c.modseq /\ [c EXCEPT !.view = v].late = c.late
      /\ [c EXCEPT !.view = v].misled = c.misled /\ [c EXCEPT !.view = v].unknown = c.unknown
  BY <1>1 DEF State
<1> QED BY <1>2 DEF v

LEMMA SelectStep ==
  ASSUME IndexInv, NEW s \in Session, Select(s)
  PROVE  IndexInv'
<1> DEFINE c == ses[s]
           b == [c EXCEPT !.view = <<>>]
           d == opened(b)
           e == [d EXCEPT !.modseq = d.highestmodseq, !.unknown = FALSE, !.late = FALSE, !.misled = FALSE]
           f == at(e, "idle", "select")
<1>1. unchanged /\ c.pc = "off" /\ ses' = [ses EXCEPT ![s] = f] BY DEF Select, go, at
<1>2. Box(mode, mbox, files) /\ c \in State /\ Sess(mode, mbox, files, c) BY DEF IndexInv
<1>3. c.modseq <= mbox.highestmodseq BY <1>1, <1>2 DEF Sess, Closed
<1> HIDE DEF c
<1>4. b \in State /\ b.view = <<>> /\ b.modseq = c.modseq BY <1>2, Emptied
<1> HIDE DEF b
<1>5. JustOpened(d) /\ d.view = known(d.map) BY <1>2, <1>3, <1>4, Opens
<1> HIDE DEF d
<1>6. d \in State BY <1>5 DEF JustOpened
<1>7. /\ e \in State /\ e.map = d.map /\ e.oldexists = d.oldexists /\ e.highestmodseq = d.highestmodseq
      /\ e.oldhighestmodseq = d.oldhighestmodseq /\ e.delayed_modseq = d.delayed_modseq
      /\ e.generation = d.generation /\ e.modseq = d.highestmodseq /\ e.view = d.view
      /\ e.unknown = FALSE /\ e.late = FALSE /\ e.misled = FALSE
  BY <1>6 DEF State
<1> HIDE DEF e
<1>8. Core(mbox, e) /\ Has(mbox, e.view, e.modseq) BY <1>2, <1>5, <1>7, OpenedKnows
<1>9. Clean(mode, e.map) BY <1>5, <1>7 DEF JustOpened
<1>10. "idle" \in Pcs /\ "select" \in Lasts BY DEF Pcs, Lasts
<1>11. f \in State /\ SameState(e, f) /\ f.pc = "idle" /\ f.last = "select" BY <1>7, <1>10, Goes
<1> HIDE DEF f
<1>12. Sess(mode, mbox, files, f) BY <1>8, <1>9, <1>11, StepEnds
<1> QED BY <1>1, <1>12, SessionSteps

LEMMA ResyncedSeq ==
  ASSUME NEW d \in State, NEW view \in Seq(View), Sorted(d.map) , NEW n
  PROVE  resynced(d, view, n) \in Seq(View)
<1> DEFINE S == {i \in DOMAIN view : view[i].uid \notin index_vanished(n)}
           kept == pick(view, S)
           told == {j \in DOMAIN d.map : d.map[j].modseq > n}
           now(v) == {j \in told : d.map[j].uid = v.uid}
           new == {j \in told : \A i \in DOMAIN kept : kept[i].uid # d.map[j].uid}
           all == known(d.map)
           p == [i \in DOMAIN kept |-> IF now(kept[i]) = {} THEN kept[i]
                                       ELSE all[CHOOSE j \in now(kept[i]) : TRUE]]
           rest == pick(d.map, new)
           q == known(rest)
<1>1. resynced(d, view, n) = p \o q BY DEF resynced
<1>2. d.map \in Seq(Entry) BY StateFields
<1>3. kept \in Seq(View) BY Picked
<1>4. all \in Seq(View) /\ DOMAIN all = DOMAIN d.map BY <1>2, KnownSeq
<1>5. rest \in Seq(Entry) BY <1>2, Picked
<1> HIDE DEF all, kept, rest, q
<1>6. q \in Seq(View) BY <1>5, KnownSeq DEF q
<1>7. DOMAIN kept = 1 .. Len(kept) /\ Len(kept) \in Nat BY <1>3
<1>8. \A i \in 1 .. Len(kept) : p[i] \in View
  <2> TAKE i \in 1 .. Len(kept)
  <2>1. i \in DOMAIN kept BY <1>7
  <2>2. CASE now(kept[i]) = {}
    <3>1. p[i] = kept[i] BY <2>1, <2>2
    <3> HIDE DEF p
    <3> QED BY <2>1, <3>1, <1>3
  <2>3. CASE now(kept[i]) # {}
    <3> DEFINE x == CHOOSE y \in now(kept[i]) : TRUE
    <3>1. x \in now(kept[i])
      <4> HIDE DEF now
      <4> QED BY <2>3
    <3>2. p[i] = all[x] BY <2>1, <2>3
    <3>3. x \in DOMAIN all BY <3>1, <1>4
    <3> HIDE DEF x, p
    <3>4. all[x] \in View BY ONLY <3>3, <1>4
    <3> QED BY <3>2, <3>4
  <2> QED BY <2>2, <2>3
<1>9. p = [i \in 1 .. Len(kept) |-> p[i]] BY <1>7
<1> HIDE DEF p
<1>10. p \in Seq(View) BY <1>7, <1>8, <1>9, IsSeq
<1>11. p \o q \in Seq(View) BY ONLY <1>6, <1>10
<1> QED BY <1>1, <1>11

LEMMA ResumeStep ==
  ASSUME IndexInv, NEW s \in Session, Resume(s)
  PROVE  IndexInv'
<1> DEFINE c == ses[s]
           b == [c EXCEPT !.view = <<>>]
           a == opened(b)
           d == [a EXCEPT !.capa = "qresync"]
           view == resynced(d, c.view, c.modseq)
           e == [d EXCEPT !.view = view, !.modseq = d.highestmodseq, !.misled = @ \/ d.late]
           f == at(e, "idle", "resume")
<1>1. unchanged /\ c.pc = "off" /\ c.modseq # 0 /\ ses' = [ses EXCEPT ![s] = f]
  BY DEF Resume, go, at
<1>2. Box(mode, mbox, files) /\ c \in State /\ Sess(mode, mbox, files, c) BY DEF IndexInv
<1>3. /\ c.modseq <= mbox.highestmodseq /\ (~c.misled => ~c.unknown)
      /\ (~c.misled /\ ~c.late => Resumable(mbox, c.view, c.modseq))
  BY <1>1, <1>2 DEF Sess, Closed
<1> HIDE DEF c
<1>4. b \in State /\ b.view = <<>> /\ b.modseq = c.modseq /\ b.late = c.late /\ b.misled = c.misled
      /\ b.unknown = c.unknown
  BY <1>2, Emptied
<1>c. c.view \in Seq(View) /\ c.modseq \in Nat BY <1>2, StateFields DEF View
<1> HIDE DEF b
<1>5. JustOpened(a) /\ a.late = c.late /\ a.misled = c.misled /\ a.unknown = c.unknown
  BY <1>2, <1>3, <1>4, Opens
<1> HIDE DEF a
<1>6. a \in State BY <1>5 DEF JustOpened
<1>7. /\ d \in State /\ d.map = a.map /\ d.oldexists = a.oldexists /\ d.highestmodseq = a.highestmodseq
      /\ d.oldhighestmodseq = a.oldhighestmodseq /\ d.delayed_modseq = a.delayed_modseq
      /\ d.generation = a.generation /\ d.modseq = a.modseq
      /\ d.late = c.late /\ d.misled = c.misled /\ d.unknown = c.unknown
  BY <1>5, <1>6 DEF State
<1> HIDE DEF d
<1>8. JustOpened(d) BY <1>5, <1>7 DEF JustOpened, Current, UpTo, MapInv
<1>9. view \in Seq(View)
  <2>1. Sorted(d.map) BY <1>8 DEF JustOpened, MapInv
  <2> QED BY <2>1, <1>7, <1>c, ResyncedSeq
<1>10. ~c.misled /\ ~c.late => view = known(d.map) BY <1>2, <1>3, <1>8, <1>c, Resynced
<1> HIDE DEF view
<1>11. c.misled \in BOOLEAN /\ c.late \in BOOLEAN BY <1>2, StateFields
<1>12. /\ e \in State /\ e.map = d.map /\ e.oldexists = d.oldexists /\ e.highestmodseq = d.highestmodseq
       /\ e.oldhighestmodseq = d.oldhighestmodseq /\ e.delayed_modseq = d.delayed_modseq
       /\ e.generation = d.generation /\ e.modseq = d.highestmodseq /\ e.view = view
       /\ e.unknown = c.unknown /\ e.late = c.late /\ e.misled = (c.misled \/ c.late)
  BY <1>7, <1>9, <1>11 DEF State, View
<1> HIDE DEF e
<1>13. ~e.misled => ~c.misled /\ ~c.late BY <1>11, <1>12
<1>14. ~e.misled => ~e.unknown /\ e.view = known(d.map) BY <1>3, <1>10, <1>12, <1>13
<1>15. /\ Core(mbox, e) /\ (~e.misled => Has(mbox, e.view, e.modseq))
       /\ (~e.misled => e.view = known(e.map))
  BY <1>2, <1>8, <1>12, <1>14, OpenedKnows
<1>16. Clean(mode, e.map) BY <1>8, <1>12 DEF JustOpened
<1>17. "idle" \in Pcs /\ "resume" \in Lasts BY DEF Pcs, Lasts
<1>18. f \in State /\ SameState(e, f) /\ f.pc = "idle" /\ f.last = "resume" BY <1>12, <1>17, Goes
<1> HIDE DEF f
<1>19. Sess(mode, mbox, files, f) BY <1>15, <1>16, <1>18, StepEnds
<1> QED BY <1>1, <1>19, SessionSteps

LEMMA RespondStep ==
  ASSUME IndexInv, NEW s \in Session, Respond(s)
  PROVE  IndexInv'
<1> DEFINE c == ses[s]
           d == fetchresponses(c)
           e == index_tellchanges(d, c.byuid)
           g == done(e)
           f == at(g, "idle", "none")
<1>1. unchanged /\ c.pc = "fetch" /\ ses' = [ses EXCEPT ![s] = f] BY DEF Respond, go, at
<1>2. Box(mode, mbox, files) /\ c \in State /\ Core(mbox, c) /\ Clean(mode, c.map) BY <1>1, SessionFacts
<1>3. c.byuid \in BOOLEAN BY <1>2, StateFields
<1> HIDE DEF c
<1>4. Core(mbox, d) /\ Clean(mode, d.map) BY <1>2, Responses
<1> HIDE DEF d
<1>5. Answered(mbox, c.byuid, e) /\ Clean(mode, e.map) BY <1>2, <1>3, <1>4, Answers
<1> HIDE DEF e
<1>6. e \in State BY <1>5 DEF Answered, Core
<1>7. g \in State /\ SameState(e, g) BY <1>6, Done
<1> HIDE DEF g
<1>8. "idle" \in Pcs /\ "none" \in Lasts BY DEF Pcs, Lasts
<1>9. f \in State /\ SameState(g, f) /\ f.pc = "idle" /\ f.last = "none" BY <1>7, <1>8, Goes
<1> HIDE DEF f
<1>10. SameState(e, f) BY <1>7, <1>9 DEF SameState
<1>11. Sess(mode, mbox, files, f) BY <1>5, <1>9, <1>10, AnswerEnds
<1> QED BY <1>1, <1>11, SessionSteps

\* A new sequence
LEMMA Sequenced ==
  ASSUME NEW c \in State, NEW uids \in SUBSET Nat, NEW usinguid \in BOOLEAN
  PROVE  LET d == [c EXCEPT !.seq = uids, !.byuid = usinguid]
         IN  d \in State /\ SameState(c, d) /\ d.byuid = usinguid
BY DEF State, SameState

\* A sequence is done with.
LEMMA Unsequenced ==
  ASSUME NEW c \in State
  PROVE  LET d == [c EXCEPT !.seq = {}]
         IN  d \in State /\ SameState(c, d) /\ d.byuid = c.byuid
BY DEF State, SameState

LEMMA CopyStep ==
  ASSUME IndexInv, NEW s \in Session, Copy(s)
  PROVE  IndexInv'
<1> DEFINE c == ses[s]
<1>1. PICK x \in BOOLEAN :
        LET k == index_check(c, x)
        IN  \E uids \in SUBSET {k.map[j].uid : j \in sequence([k EXCEPT !.view = c.view], x)} :
              go(s, IF uids = {} THEN "check" ELSE "copy", "none", [k EXCEPT !.seq = uids, !.byuid = x])
  BY DEF Copy
<1> DEFINE k == index_check(c, x)
<1>u. PICK uids \in SUBSET {k.map[j].uid : j \in sequence([k EXCEPT !.view = c.view], x)} :
        go(s, IF uids = {} THEN "check" ELSE "copy", "none", [k EXCEPT !.seq = uids, !.byuid = x])
  BY <1>1
<1> DEFINE pc == IF uids = {} THEN "check" ELSE "copy"
           d == [k EXCEPT !.seq = uids, !.byuid = x]
           f == at(d, pc, "none")
<1>2. ses' = [ses EXCEPT ![s] = f] BY <1>u DEF go, at
<1>3. unchanged /\ c.pc = "idle" BY DEF Copy
<1>4. Box(mode, mbox, files) /\ c \in State /\ Core(mbox, c) /\ Clean(mode, c.map) BY <1>3, SessionFacts
<1> HIDE DEF c
<1>5. Answered(mbox, x, k) /\ Current(k) /\ Clean(mode, k.map) BY <1>4, Checks
<1> HIDE DEF k
<1>6. k \in State /\ Core(mbox, k) BY <1>5 DEF Answered, Core
<1>7. uids \in SUBSET Nat
  <2>1. \A j \in DOMAIN k.map : k.map[j].uid \in Nat BY <1>6, StateFields, EntryFields
  <2>2. sequence([k EXCEPT !.view = c.view], x) \subseteq DOMAIN k.map
    <3> DEFINE v == [k EXCEPT !.view = c.view]
    <3>1. v.map = k.map BY <1>6 DEF State
    <3> HIDE DEF v
    <3>2. sequence(v, x) \subseteq DOMAIN k.map BY <3>1 DEF sequence
    <3> QED BY <3>2 DEF v
  <2> QED BY <2>1, <2>2
<1>8. pc \in Pcs /\ "none" \in Lasts /\ pc \in {"idle", "refresh", "copy", "check"} BY DEF Pcs, Lasts
<1> HIDE DEF pc
<1>9. d \in State /\ SameState(k, d) BY <1>6, <1>7, Sequenced
<1> HIDE DEF d
<1>10. f \in State /\ SameState(d, f) /\ f.pc = pc /\ f.last = "none" BY <1>8, <1>9, Goes
<1> HIDE DEF f
<1>11. SameState(k, f) BY <1>9, <1>10 DEF SameState
<1>12. Reading(mbox, files, k) BY <1>4, <1>5, <1>6, ReadingNow DEF Current
<1>13. Sess(mode, mbox, files, f) BY <1>5, <1>8, <1>10, <1>11, <1>12, AnswerEnds
<1> QED BY <1>2, <1>3, <1>13, SessionSteps

LEMMA CopiedStep ==
  ASSUME IndexInv, NEW s \in Session, Copied(s)
  PROVE  IndexInv'
<1> DEFINE c == ses[s]
<1>1. unchanged /\ c.pc = "copy" BY DEF Copied
<1>2. /\ Box(mode, mbox, files) /\ c \in State /\ Core(mbox, c) /\ Clean(mode, c.map)
      /\ (~c.misled /\ ~c.late => Has(mbox, c.view, c.modseq))
  BY <1>1, SessionFacts
<1>3. SameState(c, c) BY DEF SameState
<1>4. c.seq \in SUBSET Nat BY <1>2, StateFields
<1> HIDE DEF c
<1>5. ASSUME NEW pc \in {"check", "move"}, NEW d \in State, SameState(c, d),
             pc = "move" => d.byuid, ses' = [ses EXCEPT ![s] = at(d, pc, "none")]
      PROVE  IndexInv'
  <2> DEFINE f == at(d, pc, "none")
  <2>1. pc \in Pcs /\ "none" \in Lasts BY DEF Pcs, Lasts
  <2>2. f \in State /\ SameState(d, f) /\ f.pc = pc /\ f.last = "none" /\ f.byuid = d.byuid
    BY <2>1, Goes
  <2>3. ses' = [ses EXCEPT ![s] = f] BY <1>5
  <2> HIDE DEF f
  <2>4. SameState(c, f) BY <1>5, <2>2 DEF SameState
  <2>5. f.pc \notin {"fetch", "copy", "off"} /\ (f.pc = "move" => f.byuid) BY <1>5, <2>2
  <2>6. Sess(mode, mbox, files, f) BY <1>2, <2>2, <2>4, <2>5, StepEnds
  <2> QED BY <1>1, <2>3, <2>6, SessionSteps
<1>6. CASE go(s, "check", "none", [c EXCEPT !.seq = {}])
  <2> DEFINE d == [c EXCEPT !.seq = {}]
  <2>1. ses' = [ses EXCEPT ![s] = at(d, "check", "none")] BY <1>6 DEF go, at
  <2>2. d \in State /\ SameState(c, d) BY <1>2, Unsequenced
  <2> HIDE DEF d
  <2> QED BY <1>5, <2>1, <2>2
<1>7. CASE go(s, "move", "none", [c EXCEPT !.byuid = TRUE])
  <2> DEFINE d == [c EXCEPT !.byuid = TRUE]
  <2>1. ses' = [ses EXCEPT ![s] = at(d, "move", "none")] BY <1>7 DEF go, at
  <2>2. d \in State /\ SameState(c, d) /\ d.byuid = TRUE BY <1>2 DEF State, SameState
  <2> HIDE DEF d
  <2> QED BY <1>5, <2>1, <2>2
<1> QED BY <1>6, <1>7 DEF Copied, c

\* The record that a session makes of its entry
LEMMA OwnRecord ==
  ASSUME NEW c \in State, NEW j \in DOMAIN c.map, c.map[j].recno # 0, ~c.map[j].unlinked
  PROVE  /\ \A f \in Flags : LET rec == [record(c.map[j]) EXCEPT !.flags = f]
                             IN  Own(c, j, rec) /\ rec.expunged = c.map[j].expunged
         /\ Own(c, j, [record(c.map[j]) EXCEPT !.expunged = TRUE])
<1> DEFINE im == c.map[j]
<1>1. im \in Entry BY StateFields
<1>2. /\ im.uid \in 1 .. MaxUid /\ im.modseq \in Nat \ {0} /\ im.flags \in Flags
      /\ im.expunged \in BOOLEAN /\ im.unlinked \in BOOLEAN
  BY <1>1, EntryFields
<1>3. ~im.unlinked /\ im.recno # 0 OBVIOUS
<1> HIDE DEF im
<1>4. /\ record(im) \in Record /\ record(im).uid = im.uid /\ record(im).expunged = im.expunged
      /\ record(im).unlinked = im.unlinked
  BY <1>2 DEF record, Record
<1> DEFINE r == record(im)
<1> HIDE DEF r
<1>5. ASSUME NEW f \in Flags
      PROVE  LET rec == [r EXCEPT !.flags = f]
             IN  rec \in Record /\ rec.uid = r.uid /\ rec.unlinked = r.unlinked /\ rec.expunged = r.expunged
  BY <1>4 DEF Record, r
<1>6. LET rec == [r EXCEPT !.expunged = TRUE]
      IN  rec \in Record /\ rec.uid = r.uid /\ rec.unlinked = r.unlinked /\ rec.expunged = TRUE
  BY <1>4 DEF Record, r
<1>7. \A f \in Flags : LET rec == [r EXCEPT !.flags = f]
                       IN  Own(c, j, rec) /\ rec.expunged = im.expunged
  BY <1>3, <1>4, <1>5 DEF Own, im, r
<1>8. Own(c, j, [r EXCEPT !.expunged = TRUE]) BY <1>3, <1>4, <1>6 DEF Own, im, r
<1> QED BY <1>7, <1>8 DEF im, r

\* expunge_one is a rewrite of the record of j.
LEMMA ExpungedRewrote ==
  ASSUME NEW b, Box(mode, b, files), NEW c, Core(b, c), UpTo(b, c),
         NEW j \in DOMAIN c.map, ~c.map[j].expunged
  PROVE  LET rec == [record(c.map[j]) EXCEPT !.expunged = TRUE]
             nt == expunge_one([c |-> c, b |-> b], j)
         IN  /\ nt = [c |-> nt.c, b |-> nt.b]
             /\ Own(c, j, rec) /\ nt.b = rewrite(b, c.map[j].recno, rec)
             /\ Rewrote(b, c, j, rec, nt.c)
<1> DEFINE rec == [record(c.map[j]) EXCEPT !.expunged = TRUE]
           st == rewritten([c |-> c, b |-> b], j, rec)
           d == st.c
           im == [d.map[j] EXCEPT !.told = d.map[j].modseq]
           e == [d EXCEPT !.map = [d.map EXCEPT ![j] = im]]
           nt == expunge_one([c |-> c, b |-> b], j)
<1>0. nt = IF c.map[j].told = c.map[j].modseq THEN [c |-> e, b |-> st.b] ELSE st BY DEF expunge_one
<1>s. st = [c |-> st.c, b |-> st.b] BY DEF rewritten
<1>1. c \in State /\ c.map[j].recno # 0 /\ ~c.map[j].unlinked BY DEF Core, MapInv, IsEntry
<1>2. Own(c, j, rec) BY <1>1, OwnRecord
<1>r. rec.expunged = TRUE BY DEF record
<1> HIDE DEF rec
<1>4. st.b = rewrite(b, c.map[j].recno, rec) /\ Rewrote(b, c, j, rec, d) BY <1>2, Rewritten
<1>5. written(b, rec).expunged
  <2>1. b \in Mailbox /\ rec \in Record BY <1>2 DEF Own, Box
  <2> QED BY <2>1, <1>r, WrittenFields
<1> HIDE DEF nt, st
<1>6. d \in State BY <1>4 DEF Rewrote
<1>7. d.map \in Seq(Entry) /\ j \in DOMAIN d.map BY <1>4, <1>6, StateFields DEF Rewrote
<1>d. d = st.c OBVIOUS
<1> HIDE DEF d
<1>8. d.map[j] \in Entry BY <1>7
<1>9. /\ im \in Entry /\ im.uid = d.map[j].uid /\ im.recno = d.map[j].recno
      /\ im.modseq = d.map[j].modseq /\ im.flags = d.map[j].flags
      /\ im.expunged = d.map[j].expunged /\ im.unlinked = d.map[j].unlinked
      /\ im.told = d.map[j].modseq
  BY <1>8, EntryFields DEF Entry
<1> HIDE DEF im
<1> DEFINE map == [d.map EXCEPT ![j] = im]
<1>10. /\ map \in Seq(Entry) /\ Len(map) = Len(d.map) /\ DOMAIN map = DOMAIN d.map /\ map[j] = im
       /\ \A i \in DOMAIN d.map : i # j => map[i] = d.map[i]
  BY <1>7, <1>9
<1> HIDE DEF map
<1>11. /\ e \in State /\ SameClient(d, e) /\ e.misled = d.misled /\ e.oldexists = d.oldexists
       /\ e.oldhighestmodseq = d.oldhighestmodseq /\ e.delayed_modseq = d.delayed_modseq
       /\ e.generation = d.generation /\ e.highestmodseq = d.highestmodseq /\ e.map = map
  <2>1. e = [d EXCEPT !.map = map] BY DEF map
  <2> HIDE DEF e
  <2> QED BY <2>1, <1>6, <1>10 DEF State, SameClient
<1> HIDE DEF e
<1>12. Rewrote(b, c, j, rec, e)
  <2>1. SameClient(c, e) BY <1>4, <1>11 DEF Rewrote, SameClient
  <2> QED BY <2>1, <1>4, <1>5, <1>9, <1>10, <1>11, ZenonT(40) DEF Rewrote
<1>13. nt.c = e \/ nt.c = d BY <1>0, <1>d
<1>14. nt.b = st.b /\ nt = [c |-> nt.c, b |-> nt.b] BY <1>0, <1>s
<1>15. Rewrote(b, c, j, rec, nt.c) BY <1>4, <1>12, <1>13
<1> QED BY <1>2, <1>4, <1>14, <1>15 DEF rec, nt

\* After n turns of a loop of the session c: the session and the mailbox that st has
\* are as between two calls, and everybody else may meet that mailbox.
Turning(c, x, st, n) ==
  /\ st = [c |-> st.c, b |-> st.b]
  /\ Box(mode, st.b, files) /\ Core(st.b, st.c) /\ UpTo(st.b, st.c)
  /\ SameClient(c, st.c) /\ st.c.misled = c.misled
  /\ DOMAIN st.c.map = DOMAIN c.map
  /\ \A j \in DOMAIN c.map : j > n => st.c.map[j] = c.map[j]
  /\ \A t \in Session : Sess(mode, st.b, files, ses[t])
  /\ (Has(mbox, c.view, c.modseq) => Has(st.b, c.view, c.modseq))
  /\ (~x => Clean(mode, st.c.map))

LEMMA TurningStart ==
  ASSUME IndexInv, NEW c, Core(mbox, c), Current(c), Clean(mode, c.map), NEW x
  PROVE  Turning(c, x, locked(c), 0)
<1>1. locked(c) = [c |-> c, b |-> mbox] BY DEF locked
<1>2. SameClient(c, c) BY DEF SameClient
<1> QED BY <1>1, <1>2 DEF Turning, IndexInv, Current

LEMMA Turn ==
  ASSUME NEW c, NEW x, NEW st, NEW n \in Nat, Turning(c, x, st, n), n + 1 \in DOMAIN c.map,
         NEW rec, Own(st.c, n + 1, rec), ~x => rec.expunged = st.c.map[n + 1].expunged,
         NEW nt, nt = [c |-> nt.c, b |-> nt.b], nt.b = rewrite(st.b, st.c.map[n + 1].recno, rec),
         Rewrote(st.b, st.c, n + 1, rec, nt.c), Len(c.map) \in Nat, DOMAIN c.map = 1 .. Len(c.map)
  PROVE  Turning(c, x, nt, n + 1)
<1> DEFINE a == st.c
           b == st.b
           e == nt.c
           d == nt.b
           j == n + 1
<1>0. /\ Box(mode, b, files) /\ Core(b, a) /\ UpTo(b, a) /\ Own(a, j, rec)
      /\ Rewrote(b, a, j, rec, e) /\ d = rewrite(b, a.map[j].recno, rec)
      /\ (~x => rec.expunged = a.map[j].expunged)
  BY DEF Turning
<1>1. /\ SameClient(c, a) /\ a.misled = c.misled /\ DOMAIN a.map = DOMAIN c.map
      /\ \A i \in DOMAIN c.map : i > n => a.map[i] = c.map[i]
      /\ \A t \in Session : Sess(mode, b, files, ses[t])
      /\ (Has(mbox, c.view, c.modseq) => Has(b, c.view, c.modseq))
      /\ (~x => Clean(mode, a.map))
  BY DEF Turning
<1>p. nt = [c |-> e, b |-> d] OBVIOUS
<1> HIDE DEF a, b, e, d
<1>2. Rewritable(b, a.map[j].recno, rec) BY <1>0, OwnRewritable
<1>3. Box(mode, d, files) /\ Evolves(b, d) BY <1>0, <1>2, RewriteBox
<1>4. d.generation_no = b.generation_no
  <2>1. b \in Mailbox /\ a.map[j].recno \in DOMAIN b.recs /\ rec \in Record
    BY <1>0, <1>2 DEF Box, Rewritable
  <2> QED BY <1>0, <2>1, RewriteFields
<1>5. Core(d, e) /\ UpTo(d, e) BY <1>0, RewroteCore DEF UpTo
<1>6. SameClient(c, e) /\ e.misled = c.misled BY <1>0, <1>1 DEF Rewrote, SameClient
<1>7. DOMAIN e.map = DOMAIN c.map BY <1>0, <1>1 DEF Rewrote
<1>8. ASSUME NEW i \in DOMAIN c.map, i > j PROVE e.map[i] = c.map[i]
  <2>1. i > n /\ i # j BY <1>8
  <2> QED BY <2>1, <1>0, <1>1 DEF Rewrote
<1>9. ASSUME NEW t \in Session PROVE Sess(mode, d, files, ses[t])
  <2>1. Sess(mode, b, files, ses[t]) /\ files \subseteq files BY <1>1
  <2> QED BY <2>1, <1>0, <1>3, <1>4, SessEvolves
<1>10. ASSUME Has(mbox, c.view, c.modseq) PROVE Has(d, c.view, c.modseq)
  <2>1. Has(b, c.view, c.modseq) BY <1>1, <1>10
  <2>2. a.modseq \in Nat /\ a.modseq <= b.highestmodseq BY <1>0, StateFields DEF Core, MapInv, UpTo
  <2>3. c.modseq \in Nat /\ c.modseq <= b.highestmodseq BY <2>2, <1>1 DEF SameClient
  <2> QED BY <2>1, <2>3, <1>0, <1>3, HasEvolves
<1>11. ~x => Clean(mode, e.map) BY <1>0, <1>1, RewroteClean
<1> QED BY <1>p, <1>3, <1>5, <1>6, <1>7, <1>8, <1>9, <1>10, <1>11 DEF Turning

\* What a loop may be asked to do
Asked(c, x, js) ==
  /\ js \in SUBSET DOMAIN c.map
  /\ \A j \in js : IF x THEN ~c.map[j].expunged ELSE c.map[j].recno # 0

LEMMA TurnedOnce ==
  ASSUME NEW c \in State, NEW x \in BOOLEAN, NEW js, Asked(c, x, js), NEW fl \in Flags,
         NEW st, NEW n \in Nat, Turning(c, x, st, n), n + 1 \in DOMAIN c.map
  PROVE  Turning(c, x, turned(x, st, c, js, fl, n + 1), n + 1)
<1> DEFINE a == st.c
           b == st.b
           j == n + 1
           nt == turned(x, st, c, js, fl, j)
<1>0. /\ Box(mode, b, files) /\ Core(b, a) /\ UpTo(b, a) /\ DOMAIN a.map = DOMAIN c.map
      /\ st = [c |-> a, b |-> b] /\ (~x => Clean(mode, a.map))
  BY DEF Turning
<1>l. Len(c.map) \in Nat /\ DOMAIN c.map = 1 .. Len(c.map) BY StateFields
<1>1. a.map[j] = c.map[j]
  <2>1. j > n OBVIOUS
  <2> QED BY <2>1 DEF Turning
<1>2. CASE j \notin js
  <2>1. nt = st BY <1>2 DEF turned
  <2>2. \A i \in DOMAIN c.map : i > n + 1 => i > n BY <1>l
  <2>3. Turning(c, x, st, n + 1) BY <2>2 DEF Turning
  <2> QED BY <2>1, <2>3
<1>3. CASE j \in js /\ x
  <2> DEFINE rec == [record(a.map[j]) EXCEPT !.expunged = TRUE]
  <2>1. nt = expunge_one([c |-> a, b |-> b], j) BY <1>0, <1>3 DEF turned
  <2>2. j \in DOMAIN a.map /\ ~a.map[j].expunged BY <1>0, <1>1, <1>3 DEF Asked
  <2>3. /\ nt = [c |-> nt.c, b |-> nt.b] /\ Own(a, j, rec)
        /\ nt.b = rewrite(b, a.map[j].recno, rec) /\ Rewrote(b, a, j, rec, nt.c)
    BY <1>0, <2>1, <2>2, ExpungedRewrote
  <2> HIDE DEF nt, rec
  <2>4. Turning(c, x, nt, j) BY <1>3, <1>l, <2>3, Turn
  <2> QED BY <2>4 DEF nt
<1>4. CASE j \in js /\ ~x
  <2> DEFINE rec == [record(a.map[j]) EXCEPT !.flags = fl]
  <2>1. nt = rewritten([c |-> a, b |-> b], j, rec) BY <1>0, <1>1, <1>4 DEF turned
  <2>2. a \in State /\ j \in DOMAIN a.map /\ a.map[j].recno # 0 BY <1>0, <1>1, <1>4 DEF Asked, Core
  <2>3. ~a.map[j].unlinked BY <1>0, <1>4, <2>2 DEF Clean
  <2>4. Own(a, j, rec) /\ rec.expunged = a.map[j].expunged BY <2>2, <2>3, OwnRecord
  <2>5. nt = [c |-> nt.c, b |-> nt.b] BY <2>1 DEF rewritten
  <2> HIDE DEF nt, rec
  <2>6. nt.b = rewrite(b, a.map[j].recno, rec) /\ Rewrote(b, a, j, rec, nt.c)
    BY <1>0, <2>1, <2>4, Rewritten
  <2>7. Turning(c, x, nt, j) BY <1>4, <1>l, <2>4, <2>5, <2>6, Turn
  <2> QED BY <2>7 DEF nt
<1> QED BY <1>2, <1>3, <1>4

\* The whole loop
LEMMA Loop ==
  ASSUME IndexInv, NEW c, Core(mbox, c), Current(c), Clean(mode, c.map), NEW x \in BOOLEAN,
         NEW js, Asked(c, x, js), NEW fl \in Flags, NEW f, Turns(f, x, c, js, fl)
  PROVE  Turning(c, x, f[Len(c.map)], Len(c.map))
<1> DEFINE P == {n \in Nat : n <= Len(c.map) => Turning(c, x, f[n], n)}
<1>0. c \in State /\ Len(c.map) \in Nat /\ DOMAIN c.map = 1 .. Len(c.map) BY StateFields DEF Core
<1>1. 0 \in P
  <2>1. Turning(c, x, locked(c), 0) BY TurningStart
  <2> QED BY <2>1 DEF Turns
<1>2. ASSUME NEW n \in Nat, n \in P PROVE n + 1 \in P
  <2> SUFFICES ASSUME n + 1 <= Len(c.map) PROVE Turning(c, x, f[n + 1], n + 1) OBVIOUS
  <2>1. n <= Len(c.map) /\ n + 1 \in 1 .. Len(c.map) /\ (n + 1) - 1 = n BY <1>0
  <2>2. Turning(c, x, f[n], n) BY <1>2, <2>1
  <2>3. f[n + 1] = turned(x, f[n], c, js, fl, n + 1) BY <2>1 DEF Turns
  <2>4. n + 1 \in DOMAIN c.map BY <1>0, <2>1
  <2> QED BY <1>0, <2>2, <2>3, <2>4, TurnedOnce
<1> HIDE DEF P
<1>3. Len(c.map) \in P BY <1>0, <1>1, <1>2, NatSet
<1>4. Len(c.map) <= Len(c.map) BY <1>0
<1> QED BY <1>3, <1>4 DEF P

\* The mailbox and the session after a loop
LEMMA SetFlags ==
  ASSUME IndexInv, NEW c, Core(mbox, c), Current(c), Clean(mode, c.map), NEW js,
         Asked(c, FALSE, js), NEW fl \in Flags
  PROVE  LET st == setflags(c, js, fl) IN Turning(c, FALSE, st, Len(c.map))
<1>1. Len(c.map) \in Nat BY StateFields DEF Core
<1>2. PICK f : Turns(f, FALSE, c, js, fl) /\ setflags(c, js, fl) = f[Len(c.map)] BY <1>1, SetTurns
<1>3. Turning(c, FALSE, f[Len(c.map)], Len(c.map)) BY <1>2, Loop
<1> QED BY <1>2, <1>3

LEMMA Expunges ==
  ASSUME IndexInv, NEW c, Core(mbox, c), Current(c), Clean(mode, c.map), NEW js, Asked(c, TRUE, js)
  PROVE  LET st == index_expunge(c, js) IN Turning(c, TRUE, st, Len(c.map))
<1>1. Len(c.map) \in Nat /\ "seen" \in Flags BY StateFields, IndexAssumption DEF Core
<1>2. PICK f : Turns(f, TRUE, c, js, "seen") /\ index_expunge(c, js) = f[Len(c.map)]
  BY <1>1, ExpungeTurns
<1>3. Turning(c, TRUE, f[Len(c.map)], Len(c.map)) BY <1>1, <1>2, Loop
<1> QED BY <1>2, <1>3

\* The number of messages that a command changes
LEMMA Counted ==
  ASSUME NEW c \in State, NEW js \in SUBSET DOMAIN c.map
  PROVE  Cardinality(js) \in Nat
<1>1. DOMAIN c.map = 1 .. Len(c.map) /\ 1 \in Int /\ Len(c.map) \in Int BY StateFields
<1>2. IsFiniteSet(DOMAIN c.map) BY <1>1, FS_Interval
<1>3. IsFiniteSet(js) BY <1>2, FS_Subset
<1> QED BY <1>3, FS_CardinalityType

LEMMA StoreStep ==
  ASSUME IndexInv, NEW s \in Session, Store(s)
  PROVE  IndexInv'
<1> DEFINE c == ses[s]
           l == index_lock(c)
<1>1. PICK x \in BOOLEAN, fl \in Flags :
        \E js \in SUBSET {j \in sequence(l, x) : ~l.map[j].expunged /\ l.map[j].flags # fl} :
          LET st == setflags(l, js, fl)
          IN  Rewrite(js, st.b) /\ go(s, "idle", "none", index_tellchanges(st.c, x))
  BY DEF Store
<1>2. PICK js \in SUBSET {j \in sequence(l, x) : ~l.map[j].expunged /\ l.map[j].flags # fl} :
        LET st == setflags(l, js, fl)
        IN  Rewrite(js, st.b) /\ go(s, "idle", "none", index_tellchanges(st.c, x))
  BY <1>1
<1> DEFINE st == setflags(l, js, fl)
           g == index_tellchanges(st.c, x)
           f == at(g, "idle", "none")
<1>3. Rewrite(js, st.b) /\ ses' = [ses EXCEPT ![s] = f] BY <1>2 DEF go, at
<1>4. c.pc = "idle" BY DEF Store
<1>5. Box(mode, mbox, files) /\ c \in State /\ Core(mbox, c) /\ Clean(mode, c.map) BY <1>4, SessionFacts
<1> HIDE DEF c
<1>6. Core(mbox, l) /\ Current(l) /\ Clean(mode, l.map) BY <1>5, Lock
<1>7. js \subseteq DOMAIN l.map /\ \A j \in js : ~l.map[j].expunged BY DEF sequence
<1> HIDE DEF l
<1>8. l \in State /\ Cardinality(js) \in Nat BY <1>6, <1>7, Counted DEF Core
<1>9. Asked(l, FALSE, js) BY <1>6, <1>7 DEF Core, MapInv, IsEntry, Asked
<1>10. Turning(l, FALSE, st, Len(l.map)) BY <1>6, <1>9, SetFlags
<1> HIDE DEF st
<1>11. /\ Box(mode, st.b, files) /\ Core(st.b, st.c) /\ Clean(mode, st.c.map)
       /\ \A t \in Session : Sess(mode, st.b, files, ses[t])
  BY <1>10 DEF Turning
<1>12. Answered(st.b, x, g) /\ Clean(mode, g.map) BY <1>11, Answers
<1> HIDE DEF g
<1>13. g \in State BY <1>12 DEF Answered, Core
<1>14. "idle" \in Pcs /\ "none" \in Lasts BY DEF Pcs, Lasts
<1>15. f \in State /\ SameState(g, f) /\ f.pc = "idle" /\ f.last = "none" BY <1>13, <1>14, Goes
<1> HIDE DEF f
<1>16. Sess(mode, st.b, files, f) BY <1>12, <1>15, AnswerEnds
<1> QED BY <1>3, <1>8, <1>11, <1>16, RewriteSteps

\* The HIGHESTMODSEQ in the answer covers nothing that waits.
LEMMA NewModseq ==
  ASSUME NEW b, NEW c, Answered(b, TRUE, c)
  PROVE  LET d == [c EXCEPT !.modseq = index_highestmodseq(c)]
         IN  Answered(b, TRUE, d) /\ d.map = c.map
<1> DEFINE n == index_highestmodseq(c)
           d == [c EXCEPT !.modseq = n]
<1>1. Core(b, c) /\ c \in State BY DEF Answered, Core
<1>2. c.delayed_modseq \in Nat /\ c.highestmodseq \in Nat /\ c.delayed_modseq <= c.highestmodseq
  BY <1>1, StateFields DEF Core, MapInv
<1>3. n \in Nat /\ n <= c.highestmodseq BY <1>2 DEF index_highestmodseq
<1> HIDE DEF n
<1>4. /\ d \in State /\ d.map = c.map /\ d.oldhighestmodseq = c.oldhighestmodseq
      /\ d.highestmodseq = c.highestmodseq /\ d.generation = c.generation /\ d.modseq = n
      /\ d.oldexists = c.oldexists /\ d.delayed_modseq = c.delayed_modseq
      /\ d.view = c.view /\ d.misled = c.misled /\ d.late = c.late /\ d.unknown = c.unknown
  BY <1>1, <1>3 DEF State
<1> HIDE DEF d
<1>5. changed(d) = changed(c) BY <1>4 DEF changed
<1>6. MapInv(b, d) BY <1>1, <1>3, <1>4 DEF Core, MapInv
<1>7. ~d.misled => InView(d) BY <1>1, <1>4, <1>5 DEF Core, InView
<1>8. ~d.misled => AllTold(d) BY <1>4, <1>5 DEF Answered, AllTold
<1>9. ~d.misled => Covered(d.map, d.modseq) BY <1>8 DEF AllTold, Covered
<1>10. Core(b, d) BY <1>4, <1>6, <1>7, <1>9 DEF Core
<1>11. Answered(b, TRUE, d) BY <1>4, <1>8, <1>10 DEF Answered
<1> QED BY <1>4, <1>11 DEF d, n

LEMMA ExpungeStep ==
  ASSUME IndexInv, NEW s \in Session, Expunge(s)
  PROVE  IndexInv'
<1> DEFINE c == ses[s]
           l == index_lock(c)
<1>1. PICK js \in SUBSET {j \in DOMAIN l.map : ~l.map[j].expunged} :
        LET st == index_expunge(l, js)
            g == index_tellchanges(st.c, TRUE)
            new == index_highestmodseq(g)
        IN  /\ Rewrite(js, st.b)
            /\ go(s, "idle", "expunge",
                  IF new > index_highestmodseq(c) THEN [g EXCEPT !.modseq = new] ELSE g)
  BY DEF Expunge
<1> DEFINE st == index_expunge(l, js)
           g == index_tellchanges(st.c, TRUE)
           h == [g EXCEPT !.modseq = index_highestmodseq(g)]
           k == IF index_highestmodseq(g) > index_highestmodseq(c) THEN h ELSE g
           f == at(k, "idle", "expunge")
<1>2. Rewrite(js, st.b) /\ ses' = [ses EXCEPT ![s] = f] BY <1>1 DEF go, at
<1>3. c.pc = "idle" BY DEF Expunge
<1>4. Box(mode, mbox, files) /\ c \in State /\ Core(mbox, c) /\ Clean(mode, c.map) BY <1>3, SessionFacts
<1> HIDE DEF c
<1>5. Core(mbox, l) /\ Current(l) /\ Clean(mode, l.map) BY <1>4, Lock
<1>6. js \in SUBSET DOMAIN l.map /\ Asked(l, TRUE, js) BY DEF Asked
<1> HIDE DEF l
<1>7. l \in State /\ Cardinality(js) \in Nat BY <1>5, <1>6, Counted DEF Core
<1>8. Turning(l, TRUE, st, Len(l.map)) BY <1>5, <1>6, Expunges
<1> HIDE DEF st
<1>9. /\ Box(mode, st.b, files) /\ Core(st.b, st.c)
      /\ \A t \in Session : Sess(mode, st.b, files, ses[t])
  BY <1>8 DEF Turning
<1>10. Answered(st.b, TRUE, g) /\ Clean(mode, g.map) BY <1>9, Answers
<1> HIDE DEF g
<1>11. Answered(st.b, TRUE, h) /\ h.map = g.map BY <1>10, NewModseq
<1> HIDE DEF h
<1>12. Answered(st.b, TRUE, k) /\ Clean(mode, k.map) BY <1>10, <1>11
<1> HIDE DEF k
<1>13. k \in State BY <1>12 DEF Answered, Core
<1>14. "idle" \in Pcs /\ "expunge" \in Lasts BY DEF Pcs, Lasts
<1>15. f \in State /\ SameState(k, f) /\ f.pc = "idle" /\ f.last = "expunge" BY <1>13, <1>14, Goes
<1> HIDE DEF f
<1>16. Sess(mode, st.b, files, f) BY <1>12, <1>15, AnswerEnds
<1> QED BY <1>2, <1>7, <1>9, <1>16, RewriteSteps

LEMMA MoveStep ==
  ASSUME IndexInv, NEW s \in Session, Move(s)
  PROVE  IndexInv'
<1> DEFINE c == ses[s]
           l == index_lock(c)
           js == {j \in DOMAIN l.map : l.map[j].uid \in l.seq /\ ~l.map[j].expunged}
           st == index_expunge(l, js)
           e == st.c
           q == [e EXCEPT !.seq = {}]
           f == at(q, "check", "none")
<1>1. c.pc = "move" BY DEF Move
<1>2. /\ Box(mode, mbox, files) /\ c \in State /\ Core(mbox, c) /\ Clean(mode, c.map) /\ c.byuid
      /\ (~c.misled /\ ~c.late => Has(mbox, c.view, c.modseq))
  BY <1>1, SessionFacts
<1>3. Rewrite(js, st.b) /\ ses' = [ses EXCEPT ![s] = f] BY DEF Move, go, at
<1> HIDE DEF c
<1>4. Core(mbox, l) /\ Current(l) /\ Clean(mode, l.map) /\ SameClient(c, l) /\ (c.misled => l.misled)
  BY <1>2, Lock
<1> HIDE DEF l
<1>5. l \in State /\ l.byuid BY <1>2, <1>4 DEF Core, SameClient
<1>6. ~l.misled /\ ~l.late => Has(mbox, l.view, l.modseq) BY <1>2, <1>4 DEF SameClient
<1>7. js \in SUBSET DOMAIN l.map /\ Asked(l, TRUE, js) BY DEF Asked
<1> HIDE DEF js
<1>8. Cardinality(js) \in Nat BY <1>5, <1>7, Counted
<1>9. Turning(l, TRUE, st, Len(l.map)) BY <1>4, <1>7, Expunges
<1> HIDE DEF st
<1>10. /\ Box(mode, st.b, files) /\ Core(st.b, e) /\ SameClient(l, e) /\ e.misled = l.misled
       /\ \A t \in Session : Sess(mode, st.b, files, ses[t])
       /\ (Has(mbox, l.view, l.modseq) => Has(st.b, l.view, l.modseq))
  BY <1>9 DEF Turning
<1> HIDE DEF e
<1>11. ~e.misled /\ ~e.late => Has(st.b, e.view, e.modseq) BY <1>6, <1>10 DEF SameClient
<1>12. e \in State BY <1>10 DEF Core
<1>13. q \in State /\ SameState(e, q) /\ q.byuid = e.byuid BY <1>12, Unsequenced
<1> HIDE DEF q
<1>14. "check" \in Pcs /\ "none" \in Lasts BY DEF Pcs, Lasts
<1>15. f \in State /\ SameState(q, f) /\ f.pc = "check" /\ f.last = "none" /\ f.byuid = q.byuid
  BY <1>13, <1>14, Goes
<1> HIDE DEF f
<1>16. Expunging(f) BY <1>5, <1>10, <1>13, <1>15 DEF Expunging, SameClient
<1>17. SameState(e, f) BY <1>13, <1>15 DEF SameState
<1>18. Sess(mode, st.b, files, f) BY <1>10, <1>11, <1>15, <1>16, <1>17, StepEnds
<1> QED BY <1>3, <1>8, <1>10, <1>18, RewriteSteps

\* A FETCH that finds a message gone ends the session: the client has all it was told.
LEMMA Fails ==
  ASSUME Box(mode, mbox, files), NEW c, Core(mbox, c), Current(c)
  PROVE  LET d == [c EXCEPT !.misled = @ \/ forgotten(c)]
         IN  /\ Core(mbox, d) /\ (~d.misled => Has(mbox, d.view, d.modseq))
             /\ d.map = c.map /\ d.highestmodseq = c.highestmodseq /\ d.generation = c.generation
<1> DEFINE x == c.misled \/ forgotten(c)
           d == [c EXCEPT !.misled = x]
<1>1. c \in State BY DEF Core
<1>2. x \in BOOLEAN /\ (~x => ~c.misled /\ ~forgotten(c)) OBVIOUS
<1>3. d = [c EXCEPT !.misled = @ \/ forgotten(c)] BY <1>1 DEF State
<1> HIDE DEF x
<1>4. /\ d \in State /\ d.map = c.map /\ d.oldhighestmodseq = c.oldhighestmodseq
      /\ d.highestmodseq = c.highestmodseq /\ d.generation = c.generation /\ d.modseq = c.modseq
      /\ d.oldexists = c.oldexists /\ d.delayed_modseq = c.delayed_modseq
      /\ d.view = c.view /\ d.misled = x /\ d.late = c.late /\ d.unknown = c.unknown
  BY <1>1, <1>2 DEF State
<1> HIDE DEF d
<1>5. changed(d) = changed(c) BY <1>4 DEF changed
<1>6. MapInv(mbox, d) BY <1>4 DEF Core, MapInv
<1>7. ~d.misled => ~c.misled BY <1>2, <1>4
<1>8. ~d.misled => InView(d) BY <1>4, <1>5, <1>7 DEF Core, InView
<1>9. ~d.misled /\ ~d.late => Covered(d.map, d.modseq) BY <1>4, <1>7 DEF Core
<1>10. Core(mbox, d) BY <1>4, <1>6, <1>8, <1>9 DEF Core
<1>11. ASSUME ~d.misled PROVE Has(mbox, d.view, d.modseq)
  <2>1. ~forgotten(c) BY <1>2, <1>4, <1>11
  <2>2. c.oldexists = Len(c.map) /\ changed(c) = {} BY <2>1 DEF forgotten, Current, UpTo
  <2>3. d.oldexists = Len(d.map) /\ \A j \in changed(d) : d.map[j].expunged BY <2>2, <1>4, <1>5
  <2>4. d.modseq \in Nat /\ d.modseq <= d.highestmodseq BY <1>4, <1>6, StateFields, SMTT(30) DEF MapInv
  <2> QED BY <1>4, <1>6, <1>8, <1>11, <2>3, <2>4, HasAll
<1> QED BY <1>3, <1>4, <1>10, <1>11

LEMMA FetchStep ==
  ASSUME IndexInv, NEW s \in Session, Fetch(s)
  PROVE  IndexInv'
<1> DEFINE c == ses[s]
<1>1. PICK x \in BOOLEAN, y \in BOOLEAN :
        LET l == index_lock(IF y THEN condstore(c) ELSE c)
        IN  \E js \in SUBSET sequence(l, x) :
              LET unseen == {j \in js : l.map[j].flags # "seen"}
                  before == {j \in unseen : \A k \in missed(l, unseen) : j < k}
                  died == setflags([l EXCEPT !.misled = @ \/ forgotten(l)], before, "seen")
                  st == setflags([l EXCEPT !.byuid = x, !.seq = {l.map[j].uid : j \in js}],
                                 unseen, "seen")
              IN  IF missed(l, unseen) = {}
                    THEN Rewrite(unseen, st.b) /\ go(s, "fetch", "none", st.c)
                    ELSE Rewrite(before, died.b) /\ go(s, "off", "failed", closed(died.c))
  BY ZenonT(40) DEF Fetch
<1> DEFINE a == IF y THEN condstore(c) ELSE c
           l == index_lock(a)
<1>2. PICK js \in SUBSET sequence(l, x) :
        LET unseen == {j \in js : l.map[j].flags # "seen"}
            before == {j \in unseen : \A k \in missed(l, unseen) : j < k}
            died == setflags([l EXCEPT !.misled = @ \/ forgotten(l)], before, "seen")
            st == setflags([l EXCEPT !.byuid = x, !.seq = {l.map[j].uid : j \in js}],
                           unseen, "seen")
        IN  IF missed(l, unseen) = {}
              THEN Rewrite(unseen, st.b) /\ go(s, "fetch", "none", st.c)
              ELSE Rewrite(before, died.b) /\ go(s, "off", "failed", closed(died.c))
  BY <1>1, ZenonT(40)
<1> DEFINE unseen == {j \in js : l.map[j].flags # "seen"}
           before == {j \in unseen : \A k \in missed(l, unseen) : j < k}
           q == [l EXCEPT !.misled = @ \/ forgotten(l)]
           died == setflags(q, before, "seen")
           uids == {l.map[j].uid : j \in js}
           d == [l EXCEPT !.byuid = x, !.seq = uids]
           st == setflags(d, unseen, "seen")
<1>3. \/ /\ missed(l, unseen) = {} /\ Rewrite(unseen, st.b) /\ go(s, "fetch", "none", st.c)
      \/ Rewrite(before, died.b) /\ go(s, "off", "failed", closed(died.c))
  BY <1>2, SMTT(30)
<1>4. c.pc = "idle" BY DEF Fetch
<1>5. Box(mode, mbox, files) /\ c \in State /\ Core(mbox, c) /\ Clean(mode, c.map) BY <1>4, SessionFacts
<1> HIDE DEF c
<1>6. Core(mbox, a) /\ Clean(mode, a.map)
  <2>1. Core(mbox, condstore(c)) /\ condstore(c).map = c.map BY <1>5, Condstore
  <2> QED BY <2>1, <1>5
<1> HIDE DEF a
<1>7. Core(mbox, l) /\ Current(l) /\ Clean(mode, l.map) BY <1>5, <1>6, Lock
<1> HIDE DEF l
<1>8. l \in State BY <1>7 DEF Core
<1>9. js \subseteq DOMAIN l.map BY DEF sequence
<1>10. /\ unseen \in SUBSET DOMAIN l.map /\ before \in SUBSET DOMAIN l.map /\ before \subseteq unseen
  BY <1>9
<1>11. ASSUME NEW j \in before, l.map[j].recno = 0 PROVE FALSE
  <2>1. j \in missed(l, unseen) BY <1>10, <1>11 DEF missed
  <2>2. j < j BY <2>1
  <2>3. j \in Nat BY <1>8, <1>10, StateFields
  <2> QED BY <2>2, <2>3
<1>12. missed(l, unseen) = {} => \A j \in unseen : l.map[j].recno # 0 BY DEF missed
<1> HIDE DEF before, unseen
<1>13. Cardinality(unseen) \in Nat /\ Cardinality(before) \in Nat BY <1>8, <1>10, Counted
<1>14. "seen" \in Flags BY IndexAssumption
<1>p. "fetch" \in Pcs /\ "none" \in Lasts BY DEF Pcs, Lasts
<1>15. CASE missed(l, unseen) = {} /\ Rewrite(unseen, st.b) /\ go(s, "fetch", "none", st.c)
  <2> DEFINE e == st.c
             f == at(e, "fetch", "none")
  <2>1. ses' = [ses EXCEPT ![s] = f] BY <1>15 DEF go, at
  <2>2. uids \in SUBSET Nat
    <3>1. \A j \in DOMAIN l.map : l.map[j].uid \in Nat BY <1>8, StateFields, EntryFields
    <3> QED BY <3>1, <1>9
  <2> HIDE DEF uids
  <2>3. d \in State /\ SameState(l, d) BY <1>8, <2>2 DEF State, SameState
  <2> HIDE DEF d
  <2>4. Core(mbox, d) BY <1>7, <2>3, CoreSame
  <2>5. Current(d) /\ Clean(mode, d.map) /\ d.map = l.map BY <1>7, <2>3 DEF SameState, Current, UpTo
  <2>6. Asked(d, FALSE, unseen) BY <1>10, <1>12, <1>15, <2>5 DEF Asked
  <2>7. Turning(d, FALSE, st, Len(d.map)) BY <1>14, <2>4, <2>5, <2>6, SetFlags
  <2> HIDE DEF st
  <2>8. /\ Box(mode, st.b, files) /\ Core(st.b, e) /\ UpTo(st.b, e) /\ Clean(mode, e.map)
        /\ \A t \in Session : Sess(mode, st.b, files, ses[t])
    BY <2>7 DEF Turning
  <2> HIDE DEF e
  <2>9. Reading(st.b, files, e) BY <2>8, ReadingNow
  <2>10. e \in State BY <2>8 DEF Core
  <2>11. f \in State /\ SameState(e, f) /\ f.pc = "fetch" /\ f.last = "none" BY <1>p, <2>10, Goes
  <2> HIDE DEF f
  <2>12. Sess(mode, st.b, files, f) BY <2>8, <2>9, <2>11, StepEnds
  <2> QED BY <1>13, <1>15, <2>1, <2>8, <2>12, RewriteSteps
<1>16. CASE Rewrite(before, died.b) /\ go(s, "off", "failed", closed(died.c))
  <2> DEFINE e == died.c
             f == [closed(e) EXCEPT !.pc = "off", !.last = "failed"]
  <2>1. ses' = [ses EXCEPT ![s] = f] BY <1>16 DEF go
  <2>2. /\ Core(mbox, q) /\ (~q.misled => Has(mbox, q.view, q.modseq))
        /\ q.map = l.map /\ q.highestmodseq = l.highestmodseq /\ q.generation = l.generation
    BY <1>5, <1>7, Fails
  <2> HIDE DEF q
  <2>3. Current(q) /\ Clean(mode, q.map) BY <1>7, <2>2 DEF Current, UpTo
  <2>4. Asked(q, FALSE, before) BY <1>10, <1>11, <2>2 DEF Asked
  <2>5. Turning(q, FALSE, died, Len(q.map)) BY <1>14, <2>2, <2>3, <2>4, SetFlags
  <2> HIDE DEF died
  <2>6. /\ Box(mode, died.b, files) /\ Core(died.b, e) /\ SameClient(q, e) /\ e.misled = q.misled
        /\ \A t \in Session : Sess(mode, died.b, files, ses[t])
        /\ (Has(mbox, q.view, q.modseq) => Has(died.b, q.view, q.modseq))
    BY <2>5 DEF Turning
  <2> HIDE DEF e
  <2>7. ~e.misled /\ ~e.late => Has(died.b, e.view, e.modseq) BY <2>2, <2>6, SMTT(30) DEF SameClient
  <2>8. Sess(mode, died.b, files, f) BY <2>6, <2>7, Closes
  <2> HIDE DEF f
  <2> QED BY <1>13, <1>16, <2>1, <2>6, <2>8, RewriteSteps
<1> QED BY <1>3, <1>15, <1>16, Zenon

LEMMA DeliverStep ==
  ASSUME IndexInv, Deliver
  PROVE  IndexInv'
<1> DEFINE d == append(mbox)
           gs == files \cup {d.last_uid}
<1>1. Box(mode, mbox, files) BY DEF IndexInv
<1>2. Box(mode, d, gs) /\ Evolves(mbox, d) BY <1>1, AppendBox DEF Deliver
<1>3. /\ mode' = mode /\ mbox' = d /\ files' = gs /\ ses' = ses
      /\ closing' = (closing \/ cleanable(mbox')) /\ files \subseteq gs
  BY DEF Deliver
<1>4. ops' \in 0 .. MaxOps
  <2>1. ops \in 0 .. MaxOps /\ ops < MaxOps /\ ops' = ops + 1 BY DEF Deliver, IndexInv
  <2> QED BY <2>1, IndexAssumption
<1>5. closing' \in BOOLEAN BY <1>3
<1>6. d.generation_no = mbox.generation_no
  <2>1. mbox \in Mailbox BY <1>1 DEF Box
  <2> QED BY <2>1 DEF append, Mailbox
<1> HIDE DEF d, gs
<1> QED BY <1>2, <1>3, <1>4, <1>5, <1>6, MailboxSteps

LEMMA ExpireStep ==
  ASSUME IndexInv, Expire
  PROVE  IndexInv'
<1>1. PICK mark \in 1 .. mbox.highestmodseq : mbox' = expunge_cleanup(mbox, mark) BY DEF Expire
<1> DEFINE d == expunge_cleanup(mbox, mark)
<1>2. Box(mode, mbox, files) /\ mbox \in Mailbox BY DEF IndexInv, Box
<1>3. mark \in Nat BY <1>2, BoxFields
<1>4. Box(mode, d, files) /\ Evolves(mbox, d) BY <1>2, <1>3, ExpireBox
<1>5. mode' = mode /\ mbox' = d /\ files' = files /\ ses' = ses /\ closing' = TRUE BY <1>1 DEF Expire
<1>6. ops' \in 0 .. MaxOps
  <2>1. ops \in 0 .. MaxOps /\ ops < MaxOps /\ ops' = ops + 1 BY DEF Expire, IndexInv
  <2> QED BY <2>1, IndexAssumption
<1>7. d.generation_no = mbox.generation_no BY <1>2 DEF expunge_cleanup, Mailbox
<1> HIDE DEF d
<1>8. files \subseteq files OBVIOUS
<1> QED BY <1>4, <1>5, <1>6, <1>7, <1>8, MailboxSteps

LEMMA CleanupStep ==
  ASSUME IndexInv, Cleanup
  PROVE  IndexInv'
<1>1. Box(mode, mbox, files) /\ mbox \in Mailbox /\ ops \in 0 .. MaxOps BY DEF IndexInv, Box
<1>2. mode' = mode /\ ses' = ses /\ ops' = ops /\ closing' = FALSE BY DEF Cleanup
<1>3. CASE UNCHANGED <<mbox, files>>
  <2>1. Evolves(mbox, mbox) BY <1>1, EvolvesSame
  <2> QED BY <1>1, <1>2, <1>3, <2>1, MailboxSteps
<1>4. CASE /\ reading = {} /\ files' = files \ gone(mbox)
           /\ mbox' = IF mbox.needs_repack THEN repack(mbox) ELSE [mbox EXCEPT !.needs_unlink = FALSE]
  <2> DEFINE gs == files \ gone(mbox)
  <2>1. CASE mbox.needs_repack
    <3> DEFINE d == repack(mbox)
    <3>1. Box(mode, d, gs) /\ Evolves(mbox, d) BY <1>1, RepackBox
    <3>2. mbox' = d /\ files' = gs /\ reading = {} BY <1>4, <2>1
    <3> HIDE DEF d, gs
    <3> QED BY <1>1, <1>2, <3>1, <3>2, MailboxSteps
  <2>2. CASE ~mbox.needs_repack
    <3> DEFINE d == [mbox EXCEPT !.needs_unlink = FALSE]
    <3>1. Box(mode, d, gs) /\ Evolves(mbox, d) BY <1>1, <2>2, UnlinkBox
    <3>2. mbox' = d /\ files' = gs /\ reading = {} BY <1>4, <2>2
    <3> HIDE DEF d, gs
    <3> QED BY <1>1, <1>2, <3>1, <3>2, MailboxSteps
  <2> QED BY <2>1, <2>2
<1> QED BY <1>3, <1>4 DEF Cleanup

LEMMA OtherStep ==
  ASSUME IndexInv, Other
  PROVE  IndexInv'
<1>1. PICK r \in linked, f \in Flags, e \in BOOLEAN :
        /\ ~mbox.recs[r].expunged
        /\ Rewrite({r}, rewrite(mbox, r, [mbox.recs[r] EXCEPT !.flags = f, !.expunged = e]))
        /\ ses' = ses
  BY DEF Other
<1> DEFINE rec == [mbox.recs[r] EXCEPT !.flags = f, !.expunged = e]
           d == rewrite(mbox, r, rec)
<1>2. Box(mode, mbox, files) /\ mbox \in Mailbox BY DEF IndexInv, Box
<1>3. r \in DOMAIN mbox.recs /\ ~mbox.recs[r].unlinked BY DEF linked, linkedIn
<1>4. mbox.recs[r] \in Record BY <1>2, <1>3, BoxFields
<1>5. rec \in Record /\ rec.uid = mbox.recs[r].uid /\ rec.unlinked = mbox.recs[r].unlinked
  BY <1>4 DEF Record
<1>6. Rewrite({r}, d) BY <1>1
<1> HIDE DEF rec
<1>7. Rewritable(mbox, r, rec) BY <1>1, <1>3, <1>5 DEF Rewritable
<1>8. Box(mode, d, files) /\ Evolves(mbox, d) BY <1>2, <1>7, RewriteBox
<1>9. d.generation_no = mbox.generation_no BY <1>2, <1>3, <1>5, RewriteFields
<1>10. mode' = mode /\ mbox' = d /\ files' = files /\ closing' = closing BY <1>6 DEF Rewrite
<1>11. ops' \in 0 .. MaxOps
  <2>1. Cardinality({r}) = 1 BY FS_Singleton
  <2>2. ops \in 0 .. MaxOps /\ ops + 1 <= MaxOps /\ ops' = ops + 1 BY <1>6, <2>1 DEF Rewrite, IndexInv
  <2> QED BY <2>2, IndexAssumption
<1>12. closing' \in BOOLEAN BY <1>10 DEF IndexInv
<1> HIDE DEF d
<1>13. files \subseteq files OBVIOUS
<1> QED BY <1>1, <1>8, <1>9, <1>10, <1>11, <1>12, <1>13, MailboxSteps

-----------------------------------------------------------------------------
\* The invariant

LEMMA InvariantInit ==
  ASSUME Init
  PROVE  IndexInv
<1> DEFINE rec(i) == [uid |-> i, modseq |-> i + 1, flags |-> "none", expunged |-> FALSE, unlinked |-> FALSE]
           recs == [i \in 1 .. Start |-> rec(i)]
           c == [pc |-> "off", last |-> "none", capa |-> "none", map |-> <<>>, oldexists |-> 0,
                 highestmodseq |-> 0, oldhighestmodseq |-> 0, delayed_modseq |-> 0,
                 generation |-> 0, seq |-> {}, byuid |-> FALSE, view |-> <<>>,
                 modseq |-> 0, unknown |-> FALSE, late |-> FALSE, misled |-> FALSE]
<1>1. Start \in Nat /\ Start <= MaxUid /\ MaxUid \in Nat /\ MaxOps \in Nat /\ "none" \in Flags
  BY IndexAssumption
<1>2. ASSUME NEW i \in 1 .. Start
      PROVE  /\ rec(i) \in Record /\ rec(i).uid = i /\ rec(i).modseq = i + 1
             /\ rec(i).expunged = FALSE /\ rec(i).unlinked = FALSE
  BY <1>1 DEF Record
<1>3. DOMAIN recs = 1 .. Start /\ \A i \in 1 .. Start : recs[i] = rec(i) OBVIOUS
<1>4. recs \in Seq(Record) /\ \A i \in 1 .. Start : recs[i] \in Record
  <2>1. recs = [i \in 1 .. Start |-> recs[i]] OBVIOUS
  <2>2. \A i \in 1 .. Start : recs[i] \in Record BY <1>2, <1>3
  <2> HIDE DEF recs
  <2> QED BY <1>1, <2>1, <2>2, IsSeq
<1>5. \A i \in 1 .. Start : /\ recs[i].uid = i /\ recs[i].modseq = i + 1
                            /\ recs[i].expunged = FALSE /\ recs[i].unlinked = FALSE
  BY <1>2, <1>3
<1>6. mbox = [recs |-> recs, last_uid |-> Start, highestmodseq |-> Start + 1, deletedmodseq |-> 0,
              generation_no |-> 1, needs_repack |-> FALSE, needs_unlink |-> FALSE]
  BY DEF Init
<1> HIDE DEF recs
<1>7. /\ mbox.recs = recs /\ mbox.last_uid = Start /\ mbox.highestmodseq = Start + 1
      /\ mbox.deletedmodseq = 0
  BY <1>6
<1>8. mbox \in Mailbox BY <1>1, <1>4, <1>6 DEF Mailbox
<1>9. Sorted(mbox.recs) BY <1>3, <1>5, <1>7 DEF Sorted, recs
<1>10. files = 1 .. Start BY DEF Init
<1>d. DOMAIN mbox.recs = 1 .. Start BY <1>3, <1>7 DEF recs
<1>11. \A r \in DOMAIN mbox.recs : IsRecord(mode, mbox, files, mbox.recs[r])
  <2> TAKE r \in DOMAIN mbox.recs
  <2>1. r \in 1 .. Start BY <1>d
  <2>2. /\ mbox.recs[r].uid = r /\ mbox.recs[r].modseq = r + 1
        /\ mbox.recs[r].expunged = FALSE /\ mbox.recs[r].unlinked = FALSE
    BY <2>1, <1>5, <1>7
  <2>3. r <= Start /\ r + 1 <= Start + 1 BY <2>1, <1>1
  <2> QED BY <2>1, <2>2, <2>3, <1>7, <1>10 DEF IsRecord
<1>12. Box(mode, mbox, files)
  <2>1. mbox.highestmodseq > 0 /\ mbox.deletedmodseq <= mbox.highestmodseq BY <1>1, <1>7
  <2>2. files \subseteq 1 .. mbox.last_uid BY <1>7, <1>10
  <2> QED BY <2>1, <2>2, <1>8, <1>9, <1>11 DEF Box
<1>13. c \in State
  <2>1. c.map = <<>> /\ c.view = <<>> OBVIOUS
  <2>2. <<>> \in Seq(Entry) /\ <<>> \in Seq([uid : 1 .. MaxUid, flags : Flags]) OBVIOUS
  <2> QED BY <2>2 DEF State
<1>14. Sess(mode, mbox, files, c)
  <2>1. /\ c.pc = "off" /\ c.map = <<>> /\ c.oldexists = 0 /\ c.highestmodseq = 0 /\ c.last = "none"
        /\ c.modseq = 0 /\ c.unknown = FALSE
    OBVIOUS
  <2>2. 0 <= mbox.highestmodseq BY <1>1, <1>7
  <2> HIDE DEF c
  <2> QED BY <1>13, <2>1, <2>2 DEF Sess, Closed
<1>15. ses = [s \in Session |-> c] BY DEF Init
<1> HIDE DEF c
<1>16. ses \in [Session -> State] /\ \A s \in Session : ses[s] = c BY <1>13, <1>15
<1>17. mode \in Modes /\ closing \in BOOLEAN /\ ops \in 0 .. MaxOps
  <2>1. mode \in Modes /\ closing = FALSE /\ ops = 0 BY Zenon DEF Init
  <2>2. closing \in BOOLEAN BY <2>1
  <2>3. ops \in 0 .. MaxOps BY <2>1, <1>1
  <2> QED BY <2>1, <2>2, <2>3
<1> QED BY <1>12, <1>14, <1>16, <1>17 DEF IndexInv

LEMMA InvariantNext ==
  ASSUME IndexInv, [Next]_vars
  PROVE  IndexInv'
<1>1. CASE Deliver BY <1>1, DeliverStep
<1>2. CASE Other BY <1>2, OtherStep
<1>3. CASE Expire BY <1>3, ExpireStep
<1>4. CASE Cleanup BY <1>4, CleanupStep
<1>5. ASSUME NEW s \in Session, Command(s) PROVE IndexInv'
  <2>1. CASE Select(s) BY <2>1, SelectStep
  <2>2. CASE Resume(s) BY <2>2, ResumeStep
  <2>3. CASE Logout(s) BY <2>3, LogoutStep
  <2>4. CASE Check(s) \/ CheckQuiet(s) \/ CheckAfter(s) BY <2>4, CheckStep
  <2>5. CASE Refresh(s) BY <2>5, RefreshStep
  <2>6. CASE Fetch(s) BY <2>6, FetchStep
  <2>7. CASE Respond(s) BY <2>7, RespondStep
  <2>8. CASE Store(s) BY <2>8, StoreStep
  <2>9. CASE Expunge(s) BY <2>9, ExpungeStep
  <2>10. CASE Copy(s) BY <2>10, CopyStep
  <2>11. CASE Copied(s) BY <2>11, CopiedStep
  <2>12. CASE Move(s) BY <2>12, MoveStep
  <2> QED BY <1>5, <2>1, <2>2, <2>3, <2>4, <2>5, <2>6, <2>7, <2>8, <2>9, <2>10, <2>11, <2>12 DEF Command
<1>6. CASE UNCHANGED vars
  <2>1. mode' = mode /\ mbox' = mbox /\ files' = files /\ closing' = closing /\ ses' = ses /\ ops' = ops
    BY <1>6 DEF vars
  <2>2. mode' \in Modes /\ closing' \in BOOLEAN /\ ops' \in 0 .. MaxOps /\ Box(mode', mbox', files')
        /\ ses' \in [Session -> State]
    BY <2>1 DEF IndexInv
  <2>3. \A s \in Session : Sess(mode', mbox', files', ses'[s]) BY <2>1 DEF IndexInv
  <2> QED BY <2>2, <2>3 DEF IndexInv
<1> QED BY <1>1, <1>2, <1>3, <1>4, <1>5, <1>6 DEF Next

\* IndexInv holds in every state: the induction.
LEMMA Invariant == Spec => []IndexInv
<1>1. Init => IndexInv BY InvariantInit
<1>2. IndexInv /\ [Next]_vars => IndexInv' BY InvariantNext
<1> QED BY <1>1, <1>2, PTL DEF Spec

-----------------------------------------------------------------------------
\* What follows from it

LEMMA InvImpliesTypes ==
  ASSUME IndexInv
  PROVE  TypeOK
<1>1. mbox \in Mailbox /\ Sorted(mbox.recs) /\ files \subseteq 1 .. mbox.last_uid BY DEF IndexInv, Box
<1>2. \A r \in linked : mbox.recs[r].uid \in files
  BY DEF IndexInv, Box, IsRecord, linked, linkedIn
<1>3. ASSUME NEW s \in Session
      PROVE  ses[s].oldexists \in 0 .. Len(ses[s].map) /\ ses[s].highestmodseq <= mbox.highestmodseq
  <2>1. ses[s] \in State /\ Sess(mode, mbox, files, ses[s]) BY DEF IndexInv
  <2>2. CASE ses[s].pc = "off"
    <3>1. ses[s].oldexists = 0 /\ ses[s].highestmodseq = 0 BY <2>1, <2>2 DEF Sess, Closed
    <3> QED BY <3>1, <2>1, <1>1, StateFields, BoxFields
  <2>3. CASE ses[s].pc # "off"
    <3>1. MapInv(mbox, ses[s]) BY <2>1, <2>3 DEF Sess, Opened, Core
    <3> QED BY <3>1, <2>1, StateFields DEF MapInv
  <2> QED BY <2>2, <2>3
<1> QED BY <1>1, <1>2, <1>3 DEF IndexInv, TypeOK, Sorted

LEMMA UidsSeq ==
  ASSUME NEW q, NEW n \in Nat, DOMAIN q = 1 .. n
  PROVE  /\ DOMAIN uidsOf(q) = 1 .. n /\ Len(uidsOf(q)) = n
         /\ \A i \in 1 .. n : uidsOf(q)[i] = q[i].uid
BY DEF uidsOf

LEMMA InvImpliesInStep ==
  ASSUME IndexInv
  PROVE  InStep
<1> SUFFICES ASSUME NEW s \in Session, ses[s].pc # "off", ~ses[s].misled
             PROVE  /\ uidsOf(ses[s].view) = SubSeq(uidsOf(ses[s].map), 1, ses[s].oldexists)
                    /\ ~ses[s].unknown
  BY DEF InStep, selected
<1> DEFINE c == ses[s]
<1>1. c \in State /\ Core(mbox, c) BY SessionFacts
<1> HIDE DEF c
<1>2. /\ DOMAIN c.map = 1 .. Len(c.map) /\ Len(c.map) \in Nat /\ c.oldexists \in Nat
      /\ DOMAIN c.view = 1 .. Len(c.view) /\ Len(c.view) \in Nat
  BY <1>1, StateFields
<1>3. InView(c) /\ c.oldexists <= Len(c.map) BY <1>1 DEF Core, MapInv, c
<1>4. /\ ~c.unknown /\ Len(c.view) = c.oldexists
      /\ \A j \in 1 .. c.oldexists : c.view[j].uid = c.map[j].uid
  BY <1>3 DEF InView
<1> DEFINE u == uidsOf(c.view)
           v == uidsOf(c.map)
           n == c.oldexists
<1>5. u = [i \in 1 .. n |-> c.view[i].uid] BY <1>2, <1>4 DEF uidsOf
<1>6. \A i \in 1 .. Len(c.map) : v[i] = c.map[i].uid BY <1>2, UidsSeq
<1>7. SubSeq(v, 1, n) = [i \in 1 .. n |-> v[i]]
  <2> HIDE DEF v
  <2>1. n \in Nat BY <1>2
  <2> HIDE DEF n
  <2> QED BY <2>1
<1>8. [i \in 1 .. n |-> v[i]] = [i \in 1 .. n |-> c.view[i].uid] BY <1>2, <1>3, <1>4, <1>6
<1> QED BY <1>4, <1>5, <1>7, <1>8 DEF c

LEMMA InvImpliesMapComplete ==
  ASSUME IndexInv
  PROVE  MapComplete
<1> SUFFICES ASSUME NEW s \in Session, ses[s].pc # "off", ses[s].map # <<>>, NEW r \in linked,
                    ~mbox.recs[r].expunged, mbox.recs[r].uid <= Last(ses[s].map).uid
             PROVE  \E j \in DOMAIN ses[s].map : ses[s].map[j].uid = mbox.recs[r].uid
  BY DEF MapComplete, selected
<1>1. Complete(mbox, ses[s].highestmodseq, ses[s].map) BY SessionFacts DEF Core, MapInv
<1>2. r \in DOMAIN mbox.recs BY DEF linked, linkedIn
<1>3. mbox.recs[r].uid <= ses[s].map[Len(ses[s].map)].uid BY DEF Last
<1> QED BY <1>1, <1>2, <1>3 DEF Complete

LEMMA InvImpliesNobodyRewrites ==
  ASSUME IndexInv
  PROVE  NobodyRewrites
<1> SUFFICES ASSUME NEW s \in reading, NEW j \in DOMAIN ses[s].map, ses[s].map[j].recno # 0
             PROVE  /\ ses[s].map[j].recno \in DOMAIN mbox.recs
                    /\ mbox.recs[ses[s].map[j].recno].uid = ses[s].map[j].uid
                    /\ ses[s].map[j].uid \in files
  BY DEF NobodyRewrites
<1>1. s \in Session /\ ses[s].pc \in {"fetch", "copy"} BY DEF reading
<1>2. ses[s].pc # "off" BY <1>1
<1>3. Reading(mbox, files, ses[s]) /\ MapInv(mbox, ses[s]) BY <1>1, <1>2, SessionFacts DEF Core
<1>4. Located(mbox, ses[s].map[j]) BY <1>3 DEF Reading, MapInv
<1> QED BY <1>3, <1>4 DEF Reading, Located

LEMMA InvImpliesResumed ==
  ASSUME IndexInv
  PROVE  Resumed
<1> SUFFICES ASSUME NEW s \in Session, ses[s].last = "resume", ~ses[s].late, ~ses[s].misled
             PROVE  ses[s].view = known(ses[s].map)
  BY DEF Resumed
<1>1. Sess(mode, mbox, files, ses[s]) BY DEF IndexInv
<1>2. ses[s].pc # "off" BY <1>1 DEF Sess, Closed
<1> QED BY <1>1, <1>2 DEF Sess, Opened

\* The messages and flags of a mailbox
LEMMA KnownRecords ==
  ASSUME NEW q \in Seq(Record), Sorted(q)
  PROVE  /\ known(q) \in Seq(View) /\ DOMAIN known(q) = DOMAIN q /\ Sorted(known(q))
         /\ \A i \in DOMAIN q : known(q)[i] = [uid |-> q[i].uid, flags |-> q[i].flags]
<1> DEFINE f == known(q)
<1>1. Len(q) \in Nat /\ DOMAIN q = 1 .. Len(q) /\ \A i \in DOMAIN q : q[i] \in Record OBVIOUS
<1>2. f = [i \in 1 .. Len(q) |-> f[i]] BY <1>1 DEF known
<1>3. \A i \in 1 .. Len(q) : f[i] = [uid |-> q[i].uid, flags |-> q[i].flags] BY <1>1 DEF known
<1> HIDE DEF f
<1>4. \A i \in 1 .. Len(q) : f[i].uid = q[i].uid
  <2> TAKE i \in 1 .. Len(q)
  <2>1. f[i] = [uid |-> q[i].uid, flags |-> q[i].flags] BY <1>3
  <2> QED BY ONLY <2>1
<1>5. \A i \in 1 .. Len(q) : f[i] \in View
  <2> TAKE i \in 1 .. Len(q)
  <2>1. q[i].uid \in 1 .. MaxUid /\ q[i].flags \in Flags BY <1>1, RecordFields
  <2>2. f[i] = [uid |-> q[i].uid, flags |-> q[i].flags] BY <1>3
  <2> QED BY ONLY <2>1, <2>2 DEF View
<1>6. f \in Seq(View) /\ DOMAIN f = 1 .. Len(q) BY <1>1, <1>2, <1>5, IsSeq
<1>7. Sorted(f) BY <1>1, <1>4, <1>6 DEF Sorted
<1> QED BY <1>1, <1>3, <1>6, <1>7 DEF f

LEMMA InvImpliesTold ==
  ASSUME IndexInv
  PROVE  Told
<1> DEFINE S == {r \in DOMAIN mbox.recs : ~mbox.recs[r].expunged}
           p == pick(mbox.recs, S)
           q == known(p)
<1> SUFFICES ASSUME NEW s \in Session, ses[s].last \in {"noop", "expunge"}, ~ses[s].misled,
                    ses[s].highestmodseq = mbox.highestmodseq
             PROVE  ses[s].view = q
  BY DEF Told
<1> DEFINE c == ses[s]
<1>1. Sess(mode, mbox, files, c) /\ Box(mode, mbox, files) /\ mbox \in Mailbox BY DEF IndexInv, Box
<1>2. c.pc # "off" BY <1>1 DEF Sess, Closed
<1>3. /\ c \in State /\ MapInv(mbox, c) /\ InView(c) /\ AllTold(c)
      /\ c.highestmodseq = mbox.highestmodseq
  BY <1>1, <1>2 DEF Sess, Opened, Core
<1> HIDE DEF c
<1>4. /\ c.map \in Seq(Entry) /\ c.view \in Seq(View) /\ DOMAIN c.view = 1 .. Len(c.view)
      /\ \A j \in DOMAIN c.map : c.map[j] \in Entry
  BY <1>3, StateFields DEF View
<1>5. Sorted(c.view) BY <1>3, ViewSorted DEF MapInv
<1>6. mbox.recs \in Seq(Record) /\ Sorted(mbox.recs) BY <1>1, BoxFields DEF Box
<1>7. p \in Seq(Record) /\ Sorted(p) /\ Chosen(p, mbox.recs, S) BY <1>6, PickedSorted
<1> HIDE DEF p
<1>8. /\ q \in Seq(View) /\ DOMAIN q = DOMAIN p /\ Sorted(q)
      /\ \A i \in DOMAIN p : q[i] = [uid |-> p[i].uid, flags |-> p[i].flags]
  BY <1>7, KnownRecords
<1> HIDE DEF q
<1>9. Among(q, c.view)
  <2> SUFFICES ASSUME NEW i \in DOMAIN q PROVE \E k \in DOMAIN c.view : q[i] = c.view[k] BY DEF Among
  <2>1. PICK r \in DOMAIN mbox.recs \cap S : p[i] = mbox.recs[r] BY <1>7, <1>8 DEF Chosen
  <2>2. ~mbox.recs[r].expunged /\ mbox.recs[r].modseq <= mbox.highestmodseq BY <2>1, <1>1, BoxUids
  <2>3. Has(mbox, c.view, mbox.highestmodseq)
    <3>1. mbox.highestmodseq \in Nat /\ mbox.highestmodseq <= c.highestmodseq BY <1>1, <1>3, BoxFields
    <3>2. c.oldexists = Len(c.map) /\ \A j \in changed(c) : c.map[j].expunged BY <1>3 DEF AllTold
    <3> QED BY <1>1, <1>3, <3>1, <3>2, HasAll
  <2>4. PICK k \in DOMAIN c.view : c.view[k] = [uid |-> mbox.recs[r].uid, flags |-> mbox.recs[r].flags]
    BY <2>1, <2>2, <2>3 DEF Has
  <2> QED BY <2>1, <2>4, <1>8
<1>10. Among(c.view, q)
  <2> SUFFICES ASSUME NEW k \in DOMAIN c.view PROVE \E i \in DOMAIN q : c.view[k] = q[i] BY DEF Among
  <2>1. k \in 1 .. c.oldexists /\ k \in DOMAIN c.map
    BY <1>3, <1>4 DEF InView, AllTold
  <2>2. c.view[k].uid = c.map[k].uid /\ ~c.map[k].expunged BY <1>3, <2>1 DEF InView, AllTold
  <2>3. c.map[k] \in Entry BY <1>4, <2>1
  <2>4. ~(c.map[k].modseq > c.map[k].told) BY <1>3, <2>1 DEF AllTold, changed
  <2>5. c.map[k].modseq <= c.map[k].told
    <3>1. c.map[k].modseq \in Nat /\ c.map[k].told \in Nat BY <2>3, EntryFields
    <3> QED BY <2>4, <3>1
  <2>6. c.view[k].flags = c.map[k].flags BY <1>3, <2>1, <2>2, <2>5 DEF InView
  <2>7. IsEntry(mbox, mbox.highestmodseq, c.map[k]) BY <1>3, <2>1 DEF MapInv
  <2>8. mbox.highestmodseq \in Nat /\ mbox.deletedmodseq \in Nat /\ mbox.deletedmodseq <= mbox.highestmodseq
    BY <1>1, BoxFields DEF Box
  <2>9. ~(mbox.deletedmodseq > mbox.highestmodseq) BY <2>8
  <2>10. PICK r \in DOMAIN mbox.recs : mbox.recs[r].uid = c.map[k].uid
    BY <2>2, <2>7, <2>9 DEF IsEntry, Alive
  <2>11. mbox.recs[r].modseq <= mbox.highestmodseq BY <1>1, BoxUids
  <2>12. mbox.recs[r].expunged = c.map[k].expunged /\ mbox.recs[r].flags = c.map[k].flags
    BY <2>2, <2>7, <2>10, <2>11 DEF IsEntry, Seen
  <2>13. PICK i \in DOMAIN p : p[i] = mbox.recs[r] BY <1>7, <2>2, <2>12 DEF Chosen
  <2>14. q[i] = [uid |-> c.view[k].uid, flags |-> c.view[k].flags]
    BY <1>8, <2>2, <2>6, <2>10, <2>12, <2>13
  <2>15. c.view[k] = [uid |-> c.view[k].uid, flags |-> c.view[k].flags]
    <3>1. c.view[k] \in View BY <1>4
    <3> QED BY <3>1 DEF View
  <2> QED BY <1>8, <2>14, <2>15
<1>11. c.view = q BY <1>4, <1>5, <1>8, <1>9, <1>10, ViewUids, SortedUnique
<1> QED BY <1>11 DEF c

-----------------------------------------------------------------------------
\* Type correctness: the records stay in the order of their UIDs, each with its file until
\* it is unlinked, and no session is ahead of the mailbox.
THEOREM IndexTypes == Spec => []TypeOK
BY Invariant, InvImpliesTypes, PTL

\* index_tellexpunge and index_tellexists keep the message numbers of a session and of its
\* client the same, whatever is expunged, told late or delivered in between, as long as no
\* quiet refresh (STATUS, SEARCH, SORT, the expunge of MOVE) has made the session forget
\* what it had not told (misled).  After that they may differ.
THEOREM NumbersAgree == Spec => []InStep
BY Invariant, InvImpliesInStep, PTL

\* assert(im->uid == record->uid) in index_refresh_locked never fails: a map has every
\* message up to its last one that is not expunged.
THEOREM MapsComplete == Spec => []MapComplete
BY Invariant, InvImpliesMapComplete, PTL

\* While a session reads without the lock of the index, no repack or unlink takes a record
\* or a file from it.
THEOREM ReadersKeep == Spec => []NobodyRewrites
BY Invariant, InvImpliesNobodyRewrites, PTL

\* index_tellchanges leaves no change untold, also where it takes its short cut by modseq,
\* to a client that is not misled.  To one that is it may leave a change untold.
THEOREM ChangesTold == Spec => []Told
BY Invariant, InvImpliesTold, PTL

\* index_vanished tells a client that resumes all that is gone, also what was repacked
\* while it was away, if the HIGHESTMODSEQ it was given covers nothing that it was not
\* told, which the code does not ensure for late and misled clients.
THEOREM ResumesWhole == Spec => []Resumed
BY Invariant, InvImpliesResumed, PTL
=============================================================================
