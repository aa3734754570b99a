---------------------------- MODULE ReplicaProofs ----------------------------
(***************************************************************************)
(* Theorems about Replica: replication of a mailbox loses no message, and  *)
(* without failures it copies none twice, for any number of messages,      *)
(* changes and failures.                                                   *)
(*                                                                         *)
(* Everything rests on Grows, the relation between a mailbox and a later   *)
(* state of it: a UID is never used again.  It is why an old snapshot of   *)
(* the replica can be acted upon, and why an expunge that was meant for    *)
(* the old UID of a message never hits the message under its new UID.      *)
(***************************************************************************)
EXTENDS Replica, WellFoundedInduction, TLAPS

\* c is b or a later state of b.
Grows(b, c) ==
  /\ b.last_uid <= c.last_uid
  /\ \A u \in DOMAIN c.rec : u <= b.last_uid =>
       /\ u \in DOMAIN b.rec
       /\ c.rec[u].guid = b.rec[u].guid
       /\ b.rec[u].expunged => c.rec[u].expunged

\* The message g is not under the UID u, and never will be.
Burnt(b, u, g) == u <= b.last_uid /\ ~(u \in live(b) /\ b.rec[u].guid = g)

\* Messages that may be missing on both sides
Gone == removed \cup dropped

\* The mailboxes of the two sides
M == box["master"]
R == box["replica"]

-----------------------------------------------------------------------------
\* What the client holds between its steps.  n is the last UID of the replica.
IsFolder(f, n) == f.last_uid \in Nat /\ f.last_uid <= n

IsMessage(c, n) ==
  /\ DOMAIN c = {"rec", "files", "since", "to"}
  /\ c.rec \in [DOMAIN c.rec -> Record]
  /\ c.to.last_uid \in Nat /\ c.to.highestmodseq \in Nat
  /\ \A u \in DOMAIN c.rec :
       /\ u \in 1 .. c.to.last_uid /\ c.rec[u].modseq <= c.to.highestmodseq
       /\ u > n => u \in c.files

Types ==
  /\ TypeOK /\ faults \in Nat
  /\ removed \subseteq Guid /\ dropped \subseteq Guid /\ got \subseteq Guid
  /\ (pc = "once" => IsFolder(remote, R.last_uid))
  /\ (cache # none /\ cache[1] = "MAILBOX" => IsFolder(cache[2], R.last_uid))
  /\ (pc = "apply" => IsMessage(msg, R.last_uid))
  /\ (pc = "merge" => IsMailbox(snap) /\ Grows(snap, R))

\* A message that is expunged in b is not wanted, or is no longer under that UID on the
\* master m.
Excused(m, gone, b) ==
  \A u \in DOMAIN b.rec : b.rec[u].expunged =>
    b.rec[u].guid \in gone \/ Burnt(m, u, b.rec[u].guid)

\* A message that is expunged in b is not wanted, or is on the master m.
Kept(m, gone, b) ==
  \A u \in DOMAIN b.rec : b.rec[u].expunged => b.rec[u].guid \in gone \cup guids(m)

\* No message is lost: the two mailboxes, ...
BoxLoss(m, r, gone, all) ==
  /\ all \ gone \subseteq guids(m) \cup guids(r)
  /\ Excused(m, gone, r) /\ Kept(m, gone, m)

\* ... and the client.
MergeLoss(m, gone, sn) == Excused(m, gone, sn)

ApplyLoss(m, gone, ms) ==
  /\ Kept(m, gone, ms)
  /\ \A u \in DOMAIN ms.rec : ms.rec[u].expunged => Burnt(m, u, ms.rec[u].guid)

ExpungeLoss(m, r, gone, ks) ==
  \A u \in ks \cap DOMAIN r.rec :
    /\ r.rec[u].guid \in gone \cup guids(m)
    /\ r.rec[u].guid \in gone \/ Burnt(m, u, r.rec[u].guid)

Loss ==
  /\ BoxLoss(M, R, Gone, got)
  /\ (pc = "merge" => MergeLoss(M, Gone, snap))
  /\ (pc = "apply" => ApplyLoss(M, Gone, msg))
  /\ (pc \in {"expunge", "cleanup"} => ExpungeLoss(M, R, Gone, kuids))

\* The same message is in b and in c only under the same UID.
Cross(b, c) == \A u \in live(b), v \in live(c) : b.rec[u].guid = c.rec[v].guid => u = v

\* All messages of a mailbox have been delivered.
Known(all, b) == \A u \in DOMAIN b.rec : b.rec[u].guid \in all

\* No message is twice in a mailbox; on both sides it has the same UID, unless it is
\* about to be expunged on the replica.
BoxSingle(m, r, ks) ==
  /\ Cross(m, m) /\ Cross(r, r)
  /\ \A u \in live(m), v \in live(r) : m.rec[u].guid = r.rec[v].guid => u = v \/ v \in ks

MergeSingle(m, r, sn) ==
  /\ Cross(sn, sn) /\ Cross(m, sn)
  /\ \A u \in DOMAIN r.rec : u > sn.last_uid =>
       /\ \A v \in DOMAIN m.rec : m.rec[v].guid # r.rec[u].guid
       /\ \A v \in DOMAIN sn.rec : sn.rec[v].guid # r.rec[u].guid

ApplySingle(m, r, ms) == Cross(ms, ms) /\ Cross(ms, m) /\ Cross(ms, r)

Single ==
  /\ Known(got, M) /\ Known(got, R)
  /\ (pc = "merge" => Known(got, snap))
  /\ (pc = "apply" => Known(got, msg))
  /\ (pc \notin {"expunge", "cleanup"} => kuids = {})
  /\ faults = 0 =>
       /\ BoxSingle(M, R, kuids)
       /\ (pc = "merge" => MergeSingle(M, R, snap))
       /\ (pc = "apply" => ApplySingle(M, R, msg))

\* The inductive invariant
ReplicaInv == Types /\ Loss /\ Single

-----------------------------------------------------------------------------
\* Numbers

\* Induction, as a fact about sets
LEMMA NatSet ==
  ASSUME NEW S, 0 \in S, \A n \in Nat : n \in S => n + 1 \in S
  PROVE  \A n \in Nat : n \in S
<1> SUFFICES ASSUME Nat \ S # {} PROVE FALSE OBVIOUS
<1> DEFINE T == Nat \ S
<1>1. PICK x \in T : \A y \in T : ~(<<y, x>> \in OpToRel(<, Nat))
  <2>1. T \subseteq Nat /\ T # {} OBVIOUS
  <2> HIDE DEF T
  <2> QED BY <2>1, NatLessThanWellFounded, WFMin, Zenon
<1>2. x \in Nat \ {0} /\ x - 1 \in Nat /\ x = (x - 1) + 1 OBVIOUS
<1>3. x - 1 \in T BY <1>2
<1>4. <<x - 1, x>> \in OpToRel(<, Nat)
  <2>1. x - 1 < x /\ x - 1 \in Nat /\ x \in Nat BY <1>2
  <2> QED BY <2>1, Zenon DEF OpToRel
<1> QED BY <1>1, <1>3, <1>4, Zenon

LEMMA MaxTwo ==
  ASSUME NEW a \in Nat, NEW b \in Nat
  PROVE  Max({a, b}) \in Nat /\ Max({a, b}) >= a /\ Max({a, b}) >= b /\ Max({a, b}) \in {a, b}
BY DEF Max

\* A bounded set of numbers has a greatest element.
LEMMA MaxBounded ==
  ASSUME NEW n \in Nat, NEW S, S \subseteq 0 .. n, S # {}
  PROVE  Max(S) \in S /\ \A x \in S : x <= Max(S)
<1> DEFINE P == {k \in Nat : \A T \in SUBSET (0 .. k) :
                     T # {} => \E x \in T : \A y \in T : x >= y}
<1>1. 0 \in P
  <2>1. ASSUME NEW T \in SUBSET (0 .. 0), NEW x \in T PROVE \A y \in T : x >= y OBVIOUS
  <2> QED BY <2>1
<1>2. ASSUME NEW k \in Nat, k \in P PROVE k + 1 \in P
  <2> SUFFICES ASSUME NEW T \in SUBSET (0 .. k + 1), T # {}
               PROVE  \E x \in T : \A y \in T : x >= y
    OBVIOUS
  <2>1. CASE k + 1 \in T BY <2>1
  <2>2. CASE k + 1 \notin T
    <3>1. T \subseteq 0 .. k BY <2>2
    <3> QED BY <3>1, <1>2
  <2> QED BY <2>1, <2>2
<1> HIDE DEF P
<1>3. n \in P BY <1>1, <1>2, NatSet
<1>4. \E x \in S : \A y \in S : x >= y BY <1>3 DEF P
<1> QED BY <1>4 DEF Max

-----------------------------------------------------------------------------
\* Records and mailboxes

LEMMA RecordFields ==
  ASSUME NEW r \in Record
  PROVE  /\ r.guid \in Guid /\ r.flags \in Flags /\ r.expunged \in BOOLEAN
         /\ r.modseq \in Nat /\ r.last_updated \in Nat
BY DEF Record

LEMMA RecordFlags ==
  ASSUME NEW r \in Record, NEW f \in Flags
  PROVE  LET q == [r EXCEPT !.flags = f]
         IN  q \in Record /\ q.guid = r.guid /\ q.expunged = r.expunged
BY DEF Record

LEMMA RecordExpunge ==
  ASSUME NEW r \in Record, NEW e \in BOOLEAN
  PROVE  LET q == [r EXCEPT !.expunged = e]
         IN  q \in Record /\ q.guid = r.guid /\ q.expunged = e /\ q.modseq = r.modseq
BY DEF Record

LEMMA Stamped ==
  ASSUME NEW b, IsMailbox(b), NEW r \in Record, NEW t \in Nat
  PROVE  LET q == stamped(b, r, t)
         IN  q \in Record /\ q.guid = r.guid /\ q.expunged = r.expunged
             /\ q.modseq = b.highestmodseq + 1
<1>1. b.highestmodseq + 1 \in Nat BY DEF IsMailbox
<1>2. ASSUME NEW n \in Nat
      PROVE  LET q == [r EXCEPT !.modseq = n, !.last_updated = t]
             IN  q \in Record /\ q.guid = r.guid /\ q.expunged = r.expunged /\ q.modseq = n
  BY DEF Record
<1> QED BY <1>1, <1>2 DEF stamped

LEMMA MailboxFields ==
  ASSUME NEW b, IsMailbox(b)
  PROVE  /\ b.last_uid \in Nat /\ b.highestmodseq \in Nat /\ b.deletedmodseq \in Nat
         /\ b.deletedmodseq <= b.highestmodseq
         /\ \A u \in DOMAIN b.rec :
              /\ u \in Nat /\ 1 <= u /\ u <= b.last_uid /\ b.rec[u].modseq <= b.highestmodseq
              /\ b.rec[u] \in Record /\ b.rec[u].guid \in Guid /\ b.rec[u].expunged \in BOOLEAN
              /\ b.rec[u].modseq \in Nat /\ b.rec[u].flags \in Flags
BY RecordFields DEF IsMailbox

LEMMA Appended ==
  ASSUME NEW b, IsMailbox(b), NEW u \in Nat, u > b.last_uid, NEW r \in Record, NEW t \in Nat
  PROVE  LET c == append(b, u, r, t)
         IN  /\ IsMailbox(c) /\ c.last_uid = u /\ c.deletedmodseq = b.deletedmodseq
             /\ DOMAIN c.rec = DOMAIN b.rec \cup {u}
             /\ \A v \in DOMAIN b.rec : c.rec[v] = b.rec[v]
             /\ c.rec[u].guid = r.guid /\ c.rec[u].expunged = r.expunged
             /\ u \notin DOMAIN b.rec
<1> DEFINE c == append(b, u, r, t)
           q == stamped(b, r, t)
           f == [v \in DOMAIN b.rec \cup {u} |-> IF v = u THEN q ELSE b.rec[v]]
<1>1. q \in Record /\ q.guid = r.guid /\ q.expunged = r.expunged
      /\ q.modseq = b.highestmodseq + 1
  BY Stamped
<1> HIDE DEF q
<1>2. /\ DOMAIN c = {"rec", "last_uid", "highestmodseq", "deletedmodseq"}
      /\ c.rec = f /\ c.last_uid = u /\ c.highestmodseq = b.highestmodseq + 1
      /\ c.deletedmodseq = b.deletedmodseq
  BY DEF append, IsMailbox, q
<1> HIDE DEF c
<1>3. u \notin DOMAIN b.rec BY MailboxFields
<1>4. DOMAIN f = DOMAIN b.rec \cup {u} /\ f[u] = q /\ \A v \in DOMAIN b.rec : f[v] = b.rec[v]
  BY <1>3
<1> HIDE DEF f
<1>5. f \in [DOMAIN f -> Record] BY <1>4, <1>1, MailboxFields DEF f
<1>6. \A v \in DOMAIN f : v \in 1 .. u /\ f[v].modseq <= b.highestmodseq + 1
  BY <1>1, <1>4, MailboxFields
<1>7. IsMailbox(c) BY <1>2, <1>5, <1>6, MailboxFields DEF IsMailbox
<1> QED BY <1>1, <1>2, <1>3, <1>4, <1>7 DEF c

LEMMA Rewritten ==
  ASSUME NEW b, IsMailbox(b), NEW u \in DOMAIN b.rec, NEW r \in Record, NEW t \in Nat
  PROVE  LET c == rewrite(b, u, r, t)
         IN  /\ IsMailbox(c) /\ c.last_uid = b.last_uid /\ c.deletedmodseq = b.deletedmodseq
             /\ DOMAIN c.rec = DOMAIN b.rec
             /\ \A v \in DOMAIN b.rec \ {u} : c.rec[v] = b.rec[v]
             /\ c.rec[u].guid = r.guid /\ c.rec[u].expunged = r.expunged
<1> DEFINE c == rewrite(b, u, r, t)
           q == stamped(b, r, t)
           f == [b.rec EXCEPT ![u] = q]
<1>1. q \in Record /\ q.guid = r.guid /\ q.expunged = r.expunged
      /\ q.modseq = b.highestmodseq + 1
  BY Stamped
<1> HIDE DEF q
<1>2. /\ DOMAIN c = {"rec", "last_uid", "highestmodseq", "deletedmodseq"}
      /\ c.rec = f /\ c.last_uid = b.last_uid /\ c.highestmodseq = b.highestmodseq + 1
      /\ c.deletedmodseq = b.deletedmodseq
  BY DEF rewrite, IsMailbox, q
<1> HIDE DEF c
<1>4. DOMAIN f = DOMAIN b.rec /\ f[u] = q /\ \A v \in DOMAIN b.rec \ {u} : f[v] = b.rec[v]
  BY DEF IsMailbox
<1>5. f \in [DOMAIN f -> Record] BY <1>1, <1>4, MailboxFields DEF f, IsMailbox
<1> HIDE DEF f
<1>6. \A v \in DOMAIN f : v \in 1 .. b.last_uid /\ f[v].modseq <= b.highestmodseq + 1
  BY <1>1, <1>4, MailboxFields
<1>7. IsMailbox(c) BY <1>2, <1>5, <1>6, MailboxFields DEF IsMailbox
<1> QED BY <1>1, <1>2, <1>4, <1>7 DEF c

LEMMA Repacked ==
  ASSUME NEW b, IsMailbox(b), NEW old, old \subseteq DOMAIN b.rec, old # {}
  PROVE  LET c == repack(b, old)
         IN  /\ IsMailbox(c) /\ c.last_uid = b.last_uid
             /\ DOMAIN c.rec = DOMAIN b.rec \ old
             /\ \A v \in DOMAIN c.rec : c.rec[v] = b.rec[v]
<1> DEFINE c == repack(b, old)
           f == [u \in DOMAIN b.rec \ old |-> b.rec[u]]
           S == {b.deletedmodseq} \cup {b.rec[u].modseq : u \in old}
<1>1. /\ DOMAIN c = {"rec", "last_uid", "highestmodseq", "deletedmodseq"}
      /\ c.rec = f /\ c.last_uid = b.last_uid /\ c.highestmodseq = b.highestmodseq
      /\ c.deletedmodseq = Max(S)
  BY DEF repack, IsMailbox
<1>2. S \subseteq 0 .. b.highestmodseq /\ S # {} BY MailboxFields
<1> HIDE DEF c, S
<1>3. Max(S) \in 0 .. b.highestmodseq BY <1>2, MaxBounded, MailboxFields
<1>4. DOMAIN f = DOMAIN b.rec \ old /\ \A v \in DOMAIN f : f[v] = b.rec[v] OBVIOUS
<1>5. f \in [DOMAIN f -> Record] BY <1>4, MailboxFields
<1> HIDE DEF f
<1>6. IsMailbox(c) BY <1>1, <1>3, <1>4, <1>5, MailboxFields DEF IsMailbox
<1> QED BY <1>1, <1>4, <1>6 DEF c

LEMMA GrowsSame ==
  ASSUME NEW b, IsMailbox(b)
  PROVE  Grows(b, b)
BY MailboxFields DEF Grows

LEMMA GrowsTrans ==
  ASSUME NEW b, NEW c, NEW d, IsMailbox(b), IsMailbox(c), IsMailbox(d), Grows(b, c), Grows(c, d)
  PROVE  Grows(b, d)
BY MailboxFields DEF Grows

\* Nothing comes back under a UID it has left.
LEMMA BurntStays ==
  ASSUME NEW b, NEW c, IsMailbox(b), IsMailbox(c), Grows(b, c), NEW u \in Nat, NEW g,
         Burnt(b, u, g)
  PROVE  Burnt(c, u, g)
BY MailboxFields DEF Grows, Burnt, live

LEMMA AppendGrows ==
  ASSUME NEW b, IsMailbox(b), NEW u \in Nat, u > b.last_uid, NEW r \in Record, NEW t \in Nat
  PROVE  Grows(b, append(b, u, r, t))
<1> HIDE DEF append
<1> QED BY Appended, MailboxFields DEF Grows

LEMMA RewriteGrows ==
  ASSUME NEW b, IsMailbox(b), NEW u \in DOMAIN b.rec, NEW r \in Record, NEW t \in Nat,
         r.guid = b.rec[u].guid, b.rec[u].expunged => r.expunged
  PROVE  Grows(b, rewrite(b, u, r, t))
<1> DEFINE c == rewrite(b, u, r, t)
<1>1. /\ c.last_uid = b.last_uid /\ DOMAIN c.rec = DOMAIN b.rec
      /\ \A v \in DOMAIN b.rec \ {u} : c.rec[v] = b.rec[v]
      /\ c.rec[u].guid = r.guid /\ c.rec[u].expunged = r.expunged
  BY Rewritten
<1> HIDE DEF c
<1>2. ASSUME NEW v \in DOMAIN b.rec
      PROVE  c.rec[v].guid = b.rec[v].guid /\ (b.rec[v].expunged => c.rec[v].expunged)
  <2>1. CASE v = u BY <1>1, <2>1, Zenon
  <2>2. CASE v # u BY <1>1, <2>2
  <2> QED BY <2>1, <2>2
<1> QED BY <1>1, <1>2, MailboxFields DEF Grows, c

LEMMA RepackGrows ==
  ASSUME NEW b, IsMailbox(b), NEW old, old \subseteq DOMAIN b.rec, old # {}
  PROVE  Grows(b, repack(b, old))
BY Repacked, MailboxFields DEF Grows

-----------------------------------------------------------------------------
\* The two loops are recursive functions: what defines them exists.

IsLoop(f, b, t, n) ==
  f = [u \in 0 .. n |-> IF u = 0 THEN [box |-> raised(b), kaction |-> <<>>]
                        ELSE update_one(b, f[u - 1], u, t)]

IsDone(f, st, t, n) ==
  f = [i \in 0 .. n |-> IF i = 0 THEN [st.box EXCEPT !.last_uid = Max({@, snap.last_uid})]
                        ELSE do_kaction(f[i - 1], st.kaction[i], t)]

LEMMA LoopExists ==
  ASSUME NEW b, NEW t
  PROVE  \A n \in Nat : \E f : IsLoop(f, b, t, n)
<1> DEFINE base == [box |-> raised(b), kaction |-> <<>>]
           one(x, u) == update_one(b, x, u, t)
           D(f, n) == f = [u \in 0 .. n |-> IF u = 0 THEN base ELSE one(f[u - 1], u)]
           S == {n \in Nat : \E f : D(f, n)}
<1> HIDE DEF base, one
<1>1. 0 \in S
  <2>1. [u \in 0 .. 0 |-> base]
          = [u \in 0 .. 0 |-> IF u = 0 THEN base ELSE one([j \in 0 .. 0 |-> base][u - 1], u)]
    OBVIOUS
  <2> QED BY <2>1
<1>2. ASSUME NEW n \in Nat, n \in S PROVE n + 1 \in S
  <2>1. PICK f : D(f, n) BY <1>2
  <2> DEFINE g == [u \in 0 .. n + 1 |-> IF u <= n THEN f[u] ELSE one(f[n], n + 1)]
  <2>2. ASSUME NEW u \in 0 .. n + 1 PROVE g[u] = IF u = 0 THEN base ELSE one(g[u - 1], u)
    <3>1. CASE u <= n
      <4>1. u \in 0 .. n BY <3>1
      <4>2. f[u] = IF u = 0 THEN base ELSE one(f[u - 1], u) BY <2>1, <4>1
      <4>3. u # 0 => u - 1 \in 0 .. n + 1 /\ u - 1 <= n BY <4>1
      <4> QED BY <4>1, <4>2, <4>3
    <3>2. CASE u = n + 1 BY <3>2
    <3> QED BY <3>1, <3>2
  <2>3. D(g, n + 1)
    <3> HIDE DEF g
    <3>1. g = [u \in 0 .. n + 1 |-> g[u]] BY DEF g
    <3> QED BY <3>1, <2>2, Zenon
  <2> HIDE DEF g, D
  <2> QED BY <2>3
<1> HIDE DEF S
<1>3. \A n \in Nat : n \in S BY <1>1, <1>2, NatSet
<1> QED BY <1>3 DEF S, base, one, IsLoop

\* mailbox_update_loop goes through the UIDs in their order.
LEMMA LoopSteps ==
  ASSUME NEW b, NEW n \in Nat, NEW t
  PROVE  \E f : /\ f[0] = [box |-> raised(b), kaction |-> <<>>]
                /\ \A u \in 0 .. n - 1 : f[u + 1] = update_one(b, f[u], u + 1, t)
                /\ mailbox_update_loop(b, n, t) = f[n]
<1> DEFINE base == [box |-> raised(b), kaction |-> <<>>]
           one(x, u) == update_one(b, x, u, t)
           D(f) == f = [u \in 0 .. n |-> IF u = 0 THEN base ELSE one(f[u - 1], u)]
           F == CHOOSE f : IsLoop(f, b, t, n)
<1>1. mailbox_update_loop(b, n, t) = F[n] BY DEF mailbox_update_loop, IsLoop
<1>2. \E f : IsLoop(f, b, t, n) BY LoopExists
<1>3. D(F)
  <2>1. IsLoop(F, b, t, n) BY <1>2
  <2> HIDE DEF F
  <2> QED BY <2>1 DEF IsLoop
<1> HIDE DEF base, one
<1> HIDE DEF F
<1>4. F[0] = base BY <1>3
<1>5. ASSUME NEW u \in 0 .. n - 1 PROVE F[u + 1] = one(F[u], u + 1)
  <2>1. u + 1 \in 0 .. n /\ u + 1 # 0 /\ (u + 1) - 1 = u OBVIOUS
  <2> QED BY <1>3, <2>1
<1> QED BY <1>1, <1>4, <1>5 DEF base, one

LEMMA DoneExists ==
  ASSUME NEW st, NEW t
  PROVE  \A n \in Nat : \E f : IsDone(f, st, t, n)
<1> DEFINE base == [st.box EXCEPT !.last_uid = Max({@, snap.last_uid})]
           one(x, i) == do_kaction(x, st.kaction[i], t)
           D(f, n) == f = [i \in 0 .. n |-> IF i = 0 THEN base ELSE one(f[i - 1], i)]
           S == {n \in Nat : \E f : D(f, n)}
<1> HIDE DEF base, one
<1>1. 0 \in S
  <2>1. [i \in 0 .. 0 |-> base]
          = [i \in 0 .. 0 |-> IF i = 0 THEN base ELSE one([j \in 0 .. 0 |-> base][i - 1], i)]
    OBVIOUS
  <2> QED BY <2>1
<1>2. ASSUME NEW n \in Nat, n \in S PROVE n + 1 \in S
  <2>1. PICK f : D(f, n) BY <1>2
  <2> DEFINE g == [i \in 0 .. n + 1 |-> IF i <= n THEN f[i] ELSE one(f[n], n + 1)]
  <2>2. ASSUME NEW i \in 0 .. n + 1 PROVE g[i] = IF i = 0 THEN base ELSE one(g[i - 1], i)
    <3>1. CASE i <= n
      <4>1. i \in 0 .. n BY <3>1
      <4>2. f[i] = IF i = 0 THEN base ELSE one(f[i - 1], i) BY <2>1, <4>1
      <4>3. i # 0 => i - 1 \in 0 .. n + 1 /\ i - 1 <= n BY <4>1
      <4> QED BY <4>1, <4>2, <4>3
    <3>2. CASE i = n + 1 BY <3>2
    <3> QED BY <3>1, <3>2
  <2>3. D(g, n + 1)
    <3> HIDE DEF g
    <3>1. g = [i \in 0 .. n + 1 |-> g[i]] BY DEF g
    <3> QED BY <3>1, <2>2, Zenon
  <2> HIDE DEF g, D
  <2> QED BY <2>3
<1> HIDE DEF S
<1>3. \A n \in Nat : n \in S BY <1>1, <1>2, NatSet
<1> QED BY <1>3 DEF S, base, one, IsDone

\* What is left after the loop is done in the order in which it was noted.
Stepped(f, st, n, t) ==
  /\ f[0] = [st.box EXCEPT !.last_uid = Max({@, snap.last_uid})]
  /\ \A i \in 0 .. n - 1 : f[i + 1] = do_kaction(f[i], st.kaction[i + 1], t)
  /\ done(st, n, t) = f[n]

LEMMA DoneSteps ==
  ASSUME NEW st, NEW n \in Nat, NEW t
  PROVE  \E f : Stepped(f, st, n, t)
<1> DEFINE base == [st.box EXCEPT !.last_uid = Max({@, snap.last_uid})]
           one(x, i) == do_kaction(x, st.kaction[i], t)
           D(f) == f = [i \in 0 .. n |-> IF i = 0 THEN base ELSE one(f[i - 1], i)]
           F == CHOOSE f : IsDone(f, st, t, n)
<1>1. done(st, n, t) = F[n] BY DEF done, IsDone
<1>2. \E f : IsDone(f, st, t, n) BY DoneExists
<1>3. D(F)
  <2>1. IsDone(F, st, t, n) BY <1>2
  <2> HIDE DEF F
  <2> QED BY <2>1 DEF IsDone
<1> HIDE DEF base, one
<1> HIDE DEF F
<1>4. F[0] = base BY <1>3
<1>5. ASSUME NEW i \in 0 .. n - 1 PROVE F[i + 1] = one(F[i], i + 1)
  <2>1. i + 1 \in 0 .. n /\ i + 1 # 0 /\ (i + 1) - 1 = i OBVIOUS
  <2> QED BY <1>3, <2>1
<1>6. Stepped(F, st, n, t) BY <1>1, <1>4, <1>5 DEF base, one, Stepped
<1> QED BY <1>6

-----------------------------------------------------------------------------
\* mailbox_update_loop

Action == {"RENUMBER", "COPYBACK", "EXPUNGE"} \X Nat

\* What justifies the entry a of kaction: b is the master as far as it has been changed.
Noted(m, b, a, u) ==
  /\ 1 <= a[2] /\ a[2] <= u
  /\ a[1] = "RENUMBER" =>
       /\ a[2] \in live(m) /\ a[2] \in live(b)
       /\ ~(a[2] \in DOMAIN snap.rec /\ snap.rec[a[2]].guid = m.rec[a[2]].guid)
  /\ a[1] # "RENUMBER" =>
       /\ a[2] \in live(snap) /\ a[2] <= b.last_uid
       /\ ~(a[2] \in DOMAIN b.rec /\ b.rec[a[2]].guid = snap.rec[a[2]].guid)

\* The master was m before the loop; the UIDs up to u are done.
LoopInv(m, st, u) ==
  /\ DOMAIN st = {"box", "kaction"}
  /\ IsMailbox(st.box) /\ Grows(m, st.box) /\ DOMAIN m.rec \subseteq DOMAIN st.box.rec
  /\ \A v \in DOMAIN m.rec :
       \/ st.box.rec[v].expunged <=> m.rec[v].expunged
       \/ /\ v <= u /\ v \in DOMAIN snap.rec
          /\ snap.rec[v].expunged /\ snap.rec[v].guid = m.rec[v].guid
  /\ \A v \in DOMAIN st.box.rec \ DOMAIN m.rec :
       /\ v <= u /\ v \in live(snap) /\ v \in live(st.box)
       /\ st.box.rec[v].guid = snap.rec[v].guid
  /\ st.kaction \in Seq(Action)
  /\ \A i \in 1 .. Len(st.kaction) : Noted(m, st.box, st.kaction[i], u)
  /\ \A i, j \in 1 .. Len(st.kaction) : st.kaction[i] = st.kaction[j] => i = j

Has(st, name, u) == \E i \in 1 .. Len(st.kaction) : st.kaction[i] = <<name, u>>

LEMMA LaterStep ==
  ASSUME NEW m, NEW st, NEW u \in Nat, LoopInv(m, st, u),
         NEW name \in {"RENUMBER", "COPYBACK", "EXPUNGE"},
         Noted(m, st.box, <<name, u>>, u), ~Has(st, name, u)
  PROVE  LET q == later(st, name, u)
         IN  /\ LoopInv(m, q, u) /\ q.box = st.box
             /\ \A other : other # name => (Has(q, other, u) <=> Has(st, other, u))
<1> DEFINE q == later(st, name, u)
           k == st.kaction
           a == <<name, u>>
<1>1. DOMAIN q = {"box", "kaction"} /\ q.box = st.box /\ q.kaction = Append(k, a)
  BY DEF later, LoopInv
<1>2. k \in Seq(Action) /\ a \in Action BY DEF LoopInv, Action
<1>3. /\ Append(k, a) \in Seq(Action)
      /\ Len(Append(k, a)) = Len(k) + 1 /\ Len(k) \in Nat
      /\ \A i \in 1 .. Len(k) : Append(k, a)[i] = k[i]
      /\ Append(k, a)[Len(k) + 1] = a
  BY <1>2
<1> HIDE DEF q
<1>4. \A i \in 1 .. Len(q.kaction) : i \in 1 .. Len(k) \/ i = Len(k) + 1 BY <1>1, <1>3
<1>5. \A i \in 1 .. Len(q.kaction) : Noted(m, q.box, q.kaction[i], u)
  BY <1>1, <1>3, <1>4 DEF LoopInv
<1>6. \A i \in 1 .. Len(k) : q.kaction[i] = k[i] /\ k[i] # a BY <1>1, <1>3 DEF Has
<1>7. \A i, j \in 1 .. Len(q.kaction) : q.kaction[i] = q.kaction[j] => i = j
  BY <1>1, <1>3, <1>4, <1>6 DEF LoopInv
<1>8. LoopInv(m, q, u)
  <2> HIDE DEF a, k
  <2> QED BY <1>1, <1>3, <1>5, <1>7 DEF LoopInv
<1>9. ASSUME NEW other, other # name PROVE Has(q, other, u) <=> Has(st, other, u)
  <2>1. a # <<other, u>> BY <1>9
  <2>2. \A i \in 1 .. Len(k) : i \in 1 .. Len(q.kaction) BY <1>1, <1>3
  <2> QED BY <1>1, <1>3, <1>4, <1>6, <2>1, <2>2 DEF Has
<1> QED BY <1>1, <1>8, <1>9 DEF q

\* Another box, with the same notes
LEMMA BoxStep ==
  ASSUME NEW m, IsMailbox(m), IsMailbox(snap), NEW st, NEW u \in Nat, LoopInv(m, st, u),
         NEW c, IsMailbox(c), Grows(st.box, c), DOMAIN st.box.rec \subseteq DOMAIN c.rec,
         \A v \in DOMAIN st.box.rec \ {u} : c.rec[v] = st.box.rec[v],
         \A v \in DOMAIN c.rec \ DOMAIN st.box.rec : v = u,
         u \in DOMAIN c.rec,
         u \in DOMAIN m.rec =>
           \/ c.rec[u].expunged <=> m.rec[u].expunged
           \/ u \in DOMAIN snap.rec /\ snap.rec[u].expunged /\ snap.rec[u].guid = m.rec[u].guid,
         u \notin DOMAIN m.rec =>
           u \in live(snap) /\ u \in live(c) /\ c.rec[u].guid = snap.rec[u].guid,
         ~Has(st, "RENUMBER", u)
  PROVE  LoopInv(m, [st EXCEPT !.box = c], u)
<1> DEFINE q == [st EXCEPT !.box = c]
<1>1. DOMAIN q = {"box", "kaction"} /\ q.box = c /\ q.kaction = st.kaction BY DEF LoopInv
<1> HIDE DEF q
<1>2. Grows(m, c) BY GrowsTrans DEF LoopInv
<1>3. DOMAIN m.rec \subseteq DOMAIN c.rec BY DEF LoopInv
<1>4. ASSUME NEW v \in DOMAIN m.rec
      PROVE  \/ c.rec[v].expunged <=> m.rec[v].expunged
             \/ /\ v <= u /\ v \in DOMAIN snap.rec
                /\ snap.rec[v].expunged /\ snap.rec[v].guid = m.rec[v].guid
  <2>1. CASE v = u BY <2>1
  <2>2. CASE v # u BY <2>2 DEF LoopInv
  <2> QED BY <2>1, <2>2
<1>5. ASSUME NEW v \in DOMAIN c.rec \ DOMAIN m.rec
      PROVE  /\ v <= u /\ v \in live(snap) /\ v \in live(c)
             /\ c.rec[v].guid = snap.rec[v].guid
  <2>1. CASE v = u BY <2>1
  <2>2. CASE v # u BY <2>2 DEF LoopInv, live
  <2> QED BY <2>1, <2>2
<1>6. ASSUME NEW i \in 1 .. Len(st.kaction) PROVE Noted(m, c, st.kaction[i], u)
  <2> DEFINE a == st.kaction[i]
  <2>1. Noted(m, st.box, a, u) BY DEF LoopInv
  <2>2. a \in Action /\ a = <<a[1], a[2]>> /\ a[2] \in Nat BY DEF LoopInv, Action
  <2> HIDE DEF a
  <2> SUFFICES Noted(m, c, a, u) BY DEF a
  <2>3. CASE a[1] = "RENUMBER"
    <3>1. a[2] # u BY <2>2, <2>3 DEF Has, a
    <3>2. a[2] \in live(st.box) BY <2>1, <2>3 DEF Noted
    <3>3. a[2] \in live(c) BY <3>1, <3>2 DEF live
    <3> QED BY <2>1, <2>3, <3>3 DEF Noted
  <2>4. CASE a[1] # "RENUMBER"
    <3>1. a[2] <= st.box.last_uid /\ st.box.last_uid <= c.last_uid BY <2>1, <2>4 DEF Noted, Grows
    <3>2. a[2] <= c.last_uid BY <3>1, <2>2, MailboxFields DEF LoopInv
    <3>3. ~(a[2] \in DOMAIN c.rec /\ c.rec[a[2]].guid = snap.rec[a[2]].guid)
      BY <2>1, <2>4, <3>1 DEF Noted, Grows
    <3> QED BY <2>1, <2>4, <3>2, <3>3 DEF Noted
  <2> QED BY <2>3, <2>4
<1>7. st.kaction \in Seq(Action)
      /\ \A i, j \in 1 .. Len(st.kaction) : st.kaction[i] = st.kaction[j] => i = j
  BY DEF LoopInv
<1> QED BY <1>1, <1>2, <1>3, <1>4, <1>5, <1>6, <1>7 DEF LoopInv, q

LEMMA RenumberStep ==
  ASSUME NEW m, IsMailbox(m), IsMailbox(snap), NEW st, NEW u \in Nat, LoopInv(m, st, u),
         u \in DOMAIN m.rec, st.box.rec[u].expunged <=> m.rec[u].expunged,
         ~(u \in DOMAIN snap.rec /\ snap.rec[u].guid = m.rec[u].guid),
         ~Has(st, "RENUMBER", u)
  PROVE  LET q == renumber_one_record(st, u, m.rec[u])
         IN  /\ LoopInv(m, q, u) /\ q.box = st.box
             /\ \A other : other # "RENUMBER" => (Has(q, other, u) <=> Has(st, other, u))
<1>1. CASE m.rec[u].expunged BY <1>1 DEF renumber_one_record
<1>2. CASE ~m.rec[u].expunged
  <2>1. u \in live(m) /\ u \in live(st.box) BY <1>2 DEF live, LoopInv
  <2>2. 1 <= u BY MailboxFields
  <2>3. Noted(m, st.box, <<"RENUMBER", u>>, u) BY <2>1, <2>2 DEF Noted
  <2>4. renumber_one_record(st, u, m.rec[u]) = later(st, "RENUMBER", u)
    BY <1>2 DEF renumber_one_record
  <2> DEFINE q == later(st, "RENUMBER", u)
  <2>5. /\ LoopInv(m, q, u) /\ q.box = st.box
        /\ \A other : other # "RENUMBER" => (Has(q, other, u) <=> Has(st, other, u))
    BY <2>3, LaterStep
  <2> HIDE DEF q
  <2> QED BY <2>4, <2>5, Zenon DEF q
<1> QED BY <1>1, <1>2

LEMMA CopybackStep ==
  ASSUME NEW m, IsMailbox(m), IsMailbox(snap), NEW st, NEW u \in Nat, LoopInv(m, st, u),
         NEW t \in Nat, u \in DOMAIN snap.rec,
         ~(u \in DOMAIN st.box.rec /\ st.box.rec[u].guid = snap.rec[u].guid),
         \A name : ~Has(st, name, u) \/ (name = "RENUMBER" /\ u \in DOMAIN m.rec)
  PROVE  LET q == copyback_one_record(st, u, snap.rec[u], t)
         IN  /\ LoopInv(m, q, u)
             /\ u \in DOMAIN m.rec => q.box = st.box
             /\ Has(q, "RENUMBER", u) <=> Has(st, "RENUMBER", u)
<1> DEFINE rp == snap.rec[u]
<1>0. rp \in Record /\ rp.expunged \in BOOLEAN /\ 1 <= u BY MailboxFields
<1>b. IsMailbox(st.box) /\ st.box.last_uid \in Nat BY MailboxFields DEF LoopInv
<1>1. CASE rp.expunged BY <1>1 DEF copyback_one_record
<1>2. CASE ~rp.expunged /\ u > st.box.last_uid
  <2> DEFINE c == append(st.box, u, rp, t)
  <2>1. copyback_one_record(st, u, rp, t) = [st EXCEPT !.box = c]
    BY <1>2 DEF copyback_one_record
  <2>2. /\ IsMailbox(c) /\ c.last_uid = u /\ DOMAIN c.rec = DOMAIN st.box.rec \cup {u}
        /\ \A v \in DOMAIN st.box.rec : c.rec[v] = st.box.rec[v]
        /\ c.rec[u].guid = rp.guid /\ c.rec[u].expunged = rp.expunged
        /\ u \notin DOMAIN st.box.rec
    BY <1>0, <1>b, <1>2, Appended
  <2>3. Grows(st.box, c) BY <1>0, <1>b, <1>2, AppendGrows
  <2>4. u \notin DOMAIN m.rec BY <2>2 DEF LoopInv
  <2>5. u \in live(snap) /\ u \in live(c) BY <1>2, <2>2 DEF live
  <2>6. ~Has(st, "RENUMBER", u) BY <2>4
  <2> HIDE DEF c
  <2>7. LoopInv(m, [st EXCEPT !.box = c], u) BY <2>2, <2>3, <2>4, <2>5, <2>6, BoxStep
  <2>8. [st EXCEPT !.box = c].kaction = st.kaction BY DEF LoopInv
  <2> QED BY <2>1, <2>4, <2>7, <2>8 DEF Has
<1>3. CASE ~rp.expunged /\ ~(u > st.box.last_uid)
  <2> DEFINE name == IF stale(st.box, rp) THEN "EXPUNGE" ELSE "COPYBACK"
  <2>1. copyback_one_record(st, u, rp, t) = later(st, name, u)
    BY <1>3 DEF copyback_one_record
  <2>2. name \in {"RENUMBER", "COPYBACK", "EXPUNGE"} /\ name # "RENUMBER" OBVIOUS
  <2> HIDE DEF name
  <2>3. u \in live(snap) /\ u <= st.box.last_uid BY <1>3, <1>b DEF live
  <2>4. Noted(m, st.box, <<name, u>>, u) BY <1>0, <2>2, <2>3 DEF Noted
  <2>5. ~Has(st, name, u) BY <2>2
  <2> DEFINE q == later(st, name, u)
  <2>6. /\ LoopInv(m, q, u) /\ q.box = st.box
        /\ \A other : other # name => (Has(q, other, u) <=> Has(st, other, u))
    BY <2>2, <2>4, <2>5, LaterStep
  <2>7. Has(q, "RENUMBER", u) <=> Has(st, "RENUMBER", u) BY <2>2, <2>6
  <2> HIDE DEF q
  <2> QED BY <2>1, <2>6, <2>7, Zenon DEF q
<1> QED BY <1>0, <1>1, <1>2, <1>3

LEMMA RewriteStep ==
  ASSUME NEW m, IsMailbox(m), IsMailbox(snap), NEW st, NEW u \in Nat, LoopInv(m, st, u),
         NEW t \in Nat, NEW r \in Record, u \in DOMAIN m.rec, r.guid = m.rec[u].guid,
         st.box.rec[u].expunged <=> m.rec[u].expunged,
         m.rec[u].expunged => r.expunged,
         \/ r.expunged <=> m.rec[u].expunged
         \/ u \in DOMAIN snap.rec /\ snap.rec[u].expunged /\ snap.rec[u].guid = m.rec[u].guid,
         ~Has(st, "RENUMBER", u)
  PROVE  LoopInv(m, [st EXCEPT !.box = rewrite(@, u, r, t)], u)
<1> DEFINE c == rewrite(st.box, u, r, t)
<1>1. IsMailbox(st.box) /\ u \in DOMAIN st.box.rec /\ st.box.rec[u].guid = m.rec[u].guid
  BY MailboxFields DEF LoopInv, Grows
<1>2. /\ IsMailbox(c) /\ DOMAIN c.rec = DOMAIN st.box.rec
      /\ \A v \in DOMAIN st.box.rec \ {u} : c.rec[v] = st.box.rec[v]
      /\ c.rec[u].guid = r.guid /\ c.rec[u].expunged = r.expunged
  BY <1>1, Rewritten
<1>3. Grows(st.box, c) BY <1>1, RewriteGrows
<1>4. [st EXCEPT !.box = rewrite(@, u, r, t)] = [st EXCEPT !.box = c] OBVIOUS
<1> HIDE DEF c
<1>5. \/ c.rec[u].expunged <=> m.rec[u].expunged
      \/ u \in DOMAIN snap.rec /\ snap.rec[u].expunged /\ snap.rec[u].guid = m.rec[u].guid
  BY <1>2, Zenon
<1>6. LoopInv(m, [st EXCEPT !.box = c], u) BY <1>1, <1>2, <1>3, <1>5, BoxStep
<1> QED BY <1>4, <1>6

LEMMA MergedRecord ==
  ASSUME NEW mp \in Record, NEW rp \in Record
  PROVE  LET r == merged(mp, rp)
         IN  /\ r \in Record /\ r.guid = mp.guid
             /\ mp.expunged => r.expunged
             /\ (r.expunged <=> mp.expunged) \/ rp.expunged
<1>0. mp.expunged \in BOOLEAN /\ rp.expunged \in BOOLEAN /\ rp.flags \in Flags
  BY RecordFields
<1>1. CASE mp.expunged \/ rp.expunged
  <2>1. merged(mp, rp) = [mp EXCEPT !.expunged = TRUE] BY <1>1 DEF merged
  <2> QED BY <1>1, <2>1, RecordExpunge
<1>2. CASE ~(mp.expunged \/ rp.expunged)
  <2>1. merged(mp, rp) \in {mp, [mp EXCEPT !.flags = rp.flags]} BY <1>2 DEF merged
  <2> QED BY <1>0, <1>2, <2>1, RecordFlags
<1> QED BY <1>1, <1>2

\* One turn of the loop
LEMMA UpdateOneStep ==
  ASSUME NEW m, IsMailbox(m), IsMailbox(snap), NEW st, NEW w \in Nat, LoopInv(m, st, w),
         NEW t \in Nat
  PROVE  LoopInv(m, update_one(m, st, w + 1, t), w + 1)
<1> DEFINE u == w + 1
<1>0. u \in Nat /\ u > w BY DEF u
<1>1. LoopInv(m, st, u)
  <2>1. ASSUME NEW i \in 1 .. Len(st.kaction) PROVE Noted(m, st.box, st.kaction[i], u)
    <3>1. Noted(m, st.box, st.kaction[i], w) /\ st.kaction[i] \in Action BY DEF LoopInv
    <3>2. st.kaction[i][2] \in Nat BY <3>1 DEF Action
    <3> QED BY <3>1, <3>2 DEF Noted
  <2>2. \A v \in DOMAIN m.rec : v <= w => v <= u BY MailboxFields
  <2>3. \A v \in DOMAIN st.box.rec : v <= w => v <= u BY MailboxFields DEF LoopInv
  <2> HIDE DEF u
  <2> QED BY <2>1, <2>2, <2>3 DEF LoopInv
<1>2. \A name : ~Has(st, name, u)
  <2> SUFFICES ASSUME NEW i \in 1 .. Len(st.kaction), NEW name, st.kaction[i] = <<name, u>>
               PROVE  FALSE
    BY DEF Has
  <2>1. Noted(m, st.box, st.kaction[i], w) BY DEF LoopInv
  <2>2. st.kaction[i][2] = u OBVIOUS
  <2> QED BY <1>0, <2>1, <2>2 DEF Noted
<1>3. u \in DOMAIN m.rec => (st.box.rec[u].expunged <=> m.rec[u].expunged)
  BY <1>0 DEF LoopInv
<1>4. u \notin DOMAIN m.rec => u \notin DOMAIN st.box.rec BY <1>0 DEF LoopInv
<1>5. u \in DOMAIN m.rec => u \in DOMAIN st.box.rec /\ st.box.rec[u].guid = m.rec[u].guid
  BY MailboxFields DEF LoopInv, Grows
<1> HIDE DEF u
<1> SUFFICES LoopInv(m, update_one(m, st, u, t), u) BY DEF u
<1> DEFINE mp == m.rec[u]
           rp == snap.rec[u]
<1>6. CASE u \in DOMAIN m.rec \cap DOMAIN snap.rec
  <2>1. mp \in Record /\ rp \in Record /\ mp.guid \in Nat /\ rp.guid \in Nat
    BY <1>6, MailboxFields, ReplicaAssumption
  <2>2. update_one(m, st, u, t) = compare_one_record(st, u, mp, rp, t) BY <1>6 DEF update_one
  <2>3. CASE (mp.expunged /\ rp.expunged) \/ mp = rp
    BY <1>1, <2>2, <2>3 DEF compare_one_record
  <2>4. CASE ~((mp.expunged /\ rp.expunged) \/ mp = rp) /\ mp.guid < rp.guid
    <3> DEFINE q == renumber_one_record(st, u, mp)
    <3>1. compare_one_record(st, u, mp, rp, t) = copyback_one_record(q, u, rp, t)
      BY <2>1, <2>4 DEF compare_one_record
    <3>2. LoopInv(m, q, u) /\ q.box = st.box
          /\ \A other : other # "RENUMBER" => (Has(q, other, u) <=> Has(st, other, u))
      BY <1>0, <1>1, <1>2, <1>3, <1>6, <2>1, <2>4, RenumberStep
    <3> HIDE DEF q
    <3>3. \A name : ~Has(q, name, u) \/ (name = "RENUMBER" /\ u \in DOMAIN m.rec)
      BY <1>2, <1>6, <3>2
    <3>4. ~(u \in DOMAIN q.box.rec /\ q.box.rec[u].guid = snap.rec[u].guid)
      BY <1>5, <1>6, <2>1, <2>4, <3>2
    <3>5. LoopInv(m, copyback_one_record(q, u, rp, t), u)
      BY <1>0, <1>6, <3>2, <3>3, <3>4, CopybackStep
    <3> QED BY <2>2, <3>1, <3>5
  <2>5. CASE ~((mp.expunged /\ rp.expunged) \/ mp = rp) /\ mp.guid > rp.guid
    <3> DEFINE q == copyback_one_record(st, u, rp, t)
    <3>1. compare_one_record(st, u, mp, rp, t) = renumber_one_record(q, u, mp)
      BY <2>1, <2>5 DEF compare_one_record
    <3>2. ~(u \in DOMAIN st.box.rec /\ st.box.rec[u].guid = snap.rec[u].guid)
      BY <1>5, <1>6, <2>1, <2>5
    <3>3. LoopInv(m, q, u) /\ q.box = st.box /\ ~Has(q, "RENUMBER", u)
      BY <1>0, <1>1, <1>2, <1>6, <3>2, CopybackStep
    <3> HIDE DEF q
    <3>4. q.box.rec[u].expunged <=> mp.expunged BY <1>3, <1>6, <3>3
    <3>5. LoopInv(m, renumber_one_record(q, u, mp), u)
      BY <1>0, <1>6, <2>1, <2>5, <3>3, <3>4, RenumberStep
    <3> QED BY <2>2, <3>1, <3>5
  <2>6. CASE ~((mp.expunged /\ rp.expunged) \/ mp = rp) /\ mp.guid = rp.guid
    <3> DEFINE r == merged(mp, rp)
    <3>1. compare_one_record(st, u, mp, rp, t) = [st EXCEPT !.box = rewrite(@, u, r, t)]
      BY <2>1, <2>6 DEF compare_one_record
    <3>2. /\ r \in Record /\ r.guid = mp.guid /\ (mp.expunged => r.expunged)
          /\ (r.expunged <=> mp.expunged) \/ rp.expunged
      BY <2>1, MergedRecord
    <3> HIDE DEF r
    <3>3. LoopInv(m, [st EXCEPT !.box = rewrite(@, u, r, t)], u)
      BY <1>0, <1>1, <1>2, <1>3, <1>6, <2>6, <3>2, RewriteStep
    <3> QED BY <2>2, <3>1, <3>3
  <2>7. mp.guid < rp.guid \/ mp.guid > rp.guid \/ mp.guid = rp.guid BY <2>1
  <2> QED BY <2>3, <2>4, <2>5, <2>6, <2>7
<1>7. CASE u \in DOMAIN m.rec \ DOMAIN snap.rec
  <2>1. mp \in Record /\ mp.expunged \in BOOLEAN BY <1>7, MailboxFields
  <2>2. update_one(m, st, u, t) = only_on_master(st, u, mp, t) BY <1>7 DEF update_one
  <2>3. only_on_master(st, u, mp, t) \in {renumber_one_record(st, u, mp), st,
                                           [st EXCEPT !.box = rewrite(@, u, mp, t)]}
    BY DEF only_on_master
  <2>4. LoopInv(m, renumber_one_record(st, u, mp), u)
    BY <1>0, <1>1, <1>2, <1>3, <1>7, RenumberStep
  <2>5. LoopInv(m, [st EXCEPT !.box = rewrite(@, u, mp, t)], u)
    BY <1>0, <1>1, <1>2, <1>3, <1>7, <2>1, RewriteStep
  <2> QED BY <1>1, <2>2, <2>3, <2>4, <2>5
<1>8. CASE u \in DOMAIN snap.rec \ DOMAIN m.rec
  <2>1. update_one(m, st, u, t) = copyback_one_record(st, u, rp, t) BY <1>8 DEF update_one
  <2>2. \A name : ~Has(st, name, u) \/ (name = "RENUMBER" /\ u \in DOMAIN m.rec) BY <1>2
  <2>3. ~(u \in DOMAIN st.box.rec /\ st.box.rec[u].guid = snap.rec[u].guid) BY <1>4, <1>8
  <2> QED BY <1>0, <1>1, <1>8, <2>1, <2>2, <2>3, CopybackStep
<1>9. CASE u \notin DOMAIN m.rec \cup DOMAIN snap.rec
  BY <1>1, <1>9 DEF update_one
<1> QED BY <1>6, <1>7, <1>8, <1>9

LEMMA RaisedBox ==
  ASSUME NEW b, IsMailbox(b), IsMailbox(snap)
  PROVE  IsMailbox(raised(b)) /\ raised(b).rec = b.rec /\ raised(b).last_uid = b.last_uid
<1>1. snap.highestmodseq \in Nat BY MailboxFields
<1>2. ASSUME NEW n \in Nat, n > b.highestmodseq
      PROVE  LET c == [b EXCEPT !.highestmodseq = n]
             IN  IsMailbox(c) /\ c.rec = b.rec /\ c.last_uid = b.last_uid
  <2> DEFINE c == [b EXCEPT !.highestmodseq = n]
  <2>1. /\ DOMAIN c = DOMAIN b /\ c.rec = b.rec /\ c.last_uid = b.last_uid
        /\ c.highestmodseq = n /\ c.deletedmodseq = b.deletedmodseq
    BY DEF IsMailbox
  <2> HIDE DEF c
  <2>2. IsMailbox(c) BY <1>2, <2>1, MailboxFields DEF IsMailbox
  <2> QED BY <2>1, <2>2 DEF c
<1>3. CASE b.highestmodseq < snap.highestmodseq
  <2>1. snap.highestmodseq + 1 \in Nat /\ snap.highestmodseq + 1 > b.highestmodseq
    BY <1>1, <1>3, MailboxFields
  <2> QED BY <1>2, <1>3, <2>1 DEF raised
<1>4. CASE ~(b.highestmodseq < snap.highestmodseq) BY <1>4 DEF raised
<1> QED BY <1>3, <1>4

LEMMA LoopResult ==
  ASSUME NEW m, IsMailbox(m), IsMailbox(snap), NEW n \in Nat, NEW t \in Nat
  PROVE  LoopInv(m, mailbox_update_loop(m, n, t), n)
<1>2. PICK f : /\ f[0] = [box |-> raised(m), kaction |-> <<>>]
               /\ \A u \in 0 .. n - 1 : f[u + 1] = update_one(m, f[u], u + 1, t)
               /\ mailbox_update_loop(m, n, t) = f[n]
  BY LoopSteps
<1> DEFINE S == {u \in Nat : u <= n => LoopInv(m, f[u], u)}
<1>3. LoopInv(m, f[0], 0)
  <2>1. f[0].box = raised(m) /\ f[0].kaction = <<>> /\ DOMAIN f[0] = {"box", "kaction"}
    BY <1>2
  <2>2. <<>> \in Seq(Action) /\ Len(<<>>) = 0 /\ 1 .. 0 = {} OBVIOUS
  <2>3. Grows(m, raised(m)) BY RaisedBox, GrowsSame, MailboxFields DEF Grows
  <2> QED BY <2>1, <2>2, <2>3, RaisedBox DEF LoopInv
<1>4. ASSUME NEW u \in Nat, u \in S PROVE u + 1 \in S
  <2> SUFFICES ASSUME u + 1 <= n PROVE LoopInv(m, f[u + 1], u + 1) OBVIOUS
  <2>1. u <= n /\ u \in 0 .. n - 1 OBVIOUS
  <2>2. LoopInv(m, f[u], u) BY <1>4, <2>1
  <2>3. f[u + 1] = update_one(m, f[u], u + 1, t) BY <1>2, <2>1
  <2> QED BY <2>2, <2>3, UpdateOneStep
<1>5. 0 \in S BY <1>3
<1> HIDE DEF S
<1>6. n \in S BY <1>4, <1>5, NatSet
<1> QED BY <1>2, <1>6 DEF S

-----------------------------------------------------------------------------
\* What is left after the loop.  b0 is the master after the loop.

\* The entries of k are justified, and each is there once.
Notes(m, b0, k) ==
  /\ k \in Seq(Action)
  /\ \E n \in Nat : \A j \in 1 .. Len(k) : Noted(m, b0, k[j], n)
  /\ \A i, j \in 1 .. Len(k) : k[i] = k[j] => i = j

DoneInv(b0, k, b, i) ==
  /\ IsMailbox(b) /\ Grows(b0, b) /\ DOMAIN b0.rec \subseteq DOMAIN b.rec
  /\ guids(b0) \subseteq guids(b) /\ guids(b) \subseteq guids(b0) \cup guids(snap)
  /\ \A v \in DOMAIN b.rec : b.rec[v].expunged => v \in DOMAIN b0.rec
  /\ \A j \in 1 .. Len(k) : k[j][1] = "RENUMBER" /\ j > i => k[j][2] \in live(b)
  /\ \A j \in 1 .. Len(k) : k[j][1] = "COPYBACK" /\ j <= i => snap.rec[k[j][2]].guid \in guids(b)

\* The UIDs that the replica shall expunge
ToExpunge(k, v) == \E j \in 1 .. Len(k) : k[j] \in {<<"COPYBACK", v>>, <<"EXPUNGE", v>>}

OnceInv(k, b, i) ==
  /\ Cross(b, b)
  /\ \A j \in 1 .. Len(k) : k[j][1] = "COPYBACK" /\ j > i => snap.rec[k[j][2]].guid \notin guids(b)
  /\ \A w \in live(b), v \in live(snap) :
       b.rec[w].guid = snap.rec[v].guid => w = v \/ ToExpunge(k, v)

LEMMA GuidsOf ==
  ASSUME NEW b, NEW u \in live(b)
  PROVE  u \in DOMAIN b.rec /\ ~b.rec[u].expunged /\ b.rec[u].guid \in guids(b)
BY DEF guids, live

LEMMA AppendGuids ==
  ASSUME NEW b, IsMailbox(b), NEW r \in Record, ~r.expunged, NEW t \in Nat
  PROVE  LET c == append(b, b.last_uid + 1, r, t)
         IN  /\ live(c) = live(b) \cup {b.last_uid + 1}
             /\ guids(c) = guids(b) \cup {r.guid}
<1> DEFINE n == b.last_uid + 1
           c == append(b, n, r, t)
<1>1. n \in Nat /\ n > b.last_uid BY MailboxFields
<1>2. /\ DOMAIN c.rec = DOMAIN b.rec \cup {n}
      /\ \A v \in DOMAIN b.rec : c.rec[v] = b.rec[v]
      /\ c.rec[n].guid = r.guid /\ c.rec[n].expunged = r.expunged /\ n \notin DOMAIN b.rec
  BY <1>1, Appended
<1> HIDE DEF c, n
<1>3. live(c) = live(b) \cup {n} BY <1>2 DEF live
<1>4. \A v \in live(b) : c.rec[v] = b.rec[v] BY <1>2 DEF live
<1>5. guids(c) = guids(b) \cup {r.guid} BY <1>2, <1>3, <1>4 DEF guids
<1> QED BY <1>3, <1>5 DEF c, n

LEMMA CopyRemoteStep ==
  ASSUME NEW m, IsMailbox(m), IsMailbox(snap), NEW b0, IsMailbox(b0), NEW k, Notes(m, b0, k),
         NEW b, NEW i \in Nat, i + 1 \in 1 .. Len(k), DoneInv(b0, k, b, i), NEW t \in Nat,
         k[i + 1][1] = "COPYBACK"
  PROVE  /\ DoneInv(b0, k, copy_remote(b, k[i + 1][2], t), i + 1)
         /\ Cross(snap, snap) /\ OnceInv(k, b, i)
              => OnceInv(k, copy_remote(b, k[i + 1][2], t), i + 1)
<1> DEFINE u == k[i + 1][2]
           n == b.last_uid + 1
           r == snap.rec[u]
           c == copy_remote(b, u, t)
<1>0. Len(k) \in Nat /\ k[i + 1] \in Action BY DEF Notes
<1>1. u \in live(snap) /\ k[i + 1] = <<"COPYBACK", u>> BY <1>0 DEF Notes, Noted, Action
<1>2. r \in Record /\ ~r.expunged /\ r.guid \in guids(snap) BY <1>1, MailboxFields, GuidsOf
<1>3. IsMailbox(b) /\ n \in Nat /\ n > b.last_uid BY MailboxFields DEF DoneInv
<1>4. c = append(b, n, r, t) BY DEF copy_remote
<1>5. /\ IsMailbox(c) /\ DOMAIN c.rec = DOMAIN b.rec \cup {n}
      /\ \A v \in DOMAIN b.rec : c.rec[v] = b.rec[v]
      /\ c.rec[n].guid = r.guid /\ c.rec[n].expunged = r.expunged /\ n \notin DOMAIN b.rec
  BY <1>2, <1>3, <1>4, Appended
<1>6. live(c) = live(b) \cup {n} /\ guids(c) = guids(b) \cup {r.guid}
  <2> HIDE DEF c
  <2> QED BY <1>2, <1>3, <1>4, AppendGuids
<1>7. Grows(b0, c) BY <1>2, <1>3, <1>4, <1>5, AppendGrows, GrowsTrans DEF DoneInv
<1> HIDE DEF c, n
<1>8. ASSUME NEW j \in 1 .. Len(k)
      PROVE  (j > i + 1 => j > i) /\ (j <= i + 1 => j <= i \/ j = i + 1)
  BY <1>0
<1>9. DoneInv(b0, k, c, i + 1)
  <2>1. \A v \in DOMAIN c.rec : c.rec[v].expunged => v \in DOMAIN b0.rec
    BY <1>2, <1>5 DEF DoneInv
  <2>2. \A j \in 1 .. Len(k) : k[j][1] = "RENUMBER" /\ j > i + 1 => k[j][2] \in live(c)
    BY <1>6, <1>8 DEF DoneInv
  <2>3. \A j \in 1 .. Len(k) :
          k[j][1] = "COPYBACK" /\ j <= i + 1 => snap.rec[k[j][2]].guid \in guids(c)
    BY <1>6, <1>8 DEF DoneInv
  <2>4. guids(b0) \subseteq guids(c) /\ guids(c) \subseteq guids(b0) \cup guids(snap)
    BY <1>2, <1>6 DEF DoneInv
  <2>5. DOMAIN b0.rec \subseteq DOMAIN c.rec BY <1>5 DEF DoneInv
  <2> QED BY <1>5, <1>7, <2>1, <2>2, <2>3, <2>4, <2>5 DEF DoneInv
<1>10. ASSUME Cross(snap, snap), OnceInv(k, b, i) PROVE OnceInv(k, c, i + 1)
  <2>1. r.guid \notin guids(b) BY <1>0, <1>10 DEF OnceInv
  <2>2. \A v \in live(b) : c.rec[v] = b.rec[v] /\ b.rec[v].guid # r.guid
    BY <1>5, <2>1, GuidsOf
  <2>3. Cross(c, c) BY <1>5, <1>6, <1>10, <2>2 DEF Cross, OnceInv
  <2>4. ASSUME NEW j \in 1 .. Len(k), k[j][1] = "COPYBACK", j > i + 1
        PROVE  snap.rec[k[j][2]].guid \notin guids(c)
    <3>1. snap.rec[k[j][2]].guid \notin guids(b) BY <1>8, <1>10, <2>4 DEF OnceInv
    <3>2. k[j] \in Action /\ k[j][2] \in live(snap) BY <2>4 DEF Notes, Noted
    <3>3. k[j] = <<"COPYBACK", k[j][2]>> BY <2>4, <3>2 DEF Action
    <3>4. k[j][2] # u BY <1>0, <1>1, <2>4, <3>3 DEF Notes
    <3>5. snap.rec[k[j][2]].guid # r.guid BY <1>1, <1>10, <3>2, <3>4 DEF Cross
    <3> QED BY <1>6, <3>1, <3>5
  <2>5. ASSUME NEW w \in live(c), NEW v \in live(snap), c.rec[w].guid = snap.rec[v].guid
        PROVE  w = v \/ ToExpunge(k, v)
    <3>1. CASE w \in live(b) BY <1>10, <2>2, <2>5, <3>1 DEF OnceInv
    <3>2. CASE w = n
      <4>1. v = u BY <1>1, <1>5, <1>10, <2>5, <3>2 DEF Cross
      <4> QED BY <1>1, <4>1 DEF ToExpunge
    <3> QED BY <1>6, <3>1, <3>2
  <2> QED BY <2>3, <2>4, <2>5 DEF OnceInv
<1> QED BY <1>9, <1>10 DEF c

LEMMA CopyLocalBox ==
  ASSUME NEW b, IsMailbox(b), NEW u \in live(b), NEW t \in Nat
  PROVE  LET c == copy_local(b, u, t)
             n == b.last_uid + 1
         IN  /\ IsMailbox(c) /\ Grows(b, c) /\ DOMAIN c.rec = DOMAIN b.rec \cup {n}
             /\ live(c) = (live(b) \ {u}) \cup {n} /\ n \notin DOMAIN b.rec
             /\ \A v \in DOMAIN b.rec : c.rec[v].guid = b.rec[v].guid
             /\ c.rec[n].guid = b.rec[u].guid
             /\ guids(c) = guids(b)
<1> DEFINE n == b.last_uid + 1
           r == b.rec[u]
           x == [r EXCEPT !.expunged = TRUE]
           d == append(b, n, r, t)
           c == rewrite(d, u, x, t)
<1>0. u \in DOMAIN b.rec /\ r \in Record /\ ~r.expunged BY GuidsOf, MailboxFields
<1>1. n \in Nat /\ n > b.last_uid BY MailboxFields
<1>2. x \in Record /\ x.guid = r.guid /\ x.expunged BY <1>0, RecordExpunge
<1>3. /\ IsMailbox(d) /\ DOMAIN d.rec = DOMAIN b.rec \cup {n}
      /\ \A v \in DOMAIN b.rec : d.rec[v] = b.rec[v]
      /\ d.rec[n].guid = r.guid /\ d.rec[n].expunged = r.expunged /\ n \notin DOMAIN b.rec
  BY <1>0, <1>1, Appended
<1>4. Grows(b, d) BY <1>0, <1>1, AppendGrows
<1> HIDE DEF x, d
<1>5. u \in DOMAIN d.rec BY <1>0, <1>3
<1>6. /\ IsMailbox(c) /\ DOMAIN c.rec = DOMAIN d.rec
      /\ \A v \in DOMAIN d.rec \ {u} : c.rec[v] = d.rec[v]
      /\ c.rec[u].guid = x.guid /\ c.rec[u].expunged = x.expunged
  <2>1. x \in Record BY <1>2
  <2>2. IsMailbox(d) BY <1>3
  <2> QED BY <2>1, <2>2, <1>5, Rewritten
<1>7. Grows(d, c) BY <1>0, <1>2, <1>3, <1>5, RewriteGrows
<1>8. c = copy_local(b, u, t) BY DEF copy_local, local_copy, x, d
<1> HIDE DEF c, n
<1>9. Grows(b, c) BY <1>3, <1>4, <1>6, <1>7, GrowsTrans
<1>10. \A v \in DOMAIN b.rec : c.rec[v].guid = b.rec[v].guid
  BY <1>0, <1>2, <1>3, <1>6
<1>11. c.rec[n].guid = r.guid /\ ~c.rec[n].expunged BY <1>0, <1>3, <1>6
<1>12. \A v \in DOMAIN b.rec \ {u} : c.rec[v] = b.rec[v] BY <1>3, <1>6
<1>13. c.rec[u].expunged BY <1>2, <1>6, Zenon
<1>14. live(c) = (live(b) \ {u}) \cup {n} BY <1>0, <1>3, <1>6, <1>11, <1>12, <1>13 DEF live
<1>15. guids(c) = guids(b)
  <2>1. \A g : g \in guids(b) => g \in guids(c)
    <3> SUFFICES ASSUME NEW v \in live(b) PROVE b.rec[v].guid \in guids(c) BY DEF guids
    <3>1. CASE v = u BY <1>11, <1>14, <3>1 DEF guids
    <3>2. CASE v # u BY <1>10, <1>14, <3>2 DEF guids, live
    <3> QED BY <3>1, <3>2
  <2>2. \A g : g \in guids(c) => g \in guids(b)
    <3> SUFFICES ASSUME NEW v \in live(c) PROVE c.rec[v].guid \in guids(b) BY DEF guids
    <3>1. CASE v = n BY <1>11, <3>1 DEF guids
    <3>2. CASE v # n BY <1>10, <1>14, <3>2 DEF guids, live
    <3> QED BY <3>1, <3>2
  <2> QED BY <2>1, <2>2
<1> QED BY <1>3, <1>6, <1>8, <1>9, <1>10, <1>11, <1>14, <1>15 DEF n

LEMMA CopyLocalStep ==
  ASSUME NEW m, IsMailbox(m), IsMailbox(snap), NEW b0, IsMailbox(b0), Grows(m, b0),
         NEW k, Notes(m, b0, k),
         NEW b, NEW i \in Nat, i + 1 \in 1 .. Len(k), DoneInv(b0, k, b, i), NEW t \in Nat,
         k[i + 1][1] = "RENUMBER"
  PROVE  /\ DoneInv(b0, k, copy_local(b, k[i + 1][2], t), i + 1)
         /\ OnceInv(k, b, i) => OnceInv(k, copy_local(b, k[i + 1][2], t), i + 1)
<1> DEFINE u == k[i + 1][2]
           n == b.last_uid + 1
           g == b.rec[u].guid
           c == copy_local(b, u, t)
<1>0. /\ Len(k) \in Nat /\ k[i + 1] \in Action /\ u \in Nat /\ IsMailbox(b)
      /\ k[i + 1] = <<"RENUMBER", u>>
  BY DEF Notes, Action, DoneInv
<1>1. u \in live(m) /\ u \in live(b0) /\ ~(u \in DOMAIN snap.rec /\ snap.rec[u].guid = m.rec[u].guid)
  BY <1>0 DEF Notes, Noted
<1>2. u \in live(b) BY <1>0 DEF DoneInv
<1>3. /\ IsMailbox(c) /\ Grows(b, c) /\ DOMAIN c.rec = DOMAIN b.rec \cup {n}
      /\ live(c) = (live(b) \ {u}) \cup {n} /\ n \notin DOMAIN b.rec
      /\ \A v \in DOMAIN b.rec : c.rec[v].guid = b.rec[v].guid
      /\ c.rec[n].guid = g /\ guids(c) = guids(b)
  BY <1>0, <1>2, CopyLocalBox
<1> HIDE DEF c, n
<1>4. Grows(b0, c) BY <1>0, <1>3, GrowsTrans DEF DoneInv
<1>5. g = m.rec[u].guid
  <2>1. u \in DOMAIN b.rec /\ u \in DOMAIN b0.rec /\ u \in DOMAIN m.rec BY <1>1, <1>2, GuidsOf
  <2>2. b.rec[u].guid = b0.rec[u].guid BY <2>1, MailboxFields DEF DoneInv, Grows
  <2>3. b0.rec[u].guid = m.rec[u].guid BY <2>1, MailboxFields DEF Grows
  <2> QED BY <2>2, <2>3
<1>6. ASSUME NEW j \in 1 .. Len(k), j > i + 1 PROVE j > i /\ k[j] # k[i + 1]
  BY <1>0, <1>6 DEF Notes
<1>7. DoneInv(b0, k, c, i + 1)
  <2>1. \A v \in DOMAIN c.rec : c.rec[v].expunged => v \in DOMAIN b0.rec
    <3> SUFFICES ASSUME NEW v \in DOMAIN c.rec, c.rec[v].expunged PROVE v \in DOMAIN b0.rec
      OBVIOUS
    <3>1. v \notin live(c) BY DEF live
    <3>2. v \in DOMAIN b.rec /\ v \notin live(b) \ {u} BY <1>3, <3>1
    <3>3. CASE v = u BY <1>1, <3>3, GuidsOf
    <3>4. CASE v # u BY <3>2, <3>4 DEF live, DoneInv
    <3> QED BY <3>3, <3>4
  <2>2. ASSUME NEW j \in 1 .. Len(k), k[j][1] = "RENUMBER", j > i + 1 PROVE k[j][2] \in live(c)
    <3>1. k[j] = <<"RENUMBER", k[j][2]>> BY <2>2 DEF Notes, Action
    <3>2. k[j][2] # u BY <1>0, <1>6, <2>2, <3>1
    <3>3. k[j][2] \in live(b) BY <1>6, <2>2 DEF DoneInv
    <3> QED BY <1>3, <3>2, <3>3
  <2>3. ASSUME NEW j \in 1 .. Len(k), k[j][1] = "COPYBACK", j <= i + 1
        PROVE  snap.rec[k[j][2]].guid \in guids(c)
    <3>1. j <= i BY <1>0, <2>3
    <3> QED BY <1>3, <2>3, <3>1 DEF DoneInv
  <2>4. guids(b0) \subseteq guids(c) /\ guids(c) \subseteq guids(b0) \cup guids(snap)
    BY <1>3 DEF DoneInv
  <2>5. DOMAIN b0.rec \subseteq DOMAIN c.rec BY <1>3 DEF DoneInv
  <2> QED BY <1>3, <1>4, <2>1, <2>2, <2>3, <2>4, <2>5 DEF DoneInv
<1>8. ASSUME OnceInv(k, b, i) PROVE OnceInv(k, c, i + 1)
  <2>1. \A v \in live(b) \ {u} : c.rec[v].guid = b.rec[v].guid /\ b.rec[v].guid # g
    BY <1>2, <1>3, <1>8 DEF Cross, OnceInv, live
  <2>2. Cross(c, c) BY <1>3, <1>8, <2>1 DEF Cross, OnceInv
  <2>3. \A j \in 1 .. Len(k) :
          k[j][1] = "COPYBACK" /\ j > i + 1 => snap.rec[k[j][2]].guid \notin guids(c)
    BY <1>3, <1>6, <1>8 DEF OnceInv
  <2>4. ASSUME NEW w \in live(c), NEW v \in live(snap), c.rec[w].guid = snap.rec[v].guid
        PROVE  w = v \/ ToExpunge(k, v)
    <3>1. CASE w \in live(b) \ {u} BY <1>8, <2>1, <2>4, <3>1 DEF OnceInv
    <3>2. CASE w = n
      <4>1. u = v \/ ToExpunge(k, v) BY <1>2, <1>3, <1>8, <2>4, <3>2 DEF OnceInv
      <4>2. u # v BY <1>1, <1>3, <1>5, <2>4, <3>2, GuidsOf
      <4> QED BY <4>1, <4>2
    <3> QED BY <1>3, <3>1, <3>2
  <2> QED BY <2>2, <2>3, <2>4 DEF OnceInv
<1> QED BY <1>7, <1>8 DEF c

\* copy_local that fails after its copy: nothing is lost by that either.
LEMMA LocalCopyStep ==
  ASSUME NEW b0, IsMailbox(b0), NEW k, Len(k) \in Nat, NEW b, NEW i \in Nat, DoneInv(b0, k, b, i),
         NEW u \in live(b), NEW t \in Nat
  PROVE  DoneInv(b0, k, local_copy(b, u, t), i)
<1> DEFINE n == b.last_uid + 1
           r == b.rec[u]
           c == local_copy(b, u, t)
<1>1. IsMailbox(b) /\ n \in Nat /\ n > b.last_uid BY MailboxFields DEF DoneInv
<1>2. r \in Record /\ ~r.expunged /\ r.guid \in guids(b) BY <1>1, MailboxFields, GuidsOf
<1>3. c = append(b, n, r, t) BY DEF local_copy
<1>4. /\ IsMailbox(c) /\ DOMAIN c.rec = DOMAIN b.rec \cup {n}
      /\ \A v \in DOMAIN b.rec : c.rec[v] = b.rec[v]
      /\ c.rec[n].expunged = r.expunged /\ n \notin DOMAIN b.rec
  BY <1>1, <1>2, <1>3, Appended
<1>5. live(c) = live(b) \cup {n} /\ guids(c) = guids(b)
  <2> HIDE DEF c
  <2>1. live(c) = live(b) \cup {n} /\ guids(c) = guids(b) \cup {r.guid}
    BY <1>1, <1>2, <1>3, AppendGuids
  <2> QED BY <1>2, <2>1
<1>6. Grows(b0, c)
  <2>1. Grows(b0, b) /\ Grows(b, c) BY <1>1, <1>2, <1>3, AppendGrows DEF DoneInv
  <2> HIDE DEF c
  <2> QED BY <1>1, <1>4, <2>1, GrowsTrans
<1> HIDE DEF c, n
<1>7. \A v \in DOMAIN c.rec : c.rec[v].expunged => v \in DOMAIN b0.rec
  BY <1>2, <1>4 DEF DoneInv
<1> QED BY <1>4, <1>5, <1>6, <1>7 DEF DoneInv, c

\* F is the master after q actions, and maybe the copy of another.
Acted(m, st, F, q) ==
  \E b0 : /\ IsMailbox(b0) /\ Grows(m, b0) /\ b0.rec = st.box.rec
          /\ Notes(m, b0, st.kaction) /\ DoneInv(b0, st.kaction, F, q)

LEMMA DoneResult ==
  ASSUME NEW m, IsMailbox(m), IsMailbox(snap), NEW st, NEW n \in Nat, LoopInv(m, st, n),
         NEW p \in 0 .. Len(st.kaction), NEW t \in Nat
  PROVE  \E b0 : /\ IsMailbox(b0) /\ Grows(m, b0) /\ b0.rec = st.box.rec
                 /\ Notes(m, b0, st.kaction)
                 /\ DoneInv(b0, st.kaction, done(st, p, t), p)
                 /\ Cross(m, m) /\ Cross(m, snap) /\ Cross(snap, snap)
                      => OnceInv(st.kaction, done(st, p, t), p)
<1> DEFINE k == st.kaction
           b == st.box
           b0 == [b EXCEPT !.last_uid = Max({@, snap.last_uid})]
<1>0. IsMailbox(b) /\ k \in Seq(Action) /\ Len(k) \in Nat /\ p \in Nat /\ p <= Len(k)
  BY DEF LoopInv
<1>1. PICK f : /\ f[0] = b0
               /\ \A i \in 0 .. p - 1 : f[i + 1] = do_kaction(f[i], k[i + 1], t)
               /\ done(st, p, t) = f[p]
  <2>1. PICK f : Stepped(f, st, p, t) BY <1>0, DoneSteps
  <2> QED BY <2>1 DEF Stepped
<1>2. Max({b.last_uid, snap.last_uid}) \in Nat /\ Max({b.last_uid, snap.last_uid}) >= b.last_uid
  BY <1>0, MaxTwo, MailboxFields
<1>3. /\ DOMAIN b0 = DOMAIN b /\ b0.rec = b.rec /\ b0.last_uid \in Nat
      /\ b0.last_uid >= b.last_uid /\ b0.highestmodseq = b.highestmodseq
      /\ b0.deletedmodseq = b.deletedmodseq
  BY <1>0, <1>2 DEF IsMailbox
<1> HIDE DEF b0, k, b
<1>4. IsMailbox(b0)
  <2>1. \A u \in DOMAIN b0.rec : u \in 1 .. b0.last_uid BY <1>0, <1>3, MailboxFields
  <2> QED BY <1>0, <1>3, <2>1 DEF IsMailbox
<1>5. Grows(m, b0)
  <2>1. Grows(m, b) BY DEF LoopInv, b
  <2> QED BY <1>0, <1>3, <2>1, MailboxFields DEF Grows
<1>6. Notes(m, b0, k)
  <2>1. ASSUME NEW j \in 1 .. Len(k) PROVE Noted(m, b0, k[j], n)
    <3>1. Noted(m, b, k[j], n) BY DEF LoopInv, b, k
    <3>2. k[j] \in Action /\ k[j][2] \in Nat BY <1>0 DEF Action
    <3>3. k[j][2] <= b.last_uid => k[j][2] <= b0.last_uid BY <1>0, <1>3, <3>2, MailboxFields
    <3> QED BY <1>3, <3>1, <3>3 DEF Noted, live
  <2>2. \A i, j \in 1 .. Len(k) : k[i] = k[j] => i = j BY DEF LoopInv, k
  <2> QED BY <1>0, <2>1, <2>2 DEF Notes
<1>7. DoneInv(b0, k, b0, 0)
  <2>1. \A j \in 1 .. Len(k) : k[j][1] = "RENUMBER" => k[j][2] \in live(b0)
    BY <1>6 DEF Notes, Noted
  <2>2. \A j \in 1 .. Len(k) : ~(j <= 0) BY <1>0
  <2> QED BY <1>4, <2>1, <2>2, GrowsSame DEF DoneInv
<1>8. ASSUME Cross(m, m), Cross(m, snap), Cross(snap, snap) PROVE OnceInv(k, b0, 0)
  <2>1. ASSUME NEW u \in live(b0)
        PROVE  \/ u \in live(m) /\ b0.rec[u].guid = m.rec[u].guid
               \/ u \in live(snap) /\ b0.rec[u].guid = snap.rec[u].guid
    <3>1. CASE u \in DOMAIN m.rec
      <4>1. u <= m.last_uid BY <3>1, MailboxFields
      <4>2. u \in DOMAIN b0.rec /\ ~b0.rec[u].expunged BY GuidsOf
      <4> QED BY <1>5, <3>1, <4>1, <4>2 DEF Grows, live
    <3>2. CASE u \notin DOMAIN m.rec
      BY <1>3, <3>2 DEF LoopInv, b, live
    <3> QED BY <3>1, <3>2
  <2>2. Cross(b0, b0) BY <1>8, <2>1 DEF Cross
  <2>3. Cross(b0, snap) BY <1>8, <2>1 DEF Cross
  <2>4. ASSUME NEW j \in 1 .. Len(k), k[j][1] = "COPYBACK"
        PROVE  snap.rec[k[j][2]].guid \notin guids(b0)
    <3>1. /\ k[j][2] \in live(snap)
          /\ ~(k[j][2] \in DOMAIN b0.rec /\ b0.rec[k[j][2]].guid = snap.rec[k[j][2]].guid)
      BY <1>6, <2>4 DEF Notes, Noted
    <3> QED BY <2>3, <3>1 DEF Cross, guids, live
  <2> QED BY <2>2, <2>3, <2>4 DEF OnceInv, Cross
<1> DEFINE Once0 == Cross(m, m) /\ Cross(m, snap) /\ Cross(snap, snap)
           S == {i \in Nat : i <= p =>
                   DoneInv(b0, k, f[i], i) /\ (Once0 => OnceInv(k, f[i], i))}
<1>9. 0 \in S BY <1>1, <1>7, <1>8
<1>10. ASSUME NEW i \in Nat, i \in S PROVE i + 1 \in S
  <2> SUFFICES ASSUME i + 1 <= p
               PROVE  DoneInv(b0, k, f[i + 1], i + 1) /\ (Once0 => OnceInv(k, f[i + 1], i + 1))
    OBVIOUS
  <2>1. i \in 0 .. p - 1 /\ i <= p /\ i + 1 \in 1 .. Len(k) BY <1>0
  <2>2. DoneInv(b0, k, f[i], i) /\ (Once0 => OnceInv(k, f[i], i)) BY <1>10, <2>1
  <2>3. f[i + 1] = do_kaction(f[i], k[i + 1], t) BY <1>1, <2>1
  <2>4. k[i + 1] \in Action BY <1>0, <2>1
  <2> HIDE DEF S
  <2>5. CASE k[i + 1][1] = "COPYBACK"
    <3>1. f[i + 1] = copy_remote(f[i], k[i + 1][2], t) BY <2>3, <2>5 DEF do_kaction
    <3> QED BY <1>4, <1>6, <2>1, <2>2, <2>5, <3>1, CopyRemoteStep
  <2>6. CASE k[i + 1][1] = "RENUMBER"
    <3>1. f[i + 1] = copy_local(f[i], k[i + 1][2], t) BY <2>3, <2>6 DEF do_kaction
    <3> QED BY <1>4, <1>5, <1>6, <2>1, <2>2, <2>6, <3>1, CopyLocalStep
  <2>7. CASE k[i + 1][1] = "EXPUNGE"
    <3>1. f[i + 1] = f[i] BY <2>3, <2>7 DEF do_kaction
    <3>2. \A j \in 1 .. Len(k) : (j > i + 1 => j > i)
                                 /\ (j <= i + 1 /\ k[j][1] = "COPYBACK" => j <= i)
      BY <1>0, <2>7
    <3>3. DoneInv(b0, k, f[i], i + 1) BY <2>2, <3>2 DEF DoneInv
    <3>4. Once0 => OnceInv(k, f[i], i + 1) BY <2>2, <3>2 DEF OnceInv
    <3> QED BY <3>1, <3>3, <3>4
  <2> QED BY <2>4, <2>5, <2>6, <2>7 DEF Action
<1> HIDE DEF S
<1>11. p \in S BY <1>0, <1>9, <1>10, NatSet
<1>12. DoneInv(b0, k, f[p], p) /\ (Once0 => OnceInv(k, f[p], p))
  BY <1>0, <1>11 DEF S
<1>13. b0.rec = st.box.rec BY <1>3 DEF b
<1> HIDE DEF Once0
<1> QED BY <1>1, <1>4, <1>5, <1>6, <1>12, <1>13 DEF k, Once0

\* An action that fails leaves what was done before it, or its copy as well.
LEMMA FailingResult ==
  ASSUME NEW m, IsMailbox(m), IsMailbox(snap), NEW st, NEW n \in Nat, LoopInv(m, st, n),
         NEW p \in 0 .. Len(st.kaction), NEW t \in Nat, NEW F \in failing(st, p, t)
  PROVE  \E q \in Nat : p <= q /\ Acted(m, st, F, q)
<1> DEFINE k == st.kaction
           b == done(st, p, t)
           u == k[p + 1][2]
<1>0. k \in Seq(Action) /\ Len(k) \in Nat /\ p \in Nat /\ p <= p /\ p <= p + 1 /\ p + 1 \in Nat
  BY DEF LoopInv
<1>1. PICK b0 : /\ IsMailbox(b0) /\ Grows(m, b0) /\ b0.rec = st.box.rec
                /\ Notes(m, b0, k) /\ DoneInv(b0, k, b, p)
  BY DoneResult
<1> HIDE DEF b
<1>2. CASE F = b BY <1>0, <1>1, <1>2 DEF Acted
<1>3. ASSUME F # b
      PROVE  /\ p + 1 \in 1 .. Len(k)
             /\ \/ k[p + 1][1] = "COPYBACK" /\ F = copy_remote(b, u, t)
                \/ k[p + 1][1] = "RENUMBER" /\ F = local_copy(b, u, t)
  <2>1. p # Len(k)
    <3> SUFFICES ASSUME p = Len(k) PROVE FALSE OBVIOUS
    <3> QED BY <1>3 DEF failing, b
  <2>2. p + 1 \in 1 .. Len(k) BY <1>0, <2>1
  <2>3. CASE k[p + 1][1] = "COPYBACK" BY <1>3, <2>1, <2>2, <2>3 DEF failing, b
  <2>4. CASE k[p + 1][1] = "RENUMBER" BY <1>3, <2>1, <2>2, <2>4 DEF failing, b
  <2>5. CASE k[p + 1][1] \notin {"COPYBACK", "RENUMBER"} BY <1>3, <2>1, <2>5 DEF failing, b
  <2> QED BY <2>2, <2>3, <2>4, <2>5
<1>4. CASE F # b /\ k[p + 1][1] = "COPYBACK"
  <2>1. F = copy_remote(b, u, t) /\ p + 1 \in 1 .. Len(k) BY <1>3, <1>4
  <2>2. DoneInv(b0, k, F, p + 1) BY <1>0, <1>1, <1>4, <2>1, CopyRemoteStep
  <2> QED BY <1>0, <1>1, <2>2 DEF Acted
<1>5. CASE F # b /\ k[p + 1][1] = "RENUMBER"
  <2>1. F = local_copy(b, u, t) /\ p + 1 \in 1 .. Len(k) BY <1>3, <1>5
  <2>2. u \in live(b) BY <1>0, <1>1, <1>5, <2>1 DEF DoneInv
  <2>3. DoneInv(b0, k, F, p) BY <1>0, <1>1, <2>1, <2>2, LocalCopyStep
  <2> QED BY <1>0, <1>1, <2>3 DEF Acted
<1> QED BY <1>2, <1>3, <1>4, <1>5

\* mailbox_full_update on the master: m before, F after.
Merged(m, F) ==
  /\ IsMailbox(F) /\ Grows(m, F)
  /\ \A u \in live(m) :
       \/ m.rec[u].guid \in guids(F)
       \/ /\ u \in DOMAIN snap.rec /\ snap.rec[u].expunged
          /\ snap.rec[u].guid = m.rec[u].guid
  /\ \A u \in DOMAIN F.rec : F.rec[u].expunged =>
       \/ F.rec[u].guid \in guids(F)
       \/ /\ u \in DOMAIN m.rec /\ m.rec[u].guid = F.rec[u].guid
          /\ \/ m.rec[u].expunged
             \/ /\ u \in DOMAIN snap.rec /\ snap.rec[u].expunged
                /\ snap.rec[u].guid = m.rec[u].guid
  /\ \A u \in DOMAIN F.rec :
       \/ \E v \in DOMAIN m.rec : m.rec[v].guid = F.rec[u].guid
       \/ \E v \in DOMAIN snap.rec : snap.rec[v].guid = F.rec[u].guid

\* ks are the UIDs that the replica shall expunge, dr the messages that were taken
\* for stale.
Marked(F, ks, dr) ==
  /\ \A u \in ks : /\ u \in live(snap) /\ Burnt(F, u, snap.rec[u].guid)
                    /\ snap.rec[u].guid \in guids(F) \cup dr
  /\ dr \subseteq Guid

Alone(F, ks) ==
  /\ Cross(F, F)
  /\ \A w \in live(F), v \in live(snap) :
       F.rec[w].guid = snap.rec[v].guid => w = v \/ v \in ks

\* What the loop has done before one of its turns failed
LEMMA LoopMerged ==
  ASSUME NEW m, IsMailbox(m), IsMailbox(snap), NEW st, NEW n \in Nat, LoopInv(m, st, n)
  PROVE  Merged(m, st.box)
<1> DEFINE b == st.box
<1>1. /\ IsMailbox(b) /\ Grows(m, b) /\ DOMAIN m.rec \subseteq DOMAIN b.rec
      /\ \A v \in DOMAIN m.rec :
           \/ b.rec[v].expunged <=> m.rec[v].expunged
           \/ v \in DOMAIN snap.rec /\ snap.rec[v].expunged /\ snap.rec[v].guid = m.rec[v].guid
      /\ \A v \in DOMAIN b.rec \ DOMAIN m.rec :
           v \in live(snap) /\ v \in live(b) /\ b.rec[v].guid = snap.rec[v].guid
  BY DEF LoopInv
<1> HIDE DEF b
<1>2. \A v \in DOMAIN m.rec : b.rec[v].guid = m.rec[v].guid
  BY <1>1, MailboxFields DEF Grows
<1>3. ASSUME NEW u \in live(m)
      PROVE  \/ m.rec[u].guid \in guids(b)
             \/ /\ u \in DOMAIN snap.rec /\ snap.rec[u].expunged
                /\ snap.rec[u].guid = m.rec[u].guid
  <2>1. u \in DOMAIN m.rec /\ u \in DOMAIN b.rec /\ ~m.rec[u].expunged BY <1>1, GuidsOf
  <2> QED BY <1>1, <1>2, <2>1 DEF guids, live
<1>4. ASSUME NEW u \in DOMAIN b.rec, b.rec[u].expunged
      PROVE  /\ u \in DOMAIN m.rec /\ m.rec[u].guid = b.rec[u].guid
             /\ \/ m.rec[u].expunged
                \/ /\ u \in DOMAIN snap.rec /\ snap.rec[u].expunged
                   /\ snap.rec[u].guid = m.rec[u].guid
  <2>1. u \in DOMAIN m.rec BY <1>1, <1>4 DEF live
  <2> QED BY <1>1, <1>2, <1>4, <2>1
<1>5. ASSUME NEW u \in DOMAIN b.rec
      PROVE  \/ \E v \in DOMAIN m.rec : m.rec[v].guid = b.rec[u].guid
             \/ \E v \in DOMAIN snap.rec : snap.rec[v].guid = b.rec[u].guid
  BY <1>1, <1>2, GuidsOf
<1> QED BY <1>1, <1>3, <1>4, <1>5 DEF Merged, b

\* ... and what it has noted, of which the first p entries were done.
LEMMA MergeResult ==
  ASSUME NEW m, IsMailbox(m), IsMailbox(snap), NEW st, NEW n \in Nat, LoopInv(m, st, n),
         NEW p \in 0 .. Len(st.kaction), NEW q \in Nat, p <= q, NEW F, Acted(m, st, F, q)
  PROVE  LET ks == uids(st, p, {"COPYBACK", "EXPUNGE"})
             dr == {snap.rec[u].guid : u \in uids(st, p, {"EXPUNGE"})}
         IN  /\ Merged(m, F) /\ Marked(F, ks, dr)
             /\ p = Len(st.kaction) /\ OnceInv(st.kaction, F, p) => Alone(F, ks)
<1> DEFINE ks == uids(st, p, {"COPYBACK", "EXPUNGE"})
           es == uids(st, p, {"EXPUNGE"})
           dr == {snap.rec[u].guid : u \in es}
           k == st.kaction
<1>1. LoopInv(m, st, n) OBVIOUS
<1>2. PICK b0 : /\ IsMailbox(b0) /\ Grows(m, b0) /\ b0.rec = st.box.rec
                /\ Notes(m, b0, k) /\ DoneInv(b0, k, F, q)
  BY DEF Acted
<1>3. k \in Seq(Action) /\ Len(k) \in Nat /\ p \in Nat /\ 1 .. p \subseteq 1 .. Len(k)
  BY <1>2 DEF Notes
<1>4. \A u : u \in ks <=> \E j \in 1 .. p : k[j] \in {<<"COPYBACK", u>>, <<"EXPUNGE", u>>}
  <2>1. \A j \in 1 .. Len(k) : k[j] \in Action /\ k[j] = <<k[j][1], k[j][2]>> BY <1>3 DEF Action
  <2>2. \A u : u \in ks <=> \E j \in 1 .. p : k[j][2] = u /\ k[j][1] \in {"COPYBACK", "EXPUNGE"}
    BY DEF uids
  <2> HIDE DEF ks, k
  <2>3. ASSUME NEW u, NEW j \in 1 .. p
        PROVE  (k[j][2] = u /\ k[j][1] \in {"COPYBACK", "EXPUNGE"})
               <=> k[j] \in {<<"COPYBACK", u>>, <<"EXPUNGE", u>>}
    <3>1. PICK x, y : k[j] = <<x, y>> BY <1>3, <2>1
    <3>2. k[j][1] = x /\ k[j][2] = y BY <3>1
    <3> QED BY <3>1, <3>2
  <2> QED BY <2>2, <2>3
<1>5. \A u : u \in es <=> \E j \in 1 .. p : k[j] = <<"EXPUNGE", u>>
  <2>1. \A j \in 1 .. p : k[j] = <<k[j][1], k[j][2]>> BY <1>3 DEF Action
  <2> QED BY <2>1 DEF uids
<1> HIDE DEF ks, es, k
<1>6. IsMailbox(F) /\ Grows(b0, F) /\ Grows(m, F)
  <2>1. IsMailbox(F) /\ Grows(b0, F) BY <1>2 DEF DoneInv
  <2> QED BY <1>2, <2>1, GrowsTrans
<1>7. ASSUME NEW u \in live(m)
      PROVE  \/ m.rec[u].guid \in guids(F)
             \/ /\ u \in DOMAIN snap.rec /\ snap.rec[u].expunged
                /\ snap.rec[u].guid = m.rec[u].guid
  <2>1. u \in DOMAIN m.rec /\ ~m.rec[u].expunged BY GuidsOf
  <2>2. \/ ~b0.rec[u].expunged
        \/ /\ u \in DOMAIN snap.rec /\ snap.rec[u].expunged
           /\ snap.rec[u].guid = m.rec[u].guid
    BY <1>1, <1>2, <2>1 DEF LoopInv
  <2>3. u \in DOMAIN b0.rec /\ b0.rec[u].guid = m.rec[u].guid
    BY <1>1, <1>2, <2>1, MailboxFields DEF LoopInv, Grows
  <2>4. CASE ~b0.rec[u].expunged
    <3>1. m.rec[u].guid \in guids(b0) BY <2>3, <2>4 DEF guids, live
    <3> QED BY <1>2, <3>1 DEF DoneInv
  <2> QED BY <2>2, <2>4
<1>8. ASSUME NEW u \in DOMAIN F.rec, F.rec[u].expunged
      PROVE  \/ F.rec[u].guid \in guids(F)
             \/ /\ u \in DOMAIN m.rec /\ m.rec[u].guid = F.rec[u].guid
                /\ \/ m.rec[u].expunged
                   \/ /\ u \in DOMAIN snap.rec /\ snap.rec[u].expunged
                      /\ snap.rec[u].guid = m.rec[u].guid
  <2>1. u \in DOMAIN b0.rec BY <1>2, <1>8 DEF DoneInv
  <2>2. F.rec[u].guid = b0.rec[u].guid BY <1>2, <1>6, <2>1, MailboxFields DEF Grows
  <2>3. CASE ~b0.rec[u].expunged
    <3>1. F.rec[u].guid \in guids(b0) BY <2>1, <2>2, <2>3 DEF guids, live
    <3> QED BY <1>2, <3>1 DEF DoneInv
  <2>4. CASE b0.rec[u].expunged
    <3>1. u \in DOMAIN m.rec BY <1>1, <1>2, <2>1, <2>4 DEF LoopInv, live
    <3>2. m.rec[u].guid = b0.rec[u].guid BY <1>2, <2>1, <3>1, MailboxFields DEF Grows
    <3>3. \/ b0.rec[u].expunged <=> m.rec[u].expunged
          \/ u \in DOMAIN snap.rec /\ snap.rec[u].expunged /\ snap.rec[u].guid = m.rec[u].guid
      BY <1>1, <1>2, <3>1 DEF LoopInv
    <3> QED BY <2>2, <2>4, <3>1, <3>2, <3>3
  <2> QED BY <2>3, <2>4
<1>9. ASSUME NEW u \in DOMAIN F.rec
      PROVE  \/ \E v \in DOMAIN m.rec : m.rec[v].guid = F.rec[u].guid
             \/ \E v \in DOMAIN snap.rec : snap.rec[v].guid = F.rec[u].guid
  <2>0. \A v \in DOMAIN b0.rec : \/ v \in DOMAIN m.rec /\ m.rec[v].guid = b0.rec[v].guid
                                 \/ v \in DOMAIN snap.rec /\ snap.rec[v].guid = b0.rec[v].guid
    BY <1>1, <1>2, MailboxFields DEF LoopInv, Grows, live
  <2>1. CASE F.rec[u].expunged
    <3>1. u \in DOMAIN b0.rec BY <1>2, <2>1 DEF DoneInv
    <3>2. F.rec[u].guid = b0.rec[u].guid BY <1>2, <1>6, <3>1, MailboxFields DEF Grows
    <3> QED BY <2>0, <3>1, <3>2
  <2>2. CASE ~F.rec[u].expunged
    <3>1. F.rec[u].guid \in guids(F) BY <2>2 DEF guids, live
    <3>2. F.rec[u].guid \in guids(b0) \cup guids(snap) BY <1>2, <3>1 DEF DoneInv
    <3>3. CASE F.rec[u].guid \in guids(b0)
      <4>1. PICK v \in live(b0) : F.rec[u].guid = b0.rec[v].guid BY <3>3 DEF guids
      <4> QED BY <2>0, <4>1, GuidsOf
    <3>4. CASE F.rec[u].guid \in guids(snap)
      BY <3>4 DEF guids, live
    <3> QED BY <3>2, <3>3, <3>4
  <2> QED BY <2>1, <2>2
<1>10. ASSUME NEW u \in ks
       PROVE  /\ u \in live(snap) /\ Burnt(F, u, snap.rec[u].guid)
              /\ snap.rec[u].guid \in guids(F) \cup dr
  <2>1. PICK j \in 1 .. p : k[j] \in {<<"COPYBACK", u>>, <<"EXPUNGE", u>>} BY <1>4
  <2>0. j \in 1 .. Len(k) /\ j <= q BY <1>3
  <2>2. k[j][2] = u /\ k[j][1] # "RENUMBER" BY <2>1
  <2>3. /\ u \in live(snap) /\ u <= b0.last_uid
        /\ ~(u \in DOMAIN b0.rec /\ b0.rec[u].guid = snap.rec[u].guid)
    BY <1>2, <2>0, <2>2 DEF Notes, Noted
  <2>4. u \in Nat BY <2>3, GuidsOf, MailboxFields
  <2>5. Burnt(b0, u, snap.rec[u].guid) BY <2>3 DEF Burnt, live
  <2>6. Burnt(F, u, snap.rec[u].guid) BY <1>2, <1>6, <2>4, <2>5, BurntStays
  <2>7. CASE k[j] = <<"COPYBACK", u>>
    <3>1. k[j][1] = "COPYBACK" BY <2>7
    <3> QED BY <1>2, <2>0, <2>2, <2>3, <2>6, <3>1 DEF DoneInv
  <2>8. CASE k[j] = <<"EXPUNGE", u>>
    <3>1. u \in es BY <1>5, <2>8
    <3> QED BY <2>3, <2>6, <3>1
  <2> QED BY <2>1, <2>7, <2>8
<1>11. dr \subseteq Guid
  <2>1. ASSUME NEW u \in es PROVE u \in DOMAIN snap.rec
    <3>1. PICK j \in 1 .. p : k[j] = <<"EXPUNGE", u>> BY <1>5
    <3>2. k[j][2] = u /\ k[j][1] # "RENUMBER" BY <3>1
    <3> QED BY <1>2, <1>3, <3>1, <3>2, GuidsOf DEF Notes, Noted
  <2> QED BY <2>1, MailboxFields
<1> HIDE DEF dr
<1>12. ASSUME p = Len(k), OnceInv(k, F, p) PROVE Alone(F, ks)
  BY <1>4, <1>12 DEF OnceInv, ToExpunge, Alone
<1>13. Merged(m, F) BY <1>6, <1>7, <1>8, <1>9, Zenon DEF Merged
<1>14. Marked(F, ks, dr) BY <1>10, <1>11, Zenon DEF Marked
<1> QED BY <1>12, <1>13, <1>14, Zenon DEF dr, es, ks, k

-----------------------------------------------------------------------------
\* No message is lost

LEMMA LossMaster ==
  ASSUME NEW m, NEW c, NEW r, NEW gone, NEW gone2, NEW all, NEW all2,
         IsMailbox(m), IsMailbox(c), IsMailbox(r), Grows(m, c),
         gone \subseteq gone2, all2 \subseteq all \cup guids(c),
         guids(m) \subseteq guids(c) \cup gone2, Kept(c, gone2, c)
  PROVE  /\ BoxLoss(m, r, gone, all) => BoxLoss(c, r, gone2, all2)
         /\ \A b : IsMailbox(b) /\ Excused(m, gone, b) => Excused(c, gone2, b)
         /\ \A ms : DOMAIN ms.rec \subseteq Nat /\ ApplyLoss(m, gone, ms) => ApplyLoss(c, gone2, ms)
         /\ \A ks : ExpungeLoss(m, r, gone, ks) => ExpungeLoss(c, r, gone2, ks)
<1>1. \A u \in Nat : \A g : Burnt(m, u, g) => Burnt(c, u, g) BY BurntStays
<1>2. ASSUME NEW b, IsMailbox(b), Excused(m, gone, b) PROVE Excused(c, gone2, b)
  <2>1. DOMAIN b.rec \subseteq Nat BY <1>2, MailboxFields
  <2> QED BY <1>1, <1>2, <2>1 DEF Excused
<1>3. BoxLoss(m, r, gone, all) => BoxLoss(c, r, gone2, all2) BY <1>2 DEF BoxLoss
<1>4. ASSUME NEW ms, DOMAIN ms.rec \subseteq Nat, ApplyLoss(m, gone, ms)
      PROVE  ApplyLoss(c, gone2, ms)
  BY <1>1, <1>4 DEF ApplyLoss, Kept
<1>5. ASSUME NEW ks, ExpungeLoss(m, r, gone, ks) PROVE ExpungeLoss(c, r, gone2, ks)
  <2>1. DOMAIN r.rec \subseteq Nat BY MailboxFields
  <2> QED BY <1>1, <1>5, <2>1 DEF ExpungeLoss
<1> QED BY <1>2, <1>3, <1>4, <1>5

LEMMA LossReplica ==
  ASSUME NEW m, NEW r, NEW c, NEW gone, NEW gone2, NEW all, NEW all2,
         IsMailbox(m), IsMailbox(r), IsMailbox(c), Grows(r, c),
         gone \subseteq gone2, all2 \subseteq all \cup guids(c),
         guids(r) \subseteq guids(c) \cup gone2 \cup guids(m), Excused(m, gone2, c)
  PROVE  /\ BoxLoss(m, r, gone, all) => BoxLoss(m, c, gone2, all2)
         /\ \A b : Excused(m, gone, b) => Excused(m, gone2, b)
         /\ \A ms : ApplyLoss(m, gone, ms) => ApplyLoss(m, gone2, ms)
         /\ \A ks : ks \subseteq 1 .. r.last_uid /\ ExpungeLoss(m, r, gone, ks)
                      => ExpungeLoss(m, c, gone2, ks)
<1>1. \A b : Excused(m, gone, b) => Excused(m, gone2, b) BY DEF Excused
<1>2. \A b : Kept(m, gone, b) => Kept(m, gone2, b) BY DEF Kept
<1>3. BoxLoss(m, r, gone, all) => BoxLoss(m, c, gone2, all2) BY <1>2 DEF BoxLoss
<1>4. \A ms : ApplyLoss(m, gone, ms) => ApplyLoss(m, gone2, ms) BY <1>2 DEF ApplyLoss
<1>5. ASSUME NEW ks, ks \subseteq 1 .. r.last_uid, ExpungeLoss(m, r, gone, ks)
      PROVE  ExpungeLoss(m, c, gone2, ks)
  <2>1. \A u \in ks \cap DOMAIN c.rec : u \in DOMAIN r.rec /\ c.rec[u].guid = r.rec[u].guid
    BY <1>5, MailboxFields DEF Grows
  <2> QED BY <1>5, <2>1 DEF ExpungeLoss
<1> QED BY <1>1, <1>3, <1>4, <1>5

-----------------------------------------------------------------------------
\* No message is copied twice

\* What is new in c was never seen before.
Fresh(all, b, c) ==
  /\ \A u \in DOMAIN c.rec \ DOMAIN b.rec : c.rec[u].guid \notin all
  /\ \A u, v \in DOMAIN c.rec \ DOMAIN b.rec : u = v

LEMMA OldOrNew ==
  ASSUME NEW b, NEW c, IsMailbox(b), IsMailbox(c), Grows(b, c), NEW u \in DOMAIN c.rec,
         u \in DOMAIN b.rec
  PROVE  /\ c.rec[u].guid = b.rec[u].guid /\ (b.rec[u].expunged => c.rec[u].expunged)
         /\ (u \in live(c) => u \in live(b))
<1>1. u <= b.last_uid BY MailboxFields
<1> QED BY <1>1 DEF Grows, live

LEMMA CrossFresh ==
  ASSUME NEW all, NEW b, NEW c, IsMailbox(b), IsMailbox(c), Grows(b, c), Fresh(all, b, c),
         Known(all, b)
  PROVE  /\ Cross(b, b) => Cross(c, c)
         /\ \A x : Known(all, x) /\ Cross(b, x) => Cross(c, x)
         /\ \A x : Known(all, x) /\ Cross(x, b) => Cross(x, c)
<1>1. \A u \in live(c) : \/ u \in live(b) /\ c.rec[u].guid = b.rec[u].guid /\ c.rec[u].guid \in all
                         \/ u \in DOMAIN c.rec \ DOMAIN b.rec /\ c.rec[u].guid \notin all
  <2> SUFFICES ASSUME NEW u \in live(c)
               PROVE  \/ u \in live(b) /\ c.rec[u].guid = b.rec[u].guid /\ c.rec[u].guid \in all
                      \/ u \in DOMAIN c.rec \ DOMAIN b.rec /\ c.rec[u].guid \notin all
    OBVIOUS
  <2>1. u \in DOMAIN c.rec BY GuidsOf
  <2>2. CASE u \in DOMAIN b.rec BY <2>1, <2>2, OldOrNew DEF Known
  <2>3. CASE u \notin DOMAIN b.rec BY <2>1, <2>3 DEF Fresh
  <2> QED BY <2>2, <2>3
<1>2. \A x : \A v \in live(x) : Known(all, x) => x.rec[v].guid \in all BY DEF live, Known
<1>3. Cross(b, b) => Cross(c, c) BY <1>1 DEF Cross, Fresh
<1>4. \A x : Known(all, x) /\ Cross(b, x) => Cross(c, x) BY <1>1, <1>2 DEF Cross
<1>5. \A x : Known(all, x) /\ Cross(x, b) => Cross(x, c) BY <1>1, <1>2 DEF Cross
<1> QED BY <1>3, <1>4, <1>5

LEMMA SingleMaster ==
  ASSUME NEW all, NEW m, NEW c, NEW r, IsMailbox(m), IsMailbox(c), IsMailbox(r), Grows(m, c),
         Fresh(all, m, c), Known(all, m), Known(all, r)
  PROVE  /\ \A ks : BoxSingle(m, r, ks) => BoxSingle(c, r, ks)
         /\ \A sn : Known(all, sn) /\ MergeSingle(m, r, sn) => MergeSingle(c, r, sn)
         /\ \A ms : Known(all, ms) /\ ApplySingle(m, r, ms) => ApplySingle(c, r, ms)
<1>1. ASSUME NEW ks, BoxSingle(m, r, ks) PROVE BoxSingle(c, r, ks)
  <2>1. Cross(c, c) /\ Cross(r, r) BY <1>1, CrossFresh DEF BoxSingle
  <2>2. ASSUME NEW u \in live(c), NEW v \in live(r), c.rec[u].guid = r.rec[v].guid
        PROVE  u = v \/ v \in ks
    <3>1. u \in DOMAIN c.rec /\ v \in DOMAIN r.rec BY GuidsOf
    <3>2. u \in DOMAIN m.rec BY <2>2, <3>1 DEF Fresh, Known
    <3> QED BY <1>1, <2>2, <3>1, <3>2, OldOrNew DEF BoxSingle
  <2> QED BY <2>1, <2>2 DEF BoxSingle
<1>2. ASSUME NEW sn, Known(all, sn), MergeSingle(m, r, sn) PROVE MergeSingle(c, r, sn)
  <2>1. Cross(c, sn) /\ Cross(sn, sn) BY <1>2, CrossFresh DEF MergeSingle
  <2>2. ASSUME NEW u \in DOMAIN r.rec, u > sn.last_uid, NEW v \in DOMAIN c.rec
        PROVE  c.rec[v].guid # r.rec[u].guid
    <3>1. CASE v \in DOMAIN m.rec BY <1>2, <2>2, <3>1, OldOrNew DEF MergeSingle
    <3>2. CASE v \notin DOMAIN m.rec BY <3>2 DEF Fresh, Known
    <3> QED BY <3>1, <3>2
  <2> QED BY <1>2, <2>1, <2>2 DEF MergeSingle
<1>3. ASSUME NEW ms, Known(all, ms), ApplySingle(m, r, ms) PROVE ApplySingle(c, r, ms)
  BY <1>3, CrossFresh DEF ApplySingle
<1> QED BY <1>1, <1>2, <1>3

LEMMA SingleReplica ==
  ASSUME NEW all, NEW m, NEW r, NEW c, IsMailbox(m), IsMailbox(r), IsMailbox(c), Grows(r, c),
         Fresh(all, r, c), Known(all, m), Known(all, r)
  PROVE  /\ \A ks : BoxSingle(m, r, ks) => BoxSingle(m, c, ks)
         /\ \A sn : Known(all, sn) /\ MergeSingle(m, r, sn) => MergeSingle(m, c, sn)
         /\ \A ms : Known(all, ms) /\ ApplySingle(m, r, ms) => ApplySingle(m, c, ms)
<1>1. ASSUME NEW ks, BoxSingle(m, r, ks) PROVE BoxSingle(m, c, ks)
  <2>1. Cross(m, m) /\ Cross(c, c) BY <1>1, CrossFresh DEF BoxSingle
  <2>2. ASSUME NEW u \in live(m), NEW v \in live(c), m.rec[u].guid = c.rec[v].guid
        PROVE  u = v \/ v \in ks
    <3>1. u \in DOMAIN m.rec /\ v \in DOMAIN c.rec BY GuidsOf
    <3>2. v \in DOMAIN r.rec BY <2>2, <3>1 DEF Fresh, Known
    <3> QED BY <1>1, <2>2, <3>1, <3>2, OldOrNew DEF BoxSingle
  <2> QED BY <2>1, <2>2 DEF BoxSingle
<1>2. ASSUME NEW sn, Known(all, sn), MergeSingle(m, r, sn) PROVE MergeSingle(m, c, sn)
  <2>1. ASSUME NEW u \in DOMAIN c.rec, u > sn.last_uid
        PROVE  /\ \A v \in DOMAIN m.rec : m.rec[v].guid # c.rec[u].guid
               /\ \A v \in DOMAIN sn.rec : sn.rec[v].guid # c.rec[u].guid
    <3>1. CASE u \in DOMAIN r.rec BY <1>2, <2>1, <3>1, OldOrNew DEF MergeSingle
    <3>2. CASE u \notin DOMAIN r.rec BY <1>2, <3>2 DEF Fresh, Known
    <3> QED BY <3>1, <3>2
  <2> QED BY <1>2, <2>1 DEF MergeSingle
<1>3. ASSUME NEW ms, Known(all, ms), ApplySingle(m, r, ms) PROVE ApplySingle(m, c, ms)
  BY <1>3, CrossFresh DEF ApplySingle
<1> QED BY <1>1, <1>2, <1>3

-----------------------------------------------------------------------------
\* Users, deliveries and cyr_expire

\* What such a change may do to the mailbox b; gone2 and all2 are the histories after it.
UserChange(b, c, gone, gone2, all, all2) ==
  /\ IsMailbox(c) /\ Grows(b, c) /\ Fresh(all, b, c)
  /\ gone \subseteq gone2 /\ all \subseteq all2
  /\ all2 \subseteq all \cup guids(c) /\ Known(all2, c)
  /\ guids(b) \subseteq guids(c) \cup gone2
  /\ \A u \in DOMAIN c.rec : c.rec[u].expunged =>
       c.rec[u].guid \in gone2 \/ (u \in DOMAIN b.rec /\ b.rec[u].expunged)

LEMMA UserStep ==
  ASSUME ReplicaInv, NEW s \in Side, NEW b,
         UserChange(box[s], b, Gone, Gone', got, got'),
         box' = [box EXCEPT ![s] = b], UNCHANGED <<client, dropped, faults>>,
         removed' \subseteq Guid, got' \subseteq Guid
  PROVE  ReplicaInv' /\ Grows(M, M') /\ Grows(R, R')
<1> USE DEF M, R
<1>0. /\ DOMAIN box = Side /\ IsMailbox(box["master"]) /\ IsMailbox(box["replica"])
      /\ pc' = pc /\ attempt' = attempt /\ remote' = remote /\ msg' = msg /\ snap' = snap
      /\ kuids' = kuids /\ cache' = cache /\ dropped' = dropped /\ faults' = faults
      /\ "master" \in Side /\ "replica" \in Side /\ IsMailbox(b)
  BY DEF ReplicaInv, Types, TypeOK, client, Side, UserChange
<1>1. CASE s = "master"
  <2>1. DOMAIN box' = Side /\ M' = b /\ R' = R BY <1>0, <1>1
  <2>2. Grows(M, b) /\ Grows(R, R) BY <1>0, <1>1, GrowsSame DEF UserChange
  <2>3. Types'
    <3>1. TypeOK' BY <1>0, <2>1 DEF ReplicaInv, Types, TypeOK, Side, none
    <3> QED BY <1>0, <2>1, <3>1 DEF ReplicaInv, Types, none
  <2>4. Kept(b, Gone', b)
    <3> SUFFICES ASSUME NEW u \in DOMAIN b.rec, b.rec[u].expunged
                 PROVE  b.rec[u].guid \in Gone' \cup guids(b)
      BY DEF Kept
    <3>1. CASE u \in DOMAIN M.rec /\ M.rec[u].expunged
      <4>1. M.rec[u].guid \in Gone \cup guids(M) BY <3>1 DEF ReplicaInv, Loss, BoxLoss, Kept
      <4>2. b.rec[u].guid = M.rec[u].guid BY <1>0, <2>2, <3>1, OldOrNew
      <4> QED BY <1>1, <4>1, <4>2 DEF UserChange
    <3> QED BY <1>1, <3>1 DEF UserChange
  <2>5. /\ BoxLoss(M, R, Gone, got) => BoxLoss(b, R, Gone', got')
        /\ \A x : IsMailbox(x) /\ Excused(M, Gone, x) => Excused(b, Gone', x)
        /\ \A ms : DOMAIN ms.rec \subseteq Nat /\ ApplyLoss(M, Gone, ms) => ApplyLoss(b, Gone', ms)
        /\ \A ks : ExpungeLoss(M, R, Gone, ks) => ExpungeLoss(b, R, Gone', ks)
    <3>1. /\ Gone \subseteq Gone' /\ got' \subseteq got \cup guids(b)
          /\ guids(M) \subseteq guids(b) \cup Gone'
      BY <1>1 DEF UserChange
    <3> HIDE DEF M, R
    <3>2. IsMailbox(M) /\ IsMailbox(R) BY <1>0 DEF M, R
    <3> QED BY <1>0, <2>2, <2>4, <3>1, <3>2, LossMaster
  <2>6. Loss'
    <3>1. pc = "apply" => DOMAIN msg.rec \subseteq Nat BY DEF ReplicaInv, Types, IsMessage
    <3>2. pc = "merge" => IsMailbox(snap) BY DEF ReplicaInv, Types
    <3> HIDE DEF M, R
    <3> QED BY <1>0, <2>1, <2>5, <3>1, <3>2 DEF ReplicaInv, Loss, MergeLoss
  <2>7. Single'
    <3> HIDE DEF M, R
    <3>0. IsMailbox(M) /\ IsMailbox(R) BY <1>0 DEF M, R
    <3>1. Fresh(got, M, b) /\ Known(got', b) /\ got \subseteq got' BY <1>1 DEF UserChange, M
    <3>2. Known(got, M) /\ Known(got, R) /\ (pc = "merge" => Known(got, snap))
          /\ (pc = "apply" => Known(got, msg))
      BY DEF ReplicaInv, Single
    <3>3. \A x : Known(got, x) => Known(got', x) BY <3>1 DEF Known
    <3>4. /\ \A ks : BoxSingle(M, R, ks) => BoxSingle(b, R, ks)
          /\ \A sn : Known(got, sn) /\ MergeSingle(M, R, sn) => MergeSingle(b, R, sn)
          /\ \A ms : Known(got, ms) /\ ApplySingle(M, R, ms) => ApplySingle(b, R, ms)
      BY <1>0, <2>2, <3>0, <3>1, <3>2, SingleMaster
    <3> QED BY <1>0, <2>1, <3>1, <3>2, <3>3, <3>4 DEF ReplicaInv, Single
  <2> QED BY <2>1, <2>2, <2>3, <2>6, <2>7 DEF ReplicaInv
<1>2. CASE s = "replica"
  <2>1. DOMAIN box' = Side /\ M' = M /\ R' = b BY <1>0, <1>2
  <2>2. Grows(R, b) /\ Grows(M, M) /\ R.last_uid <= b.last_uid
    BY <1>0, <1>2, GrowsSame DEF UserChange, Grows
  <2>3. Types'
    <3>0. R.last_uid \in Nat /\ b.last_uid \in Nat BY <1>0, MailboxFields
    <3>1. TypeOK'
      <4>1. kuids \subseteq 1 .. b.last_uid
        BY <2>2, <3>0 DEF ReplicaInv, Types, TypeOK
      <4> QED BY <1>0, <2>1, <4>1 DEF ReplicaInv, Types, TypeOK, Side, none
    <3>2. \A f : IsFolder(f, R.last_uid) => IsFolder(f, b.last_uid)
      BY <2>2, <3>0 DEF IsFolder
    <3>3. \A x : IsMessage(x, R.last_uid) => IsMessage(x, b.last_uid)
      BY <2>2, <3>0 DEF IsMessage
    <3>4. pc = "merge" => IsMailbox(snap) /\ Grows(snap, b)
      BY <1>0, <2>2, GrowsTrans DEF ReplicaInv, Types
    <3> HIDE DEF M, R
    <3> QED BY <1>0, <2>1, <3>1, <3>2, <3>3, <3>4 DEF ReplicaInv, Types, none
  <2>4. Excused(M, Gone', b)
    <3> SUFFICES ASSUME NEW u \in DOMAIN b.rec, b.rec[u].expunged
                 PROVE  b.rec[u].guid \in Gone' \/ Burnt(M, u, b.rec[u].guid)
      BY DEF Excused
    <3>1. CASE u \in DOMAIN R.rec /\ R.rec[u].expunged
      <4>1. R.rec[u].guid \in Gone \/ Burnt(M, u, R.rec[u].guid)
        BY <3>1 DEF ReplicaInv, Loss, BoxLoss, Excused
      <4>2. b.rec[u].guid = R.rec[u].guid BY <1>0, <2>2, <3>1, OldOrNew
      <4> QED BY <1>2, <4>1, <4>2 DEF UserChange
    <3> QED BY <1>2, <3>1 DEF UserChange
  <2>5. /\ BoxLoss(M, R, Gone, got) => BoxLoss(M, b, Gone', got')
        /\ \A x : Excused(M, Gone, x) => Excused(M, Gone', x)
        /\ \A ms : ApplyLoss(M, Gone, ms) => ApplyLoss(M, Gone', ms)
        /\ \A ks : ks \subseteq 1 .. R.last_uid /\ ExpungeLoss(M, R, Gone, ks)
                     => ExpungeLoss(M, b, Gone', ks)
    <3>1. /\ Gone \subseteq Gone' /\ got' \subseteq got \cup guids(b)
          /\ guids(R) \subseteq guids(b) \cup Gone' \cup guids(M)
      BY <1>2 DEF UserChange
    <3> HIDE DEF M, R
    <3>2. IsMailbox(M) /\ IsMailbox(R) BY <1>0 DEF M, R
    <3> QED BY <1>0, <2>2, <2>4, <3>1, <3>2, LossReplica
  <2>6. Loss'
    <3>1. kuids \subseteq 1 .. R.last_uid BY DEF ReplicaInv, Types, TypeOK
    <3> HIDE DEF M, R
    <3> QED BY <1>0, <2>1, <2>5, <3>1 DEF ReplicaInv, Loss, MergeLoss
  <2>7. Single'
    <3> HIDE DEF M, R
    <3>0. IsMailbox(M) /\ IsMailbox(R) BY <1>0 DEF M, R
    <3>1. Fresh(got, R, b) /\ Known(got', b) /\ got \subseteq got' BY <1>2 DEF UserChange, R
    <3>2. Known(got, M) /\ Known(got, R) /\ (pc = "merge" => Known(got, snap))
          /\ (pc = "apply" => Known(got, msg))
      BY DEF ReplicaInv, Single
    <3>3. \A x : Known(got, x) => Known(got', x) BY <3>1 DEF Known
    <3>4. /\ \A ks : BoxSingle(M, R, ks) => BoxSingle(M, b, ks)
          /\ \A sn : Known(got, sn) /\ MergeSingle(M, R, sn) => MergeSingle(M, b, sn)
          /\ \A ms : Known(got, ms) /\ ApplySingle(M, R, ms) => ApplySingle(M, b, ms)
      BY <1>0, <2>2, <3>0, <3>1, <3>2, SingleReplica
    <3> QED BY <1>0, <2>1, <3>1, <3>2, <3>3, <3>4 DEF ReplicaInv, Single
  <2> QED BY <2>1, <2>2, <2>3, <2>6, <2>7 DEF ReplicaInv
<1> QED BY <1>1, <1>2 DEF Side

LEMMA DeliverStep ==
  ASSUME ReplicaInv, NEW s \in Side, Deliver(s)
  PROVE  ReplicaInv' /\ Grows(M, M') /\ Grows(R, R')
<1> DEFINE b == box[s]
           n == b.last_uid + 1
           f == CHOOSE f \in Flags : TRUE
<1>0. IsMailbox(b) /\ n \in Nat /\ n > b.last_uid
  BY MailboxFields DEF ReplicaInv, Types, TypeOK
<1>1. f \in Flags BY ReplicaAssumption
<1>2. PICK g \in Guid, t \in Clock[s] :
        /\ g \notin got
        /\ Change(s, append(b, n, [guid |-> g, flags |-> f, expunged |-> FALSE,
                                   modseq |-> 0, last_updated |-> 0], t))
        /\ got' = got \cup {g}
        /\ UNCHANGED removed
  BY DEF Deliver
<1> HIDE DEF f
<1> DEFINE r == [guid |-> g, flags |-> f, expunged |-> FALSE, modseq |-> 0, last_updated |-> 0]
           c == append(b, n, r, t)
<1>3. r \in Record /\ r.guid = g /\ ~r.expunged BY <1>1 DEF Record
<1>4. t \in Nat BY ReplicaAssumption DEF Side
<1>5. box' = [box EXCEPT ![s] = c] /\ UNCHANGED <<client, dropped, faults>> BY <1>2 DEF Change
<1> HIDE DEF r
<1>6. /\ IsMailbox(c) /\ DOMAIN c.rec = DOMAIN b.rec \cup {n}
      /\ \A v \in DOMAIN b.rec : c.rec[v] = b.rec[v]
      /\ c.rec[n].guid = r.guid /\ c.rec[n].expunged = r.expunged /\ n \notin DOMAIN b.rec
  BY <1>0, <1>3, <1>4, Appended
<1>7. Grows(b, c) BY <1>0, <1>3, <1>4, AppendGrows
<1>8. guids(c) = guids(b) \cup {r.guid} BY <1>0, <1>3, <1>4, AppendGuids
<1> HIDE DEF c, n
<1>9. Gone' = Gone BY <1>2, <1>5 DEF Gone
<1>10. Known(got, b) BY DEF ReplicaInv, Single, M, R, Side
<1>11. Fresh(got, b, c) BY <1>2, <1>3, <1>6 DEF Fresh
<1>12. Known(got', c) BY <1>2, <1>3, <1>6, <1>10 DEF Known
<1>13. \A u \in DOMAIN c.rec : c.rec[u].expunged => u \in DOMAIN b.rec /\ b.rec[u].expunged
  BY <1>3, <1>6
<1>14. UserChange(b, c, Gone, Gone', got, got')
  BY <1>2, <1>3, <1>6, <1>7, <1>8, <1>9, <1>11, <1>12, <1>13 DEF UserChange
<1>15. removed' \subseteq Guid /\ got' \subseteq Guid BY <1>2 DEF ReplicaInv, Types
<1> QED BY <1>5, <1>14, <1>15, UserStep

LEMMA StoreStep ==
  ASSUME ReplicaInv, NEW s \in Side, Store(s)
  PROVE  ReplicaInv' /\ Grows(M, M') /\ Grows(R, R')
<1> DEFINE b == box[s]
<1>0. IsMailbox(b) BY DEF ReplicaInv, Types, TypeOK
<1>1. PICK u \in live(b), f \in Flags, t \in Clock[s] :
        /\ Change(s, rewrite(b, u, [b.rec[u] EXCEPT !.flags = f], t))
        /\ UNCHANGED <<got, removed>>
  BY DEF Store
<1> DEFINE r == [b.rec[u] EXCEPT !.flags = f]
           c == rewrite(b, u, r, t)
<1>2. u \in DOMAIN b.rec /\ ~b.rec[u].expunged /\ b.rec[u] \in Record
  BY <1>0, GuidsOf, MailboxFields
<1>3. r \in Record /\ r.guid = b.rec[u].guid /\ r.expunged = b.rec[u].expunged
  BY <1>2, RecordFlags
<1>4. t \in Nat BY ReplicaAssumption DEF Side
<1>5. box' = [box EXCEPT ![s] = c] /\ UNCHANGED <<client, dropped, faults>> BY <1>1 DEF Change
<1> HIDE DEF r
<1>6. /\ IsMailbox(c) /\ DOMAIN c.rec = DOMAIN b.rec
      /\ \A v \in DOMAIN b.rec \ {u} : c.rec[v] = b.rec[v]
      /\ c.rec[u].guid = r.guid /\ c.rec[u].expunged = r.expunged
  BY <1>0, <1>2, <1>3, <1>4, Rewritten
<1>7. Grows(b, c) BY <1>0, <1>2, <1>3, <1>4, RewriteGrows
<1> HIDE DEF c
<1>8. \A v \in DOMAIN b.rec :
        c.rec[v].guid = b.rec[v].guid /\ (c.rec[v].expunged <=> b.rec[v].expunged)
  BY <1>3, <1>6
<1>9. guids(c) = guids(b) BY <1>6, <1>8 DEF guids, live
<1>10. Known(got, b) BY DEF ReplicaInv, Single, M, R, Side
<1>11. Gone' = Gone /\ got' = got /\ removed' = removed BY <1>1, <1>5 DEF Gone
<1>12. UserChange(b, c, Gone, Gone', got, got')
  BY <1>6, <1>7, <1>8, <1>9, <1>10, <1>11 DEF UserChange, Known, Fresh
<1>13. removed' \subseteq Guid /\ got' \subseteq Guid BY <1>11 DEF ReplicaInv, Types
<1> QED BY <1>5, <1>12, <1>13, UserStep

LEMMA ExpungeStep ==
  ASSUME ReplicaInv, NEW s \in Side, Expunge(s)
  PROVE  ReplicaInv' /\ Grows(M, M') /\ Grows(R, R')
<1> DEFINE b == box[s]
<1>0. IsMailbox(b) BY DEF ReplicaInv, Types, TypeOK
<1>1. PICK u \in live(b), t \in Clock[s] :
        /\ Change(s, rewrite(b, u, [b.rec[u] EXCEPT !.expunged = TRUE], t))
        /\ removed' = removed \cup {b.rec[u].guid}
        /\ UNCHANGED got
  BY DEF Expunge
<1> DEFINE r == [b.rec[u] EXCEPT !.expunged = TRUE]
           c == rewrite(b, u, r, t)
<1>2. u \in DOMAIN b.rec /\ b.rec[u] \in Record /\ b.rec[u].guid \in Guid
  BY <1>0, GuidsOf, MailboxFields
<1>3. r \in Record /\ r.guid = b.rec[u].guid /\ r.expunged BY <1>2, RecordExpunge
<1>4. t \in Nat BY ReplicaAssumption DEF Side
<1>5. box' = [box EXCEPT ![s] = c] /\ UNCHANGED <<client, dropped, faults>> BY <1>1 DEF Change
<1> HIDE DEF r
<1>6. /\ IsMailbox(c) /\ DOMAIN c.rec = DOMAIN b.rec
      /\ \A v \in DOMAIN b.rec \ {u} : c.rec[v] = b.rec[v]
      /\ c.rec[u].guid = r.guid
  <2>1. r \in Record BY <1>3
  <2> QED BY <1>0, <1>2, <1>4, <2>1, Rewritten
<1>7. Grows(b, c) BY <1>0, <1>2, <1>3, <1>4, RewriteGrows
<1> HIDE DEF c
<1>8. \A v \in DOMAIN b.rec : c.rec[v].guid = b.rec[v].guid BY <1>3, <1>6
<1>9. guids(b) \subseteq guids(c) \cup {b.rec[u].guid} BY <1>6 DEF guids, live
<1>10. Known(got, b) BY DEF ReplicaInv, Single, M, R, Side
<1>11. Gone' = Gone \cup {b.rec[u].guid} /\ got' = got BY <1>1, <1>5 DEF Gone
<1>12. \A v \in DOMAIN c.rec : c.rec[v].expunged =>
         c.rec[v].guid \in Gone' \/ (v \in DOMAIN b.rec /\ b.rec[v].expunged)
  BY <1>6, <1>8, <1>11
<1>13. UserChange(b, c, Gone, Gone', got, got')
  BY <1>6, <1>7, <1>8, <1>9, <1>10, <1>11, <1>12 DEF UserChange, Known, Fresh
<1>14. removed' \subseteq Guid /\ got' \subseteq Guid BY <1>1, <1>2 DEF ReplicaInv, Types
<1> QED BY <1>5, <1>13, <1>14, UserStep

LEMMA ExpireStep ==
  ASSUME ReplicaInv, NEW s \in Side, Expire(s)
  PROVE  ReplicaInv' /\ Grows(M, M') /\ Grows(R, R')
<1> DEFINE b == box[s]
<1>0. IsMailbox(b) BY DEF ReplicaInv, Types, TypeOK
<1>1. PICK t \in Clock[s] :
        LET old == {u \in DOMAIN b.rec \ live(b) : b.rec[u].last_updated <= t} IN
        old # {} /\ Change(s, repack(b, old)) /\ UNCHANGED <<got, removed>>
  BY DEF Expire
<1> DEFINE old == {u \in DOMAIN b.rec \ live(b) : b.rec[u].last_updated <= t}
           c == repack(b, old)
<1>2. old # {} /\ old \subseteq DOMAIN b.rec \ live(b) /\ got' = got /\ removed' = removed
  BY <1>1
<1>5. box' = [box EXCEPT ![s] = c] /\ UNCHANGED <<client, dropped, faults>> BY <1>1 DEF Change
<1> HIDE DEF old
<1>6. /\ IsMailbox(c) /\ DOMAIN c.rec = DOMAIN b.rec \ old
      /\ \A v \in DOMAIN c.rec : c.rec[v] = b.rec[v]
  BY <1>0, <1>2, Repacked
<1>7. Grows(b, c) BY <1>0, <1>2, RepackGrows
<1> HIDE DEF c
<1>8. guids(c) = guids(b)
  <2>1. live(c) = live(b) BY <1>2, <1>6 DEF live
  <2>2. \A v \in live(b) : c.rec[v] = b.rec[v] BY <1>6, <2>1 DEF live
  <2> QED BY <2>1, <2>2 DEF guids
<1>10. Known(got, b) BY DEF ReplicaInv, Single, M, R, Side
<1>11. Gone' = Gone BY <1>2, <1>5 DEF Gone
<1>12. UserChange(b, c, Gone, Gone', got, got')
  BY <1>2, <1>6, <1>7, <1>8, <1>10, <1>11 DEF UserChange, Known, Fresh
<1>13. removed' \subseteq Guid /\ got' \subseteq Guid BY <1>2 DEF ReplicaInv, Types
<1> QED BY <1>5, <1>12, <1>13, UserStep

-----------------------------------------------------------------------------
\* The client

LEMMA NotNone ==
  ASSUME NEW x, "rec" \in DOMAIN x
  PROVE  x # none
BY DEF none

\* What the invariant says of the variables, in the form the steps below need
LEMMA InvFacts ==
  ASSUME ReplicaInv
  PROVE  /\ DOMAIN box = Side /\ IsMailbox(M) /\ IsMailbox(R) /\ Grows(M, M) /\ Grows(R, R)
         /\ M.last_uid \in Nat /\ R.last_uid \in Nat
         /\ box["master"] = M /\ box["replica"] = R
         /\ BoxLoss(M, R, Gone, got) /\ Known(got, M) /\ Known(got, R)
         /\ (faults = 0 => BoxSingle(M, R, kuids)) /\ faults \in Nat
         /\ (pc \notin {"expunge", "cleanup"} => kuids = {})
BY GrowsSame, MailboxFields DEF ReplicaInv, Types, TypeOK, Loss, Single, Side, M, R

\* A step after which the client holds nothing that matters
LEMMA QuietStep ==
  ASSUME pc' \notin {"merge", "apply", "expunge", "cleanup"}, kuids' = {},
         BoxLoss(M', R', Gone', got'), Known(got', M'), Known(got', R'),
         faults' = 0 => BoxSingle(M', R', {})
  PROVE  Loss' /\ Single'
BY DEF Loss, Single

LEMMA SameBoxes ==
  ASSUME box' = box
  PROVE  M' = M /\ R' = R
BY DEF M, R

\* sync_do_mailboxes and the second attempt
LEMMA FetchStep ==
  ASSUME ReplicaInv, Lookup \/ Refetch
  PROVE  ReplicaInv' /\ Grows(M, M') /\ Grows(R, R')
<1>1. /\ box' = box /\ pc' = "once" /\ pc \in {"idle", "refetch"} /\ attempt' = attempt
      /\ msg' = msg /\ snap' = snap /\ kuids' = kuids
      /\ got' = got /\ removed' = removed /\ dropped' = dropped /\ faults' = faults
  BY DEF Lookup, Refetch, step
<1>2. M' = M /\ R' = R /\ Gone' = Gone BY <1>1, SameBoxes DEF Gone
<1>3. IsFolder(folder(R), R.last_uid) BY InvFacts DEF IsFolder, folder
<1>4. \/ cache # none /\ cache[1] = "MAILBOX" /\ remote' = cache[2] /\ cache' = cache
      \/ remote' = folder(R) /\ cache' = IF Cached THEN <<"MAILBOX", folder(R)>> ELSE none
  BY DEF Lookup, Refetch, store, R
<1>5. /\ IsFolder(remote', R.last_uid)
      /\ (cache' # none => Cached)
      /\ (cache' # none /\ cache'[1] = "MAILBOX" => IsFolder(cache'[2], R.last_uid))
  <2>1. <<"MAILBOX", folder(R)>>[1] = "MAILBOX" /\ <<"MAILBOX", folder(R)>>[2] = folder(R)
    OBVIOUS
  <2>2. /\ (cache # none => Cached)
        /\ (cache # none /\ cache[1] = "MAILBOX" => IsFolder(cache[2], R.last_uid))
    BY DEF ReplicaInv, Types, TypeOK
  <2> HIDE DEF none
  <2> QED BY <1>3, <1>4, <2>1, <2>2
<1>6. Types'
  <2>1. TypeOK' BY <1>1, <1>5 DEF ReplicaInv, Types, TypeOK, none
  <2> QED BY <1>1, <1>2, <1>5, <2>1 DEF ReplicaInv, Types, none
<1>7. Loss' /\ Single' BY <1>1, <1>2, InvFacts, QuietStep
<1> QED BY <1>2, <1>6, <1>7, InvFacts DEF ReplicaInv

LEMMA PreparedMessage ==
  ASSUME NEW b, IsMailbox(b), NEW n \in Nat, IsFolder(remote, n)
  PROVE  LET c == prepared(b)
         IN  /\ IsMessage(c, n)
             /\ \A u \in DOMAIN c.rec : u \in DOMAIN b.rec /\ c.rec[u] = b.rec[u]
             /\ live(c) \subseteq live(b)
<1> DEFINE c == prepared(b)
           new == {u \in DOMAIN b.rec : b.rec[u].modseq > remote.highestmodseq}
<1>1. /\ DOMAIN c = {"rec", "files", "since", "to"} /\ c.rec = [u \in new |-> b.rec[u]]
      /\ c.files = {u \in new : u > remote.last_uid}
      /\ c.to.last_uid = b.last_uid /\ c.to.highestmodseq = b.highestmodseq
  BY DEF prepared, folder
<1> HIDE DEF c
<1>2. DOMAIN c.rec = new /\ new \subseteq DOMAIN b.rec /\ \A u \in new : c.rec[u] = b.rec[u]
  BY <1>1
<1>3. \A u \in new : u > n => u \in c.files BY <1>1, MailboxFields DEF IsFolder
<1>4. c.rec \in [DOMAIN c.rec -> Record] BY <1>1, <1>2, MailboxFields
<1> HIDE DEF new
<1>5. IsMessage(c, n) BY <1>1, <1>2, <1>3, <1>4, MailboxFields DEF IsMessage
<1>6. live(c) \subseteq live(b) BY <1>2 DEF live
<1> QED BY <1>2, <1>5, <1>6 DEF c

\* update_mailbox_once
LEMMA OnceStep ==
  ASSUME ReplicaInv, Once
  PROVE  ReplicaInv' /\ Grows(M, M') /\ Grows(R, R')
<1>1. /\ box' = box /\ pc = "once" /\ remote' = none /\ snap' = snap /\ kuids' = kuids
      /\ got' = got /\ removed' = removed /\ dropped' = dropped /\ faults' = faults
  BY DEF Once, step
<1>2. M' = M /\ R' = R /\ Gone' = Gone BY <1>1, SameBoxes DEF Gone
<1>3. \/ pc' \in {"full", "idle"} /\ attempt' \in {attempt, 0} /\ msg' = msg /\ cache' \in {cache, none}
      \/ pc' = "apply" /\ attempt' = attempt /\ msg' = prepared(M) /\ cache' = cache
  BY DEF Once, step, uncache, M
<1>4. CASE pc' \in {"full", "idle"} /\ attempt' \in {attempt, 0} /\ msg' = msg /\ cache' \in {cache, none}
  <2>1. TypeOK' BY <1>1, <1>4 DEF ReplicaInv, Types, TypeOK, none
  <2>2. Types' BY <1>1, <1>2, <1>4, <2>1 DEF ReplicaInv, Types, none
  <2>3. Loss' /\ Single' BY <1>1, <1>2, <1>4, InvFacts, QuietStep
  <2> QED BY <1>2, <2>2, <2>3, InvFacts DEF ReplicaInv
<1>5. CASE pc' = "apply" /\ attempt' = attempt /\ msg' = prepared(M) /\ cache' = cache
  <2>0. IsMailbox(M) /\ R.last_uid \in Nat /\ IsFolder(remote, R.last_uid)
    BY <1>1, InvFacts DEF ReplicaInv, Types
  <2>1. /\ IsMessage(msg', R.last_uid)
        /\ \A u \in DOMAIN msg'.rec : u \in DOMAIN M.rec /\ msg'.rec[u] = M.rec[u]
        /\ live(msg') \subseteq live(M)
    <3>1. LET c == prepared(M)
          IN  /\ IsMessage(c, R.last_uid)
              /\ \A u \in DOMAIN c.rec : u \in DOMAIN M.rec /\ c.rec[u] = M.rec[u]
              /\ live(c) \subseteq live(M)
      BY <2>0, PreparedMessage
    <3> QED BY <1>5, <3>1
  <2>2. msg' # none BY <2>1, NotNone DEF IsMessage
  <2>3. TypeOK' BY <1>1, <1>5, <2>2 DEF ReplicaInv, Types, TypeOK
  <2>4. Types' BY <1>1, <1>2, <1>5, <2>1, <2>3 DEF ReplicaInv, Types
  <2>5. ApplyLoss(M, Gone, msg')
    <3>1. Kept(M, Gone, msg') BY <2>1, InvFacts DEF BoxLoss, Kept
    <3>2. ASSUME NEW u \in DOMAIN msg'.rec, msg'.rec[u].expunged
          PROVE  Burnt(M, u, msg'.rec[u].guid)
      <4>1. u \in DOMAIN M.rec /\ M.rec[u].expunged BY <2>1, <3>2
      <4>2. u <= M.last_uid BY <2>0, <4>1, MailboxFields
      <4> QED BY <4>1, <4>2 DEF Burnt, live
    <3> QED BY <3>1, <3>2 DEF ApplyLoss
  <2>6. Loss' BY <1>2, <1>1, <1>5, <2>5, InvFacts DEF Loss
  <2>7. Known(got, msg') BY <2>1, InvFacts DEF Known
  <2>8. faults = 0 => ApplySingle(M, R, msg')
    <3>1. \A u \in live(msg') : u \in live(M) /\ msg'.rec[u].guid = M.rec[u].guid
      BY <2>1 DEF live
    <3>2. kuids = {} BY <1>1, InvFacts
    <3> QED BY <3>1, <3>2, InvFacts DEF BoxSingle, ApplySingle, Cross
  <2>9. Single' BY <1>1, <1>2, <1>5, <2>7, <2>8, InvFacts DEF Single
  <2> QED BY <1>2, <2>4, <2>6, <2>9, InvFacts DEF ReplicaInv
<1> QED BY <1>3, <1>4, <1>5

\* GET FULLMAILBOX
LEMMA FullStep ==
  ASSUME ReplicaInv, Full
  PROVE  ReplicaInv' /\ Grows(M, M') /\ Grows(R, R')
<1>1. /\ box' = box /\ pc = "full" /\ pc' = "merge" /\ snap' = R /\ attempt' = attempt
      /\ remote' = remote /\ msg' = msg /\ kuids' = kuids
      /\ cache' = IF Cached THEN <<"FULLMAILBOX">> ELSE none
      /\ got' = got /\ removed' = removed /\ dropped' = dropped /\ faults' = faults
  BY DEF Full, step, store, R
<1>2. M' = M /\ R' = R /\ Gone' = Gone BY <1>1, SameBoxes DEF Gone
<1>3. R # none BY InvFacts, NotNone DEF IsMailbox
<1>4. (cache' # none => Cached) /\ ~(cache' # none /\ cache'[1] = "MAILBOX") BY <1>1
<1>5. TypeOK' BY <1>1, <1>3, <1>4 DEF ReplicaInv, Types, TypeOK
<1>6. Types' BY <1>1, <1>2, <1>4, <1>5, InvFacts DEF ReplicaInv, Types
<1>7. Loss' BY <1>1, <1>2, InvFacts DEF Loss, MergeLoss, BoxLoss
<1>8. faults = 0 => MergeSingle(M, R, R)
  <2>1. kuids = {} BY <1>1, InvFacts
  <2>2. \A u \in DOMAIN R.rec : ~(u > R.last_uid) BY InvFacts, MailboxFields
  <2> QED BY <2>1, <2>2, InvFacts DEF BoxSingle, MergeSingle, Cross
<1>9. Single' BY <1>1, <1>2, <1>8, InvFacts DEF Single
<1> QED BY <1>2, <1>6, <1>7, <1>9, InvFacts DEF ReplicaInv

\* sync_apply_mailbox
LEMMA AfterBox ==
  ASSUME ReplicaInv, pc = "apply"
  PROVE  /\ IsMailbox(after(R)) /\ Grows(R, after(R))
         /\ BoxLoss(M, after(R), Gone, got) /\ Known(got, after(R))
         /\ (faults = 0 => BoxSingle(M, after(R), {}))
         /\ (~changed(R) /\ ~mismatch(R) => after(R).last_uid = msg.to.last_uid)
<1>0. /\ IsMailbox(M) /\ IsMailbox(R) /\ IsMessage(msg, R.last_uid) /\ kuids = {}
      /\ ApplyLoss(M, Gone, msg) /\ Known(got, msg)
      /\ (faults = 0 => ApplySingle(M, R, msg))
  BY InvFacts DEF ReplicaInv, Types, Loss, Single
<1>1. CASE changed(R) \/ mismatch(R)
  <2>1. after(R) = R BY <1>1 DEF after
  <2> QED BY <1>0, <1>1, <2>1, InvFacts
<1>2. CASE ~(changed(R) \/ mismatch(R))
  <2> DEFINE c == applied(R)
             W == written(R)
             f == [u \in DOMAIN R.rec \cup W |-> IF u \in W THEN msg.rec[u] ELSE R.rec[u]]
  <2>1. after(R) = c BY <1>2 DEF after
  <2>2. /\ DOMAIN c = {"rec", "last_uid", "highestmodseq", "deletedmodseq"}
        /\ c.rec = f /\ c.last_uid = msg.to.last_uid /\ c.highestmodseq = msg.to.highestmodseq
        /\ c.deletedmodseq = R.deletedmodseq
    BY <1>0 DEF applied, IsMailbox
  <2>3. W \subseteq DOMAIN msg.rec BY DEF written
  <2>4. \A u \in W : /\ u \in DOMAIN R.rec => /\ R.rec[u].guid = msg.rec[u].guid
                                              /\ ~R.rec[u].expunged
                     /\ u \notin DOMAIN R.rec => u > R.last_uid
    BY <1>2 DEF written, mismatch, conflict
  <2>5. /\ msg.to.highestmodseq \in Nat /\ R.highestmodseq <= msg.to.highestmodseq
        /\ msg.to.last_uid \in Nat /\ R.last_uid <= msg.to.last_uid
    BY <1>0, <1>2, MailboxFields DEF mismatch, IsMessage
  <2> HIDE DEF c, W
  <2>6. /\ DOMAIN c.rec = DOMAIN R.rec \cup W
        /\ \A u \in W : c.rec[u] = msg.rec[u]
        /\ \A u \in DOMAIN R.rec \ W : c.rec[u] = R.rec[u]
    BY <2>2
  <2>7. \A u \in W : msg.rec[u] \in Record /\ u \in 1 .. msg.to.last_uid
                     /\ msg.rec[u].modseq <= msg.to.highestmodseq
    BY <1>0, <2>3 DEF IsMessage
  <2>8. IsMailbox(c)
    <3>1. c.rec \in [DOMAIN c.rec -> Record] BY <1>0, <2>2, <2>7, MailboxFields
    <3>2. \A u \in DOMAIN R.rec : u \in 1 .. msg.to.last_uid /\ R.rec[u].modseq <= msg.to.highestmodseq
      BY <1>0, <2>5, MailboxFields
    <3>3. \A u \in DOMAIN c.rec : u \in 1 .. c.last_uid /\ c.rec[u].modseq <= c.highestmodseq
      BY <2>2, <2>6, <2>7, <3>2
    <3>4. c.deletedmodseq \in 0 .. c.highestmodseq BY <1>0, <2>2, <2>5, MailboxFields
    <3> QED BY <2>2, <2>5, <3>1, <3>3, <3>4 DEF IsMailbox
  <2>9. Grows(R, c)
    <3>1. \A u \in DOMAIN c.rec : u <= R.last_uid => u \in DOMAIN R.rec
      BY <1>0, <2>4, <2>6, <2>7, MailboxFields
    <3> QED BY <2>2, <2>4, <2>5, <2>6, <3>1 DEF Grows
  <2>10. \A u \in live(c) : \/ u \in live(R) /\ c.rec[u].guid = R.rec[u].guid
                            \/ u \in live(msg) /\ c.rec[u].guid = msg.rec[u].guid
    BY <2>3, <2>6 DEF live
  <2>11. guids(R) \subseteq guids(c) \cup Gone \cup guids(M)
    <3> SUFFICES ASSUME NEW u \in live(R)
                 PROVE  R.rec[u].guid \in guids(c) \cup Gone \cup guids(M)
      BY DEF guids
    <3>1. u \in DOMAIN R.rec /\ u \in DOMAIN c.rec BY <2>6, GuidsOf
    <3>2. CASE u \notin W
      BY <2>6, <3>1, <3>2 DEF guids, live
    <3>3. CASE u \in W /\ ~msg.rec[u].expunged
      <4>1. u \in live(c) /\ c.rec[u].guid = R.rec[u].guid BY <2>4, <2>6, <3>1, <3>3 DEF live
      <4> QED BY <4>1 DEF guids
    <3>4. CASE u \in W /\ msg.rec[u].expunged
      <4>1. msg.rec[u].guid \in Gone \cup guids(M) BY <1>0, <2>3, <3>4 DEF ApplyLoss, Kept
      <4> QED BY <2>4, <3>1, <3>4, <4>1
    <3> QED BY <3>2, <3>3, <3>4
  <2>12. Excused(M, Gone, c)
    <3> SUFFICES ASSUME NEW u \in DOMAIN c.rec, c.rec[u].expunged
                 PROVE  c.rec[u].guid \in Gone \/ Burnt(M, u, c.rec[u].guid)
      BY DEF Excused
    <3>1. CASE u \in W BY <1>0, <2>3, <2>6, <3>1 DEF ApplyLoss
    <3>2. CASE u \notin W BY <2>6, <3>2, InvFacts DEF BoxLoss, Excused
    <3> QED BY <3>1, <3>2
  <2>13. BoxLoss(M, c, Gone, got)
    <3>1. got \subseteq got \cup guids(c) OBVIOUS
    <3> HIDE DEF f
    <3> QED BY <1>0, <2>8, <2>9, <2>11, <2>12, <3>1, InvFacts, LossReplica
  <2>14. Known(got, c) BY <1>0, <2>3, <2>6, InvFacts DEF Known
  <2>15. ASSUME faults = 0 PROVE BoxSingle(M, c, {})
    <3>1. Cross(c, c) BY <1>0, <2>10, <2>15, InvFacts DEF BoxSingle, ApplySingle, Cross
    <3>2. \A u \in live(M), v \in live(c) : M.rec[u].guid = c.rec[v].guid => u = v
      BY <1>0, <2>10, <2>15, InvFacts DEF BoxSingle, ApplySingle, Cross
    <3>3. Cross(M, M) BY <2>15, InvFacts DEF BoxSingle
    <3> QED BY <3>1, <3>2, <3>3 DEF BoxSingle
  <2> QED BY <2>1, <2>2, <2>8, <2>9, <2>13, <2>14, <2>15
<1> QED BY <1>1, <1>2

LEMMA ReplicaBox ==
  ASSUME ReplicaInv, NEW c, box' = [box EXCEPT !["replica"] = c]
  PROVE  DOMAIN box' = Side /\ M' = M /\ R' = c
BY InvFacts DEF M, R, Side

\* The types after a step to one of the quiet states
LEMMA QuietTypes ==
  ASSUME ReplicaInv, pc' \in {"idle", "refetch", "full"}, attempt' \in 0 .. 2,
         msg' = none, snap' = none, kuids' = {}, DOMAIN box' = Side,
         IsMailbox(M'), IsMailbox(R'), Grows(M, M'), Grows(R, R'),
         \/ cache' \in {cache, none}
         \/ \E f : cache' = (IF Cached THEN <<"MAILBOX", f>> ELSE none) /\ IsFolder(f, R'.last_uid),
         removed' = removed, dropped' = dropped, got' = got, faults' \in Nat
  PROVE  Types'
<1>0. R.last_uid <= R'.last_uid /\ R.last_uid \in Nat /\ R'.last_uid \in Nat
  BY InvFacts, MailboxFields DEF Grows
<1>1. /\ (cache' # none => Cached)
      /\ (cache' # none /\ cache'[1] = "MAILBOX" => IsFolder(cache'[2], R'.last_uid))
  <2>1. CASE cache' \in {cache, none}
    BY <1>0, <2>1 DEF ReplicaInv, Types, TypeOK, none, IsFolder
  <2>2. CASE \E f : cache' = (IF Cached THEN <<"MAILBOX", f>> ELSE none)
                    /\ IsFolder(f, R'.last_uid)
    <3>1. PICK f : cache' = (IF Cached THEN <<"MAILBOX", f>> ELSE none)
                   /\ IsFolder(f, R'.last_uid)
      BY <2>2
    <3> QED BY <3>1
  <2> QED BY <2>1, <2>2
<1>2. \A s \in Side : IsMailbox(box'[s]) BY DEF M, R, Side
<1>3. TypeOK' BY <1>1, <1>2 DEF TypeOK, Side
<1> QED BY <1>1, <1>3 DEF Types, ReplicaInv

LEMMA ApplyStep ==
  ASSUME ReplicaInv, Apply
  PROVE  ReplicaInv' /\ Grows(M, M') /\ Grows(R, R')
<1> DEFINE c == after(R)
<1>1. /\ pc = "apply" /\ box' = [box EXCEPT !["replica"] = c] /\ msg' = none /\ snap' = snap
      /\ kuids' = kuids /\ remote' = remote
      /\ got' = got /\ removed' = removed /\ dropped' = dropped /\ faults' = faults
      /\ pc' \in {"idle", "refetch", "full"} /\ attempt' \in {0, 1, attempt}
  <2>1. box' = [box EXCEPT !["replica"] = c] BY DEF Apply, R
  <2> QED BY <2>1 DEF Apply, step
<1>2. /\ IsMailbox(c) /\ Grows(R, c) /\ BoxLoss(M, c, Gone, got) /\ Known(got, c)
      /\ (faults = 0 => BoxSingle(M, c, {}))
      /\ (~changed(R) /\ ~mismatch(R) => c.last_uid = msg.to.last_uid)
  BY <1>1, AfterBox
<1> HIDE DEF c
<1>3. DOMAIN box' = Side /\ M' = M /\ R' = c /\ Gone' = Gone BY <1>1, ReplicaBox DEF Gone
<1>4. \/ cache' = none
      \/ /\ cache' = (IF Cached THEN <<"MAILBOX", msg.to>> ELSE none)
         /\ ~changed(R) /\ ~mismatch(R)
  <2>1. answer(R) = "OK" => ~changed(R) /\ ~mismatch(R) BY DEF answer
  <2> QED BY <2>1 DEF Apply, store, uncache, R
<1>5. msg.to.last_uid \in Nat /\ snap = none /\ kuids = {} /\ attempt \in 0 .. 2
  BY <1>1, InvFacts DEF ReplicaInv, Types, TypeOK, IsMessage
<1>6. \/ cache' \in {cache, none}
      \/ \E f : cache' = (IF Cached THEN <<"MAILBOX", f>> ELSE none) /\ IsFolder(f, R'.last_uid)
  <2>1. CASE cache' = none BY <2>1
  <2>2. CASE cache' = (IF Cached THEN <<"MAILBOX", msg.to>> ELSE none)
             /\ ~changed(R) /\ ~mismatch(R)
    <3>1. IsFolder(msg.to, R'.last_uid) BY <1>2, <1>3, <1>5, <2>2 DEF IsFolder
    <3> QED BY <2>2, <3>1
  <2> QED BY <1>4, <2>1, <2>2
<1>7. Types' BY <1>1, <1>2, <1>3, <1>5, <1>6, InvFacts, QuietTypes
<1>8. Loss' /\ Single' BY <1>1, <1>2, <1>3, <1>5, InvFacts, QuietStep
<1> QED BY <1>2, <1>3, <1>7, <1>8, InvFacts DEF ReplicaInv

\* Nothing is lost by what was merged.
LEMMA MergedKeeps ==
  ASSUME ReplicaInv, IsMailbox(snap), Excused(M, Gone, snap), Known(got, snap),
         NEW F, Merged(M, F)
  PROVE  BoxLoss(F, R, Gone, got) /\ Known(got, F) /\ IsMailbox(F) /\ Grows(M, F)
<1>0. IsMailbox(M) /\ IsMailbox(R) BY InvFacts
<1>4. /\ IsMailbox(F) /\ Grows(M, F)
      /\ \A u \in live(M) :
           \/ M.rec[u].guid \in guids(F)
           \/ /\ u \in DOMAIN snap.rec /\ snap.rec[u].expunged
              /\ snap.rec[u].guid = M.rec[u].guid
      /\ \A u \in DOMAIN F.rec : F.rec[u].expunged =>
           \/ F.rec[u].guid \in guids(F)
           \/ /\ u \in DOMAIN M.rec /\ M.rec[u].guid = F.rec[u].guid
              /\ \/ M.rec[u].expunged
                 \/ /\ u \in DOMAIN snap.rec /\ snap.rec[u].expunged
                    /\ snap.rec[u].guid = M.rec[u].guid
      /\ \A u \in DOMAIN F.rec :
           \/ \E v \in DOMAIN M.rec : M.rec[v].guid = F.rec[u].guid
           \/ \E v \in DOMAIN snap.rec : snap.rec[v].guid = F.rec[u].guid
  BY Zenon DEF Merged
<1>10. ASSUME NEW u \in live(M), u \in DOMAIN snap.rec, snap.rec[u].expunged,
              snap.rec[u].guid = M.rec[u].guid
       PROVE  M.rec[u].guid \in Gone
  BY <1>10 DEF Excused, Burnt
<1>11. guids(M) \subseteq guids(F) \cup Gone
  <2>1. \A u \in live(M) : M.rec[u].guid \in guids(F) \cup Gone BY <1>4, <1>10
  <2> QED BY <2>1 DEF guids
<1>12. Kept(F, Gone, F)
  <2> SUFFICES ASSUME NEW u \in DOMAIN F.rec, F.rec[u].expunged
               PROVE  F.rec[u].guid \in Gone \cup guids(F)
    BY DEF Kept
  <2>1. CASE F.rec[u].guid \in guids(F) BY <2>1
  <2>2. CASE u \in DOMAIN M.rec /\ M.rec[u].guid = F.rec[u].guid /\ M.rec[u].expunged
    <3>1. M.rec[u].guid \in Gone \cup guids(M) BY <2>2, InvFacts DEF BoxLoss, Kept
    <3> QED BY <1>11, <2>2, <3>1
  <2>3. CASE /\ u \in DOMAIN M.rec /\ M.rec[u].guid = F.rec[u].guid /\ ~M.rec[u].expunged
             /\ u \in DOMAIN snap.rec /\ snap.rec[u].expunged
             /\ snap.rec[u].guid = M.rec[u].guid
    <3>1. u \in live(M) BY <2>3 DEF live
    <3> QED BY <1>10, <2>3, <3>1
  <2> QED BY <1>4, <2>1, <2>2, <2>3
<1>13. BoxLoss(F, R, Gone, got)
  <2>1. Gone \subseteq Gone /\ got \subseteq got \cup guids(F) OBVIOUS
  <2> QED BY <1>0, <1>4, <1>11, <1>12, <2>1, InvFacts, LossMaster
<1>14. Known(got, F) BY <1>4, InvFacts DEF Known
<1> QED BY <1>4, <1>13, <1>14

\* mailbox_full_update, on the master: the end of the merge
LEMMA MergeKeeps ==
  ASSUME ReplicaInv, pc = "merge", NEW st, NEW p, NEW F,
         NEW x \in {"expunge", "cleanup"}, NEW y \in {"refetch", "idle"},
         merge(st, p, F, x, y), attempt' \in 0 .. 2, faults' \in Nat, faults' >= faults,
         Merged(M, F),
         Marked(F, uids(st, p, {"COPYBACK", "EXPUNGE"}),
                {snap.rec[u].guid : u \in uids(st, p, {"EXPUNGE"})}),
         faults' = 0 => Alone(F, uids(st, p, {"COPYBACK", "EXPUNGE"}))
  PROVE  ReplicaInv' /\ Grows(M, M') /\ Grows(R, R')
<1>0. /\ pc = "merge" /\ IsMailbox(snap) /\ Grows(snap, R) /\ IsMailbox(M) /\ IsMailbox(R)
      /\ Excused(M, Gone, snap) /\ Known(got, snap) /\ kuids = {} /\ msg = none
      /\ snap.last_uid \in Nat /\ R.last_uid \in Nat /\ snap.last_uid <= R.last_uid
      /\ (faults' = 0 => faults = 0 /\ MergeSingle(M, R, snap))
  <2>1. faults' = 0 => faults = 0 BY InvFacts
  <2>2. IsMailbox(snap) /\ Grows(snap, R) /\ Excused(M, Gone, snap) /\ Known(got, snap)
        /\ msg = none /\ (faults = 0 => MergeSingle(M, R, snap))
    BY DEF ReplicaInv, Types, TypeOK, Loss, MergeLoss, Single
  <2> QED BY <2>1, <2>2, InvFacts, MailboxFields DEF Grows
<1>1. /\ snap' = none /\ remote' = remote /\ msg' = msg /\ cache' = cache
      /\ got' = got /\ removed' = removed
  BY DEF merge
<1> DEFINE ks == uids(st, p, {"COPYBACK", "EXPUNGE"})
           dr == {snap.rec[u].guid : u \in uids(st, p, {"EXPUNGE"})}
<1>5. /\ box' = [box EXCEPT !["master"] = F] /\ kuids' = ks
      /\ pc' = IF ks = {} THEN y ELSE x
      /\ dropped' = dropped \cup dr
  BY DEF merge
<1>3. Marked(F, ks, dr) /\ (faults' = 0 => Alone(F, ks)) OBVIOUS
<1> HIDE DEF ks, dr
<1>4. /\ IsMailbox(F) /\ Grows(M, F)
      /\ \A u \in live(M) :
           \/ M.rec[u].guid \in guids(F)
           \/ /\ u \in DOMAIN snap.rec /\ snap.rec[u].expunged
              /\ snap.rec[u].guid = M.rec[u].guid
      /\ \A u \in DOMAIN F.rec : F.rec[u].expunged =>
           \/ F.rec[u].guid \in guids(F)
           \/ /\ u \in DOMAIN M.rec /\ M.rec[u].guid = F.rec[u].guid
              /\ \/ M.rec[u].expunged
                 \/ /\ u \in DOMAIN snap.rec /\ snap.rec[u].expunged
                    /\ snap.rec[u].guid = M.rec[u].guid
      /\ \A u \in DOMAIN F.rec :
           \/ \E v \in DOMAIN M.rec : M.rec[v].guid = F.rec[u].guid
           \/ \E v \in DOMAIN snap.rec : snap.rec[v].guid = F.rec[u].guid
      /\ \A u \in ks : /\ u \in live(snap) /\ Burnt(F, u, snap.rec[u].guid)
                       /\ snap.rec[u].guid \in guids(F) \cup dr
      /\ dr \subseteq Guid
  BY <1>3, Zenon DEF Merged, Marked
<1>6. DOMAIN box' = Side /\ M' = F /\ R' = R BY <1>5, InvFacts DEF M, R, Side
<1>7. Gone' = Gone \cup dr BY <1>1, <1>5 DEF Gone
<1>8. \A u \in ks : u \in DOMAIN snap.rec /\ u \in Nat /\ 1 <= u /\ u <= snap.last_uid
  BY <1>0, <1>4, GuidsOf, MailboxFields
<1>9. Types'
  <2>1. ks \subseteq 1 .. R.last_uid BY <1>0, <1>8
  <2>2. \A s \in Side : IsMailbox(box'[s]) BY <1>0, <1>4, <1>6 DEF M, R, Side
  <2>3. TypeOK'
    <3>1. kuids' \subseteq 1 .. box'["replica"].last_uid BY <1>5, <1>6, <2>1 DEF R
    <3>2. pc' \in {"refetch", "idle", "expunge", "cleanup"} /\ attempt' \in 0 .. 2 BY <1>5
    <3>3. cache' # none => Cached BY <1>1 DEF ReplicaInv, Types, TypeOK
    <3> QED BY <1>0, <1>1, <1>6, <2>2, <3>1, <3>2, <3>3 DEF TypeOK
  <2>4. pc' \in {"refetch", "idle", "expunge", "cleanup"} BY <1>5
  <2> QED BY <1>1, <1>4, <1>5, <1>6, <2>3, <2>4 DEF ReplicaInv, Types
<1>13. BoxLoss(F, R, Gone', got)
  <2>1. BoxLoss(F, R, Gone, got) BY <1>0, MergedKeeps
  <2>2. Gone \subseteq Gone' BY <1>7
  <2> QED BY <2>1, <2>2 DEF BoxLoss, Excused, Kept
<1>14. ExpungeLoss(F, R, Gone', ks)
  <2> SUFFICES ASSUME NEW u \in ks, u \in DOMAIN R.rec
               PROVE  /\ R.rec[u].guid \in Gone' \cup guids(F)
                      /\ R.rec[u].guid \in Gone' \/ Burnt(F, u, R.rec[u].guid)
    BY DEF ExpungeLoss
  <2>1. R.rec[u].guid = snap.rec[u].guid BY <1>0, <1>8, OldOrNew
  <2> QED BY <1>4, <1>7, <2>1
<1>15. Loss' BY <1>1, <1>5, <1>6, <1>13, <1>14 DEF Loss
<1>16. Known(got, F) BY <1>0, <1>4, InvFacts DEF Known
<1>17. ASSUME faults' = 0 PROVE BoxSingle(F, R, ks)
  <2>1. /\ Cross(F, F)
        /\ \A w \in live(F), v \in live(snap) :
             F.rec[w].guid = snap.rec[v].guid => w = v \/ v \in ks
    BY <1>3, <1>17 DEF Alone
  <2>2. ASSUME NEW w \in live(F), NEW v \in live(R), F.rec[w].guid = R.rec[v].guid
        PROVE  w = v \/ v \in ks
    <3>1. v \in DOMAIN R.rec /\ w \in DOMAIN F.rec /\ v \in Nat
      BY <1>0, GuidsOf, MailboxFields
    <3>2. CASE v <= snap.last_uid
      <4>1. v \in DOMAIN snap.rec BY <1>0, <3>1, <3>2 DEF Grows
      <4>2. v \in live(snap) /\ R.rec[v].guid = snap.rec[v].guid BY <1>0, <3>1, <4>1, OldOrNew
      <4> QED BY <2>1, <2>2, <4>2
    <3>3. CASE v > snap.last_uid
      BY <1>0, <1>4, <1>17, <2>2, <3>1, <3>3 DEF MergeSingle
    <3> QED BY <1>0, <3>1, <3>2, <3>3
  <2>3. Cross(R, R) BY <1>0, <1>17, InvFacts DEF BoxSingle
  <2> QED BY <2>1, <2>2, <2>3 DEF BoxSingle
<1>18. Single' BY <1>1, <1>5, <1>6, <1>16, <1>17, InvFacts DEF Single
<1> QED BY <1>4, <1>6, <1>9, <1>15, <1>18, InvFacts DEF ReplicaInv

\* The loop is gone through, and st is what it leaves.
LEMMA MergeLoop ==
  ASSUME ReplicaInv, pc = "merge", NEW t \in Clock["master"], NEW n \in 0 .. turns(M)
  PROVE  /\ t \in Nat /\ n \in Nat /\ IsMailbox(M) /\ IsMailbox(snap)
         /\ turns(M) \in 0 .. turns(M)
         /\ LoopInv(M, mailbox_update_loop(M, n, t), n)
<1>1. t \in Nat BY ReplicaAssumption
<1>2. IsMailbox(M) /\ IsMailbox(snap) BY InvFacts DEF ReplicaInv, Types
<1>3. turns(M) \in Nat BY <1>2, MaxTwo, MailboxFields DEF turns
<1>4. n \in Nat BY <1>3
<1> QED BY <1>1, <1>2, <1>3, <1>4, LoopResult

LEMMA MergeStep ==
  ASSUME ReplicaInv, Merge
  PROVE  ReplicaInv' /\ Grows(M, M') /\ Grows(R, R')
<1>1. pc = "merge" /\ attempt' = 2 /\ faults' = faults BY DEF Merge
<1>2. PICK t \in Clock["master"] :
        LET st == mailbox_update_loop(M, turns(M), t)
            k == Len(st.kaction)
        IN  merge(st, k, done(st, k, t), "expunge", "refetch")
  BY DEF Merge, M
<1> DEFINE st == mailbox_update_loop(M, turns(M), t)
           k == Len(st.kaction)
           F == done(st, k, t)
<1>3. turns(M) \in 0 .. turns(M)
  <2>1. IsMailbox(M) /\ IsMailbox(snap) BY <1>1, InvFacts DEF ReplicaInv, Types
  <2> QED BY <2>1, MaxTwo, MailboxFields DEF turns
<1>4. t \in Nat /\ turns(M) \in Nat /\ IsMailbox(M) /\ IsMailbox(snap) /\ LoopInv(M, st, turns(M))
  BY <1>1, <1>3, MergeLoop
<1>5. merge(st, k, F, "expunge", "refetch") BY <1>2
<1> HIDE DEF st
<1>6. k \in Nat /\ k \in 0 .. k BY <1>4 DEF LoopInv
<1>7. /\ Acted(M, st, F, k)
      /\ Cross(M, M) /\ Cross(M, snap) /\ Cross(snap, snap) => OnceInv(st.kaction, F, k)
  BY <1>4, <1>6, DoneResult DEF Acted
<1>8. faults = 0 => Cross(M, M) /\ Cross(M, snap) /\ Cross(snap, snap)
  BY <1>1 DEF ReplicaInv, Single, BoxSingle, MergeSingle
<1> HIDE DEF F
<1>9. /\ Merged(M, F)
      /\ Marked(F, uids(st, k, {"COPYBACK", "EXPUNGE"}),
                {snap.rec[u].guid : u \in uids(st, k, {"EXPUNGE"})})
      /\ OnceInv(st.kaction, F, k) => Alone(F, uids(st, k, {"COPYBACK", "EXPUNGE"}))
  <2>1. k <= k BY <1>6
  <2> QED BY <1>4, <1>6, <1>7, <2>1, MergeResult
<1> HIDE DEF k
<1>10. faults' \in Nat /\ faults' >= faults /\ attempt' \in 0 .. 2 BY <1>1, InvFacts
<1> QED BY <1>1, <1>5, <1>7, <1>8, <1>9, <1>10, MergeKeeps

\* An action fails
LEMMA ActionFailsStep ==
  ASSUME ReplicaInv, ActionFails
  PROVE  ReplicaInv' /\ Grows(M, M') /\ Grows(R, R')
<1>1. pc = "merge" /\ attempt' = 0 /\ faults' = faults + 1 BY DEF ActionFails
<1>2. PICK t \in Clock["master"] :
        LET st == mailbox_update_loop(M, turns(M), t)
        IN  \E k \in 0 .. Len(st.kaction) : \E b \in failing(st, k, t) :
              merge(st, k, b, "cleanup", "idle")
  BY DEF ActionFails, M
<1> DEFINE st == mailbox_update_loop(M, turns(M), t)
<1>3. turns(M) \in 0 .. turns(M)
  <2>1. IsMailbox(M) /\ IsMailbox(snap) BY <1>1, InvFacts DEF ReplicaInv, Types
  <2> QED BY <2>1, MaxTwo, MailboxFields DEF turns
<1>4. t \in Nat /\ turns(M) \in Nat /\ IsMailbox(M) /\ IsMailbox(snap) /\ LoopInv(M, st, turns(M))
  BY <1>1, <1>3, MergeLoop
<1>5. PICK k \in 0 .. Len(st.kaction) : \E b \in failing(st, k, t) :
        merge(st, k, b, "cleanup", "idle")
  BY <1>2
<1>6. PICK F \in failing(st, k, t) : merge(st, k, F, "cleanup", "idle") BY <1>5
<1> HIDE DEF st
<1>7. PICK q \in Nat : k <= q /\ Acted(M, st, F, q) BY <1>4, FailingResult
<1>8. /\ Merged(M, F)
      /\ Marked(F, uids(st, k, {"COPYBACK", "EXPUNGE"}),
                {snap.rec[u].guid : u \in uids(st, k, {"EXPUNGE"})})
  BY <1>4, <1>7, MergeResult
<1>9. faults' \in Nat /\ faults' >= faults /\ attempt' \in 0 .. 2 /\ faults' # 0
  BY <1>1, InvFacts
<1> QED BY <1>1, <1>6, <1>8, <1>9, MergeKeeps

\* sync_apply_expunge
LEMMA ExpungedBox ==
  ASSUME ReplicaInv, pc \in {"expunge", "cleanup"}
  PROVE  /\ IsMailbox(expunged(R)) /\ Grows(R, expunged(R))
         /\ BoxLoss(M, expunged(R), Gone, got) /\ Known(got, expunged(R))
         /\ (faults = 0 => BoxSingle(M, expunged(R), {}))
<1> DEFINE c == expunged(R)
           q(u) == [R.rec[u] EXCEPT !.expunged = @ \/ u \in kuids]
           f == [u \in DOMAIN R.rec |-> q(u)]
<1>0. IsMailbox(M) /\ IsMailbox(R) /\ ExpungeLoss(M, R, Gone, kuids)
  BY InvFacts DEF ReplicaInv, Loss
<1>1. /\ DOMAIN c = {"rec", "last_uid", "highestmodseq", "deletedmodseq"}
      /\ c.rec = f /\ c.last_uid = R.last_uid /\ c.highestmodseq = R.highestmodseq
      /\ c.deletedmodseq = R.deletedmodseq
  <2>1. c = [R EXCEPT !.rec = f] BY Zenon DEF expunged
  <2> HIDE DEF c, f
  <2> QED BY <1>0, <2>1 DEF IsMailbox
<1>2. ASSUME NEW u \in DOMAIN R.rec
      PROVE  /\ q(u) \in Record /\ q(u).guid = R.rec[u].guid /\ q(u).modseq = R.rec[u].modseq
             /\ (q(u).expunged <=> R.rec[u].expunged \/ u \in kuids)
  <2>1. R.rec[u] \in Record /\ R.rec[u].expunged \in BOOLEAN BY <1>0, MailboxFields
  <2>2. (R.rec[u].expunged \/ u \in kuids) \in BOOLEAN OBVIOUS
  <2>3. \A e \in BOOLEAN : LET x == [R.rec[u] EXCEPT !.expunged = e]
                           IN  x \in Record /\ x.guid = R.rec[u].guid /\ x.expunged = e
                               /\ x.modseq = R.rec[u].modseq
    BY <2>1, RecordExpunge
  <2> QED BY <2>2, <2>3
<1> HIDE DEF c, q
<1>3. /\ DOMAIN c.rec = DOMAIN R.rec
      /\ \A u \in DOMAIN R.rec : /\ c.rec[u].guid = R.rec[u].guid
                                 /\ (c.rec[u].expunged <=> R.rec[u].expunged \/ u \in kuids)
  BY <1>1, <1>2
<1>4. IsMailbox(c)
  <2>1. c.rec \in [DOMAIN c.rec -> Record] BY <1>1, <1>2
  <2>2. \A u \in DOMAIN c.rec : c.rec[u].modseq = R.rec[u].modseq BY <1>1, <1>2
  <2> QED BY <1>0, <1>1, <1>3, <2>1, <2>2, MailboxFields DEF IsMailbox
<1>5. Grows(R, c)
  <2>1. \A u \in DOMAIN R.rec : c.rec[u].guid = R.rec[u].guid /\ (R.rec[u].expunged => c.rec[u].expunged)
    BY <1>3, Zenon
  <2>2. R.last_uid <= c.last_uid BY <1>0, <1>1, MailboxFields
  <2> QED BY <1>3, <2>1, <2>2 DEF Grows
<1>6. live(c) = live(R) \ kuids BY <1>3 DEF live
<1>7. guids(R) \subseteq guids(c) \cup Gone \cup guids(M)
  <2> SUFFICES ASSUME NEW u \in live(R)
               PROVE  R.rec[u].guid \in guids(c) \cup Gone \cup guids(M)
    BY DEF guids
  <2>1. u \in DOMAIN R.rec BY GuidsOf
  <2>2. CASE u \in kuids BY <1>0, <2>1, <2>2 DEF ExpungeLoss
  <2>3. CASE u \notin kuids BY <1>3, <1>6, <2>1, <2>3 DEF guids
  <2> QED BY <2>2, <2>3
<1>8. Excused(M, Gone, c)
  BY <1>0, <1>3, InvFacts DEF Excused, ExpungeLoss, BoxLoss
<1>9. BoxLoss(M, c, Gone, got)
  <2>1. got \subseteq got \cup guids(c) OBVIOUS
  <2> QED BY <1>0, <1>4, <1>5, <1>7, <1>8, <2>1, InvFacts, LossReplica
<1>10. Known(got, c) BY <1>3, InvFacts DEF Known
<1>11. ASSUME faults = 0 PROVE BoxSingle(M, c, {})
  <2>1. \A u \in live(c) : u \in live(R) /\ u \notin kuids /\ c.rec[u].guid = R.rec[u].guid
    BY <1>3, <1>6 DEF live
  <2> QED BY <1>11, <2>1, InvFacts DEF BoxSingle, Cross
<1> QED BY <1>4, <1>5, <1>9, <1>10, <1>11 DEF c

LEMMA ApplyExpungeStep ==
  ASSUME ReplicaInv, ApplyExpunge
  PROVE  ReplicaInv' /\ Grows(M, M') /\ Grows(R, R')
<1>1. /\ pc \in {"expunge", "cleanup"} /\ pc' \in {"refetch", "idle"}
      /\ box' = [box EXCEPT !["replica"] = expunged(R)]
      /\ kuids' = {} /\ attempt' = attempt /\ msg' = msg /\ snap' = snap /\ cache' = cache
      /\ got' = got /\ removed' = removed /\ dropped' = dropped /\ faults' = faults
  <2>1. box' = [box EXCEPT !["replica"] = expunged(R)] BY DEF ApplyExpunge, R
  <2> QED BY <2>1 DEF ApplyExpunge, return
<1>2. DOMAIN box' = Side /\ M' = M /\ R' = expunged(R) /\ Gone' = Gone
  BY <1>1, ReplicaBox DEF Gone
<1>3. msg = none /\ snap = none /\ attempt \in 0 .. 2 BY <1>1 DEF ReplicaInv, Types, TypeOK
<1>4. Types' BY <1>1, <1>2, <1>3, ExpungedBox, InvFacts, QuietTypes
<1>5. Loss' /\ Single' BY <1>1, <1>2, ExpungedBox, InvFacts, QuietStep
<1> QED BY <1>1, <1>2, <1>4, <1>5, ExpungedBox, InvFacts DEF ReplicaInv

-----------------------------------------------------------------------------
\* Failures

LEMMA FailureStep ==
  ASSUME ReplicaInv, Failure
  PROVE  ReplicaInv' /\ Grows(M, M') /\ Grows(R, R')
<1>0. SUFFICES ASSUME ~ActionFails PROVE ReplicaInv' /\ Grows(M, M') /\ Grows(R, R')
  BY ActionFailsStep
<1>1. /\ pc' \in {"idle", "refetch"} /\ attempt' \in {0, attempt} /\ kuids' = {}
      /\ msg' = none /\ snap' = none /\ cache' \in {cache, none} /\ faults' = faults + 1
      /\ got' = got /\ removed' = removed /\ dropped' = dropped
  <2>1. CASE fail BY <2>1 DEF fail
  <2>2. CASE ExpungeRefused BY <2>2 DEF ExpungeRefused, return, ReplicaInv, Types, TypeOK
  <2> QED BY <1>0, <2>1, <2>2 DEF Failure, Fail, ApplyUnanswered, ExpungeUnanswered, LoopFails
<1>2. attempt \in 0 .. 2 /\ faults' \in Nat /\ faults' # 0 /\ Gone' = Gone
  BY <1>1 DEF ReplicaInv, Types, TypeOK, Gone
<1>3. SUFFICES /\ DOMAIN box' = Side /\ IsMailbox(M') /\ IsMailbox(R')
               /\ Grows(M, M') /\ Grows(R, R')
               /\ BoxLoss(M', R', Gone, got) /\ Known(got, M') /\ Known(got, R')
  <2>1. Types' BY <1>1, <1>2, <1>3, QuietTypes
  <2>2. Loss' /\ Single' BY <1>1, <1>2, <1>3, QuietStep
  <2> QED BY <1>3, <2>1, <2>2 DEF ReplicaInv
<1>4. CASE Fail \/ ExpungeRefused
  <2>1. box' = box BY <1>4 DEF Fail, ExpungeRefused
  <2> QED BY <2>1, SameBoxes, InvFacts
<1>5. CASE ApplyUnanswered
  <2>1. pc = "apply" /\ box' = [box EXCEPT !["replica"] = after(R)]
    BY <1>5 DEF ApplyUnanswered, R
  <2>2. DOMAIN box' = Side /\ M' = M /\ R' = after(R) BY <2>1, ReplicaBox
  <2>3. /\ IsMailbox(after(R)) /\ Grows(R, after(R))
        /\ BoxLoss(M, after(R), Gone, got) /\ Known(got, after(R))
    BY <2>1, AfterBox
  <2> QED BY <2>2, <2>3, InvFacts
<1>6. CASE ExpungeUnanswered
  <2>1. /\ pc \in {"expunge", "cleanup"}
        /\ box' = [box EXCEPT !["replica"] = expunged(R)]
    BY <1>6 DEF ExpungeUnanswered, R
  <2>2. DOMAIN box' = Side /\ M' = M /\ R' = expunged(R) BY <2>1, ReplicaBox
  <2>3. /\ IsMailbox(expunged(R)) /\ Grows(R, expunged(R))
        /\ BoxLoss(M, expunged(R), Gone, got) /\ Known(got, expunged(R))
    BY <2>1, ExpungedBox
  <2> QED BY <2>2, <2>3, InvFacts
<1>7. CASE LoopFails
  <2>1. pc = "merge" BY <1>7 DEF LoopFails
  <2>2. PICK t \in Clock["master"], n \in 0 .. turns(M) :
          box' = [box EXCEPT !["master"] = mailbox_update_loop(M, n, t).box]
    BY <1>7 DEF LoopFails, M
  <2> DEFINE st == mailbox_update_loop(M, n, t)
             c == st.box
  <2>3. n \in Nat /\ IsMailbox(M) /\ IsMailbox(snap) /\ LoopInv(M, st, n) BY <2>1, MergeLoop
  <2>4. DOMAIN box' = Side /\ M' = c /\ R' = R BY <2>2, InvFacts DEF M, R, Side
  <2> HIDE DEF st
  <2>5. Merged(M, c) BY <2>3, LoopMerged
  <2> HIDE DEF c
  <2>6. Excused(M, Gone, snap) /\ Known(got, snap)
    BY <2>1 DEF ReplicaInv, Loss, MergeLoss, Single
  <2>7. /\ BoxLoss(c, R, Gone, got) /\ Known(got, c) /\ IsMailbox(c) /\ Grows(M, c)
    BY <2>3, <2>5, <2>6, MergedKeeps
  <2> QED BY <2>4, <2>7, InvFacts
<1> QED BY <1>0, <1>4, <1>5, <1>6, <1>7 DEF Failure

-----------------------------------------------------------------------------
\* The invariant

LEMMA ReplicaInvInit == Init => ReplicaInv
<1> SUFFICES ASSUME Init PROVE ReplicaInv OBVIOUS
<1> DEFINE b == [rec |-> <<>>, last_uid |-> 0, highestmodseq |-> 1, deletedmodseq |-> 0]
<1>1. DOMAIN box = Side /\ M = b /\ R = b BY DEF Init, Side, M, R
<1>2. /\ DOMAIN b = {"rec", "last_uid", "highestmodseq", "deletedmodseq"}
      /\ b.rec = <<>> /\ b.last_uid = 0 /\ b.highestmodseq = 1 /\ b.deletedmodseq = 0
  OBVIOUS
<1>3. DOMAIN b.rec = {} /\ b.rec \in [DOMAIN b.rec -> Record] BY <1>2
<1> HIDE DEF b
<1>4. IsMailbox(b) BY <1>2, <1>3 DEF IsMailbox
<1>5. Types
  <2>1. \A s \in Side : IsMailbox(box[s]) BY <1>1, <1>4 DEF M, R, Side
  <2>2. TypeOK BY <1>1, <2>1 DEF Init, TypeOK
  <2> QED BY <2>2 DEF Init, Types
<1>6. live(b) = {} BY <1>3 DEF live
<1>7. BoxLoss(M, R, Gone, got)
  BY <1>1, <1>3 DEF Init, BoxLoss, Excused, Kept
<1>8. Loss BY <1>7 DEF Init, Loss
<1>9. BoxSingle(M, R, kuids) BY <1>1, <1>6 DEF BoxSingle, Cross
<1>10. Known(got, M) /\ Known(got, R) BY <1>1, <1>3 DEF Known
<1>11. Single BY <1>9, <1>10 DEF Init, Single
<1> QED BY <1>5, <1>8, <1>11 DEF ReplicaInv

LEMMA ReplicaInvNext ==
  ASSUME ReplicaInv, [Next]_vars
  PROVE  ReplicaInv' /\ Grows(M, M') /\ Grows(R, R')
<1>1. CASE Sync
  BY <1>1, FetchStep, OnceStep, ApplyStep, FullStep, MergeStep, ApplyExpungeStep DEF Sync
<1>2. CASE Failure BY <1>2, FailureStep
<1>3. CASE User BY <1>3, DeliverStep, StoreStep, ExpungeStep, ExpireStep DEF User
<1>4. CASE UNCHANGED vars
  <2>1. /\ box' = box /\ pc' = pc /\ attempt' = attempt /\ remote' = remote /\ msg' = msg
        /\ snap' = snap /\ kuids' = kuids /\ cache' = cache /\ got' = got
        /\ removed' = removed /\ dropped' = dropped /\ faults' = faults
    BY <1>4 DEF vars, client
  <2>2. M' = M /\ R' = R /\ Gone' = Gone BY <2>1, SameBoxes DEF Gone
  <2>3. Types' BY <2>1, <2>2 DEF ReplicaInv, Types, TypeOK
  <2>4. Loss' BY <2>1, <2>2 DEF ReplicaInv, Loss
  <2>5. Single' BY <2>1, <2>2 DEF ReplicaInv, Single
  <2> QED BY <2>2, <2>3, <2>4, <2>5, InvFacts DEF ReplicaInv
<1> QED BY <1>1, <1>2, <1>3, <1>4 DEF Next

LEMMA ReplicaInvAlways == Spec => []ReplicaInv
<1>1. ReplicaInv /\ [Next]_vars => ReplicaInv' BY ReplicaInvNext
<1> QED BY <1>1, ReplicaInvInit, PTL DEF Spec

LEMMA ReplicaInvImplies ==
  ASSUME ReplicaInv
  PROVE  TypeOK /\ NoMessageLost /\ FilesSent /\ NoDuplicate
<1>1. TypeOK BY DEF ReplicaInv, Types
<1>2. NoMessageLost
  BY DEF ReplicaInv, Loss, BoxLoss, NoMessageLost, Gone, M, R
<1>3. FilesSent
  <2> SUFFICES ASSUME pc = "apply", NEW u \in written(R) \ DOMAIN R.rec PROVE u \in msg.files
    BY DEF FilesSent, R
  <2>1. u \in DOMAIN msg.rec /\ u > R.last_uid BY DEF written
  <2> QED BY <2>1 DEF ReplicaInv, Types, IsMessage
<1>4. NoDuplicate
  BY InvFacts DEF NoDuplicate, BoxSingle, Cross, Side
<1> QED BY <1>1, <1>2, <1>3, <1>4

\* Type correctness: no record is ever ahead of the UID and the modseq of its mailbox, on
\* either side.
THEOREM ReplicaTypes == Spec => []TypeOK
BY ReplicaInvAlways, ReplicaInvImplies, PTL

\* mailbox_full_update and sync_apply_mailbox lose no message, whatever users do between
\* their steps and wherever they fail, also with a merge that was done in part, but for
\* what copyback_one_record takes for stale (dropped).
THEOREM NothingLost == Spec => []NoMessageLost
BY ReplicaInvAlways, ReplicaInvImplies, PTL

\* sync_prepare_dlists has uploaded every message that the second pass of
\* sync_apply_mailbox needs.
THEOREM MessagesSent == Spec => []FilesSent
BY ReplicaInvAlways, ReplicaInvImplies, PTL

\* Without a failure of the client no message is ever twice in a mailbox.
THEOREM NothingTwice == Spec => []NoDuplicate
BY ReplicaInvAlways, ReplicaInvImplies, PTL

\* A UID never comes to mean another message on either side, and an expunged message
\* never comes back to life.
THEOREM UidsStable == Spec => UidStable
<1> DEFINE A == \A s \in Side : \A u \in DOMAIN box[s].rec \cap DOMAIN box'[s].rec :
                  /\ box'[s].rec[u].guid = box[s].rec[u].guid
                  /\ box[s].rec[u].expunged => box'[s].rec[u].expunged
<1>1. ReplicaInv /\ [Next]_vars => A
  <2> SUFFICES ASSUME ReplicaInv, [Next]_vars PROVE A OBVIOUS
  <2>1. ReplicaInv' /\ Grows(M, M') /\ Grows(R, R') BY ReplicaInvNext
  <2>2. ASSUME NEW s \in Side PROVE IsMailbox(box[s]) /\ Grows(box[s], box'[s])
    BY <2>1, InvFacts DEF M, R, Side
  <2> QED BY <2>2, MailboxFields DEF Grows
<1> HIDE DEF A
<1>2. ReplicaInv /\ [Next]_vars => [A]_vars BY <1>1
<1> QED BY <1>2, ReplicaInvAlways, PTL DEF Spec, UidStable, A
=============================================================================
