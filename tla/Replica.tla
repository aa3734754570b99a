------------------------------- MODULE Replica -------------------------------
(***************************************************************************)
(* One mailbox on two servers, and the sync client of the master that      *)
(* makes the replica equal to it (sync_support.c sync_do_update_mailbox).  *)
(* Users, deliveries and cyr_expire may change both copies (a split        *)
(* brain), also between the steps of the client.                           *)
(*                                                                         *)
(* The client holds the lock of one copy at a time, and each step below is *)
(* what is done under one such lock.  Flags stand for all of what may      *)
(* change in a record; the CRC of a mailbox is taken to be perfect.        *)
(***************************************************************************)
EXTENDS Naturals, Sequences, FiniteSetsExt, Functions

CONSTANTS
  Guid,      \* messages, as numbers: GUIDs are compared
  Flags,     \* what can be changed in a message
  Clock,     \* what the clock of each side may show, at any time
  Cached,    \* sync_cache_db_path is set
  Owned,     \* the mailbox belongs to a user
  MaxOps,    \* bound: the number of changes other than by replication
  MaxFault   \* bound: the number of failures of the client

ASSUME ReplicaAssumption ==
  /\ Guid \subseteq Nat /\ Flags # {} /\ Clock \in [{"master", "replica"} -> SUBSET Nat]
  /\ Cached \in BOOLEAN /\ Owned \in BOOLEAN
  /\ MaxOps \in Nat /\ MaxFault \in Nat

VARIABLES
  box,       \* the mailbox on each side
  pc,        \* where the client is
  attempt,   \* 0, 1 after a checksum error, 2 after a full update
  remote,    \* what the client knows of the replica
  msg,       \* the APPLY MAILBOX command
  snap,      \* the answer to GET FULLMAILBOX
  kuids,     \* the UIDs of the APPLY EXPUNGE command
  cache,     \* the entry of the mailbox in sync_cache_db
  got,       \* history: messages delivered on either side
  removed,   \* history: messages a user expunged on either side
  dropped,   \* history: messages a full update took for stale
  ops, faults  \* history: the numbers of changes and failures

client == <<pc, attempt, remote, msg, snap, kuids, cache>>
vars == <<box, client, got, removed, dropped, ops, faults>>

Side == {"master", "replica"}

-----------------------------------------------------------------------------
\* mailbox.c

\* mailbox_synccrcs: the records that are not expunged
live(b) == {u \in DOMAIN b.rec : ~b.rec[u].expunged}
synccrcs(b) == [u \in live(b) |-> b.rec[u]]

\* the part of a mailbox in a sync_folder
folder(b) == [last_uid |-> b.last_uid, highestmodseq |-> b.highestmodseq,
              synccrcs |-> synccrcs(b)]

\* mailbox_rewrite_index_record and mailbox_append_index_record, not silent
stamped(b, rec, t) == [rec EXCEPT !.modseq = b.highestmodseq + 1, !.last_updated = t]

rewrite(b, u, rec, t) ==
  [b EXCEPT !.rec[u] = stamped(b, rec, t), !.highestmodseq = @ + 1]

append(b, u, rec, t) ==
  [b EXCEPT !.rec = [v \in DOMAIN @ \cup {u} |-> IF v = u THEN stamped(b, rec, t) ELSE @[v]],
            !.highestmodseq = @ + 1, !.last_uid = u]

\* mailbox_index_repack of the records cyr_expire has unlinked
repack(b, old) ==
  [b EXCEPT !.rec = [u \in DOMAIN @ \ old |-> @[u]],
            !.deletedmodseq = Max({@} \cup {b.rec[u].modseq : u \in old})]

Change(s, b) ==
  /\ ops < MaxOps
  /\ box' = [box EXCEPT ![s] = b]
  /\ ops' = ops + 1
  /\ UNCHANGED <<client, dropped, faults>>

\* A message arrives on one side.
Deliver(s) == \E g \in Guid, t \in Clock[s] :
  /\ g \notin got
  /\ Change(s, append(box[s], box[s].last_uid + 1,
                      [guid |-> g, flags |-> CHOOSE f \in Flags : TRUE, expunged |-> FALSE,
                       modseq |-> 0, last_updated |-> 0], t))
  /\ got' = got \cup {g}
  /\ UNCHANGED removed

Store(s) == \E u \in live(box[s]), f \in Flags, t \in Clock[s] :
  /\ f # box[s].rec[u].flags
  /\ Change(s, rewrite(box[s], u, [box[s].rec[u] EXCEPT !.flags = f], t))
  /\ UNCHANGED <<got, removed>>

Expunge(s) == \E u \in live(box[s]), t \in Clock[s] :
  /\ Change(s, rewrite(box[s], u, [box[s].rec[u] EXCEPT !.expunged = TRUE], t))
  /\ removed' = removed \cup {box[s].rec[u].guid}
  /\ UNCHANGED got

Expire(s) == \E t \in Clock[s] :
  LET old == {u \in DOMAIN box[s].rec \ live(box[s]) : box[s].rec[u].last_updated <= t} IN
  /\ old # {}
  /\ Change(s, repack(box[s], old))
  /\ UNCHANGED <<got, removed>>

-----------------------------------------------------------------------------
\* The client: update_mailbox_once

none == <<>>

\* An entry of the cache has the name of what was cached.
store(entry) == cache' = IF Cached THEN entry ELSE none

\* With a bug: the entry stays.
uncacheNever == UNCHANGED cache

uncache == cache' = none

step(to) == pc' = to /\ UNCHANGED <<got, removed, dropped, ops, faults>>

\* sync_do_mailboxes takes the state of the replica from the cache or asks for it.
\* An entry it cannot parse is an error, after which do_mailboxes tries the whole
\* user, and that does not look in the cache.
Lookup ==
  /\ pc = "idle"
  /\ IF cache # none /\ cache[1] = "MAILBOX"
     THEN remote' = cache[2] /\ UNCHANGED cache
     ELSE /\ cache = none \/ Owned
          /\ remote' = folder(box["replica"])
          /\ store(<<"MAILBOX", remote'>>)
  /\ step("once")
  /\ UNCHANGED <<box, attempt, msg, snap, kuids>>

Refetch ==
  /\ pc = "refetch"
  /\ remote' = folder(box["replica"])
  /\ store(<<"MAILBOX", remote'>>)
  /\ step("once")
  /\ UNCHANGED <<box, attempt, msg, snap, kuids>>

inefficient(b) == attempt = 0 /\ b.deletedmodseq > remote.highestmodseq

\* With a bug: the first new message is not uploaded.
preparedFew(b) ==
  LET new == {u \in DOMAIN b.rec : b.rec[u].modseq > remote.highestmodseq} IN
  [rec |-> [u \in new |-> b.rec[u]],
   files |-> {u \in new : u > remote.last_uid + 1},
   since |-> IF attempt = 0 /\ remote.highestmodseq # 0
             THEN <<remote.highestmodseq, remote.synccrcs>> ELSE none,
   to |-> folder(b)]

\* sync_prepare_dlists.  The message goes with a record if the replica cannot have it.
prepared(b) ==
  LET new == {u \in DOMAIN b.rec : b.rec[u].modseq > remote.highestmodseq} IN
  [rec |-> [u \in new |-> b.rec[u]],
   files |-> {u \in new : u > remote.last_uid},
   since |-> IF attempt = 0 /\ remote.highestmodseq # 0
             THEN <<remote.highestmodseq, remote.synccrcs>> ELSE none,
   to |-> folder(b)]

Once ==
  /\ pc = "once"
  /\ LET b == box["master"] IN
     \/ inefficient(b) /\ uncache /\ step("full") /\ UNCHANGED <<attempt, msg>>
     \/ /\ ~inefficient(b) /\ remote = folder(b)
        /\ step("idle") /\ attempt' = 0 /\ UNCHANGED <<cache, msg>>
     \/ /\ ~inefficient(b) /\ remote # folder(b)
        /\ step("apply") /\ msg' = prepared(b) /\ UNCHANGED <<attempt, cache>>
  /\ remote' = none
  /\ UNCHANGED <<box, snap, kuids>>

-----------------------------------------------------------------------------
\* The replica: sync_apply_mailbox

\* sync_mailbox_compare_update, first pass, for one record
bothExpunged(b, u) ==
  u \in DOMAIN b.rec /\ msg.rec[u].expunged /\ b.rec[u].expunged

\* With a bug: another message under the same UID is no conflict.
conflictGuidIgnored(b, u) ==
  \/ /\ u \in DOMAIN b.rec /\ ~bothExpunged(b, u)
     /\ b.rec[u].modseq > msg.rec[u].modseq \/ b.rec[u].expunged
  \/ u \notin DOMAIN b.rec /\ u <= b.last_uid /\ ~msg.rec[u].expunged

conflict(b, u) ==
  \/ /\ u \in DOMAIN b.rec /\ ~bothExpunged(b, u)
     /\ \/ b.rec[u].guid # msg.rec[u].guid
        \/ b.rec[u].modseq > msg.rec[u].modseq
        \/ b.rec[u].expunged
  \/ u \notin DOMAIN b.rec /\ u <= b.last_uid /\ ~msg.rec[u].expunged

changed(b) == msg.since # none /\ msg.since # <<b.highestmodseq, synccrcs(b)>>

mismatch(b) ==
  \/ msg.to.highestmodseq < b.highestmodseq
  \/ msg.to.last_uid < b.last_uid
  \/ \E u \in DOMAIN msg.rec : conflict(b, u)

\* ... and the second pass: these records are written
written(b) == {u \in DOMAIN msg.rec :
                 IF u \in DOMAIN b.rec THEN ~bothExpunged(b, u) ELSE u > b.last_uid}

\* With a bug: the modseq of the mailbox stays behind those of its records.
appliedModseqKept(b) ==
  [b EXCEPT !.rec = [u \in DOMAIN @ \cup written(b) |->
                       IF u \in written(b) THEN msg.rec[u] ELSE @[u]],
            !.last_uid = msg.to.last_uid]

applied(b) ==
  [b EXCEPT !.rec = [u \in DOMAIN @ \cup written(b) |->
                       IF u \in written(b) THEN msg.rec[u] ELSE @[u]],
            !.last_uid = msg.to.last_uid,
            !.highestmodseq = msg.to.highestmodseq]

\* What the replica answers, and its mailbox after that
answer(b) ==
  CASE changed(b) -> "IMAP_SYNC_CHANGED"
    [] ~changed(b) /\ mismatch(b) -> "IMAP_SYNC_CHECKSUM"
    [] OTHER -> IF synccrcs(applied(b)) = msg.to.synccrcs THEN "OK"
                ELSE "IMAP_SYNC_CHECKSUM"

after(b) == IF changed(b) \/ mismatch(b) THEN b ELSE applied(b)

\* sync_do_update_mailbox: what a result leads to
Apply ==
  /\ pc = "apply"
  /\ box' = [box EXCEPT !["replica"] = after(@)]
  /\ LET r == answer(box["replica"]) IN
     \/ r = "OK" /\ store(<<"MAILBOX", msg.to>>) /\ step("idle") /\ attempt' = 0
     \/ /\ r = "IMAP_SYNC_CHANGED" \/ (r = "IMAP_SYNC_CHECKSUM" /\ attempt = 2)
        /\ uncache /\ step("idle") /\ attempt' = 0
     \/ r = "IMAP_SYNC_CHECKSUM" /\ attempt = 0 /\ uncache /\ step("refetch") /\ attempt' = 1
     \/ r = "IMAP_SYNC_CHECKSUM" /\ attempt = 1 /\ uncache /\ step("full") /\ UNCHANGED attempt
  /\ msg' = none
  /\ UNCHANGED <<remote, snap, kuids>>

-----------------------------------------------------------------------------
\* The client: mailbox_full_update

\* sync_cache is given the list of answers and not the mailbox in it: what it
\* stores cannot be parsed as a mailbox.
Full ==
  /\ pc = "full"
  /\ snap' = box["replica"]
  /\ store(<<"FULLMAILBOX">>)
  /\ step("merge")
  /\ UNCHANGED <<box, attempt, remote, msg, kuids>>

\* mailbox_update_loop goes through the UIDs of both sides.  st.box is the master's
\* mailbox as it is changed, st.kaction what is to be done after the loop.
later(st, name, u) == [st EXCEPT !.kaction = Append(@, <<name, u>>)]

renumber_one_record(st, u, mp) ==
  IF mp.expunged THEN st ELSE later(st, "RENUMBER", u)

stale(b, rp) == rp.modseq < b.deletedmodseq

copyback_one_record(st, u, rp, t) ==
  CASE rp.expunged -> st
    [] ~rp.expunged /\ u > st.box.last_uid ->
         [st EXCEPT !.box = append(@, u, rp, t)]
    [] OTHER -> later(st, IF stale(st.box, rp) THEN "EXPUNGE" ELSE "COPYBACK", u)

\* Expunged wins; otherwise the flags of the replica, if they are newer.
merged(mp, rp) ==
  CASE mp.expunged \/ rp.expunged -> [mp EXCEPT !.expunged = TRUE]
    [] OTHER -> IF rp.modseq > mp.modseq /\ rp.last_updated >= mp.last_updated
                THEN [mp EXCEPT !.flags = rp.flags] ELSE mp

compare_one_record(st, u, mp, rp, t) ==
  IF (mp.expunged /\ rp.expunged) \/ mp = rp THEN st
  ELSE CASE mp.guid < rp.guid -> copyback_one_record(renumber_one_record(st, u, mp), u, rp, t)
         [] mp.guid > rp.guid -> renumber_one_record(copyback_one_record(st, u, rp, t), u, mp)
         [] OTHER -> [st EXCEPT !.box = rewrite(@, u, merged(mp, rp), t)]

only_on_master(st, u, mp, t) ==
  IF u <= snap.last_uid THEN renumber_one_record(st, u, mp)
  ELSE IF mp.modseq <= snap.highestmodseq THEN [st EXCEPT !.box = rewrite(@, u, mp, t)]
  ELSE st

\* If the replica has the higher modseq, the master goes one higher.
raised(b) ==
  IF b.highestmodseq < snap.highestmodseq
  THEN [b EXCEPT !.highestmodseq = snap.highestmodseq + 1] ELSE b

update_one(b, st, u, t) ==
  CASE u \in DOMAIN b.rec \cap DOMAIN snap.rec ->
         compare_one_record(st, u, b.rec[u], snap.rec[u], t)
    [] u \in DOMAIN b.rec \ DOMAIN snap.rec -> only_on_master(st, u, b.rec[u], t)
    [] u \in DOMAIN snap.rec \ DOMAIN b.rec -> copyback_one_record(st, u, snap.rec[u], t)
    [] OTHER -> st

turns(b) == Max({b.last_uid, snap.last_uid})

\* The first n turns of it, n = turns(b) if nothing fails.
mailbox_update_loop(b, n, t) ==
  LET st[u \in 0 .. n] ==
        IF u = 0 THEN [box |-> raised(b), kaction |-> <<>>] ELSE update_one(b, st[u - 1], u, t)
  IN  st[n]

\* With a bug: the message keeps its UID.
copy_remoteSameUid(b, u, t) == append(b, u, snap.rec[u], t)

\* copy_remote and copy_local: the message gets a new UID on the master.
copy_remote(b, u, t) == append(b, b.last_uid + 1, snap.rec[u], t)

local_copy(b, u, t) == append(b, b.last_uid + 1, b.rec[u], t)

\* With a bug: the old copy is not expunged.
copy_localTwice(b, u, t) == local_copy(b, u, t)

copy_local(b, u, t) ==
  rewrite(local_copy(b, u, t), u, [b.rec[u] EXCEPT !.expunged = TRUE], t)

do_kaction(b, a, t) ==
  CASE a[1] = "COPYBACK" -> copy_remote(b, a[2], t)
    [] a[1] = "RENUMBER" -> copy_local(b, a[2], t)
    [] OTHER -> b

\* The first k actions, k = Len(st.kaction) if nothing fails.
done(st, k, t) ==
  LET b[i \in 0 .. k] ==
        IF i = 0 THEN [st.box EXCEPT !.last_uid = Max({@, snap.last_uid})]
        ELSE do_kaction(b[i - 1], st.kaction[i], t)
  IN  b[k]

\* The UIDs of those actions that have one of the names.
uids(st, k, names) == {st.kaction[i][2] : i \in {i \in 1 .. k : st.kaction[i][1] \in names}}

\* The mailbox is closed, as b and after k actions: what is left of the old UIDs on
\* the replica is to be expunged, or the client goes on where there is nothing.
merge(st, k, b, expunge, otherwise) ==
  LET ks == uids(st, k, {"COPYBACK", "EXPUNGE"}) IN
  /\ box' = [box EXCEPT !["master"] = b]
  /\ kuids' = ks
  /\ pc' = IF ks = {} THEN otherwise ELSE expunge
  /\ dropped' = dropped \cup {snap.rec[u].guid : u \in uids(st, k, {"EXPUNGE"})}
  /\ snap' = none
  /\ UNCHANGED <<remote, msg, cache, got, removed, ops>>

Merge ==
  /\ pc = "merge"
  /\ \E t \in Clock["master"] :
     LET st == mailbox_update_loop(box["master"], turns(box["master"]), t)
         k == Len(st.kaction)
     IN  merge(st, k, done(st, k, t), "expunge", "refetch")
  /\ attempt' = 2
  /\ UNCHANGED faults

\* The replica: sync_apply_expunge, which is silent
expunged(b) ==
  [b EXCEPT !.rec = [u \in DOMAIN b.rec |->
                       [b.rec[u] EXCEPT !.expunged = @ \/ u \in kuids]]]

\* mailbox_full_update returns what the merge has returned.
return ==
  /\ pc \in {"expunge", "cleanup"}
  /\ kuids' = {}
  /\ pc' = IF pc = "expunge" THEN "refetch" ELSE "idle"
  /\ UNCHANGED <<attempt, remote, msg, snap, cache, got, removed, dropped, ops>>

ApplyExpunge ==
  /\ return
  /\ box' = [box EXCEPT !["replica"] = expunged(@)]
  /\ UNCHANGED faults

-----------------------------------------------------------------------------
\* Failures

\* The client is killed, which leaves the cache alone, or fails, which clears the
\* entry in update_mailbox_once but not in mailbox_full_update.
fail ==
  /\ faults < MaxFault
  /\ faults' = faults + 1
  /\ pc' = "idle" /\ attempt' = 0 /\ remote' = none /\ msg' = none /\ snap' = none
  /\ kuids' = {}
  /\ cache' \in {cache} \cup (IF pc \in {"merge", "cleanup"} THEN {} ELSE {none})
  /\ UNCHANGED <<got, removed, dropped, ops>>

\* before a command has arrived; ...
Fail == pc # "idle" /\ fail /\ UNCHANGED box

\* ... when the answer is lost;
ApplyUnanswered ==
  /\ pc = "apply" /\ fail
  /\ box' = [box EXCEPT !["replica"] = after(@)]

ExpungeUnanswered ==
  /\ pc \in {"expunge", "cleanup"} /\ fail
  /\ box' = [box EXCEPT !["replica"] = expunged(@)]

\* ... when the replica refuses to expunge, which is logged and forgotten;
ExpungeRefused ==
  /\ return
  /\ faults < MaxFault /\ faults' = faults + 1
  /\ UNCHANGED box

\* ... when a message cannot be fetched, in the first and harmless pass of the loop,
\* or a turn of the second fails: what it noted to do is not done;
LoopFails ==
  /\ pc = "merge" /\ fail
  /\ \E t \in Clock["master"], n \in 0 .. turns(box["master"]) :
       box' = [box EXCEPT !["master"] = mailbox_update_loop(@, n, t).box]

\* ... when the annotations of the mailbox cannot be merged or an action fails, maybe
\* after its message was copied: the actions before it count.
failing(st, k, t) ==
  LET b == done(st, k, t)
      a == st.kaction[k + 1]
  IN  (IF k = 0 THEN {b} ELSE {}) \cup
      (IF k = Len(st.kaction) THEN {}
       ELSE CASE a[1] = "COPYBACK" -> {b, copy_remote(b, a[2], t)}
              [] a[1] = "RENUMBER" -> {b, local_copy(b, a[2], t)}
              [] OTHER -> {})

ActionFails ==
  /\ pc = "merge" /\ faults < MaxFault
  /\ \E t \in Clock["master"] :
     LET st == mailbox_update_loop(box["master"], turns(box["master"]), t)
     IN  \E k \in 0 .. Len(st.kaction) : \E b \in failing(st, k, t) :
           merge(st, k, b, "cleanup", "idle")
  /\ attempt' = 0
  /\ faults' = faults + 1

-----------------------------------------------------------------------------
Init ==
  /\ box = [s \in Side |-> [rec |-> <<>>, last_uid |-> 0, highestmodseq |-> 1,
                            deletedmodseq |-> 0]]
  /\ pc = "idle" /\ attempt = 0 /\ remote = none /\ msg = none /\ snap = none
  /\ kuids = {} /\ cache = none
  /\ got = {} /\ removed = {} /\ dropped = {} /\ ops = 0 /\ faults = 0

Sync == Lookup \/ Refetch \/ Once \/ Apply \/ Full \/ Merge \/ ApplyExpunge
Failure == Fail \/ ApplyUnanswered \/ ExpungeUnanswered \/ ExpungeRefused
           \/ LoopFails \/ ActionFails
User == \E s \in Side : Deliver(s) \/ Store(s) \/ Expunge(s) \/ Expire(s)

Next == Sync \/ Failure \/ User

Spec == Init /\ [][Next]_vars
FairSpec == Spec /\ WF_vars(Sync)

-----------------------------------------------------------------------------
Record == [guid : Guid, flags : Flags, expunged : BOOLEAN, modseq : Nat, last_updated : Nat]
IsMailbox(b) ==
  /\ DOMAIN b = {"rec", "last_uid", "highestmodseq", "deletedmodseq"}
  /\ b.rec \in [DOMAIN b.rec -> Record]
  /\ b.last_uid \in Nat /\ b.highestmodseq \in Nat /\ b.deletedmodseq \in 0 .. b.highestmodseq
  /\ \A u \in DOMAIN b.rec : u \in 1 .. b.last_uid /\ b.rec[u].modseq <= b.highestmodseq

\* Types.  No record is ahead of the UID and the modseq of its mailbox.
TypeOK ==
  /\ DOMAIN box = Side /\ \A s \in Side : IsMailbox(box[s])
  /\ pc \in {"idle", "once", "refetch", "apply", "full", "merge", "expunge", "cleanup"}
  /\ attempt \in 0 .. 2 /\ (pc = "apply" <=> msg # none) /\ (pc = "merge" <=> snap # none)
  /\ kuids \subseteq 1 .. box["replica"].last_uid
  /\ (cache # none => Cached)

guids(b) == {b.rec[u].guid : u \in live(b)}

\* Recovery from a split brain loses no mail: whatever the two copies have been through,
\* wherever mailbox_full_update is cut off between its locks, and at whatever turn of its
\* loops it fails and closes a mailbox that is merged in part, a message that was
\* delivered and that no user expunged is on one of the servers.  The exception is a
\* message that copyback_one_record takes for one that the master has cleaned up long
\* ago (dropped).
NoMessageLost ==
  got \ (removed \cup dropped) \subseteq guids(box["master"]) \cup guids(box["replica"])

\* On neither server does a UID ever come to mean another message, nor an expunged
\* message come back to life (the assertions of mailbox_rewrite_index_record), although
\* sync_apply_mailbox overwrites records with what the other server has under their UID.
UidStable ==
  [][\A s \in Side : \A u \in DOMAIN box[s].rec \cap DOMAIN box'[s].rec :
       /\ box'[s].rec[u].guid = box[s].rec[u].guid
       /\ box[s].rec[u].expunged => box'[s].rec[u].expunged]_vars

\* The second pass of sync_apply_mailbox, which calls abort() if it fails, has the
\* message of every record that is new to the replica, although the client decided what
\* to upload from a state of the replica that may be old.
FilesSent ==
  pc = "apply" /\ ~changed(box["replica"]) /\ ~mismatch(box["replica"]) =>
    written(box["replica"]) \ DOMAIN box["replica"].rec \subseteq msg.files

\* Unless the client fails between copying a message and expunging its old UID on the
\* other server, mailbox_full_update leaves no message twice in a mailbox, whatever
\* users do meanwhile.
NoDuplicate ==
  faults = 0 => \A s \in Side : \A u, v \in live(box[s]) :
                   box[s].rec[u].guid = box[s].rec[v].guid => u = v

\* In the cache the replica is as the master, whatever others have done to it since: the
\* client does not look before the master changes.
misled == cache # none /\ cache = <<"MAILBOX", folder(box["master"])>>

\* If the client keeps running sync_do_update_mailbox and nothing else happens, both
\* servers have the same messages in the end, whatever state the split brain, the
\* failures and the cache have left.
Converges == []<>(misled \/ synccrcs(box["master"]) = synccrcs(box["replica"]))
=============================================================================
