-------------------------------- MODULE Index --------------------------------
(***************************************************************************)
(* One mailbox and the IMAP sessions that have selected it (index.c), each *)
(* with its map from message numbers to records, next to deliveries and    *)
(* cyr_expire, which unlink files and repack the index (mailbox.c).  A     *)
(* client is what the untagged responses tell it.                          *)
(*                                                                         *)
(* What happens under one lock of the index is one step: a command locks   *)
(* it once or several times and may be overtaken in between.  Between      *)
(* commands a session holds nothing.                                       *)
(***************************************************************************)
EXTENDS Naturals, Sequences, SequencesExt, FiniteSetsExt

CONSTANTS
  Session,   \* the IMAP connections whose clients are modelled
  Modes,     \* values of expunge_mode
  Flags,     \* the flags of a message: none, "seen" and others
  Start,     \* the number of messages that are there at first
  MaxUid,    \* bound: messages delivered
  MaxOps     \* bound: changes of the mailbox

ASSUME IndexAssumption ==
  /\ Modes \subseteq {"delayed", "semidelayed", "immediate"}
  /\ {"none", "seen"} \subseteq Flags
  /\ MaxUid \in Nat /\ Start \in 0..MaxUid /\ MaxOps \in Nat

VARIABLES
  mode,      \* expunge_mode
  mbox,      \* cyrus.index: header and records
  files,     \* the message files, by UID
  closing,   \* a writer has closed the mailbox and will try to clean up
  ses,       \* the index_state of each session and what its client knows
  ops        \* history: the number of changes

vars == <<mode, mbox, files, closing, ses, ops>>

\* The elements of q at the positions in S, in their order
pick(q, S) ==
  LET picked[n \in 0..Len(q)] ==
        IF n = 0 THEN <<>>
        ELSE IF n \in S THEN Append(picked[n - 1], q[n]) ELSE picked[n - 1]
  IN  picked[Len(q)]

uidsOf(q) == [i \in DOMAIN q |-> q[i].uid]
known(q) == [i \in DOMAIN q |-> [uid |-> q[i].uid, flags |-> q[i].flags]]

-----------------------------------------------------------------------------
\* mailbox.c

\* mailbox_append_index_record
append(b) ==
  [b EXCEPT !.recs = Append(@, [uid |-> b.last_uid + 1, modseq |-> b.highestmodseq + 1,
                                flags |-> "none", expunged |-> FALSE, unlinked |-> FALSE]),
            !.last_uid = @ + 1, !.highestmodseq = @ + 1]

\* mailbox_rewrite_index_record: the record as it is written ...
written(b, rec) ==
  [rec EXCEPT !.modseq = b.highestmodseq + 1,
              !.unlinked = @ \/ (rec.expunged /\ mode # "delayed")]

\* ... and the mailbox after it
rewrite(b, recno, rec) ==
  LET new == written(b, rec)
  IN  [b EXCEPT !.recs[recno] = new, !.highestmodseq = @ + 1,
                !.needs_unlink = @ \/ new.unlinked,
                !.needs_repack = @ \/ (new.unlinked /\ mode = "immediate")]

\* mailbox_expunge_cleanup: what was expunged up to a time is unlinked, silently.
expunge_cleanup(b, mark) ==
  LET stale(rec) == rec.unlinked \/ (rec.expunged /\ rec.modseq <= mark)
  IN  [b EXCEPT !.recs = [r \in DOMAIN b.recs |-> [b.recs[r] EXCEPT !.unlinked = stale(b.recs[r])]],
                !.needs_repack = @ \/ \E r \in DOMAIN b.recs : stale(b.recs[r]),
                !.needs_unlink = @ \/ \E r \in DOMAIN b.recs : stale(b.recs[r]) /\ ~b.recs[r].unlinked]

gone(b) == {b.recs[r].uid : r \in {r \in DOMAIN b.recs : b.recs[r].unlinked}}

linkedIn(b) == {r \in DOMAIN b.recs : ~b.recs[r].unlinked}

\* mailbox_index_repack
repack(b) ==
  LET dead == {b.recs[r].modseq : r \in {r \in DOMAIN b.recs : b.recs[r].unlinked}}
  IN  [b EXCEPT !.recs = pick(@, linkedIn(b)),
                !.deletedmodseq = Max({@} \cup dead), !.generation_no = @ + 1,
                !.needs_repack = FALSE, !.needs_unlink = FALSE]

\* mailbox_close of a writer: it needs the name lock for itself alone, which
\* the sessions that read records and files outside the index lock hold too
\* (those in Session, or others), or it leaves the work to the next one.
cleanable(b) == b.needs_repack \/ b.needs_unlink

reading == {s \in Session : ses[s].pc \in {"fetch", "copy"}}

Cleanup ==
  /\ closing /\ closing' = FALSE
  /\ \/ UNCHANGED <<mbox, files>>
     \/ /\ reading = {} /\ cleanable(mbox)
        /\ files' = files \ gone(mbox)
        /\ mbox' = IF mbox.needs_repack THEN repack(mbox)
                                        ELSE [mbox EXCEPT !.needs_unlink = FALSE]
  /\ UNCHANGED <<mode, ses, ops>>

Deliver ==
  /\ mbox.last_uid < MaxUid /\ ops < MaxOps /\ ops' = ops + 1
  /\ mbox' = append(mbox)
  /\ files' = files \cup {mbox'.last_uid}
  /\ closing' = (closing \/ cleanable(mbox'))
  /\ UNCHANGED <<mode, ses>>

Expire ==
  /\ ops < MaxOps /\ ops' = ops + 1
  /\ \E mark \in 1..mbox.highestmodseq : mbox' = expunge_cleanup(mbox, mark)
  /\ mbox' # mbox
  /\ closing' = TRUE
  /\ UNCHANGED <<mode, files, ses>>

-----------------------------------------------------------------------------
\* index.c: the map

\* A record that is no longer there (unlinked or repacked).
missing(c, im) ==
  [im EXCEPT !.modseq = IF im.expunged THEN @ ELSE c.highestmodseq + 1,
             !.recno = 0, !.expunged = TRUE, !.unlinked = TRUE]

found(im, r) ==
  [im EXCEPT !.recno = r, !.modseq = mbox.recs[r].modseq, !.flags = mbox.recs[r].flags,
             !.expunged = mbox.recs[r].expunged, !.unlinked = FALSE]

linked == linkedIn(mbox)

\* the known messages
update(c) ==
  [i \in DOMAIN c.map |->
     LET at == {r \in linked : mbox.recs[r].uid = c.map[i].uid}
     IN  IF at = {} THEN missing(c, c.map[i]) ELSE found(c.map[i], CHOOSE r \in at : TRUE)]

\* With a bug: one UID is passed over.
freshPast(c) ==
  LET last == IF c.map = <<>> THEN 0 ELSE Last(c.map).uid
      new == {r \in linked : mbox.recs[r].uid > last + 1 /\ ~mbox.recs[r].expunged}
      entry(r) == found([uid |-> mbox.recs[r].uid, told |-> mbox.recs[r].modseq, recno |-> 0,
                         modseq |-> 0, flags |-> "none", expunged |-> FALSE, unlinked |-> FALSE], r)
      at == pick([r \in DOMAIN mbox.recs |-> r], new)
  IN  [i \in DOMAIN at |-> entry(at[i])]

\* the new ones
fresh(c) ==
  LET last == IF c.map = <<>> THEN 0 ELSE Last(c.map).uid
      new == {r \in linked : mbox.recs[r].uid > last /\ ~mbox.recs[r].expunged}
      entry(r) == found([uid |-> mbox.recs[r].uid, told |-> mbox.recs[r].modseq, recno |-> 0,
                         modseq |-> 0, flags |-> "none", expunged |-> FALSE, unlinked |-> FALSE], r)
      at == pick([r \in DOMAIN mbox.recs |-> r], new)
  IN  [i \in DOMAIN at |-> entry(at[i])]

\* one less than the modseq of an expunge that is not told, as the loop finds it
lower(d, im) == IF im.expunged /\ (d = 0 \/ im.modseq < d) THEN im.modseq - 1 ELSE d
delayed(map) ==
  LET d[n \in 0..Len(map)] == IF n = 0 THEN 0 ELSE lower(d[n - 1], map[n])
  IN  d[Len(map)]

\* messages that have changed since they were told
changed(c) == {j \in DOMAIN c.map : c.map[j].modseq > c.map[j].told}

\* An earlier refresh found what was not told and is forgotten by the next one.
forgotten(c) ==
  \/ c.oldexists # Len(c.map)
  \/ c.highestmodseq = mbox.highestmodseq /\ changed(c) # {}

index_refresh_locked(c) ==
  LET map == update(c) \o fresh(c)
  IN  [c EXCEPT !.map = map, !.oldexists = Len(c.map), !.delayed_modseq = delayed(map),
                !.oldhighestmodseq = c.highestmodseq, !.highestmodseq = mbox.highestmodseq,
                !.generation = mbox.generation_no, !.misled = @ \/ forgotten(c)]

\* With a bug: a repack alone is not noticed.
index_lockModseq(c) ==
  IF c.highestmodseq # mbox.highestmodseq THEN index_refresh_locked(c) ELSE c

index_lock(c) ==
  IF c.highestmodseq # mbox.highestmodseq \/ c.generation # mbox.generation_no
    THEN index_refresh_locked(c) ELSE c

index_unlock(c, b) == [c EXCEPT !.highestmodseq = b.highestmodseq]

index_highestmodseq(c) == IF c.delayed_modseq # 0 THEN c.delayed_modseq ELSE c.highestmodseq

\* index_rewrite_record
mapped(c, j, rec) ==
  LET im == [c.map[j] EXCEPT !.modseq = rec.modseq, !.flags = rec.flags,
                             !.expunged = rec.expunged, !.unlinked = rec.unlinked]
  IN  [c EXCEPT !.map = [c.map EXCEPT ![j] = im]]

\* index_reload_record: the entry as a record
record(im) ==
  [uid |-> im.uid, modseq |-> im.modseq, flags |-> im.flags,
   expunged |-> im.expunged, unlinked |-> im.unlinked]

-----------------------------------------------------------------------------
\* index.c: what the client is told

\* "* j EXPUNGE", or "* VANISHED" with the UID
removed(c, j, uid) ==
  IF c.capa = "qresync" THEN [c EXCEPT !.view = pick(@, {i \in DOMAIN @ : @[i].uid # uid})]
  ELSE IF j \in DOMAIN c.view THEN [c EXCEPT !.view = RemoveAt(@, j)]
  ELSE [c EXCEPT !.unknown = TRUE]

\* With a bug: expunges of messages the client never knew are told.
tell_oneUnknown(a, im) ==
  IF ~im.expunged THEN [a EXCEPT !.map = Append(@, im)]
  ELSE [removed(a, Len(a.map) + 1, im.uid) EXCEPT !.oldexists = IF @ = 0 THEN 0 ELSE @ - 1]

\* the loop of index_tellexpunge, one entry at a time: a is what it has so far
tell_one(a, im) ==
  IF ~im.expunged THEN [a EXCEPT !.map = Append(@, im)]
  ELSE IF Len(a.map) + 1 > a.oldexists THEN a
  ELSE [removed(a, Len(a.map) + 1, im.uid) EXCEPT !.oldexists = @ - 1]

index_tellexpunge(c) ==
  LET told[n \in 0..Len(c.map)] ==
        IF n = 0 THEN [c EXCEPT !.map = <<>>] ELSE tell_one(told[n - 1], c.map[n])
  IN  [told[Len(c.map)] EXCEPT !.delayed_modseq = 0]

\* "* n EXISTS": the client goes on to fetch what it does not have.
index_tellexists(c) ==
  [c EXCEPT !.oldexists = Len(c.map),
            !.view = @ \o known(SubSeq(c.map, Len(@) + 1, Len(c.map)))]

exists_changed(c) == IF c.oldexists # Len(c.map) THEN index_tellexists(c) ELSE c

\* index_printflags of the messages in js
printflags(c, js) ==
  [c EXCEPT !.map = [j \in DOMAIN c.map |->
                       IF j \in js THEN [c.map[j] EXCEPT !.told = c.map[j].modseq] ELSE c.map[j]],
            !.view = [j \in DOMAIN c.view |->
                       IF j \in js THEN [c.view[j] EXCEPT !.flags = c.map[j].flags] ELSE c.view[j]]]

index_tellchanges(c, canexpunge) ==
  LET e == exists_changed(IF canexpunge THEN index_tellexpunge(c) ELSE c)
  IN  IF e.oldhighestmodseq = e.highestmodseq THEN e ELSE printflags(e, changed(e))

index_check(c, canexpunge) ==
  index_unlock(index_tellchanges(index_lock(c), canexpunge), mbox)

-----------------------------------------------------------------------------
\* Commands

go(s, pc, last, c) == ses' = [ses EXCEPT ![s] = [c EXCEPT !.pc = pc, !.last = last]]

unchanged == UNCHANGED <<mode, mbox, files, closing, ops>>

\* the end of a command with arguments
done(c) == [c EXCEPT !.seq = {}, !.byuid = FALSE]

\* The messages that a sequence of the client can have: it names some it knows,
\* by UID or by number.
sequence(c, usinguid) ==
  {j \in DOMAIN c.map :
     IF usinguid THEN \E i \in DOMAIN c.view : c.map[j].uid = c.view[i].uid ELSE j \in DOMAIN c.view}

\* Under the lock, st has the session and the mailbox.  A session rewrites the
\* record of message j (index_rewrite_record; index_unlock sets highestmodseq).
locked(c) == [c |-> c, b |-> mbox]

rewritten(st, j, rec) ==
  LET b == rewrite(st.b, st.c.map[j].recno, rec)
  IN  [c |-> index_unlock(mapped(st.c, j, written(st.b, rec)), b), b |-> b]

Rewrite(js, b) ==
  /\ ops + Cardinality(js) <= MaxOps /\ ops' = ops + Cardinality(js)
  /\ mbox' = b
  /\ UNCHANGED <<mode, files, closing>>

\* With a bug: deletedmodseq is not looked at.
index_vanishedListed(modseq) ==
  LET recs == {mbox.recs[r] : r \in DOMAIN mbox.recs}
  IN  {rec.uid : rec \in {rec \in recs : rec.expunged /\ rec.modseq > modseq}}

\* index_vanished, for a client that has seen modseq
index_vanished(modseq) ==
  LET recs == {mbox.recs[r] : r \in DOMAIN mbox.recs}
      expunged == {rec.uid : rec \in {rec \in recs : rec.expunged /\ rec.modseq > modseq}}
      alive == {rec.uid : rec \in {rec \in recs : ~rec.expunged}}
  IN  IF modseq >= mbox.highestmodseq THEN {}
      ELSE IF modseq >= mbox.deletedmodseq THEN expunged
      ELSE 1..mbox.last_uid \ alive

\* index_open_mailbox and index_select
blank(c) ==
  [c EXCEPT !.map = <<>>, !.highestmodseq = 0, !.generation = 0, !.oldexists = 0]

opened(c) == index_tellexists(index_unlock(index_refresh_locked(blank(c)), mbox))

\* A client that selects the mailbox anew, and one that resumes with QRESYNC.
Select(s) ==
  /\ ses[s].pc = "off"
  /\ LET c == opened([ses[s] EXCEPT !.view = <<>>])
     IN  go(s, "idle", "select", [c EXCEPT !.modseq = c.highestmodseq, !.unknown = FALSE,
                                  !.late = FALSE, !.misled = FALSE])
  /\ unchanged

resynced(c, view, modseq) ==
  LET kept == pick(view, {i \in DOMAIN view : view[i].uid \notin index_vanished(modseq)})
      told == {j \in DOMAIN c.map : c.map[j].modseq > modseq}
      now(v) == {j \in told : c.map[j].uid = v.uid}
      new == {j \in told : \A i \in DOMAIN kept : kept[i].uid # c.map[j].uid}
  IN  [i \in DOMAIN kept |-> IF now(kept[i]) = {} THEN kept[i]
                             ELSE known(c.map)[CHOOSE j \in now(kept[i]) : TRUE]]
      \o known(pick(c.map, new))

Resume(s) ==
  /\ ses[s].pc = "off" /\ ses[s].modseq # 0
  /\ LET c == [opened([ses[s] EXCEPT !.view = <<>>]) EXCEPT !.capa = "qresync"]
     IN  go(s, "idle", "resume",
            [c EXCEPT !.view = resynced(c, ses[s].view, ses[s].modseq), !.modseq = c.highestmodseq,
                      !.misled = @ \/ c.late])
  /\ unchanged

\* The connection ends; the client keeps what it knows.
closed(c) ==
  [blank(c) EXCEPT !.capa = "none", !.delayed_modseq = 0, !.oldhighestmodseq = 0]

Logout(s) ==
  /\ ses[s].pc = "idle"
  /\ go(s, "off", "none", closed(ses[s]))
  /\ unchanged

\* NOOP, and the commands that call imapd_check
Check(s) ==
  /\ ses[s].pc = "idle"
  /\ \E canexpunge \in BOOLEAN :
       go(s, "idle", IF canexpunge THEN "noop" ELSE "none", index_check(ses[s], canexpunge))
  /\ unchanged

\* STATUS, SEARCH and SORT: after a check they refresh the map and tell nothing.
CheckQuiet(s) ==
  /\ ses[s].pc = "idle"
  /\ go(s, "refresh", "none", index_check(ses[s], FALSE))
  /\ unchanged

Refresh(s) ==
  /\ ses[s].pc = "refresh"
  /\ go(s, "idle", "none", index_unlock(index_lock(ses[s]), mbox))
  /\ unchanged

\* The first MODSEQ item turns CONDSTORE on, which is answered with
\* HIGHESTMODSEQ; late is set when that is more than the client may rely on.
covers(c, modseq) == \A j \in DOMAIN c.map : c.map[j].expunged => c.map[j].modseq > modseq

condstore(c) ==
  LET modseq == index_highestmodseq(c)
  IN  [c EXCEPT !.capa = "condstore", !.modseq = modseq, !.late = @ \/ ~covers(c, modseq)]

\* the loops of index_fetch and index_store: the flags of the messages in js become f
setflags(c, js, f) ==
  LET st[n \in 0..Len(c.map)] ==
        IF n = 0 THEN locked(c)
        ELSE IF n \in js THEN rewritten(st[n - 1], n, [record(c.map[n]) EXCEPT !.flags = f])
        ELSE st[n - 1]
  IN  st[Len(c.map)]

\* FETCH of something that sets \Seen, under the lock; a message that is gone
\* (recno is 0) ends the process, which commits what it has done before ...
missed(c, js) == {j \in js : c.map[j].recno = 0}

Fetch(s) ==
  /\ ses[s].pc = "idle"
  /\ \E usinguid \in BOOLEAN, modseq \in BOOLEAN :
       /\ modseq => ses[s].capa = "none"
       /\ LET c == index_lock(IF modseq THEN condstore(ses[s]) ELSE ses[s])
          IN  \E js \in SUBSET sequence(c, usinguid) :
                LET unseen == {j \in js : c.map[j].flags # "seen"}
                    before == {j \in unseen : \A k \in missed(c, unseen) : j < k}
                    died == setflags([c EXCEPT !.misled = @ \/ forgotten(c)], before, "seen")
                    st == setflags([c EXCEPT !.byuid = usinguid, !.seq = {c.map[j].uid : j \in js}],
                                   unseen, "seen")
                IN  IF missed(c, unseen) = {}
                      THEN Rewrite(unseen, st.b) /\ go(s, "fetch", "none", st.c)
                      ELSE Rewrite(before, died.b) /\ go(s, "off", "failed", closed(died.c))

\* With a bug: only what was asked for is looked at.
fetchresponsesAsked(c) ==
  LET e == exists_changed(c)
      asked == {j \in DOMAIN e.map : e.map[j].uid \in e.seq}
      told == {j \in changed(e) \cap asked : e.map[j].recno # 0}
  IN  [printflags(e, told) EXCEPT !.oldhighestmodseq = e.highestmodseq]

\* ... and the responses without it: index_fetchresponses reads records and files.
fetchresponses(c) ==
  LET e == exists_changed(c)
      asked == {j \in DOMAIN e.map : e.map[j].uid \in e.seq}
      range == IF e.oldhighestmodseq = e.highestmodseq THEN asked ELSE DOMAIN e.map
      told == {j \in changed(e) \cap range : j \in asked => e.map[j].recno # 0}
  IN  [printflags(e, told) EXCEPT !.oldhighestmodseq = e.highestmodseq]

Respond(s) ==
  /\ ses[s].pc = "fetch"
  /\ go(s, "idle", "none", done(index_tellchanges(fetchresponses(ses[s]), ses[s].byuid)))
  /\ unchanged

Store(s) ==
  /\ ses[s].pc = "idle"
  /\ LET c == index_lock(ses[s])
     IN  \E usinguid \in BOOLEAN, f \in Flags :
           \E js \in SUBSET {j \in sequence(c, usinguid) : ~c.map[j].expunged /\ c.map[j].flags # f} :
             LET st == setflags(c, js, f)
             IN  /\ js # {} /\ Rewrite(js, st.b)
                 /\ go(s, "idle", "none", index_tellchanges(st.c, usinguid))

\* the loop of index_expunge over the messages in js, one at a time: the client
\* need not be told of the change of one that it knew
expunge_one(st, j) ==
  LET new == rewritten(st, j, [record(st.c.map[j]) EXCEPT !.expunged = TRUE])
      im == [new.c.map[j] EXCEPT !.told = new.c.map[j].modseq]
  IN  IF st.c.map[j].told = st.c.map[j].modseq
        THEN [c |-> [new.c EXCEPT !.map = [new.c.map EXCEPT ![j] = im]], b |-> new.b] ELSE new

index_expunge(c, js) ==
  LET st[n \in 0..Len(c.map)] ==
        IF n = 0 THEN locked(c)
        ELSE IF n \in js THEN expunge_one(st[n - 1], n)
        ELSE st[n - 1]
  IN  st[Len(c.map)]

\* EXPUNGE: its answer has the new HIGHESTMODSEQ.
Expunge(s) ==
  /\ ses[s].pc = "idle"
  /\ LET c == index_lock(ses[s])
     IN  \E js \in SUBSET {j \in DOMAIN c.map : ~c.map[j].expunged} :
           LET st == index_expunge(c, js)
               d == index_tellchanges(st.c, TRUE)
               new == index_highestmodseq(d)
           IN  /\ Rewrite(js, st.b)
               /\ go(s, "idle", "expunge",
                     IF new > index_highestmodseq(ses[s]) THEN [d EXCEPT !.modseq = new] ELSE d)

\* COPY and MOVE: a check, the copy without the index lock, for a MOVE the
\* expunge with another lock, and a last check.
Copy(s) ==
  /\ ses[s].pc = "idle"
  /\ \E usinguid \in BOOLEAN :
       LET c == index_check(ses[s], usinguid)
       IN  \E uids \in SUBSET {c.map[j].uid : j \in sequence([c EXCEPT !.view = ses[s].view], usinguid)} :
             go(s, IF uids = {} THEN "check" ELSE "copy", "none",
                [c EXCEPT !.seq = uids, !.byuid = usinguid])
  /\ unchanged

Copied(s) ==
  /\ ses[s].pc = "copy"
  /\ \/ go(s, "check", "none", [ses[s] EXCEPT !.seq = {}])
     \/ /\ \A j \in DOMAIN ses[s].map : ses[s].map[j].uid \in ses[s].seq => ses[s].map[j].recno # 0
        /\ go(s, "move", "none", [ses[s] EXCEPT !.byuid = TRUE])
  /\ unchanged

Move(s) ==
  /\ ses[s].pc = "move"
  /\ LET c == index_lock(ses[s])
         js == {j \in DOMAIN c.map : c.map[j].uid \in c.seq /\ ~c.map[j].expunged}
         st == index_expunge(c, js)
     IN  Rewrite(js, st.b) /\ go(s, "check", "none", [st.c EXCEPT !.seq = {}])

\* The last check may tell expunges after a MOVE, also one whose copy failed.
CheckAfter(s) ==
  /\ ses[s].pc = "check"
  /\ \E ismove \in BOOLEAN :
       LET canexpunge == ismove \/ ses[s].byuid
       IN  go(s, "idle", IF canexpunge THEN "noop" ELSE "none", done(index_check(ses[s], canexpunge)))
  /\ unchanged

\* A session of somebody else changes a message.
Other ==
  \E r \in linked, f \in Flags, e \in BOOLEAN :
    /\ ~mbox.recs[r].expunged /\ (f # mbox.recs[r].flags) # e
    /\ Rewrite({r}, rewrite(mbox, r, [mbox.recs[r] EXCEPT !.flags = f, !.expunged = e]))
    /\ UNCHANGED ses

-----------------------------------------------------------------------------
Init ==
  /\ mode \in Modes
  /\ mbox = [recs |-> [i \in 1..Start |-> [uid |-> i, modseq |-> i + 1, flags |-> "none",
                                           expunged |-> FALSE, unlinked |-> FALSE]],
             last_uid |-> Start, highestmodseq |-> Start + 1, deletedmodseq |-> 0,
             generation_no |-> 1, needs_repack |-> FALSE, needs_unlink |-> FALSE]
  /\ files = 1..Start /\ closing = FALSE /\ ops = 0
  /\ ses = [s \in Session |->
              [pc |-> "off", last |-> "none", capa |-> "none", map |-> <<>>, oldexists |-> 0,
               highestmodseq |-> 0, oldhighestmodseq |-> 0, delayed_modseq |-> 0,
               generation |-> 0, seq |-> {}, byuid |-> FALSE, view |-> <<>>,
               modseq |-> 0, unknown |-> FALSE, late |-> FALSE, misled |-> FALSE]]

Command(s) ==
  \/ Select(s) \/ Resume(s) \/ Logout(s) \/ Check(s) \/ CheckQuiet(s) \/ Refresh(s)
  \/ Fetch(s) \/ Respond(s) \/ Store(s) \/ Expunge(s)
  \/ Copy(s) \/ Copied(s) \/ Move(s) \/ CheckAfter(s)

Next == Deliver \/ Other \/ Expire \/ Cleanup \/ \E s \in Session : Command(s)

Spec == Init /\ [][Next]_vars

-----------------------------------------------------------------------------
Record == [uid : 1..MaxUid, modseq : Nat \ {0}, flags : Flags, expunged : BOOLEAN,
           unlinked : BOOLEAN]

Mailbox == [recs : Seq(Record), last_uid : 0..MaxUid, highestmodseq : Nat, deletedmodseq : Nat,
            generation_no : Nat, needs_repack : BOOLEAN, needs_unlink : BOOLEAN]

Entry == [uid : 1..MaxUid, recno : 0..MaxUid, modseq : Nat \ {0}, told : Nat, flags : Flags,
          expunged : BOOLEAN, unlinked : BOOLEAN]

State == [pc : {"off", "idle", "refresh", "fetch", "copy", "move", "check"},
          last : {"none", "select", "resume", "noop", "expunge", "failed"},
          capa : {"none", "condstore", "qresync"}, map : Seq(Entry), oldexists : Nat,
          highestmodseq : Nat, oldhighestmodseq : Nat, delayed_modseq : Nat, generation : Nat,
          seq : SUBSET Nat, byuid : BOOLEAN, view : Seq([uid : 1..MaxUid, flags : Flags]),
          modseq : Nat, unknown : BOOLEAN, late : BOOLEAN, misled : BOOLEAN]

\* The index keeps the messages in the order of their UIDs, with a file for each
\* one that is not unlinked; a session never knows more than the mailbox has
\* (mailbox_append_index_record, index_refresh_locked).
TypeOK ==
  /\ mode \in Modes /\ mbox \in Mailbox /\ closing \in BOOLEAN /\ ops \in 0..MaxOps
  /\ ses \in [Session -> State]
  /\ \A i, j \in DOMAIN mbox.recs : i < j => mbox.recs[i].uid < mbox.recs[j].uid
  /\ \A r \in linked : mbox.recs[r].uid \in files
  /\ files \subseteq 1..mbox.last_uid
  /\ \A s \in Session :
       /\ ses[s].oldexists \in 0..Len(ses[s].map)
       /\ ses[s].highestmodseq <= mbox.highestmodseq

selected(c) == c.pc # "off"

\* The messages the client counts are those the session counts, in the same
\* order, whatever EXISTS, EXPUNGE and VANISHED it was sent before: a message
\* number means the same on both sides, and no EXPUNGE has one that the client
\* does not know (index_tellexpunge, index_tellexists).
\* Excepted is a client of which a STATUS, a SEARCH or a MOVE made the session
\* forget what it had not told (misled).
InStep == \A s \in Session :
  selected(ses[s]) /\ ~ses[s].misled =>
    /\ uidsOf(ses[s].view) = SubSeq(uidsOf(ses[s].map), 1, ses[s].oldexists)
    /\ ~ses[s].unknown

\* The map of a session has every message up to its last one that is not
\* expunged: what assert(im->uid == record->uid) in index_refresh_locked needs.
MapComplete == \A s \in Session : selected(ses[s]) /\ ses[s].map # <<>> =>
  \A r \in linked :
    ~mbox.recs[r].expunged /\ mbox.recs[r].uid <= Last(ses[s].map).uid =>
      \E j \in DOMAIN ses[s].map : ses[s].map[j].uid = mbox.recs[r].uid

\* While a session reads records and files without the lock of the index, each
\* of its entries finds its record under its number, and its file: nobody can
\* rewrite the file under it (index_reload_record, index_fetchreply).
NobodyRewrites == \A s \in reading : \A j \in DOMAIN ses[s].map :
  LET im == ses[s].map[j]
  IN  im.recno # 0 => /\ im.recno \in DOMAIN mbox.recs
                      /\ mbox.recs[im.recno].uid = im.uid
                      /\ im.uid \in files

\* After a NOOP, an EXPUNGE or a MOVE the client has the messages and the flags
\* of the mailbox, if nothing has changed since: no change is left untold
\* (index_tellchanges and its short cut by modseq).  Excepted is a client of
\* which a quiet refresh made the session forget what it had not told (misled).
Told == \A s \in Session :
  /\ ses[s].last \in {"noop", "expunge"} /\ ~ses[s].misled
  /\ ses[s].highestmodseq = mbox.highestmodseq
  => ses[s].view = known(pick(mbox.recs, {r \in DOMAIN mbox.recs : ~mbox.recs[r].expunged}))

\* A client that was away and resumes with the HIGHESTMODSEQ it was last given
\* learns all it has missed, also what was expunged, unlinked and repacked
\* meanwhile (index_vanished).  Excepted are a HIGHESTMODSEQ that covers an
\* expunge that was not told (late), and a client that was misled before it left:
\* its HIGHESTMODSEQ may cover a change that a quiet refresh found and nobody told.
Resumed == \A s \in Session :
  ses[s].last = "resume" /\ ~ses[s].late /\ ~ses[s].misled => ses[s].view = known(ses[s].map)

\* A session never rewrites a record it does not have: assert(record->recno > 0)
\* in mailbox_rewrite_index_record never fails.
RecordThere == \A s \in Session : ses[s].last # "failed"
=============================================================================
