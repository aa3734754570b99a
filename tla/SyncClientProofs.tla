-------------------------- MODULE SyncClientProofs --------------------------
(***************************************************************************)
(* The replication log is a queue that survives its reader, for any number *)
(* of writers, items, inodes and retries; and rolling replication forgets  *)
(* no change that was logged, for any mailboxes, users and faults.         *)
(***************************************************************************)
EXTENDS SyncClient, TLAPS

-----------------------------------------------------------------------------
(* The log.                                                                 *)

LogInv == LogTypeOK /\ WorkFile /\ NoLateWrite

WriterStep(w) ==
  \/ \E line \in SUBSET Item : Log(w, line)
  \/ Open(w) \/ Lock(w) \/ Check(w) \/ GiveUp(w) \/ Write(w) \/ Abandon(w)

LEMMA LogInvInit == LogInit => LogInv
BY SyncLogAssumption DEF LogInit, LogInv, LogTypeOK, WorkFile, NoLateWrite

LEMMA WriterKeeps ==
  ASSUME LogInv, NEW w \in Writer, WriterStep(w)
  PROVE  LogInv'
<1> USE SyncLogAssumption DEF LogInv, LogTypeOK, WorkFile, NoLateWrite, rvars, goto
<1>1. ASSUME NEW line \in SUBSET Item, Log(w, line) PROVE LogInv'
  BY <1>1 DEF Log
<1>2. CASE Open(w)
  <2>1. CASE log # NoFile BY <1>2, <2>1 DEF Open
  <2>2. CASE log = NoFile
    <3>1. PICK i \in Inode : /\ unused(i) /\ log' = i
                             /\ content' = [content EXCEPT ![i] = {}]
                             /\ wfd' = [wfd EXCEPT ![w] = i]
      BY <1>2, <2>2 DEF Open
    <3> QED BY <1>2, <2>2, <3>1 DEF Open, unused
  <2> QED BY <2>1, <2>2
<1>3. CASE Lock(w) BY <1>3 DEF Lock
<1>4. CASE Check(w) BY <1>4 DEF Check, current
<1>5. CASE GiveUp(w) BY <1>5 DEF GiveUp, return
<1>6. CASE Write(w) BY <1>6 DEF Write, return
<1>7. CASE Abandon(w) BY <1>7 DEF Abandon, return
<1> QED BY <1>1, <1>2, <1>3, <1>4, <1>5, <1>6, <1>7 DEF WriterStep

LEMMA ReaderKeeps ==
  ASSUME LogInv,
         Reprocess \/ Rename \/ OpenWork \/ LockWork \/ Read \/ End \/ Restart
  PROVE  LogInv'
<1> USE SyncLogAssumption DEF LogInv, LogTypeOK, WorkFile, NoLateWrite, wvars
<1>1. CASE Reprocess BY <1>1 DEF Reprocess
<1>2. CASE Rename BY <1>2 DEF Rename
<1>3. CASE OpenWork BY <1>3 DEF OpenWork
<1>4. CASE LockWork BY <1>4 DEF LockWork, free
<1>5. CASE Read BY <1>5 DEF Read
<1>6. CASE End BY <1>6 DEF End, quit
<1>7. CASE Restart BY <1>7 DEF Restart, quit
<1> QED BY <1>1, <1>2, <1>3, <1>4, <1>5, <1>6, <1>7

LEMMA LogInvNext == LogInv /\ [LogNext]_logVars => LogInv'
<1> SUFFICES ASSUME LogInv, [LogNext]_logVars PROVE LogInv' OBVIOUS
<1>1. CASE UNCHANGED logVars
  BY <1>1 DEF logVars, wvars, rvars, LogInv, LogTypeOK, WorkFile, NoLateWrite
<1>2. CASE LogNext BY <1>2, WriterKeeps, ReaderKeeps DEF LogNext, WriterStep
<1> QED BY <1>1, <1>2

\* Type correctness; the reader has a descriptor exactly while it reads.
THEOREM LogTypes == LogSpec => []LogTypeOK
<1>1. LogInv => LogTypeOK BY DEF LogInv
<1> QED BY <1>1, LogInvInit, LogInvNext, PTL DEF LogSpec

\* No process appends to a work file after the reader had its lock, whatever was
\* renamed, unlinked and created again between its open and its write: what the
\* comment in sync_log_reader_begin claims for unlocking at once.
THEOREM LateWriteExcluded == LogSpec => []NoLateWrite
<1>1. LogInv => NoLateWrite BY DEF LogInv
<1> QED BY <1>1, LogInvInit, LogInvNext, PTL DEF LogSpec

queueOf == in(log) \cup (IF reading THEN {} ELSE in(work))
takenOf == IF reading THEN items ELSE {}

LEMMA WriterPuts ==
  ASSUME LogInv, NEW w \in Writer, WriterStep(w)
  PROVE  takenOf' = takenOf /\ queueOf \subseteq queueOf' /\ queueOf' \subseteq Item
<1> USE SyncLogAssumption
    DEF LogInv, LogTypeOK, WorkFile, NoLateWrite, rvars, goto, queueOf, takenOf,
        reading, in
<1>1. ASSUME NEW line \in SUBSET Item, Log(w, line)
      PROVE  takenOf' = takenOf /\ queueOf' = queueOf
  BY <1>1 DEF Log
<1>2. CASE Open(w)
  <2>1. CASE log # NoFile BY <1>2, <2>1 DEF Open
  <2>2. CASE log = NoFile
    <3>1. PICK i \in Inode : /\ unused(i) /\ log' = i
                             /\ content' = [content EXCEPT ![i] = {}]
      BY <1>2, <2>2 DEF Open
    <3> QED BY <1>2, <2>2, <3>1 DEF Open, unused
  <2> QED BY <2>1, <2>2
<1>3. CASE Lock(w) BY <1>3 DEF Lock
<1>4. CASE Check(w) BY <1>4 DEF Check
<1>5. CASE GiveUp(w) BY <1>5 DEF GiveUp
<1>6. CASE Write(w) BY <1>6 DEF Write
<1>7. CASE Abandon(w) BY <1>7 DEF Abandon
<1> QED BY <1>1, <1>2, <1>3, <1>4, <1>5, <1>6, <1>7 DEF WriterStep

\* Refinement: a step of the files is a step of the queue, or nothing happens to it.
THEOREM LogIsQueue == LogSpec => QueueSpec
<1> USE SyncLogAssumption
<1>1. LogInit => Queue!Init
  BY DEF LogInit, Queue!Init, reading, in
<1>2. LogInv /\ [LogNext]_logVars => [Queue!Next]_(Queue!vars)
  <2> SUFFICES ASSUME LogInv, [LogNext]_logVars PROVE [Queue!Next]_(Queue!vars)
    OBVIOUS
  <2> USE DEF queueOf, takenOf
  <2>1. ASSUME NEW w \in Writer, WriterStep(w) PROVE Queue!Put
    BY <2>1, WriterPuts DEF Queue!Put
  <2>2. CASE UNCHANGED logVars
    BY <2>2 DEF logVars, wvars, rvars, Queue!vars, reading, in
  <2>3. CASE Reprocess BY <2>3 DEF Reprocess, Queue!vars, reading, in
  <2>4. CASE Rename BY <2>4 DEF Rename, Queue!vars, reading, in
  <2>5. CASE OpenWork BY <2>5 DEF OpenWork, Queue!vars, reading, in
  <2>6. CASE LockWork BY <2>6 DEF LockWork, Queue!vars, reading, in
  <2>7. CASE Read
    BY <2>7 DEF Read, Queue!Next, Queue!Take, reading, in, LogInv, LogTypeOK,
                WorkFile
  <2>8. CASE End
    BY <2>8 DEF End, quit, Queue!Next, Queue!Done, reading, in, LogInv, LogTypeOK,
                WorkFile
  <2>9. CASE Restart
    <3>1. CASE rpc = "run"
      BY <2>9, <3>1 DEF Restart, quit, Queue!Next, Queue!Return, reading, in, LogInv,
              WorkFile
    <3>2. CASE rpc # "run"
      BY <2>9, <3>2 DEF Restart, quit, Queue!vars, reading, in
    <3> QED BY <3>1, <3>2
  <2> QED BY <2>1, <2>2, <2>3, <2>4, <2>5, <2>6, <2>7, <2>8, <2>9
          DEF LogNext, WriterStep, Queue!Next
<1> QED BY <1>1, <1>2, LogInvInit, LogInvNext, PTL DEF LogSpec, QueueSpec, Queue!Spec

-----------------------------------------------------------------------------
(* Rolling replication.                                                     *)

\* What is logged when every mailbox has an owner.
Sent ==
  [list : {"MAILBOX"}, of : Mbox, by : User]
  \cup [list : {"UNMAILBOX", "QUOTA"}, of : Mbox, by : {NoUser}]
  \cup [list : {"SEEN"}, of : User, by : User \cup {NoUser}]
  \cup [list : {"SUB", "META", "USER", "UNUSER"}, of : User, by : {NoUser}]
  \cup [list : {"ANNOTATION"}, of : {NoUser}, by : {NoUser}]
  \cup [list : {"USER"}, of : {NoUser}, by : Mbox \cup {NoUser}]

\* The objects for which an item that is still to be done is enough, as things are
\* now: the metadata of a user who is gone needs UNUSER; a quota has an item of its
\* own, and USER without a user stands for one, because a batch does not get past it.
cover(a) ==
  CASE a.list = "USER" ->
         IF userless(a) THEN quotas({a.by}) ELSE synced(a) \ quotas(Mbox)
    [] a.list \in {"SEEN", "SUB", "META"} ->
         IF Inbox[a.of] \in here THEN synced(a) ELSE {}
    [] OTHER -> synced(a)

\* What has still to be brought to the replica.
owed == stale \ (unlogged \cup lapsed)

\* What is on its way to the log, what the next batches will have, and what is left
\* if this batch is finished.
lines == UNION {wline[w] : w \in Writer}
pending == in(log) \cup in(work) \cup lines
ahead == in(log) \cup lines \cup todo

Covered(s) == \A o \in owed : \E a \in s : o \in cover(a)

\* USER without a user is not logged.
Sound == /\ pending \cup todo \subseteq Sent \cap Item
         /\ \A a \in pending : ~userless(a)

Lapses == lapsed \subseteq Passed

\* A user who has an UNUSER is not there, and has no mailbox.
Gone == \A a \in pending \cup todo : a.list = "UNUSER" => Inbox[a.of] \notin here
Whole == here \subseteq Mbox /\ \A m \in here : Inbox[Owner[m]] \in here

IdleEmpty == \A w \in Writer : wpc[w] = "idle" => wline[w] = {}

ClientInv ==
  /\ LogInv /\ IdleEmpty /\ Sound /\ Gone /\ Whole /\ Lapses
  /\ Covered(pending)
  /\ rpc = "run" => Covered(ahead)

\* The mailboxes come first.
Unboxed == boxes => \A a \in todo : a.list # "MAILBOX"

\* A user is deleted as a whole, and nothing of a deleted user is created again.
Lasting ==
  \A u \in User :
    /\ Inbox[u] \notin here => here' \cap allOf(u) \subseteq here
    /\ \A w \in Writer : ~DeleteMailbox(w, Inbox[u])

-----------------------------------------------------------------------------
(* What the items cover.                                                    *)

Owned == \A m \in Mbox : Owner[m] \in User

LEMMA CoverSame ==
  ASSUME here' = here, NEW a
  PROVE  cover(a)' = cover(a) /\ synced(a)' = synced(a)
BY DEF cover, synced, about, allOf, metaOf, boxesOf, quotas, userless, nameless

LEMMA SentLists ==
  ASSUME NEW a \in Sent
  PROVE  /\ a.list \in {"MAILBOX", "UNMAILBOX", "QUOTA", "ANNOTATION", "USER", "UNUSER",
                       "SEEN", "SUB", "META"}
         /\ a.list \in {"MAILBOX", "UNMAILBOX", "QUOTA"} => a.of \in Mbox
         /\ a.list \in {"UNUSER", "SEEN", "SUB", "META"} => a.of \in User
         /\ a.list = "USER" => a.of \in User \cup {NoUser}
         /\ a = [list |-> a.list, of |-> a.of, by |-> a.by]
         /\ a.list = "MAILBOX" => a.by \in User
         /\ a.list \in {"UNMAILBOX", "UNUSER", "SUB", "META"} => a.by = NoUser
         /\ a.list = "USER" /\ a.of \in User => a.by = NoUser
         /\ a.list = "USER" /\ a.of \notin User => a.by \in Mbox \cup {NoUser}
BY SyncClientAssumption DEF Sent

LEMMA Userless ==
  ASSUME NEW a \in Sent
  PROVE  userless(a) <=> a.list = "USER" /\ a.of = NoUser /\ a.by \in Mbox
BY SentLists DEF userless, nameless

\* A mailbox and its owner, without the CASE.
LEMMA SyncedMailbox ==
  ASSUME NEW a \in Sent, a.list = "MAILBOX"
  PROVE  synced(a) = {a.of} \cap here /\ about(a) = {a.of} /\ cover(a) = synced(a)
BY DEF synced, about, cover

LEMMA SyncedUnmailbox ==
  ASSUME NEW a \in Sent, a.list = "UNMAILBOX"
  PROVE  synced(a) = {a.of} \ here /\ about(a) = {a.of} /\ cover(a) = synced(a)
BY DEF synced, about, cover

LEMMA SyncedQuota ==
  ASSUME NEW a \in Sent, a.list \in {"QUOTA", "ANNOTATION"}
  PROVE  /\ synced(a) = about(a) /\ cover(a) = about(a)
         /\ about(a) = IF a.list = "QUOTA" THEN quotas({a.of}) ELSE {Annotation}
<1>1. CASE a.list = "QUOTA" BY <1>1 DEF synced, about, cover
<1>2. CASE a.list = "ANNOTATION" BY <1>2 DEF synced, about, cover
<1> QED BY <1>1, <1>2

LEMMA SyncedUser ==
  ASSUME NEW a \in Sent, a.list = "USER", a.of \in User
  PROVE  /\ synced(a) = IF Inbox[a.of] \in here
                        THEN allOf(a.of) \ quotas(Mbox \ here) ELSE {}
         /\ about(a) = allOf(a.of)
         /\ cover(a) = IF Inbox[a.of] \in here THEN allOf(a.of) \ quotas(Mbox) ELSE {}
<1>1. ~userless(a) BY Userless, SyncClientAssumption
<1>2. /\ synced(a) = IF Inbox[a.of] \in here
                     THEN allOf(a.of) \ quotas(Mbox \ here) ELSE {}
      /\ about(a) = allOf(a.of)
  BY DEF synced, about
<1>3. cover(a) = synced(a) \ quotas(Mbox) BY <1>1 DEF cover
<1>4. quotas(Mbox \ here) \subseteq quotas(Mbox) BY DEF quotas
<1> QED BY <1>2, <1>3, <1>4

LEMMA SyncedNobody ==
  ASSUME NEW a \in Sent, a.list = "USER", a.of \notin User
  PROVE  /\ synced(a) = {} /\ about(a) = {}
         /\ cover(a) = IF userless(a) THEN quotas({a.by}) ELSE {}
<1>1. synced(a) = {} /\ about(a) = {} BY DEF synced, about
<1> QED BY <1>1 DEF cover

LEMMA SyncedUnuser ==
  ASSUME NEW a \in Sent, a.list = "UNUSER"
  PROVE  /\ synced(a) = IF Inbox[a.of] \in here THEN {} ELSE allOf(a.of) \ here
         /\ about(a) = allOf(a.of) /\ cover(a) = synced(a)
<1>1. a.of \in User BY SentLists
<1> QED BY <1>1 DEF synced, about, cover

LEMMA SyncedMeta ==
  ASSUME NEW a \in Sent, a.list \in {"SEEN", "SUB", "META"}
  PROVE  /\ synced(a) = about(a)
         /\ about(a) = CASE a.list = "SEEN" -> {<<a.of, "seen">>}
                         [] a.list = "SUB" -> {<<a.of, "sub">>}
                         [] a.list = "META" -> metaOf(a.of)
         /\ about(a) \subseteq metaOf(a.of)
         /\ cover(a) = IF Inbox[a.of] \in here THEN about(a) ELSE {}
<1>1. CASE a.list = "SEEN" BY <1>1 DEF synced, about, cover, metaOf, Meta
<1>2. CASE a.list = "SUB" BY <1>2 DEF synced, about, cover, metaOf, Meta
<1>3. CASE a.list = "META" BY <1>3 DEF synced, about, cover
<1> QED BY <1>1, <1>2, <1>3

\* The metadata of a user are no quotas, and no mailboxes.
LEMMA MetaApart ==
  ASSUME NEW u \in User
  PROVE  metaOf(u) \subseteq allOf(u) \ quotas(Mbox)
BY DEF metaOf, Meta, quotas, allOf

LEMMA CoverAbout ==
  ASSUME NEW a \in Sent, ~userless(a)
  PROVE  cover(a) \subseteq synced(a) /\ synced(a) \subseteq about(a)
<1>1. CASE a.list = "MAILBOX" BY <1>1, SyncedMailbox
<1>2. CASE a.list = "UNMAILBOX" BY <1>2, SyncedUnmailbox
<1>3. CASE a.list = "USER" /\ a.of \in User
  <2>1. quotas(Mbox \ here) \subseteq quotas(Mbox) BY DEF quotas
  <2> QED BY <1>3, <2>1, SyncedUser
<1>4. CASE a.list = "UNUSER" BY <1>4, SyncedUnuser
<1>5. CASE a.list \in {"SEEN", "SUB", "META"} BY <1>5, SyncedMeta
<1>6. CASE a.list = "USER" /\ a.of \notin User BY <1>6, SyncedNobody
<1>7. CASE a.list \in {"QUOTA", "ANNOTATION"} BY <1>7, SyncedQuota
<1> QED BY <1>1, <1>2, <1>3, <1>4, <1>5, <1>6, <1>7, SentLists

-----------------------------------------------------------------------------
(* The steps of the log: nothing gets lost on the way.                      *)

LEMMA StepSets ==
  ASSUME LogInv, IdleEmpty, NEW w \in Writer, Step(w)
  PROVE  /\ pending' = pending /\ rpc' = rpc /\ IdleEmpty' /\ LogInv'
         /\ rpc = "run" => (in(log) \cup lines)' = in(log) \cup lines
<1> USE SyncLogAssumption DEF LogInv, LogTypeOK, WorkFile, NoLateWrite, rvars, goto,
                              pending, lines, in, IdleEmpty
<1>0. LogInv' BY WriterKeeps DEF Step, WriterStep
<1>1. CASE Open(w)
  <2>1. CASE log # NoFile
    <3>1. UNCHANGED <<log, work, content, wline, rpc>> BY <1>1, <2>1 DEF Open
    <3>2. IdleEmpty' BY <1>1, <2>1 DEF Open
    <3> QED BY <1>0, <3>1, <3>2
  <2>2. CASE log = NoFile
    <3>1. PICK i \in Inode : /\ unused(i) /\ log' = i
                             /\ content' = [content EXCEPT ![i] = {}]
      BY <1>1, <2>2 DEF Open
    <3>2. UNCHANGED <<work, wline, rpc>> BY <1>1 DEF Open
    <3>3. IdleEmpty' BY <1>1, <2>2 DEF Open
    <3>4. in(log) = {} /\ in(log)' = {} BY <2>2, <3>1
    <3>5. in(work)' = in(work) BY <3>1, <3>2 DEF unused
    <3>6. lines' = lines BY <3>2
    <3> QED BY <1>0, <3>2, <3>3, <3>4, <3>5, <3>6
  <2> QED BY <2>1, <2>2
<1>2. CASE Lock(w)
  <2>1. UNCHANGED <<log, work, content, wline, rpc>> BY <1>2 DEF Lock
  <2>2. IdleEmpty' BY <1>2 DEF Lock
  <2> QED BY <1>0, <2>1, <2>2
<1>3. CASE Check(w)
  <2>1. UNCHANGED <<log, work, content, wline, rpc>> BY <1>3 DEF Check
  <2>2. IdleEmpty' BY <1>3 DEF Check
  <2> QED BY <1>0, <2>1, <2>2
<1>4. CASE Write(w)
  <2>1. UNCHANGED <<log, work, rpc>> BY <1>4 DEF Write
  <2>2. IdleEmpty' BY <1>4 DEF Write, return
  <2>3. /\ wfd[w] \in Inode /\ content' = [content EXCEPT ![wfd[w]] = @ \cup wline[w]]
        /\ wline' = [wline EXCEPT ![w] = {}]
    BY <1>4 DEF Write, return
  <2>4. lines = lines' \cup wline[w] BY <2>3
  <2>5. CASE wfd[w] = log
    <3>1. in(log)' = in(log) \cup wline[w] /\ in(work)' = in(work) BY <2>1, <2>3, <2>5
    <3> HIDE DEF lines, in
    <3> QED BY <1>0, <2>1, <2>2, <2>4, <3>1
  <2>6. CASE wfd[w] = work /\ rpc \notin {"read", "run"}
    <3>1. in(work)' = in(work) \cup wline[w] /\ in(log)' = in(log) BY <2>1, <2>3, <2>6
    <3> HIDE DEF lines, in
    <3> QED BY <1>0, <2>1, <2>2, <2>4, <2>6, <3>1
  <2> QED BY <1>4, <2>5, <2>6 DEF Write
<1> QED BY <1>1, <1>2, <1>3, <1>4 DEF Step

LEMMA ReaderSets ==
  ASSUME LogInv, IdleEmpty, Reader
  PROVE  pending' = pending /\ rpc' # "run" /\ IdleEmpty' /\ LogInv'
<1> USE SyncLogAssumption DEF LogInv, LogTypeOK, WorkFile, wvars,
                              pending, lines, in, IdleEmpty
<1>0. LogInv' BY ReaderKeeps DEF Reader
<1>1. CASE Reprocess BY <1>0, <1>1 DEF Reprocess
<1>2. CASE Rename
  <2>1. in(work) = {} /\ in(work)' = in(log) /\ in(log)' = {} BY <1>2 DEF Rename
  <2>2. lines' = lines BY <1>2 DEF Rename
  <2> QED BY <1>0, <1>2, <2>1, <2>2 DEF Rename
<1>3. CASE OpenWork BY <1>0, <1>3 DEF OpenWork
<1>4. CASE LockWork BY <1>0, <1>4 DEF LockWork
<1> QED BY <1>1, <1>2, <1>3, <1>4 DEF Reader

\* Log adds a line and changes nothing else.
LEMMA LogSets ==
  ASSUME LogInv, IdleEmpty, NEW w \in Writer, NEW line \in SUBSET Item, Log(w, line)
  PROVE  /\ LogInv' /\ IdleEmpty' /\ rpc' = rpc
         /\ in(log)' = in(log) /\ in(work)' = in(work) /\ lines' = lines \cup line
<1> USE SyncLogAssumption DEF LogInv, LogTypeOK, rvars, goto, lines, in, IdleEmpty
<1>0. LogInv' BY WriterKeeps DEF WriterStep
<1>1. UNCHANGED <<log, work, content, rpc>> BY DEF Log
<1>2. wline' = [wline EXCEPT ![w] = line] /\ wline[w] = {} BY DEF Log
<1>3. lines' = lines \cup line BY <1>2
<1>4. IdleEmpty' BY DEF Log
<1> QED BY <1>0, <1>1, <1>3, <1>4

-----------------------------------------------------------------------------
(* Every step keeps ClientInv.                                              *)

\* A step that leaves the mail store alone and brings no new item: what is stale
\* stays covered, if its items do.
LEMMA Moved ==
  ASSUME ClientInv, LogInv', IdleEmpty', here' = here, lapsed' = lapsed,
         pending' \subseteq pending, todo' \subseteq pending \cup todo,
         NEW s, NEW t, s \subseteq Sent,
         \A o \in owed' : o \in owed,
         Covered(s),
         \A o \in owed', a \in s :
            o \in cover(a) => \E b \in t : o \in cover(b)
  PROVE  /\ Sound' /\ Gone' /\ Whole' /\ Lapses'
         /\ \A o \in owed' : \E a \in t : o \in cover(a)'
<1>1. Sound' BY DEF ClientInv, Sound
<1>2. Gone' BY DEF ClientInv, Gone
<1>3. Whole' /\ Lapses' BY DEF ClientInv, Whole, Lapses
<1>4. \A o \in owed' : \E a \in t : o \in cover(a)'
  <2> TAKE o \in owed'
  <2>1. PICK a \in s : o \in cover(a) BY DEF Covered
  <2>2. PICK b \in t : o \in cover(b) BY <2>1
  <2> QED BY <2>2, CoverSame
<1> QED BY <1>1, <1>2, <1>3, <1>4

LEMMA StepKeeps ==
  ASSUME ClientInv, NEW w \in Writer, Step(w), UNCHANGED <<data, pass, faults>>
  PROVE  ClientInv'
<1>0. /\ pending' = pending /\ rpc' = rpc /\ IdleEmpty' /\ LogInv'
      /\ rpc = "run" => (in(log) \cup lines)' = in(log) \cup lines
  BY StepSets DEF ClientInv
<1>1. here' = here /\ owed' = owed /\ lapsed' = lapsed /\ todo' = todo
  BY DEF data, pass, owed
<1>2. pending \subseteq Sent /\ ahead \subseteq Sent /\ Covered(pending)
  BY DEF ClientInv, Sound, ahead, pending
<1>3. /\ Sound' /\ Gone' /\ Whole' /\ Lapses'
      /\ \A o \in owed' : \E a \in pending : o \in cover(a)'
  BY <1>0, <1>1, <1>2, Moved
<1>4. rpc = "run" => \A o \in owed' : \E a \in ahead : o \in cover(a)'
  BY <1>0, <1>1, <1>2, Moved DEF ClientInv
<1>5. rpc = "run" => ahead' = ahead BY <1>0, <1>1 DEF ahead
<1> QED BY <1>0, <1>3, <1>4, <1>5 DEF ClientInv, Covered

LEMMA ReaderMoves ==
  ASSUME ClientInv, Reader, UNCHANGED <<data, pass, faults>>
  PROVE  ClientInv'
<1>0. pending' = pending /\ rpc' # "run" /\ IdleEmpty' /\ LogInv'
  BY ReaderSets DEF ClientInv
<1>1. here' = here /\ owed' = owed /\ lapsed' = lapsed /\ todo' = todo
  BY DEF data, pass, owed
<1>2. pending \subseteq Sent /\ Covered(pending) BY DEF ClientInv, Sound, pending
<1>3. /\ Sound' /\ Gone' /\ Whole' /\ Lapses'
      /\ \A o \in owed' : \E a \in pending : o \in cover(a)'
  BY <1>0, <1>1, <1>2, Moved
<1> QED BY <1>0, <1>3 DEF ClientInv, Covered

\* A writer gives up or dies: what only its line covers is unlogged.
LEMMA LostKeeps ==
  ASSUME ClientInv, NEW w \in Writer, Lost(w)
  PROVE  ClientInv'
<1>0. GiveUp(w) \/ Abandon(w) BY DEF Lost
<1>1. /\ UNCHANGED <<log, work, content, rpc>>
      /\ wline' = [wline EXCEPT ![w] = {}]
      /\ wpc' = [wpc EXCEPT ![w] = "idle"]
  BY <1>0 DEF GiveUp, Abandon, return, goto, rvars
<1>2. LogInv' BY <1>0, WriterKeeps DEF WriterStep, ClientInv
<1>3. /\ here' = here /\ lapsed' = lapsed /\ todo' = todo
      /\ owed' = owed \ UNION {about(a) : a \in wline[w]}
  BY DEF Lost, pass, owed
<1>4. wline \in [Writer -> SUBSET Item] /\ wpc \in [Writer -> {"idle", "open", "lock", "check", "write"}]
  BY DEF ClientInv, LogInv, LogTypeOK
<1>5. IdleEmpty' BY <1>1, <1>4 DEF IdleEmpty, ClientInv
<1>6. lines' \subseteq lines /\ lines \subseteq lines' \cup wline[w] BY <1>1, <1>4 DEF lines
<1>7. in(log)' = in(log) /\ in(work)' = in(work) BY <1>1 DEF in
<1>8. pending \subseteq Sent /\ ahead \subseteq Sent /\ Covered(pending)
  BY DEF ClientInv, Sound, ahead, pending
<1>9. /\ pending' \subseteq pending /\ pending \subseteq pending' \cup wline[w]
      /\ ahead' \subseteq ahead /\ ahead \subseteq ahead' \cup wline[w]
  BY <1>3, <1>6, <1>7 DEF pending, ahead
<1>10. \A o \in owed' : o \in owed BY <1>3
<1>11. ASSUME NEW o \in owed', NEW a \in wline[w], a \in Sent PROVE o \notin cover(a)
  <2>1. o \notin about(a) BY <1>3
  <2>2. ~userless(a) BY DEF ClientInv, Sound, pending, lines
  <2> QED BY <1>11, <2>1, <2>2, CoverAbout
<1>12. /\ Sound' /\ Gone' /\ Whole' /\ Lapses'
       /\ \A o \in owed' : \E a \in pending' : o \in cover(a)'
  <2> DEFINE t == pending'
  <2>1. \A o \in owed', a \in pending : o \in cover(a) => \E b \in t : o \in cover(b)
    BY <1>8, <1>9, <1>11
  <2>2. pending' \subseteq pending /\ todo' \subseteq pending \cup todo BY <1>3, <1>9
  <2> HIDE DEF t
  <2>3. /\ Sound' /\ Gone' /\ Whole' /\ Lapses'
        /\ \A o \in owed' : \E a \in t : o \in cover(a)'
    BY <1>2, <1>3, <1>5, <1>8, <1>10, <2>1, <2>2, Moved
  <2> QED BY <2>3 DEF t
<1>13. rpc = "run" => \A o \in owed' : \E a \in ahead' : o \in cover(a)'
  <2> SUFFICES ASSUME rpc = "run"
               PROVE  \A o \in owed' : \E a \in ahead' : o \in cover(a)'
    OBVIOUS
  <2> DEFINE t == ahead'
  <2>1. \A o \in owed', a \in ahead : o \in cover(a) => \E b \in t : o \in cover(b)
    BY <1>8, <1>9, <1>11
  <2>2. pending' \subseteq pending /\ todo' \subseteq pending \cup todo BY <1>3, <1>9
  <2>3. Covered(ahead) BY DEF ClientInv
  <2> HIDE DEF t
  <2>4. \A o \in owed' : \E a \in t : o \in cover(a)'
    BY <1>2, <1>3, <1>5, <1>8, <1>10, <2>1, <2>2, <2>3, Moved
  <2> QED BY <2>4 DEF t
<1> QED BY <1>1, <1>2, <1>5, <1>12, <1>13 DEF ClientInv, Covered

\* Redundant clauses are redundant: what an item covers is covered by one that
\* sync_do_reader keeps.
LEMMA ActiveCovers ==
  ASSUME ClientInv, NEW S, S \subseteq pending, NEW a \in S, NEW o \in cover(a)
  PROVE  \E b \in active(S) : o \in cover(b)
<1>0. S \subseteq Sent /\ a \in Sent /\ \A b \in S : ~userless(b) BY DEF ClientInv, Sound
<1>1. ASSUME NEW u, Inbox[u] \in here PROVE u \notin named(S, "UNUSER")
  BY <1>1 DEF named, ClientInv, Gone
<1>2. ASSUME a.list \in {"SEEN", "SUB", "META", "USER"}
      PROVE  /\ a.of \in User /\ Inbox[a.of] \in here
             /\ a.of \notin named(S, "UNUSER")
  <2>1. a.of \in User BY <1>0, <1>2, SyncedNobody, SentLists
  <2>2. Inbox[a.of] \in here BY <1>0, <1>2, <2>1, SyncedUser, SyncedMeta
  <2> QED BY <1>1, <2>1, <2>2
<1>3. CASE a.list \in {"MAILBOX", "UNMAILBOX", "UNUSER", "QUOTA", "ANNOTATION"}
  BY <1>3 DEF active
<1>4. CASE a.list = "USER" BY <1>2, <1>4 DEF active
<1>5. CASE a.list \in {"SEEN", "SUB", "META"} /\ a.of \in named(S, "USER")
  <2>1. PICK b \in S : b.list = "USER" /\ b.of = a.of BY <1>5 DEF named
  <2>2. b \in active(S) BY <1>2, <1>5, <2>1 DEF active
  <2>3. o \in metaOf(a.of) BY <1>0, <1>2, <1>5, SyncedMeta
  <2>4. o \in cover(b) BY <1>0, <1>2, <1>5, <2>1, <2>3, SyncedUser, MetaApart
  <2> QED BY <2>2, <2>4
<1>6. CASE a.list \in {"SEEN", "SUB"} /\ a.of \notin named(S, "USER") /\ a.of \in named(S, "META")
  <2>1. PICK b \in S : b.list = "META" /\ b.of = a.of BY <1>6 DEF named
  <2>2. b \in active(S) BY <1>2, <1>6, <2>1 DEF active
  <2>3. o \in metaOf(a.of) BY <1>0, <1>6, SyncedMeta
  <2>4. o \in cover(b) BY <1>0, <1>2, <1>6, <2>1, <2>3, SyncedMeta
  <2> QED BY <2>2, <2>4
<1>7. CASE a.list = "META" /\ a.of \notin named(S, "USER") BY <1>2, <1>7 DEF active
<1>8. CASE /\ a.list \in {"SEEN", "SUB"}
           /\ a.of \notin named(S, "USER") /\ a.of \notin named(S, "META")
  BY <1>2, <1>8 DEF active
<1> QED BY <1>0, <1>3, <1>4, <1>5, <1>6, <1>7, <1>8, SentLists

LEMMA ReadKeeps ==
  ASSUME ClientInv, ReadLog
  PROVE  ClientInv'
<1>0. LogInv' BY ReaderKeeps DEF ReadLog, ClientInv
<1>1. /\ UNCHANGED <<log, work, content, wpc, wline>> /\ rpc' = "run"
      /\ items' = content[work] /\ work \in Inode
  BY SyncLogAssumption DEF ReadLog, Read, wvars, ClientInv, LogInv, LogTypeOK, WorkFile
<1>2. here' = here /\ owed' = owed /\ lapsed' = lapsed /\ todo' = active(in(work))
  BY <1>1, SyncLogAssumption DEF ReadLog, data, in, owed
<1>3. in(log)' = in(log) /\ in(work)' = in(work) /\ lines' = lines /\ pending' = pending
  BY <1>1 DEF in, lines, pending
<1>4. IdleEmpty' BY <1>1 DEF IdleEmpty, ClientInv
<1>5. active(in(work)) \subseteq in(work) BY DEF active
<1>6. pending' \subseteq pending /\ todo' \subseteq pending \cup todo
  BY <1>2, <1>3, <1>5 DEF pending
<1>7. pending \subseteq Sent /\ Covered(pending) BY DEF ClientInv, Sound
<1>8. /\ Sound' /\ Gone' /\ Whole' /\ Lapses'
      /\ \A o \in owed' : \E a \in pending : o \in cover(a)'
  BY <1>0, <1>2, <1>4, <1>6, <1>7, Moved
<1>9. ASSUME NEW o \in owed'
      PROVE  \E a \in in(log) \cup lines \cup active(in(work)) : o \in cover(a)'
  <2>1. PICK a \in pending : o \in cover(a) BY <1>2, <1>7 DEF Covered
  <2>2. CASE a \in in(work)
    <3>1. in(work) \subseteq pending BY DEF pending
    <3>2. \E b \in active(in(work)) : o \in cover(b) BY <2>1, <2>2, <3>1, ActiveCovers
    <3> QED BY <1>2, <3>2, CoverSame
  <2>3. CASE a \in in(log) \cup lines BY <1>2, <2>1, <2>3, CoverSame
  <2> QED BY <2>2, <2>3 DEF pending
<1>10. Covered(ahead)' BY <1>2, <1>3, <1>9 DEF Covered, ahead
<1> QED BY <1>0, <1>3, <1>4, <1>8, <1>10 DEF ClientInv, Covered

LEMMA StopKeeps ==
  ASSUME ClientInv, stop
  PROVE  ClientInv'
<1>0. LogInv' BY ReaderKeeps DEF stop, ClientInv
<1>1. UNCHANGED <<log, work, content, wpc, wline>> /\ rpc' = "begin"
  BY DEF stop, Restart, wvars, quit
<1>2. here' = here /\ owed' = owed /\ lapsed' = lapsed /\ todo' = {}
  BY DEF stop, data, owed
<1>3. pending' = pending BY <1>1 DEF in, lines, pending
<1>4. IdleEmpty' BY <1>1 DEF IdleEmpty, ClientInv
<1>5. pending \subseteq Sent /\ Covered(pending) BY DEF ClientInv, Sound
<1>6. /\ Sound' /\ Gone' /\ Whole' /\ Lapses'
      /\ \A o \in owed' : \E a \in pending : o \in cover(a)'
  BY <1>0, <1>2, <1>3, <1>4, <1>5, Moved
<1> QED BY <1>0, <1>1, <1>3, <1>4, <1>6 DEF ClientInv, Covered

\* The work file is unlinked: everything is covered by what comes after it.
LEMMA FinishKeeps ==
  ASSUME ClientInv, Finish
  PROVE  ClientInv'
<1>0. LogInv' BY ReaderKeeps DEF Finish, ClientInv
<1>1. /\ UNCHANGED <<log, wpc, wline>> /\ rpc = "run" /\ rpc' = "begin"
      /\ work' = NoFile /\ content' = [content EXCEPT ![work] = {}]
      /\ log # NoFile => log # work
      /\ log \in Inode \cup {NoFile} /\ content \in [Inode -> SUBSET Item]
  BY DEF Finish, busy, End, wvars, quit, ClientInv, LogInv, LogTypeOK, WorkFile
<1>2. /\ here' = here /\ owed' = owed /\ lapsed' = lapsed
      /\ todo = {} /\ todo' = todo
  BY DEF Finish, data, pass, owed
<1>3. in(log)' = in(log) /\ in(work)' = {} /\ lines' = lines BY <1>1 DEF in, lines
<1>4. pending' = ahead BY <1>2, <1>3 DEF pending, ahead
<1>5. ahead \subseteq Sent /\ (todo = {} => ahead \subseteq pending)
  BY DEF ClientInv, Sound, ahead, pending
<1>6. IdleEmpty' BY <1>1 DEF IdleEmpty, ClientInv
<1>7. Covered(ahead) BY <1>1 DEF ClientInv
<1>8. pending' \subseteq pending /\ todo' \subseteq pending \cup todo BY <1>2, <1>4, <1>5
<1>9. /\ Sound' /\ Gone' /\ Whole' /\ Lapses'
      /\ \A o \in owed' : \E a \in ahead : o \in cover(a)'
  BY <1>0, <1>2, <1>5, <1>6, <1>7, <1>8, Moved
<1> QED BY <1>0, <1>1, <1>4, <1>6, <1>9 DEF ClientInv, Covered

LEMMA StillKeeps ==
  ASSUME ClientInv, UNCHANGED <<logVars, here, stale, unlogged, lapsed, todo>>
  PROVE  ClientInv'
<1>0. owed' = owed BY DEF owed
<1>1. LogInv' BY LogInvNext DEF ClientInv
<1>2. UNCHANGED <<log, work, content, wpc, wline, rpc>> BY DEF logVars, wvars, rvars
<1>3. IdleEmpty' BY <1>2 DEF IdleEmpty, ClientInv
<1>4. lines' = lines /\ in(log)' = in(log) /\ in(work)' = in(work) BY <1>2 DEF lines, in
<1>5. pending' = pending /\ ahead' = ahead BY <1>4 DEF pending, ahead
<1>6. pending \subseteq Sent /\ ahead \subseteq Sent /\ Covered(pending)
  BY DEF ClientInv, Sound, pending, ahead
<1>7. /\ Sound' /\ Gone' /\ Whole' /\ Lapses'
      /\ \A o \in owed' : \E a \in pending : o \in cover(a)'
  BY <1>0, <1>1, <1>3, <1>5, <1>6, Moved
<1>8. rpc = "run" => \A o \in owed' : \E a \in ahead : o \in cover(a)'
  BY <1>0, <1>1, <1>3, <1>5, <1>6, Moved DEF ClientInv
<1> QED BY <1>1, <1>2, <1>3, <1>5, <1>7, <1>8 DEF ClientInv, Covered

-----------------------------------------------------------------------------
(* The commands of sync_do_reader.                                          *)

\* A command brings U up to date, leaves or defers its items, or replaces them by
\* those of N.
LEMMA Worked ==
  ASSUME ClientInv, LogInv', IdleEmpty', here' = here, rpc = "run", rpc' = rpc,
         NEW U, NEW N, N \subseteq Sent \cap Item, \A a \in N : a.list # "UNUSER",
         owed' = owed \ U, Lapses', \A a \in pending' : ~userless(a),
         pending \subseteq pending', pending' \subseteq pending \cup todo \cup N,
         todo' \subseteq todo \cup N,
         \A a \in ahead : \A o \in cover(a) \ U : \E b \in ahead' : o \in cover(b)
  PROVE  ClientInv'
<1>1. Sound' BY DEF ClientInv, Sound
<1>2. Gone' BY DEF ClientInv, Gone
<1>3. Whole' BY DEF ClientInv, Whole
<1>4. \A o \in owed' : o \in owed /\ o \notin U OBVIOUS
<1>5. ASSUME NEW o \in owed' PROVE \E a \in pending' : o \in cover(a)'
  <2>1. PICK a \in pending : o \in cover(a) BY <1>4 DEF ClientInv, Covered
  <2> QED BY <2>1, CoverSame
<1>6. ASSUME NEW o \in owed' PROVE \E a \in ahead' : o \in cover(a)'
  <2>1. PICK a \in ahead : o \in cover(a) BY <1>4 DEF ClientInv, Covered
  <2>2. PICK b \in ahead' : o \in cover(b) BY <1>4, <2>1
  <2> QED BY <2>2, CoverSame
<1> QED BY <1>1, <1>2, <1>3, <1>5, <1>6 DEF ClientInv, Covered

\* What is up to date and what is skipped is owed no longer.
LEMMA Settled ==
  ASSUME ClientInv, NEW objs, NEW skipped, settle(objs, skipped), skipped \subseteq Passed
  PROVE  owed' = owed \ (objs \cup skipped) /\ Lapses' /\ here' = here
BY DEF settle, owed, Lapses, ClientInv

LEMMA UpToDate ==
  ASSUME ClientInv, NEW objs, upToDate(objs)
  PROVE  owed' = owed \ objs /\ Lapses' /\ here' = here
BY DEF settle, upToDate, owed, Lapses, ClientInv

\* Without a line to log.
LEMMA QuietSets ==
  ASSUME ClientInv, quiet
  PROVE  /\ LogInv' /\ IdleEmpty' /\ rpc' = rpc /\ pending' = pending
         /\ in(log)' = in(log) /\ lines' = lines
         /\ \A a \in pending' : ~userless(a)
<1>1. LogInv' BY LogInvNext DEF ClientInv, quiet
<1>2. UNCHANGED <<log, work, content, wpc, wline, rpc>> BY DEF quiet, logVars, wvars, rvars
<1>3. IdleEmpty' BY <1>2 DEF IdleEmpty, ClientInv
<1>4. lines' = lines /\ in(log)' = in(log) /\ in(work)' = in(work) BY <1>2 DEF lines, in
<1> QED BY <1>1, <1>2, <1>3, <1>4 DEF pending, ClientInv, Sound

LEMMA DeferSets ==
  ASSUME ClientInv, NEW s \in SUBSET Item, defer(s), \A a \in s : ~userless(a)
  PROVE  /\ LogInv' /\ IdleEmpty' /\ rpc' = rpc /\ pending' = pending \cup s
         /\ in(log)' = in(log) /\ lines' = lines \cup s
         /\ \A a \in pending' : ~userless(a)
<1>1. /\ LogInv' /\ IdleEmpty' /\ rpc' = rpc
      /\ in(log)' = in(log) /\ in(work)' = in(work) /\ lines' = lines \cup s
  BY LogSets, SyncClientAssumption DEF ClientInv, defer
<1> QED BY <1>1 DEF pending, ClientInv, Sound

LEMMA BatchDoneKeeps ==
  ASSUME ClientInv, busy, NEW c, BatchDone(c)
  PROVE  ClientInv'
<1> DEFINE U == UNION {synced(a) : a \in cohort(c)}
           N == {}
<1>1. /\ LogInv' /\ IdleEmpty' /\ rpc' = rpc /\ pending' = pending
      /\ in(log)' = in(log) /\ lines' = lines /\ \A a \in pending' : ~userless(a)
  BY QuietSets DEF BatchDone
<1>2. /\ owed' = owed \ U /\ Lapses' /\ here' = here
      /\ todo' = todo \ cohort(c)
  BY UpToDate DEF BatchDone
<1>3. \A a \in ahead : \A o \in cover(a) \ U : \E b \in ahead' : o \in cover(b)
  <2> TAKE a \in ahead
  <2> TAKE o \in cover(a) \ U
  <2>1. CASE a \in cohort(c)
    <3>1. a \in Sent /\ a.list = "MAILBOX" BY <2>1 DEF cohort, ClientInv, Sound
    <3> QED BY <2>1, <3>1, SyncedMailbox
  <2>2. CASE a \notin cohort(c) BY <1>1, <1>2, <2>2 DEF ahead
  <2> QED BY <2>1, <2>2
<1>4. rpc = "run" BY DEF busy
<1> HIDE DEF U, N
<1>5. N \subseteq Sent \cap Item /\ \A a \in N : a.list # "UNUSER" BY DEF N
<1> QED BY <1>1, <1>2, <1>3, <1>4, <1>5, Worked

LEMMA BatchLockedKeeps ==
  ASSUME Owned, ClientInv, busy, NEW c, BatchLocked(c)
  PROVE  ClientInv'
<1>0. PICK marked \in SUBSET cohort(c) :
        /\ defer({mailbox(a.of, Owner[a.of]) : a \in cohort(c) \ marked})
        /\ upToDate(UNION {synced(a) : a \in marked})
        /\ todo' = todo \ cohort(c)
  BY DEF BatchLocked
<1> DEFINE left == cohort(c) \ marked
           U == UNION {synced(a) : a \in marked}
           N == {mailbox(a.of, Owner[a.of]) : a \in left}
<1>1. \A a \in cohort(c) : /\ a \in Sent /\ a \in Item /\ a.list = "MAILBOX"
                           /\ a.of \in Mbox /\ Owner[a.of] \in User
  BY SentLists DEF cohort, ClientInv, Sound, Owned
<1>2. N \subseteq Sent \cap Item /\ \A a \in N : a.list # "UNUSER" /\ ~userless(a)
  <2> SUFFICES ASSUME NEW a \in left
               PROVE  /\ mailbox(a.of, Owner[a.of]) \in Sent \cap Item
                      /\ mailbox(a.of, Owner[a.of]).list # "UNUSER"
                      /\ ~userless(mailbox(a.of, Owner[a.of]))
    OBVIOUS
  <2>1. a \in Item /\ a.list = "MAILBOX" /\ a.of \in Mbox /\ Owner[a.of] \in User BY <1>1
  <2>2. mailbox(a.of, Owner[a.of]) \in Item BY <2>1, ItemAssumption, SyncClientAssumption
  <2> QED BY <2>1, <2>2 DEF mailbox, Sent, userless, nameless
<1>3. /\ LogInv' /\ IdleEmpty' /\ rpc' = rpc /\ pending' = pending \cup N
      /\ in(log)' = in(log) /\ lines' = lines \cup N /\ \A a \in pending' : ~userless(a)
  BY <1>0, <1>2, DeferSets
<1>4. owed' = owed \ U /\ Lapses' /\ here' = here
  BY <1>0, UpToDate
<1>5. \A a \in ahead : \A o \in cover(a) \ U : \E b \in ahead' : o \in cover(b)
  <2> TAKE a \in ahead
  <2> TAKE o \in cover(a) \ U
  <2>1. CASE a \in marked
    <3>1. a \in Sent /\ a.list = "MAILBOX" BY <1>1, <2>1
    <3> QED BY <2>1, <3>1, SyncedMailbox
  <2>2. CASE a \in left
    <3> DEFINE b == mailbox(a.of, Owner[a.of])
    <3>1. b \in N BY <2>2
    <3>2. a \in Sent /\ a.list = "MAILBOX" BY <1>1, <2>2
    <3>3. b \in Sent /\ b.list = "MAILBOX" /\ b.of = a.of BY <1>2, <3>1 DEF mailbox
    <3>4. o \in cover(b) BY <3>2, <3>3, SyncedMailbox
    <3>5. b \in ahead' BY <1>3, <3>1 DEF ahead
    <3> QED BY <3>4, <3>5
  <2>3. CASE a \notin cohort(c) BY <1>0, <1>3, <2>3 DEF ahead
  <2> QED BY <2>1, <2>2, <2>3
<1>6. rpc = "run" BY DEF busy
<1> HIDE DEF U, N, left
<1> QED BY <1>0, <1>2, <1>3, <1>4, <1>5, <1>6, Worked

LEMMA BatchFailedKeeps ==
  ASSUME Owned, ClientInv, busy, NEW c, BatchFailed(c)
  PROVE  ClientInv'
<1>0. PICK marked \in SUBSET cohort(c) :
        /\ upToDate(UNION {synced(a) : a \in marked})
        /\ todo' = (todo \ cohort(c))
                   \cup {entry("USER", u) : u \in {Owner[a.of] : a \in cohort(c) \ marked} \ {NoUser}}
        /\ quiet
  BY DEF BatchFailed
<1> DEFINE failed == cohort(c) \ marked
           U == UNION {synced(a) : a \in marked}
           N == {entry("USER", u) : u \in {Owner[a.of] : a \in failed} \ {NoUser}}
<1>1. \A a \in cohort(c) : /\ a \in Sent /\ a \in Item /\ a.list = "MAILBOX"
                           /\ a.of \in Mbox /\ Owner[a.of] \in User
  BY SentLists DEF cohort, ClientInv, Sound, Owned
<1>2. N \subseteq Sent \cap Item /\ \A a \in N : a.list # "UNUSER"
  <2> SUFFICES ASSUME NEW a \in failed
               PROVE  /\ entry("USER", Owner[a.of]) \in Sent \cap Item
                      /\ entry("USER", Owner[a.of]).list # "UNUSER"
    OBVIOUS
  <2>1. a \in Item /\ a.list = "MAILBOX" /\ a.of \in Mbox /\ Owner[a.of] \in User BY <1>1
  <2>2. entry("USER", Owner[a.of]) \in Item BY <2>1, ItemAssumption, SyncClientAssumption
  <2> QED BY <2>1, <2>2 DEF entry, Sent
<1>3. /\ LogInv' /\ IdleEmpty' /\ rpc' = rpc /\ pending' = pending
      /\ in(log)' = in(log) /\ lines' = lines /\ \A a \in pending' : ~userless(a)
  BY <1>0, QuietSets
<1>4. owed' = owed \ U /\ Lapses' /\ here' = here
  BY <1>0, UpToDate
<1>5. \A a \in ahead : \A o \in cover(a) \ U : \E b \in ahead' : o \in cover(b)
  <2> TAKE a \in ahead
  <2> TAKE o \in cover(a) \ U
  <2>1. CASE a \in marked
    <3>1. a \in Sent /\ a.list = "MAILBOX" BY <1>1, <2>1
    <3> QED BY <2>1, <3>1, SyncedMailbox
  <2>2. CASE a \in failed
    <3> DEFINE b == entry("USER", Owner[a.of])
    <3>1. a \in Sent /\ a.list = "MAILBOX" /\ Owner[a.of] \in User /\ a.of \in Mbox
      BY <1>1, <2>2
    <3>2. b \in N BY <2>2, <3>1, SyncClientAssumption
    <3>3. b \in Sent /\ b.list = "USER" /\ b.of = Owner[a.of] BY <1>2, <3>2 DEF entry
    <3>4. o = a.of /\ o \in here BY <3>1, SyncedMailbox
    <3>5. o \in allOf(b.of) \ quotas(Mbox) /\ Inbox[b.of] \in here
      BY <3>1, <3>3, <3>4, ItemAssumption DEF allOf, boxesOf, ClientInv, Whole
    <3>6. o \in cover(b) BY <3>1, <3>3, <3>5, SyncedUser
    <3>7. b \in ahead' BY <1>0, <3>2 DEF ahead
    <3> QED BY <3>6, <3>7
  <2>3. CASE a \notin cohort(c) BY <1>0, <1>3, <2>3 DEF ahead
  <2> QED BY <2>1, <2>2, <2>3
<1>6. rpc = "run" /\ todo' \subseteq todo \cup N BY <1>0 DEF busy
<1> HIDE DEF U, N, failed
<1> QED BY <1>2, <1>3, <1>4, <1>5, <1>6, Worked

LEMMA TaskKeeps ==
  ASSUME Owned, ClientInv, Unboxed, NEW a \in todo, Task(a)
  PROVE  ClientInv'
<1>0. /\ a \in Sent /\ a \in Item /\ a \in ahead /\ rpc = "run"
      /\ \A b \in ahead : b \in Sent
  BY DEF ClientInv, Sound, ahead, pending, Task, busy
<1>1. CASE ~userless(a) /\ (TaskDone(a) \/ TaskUnseen(a))
  <2> DEFINE U == synced(a)
             N == {}
  <2>1. /\ LogInv' /\ IdleEmpty' /\ rpc' = rpc /\ pending' = pending
        /\ in(log)' = in(log) /\ lines' = lines /\ \A x \in pending' : ~userless(x)
    BY <1>1, QuietSets DEF TaskDone, TaskUnseen
  <2>2. owed' = owed \ U /\ Lapses' /\ here' = here /\ todo' = todo \ {a}
    <3>1. CASE TaskDone(a) BY <3>1, UpToDate DEF TaskDone
    <3>2. CASE TaskUnseen(a)
      <4> DEFINE seen == {<<a.of, "seen">>}
                 done == synced(a) \ seen
                 skipped == synced(a) \cap seen
      <4>1. settle(done, skipped) /\ todo' = todo \ {a} /\ a.list \in {"SEEN", "META", "USER"}
        BY <3>2 DEF TaskUnseen
      <4>2. skipped \subseteq Passed
        <5>1. CASE a.of \in User BY <5>1 DEF Passed
        <5>2. CASE a.of \notin User BY <1>0, <4>1, <5>2, SyncedNobody, SentLists
        <5> QED BY <5>1, <5>2
      <4>3. done \cup skipped = U OBVIOUS
      <4> HIDE DEF done, skipped, U
      <4> QED BY <4>1, <4>2, <4>3, Settled
    <3> QED BY <1>1, <3>1, <3>2
  <2>3. \A x \in ahead : \A o \in cover(x) \ U : \E b \in ahead' : o \in cover(b)
    <3> TAKE x \in ahead
    <3> TAKE o \in cover(x) \ U
    <3>1. x # a BY <1>0, <1>1, CoverAbout
    <3>2. x \in ahead' BY <2>1, <2>2, <3>1 DEF ahead
    <3> QED BY <3>2
  <2> HIDE DEF U, N
  <2>4. N \subseteq Sent \cap Item /\ \A x \in N : x.list # "UNUSER" BY DEF N
  <2> QED BY <1>0, <2>1, <2>2, <2>3, <2>4, Worked
<1>2. CASE TaskLocked(a) /\ ~userless(a)
  <2> DEFINE U == {}
             N == {}
  <2>0. defer({a}) /\ owed' = owed \ U /\ Lapses' /\ here' = here /\ todo' = todo \ {a}
    <3>1. CASE a.list = "USER"
      <4>1. a.by = NoUser BY <1>0, <1>2, <3>1, SentLists, Userless
      <4>2. a = entry("USER", a.of) BY <1>0, <3>1, <4>1, SentLists DEF entry
      <4> DEFINE skipped == quotas({a.by} \cap Mbox)
      <4>3. skipped = {} BY <4>1, ItemAssumption DEF quotas
      <4>4. defer({a}) /\ settle({}, skipped) /\ todo' = todo \ {a}
        BY <1>2, <3>1, <4>2 DEF TaskLocked
      <4>5. settle({}, {}) BY <4>3, <4>4
      <4> QED BY <4>4, <4>5, Settled
    <3>2. CASE a.list # "USER"
      BY <1>2, <3>2 DEF TaskLocked, data, owed, Lapses, ClientInv
    <3> QED BY <3>1, <3>2
  <2>1. /\ LogInv' /\ IdleEmpty' /\ rpc' = rpc /\ pending' = pending \cup {a}
        /\ in(log)' = in(log) /\ lines' = lines \cup {a} /\ \A x \in pending' : ~userless(x)
    BY <1>0, <1>2, <2>0, DeferSets
  <2>3. \A x \in ahead : \A o \in cover(x) \ U : \E b \in ahead' : o \in cover(b)
    BY <2>0, <2>1 DEF ahead
  <2>4. pending' \subseteq pending \cup todo \cup N BY <2>1
  <2> HIDE DEF U, N
  <2>5. N \subseteq Sent \cap Item /\ \A x \in N : x.list # "UNUSER" BY DEF N
  <2> QED BY <1>0, <2>0, <2>1, <2>3, <2>4, <2>5, Worked
<1>3. CASE TaskLocked(a) /\ userless(a)
  <2> DEFINE U == cover(a)
             p == entry("USER", NoUser)
             N == {p}
  <2>0. /\ a.list = "USER" /\ a.of = NoUser /\ a.by \in Mbox
        /\ cover(a) = quotas({a.by})
    BY <1>0, <1>3, Userless DEF cover
  <2>1. p \in Sent \cap Item /\ p.list # "UNUSER" /\ ~userless(p)
    <3>1. p \in Item BY <1>0, <2>0, ItemAssumption
    <3>2. p \in Sent /\ p.list = "USER" /\ p.by = NoUser BY DEF entry, Sent
    <3> QED BY <3>1, <3>2, Userless, ItemAssumption
  <2>2. defer(N) /\ settle({}, U) /\ todo' = todo \ {a}
    <3>1. {a.by} \cap Mbox = {a.by} BY <2>0
    <3> QED BY <1>3, <2>0, <3>1 DEF TaskLocked
  <2>3. U \subseteq Passed BY <2>0 DEF Passed, quotas
  <2>4. owed' = owed \ U /\ Lapses' /\ here' = here
    <3> HIDE DEF U
    <3> QED BY <2>2, <2>3, Settled
  <2>5. /\ LogInv' /\ IdleEmpty' /\ rpc' = rpc /\ pending' = pending \cup N
        /\ in(log)' = in(log) /\ lines' = lines \cup N /\ \A x \in pending' : ~userless(x)
    BY <2>1, <2>2, DeferSets
  <2>6. \A x \in ahead : \A o \in cover(x) \ U : \E b \in ahead' : o \in cover(b)
    <3> TAKE x \in ahead
    <3> TAKE o \in cover(x) \ U
    <3>1. x # a OBVIOUS
    <3>2. x \in ahead' BY <2>2, <2>5, <3>1 DEF ahead
    <3> QED BY <3>2
  <2>7. N \subseteq Sent \cap Item /\ \A x \in N : x.list # "UNUSER" BY <2>1
  <2> HIDE DEF U, N, p
  <2> QED BY <1>0, <2>2, <2>4, <2>5, <2>6, <2>7, Worked
<1>4. CASE TaskFailed(a)
  <2> DEFINE U == {}
             p == promoted(a)
             N == {p}
  <2>0. a.list \in Promotes /\ p \in Item BY <1>0, <1>4, ItemAssumption DEF TaskFailed
  <2>1. p \in Sent /\ p.list # "UNUSER" /\ cover(a) \subseteq cover(p)
    <3>1. CASE a.list = "QUOTA"
      <4>1. p = nameless(a.of) BY <3>1 DEF promoted
      <4>2. a.of \in Mbox BY <1>0, <3>1, SentLists
      <4>3. p \in Sent /\ p.list = "USER" /\ p.by = a.of /\ userless(p)
        BY <4>1, <4>2 DEF nameless, Sent, userless
      <4>4. cover(p) = quotas({a.of}) BY <4>3 DEF cover
      <4> QED BY <1>0, <3>1, <4>3, <4>4, SyncedQuota
    <3>2. CASE a.list \in {"SEEN", "SUB", "META"}
      <4>1. p = entry("META", a.of) \/ p = entry("USER", a.of)
        <5>1. CASE a.list = "SEEN" BY <5>1 DEF promoted
        <5>2. CASE a.list = "SUB" BY <5>2 DEF promoted
        <5>3. CASE a.list = "META" BY <5>3 DEF promoted
        <5> QED BY <3>2, <5>1, <5>2, <5>3
      <4>2. a.of \in User BY <1>0, <3>2, SentLists
      <4>3. p \in Sent /\ p.list \in {"META", "USER"} /\ p.of = a.of
        BY <4>1, <4>2 DEF entry, Sent
      <4>4. CASE Inbox[a.of] \notin here BY <1>0, <3>2, <4>3, <4>4, SyncedMeta
      <4>5. CASE Inbox[a.of] \in here /\ p.list = "USER"
        BY <1>0, <3>2, <4>2, <4>3, <4>5, SyncedMeta, SyncedUser, MetaApart
      <4>6. CASE Inbox[a.of] \in here /\ p.list = "META"
        BY <1>0, <3>2, <4>3, <4>6, SyncedMeta
      <4> QED BY <4>3, <4>4, <4>5, <4>6
    <3> QED BY <2>0, <3>1, <3>2 DEF Promotes
  <2>2. /\ LogInv' /\ IdleEmpty' /\ rpc' = rpc /\ pending' = pending
        /\ in(log)' = in(log) /\ lines' = lines /\ \A x \in pending' : ~userless(x)
    BY <1>4, QuietSets DEF TaskFailed
  <2>3. /\ owed' = owed \ U /\ Lapses' /\ here' = here
        /\ todo' = (todo \ {a}) \cup {p}
    BY <1>4 DEF TaskFailed, data, owed, Lapses, ClientInv
  <2>4. \A x \in ahead : \A o \in cover(x) \ U : \E b \in ahead' : o \in cover(b)
    <3> TAKE x \in ahead
    <3> TAKE o \in cover(x) \ U
    <3>1. CASE x = a BY <2>1, <2>3, <3>1 DEF ahead
    <3>2. CASE x # a BY <2>2, <2>3, <3>2 DEF ahead
    <3> QED BY <3>1, <3>2
  <2>5. N \subseteq Sent \cap Item /\ \A x \in N : x.list # "UNUSER" BY <2>0, <2>1
  <2>6. todo' \subseteq todo \cup N BY <2>3
  <2> HIDE DEF U, N, p
  <2> QED BY <1>0, <2>2, <2>3, <2>4, <2>5, <2>6, Worked
<1>5. CASE TaskIgnored(a)
  <2> DEFINE U == about(a)
             N == {}
  <2>0. a.list = "ANNOTATION" /\ cover(a) = U /\ U \subseteq Passed
    BY <1>0, <1>5, SyncedQuota DEF TaskIgnored, Passed
  <2>1. /\ LogInv' /\ IdleEmpty' /\ rpc' = rpc /\ pending' = pending
        /\ in(log)' = in(log) /\ lines' = lines /\ \A x \in pending' : ~userless(x)
    BY <1>5, QuietSets DEF TaskIgnored
  <2>2. settle({}, U) /\ todo' = todo \ {a} BY <1>5 DEF TaskIgnored
  <2> HIDE DEF U, N
  <2>3. owed' = owed \ U /\ Lapses' /\ here' = here BY <2>0, <2>2, Settled
  <2>4. \A x \in ahead : \A o \in cover(x) \ U : \E b \in ahead' : o \in cover(b)
    <3> TAKE x \in ahead
    <3> TAKE o \in cover(x) \ U
    <3>1. x # a BY <2>0
    <3>2. x \in ahead' BY <2>1, <2>2, <3>1 DEF ahead
    <3> QED BY <3>2
  <2>5. N \subseteq Sent \cap Item /\ \A x \in N : x.list # "UNUSER" BY DEF N
  <2> QED BY <1>0, <2>1, <2>2, <2>3, <2>4, <2>5, Worked
<1> QED BY <1>1, <1>2, <1>3, <1>4, <1>5 DEF Task

LEMMA UnboxedKeeps ==
  ASSUME Unboxed, Next
  PROVE  Unboxed'
<1>1. CASE \E w \in Writer \ {Client} : Store(w)
  BY <1>1 DEF Store, ChangeMailbox, MoveMessages, DeleteMailbox, ChangeMeta, DeleteUser,
              ChangeQuota, ChangeAnnotation, change, pass, Unboxed
<1>2. CASE UNCHANGED pass BY <1>2 DEF pass, Unboxed
<1>3. CASE ReadLog BY <1>3 DEF ReadLog, Unboxed
<1>4. CASE BoxesDone
  <2>1. \A a \in todo : a.list # "MAILBOX" BY <1>4 DEF BoxesDone, cohorts
  <2> QED BY <1>4, <2>1 DEF BoxesDone, Unboxed
<1>5. CASE Bail \/ Fail \/ NoUserDies BY <1>5 DEF Bail, Fail, NoUserDies, stop, Unboxed
<1>6. CASE \E c \in User \cup {NoUser} : Batch(c)
  <2>1. PICK c : c \in cohorts /\ UNCHANGED boxes BY <1>6 DEF Batch
  <2>2. \E a \in todo : a.list = "MAILBOX" BY <2>1 DEF cohorts
  <2> QED BY <2>1, <2>2 DEF Unboxed
<1>7. CASE \E a \in todo : Task(a)
  <2>1. PICK a \in todo : Task(a) BY <1>7
  <2>2. UNCHANGED boxes /\ todo' \subseteq todo \cup {promoted(a)} /\ boxes
    BY <2>1 DEF Task, TaskDone, TaskUnseen, TaskLocked, TaskFailed, TaskIgnored
  <2>3. promoted(a).list # "MAILBOX"
    <3>1. CASE a.list = "QUOTA" BY <3>1 DEF promoted, nameless
    <3>2. CASE a.list = "SUB" BY <3>2 DEF promoted, entry
    <3>3. CASE a.list = "SEEN" BY <3>3 DEF promoted, entry
    <3>4. CASE a.list \notin {"QUOTA", "SUB", "SEEN"} BY <3>4 DEF promoted, entry
    <3> QED BY <3>1, <3>2, <3>3, <3>4
  <2> QED BY <2>2, <2>3 DEF Unboxed
<1> QED BY <1>1, <1>2, <1>3, <1>4, <1>5, <1>6, <1>7 DEF Next, Lost, Finish

-----------------------------------------------------------------------------
(* The changes to the mail store.                                           *)

\* A change logs what it makes stale, and whatever else depends on the mailbox or
\* the user being there.
LEMMA Changed ==
  ASSUME ClientInv, NEW w \in Writer, NEW objs, NEW line, change(w, objs, line),
         line \subseteq Sent, \A a \in line : ~userless(a), Whole',
         \A a \in pending \cup todo \cup line : a.list = "UNUSER" => Inbox[a.of] \notin here',
         \A o \in objs : \E b \in line : o \in cover(b)',
         \A a \in pending \cup todo : \A o \in cover(a) :
            o \in cover(a)' \/ \E b \in line : o \in cover(b)'
  PROVE  ClientInv'
<1>1. line \in SUBSET Item /\ Log(w, line) BY DEF change
<1>2. /\ LogInv' /\ IdleEmpty' /\ rpc' = rpc
      /\ in(log)' = in(log) /\ in(work)' = in(work) /\ lines' = lines \cup line
  BY <1>1, LogSets DEF ClientInv
<1>3. owed' = owed \cup objs /\ lapsed' \subseteq lapsed /\ todo' = todo
  BY DEF change, pass, owed
<1>4. pending' = pending \cup line /\ ahead' = ahead \cup line
  BY <1>2, <1>3 DEF pending, ahead
<1>5. Sound' /\ Lapses' BY <1>1, <1>3, <1>4 DEF ClientInv, Sound, Lapses
<1>6. Gone' BY <1>3, <1>4 DEF Gone
<1>7. ASSUME NEW o \in owed'
      PROVE  /\ \E a \in pending \cup line : o \in cover(a)'
             /\ rpc = "run" => \E a \in ahead \cup line : o \in cover(a)'
  <2>1. CASE o \in objs BY <2>1
  <2>2. CASE o \in owed
    <3>1. PICK a \in pending : o \in cover(a) BY <2>2 DEF ClientInv, Covered
    <3>2. ahead \subseteq pending \cup todo BY DEF ahead, pending
    <3>3. rpc = "run" => \E b \in ahead : o \in cover(b) BY <2>2 DEF ClientInv, Covered
    <3> QED BY <3>1, <3>2, <3>3
  <2> QED BY <1>3, <2>1, <2>2
<1>8. Covered(pending)' BY <1>4, <1>7 DEF Covered
<1>9. rpc = "run" => Covered(ahead)' BY <1>4, <1>7 DEF Covered
<1> QED BY <1>2, <1>5, <1>6, <1>8, <1>9 DEF ClientInv

\* What an item covers after a change to here.
LEMMA CoverThen ==
  ASSUME NEW a \in Sent
  PROVE  /\ a.list = "MAILBOX" => cover(a)' = {a.of} \cap here'
         /\ a.list = "UNMAILBOX" => cover(a)' = {a.of} \ here'
         /\ a.list = "USER" /\ a.of \in User =>
              cover(a)' = IF Inbox[a.of] \in here' THEN allOf(a.of) \ quotas(Mbox) ELSE {}
         /\ a.list = "USER" /\ a.of \notin User => cover(a)' = cover(a)
         /\ a.list \in {"QUOTA", "ANNOTATION"} => cover(a)' = cover(a)
         /\ a.list = "UNUSER" =>
              cover(a)' = IF Inbox[a.of] \in here' THEN {} ELSE allOf(a.of) \ here'
         /\ a.list \in {"SEEN", "SUB", "META"} =>
              cover(a)' = IF Inbox[a.of] \in here' THEN about(a) ELSE {}
<1>0. a.list = "UNUSER" => a.of \in User BY SentLists
<1>1. CASE a.list = "MAILBOX" BY <1>1 DEF cover, synced
<1>2. CASE a.list = "UNMAILBOX" BY <1>2 DEF cover, synced
<1>3. CASE a.list = "USER" /\ a.of \in User
  <2>1. ~userless(a) /\ userless(a)' = userless(a)
    BY <1>3, Userless, SyncClientAssumption DEF userless, nameless
  <2>2. cover(a)' = synced(a)' \ quotas(Mbox) BY <1>3, <2>1 DEF cover, quotas
  <2>3. synced(a)' = IF Inbox[a.of] \in here' THEN allOf(a.of) \ quotas(Mbox \ here') ELSE {}
    BY <1>3 DEF synced, allOf, metaOf, boxesOf, quotas
  <2>4. quotas(Mbox \ here') \subseteq quotas(Mbox) BY DEF quotas
  <2> QED BY <1>3, <2>2, <2>3, <2>4
<1>4. CASE a.list = "UNUSER" BY <1>0, <1>4 DEF cover, synced, allOf, metaOf, boxesOf, quotas
<1>5. CASE a.list = "SEEN" BY <1>5 DEF cover, synced, about
<1>6. CASE a.list = "SUB" BY <1>6 DEF cover, synced, about
<1>7. CASE a.list = "META" BY <1>7 DEF cover, synced, about, metaOf
<1>8. CASE a.list = "USER" /\ a.of \notin User
  BY <1>8 DEF cover, synced, quotas, userless, nameless
<1>9. CASE a.list = "QUOTA" BY <1>9 DEF cover, synced, about, quotas
<1>10. CASE a.list = "ANNOTATION" BY <1>10 DEF cover, synced, about, Annotation
<1> QED BY <1>1, <1>2, <1>3, <1>4, <1>5, <1>6, <1>7, <1>8, <1>9, <1>10, SentLists

\* A mailbox and its quota belong to its owner only, and a mailbox is no quota and no
\* metadata.
LEMMA AllOf ==
  ASSUME Owned, NEW u \in User
  PROVE  /\ Inbox[u] \in allOf(u) /\ Inbox[u] \in Mbox
         /\ \A m \in Mbox : m \in allOf(u) <=> Owner[m] = u
         /\ \A m \in Mbox : m \notin metaOf(u)
         /\ metaOf(u) \subseteq allOf(u)
         /\ \A v \in User : v # u => allOf(u) \cap allOf(v) = {}
<1>1. \A m \in Mbox : m \notin quotas(Mbox) /\ \A v \in User : m \notin metaOf(v)
  BY ItemAssumption DEF metaOf
<1>2. Inbox[u] \in Mbox /\ Owner[Inbox[u]] = u BY SyncClientAssumption DEF Mbox
<1>3. \A v \in User : v # u => metaOf(u) \cap metaOf(v) = {} BY DEF metaOf
<1>4. \A v \in User : v # u =>
        /\ boxesOf(u) \cap boxesOf(v) = {}
        /\ quotas(boxesOf(u)) \cap quotas(boxesOf(v)) = {}
  BY DEF boxesOf, quotas
<1>5. \A v, x \in User : metaOf(v) \cap quotas(boxesOf(x)) = {}
  BY DEF metaOf, Meta, quotas
<1>6. \A v \in User : boxesOf(v) \subseteq Mbox /\ quotas(boxesOf(v)) \subseteq quotas(Mbox)
  BY DEF boxesOf, quotas
<1>7. \A m \in Mbox : m \in boxesOf(u) <=> Owner[m] = u BY DEF boxesOf
<1>8. \A v \in User : v # u => allOf(u) \cap allOf(v) = {}
  BY <1>1, <1>3, <1>4, <1>5, <1>6 DEF allOf
<1> QED BY <1>1, <1>2, <1>6, <1>7, <1>8 DEF allOf

LEMMA SoundItems ==
  ASSUME ClientInv, NEW a \in pending \cup todo
  PROVE  a \in Sent /\ (a.list = "UNUSER" => Inbox[a.of] \notin here)
BY DEF ClientInv, Sound, Gone

LEMMA ChangeMailboxKeeps ==
  ASSUME Owned, ClientInv, Lasting, NEW w \in Writer, NEW m \in Mbox, ChangeMailbox(w, m)
  PROVE  ClientInv'
<1> DEFINE line == {mailbox(m, Owner[m])}
           objs == {m}
<1>0. Owner[m] \in User /\ here' = here \cup {m} /\ change(w, objs, line)
  BY DEF Owned, ChangeMailbox
<1>1. line \subseteq Sent /\ \A a \in line : ~userless(a)
  <2>1. mailbox(m, Owner[m]) \in Sent BY <1>0 DEF mailbox, Sent
  <2>2. mailbox(m, Owner[m]).list = "MAILBOX" BY DEF mailbox
  <2>3. ~userless(mailbox(m, Owner[m])) BY <2>1, <2>2, Userless
  <2> QED BY <2>1, <2>3
<1>2. Inbox[Owner[m]] \in here \/ m \in here
  BY <1>0, AllOf DEF Lasting
<1>3. Inbox[Owner[m]] \in here BY <1>2 DEF ClientInv, Whole
<1>4. \A u \in User : Inbox[u] \in here' => Inbox[u] \in here
  <2> TAKE u \in User
  <2>1. CASE Inbox[u] = m BY <1>3, <2>1, SyncClientAssumption
  <2> QED BY <1>0, <2>1
<1>5. Whole' BY <1>0, <1>3 DEF ClientInv, Whole
<1>6. \A a \in pending \cup todo \cup line : a.list = "UNUSER" => Inbox[a.of] \notin here'
  <2> TAKE a \in pending \cup todo \cup line
  <2> HAVE a.list = "UNUSER"
  <2>1. a \in pending \cup todo BY DEF mailbox
  <2>2. a.of \in User /\ Inbox[a.of] \notin here BY <2>1, SoundItems, SentLists
  <2> QED BY <1>4, <2>2
<1>7. \E b \in line : m \in cover(b)'
  <2>1. mailbox(m, Owner[m]).list = "MAILBOX" /\ mailbox(m, Owner[m]).of = m BY DEF mailbox
  <2> QED BY <1>0, <1>1, <2>1, CoverThen
<1>8. \A a \in pending \cup todo : \A o \in cover(a) :
        o \in cover(a)' \/ \E b \in line : o \in cover(b)'
  <2> TAKE a \in pending \cup todo
  <2> TAKE o \in cover(a)
  <2>0. a \in Sent BY SoundItems
  <2>1. CASE o = m BY <1>7, <2>1
  <2>2. CASE o # m
    <3>1. CASE a.list = "MAILBOX" BY <1>0, <2>0, <2>2, <3>1, SyncedMailbox, CoverThen
    <3>2. CASE a.list = "UNMAILBOX" BY <1>0, <2>0, <2>2, <3>2, SyncedUnmailbox, CoverThen
    <3>3. CASE a.list = "USER" /\ a.of \in User
      BY <1>0, <2>0, <2>2, <3>3, SyncedUser, CoverThen
    <3>4. CASE a.list = "UNUSER"
      BY <1>0, <1>4, <2>0, <2>2, <3>4, SyncedUnuser, CoverThen, SentLists
    <3>5. CASE a.list \in {"SEEN", "SUB", "META"}
      BY <1>0, <2>0, <2>2, <3>5, SyncedMeta, CoverThen
    <3>6. CASE a.list \in {"QUOTA", "ANNOTATION"} \/ (a.list = "USER" /\ a.of \notin User)
      BY <2>0, <3>6, CoverThen
    <3> QED BY <2>0, <3>1, <3>2, <3>3, <3>4, <3>5, <3>6, SentLists
  <2> QED BY <2>1, <2>2
<1>9. \A o \in objs : \E b \in line : o \in cover(b)' BY <1>7
<1> HIDE DEF line, objs
<1> QED BY <1>0, <1>1, <1>5, <1>6, <1>8, <1>9, Changed

\* A change that creates and deletes nothing.
LEMMA ChangedInPlace ==
  ASSUME ClientInv, NEW w \in Writer, NEW objs, NEW line, change(w, objs, line),
         here' = here, line \subseteq Sent,
         \A a \in line : a.list # "UNUSER" /\ ~userless(a),
         \A o \in objs : \E b \in line : o \in cover(b)
  PROVE  ClientInv'
<1>1. Whole' BY DEF ClientInv, Whole
<1>2. \A a \in pending \cup todo \cup line : a.list = "UNUSER" => Inbox[a.of] \notin here'
  BY SoundItems
<1>3. \A o \in objs : \E b \in line : o \in cover(b)' BY CoverSame
<1>4. \A a \in pending \cup todo : \A o \in cover(a) :
        o \in cover(a)' \/ \E b \in line : o \in cover(b)'
  BY CoverSame
<1> QED BY <1>1, <1>2, <1>3, <1>4, Changed

LEMMA MoveKeeps ==
  ASSUME Owned, ClientInv, NEW w \in Writer, NEW m \in Mbox, NEW n \in Mbox,
         MoveMessages(w, m, n)
  PROVE  ClientInv'
<1> DEFINE a == mailbox(m, Owner[m])
           b == mailbox(n, Owner[m])
           line == {a, b}
           objs == {m, n}
<1>0. /\ Owner[m] \in User /\ here' = here /\ change(w, objs, line)
      /\ m \in here /\ n \in here
  BY DEF Owned, MoveMessages
<1>1. /\ a \in Sent /\ a.list = "MAILBOX" /\ a.of = m
      /\ b \in Sent /\ b.list = "MAILBOX" /\ b.of = n
  BY <1>0 DEF mailbox, Sent
<1> HIDE DEF a, b
<1>2. m \in cover(a) /\ n \in cover(b) BY <1>0, <1>1, SyncedMailbox
<1>3. /\ line \subseteq Sent /\ \A x \in line : x.list # "UNUSER" /\ ~userless(x)
      /\ \A o \in objs : \E x \in line : o \in cover(x)
  BY <1>1, <1>2, Userless
<1> HIDE DEF line, objs
<1> QED BY <1>0, <1>3, ChangedInPlace

LEMMA MetaKeeps ==
  ASSUME Owned, ClientInv, NEW w \in Writer, NEW u \in User, ChangeMeta(w, u)
  PROVE  ClientInv'
<1>0. Inbox[u] \in here /\ here' = here BY DEF ChangeMeta
<1>1. ASSUME NEW a \in Sent, a.list \in {"SEEN", "SUB", "META"}, a.of = u,
             NEW o \in about(a), change(w, {o}, {a})
      PROVE  ClientInv'
  <2> DEFINE line == {a}
             objs == {o}
  <2>1. o \in cover(a) BY <1>0, <1>1, SyncedMeta
  <2>2. /\ line \subseteq Sent /\ \A x \in line : x.list # "UNUSER" /\ ~userless(x)
        /\ \A y \in objs : \E x \in line : y \in cover(x)
        /\ change(w, objs, line)
    BY <1>1, <2>1, Userless
  <2> HIDE DEF line, objs
  <2> QED BY <1>0, <2>2, ChangedInPlace
<1>2. CASE change(w, {<<u, "sub">>}, {entry("SUB", u)})
  <2>1. entry("SUB", u) \in Sent /\ entry("SUB", u).list = "SUB" /\ entry("SUB", u).of = u
    BY DEF entry, Sent
  <2>2. <<u, "sub">> \in about(entry("SUB", u)) BY <2>1, SyncedMeta
  <2> QED BY <1>1, <1>2, <2>1, <2>2
<1>3. CASE change(w, {<<u, "seen">>}, {entry("SEEN", u)})
  <2> DEFINE a == entry("SEEN", u)
  <2>1. a \in Sent /\ a.list = "SEEN" /\ a.of = u BY DEF Sent, entry
  <2>2. <<u, "seen">> \in about(a) BY <2>1, SyncedMeta
  <2> QED BY <1>1, <1>3, <2>1, <2>2
<1>4. CASE change(w, {<<u, "sieve">>}, {entry("META", u)})
  <2>1. entry("META", u) \in Sent /\ entry("META", u).list = "META" /\ entry("META", u).of = u
    BY DEF entry, Sent
  <2>2. <<u, "sieve">> \in about(entry("META", u)) BY <2>1, SyncedMeta DEF metaOf, Meta
  <2> QED BY <1>1, <1>4, <2>1, <2>2
<1> QED BY <1>2, <1>3, <1>4 DEF ChangeMeta

LEMMA QuotaKeeps ==
  ASSUME ClientInv, NEW w \in Writer,
         ChangeAnnotation(w) \/ \E m \in Mbox : ChangeQuota(w, m)
  PROVE  ClientInv'
<1>1. ASSUME NEW a \in Sent, a.list \in {"QUOTA", "ANNOTATION"}, here' = here,
             change(w, about(a), {a})
      PROVE  ClientInv'
  <2> DEFINE line == {a}
             objs == about(a)
  <2>1. ~userless(a) BY <1>1, Userless
  <2>2. /\ line \subseteq Sent /\ \A x \in line : x.list # "UNUSER" /\ ~userless(x)
        /\ \A y \in objs : \E x \in line : y \in cover(x)
        /\ change(w, objs, line)
    BY <1>1, <2>1, SyncedQuota
  <2> HIDE DEF line, objs
  <2> QED BY <1>1, <2>2, ChangedInPlace
<1>2. CASE ChangeAnnotation(w)
  <2> DEFINE a == entry("ANNOTATION", NoUser)
  <2>1. a \in Sent /\ a.list = "ANNOTATION" BY DEF entry, Sent
  <2>2. about(a) = {Annotation} BY <2>1, SyncedQuota
  <2>3. here' = here /\ change(w, {Annotation}, {a}) BY <1>2 DEF ChangeAnnotation
  <2>4. change(w, about(a), {a}) BY <2>2, <2>3
  <2> HIDE DEF a
  <2> QED BY <1>1, <2>1, <2>3, <2>4
<1>3. ASSUME NEW m \in Mbox, ChangeQuota(w, m) PROVE ClientInv'
  <2> DEFINE a == entry("QUOTA", m)
  <2>1. a \in Sent /\ a.list = "QUOTA" /\ a.of = m BY DEF entry, Sent
  <2>2. about(a) = quotas({m}) BY <2>1, SyncedQuota
  <2>3. here' = here /\ change(w, quotas({m}), {a}) BY <1>3 DEF ChangeQuota
  <2>4. change(w, about(a), {a}) BY <2>2, <2>3
  <2> HIDE DEF a
  <2> QED BY <1>1, <2>1, <2>3, <2>4
<1> QED BY <1>2, <1>3

LEMMA DeleteMailboxKeeps ==
  ASSUME Owned, ClientInv, Lasting, NEW w \in Writer, NEW m \in Mbox, DeleteMailbox(w, m)
  PROVE  ClientInv'
<1> DEFINE a == entry("UNMAILBOX", m)
           line == {a}
           objs == {m}
<1>0. here' = here \ {m} /\ change(w, objs, line) BY DEF DeleteMailbox
<1>1. a \in Sent /\ a.list = "UNMAILBOX" /\ a.of = m BY DEF entry, Sent
<1>2. \A u \in User : Inbox[u] # m BY DEF Lasting
<1>3. \A u \in User : Inbox[u] \in here' <=> Inbox[u] \in here BY <1>0, <1>2
<1> HIDE DEF a
<1>4. Whole'
  <2>1. \A x \in here' : x \in here /\ Owner[x] \in User BY <1>0 DEF ClientInv, Whole, Owned
  <2> QED BY <1>3, <2>1 DEF ClientInv, Whole
<1>5. m \in cover(a)' BY <1>0, <1>1, CoverThen
<1>6. \A x \in pending \cup todo \cup line : x.list = "UNUSER" => Inbox[x.of] \notin here'
  BY <1>0, <1>1, SoundItems
<1>7. \A x \in pending \cup todo : \A o \in cover(x) :
        o \in cover(x)' \/ \E b \in line : o \in cover(b)'
  <2> TAKE x \in pending \cup todo
  <2> TAKE o \in cover(x)
  <2>0. x \in Sent BY SoundItems
  <2>1. CASE o = m BY <1>5, <2>1
  <2>2. CASE o # m
    <3>1. CASE x.list = "MAILBOX" BY <1>0, <2>0, <2>2, <3>1, SyncedMailbox, CoverThen
    <3>2. CASE x.list = "UNMAILBOX" BY <1>0, <2>0, <2>2, <3>2, SyncedUnmailbox, CoverThen
    <3>3. CASE x.list = "USER" /\ x.of \in User
      BY <1>3, <2>0, <2>2, <3>3, SyncedUser, CoverThen
    <3>4. CASE x.list = "UNUSER"
      BY <1>0, <1>3, <2>0, <2>2, <3>4, SyncedUnuser, CoverThen, SentLists
    <3>5. CASE x.list \in {"SEEN", "SUB", "META"}
      BY <1>3, <2>0, <2>2, <3>5, SyncedMeta, CoverThen, SentLists
    <3>6. CASE x.list \in {"QUOTA", "ANNOTATION"} \/ (x.list = "USER" /\ x.of \notin User)
      BY <2>0, <3>6, CoverThen
    <3> QED BY <2>0, <3>1, <3>2, <3>3, <3>4, <3>5, <3>6, SentLists
  <2> QED BY <2>1, <2>2
<1>8. /\ line \subseteq Sent /\ \A x \in line : ~userless(x)
      /\ \A o \in objs : \E b \in line : o \in cover(b)'
  BY <1>1, <1>5, Userless
<1> HIDE DEF line, objs
<1> QED BY <1>0, <1>4, <1>6, <1>7, <1>8, Changed

LEMMA DeleteUserKeeps ==
  ASSUME Owned, ClientInv, NEW w \in Writer, NEW u \in User, DeleteUser(w, u)
  PROVE  ClientInv'
<1> DEFINE a == entry("UNUSER", u)
           line == {a}
           objs == allOf(u)
<1>0. here' = here \ allOf(u) /\ change(w, objs, line) BY DEF DeleteUser
<1>1. a \in Sent /\ a.list = "UNUSER" /\ a.of = u BY DEF entry, Sent
<1> HIDE DEF a
<1>2. Inbox[u] \notin here' BY <1>0, AllOf
<1>3. \A v \in User : v # u => (Inbox[v] \in here' <=> Inbox[v] \in here)
  <2> TAKE v \in User
  <2> HAVE v # u
  <2>1. Inbox[v] \in allOf(v) /\ allOf(v) \cap allOf(u) = {} BY AllOf
  <2> QED BY <1>0, <2>1
<1>4. cover(a)' = allOf(u)
  <2>1. cover(a)' = allOf(u) \ here' BY <1>1, <1>2, CoverThen
  <2> QED BY <1>0, <2>1
<1>5. Whole'
  <2>1. \A x \in here' : /\ x \in here /\ x \in Mbox /\ Owner[x] \in User
                         /\ Owner[x] # u /\ Inbox[Owner[x]] \in here
    BY <1>0, AllOf DEF ClientInv, Whole, Owned
  <2> QED BY <1>3, <2>1 DEF Whole
<1>6. \A x \in pending \cup todo \cup line : x.list = "UNUSER" => Inbox[x.of] \notin here'
  BY <1>0, <1>1, <1>2, SoundItems
<1>7. \A x \in pending \cup todo : \A o \in cover(x) :
        o \in cover(x)' \/ \E b \in line : o \in cover(b)'
  <2> TAKE x \in pending \cup todo
  <2> TAKE o \in cover(x)
  <2>0. x \in Sent BY SoundItems
  <2>1. CASE o \in allOf(u) BY <1>4, <2>1
  <2>2. CASE o \notin allOf(u)
    <3>1. CASE x.list = "MAILBOX" BY <1>0, <2>0, <2>2, <3>1, SyncedMailbox, CoverThen
    <3>2. CASE x.list = "UNMAILBOX" BY <1>0, <2>0, <2>2, <3>2, SyncedUnmailbox, CoverThen
    <3>3. CASE x.list = "USER" /\ x.of \in User
      BY <1>3, <2>0, <2>2, <3>3, SyncedUser, CoverThen
    <3>4. CASE x.list = "UNUSER"
      BY <1>0, <2>0, <2>2, <3>4, SyncedUnuser, CoverThen, SoundItems
    <3>5. CASE x.list \in {"SEEN", "SUB", "META"}
      BY <1>3, <2>0, <2>2, <3>5, SyncedMeta, CoverThen, SentLists, AllOf
    <3>6. CASE x.list \in {"QUOTA", "ANNOTATION"} \/ (x.list = "USER" /\ x.of \notin User)
      BY <2>0, <3>6, CoverThen
    <3> QED BY <2>0, <3>1, <3>2, <3>3, <3>4, <3>5, <3>6, SentLists
  <2> QED BY <2>1, <2>2
<1>8. /\ line \subseteq Sent /\ \A x \in line : ~userless(x)
      /\ \A o \in objs : \E b \in line : o \in cover(b)'
  BY <1>1, <1>4, Userless
<1> HIDE DEF line, objs
<1> QED BY <1>0, <1>5, <1>6, <1>7, <1>8, Changed

LEMMA ClientKeeps ==
  ASSUME Owned, ClientInv, Unboxed, [Next]_vars, [Lasting]_vars
  PROVE  ClientInv' /\ Unboxed'
<1>1. CASE UNCHANGED vars
  <2>1. ClientInv' BY <1>1, StillKeeps DEF vars, data, pass
  <2> QED BY <1>1, <2>1 DEF vars, pass, Unboxed
<1>2. CASE Next /\ Lasting
  <2>0. Unboxed' BY <1>2, UnboxedKeeps
  <2>1. CASE \E w \in Writer \ {Client} : Store(w)
    BY <1>2, <2>0, <2>1, ChangeMailboxKeeps, MoveKeeps, MetaKeeps, DeleteMailboxKeeps,
       DeleteUserKeeps, QuotaKeeps DEF Store
  <2>2. CASE \E w \in Writer : Step(w) /\ UNCHANGED <<data, pass, faults>>
    BY <2>0, <2>2, StepKeeps
  <2>3. CASE \E w \in Writer : Lost(w) BY <2>0, <2>3, LostKeeps
  <2>4. CASE Reader /\ UNCHANGED <<data, pass, faults>> BY <2>0, <2>4, ReaderMoves
  <2>5. CASE ReadLog BY <2>0, <2>5, ReadKeeps
  <2>6. CASE BoxesDone BY <2>0, <2>6, StillKeeps DEF BoxesDone, data
  <2>7. CASE Finish BY <2>0, <2>7, FinishKeeps
  <2>8. CASE Bail \/ Fail \/ NoUserDies BY <2>0, <2>8, StopKeeps DEF Bail, Fail, NoUserDies
  <2>9. CASE \E c \in User \cup {NoUser} : Batch(c)
    BY <2>0, <2>9, BatchDoneKeeps, BatchLockedKeeps, BatchFailedKeeps DEF Batch
  <2>10. CASE \E a \in todo : Task(a) BY <2>0, <2>10, TaskKeeps
  <2> QED BY <1>2, <2>1, <2>2, <2>3, <2>4, <2>5, <2>6, <2>7, <2>8, <2>9, <2>10 DEF Next
<1> QED BY <1>1, <1>2

LEMMA ClientInit == Owned /\ Init => ClientInv /\ Unboxed
<1> SUFFICES ASSUME Owned, Init PROVE ClientInv /\ Unboxed OBVIOUS
<1>1. LogInv BY LogInvInit DEF Init
<1>2. pending = {} /\ todo = {} /\ IdleEmpty
  BY SyncLogAssumption DEF Init, LogInit, pending, lines, in, IdleEmpty
<1>3. owed = {} /\ lapsed = {} /\ here = Mbox /\ boxes = FALSE /\ rpc = "begin"
  BY DEF Init, LogInit, owed
<1>4. Whole BY <1>3, AllOf DEF Whole, Owned
<1> QED BY <1>1, <1>2, <1>3, <1>4 DEF ClientInv, Sound, Gone, Lapses, Covered, Unboxed

\* What rolling replication forgets (do_daemon_work, sync_do_reader): whatever is
\* locked and deferred, fails and is promoted, is struck out as redundant, or is
\* interrupted by a kill of the client, when the log is empty the servers agree, but
\* for what its writer has failed to log and for what InSync excepts with lapsed: seen
\* states and server annotations whose update failed and counted as done, and quotas
\* whose promotion was locked.  No mailbox, subscription or script is among them.
\* Every mailbox has an owner, and users are deleted as a whole and for good; without
\* either it is not so.
THEOREM NothingForgotten ==
  ASSUME Owned
  PROVE  Spec /\ [][Lasting]_vars => []InSync
<1>1. Init => ClientInv /\ Unboxed BY ClientInit
<1>2. ClientInv /\ Unboxed /\ [Next]_vars /\ [Lasting]_vars => ClientInv' /\ Unboxed'
  BY ClientKeeps
<1>3. ClientInv => InSync
  <2> SUFFICES ASSUME ClientInv, Quiet
               PROVE  owed = {} /\ lapsed \subseteq Passed
    BY DEF InSync, owed
  <2>1. in(log) = {} /\ in(work) = {} BY DEF Quiet, in
  <2>2. lines = {} BY DEF Quiet, lines, ClientInv, IdleEmpty
  <2> QED BY <2>1, <2>2 DEF ClientInv, Covered, pending, Lapses
<1> QED BY <1>1, <1>2, <1>3, PTL DEF Spec

-----------------------------------------------------------------------------
(* sync_client and the writers use the log as SyncLog says.                 *)

LEMMA ClientStep ==
  ASSUME LogInv, Unboxed, todo \subseteq Item, [Next]_vars
  PROVE  [LogNext]_logVars /\ todo' \subseteq Item
<1>0. items \subseteq Item BY DEF LogInv, LogTypeOK
<1>1. CASE UNCHANGED vars BY <1>1 DEF vars, pass
<1>2. CASE \E w \in Writer \ {Client} : Store(w)
  <2>1. PICK w \in Writer : \E objs, line : change(w, objs, line)
    BY <1>2 DEF Store, ChangeMailbox, MoveMessages, DeleteMailbox, ChangeMeta, DeleteUser,
                ChangeQuota, ChangeAnnotation
  <2> QED BY <2>1 DEF change, pass, LogNext
<1>3. CASE \E w \in Writer : Step(w) /\ UNCHANGED <<data, pass, faults>>
  BY <1>3 DEF Step, LogNext, pass
<1>4. CASE \E w \in Writer : Lost(w) BY <1>4 DEF Lost, LogNext, pass
<1>5. CASE Reader /\ UNCHANGED <<data, pass, faults>> BY <1>5 DEF Reader, LogNext, pass
<1>6. CASE ReadLog
  <2>1. LogNext /\ LogInv' BY <1>6, ReaderKeeps DEF ReadLog, LogNext
  <2>2. items' \subseteq Item BY <2>1 DEF LogInv, LogTypeOK
  <2>3. todo' \subseteq items' BY <1>6 DEF ReadLog, active
  <2> QED BY <2>1, <2>2, <2>3
<1>7. CASE BoxesDone BY <1>7 DEF BoxesDone
<1>8. CASE Finish BY <1>8 DEF Finish, LogNext, pass
<1>9. CASE Bail \/ Fail \/ NoUserDies BY <1>9 DEF Bail, Fail, NoUserDies, stop, LogNext
<1>10. CASE \E c \in User \cup {NoUser} : Batch(c)
  <2>1. PICK c : BatchDone(c) \/ BatchLocked(c) \/ BatchFailed(c) BY <1>10 DEF Batch
  <2>2. \A a \in cohort(c) : a \in Item /\ a.list = "MAILBOX" BY DEF cohort
  <2>3. CASE BatchDone(c) BY <2>3 DEF BatchDone, quiet
  <2>4. CASE BatchLocked(c)
    <3>1. PICK left \in SUBSET cohort(c) :
            /\ defer({mailbox(a.of, Owner[a.of]) : a \in left})
            /\ todo' = todo \ cohort(c)
      BY <2>4 DEF BatchLocked
    <3>2. {mailbox(a.of, Owner[a.of]) : a \in left} \in SUBSET Item
      BY <2>2, ItemAssumption
    <3> QED BY <3>1, <3>2, SyncClientAssumption DEF defer, LogNext
  <2>5. CASE BatchFailed(c)
    <3>1. PICK failed \in SUBSET cohort(c) :
            /\ todo' = (todo \ cohort(c))
                  \cup {entry("USER", u) : u \in {Owner[a.of] : a \in failed} \ {NoUser}}
            /\ quiet
      BY <2>5 DEF BatchFailed
    <3>2. {entry("USER", u) : u \in {Owner[a.of] : a \in failed} \ {NoUser}} \subseteq Item
      BY <2>2, ItemAssumption
    <3> QED BY <3>1, <3>2 DEF quiet
  <2> QED BY <2>1, <2>3, <2>4, <2>5
<1>11. CASE \E a \in todo : Task(a)
  <2>1. PICK a \in todo : \/ TaskDone(a) \/ TaskUnseen(a) \/ TaskLocked(a)
                          \/ TaskFailed(a) \/ TaskIgnored(a)
    BY <1>11 DEF Task
  <2>2. CASE TaskDone(a) \/ TaskUnseen(a) \/ TaskIgnored(a)
    BY <2>2 DEF TaskDone, TaskUnseen, TaskIgnored, quiet
  <2>3. CASE TaskLocked(a)
    <3>1. \E s \in SUBSET Item : defer(s)
      <4>1. CASE a.list = "USER"
        <5>1. entry("USER", a.of) \in Item BY <4>1, ItemAssumption
        <5> QED BY <2>3, <4>1, <5>1 DEF TaskLocked
      <4>2. CASE a.list # "USER" BY <2>3, <4>2 DEF TaskLocked
      <4> QED BY <4>1, <4>2
    <3> QED BY <2>3, <3>1, SyncClientAssumption DEF TaskLocked, defer, LogNext
  <2>4. CASE TaskFailed(a) BY <2>4, ItemAssumption DEF TaskFailed, quiet
  <2> QED BY <2>1, <2>2, <2>3, <2>4
<1> QED BY <1>1, <1>2, <1>3, <1>4, <1>5, <1>6, <1>7, <1>8, <1>9, <1>10, <1>11 DEF Next

\* The processes that change the mail store and sync_client, which reads the log and
\* writes to it what it defers, use it in no other way than SyncLog has it: what is
\* proved of the log holds in rolling replication.
THEOREM ClientUsesLog == Spec => LogSpec
<1>1. Init => LogInv /\ Unboxed /\ todo \subseteq Item /\ LogInit
  BY LogInvInit DEF Init, Unboxed
<1>2. LogInv /\ Unboxed /\ todo \subseteq Item /\ [Next]_vars
        => [LogNext]_logVars /\ LogInv' /\ Unboxed' /\ (todo \subseteq Item)'
  <2> SUFFICES ASSUME LogInv, Unboxed, todo \subseteq Item, [Next]_vars
               PROVE  [LogNext]_logVars /\ LogInv' /\ Unboxed' /\ (todo \subseteq Item)'
    OBVIOUS
  <2>1. [LogNext]_logVars /\ (todo \subseteq Item)' BY ClientStep
  <2>2. LogInv' BY <2>1, LogInvNext
  <2>3. CASE UNCHANGED vars BY <2>1, <2>2, <2>3 DEF vars, pass, Unboxed
  <2>4. CASE Next BY <2>1, <2>2, <2>4, UnboxedKeeps
  <2> QED BY <2>3, <2>4
<1> QED BY <1>1, <1>2, PTL DEF Spec, LogSpec
=============================================================================
