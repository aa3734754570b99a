----------------------------- MODULE SyncClient -----------------------------
(***************************************************************************)
(* Rolling replication: processes change the mail store of the master and  *)
(* log what they changed (module SyncLog); sync_client -r takes the log in *)
(* batches and brings what they name up to date on the replica             *)
(* (sync_client.c do_daemon_work, sync_support.c sync_do_reader).          *)
(*                                                                         *)
(* The contents of the store are reduced to the set of objects in which    *)
(* the two servers differ.  Talking to the replica has three outcomes: it  *)
(* works, another client has the lock of the user (IMAP_MAILBOX_LOCKED),   *)
(* or it fails, after anything has been done or not.                       *)
(***************************************************************************)
EXTENDS SyncLog, FiniteSets

CONSTANTS
  Client,  \* sync_client, which logs what it has to defer
  User,
  NoUser,  \* mboxname_to_userid of a mailbox that belongs to nobody
  Owner,   \* [mailbox -> its user, or NoUser]
  Inbox,   \* [User -> mailbox]
  SeenFails,  \* whether seen_open may fail
  MaxChange,  \* bound: the number of changes to the mail store
  MaxFault    \* bound: the number of failures, locked users and kills

ASSUME SyncClientAssumption ==
  /\ Client \in Writer /\ MaxChange \in Nat /\ MaxFault \in Nat /\ SeenFails \in BOOLEAN
  /\ NoUser \notin User
  /\ \A m \in DOMAIN Owner : Owner[m] \in User \cup {NoUser}
  /\ Inbox \in [User -> DOMAIN Owner] /\ \A u \in User : Owner[Inbox[u]] = u

VARIABLES
  here,      \* the mailboxes that exist on the master
  stale,     \* the objects in which master and replica differ
  unlogged,  \* history: those of them whose writer failed to log them
  lapsed,    \* history: those of them that sync_do_reader failed to bring up to date
             \* and went on as if it had
  changes,   \* history: the number of changes
  faults,    \* history: the number of failures
  todo,      \* the active entries of the lists of sync_do_reader
  boxes,     \* the mailboxes have been dealt with
  r          \* the result of the last command, as sync_do_reader keeps it

data == <<here, stale, unlogged, lapsed, changes>>
pass == <<todo, boxes, r>>
vars == <<logVars, data, pass, faults>>

Mbox == DOMAIN Owner

\* An item is an entry of one of the lists.  of is the mailbox or the user, and
\* NoUser also is the name ""; by is the cohort of a mailbox, the owner of the mailbox
\* that a SEEN entry names, and the name of a USER entry that has no user.
List == <<"MAILBOX", "QUOTA", "ANNOTATION", "SEEN", "SUB", "UNMAILBOX", "META",
          "USER", "UNUSER">>

entry(l, x) == [list |-> l, of |-> x, by |-> NoUser]
mailbox(m, c) == [list |-> "MAILBOX", of |-> m, by |-> c]

\* USER with a name where the user should be.
nameless(m) == [list |-> "USER", of |-> NoUser, by |-> m]
userless(a) == \E m \in Mbox : a = nameless(m)

\* Objects: the mailboxes, the quota roots of their names, the data of a user outside
\* of mailboxes, and the annotations of the server.
Meta == {"seen", "sub", "sieve"}
metaOf(u) == {u} \X Meta
quotas(s) == s \X {"quota"}
boxesOf(u) == {m \in Mbox : Owner[m] = u}
allOf(u) == boxesOf(u) \cup quotas(boxesOf(u)) \cup metaOf(u)
Annotation == <<NoUser, "annotation">>
Object == Mbox \cup quotas(Mbox) \cup (User \X Meta) \cup {Annotation}

\* What an entry is about.
about(a) ==
  CASE a.list \in {"MAILBOX", "UNMAILBOX"} -> {a.of}
    [] a.list = "QUOTA" -> quotas({a.of})
    [] a.list = "ANNOTATION" -> {Annotation}
    [] a.list = "SEEN" -> {<<a.of, "seen">>}
    [] a.list = "SUB" -> {<<a.of, "sub">>}
    [] a.list = "META" -> metaOf(a.of)
    [] a.list \in {"USER", "UNUSER"} -> IF a.of \in User THEN allOf(a.of) ELSE {}

-----------------------------------------------------------------------------
(* The mail store: every change is logged, after it was made.               *)

change(w, objs, line) ==
  /\ line \subseteq Item
  /\ changes < MaxChange /\ changes' = changes + 1
  /\ Log(w, line)
  /\ stale' = stale \cup objs
  /\ unlogged' = unlogged \ objs
  /\ lapsed' = lapsed \ objs
  /\ UNCHANGED <<pass, faults>>

fault == faults < MaxFault /\ faults' = faults + 1

\* mailbox_unlock_index of a mailbox that has changed, or is new.
ChangeMailbox(w, m) ==
  /\ here' = here \cup {m}
  /\ change(w, {m}, {mailbox(m, Owner[m])})

\* index_copy, moving from m to n: DOUBLEMAILBOX.  The lines that each mailbox gets
\* for itself, when it is unlocked and as APPEND, are those of ChangeMailbox.
MoveMessages(w, m, n) ==
  /\ {m, n} \subseteq here /\ m # n
  /\ UNCHANGED here
  /\ change(w, {m, n}, {mailbox(m, Owner[m]), mailbox(n, Owner[m])})

\* mboxlist_deletemailbox.
DeleteMailbox(w, m) ==
  /\ m \in here
  /\ here' = here \ {m}
  /\ change(w, {m}, {entry("UNMAILBOX", m)})

\* mboxlist_changesub, seen_write and the scripts of the user.  seen_write logs the
\* unique id of the mailbox, which is the name of no mailbox.
ChangeMeta(w, u) ==
  /\ Inbox[u] \in here
  /\ UNCHANGED here
  /\ \/ change(w, {<<u, "sub">>}, {entry("SUB", u)})
     \/ change(w, {<<u, "seen">>}, {entry("SEEN", u)})
     \/ change(w, {<<u, "sieve">>}, {entry("META", u)})

\* mboxlist_setquotas and mboxlist_unsetquota.
ChangeQuota(w, m) ==
  /\ m \in here
  /\ UNCHANGED here
  /\ change(w, quotas({m}), {entry("QUOTA", m)})

\* write_entry of an annotation that belongs to no mailbox: ANNOTATION "".
ChangeAnnotation(w) ==
  /\ UNCHANGED here
  /\ change(w, {Annotation}, {entry("ANNOTATION", NoUser)})

\* user_deletedata.
DeleteUser(w, u) ==
  /\ here' = here \ allOf(u)
  /\ here' # here
  /\ change(w, allOf(u), {entry("UNUSER", u)})

Lost(w) ==
  /\ (GiveUp(w) /\ UNCHANGED faults) \/ (Abandon(w) /\ fault)
  /\ unlogged' = unlogged \cup (stale \cap UNION {about(a) : a \in wline[w]})
  /\ UNCHANGED <<here, stale, lapsed, changes, pass>>

-----------------------------------------------------------------------------
(* sync_do_reader.                                                          *)

named(s, l) == {a.of : a \in {b \in s : b.list = l}}

\* Redundant clauses are struck out: USER covers META, SEEN and SUB, META covers
\* SEEN and SUB, and UNUSER trumps USER.
active(s) ==
  LET un == named(s, "UNUSER")
      us == named(s, "USER") \cup un
      me == named(s, "META") \cup us
  IN {a \in s : /\ a.list \in {"SEEN", "SUB"} => a.of \notin me
                /\ a.list = "META" => a.of \notin us
                /\ a.list = "USER" => a.of \notin un}

ReadLog ==
  /\ Read
  /\ todo' = active(items') /\ boxes' = FALSE /\ r' = "OK"
  /\ UNCHANGED <<data, faults>>

\* What is up to date on the replica when the command of a worked: a mailbox or
\* user that is not on the master is left alone, except by UNMAILBOX and UNUSER,
\* and those leave alone what is there again.
synced(a) ==
  CASE a.list = "MAILBOX" -> {a.of} \cap here
    [] a.list = "UNMAILBOX" -> {a.of} \ here
    [] a.list = "USER" -> IF a.of \in User /\ Inbox[a.of] \in here
                          THEN allOf(a.of) \ quotas(Mbox \ here) ELSE {}
    [] a.list = "UNUSER" -> IF Inbox[a.of] \in here THEN {} ELSE allOf(a.of) \ here
    [] OTHER -> about(a)

\* objs are up to date, and skipped should be but need not.
settle(objs, skipped) ==
  /\ stale' = stale \ objs
  /\ unlogged' = unlogged \ objs
  /\ lapsed' = (lapsed \ objs) \cup (stale \cap skipped)
  /\ UNCHANGED <<here, changes>>

upToDate(objs) == settle(objs, {})

\* sync_log_channel: the entries go back to the log.
defer(s) == Log(Client, s)

busy == rpc = "run" /\ wpc[Client] = "idle"
quiet == UNCHANGED logVars

\* The mailboxes of one cohort, and RESTART (split_user_mailboxes, do_mailboxes).
\* The result of a cohort replaces the one of the cohort before.
cohorts == {a.by : a \in {b \in todo : b.list = "MAILBOX"}}

cohort(c) == {a \in todo : a.list = "MAILBOX" /\ a.by = c}

restart == \/ r' = "OK" /\ UNCHANGED faults
           \/ r' = "FAIL" /\ fault

BatchDone(c) ==
  /\ upToDate(UNION {synced(a) : a \in cohort(c)})
  /\ todo' = todo \ cohort(c)
  /\ restart
  /\ quiet

\* marked has the mailboxes that were done before the command ended; the RESTART
\* after it may fail too.
BatchLocked(c) ==
  \E marked \in SUBSET cohort(c) :
    LET left == cohort(c) \ marked
    IN /\ left # {}
       /\ defer({mailbox(a.of, Owner[a.of]) : a \in left})
       /\ upToDate(UNION {synced(a) : a \in marked})
       /\ todo' = todo \ cohort(c)
       /\ r' \in {"OK", "FAIL"} /\ fault

\* Failed personal mailboxes are promoted to USER; the failure of any other stands.
BatchFailed(c) ==
  \E marked \in SUBSET cohort(c) :
    LET failed == cohort(c) \ marked
        owners == {Owner[a.of] : a \in failed}
    IN /\ failed # {}
       /\ upToDate(UNION {synced(a) : a \in marked})
       /\ todo' = (todo \ cohort(c))
                  \cup {entry("USER", u) : u \in owners \ {NoUser}}
       /\ r' \in (IF NoUser \in owners THEN {"FAIL"} ELSE {"OK", "FAIL"}) /\ fault
       /\ quiet

Batch(c) ==
  /\ busy /\ c \in cohorts
  /\ BatchDone(c) \/ BatchLocked(c) \/ BatchFailed(c)
  /\ UNCHANGED boxes

BoxesDone ==
  /\ busy /\ ~boxes /\ cohorts = {}
  /\ r = "OK"
  /\ boxes' = TRUE
  /\ UNCHANGED <<logVars, data, todo, r, faults>>

\* The other lists, one entry after the other and in the order of List.
rank(a) == CHOOSE k \in DOMAIN List : List[k] = a.list

first(a) == \A b \in todo : rank(a) <= rank(b)

\* USER and its RESTART; the others leave their result in r.
result(a, res) == IF a.list = "USER" /\ res # "FAIL" THEN r' = "OK" ELSE r' = res

TaskDone(a) ==
  /\ upToDate(synced(a))
  /\ todo' = todo \ {a}
  /\ result(a, "OK")
  /\ quiet /\ UNCHANGED faults

\* sync_do_user_seen, for META and USER, drops the result of update_seen_work; like
\* sync_do_seen it also returns 0 if the seen state cannot be opened.
TaskUnseen(a) ==
  /\ a.list \in {"META", "USER"} \/ (a.list = "SEEN" /\ SeenFails)
  /\ LET seen == {<<a.of, "seen">>}
     IN settle(synced(a) \ seen, synced(a) \cap seen)
  /\ todo' = todo \ {a}
  /\ result(a, "OK")
  /\ fault /\ quiet

\* With a bug: a locked entry is not logged again.
TaskLockedDropped(a) ==
  /\ a.list # "ANNOTATION"
  /\ todo' = todo \ {a}
  /\ result(a, "LOCKED")
  /\ fault /\ quiet /\ UNCHANGED data

\* Of a USER entry its user is logged, which is "" when it has none: what it stands
\* for is forgotten.
TaskLocked(a) ==
  /\ a.list # "ANNOTATION"
  /\ IF a.list = "USER"
     THEN defer({entry("USER", a.of)}) /\ settle({}, quotas({a.by} \cap Mbox))
     ELSE defer({a}) /\ UNCHANGED data
  /\ todo' = todo \ {a}
  /\ result(a, "LOCKED")
  /\ fault

\* A failure is promoted to a command that covers more.  QUOTA puts its name where
\* the list has the user.
promoted(a) ==
  CASE a.list = "QUOTA" -> nameless(a.of)
    [] a.list = "SUB" -> entry("META", a.of)
    [] a.list = "SEEN" -> entry(IF a.by = a.of THEN "USER" ELSE "META", a.of)
    [] OTHER -> entry("USER", a.of)

Promotes == {"QUOTA", "SEEN", "SUB", "META"}

\* The kinds of objects are told apart, and Item has what its items are deferred
\* as and promoted to.
ASSUME ItemAssumption ==
  /\ Mbox \cap (quotas(Mbox) \cup (User \X Meta) \cup {Annotation}) = {}
  /\ NoUser \notin Mbox
  /\ \A a \in Item :
       /\ a.list \in {List[k] : k \in DOMAIN List}
       /\ a.list = "MAILBOX" => mailbox(a.of, Owner[a.of]) \in Item
       /\ a.list = "MAILBOX" /\ Owner[a.of] # NoUser => entry("USER", Owner[a.of]) \in Item
       /\ a.list \in Promotes => promoted(a) \in Item
       /\ a.list = "USER" => entry("USER", a.of) \in Item

TaskFailed(a) ==
  /\ a.list \in Promotes
  /\ todo' = (todo \ {a}) \cup {promoted(a)}
  /\ result(a, "FAIL")
  /\ fault /\ quiet /\ UNCHANGED data

\* A failure of ANNOTATION "" is passed over, and so is a lock.
TaskIgnored(a) ==
  /\ a.list = "ANNOTATION"
  /\ settle({}, about(a))
  /\ todo' = todo \ {a}
  /\ r' \in {"LOCKED", "FAIL"}
  /\ fault /\ quiet

stop ==
  /\ Restart
  /\ wpc[Client] = "idle"
  /\ todo' = {} /\ r' = "OK" /\ boxes' = FALSE
  /\ UNCHANGED data

Task(a) ==
  /\ busy /\ boxes /\ first(a)
  /\ \/ ~userless(a) /\ (TaskDone(a) \/ TaskUnseen(a))
     \/ TaskLocked(a) \/ TaskFailed(a) \/ TaskIgnored(a)
  /\ UNCHANGED boxes

\* sync_do_user without a user opens the mailbox NULL: the process dies in xstrdup,
\* if the replica has given it an answer to USER NIL.
NoUserDies ==
  /\ busy /\ boxes
  /\ \E a \in todo : userless(a) /\ first(a)
  /\ stop /\ UNCHANGED faults

\* do_daemon_work: sync_do_reader has returned success, the log file is done.
Finish ==
  /\ busy /\ boxes /\ todo = {} /\ r = "OK"
  /\ End
  /\ UNCHANGED <<data, pass, faults>>

\* A result other than OK at the end of the mailboxes or of sync_do_reader: the
\* next reader finds the work file.
Bail ==
  /\ busy /\ r # "OK" /\ (IF boxes THEN todo = {} ELSE cohorts = {})
  /\ stop /\ UNCHANGED faults

\* A failure that is not promoted (goto cleanup), a connection that is lost, a kill.
Fail == fault /\ stop

-----------------------------------------------------------------------------

Init ==
  /\ LogInit
  /\ here = Mbox /\ stale = {} /\ unlogged = {} /\ lapsed = {} /\ changes = 0 /\ faults = 0
  /\ todo = {} /\ boxes = FALSE /\ r = "OK"

Store(w) ==
  \/ \E m \in Mbox : ChangeMailbox(w, m) \/ DeleteMailbox(w, m) \/ ChangeQuota(w, m)
  \/ \E m, n \in Mbox : MoveMessages(w, m, n)
  \/ \E u \in User : ChangeMeta(w, u) \/ DeleteUser(w, u)
  \/ ChangeAnnotation(w)

Step(w) == Open(w) \/ Lock(w) \/ Check(w) \/ Write(w)

Reader == Reprocess \/ Rename \/ OpenWork \/ LockWork

Next ==
  \/ \E w \in Writer \ {Client} : Store(w)
  \/ \E w \in Writer : Step(w) /\ UNCHANGED <<data, pass, faults>>
  \/ \E w \in Writer : Lost(w)
  \/ Reader /\ UNCHANGED <<data, pass, faults>>
  \/ ReadLog \/ BoxesDone \/ Finish \/ Bail \/ NoUserDies \/ Fail
  \/ \E c \in User \cup {NoUser} : Batch(c)
  \/ \E a \in todo : Task(a)

Spec == Init /\ [][Next]_vars

\* Writers and the reader are scheduled, and the reader is started again.  With
\* MaxFault the replica and the locks are there again at last.
FairSpec ==
  /\ Spec
  /\ \A w \in Writer : WF_vars(Step(w) /\ UNCHANGED <<data, pass, faults>>)
  /\ \A w \in Writer : WF_vars(GiveUp(w) /\ Lost(w))
  /\ WF_vars(Reader /\ UNCHANGED <<data, pass, faults>>)
  /\ WF_vars(ReadLog \/ BoxesDone \/ Finish \/ Bail \/ NoUserDies)
  /\ WF_vars(\E c \in User \cup {NoUser} : Batch(c))
  /\ WF_vars(\E a \in todo : Task(a))

-----------------------------------------------------------------------------
(* Properties.                                                              *)

TypeOK ==
  /\ LogTypeOK
  /\ here \subseteq Mbox
  /\ stale \subseteq Object /\ unlogged \subseteq stale /\ lapsed \subseteq stale
  /\ \A a \in todo : a.list \in {List[k] : k \in DOMAIN List}
  /\ boxes \in BOOLEAN /\ r \in {"OK", "LOCKED", "FAIL"}

\* Nothing is logged, being logged or being worked on.
Quiet == log = NoFile /\ work = NoFile /\ \A w \in Writer : wpc[w] = "idle"

\* What sync_do_reader may pass over: the seen state of a user, the annotations of
\* the server, and a quota whose promotion was locked.
Passed == (User \X {"seen"}) \cup quotas(Mbox) \cup {Annotation}

\* When nothing is left to do the servers agree, but for what a writer has failed
\* to log and for seen states, quotas and server annotations whose update failed and
\* was passed over: whatever else fails, is locked, deferred, promoted, struck out as
\* redundant or cut off by a kill, no change is forgotten.
InSync == Quiet => stale \subseteq unlogged \cup (lapsed \cap Passed)

\* A change that was logged reaches the replica, with the same exceptions.
Replicated == []<>(stale \subseteq unlogged \cup (lapsed \cap Passed))
=============================================================================
