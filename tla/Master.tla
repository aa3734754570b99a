-------------------------------- MODULE Master --------------------------------
(***************************************************************************)
(* The master process (master/master.c), one service of it and the service *)
(* processes that it forks (master/service.c).                             *)
(*                                                                         *)
(* Master runs a loop: shut down if told to, start scheduled events, reap  *)
(* dead children, fork the workers that are missing, reread cyrus.conf,    *)
(* wait in pselect, read what the workers have written to the status pipe, *)
(* fork one for a waiting client, clean the child table.  Workers report   *)
(* UNAVAILABLE, CONNECTION and AVAILABLE through the pipe, and master      *)
(* counts from these messages and from SIGCHLD, in whatever order they     *)
(* arrive, how many are ready.                                             *)
(*                                                                         *)
(* Times (the janitor's two seconds, the ten seconds between failures, the *)
(* reuse timeout, the fork rate) are choices.  SIGCHLD and SIGQUIT are     *)
(* blocked outside pselect, as in a build that has it.  A process id is    *)
(* not used again while a message with it is in the pipe.                  *)
(***************************************************************************)
EXTENDS Integers, Sequences, FiniteSets

CONSTANTS
  Pid,            \* process ids
  max_workers,    \* maxchild of the service
  Prefork,        \* prefork of the service
  MaxReadyFails,  \* MAX_READY_FAILS
  Inet,           \* whether it listens on a TCP port, not a unix socket
  ForkFails,      \* whether a fork may fail or be refused for its rate
  MaxConn,        \* bound: connections that clients make
  MaxCrash,       \* bound: crashes of workers
  MaxIdle,        \* bound: workers that leave by themselves
  MaxHup,         \* bound: SIGHUPs to master
  MaxEvent,       \* bound: processes of scheduled events
  Quit            \* bound: whether master is told to shut down

ASSUME MasterAssumption ==
  /\ max_workers \in Nat \ {0} /\ Prefork \in Nat /\ MaxReadyFails \in Nat \ {0}
  /\ Inet \in BOOLEAN /\ ForkFails \in BOOLEAN /\ Quit \in BOOLEAN
  /\ MaxConn \in Nat /\ MaxCrash \in Nat /\ MaxIdle \in Nat /\ MaxHup \in Nat
  /\ MaxEvent \in Nat
  /\ IsFiniteSet(Pid)

VARIABLES
  child,    \* the processes: where each one is and which signal it has
  entry,    \* ctable: the newest centry of each pid
  pipe,     \* the messages in Services[i].stat
  svc,      \* Services[i]
  gen,      \* which of the service's sockets and pipes are the current ones
  shut,     \* whether the current listening socket has been shut down
  mpc,      \* where master is in its loop
  need,     \* the forks that are left in the loop for undermanned services
  rfds,     \* what pselect found readable
  pend,     \* signals that wait for pselect
  got,      \* gotsigchld, gotsigquit, gotsighup
  down,     \* in_shutdown
  clients,  \* connections that wait in the queue of the listening socket
  used      \* how much of each bound is used up

procVars == <<child, pipe, clients>>
vars == <<child, entry, pipe, svc, gen, shut, mpc, need, rfds, pend, got, down,
          clients, used>>

NoChild == [st |-> "none", kind |-> "service", gen |-> 0, sig |-> "none",
            failed |-> FALSE]
NoEntry == [si |-> "none", state |-> "none"]

Alive(p) == child[p].st \notin {"none", "zombie"}
Worker(p) == Alive(p) /\ child[p].kind = "service"
Known(p) == entry[p].si = "service" /\ entry[p].state \in {"READY", "BUSY"}
Ready(p) == entry[p].si = "service" /\ entry[p].state = "READY"
Listening(p) == child[p].gen = gen /\ ~shut

\* The kernel may give p to a new process.
Free(p) == child[p].st = "none" /\ \A i \in DOMAIN pipe : pipe[i].pid # p

Spend(what) == used' = [used EXCEPT ![what] = @ + 1]

-----------------------------------------------------------------------------
(* Service processes.                                                       *)

masterVars == <<entry, svc, gen, shut, mpc, need, rfds, got, down>>

\* notify_master: a worker of an earlier socket has a pipe that nobody reads.
notify_master(p, message) ==
  pipe' = IF child[p].gen = gen
          THEN Append(pipe, [pid |-> p, message |-> message]) ELSE pipe

\* The process ends and its parent gets SIGCHLD.
exit(p, failed) ==
  /\ child' = [child EXCEPT ![p].st = "zombie", ![p].failed = failed]
  /\ pend' = pend \cup {"chld"}

goto(p, st) == child' = [child EXCEPT ![p].st = st] /\ UNCHANGED pend

\* service_init is done; a signal that came before the handlers were installed
\* ends the process, one before the exec is lost if it was SIGHUP.
Start(p) ==
  /\ Worker(p) /\ child[p].st = "start"
  /\ \/ goto(p, "wait")
     \/ child[p].sig # "none" /\ exit(p, TRUE)
     \/ /\ child[p].sig = "hup"
        /\ child' = [child EXCEPT ![p].st = "wait", ![p].sig = "none"]
        /\ UNCHANGED pend
  /\ UNCHANGED <<masterVars, pipe, clients, used>>

\* One of the waiting workers has the accept lock and takes the connection, even
\* if a signal came after it last polled for one.
Accept(p) ==
  /\ Worker(p) /\ child[p].st = "wait"
  /\ Listening(p) /\ clients > 0
  /\ goto(p, "accepted")
  /\ clients' = clients - 1
  /\ UNCHANGED <<masterVars, pipe, used>>

TellUnavailable(p) ==
  /\ Worker(p) /\ child[p].st = "accepted"
  /\ notify_master(p, "UNAVAILABLE") /\ goto(p, "told")
  /\ UNCHANGED <<masterVars, clients, used>>

\* libwrap denies the connection: master is not told of it.
Deny(p) ==
  /\ Worker(p) /\ child[p].st = "accepted" /\ Inet
  /\ goto(p, "wait")
  /\ UNCHANGED <<masterVars, pipe, clients, used>>

TellConnection(p) ==
  /\ Worker(p) /\ child[p].st = "told"
  /\ notify_master(p, "CONNECTION") /\ goto(p, "serving")
  /\ UNCHANGED <<masterVars, clients, used>>

\* With a bug: a worker that waits for the next client does not say so.
ServeSilent(p) ==
  /\ Worker(p) /\ child[p].st = "serving"
  /\ IF child[p].sig # "none" THEN exit(p, FALSE) ELSE goto(p, "wait")
  /\ UNCHANGED <<masterVars, pipe, clients, used>>

\* service_main returns: wait for another client, unless there was a signal.
Serve(p) ==
  /\ Worker(p) /\ child[p].st = "serving"
  /\ IF child[p].sig # "none"
     THEN exit(p, FALSE) /\ UNCHANGED pipe
     ELSE goto(p, "wait") /\ notify_master(p, "AVAILABLE")
  /\ UNCHANGED <<masterVars, clients, used>>

\* A worker that waits leaves because of a signal.
Leave(p) ==
  /\ Worker(p) /\ child[p].st = "wait" /\ child[p].sig # "none"
  /\ exit(p, FALSE)
  /\ UNCHANGED <<masterVars, pipe, clients, used>>

\* It leaves by itself: reuse timeout, a new executable, or its last use.
IdleExit(p) ==
  /\ Worker(p) /\ child[p].st \in {"wait", "serving"} /\ used.idle < MaxIdle
  /\ exit(p, FALSE) /\ Spend("idle")
  /\ UNCHANGED <<masterVars, pipe, clients>>

\* It fails: service_init or accept returns an error, or it is killed.
Crash(p) ==
  /\ Worker(p) /\ used.crash < MaxCrash
  /\ exit(p, TRUE) /\ Spend("crash")
  /\ UNCHANGED <<masterVars, pipe, clients>>

\* The process of a scheduled event has done its work.
EventDone(p) ==
  /\ Alive(p) /\ child[p].kind = "event"
  /\ \E failed \in BOOLEAN : exit(p, failed)
  /\ UNCHANGED <<masterVars, pipe, clients, used>>

Connect ==
  /\ used.conn < MaxConn
  /\ ~shut /\ (svc.socket \/ \E p \in Pid : Worker(p) /\ Listening(p))
  /\ clients' = clients + 1 /\ Spend("conn")
  /\ UNCHANGED <<masterVars, child, pipe, pend>>

\* SIGHUP to master is not blocked: the handler runs at once.
SigHup ==
  /\ used.hup < MaxHup /\ mpc # "exit"
  /\ IF mpc = "select" THEN pend' = pend \cup {"hup"} /\ UNCHANGED got
     ELSE got' = got \cup {"hup"} /\ UNCHANGED pend
  /\ Spend("hup")
  /\ UNCHANGED <<procVars, entry, svc, gen, shut, mpc, need, rfds, down>>

SigQuit ==
  /\ Quit /\ ~down /\ "quit" \notin pend \cup got
  /\ pend' = pend \cup {"quit"}
  /\ UNCHANGED <<procVars, masterVars, used>>

-----------------------------------------------------------------------------
(* Master: signals, events and dead children.                               *)

\* begin_shutdown: SIGTERM to the process group, master itself included.
Top ==
  /\ mpc = "top"
  /\ got' = got \ {"quit"} /\ mpc' = "schedule"
  /\ IF "quit" \in got /\ ~down
     THEN /\ down' = TRUE /\ pend' = pend \cup {"quit"}
          /\ child' = [p \in Pid |-> IF Alive(p) THEN [child[p] EXCEPT !.sig = "term"]
                                     ELSE child[p]]
     ELSE UNCHANGED <<down, pend, child>>
  /\ UNCHANGED <<entry, pipe, svc, gen, shut, need, rfds, clients, used>>

\* fork and centry_add.
fork(p, kind) ==
  /\ child' = [child EXCEPT ![p] = [st |-> "start", kind |-> kind, gen |-> gen,
                                    sig |-> "none", failed |-> FALSE]]
  /\ entry' = [entry EXCEPT ![p] = [si |-> IF kind = "event" THEN "none" ELSE "service",
                                    state |-> "READY"]]

\* spawn_schedule: an event is due, or none is.
spawn_schedule ==
  /\ mpc = "schedule" /\ mpc' = "reap"
  /\ \/ /\ ~down /\ used.event < MaxEvent
        /\ \E p \in Pid : Free(p) /\ fork(p, "event")
        /\ Spend("event")
     \/ UNCHANGED <<child, entry, used>>
  /\ UNCHANGED <<pipe, svc, gen, shut, need, rfds, pend, got, down, clients>>

Reap ==
  /\ mpc = "reap"
  /\ got' = got \ {"chld"}
  /\ mpc' = IF "chld" \in got THEN "reaping" ELSE "man"
  /\ UNCHANGED <<procVars, entry, svc, gen, shut, need, rfds, pend, down, used>>

\* A failure in READY state counts; too many within ten seconds of each other
\* disable the service.
readyFail(s, fails) ==
  IF fails >= MaxReadyFails /\ s.exec
  THEN [s EXCEPT !.nreadyfails = fails, !.exec = FALSE, !.socket = FALSE]
  ELSE [s EXCEPT !.nreadyfails = fails]

\* With a bug: a worker that ends is still taken for ready.
accountActive(p) == {[svc EXCEPT !.nactive = @ - 1]}

\* The counters of the service after the end of its worker p.
account(p) ==
  LET s == [svc EXCEPT !.nactive = @ - 1,
                       !.ready_workers = IF Ready(p) THEN @ - 1 ELSE @]
  IN IF Ready(p) /\ ~down /\ child[p].failed
     THEN {readyFail(s, n) : n \in {svc.nreadyfails + 1, 1}}
     ELSE {s}

\* With a bug: one child per SIGCHLD, although signals are not queued.
reap_childOne(p) ==
  /\ mpc = "reaping" /\ child[p].st = "zombie"
  /\ IF Known(p) THEN svc' \in account(p) ELSE UNCHANGED svc
  /\ entry' = [entry EXCEPT ![p].state = "DEAD"]
  /\ child' = [child EXCEPT ![p] = NoChild]
  /\ mpc' = "man"
  /\ UNCHANGED <<pipe, gen, shut, need, rfds, pend, got, down, clients, used>>

\* One round of the loop around waitpid.
reap_child(p) ==
  /\ mpc = "reaping" /\ child[p].st = "zombie"
  /\ IF Known(p) THEN svc' \in account(p) ELSE UNCHANGED svc
  /\ entry' = [entry EXCEPT ![p].state = "DEAD"]
  /\ child' = [child EXCEPT ![p] = NoChild]
  /\ UNCHANGED <<pipe, gen, shut, mpc, need, rfds, pend, got, down, clients, used>>

ReapEnd ==
  /\ mpc = "reaping" /\ \A p \in Pid : child[p].st # "zombie"
  /\ mpc' = "man"
  /\ UNCHANGED <<procVars, entry, svc, gen, shut, need, rfds, pend, got, down, used>>

-----------------------------------------------------------------------------
(* Master: workers.                                                         *)

\* With a bug: the limit is not looked at.
UndermannedAnyway == svc.exec /\ svc.ready_workers < svc.desired

Undermanned ==
  svc.exec /\ svc.nactive < max_workers /\ svc.ready_workers < svc.desired

\* With a bug: a disabled service is removed while it has workers.
abandonedEarly == ~svc.exec /\ svc.named

\* A disabled service without children is removed from Services.
abandoned == ~svc.exec /\ svc.named /\ svc.nactive = 0

\* With a bug: master waits only for workers without a client.
finishedIdle == svc.ready_workers = 0

finished == svc.nactive = 0

\* The loop over the services, and the end of master.  The babysitter's branch
\* is left out: a service without children is undermanned, as babysit implies
\* prefork.
Man ==
  /\ mpc = "man"
  /\ \/ /\ ~down /\ Undermanned
        /\ need' = svc.desired - svc.ready_workers
        /\ mpc' = "spawn" /\ UNCHANGED <<svc, pipe>>
     \/ /\ ~down /\ abandoned
        /\ svc' = [svc EXCEPT !.named = FALSE] /\ pipe' = <<>>
        /\ mpc' = "hup" /\ UNCHANGED need
     \/ /\ ~down /\ ~Undermanned /\ ~abandoned
        /\ mpc' = "hup" /\ UNCHANGED <<svc, pipe, need>>
     \/ /\ down
        /\ mpc' = IF finished THEN "exit" ELSE "hup"
        /\ UNCHANGED <<svc, pipe, need>>
  /\ UNCHANGED <<child, entry, gen, shut, rfds, pend, got, down, clients, used>>

\* spawn_service: a worker more, or none if fork fails or the rate is too high.
spawn_service ==
  \/ \E p \in Pid :
       /\ Free(p) /\ fork(p, "service")
       /\ svc' = [svc EXCEPT !.ready_workers = @ + 1, !.nactive = @ + 1]
  \/ /\ ForkFails \/ ~\E p \in Pid : Free(p)
     /\ UNCHANGED <<child, entry, svc>>

Spawn ==
  /\ mpc = "spawn"
  /\ spawn_service
  /\ need' = need - 1
  /\ mpc' = IF need = 1 THEN "hup" ELSE "spawn"
  /\ UNCHANGED <<pipe, gen, shut, rfds, pend, got, down, clients, used>>

-----------------------------------------------------------------------------
(* Master: reread_conf.                                                     *)

NoHup ==
  /\ mpc = "hup" /\ "hup" \notin got
  /\ mpc' = "select"
  /\ UNCHANGED <<procVars, entry, svc, gen, shut, need, rfds, pend, got, down, used>>

\* SIGHUP to all children of the service that are not dead.
recycle ==
  child' = [p \in Pid |-> IF Known(p) /\ Alive(p) /\ child[p].sig = "none"
                          THEN [child[p] EXCEPT !.sig = "hup"] ELSE child[p]]

\* bind fails while an old worker still listens on the same port.
CanBind == ~Inet \/ ~\E p \in Pid : Worker(p) /\ Listening(p)

\* The service in cyrus.conf, in the entry of Services that it has or had.
add_service(s) == [s EXCEPT !.exec = TRUE, !.named = TRUE, !.desired = Prefork]

\* A configured service without a socket gets a new one and a new pipe, or is
\* disabled again.
service_create ==
  \/ /\ CanBind
     /\ svc' = [add_service(svc) EXCEPT !.socket = TRUE, !.ready_workers = 0]
     /\ pipe' = <<>> /\ gen' = gen + 1 /\ shut' = FALSE /\ clients' = 0
  \/ /\ ~CanBind
     /\ svc' = [add_service(svc) EXCEPT !.exec = FALSE]
     /\ UNCHANGED <<pipe, gen, shut, clients>>

\* Master rereads cyrus.conf, in which the service is configured or not.
reread_conf(configured) ==
  /\ mpc = "hup" /\ "hup" \in got
  /\ got' = got \ {"hup"} /\ mpc' = "select"
  /\ recycle
  /\ \/ configured /\ ~svc.socket /\ service_create
     \/ /\ configured /\ svc.socket
        /\ svc' = add_service(svc)
        /\ UNCHANGED <<pipe, gen, shut, clients>>
     \/ /\ ~configured /\ svc.socket
        /\ svc' = [svc EXCEPT !.exec = FALSE, !.desired = 0, !.socket = FALSE]
        /\ shut' = TRUE /\ clients' = 0
        /\ UNCHANGED <<pipe, gen>>
     \/ /\ ~configured /\ ~svc.socket
        /\ svc' = [svc EXCEPT !.exec = FALSE]
        /\ UNCHANGED <<pipe, gen, shut, clients>>
  /\ UNCHANGED <<entry, need, rfds, pend, down, used>>

-----------------------------------------------------------------------------
(* Master: pselect and what it finds.                                       *)

\* Master listens for connections while no worker is ready, unless the service has
\* forked too often lately.
awaited == svc.socket /\ svc.ready_workers = 0 /\ svc.nactive < max_workers

\* What pselect may find readable.
readable ==
  {set \in SUBSET {"pipe", "conn"} :
     /\ "pipe" \in set <=> pipe # <<>>
     /\ "conn" \in set => awaited /\ clients > 0
     /\ ~ForkFails /\ awaited /\ clients > 0 => "conn" \in set}

\* What pselect returned: only with something readable is anything read.
selected(set) ==
  /\ rfds' = set
  /\ mpc' = IF set = {} THEN "janitor" ELSE "read"
  /\ UNCHANGED <<procVars, entry, svc, gen, shut, need, down, used>>

\* What is readable is returned even if signals are pending.
SelectReady ==
  /\ mpc = "select"
  /\ \E set \in readable \ {{}} : selected(set)
  /\ UNCHANGED <<pend, got>>

\* The wakeup call of the janitor is always on the schedule.
SelectTimeout ==
  /\ mpc = "select" /\ {} \in readable /\ pend = {} /\ ~down
  /\ selected({})
  /\ UNCHANGED <<pend, got>>

\* pselect is interrupted: it is tried again without waiting, except in a
\* shutdown, and given up if signals go on to interrupt it.
SelectSignal ==
  /\ mpc = "select" /\ pend # {}
  /\ got' = got \cup pend /\ pend' = {}
  /\ \E set \in readable \cup {{}} : (down => set = {}) /\ selected(set)

\* With a bug: a message of a dead child counts.
afterDead(state, message) ==
  IF message \in {"UNAVAILABLE", "CONNECTION"} THEN "BUSY" ELSE "READY"

\* process_msg: the state of a child after its message.
after(state, message) ==
  IF state = "DEAD" THEN "DEAD"
  ELSE IF message \in {"UNAVAILABLE", "CONNECTION"} THEN "BUSY" ELSE "READY"

\* A child that is not in the table any more is added as a dead one.
process_msg(msg) ==
  LET old == IF entry[msg.pid].state = "none" THEN "DEAD" ELSE entry[msg.pid].state
      new == after(old, msg.message)
  IN /\ entry' = [entry EXCEPT ![msg.pid] = [si |-> "service", state |-> new]]
     /\ svc' = [svc EXCEPT !.ready_workers =
                  IF old = "READY" /\ new = "BUSY" THEN @ - 1
                  ELSE IF old = "BUSY" /\ new = "READY" THEN @ + 1 ELSE @]

ReadMsg ==
  /\ mpc = "read" /\ "pipe" \in rfds /\ pipe # <<>>
  /\ process_msg(Head(pipe))
  /\ pipe' = Tail(pipe)
  /\ UNCHANGED <<child, gen, shut, mpc, need, rfds, pend, got, down, clients, used>>

\* All messages are read; somebody may want to talk to us.
Talk ==
  /\ mpc = "read" /\ ("pipe" \notin rfds \/ pipe = <<>>)
  /\ mpc' = "janitor"
  /\ IF /\ ~down /\ svc.exec /\ svc.nactive < max_workers
        /\ svc.ready_workers = 0 /\ svc.socket /\ "conn" \in rfds
     THEN spawn_service ELSE UNCHANGED <<child, entry, svc>>
  /\ UNCHANGED <<pipe, gen, shut, need, rfds, pend, got, down, clients, used>>

\* With a bug: any entry that is old enough is freed.
expiredAny == Pid

\* The entries whose deadline may have passed.
expired == {p \in Pid : entry[p].state = "DEAD"}

child_janitor ==
  /\ mpc = "janitor" /\ mpc' = "top"
  /\ \E old \in SUBSET expired :
       entry' = [p \in Pid |-> IF p \in old THEN NoEntry ELSE entry[p]]
  /\ UNCHANGED <<procVars, svc, gen, shut, need, rfds, pend, got, down, used>>

-----------------------------------------------------------------------------
(* The specification.                                                       *)

Init ==
  /\ child = [p \in Pid |-> NoChild]
  /\ entry = [p \in Pid |-> NoEntry]
  /\ pipe = <<>>
  /\ svc = [exec |-> TRUE, named |-> TRUE, socket |-> TRUE, desired |-> Prefork,
            ready_workers |-> 0, nactive |-> 0, nreadyfails |-> 0]
  /\ gen = 1 /\ shut = FALSE
  /\ mpc = "top" /\ need = 0 /\ rfds = {}
  /\ pend = {} /\ got = {} /\ down = FALSE
  /\ clients = 0
  /\ used = [conn |-> 0, crash |-> 0, idle |-> 0, hup |-> 0, event |-> 0]

ChildStep(p) ==
  \/ Start(p) \/ Accept(p) \/ TellUnavailable(p) \/ Deny(p)
  \/ TellConnection(p) \/ Serve(p) \/ Leave(p)

MasterStep ==
  \/ Top \/ spawn_schedule \/ Reap \/ ReapEnd \/ Man \/ Spawn
  \/ \E p \in Pid : reap_child(p)
  \/ NoHup \/ \E configured \in BOOLEAN : reread_conf(configured)
  \/ SelectReady \/ SelectTimeout \/ SelectSignal
  \/ ReadMsg \/ Talk \/ child_janitor

Environment ==
  \/ Connect \/ SigHup \/ SigQuit
  \/ \E p \in Pid : IdleExit(p) \/ Crash(p) \/ EventDone(p)

Next == MasterStep \/ Environment \/ \E p \in Pid : ChildStep(p)

Spec == Init /\ [][Next]_vars

\* Master and the workers run; clients end their sessions.  Nobody has to
\* connect, to send a signal or to crash.
FairSpec == Spec /\ WF_vars(MasterStep) /\ \A p \in Pid : WF_vars(ChildStep(p))

-----------------------------------------------------------------------------
(* Properties.                                                              *)

Positions == {"top", "schedule", "reap", "reaping", "man", "spawn", "hup",
              "select", "read", "janitor", "exit"}

Child == [st: {"none", "start", "wait", "accepted", "told", "serving", "zombie"},
          kind: {"service", "event"}, gen: Nat, sig: {"none", "hup", "term"},
          failed: BOOLEAN]

Entry == [si: {"none", "service"}, state: {"none", "READY", "BUSY", "DEAD"}]

Service == [exec: BOOLEAN, named: BOOLEAN, socket: BOOLEAN, desired: {0, Prefork},
            ready_workers: Int, nactive: Nat, nreadyfails: Nat]

Message == [pid: Pid, message: {"AVAILABLE", "UNAVAILABLE", "CONNECTION"}]

\* The variables have their types, and no counter of the service is negative, but
\* for ready_workers of a service that was created anew.
TypeOK ==
  /\ child \in [Pid -> Child]
  /\ entry \in [Pid -> Entry]
  /\ pipe \in Seq(Message)
  /\ svc \in Service
  /\ gen = 1 => svc.ready_workers \in Nat
  /\ gen \in Nat /\ shut \in BOOLEAN /\ mpc \in Positions /\ need \in Nat
  /\ rfds \subseteq {"pipe", "conn"} /\ pend \subseteq {"chld", "quit", "hup"}
  /\ got \subseteq {"chld", "quit", "hup"} /\ down \in BOOLEAN /\ clients \in Nat
  /\ used \in [{"conn", "crash", "idle", "hup", "event"} -> Nat]

\* Master knows its children: nactive is the number of service processes that
\* exist and have not been reaped, and these are the live entries of its table,
\* in whatever order SIGCHLD and the messages of a worker arrive, whatever the
\* janitor frees and however often the service is removed and added.
ActiveCount ==
  /\ svc.nactive = Cardinality({p \in Pid : Known(p)})
  /\ \A p \in Pid : Known(p) = (child[p].st # "none" /\ child[p].kind = "service")

\* ready_workers, from which master decides to fork, counts the entries in READY
\* state, as long as the service's socket is not made anew.
ReadyCount == gen = 1 => svc.ready_workers = Cardinality({p \in Pid : Ready(p)})

\* When master has read all messages and goes to sleep, a worker that it takes
\* for ready is one that waits for a client or is about to tell otherwise, and
\* one that it takes for busy has a client.
TrueView ==
  mpc = "select" /\ pipe = <<>> =>
    \A p \in Pid : Worker(p) /\ child[p].gen = gen =>
      Ready(p) = (child[p].st \in {"start", "wait", "accepted"})

\* An entry of Services is given up, for add_service to use it for any other
\* service, only when no process of the old service is left to be counted.
SlotFree == ~svc.named => \A p \in Pid : ~Known(p) /\ ~Worker(p)

\* Master may exceed maxchild, but by less than prefork, as long as ready_workers is
\* right.
WorkersBounded ==
  gen = 1 => svc.nactive < max_workers + (IF Prefork = 0 THEN 1 ELSE Prefork)

\* "All children have exited": master ends when no service process is left.
NoWorkerLeft == mpc = "exit" => \A p \in Pid : ~Worker(p)

\* A client that waits is served, unless the service is disabled or master shuts
\* down: whatever workers crash or leave, there is one that waits, or master
\* forks one.
Served == clients > 0 ~> clients = 0 \/ ~svc.exec \/ down

\* A shutdown comes to its end: no SIGCHLD is missed.
ShutdownEnds == down ~> mpc = "exit"
=============================================================================
