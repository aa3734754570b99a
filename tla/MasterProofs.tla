---------------------------- MODULE MasterProofs ----------------------------
(***************************************************************************)
(* Master keeps count of its workers, for any number of processes, any     *)
(* maxchild and prefork, and any number of connections, crashes, SIGHUPs   *)
(* and scheduled events.                                                   *)
(***************************************************************************)
EXTENDS Master, FiniteSetTheorems, TLAPS

Idle == {"start", "wait", "accepted"}

KnownPids == {p \in Pid : Known(p)}
ReadyPids == {p \in Pid : Ready(p)}

\* The entries of the child table next to the processes: what is not a process
\* has no live entry, the process of an event has one without a service, and the
\* messages in the pipe are from service processes, or from dead ones.
Tables ==
  /\ gen >= 1
  /\ \A p \in Pid :
       /\ child[p].gen <= gen
       /\ child[p].st = "none" => entry[p].state \in {"none", "DEAD"}
       /\ child[p].st # "none" /\ child[p].kind = "service" => Known(p)
       /\ child[p].st # "none" /\ child[p].kind = "event" => entry[p].si = "none"
  /\ \A i \in DOMAIN pipe :
       child[pipe[i].pid].st # "none" => child[pipe[i].pid].kind = "service"

\* The counters.
Counts ==
  /\ svc.nactive = Cardinality(KnownPids)
  /\ gen = 1 => svc.ready_workers = Cardinality(ReadyPids)

\* Where master is: the loop of spawn has forks left and a service to fork for,
\* and master leaves its loop when it counts no worker.
Loop ==
  /\ mpc = "spawn" => need > 0 /\ svc.exec
  /\ mpc = "spawn" /\ gen = 1 => svc.nactive + need < max_workers + Prefork
  /\ mpc = "exit" => svc.nactive = 0
  /\ svc.exec => svc.named
  /\ ~svc.named => svc.nactive = 0

unread(p) == {i \in DOMAIN pipe : pipe[i].pid = p}

\* The last message of a worker that master has not read tells where it is, and
\* when there is none its entry does.
View ==
  \A p \in Pid : Worker(p) /\ child[p].gen = gen =>
    /\ unread(p) = {} => Ready(p) = (child[p].st \in Idle)
    /\ \A i \in unread(p) :
         (\A j \in unread(p) : j <= i) =>
           (pipe[i].message = "AVAILABLE") = (child[p].st \in Idle)

MasterInv == TypeOK /\ Tables /\ Counts /\ Loop /\ View /\ WorkersBounded

-----------------------------------------------------------------------------
(* Steps of the processes.                                                  *)

\* The counters do not change with processes and messages, only with entries.
LEMMA CountsKept ==
  ASSUME Counts, UNCHANGED <<entry, svc, gen>>
  PROVE  Counts'
<1>1. KnownPids' = KnownPids BY DEF KnownPids, Known
<1>2. ReadyPids' = ReadyPids BY DEF ReadyPids, Ready
<1> QED BY <1>1, <1>2 DEF Counts

\* The pipe as a sequence.
LEMMA PipeType ==
  ASSUME TypeOK
  PROVE  /\ Len(pipe) \in Nat /\ DOMAIN pipe = 1..Len(pipe)
         /\ \A i \in DOMAIN pipe : pipe[i] \in Message /\ pipe[i].pid \in Pid
<1>1. pipe \in Seq(Message) BY DEF TypeOK
<1>2. Len(pipe) \in Nat /\ DOMAIN pipe = 1..Len(pipe) /\ \A i \in DOMAIN pipe : pipe[i] \in Message
  BY <1>1
<1> QED BY <1>2 DEF Message

\* A process goes somewhere else.
LEMMA ChildGoes ==
  ASSUME NEW c \in Child, NEW st \in {"start", "wait", "accepted", "told", "serving", "zombie"}
  PROVE  /\ [c EXCEPT !.st = st] \in Child
         /\ [c EXCEPT !.st = st].st = st /\ [c EXCEPT !.st = st].kind = c.kind
         /\ [c EXCEPT !.st = st].gen = c.gen /\ [c EXCEPT !.st = st].sig = c.sig
         /\ [c EXCEPT !.st = st].failed = c.failed
BY DEF Child

\* What a process does by itself and master is not told.
LEMMA ProcessKeeps ==
  ASSUME MasterInv, NEW p \in Pid, Alive(p), UNCHANGED <<masterVars, pipe>>,
         NEW c \in [st: {"start", "wait", "accepted", "told", "serving", "zombie"},
                    kind: {child[p].kind}, gen: {child[p].gen},
                    sig: {"none", "hup", "term"}, failed: BOOLEAN],
         c.st # "zombie" => (c.st \in Idle) = (child[p].st \in Idle),
         child' = [child EXCEPT ![p] = c],
         pend' \subseteq {"chld", "quit", "hup"}, clients' \in Nat,
         used' \in [{"conn", "crash", "idle", "hup", "event"} -> Nat]
  PROVE  MasterInv'
<1> USE DEF MasterInv, masterVars
<1>1. TypeOK' BY DEF TypeOK, Child
<1>2. \A q \in Pid : /\ child'[q].kind = child[q].kind /\ child'[q].gen = child[q].gen
                     /\ child'[q].st = "none" <=> child[q].st = "none"
  BY DEF TypeOK, Child, Alive
<1>3. Tables' BY <1>2, PipeType DEF Tables, Known
<1>4. Counts' BY CountsKept
<1>5. Loop' /\ WorkersBounded' BY DEF Loop, WorkersBounded
<1>6. \A q \in Pid : Worker(q)' => Worker(q) /\ (child'[q].st \in Idle) = (child[q].st \in Idle)
  BY <1>2 DEF Worker, Alive, TypeOK, Child
<1>7. \A q \in Pid : Ready(q)' = Ready(q) /\ unread(q)' = unread(q) BY DEF Ready, unread
<1>8. View' BY <1>2, <1>6, <1>7 DEF View
<1> QED BY <1>1, <1>3, <1>4, <1>5, <1>8

\* A worker writes to the pipe and goes on.
LEMMA NotifyKeeps ==
  ASSUME MasterInv, NEW p \in Pid, Worker(p), UNCHANGED <<masterVars, clients, used>>,
         NEW st \in {"told", "serving", "wait"}, goto(p, st),
         NEW message \in {"AVAILABLE", "UNAVAILABLE", "CONNECTION"},
         (message = "AVAILABLE") = (st \in Idle),
         notify_master(p, message)
  PROVE  MasterInv'
<1> USE DEF MasterInv, masterVars, goto
<1> DEFINE m == [pid |-> p, message |-> message]
<1>1. pipe' = IF child[p].gen = gen THEN Append(pipe, m) ELSE pipe BY DEF notify_master
<1>2. m \in Message /\ m.pid = p /\ m.message = message BY DEF Message
<1> HIDE DEF m
<1>3. pipe \in Seq(Message) BY DEF TypeOK
<1>4. /\ \A i \in DOMAIN pipe : i \in DOMAIN pipe' /\ pipe'[i] = pipe[i]
      /\ \A i \in DOMAIN pipe' : i \in DOMAIN pipe \/ (i = Len(pipe) + 1 /\ pipe'[i] = m)
      /\ child[p].gen = gen => Len(pipe) + 1 \in DOMAIN pipe' /\ pipe'[Len(pipe) + 1] = m
  <2>1. CASE child[p].gen = gen
    <3>1. pipe' = Append(pipe, m) BY <1>1, <2>1
    <3> QED BY <1>2, <1>3, <3>1
  <2>2. CASE child[p].gen # gen 
    <3>1. pipe' = pipe BY <1>1, <2>2
    <3> QED BY <2>2, <3>1
  <2> QED BY <2>1, <2>2
<1>5. TypeOK'
  <2>1. pipe' \in Seq(Message) BY <1>1, <1>2, <1>3
  <2>2. child' \in [Pid -> Child] BY ChildGoes DEF TypeOK
  <2> QED BY <2>1, <2>2 DEF TypeOK
<1>6. \A q \in Pid : /\ child'[q].kind = child[q].kind /\ child'[q].gen = child[q].gen
                     /\ child'[q].st = "none" <=> child[q].st = "none"
  BY DEF TypeOK, Child, Worker, Alive
<1>7. Tables'
  <2>1. \A i \in DOMAIN pipe' :
          child'[pipe'[i].pid].st # "none" => child'[pipe'[i].pid].kind = "service"
    BY <1>2, <1>4, <1>6, PipeType DEF Tables, Worker
  <2> QED BY <1>6, <2>1 DEF Tables, Known
<1>8. Counts' BY CountsKept
<1>9. Loop' /\ WorkersBounded' BY DEF Loop, WorkersBounded
<1>10. View'
  <2> SUFFICES ASSUME NEW q \in Pid, Worker(q)', child'[q].gen = gen
               PROVE  /\ unread(q)' = {} => Ready(q)' = (child'[q].st \in Idle)
                      /\ \A i \in unread(q)' :
                           (\A j \in unread(q)' : j <= i) =>
                             (pipe'[i].message = "AVAILABLE") = (child'[q].st \in Idle)
    BY DEF View
  <2>1. CASE q = p
    <3>1. child'[p].st = st /\ child[p].gen = gen BY <1>6, <2>1 DEF TypeOK
    <3>2. Len(pipe) + 1 \in unread(p)' BY <1>2, <1>4, <3>1 DEF unread
    <3>3. ASSUME NEW i \in unread(p)', \A j \in unread(p)' : j <= i PROVE pipe'[i] = m
      BY <1>4, <3>2, <3>3, PipeType DEF unread
    <3> QED BY <1>2, <2>1, <3>1, <3>2, <3>3
  <2>2. CASE q # p
    <3>1. unread(q)' = unread(q) /\ \A i \in unread(q) : pipe'[i] = pipe[i]
      BY <1>2, <1>4, <2>2 DEF unread
    <3>2. child'[q] = child[q] BY <2>2 DEF TypeOK
    <3>3. Worker(q) /\ Ready(q)' = Ready(q) BY <3>2 DEF Worker, Alive, Ready
    <3>4. /\ unread(q) = {} => Ready(q) = (child[q].st \in Idle)
          /\ \A i \in unread(q) : (\A j \in unread(q) : j <= i) =>
               (pipe[i].message = "AVAILABLE") = (child[q].st \in Idle)
      BY <3>2, <3>3 DEF View
    <3> QED BY <3>1, <3>2, <3>3, <3>4
  <2> QED BY <2>1, <2>2
<1> QED BY <1>5, <1>7, <1>8, <1>9, <1>10

LEMMA GotoKeeps ==
  ASSUME MasterInv, NEW p \in Pid, Worker(p), UNCHANGED <<masterVars, pipe, used>>,
         NEW st \in {"wait", "accepted"}, child[p].st \in Idle, goto(p, st),
         clients' \in Nat
  PROVE  MasterInv'
<1> DEFINE c == [child[p] EXCEPT !.st = st]
<1>1. child[p] \in Child BY DEF MasterInv, TypeOK
<1>2. c \in Child /\ c.st = st /\ c.kind = child[p].kind /\ c.gen = child[p].gen
  BY <1>1 DEF Child
<1>3. child' = [child EXCEPT ![p] = c] /\ pend' = pend BY DEF goto
<1> HIDE DEF c
<1>4. c \in [st: {"start", "wait", "accepted", "told", "serving", "zombie"},
             kind: {child[p].kind}, gen: {child[p].gen},
             sig: {"none", "hup", "term"}, failed: BOOLEAN]
  BY <1>2 DEF Child
<1>5. pend' \subseteq {"chld", "quit", "hup"}
      /\ used' \in [{"conn", "crash", "idle", "hup", "event"} -> Nat]
  BY <1>3 DEF MasterInv, TypeOK
<1> QED BY <1>2, <1>3, <1>4, <1>5, ProcessKeeps DEF Worker, Idle

LEMMA ExitKeeps ==
  ASSUME MasterInv, NEW p \in Pid, Alive(p), UNCHANGED <<masterVars, pipe, clients>>,
         NEW failed \in BOOLEAN, exit(p, failed),
         used' \in [{"conn", "crash", "idle", "hup", "event"} -> Nat]
  PROVE  MasterInv'
<1> DEFINE c == [child[p] EXCEPT !.st = "zombie", !.failed = failed]
<1>1. child[p] \in Child BY DEF MasterInv, TypeOK
<1>2. c \in Child /\ c.st = "zombie" /\ c.kind = child[p].kind /\ c.gen = child[p].gen
  BY <1>1 DEF Child
<1>3. child' = [child EXCEPT ![p] = c]
  BY <1>1 DEF exit, Child
<1> HIDE DEF c
<1>4. c \in [st: {"start", "wait", "accepted", "told", "serving", "zombie"},
             kind: {child[p].kind}, gen: {child[p].gen},
             sig: {"none", "hup", "term"}, failed: BOOLEAN]
  BY <1>2 DEF Child
<1>5. pend' \subseteq {"chld", "quit", "hup"} /\ clients' \in Nat
  BY DEF MasterInv, TypeOK, exit
<1> QED BY <1>2, <1>3, <1>4, <1>5, ProcessKeeps

LEMMA ChildKeeps ==
  ASSUME MasterInv, NEW p \in Pid,
         ChildStep(p) \/ IdleExit(p) \/ Crash(p) \/ EventDone(p)
  PROVE  MasterInv'
<1>1. clients \in Nat /\ used \in [{"conn", "crash", "idle", "hup", "event"} -> Nat]
      /\ child[p] \in Child
  BY DEF MasterInv, TypeOK
<1>2. CASE Start(p)
  <2>1. CASE goto(p, "wait") BY <1>1, <1>2, <2>1, GotoKeeps DEF Start, Idle
  <2>2. CASE exit(p, TRUE) BY <1>1, <1>2, <2>2, ExitKeeps DEF Start, Worker
  <2>3. CASE child' = [child EXCEPT ![p].st = "wait", ![p].sig = "none"] /\ UNCHANGED pend
    <3> DEFINE c == [child[p] EXCEPT !.st = "wait", !.sig = "none"]
    <3>1. c \in [st: {"start", "wait", "accepted", "told", "serving", "zombie"},
                 kind: {child[p].kind}, gen: {child[p].gen},
                 sig: {"none", "hup", "term"}, failed: BOOLEAN] /\ c.st = "wait"
      BY <1>1 DEF Child
    <3>2. child' = [child EXCEPT ![p] = c] BY <1>1, <2>3 DEF Child
    <3> HIDE DEF c
    <3>3. pend' \subseteq {"chld", "quit", "hup"} BY <2>3 DEF MasterInv, TypeOK
    <3>4. /\ Alive(p) /\ child[p].st = "start" /\ UNCHANGED <<masterVars, pipe>>
          /\ clients' = clients /\ used' = used
      BY <1>2 DEF Start, Worker
    <3>5. (c.st \in Idle) = (child[p].st \in Idle) BY <3>1, <3>4 DEF Idle
    <3> QED BY <1>1, <3>1, <3>2, <3>3, <3>4, <3>5, ProcessKeeps
  <2> QED BY <1>2, <2>1, <2>2, <2>3 DEF Start
<1>3. CASE Accept(p) BY <1>1, <1>3, GotoKeeps DEF Accept, Idle
<1>4. CASE TellUnavailable(p) BY <1>4, NotifyKeeps DEF TellUnavailable, Idle
<1>5. CASE Deny(p) BY <1>1, <1>5, GotoKeeps DEF Deny, Idle
<1>6. CASE TellConnection(p) BY <1>6, NotifyKeeps DEF TellConnection, Idle
<1>7. CASE Serve(p)
  <2>1. CASE child[p].sig # "none" BY <1>1, <1>7, <2>1, ExitKeeps DEF Serve, Worker
  <2>2. CASE child[p].sig = "none" BY <1>7, <2>2, NotifyKeeps DEF Serve, Idle
  <2> QED BY <2>1, <2>2
<1>8. CASE Leave(p) BY <1>1, <1>8, ExitKeeps DEF Leave, Worker
<1>9. CASE IdleExit(p)
  <2>1. used' \in [{"conn", "crash", "idle", "hup", "event"} -> Nat]
    BY <1>1, <1>9 DEF IdleExit, Spend
  <2> QED BY <1>9, <2>1, ExitKeeps DEF IdleExit, Worker
<1>10. CASE Crash(p)
  <2>1. used' \in [{"conn", "crash", "idle", "hup", "event"} -> Nat]
    BY <1>1, <1>10 DEF Crash, Spend
  <2> QED BY <1>10, <2>1, ExitKeeps DEF Crash, Worker
<1>11. CASE EventDone(p) BY <1>1, <1>11, ExitKeeps DEF EventDone
<1> QED BY <1>2, <1>3, <1>4, <1>5, <1>6, <1>7, <1>8, <1>9, <1>10, <1>11 DEF ChildStep

-----------------------------------------------------------------------------
(* Steps of master.                                                         *)

Bounds == [{"conn", "crash", "idle", "hup", "event"} -> Nat]
Signals == {"chld", "quit", "hup"}

\* Steps that leave the processes, the table, the pipe and the counters alone.
LEMMA QuietKeeps ==
  ASSUME MasterInv, UNCHANGED <<child, entry, pipe, svc, gen>>,
         shut' \in BOOLEAN, mpc' \in Positions, need' \in Nat,
         rfds' \subseteq {"pipe", "conn"}, pend' \subseteq Signals,
         got' \subseteq Signals, down' \in BOOLEAN, clients' \in Nat, used' \in Bounds,
         mpc' \in {"spawn", "exit"} => mpc' = mpc /\ need' = need
  PROVE  MasterInv'
<1> USE DEF MasterInv
<1>1. TypeOK' BY DEF TypeOK, Bounds, Signals
<1>2. Tables' BY DEF Tables, Known
<1>3. Counts' BY CountsKept
<1>4. Loop' /\ WorkersBounded' BY DEF Loop, WorkersBounded
<1>5. View' BY DEF View, Worker, Alive, Ready, unread
<1> QED BY <1>1, <1>2, <1>3, <1>4, <1>5

LEMMA QuietSteps ==
  ASSUME MasterInv,
         \/ Connect \/ SigHup \/ SigQuit \/ Reap \/ ReapEnd \/ NoHup
         \/ SelectReady \/ SelectTimeout \/ SelectSignal
  PROVE  MasterInv'
<1>1. /\ shut \in BOOLEAN /\ mpc \in Positions /\ need \in Nat
      /\ rfds \subseteq {"pipe", "conn"} /\ pend \subseteq Signals
      /\ got \subseteq Signals /\ down \in BOOLEAN /\ clients \in Nat /\ used \in Bounds
  BY DEF MasterInv, TypeOK, Bounds, Signals
<1>2. CASE Connect
  <2>1. used' \in Bounds BY <1>1, <1>2 DEF Connect, Spend, Bounds
  <2> QED BY <1>1, <1>2, <2>1, QuietKeeps DEF Connect, masterVars
<1>3. CASE SigHup
  <2>1. used' \in Bounds BY <1>1, <1>3 DEF SigHup, Spend, Bounds
  <2>2. pend' \subseteq Signals /\ got' \subseteq Signals BY <1>1, <1>3 DEF SigHup, Signals
  <2> QED BY <1>1, <1>3, <2>1, <2>2, QuietKeeps DEF SigHup, procVars
<1>4. CASE SigQuit
  <2>1. pend' \subseteq Signals BY <1>1, <1>4 DEF SigQuit, Signals
  <2> QED BY <1>1, <1>4, <2>1, QuietKeeps DEF SigQuit, procVars, masterVars
<1>5. CASE Reap BY <1>1, <1>5, QuietKeeps DEF Reap, procVars, Positions
<1>6. CASE ReapEnd BY <1>1, <1>6, QuietKeeps DEF ReapEnd, procVars, Positions
<1>7. CASE NoHup BY <1>1, <1>7, QuietKeeps DEF NoHup, procVars, Positions
<1>8. ASSUME NEW set \in SUBSET {"pipe", "conn"}, selected(set),
             pend' \subseteq Signals, got' \subseteq Signals
      PROVE  MasterInv'
  BY <1>1, <1>8, QuietKeeps DEF selected, procVars, Positions
<1>9. CASE SelectReady BY <1>1, <1>8, <1>9 DEF SelectReady, readable
<1>10. CASE SelectTimeout BY <1>1, <1>8, <1>10 DEF SelectTimeout
<1>11. CASE SelectSignal BY <1>1, <1>8, <1>11 DEF SelectSignal, readable
<1> QED BY <1>2, <1>3, <1>4, <1>5, <1>6, <1>7, <1>9, <1>10, <1>11

\* The sets that master counts.
LEMMA Pids ==
  /\ IsFiniteSet(KnownPids) /\ Cardinality(KnownPids) \in Nat
  /\ IsFiniteSet(ReadyPids) /\ Cardinality(ReadyPids) \in Nat
  /\ ReadyPids \subseteq KnownPids
<1>1. KnownPids \subseteq Pid /\ ReadyPids \subseteq Pid BY DEF KnownPids, ReadyPids
<1>2. IsFiniteSet(KnownPids) /\ IsFiniteSet(ReadyPids)
  BY <1>1, MasterAssumption, FS_Subset
<1>3. ReadyPids \subseteq KnownPids BY DEF KnownPids, ReadyPids, Known, Ready
<1> QED BY <1>2, <1>3, FS_CardinalityType

\* A process more: a worker is known and ready, an event is neither.
LEMMA Forked ==
  ASSUME MasterInv, NEW p \in Pid, Free(p), NEW kind \in {"service", "event"},
         fork(p, kind), UNCHANGED <<pipe, gen>>
  PROVE  /\ child' \in [Pid -> Child]
         /\ entry' \in [Pid -> Entry]
         /\ Tables' /\ View'
         /\ KnownPids' = IF kind = "service" THEN KnownPids \cup {p} ELSE KnownPids
         /\ ReadyPids' = IF kind = "service" THEN ReadyPids \cup {p} ELSE ReadyPids
         /\ p \notin KnownPids /\ p \notin ReadyPids
<1> USE DEF MasterInv, fork
<1>1. child' \in [Pid -> Child] BY DEF TypeOK, Child
<1>2. entry' \in [Pid -> Entry]
  BY DEF TypeOK, Entry
<1>3. /\ child'[p].st = "start" /\ child'[p].kind = kind /\ child'[p].gen = gen
      /\ entry'[p].si = (IF kind = "event" THEN "none" ELSE "service")
      /\ entry'[p].state = "READY"
      /\ \A q \in Pid \ {p} : child'[q] = child[q] /\ entry'[q] = entry[q]
  BY DEF TypeOK
<1>4. \A i \in DOMAIN pipe : pipe[i].pid \in Pid \ {p} BY PipeType DEF Free
<1> HIDE DEF fork
<1>5. gen \in Nat BY DEF TypeOK
<1>6. Tables' BY <1>3, <1>4, <1>5 DEF Tables, Known
<1>7. \A q \in Pid : Known(q)' = (Known(q) \/ (q = p /\ kind = "service"))
  BY <1>3 DEF Known, Tables, Free
<1>8. \A q \in Pid : Ready(q)' = (Ready(q) \/ (q = p /\ kind = "service"))
  BY <1>3 DEF Ready, Tables, Free
<1>9. ~Known(p) /\ ~Ready(p) BY DEF Known, Ready, Tables, Free
<1>10. View'
  <2> SUFFICES ASSUME NEW q \in Pid, Worker(q)', child'[q].gen = gen
               PROVE  /\ unread(q)' = {} => Ready(q)' = (child'[q].st \in Idle)
                      /\ \A i \in unread(q)' :
                           (\A j \in unread(q)' : j <= i) =>
                             (pipe'[i].message = "AVAILABLE") = (child'[q].st \in Idle)
    BY DEF View
  <2>1. CASE q = p BY <1>3, <1>4, <2>1 DEF unread, Ready, Idle, Worker
  <2>2. CASE q # p
    <3>1. child'[q] = child[q] /\ unread(q)' = unread(q) /\ Ready(q)' = Ready(q)
          /\ Worker(q)
      BY <1>3, <2>2 DEF unread, Ready, Worker, Alive
    <3>2. /\ unread(q) = {} => Ready(q) = (child[q].st \in Idle)
          /\ \A i \in unread(q) : (\A j \in unread(q) : j <= i) =>
               (pipe[i].message = "AVAILABLE") = (child[q].st \in Idle)
      BY <3>1 DEF View
    <3> QED BY <3>1, <3>2
  <2> QED BY <2>1, <2>2
<1>11. /\ KnownPids' = IF kind = "service" THEN KnownPids \cup {p} ELSE KnownPids
       /\ ReadyPids' = IF kind = "service" THEN ReadyPids \cup {p} ELSE ReadyPids
  BY <1>7, <1>8 DEF KnownPids, ReadyPids
<1> QED BY <1>1, <1>2, <1>6, <1>9, <1>10, <1>11 DEF KnownPids, ReadyPids

\* A process of a scheduled event is in the table and not counted.
LEMMA ScheduleKeeps == MasterInv /\ spawn_schedule => MasterInv'
<1> SUFFICES ASSUME MasterInv, spawn_schedule PROVE MasterInv' OBVIOUS
<1>1. CASE UNCHANGED <<child, entry, used>>
  BY <1>1, QuietKeeps DEF spawn_schedule, MasterInv, TypeOK, Positions, Bounds, Signals
<1>2. ASSUME NEW p \in Pid, Free(p), fork(p, "event"), Spend("event") PROVE MasterInv'
  <2>1. UNCHANGED <<pipe, svc, gen, shut, need, rfds, pend, got, down, clients>>
        /\ mpc' = "reap"
    BY DEF spawn_schedule
  <2>2. /\ child' \in [Pid -> Child]
        /\ entry' \in [Pid -> Entry]
        /\ Tables' /\ View' /\ KnownPids' = KnownPids /\ ReadyPids' = ReadyPids
    BY <1>2, <2>1, Forked
  <2>3. used' \in Bounds BY <1>2 DEF Spend, Bounds, MasterInv, TypeOK
  <2>4. TypeOK' BY <2>1, <2>2, <2>3 DEF MasterInv, TypeOK, Bounds, Positions
  <2>5. Counts' BY <2>1, <2>2 DEF MasterInv, Counts
  <2>6. Loop' /\ WorkersBounded' BY <2>1 DEF MasterInv, Loop, WorkersBounded
  <2> QED BY <2>2, <2>4, <2>5, <2>6 DEF MasterInv
<1> QED BY <1>1, <1>2 DEF spawn_schedule

\* The counters of a service change and nothing else of it.
LEMMA Recounted ==
  ASSUME NEW s \in Service, NEW r \in Int, NEW n \in Nat
  PROVE  LET t == [s EXCEPT !.ready_workers = r, !.nactive = n]
         IN  /\ t \in Service /\ t.ready_workers = r /\ t.nactive = n
             /\ t.exec = s.exec /\ t.named = s.named /\ t.socket = s.socket
             /\ t.desired = s.desired /\ t.nreadyfails = s.nreadyfails
BY DEF Service

\* A worker more, which is counted, or none.
LEMMA Spawned ==
  ASSUME MasterInv, spawn_service, UNCHANGED <<pipe, gen>>, svc.exec
  PROVE  /\ child' \in [Pid -> Child]
         /\ entry' \in [Pid -> Entry]
         /\ svc' \in Service
         /\ Tables' /\ View' /\ Counts'
         /\ svc'.exec /\ svc'.named
         /\ svc'.nactive <= svc.nactive + 1
<1>1. CASE UNCHANGED <<child, entry, svc>>
  <2>1. Tables' BY <1>1 DEF MasterInv, Tables, Known
  <2>2. View' BY <1>1 DEF MasterInv, View, Worker, Alive, Ready, unread
  <2>3. Counts' BY <1>1, CountsKept DEF MasterInv
  <2>4. svc.nactive \in Nat BY DEF MasterInv, TypeOK, Service
  <2> QED BY <1>1, <2>1, <2>2, <2>3, <2>4 DEF MasterInv, TypeOK, Loop
<1>2. ASSUME NEW p \in Pid, Free(p), fork(p, "service"),
             svc' = [svc EXCEPT !.ready_workers = @ + 1, !.nactive = @ + 1]
      PROVE  /\ child' \in [Pid -> Child]
             /\ entry' \in [Pid -> Entry]
             /\ svc' \in Service
             /\ Tables' /\ View' /\ Counts'
             /\ svc'.exec /\ svc'.named
             /\ svc'.nactive <= svc.nactive + 1
  <2>1. /\ child' \in [Pid -> Child]
        /\ entry' \in [Pid -> Entry]
        /\ Tables' /\ View'
        /\ KnownPids' = KnownPids \cup {p} /\ ReadyPids' = ReadyPids \cup {p}
        /\ p \notin KnownPids /\ p \notin ReadyPids
    BY <1>2, Forked
  <2>2. /\ Cardinality(KnownPids') = Cardinality(KnownPids) + 1
        /\ Cardinality(ReadyPids') = Cardinality(ReadyPids) + 1
    BY <2>1, Pids, FS_AddElement
  <2>3. svc \in Service
    BY DEF MasterInv, TypeOK
  <2>4. /\ svc'.nactive = svc.nactive + 1 /\ svc'.ready_workers = svc.ready_workers + 1
        /\ svc'.exec = svc.exec /\ svc'.named = svc.named
        /\ svc' \in Service
    <3>1. svc.nactive + 1 \in Nat /\ svc.ready_workers + 1 \in Int BY <2>3 DEF Service
    <3>2. svc' = [svc EXCEPT !.ready_workers = svc.ready_workers + 1, !.nactive = svc.nactive + 1]
      BY <1>2, <2>3 DEF Service
    <3> QED BY <2>3, <3>1, <3>2, Recounted
  <2>5. Counts' BY <2>2, <2>4 DEF MasterInv, Counts
  <2> QED BY <2>1, <2>3, <2>4, <2>5 DEF MasterInv, Loop, Service
<1> QED BY <1>1, <1>2 DEF spawn_service

LEMMA SpawnKeeps == MasterInv /\ (Spawn \/ Talk) => MasterInv'
<1> SUFFICES ASSUME MasterInv, Spawn \/ Talk PROVE MasterInv' OBVIOUS
<1> USE MasterAssumption
<1>1. CASE UNCHANGED <<child, entry, svc>> /\ Talk
  BY <1>1, QuietKeeps DEF Talk, MasterInv, TypeOK, Positions, Bounds, Signals
<1>2. ASSUME spawn_service, svc.exec, UNCHANGED <<pipe, gen, shut, rfds, pend, got, down, clients, used>>,
             mpc' \in Positions \ {"exit"}, need' \in Nat,
             mpc' = "spawn" => need' > 0 /\ (gen = 1 => svc.nactive + 1 + need' < max_workers + Prefork),
             gen = 1 => svc.nactive + 1 < max_workers + (IF Prefork = 0 THEN 1 ELSE Prefork)
      PROVE  MasterInv'
  <2>1. /\ child' \in [Pid -> Child]
        /\ entry' \in [Pid -> Entry]
        /\ svc' \in Service
        /\ Tables' /\ View' /\ Counts'
        /\ svc'.exec /\ svc'.named
        /\ svc'.nactive <= svc.nactive + 1
    BY <1>2, Spawned
  <2>2. gen' = 1 => svc'.ready_workers \in Nat
    <3>1. (Cardinality(ReadyPids) \in Nat)' BY Pids, PTL
    <3> QED BY <2>1, <3>1 DEF Counts
  <2>3. TypeOK' BY <1>2, <2>1, <2>2 DEF MasterInv, TypeOK
  <2>4. svc.nactive \in Nat /\ svc'.nactive \in Nat BY <2>1 DEF MasterInv, TypeOK, Service
  <2>5. Loop' BY <1>2, <2>1, <2>4 DEF Loop
  <2>6. WorkersBounded' BY <1>2, <2>1, <2>4 DEF WorkersBounded
  <2> QED BY <2>1, <2>3, <2>5, <2>6 DEF MasterInv
<1>3. need \in Nat /\ svc.nactive \in Nat BY DEF MasterInv, TypeOK, Service
<1>4. CASE Spawn
  <2>1. svc.exec /\ need > 0 /\ (gen = 1 => svc.nactive + need < max_workers + Prefork)
    BY <1>4 DEF Spawn, MasterInv, Loop
  <2>2. /\ mpc' \in Positions \ {"exit"} /\ need' \in Nat
        /\ mpc' = "spawn" => need' > 0 /\ (gen = 1 => svc.nactive + 1 + need' < max_workers + Prefork)
        /\ gen = 1 => svc.nactive + 1 < max_workers + (IF Prefork = 0 THEN 1 ELSE Prefork)
    BY <1>3, <1>4, <2>1 DEF Spawn, Positions
  <2> QED BY <1>2, <1>4, <2>1, <2>2 DEF Spawn
<1>5. CASE Talk /\ spawn_service /\ svc.exec /\ svc.nactive < max_workers
  <2>1. /\ mpc' \in Positions \ {"exit"} /\ need' \in Nat /\ mpc' # "spawn"
        /\ gen = 1 => svc.nactive + 1 < max_workers + (IF Prefork = 0 THEN 1 ELSE Prefork)
    BY <1>3, <1>5 DEF Talk, Positions
  <2> QED BY <1>2, <1>5, <2>1 DEF Talk
<1> QED BY <1>1, <1>4, <1>5 DEF Talk

\* The counters of a service after the end of a worker that it knew.
LEMMA Accounted ==
  ASSUME TypeOK, NEW p \in Pid, svc.nactive > 0, NEW t \in account(p)
  PROVE  /\ t \in Service
         /\ t.nactive = svc.nactive - 1
         /\ t.ready_workers = IF Ready(p) THEN svc.ready_workers - 1 ELSE svc.ready_workers
         /\ t.named = svc.named /\ (t.exec => svc.exec)
<1> DEFINE r == IF Ready(p) THEN svc.ready_workers - 1 ELSE svc.ready_workers
           s == [svc EXCEPT !.ready_workers = r, !.nactive = svc.nactive - 1]
<1>1. svc \in Service /\ r \in Int /\ svc.nactive - 1 \in Nat BY DEF TypeOK, Service
<1> HIDE DEF r
<1>2. /\ s \in Service /\ s.ready_workers = r /\ s.nactive = svc.nactive - 1
      /\ s.exec = svc.exec /\ s.named = svc.named
  BY <1>1 DEF Service
<1>3. [svc EXCEPT !.nactive = @ - 1, !.ready_workers = IF Ready(p) THEN @ - 1 ELSE @] = s
  BY <1>1 DEF Service, r
<1>4. svc.nreadyfails + 1 \in Nat BY <1>1 DEF Service
<1> HIDE DEF s
<1>5. ASSUME NEW n \in Nat
      PROVE  /\ readyFail(s, n) \in Service /\ readyFail(s, n).nactive = s.nactive
             /\ readyFail(s, n).ready_workers = s.ready_workers
             /\ readyFail(s, n).named = s.named /\ (readyFail(s, n).exec => s.exec)
  BY <1>2 DEF readyFail, Service
<1>6. t = s \/ \E n \in Nat : t = readyFail(s, n)
  BY <1>3, <1>4 DEF account
<1> QED BY <1>2, <1>5, <1>6 DEF r

\* A child is reaped: its entry is dead and it is not counted any more.
LEMMA ReapKeeps ==
  ASSUME MasterInv, NEW p \in Pid, reap_child(p)
  PROVE  MasterInv'
<1> USE DEF MasterInv, reap_child
<1>1. child' \in [Pid -> Child] /\ child'[p] = NoChild
      /\ \A q \in Pid \ {p} : child'[q] = child[q]
  BY DEF TypeOK, Child, NoChild
<1>2. entry' \in [Pid -> Entry] /\ entry'[p].state = "DEAD"
      /\ \A q \in Pid \ {p} : entry'[q] = entry[q]
  BY DEF TypeOK, Entry
<1>3. child[p].st = "zombie" /\ UNCHANGED <<pipe, gen, mpc, need>> /\ mpc = "reaping" OBVIOUS
<1>4. gen \in Nat BY DEF TypeOK
<1>5. Tables' BY <1>1, <1>2, <1>3, <1>4, PipeType DEF Tables, Known, NoChild
<1>6. View'
  <2> SUFFICES ASSUME NEW q \in Pid, Worker(q)', child'[q].gen = gen
               PROVE  /\ unread(q)' = {} => Ready(q)' = (child'[q].st \in Idle)
                      /\ \A i \in unread(q)' :
                           (\A j \in unread(q)' : j <= i) =>
                             (pipe'[i].message = "AVAILABLE") = (child'[q].st \in Idle)
    BY <1>3 DEF View
  <2>1. q # p BY <1>1 DEF Worker, Alive, NoChild
  <2>2. child'[q] = child[q] /\ unread(q)' = unread(q) /\ Ready(q)' = Ready(q) /\ Worker(q)
    BY <1>1, <1>2, <1>3, <2>1 DEF unread, Ready, Worker, Alive
  <2>3. /\ unread(q) = {} => Ready(q) = (child[q].st \in Idle)
        /\ \A i \in unread(q) : (\A j \in unread(q) : j <= i) =>
             (pipe[i].message = "AVAILABLE") = (child[q].st \in Idle)
    BY <2>2 DEF View
  <2> QED BY <1>3, <2>2, <2>3
<1>7. KnownPids' = KnownPids \ {p} /\ ReadyPids' = ReadyPids \ {p}
  BY <1>2 DEF KnownPids, ReadyPids, Known, Ready
<1>8. /\ Cardinality(KnownPids') = Cardinality(KnownPids) - (IF Known(p) THEN 1 ELSE 0)
      /\ Cardinality(ReadyPids') = Cardinality(ReadyPids) - (IF Ready(p) THEN 1 ELSE 0)
  <2>1. (p \in KnownPids <=> Known(p)) /\ (p \in ReadyPids <=> Ready(p))
    BY DEF KnownPids, ReadyPids
  <2> HIDE DEF MasterInv, reap_child
  <2>2. Cardinality(KnownPids \ {p}) = IF Known(p) THEN Cardinality(KnownPids) - 1 ELSE Cardinality(KnownPids)
    BY <2>1, Pids, FS_RemoveElement
  <2>3. Cardinality(ReadyPids \ {p}) = IF Ready(p) THEN Cardinality(ReadyPids) - 1 ELSE Cardinality(ReadyPids)
    BY <2>1, Pids, FS_RemoveElement
  <2> QED BY <1>7, <2>2, <2>3, Pids
<1>9. Known(p) => svc.nactive > 0
  <2>1. Known(p) => KnownPids # {} BY DEF KnownPids
  <2> QED BY <2>1, Pids, FS_EmptySet DEF Counts
<1>10. /\ svc' \in Service
       /\ svc'.nactive = svc.nactive - (IF Known(p) THEN 1 ELSE 0)
       /\ svc'.ready_workers = svc.ready_workers - (IF Ready(p) THEN 1 ELSE 0)
       /\ svc'.named = svc.named /\ (svc'.exec => svc.exec)
  <2>1. CASE Known(p)
    <3>1. svc' \in account(p) BY <2>1
    <3> QED BY <1>9, <2>1, <3>1, Accounted DEF TypeOK, Service
  <2>2. CASE ~Known(p)
    <3>1. svc' = svc /\ ~Ready(p) BY <2>2 DEF Known, Ready
    <3> QED BY <2>2, <3>1 DEF TypeOK, Service
  <2> QED BY <2>1, <2>2
<1>11. Counts' BY <1>3, <1>8, <1>10 DEF Counts
<1>12. gen' = 1 => svc'.ready_workers \in Nat
  <2>1. (Cardinality(ReadyPids) \in Nat)' BY Pids, PTL
  <2> QED BY <1>11, <2>1 DEF Counts
<1>13. TypeOK' BY <1>1, <1>2, <1>10, <1>12 DEF TypeOK
<1>14. svc.nactive \in Nat /\ svc'.nactive \in Nat /\ svc'.nactive <= svc.nactive
  BY <1>10 DEF TypeOK, Service
<1>15. Loop' BY <1>3, <1>10, <1>14 DEF Loop
<1>16. WorkersBounded' BY <1>3, <1>14, MasterAssumption DEF WorkersBounded
<1> QED BY <1>5, <1>6, <1>11, <1>13, <1>15, <1>16

\* Signals change nothing that master looks at.
Signalled ==
  /\ child' \in [Pid -> Child]
  /\ \A q \in Pid : /\ child'[q].st = child[q].st /\ child'[q].kind = child[q].kind
                    /\ child'[q].gen = child[q].gen

LEMMA SignalKeeps ==
  ASSUME MasterInv, Signalled, UNCHANGED <<entry, pipe, gen>>
  PROVE  Tables' /\ View'
<1>1. Tables' BY PipeType DEF MasterInv, Signalled, Tables, Known
<1>2. \A q \in Pid : /\ Worker(q)' = Worker(q) /\ Ready(q)' = Ready(q)
                     /\ unread(q)' = unread(q)
  BY DEF Signalled, Worker, Alive, Ready, unread
<1>3. View' BY <1>2 DEF MasterInv, View, Signalled
<1> QED BY <1>1, <1>3

LEMMA TopKeeps == MasterInv /\ Top => MasterInv'
<1> SUFFICES ASSUME MasterInv, Top PROVE MasterInv' OBVIOUS
<1>1. Signalled
  <2>1. CASE child' = child BY <2>1 DEF Signalled, MasterInv, TypeOK
  <2>2. CASE child' = [p \in Pid |-> IF Alive(p) THEN [child[p] EXCEPT !.sig = "term"]
                                     ELSE child[p]]
    <3>1. ASSUME NEW c \in Child
          PROVE  LET d == [c EXCEPT !.sig = "term"]
                 IN  d \in Child /\ d.st = c.st /\ d.kind = c.kind /\ d.gen = c.gen
      BY DEF Child
    <3>2. \A q \in Pid : child[q] \in Child BY DEF MasterInv, TypeOK
    <3> QED BY <2>2, <3>1, <3>2 DEF Signalled
  <2> QED BY <2>1, <2>2 DEF Top
<1>2. /\ mpc' = "schedule" /\ got' = got \ {"quit"} /\ down' \in BOOLEAN
      /\ pend' \subseteq {"chld", "quit", "hup"}
      /\ UNCHANGED <<entry, pipe, svc, gen, shut, need, rfds, clients, used>>
  BY DEF Top, MasterInv, TypeOK
<1>3. TypeOK' BY <1>1, <1>2 DEF MasterInv, TypeOK, Signalled, Positions
<1>4. Tables' /\ View' BY <1>1, <1>2, SignalKeeps
<1>5. Counts' BY <1>2, CountsKept DEF MasterInv
<1>6. Loop' /\ WorkersBounded' BY <1>2 DEF MasterInv, Loop, WorkersBounded
<1> QED BY <1>3, <1>4, <1>5, <1>6 DEF MasterInv

\* Without workers there is nobody whose messages could be missed.
LEMMA NoWorkers == MasterInv /\ svc.nactive = 0 => \A p \in Pid : ~Known(p) /\ ~Worker(p)
<1> SUFFICES ASSUME MasterInv, svc.nactive = 0 PROVE \A p \in Pid : ~Known(p) /\ ~Worker(p)
  OBVIOUS
<1>1. KnownPids = {} BY Pids, FS_EmptySet DEF MasterInv, Counts
<1>2. \A p \in Pid : ~Known(p) BY <1>1 DEF KnownPids
<1> QED BY <1>2 DEF MasterInv, Tables, Worker, Alive

LEMMA ManKeeps == MasterInv /\ Man => MasterInv'
<1> SUFFICES ASSUME MasterInv, Man PROVE MasterInv' OBVIOUS
<1> USE MasterAssumption
<1>1. /\ mpc = "man" /\ UNCHANGED <<child, entry, gen, shut, rfds, pend, got, down, clients, used>>
      /\ svc \in Service /\ need \in Nat
  BY DEF Man, MasterInv, TypeOK
<1>2. CASE Undermanned /\ need' = svc.desired - svc.ready_workers /\ mpc' = "spawn"
           /\ UNCHANGED <<svc, pipe>>
  <2>1. need' \in Nat /\ need' > 0 /\ (gen = 1 => need' <= Prefork)
    BY <1>1, <1>2 DEF Undermanned, Service, MasterInv, TypeOK
  <2>2. svc.exec /\ svc.nactive < max_workers /\ svc.nactive \in Nat
    BY <1>1, <1>2 DEF Undermanned, Service
  <2>3. TypeOK' BY <1>1, <1>2, <2>1 DEF MasterInv, TypeOK, Positions
  <2>4. Tables' BY <1>1, <1>2 DEF MasterInv, Tables, Known
  <2>5. View' BY <1>1, <1>2 DEF MasterInv, View, Worker, Alive, Ready, unread
  <2>6. Counts' BY <1>1, <1>2, CountsKept DEF MasterInv
  <2>7. gen = 1 => svc.nactive + need' < max_workers + Prefork BY <2>1, <2>2
  <2>8. Loop' BY <1>1, <1>2, <2>1, <2>2, <2>7 DEF MasterInv, Loop
  <2>9. WorkersBounded' BY <1>1, <1>2 DEF MasterInv, WorkersBounded
  <2> QED BY <2>3, <2>4, <2>5, <2>6, <2>8, <2>9 DEF MasterInv
<1>3. CASE abandoned /\ svc' = [svc EXCEPT !.named = FALSE] /\ pipe' = <<>> /\ mpc' = "hup"
           /\ UNCHANGED need
  <2>1. svc' \in Service /\ svc'.nactive = svc.nactive /\ ~svc'.exec
        /\ svc'.ready_workers = svc.ready_workers /\ svc.nactive = 0
    BY <1>1, <1>3 DEF Service, abandoned
  <2>2. pipe' \in Seq(Message) BY <1>3
  <2>3. TypeOK' BY <1>1, <1>3, <2>1, <2>2 DEF MasterInv, TypeOK, Positions
  <2>4. Tables' BY <1>1, <1>3 DEF MasterInv, Tables, Known
  <2>5. View' BY <1>1, <2>1, NoWorkers DEF View, Worker, Alive
  <2>6. Counts'
    <3>1. KnownPids' = KnownPids /\ ReadyPids' = ReadyPids
      BY <1>1 DEF KnownPids, ReadyPids, Known, Ready
    <3> QED BY <1>1, <2>1, <3>1 DEF MasterInv, Counts
  <2>7. Loop' BY <1>3, <2>1 DEF Loop
  <2>8. WorkersBounded' BY <1>1, <2>1 DEF MasterInv, WorkersBounded
  <2> QED BY <2>3, <2>4, <2>5, <2>6, <2>7, <2>8 DEF MasterInv
<1>4. CASE mpc' \in {"hup", "exit"} /\ (mpc' = "exit" => finished) /\ UNCHANGED <<svc, pipe, need>>
  <2>1. TypeOK' BY <1>1, <1>4 DEF MasterInv, TypeOK, Positions
  <2>2. Tables' BY <1>1, <1>4 DEF MasterInv, Tables, Known
  <2>3. View' BY <1>1, <1>4 DEF MasterInv, View, Worker, Alive, Ready, unread
  <2>4. Counts' BY <1>1, <1>4, CountsKept DEF MasterInv
  <2>5. Loop' BY <1>1, <1>4 DEF MasterInv, Loop, finished
  <2>6. WorkersBounded' BY <1>1, <1>4 DEF MasterInv, WorkersBounded
  <2> QED BY <2>1, <2>2, <2>3, <2>4, <2>5, <2>6 DEF MasterInv
<1> QED BY <1>2, <1>3, <1>4 DEF Man

\* Rereading the configuration changes no count; with a new socket the workers of the
\* old one are not heard any more.
LEMMA RereadKeeps ==
  ASSUME MasterInv, NEW configured \in BOOLEAN, reread_conf(configured)
  PROVE  MasterInv'
<1>1. Signalled
  <2>1. ASSUME NEW c \in Child
        PROVE  LET d == [c EXCEPT !.sig = "hup"]
               IN  d \in Child /\ d.st = c.st /\ d.kind = c.kind /\ d.gen = c.gen
    BY DEF Child
  <2>2. \A q \in Pid : child[q] \in Child BY DEF MasterInv, TypeOK
  <2> QED BY <2>1, <2>2 DEF Signalled, reread_conf, recycle
<1>2. /\ mpc' = "select" /\ got' = got \ {"hup"}
      /\ UNCHANGED <<entry, need, rfds, pend, down, used>>
      /\ svc \in Service /\ gen \in Nat /\ pipe \in Seq(Message) /\ clients \in Nat
      /\ shut \in BOOLEAN
  BY DEF reread_conf, MasterInv, TypeOK
<1> DEFINE new == add_service(svc)
<1>a. /\ new \in Service /\ new.nactive = svc.nactive /\ new.named
      /\ new.ready_workers = svc.ready_workers
  BY <1>2 DEF add_service, Service
<1>b. \/ svc' = new /\ UNCHANGED <<pipe, gen, shut, clients>>
      \/ /\ svc' = [new EXCEPT !.socket = TRUE, !.ready_workers = 0]
         /\ gen' = gen + 1 /\ pipe' = <<>> /\ shut' = FALSE /\ clients' = 0
      \/ svc' = [new EXCEPT !.exec = FALSE] /\ UNCHANGED <<pipe, gen, shut, clients>>
      \/ /\ svc' = [svc EXCEPT !.exec = FALSE, !.desired = 0, !.socket = FALSE]
         /\ shut' = TRUE /\ clients' = 0 /\ UNCHANGED <<pipe, gen>>
      \/ svc' = [svc EXCEPT !.exec = FALSE] /\ UNCHANGED <<pipe, gen, shut, clients>>
  BY DEF reread_conf, service_create
<1> HIDE DEF new
<1>c. ASSUME NEW s \in Service
      PROVE  /\ LET t == [s EXCEPT !.exec = FALSE]
                IN  t \in Service /\ t.nactive = s.nactive /\ ~t.exec /\ t.named = s.named
                    /\ t.ready_workers = s.ready_workers
             /\ LET t == [s EXCEPT !.exec = FALSE, !.desired = 0, !.socket = FALSE]
                IN  t \in Service /\ t.nactive = s.nactive /\ ~t.exec /\ t.named = s.named
                    /\ t.ready_workers = s.ready_workers
             /\ LET t == [s EXCEPT !.socket = TRUE, !.ready_workers = 0]
                IN  t \in Service /\ t.nactive = s.nactive /\ t.named = s.named
  <2>1. LET t == [s EXCEPT !.exec = FALSE]
        IN  t \in Service /\ t.nactive = s.nactive /\ ~t.exec /\ t.named = s.named
            /\ t.ready_workers = s.ready_workers
    BY DEF Service
  <2>2. LET t == [s EXCEPT !.exec = FALSE, !.desired = 0, !.socket = FALSE]
        IN  t \in Service /\ t.nactive = s.nactive /\ ~t.exec /\ t.named = s.named
            /\ t.ready_workers = s.ready_workers
    BY DEF Service
  <2>3. ASSUME NEW r \in Int
        PROVE  LET t == [s EXCEPT !.socket = TRUE, !.ready_workers = r]
               IN  t \in Service /\ t.nactive = s.nactive /\ t.named = s.named
    BY DEF Service
  <2>4. 0 \in Int OBVIOUS
  <2> QED BY <2>1, <2>2, <2>3, <2>4, Zenon
<1>3. /\ svc' \in Service /\ svc'.nactive = svc.nactive
      /\ svc'.exec => svc'.named
      /\ ~svc'.named => ~svc.named
  BY <1>2, <1>a, <1>b, <1>c
<1>4. \/ /\ gen' = gen /\ pipe' = pipe /\ svc'.ready_workers = svc.ready_workers
         /\ shut' \in BOOLEAN /\ clients' \in Nat
      \/ gen' = gen + 1 /\ pipe' = <<>> /\ shut' = FALSE /\ clients' = 0
  <2>1. CASE gen' = gen + 1 /\ pipe' = <<>> /\ shut' = FALSE /\ clients' = 0 BY <2>1
  <2>2. CASE /\ UNCHANGED <<pipe, gen>> /\ shut' \in {shut, TRUE} /\ clients' \in {clients, 0}
             /\ \/ svc' = new \/ svc' = [new EXCEPT !.exec = FALSE]
                \/ svc' = [svc EXCEPT !.exec = FALSE, !.desired = 0, !.socket = FALSE]
                \/ svc' = [svc EXCEPT !.exec = FALSE]
    <3>1. svc'.ready_workers = svc.ready_workers BY <1>2, <1>a, <1>c, <2>2
    <3>2. shut' \in BOOLEAN BY <1>2, <2>2, Zenon
    <3>3. clients' \in Nat BY <1>2, <2>2
    <3> QED BY <2>2, <3>1, <3>2, <3>3
  <2> QED BY <1>b, <2>1, <2>2
<1>5. gen >= 1 BY DEF MasterInv, Tables
<1>6. gen' \in Nat /\ pipe' \in Seq(Message) /\ shut' \in BOOLEAN /\ clients' \in Nat
      /\ (gen' = 1 => gen = 1 /\ svc'.ready_workers = svc.ready_workers)
  <2>1. <<>> \in Seq(Message) OBVIOUS
  <2>2. pipe' \in Seq(Message) BY <1>2, <1>4, <2>1
  <2>3. gen' = gen \/ gen' = gen + 1 BY <1>4
  <2>4. shut' \in BOOLEAN BY <1>4, Zenon
  <2>5. clients' \in Nat BY <1>4
  <2> QED BY <1>2, <1>4, <1>5, <2>2, <2>3, <2>4, <2>5
<1>7. TypeOK' BY <1>1, <1>2, <1>3, <1>6 DEF MasterInv, TypeOK, Signalled, Positions
<1>8. KnownPids' = KnownPids /\ ReadyPids' = ReadyPids
  BY <1>2 DEF KnownPids, ReadyPids, Known, Ready
<1>9. Counts' BY <1>3, <1>6, <1>8 DEF MasterInv, Counts
<1>10. Loop' BY <1>2, <1>3 DEF MasterInv, Loop
<1>11. WorkersBounded' BY <1>3, <1>6 DEF MasterInv, WorkersBounded
<1>12. Tables' /\ View'
  <2>1. CASE gen' = gen /\ pipe' = pipe BY <1>1, <1>2, <2>1, SignalKeeps
  <2>2. CASE gen' = gen + 1 /\ pipe' = <<>>
    <3>1. \A q \in Pid : child'[q].gen \in Nat /\ child'[q].gen < gen'
      BY <1>1, <1>2, <2>2 DEF Signalled, MasterInv, Tables, TypeOK, Child
    <3>2. View' BY <2>2, <3>1 DEF View
    <3>3. DOMAIN pipe' = {} BY <2>2
    <3>4. gen' >= 1 BY <1>2, <2>2
    <3>5. Tables' BY <1>1, <1>2, <3>1, <3>3, <3>4, <1>6 DEF MasterInv, Signalled, Tables, Known
    <3> QED BY <3>2, <3>5
  <2> QED BY <1>4, <2>1, <2>2
<1> QED BY <1>7, <1>9, <1>10, <1>11, <1>12 DEF MasterInv

\* The counters of a service after a message.
LEMMA MessageKeeps == MasterInv /\ ReadMsg => MasterInv'
<1> SUFFICES ASSUME MasterInv, ReadMsg PROVE MasterInv' OBVIOUS
<1>p. PICK msg : msg = Head(pipe) OBVIOUS
<1>q. PICK p : p = msg.pid OBVIOUS
<1> DEFINE old == IF entry[p].state = "none" THEN "DEAD" ELSE entry[p].state
           new == after(old, msg.message)
<1>1. /\ pipe \in Seq(Message) /\ pipe # <<>> /\ pipe' = Tail(pipe)
      /\ UNCHANGED <<child, gen, shut, mpc, need, rfds, pend, got, down, clients, used>>
      /\ mpc = "read" /\ svc \in Service /\ entry \in [Pid -> Entry]
      /\ gen = 1 => svc.ready_workers \in Nat
  BY DEF ReadMsg, MasterInv, TypeOK
<1>2. /\ msg \in Message /\ msg = pipe[1] /\ pipe' \in Seq(Message) /\ 1 \in DOMAIN pipe
      /\ \A i \in DOMAIN pipe' : i + 1 \in DOMAIN pipe /\ pipe'[i] = pipe[i + 1]
      /\ \A i \in DOMAIN pipe : i \in Nat /\ (i # 1 => i - 1 \in DOMAIN pipe' /\ pipe'[i - 1] = pipe[i])
  BY <1>1, <1>p
<1>3. /\ entry' = [entry EXCEPT ![p] = [si |-> "service", state |-> new]]
      /\ svc' = [svc EXCEPT !.ready_workers =
                  IF old = "READY" /\ new = "BUSY" THEN @ - 1
                  ELSE IF old = "BUSY" /\ new = "READY" THEN @ + 1 ELSE @]
  BY <1>p, <1>q DEF ReadMsg, process_msg
<1>4. p \in Pid /\ msg.message \in {"AVAILABLE", "UNAVAILABLE", "CONNECTION"}
  BY <1>2, <1>q DEF Message
<1>5. old \in {"READY", "BUSY", "DEAD"} /\ new \in {"READY", "BUSY", "DEAD"}
      /\ (old = "DEAD" <=> new = "DEAD")
      /\ (old # "DEAD" => (new = "READY" <=> msg.message = "AVAILABLE"))
  BY <1>1, <1>4 DEF after, Entry
<1> HIDE DEF new, old
<1>6. /\ entry' \in [Pid -> Entry] /\ entry'[p].si = "service" /\ entry'[p].state = new
      /\ \A q \in Pid \ {p} : entry'[q] = entry[q]
  BY <1>1, <1>3, <1>4, <1>5 DEF Entry
\* the message is from a service process, or from a dead one
<1>7. /\ Known(p) <=> old # "DEAD"
      /\ Ready(p) <=> old = "READY"
  <2>1. child[p].st # "none" => child[p].kind = "service"
    BY <1>2, <1>q DEF MasterInv, Tables
  <2>2. CASE child[p].st = "none" BY <1>4, <2>2 DEF MasterInv, Tables, Known, Ready, old
  <2>3. CASE child[p].st # "none" BY <1>4, <2>1, <2>3 DEF MasterInv, Tables, Known, Ready, old
  <2> QED BY <2>2, <2>3
<1>8. /\ Known(p)' <=> Known(p)
      /\ Ready(p)' <=> new = "READY"
      /\ \A q \in Pid \ {p} : (Known(q)' <=> Known(q)) /\ (Ready(q)' <=> Ready(q))
  BY <1>5, <1>6, <1>7 DEF Known, Ready
<1>9. Tables'
  <2>1. child[p].st = "none" => new = "DEAD"
    BY <1>4, <1>5, <1>7 DEF MasterInv, Tables, Known
  <2>2. child[p].st # "none" => child[p].kind = "service"
    BY <1>2, <1>q DEF MasterInv, Tables
  <2>3. \A i \in DOMAIN pipe' :
          child'[pipe'[i].pid].st # "none" => child'[pipe'[i].pid].kind = "service"
    BY <1>1, <1>2 DEF MasterInv, Tables
  <2>4. \A q \in Pid :
          /\ child'[q].gen <= gen'
          /\ child'[q].st = "none" => entry'[q].state \in {"none", "DEAD"}
          /\ child'[q].st # "none" /\ child'[q].kind = "service" => Known(q)'
          /\ child'[q].st # "none" /\ child'[q].kind = "event" => entry'[q].si = "none"
    BY <1>1, <1>6, <1>8, <2>1, <2>2 DEF MasterInv, Tables
  <2> QED BY <1>1, <2>3, <2>4 DEF MasterInv, Tables
<1>10. View'
  <2> SUFFICES ASSUME NEW q \in Pid, Worker(q)', child'[q].gen = gen
               PROVE  /\ unread(q)' = {} => Ready(q)' = (child'[q].st \in Idle)
                      /\ \A i \in unread(q)' :
                           (\A j \in unread(q)' : j <= i) =>
                             (pipe'[i].message = "AVAILABLE") = (child'[q].st \in Idle)
    BY <1>1 DEF View
  <2>1. Worker(q) /\ child'[q] = child[q] BY <1>1 DEF Worker, Alive
  <2>2. /\ unread(q) = {} => Ready(q) = (child[q].st \in Idle)
        /\ \A i \in unread(q) : (\A j \in unread(q) : j <= i) =>
             (pipe[i].message = "AVAILABLE") = (child[q].st \in Idle)
    BY <1>1, <2>1 DEF MasterInv, View
  <2>3. ASSUME NEW i \in unread(q)', \A j \in unread(q)' : j <= i
        PROVE  (pipe'[i].message = "AVAILABLE") = (child'[q].st \in Idle)
    <3>1. i \in Nat /\ i + 1 \in unread(q) /\ pipe'[i] = pipe[i + 1]
      BY <1>1, <1>2 DEF unread
    <3>2. ASSUME NEW j \in unread(q) PROVE j <= i + 1
      <4>1. j \in Nat /\ j \in DOMAIN pipe BY <1>2 DEF unread
      <4>2. CASE j = 1 BY <3>1, <4>2
      <4>3. CASE j # 1
        <5>1. j - 1 \in unread(q)' BY <1>2, <4>1, <4>3 DEF unread
        <5> QED BY <2>3, <3>1, <4>1, <5>1
      <4> QED BY <4>2, <4>3
    <3> QED BY <2>1, <2>2, <3>1, <3>2
  <2>4. ASSUME unread(q)' = {} PROVE Ready(q)' = (child'[q].st \in Idle)
    <3>1. ASSUME NEW j \in unread(q) PROVE j = 1
      <4>1. j \in DOMAIN pipe /\ pipe[j].pid = q BY DEF unread
      <4>2. j # 1 => j - 1 \in unread(q)' BY <1>2, <4>1 DEF unread
      <4> QED BY <2>4, <4>2
    <3>2. CASE p = q
      <4>1. 1 \in unread(q) BY <1>2, <1>q, <3>2 DEF unread
      <4>2. (pipe[1].message = "AVAILABLE") = (child[q].st \in Idle)
        BY <2>2, <3>1, <4>1
      <4>3. Known(q) BY <2>1 DEF MasterInv, Tables, Worker, Alive
      <4>4. (new = "READY") = (child[q].st \in Idle) BY <1>2, <1>5, <1>7, <3>2, <4>2, <4>3
      <4>5. Ready(q)' <=> new = "READY" BY <1>8, <3>2
      <4>6. Ready(q)' \in BOOLEAN BY DEF Ready
      <4> QED BY <2>1, <4>4, <4>5, <4>6
    <3>3. CASE p # q
      <4>1. unread(q) = {} BY <1>2, <1>q, <3>1, <3>3 DEF unread
      <4>2. Ready(q)' = Ready(q) BY <1>6, <3>3 DEF Ready
      <4> QED BY <2>1, <2>2, <4>1, <4>2
    <3> QED BY <3>2, <3>3
  <2> QED BY <2>3, <2>4
<1>11. KnownPids' = KnownPids BY <1>8, <1>4 DEF KnownPids
<1>12. ReadyPids' = IF new = "READY" THEN ReadyPids \cup {p} ELSE ReadyPids \ {p}
  BY <1>8, <1>4 DEF ReadyPids
<1>13. p \in ReadyPids <=> old = "READY" BY <1>4, <1>7 DEF ReadyPids
<1>14. Cardinality(ReadyPids') = Cardinality(ReadyPids) +
         (IF old = "READY" /\ new = "BUSY" THEN -1
          ELSE IF old = "BUSY" /\ new = "READY" THEN 1 ELSE 0)
  <2>1. Cardinality(ReadyPids \cup {p}) =
          IF old = "READY" THEN Cardinality(ReadyPids) ELSE Cardinality(ReadyPids) + 1
    BY <1>13, Pids, FS_AddElement
  <2>2. Cardinality(ReadyPids \ {p}) =
          IF old = "READY" THEN Cardinality(ReadyPids) - 1 ELSE Cardinality(ReadyPids)
    BY <1>13, Pids, FS_RemoveElement
  <2> QED BY <1>5, <1>12, <2>1, <2>2, Pids
<1>15. /\ svc' \in Service /\ svc'.nactive = svc.nactive
       /\ svc'.exec = svc.exec /\ svc'.named = svc.named
       /\ svc'.ready_workers = svc.ready_workers +
            (IF old = "READY" /\ new = "BUSY" THEN -1
             ELSE IF old = "BUSY" /\ new = "READY" THEN 1 ELSE 0)
  <2>a. svc.ready_workers \in Int BY <1>1 DEF Service
  <2>1. PICK r \in Int :
          /\ r = svc.ready_workers + (IF old = "READY" /\ new = "BUSY" THEN -1
                                       ELSE IF old = "BUSY" /\ new = "READY" THEN 1 ELSE 0)
          /\ svc' = [svc EXCEPT !.ready_workers = r]
    <3>1. CASE old = "READY" /\ new = "BUSY" BY <1>3, <2>a, <3>1
    <3>2. CASE old = "BUSY" /\ new = "READY" BY <1>3, <2>a, <3>2
    <3>3. CASE ~(old = "READY" /\ new = "BUSY") /\ ~(old = "BUSY" /\ new = "READY")
      BY <1>3, <2>a, <3>3
    <3> QED BY <3>1, <3>2, <3>3
  <2>2. LET t == [svc EXCEPT !.ready_workers = r]
        IN  /\ t \in Service /\ t.nactive = svc.nactive /\ t.exec = svc.exec
            /\ t.named = svc.named /\ t.ready_workers = r
    BY <1>1 DEF Service
  <2> QED BY <2>1, <2>2
<1>16. Counts' BY <1>1, <1>11, <1>14, <1>15 DEF MasterInv, Counts
<1>17. gen' = 1 => svc'.ready_workers \in Nat
  <2>1. (Cardinality(ReadyPids) \in Nat)' BY Pids, PTL
  <2> QED BY <1>16, <2>1 DEF Counts
<1>18. TypeOK' BY <1>1, <1>2, <1>6, <1>15, <1>17 DEF MasterInv, TypeOK
<1>19. Loop' /\ WorkersBounded' BY <1>1, <1>15 DEF MasterInv, Loop, WorkersBounded
<1> QED BY <1>9, <1>10, <1>16, <1>18, <1>19 DEF MasterInv

\* The janitor frees entries of dead children only.
LEMMA JanitorKeeps == MasterInv /\ child_janitor => MasterInv'
<1> SUFFICES ASSUME MasterInv, child_janitor PROVE MasterInv' OBVIOUS
<1>1. PICK old \in SUBSET expired :
        entry' = [p \in Pid |-> IF p \in old THEN NoEntry ELSE entry[p]]
  BY DEF child_janitor
<1>2. /\ mpc' = "top" /\ UNCHANGED <<child, pipe, clients, svc, gen, shut, need, rfds, pend, got, down, used>>
      /\ entry \in [Pid -> Entry]
  BY DEF child_janitor, procVars, MasterInv, TypeOK
<1>3. \A p \in Pid : \/ entry'[p] = entry[p]
                     \/ entry'[p] = NoEntry /\ entry[p].state = "DEAD"
  BY <1>1 DEF expired
<1>4. \A p \in Pid : (Known(p)' <=> Known(p)) /\ (Ready(p)' <=> Ready(p))
  BY <1>3 DEF Known, Ready, NoEntry
<1>5. entry' \in [Pid -> Entry] BY <1>1, <1>2 DEF NoEntry, Entry
<1>6. TypeOK' BY <1>2, <1>5 DEF MasterInv, TypeOK, Positions
<1>7. Tables' BY <1>2, <1>3, <1>4 DEF MasterInv, Tables, NoEntry
<1>8. KnownPids' = KnownPids /\ ReadyPids' = ReadyPids BY <1>4 DEF KnownPids, ReadyPids
<1>9. Counts' BY <1>2, <1>8 DEF MasterInv, Counts
<1>10. View'
  <2>1. \A q \in Pid : /\ Worker(q)' = Worker(q) /\ Ready(q)' = Ready(q)
                       /\ unread(q)' = unread(q)
    BY <1>2, <1>4 DEF Worker, Alive, unread, Ready
  <2> QED BY <1>2, <2>1 DEF MasterInv, View
<1>11. Loop' /\ WorkersBounded' BY <1>2 DEF MasterInv, Loop, WorkersBounded
<1> QED BY <1>6, <1>7, <1>9, <1>10, <1>11 DEF MasterInv

-----------------------------------------------------------------------------
(* The theorems.                                                            *)

LEMMA MasterInvInit == Init => MasterInv
<1> SUFFICES ASSUME Init PROVE MasterInv OBVIOUS
<1> USE MasterAssumption DEF Init
<1>1. TypeOK
  <2>1. child \in [Pid -> Child] BY DEF Child, NoChild
  <2>2. entry \in [Pid -> Entry] BY DEF Entry, NoEntry
  <2>3. pipe \in Seq(Message) OBVIOUS
  <2>4. svc \in Service /\ svc.ready_workers \in Nat BY DEF Service
  <2>5. used \in [{"conn", "crash", "idle", "hup", "event"} -> Nat] OBVIOUS
  <2> QED BY <2>1, <2>2, <2>3, <2>4, <2>5 DEF TypeOK, Positions
<1>2. Tables BY DEF Tables, NoChild, NoEntry
<1>3. KnownPids = {} /\ ReadyPids = {} BY DEF KnownPids, ReadyPids, Known, Ready, NoEntry
<1>4. Counts BY <1>3, FS_EmptySet DEF Counts
<1>5. Loop /\ WorkersBounded BY DEF Loop, WorkersBounded
<1>6. View BY DEF View, Worker, Alive, NoChild
<1> QED BY <1>1, <1>2, <1>4, <1>5, <1>6 DEF MasterInv

LEMMA MasterInvNext == MasterInv /\ [Next]_vars => MasterInv'
<1> SUFFICES ASSUME MasterInv, [Next]_vars PROVE MasterInv' OBVIOUS
<1>1. CASE UNCHANGED vars
  BY <1>1, QuietKeeps DEF vars, MasterInv, TypeOK, Bounds, Signals
<1>2. CASE MasterStep
  BY <1>2, TopKeeps, ScheduleKeeps, QuietSteps, ManKeeps, SpawnKeeps, ReapKeeps,
     RereadKeeps, MessageKeeps, JanitorKeeps
     DEF MasterStep
<1>3. CASE Environment BY <1>3, QuietSteps, ChildKeeps DEF Environment
<1>4. CASE \E p \in Pid : ChildStep(p) BY <1>4, ChildKeeps
<1> QED BY <1>1, <1>2, <1>3, <1>4 DEF Next

\* The inductive invariant says what the runs check.
LEMMA MasterInvImplies ==
  MasterInv => /\ ActiveCount /\ ReadyCount /\ TrueView /\ SlotFree /\ NoWorkerLeft
<1> SUFFICES ASSUME MasterInv
             PROVE  ActiveCount /\ ReadyCount /\ TrueView /\ SlotFree /\ NoWorkerLeft
  OBVIOUS
<1>1. ASSUME NEW p \in Pid
      PROVE  Known(p) = (child[p].st # "none" /\ child[p].kind = "service")
  BY DEF MasterInv, Tables, Known, TypeOK, Child
<1>2. ActiveCount BY <1>1 DEF ActiveCount, MasterInv, Counts, KnownPids
<1>3. ReadyCount BY DEF ReadyCount, MasterInv, Counts, ReadyPids
<1>4. TrueView
  <2> SUFFICES ASSUME pipe = <<>>, NEW p \in Pid, Worker(p), child[p].gen = gen
               PROVE  Ready(p) = (child[p].st \in {"start", "wait", "accepted"})
    BY DEF TrueView
  <2>1. unread(p) = {} BY DEF unread
  <2> QED BY <2>1 DEF MasterInv, View, Idle
<1>5. SlotFree BY NoWorkers DEF SlotFree, MasterInv, Loop
<1>6. NoWorkerLeft BY NoWorkers DEF NoWorkerLeft, MasterInv, Loop
<1> QED BY <1>2, <1>3, <1>4, <1>5, <1>6

\* Type correctness; nactive and nreadyfails are never
\* negative, although messages and SIGCHLDs come in any order, and ready_workers is not
\* until the socket is made anew (gen > 1), after which it may be.
THEOREM MasterTypes == Spec => []TypeOK
<1>1. MasterInv => TypeOK BY DEF MasterInv
<1> QED BY <1>1, MasterInvInit, MasterInvNext, PTL DEF Spec

\* nactive is the number of service processes that have not been reaped
\* (spawn_service, reap_child).
THEOREM ActiveCounted == Spec => []ActiveCount
BY MasterInvInit, MasterInvNext, MasterInvImplies, PTL DEF Spec

\* ready_workers is the number of entries in READY state, until the socket is made anew
\* (process_msg, reap_child).
THEOREM ReadyCounted == Spec => []ReadyCount
BY MasterInvInit, MasterInvNext, MasterInvImplies, PTL DEF Spec

\* When it sleeps with nothing left to read, master has the true state of all workers
\* of the current socket (process_msg, notify_master).
THEOREM ViewTrue == Spec => []TrueView
BY MasterInvInit, MasterInvNext, MasterInvImplies, PTL DEF Spec

\* A slot of Services is given up only when no process of it is left (main).
THEOREM SlotsFree == Spec => []SlotFree
BY MasterInvInit, MasterInvNext, MasterInvImplies, PTL DEF Spec

\* maxchild is exceeded by less than prefork, as long as the socket is the first one
\* (the loop over undermanned services).
THEOREM MaxChild == Spec => []WorkersBounded
<1>1. MasterInv => WorkersBounded BY DEF MasterInv
<1> QED BY <1>1, MasterInvInit, MasterInvNext, PTL DEF Spec

\* Master leaves its loop only after the last worker (main, "All children have exited").
THEOREM NobodyLeft == Spec => []NoWorkerLeft
BY MasterInvInit, MasterInvNext, MasterInvImplies, PTL DEF Spec
=============================================================================
