------------------------------- MODULE DbFile -------------------------------
(***************************************************************************)
(* The database file as a name in a directory: how processes open and      *)
(* create it (opendb), lock it (mappedfile.c on lock_fcntl.c) and replace  *)
(* it (mycheckpoint, mappedfile_rename).  A lock belongs to an inode, so a *)
(* process that gets one asks whether its inode still is the database and, *)
(* if it is not, opens the file again and starts over.                     *)
(*                                                                         *)
(* The contents of a file are the number of commits in it; what a commit,  *)
(* a recovery and the copy of a checkpoint do inside is module TwoSkip.    *)
(* A process has one descriptor of the database, so its lock is one word.  *)
(***************************************************************************)
EXTENDS Integers

CONSTANTS
  Proc,      \* the processes
  MaxInode,  \* bound: the number of files that are ever created
  MaxCommit  \* bound: the number of commits

ASSUME DbFileAssumption == MaxInode \in Nat /\ MaxCommit \in Nat

VARIABLES
  name,    \* the inode that the name of the database denotes, 0 if none
  state,   \* [Inode -> ...]: how much of the file is written
  data,    \* [Inode -> Nat]: the commits that the file holds
  used,    \* the inodes 1..used have been created
  fd,      \* [Proc -> inode]: what the process has open, 0 if nothing
  mode,    \* [Proc -> "r" or "w"]: the lock that it asks for
  held,    \* [Proc -> "no", "r" or "w"]: the lock that it has on fd
  pc,      \* [Proc -> the next step]
  isOpen,  \* [Proc -> BOOLEAN]: opendb has returned
  copy,    \* [Proc -> inode]: the file that mycheckpoint has written
  total    \* history: the number of commits

fileVars == <<name, state, data, used>>
vars == <<fileVars, fd, mode, held, pc, isOpen, copy, total>>

Inode == 1..MaxInode

Init ==
  /\ name = 0 /\ used = 0 /\ total = 0
  /\ state = [i \in Inode |-> "empty"]
  /\ data = [i \in Inode |-> 0]
  /\ fd = [p \in Proc |-> 0]
  /\ mode = [p \in Proc |-> "r"]
  /\ held = [p \in Proc |-> "no"]
  /\ pc = [p \in Proc |-> "closed"]
  /\ isOpen = [p \in Proc |-> FALSE]
  /\ copy = [p \in Proc |-> 0]

goto(p, l) == pc' = [pc EXCEPT ![p] = l]

-----------------------------------------------------------------------------
(* mappedfile_open.                                                         *)

\* Ask for a read lock on what was opened.
opened(p, i) ==
  /\ fd' = [fd EXCEPT ![p] = i]
  /\ mode' = [mode EXCEPT ![p] = "r"]
  /\ goto(p, "lock")
  /\ UNCHANGED <<data, held, isOpen, copy, total>>

Open(p) ==
  /\ pc[p] = "closed" /\ name # 0
  /\ opened(p, name)
  /\ UNCHANGED <<name, state, used>>

\* There is no such file: it is created by a second open.
OpenMissing(p) ==
  /\ pc[p] = "closed" /\ name = 0
  /\ goto(p, "create")
  /\ UNCHANGED <<fileVars, fd, mode, held, isOpen, copy, total>>

\* O_CREAT without O_EXCL: a file that somebody has created by now will do.
OpenCreate(p) ==
  /\ pc[p] = "create"
  /\ IF name # 0
     THEN opened(p, name) /\ UNCHANGED <<name, state, used>>
     ELSE /\ used < MaxInode
          /\ used' = used + 1 /\ name' = used + 1
          /\ opened(p, used + 1)
          /\ UNCHANGED state

-----------------------------------------------------------------------------
(* mappedfile_readlock, mappedfile_writelock (lock_reopen_ex) and unlock.   *)

\* F_SETLKW waits until no other process has a conflicting lock.
Free(p) ==
  \A q \in Proc \ {p} :
    fd[q] = fd[p] => held[q] = "no" \/ (held[q] = "r" /\ mode[p] = "r")

Lock(p) ==
  /\ pc[p] = "lock" /\ Free(p)
  /\ held' = [held EXCEPT ![p] = mode[p]]
  /\ goto(p, "check")
  /\ UNCHANGED <<fileVars, fd, mode, isOpen, copy, total>>

\* With a bug: a lock on whatever was opened is good enough.
CheckSkipped(p) ==
  /\ pc[p] = "check"
  /\ goto(p, "held")
  /\ UNCHANGED <<fileVars, fd, mode, held, isOpen, copy, total>>

\* fstat of the descriptor and stat of the name give the same inode, or not.
Check(p) ==
  /\ pc[p] = "check"
  /\ goto(p, IF fd[p] = name THEN "held" ELSE "reopen")
  /\ UNCHANGED <<fileVars, fd, mode, held, isOpen, copy, total>>

\* dup2 closes the old file, which releases its lock.
Reopen(p) ==
  /\ pc[p] = "reopen"
  /\ fd' = [fd EXCEPT ![p] = name]
  /\ held' = [held EXCEPT ![p] = "no"]
  /\ goto(p, "lock")
  /\ UNCHANGED <<fileVars, mode, isOpen, copy, total>>

unlock(p, l) ==
  /\ held' = [held EXCEPT ![p] = "no"]
  /\ goto(p, l)

-----------------------------------------------------------------------------
(* opendb, once it has a lock.                                              *)

Opening(p) == pc[p] = "held" /\ ~isOpen[p]

\* With a bug: the read lock passes for a write lock.
RetryWriteUpgraded(p) ==
  /\ Opening(p) /\ state[fd[p]] = "empty" /\ mode[p] = "r"
  /\ mode' = [mode EXCEPT ![p] = "w"]
  /\ UNCHANGED <<fileVars, fd, held, pc, isOpen, copy, total>>

\* The file has size zero, or its header says that it needs a recovery: the lock
\* must be a write lock.
RetryWrite(p) ==
  /\ Opening(p) /\ state[fd[p]] \in {"empty", "ready"} /\ mode[p] = "r"
  /\ mode' = [mode EXCEPT ![p] = "w"]
  /\ unlock(p, "lock")
  /\ UNCHANGED <<fileVars, fd, isOpen, copy, total>>

\* With a bug: the size is not read again under the write lock.
WriteDummyAgain(p) ==
  /\ Opening(p) /\ mode[p] = "w"
  /\ state' = [state EXCEPT ![fd[p]] = "headless"]
  /\ goto(p, "dummy")
  /\ UNCHANGED <<name, data, used, fd, mode, held, isOpen, copy, total>>

\* write_record of the DUMMY: the file grows, its first 64 bytes are zeros.
WriteDummy(p) ==
  /\ Opening(p) /\ state[fd[p]] = "empty" /\ mode[p] = "w"
  /\ state' = [state EXCEPT ![fd[p]] = "headless"]
  /\ goto(p, "dummy")
  /\ UNCHANGED <<name, data, used, fd, mode, held, isOpen, copy, total>>

\* commit_header.
WriteHeader(p) ==
  /\ pc[p] = "dummy"
  /\ state' = [state EXCEPT ![fd[p]] = "ready"]
  /\ goto(p, "held")
  /\ UNCHANGED <<name, data, used, fd, mode, held, isOpen, copy, total>>

OpenDone(p) ==
  /\ Opening(p) /\ state[fd[p]] = "ready"
  /\ isOpen' = [isOpen EXCEPT ![p] = TRUE]
  /\ unlock(p, "idle")
  /\ UNCHANGED <<fileVars, fd, mode, copy, total>>

\* read_header finds no magic: dispose_db unlocks and closes the file.
OpenFails(p) ==
  /\ Opening(p) /\ state[fd[p]] = "headless"
  /\ fd' = [fd EXCEPT ![p] = 0]
  /\ unlock(p, "closed")
  /\ UNCHANGED <<fileVars, mode, isOpen, copy, total>>

-----------------------------------------------------------------------------
(* Transactions, and mycheckpoint.                                          *)

Begin(p, m) ==
  /\ pc[p] = "idle"
  /\ mode' = [mode EXCEPT ![p] = m]
  /\ goto(p, "lock")
  /\ UNCHANGED <<fileVars, fd, held, isOpen, copy, total>>

\* The end of a read, of an aborted transaction or of one without changes.
End(p) ==
  /\ pc[p] = "held" /\ isOpen[p]
  /\ unlock(p, "idle")
  /\ UNCHANGED <<fileVars, fd, mode, isOpen, copy, total>>

Commit(p) ==
  /\ pc[p] = "held" /\ isOpen[p] /\ mode[p] = "w"
  /\ total < MaxCommit
  /\ data' = [data EXCEPT ![fd[p]] = @ + 1]
  /\ total' = total + 1
  /\ goto(p, "committed")
  /\ UNCHANGED <<name, state, used, fd, mode, held, isOpen, copy>>

\* The commit did not need a checkpoint, or the checkpoint has failed.
CommitDone(p) ==
  /\ pc[p] \in {"committed", "copied"}
  /\ copy' = [copy EXCEPT ![p] = 0]
  /\ unlock(p, "idle")
  /\ UNCHANGED <<fileVars, fd, mode, isOpen, total>>

\* With a bug: the copy is made without the transaction that was just committed.
CopyEarly(p) ==
  /\ pc[p] = "committed" /\ used < MaxInode
  /\ used' = used + 1
  /\ copy' = [copy EXCEPT ![p] = used + 1]
  /\ state' = [state EXCEPT ![used + 1] = "ready"]
  /\ data' = [data EXCEPT ![used + 1] = data[fd[p]] - 1]
  /\ goto(p, "copied")
  /\ UNCHANGED <<name, fd, mode, held, isOpen, total>>

\* The database is copied into a new file, which is closed again by mycommit.
Copy(p) ==
  /\ pc[p] = "committed" /\ used < MaxInode
  /\ used' = used + 1
  /\ copy' = [copy EXCEPT ![p] = used + 1]
  /\ state' = [state EXCEPT ![used + 1] = "ready"]
  /\ data' = [data EXCEPT ![used + 1] = data[fd[p]]]
  /\ goto(p, "copied")
  /\ UNCHANGED <<name, fd, mode, held, isOpen, total>>

Rename(p) ==
  /\ pc[p] = "copied"
  /\ name' = copy[p]
  /\ goto(p, "renamed")
  /\ UNCHANGED <<state, data, used, fd, mode, held, isOpen, copy, total>>

\* unlock(db), and the process goes on with the descriptor of the new file.
Switch(p) ==
  /\ pc[p] = "renamed"
  /\ fd' = [fd EXCEPT ![p] = copy[p]]
  /\ copy' = [copy EXCEPT ![p] = 0]
  /\ unlock(p, "idle")
  /\ UNCHANGED <<fileVars, mode, isOpen, total>>

-----------------------------------------------------------------------------

\* The process is killed, or closes the database: its locks go with it.
Kill(p) ==
  /\ pc[p] # "closed"
  /\ fd' = [fd EXCEPT ![p] = 0]
  /\ isOpen' = [isOpen EXCEPT ![p] = FALSE]
  /\ copy' = [copy EXCEPT ![p] = 0]
  /\ unlock(p, "closed")
  /\ UNCHANGED <<fileVars, mode, total>>

Next ==
  \E p \in Proc :
    \/ Open(p) \/ OpenMissing(p) \/ OpenCreate(p)
    \/ Lock(p) \/ Check(p) \/ Reopen(p)
    \/ RetryWrite(p) \/ WriteDummy(p) \/ WriteHeader(p) \/ OpenDone(p) \/ OpenFails(p)
    \/ Begin(p, "r") \/ Begin(p, "w") \/ End(p)
    \/ Commit(p) \/ CommitDone(p) \/ Copy(p) \/ Rename(p) \/ Switch(p)
    \/ Kill(p)

Spec == Init /\ [][Next]_vars

-----------------------------------------------------------------------------
(* Properties.                                                              *)

\* The process has a lock and acts on it.
Inside(p) == pc[p] \in {"held", "dummy", "committed", "copied"}

\* Types, and what the asserts of mappedfile.c say: a process that asks for a
\* lock has none.
TypeOK ==
  /\ used \in 0..MaxInode /\ name \in 0..used /\ total \in 0..MaxCommit
  /\ state \in [Inode -> {"empty", "headless", "ready"}]
  /\ data \in [Inode -> 0..MaxCommit]
  /\ fd \in [Proc -> 0..used] /\ copy \in [Proc -> 0..used]
  /\ mode \in [Proc -> {"r", "w"}] /\ held \in [Proc -> {"no", "r", "w"}]
  /\ pc \in [Proc -> {"closed", "create", "lock", "check", "reopen", "held",
                     "dummy", "idle", "committed", "copied", "renamed"}]
  /\ isOpen \in [Proc -> BOOLEAN]
  /\ \A p \in Proc : held[p] = IF Inside(p) \/ pc[p] \in {"check", "reopen", "renamed"}
                                THEN mode[p] ELSE "no"

\* A lock is a lock on the database: while a process acts on its lock, the name
\* denotes the file that it has open, however often the file is replaced.
HolderHasDatabase == \A p \in Proc : Inside(p) => fd[p] = name

\* While a process may write the database nobody else may read or write it,
\* although after a checkpoint two processes can hold write locks.
OneWriter ==
  \A p, q \in Proc : Inside(p) /\ Inside(q) /\ p # q => mode[p] = "r" /\ mode[q] = "r"

\* No commit goes into a file that is no longer the database, and no checkpoint
\* drops one.
NoCommitLost == total > 0 => name # 0 /\ state[name] = "ready" /\ data[name] = total

\* Processes that open a missing database at the same time create it once: a
\* database that is ready stays ready.
CreatedOnce ==
  [][name # 0 /\ state[name] = "ready" => name' # 0 /\ state'[name'] = "ready"]_vars

-----------------------------------------------------------------------------
(* The inductive invariant behind them.                                     *)

\* The kernel's promise about locks on one file.
Exclusive ==
  \A p, q \in Proc :
    p # q /\ fd[p] = fd[q] /\ held[p] = "w" => held[q] = "no"

\* What a process has done to be where it is.
Progress ==
  \A p \in Proc :
    /\ pc[p] \notin {"closed", "create"} => fd[p] # 0 /\ name # 0
    /\ pc[p] \in {"dummy", "committed", "copied", "renamed"} => mode[p] = "w"
    /\ pc[p] \in {"idle", "committed", "copied", "renamed"} => isOpen[p]
    /\ isOpen[p] => pc[p] # "dummy" /\ name # 0 /\ state[name] = "ready"
    /\ pc[p] \in {"copied", "renamed"} => copy[p] # 0

\* The file that is about to become the database holds every commit.
CopyComplete ==
  \A p \in Proc : pc[p] = "copied" => state[copy[p]] = "ready" /\ data[copy[p]] = total

Counted == \A i \in Inode : data[i] <= total

DbFileInv ==
  /\ TypeOK /\ HolderHasDatabase /\ OneWriter /\ NoCommitLost
  /\ Exclusive /\ Progress /\ CopyComplete /\ Counted
=============================================================================
