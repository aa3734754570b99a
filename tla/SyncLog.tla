------------------------------ MODULE SyncLog -------------------------------
(***************************************************************************)
(* One channel of the replication log (sync_log.c).  Every process that    *)
(* changes the mail store appends lines to the file "log" (sync_log_base); *)
(* the reader moves the file out of the way by renaming it to "log-run",   *)
(* reads that and unlinks it when everything in it is done                 *)
(* (sync_log_reader_begin, _end).  Locks belong to inodes: a writer may    *)
(* get its lock on a file that has been renamed, or unlinked, meanwhile.   *)
(*                                                                         *)
(* A line is the set of items that the reader makes of it.  Nothing here   *)
(* depends on what an item asks for; module SyncClient says what it does.  *)
(***************************************************************************)
EXTENDS Naturals

CONSTANTS
  Writer,   \* the processes that append to the channel
  Item,     \* the items that can be logged
  Inode,    \* the inodes of the file system; one that nothing uses is reused
  NoFile,   \* no inode
  Retries   \* SYNC_LOG_RETRIES

ASSUME SyncLogAssumption == NoFile \notin Inode /\ Retries \in Nat

VARIABLES
  log,      \* the inode that the name log denotes, or NoFile
  work,     \* the inode that the name log-run denotes, or NoFile
  content,  \* [Inode -> SUBSET Item]
  wpc,      \* [Writer -> the next step of sync_log_base]
  wfd,      \* [Writer -> the inode it has open, or NoFile]
  wline,    \* [Writer -> the items that it logs]
  tries,    \* [Writer -> retries]
  rpc,      \* the next step of the reader
  rfd,      \* the inode that the reader has open, or NoFile
  items     \* what it has read from rfd

wvars == <<wpc, wfd, wline, tries>>
rvars == <<rpc, rfd, items>>
logVars == <<log, work, content, wvars, rvars>>

in(i) == IF i = NoFile THEN {} ELSE content[i]

\* The lock of an inode: a writer keeps it from Lock to Write.
free(i) == \A w \in Writer : ~(wpc[w] \in {"check", "write"} /\ wfd[w] = i)

unused(i) == i \notin {log, work, rfd} /\ \A w \in Writer : wfd[w] # i

LogInit ==
  /\ log = NoFile /\ work = NoFile
  /\ content = [i \in Inode |-> {}]
  /\ wpc = [w \in Writer |-> "idle"]
  /\ wfd = [w \in Writer |-> NoFile]
  /\ wline = [w \in Writer |-> {}]
  /\ tries = [w \in Writer |-> 0]
  /\ rpc = "begin" /\ rfd = NoFile /\ items = {}

-----------------------------------------------------------------------------
(* The writers: sync_log_base.                                              *)

goto(w, l) == wpc' = [wpc EXCEPT ![w] = l]

\* Return, with whatever lock and descriptor w has given up.
return(w) ==
  /\ goto(w, "idle")
  /\ wfd' = [wfd EXCEPT ![w] = NoFile]
  /\ wline' = [wline EXCEPT ![w] = {}]
  /\ tries' = [tries EXCEPT ![w] = 0]

\* sync_log and sync_log_channel, for one channel.
Log(w, line) ==
  /\ wpc[w] = "idle"
  /\ goto(w, "open")
  /\ wline' = [wline EXCEPT ![w] = line]
  /\ UNCHANGED <<log, work, content, wfd, tries, rvars>>

\* open with O_CREAT.
Open(w) ==
  /\ wpc[w] = "open" /\ tries[w] < Retries
  /\ tries' = [tries EXCEPT ![w] = @ + 1]
  /\ IF log # NoFile
     THEN /\ wfd' = [wfd EXCEPT ![w] = log]
          /\ UNCHANGED <<log, content>>
     ELSE \E i \in Inode :
            /\ unused(i)
            /\ log' = i
            /\ content' = [content EXCEPT ![i] = {}]
            /\ wfd' = [wfd EXCEPT ![w] = i]
  /\ goto(w, "lock")
  /\ UNCHANGED <<work, wline, rvars>>

\* lock_blocking.
Lock(w) ==
  /\ wpc[w] = "lock" /\ free(wfd[w])
  /\ goto(w, "check")
  /\ UNCHANGED <<log, work, content, wfd, wline, tries, rvars>>

\* The file was not renamed since it was opened.
current(w) == wfd[w] = log

Check(w) ==
  /\ wpc[w] = "check"
  /\ IF current(w)
     THEN /\ tries[w] < Retries
          /\ goto(w, "write") /\ UNCHANGED wfd
     ELSE goto(w, "open") /\ wfd' = [wfd EXCEPT ![w] = NoFile]
  /\ UNCHANGED <<log, work, content, wline, tries, rvars>>

\* Too many attempts.  The last permitted one counts as one too many even if it
\* found the right file.
GiveUp(w) ==
  /\ tries[w] >= Retries
  /\ wpc[w] = "open" \/ (wpc[w] = "check" /\ current(w))
  /\ return(w)
  /\ UNCHANGED <<log, work, content, rvars>>

\* retry_write, fsync, unlock and close.
Write(w) ==
  /\ wpc[w] = "write"
  /\ content' = [content EXCEPT ![wfd[w]] = @ \cup wline[w]]
  /\ return(w)
  /\ UNCHANGED <<log, work, rvars>>

\* The process is killed, or open, lock_blocking or retry_write fails: logged to
\* syslog, and not to the channel.
Abandon(w) ==
  /\ wpc[w] # "idle"
  /\ return(w)
  /\ UNCHANGED <<log, work, content, rvars>>

-----------------------------------------------------------------------------
(* The reader: sync_log_reader_begin, _getitem and _end.                    *)

\* With a bug: a work file is somebody else's business.
ReprocessNever ==
  /\ FALSE
  /\ UNCHANGED logVars

\* A work file that an earlier reader left is processed first.
Reprocess ==
  /\ rpc = "begin" /\ work # NoFile
  /\ rpc' = "open"
  /\ UNCHANGED <<log, work, content, wvars, rfd, items>>

\* With a bug: the rename does not ask whether there is a work file.
RenameOver ==
  /\ rpc = "begin" /\ log # NoFile
  /\ work' = log /\ log' = NoFile
  /\ rpc' = "open"
  /\ UNCHANGED <<content, wvars, rfd, items>>

Rename ==
  /\ rpc = "begin" /\ work = NoFile /\ log # NoFile
  /\ work' = log /\ log' = NoFile
  /\ rpc' = "open"
  /\ UNCHANGED <<content, wvars, rfd, items>>

OpenWork ==
  /\ rpc = "open"
  /\ rfd' = work /\ rpc' = "lock"
  /\ UNCHANGED <<log, work, content, wvars, items>>

\* With a bug: the reader does not wait for those who had the lock over the rename.
LockWorkAtOnce ==
  /\ rpc = "lock"
  /\ rpc' = "read"
  /\ UNCHANGED <<log, work, content, wvars, rfd, items>>

\* lock_blocking, and unlock at once: whoever had the lock over the rename has
\* written, and whoever gets it from now on finds out about the rename.
LockWork ==
  /\ rpc = "lock" /\ free(rfd)
  /\ rpc' = "read"
  /\ UNCHANGED <<log, work, content, wvars, rfd, items>>

\* getitem, up to the end of the file.
Read ==
  /\ rpc = "read"
  /\ items' = content[rfd] /\ rpc' = "run"
  /\ UNCHANGED <<log, work, content, wvars, rfd>>

quit == rpc' = "begin" /\ rfd' = NoFile /\ items' = {}

\* Everything is done: close, and unlink the work file, which has no name then.
End ==
  /\ rpc = "run"
  /\ work' = NoFile
  /\ content' = [content EXCEPT ![work] = {}]
  /\ quit
  /\ UNCHANGED <<log, wvars>>

\* The reader is killed, or one of its steps fails and it starts over.
Restart ==
  /\ rpc # "begin"
  /\ quit
  /\ UNCHANGED <<log, work, content, wvars>>

-----------------------------------------------------------------------------

LogNext ==
  \/ \E w \in Writer : \/ \E line \in SUBSET Item : Log(w, line)
                       \/ Open(w) \/ Lock(w) \/ Check(w) \/ GiveUp(w)
                       \/ Write(w) \/ Abandon(w)
  \/ Reprocess \/ Rename \/ OpenWork \/ LockWork \/ Read \/ End \/ Restart

LogSpec == LogInit /\ [][LogNext]_logVars

-----------------------------------------------------------------------------
(* Properties.                                                              *)

LogTypeOK ==
  /\ log \in Inode \cup {NoFile} /\ work \in Inode \cup {NoFile}
  /\ content \in [Inode -> SUBSET Item]
  /\ wpc \in [Writer -> {"idle", "open", "lock", "check", "write"}]
  /\ wfd \in [Writer -> Inode \cup {NoFile}]
  /\ wline \in [Writer -> SUBSET Item]
  /\ tries \in [Writer -> Nat]
  /\ rpc \in {"begin", "open", "lock", "read", "run"}
  /\ rfd \in Inode \cup {NoFile} /\ items \in SUBSET Item
  /\ rpc \in {"begin", "open"} <=> rfd = NoFile

\* Nobody appends to a file that the reader has begun to read: a writer that has
\* passed its check has the log, or the work file whose lock the reader awaits.
NoLateWrite ==
  \A w \in Writer :
    wpc[w] = "write" =>
      wfd[w] = log \/ (wfd[w] = work /\ rpc \notin {"read", "run"})

\* The rest of the inductive invariant: the reader works on the work file, which is
\* not the log, and has read all of it.
WorkFile ==
  /\ log # NoFile => log # work
  /\ rpc # "begin" => work # NoFile
  /\ rpc \in {"lock", "read", "run"} => rfd = work
  /\ rpc = "run" => items = content[work]
  /\ \A w \in Writer : wpc[w] \in {"lock", "check", "write"} => wfd[w] # NoFile

\* The two names as a queue.
reading == rpc = "run"
Queue == INSTANCE EventQueue WITH
           queue <- in(log) \cup (IF reading THEN {} ELSE in(work)),
           taken <- IF reading THEN items ELSE {}

\* The channel is a queue that survives the death of its reader: an item leaves
\* it only in a batch that the reader has finished.
QueueSpec == Queue!Spec
=============================================================================
