------------------------------ MODULE TxnStore ------------------------------
(***************************************************************************)
(* What a cyrusdb backend with transactions promises: one writer at a      *)
(* time, whose changes become visible all at once and, when its commit has *)
(* returned, survive a power loss; a writer that aborts or dies before     *)
(* that leaves no trace.                                                   *)
(***************************************************************************)
EXTENDS Integers

CONSTANTS Proc, NoProc, NoTxn, Key, Val

VARIABLES
  view,   \* the contents that a process finds when it takes the lock
  dur,    \* the contents that a power loss may leave
  owner,  \* the process that holds the write lock
  work,   \* the contents of the open transaction
  acked   \* the contents that a commit has promised and no later one replaced

vars == <<view, dur, owner, work, acked>>

Contents == UNION {[ks -> Val] : ks \in SUBSET Key}

Init ==
  /\ view \in Contents
  /\ dur = {view}
  /\ owner = NoProc
  /\ work = NoTxn
  /\ acked = view

Lock(p) ==
  /\ owner = NoProc /\ owner' = p
  /\ work' \in {NoTxn, view}
  /\ UNCHANGED <<view, dur, acked>>

Begin ==
  /\ owner # NoProc /\ work = NoTxn
  /\ UNCHANGED owner
  /\ work' = view
  /\ UNCHANGED <<view, dur, acked>>

Put(k, v) ==
  /\ work # NoTxn
  /\ work' = [x \in DOMAIN work \cup {k} |-> IF x = k THEN v ELSE work[x]]
  /\ UNCHANGED <<view, dur, owner, acked>>

Del(k) ==
  /\ work # NoTxn /\ k \in DOMAIN work
  /\ work' = [x \in DOMAIN work \ {k} |-> work[x]]
  /\ UNCHANGED <<view, dur, owner, acked>>

\* The commit point: all of the transaction becomes visible in one step.
Publish ==
  /\ work # NoTxn
  /\ acked' = NoTxn /\ UNCHANGED <<owner, work>>
  /\ view' = work /\ dur' = dur \cup {work}

\* A sync; the owner may then promise the contents it has published.
Flush ==
  /\ UNCHANGED <<owner, work>>
  /\ dur' = {view}
  /\ acked' \in {acked, view}
  /\ UNCHANGED view

Abort ==
  /\ work # NoTxn
  /\ work' = NoTxn
  /\ UNCHANGED <<view, dur, owner, acked>>

\* A commit returns: what the transaction did is what everyone sees.
Commit ==
  /\ owner # NoProc /\ owner' = NoProc
  /\ work = view /\ work' = NoTxn
  /\ UNCHANGED <<view, dur, acked>>

\* The lock is released after an abort or a recovery.
Unlock ==
  /\ owner # NoProc /\ work = NoTxn
  /\ owner' = NoProc
  /\ UNCHANGED <<view, dur, work, acked>>

Die ==
  /\ owner # NoProc
  /\ owner' = NoProc /\ work' = NoTxn
  /\ UNCHANGED <<view, dur, acked>>

Power ==
  /\ owner' = NoProc /\ work' = NoTxn
  /\ view' \in dur /\ dur' = {view'}
  /\ UNCHANGED acked

Next ==
  \/ \E p \in Proc : Lock(p)
  \/ Begin \/ Publish \/ Flush \/ Abort \/ Commit \/ Unlock \/ Die \/ Power
  \/ \E k \in Key : Del(k) \/ \E v \in Val : Put(k, v)

Spec == Init /\ [][Next]_vars

-----------------------------------------------------------------------------

\* What a returned commit promised is what everyone finds, and all that a power
\* loss can leave, whatever crashes follow, until a later commit replaces it.
Durable == acked # NoTxn => view = acked /\ dur = {acked}
=============================================================================
