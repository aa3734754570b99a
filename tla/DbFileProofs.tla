---------------------------- MODULE DbFileProofs ----------------------------
(***************************************************************************)
(* TLAPS proofs about locks on a database that may be replaced: for any    *)
(* number of processes, files and commits, DbFileInv is an inductive       *)
(* invariant of DbFile, hence locks are locks on the database, writers are *)
(* alone and no commit is lost.                                            *)
(***************************************************************************)
EXTENDS DbFile, TLAPS

\* Processes that act on their locks act on locks on one file.
LEMMA Alone == TypeOK /\ HolderHasDatabase /\ Exclusive => OneWriter
  BY DEF TypeOK, Inside, HolderHasDatabase, Exclusive, OneWriter

\* Every step of opening, locking, committing and replacing keeps DbFileInv.
\* OneWriter follows in each case from the other parts.
LEMMA DbFileStep == DbFileInv /\ [Next]_vars => DbFileInv'
<1> SUFFICES ASSUME DbFileInv, [Next]_vars PROVE DbFileInv' OBVIOUS
<1> USE DbFileAssumption DEF DbFileInv, TypeOK, Inside, fileVars
<1>1. ASSUME NEW p \in Proc, Open(p) PROVE DbFileInv'
  <2> USE <1>1 DEF Open, opened, goto
  <2>1. TypeOK' BY DEF Counted, Progress, HolderHasDatabase, Inode
  <2>2. Exclusive' BY DEF Exclusive, Progress
  <2>3. Progress' BY DEF Progress, HolderHasDatabase, CopyComplete, Inode
  <2>4. HolderHasDatabase' /\ NoCommitLost' /\ CopyComplete' /\ Counted'
    BY DEF HolderHasDatabase, Exclusive, Progress, NoCommitLost, CopyComplete, Counted, Inode, OneWriter
  <2> QED BY <2>1, <2>2, <2>3, <2>4, Alone, PTL
<1>2. ASSUME NEW p \in Proc, OpenMissing(p) PROVE DbFileInv'
  <2> USE <1>2 DEF OpenMissing, goto
  <2>1. TypeOK' BY DEF Counted, Progress, HolderHasDatabase, Inode
  <2>2. Progress' BY DEF Progress, HolderHasDatabase, CopyComplete, Inode
  <2>3. HolderHasDatabase' /\ NoCommitLost' /\ Exclusive' /\ CopyComplete' /\ Counted'
    BY DEF HolderHasDatabase, Exclusive, Progress, NoCommitLost, CopyComplete, Counted, Inode, OneWriter
  <2> QED BY <2>1, <2>2, <2>3, Alone, PTL
<1>3. ASSUME NEW p \in Proc, OpenCreate(p) PROVE DbFileInv'
  <2> USE <1>3 DEF OpenCreate, opened, goto
  <2>1. TypeOK'
    <3>1. CASE name # 0 BY <3>1
    <3>2. CASE name = 0
      <4>1. used' = used + 1 /\ name' = used + 1 /\ fd' = [fd EXCEPT ![p] = used + 1]
        BY <3>2
      <4>2. used' \in 0..MaxInode /\ name' \in 0..used' BY <4>1
      <4>3. fd' \in [Proc -> 0..used'] /\ copy' \in [Proc -> 0..used'] BY <4>1
      <4>4. /\ mode' \in [Proc -> {"r", "w"}] /\ held' = held /\ state' = state
            /\ data' = data /\ total' = total /\ isOpen' = isOpen
            /\ pc' = [pc EXCEPT ![p] = "lock"]
            /\ \A q \in Proc \ {p} : mode'[q] = mode[q]
        BY <3>2
      <4> QED BY <4>2, <4>3, <4>4
    <3> QED BY <3>1, <3>2
  <2>2. HolderHasDatabase' BY DEF HolderHasDatabase, Exclusive, Progress
  <2>3. NoCommitLost' BY DEF NoCommitLost, HolderHasDatabase, Progress, CopyComplete, Counted, Inode
  <2>4. Exclusive' BY DEF Exclusive, Progress
  <2>5. Progress' BY DEF Progress, HolderHasDatabase, CopyComplete, Inode
  <2>6. CopyComplete' /\ Counted'
    BY DEF CopyComplete, HolderHasDatabase, OneWriter, Progress, Inode, Counted
  <2> QED BY <2>1, <2>2, <2>3, <2>4, <2>5, <2>6, Alone, PTL
<1>4. ASSUME NEW p \in Proc, Lock(p) PROVE DbFileInv'
  <2> USE <1>4 DEF Lock, goto, Free
  <2>1. TypeOK' BY DEF Counted, Progress, HolderHasDatabase, Inode
  <2>2. Exclusive' BY DEF Exclusive, Progress
  <2>3. Progress' BY DEF Progress, HolderHasDatabase, CopyComplete, Inode
  <2>4. HolderHasDatabase' /\ NoCommitLost' /\ CopyComplete' /\ Counted'
    BY DEF HolderHasDatabase, Exclusive, Progress, NoCommitLost, CopyComplete, Counted, Inode, OneWriter
  <2> QED BY <2>1, <2>2, <2>3, <2>4, Alone, PTL
<1>5. ASSUME NEW p \in Proc, Check(p) PROVE DbFileInv'
  <2> USE <1>5 DEF Check, goto
  <2>1. TypeOK' BY DEF Counted, Progress, HolderHasDatabase, Inode
  <2>2. HolderHasDatabase' BY DEF HolderHasDatabase, Exclusive, Progress
  <2>3. Progress' BY DEF Progress, HolderHasDatabase, CopyComplete, Inode
  <2>4. NoCommitLost' /\ Exclusive' /\ CopyComplete' /\ Counted'
    BY DEF NoCommitLost, HolderHasDatabase, Progress, CopyComplete, Counted, Inode, Exclusive, OneWriter
  <2> QED BY <2>1, <2>2, <2>3, <2>4, Alone, PTL
<1>6. ASSUME NEW p \in Proc, Reopen(p) PROVE DbFileInv'
  <2> USE <1>6 DEF Reopen, goto
  <2>1. TypeOK' BY DEF Counted, Progress, HolderHasDatabase, Inode
  <2>2. HolderHasDatabase' BY DEF HolderHasDatabase, Exclusive, Progress
  <2>3. Exclusive' BY DEF Exclusive, Progress
  <2>4. Progress' BY DEF Progress, HolderHasDatabase, CopyComplete, Inode
  <2>5. NoCommitLost' /\ CopyComplete' /\ Counted'
    BY DEF NoCommitLost, HolderHasDatabase, Progress, CopyComplete, Counted, Inode, OneWriter
  <2> QED BY <2>1, <2>2, <2>3, <2>4, <2>5, Alone, PTL
<1>7. ASSUME NEW p \in Proc, RetryWrite(p) PROVE DbFileInv'
  <2> USE <1>7 DEF RetryWrite, Opening, unlock, goto
  <2>1. TypeOK' BY DEF Counted, Progress, HolderHasDatabase, Inode
  <2>2. Exclusive' BY DEF Exclusive, Progress
  <2>3. Progress' BY DEF Progress, HolderHasDatabase, CopyComplete, Inode
  <2>4. HolderHasDatabase' /\ NoCommitLost' /\ CopyComplete' /\ Counted'
    BY DEF HolderHasDatabase, Exclusive, Progress, NoCommitLost, CopyComplete, Counted, Inode, OneWriter
  <2> QED BY <2>1, <2>2, <2>3, <2>4, Alone, PTL
<1>8. ASSUME NEW p \in Proc, WriteDummy(p) PROVE DbFileInv'
  <2> USE <1>8 DEF WriteDummy, Opening, goto
  <2>1. TypeOK' BY DEF Counted, Progress, HolderHasDatabase, Inode
  <2>2. NoCommitLost' BY DEF NoCommitLost, HolderHasDatabase, Progress, CopyComplete, Counted, Inode
  <2>3. Progress' BY DEF Progress, HolderHasDatabase, CopyComplete, Inode
  <2>4. CopyComplete' BY DEF CopyComplete, HolderHasDatabase, OneWriter, Progress, Inode
  <2>5. HolderHasDatabase' /\ Exclusive' /\ Counted'
    BY DEF HolderHasDatabase, Exclusive, Progress, Counted, Inode
  <2> QED BY <2>1, <2>2, <2>3, <2>4, <2>5, Alone, PTL
<1>9. ASSUME NEW p \in Proc, WriteHeader(p) PROVE DbFileInv'
  <2> USE <1>9 DEF WriteHeader, goto
  <2>1. TypeOK' BY DEF Counted, Progress, HolderHasDatabase, Inode
  <2>2. HolderHasDatabase' BY DEF HolderHasDatabase, Exclusive, Progress
  <2>3. NoCommitLost' BY DEF NoCommitLost, HolderHasDatabase, Progress, CopyComplete, Counted, Inode
  <2>4. Progress' BY DEF Progress, HolderHasDatabase, CopyComplete, Inode
  <2>5. CopyComplete' BY DEF CopyComplete, HolderHasDatabase, OneWriter, Progress, Inode
  <2>6. Exclusive' /\ Counted'
    BY DEF Exclusive, Progress, Counted, Inode
  <2> QED BY <2>1, <2>2, <2>3, <2>4, <2>5, <2>6, Alone, PTL
<1>10. ASSUME NEW p \in Proc, OpenDone(p) PROVE DbFileInv'
  <2> USE <1>10 DEF OpenDone, Opening, unlock, goto
  <2>1. TypeOK' BY DEF Counted, Progress, HolderHasDatabase, Inode
  <2>2. Exclusive' BY DEF Exclusive, Progress
  <2>3. Progress' BY DEF Progress, HolderHasDatabase, CopyComplete, Inode
  <2>4. HolderHasDatabase' /\ NoCommitLost' /\ CopyComplete' /\ Counted'
    BY DEF HolderHasDatabase, Exclusive, Progress, NoCommitLost, CopyComplete, Counted, Inode, OneWriter
  <2> QED BY <2>1, <2>2, <2>3, <2>4, Alone, PTL
<1>11. ASSUME NEW p \in Proc, OpenFails(p) PROVE DbFileInv'
  <2> USE <1>11 DEF OpenFails, Opening, unlock, goto
  <2>1. TypeOK' BY DEF Counted, Progress, HolderHasDatabase, Inode
  <2>2. Exclusive' BY DEF Exclusive, Progress
  <2>3. Progress' BY DEF Progress, HolderHasDatabase, CopyComplete, Inode
  <2>4. HolderHasDatabase' /\ NoCommitLost' /\ CopyComplete' /\ Counted'
    BY DEF HolderHasDatabase, Exclusive, Progress, NoCommitLost, CopyComplete, Counted, Inode, OneWriter
  <2> QED BY <2>1, <2>2, <2>3, <2>4, Alone, PTL
<1>12. ASSUME NEW p \in Proc, NEW m \in {"r", "w"}, Begin(p, m) PROVE DbFileInv'
  <2> USE <1>12 DEF Begin, goto
  <2>1. TypeOK' BY DEF Counted, Progress, HolderHasDatabase, Inode
  <2>2. Exclusive' BY DEF Exclusive, Progress
  <2>3. Progress' BY DEF Progress, HolderHasDatabase, CopyComplete, Inode
  <2>4. HolderHasDatabase' /\ NoCommitLost' /\ CopyComplete' /\ Counted'
    BY DEF HolderHasDatabase, Exclusive, Progress, NoCommitLost, CopyComplete, Counted, Inode, OneWriter
  <2> QED BY <2>1, <2>2, <2>3, <2>4, Alone, PTL
<1>13. ASSUME NEW p \in Proc, End(p) PROVE DbFileInv'
  <2> USE <1>13 DEF End, unlock, goto
  <2>1. TypeOK' BY DEF Counted, Progress, HolderHasDatabase, Inode
  <2>2. Exclusive' BY DEF Exclusive, Progress
  <2>3. Progress' BY DEF Progress, HolderHasDatabase, CopyComplete, Inode
  <2>4. HolderHasDatabase' /\ NoCommitLost' /\ CopyComplete' /\ Counted'
    BY DEF HolderHasDatabase, Exclusive, Progress, NoCommitLost, CopyComplete, Counted, Inode, OneWriter
  <2> QED BY <2>1, <2>2, <2>3, <2>4, Alone, PTL
<1>14. ASSUME NEW p \in Proc, Commit(p) PROVE DbFileInv'
  <2> USE <1>14 DEF Commit, goto
  <2>1. TypeOK' BY DEF Counted, Progress, HolderHasDatabase, Inode
  <2>2. NoCommitLost' BY DEF NoCommitLost, HolderHasDatabase, Progress, CopyComplete, Counted, Inode
  <2>3. Progress' BY DEF Progress, HolderHasDatabase, CopyComplete, Inode
  <2>4. CopyComplete' BY DEF CopyComplete, HolderHasDatabase, OneWriter, Progress, Inode
  <2>5. Counted' BY DEF Counted, Inode
  <2>6. HolderHasDatabase' /\ Exclusive'
    BY DEF HolderHasDatabase, Exclusive, Progress
  <2> QED BY <2>1, <2>2, <2>3, <2>4, <2>5, <2>6, Alone, PTL
<1>15. ASSUME NEW p \in Proc, CommitDone(p) PROVE DbFileInv'
  <2> USE <1>15 DEF CommitDone, unlock, goto
  <2>1. TypeOK' BY DEF Counted, Progress, HolderHasDatabase, Inode
  <2>2. Exclusive' BY DEF Exclusive, Progress
  <2>3. Progress' BY DEF Progress, HolderHasDatabase, CopyComplete, Inode
  <2>4. CopyComplete' BY DEF CopyComplete, HolderHasDatabase, OneWriter, Progress, Inode
  <2>5. HolderHasDatabase' /\ NoCommitLost' /\ Counted'
    BY DEF HolderHasDatabase, Exclusive, Progress, NoCommitLost, CopyComplete, Counted, Inode
  <2> QED BY <2>1, <2>2, <2>3, <2>4, <2>5, Alone, PTL
<1>16. ASSUME NEW p \in Proc, Copy(p) PROVE DbFileInv'
  <2> USE <1>16 DEF Copy, goto
  <2>1. TypeOK' BY DEF Counted, Progress, HolderHasDatabase, Inode
  <2>2. NoCommitLost' BY DEF NoCommitLost, HolderHasDatabase, Progress, CopyComplete, Counted, Inode
  <2>3. Progress' BY DEF Progress, HolderHasDatabase, CopyComplete, Inode
  <2>4. CopyComplete' BY DEF CopyComplete, NoCommitLost, HolderHasDatabase, OneWriter, Progress, Counted, Inode
  <2>5. Counted'
    <3>1. fd[p] \in Inode
      <4>1. fd[p] # 0 BY DEF Progress
      <4>2. fd[p] \in 0..used /\ used \in 0..MaxInode OBVIOUS
      <4> QED BY ONLY <4>1, <4>2, DbFileAssumption DEF Inode
    <3>2. \A i \in Inode : data'[i] = data[i] \/ data'[i] = data[fd[p]] BY DEF Inode
    <3> QED BY <3>1, <3>2 DEF Counted
  <2>6. HolderHasDatabase' /\ Exclusive'
    BY DEF HolderHasDatabase, Exclusive, Progress
  <2> QED BY <2>1, <2>2, <2>3, <2>4, <2>5, <2>6, Alone, PTL
<1>17. ASSUME NEW p \in Proc, Rename(p) PROVE DbFileInv'
  <2> USE <1>17 DEF Rename, goto
  <2>1. TypeOK' BY DEF Counted, Progress, HolderHasDatabase, Inode
  <2>2. HolderHasDatabase' BY DEF HolderHasDatabase, Exclusive, Progress
  <2>3. NoCommitLost' BY DEF NoCommitLost, HolderHasDatabase, Progress, CopyComplete, Counted, Inode
  <2>4. Progress' BY DEF Progress, HolderHasDatabase, CopyComplete, Inode
  <2>5. CopyComplete' BY DEF CopyComplete, HolderHasDatabase, OneWriter, Progress, Inode
  <2>6. Exclusive' /\ Counted'
    BY DEF Exclusive, Progress, Counted, Inode
  <2> QED BY <2>1, <2>2, <2>3, <2>4, <2>5, <2>6, Alone, PTL
<1>18. ASSUME NEW p \in Proc, Switch(p) PROVE DbFileInv'
  <2> USE <1>18 DEF Switch, unlock, goto
  <2>1. TypeOK' BY DEF Counted, Progress, HolderHasDatabase, Inode
  <2>2. HolderHasDatabase' BY DEF HolderHasDatabase, Exclusive, Progress
  <2>3. Exclusive' BY DEF Exclusive, Progress
  <2>4. Progress' BY DEF Progress, HolderHasDatabase, CopyComplete, Inode
  <2>5. CopyComplete' BY DEF CopyComplete, HolderHasDatabase, OneWriter, Progress, Inode
  <2>6. NoCommitLost' /\ Counted'
    BY DEF NoCommitLost, HolderHasDatabase, Progress, CopyComplete, Counted, Inode
  <2> QED BY <2>1, <2>2, <2>3, <2>4, <2>5, <2>6, Alone, PTL
<1>19. ASSUME NEW p \in Proc, Kill(p) PROVE DbFileInv'
  <2> USE <1>19 DEF Kill, unlock, goto
  <2>1. TypeOK' BY DEF Counted, Progress, HolderHasDatabase, Inode
  <2>2. Exclusive' BY DEF Exclusive, Progress
  <2>3. Progress' BY DEF Progress, HolderHasDatabase, CopyComplete, Inode
  <2>4. CopyComplete' BY DEF CopyComplete, HolderHasDatabase, OneWriter, Progress, Inode
  <2>5. HolderHasDatabase' /\ NoCommitLost' /\ Counted'
    BY DEF HolderHasDatabase, Exclusive, Progress, NoCommitLost, CopyComplete, Counted, Inode
  <2> QED BY <2>1, <2>2, <2>3, <2>4, <2>5, Alone, PTL
<1>20. CASE UNCHANGED vars
  BY <1>20 DEF vars, HolderHasDatabase, OneWriter, NoCommitLost, Exclusive,
     Progress, CopyComplete, Counted
<1> QED BY <1>1, <1>2, <1>3, <1>4, <1>5, <1>6, <1>7, <1>8, <1>9, <1>10, <1>11, <1>12,
           <1>13, <1>14, <1>15, <1>16, <1>17, <1>18, <1>19, <1>20 DEF Next

\* Every state of the locking protocol satisfies the inductive invariant.
THEOREM DbFileInvariant == Spec => []DbFileInv
<1>1. Init => DbFileInv
  BY DbFileAssumption
     DEF Init, DbFileInv, TypeOK, Inside, HolderHasDatabase, OneWriter, NoCommitLost,
         Exclusive, Progress, CopyComplete, Counted
<1> QED BY <1>1, DbFileStep, PTL DEF Spec

\* However many processes open, lock and replace the database: whoever has got
\* through mappedfile_readlock or mappedfile_writelock has the current file.
THEOREM LocksAreCurrent == Spec => []HolderHasDatabase
<1>1. DbFileInv => HolderHasDatabase BY DEF DbFileInv
<1> QED BY <1>1, DbFileInvariant, PTL

\* Writers are alone, across any number of renames.
THEOREM WritersAreAlone == Spec => []OneWriter
<1>1. DbFileInv => OneWriter BY DEF DbFileInv
<1> QED BY <1>1, DbFileInvariant, PTL

\* Every commit is in the file that the name denotes.
THEOREM CommitsAreKept == Spec => []NoCommitLost
<1>1. DbFileInv => NoCommitLost BY DEF DbFileInv
<1> QED BY <1>1, DbFileInvariant, PTL

\* A database that is ready is never created a second time.
THEOREM DatabaseIsCreatedOnce == Spec => CreatedOnce
<1>1. DbFileInv /\ [Next]_vars =>
        [name # 0 /\ state[name] = "ready" => name' # 0 /\ state'[name'] = "ready"]_vars
  <2> SUFFICES ASSUME DbFileInv, [Next]_vars, name # 0, state[name] = "ready"
               PROVE  name' # 0 /\ state'[name'] = "ready"
    OBVIOUS
  <2> USE DEF DbFileInv, TypeOK, Inode
  <2>1. ASSUME NEW p \in Proc, OpenCreate(p) PROVE name' = name /\ state' = state
    BY <2>1 DEF OpenCreate
  <2>2. ASSUME NEW p \in Proc, WriteDummy(p) PROVE FALSE
    BY <2>2 DEF WriteDummy, Opening, HolderHasDatabase, Inside
  <2>3. ASSUME NEW p \in Proc, WriteHeader(p) PROVE name' # 0 /\ state'[name'] = "ready"
    BY <2>3 DEF WriteHeader
  <2>4. ASSUME NEW p \in Proc, Copy(p) PROVE name' # 0 /\ state'[name'] = "ready"
    BY <2>4 DEF Copy
  <2>5. ASSUME NEW p \in Proc, Rename(p) PROVE name' # 0 /\ state'[name'] = "ready"
    BY <2>5 DEF Rename, Progress, CopyComplete
  <2>6. CASE UNCHANGED <<name, state>> BY <2>6
  <2> QED
    BY <2>1, <2>2, <2>3, <2>4, <2>5, <2>6
       DEF Next, vars, fileVars, Open, OpenMissing, Lock, Check, Reopen, RetryWrite,
           OpenDone, OpenFails, Begin, End, Commit, CommitDone, Switch, Kill
<1> QED BY <1>1, DbFileInvariant, PTL DEF Spec, CreatedOnce
=============================================================================
