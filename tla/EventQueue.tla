----------------------------- MODULE EventQueue -----------------------------
(***************************************************************************)
(* What the replication log promises: a queue of items that survives the   *)
(* death of its reader.  The reader takes a batch; the batch is gone when  *)
(* the reader says so, and comes back when the reader dies or fails.  An   *)
(* item that is put again while a batch holds it stays in the queue.       *)
(***************************************************************************)
CONSTANT Item  \* what is logged

VARIABLES
  queue,  \* the items that wait
  taken   \* the items of the batch that the reader works on

vars == <<queue, taken>>

TypeOK == queue \subseteq Item /\ taken \subseteq Item

Init == queue = {} /\ taken = {}

Put ==
  /\ queue \subseteq queue' /\ queue' \subseteq Item
  /\ UNCHANGED taken

Take ==
  /\ taken = {}
  /\ taken' \subseteq queue /\ queue' \subseteq queue
  /\ queue \subseteq queue' \cup taken'

Done == taken' = {} /\ UNCHANGED queue

Return == queue' = queue \cup taken /\ taken' = {}

Next == Put \/ Take \/ Done \/ Return

Spec == Init /\ [][Next]_vars
=============================================================================
