------------------------------ MODULE Padding ------------------------------
(***************************************************************************)
(* Where twoskip puts a record (write_record, add_padding): so many blanks *)
(* before it that every word of its head that may ever be rewritten lies   *)
(* in one disk block.  TwoSkipFile rests on this: there a rewrite reaches  *)
(* the disk entirely or not at all.                                        *)
(*                                                                         *)
(* Offsets and lengths are in words of 8 bytes, as all of them are         *)
(* multiples of 8.                                                         *)
(***************************************************************************)
EXTENDS Integers

CONSTANTS
  Block,     \* BLOCKSIZE, in words
  MaxLevel,  \* MAXLEVEL
  MaxTail,   \* bound: the longest key, value and padding, in words
  MaxEnd     \* bound: no record starts at or after this word

\* HEADER_SIZE: the file header, after which the first record goes.
HeaderSize == 8

ASSUME PaddingAssumption ==
  /\ Block \in Nat /\ MaxLevel \in Nat /\ MaxTail \in Nat /\ MaxEnd \in Nat
  /\ HeaderSize <= Block /\ MaxLevel + 5 <= Block - 1

VARIABLES
  end,    \* db->end
  iolen,  \* the length of the head to write, 0 when there is none
  tail,   \* the length of its key, value and zeros
  last    \* the head just written, of a record or of the file

vars == <<end, iolen, tail, last>>

Init ==
  /\ end = HeaderSize /\ iolen = 0 /\ tail = 0
  /\ last = [start |-> 0, len |-> HeaderSize]

\* prepare_record: type and lengths, up to two long lengths, level + 1
\* pointers, and the two checksums.
prepare_record(level, longs) == 1 + longs + (level + 1) + 1

WriteRecord(level, longs, t) ==
  /\ iolen = 0 /\ end < MaxEnd
  /\ iolen' = prepare_record(level, longs) /\ tail' = t
  /\ last' = [start |-> 0, len |-> HeaderSize]
  /\ UNCHANGED end

\* With a bug: the last word of the head may be in the next block.
WrapsEarly == iolen <= Block - 1 /\ (end + 1) % Block > (end - 2 + iolen) % Block

\* The head would wrap into the next block.
Wraps == iolen <= Block - 1 /\ (end + 1) % Block > (end - 1 + iolen) % Block

\* With a bug: the blank is written, db->end stays.
padStuck == UNCHANGED vars

pad == end' = end + 1 /\ UNCHANGED <<iolen, tail, last>>

add_padding == iolen # 0 /\ Wraps /\ pad

Write ==
  /\ iolen # 0 /\ ~Wraps
  /\ last' = [start |-> end, len |-> iolen]
  /\ end' = end + iolen + tail
  /\ iolen' = 0 /\ tail' = 0

\* mycheckpoint starts again in a new file.
NewFile ==
  /\ iolen = 0 /\ end >= MaxEnd
  /\ end' = HeaderSize
  /\ UNCHANGED <<iolen, tail, last>>

Next ==
  \/ \E level \in 0..MaxLevel, longs \in 0..2, t \in 0..MaxTail :
       WriteRecord(level, longs, t)
  \/ add_padding \/ Write
  \/ NewFile

Spec == Init /\ [][Next]_vars

FairSpec == Spec /\ WF_vars(add_padding \/ Write)

-----------------------------------------------------------------------------

\* rewrite_record changes no word of a head before its second one and none after
\* its last one, and these lie in one disk block: a crash leaves the old pointers
\* and checksum or the new ones, never a mixture.
HeadInOneBlock ==
  (last.start + 1) \div Block = (last.start + last.len - 1) \div Block

\* add_padding stops: there is a place in every block for every head.
PaddingEnds == iolen # 0 ~> iolen = 0
=============================================================================
