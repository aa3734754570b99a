--------------------------- MODULE PaddingProofs ---------------------------
(***************************************************************************)
(* TLAPS proof that add_padding keeps heads in one block, for every block  *)
(* size, every number of levels that fits into a block, every file length. *)
(***************************************************************************)
EXTENDS Padding, TLAPS

\* Two words less than a block apart, the later one not further to the left in
\* its block, are in the same block.
LEMMA SameBlock ==
  ASSUME NEW B \in Nat, B > 0, NEW a \in Nat, NEW b \in Nat,
         a <= b, b - a < B, ~(a % B > b % B)
  PROVE  a \div B = b \div B
<1> DEFINE q == a \div B
           r == b \div B
<1>1. /\ q \in Int /\ r \in Int /\ a % B \in 0..B - 1 /\ b % B \in 0..B - 1
      /\ a = B * q + (a % B) /\ b = B * r + (b % B)
  OBVIOUS
<1> DEFINE x == a % B
           y == b % B
<1>2. x \in Int /\ y \in Int /\ 0 <= x /\ x <= y /\ y < B BY <1>1
<1>3. a = B * q + x /\ b = B * r + y BY <1>1
<1> HIDE DEF q, r, x, y
<1>4. ASSUME r >= q + 1 PROVE FALSE
  <2>1. B * (r - q) >= B BY <1>1, <1>4
  <2>2. B * (r - q) = B * r - B * q BY <1>1
  <2> QED BY <1>1, <1>2, <1>3, <2>1, <2>2
<1>5. ASSUME q >= r + 1 PROVE FALSE
  <2>1. B * (q - r) >= B BY <1>1, <1>5
  <2>2. B * (q - r) = B * q - B * r BY <1>1
  <2> QED BY <1>1, <1>2, <1>3, <2>1, <2>2
<1>6. q = r BY <1>1, <1>4, <1>5
<1> QED BY <1>6 DEF q, r

\* The head to write fits into a block, and the one written is in one.
PaddingInv ==
  /\ end \in Nat /\ iolen \in Nat /\ tail \in Nat
  /\ iolen # 0 => 3 <= iolen /\ iolen <= Block - 1
  /\ last \in [start: Nat, len: Nat]
  /\ HeadInOneBlock

\* For every block size that a head fits into, at every offset, with any levels
\* and lengths: no rewrite of a head ever straddles a block boundary.
THEOREM HeadsInOneBlock == Spec => []HeadInOneBlock
<1> USE PaddingAssumption
<1>1. Init => PaddingInv
  <2> SUFFICES ASSUME Init PROVE PaddingInv OBVIOUS
  <2>1. HeadInOneBlock
    <3>1. 1 % Block = 1 /\ 7 % Block = 7 BY DEF HeaderSize
    <3>2. 1 \div Block = 7 \div Block BY <3>1, SameBlock DEF HeaderSize
    <3> QED BY <3>2 DEF Init, HeadInOneBlock, HeaderSize
  <2> QED BY <2>1 DEF Init, PaddingInv, HeaderSize
<1>2. PaddingInv /\ [Next]_vars => PaddingInv'
  <2> SUFFICES ASSUME PaddingInv, [Next]_vars PROVE PaddingInv' OBVIOUS
  <2> USE DEF PaddingInv
  <2>1. ASSUME NEW level \in 0..MaxLevel, NEW longs \in 0..2, NEW t \in 0..MaxTail,
               WriteRecord(level, longs, t)
        PROVE  PaddingInv'
    <3>1. HeadInOneBlock'
      <4>1. 1 % Block = 1 /\ 7 % Block = 7 BY DEF HeaderSize
      <4>2. 1 \div Block = 7 \div Block BY <4>1, SameBlock DEF HeaderSize
      <4> QED BY <2>1, <4>2 DEF WriteRecord, HeadInOneBlock, HeaderSize
    <3>2. iolen' \in Nat /\ 3 <= iolen' /\ iolen' <= Block - 1 /\ tail' \in Nat
      BY <2>1 DEF WriteRecord, prepare_record
    <3> QED BY <2>1, <3>1, <3>2 DEF WriteRecord, HeaderSize
  <2>2. CASE add_padding BY <2>2 DEF add_padding, pad, HeadInOneBlock
  <2>3. CASE Write
    <3>1. HeadInOneBlock'
      <4> DEFINE a == end + 1
                 b == end - 1 + iolen
      <4>1. a \in Nat /\ b \in Nat /\ a <= b /\ b - a < Block BY <2>3 DEF Write
      <4>2. ~(a % Block > b % Block) BY <2>3 DEF Write, Wraps
      <4>3. Block \in Nat /\ Block > 0 BY DEF HeaderSize
      <4>4. last'.start + 1 = a /\ last'.start + last'.len - 1 = b BY <2>3 DEF Write
      <4> HIDE DEF a, b
      <4>5. a \div Block = b \div Block BY ONLY <4>1, <4>2, <4>3, SameBlock
      <4> QED BY <4>4, <4>5 DEF HeadInOneBlock
    <3> QED BY <2>3, <3>1 DEF Write
  <2>4. CASE NewFile BY <2>4 DEF NewFile, HeadInOneBlock, HeaderSize
  <2>5. CASE UNCHANGED vars BY <2>5 DEF vars, HeadInOneBlock
  <2> QED BY <2>1, <2>2, <2>3, <2>4, <2>5 DEF Next
<1>3. PaddingInv => HeadInOneBlock BY DEF PaddingInv
<1> QED BY <1>1, <1>2, <1>3, PTL DEF Spec
=============================================================================
