----------------------------- MODULE Md5Message -----------------------------
(***************************************************************************)
(* Messages and blocks of src/src/md5.c.  A byte of a block is represented *)
(* by where it comes from: an offset into the message, the byte 0x80 that  *)
(* ends it, a zero, a byte of its length, or Stale: a byte of the block    *)
(* buffer that belongs to no message or to an earlier one.                 *)
(***************************************************************************)
EXTENDS Integers, Sequences

CONSTANTS
  BlockSize,   \* bytes of a block (64)
  LengthSize,  \* bytes of the length at the end of the last block (8)
  LoMod,       \* values of the low word of the byte count (2^29)
  HiMod,       \* values of the high word (2^32)
  Sizes,       \* the sizes an update may have
  MaxTotal     \* bound: bytes of a message

ASSUME BlockAssumption ==
  /\ BlockSize \in Nat \ {0}
  /\ LengthSize \in Nat \ {0}
  /\ LengthSize < BlockSize

ASSUME WordAssumption ==
  /\ LoMod \in Nat \ {0}
  /\ LoMod % BlockSize = 0
  /\ HiMod \in Nat \ {0}

ASSUME BoundAssumption == Sizes \subseteq Nat /\ MaxTotal \in Nat

EndMark == -1
Zero == -2
Stale == -3
LengthByte(k) == -4 - k

BlockIndex == 0 .. BlockSize - 1
Origin == Int
Block == [BlockIndex -> Origin]

\* The block that begins at byte p of the message.
BlockAt(p) == [i \in BlockIndex |-> p + i]

\* The first k blocks of a message.
WholeBlocks(k) == [j \in 1 .. k |-> BlockAt((j - 1) * BlockSize)]

\* How many blocks a message of n bytes takes with its end mark and length.
BlockCount(n) == (n + LengthSize) \div BlockSize + 1

\* A message of n bytes as it is to be hashed: the message, the end mark,
\* zeros up to the last LengthSize bytes of a block, the length.
PaddedByte(n, q) ==
  LET lengthAt == BlockCount(n) * BlockSize - LengthSize IN
  CASE q < n -> q
    [] q = n -> EndMark
    [] n < q /\ q < lengthAt -> Zero
    [] n < q /\ lengthAt <= q -> LengthByte(q - lengthAt)

Padded(n) ==
  [j \in 1 .. BlockCount(n) |->
    [i \in BlockIndex |-> PaddedByte(n, (j - 1) * BlockSize + i)]]

\* The bits of a message of n bytes, as the two words of the length.
BitLength(n) == [lo |-> 8 * (n % LoMod), hi |-> (n \div LoMod) % HiMod]
=============================================================================
