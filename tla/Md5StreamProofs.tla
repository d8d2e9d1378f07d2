-------------------------- MODULE Md5StreamProofs --------------------------
(***************************************************************************)
(* Md5Stream implements Md5Promise: for every size of blocks and words and *)
(* every way to cut a message into updates.                                *)
(*                                                                         *)
(* InStep says all there is to know between two calls: the count and the   *)
(* buffer are those of the message.  Inv adds what holds after the last.   *)
(***************************************************************************)
EXTENDS Md5Stream, Remainders, SequenceTheorems

Inv ==
  /\ TypeOK
  /\ InStep
  /\ pc = "done" => hashed = Padded(total) /\ length = BitLength(total)

Full == total \div BlockSize
Partial == total % BlockSize

-----------------------------------------------------------------------------
(* Blocks. *)

\* Different blocks are at least a block apart.
LEMMA BlocksApart ==
  ASSUME NEW j \in Int, NEW k \in Int, j < k
  PROVE  j * BlockSize + BlockSize <= k * BlockSize
<1>1. BlockSize \in Nat \ {0}
  BY BlockAssumption
<1>2. (k - j - 1) * BlockSize >= 0
  BY <1>1
<1> QED
  BY <1>1, <1>2

LEMMA WholeBlocksType ==
  ASSUME NEW k \in Nat
  PROVE  /\ WholeBlocks(k) \in Seq(Block)
         /\ Len(WholeBlocks(k)) = k
<1>1. \A j \in 1 .. k : BlockAt((j - 1) * BlockSize) \in Block
  BY BlockAssumption DEF BlockAt, Block, BlockIndex, Origin
<1>2. WholeBlocks(k) \in [1 .. k -> Block]
  BY <1>1 DEF WholeBlocks
<1> QED
  BY <1>2, SeqDef

\* k more blocks behind the first p.
LEMMA BlocksJoin ==
  ASSUME NEW p \in Nat, NEW k \in Nat, NEW base \in Nat, base = p * BlockSize
  PROVE  WholeBlocks(p) \o [j \in 1 .. k |-> BlockAt(base + (j - 1) * BlockSize)]
           = WholeBlocks(p + k)
<1> DEFINE more == [j \in 1 .. k |-> BlockAt(base + (j - 1) * BlockSize)]
           both == WholeBlocks(p) \o more
<1>1. more \in Seq(Block) /\ Len(more) = k
  <2>1. \A j \in 1 .. k : BlockAt(base + (j - 1) * BlockSize) \in Block
    BY BlockAssumption DEF BlockAt, Block, BlockIndex, Origin
  <2>2. more \in [1 .. k -> Block]
    BY <2>1
  <2> QED
    BY <2>2, SeqDef
<1>2. WholeBlocks(p) \in Seq(Block) /\ Len(WholeBlocks(p)) = p
  BY WholeBlocksType
<1>3. WholeBlocks(p + k) \in Seq(Block) /\ Len(WholeBlocks(p + k)) = p + k
  BY WholeBlocksType
<1> HIDE DEF more
<1>4. both \in Seq(Block) /\ Len(both) = p + k
  BY <1>1, <1>2
<1>5. ASSUME NEW i \in 1 .. p + k PROVE both[i] = WholeBlocks(p + k)[i]
  <2>1. WholeBlocks(p + k)[i] = BlockAt((i - 1) * BlockSize)
    BY DEF WholeBlocks
  <2>2. CASE i <= p
    <3>1. both[i] = WholeBlocks(p)[i]
      BY <1>1, <1>2, <2>2
    <3>2. WholeBlocks(p)[i] = BlockAt((i - 1) * BlockSize)
      BY <2>2 DEF WholeBlocks
    <3> QED
      BY <2>1, <3>1, <3>2
  <2>3. CASE i > p
    <3>1. i - p \in 1 .. k /\ both[i] = more[i - p]
      BY <1>1, <1>2, <2>3
    <3>2. more[i - p] = BlockAt(base + ((i - p) - 1) * BlockSize)
      BY <3>1 DEF more
    <3>3. base + ((i - p) - 1) * BlockSize = (i - 1) * BlockSize
      BY BlockAssumption
    <3> QED
      BY <2>1, <3>1, <3>2, <3>3
  <2>4. i <= p \/ i > p
    OBVIOUS
  <2> QED
    BY <2>2, <2>3, <2>4
<1>6. both = WholeBlocks(p + k)
  BY <1>3, <1>4, <1>5, SeqEqual
<1> QED
  BY <1>6 DEF more

-----------------------------------------------------------------------------
(* The count. *)

\* Between two calls the place in the block buffer is that of the message.
LEMMA UsedIsPartial ==
  ASSUME TypeOK, InStep, pc = "open"
  PROVE  /\ total \in Nat
         /\ Used = Partial
         /\ Partial \in BlockIndex
         /\ Full \in Nat
         /\ total = Full * BlockSize + Partial
<1>1. total \in Nat /\ lo = total % LoMod
  BY BoundAssumption DEF TypeOK, InStep
<1>2. lo % BlockSize = total % BlockSize
  BY <1>1, BlockAssumption, WordAssumption, RemainderOfRemainder
<1>3. /\ Full \in Int
      /\ Partial \in 0 .. BlockSize - 1
      /\ total = BlockSize * Full + Partial
  BY <1>1, BlockAssumption, Division DEF Full, Partial
<1>4. Full \in Nat
  BY <1>1, BlockAssumption, QuotientIsNat DEF Full
<1> QED
  BY <1>1, <1>2, <1>3, <1>4, BlockAssumption DEF Used, Partial, BlockIndex

\* The low word comes out below what it was exactly when it has wrapped.
LEMMA CountKeeps ==
  ASSUME TypeOK, InStep, pc = "open", NEW n \in Nat, Count(n)
  PROVE  /\ lo' = total' % LoMod
         /\ hi' = (total' \div LoMod) % HiMod
<1> DEFINE a == total \div LoMod
           b == n \div LoMod
           carry == Carry(lo, n)
<1>1. total \in Nat /\ total' = total + n /\ LoMod \in Nat \ {0} /\ HiMod \in Nat \ {0}
  BY BoundAssumption, WordAssumption DEF TypeOK, Count
<1>2. lo = total % LoMod /\ hi = a % HiMod
  BY DEF InStep
<1>3. lo' = total' % LoMod
  <2>1. ((total % LoMod) + n) % LoMod = (total + n) % LoMod
    BY <1>1, SumRemainder
  <2>2. lo' = (lo + n) % LoMod
    BY DEF Count
  <2> QED
    BY <1>1, <1>2, <2>1, <2>2
<1>4. /\ n % LoMod \in 0 .. LoMod - 1 /\ b \in Int
      /\ lo \in 0 .. LoMod - 1 /\ a \in Int
  BY <1>1, <1>2, Division
<1>5. total' \div LoMod = a + b + carry /\ carry \in {0, 1}
  <2>1. (lo + n) % LoMod = total' % LoMod
    BY <1>3 DEF Count
  <2>2. CASE lo + (n % LoMod) < LoMod
    <3>1. total' \div LoMod = a + b /\ total' % LoMod = lo + (n % LoMod)
      BY <1>1, <1>2, <2>2, SumQuotient
    <3>2. carry = 0
      BY <1>4, <2>1, <3>1 DEF Carry
    <3> QED
      BY <1>4, <3>1, <3>2
  <2>3. CASE lo + (n % LoMod) >= LoMod
    <3>1. total' \div LoMod = a + b + 1 /\ total' % LoMod = lo + (n % LoMod) - LoMod
      BY <1>1, <1>2, <2>3, SumQuotientCarry
    <3>2. carry = 1
      BY <1>1, <1>4, <2>1, <3>1 DEF Carry
    <3> QED
      BY <1>4, <3>1, <3>2
  <2> QED
    BY <1>1, <1>4, <2>2, <2>3
<1>6. a \in Nat /\ b \in Nat
  BY <1>1, QuotientIsNat
<1>7. hi' = (hi + (carry + b)) % HiMod
  BY <1>4, <1>5, <1>1, <1>2 DEF Count
<1> HIDE DEF a, b, carry
<1>8. hi' = (a + (carry + b)) % HiMod
  <2> DEFINE more == carry + b
  <2>1. more \in Nat
    BY <1>5, <1>6
  <2> HIDE DEF more
  <2>2. ((a % HiMod) + more) % HiMod = (a + more) % HiMod
    BY <1>1, <1>6, <2>1, SumRemainder
  <2>3. hi' = (hi + more) % HiMod
    BY <1>7 DEF more
  <2>4. hi' = (a + more) % HiMod
    BY <1>2, <2>2, <2>3
  <2> QED
    BY <2>4 DEF more
<1>9. a + (carry + b) = total' \div LoMod
  BY <1>5, <1>6
<1> QED
  BY <1>3, <1>8, <1>9

-----------------------------------------------------------------------------
(* The blocks. *)

\* What the buffer holds of the message, and n bytes of the update behind it.
LEMMA CopiedBytes ==
  ASSUME TypeOK, InStep, pc = "open", NEW n \in Nat
  PROVE  \A i \in BlockIndex :
           i < Partial + n => Copied(buffer, Partial, 0, n)[i] = Full * BlockSize + i
<1>1. /\ total = Full * BlockSize + Partial /\ total \in Nat
      /\ Partial \in BlockIndex /\ Full \in Nat
  BY UsedIsPartial
<1>2. \A i \in BlockIndex : i < Partial => buffer[i] = Full * BlockSize + i
  BY DEF InStep, Full, Partial
<1> DEFINE start == Full * BlockSize
<1>3. start \in Int
  BY <1>1, BlockAssumption
<1> HIDE DEF start
<1>4. total = start + Partial
  BY <1>1 DEF start
<1>5. \A i \in BlockIndex : i < Partial => buffer[i] = start + i
  BY <1>2 DEF start
<1>6. \A i \in BlockIndex :
        i < Partial + n => Copied(buffer, Partial, 0, n)[i] = start + i
  BY <1>1, <1>3, <1>4, <1>5, BlockAssumption DEF Copied, BlockIndex
<1> QED
  BY <1>6 DEF start

\* An update that does not fill the block.
LEMMA ShortKeeps ==
  ASSUME TypeOK, InStep, pc = "open", NEW n \in Nat, Count(n), ShortUpdate(n)
  PROVE  /\ hashed' = WholeBlocks(total' \div BlockSize)
         /\ \A i \in BlockIndex :
              i < total' % BlockSize => buffer'[i] = (total' \div BlockSize) * BlockSize + i
<1>1. /\ Used = Partial /\ Partial \in BlockIndex /\ Full \in Nat
      /\ total = Full * BlockSize + Partial /\ total \in Nat
  BY UsedIsPartial
<1>2. n < BlockSize - Partial /\ buffer' = Copied(buffer, Partial, 0, n) /\ hashed' = hashed
  BY <1>1 DEF ShortUpdate, Short, Free
<1>3. total' = total + n
  BY DEF Count
<1> DEFINE d == Partial + n
<1>4. d \in 0 .. BlockSize - 1 /\ total' \in Nat /\ total' = BlockSize * Full + d
  BY <1>1, <1>2, <1>3, BlockAssumption DEF BlockIndex
<1> HIDE DEF d
<1>5. total' \div BlockSize = Full /\ total' % BlockSize = d
  BY <1>1, <1>4, BlockAssumption, QuotientOf, RemainderOf
<1>6. hashed' = WholeBlocks(Full)
  BY <1>2 DEF InStep, Full
<1>7. \A i \in BlockIndex : i < d => buffer'[i] = Full * BlockSize + i
  BY <1>2, CopiedBytes DEF d
<1> QED
  BY <1>5, <1>6, <1>7

\* Where an update that fills the block begins with blocks of its own, and the
\* blocks before it.
LEMMA FilledBlocks ==
  ASSUME TypeOK, InStep, pc = "open", NEW n \in Nat, ~Short(n)
  PROVE  /\ Filling \in 0 .. n
         /\ \E p \in Nat : /\ total + Filling = p * BlockSize
                           /\ Transform(hashed, Filled) = WholeBlocks(p)
<1>1. /\ Used = Partial /\ Partial \in BlockIndex /\ Full \in Nat
      /\ total = Full * BlockSize + Partial /\ total \in Nat
  BY UsedIsPartial
<1>2. hashed = WholeBlocks(Full)
  BY DEF InStep, Full
<1>3. WholeBlocks(Full) \in Seq(Block)
  BY <1>1, WholeBlocksType
<1>4. CASE Partial = 0
  <2>1. Filling = 0 /\ Filled = <<>>
    BY <1>1, <1>4 DEF Filling, Filled
  <2>2. Transform(hashed, Filled) = WholeBlocks(Full)
    BY <1>2, <1>3, <2>1 DEF Transform
  <2>3. total + Filling = Full * BlockSize
    <3> DEFINE start == Full * BlockSize
    <3>1. start \in Int
      BY <1>1, BlockAssumption
    <3> HIDE DEF start
    <3>2. total = start + Partial
      BY <1>1 DEF start
    <3>3. total + Filling = start
      BY <1>1, <1>4, <2>1, <3>1, <3>2
    <3> QED
      BY <3>3 DEF start
  <2>4. Filling \in 0 .. n
    BY <2>1
  <2> QED
    BY <1>1, <2>2, <2>3, <2>4
<1>5. CASE Partial # 0
  <2>1. Filling = BlockSize - Partial /\ Filling \in 0 .. n
    BY <1>1, <1>5, BlockAssumption DEF Filling, Free, Short, BlockIndex
  <2> DEFINE block == Copied(buffer, Partial, 0, BlockSize - Partial)
             start == Full * BlockSize
  <2>2. Filled = <<block>>
    BY <1>1, <1>5 DEF Filled, Free
  <2>3. BlockSize - Partial \in Nat
    BY <1>1, BlockAssumption DEF BlockIndex
  <2>4. \A i \in BlockIndex : block[i] = start + i
    BY <1>1, <2>3, CopiedBytes, BlockAssumption DEF BlockIndex
  <2>5. block = BlockAt(start)
    BY <2>4 DEF Copied, BlockAt
  <2>6. start \in Nat /\ start = Full * BlockSize
    BY <1>1, BlockAssumption
  <2> HIDE DEF start
  <2>7. WholeBlocks(Full) \o [j \in 1 .. 1 |-> BlockAt(start + (j - 1) * BlockSize)]
          = WholeBlocks(Full + 1)
    BY <1>1, <2>6, BlocksJoin
  <2>8. [j \in 1 .. 1 |-> BlockAt(start + (j - 1) * BlockSize)] = <<BlockAt(start)>>
    <3>1. \A j \in 1 .. 1 : start + (j - 1) * BlockSize = start
      BY <2>6, BlockAssumption
    <3> QED
      BY <3>1
  <2>9. Transform(hashed, Filled) = WholeBlocks(Full + 1)
    BY <1>2, <2>2, <2>5, <2>7, <2>8 DEF Transform
  <2>10. total + Filling = (Full + 1) * BlockSize
    <3>1. (Full + 1) * BlockSize = start + BlockSize
      BY <1>1, BlockAssumption DEF start
    <3>2. total = start + Partial
      BY <1>1 DEF start
    <3>3. Partial \in Int /\ BlockSize \in Int /\ start \in Int
      BY <1>1, <2>6, BlockAssumption DEF BlockIndex
    <3>4. total + Filling = start + BlockSize
      BY <2>1, <3>2, <3>3
    <3> QED
      BY <3>1, <3>4
  <2>11. Full + 1 \in Nat
    BY <1>1
  <2> QED
    BY <2>1, <2>9, <2>10, <2>11
<1> QED
  BY <1>4, <1>5

\* An update that fills the block, or finds no block begun.
LEMMA LongKeeps ==
  ASSUME TypeOK, InStep, pc = "open", NEW n \in Nat, Count(n), LongUpdate(n)
  PROVE  /\ hashed' = WholeBlocks(total' \div BlockSize)
         /\ \A i \in BlockIndex :
              i < total' % BlockSize => buffer'[i] = (total' \div BlockSize) * BlockSize + i
<1> DEFINE rest == n - Filling
           full == rest \div BlockSize
           left == rest % BlockSize
           partly == IF Used = 0 THEN buffer ELSE Copied(buffer, Used, 0, Free)
<1>1. /\ ~Short(n)
      /\ hashed' = Transform(Transform(hashed, Filled),
           [j \in 1 .. full |-> BlockAt(total + Filling + (j - 1) * BlockSize)])
      /\ buffer' = Copied(partly, 0, Filling + full * BlockSize, left)
  BY DEF LongUpdate
<1>2. Filling \in 0 .. n
  BY <1>1, FilledBlocks
<1>3. PICK p \in Nat : /\ total + Filling = p * BlockSize
                       /\ Transform(hashed, Filled) = WholeBlocks(p)
  BY <1>1, FilledBlocks
<1>4. total \in Nat /\ total' = total + n /\ BlockSize \in Nat \ {0}
  BY UsedIsPartial, BlockAssumption DEF Count
<1>5. rest \in Nat /\ full \in Nat /\ left \in 0 .. BlockSize - 1
      /\ rest = BlockSize * full + left
  <2>1. rest \in Nat
    BY <1>2
  <2> HIDE DEF rest
  <2> QED
    BY <1>4, <2>1, Division, QuotientIsNat
<1>6. rest = n - Filling
  OBVIOUS
<1> DEFINE base == total + Filling
<1>7. base \in Nat /\ base = p * BlockSize
  BY <1>2, <1>3, <1>4
<1> HIDE DEF rest, full, left, partly
<1>8. total' \in Nat /\ p + full \in Nat /\ total' = BlockSize * (p + full) + left
  BY <1>2, <1>3, <1>4, <1>5, <1>6
<1>9. total' \div BlockSize = p + full /\ total' % BlockSize = left
  <2> DEFINE q == p + full
             t == total'
  <2>1. t \in Nat /\ q \in Int /\ t = BlockSize * q + left
    BY <1>8
  <2> HIDE DEF q, t
  <2>2. t \div BlockSize = q /\ t % BlockSize = left
    BY <1>4, <1>5, <2>1, QuotientOf, RemainderOf
  <2> QED
    BY <2>2 DEF q, t
<1>10. hashed' = WholeBlocks(p + full)
  <2>1. hashed' = WholeBlocks(p) \o [j \in 1 .. full |-> BlockAt(base + (j - 1) * BlockSize)]
    BY <1>1, <1>3 DEF Transform
  <2> HIDE DEF base
  <2> QED
    BY <1>5, <1>7, <2>1, BlocksJoin
<1>11. \A i \in BlockIndex : i < left => buffer'[i] = (p + full) * BlockSize + i
  <2>1. ASSUME NEW i \in BlockIndex, i < left
        PROVE  buffer'[i] = total + (Filling + full * BlockSize) + (i - 0)
    BY <1>1, <2>1, <1>5, BlockAssumption DEF Copied, BlockIndex
  <2>2. ASSUME NEW i \in BlockIndex
        PROVE  total + (Filling + full * BlockSize) + (i - 0) = (p + full) * BlockSize + i
    BY <1>2, <1>3, <1>4, <1>5 DEF BlockIndex
  <2> QED
    BY <2>1, <2>2
<1> QED
  BY <1>9, <1>10, <1>11

LEMMA CopiedType ==
  ASSUME NEW b \in Block, NEW at \in Int, NEW k \in Int, NEW n \in Int, total \in Int
  PROVE  Copied(b, at, k, n) \in Block
BY BlockAssumption DEF Copied, Block, BlockIndex, Origin

\* An update keeps the type and the step.
LEMMA UpdateKeeps ==
  ASSUME Inv, NEW n \in Sizes, Md5Update(n)
  PROVE  Inv'
<1>1. /\ pc = "open" /\ pc' = "open" /\ n \in Nat /\ Count(n) /\ length' = length
      /\ total + n <= MaxTotal
      /\ TypeOK /\ InStep
  BY BoundAssumption DEF Md5Update, Inv
<1>2. lo' = total' % LoMod /\ hi' = (total' \div LoMod) % HiMod
  BY <1>1, CountKeeps
<1>3. /\ hashed' = WholeBlocks(total' \div BlockSize)
      /\ \A i \in BlockIndex :
           i < total' % BlockSize => buffer'[i] = (total' \div BlockSize) * BlockSize + i
  BY <1>1, ShortKeeps, LongKeeps DEF Md5Update
<1>4. InStep'
  BY <1>2, <1>3 DEF InStep
<1>5. TypeOK'
  <2>1. total' \in 0 .. MaxTotal /\ total' \in Nat
    BY <1>1, BoundAssumption DEF TypeOK, Count
  <2>2. lo' \in 0 .. LoMod - 1
    BY <1>2, <2>1, WordAssumption, Division
  <2>3. hi' \in 0 .. HiMod - 1
    <3>1. total' \div LoMod \in Nat
      BY <2>1, WordAssumption, QuotientIsNat
    <3> DEFINE q == total' \div LoMod
    <3>2. q \in Nat /\ hi' = q % HiMod
      BY <1>2, <3>1
    <3> HIDE DEF q
    <3> QED
      BY <3>2, WordAssumption, Division
  <2>4. hashed' \in Seq(Block)
    BY <1>3, <2>1, BlockAssumption, QuotientIsNat, WholeBlocksType
  <2>5. buffer' \in Block
    <3>1. /\ buffer \in Block /\ total \in Int /\ BlockSize \in Nat \ {0}
          /\ Used \in Int /\ Free \in Int
      BY <1>1, UsedIsPartial, BlockAssumption DEF TypeOK, Free, BlockIndex
    <3>2. CASE ShortUpdate(n)
      BY <1>1, <3>1, <3>2, CopiedType DEF ShortUpdate
    <3>3. CASE LongUpdate(n)
      <4> DEFINE rest == n - Filling
                 full == rest \div BlockSize
                 partly == IF Used = 0 THEN buffer ELSE Copied(buffer, Used, 0, Free)
      <4>1. rest \in Nat
        BY <1>1, <3>3, FilledBlocks DEF LongUpdate
      <4>2. full \in Nat /\ rest % BlockSize \in Int
        <5> HIDE DEF rest
        <5> QED
          BY <3>1, <4>1, Division, QuotientIsNat
      <4>3. partly \in Block
        BY <3>1, CopiedType
      <4>4. buffer' = Copied(partly, 0, Filling + full * BlockSize, rest % BlockSize)
        BY <3>3 DEF LongUpdate
      <4>5. Filling \in Int
        BY <3>1 DEF Filling
      <4> HIDE DEF rest, full, partly
      <4>6. Filling + full * BlockSize \in Int
        BY <3>1, <4>2, <4>5
      <4> QED
        BY <3>1, <4>2, <4>3, <4>4, <4>6, CopiedType
    <3> QED
      BY <3>2, <3>3 DEF Md5Update
  <2> QED
    BY <1>1, <2>1, <2>2, <2>3, <2>4, <2>5 DEF TypeOK
<1> QED
  BY <1>1, <1>4, <1>5 DEF Inv

-----------------------------------------------------------------------------
(* The padding. *)

\* The last blocks are those of the padded message.
LEMMA LastBlocksPad ==
  ASSUME TypeOK, InStep, pc = "open"
  PROVE  /\ LastBlocks \in Seq(Block)
         /\ Len(LastBlocks) \in {1, 2}
         /\ hashed \o LastBlocks = Padded(total)
<1>1. /\ Used = Partial /\ Partial \in BlockIndex /\ Full \in Nat
      /\ total = Full * BlockSize + Partial /\ total \in Nat
  BY UsedIsPartial
<1>2. hashed = WholeBlocks(Full) /\ hashed \in Seq(Block) /\ Len(hashed) = Full
  BY <1>1, WholeBlocksType DEF InStep, Full
<1>3. BlockSize \in Nat \ {0} /\ LengthSize \in Nat \ {0} /\ LengthSize < BlockSize
  BY BlockAssumption
<1> DEFINE start == Full * BlockSize
           last == Len(LastBlocks)
<1>4. start \in Nat /\ Partial \in 0 .. BlockSize - 1
  BY <1>1, <1>3 DEF BlockIndex
<1>5. total = start + Partial
  BY <1>1
<1>6. \A i \in BlockIndex : i < Partial => buffer[i] = start + i
  BY DEF InStep, Full, Partial
<1>7. RoomForLength <=> Partial + LengthSize < BlockSize
  BY <1>1, <1>3, <1>4 DEF RoomForLength
<1>8. /\ Marked \in Block
      /\ WithLength(Marked) \in Block
      /\ WithLength([i \in BlockIndex |-> Zero]) \in Block
  <2>1. Marked \in Block
    BY <1>1, <1>4 DEF TypeOK, Marked, Block, Origin, EndMark, Zero
  <2>2. \A b \in Block : WithLength(b) \in Block
    BY <1>3 DEF WithLength, Block, BlockIndex, Origin, LengthAt, LengthByte
  <2>3. [i \in BlockIndex |-> Zero] \in Block
    BY DEF Block, Origin, Zero
  <2> QED
    BY <2>1, <2>2, <2>3
<1>9. LastBlocks \in Seq(Block) /\ last = IF RoomForLength THEN 1 ELSE 2
  BY <1>8 DEF LastBlocks
<1>10. BlockCount(total) = Full + last
  <2> DEFINE d == Partial + LengthSize
             t == total + LengthSize
  <2>1. t \in Nat /\ t = start + d /\ d \in Nat /\ d < 2 * BlockSize
    BY <1>3, <1>4, <1>5
  <2>2. CASE RoomForLength
    <3>1. t = BlockSize * Full + d /\ d \in 0 .. BlockSize - 1
      <4>1. start = BlockSize * Full
        BY <1>1, <1>3
      <4>2. d < BlockSize
        BY <1>7, <2>2
      <4> QED
        BY <1>3, <2>1, <4>1, <4>2
    <3> HIDE DEF t, d
    <3>2. t \div BlockSize = Full
      BY <1>1, <1>3, <2>1, <3>1, QuotientOf
    <3> QED
      BY <1>1, <1>9, <2>2, <3>2 DEF BlockCount, t
  <2>3. CASE ~RoomForLength
    <3>1. d - BlockSize \in 0 .. BlockSize - 1
      BY <1>3, <1>4, <1>7, <2>1, <2>3
    <3>2. BlockSize * (Full + 1) = start + BlockSize
      BY <1>1, <1>3
    <3>3. t = BlockSize * (Full + 1) + (d - BlockSize)
      BY <1>3, <1>4, <2>1, <3>2
    <3>4. Full + 1 \in Int
      BY <1>1
    <3> DEFINE e == d - BlockSize
               k == Full + 1
    <3>5. e \in 0 .. BlockSize - 1 /\ k \in Int /\ t = BlockSize * k + e
      BY <3>1, <3>3, <3>4
    <3> HIDE DEF t, e, k
    <3>6. t \div BlockSize = k
      BY <1>3, <2>1, <3>5, QuotientOf
    <3> QED
      BY <1>1, <1>9, <2>3, <3>6 DEF BlockCount, t, k
  <2> QED
    BY <2>2, <2>3
<1> DEFINE lengthAt == BlockCount(total) * BlockSize - LengthSize
           all == hashed \o LastBlocks
<1>11. lengthAt = IF RoomForLength THEN start + BlockSize - LengthSize
                                  ELSE start + 2 * BlockSize - LengthSize
  <2>1. (Full + 1) * BlockSize = start + BlockSize
    BY <1>1, <1>3
  <2>2. (Full + 2) * BlockSize = start + 2 * BlockSize
    BY <1>1, <1>3
  <2>3. CASE RoomForLength
    <3>1. BlockCount(total) = Full + 1
      BY <1>9, <1>10, <2>3
    <3>2. BlockCount(total) * BlockSize = start + BlockSize
      BY <2>1, <3>1
    <3>3. lengthAt = (start + BlockSize) - LengthSize
      BY <3>2
    <3> HIDE DEF lengthAt, start
    <3> QED
      BY <1>3, <1>4, <2>3, <3>3
  <2>4. CASE ~RoomForLength
    <3>1. BlockCount(total) = Full + 2
      BY <1>9, <1>10, <2>4
    <3>2. BlockCount(total) * BlockSize = start + 2 * BlockSize
      BY <2>2, <3>1
    <3>3. lengthAt = (start + 2 * BlockSize) - LengthSize
      BY <3>2
    <3> HIDE DEF lengthAt, start
    <3> QED
      BY <1>3, <1>4, <2>4, <3>3
  <2> QED
    BY <2>3, <2>4
<1>12. Padded(total) = [j \in 1 .. Full + last |->
         [i \in BlockIndex |-> PaddedByte(total, (j - 1) * BlockSize + i)]]
  BY <1>10 DEF Padded
<1>13. \A q \in Int :
         /\ q < total => PaddedByte(total, q) = q
         /\ q = total => PaddedByte(total, q) = EndMark
         /\ total < q /\ q < lengthAt => PaddedByte(total, q) = Zero
         /\ total < q /\ lengthAt <= q => PaddedByte(total, q) = LengthByte(q - lengthAt)
  <2>1. lengthAt \in Int
    BY <1>3, <1>4, <1>11
  <2> HIDE DEF lengthAt
  <2>2. lengthAt = BlockCount(total) * BlockSize - LengthSize
    BY DEF lengthAt
  <2> QED
    BY <1>1, <2>1, <2>2 DEF PaddedByte
<1> HIDE DEF lengthAt
<1>14. ASSUME NEW j \in 1 .. Full
       PROVE  all[j] = [i \in BlockIndex |-> PaddedByte(total, (j - 1) * BlockSize + i)]
  <2>1. all[j] = BlockAt((j - 1) * BlockSize)
    BY <1>1, <1>2, <1>9 DEF WholeBlocks
  <2>2. (j - 1) * BlockSize + BlockSize <= start /\ (j - 1) * BlockSize \in Int
    BY <1>1, <1>3, BlocksApart
  <2> DEFINE p == (j - 1) * BlockSize
  <2> HIDE DEF p, start
  <2>3. \A i \in BlockIndex : p + i \in Int /\ p + i < total
    BY <1>3, <1>4, <1>5, <2>2 DEF BlockIndex, p
  <2>4. \A i \in BlockIndex : PaddedByte(total, p + i) = p + i
    BY <1>13, <2>3
  <2> QED
    BY <2>1, <2>4 DEF BlockAt, p
<1>15. all \in Seq(Block) /\ Len(all) = Full + last /\ last \in Nat
  <2>1. last \in Nat /\ LastBlocks \in Seq(Block)
    BY <1>9
  <2>2. all \in Seq(Block) /\ Len(all) = Len(hashed) + Len(LastBlocks)
    <3> HIDE DEF last
    <3> QED
      BY <1>2, <2>1, ConcatProperties
  <2> QED
    BY <1>2, <2>1, <2>2
<1> HIDE DEF start
<1>16. (Full + 1) * BlockSize = start + BlockSize
  BY <1>1, <1>3 DEF start
<1>17. Full \in Nat
  BY <1>1
<1>18. CASE RoomForLength
  <2>1. all[Full + 1] = WithLength(Marked)
    BY <1>1, <1>2, <1>8, <1>18 DEF LastBlocks
  <2>2. \A i \in BlockIndex : WithLength(Marked)[i] = PaddedByte(total, start + i)
    <3> SUFFICES ASSUME NEW i \in BlockIndex
                 PROVE  WithLength(Marked)[i] = PaddedByte(total, start + i)
      OBVIOUS
    <3>1. start + i \in Int /\ lengthAt = start + BlockSize - LengthSize
      BY <1>4, <1>11, <1>18 DEF BlockIndex
    <3>2. CASE i < LengthAt
      <4>1. WithLength(Marked)[i] = IF i < Partial THEN buffer[i]
                                    ELSE IF i = Partial THEN EndMark ELSE Zero
        BY <1>1, <3>2 DEF WithLength, Marked
      <4>2. start + i < lengthAt
        BY <1>3, <1>4, <3>1, <3>2 DEF LengthAt, BlockIndex
      <4>3. i \in Int
        BY DEF BlockIndex
      <4>4. CASE i < Partial
        BY <1>4, <1>5, <1>6, <1>13, <3>1, <4>1, <4>3, <4>4
      <4>5. CASE i = Partial
        BY <1>4, <1>5, <1>13, <3>1, <4>1, <4>3, <4>5
      <4>6. CASE Partial < i
        BY <1>4, <1>5, <1>13, <3>1, <4>1, <4>2, <4>3, <4>6
      <4> QED
        BY <1>4, <4>3, <4>4, <4>5, <4>6
    <3>3. CASE ~(i < LengthAt)
      <4>1. WithLength(Marked)[i] = LengthByte(i - LengthAt)
        BY <3>3 DEF WithLength
      <4>2. total < start + i /\ lengthAt <= start + i /\ start + i - lengthAt = i - LengthAt
        BY <1>3, <1>4, <1>5, <1>7, <1>18, <3>1, <3>3 DEF LengthAt, BlockIndex
      <4> DEFINE q == start + i
      <4>3. q \in Int /\ total < q /\ lengthAt <= q /\ q - lengthAt = i - LengthAt
        BY <1>3, <1>4, <3>1, <4>2 DEF LengthAt, BlockIndex
      <4> HIDE DEF q
      <4>4. PaddedByte(total, q) = LengthByte(q - lengthAt)
        BY <1>13, <4>3
      <4>5. WithLength(Marked)[i] = PaddedByte(total, q)
        BY <4>1, <4>3, <4>4
      <4> QED
        BY <4>5 DEF q
    <3> QED
      BY <3>2, <3>3
  <2>3. WithLength(Marked) = [i \in BlockIndex |-> PaddedByte(total, start + i)]
    BY <2>2 DEF WithLength
  <2>4. last = 1
    BY <1>9, <1>18
  <2> HIDE DEF all, last
  <2>5. ASSUME NEW j \in 1 .. Full + 1 PROVE all[j] = Padded(total)[j]
    <3>1. Padded(total)[j] = [i \in BlockIndex |-> PaddedByte(total, (j - 1) * BlockSize + i)]
      BY <1>12, <2>4
    <3>2. CASE j \in 1 .. Full
      BY <1>14, <3>1, <3>2
    <3>3. CASE j = Full + 1
      <4>1. j - 1 = Full
        BY <1>17, <3>3
      <4>2. (j - 1) * BlockSize = start
        BY <4>1 DEF start
      <4> QED
        BY <2>1, <2>3, <3>1, <3>3, <4>2
    <3> QED
      BY <1>1, <3>2, <3>3
  <2>6. all = Padded(total)
    <3>1. Full + last \in Nat /\ \A j \in 1 .. Full + last : all[j] \in Block
      BY <1>1, <1>15
    <3>2. Padded(total) \in [1 .. Full + last -> Block]
      BY <1>12, <3>1, <2>4, <2>5
    <3>3. Padded(total) \in Seq(Block) /\ Len(Padded(total)) = Full + last
      BY <3>1, <3>2, SeqDef
    <3> QED
      BY <1>15, <3>3, <2>4, <2>5, SeqEqual
  <2> QED
    BY <1>9, <2>4, <2>6 DEF all, last
<1>19. CASE ~RoomForLength
  <2> DEFINE lone == WithLength([i \in BlockIndex |-> Zero])
  <2>1. all[Full + 1] = Marked /\ all[Full + 2] = lone
    BY <1>1, <1>2, <1>8, <1>19 DEF LastBlocks
  <2>2. lengthAt = start + 2 * BlockSize - LengthSize
    BY <1>11, <1>19
  <2>3. \A i \in BlockIndex : Marked[i] = PaddedByte(total, start + i)
    <3> SUFFICES ASSUME NEW i \in BlockIndex
                 PROVE  Marked[i] = PaddedByte(total, start + i)
      OBVIOUS
    <3>1. start + i \in Int /\ start + i < lengthAt /\ i \in Int
      BY <1>3, <1>4, <2>2 DEF BlockIndex
    <3>2. Marked[i] = IF i < Partial THEN buffer[i]
                      ELSE IF i = Partial THEN EndMark ELSE Zero
      BY <1>1 DEF Marked
    <3>3. CASE i < Partial
      BY <1>4, <1>5, <1>6, <1>13, <3>1, <3>2, <3>3
    <3>4. CASE i = Partial
      BY <1>4, <1>5, <1>13, <3>1, <3>2, <3>4
    <3>5. CASE Partial < i
      BY <1>4, <1>5, <1>13, <3>1, <3>2, <3>5
    <3> QED
      BY <1>4, <3>1, <3>3, <3>4, <3>5
  <2>4. \A i \in BlockIndex : lone[i] = PaddedByte(total, start + BlockSize + i)
    <3> SUFFICES ASSUME NEW i \in BlockIndex
                 PROVE  lone[i] = PaddedByte(total, start + BlockSize + i)
      OBVIOUS
    <3> DEFINE q == start + BlockSize + i
    <3>1. q \in Int /\ total < q /\ i \in Int
      BY <1>3, <1>4, <1>5 DEF BlockIndex
    <3>2. CASE i < LengthAt
      <4>1. q < lengthAt
        BY <1>3, <1>4, <2>2, <3>1, <3>2 DEF LengthAt
      <4> QED
        BY <1>13, <3>1, <3>2, <4>1 DEF WithLength
    <3>3. CASE ~(i < LengthAt)
      <4>1. lengthAt <= q /\ q - lengthAt = i - LengthAt
        BY <1>3, <1>4, <2>2, <3>1, <3>3 DEF LengthAt
      <4>2. lone[i] = LengthByte(i - LengthAt)
        BY <3>3 DEF WithLength
      <4>3. PaddedByte(total, q) = LengthByte(q - lengthAt)
        BY <1>13, <3>1, <4>1
      <4> QED
        BY <4>1, <4>2, <4>3
    <3> QED
      BY <3>2, <3>3
  <2>5. /\ Marked = [i \in BlockIndex |-> PaddedByte(total, start + i)]
        /\ lone = [i \in BlockIndex |-> PaddedByte(total, start + BlockSize + i)]
    BY <2>3, <2>4 DEF Marked, WithLength
  <2>6. last = 2
    BY <1>9, <1>19
  <2> HIDE DEF lone, all, last
  <2>7. ASSUME NEW j \in 1 .. Full + 2 PROVE all[j] = Padded(total)[j]
    <3>1. Padded(total)[j] = [i \in BlockIndex |-> PaddedByte(total, (j - 1) * BlockSize + i)]
      BY <1>12, <2>6
    <3>2. CASE j \in 1 .. Full
      BY <1>14, <3>1, <3>2
    <3>3. CASE j = Full + 1
      <4>1. j - 1 = Full
        BY <1>17, <3>3
      <4>2. (j - 1) * BlockSize = start
        BY <4>1 DEF start
      <4> QED
        BY <2>1, <2>5, <3>1, <3>3, <4>2
    <3>4. CASE j = Full + 2
      <4>1. j - 1 = Full + 1
        BY <1>17, <3>4
      <4>2. (j - 1) * BlockSize = start + BlockSize
        BY <1>16, <4>1
      <4> QED
        BY <2>1, <2>5, <3>1, <3>4, <4>2
    <3> QED
      BY <1>1, <3>2, <3>3, <3>4
  <2>8. all = Padded(total)
    <3>1. Full + last \in Nat /\ \A j \in 1 .. Full + last : all[j] \in Block
      BY <1>1, <1>15
    <3>2. Padded(total) \in [1 .. Full + last -> Block]
      BY <1>12, <3>1, <2>6, <2>7
    <3>3. Padded(total) \in Seq(Block) /\ Len(Padded(total)) = Full + last
      BY <3>1, <3>2, SeqDef
    <3> QED
      BY <1>15, <3>3, <2>6, <2>7, SeqEqual
  <2> QED
    BY <1>9, <2>6, <2>8 DEF all, last
<1> QED
  BY <1>18, <1>19

-----------------------------------------------------------------------------
(* The theorems. *)

LEMMA InitInv == Init => Inv
<1> SUFFICES ASSUME Init PROVE Inv
  OBVIOUS
<1>1. BlockSize \in Nat \ {0} /\ LoMod \in Nat \ {0} /\ HiMod \in Nat \ {0} /\ MaxTotal \in Nat
  BY BlockAssumption, WordAssumption, BoundAssumption
<1>2. TypeOK
  BY <1>1 DEF Init, TypeOK, Untouched, NoLength, Block, Origin, Stale
<1>3. \A c \in Nat \ {0} : 0 \div c = 0 /\ 0 % c = 0
  BY QuotientOf, RemainderOf
<1>4. WholeBlocks(0) = <<>>
  BY DEF WholeBlocks
<1>5. InStep
  BY <1>1, <1>3, <1>4 DEF Init, InStep, BlockIndex
<1> QED
  BY <1>2, <1>5 DEF Inv, Init

LEMMA InitialiseKeeps ==
  ASSUME Md5Initialise PROVE Inv'
<1>1. BlockSize \in Nat \ {0} /\ LoMod \in Nat \ {0} /\ HiMod \in Nat \ {0} /\ MaxTotal \in Nat
  BY BlockAssumption, WordAssumption, BoundAssumption
<1>2. TypeOK'
  BY <1>1 DEF Md5Initialise, TypeOK, Untouched, NoLength, Block, Origin, Stale
<1>3. \A c \in Nat \ {0} : 0 \div c = 0 /\ 0 % c = 0
  BY QuotientOf, RemainderOf
<1>4. WholeBlocks(0) = <<>>
  BY DEF WholeBlocks
<1>5. InStep'
  BY <1>1, <1>3, <1>4 DEF Md5Initialise, InStep, BlockIndex
<1> QED
  BY <1>2, <1>5 DEF Inv, Md5Initialise

LEMMA FinaliseKeeps ==
  ASSUME Inv, Md5Finalise PROVE Inv'
<1>1. /\ pc = "open" /\ pc' = "done" /\ TypeOK /\ InStep /\ total' = total /\ hi' = hi
      /\ hashed' = hashed \o LastBlocks /\ buffer' = LastBlocks[Len(LastBlocks)]
      /\ lo' = 8 * lo /\ length' = [lo |-> 8 * lo, hi |-> hi]
  BY DEF Md5Finalise, Inv, Transform
<1>2. /\ LastBlocks \in Seq(Block)
      /\ Len(LastBlocks) \in {1, 2}
      /\ hashed \o LastBlocks = Padded(total)
  BY <1>1, LastBlocksPad
<1>3. length' = BitLength(total')
  BY <1>1 DEF InStep, BitLength
<1>4. TypeOK'
  <2>1. hashed' \in Seq(Block)
    <3>1. hashed \in Seq(Block)
      BY <1>1 DEF TypeOK
    <3> QED
      BY <1>1, <1>2, <3>1, ConcatProperties
  <2>4. buffer' \in Block
    BY <1>1, <1>2
  <2>2. lo \in 0 .. LoMod - 1 /\ hi \in 0 .. HiMod - 1
    BY <1>1 DEF TypeOK
  <2>3. 8 * lo \in 0 .. 8 * (LoMod - 1)
    BY <2>2, WordAssumption
  <2> QED
    BY <1>1, <2>1, <2>2, <2>3, <2>4 DEF TypeOK
<1> QED
  BY <1>1, <1>2, <1>3, <1>4 DEF Inv, InStep

LEMMA NextKeeps == Inv /\ [Next]_vars => Inv'
<1> SUFFICES ASSUME Inv, [Next]_vars PROVE Inv'
  OBVIOUS
<1>1. CASE Md5Initialise
  BY <1>1, InitialiseKeeps
<1>2. ASSUME NEW n \in Sizes, Md5Update(n) PROVE Inv'
  BY <1>2, UpdateKeeps
<1>3. CASE Md5Finalise
  BY <1>3, FinaliseKeeps
<1>4. CASE UNCHANGED vars
  BY <1>4 DEF vars, Inv, TypeOK, InStep
<1> QED
  BY <1>1, <1>2, <1>3, <1>4 DEF Next

LEMMA AlwaysInv == Spec => []Inv
BY InitInv, NextKeeps, PTL DEF Spec

\* Count and buffer stay in their widths (md5.h:7).
THEOREM TypeCorrect == Spec => []TypeOK
<1>1. Inv => TypeOK
  BY DEF Inv
<1> QED
  BY <1>1, AlwaysInv, PTL

\* Between two calls of the MD5 functions the count and the buffer are those of
\* the message, however it was cut into updates (md5.c:209).
THEOREM StaysInStep == Spec => []InStep
<1>1. Inv => InStep
  BY DEF Inv
<1> QED
  BY <1>1, AlwaysInv, PTL

LEMMA InitPromise == Init => Promise!Init
BY DEF Init, NoLength, Promise!Init, Promise!NoResult

LEMMA StepPromise == Inv /\ Inv' /\ [Next]_vars => [Promise!Next]_Promise!vars
<1> SUFFICES ASSUME Inv, Inv', [Next]_vars PROVE [Promise!Next]_Promise!vars
  OBVIOUS
<1> USE DEF Promise!Next, Promise!vars, Promise!NoResult, NoLength
<1>1. CASE Md5Initialise
  BY <1>1 DEF Md5Initialise, Promise!Initialise
<1>2. ASSUME NEW n \in Sizes, Md5Update(n) PROVE Promise!Next
  BY <1>2 DEF Md5Update, Count, Promise!Update
<1>3. CASE Md5Finalise
  <2>1. pc = "open" /\ pc' = "done" /\ total' = total
    BY <1>3 DEF Md5Finalise
  <2>2. hashed' = Padded(total) /\ length' = BitLength(total)
    BY <2>1 DEF Inv
  <2>3. Promise!Padded(total) = Padded(total) /\ Promise!BitLength(total) = BitLength(total)
    BY DEF Promise!Padded, Padded, Promise!BitLength, BitLength, Promise!BlockCount, BlockCount,
           Promise!PaddedByte, PaddedByte, Promise!BlockIndex, BlockIndex,
           Promise!EndMark, EndMark, Promise!Zero, Zero, Promise!LengthByte, LengthByte
  <2> QED
    BY <2>1, <2>2, <2>3 DEF Promise!Finalise
<1>4. CASE UNCHANGED vars
  BY <1>4 DEF vars
<1> QED
  BY <1>1, <1>2, <1>3, <1>4 DEF Next

\* The MD5 functions hash the padded message since the last Md5Initialise, for
\* every size of its updates (md5.h:24 to 30).
THEOREM StreamKeepsPromise == Spec => KeepsPromise
BY InitPromise, StepPromise, AlwaysInv, PTL DEF Spec, KeepsPromise, Promise!Spec
=============================================================================
