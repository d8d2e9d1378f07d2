----------------------------- MODULE Md5Stream ------------------------------
(***************************************************************************)
(* Md5Initialise, Md5Update and Md5Finalise of src/src/md5.c on one        *)
(* context: a count of the bytes in two words, a buffer for the bytes of a *)
(* block that is not full, and the blocks that have gone into the four     *)
(* words of the state.                                                     *)
(***************************************************************************)
EXTENDS Md5Message

VARIABLES
  pc,       \* "open" between Md5Initialise and Md5Finalise, then "done"
  lo, hi,   \* the count
  buffer,   \* origins of the bytes of the block buffer
  hashed,   \* the blocks transformed, oldest first
  length,   \* the length written to the last block
  total     \* bytes of the message: where the next update begins in it

vars == <<pc, lo, hi, buffer, hashed, length, total>>

Untouched == [i \in BlockIndex |-> Stale]

NoLength == [lo |-> 0, hi |-> 0]

Init ==
  /\ pc = "open"
  /\ lo = 0
  /\ hi = 0
  /\ buffer = Untouched
  /\ hashed = <<>>
  /\ length = NoLength
  /\ total = 0

-----------------------------------------------------------------------------
\* Variant: the count of the message before stays.
InitialiseWords ==
  /\ pc' = "open"
  /\ buffer' = Untouched
  /\ hashed' = <<>>
  /\ length' = NoLength
  /\ total' = 0
  /\ UNCHANGED <<lo, hi>>

\* The four words and the count.  What the buffer held is of no message now.
Md5Initialise ==
  /\ pc' = "open"
  /\ lo' = 0
  /\ hi' = 0
  /\ buffer' = Untouched
  /\ hashed' = <<>>
  /\ length' = NoLength
  /\ total' = 0

\* TransformFunction: the blocks enter the four words one after the other.
Transform(before, blocks) == before \o blocks

\* memcpy of n bytes of the update, from its byte k on, to b[at].
Copied(b, at, k, n) ==
  [i \in BlockIndex |-> IF at <= i /\ i < at + n THEN total + k + (i - at) ELSE b[i]]

\* Variant: the carry out of the low word is lost when it comes out as it was.
CarryAtMost(saved, n) ==
  IF (saved + n) % LoMod <= saved THEN 1 ELSE 0

\* The low word has come out below what it was.
Carry(saved, n) == IF (saved + n) % LoMod < saved THEN 1 ELSE 0

Count(n) ==
  /\ lo' = (lo + n) % LoMod
  /\ hi' = (hi + Carry(lo, n) + n \div LoMod) % HiMod
  /\ total' = total + n

\* Bytes of the buffer in use, and its free bytes.
Used == lo % BlockSize
Free == BlockSize - Used

\* The update does not fill the block.
Short(n) == Used # 0 /\ n < Free

ShortUpdate(n) ==
  /\ Short(n)
  /\ buffer' = Copied(buffer, Used, 0, n)
  /\ UNCHANGED hashed

\* How much of an update goes to a block that was begun before.
Filling == IF Used = 0 THEN 0 ELSE Free

Filled == IF Used = 0 THEN <<>> ELSE <<Copied(buffer, Used, 0, Free)>>

\* A block begun before is filled and transformed, then the whole blocks of
\* the update are, and what is left goes to the begin of the buffer.
LongUpdate(n) ==
  LET rest == n - Filling
      full == rest \div BlockSize
      partly == IF Used = 0 THEN buffer ELSE Copied(buffer, Used, 0, Free)
  IN /\ ~Short(n)
     /\ hashed' = Transform(Transform(hashed, Filled),
                            [j \in 1 .. full |-> BlockAt(total + Filling + (j - 1) * BlockSize)])
     /\ buffer' = Copied(partly, 0, Filling + full * BlockSize, rest % BlockSize)

Md5Update(n) ==
  /\ pc = "open"
  /\ total + n <= MaxTotal
  /\ Count(n)
  /\ ShortUpdate(n) \/ LongUpdate(n)
  /\ UNCHANGED <<pc, length>>

\* Variant: the end mark may take the first byte of the length.
RoomForLengthNearly == BlockSize - (Used + 1) >= LengthSize - 1

\* Whether the length fits behind the end mark.
RoomForLength == BlockSize - (Used + 1) >= LengthSize

LengthAt == BlockSize - LengthSize

\* The buffer with the end mark and zeros behind it.
Marked ==
  [i \in BlockIndex |->
    IF i < Used THEN buffer[i] ELSE IF i = Used THEN EndMark ELSE Zero]

\* The length at the end of block b.
WithLength(b) ==
  [i \in BlockIndex |-> IF i < LengthAt THEN b[i] ELSE LengthByte(i - LengthAt)]

\* Without room for the length, it gets a block of its own.
LastBlocks ==
  IF RoomForLength THEN <<WithLength(Marked)>>
  ELSE <<Marked, WithLength([i \in BlockIndex |-> Zero])>>

Md5Finalise ==
  /\ pc = "open"
  /\ pc' = "done"
  /\ hashed' = Transform(hashed, LastBlocks)
  /\ buffer' = LastBlocks[Len(LastBlocks)]
  /\ lo' = 8 * lo
  /\ length' = [lo |-> 8 * lo, hi |-> hi]
  /\ UNCHANGED <<hi, total>>

Next == Md5Initialise \/ (\E n \in Sizes : Md5Update(n)) \/ Md5Finalise

Spec == Init /\ [][Next]_vars

-----------------------------------------------------------------------------
TypeOK ==
  /\ pc \in {"open", "done"}
  /\ lo \in 0 .. (IF pc = "open" THEN LoMod - 1 ELSE 8 * (LoMod - 1))
  /\ hi \in 0 .. HiMod - 1
  /\ buffer \in Block
  /\ hashed \in Seq(Block)
  /\ length \in [lo : 0 .. 8 * (LoMod - 1), hi : 0 .. HiMod - 1]
  /\ total \in 0 .. MaxTotal

\* Between two calls the blocks of the message that are full have been
\* hashed, the buffer has the bytes after them, and the count is that of the
\* message, however it was cut into updates and however far it exceeds a word.
InStep ==
  pc = "open" =>
    /\ hashed = WholeBlocks(total \div BlockSize)
    /\ \A i \in BlockIndex :
         i < total % BlockSize => buffer[i] = (total \div BlockSize) * BlockSize + i
    /\ lo = total % LoMod
    /\ hi = (total \div LoMod) % HiMod

\* The hash depends on the message and on nothing else: the functions do what
\* Md5Promise says, and what is hashed is the padded message.
Promise == INSTANCE Md5Promise WITH
  result <- IF pc = "done" THEN [blocks |-> hashed, length |-> length]
            ELSE [blocks |-> <<>>, length |-> NoLength]

KeepsPromise == Promise!Spec
=============================================================================
