------------------------- MODULE Type2DigestProofs -------------------------
(***************************************************************************)
(* What holds of the chunk loop for every chunk size and every file.       *)
(***************************************************************************)
EXTENDS Type2Digest, TLAPS

-----------------------------------------------------------------------------
(* Remainders: digest.c rounds with % throughout. *)

\* The remainder of a byte count is a place in a chunk, and not larger.
LEMMA Remainder ==
  ASSUME NEW a \in Nat, NEW c \in Nat \ {0}
  PROVE  a % c \in 0 .. c - 1 /\ a % c <= a
OBVIOUS

\* A byte count smaller than the divisor is its own remainder.
LEMMA SmallRemainder ==
  ASSUME NEW a \in Nat, NEW c \in Nat \ {0}, a < c
  PROVE  a % c = a
OBVIOUS

-----------------------------------------------------------------------------
(***************************************************************************)
(* The inductive invariant.  InOrder says why no byte is delivered twice:  *)
(* what the buffer and the hash hold lies behind the stream, and the       *)
(* stream only moves forward.  So a byte of the buffer is left from the    *)
(* last chunk, or lies behind all that was hashed.                         *)
(***************************************************************************)
InChunk == pc \in Section \cup {"rest"}

HashedBehind ==
  \A k \in 1 .. Len(hashed) : \A i \in ByteIndex :
    hashed[k][i] # Stale => hashed[k][i] < fp

BufferBehind == \A i \in ByteIndex : buffer[i] # Stale => buffer[i] < fp

BufferOnce ==
  \A i, j \in ByteIndex : buffer[i] = buffer[j] /\ buffer[i] # Stale => i = j

LeftOver(j) == Len(hashed) > 0 /\ hashed[Len(hashed)][j] = buffer[j]

BehindHashed(b) ==
  \A k \in 1 .. Len(hashed) : \A i \in ByteIndex :
    hashed[k][i] # Stale => hashed[k][i] < b

BufferInOrder ==
  \A j \in ByteIndex : buffer[j] # Stale => LeftOver(j) \/ BehindHashed(buffer[j])

InOrder ==
  HashedBehind /\ BufferBehind /\ BufferOnce /\ BufferInOrder /\ DeliveredInOrder

Inv == file \in Files /\ TypeOK /\ RoomWithinBuffer /\ InOrder

\* The remainder of a skip is at most the skip and fits into a chunk.
LEMMA SkipFits ==
  ASSUME skip \in Nat
  PROVE  SkipHere \in 0 .. ChunkSize /\ SkipHere <= skip
<1>1. CASE skip <= 0
  BY <1>1, ChunkAssumption DEF SkipHere
<1>2. CASE skip > 0 /\ skip % ChunkSize = 0
  <2>1. ~(skip < ChunkSize)
    BY <1>2, ChunkAssumption, SmallRemainder
  <2> QED
    BY <1>2, <2>1, ChunkAssumption DEF SkipHere
<1>3. CASE skip > 0 /\ skip % ChunkSize # 0
  BY <1>3, ChunkAssumption, Remainder DEF SkipHere
<1> QED
  BY <1>1, <1>2, <1>3, Remainder, ChunkAssumption

\* A read changes the buffer only to bytes from fp on, each at one place,
\* and leaves the stream behind all of them.
LEMMA ReadIsFresh ==
  ASSUME file \in Files, TypeOK, NEW k \in Nat, NEW n \in Nat
  PROVE  /\ Fread(k, n) \in ChunkOf(file)
         /\ FreadEnd(n) \in Nat
         /\ FreadEnd(n) >= fp
         /\ \A i \in ByteIndex :
              \/ Fread(k, n)[i] = buffer[i]
              \/ /\ Fread(k, n)[i] = fp + (i - k)
                 /\ k <= i
                 /\ fp + (i - k) < FreadEnd(n)
<1> USE ChunkAssumption, FilesAssumption DEF TypeOK, ByteIndex, FileType
<1>1. file.size \in Nat
  OBVIOUS
<1>2. \A i \in ByteIndex : Fread(k, n)[i] \in 0 .. file.size - 1 \cup {Stale}
  BY <1>1 DEF Fread, ChunkOf
<1>3. Fread(k, n) \in ChunkOf(file)
  BY <1>2 DEF Fread, ChunkOf
<1>4. FreadEnd(n) \in Nat /\ FreadEnd(n) >= fp
  BY <1>1 DEF FreadEnd
<1>5. ASSUME NEW i \in ByteIndex
      PROVE  \/ Fread(k, n)[i] = buffer[i]
             \/ /\ Fread(k, n)[i] = fp + (i - k)
                /\ k <= i
                /\ fp + (i - k) < FreadEnd(n)
  BY <1>1 DEF Fread, FreadEnd
<1> QED
  BY <1>3, <1>4, <1>5

LEMMA InitInv == Init => Inv
<1> SUFFICES ASSUME Init PROVE Inv
  OBVIOUS
<1> USE ChunkAssumption, FilesAssumption DEF Init
<1>1. TypeOK
  BY DEF TypeOK, FileType, Blank, ChunkOf
<1>2. RoomWithinBuffer
  BY DEF RoomWithinBuffer
<1>3. InOrder
  BY DEF InOrder, HashedBehind, BufferBehind, BufferOnce, BufferInOrder,
         DeliveredInOrder, Blank
<1> QED
  BY <1>1, <1>2, <1>3 DEF Inv

\* What a read preserves of InOrder, whatever the stream does after it.
LEMMA ReadKeepsOrder ==
  ASSUME Inv, InChunk, NEW k \in Nat, NEW n \in Nat,
         NEW b, b = Fread(k, n), NEW p \in Nat, p >= FreadEnd(n)
  PROVE  /\ b \in ChunkOf(file)
         /\ \A i \in ByteIndex : b[i] # Stale => b[i] < p
         /\ \A i, j \in ByteIndex : b[i] = b[j] /\ b[i] # Stale => i = j
         /\ \A l \in 1 .. Len(hashed) : \A i \in ByteIndex :
              hashed[l][i] # Stale => hashed[l][i] < p
         /\ \A j \in ByteIndex : b[j] # Stale =>
              \/ Len(hashed) > 0 /\ hashed[Len(hashed)][j] = b[j]
              \/ BehindHashed(b[j])
<1> USE ChunkAssumption DEF ByteIndex
<1>1. /\ b \in ChunkOf(file)
      /\ FreadEnd(n) \in Nat
      /\ FreadEnd(n) >= fp
      /\ \A i \in ByteIndex :
           \/ b[i] = buffer[i]
           \/ b[i] = fp + (i - k) /\ k <= i /\ fp + (i - k) < FreadEnd(n)
  BY ReadIsFresh DEF Inv
<1>2. file.size \in Nat /\ fp \in Nat /\ buffer \in ChunkOf(file)
  BY DEF Inv, TypeOK, FileType
<1>3. \A i \in ByteIndex : buffer[i] # Stale => buffer[i] \in Int /\ buffer[i] < fp
  BY <1>2 DEF Inv, InOrder, BufferBehind, ChunkOf
<1>4. \A l \in 1 .. Len(hashed) : \A i \in ByteIndex :
        hashed[l][i] # Stale => hashed[l][i] \in Int /\ hashed[l][i] < fp
  <2> SUFFICES ASSUME NEW l \in 1 .. Len(hashed), NEW i \in ByteIndex, hashed[l][i] # Stale
               PROVE  hashed[l][i] \in Int /\ hashed[l][i] < fp
    OBVIOUS
  <2>1. hashed[l] \in ChunkOf(file)
    BY DEF Inv, TypeOK
  <2> QED
    BY <1>2, <2>1 DEF Inv, InOrder, HashedBehind, ChunkOf
<1>5. ASSUME NEW i \in ByteIndex, b[i] # Stale
      PROVE  b[i] < p
  BY <1>1, <1>2, <1>3, <1>5
<1>6. ASSUME NEW i \in ByteIndex, NEW j \in ByteIndex, b[i] = b[j], b[i] # Stale
      PROVE  i = j
  <2>1. CASE b[i] = buffer[i] /\ b[j] = buffer[j]
    BY <1>6, <2>1 DEF Inv, InOrder, BufferOnce
  <2>2. CASE b[i] # buffer[i] \/ b[j] # buffer[j]
    BY <1>1, <1>2, <1>3, <1>6, <2>2
  <2> QED
    BY <2>1, <2>2
<1>7. \A l \in 1 .. Len(hashed) : \A i \in ByteIndex :
        hashed[l][i] # Stale => hashed[l][i] < p
  BY <1>1, <1>2, <1>4
<1>8. ASSUME NEW j \in ByteIndex, b[j] # Stale
      PROVE  \/ Len(hashed) > 0 /\ hashed[Len(hashed)][j] = b[j]
             \/ BehindHashed(b[j])
  <2>1. CASE b[j] = buffer[j]
    BY <1>8, <2>1 DEF Inv, InOrder, BufferInOrder, LeftOver
  <2>2. CASE b[j] # buffer[j]
    <3>1. b[j] \in Int /\ b[j] >= fp
      BY <1>1, <1>2, <2>2
    <3> QED
      BY <1>2, <1>4, <3>1 DEF BehindHashed
  <2> QED
    BY <2>1, <2>2
<1> QED
  BY <1>1, <1>5, <1>6, <1>7, <1>8

LEMMA BeginChunkInv ==
  ASSUME Inv, BeginChunk
  PROVE  Inv'
<1> USE ChunkAssumption DEF BeginChunk
<1>1. skip \in Nat /\ fp \in Nat /\ fp' \in Nat /\ fp' >= fp
  BY SkipFits DEF Inv, TypeOK, RoomWithinBuffer
<1>2. SkipHere \in 0 .. ChunkSize /\ SkipHere <= skip
  BY <1>1, SkipFits
<1>3. /\ buffer' \in ChunkOf(file)
      /\ \A i \in ByteIndex : buffer'[i] = buffer[i] \/ buffer'[i] = Stale
  BY DEF Blank, ChunkOf, Inv, TypeOK
<1>4. TypeOK'
  BY <1>1, <1>2, <1>3 DEF Inv, TypeOK, Section, ChunkOf
<1>5. RoomWithinBuffer'
  BY <1>1, <1>2 DEF RoomWithinBuffer
<1>6. HashedBehind'
  <2> SUFFICES ASSUME NEW l \in 1 .. Len(hashed), NEW i \in ByteIndex, hashed[l][i] # Stale
               PROVE  hashed[l][i] < fp'
    BY DEF HashedBehind, ByteIndex
  <2>1. hashed[l] \in ChunkOf(file) /\ file.size \in Nat
    BY DEF Inv, TypeOK, FileType
  <2>2. hashed[l][i] \in Int /\ hashed[l][i] < fp
    BY <2>1 DEF Inv, InOrder, HashedBehind, ChunkOf
  <2> QED
    BY <1>1, <2>2
<1>7. BufferBehind'
  <2> SUFFICES ASSUME NEW i \in ByteIndex, buffer'[i] # Stale PROVE buffer'[i] < fp'
    BY DEF BufferBehind, ByteIndex
  <2>1. buffer'[i] = buffer[i] /\ buffer[i] \in Int /\ buffer[i] < fp
    BY <1>3 DEF Inv, TypeOK, FileType, InOrder, BufferBehind, ChunkOf
  <2> QED
    BY <1>1, <2>1
<1>8. BufferOnce' /\ BufferInOrder'
  BY <1>3 DEF Inv, InOrder, BufferOnce, BufferInOrder, LeftOver, BehindHashed, ByteIndex
<1>9. DeliveredInOrder'
  BY DEF Inv, InOrder, DeliveredInOrder, ByteIndex
<1> QED
  BY <1>4, <1>5, <1>6, <1>7, <1>8, <1>9 DEF Inv, InOrder

LEMMA PassSectionInv ==
  ASSUME Inv, NEW s \in Section, PassSection(s)
  PROVE  Inv'
<1> DEFINE begin == Ahead(s)
           left == room - begin - file.length[s]
<1> USE ChunkAssumption DEF PassSection
<1>1. InChunk /\ After(s) \in Section \cup {"rest"}
  BY DEF InChunk, After, Section
<1>2. begin \in Nat /\ begin < ChunkSize /\ file.length[s] \in Nat
  BY DEF Inv, TypeOK, FileType, BeginsHere, Ahead
<1>3. room \in 0 .. ChunkSize /\ skip \in Nat /\ left \in Int
  BY <1>2 DEF Inv, TypeOK, RoomWithinBuffer
<1>4. room' \in 0 .. ChunkSize /\ skip' \in Nat /\ ChunkSize - room' - begin \in Nat
  BY <1>2, <1>3
<1>5. FreadEnd(begin) \in Nat /\ FreadEnd(begin) >= fp
  BY <1>2, ReadIsFresh DEF Inv
<1>6. fp' \in Nat /\ fp' >= FreadEnd(begin)
  BY <1>4, <1>5
<1> DEFINE b == Fread(0, begin)
           p == fp'
<1>7. /\ b \in ChunkOf(file)
      /\ \A i \in ByteIndex : b[i] # Stale => b[i] < p
      /\ \A i, j \in ByteIndex : b[i] = b[j] /\ b[i] # Stale => i = j
      /\ \A l \in 1 .. Len(hashed) : \A i \in ByteIndex :
           hashed[l][i] # Stale => hashed[l][i] < p
      /\ \A j \in ByteIndex : b[j] # Stale =>
           \/ Len(hashed) > 0 /\ hashed[Len(hashed)][j] = b[j]
           \/ BehindHashed(b[j])
  <2> HIDE DEF begin, b, p
  <2> QED
    BY <1>1, <1>2, <1>6, ReadKeepsOrder DEF b, p
<1>8. TypeOK' /\ RoomWithinBuffer'
  BY <1>1, <1>4, <1>6, <1>7 DEF Inv, TypeOK, RoomWithinBuffer, ChunkOf, ByteIndex
<1>9. InOrder'
  BY <1>7 DEF Inv, InOrder, HashedBehind, BufferBehind, BufferOnce, BufferInOrder,
              LeftOver, BehindHashed, DeliveredInOrder, ByteIndex
<1> QED
  BY <1>8, <1>9 DEF Inv

LEMMA HashChunkInv ==
  ASSUME Inv, HashChunk
  PROVE  Inv'
<1> USE ChunkAssumption DEF HashChunk
<1>1. InChunk /\ room \in 0 .. ChunkSize
  BY DEF InChunk, Inv, TypeOK, RoomWithinBuffer
<1>2. /\ buffer' \in ChunkOf(file)
      /\ fp' \in Nat
      /\ \A i \in ByteIndex : buffer'[i] # Stale => buffer'[i] < fp'
      /\ \A i, j \in ByteIndex : buffer'[i] = buffer'[j] /\ buffer'[i] # Stale => i = j
      /\ \A l \in 1 .. Len(hashed) : \A i \in ByteIndex :
           hashed[l][i] # Stale => hashed[l][i] < fp'
      /\ \A j \in ByteIndex : buffer'[j] # Stale =>
           \/ Len(hashed) > 0 /\ hashed[Len(hashed)][j] = buffer'[j]
           \/ BehindHashed(buffer'[j])
  <2>1. CASE room > 0
    <3>1. FreadEnd(room) \in Nat
      BY <1>1, ReadIsFresh DEF Inv
    <3>2. ChunkSize - room \in Nat /\ room \in Nat
      BY <1>1
    <3>3. buffer' = Fread(ChunkSize - room, room) /\ fp' = FreadEnd(room)
      BY <2>1
    <3> QED
      BY <1>1, <3>1, <3>2, <3>3, ReadKeepsOrder
  <2>2. CASE ~(room > 0)
    BY <2>2 DEF Inv, TypeOK, InOrder, HashedBehind, BufferBehind, BufferOnce,
                BufferInOrder, LeftOver
  <2> QED
    BY <2>1, <2>2
<1>3. hashed \in Seq(ChunkOf(file)) /\ hashed' = Append(hashed, buffer')
  BY DEF Inv, TypeOK
<1>4. /\ Len(hashed) \in Nat
      /\ Len(hashed') = Len(hashed) + 1
      /\ \A l \in 1 .. Len(hashed) : hashed'[l] = hashed[l]
      /\ hashed'[Len(hashed) + 1] = buffer'
      /\ hashed' \in Seq(ChunkOf(file))
  BY <1>2, <1>3
<1>5. TypeOK' /\ RoomWithinBuffer'
  BY <1>2, <1>4 DEF Inv, TypeOK, RoomWithinBuffer, ChunkOf, ByteIndex
<1>6. HashedBehind'
  <2> SUFFICES ASSUME NEW l \in 1 .. Len(hashed'), NEW i \in ByteIndex,
                      hashed'[l][i] # Stale
               PROVE  hashed'[l][i] < fp'
    BY DEF HashedBehind, ByteIndex
  <2>1. CASE l = Len(hashed) + 1
    BY <1>2, <1>4, <2>1
  <2>2. CASE l \in 1 .. Len(hashed)
    BY <1>2, <1>4, <2>2
  <2> QED
    BY <1>4, <2>1, <2>2
<1>7. BufferBehind' /\ BufferOnce' /\ BufferInOrder'
  BY <1>2, <1>4 DEF BufferBehind, BufferOnce, BufferInOrder, LeftOver, ByteIndex
<1>8. DeliveredInOrder'
  <2> DEFINE Delivered(h, l, j) ==
               /\ \A i \in ByteIndex : h[l][i] = h[l][j] => i = j
               /\ \/ l > 1 /\ h[l - 1][j] = h[l][j]
                  \/ \A k \in 1 .. l - 1 : \A i \in ByteIndex :
                       h[k][i] # Stale => h[k][i] < h[l][j]
  <2> SUFFICES ASSUME NEW l \in 1 .. Len(hashed'), NEW j \in ByteIndex,
                      hashed'[l][j] # Stale
               PROVE  Delivered(hashed', l, j)
    BY DEF DeliveredInOrder, ByteIndex
  <2>1. CASE l = Len(hashed) + 1
    <3>1. hashed'[l] = buffer' /\ \A k \in 1 .. l - 1 : hashed'[k] = hashed[k]
      BY <1>4, <2>1
    <3>2. \A i \in ByteIndex : hashed'[l][i] = hashed'[l][j] => i = j
      BY <1>2, <3>1
    <3>3. CASE Len(hashed) > 0 /\ hashed[Len(hashed)][j] = buffer'[j]
      BY <1>4, <2>1, <3>1, <3>2, <3>3
    <3>4. CASE BehindHashed(buffer'[j])
      BY <1>4, <2>1, <3>1, <3>2, <3>4 DEF BehindHashed
    <3> QED
      BY <1>2, <3>1, <3>3, <3>4
  <2>2. CASE l \in 1 .. Len(hashed)
    <3>1. \A k \in 1 .. l : hashed'[k] = hashed[k]
      BY <1>4, <2>2
    <3>2. Delivered(hashed, l, j)
      BY <2>2, <3>1 DEF Inv, InOrder, DeliveredInOrder
    <3> QED
      BY <1>4, <2>2, <3>1, <3>2
  <2> QED
    BY <1>4, <2>1, <2>2
<1> QED
  BY <1>5, <1>6, <1>7, <1>8 DEF Inv, InOrder

LEMMA NextInv == Inv /\ [Next]_vars => Inv'
<1> SUFFICES ASSUME Inv, [Next]_vars PROVE Inv'
  OBVIOUS
<1>1. CASE LookUp
  BY <1>1 DEF LookUp, Inv, TypeOK, RoomWithinBuffer, InOrder, HashedBehind, BufferBehind,
     BufferOnce, BufferInOrder, LeftOver, BehindHashed,
     DeliveredInOrder, Section, ByteIndex, ChunkOf
<1>2. CASE BeginChunk
  BY <1>2, BeginChunkInv
<1>3. ASSUME NEW s \in Section, NoSection(s) PROVE Inv'
  <2>1. InChunk /\ After(s) \in Section \cup {"rest"}
    BY <1>3 DEF NoSection, InChunk, After, Section
  <2> QED
    BY <1>3, <2>1 DEF NoSection, Inv, TypeOK, RoomWithinBuffer, InOrder, HashedBehind,
       BufferBehind, BufferOnce, BufferInOrder, LeftOver, BehindHashed,
       DeliveredInOrder, ByteIndex, ChunkOf
<1>4. ASSUME NEW s \in Section, PassSection(s) PROVE Inv'
  BY <1>4, PassSectionInv
<1>5. CASE HashChunk
  BY <1>5, HashChunkInv
<1>6. CASE Finish
  BY <1>6 DEF Finish, Inv, TypeOK, RoomWithinBuffer, InOrder, HashedBehind, BufferBehind,
     BufferOnce, BufferInOrder, LeftOver, BehindHashed,
     DeliveredInOrder, Section, ByteIndex, ChunkOf
<1>7. CASE UNCHANGED vars
  BY <1>7 DEF vars, Inv, TypeOK, RoomWithinBuffer, InOrder, HashedBehind, BufferBehind,
     BufferOnce, BufferInOrder, LeftOver, BehindHashed,
     DeliveredInOrder, ByteIndex, ChunkOf
<1> QED
  BY <1>1, <1>2, <1>3, <1>4, <1>5, <1>6, <1>7 DEF Next

LEMMA Invariance == Spec => []Inv
BY InitInv, NextInv, PTL DEF Spec

\* The state has its type, for every chunk size and every file.
THEOREM TypeCorrect == Spec => []TypeOK
<1>1. Inv => TypeOK
  BY DEF Inv
<1> QED
  BY <1>1, Invariance, PTL

\* No read leaves the chunk buffer and no seek goes backwards, whatever the
\* section table says.
THEOREM ReadsStayInBuffer == Spec => []RoomWithinBuffer
<1>1. Inv => RoomWithinBuffer
  BY DEF Inv
<1> QED
  BY <1>1, Invariance, PTL

\* The stream delivers no byte of the file twice or out of its order, whatever
\* the section table says: where a byte is hashed again, the buffer kept it at
\* its place from the chunk before.
THEOREM BytesInOrder == Spec => []DeliveredInOrder
<1>1. Inv => DeliveredInOrder
  BY DEF Inv, InOrder
<1> QED
  BY <1>1, Invariance, PTL
=============================================================================
