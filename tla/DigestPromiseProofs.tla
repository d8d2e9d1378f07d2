------------------------ MODULE DigestPromiseProofs ------------------------
(***************************************************************************)
(* The chunk loop keeps the promise of DigestPromise: on every isolated    *)
(* layout, for every chunk size, each chunk enters the hash as the image   *)
(* of its place in the file.                                               *)
(***************************************************************************)
EXTENDS Type2DigestProofs, Remainders

-----------------------------------------------------------------------------
(***************************************************************************)
(* The inductive invariant on isolated layouts.  Between two chunks the    *)
(* stream is where the next chunk begins, and skip is what the one section *)
(* that reaches into it still has; the buffer is as the chunk before left  *)
(* it, or blank.  Within a chunk the stream is room bytes before its end,  *)
(* and the buffer is right up to there.                                    *)
(***************************************************************************)
Place == file.size - bytes_left

PlaceOK ==
  /\ Place \in Nat
  /\ Place % ChunkSize = 0
  /\ InChunk => bytes_left > 0

Covers(s, p) == file.offset[s] <= p /\ p < SectionEnd(file, s)

\* The sections whose test is done in this chunk.
Tested == CASE pc = "digest_md5" -> {}
            [] pc = "sha256_sig" -> {"digest_md5"}
            [] pc = "sig_key"    -> {"digest_md5", "sha256_sig"}
            [] OTHER             -> Section

\* The sections met so far: begun in an earlier chunk, or passed in this one.
Met ==
  {s \in PresentSections(file) :
     \/ file.offset[s] < here
     \/ s \in Tested /\ file.offset[s] < here + ChunkSize}

\* What the buffer may hold before the chunk is read into it.
Leftovers == {Blank} \cup (IF hashed = <<>> THEN {} ELSE {hashed[Len(hashed)]})

BetweenChunks ==
  pc \in {"lookup", "begin"} /\ bytes_left > 0 =>
    /\ fp = Place
    /\ buffer \in Leftovers
    /\ \A s \in PresentSections(file) :
         file.offset[s] < Place => SectionEnd(file, s) <= Place + skip
    /\ skip > 0 =>
         \E s \in PresentSections(file) :
           /\ file.offset[s] < Place
           /\ SectionEnd(file, s) = Place + skip
           /\ skip <= ChunkSize \/ SectionEnd(file, s) % ChunkSize = 0

MetAccounted ==
  /\ \A s \in Met :
       \/ SectionEnd(file, s) <= here + ChunkSize - room
       \/ room = 0 /\ SectionEnd(file, s) <= here + ChunkSize + skip
  /\ skip > 0 =>
       /\ room = 0
       /\ \E s \in Met :
            /\ SectionEnd(file, s) = here + ChunkSize + skip
            /\ skip <= ChunkSize \/ SectionEnd(file, s) % ChunkSize = 0
  /\ room < ChunkSize =>
       \A t \in PresentSections(file) \ Met : file.offset[t] >= here + ChunkSize

BufferOver(left) ==
  \A i \in ByteIndex :
    buffer[i] = IF /\ i < ChunkSize - room
                   /\ here + i < file.size
                   /\ \A s \in Met : ~Covers(s, here + i)
                THEN here + i ELSE left[i]

BufferRight == \E left \in Leftovers : BufferOver(left)

WithinChunk ==
  InChunk =>
    /\ here = Place
    /\ fp = here + ChunkSize - room
    /\ MetAccounted
    /\ BufferRight

InStep == BetweenChunks /\ WithinChunk

PromiseInv == Inv /\ PlaceOK /\ (Isolated(file) => InStep /\ ProtectedNeverHashed)

-----------------------------------------------------------------------------
(* What an isolated layout says of one chunk. *)

\* The numbers of a file.
LEMMA FileNumbers ==
  ASSUME Inv
  PROVE  /\ file.size \in Nat
         /\ \A s \in Section : /\ file.offset[s] \in Nat
                               /\ file.length[s] \in Nat
                               /\ SectionEnd(file, s) \in Nat
                               /\ SectionEnd(file, s) <= file.size
         /\ \A s \in PresentSections(file) :
              /\ s \in Section
              /\ file.offset[s] > 0
              /\ file.offset[s] < SectionEnd(file, s)
<1>1. /\ file.size \in Nat
      /\ \A s \in Section : /\ file.offset[s] \in Nat
                            /\ file.length[s] \in Nat
                            /\ SectionEnd(file, s) <= file.size
  BY FilesAssumption DEF Inv, TypeOK, FileType
<1> QED
  BY <1>1 DEF SectionEnd, PresentSections, Present

\* A section that begins in the chunk at byte a of an isolated layout begins
\* behind a, and no other section reaches into that chunk.
LEMMA SectionOfChunk ==
  ASSUME Inv, Isolated(file), NEW a \in Nat, a % ChunkSize = 0,
         NEW s \in PresentSections(file),
         a <= file.offset[s], file.offset[s] < a + ChunkSize
  PROVE  /\ a < file.offset[s]
         /\ \/ SectionEnd(file, s) <= a + 2 * ChunkSize
            \/ SectionEnd(file, s) % ChunkSize = 0
         /\ \A t \in PresentSections(file) \ {s} :
              SectionEnd(file, t) <= a \/ a + ChunkSize <= file.offset[t]
<1>1. file.offset[s] \in Nat /\ SectionEnd(file, s) \in Nat
  BY FileNumbers
<1> DEFINE d == file.offset[s] - a
<1>2. d \in 0 .. ChunkSize - 1 /\ file.offset[s] = a + d
  BY <1>1, ChunkAssumption
<1>3. file.offset[s] % ChunkSize = d
  <2> HIDE DEF d
  <2> QED
    BY <1>2, ChunkAssumption, PlaceInChunk
<1>4. ChunkStart(file.offset[s]) = a
  BY <1>1, <1>3 DEF ChunkStart
<1>5. SectionEnd(file, s) = ChunkStart(SectionEnd(file, s)) =>
        SectionEnd(file, s) % ChunkSize = 0
  BY <1>1, ChunkAssumption, Remainder DEF ChunkStart
<1> QED
  BY <1>1, <1>4, <1>5 DEF Isolated

\* How much of a skip the chunk takes.
LEMMA SkipTaken ==
  ASSUME skip \in Nat, skip <= ChunkSize \/ skip % ChunkSize = 0
  PROVE  SkipHere = IF skip <= ChunkSize THEN skip ELSE ChunkSize
<1>1. CASE skip < ChunkSize
  BY <1>1, ChunkAssumption, SmallRemainder DEF SkipHere
<1>2. CASE skip = ChunkSize
  <2>1. 0 % ChunkSize = 0
    BY ChunkAssumption, SmallRemainder
  <2>2. (0 + ChunkSize) % ChunkSize = 0
    BY <2>1, ChunkAssumption, NextChunk
  <2>3. skip % ChunkSize = 0
    BY <1>2, <2>2, ChunkAssumption
  <2> QED
    BY <1>2, <2>3, ChunkAssumption DEF SkipHere
<1>3. CASE skip > ChunkSize
  BY <1>3, ChunkAssumption DEF SkipHere
<1> QED
  BY <1>1, <1>2, <1>3, ChunkAssumption

-----------------------------------------------------------------------------
(* The steps of the loop, on an isolated layout. *)

\* The head of the loop body: the rest of the one section that reaches into
\* the chunk is passed over.
LEMMA BeginChunkInStep ==
  ASSUME Inv, PlaceOK, Isolated(file), InStep, BeginChunk
  PROVE  InStep'
<1> DEFINE a == Place
<1> USE ChunkAssumption
<1>1. /\ a \in Nat /\ a % ChunkSize = 0
      /\ fp = a /\ here' = a /\ Place' = a
      /\ skip \in Nat
      /\ file' = file
  BY DEF BeginChunk, PlaceOK, InStep, BetweenChunks, Inv, TypeOK, RoomWithinBuffer, Place
<1>2. /\ room' = ChunkSize - SkipHere
      /\ skip' = skip - SkipHere
      /\ fp' = a + SkipHere
      /\ SkipHere \in 0 .. ChunkSize
      /\ SkipHere <= skip
      /\ buffer' \in Leftovers'
      /\ Leftovers' = Leftovers
      /\ pc' = "digest_md5"
  <2>1. buffer \in Leftovers
    BY DEF BeginChunk, InStep, BetweenChunks
  <2> QED
    BY <1>1, <2>1, SkipFits DEF BeginChunk, Leftovers, Blank, ByteIndex
<1> PICK left \in Leftovers : buffer' = left
  BY <1>2
<1>3. Met' = {s \in PresentSections(file) : file.offset[s] < a}
  BY <1>1, <1>2 DEF Met, Tested
<1>4. \A s \in PresentSections(file) :
        file.offset[s] < a => SectionEnd(file, s) <= a + skip
  BY <1>1 DEF InStep, BetweenChunks, BeginChunk
<1>5. \A s \in PresentSections(file) : file.offset[s] \in Nat /\ SectionEnd(file, s) \in Nat
  BY FileNumbers
<1>6. BetweenChunks'
  BY <1>2 DEF BetweenChunks
<1>7. CASE skip = 0
  <2>1. SkipHere = 0
    BY <1>1, <1>2, <1>7
  <2>2. MetAccounted'
    BY <1>1, <1>2, <1>3, <1>4, <1>5, <1>7, <2>1 DEF MetAccounted
  <2>3. BufferRight'
    <3>1. \A i \in ByteIndex : ~(i < ChunkSize - room')
      BY <1>2, <2>1 DEF ByteIndex
    <3>2. BufferOver(left)'
      BY <3>1 DEF BufferOver, ByteIndex
    <3> QED
      BY <1>2, <3>2 DEF BufferRight
  <2> QED
    BY <1>1, <1>2, <1>6, <2>1, <2>2, <2>3 DEF InStep, WithinChunk
<1>8. CASE skip > 0
  <2>1. PICK w \in PresentSections(file) :
          /\ file.offset[w] < a
          /\ SectionEnd(file, w) = a + skip
          /\ skip <= ChunkSize \/ SectionEnd(file, w) % ChunkSize = 0
    BY <1>1, <1>8 DEF InStep, BetweenChunks, BeginChunk
  <2>2. skip <= ChunkSize \/ skip % ChunkSize = 0
    <3>1. CASE SectionEnd(file, w) % ChunkSize = 0
      <4> DEFINE e == SectionEnd(file, w)
      <4>1. e \in Nat /\ a <= e /\ e % ChunkSize = 0 /\ skip = e - a
        BY <1>1, <1>5, <2>1, <3>1
      <4> HIDE DEF e, a
      <4>2. (e - a) % ChunkSize = 0
        BY <1>1, <4>1, ChunksApart
      <4> QED
        BY <4>1, <4>2
    <3> QED
      BY <2>1, <3>1
  <2>3. SkipHere = IF skip <= ChunkSize THEN skip ELSE ChunkSize
    BY <1>1, <2>2, SkipTaken
  <2>4. \A t \in PresentSections(file) \ Met' : file.offset[t] >= a + ChunkSize
    <3> SUFFICES ASSUME NEW t \in PresentSections(file), t \notin Met',
                        file.offset[t] < a + ChunkSize
                 PROVE  FALSE
      BY <1>1, <1>5
    <3>1. a <= file.offset[t] /\ t # w
      BY <1>1, <1>3, <1>5, <2>1
    <3>2. SectionEnd(file, w) <= a \/ a + ChunkSize <= file.offset[w]
      <4> HIDE DEF a
      <4> QED
        BY <1>1, <3>1, SectionOfChunk
    <3> QED
      BY <1>1, <1>5, <1>8, <2>1, <3>2
  <2>5. w \in Met'
    BY <1>3, <2>1
  <2>6. MetAccounted'
    <3>1. \A s \in Met' :
            \/ SectionEnd(file, s) <= a + ChunkSize - room'
            \/ room' = 0 /\ SectionEnd(file, s) <= a + ChunkSize + skip'
      BY <1>1, <1>2, <1>3, <1>4, <1>5, <2>3
    <3>2. skip' > 0 =>
            /\ room' = 0
            /\ SectionEnd(file, w) = a + ChunkSize + skip'
            /\ skip' <= ChunkSize \/ SectionEnd(file, w) % ChunkSize = 0
      BY <1>1, <1>2, <1>5, <2>1, <2>3
    <3> QED
      BY <1>1, <2>4, <2>5, <3>1, <3>2 DEF MetAccounted
  <2>7. BufferRight'
    <3>1. ASSUME NEW i \in ByteIndex, i < ChunkSize - room'
          PROVE  Covers(w, a + i)
      BY <1>1, <1>2, <1>5, <2>1, <3>1 DEF Covers, ByteIndex
    <3>2. BufferOver(left)'
      BY <1>1, <1>2, <2>5, <3>1 DEF BufferOver, Covers, ByteIndex
    <3> QED
      BY <1>2, <3>2 DEF BufferRight
  <2> QED
    BY <1>1, <1>2, <1>6, <2>6, <2>7 DEF InStep, WithinChunk
<1> QED
  BY <1>1, <1>7, <1>8

\* A test that fails tells nothing new: no untested section of the chunk
\* begins at its first byte.
LEMMA NoSectionInStep ==
  ASSUME Inv, PlaceOK, Isolated(file), InStep, NEW s \in Section, NoSection(s)
  PROVE  InStep'
<1> DEFINE a == here
<1> USE ChunkAssumption
<1>1. /\ InChunk
      /\ pc = s
      /\ pc' = After(s)
      /\ pc' \in Section \cup {"rest"}
      /\ UNCHANGED <<file, fp, bytes_left, skip, here, room, buffer, hashed>>
  BY DEF NoSection, InChunk, After, Section
<1>2. a = Place /\ a \in Nat /\ a % ChunkSize = 0 /\ MetAccounted /\ BufferRight
      /\ fp = here + ChunkSize - room
  BY <1>1 DEF InStep, WithinChunk, PlaceOK
<1>3. Tested' = Tested \cup {s}
  BY <1>1 DEF Tested, After, Section
<1>4. s \in PresentSections(file) /\ file.offset[s] < a + ChunkSize => file.offset[s] < a
  <2> SUFFICES ASSUME s \in PresentSections(file), a <= file.offset[s],
                      file.offset[s] < a + ChunkSize
               PROVE  FALSE
    BY <1>2, FileNumbers
  <2>1. a < file.offset[s]
    <3> HIDE DEF a
    <3> QED
      BY <1>2, SectionOfChunk
  <2>2. BeginsHere(s)
    BY <1>2, <2>1, FileNumbers DEF BeginsHere, Ahead, PresentSections
  <2> QED
    BY <2>2 DEF NoSection
<1>5. Met' = Met
  BY <1>1, <1>3, <1>4 DEF Met
<1>6. MetAccounted'
  BY <1>1, <1>2, <1>5 DEF MetAccounted
<1>7. BufferRight'
  <2>1. PICK left \in Leftovers : BufferOver(left)
    BY <1>2 DEF BufferRight
  <2>2. BufferOver(left)'
    BY <1>1, <1>5, <2>1 DEF BufferOver, Covers, SectionEnd, ByteIndex
  <2>3. left \in Leftovers'
    BY <1>1, <2>1 DEF Leftovers, Blank, ByteIndex
  <2> QED
    BY <2>2, <2>3 DEF BufferRight
<1>8. WithinChunk'
  BY <1>1, <1>2, <1>6, <1>7 DEF WithinChunk, Place
<1>9. BetweenChunks'
  BY <1>1 DEF BetweenChunks, Section
<1> QED
  BY <1>8, <1>9 DEF InStep

\* The first and only section that begins in the chunk is passed over.
LEMMA PassSectionInStep ==
  ASSUME Inv, PlaceOK, Isolated(file), InStep, NEW s \in Section, PassSection(s)
  PROVE  InStep'
<1> DEFINE a == here
           off == file.offset[s]
           end == SectionEnd(file, s)
<1> USE ChunkAssumption
<1>1. /\ InChunk
      /\ pc = s
      /\ pc' = After(s)
      /\ pc' \in Section \cup {"rest"}
      /\ UNCHANGED <<file, bytes_left, here, hashed>>
      /\ BeginsHere(s)
  BY DEF PassSection, InChunk, After, Section
<1>2. /\ a = Place /\ a \in Nat /\ a % ChunkSize = 0
      /\ fp = a + ChunkSize - room
      /\ MetAccounted
      /\ BufferRight
      /\ room \in 0 .. ChunkSize
      /\ skip \in Nat
  BY <1>1 DEF InStep, WithinChunk, PlaceOK, Inv, TypeOK, RoomWithinBuffer
<1>3. Tested' = Tested \cup {s} /\ s \notin Tested
  BY <1>1 DEF Tested, After, Section
<1>4. /\ s \in PresentSections(file)
      /\ off \in Nat /\ end \in Nat /\ file.size \in Nat
      /\ a < off /\ off < a + ChunkSize /\ off < end /\ end <= file.size
      /\ end = off + file.length[s]
      /\ Ahead(s) = off - a
  BY <1>1, <1>2, FileNumbers DEF BeginsHere, Ahead, PresentSections, SectionEnd
<1>5. s \notin Met /\ Met' = Met \cup {s}
  BY <1>1, <1>2, <1>3, <1>4 DEF Met
<1>6. room = ChunkSize /\ skip = 0 /\ fp = a
  BY <1>2, <1>4, <1>5 DEF MetAccounted
<1>7. PICK left \in Leftovers : \A i \in ByteIndex : buffer[i] = left[i]
  BY <1>2, <1>6 DEF BufferRight, BufferOver, ByteIndex
<1>8. /\ buffer' = Fread(0, off - a)
      /\ FreadEnd(off - a) = off
      /\ \/ /\ end > a + ChunkSize
            /\ room' = 0 /\ skip' = end - (a + ChunkSize)
            /\ fp' = a + ChunkSize
         \/ /\ end <= a + ChunkSize
            /\ room' = a + ChunkSize - end /\ skip' = 0
            /\ fp' = end
  <2>1. buffer' = Fread(0, off - a)
    BY <1>4 DEF PassSection
  <2>2. FreadEnd(off - a) = off
    BY <1>2, <1>4, <1>6 DEF FreadEnd
  <2>3. fp' = off + (ChunkSize - room' - (off - a))
    BY <1>4, <2>2 DEF PassSection
  <2>4. ChunkSize - (off - a) - file.length[s] = a + ChunkSize - end
    BY <1>2, <1>4, FileNumbers
  <2>5. IF a + ChunkSize - end < 0
        THEN skip' = -(a + ChunkSize - end) /\ room' = 0
        ELSE room' = a + ChunkSize - end /\ skip' = skip
    BY <1>4, <1>6, <2>4 DEF PassSection
  <2>6. CASE end > a + ChunkSize
    <3>1. room' = 0 /\ skip' = end - (a + ChunkSize)
      BY <1>2, <1>4, <2>5, <2>6
    <3>2. fp' = a + ChunkSize
      BY <1>2, <1>4, <2>3, <3>1
    <3> QED
      BY <2>1, <2>2, <2>6, <3>1, <3>2
  <2>7. CASE end <= a + ChunkSize
    <3>1. room' = a + ChunkSize - end /\ skip' = 0
      BY <1>2, <1>4, <1>6, <2>5, <2>7
    <3>2. fp' = end
      BY <1>2, <1>4, <2>3, <3>1
    <3> QED
      BY <2>1, <2>2, <2>7, <3>1, <3>2
  <2> QED
    BY <1>2, <1>4, <2>6, <2>7
<1>9. room' \in 0 .. ChunkSize - 1 /\ skip' \in Nat /\ fp' = a + ChunkSize - room'
  BY <1>2, <1>4, <1>8
<1>10. \A t \in PresentSections(file) : file.offset[t] \in Nat /\ SectionEnd(file, t) \in Nat
                                         /\ file.offset[t] < SectionEnd(file, t)
  BY FileNumbers
<1>11. \A t \in Met : SectionEnd(file, t) <= a
  BY <1>2, <1>6, <1>10 DEF MetAccounted, Met
<1>12. /\ end <= a + 2 * ChunkSize \/ end % ChunkSize = 0
       /\ \A t \in PresentSections(file) \ {s} :
            SectionEnd(file, t) <= a \/ a + ChunkSize <= file.offset[t]
  <2>1. /\ a \in Nat /\ a % ChunkSize = 0
        /\ s \in PresentSections(file)
        /\ a <= file.offset[s] /\ file.offset[s] < a + ChunkSize
    BY <1>2, <1>4
  <2> HIDE DEF a
  <2> QED
    BY <2>1, SectionOfChunk
<1>13. MetAccounted'
  <2>1. \A t \in Met' :
          \/ SectionEnd(file, t) <= a + ChunkSize - room'
          \/ room' = 0 /\ SectionEnd(file, t) <= a + ChunkSize + skip'
    <3>1. \A t \in Met : SectionEnd(file, t) <= a + ChunkSize - room'
      BY <1>2, <1>9, <1>10, <1>11 DEF Met
    <3>2. \/ end <= a + ChunkSize - room'
          \/ room' = 0 /\ end <= a + ChunkSize + skip'
      BY <1>2, <1>4, <1>8
    <3> QED
      BY <1>5, <3>1, <3>2
  <2>2. skip' > 0 =>
          /\ room' = 0
          /\ s \in Met'
          /\ end = a + ChunkSize + skip'
          /\ skip' <= ChunkSize \/ end % ChunkSize = 0
    BY <1>2, <1>4, <1>5, <1>8, <1>12
  <2>3. \A t \in PresentSections(file) \ Met' : file.offset[t] >= a + ChunkSize
    <3> SUFFICES ASSUME NEW t \in PresentSections(file), t \notin Met, t # s
                 PROVE  file.offset[t] >= a + ChunkSize
      BY <1>5
    <3>1. ~(file.offset[t] < a)
      BY DEF Met
    <3> QED
      BY <1>2, <1>10, <1>12, <3>1
  <2> QED
    BY <1>1, <2>1, <2>2, <2>3 DEF MetAccounted
<1>14. BufferRight'
  <2> SUFFICES ASSUME NEW i \in ByteIndex
               PROVE  buffer'[i] = IF /\ i < ChunkSize - room'
                                      /\ a + i < file.size
                                      /\ \A t \in Met' : ~Covers(t, a + i)
                                   THEN a + i ELSE left[i]
    BY <1>1, <1>7 DEF BufferRight, BufferOver, Leftovers, Blank, Covers, ByteIndex
  <2>1. buffer'[i] = IF i < off - a /\ a + i < file.size THEN a + i ELSE left[i]
    BY <1>2, <1>4, <1>6, <1>7, <1>8 DEF Fread, ByteIndex
  <2>2. CASE i < off - a
    <3>1. i < ChunkSize - room'
      BY <1>2, <1>4, <1>8, <2>2 DEF ByteIndex
    <3>2. \A t \in Met' : ~Covers(t, a + i)
      <4>1. \A t \in Met : ~Covers(t, a + i)
        BY <1>2, <1>10, <1>11 DEF Covers, Met, ByteIndex
      <4>2. ~Covers(s, a + i)
        BY <1>2, <1>4, <2>2 DEF Covers, ByteIndex
      <4> QED
        BY <1>5, <4>1, <4>2
    <3> QED
      BY <2>1, <2>2, <3>1, <3>2
  <2>3. CASE ~(i < off - a) /\ i < ChunkSize - room'
    <3>1. Covers(s, a + i)
      BY <1>2, <1>4, <1>8, <2>3 DEF Covers, ByteIndex
    <3> QED
      BY <1>5, <2>1, <2>3, <3>1
  <2>4. CASE ~(i < off - a) /\ ~(i < ChunkSize - room')
    BY <2>1, <2>4
  <2> QED
    BY <2>2, <2>3, <2>4
<1>15. WithinChunk'
  BY <1>1, <1>2, <1>9, <1>13, <1>14 DEF WithinChunk, Place
<1>16. BetweenChunks'
  BY <1>1 DEF BetweenChunks, Section
<1> QED
  BY <1>15, <1>16 DEF InStep

\* At the end of the body the buffer is the image of its place.
LEMMA BufferIsImage ==
  ASSUME Inv, PlaceOK, Isolated(file), InStep, HashChunk
  PROVE  \E left \in Leftovers : buffer' = Image(file, Place, left)
<1> USE ChunkAssumption
<1>1. /\ InChunk /\ here = Place /\ here \in Nat
      /\ fp = here + ChunkSize - room
      /\ MetAccounted
      /\ BufferRight
      /\ room \in 0 .. ChunkSize
      /\ pc = "rest"
  BY DEF HashChunk, InChunk, InStep, WithinChunk, PlaceOK, Inv, TypeOK, RoomWithinBuffer
<1>2. Met = {s \in PresentSections(file) : file.offset[s] < here + ChunkSize}
  <2>1. \A s \in PresentSections(file) : file.offset[s] \in Nat /\ s \in Section
    BY FileNumbers
  <2>2. Tested = Section
    BY <1>1 DEF Tested
  <2> QED
    BY <1>1, <2>1, <2>2 DEF Met
<1>3. \A s \in PresentSections(file) : /\ file.offset[s] \in Nat
                                       /\ SectionEnd(file, s) \in Nat
                                       /\ s \in Section
  BY FileNumbers
<1>4. file.size \in Nat
  BY FileNumbers
<1>5. ASSUME NEW i \in ByteIndex
      PROVE  Protected(file, here + i) <=> \E s \in Met : Covers(s, here + i)
  BY <1>1, <1>2, <1>3 DEF Protected, Covers, PresentSections, ByteIndex
<1> PICK left \in Leftovers : BufferOver(left)
  BY <1>1 DEF BufferRight
<1>6. ASSUME NEW i \in ByteIndex
      PROVE  buffer'[i] = Image(file, here, left)[i]
  <2>1. Image(file, here, left)[i] =
          IF here + i < file.size /\ ~Protected(file, here + i) THEN here + i ELSE left[i]
    BY DEF Image
  <2>2. CASE i < ChunkSize - room
    <3>1. buffer'[i] = buffer[i]
      BY <1>1, <2>2 DEF HashChunk, Fread, ByteIndex
    <3> QED
      BY <1>1, <1>5, <2>1, <2>2, <3>1 DEF BufferOver
  <2>3. CASE ~(i < ChunkSize - room)
    <3>1. buffer[i] = left[i]
      BY <1>1, <2>3 DEF BufferOver
    <3>2. buffer'[i] = IF here + i < file.size THEN here + i ELSE left[i]
      BY <1>1, <1>4, <2>3, <3>1 DEF HashChunk, Fread, ByteIndex
    <3>3. \A s \in Met : ~Covers(s, here + i)
      BY <1>1, <1>2, <1>3, <2>3 DEF MetAccounted, Covers, ByteIndex
    <3> QED
      BY <1>5, <2>1, <3>2, <3>3
  <2> QED
    BY <2>2, <2>3
<1>7. buffer' \in ChunkOf(file)
  BY HashChunkInv DEF Inv, TypeOK, HashChunk, ChunkOf, ByteIndex
<1> QED
  BY <1>1, <1>6, <1>7 DEF Image, ChunkOf

\* After the chunk the stream is at the next one, or the file is at its end.
LEMMA HashChunkInStep ==
  ASSUME Inv, PlaceOK, Isolated(file), InStep, HashChunk
  PROVE  InStep'
<1> USE ChunkAssumption
<1>1. /\ InChunk /\ here = Place /\ here \in Nat
      /\ fp = here + ChunkSize - room
      /\ MetAccounted
      /\ room \in 0 .. ChunkSize
      /\ skip \in Nat
      /\ pc = "rest" /\ pc' = "begin"
      /\ UNCHANGED <<file, skip>>
      /\ bytes_left \in Int /\ bytes_left' = bytes_left - ChunkSize
  BY DEF HashChunk, InChunk, InStep, WithinChunk, PlaceOK, Inv, TypeOK, RoomWithinBuffer
<1>2. /\ file.size \in Nat
      /\ \A s \in PresentSections(file) : /\ file.offset[s] \in Nat
                                          /\ SectionEnd(file, s) \in Nat
                                          /\ s \in Section
  BY FileNumbers
<1>3. Met = {s \in PresentSections(file) : file.offset[s] < here + ChunkSize}
  <2>1. Tested = Section
    BY <1>1 DEF Tested
  <2> QED
    BY <1>1, <1>2, <2>1 DEF Met
<1>4. Place' = here + ChunkSize
  BY <1>1, <1>2 DEF Place
<1>5. bytes_left' > 0 => fp' = here + ChunkSize
  <2> SUFFICES ASSUME bytes_left' > 0 PROVE fp' = here + ChunkSize
    OBVIOUS
  <2>1. here + ChunkSize < file.size
    BY <1>1, <1>2 DEF Place
  <2> QED
    BY <1>1, <1>2, <2>1 DEF HashChunk, FreadEnd
<1>6. \A s \in PresentSections(file) :
        file.offset[s] < here + ChunkSize =>
          SectionEnd(file, s) <= here + ChunkSize + skip
  BY <1>1, <1>2, <1>3 DEF MetAccounted
<1>7. skip > 0 =>
        \E s \in PresentSections(file) :
          /\ file.offset[s] < here + ChunkSize
          /\ SectionEnd(file, s) = here + ChunkSize + skip
          /\ skip <= ChunkSize \/ SectionEnd(file, s) % ChunkSize = 0
  BY <1>1, <1>3 DEF MetAccounted
<1>8. buffer' \in Leftovers'
  <2>1. hashed \in Seq(ChunkOf(file)) /\ hashed' = Append(hashed, buffer')
    BY DEF Inv, TypeOK, HashChunk
  <2>2. hashed' # <<>> /\ hashed'[Len(hashed')] = buffer'
    BY <2>1
  <2> QED
    BY <2>2 DEF Leftovers
<1>9. BetweenChunks'
  BY <1>1, <1>4, <1>5, <1>6, <1>7, <1>8 DEF BetweenChunks
<1>10. WithinChunk'
  BY <1>1 DEF WithinChunk, InChunk, Section
<1> QED
  BY <1>9, <1>10 DEF InStep

-----------------------------------------------------------------------------
(* The invariant. *)

LEMMA InitPromiseInv == Init => PromiseInv
<1> SUFFICES ASSUME Init PROVE PromiseInv
  OBVIOUS
<1>1. Inv
  BY InitInv
<1>2. /\ pc = "lookup" /\ fp = 0 /\ bytes_left = file.size /\ skip = 0 /\ hashed = <<>>
      /\ Place = 0 /\ buffer \in Leftovers
  BY <1>1, FileNumbers DEF Init, Place, Leftovers
<1>3. PlaceOK
  BY <1>2, ChunkAssumption, SmallRemainder DEF PlaceOK, InChunk, Section
<1>4. BetweenChunks
  BY <1>1, <1>2, FileNumbers DEF BetweenChunks
<1>5. WithinChunk
  BY <1>2 DEF WithinChunk, InChunk, Section
<1>6. ProtectedNeverHashed
  BY <1>2 DEF ProtectedNeverHashed
<1> QED
  BY <1>1, <1>3, <1>4, <1>5, <1>6 DEF PromiseInv, InStep

\* Every chunk begins on a chunk boundary, whatever the layout.
LEMMA PlaceKept ==
  ASSUME Inv, PlaceOK, [Next]_vars
  PROVE  PlaceOK'
<1> USE ChunkAssumption
<1>1. file.size \in Nat /\ bytes_left \in Int /\ file' = file
  BY FileNumbers DEF Inv, TypeOK, Next, vars, LookUp, BeginChunk, NoSection, PassSection,
     HashChunk, Finish
<1>2. CASE HashChunk
  <2> DEFINE a == Place
  <2>1. a \in Nat /\ a % ChunkSize = 0 /\ Place' = a + ChunkSize /\ pc' = "begin"
    BY <1>1, <1>2 DEF HashChunk, PlaceOK, Place
  <2>2. (a + ChunkSize) % ChunkSize = 0
    <3> HIDE DEF a
    <3> QED
      BY <2>1, NextChunk
  <2> QED
    BY <2>1, <2>2 DEF PlaceOK, InChunk, Section
<1>3. CASE ~HashChunk
  <2>1. bytes_left' = bytes_left /\ Place' = Place
    BY <1>1, <1>3 DEF Next, vars, LookUp, BeginChunk, NoSection, PassSection, Finish, Place
  <2>2. InChunk' => bytes_left > 0
    BY <1>3 DEF PlaceOK, InChunk, Next, vars, LookUp, BeginChunk, NoSection, PassSection,
       Finish, Section
  <2> QED
    BY <2>1, <2>2 DEF PlaceOK
<1> QED
  BY <1>2, <1>3

LEMMA NextPromiseInv == PromiseInv /\ [Next]_vars => PromiseInv'
<1> SUFFICES ASSUME PromiseInv, [Next]_vars PROVE PromiseInv'
  OBVIOUS
<1>1. Inv /\ PlaceOK /\ Inv' /\ PlaceOK'
  BY NextInv, PlaceKept DEF PromiseInv
<1>2. file' = file
  BY DEF Next, vars, LookUp, BeginChunk, NoSection, PassSection, HashChunk, Finish
<1> SUFFICES ASSUME Isolated(file) PROVE InStep' /\ ProtectedNeverHashed'
  BY <1>1, <1>2 DEF PromiseInv
<1>3. InStep /\ ProtectedNeverHashed
  BY DEF PromiseInv
<1>4. CASE HashChunk
  <2>1. InStep'
    BY <1>1, <1>3, <1>4, HashChunkInStep
  <2>2. PICK left \in Leftovers : buffer' = Image(file, Place, left)
    BY <1>1, <1>3, <1>4, BufferIsImage
  <2>3. \A i \in ByteIndex : buffer'[i] # Stale => ~Protected(file, buffer'[i])
    <3>1. hashed # <<>> => Len(hashed) \in 1 .. Len(hashed)
      BY <1>1 DEF Inv, TypeOK
    <3>2. \A i \in ByteIndex : left[i] # Stale => ~Protected(file, left[i])
      BY <1>3, <3>1 DEF Leftovers, Blank, ProtectedNeverHashed
    <3> QED
      BY <2>2, <3>2 DEF Image
  <2>4. /\ Len(hashed) \in Nat
        /\ Len(hashed') = Len(hashed) + 1
        /\ \A l \in 1 .. Len(hashed) : hashed'[l] = hashed[l]
        /\ hashed'[Len(hashed) + 1] = buffer'
    BY <1>1, <1>4 DEF Inv, TypeOK, HashChunk
  <2>5. ASSUME NEW k \in 1 .. Len(hashed'), NEW i \in ByteIndex, hashed'[k][i] # Stale
        PROVE  ~Protected(file, hashed'[k][i])
    <3>1. CASE k = Len(hashed) + 1
      BY <2>3, <2>4, <2>5, <3>1
    <3>2. CASE k \in 1 .. Len(hashed)
      BY <1>3, <2>4, <2>5, <3>2 DEF ProtectedNeverHashed
    <3> QED
      BY <2>4, <3>1, <3>2
  <2>6. ProtectedNeverHashed'
    BY <1>2, <2>5 DEF ProtectedNeverHashed, ByteIndex
  <2> QED
    BY <2>1, <2>6
<1>5. CASE ~HashChunk
  <2>1. hashed' = hashed
    BY <1>5 DEF Next, vars, LookUp, BeginChunk, NoSection, PassSection, Finish
  <2>2. ProtectedNeverHashed'
    BY <1>2, <1>3, <2>1 DEF ProtectedNeverHashed, ByteIndex
  <2>3. InStep'
    <3>1. CASE LookUp
      BY <1>3, <3>1 DEF LookUp, InStep, BetweenChunks, WithinChunk, InChunk, Section, Place,
         Leftovers, Blank, ByteIndex
    <3>2. CASE BeginChunk
      BY <1>1, <1>3, <3>2, BeginChunkInStep
    <3>3. ASSUME NEW s \in Section, NoSection(s) PROVE InStep'
      BY <1>1, <1>3, <3>3, NoSectionInStep
    <3>4. ASSUME NEW s \in Section, PassSection(s) PROVE InStep'
      BY <1>1, <1>3, <3>4, PassSectionInStep
    <3>5. CASE Finish
      BY <3>5 DEF Finish, InStep, BetweenChunks, WithinChunk, InChunk, Section
    <3>6. CASE UNCHANGED vars
      BY <1>3, <3>6 DEF vars, InStep, BetweenChunks, WithinChunk, InChunk, Place,
         MetAccounted, BufferRight, BufferOver, Leftovers, Blank, Met, Tested, Covers,
         ByteIndex
    <3> QED
      BY <1>5, <3>1, <3>2, <3>3, <3>4, <3>5, <3>6 DEF Next
  <2> QED
    BY <2>2, <2>3
<1> QED
  BY <1>4, <1>5

LEMMA PromiseInvariance == Spec => []PromiseInv
BY InitPromiseInv, NextPromiseInv, PTL DEF Spec

\* On an isolated layout no byte of the three sections enters the hash, for
\* every chunk size, file size and length of the sections.
THEOREM SectionsLeftOut == Spec => []ProtectedNeverHashed
<1>1. PromiseInv => ProtectedNeverHashed
  BY DEF PromiseInv, ProtectedNeverHashed
<1> QED
  BY <1>1, PromiseInvariance, PTL

-----------------------------------------------------------------------------
(* The refinement. *)

\* The promise speaks of the same layouts and images.
LEMMA SameImage ==
  /\ Promise!Isolated(file) <=> Isolated(file)
  /\ \A p, left : Promise!Image(file, p, left) = Image(file, p, left)
  /\ Promise!Left = Leftovers
  /\ Promise!ChunkOf(file) = ChunkOf(file)
BY DEF Promise!Isolated, Isolated, Promise!Image, Image, Promise!ChunkOf, ChunkOf,
   Promise!PresentSections, PresentSections, Promise!Present, Present,
   Promise!SectionEnd, SectionEnd, Promise!ChunkStart, ChunkStart,
   Promise!Section, Section, Promise!Protected, Protected,
   Promise!ByteIndex, ByteIndex, Promise!Left, Leftovers, Promise!Blank, Blank

LEMMA InitKeeps == Init => Promise!Init
<1> SUFFICES ASSUME Init PROVE Promise!Init
  OBVIOUS
<1>1. file.size \in Nat /\ bytes_left = file.size
  BY InitInv, FileNumbers DEF Init
<1> QED
  BY <1>1, FilesAssumption
  DEF Init, Promise!Init, FileType, Promise!FileType, Section, Promise!Section

LEMMA StepKeeps == PromiseInv /\ PromiseInv' /\ [Next]_vars => [Promise!Feed]_Promise!vars
<1> SUFFICES ASSUME PromiseInv, PromiseInv', [Next]_vars
             PROVE  Promise!Feed \/ UNCHANGED Promise!vars
  OBVIOUS
<1>1. CASE HashChunk
  <2>1. /\ Inv /\ PlaceOK /\ Inv'
        /\ InChunk
        /\ file.size \in Nat /\ bytes_left \in Int
        /\ file' = file
        /\ bytes_left > 0
        /\ bytes_left' = bytes_left - ChunkSize
        /\ hashed' = Append(hashed, buffer')
    BY <1>1, FileNumbers DEF PromiseInv, HashChunk, InChunk, PlaceOK, Inv, TypeOK
  <2>2. file.size - bytes_left < file.size
    BY <2>1
  <2>3. file'.size - bytes_left' = file.size - bytes_left + ChunkSize
    BY <2>1, ChunkAssumption
  <2>4. buffer' \in Promise!Allowed(file, file.size - bytes_left)
    <3>1. CASE Isolated(file)
      <4>1. PICK left \in Leftovers : buffer' = Image(file, Place, left)
        BY <1>1, <2>1, <3>1, BufferIsImage DEF PromiseInv
      <4> QED
        BY <3>1, <4>1, SameImage DEF Promise!Allowed, Place
    <3>2. CASE ~Isolated(file)
      <4>1. buffer' \in ChunkOf(file)
        BY <2>1 DEF Inv, TypeOK, ChunkOf, ByteIndex
      <4> QED
        BY <3>2, <4>1, SameImage DEF Promise!Allowed
    <3> QED
      BY <3>1, <3>2
  <2> QED
    BY <2>1, <2>2, <2>3, <2>4 DEF Promise!Feed
<1>2. CASE ~HashChunk
  BY <1>2 DEF Promise!vars, Next, vars, LookUp, BeginChunk, NoSection, PassSection, Finish
<1> QED
  BY <1>1, <1>2

\* The chunk loop implements the abstract digest, for every chunk size and
\* every file.
THEOREM DigestKeepsPromise == Spec => KeepsPromise
BY InitKeeps, StepKeeps, PromiseInvariance, PTL DEF Spec, KeepsPromise, Promise!Spec
=============================================================================
