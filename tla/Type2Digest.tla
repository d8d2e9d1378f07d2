---------------------------- MODULE Type2Digest ----------------------------
(***************************************************************************)
(* The chunk loop of appimage_type2_digest_md5 (src/src/digest.c).         *)
(*                                                                         *)
(* The program reads the file through a stdio stream, one chunk at a time. *)
(* It passes over a section that begins in the chunk with a relative seek, *)
(* and remembers how much of the section reaches into later chunks.  What  *)
(* it passes over is never written to the buffer, and the whole buffer     *)
(* enters the hash.  The buffer is an array of the loop's body that        *)
(* nothing clears: where a chunk is not read, bytes of the one before, or  *)
(* bytes nobody wrote, are hashed.                                         *)
(*                                                                         *)
(* pc names what the loop does next: "lookup" the section lookups, "begin" *)
(* the loop condition and the head of the body, the name of a section the  *)
(* test for that section, "rest" the last read and Md5Update.              *)
(***************************************************************************)
EXTENDS DigestLayout

VARIABLES
  file,         \* the file being hashed
  pc,
  fp,           \* the position of the stream
  bytes_left,
  skip,         \* bytes_skip_following_chunks
  here,         \* current_position: fp at the head of the body
  room,         \* bytes_left_this_chunk
  buffer,       \* origins of the bytes of the chunk buffer
  hashed        \* the chunks handed to Md5Update, oldest first

vars == <<file, pc, fp, bytes_left, skip, here, room, buffer, hashed>>

Init ==
  /\ file \in Files
  /\ pc = "lookup"
  /\ fp = 0
  /\ bytes_left = file.size
  /\ skip = 0
  /\ here = 0
  /\ room = ChunkSize
  /\ buffer = Blank
  /\ hashed = <<>>

-----------------------------------------------------------------------------
\* Variant: a read that does not stop at the end of the file.
FreadPastEnd(k, n) ==
  [i \in ByteIndex |->
    IF k <= i /\ i < k + n THEN fp + (i - k) ELSE buffer[i]]

\* fread(buffer + k, 1, n, fp): the buffer afterwards.
Fread(k, n) ==
  [i \in ByteIndex |->
    IF k <= i /\ i < k + n /\ fp + (i - k) < file.size
    THEN fp + (i - k) ELSE buffer[i]]

\* The position of the stream after a read of n bytes.
FreadEnd(n) == IF fp + n <= file.size THEN fp + n
               ELSE IF fp <= file.size THEN file.size ELSE fp

\* Variant: a skip of a whole chunk is taken for no skip.
SkipRemainder == IF skip <= 0 THEN 0 ELSE skip % ChunkSize

\* How much of a section that began in an earlier chunk this chunk skips.
SkipHere ==
  IF skip <= 0 THEN 0
  ELSE IF skip % ChunkSize = 0 THEN ChunkSize ELSE skip % ChunkSize

\* How far ahead of the chunk's start section s begins.  The subtraction is
\* unsigned: for a section behind it wraps far above chunk_size.
Ahead(s) == file.offset[s] - here

\* Variant: a section whose first byte is the last of the chunk is missed.
BeginsEarly(s) == Present(file, s) /\ 0 < Ahead(s) /\ Ahead(s) < ChunkSize - 1

BeginsHere(s) == Present(file, s) /\ 0 < Ahead(s) /\ Ahead(s) < ChunkSize

After(s) == CASE s = "digest_md5" -> "sha256_sig"
              [] s = "sha256_sig" -> "sig_key"
              [] s = "sig_key"    -> "rest"

\* Only an unknown ELF class makes a lookup fail.
LookUp ==
  /\ pc = "lookup"
  /\ pc' = IF file.class = 0 THEN "failed" ELSE "begin"
  /\ UNCHANGED <<file, fp, bytes_left, skip, here, room, buffer, hashed>>

\* The head of the loop body: the rest of a section that began in an earlier
\* chunk is passed over.  The array's value is indeterminate: it has the place
\* of the one before, and keeps its bytes where the build keeps that place.
BeginChunk ==
  /\ pc = "begin"
  /\ bytes_left > 0
  /\ buffer' \in {buffer, Blank}
  /\ here' = fp
  /\ room' = ChunkSize - SkipHere
  /\ skip' = skip - SkipHere
  /\ fp' = fp + SkipHere
  /\ pc' = "digest_md5"
  /\ UNCHANGED <<file, bytes_left, hashed>>

\* No section s begins in this chunk.
NoSection(s) ==
  /\ pc = s
  /\ ~BeginsHere(s)
  /\ pc' = After(s)
  /\ UNCHANGED <<file, fp, bytes_left, skip, here, room, buffer, hashed>>

\* Variant: a section larger than the chunk leaves a negative room.
PassWithoutClamp(s) ==
  LET begin == Ahead(s)
  IN
  /\ pc = s
  /\ BeginsHere(s)
  /\ buffer' = Fread(0, begin)
  /\ room' = room - begin - file.length[s]
  /\ fp' = FreadEnd(begin) + (ChunkSize - room' - begin)
  /\ pc' = After(s)
  /\ UNCHANGED <<file, bytes_left, skip, here, hashed>>

\* Variant: the seek forgets that the read has moved the stream.
PassFromChunkStart(s) ==
  LET begin == Ahead(s)
      left  == room - begin - file.length[s]
  IN
  /\ pc = s
  /\ BeginsHere(s)
  /\ buffer' = Fread(0, begin)
  /\ IF left < 0 THEN skip' = -left /\ room' = 0
                 ELSE room' = left /\ UNCHANGED skip
  /\ fp' = fp + (ChunkSize - room' - begin)
  /\ pc' = After(s)
  /\ UNCHANGED <<file, bytes_left, here, hashed>>

\* Section s begins in this chunk: read up to it, then seek past it.
PassSection(s) ==
  LET begin == Ahead(s)
      left  == room - begin - file.length[s]
  IN
  /\ pc = s
  /\ BeginsHere(s)
  /\ buffer' = Fread(0, begin)
  /\ IF left < 0 THEN skip' = -left /\ room' = 0
                 ELSE room' = left /\ UNCHANGED skip
  /\ fp' = FreadEnd(begin) + (ChunkSize - room' - begin)
  /\ pc' = After(s)
  /\ UNCHANGED <<file, bytes_left, here, hashed>>

\* The last read of the chunk, and Md5Update over the whole buffer.
HashChunk ==
  /\ pc = "rest"
  /\ IF room > 0
     THEN buffer' = Fread(ChunkSize - room, room) /\ fp' = FreadEnd(room)
     ELSE UNCHANGED <<buffer, fp>>
  /\ hashed' = Append(hashed, buffer')
  /\ bytes_left' = bytes_left - ChunkSize
  /\ pc' = "begin"
  /\ UNCHANGED <<file, skip, here, room>>

Finish ==
  /\ pc = "begin"
  /\ bytes_left <= 0
  /\ pc' = "done"
  /\ UNCHANGED <<file, fp, bytes_left, skip, here, room, buffer, hashed>>

Next ==
  \/ LookUp
  \/ BeginChunk
  \/ \E s \in Section : NoSection(s) \/ PassSection(s)
  \/ HashChunk
  \/ Finish

Spec == Init /\ [][Next]_vars
-----------------------------------------------------------------------------
\* The state has its type: positions are byte counts, and what the buffer and
\* the hash hold comes from the file or was never written.
TypeOK ==
  /\ file \in FileType
  /\ pc \in Section \cup {"lookup", "begin", "rest", "done", "failed"}
  /\ fp \in Nat
  /\ bytes_left \in Int
  /\ skip \in Int
  /\ here \in Nat
  /\ room \in Int
  /\ buffer \in ChunkOf(file)
  /\ hashed \in Seq(ChunkOf(file))

\* Whatever the section table says, the signed counters that become size_t
\* arguments of fread stay within the buffer, and no seek goes backwards:
\* sections of one chunk may together be larger than the room in it.
RoomWithinBuffer ==
  /\ room \in 0 .. ChunkSize
  /\ skip >= 0

\* Whatever the section table says, a byte of a chunk is either what the chunk
\* before left at its place of the buffer, or it lies behind every byte hashed
\* before, and the chunk holds it once: relative seeks and overlapping sections
\* never make the stream deliver a byte again or out of its order.
DeliveredInOrder ==
  \A l \in 1 .. Len(hashed) : \A j \in ByteIndex :
    hashed[l][j] # Stale =>
      /\ \A i \in ByteIndex : hashed[l][i] = hashed[l][j] => i = j
      /\ \/ l > 1 /\ hashed[l - 1][j] = hashed[l][j]
         \/ \A k \in 1 .. l - 1 : \A i \in ByteIndex :
              hashed[k][i] # Stale => hashed[k][i] < hashed[l][j]

\* On an isolated layout no byte of the digest, signature or key section
\* enters the hash (digest.c:9), so that embedding them later keeps it.
ProtectedNeverHashed ==
  Isolated(file) =>
    \A k \in 1 .. Len(hashed) : \A i \in ByteIndex :
      hashed[k][i] # Stale => ~Protected(file, hashed[k][i])

\* The loop keeps the promise of DigestPromise: on an isolated layout each
\* chunk enters the hash as the image of its place in the file, over what the
\* buffer still held.
Promise == INSTANCE DigestPromise WITH at <- file.size - bytes_left

KeepsPromise == Promise!Spec

\* What the comment at digest.c:9 says of every file: the three sections are
\* skipped.
SectionsSkipped ==
  \A k \in 1 .. Len(hashed) : \A i \in ByteIndex :
    hashed[k][i] # Stale => ~Protected(file, hashed[k][i])

\* What the comment at digest.c:37 says: in the chunks after its first, null
\* bytes stand for the bytes of a section, so nothing unwritten is hashed there.
NullBytesEmulated ==
  \A k \in 1 .. Len(hashed) : \A i \in ByteIndex : \A s \in PresentSections(file) :
    LET start == (k - 1) * ChunkSize IN
    file.offset[s] < start /\ start + i < SectionEnd(file, s)
      => hashed[k][i] # Stale
=============================================================================
