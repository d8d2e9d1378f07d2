--------------------------- MODULE DigestPromise ---------------------------
(***************************************************************************)
(* What appimage_type2_digest_md5 (src/src/digest.c) promises its callers: *)
(* the hash of the file, chunk by chunk, in which the bytes of the three   *)
(* sections count for nothing.  Such a digest can be embedded first, and   *)
(* the signature and the key after it: neither changes it.  In the place   *)
(* of a left out byte, and behind the end of the file, the byte at the     *)
(* same place of the chunk before stands, or one that was never written:   *)
(* not a null byte, but nothing of the three sections either.              *)
(*                                                                         *)
(* The promise is kept for the layouts Isolated describes.  On any other   *)
(* layout only this is promised: one chunk of file bytes for every         *)
(* ChunkSize bytes of the file.                                            *)
(***************************************************************************)
EXTENDS DigestLayout

VARIABLES
  file,     \* the file being hashed
  at,       \* where its next chunk begins
  hashed    \* the chunks hashed so far

vars == <<file, at, hashed>>

Init ==
  /\ file \in FileType
  /\ at = 0
  /\ hashed = <<>>

\* What the buffer may hold before a chunk is read into it.
Left == {Blank} \cup (IF hashed = <<>> THEN {} ELSE {hashed[Len(hashed)]})

\* What may stand for the chunk at byte p.
Allowed(f, p) ==
  IF Isolated(f) THEN {Image(f, p, left) : left \in Left} ELSE ChunkOf(f)

\* The next chunk enters the hash.
Feed ==
  /\ at < file.size
  /\ \E chunk \in Allowed(file, at) : hashed' = Append(hashed, chunk)
  /\ at' = at + ChunkSize
  /\ UNCHANGED file

Spec == Init /\ [][Feed]_vars
=============================================================================
