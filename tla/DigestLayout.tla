---------------------------- MODULE DigestLayout ----------------------------
(***************************************************************************)
(* The files whose type 2 digest appimage_type2_digest_md5 computes        *)
(* (src/src/digest.c), as far as the digest tells them apart: the size,    *)
(* the ELF class, and the place of the three sections the digest is to     *)
(* leave out (src/src/elf.c, appimage_get_elf_section_offset_and_length).  *)
(*                                                                         *)
(* A byte is represented by where it comes from: an offset into the file,  *)
(* or Stale, a byte of the chunk buffer that nothing has written.          *)
(***************************************************************************)
EXTENDS Integers, Sequences

CONSTANTS
  ChunkSize,   \* chunk_size: bytes handed to Md5Update at a time (4096)
  Files,       \* the files considered: records of FileType
  Stale        \* the origin of a buffer byte nothing has written

Section == {"digest_md5", "sha256_sig", "sig_key"}

\* class: 32 or 64, or 0 for any other value of the EI_CLASS byte.
\* A section the table does not name is left at offset 0 with length 0.
FileType == [size : Nat, class : {0, 32, 64},
             offset : [Section -> Nat], length : [Section -> Nat]]

Present(f, s) == f.offset[s] # 0 /\ f.length[s] # 0

SectionEnd(f, s) == f.offset[s] + f.length[s]

ASSUME ChunkAssumption == ChunkSize \in Nat \ {0}

ASSUME FilesAssumption ==
  /\ Files \subseteq FileType
  /\ \A f \in Files, s \in Section : SectionEnd(f, s) <= f.size

ASSUME StaleAssumption == Stale \notin Nat

-----------------------------------------------------------------------------
ByteIndex == 0 .. ChunkSize - 1

\* A buffer nothing has written to.
Blank == [i \in ByteIndex |-> Stale]

\* What the chunk buffer may hold while file f is read.
ChunkOf(f) == [ByteIndex -> 0 .. f.size - 1 \cup {Stale}]

\* The bytes the digest is to leave out.
Protected(f, p) ==
  \E s \in Section : Present(f, s) /\ f.offset[s] <= p /\ p < SectionEnd(f, s)

\* The first byte of the chunk that byte p lies in.
ChunkStart(p) == p - (p % ChunkSize)

(***************************************************************************)
(* The layouts on which the chunk loop does what it is for:                *)
(*   - no section begins on a chunk boundary;                              *)
(*   - a section that reaches beyond the chunk after its first ends on a   *)
(*     chunk boundary;                                                     *)
(*   - a section begins in a chunk that no other section reaches.          *)
(***************************************************************************)
PresentSections(f) == {s \in Section : Present(f, s)}

Isolated(f) ==
  \A s \in PresentSections(f) :
    /\ f.offset[s] # ChunkStart(f.offset[s])
    /\ \/ SectionEnd(f, s) <= ChunkStart(f.offset[s]) + 2 * ChunkSize
       \/ SectionEnd(f, s) = ChunkStart(SectionEnd(f, s))
    /\ \A t \in PresentSections(f) \ {s} :
         \/ SectionEnd(f, t) <= ChunkStart(f.offset[s])
         \/ ChunkStart(f.offset[s]) + ChunkSize <= f.offset[t]

\* The chunk that begins at byte p of file f, as it should enter the hash from
\* a buffer that held the bytes left.
Image(f, p, left) ==
  [i \in ByteIndex |->
    IF p + i < f.size /\ ~Protected(f, p + i) THEN p + i ELSE left[i]]
=============================================================================
