--------------------------- MODULE MCType2Digest ---------------------------
(***************************************************************************)
(* Every placement of the three sections, overlaps excluded, in files of   *)
(* the given sizes, in which the ELF header takes the first byte; and the  *)
(* isolated placements in files of some more sizes.                        *)
(***************************************************************************)
EXTENDS Type2Digest, TLC

CONSTANTS
  Sizes,         \* the file sizes to consider
  IsolatedSizes  \* the sizes of which only isolated files are

None == <<0, 0>>

\* The places <<offset, length>> of a section in a file of size n.
Places(n) ==
  {None} \cup {p \in (1 .. n - 1) \X (1 .. n - 1) : p[1] + p[2] <= n}

Apart(p, q) == p[1] + p[2] <= q[1] \/ q[1] + q[2] <= p[1]

\* The section table with the sections at p, q and r: column 1 for the
\* offsets, column 2 for the lengths.
Column(c, p, q, r) ==
  "digest_md5" :> p[c] @@ "sha256_sig" :> q[c] @@ "sig_key" :> r[c]

File(n, c, p, q, r) ==
  [size |-> n, class |-> c,
   offset |-> Column(1, p, q, r), length |-> Column(2, p, q, r)]

DisjointPairs(n) == {<<p, q>> \in Places(n) \X Places(n) : Apart(p, q)}

FilesOfSize(n) ==
  UNION {{File(n, 64, pq[1], pq[2], r) :
            r \in {t \in Places(n) : Apart(pq[1], t) /\ Apart(pq[2], t)}} :
         pq \in DisjointPairs(n)}

Unreadable == {File(n, 0, None, None, None) : n \in Sizes}

DisjointFiles == {f : f \in Unreadable \cup UNION {FilesOfSize(n) : n \in Sizes}}

IsolatedFiles ==
  {f : f \in {g \in UNION {FilesOfSize(n) : n \in IsolatedSizes} : Isolated(g)}}

SmallFiles == {f : f \in UNION {DisjointFiles, IsolatedFiles}}
=============================================================================
