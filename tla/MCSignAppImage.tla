--------------------------- MODULE MCSignAppImage ---------------------------
(***************************************************************************)
(* A file of six bytes with sections of two bytes, in both orders; with    *)
(* one section missing, empty or named twice; and of an unknown ELF class. *)
(***************************************************************************)
EXTENDS SignAppImage

Sig(o, n) == [name |-> "sha256_sig", offset |-> o, length |-> n]
Key(o, n) == [name |-> "sig_key", offset |-> o, length |-> n]

Table(headers) == [class |-> 64, headers |-> headers]

SmallTables ==
  {Table(<<Sig(1, 2), Key(3, 2)>>),
   Table(<<Key(1, 2), Sig(3, 2)>>),
   Table(<<Sig(1, 1), Key(4, 2), Sig(2, 2)>>),
   Table(<<Sig(1, 2)>>),
   Table(<<Key(1, 2)>>),
   Table(<<Sig(1, 2), Key(3, 0)>>),
   [class |-> 0, headers |-> <<>>]}
=============================================================================
