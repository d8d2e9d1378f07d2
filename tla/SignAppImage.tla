---------------------------- MODULE SignAppImage ----------------------------
(***************************************************************************)
(* One call of sign_appimage (src/src/appimagetool_sign.c) on a file.      *)
(*                                                                         *)
(* The file is hashed, the digest is signed by a key of the keyring, the   *)
(* signature is embedded in one ELF section of the file and the public key *)
(* in another.  Every call of gpgme, gcrypt and stdio may fail.            *)
(*                                                                         *)
(* gpgme's objects are held through five static pointers; gpgme itself     *)
(* knows which of them exist (live).  A byte of the file is modelled by    *)
(* what put it there.                                                      *)
(***************************************************************************)
EXTENDS Integers, Sequences, FiniteSets

CONSTANTS
  FileSize,       \* bytes of the file
  Tables,         \* the section tables considered: records of TableType
  Keyring,        \* the secret keys gpg has
  KeyIds,         \* what --sign-key may name, among it keys gpg does not have
  NoKey,          \* no key named or chosen
  SignatureSizes, \* how long an armored signature may be; it has a header
  KeySizes,       \* how long an exported key may be; 0: gpg exports nothing
  SizeMod         \* how many values a size_t has (2^64)

Section == {"sha256_sig", "sig_key"}

\* A section table: its ELF class (0: unknown), and its headers in order.
Header == [name : Section, offset : Nat, length : Nat]
TableType == [class : {0, 32, 64}, headers : Seq(Header)]

ASSUME SizesAssumption ==
  /\ FileSize \in Nat /\ SizeMod \in Nat \ {0}
  /\ SignatureSizes \subseteq Nat \ {0} /\ KeySizes \subseteq Nat
  /\ \A n \in SignatureSizes \cup KeySizes : n < SizeMod

ASSUME KeysAssumption == NoKey \notin Keyring \cup KeyIds

Index == 0 .. FileSize - 1

\* The bytes of a section that starts at byte o and has length n.
Bytes(o, n) == {i \in Index : o <= i /\ i < o + n}

\* The last header of a name wins.  Without one the caller's zeros stay.
Find(t, s) ==
  LET named == {k \in DOMAIN t.headers : t.headers[k].name = s}
  IN IF named = {} THEN [name |-> s, offset |-> 0, length |-> 0]
     ELSE t.headers[CHOOSE k \in named : \A l \in named : l <= k]

Extent(t, s) == Bytes(Find(t, s).offset, Find(t, s).length)

\* The sections that the lookup finds lie in the file, apart from each other.
ASSUME TablesAssumption ==
  /\ Tables \subseteq TableType
  /\ \A t \in Tables, s \in Section : Find(t, s).offset + Find(t, s).length <= FileSize
  /\ \A t \in Tables : Extent(t, "sha256_sig") \cap Extent(t, "sig_key") = {}

\* Bytes of the runtime and the payload; byte i of what goes to section s.
ByteType == [of : {"file", "blank", "old", "stack"} \cup Section, at : Nat]
FileByte(i) == [of |-> "file", at |-> i]
Blank == [of |-> "blank", at |-> 0]
Old == [of |-> "old", at |-> 0]
Stack == [of |-> "stack", at |-> 0]

Object == {"ctx", "appimage_file_data", "sig_data", "key", "key_data"}

VARIABLES
  pc,          \* the call made next, or how it all ended
  table,       \* the section table of the file
  key_id,      \* the key asked for, or NoKey
  verbose,
  bytes,       \* the file
  original,    \* the file when the call began; no action reads it
  pointers,    \* the static pointers that are not NULL
  live,        \* the objects that exist
  open,        \* the streams and gcrypt handles that are open
  digest,      \* what the digest was computed over, <<>> before that
  signer,      \* the key chosen
  size,        \* per section, the size of the data made for it
  target,      \* the section being filled
  cursor,      \* how far the data object has been read
  total        \* total_bytes_read, a size_t

request == <<table, key_id, verbose, original>>
gpg == <<pointers, live, signer, size>>
reading == <<target, cursor, total>>
vars == <<pc, request, bytes, gpg, open, digest, reading>>

\* The file with c in both sections.
Filled(t, c) ==
  [i \in Index |-> IF \E s \in Section : i \in Extent(t, s) THEN c ELSE FileByte(i)]

\* The sections of a fresh runtime are blank, those of one signed before not.
Init ==
  /\ pc = "gpgme"
  /\ table \in Tables
  /\ key_id \in KeyIds \cup {NoKey}
  /\ verbose \in BOOLEAN
  /\ bytes \in {Filled(table, Blank), Filled(table, Old)}
  /\ original = bytes
  /\ pointers = {}
  /\ live = {}
  /\ open = {}
  /\ digest = <<>>
  /\ signer = NoKey
  /\ size = [s \in Section |-> 0]
  /\ target = "sha256_sig"
  /\ cursor = 0
  /\ total = 0

-----------------------------------------------------------------------------
At(step) == pc = step
Goto(step) == pc' = step

Obtain(o) == pointers' = pointers \cup {o} /\ live' = live \cup {o}

\* Variant: the pointers keep their values.
ReleaseWithoutReset == live' = live \ pointers /\ UNCHANGED pointers

\* Variant: the key is forgotten.
ReleaseAllButKey ==
  live' = live \ (pointers \ {"key"}) /\ pointers' = pointers \cap {"key"}

\* gpg_release_resources: what a pointer holds is released, then it is NULL.
ReleaseResources == live' = live \ pointers /\ pointers' = {}

\* A helper has released and returned false; its caller releases once more.
FailInHelper ==
  /\ Goto("failed")
  /\ ReleaseResources
  /\ UNCHANGED <<request, bytes, signer, size, digest, reading>>

Fail ==
  /\ Goto("false")
  /\ ReleaseResources
  /\ UNCHANGED <<request, bytes, signer, size, digest, reading>>

ReleaseAgain == At("failed") /\ Fail /\ UNCHANGED open

CheckGpgme ==
  /\ At("gpgme")
  /\ \/ Goto("open") /\ UNCHANGED <<request, bytes, gpg, digest, reading>>
     \/ Fail
  /\ UNCHANGED open

-----------------------------------------------------------------------------
(* calculate_sha256_hex_digest.  Its result of init_gcrypt is not used. *)

OpenFile ==
  /\ At("open")
  /\ \/ /\ Goto("md_open")
        /\ open' = open \cup {"file"}
        /\ UNCHANGED <<request, bytes, gpg, digest, reading>>
     \/ FailInHelper /\ UNCHANGED open

\* When it fails the stream stays open.
OpenDigest ==
  /\ At("md_open")
  /\ \/ /\ Goto("hash")
        /\ open' = open \cup {"digest"}
        /\ UNCHANGED <<request, bytes, gpg, digest, reading>>
     \/ FailInHelper /\ UNCHANGED open

\* The chunks up to the end of the file or an error, and fclose.
HashFile ==
  /\ At("hash")
  /\ \/ /\ Goto("md_final")
        /\ open' = open \ {"file"}
        /\ digest' = bytes
        /\ UNCHANGED <<request, bytes, gpg, reading>>
     \/ Fail /\ open' = {}

\* When gcry_md_final fails the handle stays open.
FinishDigest ==
  /\ At("md_final")
  /\ \/ /\ Goto("new")
        /\ open' = {}
        /\ UNCHANGED <<request, bytes, gpg, digest, reading>>
     \/ FailInHelper /\ UNCHANGED open
     \/ Fail /\ open' = {}

-----------------------------------------------------------------------------
NewContext ==
  /\ At("new")
  /\ \/ /\ Goto("engine")
        /\ Obtain("ctx")
        /\ UNCHANGED <<request, bytes, signer, size, digest, reading>>
     \/ Fail
  /\ UNCHANGED open

\* No engine for the protocol: its name is taken from a null pointer.  An
\* engine that is not gpg 2: the process exits.  A version that is not
\* understood passes.
CheckEngine ==
  /\ At("engine")
  /\ \/ Goto("flag") /\ UNCHANGED gpg
     \/ Goto("exit") /\ UNCHANGED gpg
     \/ Goto("crash") /\ UNCHANGED gpg
     \/ Goto("false") /\ ReleaseResources /\ UNCHANGED <<signer, size>>
  /\ UNCHANGED <<request, bytes, open, digest, reading>>

SetFlag ==
  /\ At("flag")
  /\ \/ Goto("get_key") /\ UNCHANGED <<request, bytes, gpg, digest, reading>>
     \/ verbose /\ Fail
  /\ UNCHANGED open

\* The key asked for, or the first one gpg lists.  The name of its first user
\* ID is printed; of a key without one, from a null pointer.
GetKey ==
  /\ At("get_key")
  /\ \/ /\ pc' \in {"add_signer", "crash"}
        /\ signer' \in IF key_id = NoKey THEN Keyring ELSE Keyring \cap {key_id}
        /\ Obtain("key")
        /\ UNCHANGED <<request, bytes, size, digest, reading>>
     \/ FailInHelper
  /\ UNCHANGED open

AddSigner ==
  /\ At("add_signer")
  /\ \/ Goto("file_data") /\ UNCHANGED <<request, bytes, gpg, digest, reading>>
     \/ FailInHelper
  /\ UNCHANGED open

WrapDigest ==
  /\ At("file_data")
  /\ \/ /\ Goto("sig_data")
        /\ Obtain("appimage_file_data")
        /\ UNCHANGED <<request, bytes, signer, size, digest, reading>>
     \/ Fail
  /\ UNCHANGED open

NewSignature ==
  /\ At("sig_data")
  /\ \/ /\ Goto("op_sign")
        /\ Obtain("sig_data")
        /\ UNCHANGED <<request, bytes, signer, size, digest, reading>>
     \/ Fail
  /\ UNCHANGED open

\* Variant: the signature goes to the section of the key.
SignIntoKey ==
  /\ At("op_sign")
  /\ Goto("measure")
  /\ \E n \in SignatureSizes : size' = [size EXCEPT !["sig_key"] = n]
  /\ target' = "sig_key"
  /\ UNCHANGED <<request, bytes, pointers, live, signer, open, digest, cursor, total>>

\* Without a result, the objects are released and the process exits.  A result
\* without a signature is a null pointer; one with two fails an assertion, or
\* passes where assertions are not compiled.
Sign ==
  /\ At("op_sign")
  /\ \/ /\ Goto("measure")
        /\ \E n \in SignatureSizes : size' = [size EXCEPT !["sha256_sig"] = n]
        /\ target' = "sha256_sig"
        /\ UNCHANGED <<pointers, live, signer, cursor, total>>
     \/ /\ pc' \in {"false", "exit"}
        /\ ReleaseResources
        /\ UNCHANGED <<signer, size, reading>>
     \/ pc' \in {"crash", "abort"} /\ UNCHANGED <<gpg, reading>>
  /\ UNCHANGED <<request, bytes, open, digest>>

-----------------------------------------------------------------------------
(* embed_data_in_elf_section(filename, target, data) *)

\* Variant: one byte more than the section has.
FitsNearly(s) == size[s] <= Find(table, s).length + 1

Fits(s) == size[s] <= Find(table, s).length

\* The section exists, the data object can be measured and rewound, and the
\* section has room for the data.
Measure ==
  /\ At("measure")
  /\ \/ /\ table.class # 0
        /\ Find(table, target).offset # 0
        /\ Find(table, target).length # 0
        /\ Fits(target)
        /\ Goto("read")
        /\ cursor' = 0
        /\ total' = 0
        /\ UNCHANGED <<request, bytes, gpg, digest, target>>
     \/ FailInHelper
  /\ UNCHANGED open

\* A memory object delivers all it has.
ReadData ==
  /\ At("read")
  /\ cursor < size[target]
  /\ total' = (total + (size[target] - cursor)) % SizeMod
  /\ cursor' = size[target]
  /\ UNCHANGED <<pc, request, bytes, gpg, open, digest, target>>

\* Variant: the total is a signed number.
ReadFailsSigned ==
  /\ At("read")
  /\ total' = total - 1
  /\ UNCHANGED <<pc, request, bytes, gpg, open, digest, target, cursor>>

\* The error is added to the total as -1, for bytes_read is unsigned and never
\* below zero, and the loop goes on: as long as the errors do.
ReadFails ==
  /\ At("read")
  /\ total' = (total - 1) % SizeMod
  /\ UNCHANGED <<pc, request, bytes, gpg, open, digest, target, cursor>>

\* Variant: the loop ends at an error too, and the total is not compared.
ReadEndsUnchecked ==
  /\ At("read")
  /\ cursor = size[target] \/ total # cursor
  /\ Goto("fopen")
  /\ UNCHANGED <<request, bytes, gpg, open, digest, reading>>

\* Variant: at its end the data object is rewound and read again.
ReadNeverEnds ==
  /\ At("read")
  /\ cursor = size[target]
  /\ cursor' = 0
  /\ UNCHANGED <<pc, request, bytes, gpg, open, digest, target, total>>

ReadEnds ==
  /\ At("read")
  /\ cursor = size[target]
  /\ IF total = size[target]
     THEN Goto("fopen") /\ UNCHANGED <<request, bytes, gpg, digest, reading>>
     ELSE FailInHelper
  /\ UNCHANGED open

OpenDestination ==
  /\ At("fopen")
  /\ \/ /\ Goto("fwrite")
        /\ open' = open \cup {"destination"}
        /\ UNCHANGED <<request, bytes, gpg, digest, reading>>
     \/ FailInHelper /\ UNCHANGED open

\* Byte i of data_buffer: what has been read, or what was on the stack.
Buffered(s, i) == IF i < cursor THEN [of |-> s, at |-> i] ELSE Stack

\* The file with the first n bytes of the buffer in section s.
Written(s, n) ==
  LET o == Find(table, s).offset
  IN [i \in Index |-> IF i \in Bytes(o, n) THEN Buffered(s, i - o) ELSE bytes[i]]

\* fseek and fwrite; some bytes may have reached the file when one fails.
WriteDestination ==
  /\ At("fwrite")
  /\ \/ Goto("fclose") /\ UNCHANGED <<pointers, live, open>>
     \/ Goto("failed") /\ ReleaseResources /\ open' = open \ {"destination"}
  /\ \E n \in 0 .. size[target] : bytes' = Written(target, n)
  /\ UNCHANGED <<request, signer, size, digest, reading>>

\* What is next once a section is filled.
After(s) == IF s = "sha256_sig" THEN "key_data" ELSE "release"

\* Variant: the result of fclose is not looked at.
CloseUnchecked ==
  /\ At("fclose")
  /\ Goto(After(target))
  /\ open' = open \ {"destination"}
  /\ \E n \in 0 .. size[target] : bytes' = Written(target, n)
  /\ UNCHANGED <<request, gpg, digest, reading>>

CloseDestination ==
  /\ At("fclose")
  /\ open' = open \ {"destination"}
  /\ \/ /\ Goto(After(target))
        /\ bytes' = Written(target, size[target])
        /\ UNCHANGED <<pointers, live>>
     \/ /\ Goto("failed")
        /\ ReleaseResources
        /\ \E n \in 0 .. size[target] : bytes' = Written(target, n)
  /\ UNCHANGED <<request, signer, size, digest, reading>>

-----------------------------------------------------------------------------
\* The result is not looked at; without an object the export fails.
NewKeyData ==
  /\ At("key_data")
  /\ Goto("export")
  /\ Obtain("key_data") \/ UNCHANGED <<pointers, live>>
  /\ UNCHANGED <<request, bytes, signer, size, open, digest, reading>>

ExportKey ==
  /\ At("export")
  /\ \/ /\ "key_data" \in live
        /\ Goto("measure")
        /\ \E n \in KeySizes : size' = [size EXCEPT !["sig_key"] = n]
        /\ target' = "sig_key"
        /\ UNCHANGED <<request, bytes, pointers, live, signer, digest, cursor, total>>
     \/ Fail
  /\ UNCHANGED open

Return ==
  /\ At("release")
  /\ Goto("true")
  /\ ReleaseResources
  /\ UNCHANGED <<request, bytes, signer, size, open, digest, reading>>

Step ==
  \/ CheckGpgme \/ OpenFile \/ OpenDigest \/ HashFile \/ FinishDigest
  \/ NewContext \/ CheckEngine \/ SetFlag \/ GetKey \/ AddSigner
  \/ WrapDigest \/ NewSignature \/ Sign
  \/ Measure \/ ReadData \/ ReadFails \/ ReadEnds
  \/ OpenDestination \/ WriteDestination \/ CloseDestination
  \/ NewKeyData \/ ExportKey \/ Return \/ ReleaseAgain

(***************************************************************************)
(* gpg and the agent answer, and the call takes its steps.  Nothing is     *)
(* assumed of the reads of a data object: they may fail for ever.          *)
(***************************************************************************)
Spec == Init /\ [][Step]_vars /\ WF_vars(Step)

-----------------------------------------------------------------------------
Returned == {"true", "false"}
Ended == Returned \cup {"exit", "crash", "abort"}

TypeOK ==
  /\ pc \in Ended \cup {"gpgme", "open", "md_open", "hash", "md_final", "new",
        "engine", "flag", "get_key", "add_signer", "file_data", "sig_data",
        "op_sign", "measure", "read", "fopen", "fwrite", "fclose", "key_data",
        "export", "release", "failed"}
  /\ table \in Tables
  /\ key_id \in KeyIds \cup {NoKey}
  /\ verbose \in BOOLEAN
  /\ bytes \in [Index -> ByteType] /\ original \in [Index -> ByteType]
  /\ pointers \subseteq Object /\ live \subseteq Object
  /\ open \subseteq {"file", "digest", "destination"}
  /\ digest \in {<<>>, original}
  /\ signer \in Keyring \cup {NoKey}
  /\ size \in [Section -> Nat]
  /\ target \in Section
  /\ cursor \in Nat
  /\ total \in 0 .. SizeMod - 1

\* However often an error path and its callers release, a static pointer is
\* NULL or holds an object that exists, and every object that exists is held
\* by one: nothing is released twice and nothing is lost (sign.c:64).
PointersHoldObjects == pointers = live

\* Whatever call fails, sign_appimage returns with every gpgme object released
\* (appimagetool_sign.h:6).
ReleasedOnReturn == pc \in Returned => live = {}

\* Section s holds all of the data made for it.
Holds(s) ==
  \A i \in 0 .. size[s] - 1 :
    bytes[Find(table, s).offset + i] = [of |-> s, at |-> i]

\* True means that both sections hold the whole of their data, the signature
\* of the key that is exported beside it, and that this is the key asked for:
\* no short read, no write cut off and no error of a read gets through.
SuccessComplete ==
  pc = "true" =>
    /\ \A s \in Section : Holds(s) /\ size[s] <= Find(table, s).length
    /\ digest = original
    /\ signer # NoKey
    /\ key_id # NoKey => signer = key_id

\* The file with both sections blank.
Blanked(b) ==
  [i \in Index |-> IF \E s \in Section : i \in Extent(table, s) THEN Blank ELSE b[i]]

\* Once the signature is in a file whose sections were blank, it verifies, at
\* every moment, also while the key is embedded and after that has failed:
\* what was signed is the file with both sections blank.
SignatureStaysValid ==
  /\ target = "sig_key" \/ pc \in {"key_data", "export"}
  /\ original = Blanked(original)
  => Holds("sha256_sig") /\ digest = Blanked(bytes)

\* A step writes into the section being filled and nowhere else.
WritesItsSection ==
  [][\A i \in Index : bytes'[i] # bytes[i] => i \in Extent(table, target)]_vars

\* Section s has room for its data and holds all of it.
Whole(s) == Holds(s) /\ size[s] <= Find(table, s).length

\* What section s holds.  There may be an empty key, there is no empty signature.
SectionState(s) ==
  IF Whole(s) /\ (size[s] > 0 \/ pc \in {"release", "true"}) THEN "whole"
  ELSE IF \A i \in Extent(table, s) : bytes[i] = original[i] THEN "before" ELSE "part"

Stage ==
  IF pc \in {"false", "exit", "crash", "abort"} THEN "died"
  ELSE IF pc \in {"release", "true"} THEN "signed"
  ELSE IF target = "sig_key" \/ pc \in {"key_data", "export"} THEN "key" ELSE "sign"

\* sign_appimage keeps the promise of SignPromise, the two steps that it is in
\* main: whatever call fails, the section of the key is as it was until the
\* signature is in the file as a whole, that one stays, and true is returned
\* after both.
Promise == INSTANCE SignPromise WITH
  stage <- Stage, signature <- SectionState("sha256_sig"), key <- SectionState("sig_key")

KeepsSignPromise == Promise!Spec

\* The call returns or the process ends, whatever fails, if only the reads of a
\* data object do not fail for ever: errors before that only spoil the sum
\* that is compared after the loop (appimagetool_sign.c:254).
CallEnds == <>[][~ReadFails]_vars => (At("gpgme") ~> pc \in Ended)

\* What the test at appimagetool_sign.c:245 says: a read that fails is reported
\* and ends the loop, so that the loop ends however often reads fail.
ReadErrorEndsLoop == At("read") ~> ~At("read")

\* The message at appimagetool_sign.c:339 reports that no engine was found,
\* and the process exits in an orderly way.
MissingEngineReported == [][At("engine") => pc' # "crash"]_vars
=============================================================================
