------------------------- MODULE SignAppImageProofs -------------------------
(***************************************************************************)
(* sign_appimage, for every section table, every keyring and every size of *)
(* the signature and the key, and whichever of its calls fail.             *)
(*                                                                         *)
(* Inv says, for the call made next, what the calls before have left: in   *)
(* the objects (Objects), in the choice of the key (Choice), in the        *)
(* digest and the bytes beside the sections (Content), and in the sections *)
(* (Filling); and what they have not done yet (Order).                     *)
(***************************************************************************)
EXTENDS SignAppImage, WellFoundedInduction, TLAPS

Writing == {"read", "fopen", "fwrite", "fclose"}
Embedding == {"measure", "key_data", "export", "release"} \cup Writing
WithKey == {"add_signer", "file_data", "sig_data", "op_sign", "true"} \cup Embedding
Hashed == {"md_final", "new", "engine", "flag", "get_key"} \cup WithKey

\* What failed, and what returned, has released.
Objects ==
  /\ pointers = live
  /\ pc \in {"failed", "true", "false"} => live = {}

Choice ==
  pc \in WithKey => signer \in Keyring /\ (key_id # NoKey => signer = key_id)

\* Only the sections are written, and only after the file has been hashed.
Content ==
  /\ pc \in {"gpgme", "open", "md_open", "hash"} => bytes = original
  /\ pc \in Hashed \/ target = "sig_key" => digest = original
  /\ Blanked(bytes) = Blanked(original)

\* The buffer has all of the data once it is written, the signature is in the
\* file before the key is, and after both the call returns.
Filling ==
  /\ pc \in Writing => size[target] <= Find(table, target).length
  /\ pc \in {"fopen", "fwrite", "fclose"} => cursor = size[target]
  /\ target = "sig_key" \/ pc \in {"key_data", "export"} => Whole("sha256_sig")
  /\ pc \in {"release", "true"} => target = "sig_key" /\ Whole("sig_key")

Unsigned == {"gpgme", "open", "md_open", "hash", "md_final", "new", "engine", "flag",
             "get_key", "add_signer", "file_data", "sig_data", "op_sign"}

Untouched(s) == \A i \in Extent(table, s) : bytes[i] = original[i]

\* The file is as it was until there is a signature, the section of the key
\* until there is a key; what goes to a section was not in the file before.
Order ==
  /\ \A i \in Index : original[i].of \notin Section
  /\ pc \in Unsigned => target = "sha256_sig" /\ size["sha256_sig"] = 0
  /\ size["sha256_sig"] = 0 =>
       pc \notin Embedding /\ target = "sha256_sig" /\ Untouched("sha256_sig")
  /\ target = "sha256_sig" => size["sig_key"] = 0 /\ Untouched("sig_key")
  /\ pc \in {"key_data", "export"} => target = "sha256_sig"

Inv == TypeOK /\ Objects /\ Choice /\ Content /\ Filling /\ Order

-----------------------------------------------------------------------------
(* The sections. *)

\* Among numbers up to n there is a last one.
LEMMA LastOne ==
  ASSUME NEW n \in Nat, NEW K \in SUBSET (1 .. n), K # {}
  PROVE  \E k \in K : \A l \in K : l <= k
<1> DEFINE Left == {d \in Nat : n - d \in K}
<1>1. \A k \in K : k \in Int /\ n - k \in Nat /\ n - (n - k) = k
  OBVIOUS
<1>2. Left \subseteq Nat /\ Left # {}
  BY <1>1
<1>3. PICK m \in Left : \A d \in Left : ~(<<d, m>> \in OpToRel(<, Nat))
  <2> HIDE DEF Left
  <2> QED
    BY <1>2, WFMin, NatLessThanWellFounded, Zenon
<1>4. \A d \in Left : ~(d < m)
  <2> HIDE DEF Left
  <2> QED
    BY <1>2, <1>3, Zenon DEF OpToRel
<1>5. n - m \in K /\ m \in Nat
  OBVIOUS
<1>6. ASSUME NEW l \in K PROVE l <= n - m
  <2>1. n - l \in Left
    BY <1>1
  <2>2. ~(n - l < m)
    BY <1>4, <2>1
  <2> QED
    BY <1>1, <1>5, <2>2
<1> QED
  BY <1>5, <1>6

LEMMA FindType ==
  ASSUME NEW t \in Tables, NEW s \in Section
  PROVE  /\ Find(t, s).offset \in Nat
         /\ Find(t, s).length \in Nat
         /\ Find(t, s).offset + Find(t, s).length <= FileSize
<1> DEFINE named == {k \in DOMAIN t.headers : t.headers[k].name = s}
<1>1. t.headers \in Seq(Header)
  BY TablesAssumption DEF TableType
<1>2. CASE named = {}
  BY <1>2, TablesAssumption DEF Find
<1>3. CASE named # {}
  <2>1. named \subseteq 1 .. Len(t.headers) /\ Len(t.headers) \in Nat
    BY <1>1
  <2>2. \E k \in named : \A l \in named : l <= k
    <3> HIDE DEF named
    <3> QED
      BY <1>3, <2>1, LastOne
  <2>3. (CHOOSE k \in named : \A l \in named : l <= k) \in named
    <3> HIDE DEF named
    <3> QED
      BY <2>2
  <2>4. Find(t, s) = t.headers[CHOOSE k \in named : \A l \in named : l <= k]
    BY <1>3 DEF Find
  <2>5. Find(t, s) \in Header
    <3> HIDE DEF named
    <3> DEFINE last == CHOOSE k \in named : \A l \in named : l <= k
    <3>1. last \in 1 .. Len(t.headers)
      BY <2>1, <2>3
    <3> HIDE DEF last
    <3>2. t.headers[last] \in Header
      BY <1>1, <3>1
    <3> QED
      BY <2>4, <3>2 DEF last
  <2> QED
    BY <2>5, TablesAssumption DEF Header
<1> QED
  BY <1>2, <1>3

\* The bytes of the data that go to section s lie in it and in the file.
LEMMA DataInSection ==
  ASSUME NEW t \in Tables, NEW s \in Section, NEW n \in Nat, n <= Find(t, s).length
  PROVE  /\ Bytes(Find(t, s).offset, n) \subseteq Extent(t, s)
         /\ \A i \in 0 .. n - 1 : Find(t, s).offset + i \in Bytes(Find(t, s).offset, n)
<1>1. FileSize \in Nat
  BY SizesAssumption
<1> QED
  BY <1>1, FindType DEF Extent, Bytes, Index

\* What a write leaves.
LEMMA WrittenBytes ==
  ASSUME TypeOK, NEW n \in 0 .. size[target], size[target] <= Find(table, target).length
  PROVE  /\ Written(target, n) \in [Index -> ByteType]
         /\ \A i \in Index :
              Written(target, n)[i] # bytes[i] => i \in Extent(table, target)
<1> DEFINE o == Find(table, target).offset
<1>1. table \in Tables /\ target \in Section /\ n \in Nat /\ cursor \in Nat
      /\ bytes \in [Index -> ByteType] /\ n <= Find(table, target).length
  <2>1. size[target] \in Nat
    BY DEF TypeOK
  <2> QED
    BY <2>1, FindType DEF TypeOK
<1>2. o \in Nat
  BY <1>1, FindType
<1>3. ASSUME NEW i \in Bytes(o, n) PROVE Buffered(target, i - o) \in ByteType
  <2>1. i - o \in Nat
    BY <1>2 DEF Bytes, Index
  <2> QED
    BY <1>1, <2>1 DEF Buffered, ByteType, Stack, Section
<1>4. Bytes(o, n) \subseteq Extent(table, target)
  BY <1>1, DataInSection
<1> HIDE DEF o
<1>5. Written(target, n)
        = [i \in Index |-> IF i \in Bytes(o, n) THEN Buffered(target, i - o) ELSE bytes[i]]
  BY DEF Written, o
<1> QED
  BY <1>1, <1>3, <1>4, <1>5

-----------------------------------------------------------------------------
(* The steps. *)

\* A call that may change the data, the counters or the file.
Moves ==
  \/ Sign \/ Measure \/ ReadData \/ ReadFails
  \/ WriteDestination \/ CloseDestination \/ ExportKey

\* Every other one leaves them alone, and a helper or the call that fails.
LEMMA OtherSteps ==
  ASSUME [Step]_vars, ~Moves
  PROVE  UNCHANGED <<request, bytes, size, reading>>
BY DEF Moves, Step, vars, gpg, request, reading, Obtain, ReleaseResources,
       FailInHelper, Fail, ReleaseAgain, CheckGpgme, OpenFile, OpenDigest, HashFile,
       FinishDigest, NewContext, CheckEngine, SetFlag, GetKey, AddSigner, WrapDigest,
       NewSignature, ReadEnds, OpenDestination, NewKeyData, Return

\* Whatever fails, what was obtained is released.
LEMMA ObjectsStep == Objects /\ [Step]_vars => Objects'
BY DEF Objects, Step, vars, gpg, request, reading, At, Goto, Obtain, ReleaseResources,
       FailInHelper, Fail, ReleaseAgain, CheckGpgme, OpenFile, OpenDigest, HashFile,
       FinishDigest, NewContext, CheckEngine, SetFlag, GetKey, AddSigner, WrapDigest,
       NewSignature, Sign, Measure, ReadData, ReadFails, ReadEnds, OpenDestination,
       WriteDestination, CloseDestination, NewKeyData, ExportKey, Return, After

\* The key is chosen once.
LEMMA ChoiceStep == Choice /\ [Step]_vars => Choice'
BY DEF Choice, WithKey, Embedding, Writing,
       Step, vars, gpg, request, reading, At, Goto, Obtain, ReleaseResources,
       FailInHelper, Fail, ReleaseAgain, CheckGpgme, OpenFile, OpenDigest, HashFile,
       FinishDigest, NewContext, CheckEngine, SetFlag, GetKey, AddSigner, WrapDigest,
       NewSignature, Sign, Measure, ReadData, ReadFails, ReadEnds, OpenDestination,
       WriteDestination, CloseDestination, NewKeyData, ExportKey, Return, After

\* A write changes the section being filled and nothing else.
LEMMA WriteStep ==
  ASSUME TypeOK, Filling, WriteDestination \/ CloseDestination
  PROVE  /\ UNCHANGED <<table, target, size, cursor, original, digest>>
         /\ \E n \in 0 .. size[target] : bytes' = Written(target, n)
         /\ bytes' \in [Index -> ByteType]
         /\ \A i \in Index : bytes'[i] # bytes[i] => i \in Extent(table, target)
<1>1. pc \in {"fwrite", "fclose"} /\ size[target] \in Nat
  BY DEF WriteDestination, CloseDestination, At, TypeOK
<1>2. size[target] <= Find(table, target).length
  BY <1>1 DEF Filling, Writing
<1>3. PICK n \in 0 .. size[target] : bytes' = Written(target, n)
  BY <1>1 DEF WriteDestination, CloseDestination
<1>4. UNCHANGED <<table, target, size, cursor, original, digest>>
  BY DEF WriteDestination, CloseDestination, request, reading
<1> QED
  BY <1>2, <1>3, <1>4, WrittenBytes

LEMMA TypeStep == TypeOK /\ Filling /\ Content /\ [Step]_vars => TypeOK'
<1> SUFFICES ASSUME TypeOK, Filling, Content, [Step]_vars PROVE TypeOK'
  OBVIOUS
<1> USE DEF TypeOK, Returned, Ended, At, Goto, request, reading, gpg, ReleaseResources
<1>0. SizeMod \in Nat \ {0} /\ total \in Int /\ cursor \in Nat
  BY SizesAssumption
<1>1. /\ pc' \in Ended \cup {"gpgme", "open", "md_open", "hash", "md_final", "new",
          "engine", "flag", "get_key", "add_signer", "file_data", "sig_data",
          "op_sign", "measure", "read", "fopen", "fwrite", "fclose", "key_data",
          "export", "release", "failed"}
      /\ pointers' \subseteq Object /\ live' \subseteq Object
      /\ open' \subseteq {"file", "digest", "destination"}
      /\ UNCHANGED request
      /\ signer' \in Keyring \cup {NoKey}
      /\ digest' \in {<<>>, original}
  BY DEF Content, Object, Step, vars, Obtain,
       FailInHelper, Fail, ReleaseAgain, CheckGpgme, OpenFile, OpenDigest, HashFile,
       FinishDigest, NewContext, CheckEngine, SetFlag, GetKey, AddSigner, WrapDigest,
       NewSignature, Sign, Measure, ReadData, ReadFails, ReadEnds, OpenDestination,
       WriteDestination, CloseDestination, NewKeyData, ExportKey, Return, After
<1>2. CASE ~Moves
  BY <1>1, <1>2, OtherSteps
<1>3. CASE WriteDestination \/ CloseDestination
  <2>1. bytes' \in [Index -> ByteType] /\ UNCHANGED <<size, reading>>
    BY <1>3, WriteStep DEF WriteDestination, CloseDestination
  <2> QED
    BY <1>1, <2>1
<1>4. CASE Sign
  BY <1>1, <1>4, SizesAssumption DEF Sign, Section
<1>5. CASE ExportKey
  BY <1>1, <1>5, SizesAssumption DEF ExportKey, Fail, Section
<1>6. CASE Measure
  BY <1>0, <1>1, <1>6 DEF Measure, FailInHelper
<1>7. CASE ReadData
  <2>1. size[target] \in Nat
    OBVIOUS
  <2>2. total + (size[target] - cursor) \in Int
    BY <1>0, <2>1
  <2>3. total' \in 0 .. SizeMod - 1
    BY <1>0, <1>7, <2>2 DEF ReadData
  <2> QED
    BY <1>1, <1>7, <2>1, <2>3 DEF ReadData
<1>8. CASE ReadFails
  <2>1. total - 1 \in Int
    BY <1>0
  <2>2. total' \in 0 .. SizeMod - 1
    BY <1>0, <1>8, <2>1 DEF ReadFails
  <2> QED
    BY <1>1, <1>8, <2>2 DEF ReadFails
<1> QED
  BY <1>2, <1>3, <1>4, <1>5, <1>6, <1>7, <1>8 DEF Moves

\* What lies beside the sections stays.
LEMMA ContentStep == TypeOK /\ Filling /\ Content /\ [Step]_vars => Content'
<1> SUFFICES ASSUME TypeOK, Filling, Content, [Step]_vars PROVE Content'
  OBVIOUS
<1>1. UNCHANGED <<table, original>>
  BY DEF Step, vars, request,
       FailInHelper, Fail, ReleaseAgain, CheckGpgme, OpenFile, OpenDigest, HashFile,
       FinishDigest, NewContext, CheckEngine, SetFlag, GetKey, AddSigner, WrapDigest,
       NewSignature, Sign, Measure, ReadData, ReadFails, ReadEnds, OpenDestination,
       WriteDestination, CloseDestination, NewKeyData, ExportKey, Return
<1>2. Blanked(bytes)' = Blanked(bytes)
  <2>1. CASE WriteDestination \/ CloseDestination
    <3>1. target \in Section
      BY DEF TypeOK
    <3>2. \A i \in Index : bytes'[i] # bytes[i] => i \in Extent(table, target)
      BY <2>1, WriteStep
    <3> QED
      BY <1>1, <3>1, <3>2 DEF Blanked
  <2>2. CASE ~(WriteDestination \/ CloseDestination)
    <3>1. UNCHANGED bytes
      BY <2>2, OtherSteps DEF Moves, Sign, Measure, ReadData, ReadFails, ExportKey,
         Fail, FailInHelper
    <3> QED
      BY <1>1, <3>1 DEF Blanked
  <2> QED
    BY <2>1, <2>2
<1>3. Blanked(original)' = Blanked(original)
  BY <1>1 DEF Blanked
<1>4. /\ pc' \in {"gpgme", "open", "md_open", "hash"} => bytes' = original'
      /\ pc' \in Hashed \/ target' = "sig_key" => digest' = original'
  BY DEF Content, Hashed, WithKey, Embedding, Writing,
       Step, vars, gpg, request, reading, At, Goto,
       FailInHelper, Fail, ReleaseAgain, CheckGpgme, OpenFile, OpenDigest, HashFile,
       FinishDigest, NewContext, CheckEngine, SetFlag, GetKey, AddSigner, WrapDigest,
       NewSignature, Sign, Measure, ReadData, ReadFails, ReadEnds, OpenDestination,
       WriteDestination, CloseDestination, NewKeyData, ExportKey, Return, After
<1> QED
  BY <1>2, <1>3, <1>4 DEF Content

\* A section stays as it is without a write.
LEMMA WholeKept ==
  ASSUME UNCHANGED <<bytes, table>>, NEW s \in Section, size'[s] = size[s]
  PROVE  Whole(s)' <=> Whole(s)
BY DEF Whole, Holds

\* A write to the section of the key leaves the signature whole.
LEMMA SignatureKept ==
  ASSUME TypeOK, Filling, WriteDestination \/ CloseDestination, target = "sig_key"
  PROVE  Whole("sha256_sig")'
<1>1. /\ UNCHANGED <<table, size>> /\ table \in Tables
      /\ \A i \in Index : bytes'[i] # bytes[i] => i \in Extent(table, "sig_key")
  BY WriteStep DEF TypeOK
<1> DEFINE n == size["sha256_sig"]
           o == Find(table, "sha256_sig").offset
<1>2. Whole("sha256_sig") /\ n \in Nat /\ n <= Find(table, "sha256_sig").length
  BY DEF Filling, Whole, TypeOK, Section
<1>3. Extent(table, "sha256_sig") \cap Extent(table, "sig_key") = {}
  BY <1>1, TablesAssumption
<1>4. \A i \in 0 .. n - 1 : o + i \in Extent(table, "sha256_sig") /\ o + i \in Index
  <2>1. "sha256_sig" \in Section
    BY DEF Section
  <2> QED
    BY <1>1, <1>2, <2>1, DataInSection DEF Extent, Bytes
<1>5. \A i \in 0 .. n - 1 : bytes'[o + i] = bytes[o + i]
  BY <1>1, <1>3, <1>4
<1> QED
  BY <1>1, <1>2, <1>5 DEF Whole, Holds

\* All of the buffer in the section: the section is whole.
LEMMA FilledWhole ==
  ASSUME TypeOK, Filling, CloseDestination, pc' # "failed", NEW s \in Section, target = s
  PROVE  Whole(s)'
<1>1. /\ UNCHANGED <<table, size>> /\ table \in Tables /\ bytes' = Written(s, size[s])
  BY DEF CloseDestination, request, reading, TypeOK, Goto
<1>2. cursor = size[s] /\ size[s] \in Nat /\ size[s] <= Find(table, s).length
  BY DEF CloseDestination, At, Filling, Writing, TypeOK
<1> DEFINE n == size[s]
           o == Find(table, s).offset
<1>3. o \in Nat
  BY <1>1, FindType
<1>4. ASSUME NEW i \in 0 .. n - 1 PROVE bytes'[o + i] = [of |-> s, at |-> i]
  <2>1. o + i \in Bytes(o, n) /\ o + i \in Index /\ (o + i) - o = i /\ i < cursor
    BY <1>1, <1>2, <1>3, DataInSection DEF Bytes
  <2>2. bytes'[o + i] = Buffered(s, (o + i) - o)
    BY <1>1, <2>1 DEF Written
  <2> QED
    BY <2>1, <2>2 DEF Buffered
<1> QED
  BY <1>1, <1>2, <1>4 DEF Whole, Holds

LEMMA FillingStep == TypeOK /\ Filling /\ [Step]_vars => Filling'
<1> SUFFICES ASSUME TypeOK, Filling, [Step]_vars PROVE Filling'
  OBVIOUS
<1> USE DEF At, Goto, request, reading, gpg
<1>1. CASE ~Moves
  <2>1. UNCHANGED <<table, bytes, size, target, cursor>>
    BY <1>1, OtherSteps
  <2>2. \A s \in Section : Whole(s)' <=> Whole(s)
    BY <2>1, WholeKept
  <2>3. /\ pc' \in Writing => pc \in Writing
        /\ pc' \in {"fopen", "fwrite", "fclose"} => cursor = size[target]
        /\ pc' \in {"key_data", "export"} => pc \in {"key_data", "export"}
        /\ pc' \in {"release", "true"} => pc \in {"release", "true"}
    BY <1>1 DEF Filling, Writing, Moves, Step, vars,
       FailInHelper, Fail, ReleaseAgain, CheckGpgme, OpenFile, OpenDigest, HashFile,
       FinishDigest, NewContext, CheckEngine, SetFlag, GetKey, AddSigner, WrapDigest,
       NewSignature, ReadEnds, OpenDestination, NewKeyData, Return
  <2> QED
    BY <2>1, <2>2, <2>3 DEF Filling, Section
<1>2. CASE Sign
  <2>1. UNCHANGED <<table, bytes>> /\ pc' \in {"measure", "false", "exit", "crash", "abort"}
    BY <1>2 DEF Sign, Goto, request
  <2>2. CASE target' = "sig_key"
    <3>1. UNCHANGED size /\ target = "sig_key"
      BY <1>2, <2>2 DEF Sign, gpg, reading
    <3> QED
      BY <2>1, <3>1, WholeKept DEF Filling, Writing, Section
  <2> QED
    BY <2>1, <2>2 DEF Filling, Writing
<1>3. CASE Measure
  <2>1. /\ UNCHANGED <<table, bytes, size, target>>
        /\ \/ pc' = "failed"
           \/ pc' = "read" /\ size[target] <= Find(table, target).length
    BY <1>3 DEF Measure, Fits, FailInHelper
  <2> QED
    BY <2>1, WholeKept DEF Filling, Writing, Section
<1>4. CASE ReadData \/ ReadFails
  <2>1. UNCHANGED <<table, bytes, size, target, pc>> /\ pc = "read"
    BY <1>4 DEF ReadData, ReadFails
  <2> QED
    BY <2>1, WholeKept DEF Filling, Writing, Section
<1>5. CASE WriteDestination
  <2>1. UNCHANGED <<table, size, target, cursor>> /\ pc = "fwrite" /\ pc' \in {"fclose", "failed"}
    BY <1>5 DEF WriteDestination
  <2> QED
    BY <1>5, <2>1, SignatureKept DEF Filling, Writing
<1>6. CASE CloseDestination
  <2>1. UNCHANGED <<table, size, target, cursor>> /\ pc' \in {After(target), "failed"}
    BY <1>6 DEF CloseDestination
  <2>2. target \in Section
    BY DEF TypeOK
  <2>3. CASE target = "sig_key"
    <3>1. pc' \in {"release", "failed"} /\ Whole("sha256_sig")'
      BY <1>6, <2>1, <2>3, SignatureKept DEF After
    <3>2. pc' = "release" => Whole("sig_key")'
      BY <1>6, <2>3, FilledWhole DEF Section
    <3> QED
      BY <2>1, <2>3, <3>1, <3>2 DEF Filling, Writing
  <2>4. CASE target = "sha256_sig"
    <3>1. pc' \in {"key_data", "failed"}
      BY <2>1, <2>4 DEF After
    <3>2. pc' = "key_data" => Whole("sha256_sig")'
      BY <1>6, <2>4, FilledWhole DEF Section
    <3> QED
      BY <2>1, <2>4, <3>1, <3>2 DEF Filling, Writing
  <2> QED
    BY <2>2, <2>3, <2>4 DEF Section
<1>7. CASE ExportKey
  <2>1. /\ UNCHANGED <<table, bytes>> /\ pc' \in {"measure", "false"}
        /\ size'["sha256_sig"] = size["sha256_sig"]
        /\ Whole("sha256_sig")
    BY <1>7 DEF ExportKey, Fail, TypeOK, Filling, Section
  <2> QED
    BY <2>1, WholeKept DEF Filling, Writing, Section
<1> QED
  BY <1>1, <1>2, <1>3, <1>4, <1>5, <1>6, <1>7 DEF Moves

LEMMA OrderStep == TypeOK /\ Filling /\ Order /\ [Step]_vars => Order'
<1> SUFFICES ASSUME TypeOK, Filling, Order, [Step]_vars PROVE Order'
  OBVIOUS
<1> USE DEF At, Goto, request, reading, gpg
<1>1. UNCHANGED <<table, original>>
  BY DEF Step, vars,
       FailInHelper, Fail, ReleaseAgain, CheckGpgme, OpenFile, OpenDigest, HashFile,
       FinishDigest, NewContext, CheckEngine, SetFlag, GetKey, AddSigner, WrapDigest,
       NewSignature, Sign, Measure, ReadData, ReadFails, ReadEnds, OpenDestination,
       WriteDestination, CloseDestination, NewKeyData, ExportKey, Return
<1>2. CASE ~Moves
  <2>1. UNCHANGED <<bytes, size, target>>
    BY <1>2, OtherSteps
  <2>2. /\ pc' \in Unsigned => pc \in Unsigned
        /\ pc' \in Embedding => pc \in Embedding
        /\ pc' \in {"key_data", "export"} => pc \in {"key_data", "export"}
    BY <1>2 DEF Unsigned, Embedding, Writing, Moves, Step, vars,
       FailInHelper, Fail, ReleaseAgain, CheckGpgme, OpenFile, OpenDigest, HashFile,
       FinishDigest, NewContext, CheckEngine, SetFlag, GetKey, AddSigner, WrapDigest,
       NewSignature, ReadEnds, OpenDestination, NewKeyData, Return
  <2> QED
    BY <1>1, <2>1, <2>2 DEF Order, Untouched
<1>3. CASE Sign
  <2>1. /\ UNCHANGED bytes /\ pc = "op_sign" /\ size'["sig_key"] = size["sig_key"]
        /\ target' = "sha256_sig" /\ target = "sha256_sig"
        /\ \/ pc' = "measure" /\ size'["sha256_sig"] > 0
           \/ pc' \in {"false", "exit", "crash", "abort"} /\ UNCHANGED size
    BY <1>3, SizesAssumption DEF Sign, gpg, reading, TypeOK, Order, Unsigned, Section
  <2> QED
    BY <1>1, <2>1 DEF Order, Untouched, Unsigned, Embedding, Writing
<1>4. CASE Measure \/ ReadData \/ ReadFails
  <2>1. /\ UNCHANGED <<bytes, size, target>>
        /\ pc \in {"measure", "read"} /\ pc' \in {"read", "failed"}
    BY <1>4 DEF Measure, FailInHelper, ReadData, ReadFails
  <2> QED
    BY <1>1, <2>1 DEF Order, Untouched, Unsigned, Embedding, Writing
<1>5. CASE WriteDestination \/ CloseDestination
  <2>1. /\ UNCHANGED <<size, target>> /\ pc \in {"fwrite", "fclose"}
        /\ pc' \in {"failed", "fclose", After(target)}
    BY <1>5 DEF WriteDestination, CloseDestination
  <2>2. target = "sha256_sig" => \A i \in Extent(table, "sig_key") : bytes'[i] = bytes[i]
    <3>1. Extent(table, "sha256_sig") \cap Extent(table, "sig_key") = {}
      BY TablesAssumption DEF TypeOK
    <3>2. \A i \in Index : bytes'[i] # bytes[i] => i \in Extent(table, target)
      BY <1>5, WriteStep
    <3> QED
      BY <3>1, <3>2 DEF Extent, Bytes
  <2> QED
    BY <1>1, <2>1, <2>2 DEF Order, Untouched, Unsigned, Embedding, Writing, After
<1>6. CASE ExportKey
  <2>1. /\ UNCHANGED bytes /\ pc = "export" /\ target = "sha256_sig"
        /\ size'["sha256_sig"] = size["sha256_sig"]
        /\ \/ pc' = "measure" /\ target' = "sig_key"
           \/ pc' = "false" /\ UNCHANGED <<size, target>>
    BY <1>6 DEF ExportKey, Fail, TypeOK, Order, Section
  <2> QED
    BY <1>1, <2>1 DEF Order, Untouched, Unsigned, Embedding, Writing
<1> QED
  BY <1>2, <1>3, <1>4, <1>5, <1>6 DEF Moves

-----------------------------------------------------------------------------
(* The theorems. *)

LEMMA InitInv == Init => Inv
<1> SUFFICES ASSUME Init PROVE Inv
  OBVIOUS
<1>1. bytes \in [Index -> ByteType]
  BY DEF Init, Filled, FileByte, Blank, Old, ByteType, Index, Section
<1>2. TypeOK
  BY <1>1, SizesAssumption DEF Init, TypeOK, Section
<1>3. Objects /\ Choice /\ Content
  BY DEF Init, Objects, Choice, Content, Hashed, WithKey, Embedding, Writing
<1>4. Filling
  BY DEF Init, Filling, Writing
<1>5. Order
  <2>1. \A i \in Index : original[i].of \notin Section
    BY DEF Init, Filled, FileByte, Blank, Old, Section
  <2> QED
    BY <2>1 DEF Init, Order, Unsigned, Embedding, Writing, Untouched, Section
<1> QED
  BY <1>2, <1>3, <1>4, <1>5 DEF Inv

LEMMA NextKeeps == Inv /\ [Step]_vars => Inv'
BY TypeStep, ObjectsStep, ChoiceStep, ContentStep, FillingStep, OrderStep DEF Inv

LEMMA AlwaysInv == Spec => []Inv
BY InitInv, NextKeeps, PTL DEF Spec

\* The state of sign_appimage has its type, the bytes of the file included.
THEOREM TypeCorrect == Spec => []TypeOK
<1>1. Inv => TypeOK
  BY DEF Inv
<1> QED
  BY <1>1, AlwaysInv, PTL

\* No gpgme object is released twice or lost, on any of the paths on which a
\* helper, its caller or both release (appimagetool_sign.c:64).
THEOREM ObjectsHeld == Spec => []PointersHoldObjects
<1>1. Inv => PointersHoldObjects
  BY DEF Inv, Objects, PointersHoldObjects
<1> QED
  BY <1>1, AlwaysInv, PTL

\* sign_appimage returns with every object released (appimagetool_sign.h:6).
THEOREM ReturnsReleased == Spec => []ReleasedOnReturn
<1>1. Inv => ReleasedOnReturn
  BY DEF Inv, Objects, ReleasedOnReturn, Returned
<1> QED
  BY <1>1, AlwaysInv, PTL

\* When sign_appimage returns true, signature and key are in the file, each as
\* a whole, of the key asked for (appimagetool_sign.c:449).
THEOREM TrueIsComplete == Spec => []SuccessComplete
<1>1. Inv => SuccessComplete
  <2> SUFFICES ASSUME Inv, pc = "true"
               PROVE  /\ \A s \in Section : Holds(s) /\ size[s] <= Find(table, s).length
                      /\ digest = original
                      /\ signer # NoKey
                      /\ key_id # NoKey => signer = key_id
    BY DEF SuccessComplete
  <2>1. \A s \in Section : Whole(s)
    BY DEF Inv, Filling, Section
  <2>2. digest = original
    BY DEF Inv, Content, Hashed, WithKey
  <2>3. signer \in Keyring /\ (key_id # NoKey => signer = key_id)
    BY DEF Inv, Choice, WithKey
  <2> QED
    BY <2>1, <2>2, <2>3, KeysAssumption DEF Whole
<1> QED
  BY <1>1, AlwaysInv, PTL

\* A signature that is in the file verifies while the key is embedded, and when
\* that fails (appimagetool_sign.c:442).
THEOREM SignatureVerifiesOn == Spec => []SignatureStaysValid
<1>1. Inv => SignatureStaysValid
  <2> SUFFICES ASSUME Inv, target = "sig_key" \/ pc \in {"key_data", "export"},
                      original = Blanked(original)
               PROVE  Holds("sha256_sig") /\ digest = Blanked(bytes)
    BY DEF SignatureStaysValid
  <2>1. Holds("sha256_sig")
    BY DEF Inv, Filling, Whole
  <2>2. digest = original
    BY DEF Inv, Content, Hashed, WithKey, Embedding
  <2> QED
    BY <2>1, <2>2 DEF Inv, Content
<1> QED
  BY <1>1, AlwaysInv, PTL

\* No byte outside of the section being filled is ever changed, whatever its
\* data's size and whichever write is cut off (appimagetool_sign.c:281).
THEOREM WritesStayInSection == Spec => WritesItsSection
<1>1. Inv /\ [Step]_vars =>
        [\A i \in Index : bytes'[i] # bytes[i] => i \in Extent(table, target)]_vars
  <2> SUFFICES ASSUME Inv, [Step]_vars, NEW i \in Index, bytes'[i] # bytes[i]
               PROVE  i \in Extent(table, target)
    OBVIOUS
  <2>1. WriteDestination \/ CloseDestination
    BY OtherSteps DEF Moves, Sign, Measure, ReadData, ReadFails, ExportKey, Fail, FailInHelper
  <2> QED
    BY <2>1, WriteStep DEF Inv
<1> QED
  BY <1>1, AlwaysInv, PTL DEF Spec, WritesItsSection

-----------------------------------------------------------------------------
(* The steps of sign_appimage are steps of SignPromise. *)

\* A section whose bytes stay holds what it held.
LEMMA StateKept ==
  ASSUME TypeOK, NEW s \in Section, UNCHANGED <<table, original>>, size'[s] = size[s],
         \A i \in Extent(table, s) : bytes'[i] = bytes[i],
         size[s] > 0 \/ (pc' \in {"release", "true"} <=> pc \in {"release", "true"})
  PROVE  SectionState(s)' = SectionState(s)
<1>1. size[s] \in Nat /\ table \in Tables
  BY DEF TypeOK
<1>2. Whole(s)' <=> Whole(s)
  <2>1. CASE size[s] <= Find(table, s).length
    <3>1. \A i \in 0 .. size[s] - 1 : Find(table, s).offset + i \in Extent(table, s)
      BY <1>1, <2>1, DataInSection
    <3> QED
      BY <3>1 DEF Whole, Holds
  <2>2. CASE ~(size[s] <= Find(table, s).length)
    BY <2>2 DEF Whole
  <2> QED
    BY <2>1, <2>2
<1> QED
  BY <1>2 DEF SectionState

\* A section that has not been written does not hold data by chance.
LEMMA NoDataYet ==
  TypeOK /\ Order =>
    \A s \in Section : Untouched(s) /\ size[s] > 0 => SectionState(s) = "before"
<1> SUFFICES ASSUME TypeOK, Order, NEW s \in Section, Untouched(s), size[s] > 0
             PROVE  SectionState(s) = "before"
  OBVIOUS
<1>1. size[s] \in Nat /\ table \in Tables
  BY DEF TypeOK
<1>2. ASSUME Whole(s) PROVE FALSE
  <2> DEFINE o == Find(table, s).offset
  <2>1. o + 0 \in Extent(table, s) /\ o + 0 \in Index
    <3>1. 0 \in 0 .. size[s] - 1
      BY <1>1
    <3>2. o + 0 \in Extent(table, s)
      BY <1>1, <1>2, <3>1, DataInSection DEF Whole
    <3> QED
      BY <3>2 DEF Extent, Bytes
  <2>2. bytes[o + 0] = [of |-> s, at |-> 0]
    BY <1>1, <1>2 DEF Whole, Holds
  <2> QED
    BY <2>1, <2>2 DEF Untouched, Order
<1> QED
  BY <1>2 DEF SectionState, Untouched

\* What a write does to the section that is filled: there is more in it.
LEMMA WriteAddsMore ==
  ASSUME TypeOK, Filling, Order, WriteDestination \/ CloseDestination,
         pc' \notin {"release", "true"}
  PROVE  \/ SectionState(target)' = SectionState(target)
         \/ SectionState(target)' \in Promise!More(SectionState(target))
<1> DEFINE s == target
           o == Find(table, s).offset
<1>1. /\ UNCHANGED <<table, target, size, original>>
      /\ s \in Section /\ table \in Tables /\ size[s] \in Nat
      /\ pc \in {"fwrite", "fclose"} /\ cursor = size[s]
      /\ size[s] <= Find(table, s).length
  BY WriteStep DEF TypeOK, WriteDestination, CloseDestination, At, Filling, Writing
<1>2. PICK n \in 0 .. size[s] : bytes' = Written(s, n)
  BY <1>1 DEF WriteDestination, CloseDestination
<1>3. o \in Nat
  BY <1>1, FindType
<1>4. ASSUME NEW i \in Index
      PROVE  \/ bytes'[i] = bytes[i]
             \/ i \in Bytes(o, n) /\ bytes'[i] = [of |-> s, at |-> i - o]
  <2>1. CASE i \in Bytes(o, n)
    <3>1. i - o < cursor
      BY <1>1, <1>2, <1>3, <2>1 DEF Bytes, Index
    <3> QED
      BY <1>2, <2>1, <3>1 DEF Written, Buffered
  <2>2. CASE i \notin Bytes(o, n)
    BY <1>2, <2>2 DEF Written
  <2> QED
    BY <2>1, <2>2
<1>5. Whole(s) => Whole(s)'
  <2> SUFFICES ASSUME Whole(s), NEW i \in 0 .. size[s] - 1
               PROVE  bytes'[o + i] = [of |-> s, at |-> i]
    BY <1>1 DEF Whole, Holds
  <2>1. o + i \in Index /\ (o + i) - o = i
    <3>1. o + i \in Bytes(o, size[s])
      BY <1>1, DataInSection
    <3> QED
      BY <1>3, <3>1 DEF Bytes
  <2>2. bytes[o + i] = [of |-> s, at |-> i]
    BY DEF Whole, Holds
  <2> QED
    BY <1>4, <2>1, <2>2
<1>6. Untouched(s)' => Untouched(s)
  <2> SUFFICES ASSUME Untouched(s)', NEW i \in Extent(table, s)
               PROVE  bytes[i] = original[i]
    BY DEF Untouched
  <2>1. i \in Index /\ bytes'[i] = original[i]
    BY <1>1 DEF Untouched, Extent, Bytes
  <2>2. original[i].of # s
    BY <1>1, <2>1 DEF Order
  <2>3. bytes'[i] # [of |-> s, at |-> i - o]
    BY <2>1, <2>2
  <2> QED
    BY <1>4, <2>1, <2>3
<1>7. CASE size[s] > 0
  BY <1>1, <1>5, <1>6, <1>7 DEF SectionState, Untouched, Promise!More
<1>8. CASE size[s] = 0
  <2>1. Bytes(o, n) = {}
    BY <1>2, <1>3, <1>8 DEF Bytes, Index
  <2>2. \A i \in Index : bytes'[i] = bytes[i]
    BY <1>4, <2>1
  <2>3. \A i \in Extent(table, s) : bytes'[i] = bytes[i]
    BY <2>2 DEF Extent, Bytes
  <2>4. SectionState(s)' = SectionState(s)
    <3> HIDE DEF o
    <3> QED
      BY <1>1, <1>8, <2>3, StateKept
  <2> QED
    BY <2>4
<1> QED
  BY <1>1, <1>7, <1>8

PromiseStep == [Promise!Next]_Promise!vars

\* Steps that leave the file and the sizes alone: the call goes on or fails.
LEMMA OtherKeepsPromise ==
  ASSUME TypeOK, [Step]_vars, UNCHANGED <<table, original, bytes, size, target>>,
         ~WriteDestination, ~CloseDestination
  PROVE  PromiseStep
<1> USE DEF At, Goto, request, reading, gpg
<1>1. /\ pc' \in {"release", "true"} <=> pc \in {"release", "true"}
      /\ Stage' = Stage \/ (Stage \in {"sign", "key"} /\ Stage' = "died")
  BY DEF Stage, Step, vars,
     FailInHelper, Fail, ReleaseAgain, CheckGpgme, OpenFile, OpenDigest, HashFile,
     FinishDigest, NewContext, CheckEngine, SetFlag, GetKey, AddSigner, WrapDigest,
     NewSignature, Sign, Measure, ReadData, ReadFails, ReadEnds, OpenDestination,
     NewKeyData, ExportKey, Return
<1>2. \A s \in Section : SectionState(s)' = SectionState(s)
  BY <1>1, StateKept
<1> QED
  BY <1>1, <1>2 DEF Section, PromiseStep, Promise!Next, Promise!vars, Promise!Die

LEMMA NextKeepsPromise ==
  ASSUME Inv, Inv', [Step]_vars
  PROVE  PromiseStep
<1> USE DEF At, Goto, request, reading, gpg
<1>1. TypeOK /\ Filling /\ Order /\ TypeOK' /\ UNCHANGED <<table, original>>
  BY DEF Inv, Step, vars,
       FailInHelper, Fail, ReleaseAgain, CheckGpgme, OpenFile, OpenDigest, HashFile,
       FinishDigest, NewContext, CheckEngine, SetFlag, GetKey, AddSigner, WrapDigest,
       NewSignature, Sign, Measure, ReadData, ReadFails, ReadEnds, OpenDestination,
       WriteDestination, CloseDestination, NewKeyData, ExportKey, Return
<1>2. \A s \in Section : Untouched(s)' /\ size'[s] > 0 => SectionState(s)' = "before"
  <2>1. (TypeOK /\ Order =>
          \A s \in Section : Untouched(s) /\ size[s] > 0 => SectionState(s) = "before")'
    BY NoDataYet, PTL
  <2> QED
    BY <2>1 DEF Inv
<1>3. CASE ~Moves
  BY <1>1, <1>3, OtherSteps, OtherKeepsPromise DEF Moves
<1>4. CASE Measure \/ ReadData \/ ReadFails
  <2>1. UNCHANGED <<bytes, size, target>> /\ ~WriteDestination /\ ~CloseDestination
    BY <1>4 DEF Measure, FailInHelper, ReadData, ReadFails, WriteDestination, CloseDestination
  <2> QED
    BY <1>1, <2>1, OtherKeepsPromise
<1>5. CASE Sign
  <2>1. /\ UNCHANGED bytes /\ pc = "op_sign" /\ size["sha256_sig"] = 0
        /\ target = "sha256_sig" /\ size'["sig_key"] = size["sig_key"]
    BY <1>1, <1>5 DEF Sign, TypeOK, Order, Unsigned, Section
  <2>2. CASE pc' \in {"false", "exit", "crash", "abort"} /\ UNCHANGED <<size, target>>
    <3>1. ~WriteDestination /\ ~CloseDestination
      BY <2>1 DEF WriteDestination, CloseDestination
    <3> QED
      BY <1>1, <2>1, <2>2, <3>1, OtherKeepsPromise
  <2>3. CASE pc' = "measure" /\ target' = "sha256_sig" /\ size'["sha256_sig"] > 0
    <3>1. Untouched("sha256_sig") /\ Untouched("sha256_sig")'
      BY <1>1, <2>1 DEF Order, Untouched
    <3>2. SectionState("sha256_sig")' = "before"
      BY <1>2, <2>3, <3>1 DEF Section
    <3>3. SectionState("sha256_sig") = "before"
      BY <2>1, <3>1 DEF SectionState, Untouched
    <3>4. SectionState("sig_key")' = SectionState("sig_key")
      BY <1>1, <2>1, <2>3, StateKept DEF Section
    <3>5. Stage' = Stage
      BY <2>1, <2>3 DEF Stage
    <3> QED
      BY <3>2, <3>3, <3>4, <3>5 DEF PromiseStep, Promise!vars
  <2>4. \/ pc' \in {"false", "exit", "crash", "abort"} /\ UNCHANGED <<size, target>>
        \/ pc' = "measure" /\ target' = "sha256_sig" /\ size'["sha256_sig"] > 0
    BY <1>1, <1>5, SizesAssumption DEF Sign, TypeOK, Section
  <2> QED
    BY <2>2, <2>3, <2>4
<1>6. CASE ExportKey
  <2>1. /\ UNCHANGED bytes /\ pc = "export" /\ size["sha256_sig"] > 0
        /\ size'["sha256_sig"] = size["sha256_sig"]
        /\ target = "sha256_sig" /\ size["sig_key"] = 0 /\ Untouched("sig_key")
    BY <1>1, <1>6 DEF ExportKey, Fail, TypeOK, Order, Section, Embedding
  <2>2. CASE pc' = "false" /\ UNCHANGED <<size, target>>
    <3>1. ~WriteDestination /\ ~CloseDestination
      BY <2>1 DEF WriteDestination, CloseDestination
    <3> QED
      BY <1>1, <2>1, <2>2, <3>1, OtherKeepsPromise
  <2>3. CASE pc' = "measure" /\ target' = "sig_key"
    <3>1. Untouched("sig_key")'
      BY <1>1, <2>1 DEF Untouched
    <3>2. size'["sig_key"] \in Nat
      BY <1>1 DEF TypeOK, Section
    <3>3. SectionState("sig_key")' = "before"
      BY <1>2, <2>3, <3>1, <3>2 DEF Section, SectionState, Untouched
    <3>4. SectionState("sig_key") = "before"
      BY <2>1 DEF SectionState, Untouched
    <3>5. SectionState("sha256_sig")' = SectionState("sha256_sig")
      BY <1>1, <2>1, StateKept DEF Section
    <3>6. Stage' = Stage
      BY <2>1, <2>3 DEF Stage
    <3> QED
      BY <3>3, <3>4, <3>5, <3>6 DEF PromiseStep, Promise!vars
  <2>4. \/ pc' = "false" /\ UNCHANGED <<size, target>>
        \/ pc' = "measure" /\ target' = "sig_key"
    BY <1>6 DEF ExportKey, Fail
  <2> QED
    BY <2>2, <2>3, <2>4
<1>7. CASE WriteDestination \/ CloseDestination
  <2>1. /\ UNCHANGED <<size, target>> /\ pc \in {"fwrite", "fclose"} /\ target \in Section
        /\ pc' \in {"fclose", "failed"} \/ (CloseDestination /\ pc' = After(target))
    BY <1>1, <1>7 DEF WriteDestination, CloseDestination, TypeOK
  <2>2. size["sha256_sig"] > 0
    BY <1>1, <2>1 DEF Order, TypeOK, Section, Embedding, Writing
  <2>3. \A s \in Section : s # target => \A i \in Extent(table, s) : bytes'[i] = bytes[i]
    <3>1. Extent(table, "sha256_sig") \cap Extent(table, "sig_key") = {}
      BY <1>1, TablesAssumption DEF TypeOK
    <3>2. \A i \in Index : bytes'[i] # bytes[i] => i \in Extent(table, target)
      BY <1>1, <1>7, WriteStep
    <3> QED
      BY <2>1, <3>1, <3>2 DEF Extent, Bytes, Section
  <2>4. \A s \in Section : s # target =>
          (size[s] > 0 \/ pc' \notin {"release", "true"}
             => SectionState(s)' = SectionState(s))
    BY <1>1, <2>1, <2>3, StateKept
  <2>5. CASE pc' \in {"fclose", "failed"}
    <3>1. /\ Stage' = Stage
          /\ Stage = IF target = "sig_key" THEN "key" ELSE "sign"
      BY <2>1, <2>5 DEF Stage
    <3>2. \/ SectionState(target)' = SectionState(target)
          \/ SectionState(target)' \in Promise!More(SectionState(target))
      BY <1>1, <1>7, <2>5, WriteAddsMore
    <3>3. CASE target = "sha256_sig"
      <4>1. SectionState("sig_key")' = SectionState("sig_key")
        BY <2>4, <2>5, <3>3 DEF Section
      <4> QED
        BY <2>1, <3>1, <3>2, <3>3, <4>1
           DEF PromiseStep, Promise!Next, Promise!vars, Promise!WriteSignature
    <3>4. CASE target = "sig_key"
      <4>1. SectionState("sha256_sig")' = SectionState("sha256_sig")
        BY <2>4, <2>5, <3>4 DEF Section
      <4> QED
        BY <2>1, <3>1, <3>2, <3>4, <4>1
           DEF PromiseStep, Promise!Next, Promise!vars, Promise!WriteKey
    <3> QED
      BY <2>1, <3>3, <3>4 DEF Section
  <2>6. CASE CloseDestination /\ pc' = After(target)
    <3>1. SectionState(target)' = "whole"
      <4>1. Whole(target)'
        BY <1>1, <2>1, <2>6, FilledWhole DEF After
      <4>2. size'[target] > 0 \/ pc' \in {"release", "true"}
        BY <2>1, <2>2, <2>6 DEF After, Section
      <4> QED
        BY <2>1, <4>1, <4>2 DEF SectionState
    <3>2. CASE target = "sha256_sig"
      <4>1. Stage = "sign" /\ Stage' = "key" /\ pc' = "key_data"
        BY <2>1, <2>6, <3>2 DEF Stage, After
      <4>2. SectionState("sig_key")' = SectionState("sig_key")
        BY <2>4, <3>2, <4>1 DEF Section
      <4> QED
        BY <2>1, <3>1, <3>2, <4>1, <4>2 DEF PromiseStep, Promise!Next, Promise!EmbedSignature
    <3>3. CASE target = "sig_key"
      <4>1. Stage = "key" /\ Stage' = "signed"
        BY <2>1, <2>6, <3>3 DEF Stage, After
      <4>2. SectionState("sha256_sig")' = SectionState("sha256_sig")
        BY <2>2, <2>4, <3>3 DEF Section
      <4> QED
        BY <2>1, <3>1, <3>3, <4>1, <4>2 DEF PromiseStep, Promise!Next, Promise!EmbedKey
    <3> QED
      BY <2>1, <3>2, <3>3 DEF Section
  <2> QED
    BY <2>1, <2>5, <2>6
<1> QED
  BY <1>3, <1>4, <1>5, <1>6, <1>7 DEF Moves

LEMMA InitPromise ==
  ASSUME Init
  PROVE  Promise!Init
<1>1. pc = "gpgme" /\ target = "sha256_sig" /\ size = [s \in Section |-> 0] /\ bytes = original
  BY DEF Init
<1>2. \A s \in Section : SectionState(s) = "before"
  BY <1>1 DEF SectionState
<1> QED
  BY <1>1, <1>2 DEF Promise!Init, Stage, Section

\* sign_appimage implements the two steps that main takes it for, whichever of
\* its calls fails: nothing in the section of the key before the whole
\* signature is in the file (appimagetool_sign.c:432), the signature there to
\* stay, and true (appimagetool_sign.c:449) after both.
THEOREM SignKeepsPromise == Spec => KeepsSignPromise
<1>1. Inv /\ Inv' /\ [Step]_vars => [Promise!Next]_Promise!vars
  BY NextKeepsPromise DEF PromiseStep
<1>2. Init => Promise!Init
  BY InitPromise
<1> QED
  BY <1>1, <1>2, AlwaysInv, PTL DEF Spec, KeepsSignPromise, Promise!Spec
=============================================================================
