------------------------ MODULE ObtainRuntimeProofs ------------------------
(***************************************************************************)
(* The way to a runtime, for every AppDir and value of $ARCH, every host   *)
(* and every answer of the server.                                         *)
(*                                                                         *)
(* SearchInv says what find_arch has still to look into, FetchInv what of  *)
(* the answer has arrived, and MainInv how far main is with the two.       *)
(***************************************************************************)
EXTENDS ObtainRuntime, FiniteSetTheorems, SequenceTheorems, TLAPS

\* The entries that the open directories have left.
Listed(ds) == UNION {ds[i] : i \in 1 .. Len(ds)}

Entries == UNION {Contains[d] : d \in Below}

Candidates == {n \in Entries : n \in Files /\ Guessed(n)}

\* Closed under what find_arch does with an entry.
Walked(S) == \A d \in S : Enters(d) => Contains[d] \subseteq S

\* A candidate that was not looked into is met from the entries that are left:
\* it is in every set that holds these and is closed.
Ahead ==
  \A S \in SUBSET Node : Walked(S) /\ Listed(dirs) \subseteq S =>
    \A n \in Candidates \ S : FromMachine(machine[n]) \subseteq archs

SearchInv ==
  /\ arch_pc \in {"search", "count", "undecided"} => FromText(text) = {}
  /\ arch_pc = "search" =>
       /\ Listed(dirs) \subseteq Entries
       /\ archs \subseteq FoundBelow
       /\ Ahead
  /\ arch_pc \in {"count", "undecided"} => archs = FoundBelow
  /\ arch_pc = "undecided" => Cardinality(archs) # 1
  /\ arch_pc = "found" =>
       \E a \in Arch : archs = {a}
                       /\ archs = IF FromText(text) # {} THEN FromText(text) ELSE FoundBelow

Asked == {"request", "body", "check", "copy", "true"}

\* What has arrived is the body's begin.
Arrived ==
  /\ Len(buffer) <= body
  /\ \A k \in 1 .. Len(buffer) : buffer[k] = [status |-> status, at |-> k]

FetchInv ==
  /\ fetch_pc \in Asked =>
       /\ ca_info = Chosen(host.asks, host.default_file, host.files, FileOk)
       /\ ca_path = Chosen(host.asks, host.default_dir, host.dirs, DirOk)
  /\ fetch_pc \in {"idle", "setup", "ca", "request"} => buffer = <<>>
  /\ Arrived
  /\ announced \in {body, Unknown}
  /\ fetch_pc \in {"copy", "true"} => Accepted
  /\ fetch_pc = "true" =>
       copied = [size |-> announced, room |-> announced + 1, bytes |-> buffer]

MainInv ==
  /\ pc \in {"load", "fetch", "loaded"} => arch_pc = "found"
  /\ pc \in {"arch", "load"} => fetch_pc = "idle"
  /\ pc = "fetch" => url = ArchName
  /\ pc = "loaded" /\ runtime_file = NoFile =>
       url = ArchName /\ fetch_pc = "true" /\ size = copied.size /\ data = copied.bytes

Inv == TypeOK /\ SearchInv /\ FetchInv /\ MainInv

-----------------------------------------------------------------------------
(* Flags. *)

LEMMA FlagsFinite ==
  ASSUME NEW A \in SUBSET Arch
  PROVE  IsFiniteSet(A) /\ (Cardinality(A) = 1 <=> \E a \in Arch : A = {a})
<1>1. IsFiniteSet({"i686"}) /\ IsFiniteSet({"x86_64"}) /\ IsFiniteSet({"armhf"})
      /\ IsFiniteSet({"aarch64"})
  BY FS_Singleton
<1>2. IsFiniteSet(({"i686"} \cup {"x86_64"}) \cup ({"armhf"} \cup {"aarch64"}))
  BY <1>1, FS_Union
<1>3. Arch = ({"i686"} \cup {"x86_64"}) \cup ({"armhf"} \cup {"aarch64"})
  BY DEF Arch
<1>4. IsFiniteSet(A)
  BY <1>2, <1>3, FS_Subset
<1>5. Cardinality(A) = 1 <=> \E a : A = {a}
  BY <1>4, FS_Singleton
<1> QED
  BY <1>4, <1>5

\* A text stands for one architecture at most.
LEMMA TextIsOne ==
  ASSUME NEW t, FromText(t) # {}
  PROVE  \E a \in Arch : FromText(t) = {a}
<1>1. PICK a \in Arch : t \in Spellings(a)
  BY DEF FromText
<1>2. ASSUME NEW b \in Arch, t \in Spellings(b) PROVE b = a
  BY <1>1, <1>2 DEF Arch, Spellings
<1> QED
  BY <1>1, <1>2 DEF FromText

LEMMA NameOfOne ==
  ASSUME NEW a \in Arch, archs = {a}
  PROVE  ArchName = a
BY DEF ArchName, Arch

LEMMA NameType == ArchName \in Arch \cup {"all"}
BY DEF ArchName, Arch

-----------------------------------------------------------------------------
(* The search. *)

LEMMA BelowClosed ==
  ASSUME NEW d \in Below
  PROVE  \A n \in Contains[d] : Kind[n] = "dir" => n \in Below /\ n \in Node
<1>1. d \in Node /\ Contains[d] \subseteq Node
  BY TreeAssumption DEF Below
<1> QED
  BY <1>1 DEF Below, Closed

LEMMA EntriesClosed == Walked(Entries) /\ Contains[Source] \subseteq Entries
<1>1. Source \in Below
  BY TreeAssumption DEF Below
<1>2. ASSUME NEW n \in Entries, Enters(n) PROVE Contains[n] \subseteq Entries
  <2>1. PICK d \in Below : n \in Contains[d]
    BY DEF Entries
  <2>2. n \in Below
    BY <1>2, <2>1, BelowClosed DEF Enters
  <2> QED
    BY <2>2 DEF Entries
<1> QED
  BY <1>1, <1>2 DEF Walked, Entries

\* What begins with the entries of the AppDir and is closed holds all.
LEMMA EntriesLeast ==
  ASSUME NEW S \in SUBSET Node, Walked(S), Contains[Source] \subseteq S
  PROVE  Entries \subseteq S
<1> DEFINE T == {Source} \cup {d \in S : Enters(d)}
<1>1. T \in SUBSET Node /\ Source \in T
  BY TreeAssumption
<1>2. \A d \in T : Contains[d] \subseteq S
  BY DEF Walked
<1>3. Closed(T)
  BY <1>2 DEF Closed, Enters
<1>4. Below \subseteq T
  BY <1>1, <1>3 DEF Below
<1> QED
  BY <1>2, <1>4 DEF Entries

LEMMA ListedChanges ==
  ASSUME NEW n \in Node, ReadEntry(n), ArchTypeOK
  PROVE  /\ n \in Listed(dirs)
         /\ Listed(dirs) \ {n} \subseteq Listed(dirs')
         /\ Listed(dirs') \subseteq Listed(dirs) \cup (IF Enters(n) THEN Contains[n] ELSE {})
         /\ Enters(n) => Contains[n] \subseteq Listed(dirs')
         /\ dirs' \in Seq(SUBSET Node)
<1> DEFINE last == Len(dirs)
           rest == [dirs EXCEPT ![last] = @ \ {n}]
<1>1. dirs \in Seq(SUBSET Node) /\ last \in Nat \ {0} /\ n \in dirs[last]
  BY DEF ReadEntry, ArchTypeOK, Innermost
<1>2. Contains[n] \in SUBSET Node
  BY TreeAssumption
<1>3. /\ rest \in Seq(SUBSET Node) /\ Len(rest) = last
      /\ \A i \in 1 .. last : rest[i] = IF i = last THEN dirs[i] \ {n} ELSE dirs[i]
  <2>1. dirs \in [1 .. last -> SUBSET Node] /\ dirs[last] \ {n} \in SUBSET Node
    BY <1>1
  <2>2. /\ rest \in [1 .. last -> SUBSET Node]
        /\ \A i \in 1 .. last : rest[i] = IF i = last THEN dirs[i] \ {n} ELSE dirs[i]
    <3> HIDE DEF last
    <3> QED
      BY <1>1, <2>1
  <2>3. \A s : s \in [1 .. last -> SUBSET Node] => s \in Seq(SUBSET Node) /\ Len(s) = last
    <3> HIDE DEF last
    <3> QED
      BY <1>1
  <2> HIDE DEF last, rest
  <2> QED
    BY <2>2, <2>3
<1>4. dirs' = IF Enters(n) THEN Append(rest, Contains[n]) ELSE rest
  BY DEF ReadEntry, Rest
<1> HIDE DEF rest
<1>5. /\ Listed(dirs) \ {n} \subseteq Listed(rest)
      /\ Listed(rest) \subseteq Listed(dirs)
  BY <1>1, <1>3 DEF Listed
<1>6. CASE Enters(n)
  <2> DEFINE more == Append(rest, Contains[n])
  <2>1. /\ more \in Seq(SUBSET Node) /\ Len(more) = last + 1
        /\ \A i \in 1 .. last : more[i] = rest[i]
        /\ more[last + 1] = Contains[n]
    BY <1>1, <1>2, <1>3
  <2> HIDE DEF more
  <2>2. Listed(more) = Listed(rest) \cup Contains[n]
    BY <1>1, <1>3, <2>1 DEF Listed
  <2>3. dirs' = more
    BY <1>4, <1>6 DEF more
  <2> QED
    BY <1>1, <1>5, <1>6, <2>1, <2>2, <2>3 DEF Listed
<1>7. CASE ~Enters(n)
  BY <1>1, <1>3, <1>4, <1>5, <1>7 DEF Listed
<1> QED
  BY <1>6, <1>7

LEMMA ListedCloses ==
  ASSUME CloseDirectory, ArchTypeOK
  PROVE  Listed(dirs') = Listed(dirs) /\ dirs' \in Seq(SUBSET Node)
<1>1. dirs \in Seq(SUBSET Node) /\ Len(dirs) \in Nat \ {0} /\ dirs[Len(dirs)] = {}
  BY DEF CloseDirectory, ArchTypeOK, Innermost
<1>2. /\ dirs' \in Seq(SUBSET Node) /\ Len(dirs') = Len(dirs) - 1
      /\ \A i \in 1 .. Len(dirs) - 1 : dirs'[i] = dirs[i]
  <2> DEFINE m == Len(dirs) - 1
  <2>1. m \in Nat /\ \A i \in 1 .. m : dirs[i] \in SUBSET Node
    BY <1>1
  <2>2. dirs' = SubSeq(dirs, 1, m)
    BY DEF CloseDirectory
  <2> HIDE DEF m
  <2>3. /\ dirs' \in Seq(SUBSET Node) /\ Len(dirs') = IF 1 <= m THEN m - 1 + 1 ELSE 0
        /\ \A i \in 1 .. m - 1 + 1 : dirs'[i] = dirs[1 + i - 1]
    BY <2>1, <2>2, SubSeqProperties
  <2>4. /\ (IF 1 <= m THEN m - 1 + 1 ELSE 0) = m /\ m - 1 + 1 = m
        /\ \A i \in 1 .. m : 1 + i - 1 = i
    BY <2>1
  <2> QED
    BY <2>3, <2>4 DEF m
<1> QED
  BY <1>1, <1>2 DEF Listed

\* A step of the search keeps what it knows.
LEMMA ReadKeeps ==
  ASSUME NEW n \in Node, ReadEntry(n), ArchTypeOK, SearchInv
  PROVE  /\ Listed(dirs') \subseteq Entries
         /\ archs' \subseteq FoundBelow
         /\ Ahead'
<1>1. /\ arch_pc = "search" /\ machine' = machine
      /\ archs' = IF n \in Files /\ Guessed(n) THEN archs \cup FromMachine(machine[n])
                  ELSE archs
  BY DEF ReadEntry, arch_inputs
<1>2. n \in Listed(dirs) /\ Listed(dirs) \subseteq Entries /\ archs \subseteq FoundBelow /\ Ahead
  BY <1>1, ListedChanges DEF SearchInv
<1>3. Listed(dirs') \subseteq Entries
  BY <1>2, ListedChanges, EntriesClosed DEF Walked
<1>4. archs' \subseteq FoundBelow
  <2>1. n \in Files /\ Guessed(n) => n \in Candidates
    BY <1>2 DEF Candidates
  <2>2. FoundBelow = UNION {FromMachine(machine[m]) : m \in Candidates}
    BY DEF FoundBelow, Candidates, Entries
  <2> QED
    BY <1>1, <1>2, <2>1, <2>2
<1>5. ASSUME NEW S \in SUBSET Node, Walked(S), Listed(dirs') \subseteq S,
             NEW m \in Candidates \ S
      PROVE  FromMachine(machine[m]) \subseteq archs'
  <2> DEFINE T == S \cup {n}
  <2>1. Walked(T)
    BY <1>5, ListedChanges DEF Walked
  <2>2. T \in SUBSET Node /\ Listed(dirs) \subseteq T
    BY <1>5, ListedChanges
  <2>3. CASE m = n
    BY <1>1, <2>3 DEF Candidates
  <2>4. CASE m # n
    BY <1>1, <1>2, <2>1, <2>2, <2>4 DEF Ahead
  <2> QED
    BY <2>3, <2>4
<1>6. Ahead'
  BY <1>1, <1>5 DEF Ahead, Candidates
<1> QED
  BY <1>3, <1>4, <1>6

\* When the search ends all candidates have been looked into.
LEMMA AllFound ==
  ASSUME SearchInv, arch_pc = "search", dirs = <<>>
  PROVE  archs = FoundBelow
<1>1. Listed(dirs) = {} /\ Walked({})
  BY DEF Listed, Walked
<1>2. \A n \in Candidates : FromMachine(machine[n]) \subseteq archs
  BY <1>1 DEF SearchInv, Ahead
<1>3. FoundBelow = UNION {FromMachine(machine[m]) : m \in Candidates}
  BY DEF FoundBelow, Candidates, Entries
<1> QED
  BY <1>2, <1>3 DEF SearchInv

LEMMA SearchStep ==
  ASSUME ArchTypeOK, SearchInv, ArchStep
  PROVE  ArchTypeOK' /\ SearchInv'
<1>1. UNCHANGED <<text, machine>>
  BY DEF ArchStep, ReadArch, ReadEntry, CloseDirectory, SearchEnds, CountArchs, arch_inputs
<1>2. FoundBelow' = FoundBelow
  BY <1>1 DEF FoundBelow
<1>3. CASE ReadArch
  <2>1. archs' = FromText(text) /\ archs' \subseteq Arch
    BY <1>3 DEF ReadArch, FromText
  <2>2. CASE FromText(text) # {}
    <3>1. PICK a \in Arch : archs' = {a}
      BY <2>1, <2>2, TextIsOne
    <3>2. arch_pc' = "found" /\ dirs' = dirs
      BY <1>3, <3>1, FS_Singleton DEF ReadArch
    <3> QED
      BY <1>1, <2>1, <2>2, <3>1, <3>2 DEF ArchTypeOK, SearchInv
  <2>3. CASE FromText(text) = {}
    <3>1. arch_pc' = "search" /\ dirs' = <<Contains[Source]>>
      BY <1>3, <2>1, <2>3, FS_EmptySet DEF ReadArch
    <3>2. Contains[Source] \in SUBSET Node
      BY TreeAssumption
    <3>3. Listed(dirs') = Contains[Source] /\ dirs' \in Seq(SUBSET Node)
      BY <3>1, <3>2 DEF Listed
    <3>4. Ahead'
      BY <3>3, EntriesLeast DEF Ahead, Candidates
    <3> QED
      BY <1>1, <2>1, <2>3, <3>1, <3>3, <3>4, EntriesClosed DEF ArchTypeOK, SearchInv
  <2> QED
    BY <2>2, <2>3
<1>4. ASSUME NEW n \in Node, ReadEntry(n)
      PROVE  ArchTypeOK' /\ SearchInv'
  <2>1. arch_pc = "search" /\ arch_pc' = "search"
    BY <1>4 DEF ReadEntry
  <2>2. archs' \subseteq Arch
    BY <1>4 DEF ReadEntry, ArchTypeOK, FromMachine
  <2>3. dirs' \in Seq(SUBSET Node)
    BY <1>4, ListedChanges
  <2> QED
    BY <1>1, <1>2, <1>4, <2>1, <2>2, <2>3, ReadKeeps DEF ArchTypeOK, SearchInv
<1>5. CASE CloseDirectory
  <2>1. arch_pc = "search" /\ arch_pc' = "search" /\ archs' = archs
    BY <1>5 DEF CloseDirectory
  <2>2. Ahead' <=> Ahead
    BY <1>1, <1>5, <2>1, ListedCloses DEF Ahead, Candidates
  <2> QED
    BY <1>1, <1>2, <1>5, <2>1, <2>2, ListedCloses DEF ArchTypeOK, SearchInv
<1>6. CASE SearchEnds
  <2>1. arch_pc = "search" /\ arch_pc' = "count" /\ dirs = <<>> /\ UNCHANGED <<archs, dirs>>
    BY <1>6 DEF SearchEnds
  <2> QED
    BY <1>1, <1>2, <2>1, AllFound DEF ArchTypeOK, SearchInv
<1>7. CASE CountArchs
  <2>1. /\ arch_pc = "count" /\ UNCHANGED <<archs, dirs>>
        /\ arch_pc' = IF Cardinality(archs) = 1 THEN "found" ELSE "undecided"
    BY <1>7 DEF CountArchs
  <2>2. Cardinality(archs) = 1 => \E a \in Arch : archs = {a}
    BY FlagsFinite DEF ArchTypeOK
  <2> QED
    BY <1>1, <1>2, <2>1, <2>2 DEF ArchTypeOK, SearchInv
<1> QED
  BY <1>3, <1>4, <1>5, <1>6, <1>7 DEF ArchStep

-----------------------------------------------------------------------------
(* The certificates. *)

\* Where there is a place to be found, the first is chosen.
LEMMA FirstFound ==
  ASSUME NEW places \in Seq(Place), NEW ok
  PROVE  \/ First(places, ok) = Unset /\ \A i \in 1 .. Len(places) : places[i] \notin ok
         \/ /\ First(places, ok) \in 1 .. Len(places)
            /\ places[First(places, ok)] \in ok
            /\ \A j \in 1 .. First(places, ok) - 1 : places[j] \notin ok
<1> DEFINE hits == {i \in 1 .. Len(places) : places[i] \in ok}
<1>1. Len(places) \in Nat /\ hits \subseteq Nat
  OBVIOUS
<1>2. CASE hits = {}
  BY <1>2 DEF First
<1>3. CASE hits # {}
  <2>1. PICK m \in hits : \A i \in hits : ~(<<i, m>> \in OpToRel(<, Nat))
    <3> HIDE DEF hits
    <3> QED
      BY <1>1, <1>3, WFMin, NatLessThanWellFounded, Zenon
  <2>2. \A i \in hits : ~(i < m)
    <3> HIDE DEF hits
    <3> QED
      BY <1>1, <2>1, Zenon DEF OpToRel
  <2>3. \A i \in hits : m <= i
    <3> HIDE DEF hits
    <3> QED
      BY <1>1, <2>2
  <2> DEFINE first == CHOOSE i \in hits : \A j \in hits : i <= j
  <2>4. first \in hits /\ \A j \in hits : first <= j
    <3> HIDE DEF hits
    <3> QED
      BY <2>3
  <2>5. First(places, ok) = first
    BY <1>3 DEF First
  <2> HIDE DEF first
  <2>6. \A j \in 1 .. first - 1 : j \notin hits /\ j \in 1 .. Len(places)
    BY <1>1, <2>4
  <2> QED
    BY <2>4, <2>5, <2>6
<1> QED
  BY <1>2, <1>3

\* The place named is one that counts, unless there are none, and the first.
LEMMA ChosenFound ==
  ASSUME NEW asks \in BOOLEAN, NEW default \in Place, NEW places \in Seq(Place),
         NEW ok, "present" \in ok, NEW option, option = Chosen(asks, default, places, ok)
  PROVE  /\ option \in CaOption(places)
         /\ Somewhere(default, places) =>
              \/ Named(option, default, places) = "present"
              \/ /\ option \in 1 .. Len(places)
                 /\ places[option] \in ok
                 /\ \A j \in 1 .. option - 1 : places[j] \notin ok
<1>1. Len(places) \in Nat
  OBVIOUS
<1>2. CASE First(places, ok) = Unset /\ \A i \in 1 .. Len(places) : places[i] \notin ok
  BY <1>1, <1>2 DEF Chosen, CaOption, Default, Unset, Somewhere, Named
<1>3. CASE /\ First(places, ok) \in 1 .. Len(places)
           /\ places[First(places, ok)] \in ok
           /\ \A j \in 1 .. First(places, ok) - 1 : places[j] \notin ok
  <2>1. First(places, ok) # Unset
    BY <1>1, <1>3 DEF Unset
  <2>2. (option = Default /\ default = "present") \/ option = First(places, ok)
    BY <2>1 DEF Chosen
  <2> QED
    BY <1>1, <1>3, <2>2 DEF CaOption, Default, Unset, Named
<1> QED
  BY <1>2, <1>3, FirstFound

LEMMA HostFields ==
  ASSUME host \in Hosts
  PROVE  /\ host.asks \in BOOLEAN
         /\ host.default_file \in Place /\ host.files \in Seq(Place)
         /\ host.default_dir \in Place /\ host.dirs \in Seq(Place)
BY FetchAssumption DEF HostType

-----------------------------------------------------------------------------
(* The transfer. *)

Bytes == [status : Nat, at : Nat]

LEMMA FetchTypes ==
  ASSUME FetchTypeOK
  PROVE  /\ MaxRedirs \in Nat /\ BodyLengths \subseteq Nat /\ Errors \subseteq Nat
         /\ redirects \in Nat /\ status \in Nat /\ body \in Nat
         /\ announced \in Int /\ buffer \in Seq(Bytes) /\ Len(buffer) \in Nat
BY FetchAssumption DEF FetchTypeOK, Unknown, Bytes

\* A piece lengthens what has arrived.
LEMMA PieceArrives ==
  ASSUME FetchTypeOK, Arrived, NEW j \in Len(buffer) + 1 .. body
  PROVE  LET longer == buffer \o Piece(Len(buffer) + 1, j)
         IN /\ longer \in Seq(Bytes) /\ Len(longer) = j
            /\ \A k \in 1 .. j : longer[k] = [status |-> status, at |-> k]
<1> DEFINE len == Len(buffer)
           piece == Piece(len + 1, j)
<1>1. /\ buffer \in Seq(Bytes) /\ len \in Nat /\ j \in Nat /\ j > len /\ status \in Nat
      /\ \A k \in 1 .. len : buffer[k] = [status |-> status, at |-> k]
  BY FetchTypes DEF Arrived
<1>2. /\ piece \in Seq(Bytes) /\ Len(piece) = j - len
      /\ \A k \in 1 .. j - len : piece[k] = [status |-> status, at |-> len + k]
  <2> HIDE DEF len
  <2>1. j - (len + 1) + 1 = j - len /\ \A k \in 1 .. j - len : len + 1 + k - 1 = len + k
    BY <1>1
  <2>2. piece = [k \in 1 .. j - len |-> [status |-> status, at |-> len + k]]
    BY <2>1 DEF Piece
  <2>3. \A k \in 1 .. j - len : [status |-> status, at |-> len + k] \in Bytes
    BY <1>1 DEF Bytes
  <2> HIDE DEF piece
  <2>4. piece \in [1 .. j - len -> Bytes]
    BY <2>2, <2>3
  <2>5. j - len \in Nat
    BY <1>1
  <2> QED
    BY <2>2, <2>4, <2>5
<1> HIDE DEF piece
<1>3. /\ buffer \o piece \in Seq(Bytes) /\ Len(buffer \o piece) = len + (j - len)
      /\ \A k \in 1 .. len + (j - len) :
           (buffer \o piece)[k] = IF k <= len THEN buffer[k] ELSE piece[k - len]
  BY <1>1, <1>2, ConcatProperties
<1> HIDE DEF len
<1>4. len + (j - len) = j /\ \A k \in 1 .. j : k > len => k - len \in 1 .. j - len
                                                /\ len + (k - len) = k
  BY <1>1
<1> QED
  BY <1>1, <1>2, <1>3, <1>4 DEF len, piece

LEMMA FetchCallKeeps ==
  ASSUME FetchTypeOK, FetchInv, NEW arch, FetchCall(arch)
  PROVE  FetchTypeOK' /\ FetchInv'
BY DEF FetchCall, FetchAt, FetchGoto, options, answer, FetchTypeOK, FetchInv, FetchEnded, Asked,
       Arrived, Accepted, CaOption

LEMMA FetchKeeps ==
  ASSUME FetchTypeOK, FetchInv, FetchStep
  PROVE  FetchTypeOK' /\ FetchInv'
<1> USE DEF FetchAt, FetchGoto, Done, options, answer, FetchEnded
<1>1. /\ MaxRedirs \in Nat /\ BodyLengths \subseteq Nat /\ Errors \subseteq Nat
      /\ redirects \in Nat /\ status \in Nat /\ body \in Nat
      /\ announced \in Int /\ buffer \in Seq(Bytes) /\ Len(buffer) \in Nat
  BY FetchTypes
<1>2. CASE SetUp
  BY <1>2 DEF SetUp, FetchTypeOK, FetchInv, Asked, Arrived, CaOption
<1>3. CASE SetUpTls
  <2>1. /\ host \in Hosts
        /\ ca_info' = Chosen(host.asks, host.default_file, host.files, FileOk)
        /\ ca_path' = Chosen(host.asks, host.default_dir, host.dirs, DirOk)
    BY <1>3 DEF SetUpTls, FetchTypeOK
  <2>2. ca_info' \in CaOption(host.files) /\ ca_path' \in CaOption(host.dirs)
    BY <2>1, HostFields, ChosenFound DEF FileOk, DirOk
  <2> QED
    BY <1>3, <2>1, <2>2 DEF SetUpTls, FetchTypeOK, FetchInv, Asked, Arrived
<1>4. CASE SetUpTlsThrows
  BY <1>4 DEF SetUpTlsThrows, FetchTypeOK, FetchInv, Asked, Arrived
<1>5. CASE NoAnswer
  BY <1>5 DEF NoAnswer, FetchTypeOK, FetchInv, Asked, Arrived
<1>6. CASE Redirect
  <2>1. redirects' \in 0 .. MaxRedirs
    BY <1>1, <1>6 DEF Redirect, FetchTypeOK
  <2>2. buffer = <<>>
    BY <1>6 DEF Redirect, FetchInv
  <2>3. fetch_pc = "request" /\ status' = 302
        /\ (fetch_pc' = "request" \/ fetch_pc' = "check") /\ success' \in {success, FALSE}
        /\ UNCHANGED <<url, host, ca_info, ca_path, body, announced, buffer, copied>>
    BY <1>6 DEF Redirect
  <2>4. FetchTypeOK'
    BY <2>1, <2>3 DEF FetchTypeOK
  <2>5. FetchInv'
    <3>1. Arrived'
      BY <2>2, <2>3 DEF Arrived, FetchInv
    <3> QED
      BY <2>2, <2>3, <3>1 DEF FetchInv, Asked
  <2> QED
    BY <2>4, <2>5
<1>7. CASE Answer
  <2>1. buffer = <<>>
    BY <1>7 DEF Answer, FetchInv
  <2>2. body' \in Nat /\ announced' \in {body', Unknown} /\ status' \in {200} \cup Errors
    BY <1>1, <1>7 DEF Answer
  <2> QED
    BY <1>7, <2>1, <2>2 DEF Answer, FetchTypeOK, FetchInv, Asked, Arrived
<1>8. CASE WriteStuff
  <2>1. PICK j \in Len(buffer) + 1 .. body : buffer' = buffer \o Piece(Len(buffer) + 1, j)
    BY <1>8 DEF WriteStuff
  <2>2. /\ buffer' \in Seq(Bytes) /\ Len(buffer') = j
        /\ \A k \in 1 .. j : buffer'[k] = [status |-> status, at |-> k]
    BY <2>1, PieceArrives DEF FetchInv
  <2>3. j <= body
    BY <1>1
  <2>4. fetch_pc = "body"
        /\ UNCHANGED <<fetch_pc, url, host, ca_info, ca_path, redirects, status, body, announced,
                       success, copied>>
    BY <1>8 DEF WriteStuff
  <2> QED
    BY <2>2, <2>3, <2>4 DEF FetchTypeOK, FetchInv, Asked, Arrived, Bytes
<1>9. CASE BodyEnds \/ ConnectionCloses \/ ConnectionBreaks
  <2>1. /\ fetch_pc = "body" /\ fetch_pc' = "check" /\ success' \in BOOLEAN
        /\ UNCHANGED <<url, host, ca_info, ca_path, redirects, status, body, announced, buffer,
                       copied>>
    BY <1>9 DEF BodyEnds, ConnectionCloses, ConnectionBreaks
  <2> QED
    BY <2>1 DEF FetchTypeOK, FetchInv, Asked, Arrived
<1>10. CASE Check
  <2>1. /\ fetch_pc = "check" /\ ((fetch_pc' = "copy" /\ Accepted) \/ fetch_pc' = "false")
        /\ UNCHANGED <<url, host, ca_info, ca_path, redirects, status, body, announced, buffer,
                       success, copied>>
    BY <1>10 DEF Check
  <2> QED
    BY <2>1 DEF FetchTypeOK, FetchInv, Asked, Arrived, Accepted
<1>11. CASE Copy
  <2>1. /\ fetch_pc = "copy"
        /\ UNCHANGED <<url, host, ca_info, ca_path, redirects, status, body, announced, buffer,
                       success>>
        /\ \/ /\ fetch_pc' = "true"
              /\ copied' = [size |-> announced, room |-> announced + 1, bytes |-> buffer]
           \/ /\ fetch_pc' = "false"
              /\ copied' = [NoCopy EXCEPT !.size = announced]
    BY <1>11 DEF Copy
  <2>2. Accepted /\ announced \in Nat
    BY <1>1, <2>1 DEF FetchInv, Accepted
  <2>3. copied'.size \in Nat /\ copied'.room \in Nat
    BY <2>1, <2>2 DEF NoCopy
  <2> QED
    BY <2>1, <2>2, <2>3 DEF FetchTypeOK, FetchInv, Asked, Arrived, Accepted
<1> QED
  BY <1>2, <1>3, <1>4, <1>5, <1>6, <1>7, <1>8, <1>9, <1>10, <1>11 DEF FetchStep

-----------------------------------------------------------------------------
(* main *)

\* The flag that decides is the one that main asks with.
LEMMA NameIsFound ==
  ASSUME SearchInv, arch_pc = "found"
  PROVE  /\ ArchName \in Arch /\ archs = {ArchName}
         /\ {ArchName} = IF FromText(text) # {} THEN FromText(text) ELSE FoundBelow
BY NameOfOne DEF SearchInv

LEMMA InitInv ==
  ASSUME Init
  PROVE  Inv
<1> USE DEF Init, ArchInit, FetchInit
<1>1. ArchTypeOK /\ SearchInv
  BY DEF ArchTypeOK, SearchInv
<1>2. FetchTypeOK
  <2>1. MaxRedirs \in Nat /\ ca_info \in CaOption(host.files) /\ ca_path \in CaOption(host.dirs)
    BY FetchAssumption DEF CaOption
  <2>2. buffer \in Seq(Bytes) /\ copied.size = 0 /\ copied.room = 0
    BY DEF NoCopy
  <2>3. redirects \in 0 .. MaxRedirs
    BY <2>1
  <2>4. /\ fetch_pc = "idle" /\ host \in Hosts /\ status = 0 /\ body \in Nat
        /\ announced = Unknown /\ success \in BOOLEAN
    OBVIOUS
  <2> HIDE DEF Init, FetchInit
  <2> QED
    BY <2>1, <2>2, <2>3, <2>4 DEF FetchTypeOK, Bytes
<1>3. FetchInv
  BY DEF FetchInv, Asked, Arrived
<1>4. TypeOK
  BY <1>1, <1>2 DEF TypeOK
<1> QED
  BY <1>1, <1>3, <1>4 DEF Inv, MainInv

LEMMA ReadFileData ==
  ASSUME TypeOK, ReadFile
  PROVE  size' \in Int /\ data' \in Seq([status : Nat, at : Nat])
<1>1. CASE runtime_file = 0
  BY <1>1 DEF ReadFile, TypeOK
<1>2. CASE runtime_file # 0
  <2>1. runtime_file \in Nat /\ IntMax \in Nat
    BY ObtainAssumption DEF TypeOK, ReadFile
  <2>2. ToInt(runtime_file) \in Int
    <3> DEFINE n == runtime_file + IntMax + 1
               m == 2 * (IntMax + 1)
    <3>1. n \in Nat /\ m \in Nat \ {0}
      BY <2>1
    <3> HIDE DEF n, m
    <3>2. (n % m) \in Int
      BY <3>1
    <3> QED
      BY <2>1, <3>2 DEF ToInt, n, m
  <2>3. PICK k \in 0 .. runtime_file : data' = [i \in 1 .. k |-> [status |-> 0, at |-> i]]
    BY <1>2 DEF ReadFile
  <2>4. k \in Nat /\ data' \in [1 .. k -> Bytes]
    BY <2>1, <2>3 DEF Bytes
  <2>5. data' \in Seq(Bytes)
    BY <2>4
  <2> QED
    BY <1>2, <2>2, <2>5 DEF ReadFile, Bytes
<1> QED
  BY <1>1, <1>2

LEMMA StepKeeps ==
  ASSUME Inv, [Step]_vars
  PROVE  Inv'
<1> USE DEF Inv, Ended
<1>1. UNCHANGED arch_vars => (ArchTypeOK <=> ArchTypeOK') /\ (SearchInv <=> SearchInv')
                             /\ ArchName' = ArchName
  BY DEF arch_vars, arch_inputs, ArchTypeOK, SearchInv, ArchName, FoundBelow, Ahead, Candidates
<1>2. UNCHANGED fetch_vars => (FetchTypeOK <=> FetchTypeOK') /\ (FetchInv <=> FetchInv')
                              /\ UNCHANGED <<fetch_pc, url, copied>>
  BY DEF fetch_vars, options, answer, FetchTypeOK, FetchInv, Arrived, Accepted
<1>3. CASE UNCHANGED vars
  BY <1>1, <1>2, <1>3 DEF vars, arch_vars, TypeOK, MainInv
<1>4. CASE DetectArch
  <2>1. ArchTypeOK' /\ SearchInv'
    BY <1>4, SearchStep DEF DetectArch, TypeOK
  <2> QED
    BY <1>2, <1>4, <2>1 DEF DetectArch, TypeOK, MainInv
<1>5. CASE ArchIsKnown \/ ArchIsNot
  BY <1>1, <1>2, <1>5 DEF ArchIsKnown, ArchIsNot, arch_vars, TypeOK, MainInv
<1>6. CASE ReadFile
  <2>1. size' \in Int /\ data' \in Seq([status : Nat, at : Nat])
    BY <1>6, ReadFileData
  <2> QED
    BY <1>1, <1>2, <1>6, <2>1 DEF ReadFile, arch_vars, TypeOK, MainInv
<1>7. CASE CallFetch
  <2>1. url' = ArchName /\ ArchName \in Arch
    BY <1>7, NameIsFound DEF CallFetch, FetchCall, MainInv
  <2>2. FetchTypeOK' /\ FetchInv'
    BY <1>7, FetchCallKeeps DEF CallFetch, TypeOK
  <2> QED
    BY <1>1, <1>7, <2>1, <2>2 DEF CallFetch, arch_vars, TypeOK, MainInv
<1>8. CASE Fetch
  <2>1. FetchTypeOK' /\ FetchInv'
    BY <1>8, FetchKeeps DEF Fetch, TypeOK
  <2>2. url' = url
    BY <1>8 DEF Fetch, FetchStep, SetUp, SetUpTls, SetUpTlsThrows, NoAnswer, Redirect, Answer,
         WriteStuff, BodyEnds, ConnectionCloses, ConnectionBreaks, Check, Copy
  <2> QED
    BY <1>1, <1>8, <2>1, <2>2 DEF Fetch, arch_vars, TypeOK, MainInv
<1>9. CASE FetchReturns
  <2>1. fetch_pc = "true" => copied.bytes \in Seq([status : Nat, at : Nat])
    BY DEF FetchInv, TypeOK, FetchTypeOK
  <2>2. copied.size \in Int
    BY DEF TypeOK, FetchTypeOK
  <2> QED
    BY <1>1, <1>2, <1>9, <2>1, <2>2 DEF FetchReturns, arch_vars, TypeOK, MainInv
<1> QED
  BY <1>3, <1>4, <1>5, <1>6, <1>7, <1>8, <1>9 DEF Step

LEMMA AlwaysInv == Spec => []Inv
BY InitInv, StepKeeps, PTL DEF Spec

-----------------------------------------------------------------------------
(* What the invariant says of a runtime. *)

\* The variables stay in their types, whatever the AppDir, the host and the
\* server are (main, appimagetool.c:754-925).
THEOREM TypeCorrect == Spec => []TypeOK
<1>1. Inv => TypeOK
  BY DEF Inv
<1> QED
  BY <1>1, AlwaysInv, PTL

\* In every AppDir and for every order in which find_arch (appimagetool.c:404)
\* is given the entries, the architecture follows from $ARCH and the files.
THEOREM OrderDoesNotMatter == Spec => []ArchIsDetermined
<1>1. Inv => ArchIsDetermined
  BY NameIsFound DEF Inv, SearchInv, ArchIsDetermined
<1> QED
  BY <1>1, AlwaysInv, PTL

\* A successful fetch_runtime hands out the whole body of a good answer, for
\* every number of redirects and every way the body is cut into pieces.
THEOREM BodyIsWhole == Spec => []WholeBodyOnly
<1>1. ASSUME Inv, fetch_pc = "true"
      PROVE  /\ status = 200 /\ copied.size = body /\ copied.room > copied.size
             /\ copied.bytes = Piece(1, body)
  <2>1. /\ status = 200 /\ Len(buffer) = announced /\ announced \in {body, Unknown}
        /\ copied = [size |-> announced, room |-> announced + 1, bytes |-> buffer]
        /\ \A k \in 1 .. Len(buffer) : buffer[k] = [status |-> status, at |-> k]
    BY <1>1 DEF Inv, FetchInv, Accepted, Arrived
  <2>2. body \in Nat /\ buffer \in Seq(Bytes) /\ Len(buffer) \in Nat
    BY <1>1, FetchTypes DEF Inv, TypeOK
  <2>3. Len(buffer) = body /\ announced = body
    BY <2>1, <2>2 DEF Unknown
  <2>4. buffer = [k \in 1 .. body |-> [status |-> status, at |-> k]]
    BY <2>1, <2>2, <2>3
  <2>5. body - 1 + 1 = body /\ \A k \in 1 .. body : 1 + k - 1 = k
    BY <2>2
  <2>6. Piece(1, body) = [k \in 1 .. body |-> [status |-> status, at |-> k]]
    BY <2>5 DEF Piece
  <2> QED
    BY <2>1, <2>2, <2>3, <2>4, <2>6
<1>2. Inv => WholeBodyOnly
  BY <1>1 DEF WholeBodyOnly
<1> QED
  BY <1>2, AlwaysInv, PTL

\* Where a host has certificates, setUpTlsCaChainCompatibility makes the request
\* with some (appimagetool_fetch_runtime.cpp:161), for lists of places of any
\* length, except for a bundle behind a dangling link (line 63).
THEOREM CertificatesAreFound == Spec => []CertificatesFound
<1>1. ASSUME Inv, FetchAt("request")
      PROVE  CertificatesFound
  <2>1. /\ host \in Hosts
        /\ ca_info = Chosen(host.asks, host.default_file, host.files, FileOk)
        /\ ca_path = Chosen(host.asks, host.default_dir, host.dirs, DirOk)
    BY <1>1 DEF Inv, TypeOK, FetchTypeOK, FetchInv, Asked, FetchAt
  <2>2. /\ host.asks \in BOOLEAN
        /\ host.default_file \in Place /\ host.files \in Seq(Place)
        /\ host.default_dir \in Place /\ host.dirs \in Seq(Place)
    BY <2>1, HostFields
  <2>3. Somewhere(host.default_dir, host.dirs) =>
          \/ Named(ca_path, host.default_dir, host.dirs) = "present"
          \/ ca_path \in 1 .. Len(host.dirs) /\ host.dirs[ca_path] = "present"
    BY <2>1, <2>2, ChosenFound DEF DirOk
  <2>4. ca_path \in 1 .. Len(host.dirs) =>
          Named(ca_path, host.default_dir, host.dirs) = host.dirs[ca_path]
    BY <2>2 DEF Named, Default, Unset
  <2>5. Somewhere(host.default_file, host.files) =>
          \/ Named(ca_info, host.default_file, host.files) = "present"
          \/ /\ ca_info \in 1 .. Len(host.files)
             /\ host.files[ca_info] \in FileOk
             /\ \A j \in 1 .. ca_info - 1 : host.files[j] \notin FileOk
    BY <2>1, <2>2, ChosenFound DEF FileOk
  <2>6. ca_info \in 1 .. Len(host.files) =>
          Named(ca_info, host.default_file, host.files) = host.files[ca_info]
    BY <2>2 DEF Named, Default, Unset
  <2> QED
    BY <2>3, <2>4, <2>5, <2>6 DEF CertificatesFound, FileOk
<1>2. Inv => CertificatesFound
  BY <1>1 DEF CertificatesFound
<1> QED
  BY <1>2, AlwaysInv, PTL

\* A download that main goes on with (appimagetool.c:916) is whole and of the
\* architecture that was found.
THEOREM DownloadIsRight == Spec => []DownloadFits
<1>1. ASSUME Inv, pc = "loaded", runtime_file = NoFile
      PROVE  /\ {url} = IF FromText(text) # {} THEN FromText(text) ELSE FoundBelow
             /\ Len(data) = size
             /\ \A i \in 1 .. size : data[i] = [status |-> 200, at |-> i]
  <2>1. arch_pc = "found" /\ url = ArchName
    BY <1>1 DEF Inv, MainInv
  <2>2. fetch_pc = "true" /\ size = copied.size /\ data = copied.bytes
    BY <1>1 DEF Inv, MainInv
  <2>3. /\ status = 200 /\ Len(buffer) = announced /\ size = announced /\ data = buffer
        /\ \A k \in 1 .. Len(buffer) : buffer[k] = [status |-> status, at |-> k]
    BY <1>1, <2>2 DEF Inv, FetchInv, Accepted, Arrived
  <2> QED
    BY <1>1, <2>1, <2>3, NameIsFound DEF Inv
<1>2. Inv => DownloadFits
  BY <1>1 DEF DownloadFits
<1> QED
  BY <1>2, AlwaysInv, PTL
=============================================================================
