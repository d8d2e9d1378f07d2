----------------------------- MODULE ArchDetect -----------------------------
(***************************************************************************)
(* How main determines the architecture (src/src/appimagetool.c): from     *)
(* $ARCH, and failing that from the e_machine fields of the files of the   *)
(* AppDir, which find_arch walks through in whatever order the file system *)
(* lists them.  Each source adds flags to one set; exactly one flag counts *)
(* as an answer.                                                           *)
(***************************************************************************)
EXTENDS Naturals, Sequences, FiniteSets

CONSTANTS
  Texts,      \* the values of $ARCH considered, "" for an unset variable
  Machines,   \* the e_machine values considered, 0 for an unreadable file
  Node,       \* the entries of the file system
  Source,     \* the AppDir among them
  Contains,   \* per node, what a directory contains, or a link to one leads to
  Kind,       \* per node, "dir", "symlink" or "file"
  Executable, \* the files that may be executed
  SharedLib   \* the files whose name matches *.so.*

ASSUME TreeAssumption ==
  /\ Source \in Node
  /\ Contains \in [Node -> SUBSET Node]
  /\ Kind \in [Node -> {"dir", "symlink", "file"}]
  /\ Executable \subseteq Node /\ SharedLib \subseteq Node

ASSUME ValuesAssumption == Texts \subseteq STRING /\ Machines \subseteq Nat

Files == {n \in Node : Kind[n] = "file"}

Arch == {"i686", "x86_64", "armhf", "aarch64"}

VARIABLES
  arch_pc,    \* "env", "search", "count", "found" or "undecided"
  text,       \* $ARCH, stripped, in lower case, with underscores
  machine,    \* the e_machine field of each file
  archs,      \* the flags that are set
  dirs        \* the directories being read, innermost last: entries left

arch_inputs == <<text, machine>>
arch_vars == <<arch_pc, arch_inputs, archs, dirs>>

\* The texts extract_arch_from_text knows, compared as a whole.
Spellings(a) ==
  CASE a = "i686" -> {"i386", "i486", "i586", "i686", "intel_80386",
                      "intel_80486", "intel_80586", "intel_80686"}
    [] a = "x86_64" -> {"x86_64"}
    [] a = "armhf" -> {"arm", "armhf"}
    [] a = "aarch64" -> {"arm_aarch64", "aarch64"}

FromText(t) == {a \in Arch : t \in Spellings(a)}

EMachine(a) ==
  CASE a = "i686" -> 3
    [] a = "x86_64" -> 62
    [] a = "armhf" -> 40
    [] a = "aarch64" -> 183

FromMachine(m) == {a \in Arch : EMachine(a) = m}

\* Whether find_arch looks into a file.
Guessed(n) == n \in Executable \/ n \in SharedLib

ArchInit ==
  /\ arch_pc = "env"
  /\ text \in Texts
  /\ machine \in [Files -> Machines]
  /\ archs = {}
  /\ dirs = <<>>

-----------------------------------------------------------------------------
\* A text that is not understood counts as none: the files are looked at.
ReadArch ==
  /\ arch_pc = "env"
  /\ archs' = FromText(text)
  /\ IF Cardinality(archs') = 1
     THEN arch_pc' = "found" /\ UNCHANGED dirs
     ELSE arch_pc' = "search" /\ dirs' = <<Contains[Source]>>
  /\ UNCHANGED arch_inputs

Innermost == dirs[Len(dirs)]

Rest(n) == [dirs EXCEPT ![Len(dirs)] = @ \ {n}]

\* Variant: links to directories are followed.
Descends(n) == Kind[n] \in {"dir", "symlink"}

Enters(n) == Kind[n] = "dir"

\* The next entry: a symlink is passed over, a directory entered, a candidate
\* file looked into.
ReadEntry(n) ==
  /\ arch_pc = "search"
  /\ dirs # <<>>
  /\ n \in Innermost
  /\ dirs' = IF Enters(n) THEN Append(Rest(n), Contains[n]) ELSE Rest(n)
  /\ archs' = IF n \in Files /\ Guessed(n)
              THEN archs \cup FromMachine(machine[n]) ELSE archs
  /\ UNCHANGED <<arch_pc, arch_inputs>>

CloseDirectory ==
  /\ arch_pc = "search"
  /\ dirs # <<>>
  /\ Innermost = {}
  /\ dirs' = SubSeq(dirs, 1, Len(dirs) - 1)
  /\ UNCHANGED <<arch_pc, arch_inputs, archs>>

SearchEnds ==
  /\ arch_pc = "search"
  /\ dirs = <<>>
  /\ arch_pc' = "count"
  /\ UNCHANGED <<arch_inputs, archs, dirs>>

\* Variant: no flag at all is an answer, too.
CountAtMostOne ==
  /\ arch_pc = "count"
  /\ arch_pc' = IF Cardinality(archs) <= 1 THEN "found" ELSE "undecided"
  /\ UNCHANGED <<arch_inputs, archs, dirs>>

CountArchs ==
  /\ arch_pc = "count"
  /\ arch_pc' = IF Cardinality(archs) = 1 THEN "found" ELSE "undecided"
  /\ UNCHANGED <<arch_inputs, archs, dirs>>

ArchStep ==
  \/ ReadArch
  \/ \E n \in Node : ReadEntry(n)
  \/ CloseDirectory
  \/ SearchEnds
  \/ CountArchs

ArchSpec == ArchInit /\ [][ArchStep]_arch_vars

\* getArchName: the flags in this order.
ArchName ==
  CASE "i686" \in archs -> "i686"
    [] "i686" \notin archs /\ "x86_64" \in archs -> "x86_64"
    [] archs \cap {"i686", "x86_64"} = {} /\ "armhf" \in archs -> "armhf"
    [] archs = {"aarch64"} -> "aarch64"
    [] OTHER -> "all"

-----------------------------------------------------------------------------
ArchTypeOK ==
  /\ arch_pc \in {"env", "search", "count", "found", "undecided"}
  /\ text \in Texts
  /\ machine \in [Files -> Machines]
  /\ archs \subseteq Arch
  /\ dirs \in Seq(SUBSET Node)

\* The directories below the AppDir: the least set with the AppDir in it that
\* holds the directories its members contain.  No link is followed.
Closed(S) == \A d \in S : {n \in Contains[d] : Kind[n] = "dir"} \subseteq S

Below == {n \in Node : \A S \in SUBSET Node : Source \in S /\ Closed(S) => n \in S}

\* What the files below the AppDir say.
FoundBelow ==
  UNION {FromMachine(machine[n]) :
           n \in {m \in UNION {Contains[d] : d \in Below} : m \in Files /\ Guessed(m)}}

\* The outcome depends on the inputs alone, not on the order in which the
\* directories are listed: a text that is understood decides, otherwise the
\* files do, and the search goes through all of them and no others.
ArchIsDetermined ==
  LET evidence == IF FromText(text) # {} THEN FromText(text) ELSE FoundBelow IN
  /\ arch_pc = "found" => evidence = {ArchName}
  /\ arch_pc = "undecided" => Cardinality(evidence) # 1
=============================================================================
