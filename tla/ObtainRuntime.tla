--------------------------- MODULE ObtainRuntime ---------------------------
(***************************************************************************)
(* How main (src/src/appimagetool.c) comes to have a runtime in memory:    *)
(* the architecture first (ArchDetect), then a file the user names, or the *)
(* download for that architecture (FetchRuntime).                          *)
(***************************************************************************)
EXTENDS ArchDetect, FetchRuntime

CONSTANTS
  RuntimeFiles,  \* lengths --runtime-file may have; 0 stands for no such file
  NoFile,        \* the option is not given
  IntMax         \* the largest int

ASSUME ObtainAssumption ==
  /\ RuntimeFiles \subseteq Nat
  /\ NoFile \notin RuntimeFiles
  /\ IntMax \in Nat

VARIABLES
  pc,            \* the step main is at
  runtime_file,  \* the length of the file given, or NoFile
  size,          \* size and data: the runtime in memory
  data

vars == <<pc, runtime_file, size, data, arch_vars, fetch_vars>>

Ended == {"loaded", "died", "terminated"}

Init ==
  /\ pc = "arch"
  /\ runtime_file \in RuntimeFiles \cup {NoFile}
  /\ size = 0
  /\ data = <<>>
  /\ ArchInit
  /\ FetchInit

DetectArch ==
  /\ pc = "arch"
  /\ ArchStep
  /\ UNCHANGED <<pc, runtime_file, size, data, fetch_vars>>

ArchIsKnown ==
  /\ pc = "arch"
  /\ arch_pc = "found"
  /\ pc' = "load"
  /\ UNCHANGED <<runtime_file, size, data, arch_vars, fetch_vars>>

ArchIsNot ==
  /\ pc = "arch"
  /\ arch_pc = "undecided"
  /\ pc' = "died"
  /\ UNCHANGED <<runtime_file, size, data, arch_vars, fetch_vars>>

\* The length of a file, cast to int.
ToInt(n) == ((n + IntMax + 1) % (2 * (IntMax + 1))) - (IntMax + 1)

\* readFile: how much fread delivers is not looked at.
ReadFile ==
  /\ pc = "load"
  /\ runtime_file # NoFile
  /\ IF runtime_file = 0
     THEN pc' = "died" /\ UNCHANGED <<size, data>>
     ELSE /\ pc' = "loaded"
          /\ size' = ToInt(runtime_file)
          /\ \E k \in 0 .. runtime_file : data' = [i \in 1 .. k |-> [status |-> 0, at |-> i]]
  /\ UNCHANGED <<runtime_file, arch_vars, fetch_vars>>

CallFetch ==
  /\ pc = "load"
  /\ runtime_file = NoFile
  /\ FetchCall(ArchName)
  /\ pc' = "fetch"
  /\ UNCHANGED <<runtime_file, size, data, arch_vars>>

Fetch ==
  /\ pc = "fetch"
  /\ FetchStep
  /\ UNCHANGED <<pc, runtime_file, size, data, arch_vars>>

FetchReturns ==
  /\ pc = "fetch"
  /\ \/ /\ fetch_pc = "true"
        /\ pc' = "loaded"
        /\ data' = copied.bytes
     \/ /\ fetch_pc = "false"
        /\ pc' = "died"
        /\ UNCHANGED data
     \/ /\ fetch_pc = "terminate"
        /\ pc' = "terminated"
        /\ UNCHANGED data
  /\ size' = copied.size
  /\ UNCHANGED <<runtime_file, arch_vars, fetch_vars>>

Step ==
  \/ DetectArch \/ ArchIsKnown \/ ArchIsNot
  \/ ReadFile \/ CallFetch \/ Fetch \/ FetchReturns

(***************************************************************************)
(* The tool is scheduled, and a peer sends on or goes away: the transfer   *)
(* has no timeout.                                                         *)
(***************************************************************************)
Spec == Init /\ [][Step]_vars /\ WF_vars(Step)

-----------------------------------------------------------------------------
TypeOK ==
  /\ pc \in Ended \cup {"arch", "load", "fetch"}
  /\ runtime_file \in RuntimeFiles \cup {NoFile}
  /\ size \in Int
  /\ data \in Seq([status : Nat, at : Nat])
  /\ ArchTypeOK
  /\ FetchTypeOK
  /\ url \in Arch \cup {NoUrl}

\* A runtime that was downloaded is the one for the architecture of the AppDir,
\* and main has as many bytes as it was told, all of them from one good answer:
\* neither flags that do not decide nor a call that failed half way lead here.
DownloadFits ==
  pc = "loaded" /\ runtime_file = NoFile =>
    /\ {url} = IF FromText(text) # {} THEN FromText(text) ELSE FoundBelow
    /\ Len(data) = size
    /\ \A i \in 1 .. size : data[i] = [status |-> 200, at |-> i]

\* Every way to a runtime ends, however often the server redirects.
ObtainEnds == pc = "arch" ~> pc \in Ended
=============================================================================
