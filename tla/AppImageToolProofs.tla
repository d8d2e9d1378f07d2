------------------------- MODULE AppImageToolProofs -------------------------
(***************************************************************************)
(* The pipeline, for every set of invocations and runtimes and every       *)
(* number of runs.                                                         *)
(*                                                                         *)
(* Inv says for each step of a run what is of this run already: Processes  *)
(* who writes the destination besides the tool, Stamps what this run has   *)
(* not made yet, Covered what digest, signature and zsync file were        *)
(* computed over, and Image, Head and Sections what the steps taken so far *)
(* have left in the destination.                                           *)
(***************************************************************************)
EXTENDS AppImageTool, TLAPS

\* The steps of a run up to one of them, in their order.
ToDirIcon == {"options", "appdir", "save", "icon", "diricon"}
ToSquash == ToDirIcon \cup {"appstream", "runtime", "squash"}
ToMd5 == ToSquash \cup {"wait", "embed", "chmod", "guess", "upd", "md5"}
ToSign == ToMd5 \cup {"sign"}
ToKey == ToSign \cup {"key"}

\* The steps from one of them on.
FromZsync == {"zsync", "success"}
FromKey == {"key"} \cup FromZsync
FromSign == {"sign"} \cup FromKey
FromMd5 == {"md5"} \cup FromSign
FromGuess == {"guess", "upd"} \cup FromMd5
FromChmod == {"chmod"} \cup FromGuess
FromEmbed == {"embed"} \cup FromChmod
FromAppStream == {"appstream", "runtime", "squash", "wait"} \cup FromEmbed

\* Beside the tool only its own mksquashfs writes, and that one only until the
\* wait is over, or after a kill.
Processes ==
  /\ pc = "idle" <=> runs = 0
  /\ \A r \in RunId : r > runs => squash[r] = "none"
  /\ pc \in ToSquash => squash[runs] = "none"
  /\ pc \in FromEmbed => ~Alive(runs)
  /\ pc \in FromEmbed /\ "payload" \notin mishaps => squash[runs] = "exited"
  /\ Alone => \A r \in RunId : r < runs => ~Alive(r)

\* What this run has not made yet is not of this run, and what it has not
\* begun is no part of it either.
Stamps ==
  /\ dest.md5.by <= runs /\ dest.sig.by <= runs /\ dest.key <= runs /\ zsync.by <= runs
  /\ dest.sig.by >= PartOf(runs) /\ dest.key >= PartOf(runs) /\ zsync.by >= PartOf(runs)
  /\ runs > 0 =>
       /\ pc \in ToMd5 \/ Alive(runs) => dest.md5.by # runs /\ dest.sig.by # PartOf(runs)
       /\ pc \in ToSign \/ Alive(runs) => dest.sig.by # runs /\ dest.key # PartOf(runs)
       /\ pc \in ToKey \/ Alive(runs) => dest.key # runs
       /\ pc \in ToKey \/ Alive(runs) => zsync.by # runs /\ zsync.by # PartOf(runs)
       /\ pc \notin {"success", "killed"} => zsync.by # runs

\* The sections of the runtime as they come with it.
Fresh(r) == dest.sig = Unwritten(r.sealed) /\ dest.key = IF r.sealed THEN -1 ELSE 0

Intact == Alone /\ "runtime" \notin mishaps

\* What is signed, with the sections of signature and key blank.
Blanked(d) ==
  [payload |-> d.payload, runtime |-> d.runtime, upd |-> d.upd, md5 |-> d.md5,
   sig |-> 0, key |-> 0]

\* The signature is begun, over a file in which both sections were fresh.
Started(r) ==
  /\ pc = "sign" /\ inv.sign
  /\ dest.sig.by = PartOf(runs)
  /\ ~r.sealed => dest.sig.of = Blanked(dest) /\ dest.key = 0

\* The zsync file that a zsyncmake of this run has begun is of the file, too.
ZsyncBegun ==
  zsync.by = PartOf(runs) /\ zsync.of # Nothing /\ runs > 0 /\ Alone => zsync.of = dest

Covered ==
  /\ DigestMatches
  /\ SignatureVerifies
  /\ ZsyncMatches
  /\ ZsyncBegun
  /\ Intact /\ pc \in FromChmod /\ (pc \in FromKey => ~inv.sign) =>
       Fresh(data) \/ Started(data)

\* The AppDir, and its image.
Image ==
  /\ pc \in {"icon", "diricon"} \cup FromAppStream =>
       (version_env # "none" => appdir.version = version_env)
  /\ pc \in FromAppStream => appdir.diricon = "file"
  /\ Alone /\ runs > 0 =>
       /\ squash[runs] = "writing" => dest.payload.run = runs
       /\ squash[runs] = "exited" =>
            dest.payload = [run |-> runs, whole |-> TRUE, appdir |-> appdir]

\* What mksquashfs has done so far: the payload is of this run once it has
\* begun, whole once it has ended well, and no runtime is there while it writes.
Begun ==
  /\ dest.payload.run <= runs
  /\ pc = "died" => ~Alive(runs)
  /\ runs > 0 =>
       /\ squash[runs] \in {"none", "forked"} => dest.payload.run # runs
       /\ dest.payload.run = runs /\ dest.payload.whole => squash[runs] = "exited"
       /\ squash[runs] = "writing" => dest.runtime = NoRuntime
       /\ squash[runs] # "none" =>
            /\ appdir.diricon = "file"
            /\ version_env # "none" => appdir.version = version_env

\* The runtime.
Head ==
  /\ data \in Runtimes \cup Unrunnable \cup {NoRuntime}
  /\ dest.runtime \in Runtimes \cup Unrunnable \cup {NoRuntime, Torn}
  /\ pc \in FromChmod /\ Intact => dest.runtime = data
  /\ pc \in FromGuess /\ Alone => dest.exec
  /\ pc \in FromSign /\ Alone => dest.runtime.digest_md5 >= 16

Blank(r) == [info |-> r.prefilled, tail |-> NoInfo]

\* The sections that this run has filled.
Sections ==
  /\ pc = "key" => inv.sign
  /\ pc # "idle" /\ ~inv.guess => updateinformation = inv.updateinformation
  /\ pc \in FromChmod \ FromMd5 /\ Intact => dest.upd = Blank(data)
  /\ pc \in FromMd5 /\ mishaps = {} =>
       IF updateinformation = NoInfo THEN dest.upd = Blank(data)
       ELSE \E info \in ReadAgain : dest.upd = Overlay(Blank(data), info)
  /\ pc \in FromSign /\ mishaps = {} => dest.md5.by = runs
  /\ pc \in FromKey /\ Alone /\ inv.sign => dest.sig.by = runs
  /\ pc \in FromZsync /\ Alone /\ inv.sign => dest.key = runs

Inv == TypeOK /\ Processes /\ Stamps /\ Covered /\ Image /\ Begun /\ Head /\ Sections

-----------------------------------------------------------------------------
(* Facts about the data. *)

LEMMA StatusWords ==
  /\ WEXITSTATUS(Status("exited")) = 0 /\ Status("exited") # Signalled
  /\ WEXITSTATUS(Status("failed")) # 0
  /\ Status("signalled") = Signalled
BY DEF Status, WEXITSTATUS, Exited, Signalled, SIGKILL

\* The exit code of a status word that tells of a signal is 0.
LEMMA SignalledCode == WEXITSTATUS(Signalled) = 0
BY DEF WEXITSTATUS, Signalled, SIGKILL

LEMMA RuntimeTypes ==
  /\ NoInfo \in InfoType /\ GuessedInfo \in InfoType /\ Garbled \subseteq InfoType
  /\ NoRuntime \in RuntimeType /\ Torn \in RuntimeType
  /\ Runtimes \subseteq RuntimeType /\ Unrunnable \subseteq RuntimeType
<1>1. NoInfo \in InfoType /\ GuessedInfo \in InfoType /\ Garbled \subseteq InfoType
  <2>1. NoInfo \in InfoType
    BY NamesAssumption DEF NoInfo, InfoType
  <2> QED
    BY <2>1, InfosAssumption
<1>2. NoRuntime \in RuntimeType /\ Torn \in RuntimeType
  BY <1>1, NamesAssumption DEF NoRuntime, Torn, Unreadable, RuntimeType
<1>3. Runtimes \subseteq RuntimeType /\ Unrunnable \subseteq RuntimeType
  BY RuntimesAssumption
<1> QED
  BY <1>1, <1>2, <1>3

-----------------------------------------------------------------------------
(* The steps in groups. *)

\* Steps of the tool after which only the step it is at and its memory differ.
Quiet ==
  \/ ReadEnvironment \/ ReadAppDir \/ CheckIcon \/ ValidateAppStream \/ LoadRuntime
  \/ WaitMksquashfs \/ GuessUpdateInformation \/ NoUpdateInformation \/ NoSignature
  \/ Die \/ Kill \/ UNCHANGED vars

\* Those that write the destination.
Writes ==
  \/ EmbedRuntime \/ MakeExecutable \/ EmbedUpdateInformation \/ EmbedDigest
  \/ EmbedSignature \/ EmbedKey \/ WriteSignature \/ WriteKey

\* Those that write the zsync file.
ZsyncWrites ==
  \/ ZsyncmakeWrites \/ ZsyncmakeFails \/ MakeZsync
  \/ \E r \in RunId : ZsyncmakeOutlives(r)

LEMMA StepGroups ==
  ASSUME [Next]_vars
  PROVE  \/ Start \/ Quiet \/ SaveVersion \/ CreateDirIcon \/ ForkMksquashfs
         \/ Writes \/ ZsyncWrites \/ \E r \in RunId : MksquashfsStep(r)
BY DEF Next, ToolStep, Quiet, Writes, ZsyncWrites

LEMMA StartFields ==
  ASSUME Start
  PROVE  /\ pc \in {"idle"} \cup Ended /\ pc' = "options"
         /\ runs < MaxRuns /\ runs' = runs + 1
         /\ inv' \in Invocations /\ inv' \in InvocationType
         /\ version_env' = inv'.version /\ updateinformation' = inv'.updateinformation
         /\ data' = NoRuntime
         /\ mishaps' = IF \E r \in RunId : Alive(r) THEN {"orphan"} ELSE {}
         /\ UNCHANGED <<appdir, dest, squash>>
         /\ zsync'.by \in {zsync.by, 0}
<1>1. inv' \in InvocationType
  BY InvocationsAssumption DEF Start
<1>2. zsync'.by \in {zsync.by, 0}
  BY DEF Start, Unwritten
<1> QED
  BY <1>1, <1>2 DEF Start, Goto

LEMMA ZsyncSteps ==
  ASSUME ZsyncWrites
  PROVE  /\ UNCHANGED <<memory, appdir, dest, squash, mishaps>>
         /\ pc' = pc \/ (pc = "zsync" /\ pc' \in {"success", "died"})
BY DEF ZsyncWrites, ZsyncmakeWrites, ZsyncmakeFails, MakeZsync, ZsyncmakeOutlives, At, Goto

\* Who the zsync file is by after such a step, and what it is of.
ZsyncWritten ==
  \/ zsync' = zsync /\ pc = "zsync" /\ pc' = "success"
  \/ /\ zsync'.by = runs /\ zsync'.of = dest
     /\ pc = "zsync" /\ pc' = "success"
  \/ /\ zsync'.by = PartOf(runs) /\ zsync'.of \in {dest, Nothing}
     /\ pc = "zsync" /\ pc' \in {"zsync", "died"}
  \/ \E r \in RunId :
       /\ zsync.by = PartOf(r) /\ zsync'.by = r
       /\ zsync.of # Nothing /\ zsync'.of = zsync.of
       /\ pc' = pc /\ (r = runs => pc = "killed")

LEMMA ZsyncFields ==
  ASSUME ZsyncWrites
  PROVE  ZsyncWritten
<1>1. ASSUME NEW r \in RunId, ZsyncmakeOutlives(r)
      PROVE  /\ zsync.by = PartOf(r) /\ zsync'.by = r
             /\ zsync.of # Nothing /\ zsync'.of = zsync.of
             /\ pc' = pc /\ (r = runs => pc = "killed")
  BY <1>1 DEF ZsyncmakeOutlives, At
<1>2. CASE ZsyncmakeWrites \/ ZsyncmakeFails \/ MakeZsync
  BY <1>2 DEF ZsyncmakeWrites, ZsyncmakeFails, MakeZsync, At, Goto, ZsyncWritten
<1> QED
  BY <1>1, <1>2 DEF ZsyncWrites, ZsyncWritten

LEMMA QuietSteps ==
  ASSUME Quiet
  PROVE  UNCHANGED <<disk, squash, runs, inv>>
BY DEF Quiet, vars, memory, ReadEnvironment, ReadAppDir, CheckIcon, ValidateAppStream,
       LoadRuntime, WaitMksquashfs, GuessUpdateInformation, NoUpdateInformation, NoSignature,
       Die, Kill

LEMMA WritesSteps ==
  ASSUME Writes
  PROVE  UNCHANGED <<memory, appdir, zsync, squash>> /\ mishaps \subseteq mishaps'
BY DEF Writes, EmbedRuntime, MakeExecutable, EmbedUpdateInformation, EmbedDigest,
       EmbedSignature, EmbedKey, WriteSignature, WriteKey

LEMMA MksquashfsSteps ==
  ASSUME TypeOK, NEW r \in RunId, MksquashfsStep(r)
  PROVE  /\ UNCHANGED <<pc, memory, appdir, zsync, mishaps>> /\ Alive(r)
         /\ squash' \in [RunId -> {"none", "forked", "writing", "exited", "failed", "signalled"}]
         /\ \A s \in RunId : s # r => squash'[s] = squash[s]
<1>1. /\ UNCHANGED <<pc, memory, appdir, zsync, mishaps>> /\ Alive(r)
      /\ \E state \in {"writing", "exited", "failed", "signalled"} :
           squash' = [squash EXCEPT ![r] = state]
  BY DEF MksquashfsStep, MksquashfsOpens, MksquashfsExits, MksquashfsFails, MksquashfsKilled,
         SquashEnds, Alive, disk
<1>2. PICK state \in {"writing", "exited", "failed", "signalled"} :
        squash' = [squash EXCEPT ![r] = state]
  BY <1>1
<1> QED
  BY <1>1, <1>2 DEF TypeOK

-----------------------------------------------------------------------------
(* Types. *)

DestType(d) ==
  /\ DOMAIN d = DOMAIN Absent
  /\ d.runtime \in RuntimeType
  /\ d.payload \in [run : 0 .. MaxRuns, whole : BOOLEAN, appdir : AppDir \cup {Nothing}]
  /\ d.upd \in [info : InfoType, tail : InfoType]
  /\ {d.md5.by, d.sig.by, d.key} \subseteq PartOf(MaxRuns) .. MaxRuns

LEMMA AbsentType == DestType(Absent)
<1>1. DOMAIN Absent = {"exists", "payload", "runtime", "upd", "md5", "sig", "key", "exec"}
  BY DEF Absent
<1> QED
  BY <1>1, RuntimeTypes, MaxRunsAssumption DEF DestType, Absent, NoPayload, Unwritten, PartOf

LEMMA OverlayType ==
  ASSUME NEW old \in [info : InfoType, tail : InfoType], NEW new \in InfoType
  PROVE  Overlay(old, new) \in [info : InfoType, tail : InfoType]
BY RuntimeTypes DEF Overlay

\* What is written for the update information is of its type.
LEMMA ReadAgainType ==
  ASSUME updateinformation \in InfoType
  PROVE  ReadAgain \cup {CutShort} \subseteq InfoType
<1>1. CutShort \in InfoType
  BY NamesAssumption DEF CutShort, NoInfo, InfoType
<1> QED
  BY <1>1, RuntimeTypes DEF ReadAgain

\* What the writes of the tool and of mksquashfs leave is a destination.
LEMMA WritesType ==
  ASSUME TypeOK, Writes
  PROVE  DestType(dest')
<1>1. DestType(dest) /\ data \in RuntimeType /\ runs \in PartOf(MaxRuns) .. MaxRuns
      /\ PartOf(runs) \in PartOf(MaxRuns) .. MaxRuns
      /\ DOMAIN Absent = {"exists", "payload", "runtime", "upd", "md5", "sig", "key", "exec"}
  BY MaxRunsAssumption DEF TypeOK, DestType, Absent, PartOf
<1>2. ASSUME NEW r \in RuntimeType PROVE DestType(WithRuntime(dest, r))
  <2>1. [info |-> r.prefilled, tail |-> NoInfo] \in [info : InfoType, tail : InfoType]
    BY RuntimeTypes DEF RuntimeType
  <2>2. /\ Unwritten(r.sealed).by \in PartOf(MaxRuns) .. MaxRuns
        /\ (IF r.sealed THEN -1 ELSE 0) \in PartOf(MaxRuns) .. MaxRuns
    BY MaxRunsAssumption DEF Unwritten, PartOf
  <2> QED
    BY <1>1, <2>1, <2>2 DEF WithRuntime, DestType
<1>3. CASE EmbedRuntime
  BY <1>1, <1>2, <1>3, RuntimeTypes DEF EmbedRuntime
<1>4. CASE MakeExecutable
  BY <1>1, <1>4 DEF MakeExecutable, DestType
<1>5. CASE EmbedUpdateInformation
  <2>1. \A info \in ReadAgain \cup {CutShort} :
          Overlay(dest.upd, info) \in [info : InfoType, tail : InfoType]
    BY OverlayType, ReadAgainType DEF TypeOK
  <2> QED
    BY <1>1, <1>5, <2>1 DEF EmbedUpdateInformation, DestType
<1>6. CASE EmbedDigest
  BY <1>1, <1>6 DEF EmbedDigest, DestType
<1>7. CASE EmbedSignature
  BY <1>1, <1>7 DEF EmbedSignature, DestType
<1>8. CASE EmbedKey
  BY <1>1, <1>8 DEF EmbedKey, DestType
<1>9. CASE WriteSignature
  BY <1>1, <1>9 DEF WriteSignature, DestType
<1>10. CASE WriteKey
  BY <1>1, <1>10 DEF WriteKey, DestType
<1> QED
  BY <1>3, <1>4, <1>5, <1>6, <1>7, <1>8, <1>9, <1>10 DEF Writes

LEMMA MksquashfsType ==
  ASSUME TypeOK, NEW r \in RunId, MksquashfsStep(r)
  PROVE  DestType(dest')
<1>1. /\ DestType(dest) /\ DestType(Absent) /\ r \in 0 .. MaxRuns
      /\ DOMAIN Absent = {"exists", "payload", "runtime", "upd", "md5", "sig", "key", "exec"}
  <2>1. DestType(dest) /\ r \in 0 .. MaxRuns
    BY MaxRunsAssumption DEF TypeOK, DestType, RunId
  <2>2. DOMAIN Absent = {"exists", "payload", "runtime", "upd", "md5", "sig", "key", "exec"}
    BY DEF Absent
  <2> QED
    BY AbsentType, <2>1, <2>2
<1>2. CASE MksquashfsOpens(r)
  BY <1>1, <1>2 DEF MksquashfsOpens, DestType
<1>3. CASE MksquashfsExits(r)
  <2>1. [run |-> r, whole |-> dest.payload.run = r, appdir |-> appdir]
          \in [run : 0 .. MaxRuns, whole : BOOLEAN, appdir : AppDir \cup {Nothing}]
    BY <1>1 DEF TypeOK
  <2> QED
    BY <1>1, <1>3, <2>1 DEF MksquashfsExits, DestType
<1>4. CASE MksquashfsFails(r) \/ MksquashfsKilled(r)
  BY <1>1, <1>4 DEF MksquashfsFails, MksquashfsKilled, disk
<1> QED
  BY <1>2, <1>3, <1>4 DEF MksquashfsStep

LEMMA TypeStep ==
  ASSUME TypeOK, [Next]_vars
  PROVE  TypeOK'
<1>1. DestType(dest) /\ MaxRuns \in Nat /\ runs \in 0 .. MaxRuns
  BY MaxRunsAssumption DEF TypeOK, DestType
<1> SUFFICES /\ pc' \in {"idle", "options", "appdir", "save", "icon", "diricon", "appstream",
                  "runtime", "squash", "wait", "embed", "chmod", "guess", "upd", "md5",
                  "sign", "key", "zsync"} \cup Ended
             /\ runs' \in 0 .. MaxRuns
             /\ inv' \in Invocations
             /\ version_env' \in Names
             /\ updateinformation' \in InfoType
             /\ data' \in RuntimeType
             /\ appdir' \in AppDir
             /\ DestType(dest')
             /\ zsync'.by \in PartOf(MaxRuns) .. MaxRuns
             /\ squash' \in [RunId -> {"none", "forked", "writing", "exited", "failed",
                                       "signalled"}]
             /\ mishaps' \subseteq {"orphan", "payload", "runtime", "upd", "md5"}
  BY DEF TypeOK, DestType
<1>2. CASE Start
  <2>1. zsync'.by \in PartOf(MaxRuns) .. MaxRuns
    BY <1>1, <1>2, StartFields DEF TypeOK, PartOf
  <2> QED
    BY <1>1, <1>2, <2>1, StartFields, RuntimeTypes DEF TypeOK, InvocationType
<1>3. CASE Quiet
  <2>1. UNCHANGED <<disk, squash, runs, inv>>
    BY <1>3, QuietSteps
  <2>2. pc' \in {"appdir", "save", "diricon", "runtime", "squash", "embed", "upd", "md5",
                 "zsync"} \cup Ended \/ pc' = pc
    BY <1>3 DEF Quiet, Ended, vars, At, Goto, ReadEnvironment, ReadAppDir, CheckIcon,
         ValidateAppStream, LoadRuntime, WaitMksquashfs, GuessUpdateInformation,
         NoUpdateInformation, NoSignature, Die, Kill
  <2>3. /\ version_env' \in {version_env, "git"}
        /\ updateinformation' \in {updateinformation, GuessedInfo} \cup Garbled
        /\ data' \in {data} \cup Runtimes \cup Unrunnable
        /\ mishaps' \subseteq mishaps \cup {"payload"}
    BY <1>3 DEF Quiet, vars, memory, ReadEnvironment, ReadAppDir, CheckIcon,
         ValidateAppStream, LoadRuntime, WaitMksquashfs, GuessUpdateInformation,
         NoUpdateInformation, NoSignature, Die, Kill
  <2> QED
    BY <1>1, <2>1, <2>2, <2>3, RuntimeTypes, NamesAssumption DEF TypeOK, disk, Ended
<1>4. CASE SaveVersion \/ CreateDirIcon
  <2>1. UNCHANGED <<memory, dest, zsync, squash, mishaps>> 
        /\ pc' \in {"icon", "diricon", "appstream", "died"}
    BY <1>4 DEF SaveVersion, CreateDirIcon, At, Goto
  <2>2. appdir' \in AppDir
    BY <1>4 DEF SaveVersion, CreateDirIcon, TypeOK, AppDir
  <2> QED
    BY <1>1, <2>1, <2>2 DEF TypeOK, memory, Ended
<1>5. CASE ForkMksquashfs
  BY <1>1, <1>5 DEF ForkMksquashfs, TypeOK, memory, disk, Goto
<1>6. CASE Writes
  <2>1. UNCHANGED <<memory, appdir, zsync, squash>>
    BY <1>6, WritesSteps
  <2>2. /\ pc' \in {"chmod", "guess", "md5", "sign", "key", "zsync"}
        /\ mishaps' \subseteq mishaps \cup {"runtime", "upd", "md5"}
    BY <1>6 DEF At, Writes, EmbedRuntime, MakeExecutable, EmbedUpdateInformation, EmbedDigest,
         EmbedSignature, EmbedKey, WriteSignature, WriteKey, Goto
  <2>3. DestType(dest')
    BY <1>6, WritesType
  <2> QED
    BY <1>1, <2>1, <2>2, <2>3 DEF TypeOK, memory
<1>7. CASE ZsyncWrites
  <2>1. zsync'.by \in {zsync.by, runs, PartOf(runs)} \cup RunId
    <3>1. ZsyncWritten
      BY <1>7, ZsyncFields
    <3> QED
      BY <3>1 DEF ZsyncWritten
  <2>2. zsync'.by \in PartOf(MaxRuns) .. MaxRuns
    BY <1>1, <2>1 DEF TypeOK, PartOf, RunId
  <2> QED
    BY <1>1, <1>7, <2>2, ZsyncSteps DEF TypeOK, memory, Ended
<1>8. ASSUME NEW r \in RunId, MksquashfsStep(r)
      PROVE  TypeOK'
  <2>1. DestType(dest')
    BY <1>8, MksquashfsType
  <2>2. /\ UNCHANGED <<pc, memory, appdir, zsync, mishaps>>
        /\ squash' \in [RunId -> {"none", "forked", "writing", "exited", "failed", "signalled"}]
    BY <1>8, MksquashfsSteps
  <2> QED
    BY <2>1, <2>2 DEF TypeOK, DestType, memory
<1> QED
  BY <1>2, <1>3, <1>4, <1>5, <1>6, <1>7, <1>8, StepGroups DEF TypeOK, DestType

-----------------------------------------------------------------------------
(* Who writes the destination. *)

LEMMA ProcessesStep ==
  ASSUME TypeOK, TypeOK', Processes, [Next]_vars
  PROVE  Processes'
<1>1. MaxRuns \in Nat /\ runs \in 0 .. MaxRuns /\ runs' \in 0 .. MaxRuns
  BY MaxRunsAssumption DEF TypeOK
<1> USE DEF Processes, ToSquash, ToDirIcon, FromEmbed, FromChmod, FromGuess, FromMd5, FromSign,
            FromKey, FromZsync, Alone, RunId
<1>2. CASE Start
  <2>1. /\ runs' = runs + 1 /\ squash' = squash /\ pc' = "options"
        /\ mishaps' = IF \E r \in RunId : Alive(r) THEN {"orphan"} ELSE {}
    BY <1>2 DEF Start, Goto
  <2>2. \A r \in RunId : r > runs => squash[r] = "none"
    OBVIOUS
  <2> QED
    BY <1>1, <2>1, <2>2 DEF Alive
<1>3. CASE Quiet
  <2>1. UNCHANGED <<squash, runs>>
    BY <1>3, QuietSteps DEF disk
  <2>2. CASE ~WaitMksquashfs
    <3>1. /\ pc' = "idle" <=> pc = "idle"
          /\ pc' \in ToSquash => pc \in ToSquash
          /\ pc' \in FromEmbed => pc \in FromEmbed
          /\ mishaps' = mishaps
      BY <1>3, <2>2 DEF Quiet, Ended, vars, At, Goto, ReadEnvironment, ReadAppDir, CheckIcon,
         ValidateAppStream, LoadRuntime, GuessUpdateInformation, NoUpdateInformation,
         NoSignature, Die, Kill, MayFail
    <3> QED
      BY <1>1, <2>1, <3>1 DEF Alive
  <2>3. CASE WaitMksquashfs
    <3>1. pc = "wait" /\ pc' \in {"died", "embed"} /\ ~Alive(runs) /\ squash[runs] # "none"
          /\ mishaps' \in {mishaps, mishaps \cup {"payload"}}
      BY <2>3 DEF WaitMksquashfs, At, Goto
    <3>2. pc' = "embed" /\ "payload" \notin mishaps' => squash[runs] = "exited"
      <4>1. squash[runs] \in {"none", "forked", "writing", "exited", "failed", "signalled"}
        BY <1>1, <3>1 DEF TypeOK
      <4> QED
        BY <2>3, <3>1, <4>1, StatusWords DEF WaitMksquashfs, Goto, Alive
    <3> QED
      BY <1>1, <2>1, <3>1, <3>2 DEF Alive
  <2> QED
    BY <2>2, <2>3
<1>4. CASE SaveVersion \/ CreateDirIcon
  BY <1>1, <1>4 DEF SaveVersion, CreateDirIcon, memory, At, Goto, Alive
<1>5. CASE ForkMksquashfs
  BY <1>1, <1>5 DEF ForkMksquashfs, memory, At, Goto, Alive, TypeOK
<1>6. CASE Writes
  <2>1. UNCHANGED <<memory, squash>> /\ mishaps \subseteq mishaps'
    BY <1>6, WritesSteps
  <2>2. pc \in FromEmbed /\ pc' \in FromEmbed
    BY <1>6 DEF Writes, EmbedRuntime, MakeExecutable, EmbedUpdateInformation, EmbedDigest,
         EmbedSignature, EmbedKey, WriteSignature, WriteKey, At, Goto
  <2> QED
    BY <1>1, <2>1, <2>2 DEF memory, Alive
<1>7. CASE ZsyncWrites
  BY <1>1, <1>7, ZsyncSteps DEF memory, Alive
<1>8. ASSUME NEW r \in RunId, MksquashfsStep(r)
      PROVE  Processes'
  <2>1. UNCHANGED <<pc, memory, mishaps>> /\ Alive(r)
    BY <1>8, MksquashfsSteps
  <2>2. \A s \in RunId : s # r => squash'[s] = squash[s]
    BY <1>8, MksquashfsSteps
  <2>3. r <= runs /\ (pc \in FromEmbed \/ pc \in ToSquash => r # runs) /\ (Alone => r >= runs)
    BY <1>1, <2>1 DEF Alive
  <2> QED
    BY <1>1, <2>1, <2>2, <2>3 DEF memory, Alive
<1> QED
  BY <1>2, <1>3, <1>4, <1>5, <1>6, <1>7, <1>8, StepGroups

-----------------------------------------------------------------------------
(* What is written. *)

Same(parts) == \A part \in parts : dest'[part] = dest[part]

LEMMA EmbedRuntimeFields ==
  ASSUME TypeOK, EmbedRuntime
  PROVE  /\ pc = "embed" /\ pc' = "chmod"
         /\ Same({"payload", "exec"})
         /\ \/ /\ mishaps' = mishaps
               /\ dest'.runtime = data /\ dest'.upd = Blank(data) /\ Fresh(data)'
               /\ dest'.md5 = Unwritten(data.sealed)
            \/ /\ mishaps' = mishaps \cup {"runtime"}
               /\ \/ dest' = dest
                  \/ dest'.runtime = Torn /\ Fresh(Torn)' /\ dest'.md5 = Unwritten(Torn.sealed)
<1>1. DOMAIN dest = {"exists", "payload", "runtime", "upd", "md5", "sig", "key", "exec"}
  BY DEF TypeOK, Absent
<1>2. ASSUME NEW r
      PROVE  LET d == WithRuntime(dest, r)
             IN /\ d.payload = dest.payload /\ d.exec = dest.exec
                /\ d.runtime = r /\ d.upd = Blank(r) /\ d.md5 = Unwritten(r.sealed)
                /\ d.sig = Unwritten(r.sealed) /\ d.key = IF r.sealed THEN -1 ELSE 0
  BY <1>1 DEF WithRuntime, Blank
<1>3. /\ pc = "embed" /\ pc' = "chmod" /\ data' = data
      /\ \/ dest' = WithRuntime(dest, data) /\ mishaps' = mishaps
         \/ dest' = WithRuntime(dest, Torn) /\ mishaps' = mishaps \cup {"runtime"}
         \/ dest' = dest /\ mishaps' = mishaps \cup {"runtime"}
  BY DEF EmbedRuntime, At, Goto, memory
<1> QED
  BY <1>2, <1>3 DEF Same, Fresh

LEMMA WriteFields ==
  ASSUME TypeOK
  PROVE  /\ MakeExecutable =>
              /\ pc = "chmod" /\ pc' = "guess" /\ mishaps' = mishaps /\ dest'.exec
              /\ Same({"payload", "runtime", "upd", "md5", "sig", "key"})
         /\ EmbedUpdateInformation =>
              /\ pc = "upd" /\ pc' = "md5" /\ updateinformation # NoInfo
              /\ Same({"payload", "runtime", "md5", "sig", "key", "exec"})
              /\ \/ /\ mishaps' = mishaps
                    /\ \E info \in ReadAgain : dest'.upd = Overlay(dest.upd, info)
                 \/ mishaps' = mishaps \cup {"upd"}
         /\ EmbedDigest =>
              /\ pc = "md5" /\ pc' = "sign" /\ dest.runtime.digest_md5 >= 16
              /\ Same({"payload", "runtime", "upd", "sig", "key", "exec"})
              /\ \/ mishaps' = mishaps /\ dest'.md5 = [by |-> runs, of |-> Digested(dest)]
                 \/ mishaps' = mishaps \cup {"md5"} /\ dest'.md5.by = PartOf(runs)
                 \/ mishaps' = mishaps \cup {"md5"} /\ dest' = dest
         /\ EmbedSignature =>
              /\ pc = "sign" /\ pc' = "key" /\ mishaps' = mishaps /\ inv.sign
              /\ Same({"payload", "runtime", "upd", "md5", "key", "exec"})
              /\ dest'.sig = [by |-> runs, of |-> Signed(dest)]
         /\ EmbedKey =>
              /\ pc = "key" /\ pc' = "zsync" /\ mishaps' = mishaps
              /\ Same({"payload", "runtime", "upd", "md5", "sig", "exec"})
              /\ dest'.key = runs
         /\ WriteSignature =>
              /\ pc = "sign" /\ pc' = "sign" /\ mishaps' = mishaps /\ inv.sign
              /\ Same({"payload", "runtime", "upd", "md5", "key", "exec"})
              /\ dest'.sig = [by |-> PartOf(runs), of |-> Signed(dest)]
         /\ WriteKey =>
              /\ pc = "key" /\ pc' = "key" /\ mishaps' = mishaps
              /\ Same({"payload", "runtime", "upd", "md5", "sig", "exec"})
              /\ dest'.key = PartOf(runs)
<1>1. DOMAIN dest = {"exists", "payload", "runtime", "upd", "md5", "sig", "key", "exec"}
  BY DEF TypeOK, Absent
<1> QED
  BY <1>1 DEF Same, MakeExecutable, EmbedUpdateInformation, EmbedDigest, EmbedSignature,
       EmbedKey, WriteSignature, WriteKey, At, Goto, memory

\* What mksquashfs writes: a new file, or its image.
LEMMA MksquashfsFields ==
  ASSUME TypeOK, NEW r \in RunId, MksquashfsStep(r)
  PROVE  \/ /\ squash[r] = "forked" /\ squash'[r] = "writing"
            /\ dest'.payload.run = r /\ ~dest'.payload.whole /\ dest'.exec = dest.exec
            /\ dest'.runtime = NoRuntime
            /\ dest'.md5.by = 0 /\ dest'.sig.by = 0 /\ dest'.key = 0
         \/ /\ squash[r] = "writing" /\ squash'[r] = "exited"
            /\ Same({"runtime", "upd", "md5", "sig", "key", "exec"})
            /\ dest'.payload = [run |-> r, whole |-> dest.payload.run = r, appdir |-> appdir]
         \/ /\ squash'[r] \in {"failed", "signalled"}
            /\ dest' = dest
<1>1. DOMAIN dest = {"exists", "payload", "runtime", "upd", "md5", "sig", "key", "exec"}
  BY DEF TypeOK, Absent
<1>2. CASE MksquashfsOpens(r)
  <2>1. squash[r] = "forked" /\ squash'[r] = "writing"
    BY <1>2 DEF MksquashfsOpens, TypeOK
  <2>2. dest' = [Absent EXCEPT !.exists = TRUE, !.exec = dest.exec, !.payload.run = r]
    BY <1>2 DEF MksquashfsOpens
  <2>3. /\ dest'.payload.run = r /\ ~dest'.payload.whole /\ dest'.exec = dest.exec
        /\ dest'.runtime = NoRuntime
        /\ dest'.md5.by = 0 /\ dest'.sig.by = 0 /\ dest'.key = 0
    BY <2>2 DEF Absent, NoPayload, Unwritten
  <2> QED
    BY <2>1, <2>3
<1>3. CASE MksquashfsExits(r)
  BY <1>1, <1>3 DEF MksquashfsExits, SquashEnds, TypeOK, Same
<1>4. CASE MksquashfsFails(r) \/ MksquashfsKilled(r)
  BY <1>4 DEF MksquashfsFails, MksquashfsKilled, SquashEnds, TypeOK, disk
<1> QED
  BY <1>2, <1>3, <1>4 DEF MksquashfsStep

-----------------------------------------------------------------------------
(* What is of this run. *)

LEMMA StampsStep ==
  ASSUME TypeOK, TypeOK', Processes, Stamps, [Next]_vars
  PROVE  Stamps'
<1>1. /\ MaxRuns \in Nat /\ runs \in 0 .. MaxRuns /\ runs' \in 0 .. MaxRuns
      /\ dest.md5.by \in Int /\ dest.sig.by \in Int /\ dest.key \in Int /\ zsync.by \in Int
  BY MaxRunsAssumption DEF TypeOK
<1> USE DEF Stamps, PartOf, ToKey, ToSign, ToMd5, ToSquash, ToDirIcon
<1>2. CASE Start
  <2>1. /\ runs' = runs + 1 /\ dest' = dest /\ squash' = squash
        /\ zsync'.by \in {zsync.by, 0}
    BY <1>2, StartFields
  <2> QED
    BY <1>1, <2>1
<1>3. CASE Quiet
  <2>1. UNCHANGED <<disk, squash, runs>>
    BY <1>3, QuietSteps
  <2>2. /\ pc' \in ToMd5 => pc \in ToMd5
        /\ pc' \in ToSign => pc \in ToSign
        /\ pc' \in ToKey => pc \in ToKey
        /\ pc' \notin {"success", "killed"} => pc \notin {"success", "killed"}
    BY <1>3 DEF Quiet, Ended, vars, At, Goto, ReadEnvironment, ReadAppDir, CheckIcon,
         ValidateAppStream, LoadRuntime, WaitMksquashfs, GuessUpdateInformation,
         NoUpdateInformation, NoSignature, Die, Kill, MayFail
  <2> QED
    BY <1>1, <2>1, <2>2 DEF disk, Alive
<1>4. CASE SaveVersion \/ CreateDirIcon
  BY <1>1, <1>4 DEF SaveVersion, CreateDirIcon, memory, At, Goto, Alive
<1>5. CASE ForkMksquashfs
  BY <1>1, <1>5 DEF ForkMksquashfs, memory, disk, At, Goto, Alive
<1>6. CASE Writes
  <2>1. UNCHANGED <<runs, zsync, squash>>
    BY <1>6, WritesSteps DEF memory
  <2>2. pc \in FromEmbed /\ pc # "success" /\ pc \in ToKey
    BY <1>6 DEF Writes, EmbedRuntime, MakeExecutable, EmbedUpdateInformation, EmbedDigest,
         EmbedSignature, EmbedKey, WriteSignature, WriteKey, At, FromEmbed, FromChmod,
         FromGuess, FromMd5, FromSign, FromKey
  <2>3. ~Alive(runs) /\ ~Alive(runs)' /\ runs > 0 /\ zsync.by # runs
        /\ pc \in ToKey /\ zsync.by # PartOf(runs)
    BY <1>1, <2>1, <2>2 DEF Processes, Alive, FromEmbed, FromChmod, FromGuess, FromMd5, FromSign,
         FromKey, FromZsync
  <2>4. CASE EmbedRuntime
    <3>1. \A r : /\ Unwritten(r.sealed).by \in {-1, 0}
                 /\ (IF r.sealed THEN -1 ELSE 0) \in {-1, 0}
      BY DEF Unwritten
    <3> QED
      BY <1>1, <2>1, <2>3, <2>4, <3>1, EmbedRuntimeFields DEF Fresh
  <2>5. CASE ~EmbedRuntime
    BY <1>1, <1>6, <2>1, <2>3, <2>5, WriteFields DEF Writes, Same
  <2> QED
    BY <2>4, <2>5
<1>7. CASE ZsyncWrites
  <2>1. UNCHANGED <<runs, dest, squash>> /\ (pc' = pc \/ pc = "zsync")
    BY <1>7, ZsyncSteps DEF memory
  <2>2. pc = "zsync" => ~Alive(runs)
    BY DEF Processes, FromEmbed, FromChmod, FromGuess, FromMd5, FromSign, FromKey, FromZsync
  <2>3. runs > 0 => runs # PartOf(runs)
    BY <1>1
  <2>4. ZsyncWritten
    BY <1>7, ZsyncFields
  <2>5. CASE zsync' = zsync /\ pc = "zsync" /\ pc' = "success"
    BY <1>1, <2>1, <2>2, <2>5 DEF Alive
  <2>6. CASE zsync'.by = runs /\ pc = "zsync" /\ pc' = "success"
    BY <1>1, <2>1, <2>2, <2>3, <2>6 DEF Alive
  <2>7. CASE zsync'.by = PartOf(runs) /\ pc = "zsync" /\ pc' \in {"zsync", "died"}
    BY <1>1, <2>1, <2>2, <2>3, <2>7 DEF Alive
  <2>8. ASSUME NEW r \in RunId, zsync.by = PartOf(r), zsync'.by = r, pc' = pc,
               r = runs => pc = "killed"
        PROVE  Stamps'
    <3>1. r \in 1 .. MaxRuns /\ r <= runs /\ r # PartOf(runs) /\ r > PartOf(runs)
      BY <1>1, <2>8 DEF RunId
    <3>2. r = runs => ~Alive(runs) /\ pc \notin ToKey
      BY <1>1, <2>8, <3>1
    <3> QED
      BY <1>1, <2>1, <2>8, <3>1, <3>2 DEF Alive
  <2> QED
    BY <2>4, <2>5, <2>6, <2>7, <2>8 DEF ZsyncWritten
<1>8. ASSUME NEW r \in RunId, MksquashfsStep(r)
      PROVE  Stamps'
  <2>1. UNCHANGED <<pc, runs, zsync>> /\ Alive(r)
    BY <1>8, MksquashfsSteps DEF memory
  <2>2. Alive(runs)' /\ runs > 0 => Alive(runs)
    <3>1. runs > 0 => runs \in RunId
      BY <1>1 DEF RunId
    <3> QED
      BY <1>8, <2>1, <3>1, MksquashfsSteps DEF Alive
  <2>3. \/ dest'.md5.by = 0 /\ dest'.sig.by = 0 /\ dest'.key = 0
        \/ dest'.md5 = dest.md5 /\ dest'.sig = dest.sig /\ dest'.key = dest.key
    BY <1>8, MksquashfsFields DEF Same
  <2> QED
    BY <1>1, <2>1, <2>2, <2>3
<1> QED
  BY <1>2, <1>3, <1>4, <1>5, <1>6, <1>7, <1>8, StepGroups

LEMMA ImageStep ==
  ASSUME TypeOK, TypeOK', Processes, Processes', Image, [Next]_vars
  PROVE  Image'
<1>1. MaxRuns \in Nat /\ runs \in 0 .. MaxRuns /\ runs' \in 0 .. MaxRuns
  BY MaxRunsAssumption DEF TypeOK
<1> USE DEF Image, FromAppStream, FromEmbed, FromChmod, FromGuess, FromMd5, FromSign,
            FromKey, FromZsync, ToSquash, ToDirIcon, Alone
<1>2. CASE Start
  <2>1. squash'[runs'] = "none" /\ pc' = "options"
    BY <1>2 DEF Start, Goto, Processes
  <2> QED
    BY <2>1
<1>3. CASE Quiet
  <2>1. UNCHANGED <<dest, appdir, squash, runs>> /\ mishaps \subseteq mishaps'
    BY <1>3, QuietSteps DEF Quiet, disk, vars, At, Goto, ReadEnvironment, ReadAppDir, CheckIcon,
         ValidateAppStream, LoadRuntime, WaitMksquashfs, GuessUpdateInformation,
         NoUpdateInformation, NoSignature, Die, Kill
  <2>2. /\ pc' \in {"icon", "diricon"} \cup FromAppStream =>
             pc \in {"icon", "diricon"} \cup FromAppStream /\ version_env' = version_env
        /\ pc' \in FromAppStream => pc \in FromAppStream
    BY <1>3 DEF Quiet, Ended, vars, memory, At, Goto, ReadEnvironment, ReadAppDir, CheckIcon,
         ValidateAppStream, LoadRuntime, WaitMksquashfs, GuessUpdateInformation,
         NoUpdateInformation, NoSignature, Die, Kill, MayFail
  <2> QED
    BY <2>1, <2>2
<1>4. CASE SaveVersion \/ CreateDirIcon
  <2>1. /\ UNCHANGED <<runs, version_env, dest, squash, mishaps>> /\ squash[runs] = "none"
        /\ \/ /\ pc' = "icon"
              /\ version_env # "none" => appdir'.version = version_env
           \/ /\ pc = "diricon" /\ pc' \in {"diricon", "appstream", "died"}
              /\ appdir'.version = appdir.version
              /\ pc' = "appstream" => appdir'.diricon = "file"
    BY <1>4 DEF SaveVersion, CreateDirIcon, memory, At, Goto, TypeOK, AppDir, Processes
  <2> QED
    BY <2>1
<1>5. CASE ForkMksquashfs
  <2>1. /\ UNCHANGED <<runs, version_env, appdir>> /\ squash'[runs] = "forked"
        /\ pc = "squash" /\ pc' = "wait"
    <3>1. runs \in RunId
      BY <1>1, <1>5 DEF RunId, ForkMksquashfs, At, Processes
    <3> QED
      BY <1>5, <3>1 DEF ForkMksquashfs, memory, disk, At, Goto, TypeOK
  <2> QED
    BY <2>1
<1>6. CASE Writes
  <2>1. UNCHANGED <<runs, version_env, appdir, squash>> /\ mishaps \subseteq mishaps'
    BY <1>6, WritesSteps DEF memory
  <2>2. pc \in FromEmbed /\ pc' \in FromEmbed
    BY <1>6 DEF Writes, EmbedRuntime, MakeExecutable, EmbedUpdateInformation, EmbedDigest,
         EmbedSignature, EmbedKey, WriteSignature, WriteKey, At, Goto
  <2>3. dest'.payload = dest.payload
    BY <1>6, EmbedRuntimeFields, WriteFields DEF Writes, Same
  <2> QED
    BY <2>1, <2>2, <2>3
<1>7. CASE ZsyncWrites
  BY <1>7, ZsyncSteps DEF memory
<1>8. ASSUME NEW r \in RunId, MksquashfsStep(r)
      PROVE  Image'
  <2>1. UNCHANGED <<pc, runs, version_env, appdir, mishaps>> /\ Alive(r)
    BY <1>8, MksquashfsSteps DEF memory
  <2>2. Alone /\ runs > 0 => r = runs
    BY <1>1, <2>1 DEF Processes, Alive, RunId
  <2>3. CASE Alone /\ runs > 0
    BY <1>8, <2>1, <2>2, <2>3, MksquashfsFields
  <2>4. CASE ~(Alone /\ runs > 0)
    BY <2>1, <2>4
  <2> QED
    BY <2>3, <2>4
<1> QED
  BY <1>2, <1>3, <1>4, <1>5, <1>6, <1>7, <1>8, StepGroups

LEMMA BegunStep ==
  ASSUME TypeOK, TypeOK', Processes, Processes', Image, Begun, [Next]_vars
  PROVE  Begun'
<1>1. /\ MaxRuns \in Nat /\ runs \in 0 .. MaxRuns /\ runs' \in 0 .. MaxRuns
      /\ dest.payload.run \in Nat
  BY MaxRunsAssumption DEF TypeOK
<1> USE DEF Begun, ToSquash, ToDirIcon
<1>2. CASE Start
  <2>1. /\ runs' = runs + 1 /\ UNCHANGED <<dest, squash>> /\ squash'[runs'] = "none"
        /\ pc' = "options"
    BY <1>1, <1>2 DEF Start, disk, Goto, Processes
  <2> QED
    BY <1>1, <2>1
<1>3. CASE Quiet
  <2>1. UNCHANGED <<dest, appdir, squash, runs>>
    BY <1>3, QuietSteps DEF disk
  <2>2. /\ version_env' = version_env \/ pc \in ToSquash
        /\ pc' = "died" =>
             \/ pc \in ToSquash \cup FromEmbed \cup {"died"}
             \/ ~Alive(runs)
    BY <1>3 DEF Quiet, Ended, vars, memory, At, Goto, ReadEnvironment, ReadAppDir, CheckIcon,
         ValidateAppStream, LoadRuntime, WaitMksquashfs, GuessUpdateInformation,
         NoUpdateInformation, NoSignature, Die, Kill, MayFail, FromEmbed, FromChmod,
         FromGuess, FromMd5, FromSign, FromKey, FromZsync
  <2> QED
    BY <1>1, <2>1, <2>2 DEF Processes, Alive
<1>4. CASE SaveVersion \/ CreateDirIcon
  <2>1. UNCHANGED <<runs, dest, squash>> /\ squash[runs] = "none"
    BY <1>4 DEF SaveVersion, CreateDirIcon, memory, At, Processes
  <2> QED
    BY <1>1, <2>1 DEF Alive
<1>5. CASE ForkMksquashfs
  <2>1. /\ UNCHANGED <<runs, version_env, appdir, dest>> /\ squash'[runs] = "forked"
        /\ pc = "squash" /\ pc' = "wait" /\ squash[runs] = "none"
    <3>1. runs \in RunId
      BY <1>1, <1>5 DEF RunId, ForkMksquashfs, At, Processes
    <3> QED
      BY <1>5, <3>1 DEF ForkMksquashfs, memory, disk, At, Goto, TypeOK, Processes
  <2> QED
    BY <1>1, <2>1 DEF Image, FromAppStream
<1>6. CASE Writes
  <2>1. UNCHANGED <<runs, version_env, appdir, squash>>
    BY <1>6, WritesSteps DEF memory
  <2>2. pc \in FromEmbed /\ pc' # "died"
    BY <1>6 DEF Writes, EmbedRuntime, MakeExecutable, EmbedUpdateInformation, EmbedDigest,
         EmbedSignature, EmbedKey, WriteSignature, WriteKey, At, Goto, FromEmbed,
         FromChmod, FromGuess, FromMd5, FromSign,
         FromKey
  <2>3. dest'.payload = dest.payload
    BY <1>6, EmbedRuntimeFields, WriteFields DEF Writes, Same
  <2> QED
    BY <1>1, <2>1, <2>2, <2>3 DEF Processes, Alive
<1>7. CASE ZsyncWrites
  BY <1>1, <1>7, ZsyncSteps DEF memory, Processes, Alive, FromEmbed, FromChmod, FromGuess, FromMd5,
     FromSign, FromKey, FromZsync
<1>8. ASSUME NEW r \in RunId, MksquashfsStep(r)
      PROVE  Begun'
  <2>1. UNCHANGED <<pc, runs, version_env, appdir>> /\ Alive(r)
    BY <1>8, MksquashfsSteps DEF memory
  <2>2. /\ \A s \in RunId : s # r => squash'[s] = squash[s]
        /\ runs > 0 => runs \in RunId
        /\ r <= runs
    BY <1>1, <1>8, <2>1, MksquashfsSteps DEF RunId, Processes, Alive
  <2>3. pc' = "died" => ~Alive(runs)'
    BY <1>1, <2>1, <2>2 DEF Alive, RunId
  <2>4. \/ /\ squash[r] = "forked" /\ squash'[r] = "writing"
           /\ dest'.payload.run = r /\ ~dest'.payload.whole /\ dest'.runtime = NoRuntime
        \/ /\ squash[r] = "writing" /\ squash'[r] = "exited"
           /\ dest'.runtime = dest.runtime /\ dest'.payload.run = r
        \/ squash'[r] \in {"failed", "signalled"} /\ dest' = dest
    <3>1. \/ /\ squash[r] = "forked" /\ squash'[r] = "writing"
             /\ dest'.payload.run = r /\ ~dest'.payload.whole /\ dest'.exec = dest.exec
             /\ dest'.runtime = NoRuntime
             /\ dest'.md5.by = 0 /\ dest'.sig.by = 0 /\ dest'.key = 0
          \/ /\ squash[r] = "writing" /\ squash'[r] = "exited"
             /\ Same({"runtime", "upd", "md5", "sig", "key", "exec"})
             /\ dest'.payload = [run |-> r, whole |-> dest.payload.run = r, appdir |-> appdir]
          \/ /\ squash'[r] \in {"failed", "signalled"}
             /\ dest' = dest
      BY <1>8, MksquashfsFields
    <3> QED
      BY <3>1 DEF Same
  <2>5. CASE r = runs
    BY <1>1, <2>1, <2>2, <2>3, <2>4, <2>5 DEF Alive
  <2>6. CASE r # runs
    BY <1>1, <2>1, <2>2, <2>3, <2>4, <2>6 DEF RunId
  <2> QED
    BY <2>5, <2>6
<1> QED
  BY <1>2, <1>3, <1>4, <1>5, <1>6, <1>7, <1>8, StepGroups

LEMMA HeadStep ==
  ASSUME TypeOK, TypeOK', Processes, Head, [Next]_vars
  PROVE  Head'
<1>1. MaxRuns \in Nat /\ runs \in 0 .. MaxRuns
  BY MaxRunsAssumption DEF TypeOK
<1> USE DEF Head, FromChmod, FromGuess, FromMd5, FromSign, FromKey, FromZsync, Intact, Alone
<1>2. CASE Start
  BY <1>2 DEF Start, disk, Goto
<1>3. CASE Quiet
  <2>1. UNCHANGED dest /\ mishaps \subseteq mishaps'
    BY <1>3, QuietSteps DEF Quiet, disk, vars, ReadEnvironment, ReadAppDir, CheckIcon,
         ValidateAppStream, LoadRuntime, WaitMksquashfs, GuessUpdateInformation,
         NoUpdateInformation, NoSignature, Die, Kill
  <2>2. /\ pc' \in FromChmod => pc \in FromChmod /\ data' = data
        /\ pc' \in FromGuess => pc \in FromGuess
        /\ pc' \in FromSign => pc \in FromSign
        /\ data' \in {data} \cup Runtimes \cup Unrunnable
    BY <1>3 DEF Quiet, Ended, vars, memory, At, Goto, ReadEnvironment, ReadAppDir, CheckIcon,
         ValidateAppStream, LoadRuntime, WaitMksquashfs, GuessUpdateInformation,
         NoUpdateInformation, NoSignature, Die, Kill, MayFail
  <2> QED
    BY <2>1, <2>2
<1>4. CASE SaveVersion \/ CreateDirIcon \/ ForkMksquashfs
  BY <1>4 DEF SaveVersion, CreateDirIcon, ForkMksquashfs, memory, disk, At, Goto
<1>5. CASE EmbedRuntime
  <2>1. data' = data /\ mishaps \subseteq mishaps'
    BY <1>5, WritesSteps DEF Writes, memory
  <2> QED
    BY <1>5, <2>1, EmbedRuntimeFields DEF Same
<1>6. CASE Writes /\ ~EmbedRuntime
  <2>1. data' = data /\ mishaps \subseteq mishaps'
    BY <1>6, WritesSteps DEF memory
  <2>2. dest'.runtime = dest.runtime
    BY <1>6, WriteFields DEF Writes, Same
  <2>3. /\ pc \in FromChmod
        /\ pc' \in FromGuess => (dest'.exec = dest.exec /\ pc \in FromGuess) \/ dest'.exec
        /\ pc' \in FromSign => pc \in FromSign \/ dest.runtime.digest_md5 >= 16
    BY <1>6, WriteFields DEF Writes, Same
  <2> QED
    BY <2>1, <2>2, <2>3
<1>7. CASE ZsyncWrites
  BY <1>7, ZsyncSteps DEF memory
<1>8. ASSUME NEW r \in RunId, MksquashfsStep(r)
      PROVE  Head'
  <2>1. UNCHANGED <<pc, data, mishaps>> /\ Alive(r)
    BY <1>8, MksquashfsSteps DEF memory
  <2>2. pc \in FromChmod => ~Alone
    BY <1>1, <2>1 DEF Processes, Alive, RunId, FromEmbed
  <2>3. dest'.runtime \in {NoRuntime, dest.runtime}
    BY <1>8, MksquashfsFields DEF Same
  <2> QED
    BY <2>1, <2>2, <2>3
<1> QED
  BY <1>2, <1>3, <1>4, <1>5, <1>6, <1>7, <1>8, StepGroups

LEMMA SectionsStep ==
  ASSUME TypeOK, TypeOK', Processes, Head, Sections, [Next]_vars
  PROVE  Sections'
<1>1. MaxRuns \in Nat /\ runs \in 0 .. MaxRuns
  BY MaxRunsAssumption DEF TypeOK
<1> USE DEF Sections, FromChmod, FromGuess, FromMd5, FromSign, FromKey, FromZsync, Intact, Alone
<1>2. CASE Start
  BY <1>2 DEF Start, disk, Goto
<1>3. CASE Quiet
  <2>1. UNCHANGED <<dest, runs, inv>> /\ mishaps \subseteq mishaps'
    BY <1>3, QuietSteps DEF Quiet, disk, vars, ReadEnvironment, ReadAppDir, CheckIcon,
         ValidateAppStream, LoadRuntime, WaitMksquashfs, GuessUpdateInformation,
         NoUpdateInformation, NoSignature, Die, Kill
  <2>2. CASE NoUpdateInformation \/ GuessUpdateInformation
    BY <2>1, <2>2 DEF NoUpdateInformation, GuessUpdateInformation, CanGuess, memory, At, Goto
  <2>3. CASE ~(NoUpdateInformation \/ GuessUpdateInformation)
    <3>1. /\ pc' \in FromChmod => pc \in FromChmod /\ data' = data /\ (pc' = pc \/ pc = "sign")
          /\ updateinformation' = updateinformation
          /\ pc' = "key" => pc = "key"
          /\ pc' # "idle" => pc # "idle"
          /\ pc = "sign" /\ pc' # pc /\ pc' \in FromChmod => pc' = "zsync" /\ ~inv.sign
      BY <1>3, <2>3 DEF Quiet, Ended, vars, memory, At, Goto, ReadEnvironment, ReadAppDir,
         CheckIcon, ValidateAppStream, LoadRuntime, WaitMksquashfs, NoSignature, Die, Kill, MayFail
    <3> QED
      BY <2>1, <3>1 DEF ReadAgain, CanGuess
  <2> QED
    BY <2>2, <2>3
<1>4. CASE SaveVersion \/ CreateDirIcon \/ ForkMksquashfs
  BY <1>4 DEF SaveVersion, CreateDirIcon, ForkMksquashfs, memory, disk, At, Goto
<1>5. CASE Writes
  <2>1. UNCHANGED memory /\ mishaps \subseteq mishaps'
    BY <1>5, WritesSteps
  <2>2. CASE EmbedRuntime
    BY <2>1, <2>2, EmbedRuntimeFields DEF memory
  <2>3. CASE MakeExecutable
    BY <2>1, <2>3, WriteFields DEF memory, Same, ReadAgain, CanGuess
  <2>4. CASE EmbedUpdateInformation
    BY <2>1, <2>4, WriteFields DEF memory, Same, ReadAgain, CanGuess
  <2>5. CASE EmbedDigest
    BY <2>1, <2>5, WriteFields DEF memory, Same, ReadAgain, CanGuess
  <2>6. CASE EmbedSignature
    BY <2>1, <2>6, WriteFields DEF memory, Same, ReadAgain, CanGuess
  <2>7. CASE EmbedKey
    BY <2>1, <2>7, WriteFields DEF memory, Same, ReadAgain, CanGuess
  <2>8. CASE WriteSignature
    BY <2>1, <2>8, WriteFields DEF memory, Same, ReadAgain, CanGuess
  <2>9. CASE WriteKey
    BY <2>1, <2>9, WriteFields DEF memory, Same, ReadAgain, CanGuess
  <2> QED
    BY <1>5, <2>2, <2>3, <2>4, <2>5, <2>6, <2>7, <2>8, <2>9 DEF Writes
<1>6. CASE ZsyncWrites
  BY <1>6, ZsyncSteps DEF memory, ReadAgain, CanGuess
<1>7. ASSUME NEW r \in RunId, MksquashfsStep(r)
      PROVE  Sections'
  <2>1. UNCHANGED <<pc, memory, mishaps>> /\ Alive(r)
    BY <1>7, MksquashfsSteps
  <2>2. pc \in FromChmod => ~Alone
    BY <1>1, <2>1 DEF Processes, Alive, RunId, FromEmbed
  <2> QED
    BY <2>1, <2>2 DEF memory
<1> QED
  BY <1>2, <1>3, <1>4, <1>5, <1>6, <1>7, StepGroups

-----------------------------------------------------------------------------
(* What digest, signature and zsync file were computed over. *)

\* While this run is alone, a mksquashfs at work is its own, and nothing that
\* was computed is of this run.
LEMMA OwnMksquashfs ==
  ASSUME TypeOK, Processes, Stamps, Alone, runs > 0, NEW r \in RunId, MksquashfsStep(r)
  PROVE  /\ r = runs /\ pc \notin FromEmbed
         /\ dest'.md5.by # runs /\ dest'.sig.by # runs
         /\ zsync.by # runs /\ zsync.by # PartOf(runs)
<1>1. MaxRuns \in Nat /\ runs \in 1 .. MaxRuns
  BY MaxRunsAssumption DEF TypeOK
<1>2. Alive(r)
  BY MksquashfsSteps
<1>3. r = runs
  BY <1>1, <1>2 DEF Processes, Alive, RunId
<1>4. pc \notin FromEmbed
  BY <1>2, <1>3 DEF Processes
<1>5. dest.md5.by # runs /\ dest.sig.by # runs /\ zsync.by # runs /\ zsync.by # PartOf(runs)
  BY <1>1, <1>2, <1>3, <1>4
     DEF Stamps, FromEmbed, FromChmod, FromGuess, FromMd5, FromSign, FromKey, FromZsync
<1>6. /\ dest'.md5.by \in {0, dest.md5.by}
      /\ dest'.sig.by \in {0, dest.sig.by}
  BY MksquashfsFields DEF Same
<1> QED
  BY <1>1, <1>3, <1>4, <1>5, <1>6

LEMMA DigestStep ==
  ASSUME TypeOK, TypeOK', Processes, Stamps, Stamps', DigestMatches, [Next]_vars
  PROVE  DigestMatches'
<1>1. MaxRuns \in Nat /\ runs \in 0 .. MaxRuns
  BY MaxRunsAssumption DEF TypeOK
<1> USE DEF DigestMatches, Alone
<1>2. CASE Start
  BY <1>1, <1>2, StartFields DEF Stamps, TypeOK
<1>3. CASE Quiet
  <2>1. UNCHANGED <<dest, runs>> /\ mishaps \subseteq mishaps'
    BY <1>3, QuietSteps DEF Quiet, disk, vars, ReadEnvironment, ReadAppDir, CheckIcon,
         ValidateAppStream, LoadRuntime, WaitMksquashfs, GuessUpdateInformation,
         NoUpdateInformation, NoSignature, Die, Kill
  <2> QED
    BY <2>1 DEF Digested
<1>4. CASE SaveVersion \/ CreateDirIcon \/ ForkMksquashfs \/ ZsyncWrites
  BY <1>4, ZsyncSteps DEF SaveVersion, CreateDirIcon, ForkMksquashfs, memory, disk, Digested
<1>5. CASE Writes
  <2>1. runs' = runs /\ mishaps \subseteq mishaps'
    BY <1>5, WritesSteps DEF memory
  <2>2. CASE EmbedRuntime \/ MakeExecutable \/ EmbedUpdateInformation
    <3>1. pc' \in {"chmod", "guess", "md5"}
      BY <2>2, EmbedRuntimeFields, WriteFields
    <3> QED
      BY <3>1 DEF Stamps, ToMd5
  <2>3. CASE EmbedDigest
    <3>1. PartOf(runs) # runs
      BY <1>1 DEF PartOf
    <3> QED
      BY <2>1, <2>3, <3>1, WriteFields DEF Same, Digested, Stamps, ToMd5
  <2>4. CASE EmbedSignature \/ EmbedKey \/ WriteSignature \/ WriteKey
    BY <2>1, <2>4, WriteFields DEF Same, Digested
  <2> QED
    BY <1>5, <2>2, <2>3, <2>4 DEF Writes
<1>6. ASSUME NEW r \in RunId, MksquashfsStep(r)
      PROVE  DigestMatches'
  BY <1>6, MksquashfsSteps, OwnMksquashfs DEF memory
<1> QED
  BY <1>2, <1>3, <1>4, <1>5, <1>6, StepGroups

LEMMA BlankedHash ==
  ASSUME NEW d
  PROVE  [Hashed(d) EXCEPT !.sig = 0, !.key = 0] = Blanked(d)
<1> DEFINE Fields == {"payload", "runtime", "upd", "md5", "sig", "key"}
           f == [Hashed(d) EXCEPT !.sig = 0, !.key = 0]
<1>1. /\ f.payload = d.payload /\ f.runtime = d.runtime /\ f.upd = d.upd /\ f.md5 = d.md5
      /\ f.sig = 0 /\ f.key = 0
  BY DEF Hashed
<1>2. DOMAIN f = Fields
  BY DEF Hashed
<1>3. f = [part \in Fields |-> f[part]]
  <2>1. f = [part \in DOMAIN f |-> f[part]]
    OBVIOUS
  <2> HIDE DEF f, Fields
  <2> QED
    BY <1>2, <2>1
<1> HIDE DEF f
<1>4. Blanked(d) = [part \in Fields |-> f[part]]
  BY <1>1 DEF Blanked
<1> QED
  BY <1>3, <1>4 DEF f

\* What is signed is the file with both sections blank.
LEMMA FreshIsBlank ==
  ASSUME runs \in Nat, Fresh(data) \/ Started(data), ~data.sealed
  PROVE  Signed(dest) = Blanked(dest)
<1>1. CASE Started(data)
  BY <1>1 DEF Started, Signed
<1>2. CASE Fresh(data)
  <2>1. dest.sig.by = 0 /\ dest.key = 0 /\ PartOf(runs) # 0
    BY <1>2 DEF Fresh, Unwritten, PartOf
  <2> QED
    BY <2>1 DEF Signed, Hashed, Blanked
<1> QED
  BY <1>1, <1>2

LEMMA SignatureStep ==
  ASSUME TypeOK, TypeOK', Processes, Stamps, Stamps', Head, Covered, [Next]_vars
  PROVE  SignatureVerifies'
<1>1. MaxRuns \in Nat /\ runs \in 0 .. MaxRuns
  BY MaxRunsAssumption DEF TypeOK
<1> USE DEF SignatureVerifies, Alone
<1>2. CASE Start
  BY <1>1, <1>2, StartFields DEF Stamps, TypeOK
<1>3. CASE Quiet
  <2>1. UNCHANGED <<dest, runs>> /\ mishaps \subseteq mishaps'
    BY <1>3, QuietSteps DEF Quiet, disk, vars, ReadEnvironment, ReadAppDir, CheckIcon,
         ValidateAppStream, LoadRuntime, WaitMksquashfs, GuessUpdateInformation,
         NoUpdateInformation, NoSignature, Die, Kill
  <2> QED
    BY <2>1 DEF Hashed, Covered
<1>4. CASE SaveVersion \/ CreateDirIcon \/ ForkMksquashfs \/ ZsyncWrites
  BY <1>4, ZsyncSteps DEF SaveVersion, CreateDirIcon, ForkMksquashfs, memory, disk, Hashed,
     Covered
<1>5. CASE Writes
  <2>1. runs' = runs /\ mishaps \subseteq mishaps'
    BY <1>5, WritesSteps DEF memory
  <2>2. CASE EmbedRuntime \/ MakeExecutable \/ EmbedUpdateInformation \/ EmbedDigest
    <3>1. pc' \in {"chmod", "guess", "md5", "sign"}
      BY <2>2, EmbedRuntimeFields, WriteFields
    <3> QED
      BY <3>1 DEF Stamps, ToSign, ToMd5
  <2>3. CASE EmbedSignature
    <3> SUFFICES ASSUME Intact, ~dest.runtime.sealed
                 PROVE  dest'.sig.of = [Hashed(dest)' EXCEPT !.sig = 0, !.key = 0]
      BY <2>1, <2>3, WriteFields DEF Same, Intact
    <3>1. /\ pc = "sign" /\ Same({"payload", "runtime", "upd", "md5", "key", "exec"})
          /\ dest'.sig = [by |-> runs, of |-> Signed(dest)]
      BY <2>3, WriteFields
    <3>2. dest.runtime = data /\ (Fresh(data) \/ Started(data))
      BY <3>1 DEF Covered, Head, FromChmod, FromGuess, FromMd5, FromSign, FromKey, FromZsync
    <3>4. Signed(dest) = Blanked(dest)
      BY <1>1, <3>2, FreshIsBlank
    <3>5. Blanked(dest') = Blanked(dest)
      BY <3>1 DEF Same, Blanked
    <3>6. dest'.sig.of = Blanked(dest')
      BY <3>1, <3>4, <3>5
    <3> QED
      BY <3>6, BlankedHash
  <2>4. CASE EmbedKey \/ WriteKey
    <3>1. /\ Same({"payload", "runtime", "upd", "md5", "sig", "exec"})
          /\ mishaps' = mishaps
      BY <2>4, WriteFields
    <3>2. Blanked(dest') = Blanked(dest)
      BY <3>1 DEF Same, Blanked
    <3>3. dest'.sig = dest.sig /\ dest'.runtime = dest.runtime
      BY <3>1 DEF Same
    <3> QED
      BY <2>1, <3>1, <3>2, <3>3, BlankedHash DEF Covered
  <2>5. CASE WriteSignature
    <3>1. pc' = "sign"
      BY <2>5, WriteFields
    <3> QED
      BY <3>1 DEF Stamps, ToSign
  <2> QED
    BY <1>5, <2>2, <2>3, <2>4, <2>5 DEF Writes
<1>6. ASSUME NEW r \in RunId, MksquashfsStep(r)
      PROVE  SignatureVerifies'
  BY <1>6, MksquashfsSteps, OwnMksquashfs DEF memory
<1> QED
  BY <1>2, <1>3, <1>4, <1>5, <1>6, StepGroups

LEMMA ZsyncStep ==
  ASSUME TypeOK, TypeOK', Processes, Stamps, Stamps', ZsyncMatches, ZsyncBegun, [Next]_vars
  PROVE  ZsyncMatches' /\ ZsyncBegun'
<1>1. MaxRuns \in Nat /\ runs \in 0 .. MaxRuns
  BY MaxRunsAssumption DEF TypeOK
<1> USE DEF ZsyncMatches, ZsyncBegun, Alone
<1>2. CASE Start
  <2>1. pc' = "options" /\ runs' > 0
    BY <1>1, <1>2, StartFields
  <2> QED
    BY <2>1 DEF Stamps, ToKey, ToSign, ToMd5, ToSquash, ToDirIcon
<1>3. CASE Quiet
  <2>1. UNCHANGED <<dest, zsync, runs>> /\ mishaps \subseteq mishaps'
    BY <1>3, QuietSteps DEF Quiet, disk, vars, ReadEnvironment, ReadAppDir, CheckIcon,
         ValidateAppStream, LoadRuntime, WaitMksquashfs, GuessUpdateInformation,
         NoUpdateInformation, NoSignature, Die, Kill
  <2> QED
    BY <2>1
<1>4. CASE SaveVersion \/ CreateDirIcon \/ ForkMksquashfs
  BY <1>4 DEF SaveVersion, CreateDirIcon, ForkMksquashfs, memory, disk
<1>5. CASE Writes
  <2>1. runs' = runs /\ zsync' = zsync /\ pc \in ToKey
    BY <1>5, WritesSteps, EmbedRuntimeFields, WriteFields
       DEF memory, Writes, ToKey, ToSign, ToMd5, ToSquash
  <2>2. runs > 0 => zsync.by # runs /\ zsync.by # PartOf(runs)
    BY <2>1 DEF Stamps
  <2> QED
    BY <2>1, <2>2
<1>6. CASE ZsyncWrites
  <2>1. UNCHANGED <<runs, dest, mishaps>>
    BY <1>6, ZsyncSteps DEF memory
  <2>2. runs # PartOf(runs)
    BY <1>1 DEF PartOf
  <2>7. ZsyncWritten
    BY <1>6, ZsyncFields
  <2>3. CASE zsync' = zsync
    BY <2>1, <2>3
  <2>4. CASE zsync'.by = runs /\ zsync'.of = dest
    BY <2>1, <2>2, <2>4
  <2>5. CASE zsync'.by = PartOf(runs) /\ zsync'.of \in {dest, Nothing}
    BY <2>1, <2>2, <2>5
  <2>6. ASSUME NEW r \in RunId, zsync.by = PartOf(r), zsync'.by = r, zsync.of # Nothing,
               zsync'.of = zsync.of
        PROVE  ZsyncMatches' /\ ZsyncBegun'
    <3>1. /\ r = runs => runs > 0
          /\ r # PartOf(runs)
      BY <1>1 DEF PartOf, RunId
    <3> QED
      BY <2>1, <2>6, <3>1
  <2> QED
    BY <2>3, <2>4, <2>5, <2>6, <2>7 DEF ZsyncWritten
<1>7. ASSUME NEW r \in RunId, MksquashfsStep(r)
      PROVE  ZsyncMatches' /\ ZsyncBegun'
  BY <1>7, MksquashfsSteps, OwnMksquashfs DEF memory
<1> QED
  BY <1>2, <1>3, <1>4, <1>5, <1>6, <1>7, StepGroups

LEMMA CoveredStep ==
  ASSUME TypeOK, TypeOK', Processes, Stamps, Stamps', Head, Sections, Covered, [Next]_vars
  PROVE  Covered'
<1>1. MaxRuns \in Nat /\ runs \in 0 .. MaxRuns
  BY MaxRunsAssumption DEF TypeOK
<1>2. DigestMatches' /\ SignatureVerifies' /\ ZsyncMatches' /\ ZsyncBegun'
  BY DigestStep, SignatureStep, ZsyncStep DEF Covered
<1> SUFFICES Intact' /\ pc' \in FromChmod /\ (pc' \in FromKey => ~inv'.sign) =>
               Fresh(data)' \/ Started(data)'
  BY <1>2 DEF Covered
<1> USE DEF Intact, Alone, FromChmod, FromGuess, FromMd5, FromSign, FromKey, FromZsync
<1>3. CASE Start \/ SaveVersion \/ CreateDirIcon \/ ForkMksquashfs
  BY <1>3 DEF Start, SaveVersion, CreateDirIcon, ForkMksquashfs, At, Goto
<1>4. CASE Quiet
  <2>1. UNCHANGED <<dest, inv>> /\ mishaps \subseteq mishaps'
    BY <1>4, QuietSteps DEF Quiet, disk, vars, ReadEnvironment, ReadAppDir, CheckIcon,
         ValidateAppStream, LoadRuntime, WaitMksquashfs, GuessUpdateInformation,
         NoUpdateInformation, NoSignature, Die, Kill
  <2>2. pc' \in FromChmod =>
          /\ pc \in FromChmod /\ data' = data /\ (pc \in FromKey => pc' \in FromKey)
          /\ pc = "sign" /\ inv.sign => pc' = pc /\ runs' = runs
    BY <1>4 DEF Quiet, Ended, vars, memory, At, Goto, ReadEnvironment, ReadAppDir, CheckIcon,
         ValidateAppStream, LoadRuntime, WaitMksquashfs, GuessUpdateInformation,
         NoUpdateInformation, NoSignature, Die, Kill, MayFail
  <2>3. Fresh(data) \/ Started(data) => (pc' \in FromChmod => Fresh(data)' \/ Started(data)')
    BY <2>1, <2>2 DEF Fresh, Started, PartOf, Blanked
  <2> QED
    BY <2>1, <2>2, <2>3 DEF Covered
<1>5. CASE EmbedRuntime
  BY <1>5, WritesSteps, EmbedRuntimeFields DEF Writes, memory, Fresh
<1>6. CASE Writes /\ ~EmbedRuntime
  <2>1. UNCHANGED memory /\ mishaps \subseteq mishaps'
    BY <1>6, WritesSteps
  <2>2. CASE MakeExecutable \/ EmbedUpdateInformation \/ EmbedDigest
    BY <2>1, <2>2, WriteFields DEF Same, memory, Covered, Fresh, Started
  <2>3. CASE EmbedSignature
    BY <2>1, <2>3, WriteFields DEF memory
  <2>4. CASE EmbedKey \/ WriteKey
    BY <2>1, <2>4, WriteFields DEF memory, Sections
  <2>5. CASE WriteSignature
    <3> SUFFICES ASSUME Intact'
                 PROVE  Started(data)'
      OBVIOUS
    <3>1. /\ pc = "sign" /\ pc' = "sign"
          /\ Same({"payload", "runtime", "upd", "md5", "key", "exec"})
          /\ dest'.sig = [by |-> PartOf(runs), of |-> Signed(dest)] /\ inv.sign
      BY <2>5, WriteFields
    <3>2. Fresh(data) \/ Started(data)
      BY <2>1, <3>1 DEF Covered
    <3>3. ~data.sealed => Signed(dest) = Blanked(dest) /\ dest.key = 0
      BY <1>1, <3>2, FreshIsBlank DEF Fresh, Started
    <3>4. Blanked(dest') = Blanked(dest) /\ dest'.key = dest.key
      BY <3>1 DEF Same, Blanked
    <3> QED
      BY <2>1, <3>1, <3>3, <3>4 DEF Started, memory
  <2> QED
    BY <1>6, <2>2, <2>3, <2>4, <2>5 DEF Writes
<1>7. CASE ZsyncWrites
  BY <1>7, ZsyncSteps DEF memory, Covered, Fresh, Started
<1>8. ASSUME NEW r \in RunId, MksquashfsStep(r)
      PROVE  Intact' => pc' \notin FromChmod
  <2>1. UNCHANGED <<pc, mishaps>> /\ Alive(r)
    BY <1>8, MksquashfsSteps
  <2> QED
    BY <1>1, <2>1 DEF Processes, Alive, RunId, FromEmbed
<1> QED
  BY <1>3, <1>4, <1>5, <1>6, <1>7, <1>8, StepGroups

-----------------------------------------------------------------------------
(* The invariant. *)

LEMMA InitInv ==
  ASSUME Init
  PROVE  Inv
<1> USE DEF Init
<1>1. MaxRuns \in Nat \ {0} /\ inv \in InvocationType
  BY MaxRunsAssumption, InvocationsAssumption
<1>2. dest.md5.by = 0 /\ dest.sig.by = 0 /\ dest.key = 0 /\ zsync.by = 0 /\ runs = 0
  BY DEF Absent, Unwritten
<1>3. TypeOK
  <2>1. DestType(dest)
    BY AbsentType
  <2>2. appdir \in AppDir
    BY NamesAssumption DEF AppDir
  <2>3. /\ pc = "idle" /\ mishaps = {}
        /\ squash \in [RunId -> {"none", "forked", "writing", "exited", "failed", "signalled"}]
    OBVIOUS
  <2>4. inv \in Invocations /\ version_env \in Names
    BY NamesAssumption
  <2>5. updateinformation \in InfoType /\ data \in RuntimeType
    BY RuntimeTypes
  <2>6. runs \in 0 .. MaxRuns /\ zsync.by \in PartOf(MaxRuns) .. MaxRuns
    <3> HIDE DEF Init
    <3> QED
      BY <1>1, <1>2 DEF PartOf
  <2> HIDE DEF Init
  <2> QED
    BY <2>1, <2>2, <2>3, <2>4, <2>5, <2>6 DEF TypeOK, DestType
<1>4. Processes
  BY <1>1 DEF Processes, ToSquash, ToDirIcon, FromEmbed, FromChmod, FromGuess, FromMd5, FromSign,
              FromKey, FromZsync, RunId, Alive
<1>5. Stamps
  <2> USE <1>2 DEF Stamps, PartOf
  <2> HIDE DEF Init
  <2> QED
    OBVIOUS
<1>6. Covered /\ Image /\ Sections
  BY DEF Covered, DigestMatches, SignatureVerifies, ZsyncMatches, ZsyncBegun, Image, Sections, FromAppStream,
         FromEmbed, FromChmod, FromGuess, FromMd5, FromSign, FromKey, FromZsync
<1>7. Head
  BY DEF Head, FromChmod, FromGuess, FromMd5, FromSign, FromKey, FromZsync, Absent
<1>8. Begun
  BY <1>2 DEF Begun, Absent, NoPayload
<1> QED
  BY <1>3, <1>4, <1>5, <1>6, <1>7, <1>8 DEF Inv

LEMMA NextKeeps ==
  ASSUME Inv, [Next]_vars
  PROVE  Inv'
<1>1. TypeOK'
  BY TypeStep DEF Inv
<1>2. Processes'
  BY <1>1, ProcessesStep DEF Inv
<1>3. Stamps'
  BY <1>1, StampsStep DEF Inv
<1>4. Covered' /\ Head' /\ Sections'
  BY <1>1, <1>3, CoveredStep, HeadStep, SectionsStep DEF Inv
<1>5. Image' /\ Begun'
  BY <1>1, <1>2, ImageStep, BegunStep DEF Inv
<1> QED
  BY <1>1, <1>2, <1>3, <1>4, <1>5 DEF Inv

LEMMA AlwaysInv == Spec => []Inv
BY InitInv, NextKeeps, PTL DEF Spec

-----------------------------------------------------------------------------
(* What the invariant says of a package. *)

\* The variables stay in their types through every sequence of runs, failures
\* and kills (main, appimagetool.c:532).
THEOREM TypeCorrect == Spec => []TypeOK
<1>1. Inv => TypeOK
  BY DEF Inv
<1> QED
  BY <1>1, AlwaysInv, PTL

\* Success means a complete package when nothing went wrong unseen: main
\* returns 0 (appimagetool.c:1178) only with all that was asked for in it.
THEOREM SuccessMeansComplete == Spec => []PackageComplete
<1>1. ASSUME Inv, pc = "success", mishaps = {}
      PROVE  /\ dest.payload = [run |-> runs, whole |-> TRUE, appdir |-> appdir]
             /\ version_env # "none" => appdir.version = version_env
             /\ appdir.diricon = "file"
             /\ dest.runtime = data
             /\ dest.exec
             /\ dest.upd.info \in ToEmbed
             /\ dest.md5.by = runs
             /\ IF inv.sign THEN dest.sig.by = runs /\ dest.key = runs
                ELSE dest.sig = Unwritten(data.sealed)
  <2> USE <1>1 DEF Inv, Intact, Alone, FromAppStream, FromEmbed, FromChmod, FromGuess, FromMd5,
                   FromSign, FromKey, FromZsync
  <2>1. runs \in Nat /\ runs > 0
    BY MaxRunsAssumption DEF TypeOK, Processes
  <2>2. /\ dest.payload = [run |-> runs, whole |-> TRUE, appdir |-> appdir]
        /\ version_env # "none" => appdir.version = version_env
        /\ appdir.diricon = "file"
    BY <2>1 DEF Processes, Image
  <2>3. dest.runtime = data /\ dest.exec
    BY DEF Head
  <2>4. dest.upd.info \in ToEmbed
    <3>1. \A info : Overlay(Blank(data), info).info = info
      BY DEF Overlay
    <3> QED
      BY <3>1 DEF Sections, Blank, ToEmbed
  <2>5. dest.md5.by = runs /\ (inv.sign => dest.sig.by = runs /\ dest.key = runs)
    BY DEF Sections
  <2>6. ~inv.sign => dest.sig = Unwritten(data.sealed)
    BY DEF Covered, Fresh, Started
  <2> QED
    BY <2>2, <2>3, <2>4, <2>5, <2>6
<1>2. Inv => PackageComplete
  BY <1>1 DEF PackageComplete, At
<1> QED
  BY <1>2, AlwaysInv, PTL

\* What is delivered has a runtime that can run: a runtime file that is none,
\* and one of which a part or nothing was written, have no digest section of 16
\* bytes, which the test at appimagetool.c:1088 asks for.
THEOREM RuntimeIsUsable == Spec => []UnusableRuntimeCaught
<1>1. Inv => UnusableRuntimeCaught
  <2> SUFFICES ASSUME Inv, pc = "success", Alone
               PROVE  dest.runtime \in Runtimes
    BY DEF UnusableRuntimeCaught, At
  <2>1. /\ dest.runtime.digest_md5 >= 16
        /\ dest.runtime \in Runtimes \cup Unrunnable \cup {NoRuntime, Torn}
    BY DEF Inv, Head, FromSign, FromKey, FromZsync
  <2>2. \A r \in Unrunnable \cup {NoRuntime, Torn} : r.digest_md5 = 0
    BY RuntimesAssumption DEF NoRuntime, Torn, Unreadable
  <2> QED
    BY <2>1, <2>2
<1> QED
  BY <1>1, AlwaysInv, PTL

\* The digest embedded at appimagetool.c:1115 matches the file from then on, in
\* every later step, failure and kill of the run.
THEOREM DigestStaysValid == Spec => []DigestMatches
<1>1. Inv => DigestMatches
  BY DEF Inv, Covered
<1> QED
  BY <1>1, AlwaysInv, PTL

\* The signature embedded at appimagetool.c:1124 verifies from then on, with
\* the key embedded after it.
THEOREM SignatureStaysValid == Spec => []SignatureVerifies
<1>1. Inv => SignatureVerifies
  BY DEF Inv, Covered
<1> QED
  BY <1>1, AlwaysInv, PTL

\* The zsync file made at appimagetool.c:1156 is of the file as delivered.
THEOREM ZsyncDescribes == Spec => []ZsyncMatches
<1>1. Inv => ZsyncMatches
  BY DEF Inv, Covered
<1> QED
  BY <1>1, AlwaysInv, PTL

\* Update information given with -u stands to the letter in a section that was
\* blank (appimagetool.c:1068).
THEOREM InformationExact == Spec => []UpdateInformationExact
<1>1. Inv => UpdateInformationExact
  <2> SUFFICES ASSUME Inv, pc = "success", mishaps = {}, ~inv.guess,
                      inv.updateinformation # NoInfo, dest.runtime.prefilled = NoInfo
               PROVE  dest.upd = [info |-> inv.updateinformation, tail |-> NoInfo]
    BY DEF UpdateInformationExact, At
  <2> USE DEF Inv, Intact, Alone, FromChmod, FromGuess, FromMd5, FromSign, FromKey, FromZsync
  <2>1. updateinformation = inv.updateinformation /\ dest.runtime = data
    BY DEF Head, Sections
  <2>2. dest.upd = Overlay(Blank(data), updateinformation)
    BY <2>1 DEF Sections, ReadAgain, CanGuess
  <2>3. updateinformation.length \in Nat
    BY DEF TypeOK, InfoType
  <2>4. Blank(data) = [info |-> NoInfo, tail |-> NoInfo] /\ NoInfo.length = 0
    BY <2>1 DEF Blank, NoInfo
  <2> QED
    BY <2>1, <2>2, <2>3, <2>4 DEF Overlay
<1> QED
  BY <1>1, AlwaysInv, PTL

\* A delivered package is written again only by the next run, or by a
\* mksquashfs that outlived an earlier, killed one: the one of the run that
\* delivered it had been waited for (appimagetool.c:107).
THEOREM DeliveredStays == Spec => DeliveredKept
<1>1. ASSUME Inv, [Next]_vars, pc = "success", dest' # dest
      PROVE  \E r \in 1 .. runs - 1 : Alive(r)
  <2>1. PICK r \in RunId : MksquashfsStep(r)
    <3>1. ~Start /\ ~Quiet /\ ~ZsyncWrites
      BY <1>1, QuietSteps, ZsyncSteps DEF Start, disk
    <3>2. ~SaveVersion /\ ~CreateDirIcon /\ ~ForkMksquashfs /\ ~Writes
      BY <1>1 DEF SaveVersion, CreateDirIcon, ForkMksquashfs, Writes, EmbedRuntime,
           MakeExecutable, EmbedUpdateInformation, EmbedDigest, EmbedSignature, EmbedKey,
           WriteSignature, WriteKey, At
    <3> QED
      BY <1>1, <3>1, <3>2, StepGroups
  <2>2. Alive(r)
    BY <1>1, <2>1, MksquashfsSteps DEF Inv
  <2>3. runs \in 0 .. MaxRuns /\ MaxRuns \in Nat
    BY <1>1, MaxRunsAssumption DEF Inv, TypeOK
  <2>4. r < runs
    BY <1>1, <2>2, <2>3 DEF Inv, Processes, Alive, RunId, FromEmbed, FromChmod, FromGuess,
         FromMd5, FromSign, FromKey, FromZsync
  <2> QED
    BY <2>2, <2>3, <2>4 DEF RunId
<1>2. Inv /\ [Next]_vars =>
        [At("success") /\ dest' # dest => \E r \in 1 .. runs - 1 : Alive(r)]_vars
  BY <1>1 DEF At
<1> QED
  BY <1>2, AlwaysInv, PTL DEF Spec, DeliveredKept

-----------------------------------------------------------------------------
(* The package, part by part. *)

\* The parts one by one.
PartsAre ==
  /\ Parts \subseteq {"image", "runtime", "digest", "signature", "key"}
  /\ runs = 0 \/ mishaps # {} => Parts = {}
  /\ runs # 0 /\ mishaps = {} =>
       /\ "image" \in Parts <=> HasImage
       /\ "runtime" \in Parts <=> HasRuntime
       /\ "digest" \in Parts <=> HasDigest
       /\ "signature" \in Parts <=> HasSignature
       /\ "key" \in Parts <=> HasKey

LEMMA EachPart == PartsAre
<1>1. /\ DOMAIN HasPart = {"image", "runtime", "digest", "signature", "key"}
      /\ HasPart["image"] = HasImage /\ HasPart["runtime"] = HasRuntime
      /\ HasPart["digest"] = HasDigest /\ HasPart["signature"] = HasSignature
      /\ HasPart["key"] = HasKey
  BY DEF HasPart
<1> QED
  BY <1>1 DEF Parts, PartsAre

\* Parts are equal when they have the same elements.
LEMMA SameParts ==
  ASSUME PartsAre, PartsAre', mishaps' = mishaps, runs' = runs,
         runs # 0 /\ mishaps = {} =>
           /\ HasImage' <=> HasImage
           /\ HasRuntime' <=> HasRuntime
           /\ HasDigest' <=> HasDigest
           /\ HasSignature' <=> HasSignature
           /\ HasKey' <=> HasKey
  PROVE  Parts' = Parts
<1>1. CASE runs # 0 /\ mishaps = {}
  <2>1. \A part \in {"image", "runtime", "digest", "signature", "key"} :
          part \in Parts' <=> part \in Parts
    BY <1>1 DEF PartsAre
  <2>2. \A part : part \in Parts' <=> part \in Parts
    BY <2>1 DEF PartsAre
  <2> QED
    BY <2>2
<1>2. CASE ~(runs # 0 /\ mishaps = {})
  BY <1>2 DEF PartsAre
<1> QED
  BY <1>1, <1>2

\* There are none up to the end of mksquashfs.
LEMMA NoPartYet ==
  Inv /\ runs > 0 /\ (pc \in ToSquash \/ Alive(runs)) => Parts = {}
<1> SUFFICES ASSUME Inv, runs > 0, pc \in ToSquash \/ Alive(runs), mishaps = {}
             PROVE  Parts = {}
  BY EachPart DEF PartsAre
<1>1. squash[runs] \in {"none", "forked", "writing"}
  BY DEF Inv, Processes, Alive
<1>2. ~HasImage
  BY <1>1 DEF Inv, Begun, HasImage
<1>3. ~HasRuntime
  BY <1>1 DEF Inv, Begun, HasRuntime
<1>4. ~HasDigest /\ ~HasSignature /\ ~HasKey
  BY DEF Inv, Stamps, HasDigest, HasSignature, HasKey, ToKey, ToSign, ToMd5
<1> QED
  BY <1>2, <1>3, <1>4, EachPart DEF PartsAre

\* After mksquashfs the image is in the file, after the digest the rest.
LEMMA PartsSoFar ==
  Inv /\ mishaps = {} =>
    /\ pc \in FromEmbed => HasImage
    /\ pc \in FromMd5 /\ dest.runtime.digest_md5 >= 16 => HasRuntime
    /\ pc \in FromSign => HasRuntime /\ HasDigest
    /\ pc \in FromKey /\ inv.sign => HasSignature
    /\ pc \in FromZsync /\ inv.sign => HasKey
<1> SUFFICES ASSUME Inv, mishaps = {}
             PROVE  /\ pc \in FromEmbed => HasImage
                    /\ pc \in FromMd5 /\ dest.runtime.digest_md5 >= 16 => HasRuntime
                    /\ pc \in FromSign => HasRuntime /\ HasDigest
                    /\ pc \in FromKey /\ inv.sign => HasSignature
                    /\ pc \in FromZsync /\ inv.sign => HasKey
  OBVIOUS
<1> USE DEF Inv, Intact, Alone, FromEmbed, FromChmod, FromGuess, FromMd5, FromSign, FromKey,
            FromZsync
<1>1. runs \in Nat
  BY MaxRunsAssumption DEF TypeOK
<1>2. pc \in FromEmbed => HasImage
  BY <1>1 DEF Processes, Image, Begun, HasImage
<1>3. pc \in FromMd5 /\ dest.runtime.digest_md5 >= 16 => HasRuntime
  <2>1. NoRuntime.digest_md5 = 0
    BY DEF NoRuntime, Unreadable
  <2> QED
    BY <1>2, <2>1 DEF Head, HasRuntime, HasImage
<1>4. pc \in FromSign => HasRuntime
  BY <1>3 DEF Head
<1>5. pc \in FromSign => HasDigest
  <2> SUFFICES ASSUME pc \in FromSign PROVE HasDigest
    OBVIOUS
  <2>1. dest.md5.by = runs /\ runs > 0
    BY <1>1 DEF Sections, Processes
  <2>2. dest.upd.info \in ToEmbed
    <3>1. \A info : Overlay(Blank(data), info).info = info
      BY DEF Overlay
    <3> QED
      BY <3>1 DEF Sections, Blank, ToEmbed
  <2> QED
    BY <2>1, <2>2 DEF Covered, DigestMatches, HasDigest
<1>6. pc \in FromKey /\ inv.sign => HasSignature
  BY <1>1 DEF Sections, Processes, Covered, SignatureVerifies, HasSignature
<1>7. pc \in FromZsync /\ inv.sign => HasKey
  BY DEF Sections, HasKey
<1> QED
  BY <1>2, <1>3, <1>4, <1>5, <1>6, <1>7

-----------------------------------------------------------------------------
(* The steps of the tool are steps of PackagePromise. *)

PromiseStep == [Promise!Next]_Promise!vars

\* A step that changes nothing of the promise.
LEMMA StutterStep ==
  ASSUME UNCHANGED <<runs, inv, mishaps>>, Parts' = Parts, Outcome' = Outcome
  PROVE  PromiseStep
BY DEF PromiseStep, Promise!vars

\* A step that makes a part, or finds that it is there.
LEMMA MakeStep ==
  ASSUME UNCHANGED <<runs, inv, mishaps>>, mishaps = {}, Outcome' = Outcome,
         NEW part \in Promise!Package, Promise!Before[part] \subseteq Parts,
         Parts' = Parts \cup {part},
         Outcome = "running" \/ (Outcome = "killed" /\ part = "image")
  PROVE  PromiseStep
<1>1. CASE part \in Parts
  BY <1>1, StutterStep
<1>2. CASE part \notin Parts
  <2>1. part \in DOMAIN Promise!Before
    BY DEF Promise!Package, Promise!Unsigned, Promise!Before
  <2>2. Promise!Make(part)
    BY <1>2 DEF Promise!Make
  <2> QED
    BY <2>1, <2>2 DEF PromiseStep, Promise!Next
<1> QED
  BY <1>1, <1>2

\* The step of an action that the tool takes with the file as it is.
LEMMA EndStep ==
  ASSUME UNCHANGED <<runs, inv, mishaps>>, Parts' = Parts, Outcome = "running",
         Outcome' \in {"died", "killed"}
  PROVE  PromiseStep
BY DEF PromiseStep, Promise!Next, Promise!Stop

\* A fault that the tool does not see.
LEMMA DisturbStep ==
  ASSUME UNCHANGED <<runs, inv>>, mishaps \subseteq mishaps', mishaps' # {},
         Outcome = "running", Outcome' = "running"
  PROVE  PromiseStep
<1>1. PartsAre /\ PartsAre'
  BY EachPart, PTL
<1>2. CASE mishaps = {}
  BY <1>1, <1>2 DEF PartsAre, PromiseStep, Promise!Next, Promise!Disturb
<1>3. CASE mishaps # {}
  BY <1>1, <1>3 DEF PartsAre, PromiseStep, Promise!vars
<1> QED
  BY <1>2, <1>3

LEMMA StartBegins ==
  ASSUME Inv, Inv', Start
  PROVE  PromiseStep
<1>1. /\ pc \in {"idle"} \cup Ended /\ pc' = "options" /\ runs' = runs + 1
      /\ runs \in Nat /\ inv' \in InvocationType
  BY StartFields, MaxRunsAssumption DEF Inv, TypeOK
<1>2. Outcome # "running" /\ Outcome' = "running" /\ inv'.sign \in BOOLEAN
  BY <1>1 DEF Outcome, Ended, InvocationType
<1>3. (Inv /\ runs > 0 /\ (pc \in ToSquash \/ Alive(runs)) => Parts = {})'
  BY NoPartYet, PTL
<1>4. Parts' = {}
  BY <1>1, <1>3 DEF ToSquash, ToDirIcon
<1> QED
  BY <1>1, <1>2, <1>4 DEF PromiseStep, Promise!Next, Promise!Begin

\* Before mksquashfs has ended, what the tool does in its memory and in the
\* AppDir is of no part.
LEMMA EarlyStep ==
  ASSUME Inv, Inv', UNCHANGED <<runs, inv, mishaps>>,
         pc \in ToSquash, pc' \in ToSquash \/ Alive(runs)'
  PROVE  Parts' = Parts
<1>1. runs > 0 /\ runs' > 0
  BY MaxRunsAssumption DEF Inv, TypeOK, Processes, ToSquash, ToDirIcon
<1>2. (Inv /\ runs > 0 /\ (pc \in ToSquash \/ Alive(runs)) => Parts = {})'
  BY NoPartYet, PTL
<1> QED
  BY <1>1, <1>2, NoPartYet

LEMMA QuietKeepsPromise ==
  ASSUME Inv, Inv', Quiet
  PROVE  PromiseStep
<1>1. UNCHANGED <<disk, squash, runs, inv>>
  BY QuietSteps
<1>2. PartsAre /\ PartsAre'
  BY EachPart, PTL
<1> USE DEF At, Goto
<1>3. CASE UNCHANGED memory /\ UNCHANGED mishaps
  <2>1. Parts' = Parts
    BY <1>1, <1>2, <1>3, SameParts DEF memory, disk, HasImage, HasRuntime, HasDigest, Digested,
       ToEmbed, ReadAgain, CanGuess, HasSignature, Hashed, HasKey
  <2>2. pc' = pc \/ (pc \notin {"idle"} \cup Ended /\ pc' # "success" /\ pc' # "idle")
    BY DEF Quiet, vars, ReadEnvironment, ReadAppDir, CheckIcon, ValidateAppStream, LoadRuntime,
       WaitMksquashfs, GuessUpdateInformation, NoUpdateInformation, NoSignature, Die, Kill,
       MayFail, Ended
  <2> QED
    BY <1>1, <1>3, <2>1, <2>2, StutterStep, EndStep DEF Outcome, Ended, memory
<1>4. CASE ReadEnvironment \/ LoadRuntime
  <2>1. /\ pc \in ToSquash /\ pc' \in ToSquash /\ UNCHANGED mishaps
        /\ Outcome = "running" /\ Outcome' = "running"
    BY <1>4 DEF ReadEnvironment, LoadRuntime, ToSquash, ToDirIcon, Outcome, Ended
  <2> QED
    BY <1>1, <2>1, EarlyStep, StutterStep
<1>5. CASE GuessUpdateInformation
  <2>1. /\ pc = "guess" /\ pc' = "upd" /\ UNCHANGED <<runs, inv, mishaps, version_env, data>>
        /\ Outcome = "running" /\ Outcome' = "running"
    BY <1>5 DEF GuessUpdateInformation, Outcome, Ended
  <2>2. runs # 0 => ~HasDigest /\ ~HasDigest'
    BY <2>1, <1>1, MaxRunsAssumption DEF Inv, TypeOK, Stamps, HasDigest, ToMd5, disk
  <2>3. Parts' = Parts
    BY <1>1, <1>2, <2>1, <2>2, SameParts DEF disk, HasImage, HasRuntime, HasSignature, Hashed,
       HasKey
  <2> QED
    BY <2>1, <2>3, StutterStep
<1>6. CASE WaitMksquashfs /\ mishaps' # mishaps
  <2>1. /\ pc = "wait" /\ mishaps' = mishaps \cup {"payload"}
        /\ pc' \in {"died", "embed"}
    BY <1>6 DEF WaitMksquashfs
  <2>2. pc' = "embed"
    BY <1>6, <2>1, StatusWords, SignalledCode DEF WaitMksquashfs
  <2>3. Outcome = "running" /\ Outcome' = "running"
    BY <2>1, <2>2 DEF Outcome, Ended
  <2> QED
    BY <1>1, <2>1, <2>3, DisturbStep
<1>7. /\ WaitMksquashfs => UNCHANGED memory
      /\ ReadAppDir \/ CheckIcon \/ ValidateAppStream \/ NoUpdateInformation \/ NoSignature
           \/ Die \/ Kill \/ UNCHANGED vars => UNCHANGED memory /\ UNCHANGED mishaps
  BY DEF vars, WaitMksquashfs, ReadAppDir, CheckIcon, ValidateAppStream, NoUpdateInformation,
     NoSignature, Die, Kill
<1> QED
  BY <1>3, <1>4, <1>5, <1>6, <1>7 DEF Quiet

LEMMA AppDirKeepsPromise ==
  ASSUME Inv, Inv', SaveVersion \/ CreateDirIcon \/ ForkMksquashfs
  PROVE  PromiseStep
<1>1. /\ UNCHANGED <<runs, inv, mishaps, dest, version_env, updateinformation, data>>
      /\ pc \in ToSquash /\ Outcome = "running"
  BY DEF SaveVersion, CreateDirIcon, ForkMksquashfs, memory, disk, At, ToSquash, ToDirIcon,
     Outcome, Ended
<1>2. runs \in RunId
  BY <1>1, MaxRunsAssumption DEF Inv, TypeOK, Processes, RunId, ToSquash, ToDirIcon
<1>3. CASE ForkMksquashfs
  <2>1. Alive(runs)' /\ Outcome' = "running"
    BY <1>1, <1>2, <1>3 DEF ForkMksquashfs, Goto, Alive, Inv, TypeOK, Outcome, Ended
  <2> QED
    BY <1>1, <2>1, EarlyStep, StutterStep
<1>4. CASE (SaveVersion \/ CreateDirIcon) /\ pc' # "died"
  <2>1. pc' \in ToSquash /\ Outcome' = "running"
    BY <1>1, <1>4 DEF SaveVersion, CreateDirIcon, Goto, ToSquash, ToDirIcon, Outcome, Ended
  <2> QED
    BY <1>1, <2>1, EarlyStep, StutterStep
<1>5. CASE CreateDirIcon /\ pc' = "died"
  <2>1. squash[runs] = "none" /\ squash' = squash
    BY <1>1, <1>5 DEF CreateDirIcon, Inv, Processes
  <2>2. ~HasImage /\ ~HasImage'
    BY <1>1, <1>2, <2>1 DEF Inv, Begun, HasImage, RunId
  <2>3. PartsAre /\ PartsAre'
    BY EachPart, PTL
  <2>4. Parts' = Parts
    BY <1>1, <2>2, <2>3, SameParts
       DEF HasRuntime, HasDigest, Digested, ToEmbed, ReadAgain,
           CanGuess, HasSignature, Hashed, HasKey
  <2> QED
    BY <1>1, <1>5, <2>4, EndStep DEF Outcome, Ended
<1>6. SaveVersion => pc' # "died"
  BY DEF SaveVersion, Goto
<1> QED
  BY <1>3, <1>4, <1>5, <1>6

\* When nothing went wrong the set grows by the part that the step makes.
LEMMA GrownParts ==
  ASSUME PartsAre, PartsAre', runs # 0, mishaps = {}, UNCHANGED <<runs, mishaps>>,
         NEW part \in {"image", "runtime", "digest", "signature", "key"}, part \in Parts',
         part # "image" => (HasImage' <=> HasImage),
         part # "runtime" => (HasRuntime' <=> HasRuntime),
         part # "digest" => (HasDigest' <=> HasDigest),
         part # "signature" => (HasSignature' <=> HasSignature),
         part # "key" => (HasKey' <=> HasKey)
  PROVE  Parts' = Parts \cup {part}
<1>1. \A other \in {"image", "runtime", "digest", "signature", "key"} :
        other \in Parts' <=> other \in Parts \cup {part}
  BY DEF PartsAre
<1>2. \A other : other \in Parts' <=> other \in Parts \cup {part}
  BY <1>1 DEF PartsAre
<1> QED
  BY <1>2

LEMMA WritesKeepPromise ==
  ASSUME Inv, Inv', Writes
  PROVE  PromiseStep
<1>1. UNCHANGED <<memory, appdir, zsync, squash>> /\ mishaps \subseteq mishaps'
  BY WritesSteps
<1>2. PartsAre /\ PartsAre' /\ TypeOK
  BY EachPart, PTL DEF Inv
<1>3. Outcome = "running" /\ Outcome' = "running"
  BY DEF Writes, EmbedRuntime, MakeExecutable, EmbedUpdateInformation, EmbedDigest,
     EmbedSignature, EmbedKey, WriteSignature, WriteKey, At, Goto, Outcome, Ended
<1>4. runs \in Nat /\ runs # 0
  BY MaxRunsAssumption DEF Inv, TypeOK, Processes, Writes, EmbedRuntime, MakeExecutable,
     EmbedUpdateInformation, EmbedDigest, EmbedSignature, EmbedKey, WriteSignature, WriteKey, At
<1>5. CASE mishaps' # {}
  BY <1>1, <1>3, <1>5, DisturbStep DEF memory
<1> SUFFICES ASSUME mishaps' = {}
             PROVE  PromiseStep
  BY <1>5
<1>6. mishaps = {} /\ UNCHANGED <<runs, inv, mishaps, version_env, updateinformation, data>>
  BY <1>1 DEF memory
<1>7. /\ pc' \in FromEmbed => HasImage'
      /\ pc' \in FromSign => HasRuntime' /\ HasDigest'
      /\ pc' \in FromKey /\ inv'.sign => HasSignature'
      /\ pc' \in FromZsync /\ inv'.sign => HasKey'
  <2>1. (Inv /\ mishaps = {} =>
          /\ pc \in FromEmbed => HasImage
          /\ pc \in FromMd5 /\ dest.runtime.digest_md5 >= 16 => HasRuntime
          /\ pc \in FromSign => HasRuntime /\ HasDigest
          /\ pc \in FromKey /\ inv.sign => HasSignature
          /\ pc \in FromZsync /\ inv.sign => HasKey)'
    BY PartsSoFar, PTL
  <2> QED
    BY <2>1
<1>8. /\ pc \in FromEmbed => HasImage
      /\ pc \in FromMd5 /\ dest.runtime.digest_md5 >= 16 => HasRuntime
      /\ pc \in FromSign => HasRuntime /\ HasDigest
      /\ pc \in FromKey /\ inv.sign => HasSignature
  BY <1>6, PartsSoFar
<1>9. /\ pc \in ToMd5 => ~HasDigest /\ ~HasSignature /\ ~HasKey
      /\ pc' \in ToMd5 => ~HasDigest' /\ ~HasSignature' /\ ~HasKey'
      /\ pc' \in ToSign => ~HasSignature' /\ ~HasKey'
      /\ pc \in ToSign => ~HasSignature /\ ~HasKey
      /\ pc \in ToKey => ~HasKey
      /\ pc' \in ToKey => ~HasKey'
  BY <1>4, <1>6 DEF Inv, Stamps, HasDigest, HasSignature, HasKey, ToSign, ToKey
<1> USE DEF FromEmbed, FromChmod, FromGuess, FromMd5, FromSign, FromKey, FromZsync, ToKey,
            ToSign, ToMd5, ToSquash, ToDirIcon
<1> HIDE DEF Writes
<1>10. CASE EmbedRuntime
  <2>1. /\ pc = "embed" /\ pc' = "chmod" /\ dest'.payload = dest.payload
        /\ dest'.runtime = data
    BY <1>2, <1>6, <1>10, EmbedRuntimeFields DEF Same
  <2>2. HasImage /\ HasImage'
    BY <1>7, <1>8, <2>1
  <2>3. CASE data = NoRuntime
    <3>1. ~HasRuntime /\ ~HasRuntime'
      BY <1>6, <2>3 DEF HasRuntime
    <3>2. Parts' = Parts
      BY <1>2, <1>6, <1>9, <2>1, <2>2, <3>1, SameParts
    <3> QED
      BY <1>3, <1>6, <3>2, StutterStep
  <2>4. CASE data # NoRuntime
    <3>1. HasRuntime'
      BY <1>6, <2>1, <2>2, <2>4 DEF HasRuntime, HasImage
    <3>2. "runtime" \in Parts'
      BY <1>2, <1>4, <1>6, <3>1 DEF PartsAre
    <3>3. Parts' = Parts \cup {"runtime"}
      BY <1>2, <1>4, <1>6, <1>9, <2>1, <2>2, <3>2, GrownParts
    <3>4. "runtime" \in Promise!Package /\ Promise!Before["runtime"] \subseteq Parts
      BY <1>2, <1>4, <1>6, <2>2
         DEF Promise!Package, Promise!Unsigned, Promise!Before, PartsAre
    <3> QED
      BY <1>3, <1>6, <3>3, <3>4, MakeStep
  <2> QED
    BY <2>3, <2>4
<1>11. CASE MakeExecutable \/ EmbedUpdateInformation
  <2>1. /\ pc \in {"chmod", "upd"} /\ pc' \in {"guess", "md5"}
        /\ dest'.payload = dest.payload /\ dest'.runtime = dest.runtime
    BY <1>2, <1>11, WriteFields DEF Same
  <2>2. HasImage /\ HasImage' /\ (HasRuntime' <=> HasRuntime)
    BY <1>6, <1>7, <1>8, <2>1 DEF HasRuntime
  <2>3. Parts' = Parts
    BY <1>2, <1>6, <1>9, <2>1, <2>2, SameParts
  <2> QED
    BY <1>3, <1>6, <2>3, StutterStep
<1>12. CASE EmbedDigest
  <2>1. pc = "md5" /\ pc' = "sign" /\ dest.runtime.digest_md5 >= 16
    BY <1>2, <1>12, WriteFields
  <2>2. HasImage /\ HasImage' /\ HasRuntime /\ HasRuntime' /\ HasDigest'
    BY <1>7, <1>8, <2>1
  <2>3. "digest" \in Parts'
    BY <1>2, <1>4, <1>6, <2>2 DEF PartsAre
  <2>4. Parts' = Parts \cup {"digest"}
    BY <1>2, <1>4, <1>6, <1>9, <2>1, <2>2, <2>3, GrownParts
  <2>5. "digest" \in Promise!Package /\ Promise!Before["digest"] \subseteq Parts
    BY <1>2, <1>4, <1>6, <2>2
       DEF Promise!Package, Promise!Unsigned, Promise!Before, PartsAre
  <2> QED
    BY <1>3, <1>6, <2>4, <2>5, MakeStep
<1>13. CASE EmbedSignature
  <2>1. pc = "sign" /\ pc' = "key" /\ inv.sign
    BY <1>2, <1>13, WriteFields
  <2>2. /\ HasImage /\ HasImage' /\ HasRuntime /\ HasRuntime' /\ HasDigest /\ HasDigest'
        /\ HasSignature'
    BY <1>6, <1>7, <1>8, <2>1
  <2>3. "signature" \in Parts'
    BY <1>2, <1>4, <1>6, <2>2 DEF PartsAre
  <2>4. Parts' = Parts \cup {"signature"}
    BY <1>2, <1>4, <1>6, <1>9, <2>1, <2>2, <2>3, GrownParts
  <2>5. "signature" \in Promise!Package /\ Promise!Before["signature"] \subseteq Parts
    BY <1>2, <1>4, <1>6, <2>1, <2>2
       DEF Promise!Package, Promise!Unsigned, Promise!Before, PartsAre
  <2> QED
    BY <1>3, <1>6, <2>4, <2>5, MakeStep
<1>14. CASE EmbedKey
  <2>1. pc = "key" /\ pc' = "zsync" /\ inv.sign
    BY <1>2, <1>14, WriteFields DEF Inv, Sections
  <2>2. /\ HasImage /\ HasImage' /\ HasRuntime /\ HasRuntime' /\ HasDigest /\ HasDigest'
        /\ HasSignature /\ HasSignature' /\ HasKey'
    BY <1>6, <1>7, <1>8, <2>1
  <2>3. "key" \in Parts'
    BY <1>2, <1>4, <1>6, <2>2 DEF PartsAre
  <2>4. Parts' = Parts \cup {"key"}
    BY <1>2, <1>4, <1>6, <2>2, <2>3, GrownParts
  <2>5. "key" \in Promise!Package /\ Promise!Before["key"] \subseteq Parts
    BY <1>2, <1>4, <1>6, <2>1, <2>2
       DEF Promise!Package, Promise!Unsigned, Promise!Before, PartsAre
  <2> QED
    BY <1>3, <1>6, <2>4, <2>5, MakeStep
<1>15. CASE WriteSignature
  <2>1. /\ pc = "sign" /\ pc' = "sign" /\ inv.sign
        /\ Same({"payload", "runtime", "upd", "md5", "key", "exec"})
    BY <1>2, <1>15, WriteFields
  <2>2. HasImage /\ HasImage' /\ HasRuntime /\ HasRuntime' /\ HasDigest /\ HasDigest'
    BY <1>7, <1>8, <2>1
  <2>3. Parts' = Parts
    BY <1>2, <1>6, <1>9, <2>1, <2>2, SameParts
  <2> QED
    BY <1>3, <1>6, <2>3, StutterStep
<1>16. CASE WriteKey
  <2>1. pc = "key" /\ pc' = "key" /\ inv.sign
    BY <1>2, <1>16, WriteFields DEF Inv, Sections
  <2>2. /\ HasImage /\ HasImage' /\ HasRuntime /\ HasRuntime' /\ HasDigest /\ HasDigest'
        /\ HasSignature /\ HasSignature'
    BY <1>6, <1>7, <1>8, <2>1
  <2>3. Parts' = Parts
    BY <1>2, <1>6, <1>9, <2>1, <2>2, SameParts
  <2> QED
    BY <1>3, <1>6, <2>3, StutterStep
<1> QED
  BY <1>10, <1>11, <1>12, <1>13, <1>14, <1>15, <1>16 DEF Writes

\* The tool succeeds with the whole package, and with a signature and a key of
\* this run only if it was asked to sign.
LEMMA ZsyncKeepsPromise ==
  ASSUME Inv, Inv', ZsyncWrites
  PROVE  PromiseStep
<1>0. /\ UNCHANGED <<memory, appdir, dest, squash, mishaps>>
      /\ pc' = pc \/ (pc = "zsync" /\ pc' \in {"success", "died"})
  BY ZsyncSteps
<1>2. PartsAre /\ PartsAre'
  BY EachPart, PTL
<1>4. Parts' = Parts
  BY <1>0, <1>2, SameParts
     DEF memory, HasImage, HasRuntime, HasDigest, Digested, ToEmbed, ReadAgain,
           CanGuess, HasSignature, Hashed, HasKey
<1>7. CASE pc' = pc
  BY <1>0, <1>4, <1>7, StutterStep DEF memory, Outcome
<1>8. CASE pc = "zsync" /\ pc' = "died"
  BY <1>0, <1>4, <1>8, EndStep DEF memory, Outcome, Ended
<1> SUFFICES ASSUME pc = "zsync", pc' = "success"
             PROVE  PromiseStep
  BY <1>0, <1>7, <1>8
<1>1. /\ UNCHANGED <<memory, appdir, dest, squash, mishaps>>
      /\ pc = "zsync" /\ pc' = "success"
  BY <1>0
<1>3. runs \in Nat /\ runs # 0
  BY <1>1, MaxRunsAssumption DEF Inv, TypeOK, Processes
<1>5. mishaps = {} => Parts = Promise!Package
  <2> SUFFICES ASSUME mishaps = {} PROVE Parts = Promise!Package
    OBVIOUS
  <2>1. /\ HasImage /\ HasRuntime /\ HasDigest
        /\ inv.sign => HasSignature /\ HasKey
    BY <1>1, PartsSoFar
       DEF FromEmbed, FromChmod, FromGuess, FromMd5, FromSign, FromKey, FromZsync
  <2>2. ~inv.sign => ~HasSignature /\ ~HasKey
    <3>1. ~inv.sign => Fresh(data)
      BY <1>1 DEF Inv, Covered, Started, Intact, Alone, FromChmod, FromGuess, FromMd5, FromSign,
         FromKey, FromZsync
    <3> QED
      BY <1>3, <3>1 DEF Fresh, Unwritten, HasSignature, HasKey
  <2>3. \A part \in {"image", "runtime", "digest", "signature", "key"} :
          part \in Parts <=> part \in Promise!Package
    BY <1>2, <1>3, <2>1, <2>2 DEF PartsAre, Promise!Package, Promise!Unsigned
  <2>4. \A part : part \in Parts <=> part \in Promise!Package
    BY <1>2, <2>3 DEF PartsAre, Promise!Package, Promise!Unsigned
  <2> QED
    BY <2>4
<1>6. Outcome = "running" /\ Outcome' = "success" /\ UNCHANGED <<runs, inv>>
  BY <1>1 DEF Outcome, Ended, memory
<1> QED
  BY <1>1, <1>4, <1>5, <1>6 DEF PromiseStep, Promise!Next, Promise!Succeed

\* The image comes with the end of this run's mksquashfs, which the tool waits
\* for unless it was killed.
LEMMA MksquashfsKeepsPromise ==
  ASSUME Inv, Inv', NEW r \in RunId, MksquashfsStep(r)
  PROVE  PromiseStep
<1>1. /\ UNCHANGED <<pc, memory, appdir, zsync, mishaps>> /\ Alive(r)
      /\ \A s \in RunId : s # r => squash'[s] = squash[s]
      /\ squash' \in [RunId -> {"none", "forked", "writing", "exited", "failed", "signalled"}]
  BY MksquashfsSteps DEF Inv
<1>2. PartsAre /\ PartsAre'
  BY EachPart, PTL
<1>3. /\ Outcome' = Outcome /\ UNCHANGED <<runs, inv, version_env, updateinformation, data>>
      /\ runs \in Nat
  BY <1>1, MaxRunsAssumption DEF Outcome, memory, Inv, TypeOK
<1>4. CASE mishaps # {}
  BY <1>1, <1>2, <1>3, <1>4, StutterStep DEF PartsAre
<1> SUFFICES ASSUME mishaps = {}
             PROVE  PromiseStep
  BY <1>4
<1>5. r = runs /\ runs # 0
  BY <1>1, <1>3, MaxRunsAssumption DEF Inv, Processes, Alone, Alive, RunId
<1>6. Parts = {}
  BY <1>1, <1>3, <1>5, NoPartYet
<1>7. CASE Alive(runs)'
  <2>1. (Inv /\ runs > 0 /\ (pc \in ToSquash \/ Alive(runs)) => Parts = {})'
    BY NoPartYet, PTL
  <2>2. Parts' = {}
    BY <1>3, <1>5, <1>7, <2>1
  <2> QED
    BY <1>1, <1>3, <1>6, <2>2, StutterStep
<1>8. CASE ~Alive(runs)' /\ squash'[r] \in {"failed", "signalled"}
  <2>1. dest' = dest
    <3>1. \/ /\ squash[r] = "forked" /\ squash'[r] = "writing"
             /\ dest'.payload.run = r /\ ~dest'.payload.whole /\ dest'.exec = dest.exec
             /\ dest'.runtime = NoRuntime
             /\ dest'.md5.by = 0 /\ dest'.sig.by = 0 /\ dest'.key = 0
          \/ /\ squash[r] = "writing" /\ squash'[r] = "exited"
             /\ Same({"runtime", "upd", "md5", "sig", "key", "exec"})
             /\ dest'.payload = [run |-> r, whole |-> dest.payload.run = r, appdir |-> appdir]
          \/ /\ squash'[r] \in {"failed", "signalled"}
             /\ dest' = dest
      BY MksquashfsFields DEF Inv
    <3> QED
      BY <1>8, <3>1
  <2>2. Parts' = Parts
    BY <1>1, <1>2, <1>3, <2>1, SameParts
       DEF HasImage, HasRuntime, HasDigest, Digested, ToEmbed, ReadAgain,
           CanGuess, HasSignature, Hashed, HasKey
  <2> QED
    BY <1>1, <1>3, <2>2, StutterStep
<1>9. CASE squash'[r] = "exited"
  <2>1. /\ squash[r] = "writing"
        /\ Same({"runtime", "upd", "md5", "sig", "key", "exec"})
        /\ dest'.payload = [run |-> r, whole |-> dest.payload.run = r, appdir |-> appdir]
    <3>1. \/ /\ squash[r] = "forked" /\ squash'[r] = "writing"
             /\ dest'.payload.run = r /\ ~dest'.payload.whole /\ dest'.exec = dest.exec
             /\ dest'.runtime = NoRuntime
             /\ dest'.md5.by = 0 /\ dest'.sig.by = 0 /\ dest'.key = 0
          \/ /\ squash[r] = "writing" /\ squash'[r] = "exited"
             /\ Same({"runtime", "upd", "md5", "sig", "key", "exec"})
             /\ dest'.payload = [run |-> r, whole |-> dest.payload.run = r, appdir |-> appdir]
          \/ /\ squash'[r] \in {"failed", "signalled"}
             /\ dest' = dest
      BY MksquashfsFields DEF Inv
    <3> QED
      BY <1>9, <3>1
  <2>2. Outcome \in {"running", "killed"}
    <3>1. pc \notin FromEmbed \cup {"died", "idle"}
      BY <1>1, <1>5 DEF Inv, Processes, Begun
    <3> QED
      BY <3>1 DEF Outcome, Ended, FromEmbed, FromChmod, FromGuess, FromMd5, FromSign, FromKey,
         FromZsync
  <2>3. HasImage'
    <3>1. dest.payload.run = r
      BY <1>5, <1>3, <2>1 DEF Inv, Image, Alone
    <3>2. dest'.payload = [run |-> r, whole |-> TRUE, appdir |-> appdir]
      BY <2>1, <3>1
    <3>3. appdir.diricon = "file" /\ (version_env # "none" => appdir.version = version_env)
      BY <1>3, <1>5, <2>1 DEF Inv, Begun
    <3> QED
      BY <1>1, <1>3, <1>5, <3>2, <3>3 DEF HasImage
  <2>4. ~HasRuntime /\ ~HasRuntime'
    <3>1. dest.runtime = NoRuntime /\ dest'.runtime = NoRuntime
      BY <1>3, <1>5, <2>1 DEF Inv, Begun, Same
    <3> QED
      BY <1>3, <3>1 DEF HasRuntime
  <2>5. /\ ~HasDigest /\ ~HasSignature /\ ~HasKey
        /\ ~HasDigest' /\ ~HasSignature' /\ ~HasKey'
    <3>1. dest.md5.by # runs /\ dest.sig.by # runs /\ dest.key # runs
      BY <1>1, <1>3, <1>5 DEF Inv, Stamps
    <3>2. dest'.md5 = dest.md5 /\ dest'.sig = dest.sig /\ dest'.key = dest.key
      BY <2>1 DEF Same
    <3> QED
      BY <1>3, <3>1, <3>2 DEF HasDigest, HasSignature, HasKey
  <2>6. "image" \in Parts'
    BY <1>1, <1>2, <1>3, <1>5, <2>3 DEF PartsAre
  <2>7. Parts' = Parts \cup {"image"}
    BY <1>1, <1>2, <1>3, <1>5, <2>4, <2>5, <2>6, GrownParts
  <2>8. "image" \in Promise!Package /\ Promise!Before["image"] \subseteq Parts
    BY DEF Promise!Package, Promise!Unsigned, Promise!Before
  <2> QED
    BY <1>1, <1>3, <2>2, <2>7, <2>8, MakeStep
<1>10. squash'[r] \in {"writing", "exited", "failed", "signalled"}
  BY MksquashfsFields DEF Inv
<1> QED
  BY <1>5, <1>3, <1>7, <1>8, <1>9, <1>10 DEF Alive

LEMMA InitPromise ==
  ASSUME Init
  PROVE  Promise!Init
<1>1. pc = "idle" /\ runs = 0 /\ mishaps = {} /\ inv.sign \in BOOLEAN
  BY InvocationsAssumption DEF Init, InvocationType
<1> QED
  BY <1>1 DEF Promise!Init, Parts, Outcome

LEMMA NextKeepsPromise ==
  ASSUME Inv, Inv', [Next]_vars
  PROVE  [Promise!Next]_Promise!vars
BY StepGroups, StartBegins, QuietKeepsPromise, AppDirKeepsPromise, WritesKeepPromise,
   ZsyncKeepsPromise, MksquashfsKeepsPromise DEF PromiseStep

\* The pipeline of main (appimagetool.c:532) implements PackagePromise: over any
\* number of runs, failures and kills the file holds the parts of the run in
\* their order, each valid from the moment it is there, and success (the
\* return at appimagetool.c:1178) is the whole package.
THEOREM ToolKeepsPromise == Spec => KeepsPackagePromise
<1>1. Inv /\ Inv' /\ [Next]_vars => [Promise!Next]_Promise!vars
  BY NextKeepsPromise
<1>2. Init => Promise!Init
  BY InitPromise
<1> QED
  BY <1>1, <1>2, AlwaysInv, PTL DEF Spec, KeepsPackagePromise, Promise!Spec

-----------------------------------------------------------------------------
(* The steps that other modules have in detail. *)

\* What the tool and mksquashfs do about each other, one case per step.
LEMMA ForkBegins ==
  ASSUME Inv, ForkMksquashfs
  PROVE  WaitStep(FALSE)
<1>1. /\ pc = "squash" /\ pc' = "wait" /\ runs' = runs /\ runs \in RunId
      /\ squash' = [squash EXCEPT ![runs] = "forked"] /\ squash[runs] = "none"
  BY MaxRunsAssumption
     DEF ForkMksquashfs, At, Goto, memory, Inv, TypeOK, Processes, ToSquash, RunId
<1>2. squash'[runs'] = "forked"
  BY <1>1 DEF Inv, TypeOK
<1> QED
  BY <1>1, <1>2 DEF WaitStep, Waiting!Next, Waiting!Begin, Alive

LEMMA WaitReturns ==
  ASSUME Inv, WaitMksquashfs
  PROVE  \E ignored \in BOOLEAN : WaitStep(ignored)
<1>1. /\ pc = "wait" /\ pc' \in {"embed", "died"} /\ runs' = runs /\ squash' = squash
      /\ squash[runs] \in {"exited", "failed", "signalled"}
  <2>1. /\ pc = "wait" /\ pc' \in {"embed", "died"} /\ runs' = runs /\ squash' = squash
        /\ squash[runs] # "none" /\ ~Alive(runs)
    BY DEF WaitMksquashfs, At, Goto, memory
  <2>2. runs \in RunId
    BY <2>1, MaxRunsAssumption DEF Inv, TypeOK, Processes, RunId
  <2> QED
    BY <2>1, <2>2 DEF Inv, TypeOK, Alive
<1>2. CASE pc' = "died"
  BY <1>1, <1>2
     DEF WaitStep, Waiting!Next, Waiting!Return, Waiting!Refused, Waiting!Over, Alive
<1>3. CASE pc' = "embed"
  <2>1. squash[runs] # "failed"
    BY <1>3, StatusWords DEF WaitMksquashfs, Goto
  <2> QED
    BY <1>1, <1>3, <2>1
       DEF WaitStep, Waiting!Next, Waiting!Return, Waiting!GoodEnough, Alive
<1> QED
  BY <1>1, <1>2, <1>3

LEMMA MksquashfsEnds ==
  ASSUME Inv, pc \in {"squash", "wait"}, NEW r \in RunId, MksquashfsStep(r)
  PROVE  WaitStep(FALSE)
<1>1. /\ UNCHANGED <<pc, memory>> /\ Alive(r)
      /\ \A s \in RunId : s # r => squash'[s] = squash[s]
      /\ squash'[r] \in {"writing", "exited", "failed", "signalled"}
  BY MksquashfsSteps, MksquashfsFields DEF Inv
<1>2. runs' = runs /\ runs \in RunId
  BY <1>1, MaxRunsAssumption DEF memory, Inv, TypeOK, Processes, RunId
<1>3. CASE r # runs
  BY <1>1, <1>2, <1>3 DEF WaitStep, Waiting!vars, Alive
<1>4. CASE r = runs /\ squash'[r] = "writing"
  BY <1>1, <1>2, <1>4 DEF WaitStep, Waiting!vars, Alive
<1>5. CASE r = runs /\ squash'[r] # "writing"
  BY <1>1, <1>2, <1>5 DEF WaitStep, Waiting!Next, Waiting!End, Waiting!Over, Alive
<1> QED
  BY <1>3, <1>4, <1>5

\* From the fork to the verdict (appimagetool.c:98 to 117) the pipeline does with
\* mksquashfs what the calls of ChildProcess do, by way of ChildPromise.
THEOREM WaitIsTheCall == Spec => WaitsAsPromised
<1>1. ASSUME Inv, [Next]_vars, pc' # "killed", pc \in {"squash", "wait"}
      PROVE  \E ignored \in BOOLEAN : WaitStep(ignored)
  <2>1. CASE ForkMksquashfs
    BY <1>1, <2>1, ForkBegins
  <2>2. CASE WaitMksquashfs
    BY <1>1, <2>2, WaitReturns
  <2>3. CASE \E r \in RunId : MksquashfsStep(r)
    BY <1>1, <2>3, MksquashfsEnds
  <2>4. CASE Die
    <3>1. /\ pc = "squash" /\ pc' = "died" /\ runs' = runs /\ squash' = squash
          /\ squash[runs] = "none"
      BY <1>1, <2>4 DEF Die, MayFail, At, Goto, memory, Inv, Processes, ToSquash
    <3>2. WaitStep(FALSE)
      BY <3>1 DEF WaitStep, Waiting!Next, Waiting!NotBegun
    <3> QED
      BY <3>2
  <2>5. CASE UNCHANGED vars
    BY <2>5 DEF vars, memory, WaitStep, Waiting!vars, Alive
  <2>6. CASE ZsyncWrites
    BY <1>1, <2>6, ZsyncSteps DEF memory, WaitStep, Waiting!vars, Alive
  <2> QED
    BY <1>1, <2>1, <2>2, <2>3, <2>4, <2>5, <2>6, StepGroups
       DEF Start, Ended, Quiet, SaveVersion, CreateDirIcon, Writes, EmbedRuntime,
           MakeExecutable, EmbedUpdateInformation, EmbedDigest, EmbedSignature, EmbedKey,
           WriteSignature, WriteKey, ReadEnvironment, ReadAppDir, CheckIcon,
           ValidateAppStream, LoadRuntime, GuessUpdateInformation, NoUpdateInformation,
           NoSignature, Kill, At, Goto
<1>2. Inv /\ [Next]_vars =>
        [pc' # "killed" /\ pc \in {"squash", "wait"} =>
           \E ignored \in BOOLEAN : WaitStep(ignored)]_vars
  BY <1>1
<1> QED
  BY <1>2, AlwaysInv, PTL DEF Spec, WaitsAsPromised

\* The writes to the section of the signature, while nothing of the key is there.
LEMMA SignatureGrows ==
  ASSUME Inv, WriteSignature \/ EmbedSignature
  PROVE  SignStep
<1>1. /\ pc = "sign" /\ runs' = runs /\ runs \in Nat /\ dest'.key = dest.key
      /\ \/ pc' = "sign" /\ dest'.sig.by = PartOf(runs)
         \/ pc' = "key" /\ dest'.sig.by = runs
  BY WriteFields, WritesSteps, MaxRunsAssumption DEF Inv, TypeOK, Same, Writes, memory
<1>2. dest.sig.by # runs /\ PartOf(runs) # runs
  BY <1>1 DEF Inv, Stamps, ToSign, Processes, PartOf
<1>3. Filling(dest.key)' = Filling(dest.key)
  BY <1>1 DEF Filling, PartOf
<1>4. Filling(dest.sig.by) \in {"before", "part"}
  BY <1>2 DEF Filling
<1>5. CASE pc' = "sign"
  <2>1. Filling(dest.sig.by)' = "part"
    BY <1>1, <1>2, <1>5 DEF Filling, PartOf
  <2> QED
    BY <1>1, <1>3, <1>4, <1>5, <2>1
       DEF SignStep, Signing!vars, Signing!Next, Signing!WriteSignature, Signing!More
<1>6. CASE pc' = "key"
  <2>1. Filling(dest.sig.by)' = "whole"
    BY <1>1, <1>6 DEF Filling
  <2> QED
    BY <1>1, <1>3, <1>6, <2>1 DEF SignStep, Signing!Next, Signing!EmbedSignature
<1> QED
  BY <1>1, <1>5, <1>6

LEMMA KeyGrows ==
  ASSUME Inv, WriteKey \/ EmbedKey
  PROVE  SignStep
<1>1. /\ pc = "key" /\ runs' = runs /\ runs \in Nat /\ dest'.sig = dest.sig
      /\ \/ pc' = "key" /\ dest'.key = PartOf(runs)
         \/ pc' = "zsync" /\ dest'.key = runs
  BY WriteFields, WritesSteps, MaxRunsAssumption DEF Inv, TypeOK, Same, Writes, memory
<1>2. dest.key # runs /\ PartOf(runs) # runs
  BY <1>1 DEF Inv, Stamps, ToKey, Processes, PartOf
<1>3. Filling(dest.sig.by)' = Filling(dest.sig.by)
  BY <1>1 DEF Filling, PartOf
<1>4. Filling(dest.key) \in {"before", "part"}
  BY <1>2 DEF Filling
<1>5. CASE pc' = "key"
  <2>1. Filling(dest.key)' = "part"
    BY <1>1, <1>2, <1>5 DEF Filling, PartOf
  <2> QED
    BY <1>1, <1>3, <1>4, <1>5, <2>1
       DEF SignStep, Signing!vars, Signing!Next, Signing!WriteKey, Signing!More
<1>6. CASE pc' = "zsync"
  <2>1. Filling(dest.key)' = "whole"
    BY <1>1, <1>6 DEF Filling
  <2> QED
    BY <1>1, <1>3, <1>6, <2>1 DEF SignStep, Signing!Next, Signing!EmbedKey
<1> QED
  BY <1>1, <1>5, <1>6

\* While a run signs (appimagetool.c:1124) nothing changes the two sections in a
\* way that sign_appimage does not, by way of SignPromise.
THEOREM SigningIsTheCall == Spec => SignsAsPromised
<1>1. ASSUME Inv, [Next]_vars, inv.sign, Alone, pc \in {"sign", "key"}
      PROVE  SignStep
  <2>1. CASE WriteSignature \/ EmbedSignature
    BY <1>1, <2>1, SignatureGrows
  <2>2. CASE WriteKey \/ EmbedKey
    BY <1>1, <2>2, KeyGrows
  <2>3. CASE Die \/ Kill
    <3>1. UNCHANGED <<runs, dest>> /\ pc' \in {"died", "killed"}
      BY <2>3 DEF Die, Kill, Goto, memory, disk
    <3> QED
      BY <1>1, <3>1 DEF SignStep, Signing!Next, Signing!Die, Filling
  <2>4. CASE UNCHANGED vars
    BY <2>4 DEF vars, memory, disk, SignStep, Signing!vars, Filling
  <2>6. CASE ZsyncWrites
    BY <1>1, <2>6, ZsyncSteps DEF memory, SignStep, Signing!vars, Filling
  <2>5. ~ \E r \in RunId : MksquashfsStep(r)
    <3>1. runs > 0
      BY <1>1, MaxRunsAssumption DEF Inv, TypeOK, Processes
    <3> QED
      BY <1>1, <3>1, OwnMksquashfs
         DEF Inv, FromEmbed, FromChmod, FromGuess, FromMd5, FromSign, FromKey
  <2> QED
    BY <1>1, <2>1, <2>2, <2>3, <2>4, <2>5, <2>6, StepGroups
       DEF Start, Ended, Quiet, SaveVersion, CreateDirIcon, ForkMksquashfs, Writes,
           EmbedRuntime, MakeExecutable, EmbedUpdateInformation, EmbedDigest,
           ReadEnvironment, ReadAppDir, CheckIcon, ValidateAppStream, LoadRuntime,
           WaitMksquashfs, GuessUpdateInformation, NoUpdateInformation, NoSignature, At, Goto
<1>2. Inv /\ [Next]_vars => [inv.sign /\ Alone /\ pc \in {"sign", "key"} => SignStep]_vars
  BY <1>1
<1> QED
  BY <1>2, AlwaysInv, PTL DEF Spec, SignsAsPromised
=============================================================================
