---------------------------- MODULE AppImageTool ----------------------------
(***************************************************************************)
(* One destination file, and the runs of appimagetool that package an      *)
(* AppDir into it (main in src/src/appimagetool.c).                        *)
(*                                                                         *)
(* A run goes through fixed steps; pc names the one it is at.  mksquashfs  *)
(* is a process of its own: it writes the destination while the tool       *)
(* waits, and goes on when the tool is killed.  A killed or failed run     *)
(* leaves the destination as it is, and the next run meets it.             *)
(*                                                                         *)
(* The destination is modelled by its parts: the payload (the squashfs     *)
(* image), the runtime before it, and the ELF sections of the runtime      *)
(* that the tool fills.  A digest or a signature is modelled by what it    *)
(* was computed over.                                                      *)
(***************************************************************************)
EXTENDS WaitStatus

CONSTANTS
  Names,         \* versions, and names of runtimes and update information
  Invocations,   \* the command lines and environments considered
  Runtimes,      \* the runtimes a download or --runtime-file may give
  Unrunnable,    \* the runtime files that are no ELF file, or cut off
  GuessedInfo,   \* the update information made from the CI variables
  Garbled,       \* what its dead buffer may hold when it is used
  MaxRuns,       \* bound: runs of the tool
  Nothing        \* what a blank section was computed over

\* Update information: whether it has a known prefix, and its length.
InfoType == [name : Names, known : BOOLEAN, length : Nat]

NoInfo == [name |-> "none", known |-> FALSE, length |-> 0]

\* A runtime: the lengths of two of its sections (0: no such section), the
\* update information it brings, whether its digest, signature and key
\* sections hold bytes already, and whether its layout is one on which the
\* digest skips them (DigestLayout!Isolated).
RuntimeType == [name : Names, upd_info : Nat, digest_md5 : Nat,
                prefilled : InfoType, sealed : BOOLEAN, isolated : BOOLEAN]

Unreadable(name) ==
  [name |-> name, upd_info |-> 0, digest_md5 |-> 0,
   prefilled |-> NoInfo, sealed |-> FALSE, isolated |-> TRUE]

\* What lies before the payload while no runtime is there, or one whose end,
\* where its section table lies, is missing.
NoRuntime == Unreadable("none")
Torn == Unreadable("torn")

InvocationType ==
  [version : Names,                  \* $VERSION, or "none"
   updateinformation : InfoType,      \* -u, or NoInfo
   guess : BOOLEAN,                   \* -g
   ci : {"none", "github", "travis", "gitlab"},
   token : BOOLEAN,                   \* $GITHUB_TOKEN is set
   pull_request : BOOLEAN,            \* $TRAVIS_PULL_REQUEST is set
   zsyncmake : BOOLEAN,               \* zsyncmake is on the path
   no_appstream : BOOLEAN,
   sign : BOOLEAN]

ASSUME NamesAssumption == {"none", "torn", "git"} \subseteq Names

ASSUME InvocationsAssumption == Invocations \subseteq InvocationType

ASSUME RuntimesAssumption ==
  /\ Runtimes \cup Unrunnable \subseteq RuntimeType
  /\ \A u \in Unrunnable : u = Unreadable(u.name)

ASSUME InfosAssumption == Garbled \cup {GuessedInfo} \subseteq InfoType \ {NoInfo}

ASSUME MaxRunsAssumption == MaxRuns \in Nat \ {0}

RunId == 1 .. MaxRuns

VARIABLES
  pc,                  \* the step the tool is at
  runs,                \* the number of the run, 0 before the first
  inv,                 \* its invocation
  version_env,         \* the version it embeds, or "none"
  updateinformation,   \* the information it embeds, or NoInfo
  data,                \* the runtime in memory
  appdir,              \* the AppDir: the version in its desktop file, .DirIcon
  dest,                \* the destination, or Absent
  zsync,               \* the zsync file
  squash,              \* per run, its mksquashfs process
  mishaps              \* faults of this run that no check of the tool saw

memory == <<runs, inv, version_env, updateinformation, data>>
disk == <<appdir, dest, zsync>>
vars == <<pc, memory, disk, squash, mishaps>>

AppDir == [version : Names, diricon : {"none", "dangling", "file", "dir"}]

\* Section contents that no run has written: blank, or from the runtime file.
Unwritten(sealed) == [by |-> IF sealed THEN -1 ELSE 0, of |-> Nothing]

\* Who a section is by when run r has begun to fill it and not finished.
PartOf(r) == -1 - r

NoPayload == [run |-> 0, whole |-> FALSE, appdir |-> Nothing]

Absent ==
  [exists |-> FALSE, payload |-> NoPayload, runtime |-> NoRuntime,
   upd |-> [info |-> NoInfo, tail |-> NoInfo], md5 |-> Unwritten(FALSE),
   sig |-> Unwritten(FALSE), key |-> 0, exec |-> FALSE]

Ended == {"success", "died", "killed"}

Init ==
  /\ pc = "idle"
  /\ runs = 0
  /\ inv \in Invocations
  /\ version_env = "none"
  /\ updateinformation = NoInfo
  /\ data = NoRuntime
  /\ appdir \in [version : {"none"}, diricon : {"none", "dangling", "file", "dir"}]
  /\ dest = Absent
  /\ zsync = Unwritten(FALSE)
  /\ squash = [r \in RunId |-> "none"]
  /\ mishaps = {}

-----------------------------------------------------------------------------
(* mksquashfs, started by run r: what it does to the destination. *)

Alive(r) == squash[r] \in {"forked", "writing"}

SquashEnds(r, status) == squash' = [squash EXCEPT ![r] = status]

\* Variant: without -noappend the image goes behind what is there.
MksquashfsAppends(r) ==
  /\ squash[r] = "forked"
  /\ squash' = [squash EXCEPT ![r] = "writing"]
  /\ dest' = [dest EXCEPT !.exists = TRUE, !.payload = [NoPayload EXCEPT !.run = r]]
  /\ UNCHANGED <<pc, memory, appdir, zsync, mishaps>>

\* With -noappend it truncates the destination before it writes.
MksquashfsOpens(r) ==
  /\ squash[r] = "forked"
  /\ squash' = [squash EXCEPT ![r] = "writing"]
  /\ dest' = [Absent EXCEPT !.exists = TRUE, !.exec = dest.exec, !.payload.run = r]
  /\ UNCHANGED <<pc, memory, appdir, zsync, mishaps>>

\* The image is whole unless another mksquashfs has written the file too.
MksquashfsExits(r) ==
  /\ squash[r] = "writing"
  /\ SquashEnds(r, "exited")
  /\ dest' = [dest EXCEPT !.payload =
       [run |-> r, whole |-> dest.payload.run = r, appdir |-> appdir]]
  /\ UNCHANGED <<pc, memory, appdir, zsync, mishaps>>

\* exec fails, the exclude file is missing, or mksquashfs finds an error.
MksquashfsFails(r) ==
  /\ Alive(r)
  /\ SquashEnds(r, "failed")
  /\ UNCHANGED <<pc, memory, disk, mishaps>>

MksquashfsKilled(r) ==
  /\ Alive(r)
  /\ SquashEnds(r, "signalled")
  /\ UNCHANGED <<pc, memory, disk, mishaps>>

\* The status word the tool gets for a mksquashfs that has ended.
Status(state) ==
  CASE state = "exited" -> Exited(0)
    [] state = "failed" -> Exited(1)
    [] state = "signalled" -> Signalled

-----------------------------------------------------------------------------
(* The steps of a run. *)

At(step) == pc = step
Goto(step) == pc' = step

\* The zsync file is still written to, or will be.
ZsyncmakeAtWork == zsync.of # Nothing /\ \E r \in RunId : zsync.by = PartOf(r)

\* An invocation begins, after an earlier one has ended if there was one.  What
\* an earlier run has left for a zsync file is not told apart from none, unless
\* its zsyncmake is still at work.
Start ==
  /\ pc \in {"idle"} \cup Ended
  /\ runs < MaxRuns
  /\ Goto("options")
  /\ runs' = runs + 1
  /\ inv' \in Invocations
  /\ version_env' = inv'.version
  /\ updateinformation' = inv'.updateinformation
  /\ data' = NoRuntime
  /\ zsync' = IF ZsyncmakeAtWork THEN [by |-> zsync.by, of |-> "an earlier file"]
              ELSE Unwritten(FALSE)
  /\ mishaps' = IF \E r \in RunId : Alive(r) THEN {"orphan"} ELSE {}
  /\ UNCHANGED <<appdir, dest, squash>>

\* The options parse, the programs are there, the source is a directory.
\* With -g and no $VERSION, git may supply a version.
ReadEnvironment ==
  /\ At("options")
  /\ Goto("appdir")
  /\ \/ UNCHANGED version_env
     \/ inv.guess /\ version_env = "none" /\ version_env' = "git"
  /\ UNCHANGED <<runs, inv, updateinformation, data, disk, squash, mishaps>>

\* The desktop file validates and parses, one architecture is found, and the
\* destination has a name.
ReadAppDir ==
  /\ At("appdir")
  /\ Goto("save")
  /\ UNCHANGED <<memory, disk, squash, mishaps>>

SaveVersion ==
  /\ At("save")
  /\ Goto("icon")
  /\ appdir' = IF version_env # "none" THEN [appdir EXCEPT !.version = version_env]
               ELSE appdir
  /\ UNCHANGED <<memory, dest, zsync, squash, mishaps>>

CheckIcon ==
  /\ At("icon")
  /\ Goto("diricon")
  /\ UNCHANGED <<memory, disk, squash, mishaps>>

\* A .DirIcon that leads nowhere is removed, in a step of its own; what is not
\* a regular file then gets a symlink, which fails when something is in its
\* place.
CreateDirIcon ==
  /\ At("diricon")
  /\ \/ /\ appdir.diricon = "file"
        /\ Goto("appstream")
        /\ UNCHANGED appdir
     \/ /\ appdir.diricon = "dangling"
        /\ appdir' = [appdir EXCEPT !.diricon = "none"]
        /\ UNCHANGED pc
     \/ /\ appdir.diricon = "none"
        /\ Goto("appstream")
        /\ appdir' = [appdir EXCEPT !.diricon = "file"]
     \/ /\ appdir.diricon # "file"
        /\ Goto("died")
        /\ UNCHANGED appdir
  /\ UNCHANGED <<memory, dest, zsync, squash, mishaps>>

ValidateAppStream ==
  /\ At("appstream")
  /\ Goto("runtime")
  /\ UNCHANGED <<memory, disk, squash, mishaps>>

\* The file given, or the answer to the download, is not looked into.
LoadRuntime ==
  /\ At("runtime")
  /\ Goto("squash")
  /\ data' \in Runtimes \cup Unrunnable
  /\ UNCHANGED <<runs, inv, version_env, updateinformation, disk, squash, mishaps>>

ForkMksquashfs ==
  /\ At("squash")
  /\ Goto("wait")
  /\ squash' = [squash EXCEPT ![runs] = "forked"]
  /\ UNCHANGED <<memory, disk, mishaps>>

\* Variant: the wait is repeated until mksquashfs has exited by itself.
WaitUntilExit ==
  /\ At("wait")
  /\ squash[runs] \in {"exited", "failed"}
  /\ Goto(IF squash[runs] = "failed" THEN "died" ELSE "embed")
  /\ UNCHANGED <<memory, disk, squash, mishaps>>

\* Variant: a mksquashfs that is still at work is not waited for.
WaitNot ==
  /\ At("wait")
  /\ squash[runs] # "none"
  /\ \/ squash[runs] = "failed" /\ Goto("died")
     \/ squash[runs] # "failed" /\ Goto("embed")
  /\ UNCHANGED <<memory, disk, squash, mishaps>>

\* Variant: the exit code is not looked at either.
WaitUnchecked ==
  /\ At("wait")
  /\ squash[runs] # "none" /\ ~Alive(runs)
  /\ Goto("embed")
  /\ mishaps' = IF squash[runs] = "signalled" THEN mishaps \cup {"payload"} ELSE mishaps
  /\ UNCHANGED <<memory, disk, squash>>

\* Only the exit code is looked at, and a signal leaves it 0.  With SIGCHLD
\* ignored waitpid fails once mksquashfs has ended.
WaitMksquashfs ==
  /\ At("wait")
  /\ squash[runs] # "none" /\ ~Alive(runs)
  /\ \/ LET status == Status(squash[runs]) IN
          /\ Goto(IF WEXITSTATUS(status) # 0 THEN "died" ELSE "embed")
          /\ mishaps' = IF status = Signalled THEN mishaps \cup {"payload"} ELSE mishaps
     \/ Goto("died") /\ UNCHANGED mishaps
  /\ UNCHANGED <<memory, disk, squash>>

\* The destination once the runtime in memory is at its start.
WithRuntime(d, r) ==
  [d EXCEPT !.runtime = r,
            !.upd = [info |-> r.prefilled, tail |-> NoInfo],
            !.md5 = Unwritten(r.sealed),
            !.sig = Unwritten(r.sealed),
            !.key = IF r.sealed THEN -1 ELSE 0]

\* The write is not checked: all of the runtime, a part of it or nothing of
\* it may reach the file.
EmbedRuntime ==
  /\ At("embed")
  /\ dest.exists
  /\ Goto("chmod")
  /\ \/ dest' = WithRuntime(dest, data) /\ UNCHANGED mishaps
     \/ dest' = WithRuntime(dest, Torn) /\ mishaps' = mishaps \cup {"runtime"}
     \/ UNCHANGED dest /\ mishaps' = mishaps \cup {"runtime"}
  /\ UNCHANGED <<memory, appdir, zsync, squash>>

MakeExecutable ==
  /\ At("chmod")
  /\ Goto("guess")
  /\ dest' = [dest EXCEPT !.exec = TRUE]
  /\ UNCHANGED <<memory, appdir, zsync, squash, mishaps>>

\* Variant: the CI variables are used without -g, too.
CanGuessUnasked ==
  /\ inv.zsyncmake
  /\ \/ inv.ci \in {"github", "travis"} /\ inv.token
     \/ inv.ci = "gitlab"

\* The CI variables suffice to make update information of them.
CanGuess ==
  /\ inv.guess
  /\ inv.zsyncmake
  /\ \/ inv.ci \in {"github", "travis"} /\ inv.token
     \/ inv.ci = "gitlab"

\* strcmp of $TRAVIS_PULL_REQUEST, which is not set.
ComparesNull ==
  inv.guess /\ inv.ci = "travis" /\ ~inv.token /\ ~inv.pull_request

\* Variant: an error of snprintf is not looked at.
GuessWithoutCheck ==
  /\ At("guess")
  /\ ~ComparesNull
  /\ Goto("upd")
  /\ updateinformation' = IF CanGuess THEN [GuessedInfo EXCEPT !.length = -1]
                          ELSE updateinformation
  /\ UNCHANGED <<runs, inv, version_env, data, disk, squash, mishaps>>

\* The guess replaces what -u gave.  It lies in a buffer that is out of scope
\* when it is used.
GuessUpdateInformation ==
  /\ At("guess")
  /\ ~ComparesNull
  /\ Goto("upd")
  /\ updateinformation' \in IF CanGuess THEN {GuessedInfo} \cup Garbled
                            ELSE {updateinformation}
  /\ UNCHANGED <<runs, inv, version_env, data, disk, squash, mishaps>>

\* A section that held old, once the string new is written at its start.
Overlay(old, new) ==
  [info |-> new,
   tail |-> IF old.tail.length > new.length THEN old.tail
            ELSE IF old.info.length > new.length THEN old.info ELSE NoInfo]

\* What the information may be when it is read again: the lookup of the section
\* has used the stack since, and the buffer of a guess is out of scope.
ReadAgain == IF CanGuess THEN {updateinformation} \cup Garbled ELSE {updateinformation}

\* What a write leaves of it that ends too soon.
CutShort == [NoInfo EXCEPT !.name = "torn"]

\* The .upd_info section takes the information.  The write is not checked: all
\* of it, a part or nothing may reach the file.
EmbedUpdateInformation ==
  /\ At("upd")
  /\ updateinformation # NoInfo
  /\ updateinformation.known
  /\ dest.runtime.upd_info # 0
  /\ Goto("md5")
  /\ \E info \in ReadAgain :
       /\ info.length <= dest.runtime.upd_info
       /\ \/ /\ dest' = [dest EXCEPT !.upd = Overlay(dest.upd, info)]
             /\ UNCHANGED mishaps
          \/ /\ dest' = [dest EXCEPT !.upd = Overlay(dest.upd, CutShort)]
             /\ mishaps' = mishaps \cup {"upd"}
          \/ UNCHANGED dest /\ mishaps' = mishaps \cup {"upd"}
  /\ UNCHANGED <<memory, appdir, zsync, squash>>

NoUpdateInformation ==
  /\ At("upd")
  /\ updateinformation = NoInfo
  /\ Goto("md5")
  /\ UNCHANGED <<memory, disk, squash, mishaps>>

\* What the digest covers.  On a layout that is not isolated it covers bytes
\* of the digest, signature and key sections as well.
Digested(d) ==
  [payload |-> d.payload, runtime |-> d.runtime, upd |-> d.upd,
   rest |-> IF d.runtime.isolated THEN <<>> ELSE <<d.md5.by, d.sig.by, d.key>>]

\* Variant: the size of the section is not looked at.
EmbedDigestAnyway ==
  /\ At("md5")
  /\ Goto("sign")
  /\ dest' = [dest EXCEPT !.md5 = [by |-> runs, of |-> Digested(dest)]]
  /\ UNCHANGED <<memory, appdir, zsync, squash, mishaps>>

\* The digest goes to its section.  fwrite fills a stdio buffer; that the
\* buffer reaches the file, wholly or in part, is not checked.
EmbedDigest ==
  /\ At("md5")
  /\ dest.runtime.digest_md5 >= 16
  /\ Goto("sign")
  /\ \/ dest' = [dest EXCEPT !.md5 = [by |-> runs, of |-> Digested(dest)]]
        /\ UNCHANGED mishaps
     \/ /\ dest' = [dest EXCEPT !.md5 = [by |-> PartOf(runs), of |-> Nothing]]
        /\ mishaps' = mishaps \cup {"md5"}
     \/ UNCHANGED dest /\ mishaps' = mishaps \cup {"md5"}
  /\ UNCHANGED <<memory, appdir, zsync, squash>>

\* The SHA256 over the whole file that is signed.
Hashed(d) ==
  [payload |-> d.payload, runtime |-> d.runtime, upd |-> d.upd, md5 |-> d.md5,
   sig |-> d.sig.by, key |-> d.key]

\* Variant: the key is embedded before the file is hashed.
SignAfterKey ==
  /\ At("sign")
  /\ inv.sign
  /\ Goto("key")
  /\ dest' = [dest EXCEPT !.key = runs,
                         !.sig = [by |-> runs, of |-> Hashed([dest EXCEPT !.key = runs])]]
  /\ UNCHANGED <<memory, appdir, zsync, squash, mishaps>>

\* What is signed: the file as it was before the signature was begun.
Signed(d) == IF d.sig.by = PartOf(runs) THEN d.sig.of ELSE Hashed(d)

\* A part of the signature is in its section; the rest may not come.
WriteSignature ==
  /\ At("sign")
  /\ inv.sign
  /\ dest' = [dest EXCEPT !.sig = [by |-> PartOf(runs), of |-> Signed(dest)]]
  /\ UNCHANGED <<pc, memory, appdir, zsync, squash, mishaps>>

EmbedSignature ==
  /\ At("sign")
  /\ inv.sign
  /\ Goto("key")
  /\ dest' = [dest EXCEPT !.sig = [by |-> runs, of |-> Signed(dest)]]
  /\ UNCHANGED <<memory, appdir, zsync, squash, mishaps>>

\* Variant: a key larger than its section runs into the next one.
EmbedKeyAnyway ==
  /\ At("key")
  /\ Goto("zsync")
  /\ dest' = [dest EXCEPT !.key = runs, !.upd.tail = GuessedInfo]
  /\ UNCHANGED <<memory, appdir, zsync, squash, mishaps>>

WriteKey ==
  /\ At("key")
  /\ dest' = [dest EXCEPT !.key = PartOf(runs)]
  /\ UNCHANGED <<pc, memory, appdir, zsync, squash, mishaps>>

EmbedKey ==
  /\ At("key")
  /\ Goto("zsync")
  /\ dest' = [dest EXCEPT !.key = runs]
  /\ UNCHANGED <<memory, appdir, zsync, squash, mishaps>>

NoSignature ==
  /\ At("sign")
  /\ ~inv.sign
  /\ Goto("zsync")
  /\ UNCHANGED <<memory, disk, squash, mishaps>>

MakesZsync == updateinformation # NoInfo /\ inv.zsyncmake

\* Variant: the zsync file is made before the file is signed.
MakeZsyncUnsigned ==
  /\ At("zsync")
  /\ Goto("success")
  /\ zsync' = IF MakesZsync
              THEN [by |-> runs, of |-> [dest EXCEPT !.sig = Unwritten(FALSE), !.key = 0]]
              ELSE zsync
  /\ UNCHANGED <<memory, appdir, dest, squash, mishaps>>

\* zsyncmake is at work: the zsync file is begun.
ZsyncmakeWrites ==
  /\ At("zsync")
  /\ MakesZsync
  /\ zsync' = [by |-> PartOf(runs), of |-> dest]
  /\ UNCHANGED <<pc, memory, appdir, dest, squash, mishaps>>

\* zsyncmake has ended badly and leaves a part for good.
ZsyncmakeFails ==
  /\ At("zsync")
  /\ zsync.by = PartOf(runs)
  /\ Goto("died")
  /\ zsync' = [by |-> PartOf(runs), of |-> Nothing]
  /\ UNCHANGED <<memory, appdir, dest, squash, mishaps>>

\* The zsyncmake of a tool that was killed finishes its file, if no later one
\* has written to it.
ZsyncmakeOutlives(r) ==
  /\ zsync.by = PartOf(r)
  /\ zsync.of # Nothing
  /\ r = runs => At("killed")
  /\ zsync' = [by |-> r, of |-> zsync.of]
  /\ UNCHANGED <<pc, memory, appdir, dest, squash, mishaps>>

MakeZsync ==
  /\ At("zsync")
  /\ Goto("success")
  /\ zsync' = IF MakesZsync THEN [by |-> runs, of |-> dest] ELSE zsync
  /\ UNCHANGED <<memory, appdir, dest, squash, mishaps>>

\* Where the tool may stop with an error message and leave all as it is.
MayFail ==
  \/ pc \in {"options", "appdir", "icon", "runtime", "squash", "embed", "chmod", "md5"}
  \/ At("save") /\ version_env # "none"
  \/ At("appstream") /\ ~inv.no_appstream
  \/ At("guess") /\ (CanGuess \/ ComparesNull)
  \/ At("upd") /\ updateinformation # NoInfo
  \/ At("sign") /\ inv.sign
  \/ At("key")
  \/ At("zsync") /\ MakesZsync /\ zsync.by # PartOf(runs)

Die ==
  /\ MayFail
  /\ Goto("died")
  /\ UNCHANGED <<memory, disk, squash, mishaps>>

\* The tool is killed from outside; its mksquashfs is not.
Kill ==
  /\ pc \notin {"idle"} \cup Ended
  /\ Goto("killed")
  /\ UNCHANGED <<memory, disk, squash, mishaps>>

ToolStep ==
  \/ ReadEnvironment \/ ReadAppDir \/ SaveVersion \/ CheckIcon \/ CreateDirIcon
  \/ ValidateAppStream \/ LoadRuntime \/ ForkMksquashfs \/ WaitMksquashfs
  \/ EmbedRuntime \/ MakeExecutable \/ GuessUpdateInformation
  \/ EmbedUpdateInformation \/ NoUpdateInformation \/ EmbedDigest
  \/ WriteSignature \/ EmbedSignature \/ WriteKey \/ EmbedKey \/ NoSignature
  \/ ZsyncmakeWrites \/ ZsyncmakeFails \/ MakeZsync \/ Die

MksquashfsStep(r) ==
  \/ MksquashfsOpens(r) \/ MksquashfsExits(r)
  \/ MksquashfsFails(r) \/ MksquashfsKilled(r)

Next ==
  \/ Start \/ ToolStep \/ Kill
  \/ \E r \in RunId : MksquashfsStep(r) \/ ZsyncmakeOutlives(r)

(***************************************************************************)
(* The tool is scheduled and the servers and programs it waits for answer; *)
(* mksquashfs ends, one way or another.                                    *)
(***************************************************************************)
Fairness == WF_vars(ToolStep) /\ \A r \in RunId : WF_vars(MksquashfsStep(r))

Spec == Init /\ [][Next]_vars /\ Fairness

-----------------------------------------------------------------------------
TypeOK ==
  /\ pc \in {"idle", "options", "appdir", "save", "icon", "diricon", "appstream",
             "runtime", "squash", "wait", "embed", "chmod", "guess", "upd", "md5",
             "sign", "key", "zsync"} \cup Ended
  /\ runs \in 0 .. MaxRuns
  /\ inv \in Invocations
  /\ version_env \in Names
  /\ updateinformation \in InfoType
  /\ data \in RuntimeType
  /\ appdir \in AppDir
  /\ DOMAIN dest = DOMAIN Absent
  /\ dest.runtime \in RuntimeType
  /\ dest.payload \in [run : 0 .. MaxRuns, whole : BOOLEAN, appdir : AppDir \cup {Nothing}]
  /\ dest.upd \in [info : InfoType, tail : InfoType]
  /\ {dest.md5.by, dest.sig.by, dest.key, zsync.by} \subseteq PartOf(MaxRuns) .. MaxRuns
  /\ squash \in [RunId -> {"none", "forked", "writing", "exited", "failed", "signalled"}]
  /\ mishaps \subseteq {"orphan", "payload", "runtime", "upd", "md5"}

\* No mksquashfs of an earlier run was at work on the file when this one began.
Alone == "orphan" \notin mishaps

\* The update information a package may have in the end.
ToEmbed == IF updateinformation = NoInfo THEN {data.prefilled} ELSE ReadAgain

\* What success means, when nothing went wrong unseen: the file is executable
\* and holds the whole image of the AppDir as this run left it, with its
\* version and icon, the runtime that was loaded, the update information, a
\* digest and, where asked for, a signature and a key of this run.  No step
\* that was skipped or failed, and nothing of an earlier run, gets through.
PackageComplete ==
  At("success") /\ mishaps = {} =>
    /\ dest.payload = [run |-> runs, whole |-> TRUE, appdir |-> appdir]
    /\ version_env # "none" => appdir.version = version_env
    /\ appdir.diricon = "file"
    /\ dest.runtime = data
    /\ dest.exec
    /\ dest.upd.info \in ToEmbed
    /\ dest.md5.by = runs
    /\ IF inv.sign THEN dest.sig.by = runs /\ dest.key = runs
       ELSE dest.sig = Unwritten(data.sealed)

\* A runtime file that is no runtime, and a runtime of which only a part was
\* written, are caught on the way although neither is looked at: the sections
\* are then not found.
UnusableRuntimeCaught ==
  At("success") /\ Alone => dest.runtime \in Runtimes

\* The digest of this run matches the file at all times after it is embedded,
\* in later steps, after a failure and after a kill: what it covers does not
\* change any more.
DigestMatches ==
  dest.md5.by = runs /\ runs > 0 /\ dest.runtime.isolated /\ Alone =>
    dest.md5.of = Digested(dest)

\* The signature of this run verifies at all times after it is embedded: over
\* the file with both its own section and the key section blank.  It takes a
\* runtime with blank sections that was written in this run: the signature is
\* computed over whatever the two sections hold.
SignatureVerifies ==
  /\ dest.sig.by = runs /\ runs > 0
  /\ Alone /\ "runtime" \notin mishaps /\ ~dest.runtime.sealed
  =>
    dest.sig.of = [Hashed(dest) EXCEPT !.sig = 0, !.key = 0]

\* The zsync file of this run describes the file as it is delivered: signed
\* first (the comment at appimagetool.c:1129).
ZsyncMatches ==
  zsync.by = runs /\ runs > 0 /\ Alone => zsync.of = dest

\* Where the runtime brings a blank section, the update information given
\* with -u stands in it to the letter, with no rest of an older string.
UpdateInformationExact ==
  /\ At("success") /\ mishaps = {}
  /\ ~inv.guess /\ inv.updateinformation # NoInfo
  /\ dest.runtime.prefilled = NoInfo
  => dest.upd = [info |-> inv.updateinformation, tail |-> NoInfo]

\* A package that has been delivered stays as it is until the next run, unless
\* the mksquashfs of an earlier run, one that was killed, is still at work: the
\* run that delivered it has left nothing behind that writes the file.
DeliveredKept ==
  [][At("success") /\ dest' # dest => \E r \in 1 .. runs - 1 : Alive(r)]_vars

\* The image of the AppDir, which has its version and icon.
HasImage ==
  /\ dest.payload = [run |-> runs, whole |-> TRUE, appdir |-> appdir]
  /\ appdir.diricon = "file"
  /\ version_env # "none" => appdir.version = version_env

HasRuntime == dest.payload.run = runs /\ dest.runtime = data /\ data # NoRuntime

\* A digest that matches, over a file with the final update information.
HasDigest ==
  /\ dest.md5.by = runs
  /\ dest.runtime.isolated => dest.md5.of = Digested(dest)
  /\ dest.upd.info \in ToEmbed

\* A signature that verifies, unless the runtime was signed before.
HasSignature ==
  /\ dest.sig.by = runs
  /\ ~dest.runtime.sealed => dest.sig.of = [Hashed(dest) EXCEPT !.sig = 0, !.key = 0]

HasKey == dest.key = runs

HasPart ==
  [image |-> HasImage, runtime |-> HasRuntime, digest |-> HasDigest,
   signature |-> HasSignature, key |-> HasKey]

\* The parts of the package of an undisturbed run that are in the file.
Parts ==
  IF runs = 0 \/ mishaps # {} THEN {}
  ELSE {part \in DOMAIN HasPart : HasPart[part]}

Outcome == IF pc \in {"idle"} \cup Ended THEN pc ELSE "running"

\* The tool keeps the promise of PackagePromise: whatever fails and whenever
\* it is killed, over several runs, the file holds the parts of this run in
\* their order, each valid from the moment it is there, and success is the
\* whole package.
Promise == INSTANCE PackagePromise WITH
  run <- runs, signed <- inv.sign, parts <- Parts, outcome <- Outcome,
  disturbed <- mishaps # {}

KeepsPackagePromise == Promise!Spec

\* The wait for mksquashfs as a call of ChildPromise, which ChildProcess
\* implements.
Waiting(ignored) == INSTANCE ChildPromise WITH
  fn <- "sfs_mksquashfs",
  step <- CASE pc = "squash" -> "call" [] pc = "wait" -> "wait" [] pc = "embed" -> "on"
            [] OTHER -> "ended",
  program <- CASE squash[runs] = "none" -> "none" [] Alive(runs) -> "alive"
               [] squash[runs] = "exited" -> "good" [] squash[runs] = "failed" -> "bad"
               [] squash[runs] = "signalled" -> "signalled"

WaitStep(ignored) == Waiting(ignored)!Next \/ UNCHANGED Waiting(ignored)!vars

\* From the fork of mksquashfs to the verdict the tool knows no more of it than
\* the calls it makes can tell: it goes on or ends as they would, whether or
\* not SIGCHLD is ignored, unless it is killed.
WaitsAsPromised ==
  [][pc' # "killed" /\ pc \in {"squash", "wait"} =>
       \E ignored \in BOOLEAN : WaitStep(ignored)]_vars

\* What this run has put into a section that is by someone.
Filling(by) == IF by = runs THEN "whole" ELSE IF by = PartOf(runs) THEN "part" ELSE "before"

\* Signing as the two steps of SignPromise, which SignAppImage implements.
Signing == INSTANCE SignPromise WITH
  stage <- CASE pc = "sign" -> "sign" [] pc = "key" -> "key" [] pc = "zsync" -> "signed"
             [] OTHER -> "died",
  signature <- Filling(dest.sig.by),
  key <- Filling(dest.key)

SignStep == Signing!Next \/ UNCHANGED Signing!vars

\* While a run signs, the two sections change as sign_appimage changes them,
\* and in no other way: no other process writes them, and nothing of this run
\* stands in the section of the key before the signature is whole.
SignsAsPromised ==
  [][inv.sign /\ Alone /\ pc \in {"sign", "key"} => SignStep]_vars

\* Every run ends: no failure, signal or orphan leaves the tool waiting.
RunEnds == At("options") ~> pc \in Ended

\* The message at appimagetool.c:1117: a digest that cannot be written makes
\* the tool fail.
DigestWriteChecked == At("success") /\ Alone => dest.md5.by = runs
=============================================================================
