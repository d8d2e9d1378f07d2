# appimagetool in TLA+

appimagetool packages a directory (an AppDir) into one executable file: a
runtime (an ELF program), a squashfs image behind it, and a few ELF sections of
the runtime that are filled in afterwards: update information, an MD5 digest, a
signature, the public key. This directory holds models of the program, the TLC
configurations that check them and proofs for TLAPS. Every definition follows
the code under `src/src/`; `PROJECT.json` maps each one to its lines.

    tlc -workers 2 -config digest_layouts.cfg MCType2Digest
    tlapm Type2DigestProofs.tla

## 1. Inventory

| component | source | state | operations |
|---|---|---|---|
| packaging pipeline | `appimagetool.c` `main` (531-1191) | option variables, `version_env`, `updateinformation`, the runtime in memory; on disk the AppDir, the destination, the zsync file | about twenty steps in a fixed order, most of which may end the program |
| child processes | `appimagetool.c` `sfs_mksquashfs`, `validate_desktop_file`, `run_external` | the child and its status word | fork, exec, wait, judge |
| type 2 digest | `digest.c` | stream position, `bytes_left`, `bytes_skip_following_chunks`, `bytes_left_this_chunk`, the chunk buffer, the MD5 context | the chunk loop |
| ELF section lookup | `elf.c`, `light_elf.h` | none (the file is mapped) | offset and length of a named section |
| signing | `appimagetool_sign.c`, `hexlify.c` | five gpgme objects in static variables | hash, choose a key, sign, embed signature, embed key, release |
| runtime download | `appimagetool_fetch_runtime.cpp` | curl handle, received bytes | find the CA bundle, request, check the answer |
| architecture detection | `appimagetool.c` 287-424 | four flags | from `$ARCH`, from the executables of the AppDir |
| MD5 | `md5.c` | total, 64-byte buffer, four words | initialise, update, finalise |
| scripts | `AppRun.sh`, `ci/`, `CMakeLists.txt` | none | straight-line |

How they interact: `main` calls everything. The only concurrency is between the
tool and the processes it starts; they share the file system, and the
destination passes through `mksquashfs`, `main`, `digest.c`, the signing code
and `zsyncmake` by name, closed and opened again each time. Nothing is locked
and nothing is written to a temporary name, so a failed run leaves what it had
written, and the next run starts from there.

What is hard, and the properties that make each part correct:

* **Digest.** Relative reads and seeks that must add up to one chunk per turn,
  for any place and length of three sections, into a buffer that nothing clears. Correct if the
  buffer is not overrun, the stream delivers each byte once and in order, the three sections are
  left out and everything else enters at its own place. Then embedding the digest, the
  signature and the key does not change the digest.
* **Children.** A child may be stopped, continued, or ended by a signal at any
  moment; exec may fail, and then a second copy of the tool runs on. Correct
  if only one tool packages, if it goes on only when its child is gone, if a
  success is a success, and if no call waits for ever.
* **Pipeline.** Order (digest before signature before zsync file), unchecked
  writes, reruns over old files, a killed tool whose mksquashfs lives on.
  Correct if success means a complete package of this run.
* **Lookup.** A missing section is a success with offset 0; each caller must look.
* **Signing.** The signature goes in before the key; an error between them leaves
  a signed file without a key. Release of the gpgme objects on all paths. Errors of a read that
  are not seen as such.
* **Download.** Status, transfer result and length must all be right before the
  data are used; there is no timeout.
* **Architecture.** `$ARCH` and files add flags to the same set; exactly one
  must be left.
* **MD5.** The result must not depend on how the input is cut into updates.

`PROJECT.json` lists the hazards with their lines.

## 2. Modules

| module | what it is |
|---|---|
| `DigestLayout` | files as the digest sees them, and the layouts it is made for (`Isolated`) |
| `DigestPromise` | abstract specification of the digest: one chunk after the other enters the hash as the image of its place |
| `Type2Digest` | the chunk loop; refines `DigestPromise` |
| `MCType2Digest` | all layouts of small files |
| `Type2DigestProofs`, `DigestPromiseProofs` | its theorems |
| `Remainders` | lemmas about `%` and `\div` |
| `WaitStatus` | the status word of waitpid and its macros |
| `ChildProcess` | fork, exec and wait in the three functions that do it; refines `ChildPromise` |
| `ChildPromise` | abstract specification of such a call: one verdict, taken once, on what became of the program |
| `ChildProcessProofs` | its theorems |
| `AppImageTool` | `main`, `mksquashfs` beside it, the files on disk, several runs; refines `PackagePromise`, and waits and signs as `ChildPromise` and `SignPromise` say |
| `PackagePromise` | abstract specification of the destination: its parts come in one order, each valid from then on |
| `MCAppImageTool` | five invocations, three runtimes and a file that is none |
| `AppImageToolProofs` | its theorems |
| `SignAppImage` | one call of `sign_appimage`: gpgme's objects, every failing call, the two sections; refines `SignPromise` |
| `SignPromise` | abstract specification of such a call: the signature is embedded, then the key, and either may stop half-way |
| `MCSignAppImage` | seven section tables |
| `SignAppImageProofs` | its theorems |
| `ArchDetect` | `$ARCH`, `find_arch` and the four flags |
| `FetchRuntime` | `fetch_runtime`: certificates, the transfer, the checks |
| `ObtainRuntime` | composes the two, and `readFile`, as `main` does |
| `MCObtainRuntime` | an AppDir with a link out of it, hosts with and without certificates |
| `ObtainRuntimeProofs` | its theorems |
| `Md5Message` | messages, blocks and padding |
| `Md5Promise` | abstract specification of the MD5 functions: the padded message since the last `Md5Initialise` |
| `Md5Stream` | the count, the block buffer and the padding of `md5.c`; refines `Md5Promise` |
| `Md5StreamProofs` | its theorems |

### The digest

A byte is modelled by where it came from: a file offset, or `Stale` for a
buffer byte nothing wrote. `buffer` is such a map for the chunk buffer, `hashed`
the sequence of buffers given to `Md5Update`, so the order and the place of
every byte in the hash are kept and only the arithmetic of MD5 is left out. The buffer is an
array of the loop's body without an initializer (line 41): its value is indeterminate at the
head of each turn, and in practice it keeps the bytes of the chunk before. `BeginChunk` has both
outcomes, the bytes kept and bytes nobody wrote. So in the place of a section, and behind the
end of the file in a short last chunk, bytes of the chunk before enter the hash a second time;
`DeliveredInOrder` says that this is the only way in which a byte does. `DigestPromise` knows the
image of a chunk over what the buffer still held (`Left`), and what it still held is then no
byte of the three sections either. Each turn of
the loop is `BeginChunk` (lines 40-57), then for each section `NoSection` or
`PassSection` (60-117), then `HashChunk` (119-128). Counters have the sign they
have in the code; `Ahead(s) > 0` stands for an unsigned difference that does not
wrap. The three ssize_t and long counters cannot overflow for files below 2^63
bytes and are unbounded. The file does not change during the loop, its sections lie
within it (`FilesAssumption`), and `fopen` and `mmap` succeed: the code looks at
neither, and `main` has opened the same file a moment before. That the digest in the file
"matches" means in the other models that it is over what the file holds; two builds of the loop
whose buffers start or keep other bytes may disagree on one file.

`Isolated` is the layout the loop is made for: no section begins on a chunk
boundary, a section longer than the chunk after its first ends on a boundary,
and a section begins in a chunk no other section reaches. A section of exactly two
chunks that begins off a boundary is not isolated: of the chunk and the remainder it
has left after its first chunk, the loop takes the remainder first (line 49), so
that bytes of the section are hashed in the second chunk and bytes behind it are
left out in the third. Nor are sections that lie side by side in one chunk: the read up to the
second (line 83) counts from the begin of the chunk, where the stream no longer is. On such a layout
the loop may hash protected bytes or leave out others; `DigestPromise` then
promises only one chunk of file bytes for every chunk of the file.

### Child processes

One call of one of the three functions (`fn`) and main's test of what it
returns. A child may be stopped at any moment, before exec and after a failed one as well; `held`
is what it is continued to. `child` follows the process that fork makes: it becomes the program,
or returns to main as a copy of the tool; the kernel's side is the status
`report` that waitpid has not delivered yet. `ignored` is a SIGCHLD that the tool
inherited as ignored: then waitpid has nothing to report and fails, and
`validate_desktop_file` reads a status word nobody set (any word is possible).

`ChildPromise` is what main can know of such a call: a program begins or does not, it ends well,
badly or by a signal, and main takes one verdict (`GoodEnough`, `Refused`). `ChildProcess`
implements it: exec failures, stops, continuations and repeated waits are stutters, and the
verdict is on the end that the program really had. Its three oddities are stated there: a
mksquashfs ended by a signal is good enough, the validator passes on any word when nothing can
be waited for, and it is given up when it only stops.

### The pipeline

`pc` is the step `main` is at; each step is an action named for it, in the order of the code, and
`Die` with `MayFail` is every early exit that leaves the files alone. `squash[r]` is the
mksquashfs of run r, a process with its own actions: it opens (and truncates) the destination at
some moment, ends at another, and may fail or be killed before, between, and after the tool is
killed. `dest` has the parts the steps write: payload, runtime, `.upd_info`, digest, signature,
key, the executable bit. A digest or signature is a record of what it was computed over, so
"verifies" is an equation between two records. The three writes whose result is not looked at
(runtime, update information, digest) take effect wholly, in part, or not at all; the last two
outcomes are put in `mishaps`, a history variable the actions never read. A runtime cut off by a
failed write is one in which no section is found, since its section table is at its end. `Garbled`
is what the dead buffer behind `updateinformation` may hold after a guess. It is read twice:
`GuessUpdateInformation` gives what its check sees, `ReadAgain` what is embedded after the lookup
of the section has used the stack. What is checked need then not be what is embedded, and nothing
is claimed that would say so. The unlink of a dangling `.DirIcon` and the symlink in its place are
two steps, with room for a kill between them. zsyncmake is at work between `ZsyncmakeWrites` and
its end (`MakeZsync`, `ZsyncmakeFails`), and that of a killed tool goes on (`ZsyncmakeOutlives`).
Three simplifications are made here: its file exists from its start; what it read of the
destination is the file at that time; and of an earlier run's zsync file a later run knows only
whether a zsyncmake is still writing it, whose file the later run's replaces.

`WriteSignature` and `WriteKey` leave a part of the data in the section, by `PartOf(run)`; the whole
(`EmbedSignature`, `EmbedKey`), a failure (`Die`) or a kill may come after them. What is signed is
the file as it was before the first byte of the signature came (`Signed`).

`PackagePromise` is the destination as a user sees it: which `Parts` of this run's package it
holds (image, runtime, digest, signature, key). They come in this order, each is valid from the
moment it is there and stays so through all later steps, failures and the kill of the tool, and
success is the whole package. Nothing is promised of a run that is `disturbed`: one with
`mishaps`. A run is disturbed from its begin by the mksquashfs of an earlier one that still
runs.

The pipeline has calls in one step that other modules have in detail. It is composed with them
through what they promise. `Waiting` instantiates `ChildPromise` from the fork of mksquashfs to
main's verdict, and `WaitsAsPromised` says that every step of the pipeline there is one of it
(or a stutter), under a SIGCHLD that is ignored or one that is not; only the kill of the tool is
outside, since a call that never returns promises nothing. `Signing` instantiates `SignPromise`,
and `SignsAsPromised` says the same of the steps `sign` and `key` for a run that is `Alone`. So
`ChildProcess` and `SignAppImage` implement what the pipeline takes them for.

### Signing

Each call of gpgme, gcrypt or stdio is an action named for it, with what follows from its
success and from its failure. `pointers` are the static pointers that are not NULL, `live` the
objects gpgme has: `gpg_release_resources` acts on the former, and `PointersHoldObjects` says
that this is enough. A helper that has failed and released goes to `failed`, where its caller
releases once more. `Find` is the walk over the section headers: the last header of a name wins.
A byte of the file is modelled by what put it there, so that `Written` can show a write that was
cut off. `total` and `cursor` differ by the errors of `gpgme_data_read`: these are added to the
total as -1, for the test for them can never be true (line 245). They may come as often as they
like; the total wraps at `SizeMod`. If they never cease, the loop of line 236 never ends
(`sign_read_error`); if they cease, the comparison after the loop decides (`SuccessComplete`). The
loop would also be left with the right sum if the errors wrapped it; `SuccessComplete` shows that
the data are whole even then. Data objects are gpgme's memory
objects, which deliver all they have in one read; the file is not changed by others during the
call. `SignAppImage` has in detail what `AppImageTool` does in the steps `sign` and `key`;
`SignPromise` is between the two. It abstracts each section to what it holds of its data:
nothing (`"before"`), a `"part"`, or the `"whole"`. Signatures have at least one byte
(`SizesAssumption`): the armored form that the code asks for (`appimagetool_sign.c:382`) has a
header; a key may be empty. Three ends without a return are kept apart: `exit` (lines 342, 366 and
415, the first two of which leave the objects to the end of the process), `crash` (the null
pointer of line 340, a key without a user id, a result without signatures), and `abort`, the
assertion of line 419.

### Obtaining the runtime

`ArchDetect` walks through the tree with a stack of directories (`dirs`), each of which may list
its entries in any order; `FoundBelow` says in one expression what such a walk should find.
`FetchRuntime` has the search for certificates over hosts (`HostType`), in which a place may be
absent, present, a link to nothing, or not to be asked for (then std::filesystem throws what the
caller does not catch: `terminate`). `asks` is a libcurl that can be asked for its defaults (7.84
or later); with an older one the other branch of lines 149-204 is taken. A link to nothing is
taken for a bundle (line 63) and hides those listed after it: the request then goes out with a
bundle that does not exist. `CertificatesFound` names that as its one exception. The answer of the
server is free: redirects, a status, a length announced or not, pieces of any size, and an end
that is the body's, the peer's or an error. What libcurl makes of it is modelled as far as the
code depends on it. `ObtainRuntime` puts both in the order of `main` and adds `readFile`, with its
cast to int and its unchecked read. `AppImageTool` has all of it as the steps `ReadAppDir` and
`LoadRuntime`.

### MD5

A block is a map from its places to where their bytes come from: the message, the end mark,
zeros, the length, or nothing (`Stale`). The hash of a message is the sequence of its
blocks, since `TransformFunction` depends on the four words and the block alone. The words
of the count are `lo` (29 bits, `LoMod`) and `hi` (32 bits, `HiMod`), and they wrap. `Md5Promise`
knows a message by its number of bytes only and hashes it padded; `Md5Stream`
implements it.

## 3. Runs

| run | instance | shows |
|---|---|---|
| `digest_layouts` | chunks of 3 bytes, all files of 8 and 9, isolated ones of 10, the buffer kept or not at each turn | `RoomWithinBuffer`, `DeliveredInOrder` for every placement of disjoint sections, `ProtectedNeverHashed` for the isolated ones; the loop implements `DigestPromise` |
| `digest_sections_skipped` | files of 6 | the comment at `digest.c:9` is not true of every file |
| `digest_null_bytes` | files of 6 | the comment at `digest.c:37` is not true |
| `child_process` | exit codes 0, 1, 255, two stops | only one tool goes on, only when its child is gone, and a success is an exit with 0; the calls implement `ChildPromise`, and they return |
| `child_signalled` | exit codes 0, 1 | the comment at `appimagetool.c:105` is not true of a signalled mksquashfs |
| `appimagetool` | two runs, five invocations, three runtimes and a file that is none | what success means, what holds of digest, signature and zsync file at all times, also when a run fails or is killed; the tool implements `PackagePromise` over both runs, waits as `ChildPromise` and signs as `SignPromise` says; every run ends |
| `appimagetool_digest_write` | one run | a digest that was not written goes unnoticed (`appimagetool.c:1117`) |
| `sign_appimage` | seven section tables, data of 0 to 3 bytes for sections of 2, a size_t of 5 values | nothing is released twice or lost, true means both sections are whole, a signature stays valid when the key fails, each write stays in its section; the call implements `SignPromise`, and ends if reads do not fail for ever |
| `sign_read_error` | the same | the message at `appimagetool_sign.c:246` is never printed: a read that keeps failing keeps the loop turning |
| `sign_engine` | the same | the message at `appimagetool_sign.c:339` is never printed: its argument is a null pointer |
| `obtain_runtime` | nine nodes, three e_machine values, six hosts, two redirects, bodies of 0 and 2 bytes | the architecture does not depend on the order of directories, a download is a whole body of a good answer for that architecture, certificates are found where there are any, but for those that a dangling link hides, it all ends |
| `md5_stream` | blocks of 5 bytes, words of 10 and 3, messages up to 45 bytes | between updates the count and the buffer are those of the message; the functions implement `Md5Promise` |

Bounds. A chunk of 3 bytes has a first, a middle and a last byte, and a file of 8, 9 or 10 has
three or four chunks with a last one that is partial, full, or a single byte: a section can begin
at each place of a chunk, end in the same chunk, in the next or the one after, before, on or
behind a boundary, and two or three can share a chunk. Isolated sections need more space than
that, hence the longer file. Two stops of a child are enough for a stop, a continuation and a
second stop before the wait. Two runs of the tool are enough for a rerun over every state a run
may leave, and for an orphan of the first beside the second. Exit codes are one success, one
failure and the largest. The lengths of update information are below, at and above the length of
the section, and a garbled one may be known or not. Sections of two bytes take data that are
shorter, exact and one byte too long, and lie side by side in both orders, so that a byte too many
would hit the neighbour or the file; with five values of a size_t a few errors of a read wrap the
total back to the right one, for each length of the data. The AppDir has a file in the root and
one two directories down, and a link to a directory whose library says something else; three
e_machine values are none, one and another architecture. A limit of two redirects has a first, a
last and one too many, and a body of two bytes can be cut off at the begin, in the middle and not
at all. A block of 5 bytes with a length of 2 has every case of the padding (the length fits with
room, fits exactly, does not fit with the mark as last byte or before it); updates of up to 21
bytes wrap the low word twice and 45 bytes wrap the high word. `IntMax`, `LoMod` and `HiMod` keep
the ratio of the widths that matter: a runtime file longer than an int, a low word that is a
multiple of the block.

Deadlock is not checked: a computed digest, a finished call and the last run are
states in which the system stops.

Fairness. `Type2Digest` and `Md5Stream`: none, only safety is claimed. `SignAppImage`: gpg and its
agent answer. That `gpgme_data_read` does not fail for ever is no part of the specification:
`CallEnds` says it in its premise, and `sign_read_error` shows what happens without it.
`ObtainRuntime`: a peer sends on or goes away, for the transfer has no timeout. `ChildProcess`:
the scheduler runs tool and child, the program that was executed ends, and a stopped child is
continued by whoever stopped it (`sfs_mksquashfs` and `run_external` wait without a timeout, so
without that they would wait for ever). `AppImageTool`: the tool is scheduled, the programs and
servers it waits for answer, and mksquashfs ends; the code has no timeout of its own. Weak
fairness is enough everywhere: an action stays enabled until it or another of its own process is
taken.

What the properties say of success leaves out two things on purpose, and each is
what the code does: `mishaps` that no check sees (a signalled mksquashfs, the
unchecked writes), and an `orphan`, a mksquashfs of an earlier, killed run that is
still writing the same destination. The runs that end in a violation show the
first; the second has no line in the repository it would contradict. Three more cases are in the
models and left out of properties by name, since no line of the repository says what should
happen: a runtime that was signed before (`sealed`; its new signature does not verify), one that
brings update information of its own (`prefilled`; the rest of a longer string stays), and a host
that makes the search for certificates throw (`terminate`, which `ObtainEnds` takes for an end).

With -g the CI variables replace the update information given with -u, although the comment at
`appimagetool.c:949` speaks of a user who has not provided any. `GuessUpdateInformation` has it
so, and `UpdateInformationExact` is about runs without -g.

## 4. Proofs

All theorems hold for every value of the constants, from the named assumptions of the modules:
`ChunkAssumption`, `FilesAssumption` and `StaleAssumption` (digest), `ExitCodesAssumption` and
`MaxStopsAssumption` (children), `NamesAssumption`, `InvocationsAssumption`,
`RuntimesAssumption`, `InfosAssumption` and `MaxRunsAssumption` (pipeline), `SizesAssumption`,
`KeysAssumption` and `TablesAssumption` (signing), `BlockAssumption`, `WordAssumption` and
`BoundAssumption` (MD5), `TreeAssumption`, `FetchAssumption` and `ObtainAssumption` (the way to
a runtime). They give types and ranges; four say more: signatures are not empty
(`SizesAssumption`), sections lie within the file (`FilesAssumption`, and apart from each other
in `TablesAssumption`), and a runtime file that is no ELF file has no sections
(`RuntimesAssumption`).

`Type2DigestProofs`: `TypeCorrect`, `ReadsStayInBuffer`, `BytesInOrder`. The stream delivers no
byte twice because it never goes back, which is not inductive alone: `Inv` adds that every byte
in `hashed` and every byte in the buffer lies behind `fp`, that each byte of the buffer is there
once and either left from the last chunk at its place or behind all that was hashed
(`BufferInOrder`), and that the counters are in range. A read brings bytes from `fp` on
(`ReadIsFresh`), so what it leaves of the buffer keeps that, and so does a buffer that is kept or
lost at the head of a turn.

`ChildProcessProofs`: `TypeCorrect`, `OnlyOneTool`, `NoChildBesideMain`, `SuccessIsChecked`. The
invariant relates the tool's `pc` and `ret` with the child: while the tool waits the child
exists, a report of its end is its `fate`, and a return value of 0 comes from an `Exited(0)`,
except for the cases the property leaves out. `CallKeepsPromise` is the implementation of
`ChildPromise`: `EndVerdict` computes what each function makes of the word of a child that has
ended, for every word there is, and `EndedProgram` that the report main has is that of its
program's end, so that the verdict of the step is the promised one. All other steps are a begin,
an end, or a stutter.

`DigestPromiseProofs`: `SectionsLeftOut` (`ProtectedNeverHashed`) and `DigestKeepsPromise`
(`Type2Digest` implements `DigestPromise`). `PromiseInv` says where the stream stands. Between two
chunks (`BetweenChunks`) it is at `Place`, and `skip` is exactly what the one section that reaches
beyond `Place` still has. Within a chunk (`WithinChunk`) it is `room` bytes before the chunk's
end; the sections met so far (`Met`) end there or reach on by `skip`; once room has been used no
further section begins in the chunk; and the buffer is the image of its place, up to the stream,
over what it held before, which is the last chunk hashed or nothing (`Left`). The second part
needs isolation: a second section in the chunk would be read from a place that is not the chunk's
begin. A step of `HashChunk` is a `Feed` of the abstract specification (`BufferIsImage`), every
other one a stutter. All of it rests on small facts about `%` (`PlaceInChunk`, `ChunksApart`,
`NextChunk`, and those of `Remainders`). On layouts that are not isolated the same theorem says
that a chunk of file bytes enters the hash for each chunk of the file.

`AppImageToolProofs`: all safety properties of the pipeline and its action property, over any
number of runs. `Inv` says for each step what is of this run. `Processes`: from the wait on the
tool's own mksquashfs is gone, and a run that is `Alone` has no earlier one beside it, so that
after the wait nobody but the tool writes. `Stamps`: what this run has not made yet does not bear
its number, whatever an earlier one left; a digest of this run can then only be the one it
embedded after its last write to what the digest covers. `Covered` has the three validity
properties, that a zsync file being written is of the file as it is (`ZsyncBegun`), and that the
sections of signature and key are as the runtime brought them until the run signs, without which
the hash would be over an old signature. `Image`, `Head` and `Sections` follow the payload, the
runtime, and the filled sections to the end, where they add up to `PackageComplete`. That a bad
runtime is caught (`RuntimeIsUsable`) rests on `digest_md5 >= 16` from the digest step on.
`DeliveredStays` is `Processes` at success: who writes then is a mksquashfs of an earlier run.
`Stamps` knows a section with a part of this run's data, too, and `Covered` says (`Started`) that
what was signed is then still the file with blank sections.

`ToolKeepsPromise` (`AppImageTool` implements `PackagePromise`) rests on the same `Inv` and its
part `Begun`: between the start of a run and its squashfs image nothing of this run stands in
the file, and after a kill only the image may still come. `PartsSoFar` says for each step of
`main` which parts are there, `NoPartYet` which are not, so that a step is exactly the promised
`Make`; `SameParts` says that steps which leave the file and what it is measured against alone
keep them. The first mishap gives up all parts (`DisturbStep`), and beside a mksquashfs of an
earlier run there are none from the begin (`EachPart`).

`WaitIsTheCall` and `SigningIsTheCall` prove `WaitsAsPromised` and `SignsAsPromised`. In the
first, the verdict of `WaitMksquashfs` on the three ends of mksquashfs is compared with the
promised one (`WaitReturns`), and no other process moves this run's mksquashfs
(`MksquashfsEnds`). In the second, `Stamps` gives that the key is untouched while the signature
is written and the signature whole while the key is, and `Alone` with `Processes` that nobody
else writes. With `CallKeepsPromise` and `SignKeepsPromise` these close the composition: the
step that `main` takes and the call that it stands for implement the same abstract
specification.

`SignAppImageProofs`: `ObjectsHeld`, `ReturnsReleased`, `TrueIsComplete`, `SignatureVerifiesOn`,
`WritesStayInSection`. `Inv` says for the call made next what those before have left: the
pointers are the live objects and a helper that failed has released (`Objects`), the signer is
of the keyring and the one asked for (`Choice`), only bytes of the two sections differ from the
file that was hashed (`Content`), and the buffer holds the data, which fit, while it is written
(`Filling`). That a signature in its section is still whole after the key is written needs that
the sections do not overlap, which `TablesAssumption` gives for the tables considered.
`SignKeepsPromise` (`SignAppImage` implements `SignPromise`) needs one part more, `Order`: until
the write begins the section of the signature is `Untouched`, that of the key is until the
signature is whole, and the signature is whole from then on. The abstract content of a section
is a function of its bytes; one write takes it from `"before"` to `"part"` or `"whole"`
(`WriteAddsMore`), the close of the file to the next stage, and every call of gpgme keeps it
(`StateKept`).

`Md5StreamProofs`: `StaysInStep` and `StreamKeepsPromise` (`Md5Stream` implements `Md5Promise`).
`InStep` is nearly inductive: the count in its two words is the number of bytes modulo their
size (the carry of `Md5Update`), the buffer is the unfinished block, and the blocks hashed are
the whole ones. `Inv` adds that after `Md5Finalise` the hash is the padded message. An update
splits at the end of the block in the buffer and at the last whole block of its input
(`BlocksJoin`), the padding at the place where the length still fits.

`ObtainRuntimeProofs`: all safety properties of `ObtainRuntime`, for any file tree, host and
server. `OrderDoesNotMatter` needs what the search has still to do, which it does not record:
`Ahead` says that a candidate not yet looked into lies in every set of entries that holds the
entries left and is closed under entering directories. Entering one keeps that, because the set
with the directory added is closed, too; when nothing is left the empty set is such a set. The
other half, that nothing outside is counted, is that the entries left are entries of directories
below the AppDir. `CertificatesAreFound` rests on the search itself (`FirstFound`: it stops at the
first place that passes its test, and only a dangling bundle passes without being there) and on
what libcurl's default was before it (`ChosenFound`). `FetchInv` follows the body: what has
arrived is its begin, and `Accepted` then makes it the whole. `MainInv` ties the name asked for to
the flag found.

Only model-checked are the liveness properties (`CallReturns`, `RunEnds`, `CallEnds`,
`ObtainEnds`): they need the fairness of the specifications, and what is enabled is out of the
prover's reach. Every safety property of a passing run, refinements included, is proved.

## 5. Plan

Done are the digest, the children, the pipeline, signing, the way to a runtime, and MD5, the
abstract specifications of five of them, the composition of the pipeline with the calls it
makes, and the proofs of all safety properties. What is left, in this order:

1. An abstract specification of the way to a runtime (a usable runtime for the one architecture,
or none) that `ObtainRuntime` implements, and `LoadRuntime` of the pipeline as its one step. 2.
The safety half of the liveness properties: for each call a measure that no step increases. 3. The
choice of the desktop file and of the destination's name in `main`.

## 6. Not modelled

The unpacking mode ("To be implemented" in the code), option parsing, logging, the text
of update information and file names, the arithmetic of MD5 and SHA256, the
contents of a squashfs image, and the scripts: they keep no state or are
outside of this repository. The exec bit that an old destination keeps while
it is rewritten is in the model; no property speaks of it.

`read_elf32`, `read_elf64`, `read_file_offset_length`, `appimage_print_hex`,
`appimage_print_binary` and `Md5Calculate` are called by nothing in the tool. The lookup of a
section does not look at the results of `open` and `mmap`; all callers have opened the same file
a moment before, and the models take the mapping as given. What a certificate bundle does to a
TLS connection is libcurl's; a failed verification is one of the cases of `NoAnswer`. A
`bad_alloc` while a piece is appended, an AppDir that changes while it is walked through, and a
directory that cannot be opened (it counts as empty, with a warning) are left out; so are the
streams that stay open when a helper of the signing code fails, which are in the model (`open`)
without a property.
