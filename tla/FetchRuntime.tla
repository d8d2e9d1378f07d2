---------------------------- MODULE FetchRuntime ----------------------------
(***************************************************************************)
(* fetch_runtime (src/src/appimagetool_fetch_runtime.cpp): one GET request *)
(* through libcurl, from the set-up of the handle to the copy of the body. *)
(*                                                                         *)
(* The server is free in its answer: redirects, any status, a body with or *)
(* without its length, cut off or not.  A body arrives in pieces.          *)
(***************************************************************************)
EXTENDS Integers, Sequences, FiniteSets

CONSTANTS
  MaxRedirs,    \* CURLOPT_MAXREDIRS (12)
  BodyLengths,  \* the lengths of a body considered
  Errors,       \* the statuses of an answer that is not the file
  Hosts,        \* the certificate stores considered: records of HostType
  NoUrl         \* no request was made

\* A place where certificates may lie; "denied": asking for it is an error.
Place == {"absent", "present", "dangling", "denied"}

\* libcurl's own bundle and directory, whether it can be asked for them (from
\* 7.84.0 on), and the places tried after them.
HostType == [asks : BOOLEAN, default_file : Place, files : Seq(Place),
             default_dir : Place, dirs : Seq(Place)]

ASSUME FetchAssumption ==
  /\ MaxRedirs \in Nat
  /\ BodyLengths \subseteq Nat
  /\ Errors \subseteq Nat \ {200}
  /\ Hosts \subseteq HostType

Unknown == -1    \* the length of a body that was not announced
Default == -2    \* libcurl's own value of an option is kept
Unset == -3      \* the option holds an empty string

VARIABLES
  fetch_pc,     \* the step, or how the call ended
  url,          \* the architecture asked for
  host,         \* the certificate store
  ca_info,      \* CURLOPT_CAINFO: Default, Unset, or an index into host.files
  ca_path,      \* CURLOPT_CAPATH
  redirects,    \* redirects followed
  status,       \* status of the last answer
  body,         \* length of its body
  announced,    \* its Content-Length, or Unknown
  buffer,       \* _buffer: the bytes written to it
  success,      \* what curl_easy_perform returned
  copied        \* what the caller has: a record with size, room and bytes

options == <<host, ca_info, ca_path>>
answer == <<redirects, status, body, announced>>
fetch_vars == <<fetch_pc, url, options, answer, buffer, success, copied>>

NoCopy == [size |-> 0, room |-> 0, bytes |-> <<>>]

FetchInit ==
  /\ fetch_pc = "idle"
  /\ url = NoUrl
  /\ host \in Hosts
  /\ ca_info = Default
  /\ ca_path = Default
  /\ redirects = 0
  /\ status = 0
  /\ body = 0
  /\ announced = Unknown
  /\ buffer = <<>>
  /\ success = FALSE
  /\ copied = NoCopy

-----------------------------------------------------------------------------
FetchAt(step) == fetch_pc = step
FetchGoto(step) == fetch_pc' = step

FetchCall(arch) ==
  /\ FetchAt("idle")
  /\ FetchGoto("setup")
  /\ url' = arch
  /\ UNCHANGED <<options, answer, buffer, success, copied>>

\* curl_easy_init may give nothing: its exception is not one the call catches.
\* A CurlException of an option is.
SetUp ==
  /\ FetchAt("setup")
  /\ fetch_pc' \in {"ca", "false", "terminate"}
  /\ UNCHANGED <<url, options, answer, buffer, success, copied>>

\* Variant: the last place is not tried.
FirstButLast(places, ok) ==
  LET hits == {i \in 1 .. Len(places) - 1 : places[i] \in ok}
  IN IF hits = {} THEN Unset ELSE CHOOSE i \in hits : \A j \in hits : i <= j

\* std::find_if: the first of the places that is one of those wanted.
First(places, ok) ==
  LET hits == {i \in 1 .. Len(places) : places[i] \in ok}
  IN IF hits = {} THEN Unset ELSE CHOOSE i \in hits : \A j \in hits : i <= j

\* The option in the end: libcurl's own if it is seen to be there, or the first
\* place; without one, libcurl's own again if it was not asked for and nulled.
Chosen(asks, default, places, ok) ==
  IF asks /\ default = "present" THEN Default
  ELSE IF First(places, ok) # Unset THEN First(places, ok)
  ELSE IF asks THEN Unset ELSE Default

\* A place is asked for before the search ends, and asking is an error.
Throws(asks, default, places, ok) ==
  \/ asks /\ default = "denied"
  \/ /\ ~(asks /\ default = "present")
     /\ \E i \in 1 .. Len(places) :
          places[i] = "denied" /\ \A j \in 1 .. i - 1 : places[j] \notin ok

\* For a file a symlink is enough, wherever it leads.
FileOk == {"present", "dangling"}
DirOk == {"present"}

ThrowsForHost ==
  \/ Throws(host.asks, host.default_file, host.files, FileOk)
  \/ Throws(host.asks, host.default_dir, host.dirs, DirOk)

\* setUpTlsCaChainCompatibility, and the options after it.
SetUpTls ==
  /\ FetchAt("ca")
  /\ ~ThrowsForHost
  /\ fetch_pc' \in {"request", "false"}
  /\ ca_info' = Chosen(host.asks, host.default_file, host.files, FileOk)
  /\ ca_path' = Chosen(host.asks, host.default_dir, host.dirs, DirOk)
  /\ UNCHANGED <<url, host, answer, buffer, success, copied>>

\* A filesystem_error is not caught either.
SetUpTlsThrows ==
  /\ FetchAt("ca")
  /\ ThrowsForHost
  /\ FetchGoto("terminate")
  /\ UNCHANGED <<url, options, answer, buffer, success, copied>>

-----------------------------------------------------------------------------
(* curl_easy_perform *)

Done(ok) == FetchGoto("check") /\ success' = ok

\* No connection, no verified peer, no answer.
NoAnswer ==
  /\ FetchAt("request")
  /\ Done(FALSE)
  /\ UNCHANGED <<url, options, answer, buffer, copied>>

\* Variant: no limit is set; the count is kept small.
RedirectForEver ==
  /\ FetchAt("request")
  /\ status' = 302
  /\ redirects' = (redirects + 1) % (MaxRedirs + 1)
  /\ UNCHANGED <<fetch_pc, success, url, options, body, announced, buffer, copied>>

\* libcurl follows it, but only so often, and does not hand on its body.
Redirect ==
  /\ FetchAt("request")
  /\ status' = 302
  /\ IF redirects < MaxRedirs
     THEN redirects' = redirects + 1 /\ UNCHANGED <<fetch_pc, success>>
     ELSE Done(FALSE) /\ UNCHANGED redirects
  /\ UNCHANGED <<url, options, body, announced, buffer, copied>>

Answer ==
  /\ FetchAt("request")
  /\ FetchGoto("body")
  /\ status' \in {200} \cup Errors
  /\ body' \in BodyLengths
  /\ announced' \in {body', Unknown}
  /\ UNCHANGED <<url, options, redirects, buffer, success, copied>>

\* Bytes i to j of the body of the answer with this status.
Piece(i, j) == [k \in 1 .. j - i + 1 |-> [status |-> status, at |-> i + k - 1]]

\* writeStuff: a piece is appended.
WriteStuff ==
  /\ FetchAt("body")
  /\ \E j \in Len(buffer) + 1 .. body : buffer' = buffer \o Piece(Len(buffer) + 1, j)
  /\ UNCHANGED <<fetch_pc, url, options, answer, success, copied>>

BodyEnds ==
  /\ FetchAt("body")
  /\ Len(buffer) = body
  /\ Done(TRUE)
  /\ UNCHANGED <<url, options, answer, buffer, copied>>

\* The peer closes the connection.  A body without a length then seems whole.
ConnectionCloses ==
  /\ FetchAt("body")
  /\ Len(buffer) < body
  /\ Done(announced = Unknown)
  /\ UNCHANGED <<url, options, answer, buffer, copied>>

\* The transfer is reset: an error whatever was announced.
ConnectionBreaks ==
  /\ FetchAt("body")
  /\ Done(FALSE)
  /\ UNCHANGED <<url, options, answer, buffer, copied>>

-----------------------------------------------------------------------------
\* Variant: a length is compared only if there is one.
AcceptedIfShort ==
  status = 200 /\ success /\ (announced # Unknown => Len(buffer) = announced)

\* Variant: an error page is taken for the file.
AcceptedAnyStatus == success /\ Len(buffer) = announced

\* The status is 200, the transfer succeeded, and the bytes are as many as
\* were announced; Unknown is no number of bytes.
Accepted == status = 200 /\ success /\ Len(buffer) = announced

\* getOption may throw a CurlException, which makes the call fail too.
Check ==
  /\ FetchAt("check")
  /\ \/ Accepted /\ FetchGoto("copy")
     \/ FetchGoto("false")
  /\ UNCHANGED <<url, options, answer, buffer, success, copied>>

\* The size is stored before the memory is there.
Copy ==
  /\ FetchAt("copy")
  /\ \/ /\ FetchGoto("true")
        /\ copied' = [size |-> announced, room |-> announced + 1, bytes |-> buffer]
     \/ /\ FetchGoto("false")
        /\ copied' = [NoCopy EXCEPT !.size = announced]
  /\ UNCHANGED <<url, options, answer, buffer, success>>

FetchStep ==
  \/ SetUp \/ SetUpTls \/ SetUpTlsThrows
  \/ NoAnswer \/ Redirect \/ Answer
  \/ WriteStuff \/ BodyEnds \/ ConnectionCloses \/ ConnectionBreaks
  \/ Check \/ Copy

FetchEnded == {"true", "false", "terminate"}

-----------------------------------------------------------------------------
CaOption(places) == {Default, Unset} \cup 1 .. Len(places)

FetchTypeOK ==
  /\ fetch_pc \in FetchEnded \cup {"idle", "setup", "ca", "request", "body", "check", "copy"}
  /\ host \in Hosts
  /\ ca_info \in CaOption(host.files)
  /\ ca_path \in CaOption(host.dirs)
  /\ redirects \in 0 .. MaxRedirs
  /\ status \in {0, 200, 302} \cup Errors
  /\ body \in Nat /\ announced \in {Unknown} \cup Nat
  /\ buffer \in Seq([status : Nat, at : Nat])
  /\ success \in BOOLEAN
  /\ copied.size \in Nat /\ copied.room \in Nat

\* When the call returns true, what it hands out is the whole body of an
\* answer with status 200, in order, with room for all of it: no error page,
\* no body that was cut off, lost a piece or came without a length.
WholeBodyOnly ==
  fetch_pc = "true" =>
    /\ status = 200
    /\ copied.size = body
    /\ copied.room > copied.size
    /\ copied.bytes = Piece(1, body)

\* The host has certificates at libcurl's own place or at one of the others.
Somewhere(default, places) ==
  default = "present" \/ \E i \in 1 .. Len(places) : places[i] = "present"

\* What is at the place that the option names.
Named(option, default, places) ==
  CASE option = Default -> default
    [] option = Unset   -> "absent"
    [] OTHER            -> places[option]

\* Where the host has a directory of certificates at any of its places, the
\* request is made with one, and where it has a bundle, with a bundle: libcurl's
\* own is not given up for nothing, whether it can be asked for or not, and the
\* search ends at a place that has some.  The one exception is a dangling link
\* among the bundles (fetch_runtime.cpp:63): it hides those listed after it.
CertificatesFound ==
  FetchAt("request") =>
    /\ Somewhere(host.default_dir, host.dirs) =>
         Named(ca_path, host.default_dir, host.dirs) = "present"
    /\ Somewhere(host.default_file, host.files) =>
         \/ Named(ca_info, host.default_file, host.files) = "present"
         \/ /\ ca_info \in 1 .. Len(host.files)
            /\ host.files[ca_info] = "dangling"
            /\ \A j \in 1 .. ca_info - 1 : host.files[j] # "present"
=============================================================================
