---------------------------- MODULE ChildProcess ----------------------------
(***************************************************************************)
(* How appimagetool.c runs a program and waits for it: sfs_mksquashfs,     *)
(* validate_desktop_file and run_external, each with the test main makes   *)
(* of the result.                                                          *)
(*                                                                         *)
(* fork leaves two processes in the same code.  The parent waits; the      *)
(* child becomes the program or, when exec fails, is still a copy of the   *)
(* tool.  The child may exit, be ended by a signal, be stopped and be      *)
(* continued, at any time.                                                 *)
(***************************************************************************)
EXTENDS WaitStatus

CONSTANTS
  ExitCodes,   \* the exit codes a program may end with
  MaxStops     \* bound: how often the child is stopped

ASSUME ExitCodesAssumption == ExitCodes \subseteq 0 .. 255

ASSUME MaxStopsAssumption == MaxStops \in Nat

Function == {"sfs_mksquashfs", "validate_desktop_file", "run_external"}

\* No status word: nothing to report, or waitpid failed.
NoStatus == -1

StatusWord == {Exited(c) : c \in ExitCodes \cup {1}} \cup {Signalled, Stopped, Continued}

VARIABLES
  fn,        \* the function main has called
  ignored,   \* SIGCHLD is ignored: inherited by the tool, it reaps children
  pc,        \* the tool: "call", "waiting", "returned", "proceeds", "exited"
  ret,       \* what fn returned to main
  child,     \* the child: "none", "forked", "running", "stopped", "returned"
             \* (a copy of the tool, back in main), "proceeds", "ended"
  held,      \* what a stopped child was when it was stopped
  fate,      \* the status word the child ended with
  report,    \* a change of the child that waitpid has not reported yet
  stops

vars == <<fn, ignored, pc, ret, child, held, fate, report, stops>>

Init ==
  /\ fn \in Function
  /\ ignored \in BOOLEAN
  /\ pc = "call"
  /\ ret = 0
  /\ child = "none"
  /\ held = "none"
  /\ fate = NoStatus
  /\ report = NoStatus
  /\ stops = 0

-----------------------------------------------------------------------------
(* The child. *)

ChildEnds(status) ==
  /\ child' = "ended"
  /\ held' = "none"
  /\ fate' = status
  /\ report' = status
  /\ UNCHANGED <<fn, ignored, pc, ret, stops>>

ChildBecomes(state) ==
  /\ child' = state
  /\ UNCHANGED <<fn, ignored, pc, ret, fate>>

Exec ==
  /\ child = "forked"
  /\ ChildBecomes("running")
  /\ UNCHANGED <<held, report, stops>>

\* exec fails, or the exclude file is missing: run_external ends the child,
\* the other two return -1 to the child's copy of main.
ExecFails ==
  /\ child = "forked"
  /\ \/ fn = "run_external" /\ ChildEnds(Exited(1))
     \/ /\ fn # "run_external"
        /\ ChildBecomes("returned")
        /\ UNCHANGED <<held, report, stops>>

\* Variant: the child's copy returns as if the program had run.
ReturnsZero == 0

\* What the child's copy of main gets from the call.
ChildReturns == -1

\* Main's test of the result: anything but 0 makes it die.
Accepts(result) == result = 0

ChildInMain ==
  /\ child = "returned"
  /\ \/ ~Accepts(ChildReturns) /\ ChildEnds(Exited(1))
     \/ /\ Accepts(ChildReturns)
        /\ ChildBecomes("proceeds")
        /\ UNCHANGED <<held, report, stops>>

ProgramExits ==
  /\ child = "running"
  /\ \E c \in ExitCodes : ChildEnds(Exited(c))

ChildKilled ==
  /\ child \in {"forked", "running", "stopped", "returned"}
  /\ ChildEnds(Signalled)

ChildStopped ==
  /\ child \in {"forked", "running", "returned"}
  /\ stops < MaxStops
  /\ ChildBecomes("stopped")
  /\ held' = child
  /\ report' = Stopped
  /\ stops' = stops + 1

ChildContinued ==
  /\ child = "stopped"
  /\ ChildBecomes(held)
  /\ held' = "none"
  /\ report' = Continued
  /\ UNCHANGED stops

-----------------------------------------------------------------------------
(* The tool. *)

Returns(value) == pc' = "returned" /\ ret' = value

Fork ==
  /\ pc = "call"
  /\ pc' = "waiting"
  /\ child' = "forked"
  /\ UNCHANGED <<fn, ignored, ret, held, fate, report, stops>>

ForkFails ==
  /\ pc = "call"
  /\ \/ fn = "sfs_mksquashfs" /\ Returns(-1)
     \/ fn = "validate_desktop_file" /\ Returns(1)
     \/ fn = "run_external" /\ pc' = "exited" /\ UNCHANGED ret
  /\ UNCHANGED <<fn, ignored, child, held, fate, report, stops>>

\* Variant: whatever is not an exit is taken for success.
ValueUnlessExited(status) ==
  IF WIFEXITED(status) THEN WEXITSTATUS(status) ELSE 0

\* Variant: only the exit code counts, as in sfs_mksquashfs.
ValueOfCode(status) == WEXITSTATUS(status)

\* What fn makes of the status word.
Value(status) ==
  CASE fn = "sfs_mksquashfs" -> IF WEXITSTATUS(status) # 0 THEN -1 ELSE 0
    [] fn = "validate_desktop_file" ->
         IF WIFEXITED(status) THEN WEXITSTATUS(status) ELSE -1
    [] fn = "run_external" ->
         IF WIFEXITED(status) /\ WEXITSTATUS(status) = 0 THEN 0 ELSE 1

\* Variant: the call waits again until the child has exited by itself.
WaitForExit ==
  /\ pc = "waiting"
  /\ child = "ended"
  /\ WIFEXITED(fate)
  /\ ~ignored
  /\ Returns(Value(fate))
  /\ report' = NoStatus
  /\ UNCHANGED <<fn, ignored, child, held, fate, stops>>

\* waitpid returns when the child has ended; for validate_desktop_file, which
\* passes WUNTRACED and WCONTINUED, also when it was stopped or continued.
Wait ==
  /\ pc = "waiting"
  /\ report # NoStatus
  /\ fn = "validate_desktop_file" \/ child = "ended"
  /\ child = "ended" => ~ignored
  /\ Returns(Value(report))
  /\ report' = NoStatus
  /\ UNCHANGED <<fn, ignored, child, held, fate, stops>>

\* Variant: a waitpid that fails leaves a status word of 0, and is not noticed.
WaitFailsUnseen ==
  /\ pc = "waiting"
  /\ child = "ended"
  /\ ignored
  /\ Returns(Value(0))
  /\ UNCHANGED <<fn, ignored, child, held, fate, report, stops>>

\* With SIGCHLD ignored there is no status to collect: waitpid blocks until
\* the child has ended and fails.  validate_desktop_file does not look at
\* that and reads the status word it never set.
WaitFails ==
  /\ pc = "waiting"
  /\ child = "ended"
  /\ ignored
  /\ \/ fn # "validate_desktop_file" /\ Returns(-1)
     \/ /\ fn = "validate_desktop_file"
        /\ \E garbage \in StatusWord : Returns(Value(garbage))
  /\ UNCHANGED <<fn, ignored, child, held, fate, report, stops>>

Main ==
  /\ pc = "returned"
  /\ pc' = IF Accepts(ret) THEN "proceeds" ELSE "exited"
  /\ UNCHANGED <<fn, ignored, ret, child, held, fate, report, stops>>

Child == Exec \/ ExecFails \/ ChildInMain \/ ProgramExits
           \/ ChildKilled \/ ChildStopped \/ ChildContinued

Tool == Fork \/ ForkFails \/ Wait \/ WaitFails \/ Main

Next == Child \/ Tool

(***************************************************************************)
(* The scheduler runs the tool and the child, a program ends, and whoever  *)
(* stops a child continues it.                                             *)
(***************************************************************************)
Fairness ==
  /\ WF_vars(Tool)
  /\ WF_vars(Exec \/ ExecFails)
  /\ WF_vars(ChildInMain)
  /\ WF_vars(ProgramExits)
  /\ WF_vars(ChildContinued)

Spec == Init /\ [][Next]_vars /\ Fairness

-----------------------------------------------------------------------------
TypeOK ==
  /\ fn \in Function
  /\ ignored \in BOOLEAN
  /\ pc \in {"call", "waiting", "returned", "proceeds", "exited"}
  /\ ret \in -1 .. 255
  /\ child \in {"none", "forked", "running", "stopped", "returned", "proceeds", "ended"}
  /\ held \in {"none", "forked", "running", "returned"}
  /\ child = "stopped" <=> held # "none"
  /\ fate \in StatusWord \cup {NoStatus}
  /\ report \in StatusWord \cup {NoStatus}
  /\ stops \in 0 .. MaxStops

\* fork and a failed exec never leave two tools packaging the same AppDir:
\* the child's copy of main ends before it gets past the call.
OneTool == child # "proceeds"

\* The tool never goes on beside its child: when main proceeds, the child has
\* ended, however often it was stopped or continued before.
ChildGone == pc = "proceeds" => child = "ended"

\* A checked verdict: run_external reports success, and validate_desktop_file
\* when it could wait at all, only for a child that exited with code 0.
SuccessIsExitZero ==
  /\ pc = "proceeds"
  /\ \/ fn = "run_external"
     \/ fn = "validate_desktop_file" /\ ~ignored
  => fate = Exited(0)

\* The step of main, once it has the verdict, and what became of the program.
Step ==
  CASE pc = "call" -> "call"
    [] pc = "waiting" -> "wait"
    [] pc = "proceeds" \/ (pc = "returned" /\ Accepts(ret)) -> "on"
    [] pc = "exited" \/ (pc = "returned" /\ ~Accepts(ret)) -> "ended"

Program ==
  CASE child = "none" -> "none"
    [] child \notin {"none", "ended"} -> "alive"
    [] child = "ended" ->
         IF fate = Exited(0) THEN "good" ELSE IF fate = Signalled THEN "signalled" ELSE "bad"

\* The functions keep the promise of ChildPromise: main goes on and gives up by
\* one verdict on a program that has ended, whatever exec failures, stops and
\* signals came before; only the validator is given up while it lives.
Promise == INSTANCE ChildPromise WITH step <- Step, program <- Program

KeepsChildPromise == Promise!Spec

\* Every call comes back: no order of exec failures, stops, signals and waits
\* leaves the tool waiting for a child that is gone.
CallReturns == <>(pc \in {"proceeds", "exited"})

\* The comment at appimagetool.c:105, "Wait for the child to termiante and
\* check its exit status": main packages on only if mksquashfs ended well.
MksquashfsStatusChecked ==
  pc = "proceeds" /\ fn = "sfs_mksquashfs" => fate = Exited(0)
=============================================================================
