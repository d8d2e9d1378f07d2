---------------------------- MODULE ChildPromise ----------------------------
(***************************************************************************)
(* What main knows of a program after one of the three functions that run  *)
(* it (src/src/appimagetool.c): the verdict of the wait, taken once, from  *)
(* what became of the program.  AppImageTool takes the wait for mksquashfs *)
(* as this one step.                                                       *)
(***************************************************************************)
VARIABLES
  fn,        \* the function
  ignored,   \* SIGCHLD is ignored
  step,      \* main: before the call, in it, and after it "on" or "ended"
  program    \* "none", "alive", or how it ended

vars == <<fn, ignored, step, program>>

Over == {"good", "bad", "signalled"}

Init ==
  /\ fn \in {"sfs_mksquashfs", "validate_desktop_file", "run_external"}
  /\ ignored \in BOOLEAN
  /\ step = "call"
  /\ program = "none"

Begin ==
  /\ step = "call"
  /\ step' = "wait"
  /\ program' = "alive"
  /\ UNCHANGED <<fn, ignored>>

NotBegun ==
  /\ step = "call"
  /\ step' = "ended"
  /\ UNCHANGED <<fn, ignored, program>>

End ==
  /\ program = "alive"
  /\ program' \in Over
  /\ UNCHANGED <<fn, ignored, step>>

\* A program that exited with 0, and a mksquashfs that a signal ended.  When
\* nothing can be waited for, the validator passes for anything.
GoodEnough ==
  \/ ~ignored /\ program = "good"
  \/ ~ignored /\ program = "signalled" /\ fn = "sfs_mksquashfs"
  \/ ignored /\ program \in Over /\ fn = "validate_desktop_file"

\* Whatever else, and a validator that is only stopped or continued.
Refused ==
  \/ ~ignored /\ program = "bad"
  \/ ~ignored /\ program = "signalled" /\ fn # "sfs_mksquashfs"
  \/ ignored /\ program \in Over
  \/ program = "alive" /\ fn = "validate_desktop_file"

Return ==
  /\ step = "wait"
  /\ \/ GoodEnough /\ step' = "on"
     \/ Refused /\ step' = "ended"
  /\ UNCHANGED <<fn, ignored, program>>

Next == Begin \/ NotBegun \/ End \/ Return

Spec == Init /\ [][Next]_vars
=============================================================================
