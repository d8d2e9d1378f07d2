------------------------- MODULE ChildProcessProofs -------------------------
(***************************************************************************)
(* What holds of a run program and the wait for it, whatever codes it may  *)
(* exit with and however often it is stopped.                              *)
(***************************************************************************)
EXTENDS ChildProcess, TLAPS

\* The words a child can end with.
EndWord == {Exited(c) : c \in ExitCodes \cup {1}} \cup {Signalled}

-----------------------------------------------------------------------------
(* The status word: how the macros of <sys/wait.h> take it apart. *)

\* An exit code comes back as it was.
LEMMA ExitWord ==
  ASSUME NEW c \in 0 .. 255
  PROVE  /\ WIFEXITED(Exited(c))
         /\ WEXITSTATUS(Exited(c)) = c
         /\ Exited(c) >= 0
BY DEF WIFEXITED, WEXITSTATUS, Exited

\* The other words are no exits.
LEMMA OtherWords ==
  /\ ~WIFEXITED(Signalled) /\ Signalled >= 0
  /\ ~WIFEXITED(Stopped) /\ Stopped >= 0 /\ WEXITSTATUS(Stopped) = SIGSTOP
  /\ ~WIFEXITED(Continued) /\ Continued >= 0 /\ WEXITSTATUS(Continued) = 255
BY DEF WIFEXITED, WEXITSTATUS, Signalled, Stopped, Continued, SIGKILL, SIGSTOP

\* The value 0 of validate_desktop_file and of run_external stands for the
\* exit code 0, whatever word waitpid stored.
LEMMA ZeroIsExitZero ==
  ASSUME NEW status \in StatusWord, Value(status) = 0,
         fn \in {"validate_desktop_file", "run_external"}
  PROVE  status = Exited(0)
<1>1. WIFEXITED(status) /\ WEXITSTATUS(status) = 0
  BY DEF Value
<1>2. PICK c \in 0 .. 255 : status = Exited(c)
  BY <1>1, OtherWords, ExitCodesAssumption DEF StatusWord
<1> QED
  BY <1>1, <1>2, ExitWord

\* Every word gives the function an integer in the range of an exit code.
LEMMA ValueInRange ==
  ASSUME NEW status \in StatusWord, fn \in Function
  PROVE  Value(status) \in -1 .. 255
<1>1. WEXITSTATUS(status) \in 0 .. 255
  <2>1. CASE \E c \in 0 .. 255 : status = Exited(c)
    BY <2>1, ExitWord
  <2>2. CASE status \in {Signalled, Stopped, Continued}
    BY <2>2 DEF WEXITSTATUS, Signalled, Stopped, Continued, SIGKILL, SIGSTOP
  <2> QED
    BY <2>1, <2>2, ExitCodesAssumption DEF StatusWord
<1> QED
  BY <1>1 DEF Value, Function

-----------------------------------------------------------------------------
(***************************************************************************)
(* The inductive invariant.  A report of a child that has ended is the     *)
(* word it ended with; a report of any other child is a stop or a          *)
(* continuation, which no function takes for success.                      *)
(***************************************************************************)
ReportTrue ==
  /\ pc = "call" => child = "none"
  /\ pc = "waiting" => child # "none"
  /\ child = "ended" => fate \in EndWord
  /\ child = "ended" => report \in {NoStatus, fate}
  /\ child # "ended" => report \in {NoStatus, Stopped, Continued}

ZeroMeansEnded ==
  pc \in {"returned", "proceeds"} /\ ret = 0 =>
    /\ child = "ended"
    /\ fn = "run_external" \/ (fn = "validate_desktop_file" /\ ~ignored)
         => fate = Exited(0)

ProceedsOnZero == pc = "proceeds" => ret = 0

Inv == TypeOK /\ OneTool /\ ReportTrue /\ ZeroMeansEnded /\ ProceedsOnZero

LEMMA InitInv == Init => Inv
BY MaxStopsAssumption
   DEF Init, Inv, TypeOK, OneTool, ReportTrue, ZeroMeansEnded, ProceedsOnZero, NoStatus

\* What the child does.
LEMMA ChildInv ==
  ASSUME Inv, Child
  PROVE  Inv'
<1> USE MaxStopsAssumption
    DEF Inv, TypeOK, OneTool, ReportTrue, ZeroMeansEnded, ProceedsOnZero, NoStatus, EndWord
<1>0. 1 \in ExitCodes \cup {1}
  OBVIOUS
<1>1. CASE Exec
  BY <1>1 DEF Exec, ChildBecomes
<1>2. CASE ExecFails
  BY <1>2, <1>0 DEF ExecFails, ChildBecomes, ChildEnds, StatusWord
<1>3. CASE ChildInMain
  BY <1>3, <1>0 DEF ChildInMain, ChildBecomes, ChildEnds, StatusWord, Accepts, ChildReturns
<1>4. CASE ProgramExits
  BY <1>4 DEF ProgramExits, ChildEnds, StatusWord
<1>5. CASE ChildKilled
  BY <1>5 DEF ChildKilled, ChildEnds, StatusWord
<1>6. CASE ChildStopped
  BY <1>6 DEF ChildStopped, ChildBecomes, StatusWord
<1>7. CASE ChildContinued
  BY <1>7 DEF ChildContinued, ChildBecomes, StatusWord
<1> QED
  BY <1>1, <1>2, <1>3, <1>4, <1>5, <1>6, <1>7 DEF Child

\* What the tool does.
LEMMA ToolInv ==
  ASSUME Inv, Tool
  PROVE  Inv'
<1> USE MaxStopsAssumption
    DEF Inv, TypeOK, OneTool, ReportTrue, ZeroMeansEnded, ProceedsOnZero, EndWord
<1>1. CASE Fork
  BY <1>1 DEF Fork, NoStatus
<1>2. CASE ForkFails
  BY <1>2 DEF ForkFails, Returns, Function
<1>3. CASE Wait
  <2> USE <1>3 DEF Wait, Returns
  <2>1. report \in StatusWord
    BY DEF NoStatus
  <2>2. TypeOK'
    BY <2>1, ValueInRange
  <2>3. CASE child = "ended"
    <3>1. Value(report) = 0 /\ fn \in {"validate_desktop_file", "run_external"}
            => fate = Exited(0)
      BY <2>1, <2>3, ZeroIsExitZero
    <3> QED
      BY <2>2, <2>3, <3>1
  <2>4. CASE child # "ended"
    <3>1. report \in {Stopped, Continued} /\ fn = "validate_desktop_file"
      BY <2>4
    <3>2. Value(report) = -1
      BY <3>1, OtherWords DEF Value
    <3> QED
      BY <2>2, <2>4, <3>1, <3>2
  <2> QED
    BY <2>3, <2>4
<1>4. CASE WaitFails
  <2> USE <1>4 DEF WaitFails, Returns
  <2>1. ret' \in -1 .. 255
    BY ValueInRange
  <2> QED
    BY <2>1
<1>5. CASE Main
  BY <1>5 DEF Main, Accepts
<1> QED
  BY <1>1, <1>2, <1>3, <1>4, <1>5 DEF Tool

LEMMA NextInv == Inv /\ [Next]_vars => Inv'
<1> SUFFICES ASSUME Inv, [Next]_vars PROVE Inv'
  OBVIOUS
<1>1. CASE UNCHANGED vars
  BY <1>1 DEF vars, Inv, TypeOK, OneTool, ReportTrue, ZeroMeansEnded, ProceedsOnZero
<1> QED
  BY <1>1, ChildInv, ToolInv DEF Next

LEMMA Invariance == Spec => []Inv
BY InitInv, NextInv, PTL DEF Spec

\* The variables stay in their types for every set of exit codes and every
\* number of stops (sfs_mksquashfs, validate_desktop_file and run_external).
THEOREM TypeCorrect == Spec => []TypeOK
<1>1. Inv => TypeOK
  BY DEF Inv
<1> QED
  BY <1>1, Invariance, PTL

\* However exec fails, the child's copy of main never packages an AppDir.
THEOREM OnlyOneTool == Spec => []OneTool
<1>1. Inv => OneTool
  BY DEF Inv
<1> QED
  BY <1>1, Invariance, PTL

\* The tool goes on only when its child has ended, however often the child is
\* stopped and continued.
THEOREM NoChildBesideMain == Spec => []ChildGone
<1>1. Inv => ChildGone
  BY DEF Inv, ChildGone, ZeroMeansEnded, ProceedsOnZero
<1> QED
  BY <1>1, Invariance, PTL

\* Success of a validation or of an external command stands for exit code 0,
\* for every set of codes a program may exit with.
THEOREM SuccessIsChecked == Spec => []SuccessIsExitZero
<1>1. Inv => SuccessIsExitZero
  BY DEF Inv, SuccessIsExitZero, ZeroMeansEnded, ProceedsOnZero
<1> QED
  BY <1>1, Invariance, PTL

-----------------------------------------------------------------------------
(* The verdict of a wait. *)

\* What the functions make of the word a child ended with.
LEMMA EndVerdict ==
  ASSUME NEW status \in EndWord, fn \in Function
  PROVE  Value(status) = 0 <=>
           status = Exited(0) \/ (status = Signalled /\ fn = "sfs_mksquashfs")
<1>1. CASE status = Signalled
  <2>1. ~WIFEXITED(status) /\ WEXITSTATUS(status) = 0 /\ status # Exited(0)
    BY <1>1 DEF WIFEXITED, WEXITSTATUS, Signalled, SIGKILL, Exited
  <2> QED
    BY <1>1, <2>1 DEF Value, Function
<1>2. ASSUME NEW c \in 0 .. 255, status = Exited(c)
      PROVE  Value(status) = 0 <=>
               status = Exited(0) \/ (status = Signalled /\ fn = "sfs_mksquashfs")
  <2>1. WIFEXITED(status) /\ WEXITSTATUS(status) = c
    BY <1>2, ExitWord
  <2>2. status # Signalled /\ (status = Exited(0) <=> c = 0)
    BY <1>2 DEF Signalled, SIGKILL, Exited
  <2> QED
    BY <2>1, <2>2 DEF Value, Function
<1> QED
  BY <1>1, <1>2, ExitCodesAssumption DEF EndWord

PromiseStep == [Promise!Next]_Promise!vars

\* What the child does is the end of the program, or nothing of the promise.
LEMMA ChildKeepsPromise ==
  ASSUME Inv, Inv', Child
  PROVE  PromiseStep
<1>1. UNCHANGED <<fn, ignored, pc, ret>> /\ child \notin {"none", "ended"} /\ child' # "none"
  BY DEF Child, Exec, ExecFails, ChildInMain, ProgramExits, ChildKilled, ChildStopped,
     ChildContinued, ChildBecomes, ChildEnds, Inv, TypeOK
<1>2. Step' = Step
  BY <1>1 DEF Step
<1>3. Program = "alive" /\ Program' \in {"alive", "good", "bad", "signalled"}
  BY <1>1 DEF Program
<1> QED
  BY <1>1, <1>2, <1>3
     DEF PromiseStep, Promise!Next, Promise!vars, Promise!End, Promise!Over

\* What the program has become, once its child has ended.
LEMMA EndedProgram ==
  ASSUME Inv, child = "ended"
  PROVE  /\ Program = "good" <=> fate = Exited(0)
         /\ Program = "signalled" <=> fate = Signalled
         /\ Program \in {"good", "bad", "signalled"}
<1>1. Exited(0) # Signalled
  BY DEF Exited, Signalled, SIGKILL
<1> QED
  BY <1>1 DEF Program

\* What the tool does: the call, its one verdict, and main's test of it.
LEMMA ToolKeepsPromise ==
  ASSUME Inv, Inv', Tool
  PROVE  PromiseStep
<1>1. CASE Fork
  BY <1>1 DEF Fork, Inv, ReportTrue, Step, Program, PromiseStep, Promise!Next, Promise!Begin
<1>2. CASE ForkFails
  <2>1. Step = "call" /\ Step' = "ended"
    BY <1>2 DEF ForkFails, Returns, Step, Accepts
  <2>2. Program' = Program /\ UNCHANGED <<fn, ignored>>
    BY <1>2 DEF ForkFails, Program
  <2> QED
    BY <2>1, <2>2 DEF PromiseStep, Promise!Next, Promise!NotBegun
<1>3. CASE Wait \/ WaitFails
  <2>1. /\ UNCHANGED <<fn, ignored, child, fate>> /\ pc = "waiting" /\ pc' = "returned"
        /\ fn \in Function
    BY <1>3 DEF Wait, WaitFails, Returns, Inv, TypeOK
  <2>2. /\ Program' = Program /\ Step = "wait"
        /\ Step' = IF ret' = 0 THEN "on" ELSE "ended"
    BY <2>1 DEF Program, Step, Accepts
  <2>3. CASE Wait /\ child = "ended"
    <3>1. ~ignored /\ report \in EndWord /\ report = fate /\ ret' = Value(report)
      BY <2>3 DEF Wait, Returns, Inv, ReportTrue
    <3>2. ret' = 0 <=> fate = Exited(0) \/ (fate = Signalled /\ fn = "sfs_mksquashfs")
      BY <2>1, <3>1, EndVerdict
    <3> QED
      BY <2>1, <2>2, <2>3, <3>1, <3>2, EndedProgram
         DEF PromiseStep, Promise!Next, Promise!Return, Promise!GoodEnough, Promise!Refused
  <2>4. CASE Wait /\ child # "ended"
    <3>1. fn = "validate_desktop_file" /\ report \in {Stopped, Continued} /\ ret' = Value(report)
      BY <2>4 DEF Wait, Returns, Inv, ReportTrue
    <3>2. ret' = -1
      BY <3>1, OtherWords DEF Value
    <3>3. Program = "alive"
      BY <2>1, <2>4, <3>1 DEF Program, Wait, Inv, ReportTrue, TypeOK
    <3> QED
      BY <2>1, <2>2, <3>1, <3>2, <3>3
         DEF PromiseStep, Promise!Next, Promise!Return, Promise!Refused
  <2>5. CASE WaitFails
    <3>1. child = "ended" /\ ignored /\ (fn # "validate_desktop_file" => ret' = -1)
      BY <2>5 DEF WaitFails, Returns
    <3> QED
      BY <2>1, <2>2, <3>1, EndedProgram
         DEF PromiseStep, Promise!Next, Promise!Return, Promise!GoodEnough, Promise!Refused,
             Promise!Over
  <2> QED
    BY <1>3, <2>3, <2>4, <2>5
<1>4. CASE Main
  <2>1. Step' = Step /\ Program' = Program /\ UNCHANGED <<fn, ignored>>
    BY <1>4 DEF Main, Step, Program
  <2> QED
    BY <2>1 DEF PromiseStep, Promise!vars
<1> QED
  BY <1>1, <1>2, <1>3, <1>4 DEF Tool

\* The three functions implement ChildPromise: main goes on or gives up by one
\* verdict on a program that has ended, for every set of exit codes and however
\* often the child is stopped (appimagetool.c:107, 241 and 497).
THEOREM CallKeepsPromise == Spec => KeepsChildPromise
<1>1. Inv /\ Inv' /\ [Next]_vars => [Promise!Next]_Promise!vars
  <2> SUFFICES ASSUME Inv, Inv', [Next]_vars PROVE PromiseStep
    BY DEF PromiseStep
  <2>1. CASE UNCHANGED vars
    <3>1. Step' = Step /\ Program' = Program /\ UNCHANGED <<fn, ignored>>
      BY <2>1 DEF vars, Step, Program
    <3> QED
      BY <3>1 DEF PromiseStep, Promise!vars
  <2> QED
    BY <2>1, ChildKeepsPromise, ToolKeepsPromise DEF Next
<1>2. Init => Promise!Init
  BY DEF Init, Promise!Init, Step, Program, Function
<1> QED
  BY <1>1, <1>2, Invariance, NextInv, PTL DEF Spec, KeepsChildPromise, Promise!Spec
=============================================================================
