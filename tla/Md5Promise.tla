----------------------------- MODULE Md5Promise -----------------------------
(***************************************************************************)
(* What the functions of src/src/md5.h promise: the hash is a function of  *)
(* the message alone, however it was cut into updates, and of the message  *)
(* since the last Md5Initialise only.                                      *)
(***************************************************************************)
EXTENDS Md5Message

VARIABLES
  total,    \* bytes of the message so far
  result    \* the blocks that make the hash, or NoResult

vars == <<total, result>>

NoResult == [blocks |-> <<>>, length |-> [lo |-> 0, hi |-> 0]]

Init == total = 0 /\ result = NoResult

\* "initialize new context" (md5.h:24)
Initialise == total' = 0 /\ result' = NoResult

\* "add data to the context" (md5.h:27)
Update ==
  /\ result = NoResult
  /\ \E n \in Sizes : total' = total + n
  /\ UNCHANGED result

\* "calculate final digest from context" (md5.h:30)
Finalise ==
  /\ result = NoResult
  /\ result' = [blocks |-> Padded(total), length |-> BitLength(total)]
  /\ UNCHANGED total

Next == Initialise \/ Update \/ Finalise

Spec == Init /\ [][Next]_vars
=============================================================================
