--------------------------- MODULE PackagePromise ---------------------------
(***************************************************************************)
(* What appimagetool promises of the file at the destination (main in      *)
(* src/src/appimagetool.c), at any moment and across runs: a run makes the *)
(* package part by part in one order, a part is valid from the moment it   *)
(* is there, and success is reported for the whole package only.  So after *)
(* a failure or a kill the file holds a begin of the package, and its last *)
(* part vouches for those before.                                          *)
(*                                                                         *)
(* A run may be disturbed: by the mksquashfs of an earlier one, or by a    *)
(* fault that the tool does not look at.  Nothing is promised of it.       *)
(***************************************************************************)
EXTENDS Naturals

VARIABLES
  run,         \* the number of the run, 0 before the first
  signed,      \* it was asked to sign
  parts,       \* the parts of this run that are in the file
  outcome,
  disturbed

vars == <<run, signed, parts, outcome, disturbed>>

Unsigned == {"image", "runtime", "digest"}
Package == IF signed THEN Unsigned \cup {"signature", "key"} ELSE Unsigned

\* The parts that are in the file before a part comes.
Before ==
  [image |-> {}, runtime |-> {"image"}, digest |-> {"image", "runtime"},
   signature |-> Unsigned, key |-> Unsigned \cup {"signature"}]

Init ==
  /\ run = 0
  /\ signed \in BOOLEAN
  /\ parts = {}
  /\ outcome = "idle"
  /\ disturbed = FALSE

Begin ==
  /\ outcome # "running"
  /\ run' = run + 1
  /\ signed' \in BOOLEAN
  /\ parts' = {}
  /\ outcome' = "running"
  /\ disturbed' \in BOOLEAN

\* A part is made.  The image may be finished after the tool was killed.
Make(part) ==
  /\ ~disturbed
  /\ part \in Package \ parts
  /\ Before[part] \subseteq parts
  /\ \/ outcome = "running"
     \/ outcome = "killed" /\ part = "image"
  /\ parts' = parts \cup {part}
  /\ UNCHANGED <<run, signed, outcome, disturbed>>

Succeed ==
  /\ outcome = "running"
  /\ disturbed \/ parts = Package
  /\ outcome' = "success"
  /\ UNCHANGED <<run, signed, parts, disturbed>>

Stop ==
  /\ outcome = "running"
  /\ outcome' \in {"died", "killed"}
  /\ UNCHANGED <<run, signed, parts, disturbed>>

Disturb ==
  /\ outcome = "running"
  /\ ~disturbed
  /\ disturbed' = TRUE
  /\ parts' = {}
  /\ UNCHANGED <<run, signed, outcome>>

Next == Begin \/ (\E part \in DOMAIN Before : Make(part)) \/ Succeed \/ Stop \/ Disturb

Spec == Init /\ [][Next]_vars
=============================================================================
