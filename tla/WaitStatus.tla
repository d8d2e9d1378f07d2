----------------------------- MODULE WaitStatus -----------------------------
(***************************************************************************)
(* The status word waitpid stores, as the macros of <sys/wait.h> take it   *)
(* apart on the platform the tool is built for (Linux).  appimagetool.c    *)
(* decides with WIFEXITED and WEXITSTATUS what became of a child.          *)
(***************************************************************************)
EXTENDS Integers

SIGKILL == 9
SIGSTOP == 19

\* The words for a child that exited with code c, was ended by a signal, was
\* stopped, and was continued.
Exited(c) == c * 256
Signalled == SIGKILL
Stopped == SIGSTOP * 256 + 127
Continued == 65535

WIFEXITED(status) == status % 128 = 0

\* Variant: the word itself is taken for the exit code.
RawStatus(status) == status

WEXITSTATUS(status) == (status \div 256) % 256
=============================================================================
