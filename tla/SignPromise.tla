----------------------------- MODULE SignPromise -----------------------------
(***************************************************************************)
(* What sign_appimage (src/src/appimagetool_sign.c) promises its caller:   *)
(* the two steps that main can take it for.  The signature is embedded,    *)
(* then the key, and either step may not come.  A failure may leave the    *)
(* section that was being filled with a part of its data; the key's        *)
(* section is as it was until the signature is in the file, and the        *)
(* signature stays whatever becomes of the key.                            *)
(***************************************************************************)
VARIABLES
  stage,       \* the step that comes next, or "died"
  signature,   \* what the section of the signature holds
  key          \* what that of the key holds

vars == <<stage, signature, key>>

\* A section is as it was, holds a part of the data made for it, or all of it.
Content == {"before", "part", "whole"}

\* What more of the data makes of a section.
More(content) ==
  CASE content = "before" -> {"part", "whole"}
    [] content = "part" -> {"whole"}
    [] content = "whole" -> {}

Init == stage = "sign" /\ signature = "before" /\ key = "before"

WriteSignature ==
  /\ stage = "sign"
  /\ signature' \in More(signature)
  /\ UNCHANGED <<stage, key>>

EmbedSignature ==
  /\ stage = "sign"
  /\ stage' = "key"
  /\ signature' = "whole"
  /\ UNCHANGED key

WriteKey ==
  /\ stage = "key"
  /\ key' \in More(key)
  /\ UNCHANGED <<stage, signature>>

EmbedKey ==
  /\ stage = "key"
  /\ stage' = "signed"
  /\ key' = "whole"
  /\ UNCHANGED signature

Die ==
  /\ stage \in {"sign", "key"}
  /\ stage' = "died"
  /\ UNCHANGED <<signature, key>>

Next == WriteSignature \/ EmbedSignature \/ WriteKey \/ EmbedKey \/ Die

Spec == Init /\ [][Next]_vars
=============================================================================
