--------------------------- MODULE MCAppImageTool ---------------------------
(***************************************************************************)
(* Small worlds for AppImageTool: update information of three lengths, the *)
(* CI variables one at a time, and a good runtime, a used and oddly laid   *)
(* out one, and a poor one.                                                *)
(***************************************************************************)
EXTENDS AppImageTool

ToolNames ==
  {"none", "torn", "git", "v1", "short", "long", "guessed", "garbled",
   "garbage", "good", "used", "poor", "no ELF file"}

Info(name, known, length) == [name |-> name, known |-> known, length |-> length]

ShortInfo == Info("short", TRUE, 1)
LongInfo == Info("long", TRUE, 2)

Runtime(name, upd, md5, prefilled, sealed, isolated) ==
  [name |-> name, upd_info |-> upd, digest_md5 |-> md5,
   prefilled |-> prefilled, sealed |-> sealed, isolated |-> isolated]

GoodRuntime == Runtime("good", 2, 16, NoInfo, FALSE, TRUE)
UsedRuntime == Runtime("used", 2, 16, LongInfo, TRUE, FALSE)
PoorRuntime == Runtime("poor", 0, 8, NoInfo, FALSE, TRUE)

Plain ==
  [version |-> "none", updateinformation |-> NoInfo, guess |-> FALSE,
   ci |-> "none", token |-> FALSE, pull_request |-> FALSE, zsyncmake |-> TRUE,
   no_appstream |-> TRUE, sign |-> FALSE]

Release ==
  [Plain EXCEPT !.version = "v1", !.updateinformation = ShortInfo, !.ci = "gitlab",
                !.no_appstream = FALSE, !.sign = TRUE]

Guess(ci, token) ==
  [Plain EXCEPT !.guess = TRUE, !.ci = ci, !.token = token, !.updateinformation = LongInfo]

ToolInvocations ==
  {Plain, Release, Guess("github", TRUE), Guess("travis", FALSE),
   [Guess("travis", FALSE) EXCEPT !.pull_request = TRUE, !.zsyncmake = FALSE]}

ToolRuntimes == {GoodRuntime, UsedRuntime, PoorRuntime}

NoElf == {Unreadable("no ELF file")}

GuessInfo == Info("guessed", TRUE, 2)

GarbledInfos == {Info("garbled", TRUE, 3), Info("garbage", FALSE, 2)}
=============================================================================
