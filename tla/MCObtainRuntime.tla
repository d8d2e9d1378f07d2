-------------------------- MODULE MCObtainRuntime --------------------------
(***************************************************************************)
(* An AppDir with a program, a library two directories down, a plugin that *)
(* is not looked into, a link to a directory outside with a library of its *)
(* own; and hosts with their certificates in various places.               *)
(***************************************************************************)
EXTENDS ObtainRuntime

Nodes == {"AppDir", "AppRun", "usr", "lib", "libfoo.so.1", "plugin.so",
          "system", "outside", "libc.so.6"}

SmallTree ==
  [n \in Nodes |->
    CASE n = "AppDir" -> {"AppRun", "usr", "system"}
      [] n = "usr" -> {"lib", "plugin.so"}
      [] n = "lib" -> {"libfoo.so.1"}
      [] n \in {"system", "outside"} -> {"libc.so.6"}
      [] OTHER -> {}]

SmallKinds ==
  [n \in Nodes |->
    CASE n \in {"AppDir", "usr", "lib", "outside"} -> "dir"
      [] n = "system" -> "symlink"
      [] OTHER -> "file"]

Host(asks, file, files, dir, places) ==
  [asks |-> asks, default_file |-> file, files |-> files,
   default_dir |-> dir, dirs |-> places]

SmallHosts ==
  {Host(TRUE, "present", <<"denied">>, "absent", <<"absent">>),
   Host(TRUE, "dangling", <<"absent", "present">>, "absent", <<"absent", "present">>),
   Host(TRUE, "absent", <<"absent", "dangling", "present">>, "present", <<"denied">>),
   Host(TRUE, "absent", <<"absent", "denied">>, "absent", <<"present">>),
   Host(FALSE, "present", <<"absent">>, "denied", <<"absent", "present">>),
   Host(FALSE, "present", <<"dangling">>, "absent", <<"present", "denied">>)}
=============================================================================
