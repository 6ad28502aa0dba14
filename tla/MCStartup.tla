----------------------------- MODULE MCStartup -----------------------------
(* Small instances of Startup.tla: two databases, and hive names of which
   "Machine" and "MACHINE" fold alike. *)
EXTENDS Startup, TLC

CONSTANTS machine, users, d1, d2

MCFold == [n \in {"Machine", "MACHINE", "Users", "CurrentUser"} |->
             IF n = "MACHINE" THEN "Machine" ELSE n]

Decl(n, f) == [name |-> n, file |-> f]
Both == <<Decl("Machine", machine), Decl("Users", users)>>

MCInvocations ==
  {Both, <<>>, <<Decl("Machine", machine), Decl("MACHINE", users)>>,
   <<Decl("CurrentUser", users)>>}
=============================================================================
