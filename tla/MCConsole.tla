------------------------------ MODULE MCConsole ------------------------------
(* Console.tla for model checking: messages and users.                       *)
EXTENDS Console, MCPrawtos

\* What may be on the wire: the console's messages and those of other clients.
ConsoleCommands == SomeCommands \cup Options

\* Editing is left to the console, and to the command that ends the process.
FewCommands == SomeCommands \ {Edit("ana", "no")}

TypedCredentials == {[name |-> "admin", pass |-> "pw"], [name |-> "admin", pass |-> "no"]}
=============================================================================
