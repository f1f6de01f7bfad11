------------------------------ MODULE MCAtExit ------------------------------
(***************************************************************************)
(* AtExit with four registrations: two of the default priority, one above  *)
(* and one below.                                                          *)
(***************************************************************************)
EXTENDS AtExit

CONSTANTS default1, default2, high, low

MCTasks == {default1, default2, high, low}

MCPrio == [t \in MCTasks |-> CASE t = high -> 1 [] t = low -> -1 [] OTHER -> 0]

(* Where other threads push, a push from a routine is as one of theirs.    *)
MCSettings == [dl : BOOLEAN, nesting : BOOLEAN, racing : {FALSE}]
                \cup [dl : {TRUE}, nesting : {FALSE}, racing : {TRUE}]

(* A shared library, whose fini() calls exec(), and other threads.         *)
MCRacing == {[dl |-> TRUE, nesting |-> FALSE, racing |-> TRUE]}
=============================================================================
