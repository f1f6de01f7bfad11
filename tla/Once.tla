------------------------------- MODULE Once -------------------------------
(***************************************************************************)
(* What k2::thread_once promises of each control it is given: the routine  *)
(* is entered once; afterwards the control is done if the routine has      *)
(* ended, and never again if it has thrown.                                *)
(***************************************************************************)
CONSTANT Controls

VARIABLE state    \* state[c]: what has become of control c

States == {"untouched", "running", "done", "failed"}

Init == state = [c \in Controls |-> "untouched"]

Goto(c, from, to) == /\ state[c] = from
                     /\ state' = [state EXCEPT ![c] = to]

Enter(c)  == Goto(c, "untouched", "running")
Finish(c) == Goto(c, "running", "done")
Fail(c)   == Goto(c, "running", "failed")

Next == \E c \in Controls : Enter(c) \/ Finish(c) \/ Fail(c)

Spec == Init /\ [][Next]_state
=============================================================================
