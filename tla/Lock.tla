-------------------------------- MODULE Lock --------------------------------
(***************************************************************************)
(* What every lock of libk2 promises its users (k2/mutex.h, k2/spin_lock.h *)
(* and, through them, k2/scoped_guard.h): acquire() returns to one thread  *)
(* at a time, and the lock is free again once that thread has released it. *)
(* How acquire() waits, and whether it gives up, is invisible here.        *)
(***************************************************************************)
CONSTANT Threads

VARIABLE holders    \* the threads whose acquire() returned and whose
                    \* release() has not started

Init == holders = {}

Acquire(t) == /\ holders = {}
              /\ holders' = {t}

Release(t) == /\ holders = {t}
              /\ holders' = {}

Next == \E t \in Threads : Acquire(t) \/ Release(t)

Spec == Init /\ [][Next]_holders
=============================================================================
