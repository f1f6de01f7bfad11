------------------------------- MODULE MCLocks ------------------------------
(***************************************************************************)
(* The two locks of libk2, for TLC: a behaviour is about one of them, the  *)
(* spin_lock or the mutex with its condition variable.                     *)
(***************************************************************************)
EXTENDS SpinLock, Mutex

VARIABLE lock_type

mcVars == <<lock_type, vars, mutexVars>>

MCInit == /\ lock_type \in {"spin_lock", "mutex"}
          /\ Init /\ (lock_type = "spin_lock" \/ build = "interlocked")
          /\ MutexInit

SpinLockMoves == lock_type = "spin_lock" /\ Next /\ UNCHANGED mutexVars
MutexMoves == lock_type = "mutex" /\ MutexNext /\ UNCHANGED vars

MCNext == (SpinLockMoves \/ MutexMoves) /\ UNCHANGED lock_type

\* The lock that is not used is at rest, where fairness asks nothing of it.
MCSpec == /\ MCInit /\ [][MCNext]_mcVars
          /\ \A t \in Threads : WF_vars(Step(t)) /\ WF_vars(Expire(t))
          /\ MutexFairness
=============================================================================
