------------------------------- MODULE Mutex --------------------------------
(***************************************************************************)
(* k2::mutex and k2::cond_var (k2/mutex.h, k2/cond_var.h, threading.cpp),  *)
(* built on pthread's: a mutex, one condition variable on it, and threads  *)
(* that acquire, wait, signal and release, with timers and without.        *)
(*                                                                         *)
(* pthread_cond_wait releases the mutex and joins the waiters in one step; *)
(* a waiter may wake for no reason; a mutex goes to any thread that wants  *)
(* it.  The pthread calls on a mutex that is there and is used by its own  *)
(* rules return no error.                                                  *)
(***************************************************************************)
CONSTANT MutexThreads

VARIABLES
  mutexPc,      \* where each thread is in the calls
  deadline,     \* the timer of its call: none, running or expired
  result,       \* what its acquire(timer) or wait(timer) returned
  contended     \* history: during its acquire(timer) another had the mutex

mutexVars == <<mutexPc, deadline, result, contended>>

(***************************************************************************)
(*   out     outside        lock    in pthread_mutex_lock                  *)
(*   try     about to call pthread_mutex_trylock    busy  it said EBUSY    *)
(*   in      owns the mutex                                                *)
(*   asleep  among the waiters     relock   woken, must have the mutex     *)
(***************************************************************************)
MutexLocations == {"out", "lock", "try", "busy", "in", "asleep", "relock"}
Deadlines == {"none", "running", "expired"}

MutexOwners == {t \in MutexThreads : mutexPc[t] = "in"}
Trying == {t \in MutexThreads : mutexPc[t] \in {"try", "busy"}}
Waiters == {t \in MutexThreads : mutexPc[t] = "asleep"}

Moves(t, from, to) == /\ mutexPc[t] = from
                      /\ mutexPc' = [mutexPc EXCEPT ![t] = to]

\* The call of thread t will return this, unless it is of those that return
\* nothing.
Returns(t, answer) ==
  result' = [result EXCEPT ![t] = IF deadline[t] = "none" THEN @ ELSE answer]

-----------------------------------------------------------------------------
MutexInit == /\ mutexPc = [t \in MutexThreads |-> "out"]
             /\ deadline = [t \in MutexThreads |-> "none"]
             /\ result = [t \in MutexThreads |-> "nothing"]
             /\ contended = [t \in MutexThreads |-> FALSE]

\* acquire() is called.
CallMutexAcquire(t) ==
  /\ Moves(t, "out", "lock")
  /\ deadline' = [deadline EXCEPT ![t] = "none"]
  /\ result' = [result EXCEPT ![t] = "nothing"]
  /\ contended' = [contended EXCEPT ![t] = FALSE]

\* Mutant: the timer is asked before the mutex is tried.
CallMutexTimedPolls(t) ==
  /\ Moves(t, "out", "busy")
  /\ \E d \in {"running", "expired"} : deadline' = [deadline EXCEPT ![t] = d]
  /\ result' = [result EXCEPT ![t] = "nothing"]
  /\ contended' = [contended EXCEPT ![t] = MutexOwners # {}]

\* acquire(timer) is called, with a timer that may have expired.
CallMutexTimed(t) ==
  /\ Moves(t, "out", "try")
  /\ \E d \in {"running", "expired"} : deadline' = [deadline EXCEPT ![t] = d]
  /\ result' = [result EXCEPT ![t] = "nothing"]
  /\ contended' = [contended EXCEPT ![t] = MutexOwners # {}]

\* The mutex is free and pthread gives it to t.
Takes(t, from) ==
  /\ MutexOwners = {}
  /\ Moves(t, from, "in")
  /\ contended' = [u \in MutexThreads |->
                     contended[u] \/ (u # t /\ u \in Trying)]
  /\ UNCHANGED deadline

LockMutex(t) == Takes(t, "lock") /\ UNCHANGED result

TryLock(t) == Takes(t, "try") /\ Returns(t, "true")

TryBusy(t) == /\ MutexOwners # {}
              /\ Moves(t, "try", "busy")
              /\ UNCHANGED <<deadline, result, contended>>

\* Mutant: the loop is left for the end of the function that grants.
AskTimerGrants(t) ==
  /\ IF deadline[t] = "expired"
     THEN Moves(t, "busy", "in") /\ Returns(t, "true")
     ELSE Moves(t, "busy", "try") /\ UNCHANGED result
  /\ UNCHANGED <<deadline, contended>>

\* EBUSY: when the timer has expired acquire(timer) returns false, otherwise
\* it yields and tries again.
AskTimer(t) ==
  /\ IF deadline[t] = "expired"
     THEN Moves(t, "busy", "out") /\ Returns(t, "false")
     ELSE Moves(t, "busy", "try") /\ UNCHANGED result
  /\ UNCHANGED <<deadline, contended>>

MutexRelease(t) == /\ Moves(t, "in", "out")
                   /\ result' = [result EXCEPT ![t] = "nothing"]
                   /\ UNCHANGED <<deadline, contended>>

\* wait(): the owner leaves the mutex and sleeps.
CondWait(t) ==
  /\ Moves(t, "in", "asleep")
  /\ deadline' = [deadline EXCEPT ![t] = "none"]
  /\ result' = [result EXCEPT ![t] = "nothing"]
  /\ UNCHANGED contended

\* wait(timer).
CondWaitTimed(t) ==
  /\ Moves(t, "in", "asleep")
  /\ \E d \in {"running", "expired"} : deadline' = [deadline EXCEPT ![t] = d]
  /\ result' = [result EXCEPT ![t] = "nothing"]
  /\ UNCHANGED contended

\* A thread calls signal(), with the mutex or without it, and wakes a waiter.
CondSignal(t) ==
  /\ mutexPc[t] \in {"out", "in"}
  /\ \E u \in Waiters : Moves(u, "asleep", "relock") /\ Returns(u, "true")
  /\ UNCHANGED <<deadline, contended>>

\* broadcast() wakes them all.
CondBroadcast(t) ==
  /\ mutexPc[t] \in {"out", "in"}
  /\ Waiters # {}
  /\ mutexPc' = [u \in MutexThreads |->
                   IF u \in Waiters THEN "relock" ELSE mutexPc[u]]
  /\ result' = [u \in MutexThreads |->
                  IF u \in Waiters /\ deadline[u] # "none" THEN "true"
                  ELSE result[u]]
  /\ UNCHANGED <<deadline, contended>>

\* A wakeup that nobody has caused; wait(timer) returns true for it, too.
CondSpurious(t) == /\ Moves(t, "asleep", "relock")
                   /\ Returns(t, "true")
                   /\ UNCHANGED <<deadline, contended>>

\* Mutant: ETIMEDOUT is one of the results for which the loop goes round.
CondTimesOutAgain(t) == /\ deadline[t] = "expired"
                        /\ mutexPc[t] = "asleep"
                        /\ UNCHANGED mutexVars

\* ETIMEDOUT: wait(timer) will return false.
CondTimesOut(t) == /\ deadline[t] = "expired"
                   /\ Moves(t, "asleep", "relock")
                   /\ Returns(t, "false")
                   /\ UNCHANGED <<deadline, contended>>

\* The wait returns once it has the mutex.
Relock(t) == Takes(t, "relock") /\ UNCHANGED result

\* The clock passes the timer of t.
MutexExpire(t) == /\ deadline[t] = "running"
                  /\ deadline' = [deadline EXCEPT ![t] = "expired"]
                  /\ UNCHANGED <<mutexPc, result, contended>>

\* What a call does on its own, once it has been made.
MutexStep(t) == TryLock(t) \/ TryBusy(t) \/ AskTimer(t) \/ CondTimesOut(t)

MutexCalls(t) == \/ CallMutexAcquire(t) \/ CallMutexTimed(t)
                 \/ MutexRelease(t)

CondWaits(t) == CondWait(t) \/ CondWaitTimed(t)

CondWakes(t) == CondSignal(t) \/ CondBroadcast(t)

MutexNext ==
  \E t \in MutexThreads :
    \/ MutexCalls(t) \/ MutexStep(t) \/ CondWaits(t) \/ CondWakes(t)
    \/ LockMutex(t) \/ Relock(t) \/ CondSpurious(t) \/ MutexExpire(t)

MutexSpec == MutexInit /\ [][MutexNext]_mutexVars

\* Threads that poll or whose timers are awaited are scheduled, and time
\* passes.  No owner has to release the mutex, and nobody has to signal.
MutexFairness ==
  \A t \in MutexThreads :
    WF_mutexVars(MutexStep(t)) /\ WF_mutexVars(MutexExpire(t))

-----------------------------------------------------------------------------
MutexTypeOK ==
  /\ mutexPc \in [MutexThreads -> MutexLocations]
  /\ deadline \in [MutexThreads -> Deadlines]
  /\ result \in [MutexThreads -> {"nothing", "true", "false"}]
  /\ contended \in [MutexThreads -> BOOLEAN]

\* acquire(timer) and wait(timer) return false only when the timer has
\* expired, and acquire(timer) not even then if the mutex was free all the
\* time: whoever comes with a timer of the past still gets a free mutex.
TimedTruthful ==
  \A t \in MutexThreads :
    result[t] = "false" =>
      /\ deadline[t] = "expired"
      /\ mutexPc[t] = "out" => contended[t]

\* To its users a mutex with waits, signals and timers is a lock: a wait()
\* releases it and has it again when it returns, also when it has timed out.
AbstractMutex == INSTANCE Lock WITH Threads <- MutexThreads,
                                    holders <- MutexOwners
MutexImplementsLock == AbstractMutex!Spec

\* acquire(timer) returns and wait(timer) stops waiting, although no owner
\* releases the mutex and nobody signals; wait(timer) then still needs the
\* mutex to return, for which it has no timer (threading.cpp:199).
TimedCallsEnd ==
  \A t \in MutexThreads :
    (t \in Trying \/ (t \in Waiters /\ deadline[t] # "none"))
      ~> mutexPc[t] \in {"in", "out", "relock"}
=============================================================================
