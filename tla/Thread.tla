------------------------------- MODULE Thread -------------------------------
(***************************************************************************)
(* k2::thread (k2/thread.h, source/threading.cpp): the spawning, running,  *)
(* cancelling, joining and destroying of one thread, and the life of its   *)
(* thread_cntx, which the new thread and the thread object share.          *)
(*                                                                         *)
(* The mutex and the condition variable of the context are pthread's: a    *)
(* wait releases the mutex and joins the waiters in one step, signal()     *)
(* releases at most one waiter, and a waiter may also wake for no reason.  *)
(* Each critical section is a step that locks and acts, then one that      *)
(* unlocks.  A thread that touches the context once it is deleted goes to  *)
(* the location "undefined" and is not followed further.                   *)
(***************************************************************************)
EXTENDS Integers, FiniteSets

CONSTANTS
  Owner,       \* the thread that spawns and, if not detached, destroys
  Users,       \* other threads that use the thread object
  Child,       \* the thread spawned
  Nobody,      \* no thread
  Joiners,     \* those of the owner and the users that call join()
  MaxCalls,    \* bound on the calls each of them makes
  MaxWakeups   \* bound on the wakeups without a signal

Callers == Users \cup {Owner}
Threads == Callers \cup {Child}

ASSUME ThreadsAssumption == /\ Child \notin Callers
                            /\ Owner \notin Users
                            /\ Joiners \subseteq Callers
                            /\ Nobody \notin Threads
ASSUME BoundsAssumption == {MaxCalls, MaxWakeups} \subseteq Nat

VARIABLES
  detached,           \* spawn_detached() rather than a thread object
  m_state,            \* thread_cntx::m_state
  m_exit_cause,       \* thread_cntx::m_exit_cause
  m_cancel_enabled,   \* thread_cntx::m_cancel_enabled
  mtx,                \* who has thread_cntx::m_mtx
  cntx,               \* the context: not there yet, live, or deleted
  object,             \* the thread object whose m_pcntx it is
  pc,                 \* where each thread is
  op,                 \* op[t]: the operation caller t is in
  answer,             \* answer[t]: what its last join(timer) returned
  asked,              \* history: a cancel() found the thread not exited
  calls, wakeups      \* for the bounds

cntxVars == <<m_state, m_exit_cause, m_cancel_enabled>>
counts   == <<calls, wakeups>>
vars == <<detached, cntxVars, mtx, cntx, object, pc, op, answer, asked, counts>>

States == {"initializing", "running", "cancel_pending", "exited"}
Causes == {"na", "completed", "cancelled", "uncaught_exception"}
Operations == {"none", "spawn", "cancel", "join", "timed", "destroy"}

(***************************************************************************)
(* Callers:  idle -> lock -> inside -> unlock -> idle, with  wait  (among  *)
(* the waiters) and  relock  (of a join(timer) that was woken) on the way; *)
(* new  before the spawn,  reap  in pthread_join,  delete,  and  done.     *)
(* The child:  absent, start -> started -> entry, the routine, from where  *)
(* it goes through  testing / flagging -> resume  back or  unwinding  out; *)
(* over  when the routine has ended, -> leaving -> gone.                   *)
(***************************************************************************)
CallerLocations == {"new", "idle", "lock", "inside", "wait", "relock", "unlock",
                    "reap", "delete", "done", "undefined"}
ChildLocations  == {"absent", "start", "started", "entry", "testing", "flagging",
                    "resume", "unwinding", "over", "leaving", "gone", "undefined"}

(* The locations whose next step reads or writes the context.              *)
Touching == {"lock", "inside", "wait", "relock", "unlock", "start", "started",
             "testing", "flagging", "resume", "unwinding", "over", "leaving"}

(* The locations where the mutex is held.                                  *)
Holding == {"inside", "unlock", "started", "resume", "unwinding", "leaving",
            "undefined"}

Goto(t, from, to) == pc[t] = from /\ pc' = [pc EXCEPT ![t] = to]

Locked(t)   == cntx = "live" /\ mtx = Nobody /\ mtx' = t
Unlocked(t) == cntx = "live" /\ mtx = t /\ mtx' = Nobody

Waiters == {t \in Callers : pc[t] = "wait"}

(* Where a waiter goes on: join(timer) does not look at the state again.   *)
Awake(t) == IF op[t] = "timed" THEN "relock" ELSE "lock"

(* The child steps on and signals the condition variable.                  *)
GotoSignalling(from, to) ==
  /\ pc[Child] = from
  /\ \/ /\ Waiters = {}
        /\ pc' = [pc EXCEPT ![Child] = to]
     \/ \E w \in Waiters :
          pc' = [pc EXCEPT ![Child] = to, ![w] = Awake(w)]

-----------------------------------------------------------------------------
Init == /\ detached \in BOOLEAN
        /\ m_state = "initializing"
        /\ m_exit_cause = "na"
        /\ m_cancel_enabled = TRUE
        /\ mtx = Nobody
        /\ cntx = "none"
        /\ object = "none"
        /\ pc = [t \in Threads |-> IF t = Child THEN "absent"
                                   ELSE IF t = Owner THEN "new" ELSE "idle"]
        /\ op = [t \in Callers |-> "none"]
        /\ answer = [t \in Callers |-> FALSE]
        /\ asked = FALSE
        /\ calls = [t \in Callers |-> 0]
        /\ wakeups = 0

(* spawn_impl(): the context is allocated and the thread created ...       *)
Create ==
  /\ cntx' = "live"
  /\ pc[Owner] = "new"
  /\ pc' = [pc EXCEPT ![Owner] = "lock", ![Child] = "start"]
  /\ op' = [op EXCEPT ![Owner] = "spawn"]
  /\ UNCHANGED <<detached, cntxVars, mtx, object, answer, asked, counts>>

(* ... or pthread_create fails: the context goes, the caller gets an       *)
(* exception and there is no thread object.                                *)
CreateFails ==
  /\ Goto(Owner, "new", "done")
  /\ cntx' = "freed"
  /\ UNCHANGED <<detached, cntxVars, mtx, object, op, answer, asked, counts>>

(* A call of cancel(), join() or join(timer) on the thread object.         *)
Call(t, operation) ==
  /\ object = "alive"
  /\ calls[t] < MaxCalls
  /\ operation = "cancel" \/ t \in Joiners
  /\ Goto(t, "idle", "lock")
  /\ op' = [op EXCEPT ![t] = operation]
  /\ calls' = [calls EXCEPT ![t] = @ + 1]
  /\ UNCHANGED <<detached, cntxVars, mtx, cntx, object, answer, asked, wakeups>>

(* Mutant: ~thread() neither waits nor calls pthread_join().               *)
DestroyAtOnce ==
  /\ object = "alive"
  /\ \A u \in Users : pc[u] = "idle"
  /\ Goto(Owner, "idle", "delete")
  /\ object' = "gone"
  /\ op' = [op EXCEPT ![Owner] = "destroy"]
  /\ UNCHANGED <<detached, cntxVars, mtx, cntx, answer, asked, counts>>

(* ~thread() starts; by then nobody else may be using the object.          *)
Destroy ==
  /\ object = "alive"
  /\ \A u \in Users : pc[u] = "idle"
  /\ Goto(Owner, "idle", "lock")
  /\ object' = "gone"
  /\ op' = [op EXCEPT ![Owner] = "destroy"]
  /\ UNCHANGED <<detached, cntxVars, mtx, cntx, answer, asked, counts>>

Lock(t) == /\ Locked(t)
           /\ \/ Goto(t, "lock", "inside")
              \/ Goto(t, "relock", "unlock")
           /\ UNCHANGED <<detached, cntxVars, cntx, object, op, answer, asked, counts>>

(* Mutant: a thread about to be cancelled is waited for no longer.         *)
AwaitedRunning(t) == IF op[t] = "spawn" THEN m_state # "initializing"
                                        ELSE m_state # "running"

(* Mutant: spawn_impl() does not wait for the thread to run.               *)
AwaitedNever(t) == op[t] = "spawn" \/ m_state = "exited"

(* What the loops around wait() test.                                      *)
Awaited(t) == IF op[t] = "spawn" THEN m_state # "initializing"
                                 ELSE m_state = "exited"

(* spawn_impl(), join(), join(timer), ~thread(): nothing to wait for.      *)
Pass(t) == /\ op[t] # "cancel" /\ Awaited(t)
           /\ mtx = t
           /\ Goto(t, "inside", "unlock")
           /\ answer' = [answer EXCEPT ![t] = (op[t] = "timed")]
           /\ UNCHANGED <<detached, cntxVars, mtx, cntx, object, op, asked, counts>>

(* They wait; join(timer) will return true unless its timer ends the wait. *)
Wait(t) == /\ op[t] # "cancel" /\ ~Awaited(t)
           /\ Unlocked(t)
           /\ Goto(t, "inside", "wait")
           /\ answer' = [answer EXCEPT ![t] = (op[t] = "timed")]
           /\ UNCHANGED <<detached, cntxVars, cntx, object, op, asked, counts>>

Cancel(t) ==
  /\ op[t] = "cancel" /\ mtx = t
  /\ Goto(t, "inside", "unlock")
  /\ m_state' = IF m_state # "exited" THEN "cancel_pending" ELSE m_state
  /\ asked' = (asked \/ m_state # "exited")
  /\ UNCHANGED <<detached, m_exit_cause, m_cancel_enabled, mtx, cntx, object, op, answer, counts>>

WakeSpuriously(t) ==
  /\ wakeups < MaxWakeups
  /\ Goto(t, "wait", Awake(t))
  /\ wakeups' = wakeups + 1
  /\ UNCHANGED <<detached, cntxVars, mtx, cntx, object, op, answer, asked, calls>>

Timeout(t) ==
  /\ op[t] = "timed"
  /\ Goto(t, "wait", "relock")
  /\ answer' = [answer EXCEPT ![t] = FALSE]
  /\ UNCHANGED <<detached, cntxVars, mtx, cntx, object, op, asked, counts>>

(* The guard's destructor; the call returns, or ~thread() goes on.         *)
Unlock(t) ==
  /\ Unlocked(t)
  /\ Goto(t, "unlock", CASE op[t] = "destroy" -> "reap"
                         [] op[t] = "spawn" /\ detached -> "done"
                         [] OTHER -> "idle")
  /\ op' = [op EXCEPT ![t] = IF @ = "destroy" THEN @ ELSE "none"]
  /\ object' = IF op[t] = "spawn" /\ ~detached THEN "alive" ELSE object
  /\ UNCHANGED <<detached, cntxVars, cntx, answer, asked, counts>>

(* pthread_join() returns when the child's start routine has.              *)
Reap == /\ pc[Child] = "gone"
        /\ Goto(Owner, "reap", "delete")
        /\ UNCHANGED <<detached, cntxVars, mtx, cntx, object, op, answer, asked, counts>>

Delete == /\ Goto(Owner, "delete", "done")
          /\ cntx' = "freed"
          /\ UNCHANGED <<detached, cntxVars, mtx, object, op, answer, asked, counts>>

CallerStep(t) == \/ Lock(t) \/ Pass(t) \/ Wait(t) \/ Cancel(t) \/ Unlock(t)
                 \/ Timeout(t)
                 \/ t = Owner /\ (Create \/ CreateFails \/ Reap \/ Delete)

-----------------------------------------------------------------------------
(* pthread_entry_wrapper() of the new thread.                              *)
others == <<object, op, answer, asked, counts>>

Start == /\ Locked(Child)
         /\ m_state' = "running"
         /\ GotoSignalling("start", "started")
         /\ UNCHANGED <<detached, m_exit_cause, m_cancel_enabled, cntx, others>>

(* The guards of the wrapper, of test_cancel() and of cancel_enabled().    *)
Leave(from, to) == /\ Unlocked(Child)
                   /\ Goto(Child, from, to)
                   /\ UNCHANGED <<detached, cntxVars, cntx, others>>

(* The routine calls test_cancel() ...                                     *)
CallTestCancel == /\ Goto(Child, "entry", "testing")
                  /\ UNCHANGED <<detached, cntxVars, mtx, cntx, others>>

(* Mutant: the cancellation is noticed, and forgotten.                     *)
TestCancelMissed == /\ Locked(Child)
                    /\ Goto(Child, "testing", "resume")
                    /\ UNCHANGED <<detached, cntxVars, cntx, others>>

TestCancel ==
  /\ Locked(Child)
  /\ Goto(Child, "testing",
          IF m_state = "cancel_pending" THEN "unwinding" ELSE "resume")
  /\ UNCHANGED <<detached, cntxVars, cntx, others>>

(* ... or cancel_enabled(yesno) ...                                        *)
CallCancelEnabled == /\ Goto(Child, "entry", "flagging")
                     /\ UNCHANGED <<detached, cntxVars, mtx, cntx, others>>

CancelEnabled == /\ Locked(Child)
                 /\ Goto(Child, "flagging", "resume")
                 /\ m_cancel_enabled' \in BOOLEAN
                 /\ UNCHANGED <<detached, m_state, m_exit_cause, cntx, others>>

(* ... and ends.  The cause is stored without the mutex.                   *)
End(cause) == /\ m_exit_cause' = cause
              /\ UNCHANGED <<detached, m_state, m_cancel_enabled, cntx, others>>

Complete  == Goto(Child, "entry", "over") /\ End("completed") /\ UNCHANGED mtx
Throw     == Goto(Child, "entry", "over") /\ End("uncaught_exception") /\ UNCHANGED mtx
Unwind    == /\ Unlocked(Child)
             /\ Goto(Child, "unwinding", "over")
             /\ End("cancelled")

(* Mutant: the joiner is not signalled.                                    *)
ExitSilently ==
  /\ Locked(Child)
  /\ m_state' = "exited"
  /\ cntx' = IF detached THEN "freed" ELSE cntx
  /\ Goto(Child, "over", "leaving")
  /\ UNCHANGED <<detached, m_exit_cause, m_cancel_enabled, others>>

(* A detached thread deletes the context inside the critical section, a    *)
(* joinable one signals.                                                   *)
Exit ==
  /\ Locked(Child)
  /\ m_state' = "exited"
  /\ IF detached
     THEN Goto(Child, "over", "leaving") /\ cntx' = "freed"
     ELSE GotoSignalling("over", "leaving") /\ UNCHANGED cntx
  /\ UNCHANGED <<detached, m_exit_cause, m_cancel_enabled, others>>

ChildStep == \/ Start \/ Leave("started", "entry")
             \/ TestCancel \/ CancelEnabled \/ Leave("resume", "entry")
             \/ Unwind
             \/ Exit \/ Leave("leaving", "gone")

ChildChoice == CallTestCancel \/ CallCancelEnabled \/ Complete \/ Throw

(* Whoever is about to touch a context that was deleted.                   *)
UseAfterFree(t) ==
  /\ cntx = "freed" /\ pc[t] \in Touching
  /\ pc' = [pc EXCEPT ![t] = "undefined"]
  /\ UNCHANGED <<detached, cntxVars, mtx, cntx, others>>

(* Everything is over.                                                     *)
Finished == /\ pc[Owner] \in {"done", "undefined"}
            /\ pc[Child] \in {"absent", "gone", "undefined"}
            /\ UNCHANGED vars

Next == \/ \E t \in Callers, operation \in {"cancel", "join", "timed"} :
             Call(t, operation)
        \/ Destroy
        \/ \E t \in Callers : CallerStep(t) \/ WakeSpuriously(t)
        \/ ChildStep \/ ChildChoice
        \/ \E t \in Threads : UseAfterFree(t)
        \/ Finished

Spec == Init /\ [][Next]_vars

(***************************************************************************)
(* Threads in an operation are scheduled, and a mutex that is released     *)
(* again and again is got in the end; timers expire.  The routine may run  *)
(* for ever, but then it calls test_cancel() again and again.              *)
(***************************************************************************)
FairSpec ==
  /\ Spec
  /\ \A t \in Callers : WF_vars(CallerStep(t)) /\ SF_vars(Lock(t))
  /\ SF_vars(ChildStep) /\ SF_vars(CallTestCancel)

-----------------------------------------------------------------------------
TypeOK == /\ detached \in BOOLEAN
          /\ m_state \in States
          /\ m_exit_cause \in Causes
          /\ m_cancel_enabled \in BOOLEAN
          /\ mtx \in {Nobody} \cup {t \in Threads : pc[t] \in Holding}
          /\ cntx \in {"none", "live", "freed"}
          /\ object \in {"none", "alive", "gone"}
          /\ pc \in [Threads -> CallerLocations \cup ChildLocations]
          /\ op \in [Callers -> Operations]
          /\ answer \in [Callers -> BOOLEAN]
          /\ asked \in BOOLEAN
          /\ calls \in [Callers -> Nat]
          /\ wakeups \in Nat

(* Nobody uses the context after it was deleted: for a thread object,      *)
(* neither the child nor a user can be late, whatever they were doing when *)
(* the thread ended.                                                       *)
NoUseAfterFree == ~detached => \A t \in Threads : pc[t] # "undefined"

(* When join() or ~thread()'s join() has seen the thread exited, the       *)
(* routine has ended and its exit cause is stored: the caller may rely on  *)
(* everything the routine did ("making sure counter_th is not still        *)
(* running after explicit joining").                                       *)
JoinedMeansOver ==
  \A t \in Callers :
    op[t] \in {"join", "destroy"} /\ pc[t] \in {"unlock", "reap", "delete"}
      => pc[Child] \in {"leaving", "gone"} /\ m_exit_cause # "na"

(* A request to cancel is never overwritten, neither by the start of the   *)
(* thread it was made for nor by a second request.                         *)
CancelNotLost == asked => m_state \in {"cancel_pending", "exited"}

(* Nobody brings a thread that has exited back to another state: a join()  *)
(* that comes later returns.                                               *)
ExitedIsFinal == [][m_state = "exited" => m_state' = "exited"]_vars

(* Unless a waiter wakes without a signal, join(timer) returns true only   *)
(* for a thread that has exited, although it does not look at the state    *)
(* after its wait: no signal but that of the exit reaches it.              *)
TimedJoinTruthful ==
  wakeups = 0 =>
    \A t \in Callers :
      op[t] = "timed" /\ pc[t] = "unlock" /\ answer[t] => m_state = "exited"

(* The spawner of a detached thread has finished with the context before   *)
(* the thread deletes it.                                                  *)
SpawnerSurvives == detached => pc[Owner] # "undefined"

(* spawn_impl() of a thread object sees the thread run, however early the  *)
(* thread signals.                                                         *)
SpawnReturns == ~detached /\ op[Owner] = "spawn" ~> pc[Owner] \in {"idle", "done"}

(* Every join(), and ~thread()'s, returns once the thread has exited       *)
(* ("Waits *this to stop execution"), however many threads wait.           *)
EveryJoinReturns ==
  \A t \in Callers :
    (op[t] \in {"join", "destroy"} /\ m_state = "exited")
      ~> pc[t] \in {"idle", "done"}

(* The calls that wait return: that of the spawner, however early the      *)
(* thread signals, and every join() as long as two threads never wait at   *)
(* the same time, in spite of spurious wakeups and of waits that time out  *)
(* as the signal is sent.                                                  *)
CallsReturn == /\ SpawnReturns
               /\ [](Cardinality(Waiters) <= 1) => EveryJoinReturns

(* A cancelled thread that keeps calling test_cancel() exits, or else does *)
(* not have its cancel-enabled flag set: of such a thread the documents say*)
(* that it is not terminated and the code does terminate it, so nothing is *)
(* claimed (see DisabledIsNotCancelled).                                   *)
CancelledExits ==
  asked /\ m_cancel_enabled ~> m_state = "exited" \/ ~m_cancel_enabled

(* Not so: test_cancel() terminates no thread whose cancel-enabled flag is *)
(* not set (thread.h:145 says so; threading.cpp:511 does not look at it).  *)
DisabledIsNotCancelled == pc[Child] = "unwinding" => m_cancel_enabled
=============================================================================
