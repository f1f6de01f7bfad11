---------------------------- MODULE ThreadProofs ----------------------------
(***************************************************************************)
(* Proofs about Thread for any number of users and of joiners, calls and   *)
(* spurious wakeups.  Types are kept in any case.  The rest is about a     *)
(* thread object, not a detached thread, whose inductive invariant says    *)
(* who may be where: the context is deleted after pthread_join(), and      *)
(* m_state is "exited" only when the routine is over.                      *)
(***************************************************************************)
EXTENDS Thread, TLAPS

Places == /\ \A t \in Callers : pc[t] \in CallerLocations \ {"undefined"}
          /\ pc[Child] \in ChildLocations \ {"undefined"}

(* The mutex belongs to whoever is between its lock and its unlock.        *)
Mutex ==
  /\ \A t \in Callers : mtx = t <=> pc[t] \in {"inside", "unlock"}
  /\ mtx = Child <=> pc[Child] \in {"started", "resume", "unwinding", "leaving"}

(* Which operation goes with which location.                               *)
Operating ==
  \A t \in Callers :
    /\ pc[t] \in {"new", "idle"} => op[t] = "none"
    /\ pc[t] \in {"lock", "inside", "wait", "relock", "unlock"} => op[t] # "none"
    /\ pc[t] \in {"reap", "delete"} => op[t] = "destroy"
    /\ op[t] \in {"spawn", "destroy"} \/ pc[t] \in {"new", "done"} => t = Owner
    /\ pc[t] = "relock" => op[t] = "timed"
    /\ pc[t] = "done" => op[t] # "spawn"

(* The thread object exists from the end of the spawn to ~thread(), and    *)
(* its users use it only then.                                             *)
Lifetime ==
  /\ object = "none"  => pc[Owner] \in {"new", "done"} \/ op[Owner] = "spawn"
  /\ object = "alive" => /\ op[Owner] \notin {"spawn", "destroy"}
                         /\ pc[Owner] \notin {"new", "done"}
  /\ object = "gone"  => op[Owner] = "destroy"
  /\ object # "alive" => \A u \in Users : pc[u] = "idle"

(* The context outlives everybody who is still to touch it.                *)
Context ==
  /\ cntx = "none" <=> pc[Owner] = "new"
  /\ cntx = "freed" <=> pc[Owner] = "done"
  /\ pc[Owner] = "new" => pc[Child] = "absent"
  /\ pc[Owner] = "delete" => pc[Child] = "gone"
  /\ pc[Owner] = "done" => pc[Child] \in {"absent", "gone"}
  /\ pc[Child] = "absent" => pc[Owner] \in {"new", "done"}

(* What m_state says of the child, and what it has led the others to do.   *)
Progress ==
  /\ m_state = "initializing" <=> pc[Child] \in {"absent", "start"}
  /\ m_state = "exited" <=> pc[Child] \in {"leaving", "gone"}
  /\ pc[Child] \in {"over", "leaving", "gone"} => m_exit_cause # "na"
  /\ object # "none" => m_state # "initializing"
  /\ op[Owner] = "spawn" /\ pc[Owner] = "unlock" => m_state # "initializing"
  /\ \A t \in Callers :
       op[t] \in {"join", "destroy"} /\ pc[t] \in {"unlock", "reap", "delete"}
         => m_state = "exited"
  /\ asked => object # "none"

Object == /\ Places /\ Mutex /\ Operating /\ Lifetime /\ Context
          /\ Progress /\ CancelNotLost

(* A detached thread has no object, so there are no calls.                 *)
Alone == /\ object = "none" /\ ~asked
         /\ \A t \in Callers : op[t] \in {"none", "spawn"}
         /\ m_state = "exited" => cntx = "freed"

(* Before the spawn there is no context and no thread.                     *)
Fresh == pc[Owner] = "new" => cntx = "none" /\ pc[Child] = "absent"

IInv == /\ TypeOK /\ Fresh
        /\ ~detached => Object
        /\ detached => Alone

(* No thread object and no context. *)
LEMMA Initial == Init => IInv
<1>. SUFFICES ASSUME Init PROVE IInv
  OBVIOUS
<1>1. /\ pc[Child] = "absent" /\ pc[Owner] = "new"
      /\ \A u \in Users : pc[u] = "idle"
      /\ pc \in [Threads -> {"absent", "new", "idle"}]
  BY ThreadsAssumption DEF Init, Threads, Callers
<1>2. TypeOK
  BY <1>1, ThreadsAssumption
     DEF Init, TypeOK, States, Causes, Operations, CallerLocations, ChildLocations
<1>3. \A t \in Callers : op[t] = "none" /\ pc[t] \in {"new", "idle"}
  BY <1>1 DEF Init, Callers
<1>4. /\ Places /\ Operating
  BY <1>1, <1>3 DEF Places, Operating, CallerLocations, ChildLocations, Callers
<1>5. Mutex
  BY <1>1, <1>3, ThreadsAssumption DEF Init, Mutex, Threads
<1>6. Lifetime /\ Context /\ Progress /\ CancelNotLost
  BY <1>1, <1>3 DEF Init, Lifetime, Context, Progress, CancelNotLost
<1>7. Alone
  BY <1>3 DEF Init, Alone
<1>. QED  BY <1>1, <1>2, <1>4, <1>5, <1>6, <1>7 DEF Init, IInv, Object, Fresh

Typed == TypeOK /\ Fresh

(* A step keeps the types, also if the thread is detached.                 *)
LEMMA Typing == Typed /\ [Next]_vars => Typed'
<1>. SUFFICES ASSUME Typed, [Next]_vars PROVE Typed'
  OBVIOUS
<1>. USE ThreadsAssumption
     DEF Typed, Fresh, TypeOK, cntxVars, counts, States, Causes, Operations, others,
         CallerLocations, ChildLocations, Threads, Callers, Goto, Holding
<1>1. ASSUME Create PROVE Typed'
  BY <1>1 DEF Create
<1>2. ASSUME CreateFails PROVE Typed'
  BY <1>2 DEF CreateFails
<1>3. ASSUME NEW t \in Callers, NEW o \in {"cancel", "join", "timed"}, Call(t, o) PROVE Typed'
  BY <1>3 DEF Call
<1>4. ASSUME Destroy PROVE Typed'
  BY <1>4 DEF Destroy
<1>5. ASSUME NEW t \in Callers, Lock(t) PROVE Typed'
  BY <1>5 DEF Lock, Locked
<1>6. ASSUME NEW t \in Callers, Pass(t) PROVE Typed'
  BY <1>6 DEF Pass, Awaited
<1>7. ASSUME NEW t \in Callers, Wait(t) PROVE Typed'
  BY <1>7 DEF Wait, Unlocked
<1>8. ASSUME NEW t \in Callers, Cancel(t) PROVE Typed'
  BY <1>8 DEF Cancel
<1>9. ASSUME NEW t \in Callers, Unlock(t) PROVE Typed'
  BY <1>9 DEF Unlock, Unlocked
<1>10. ASSUME NEW t \in Callers, Timeout(t) \/ WakeSpuriously(t) PROVE Typed'
  <2>1. CASE Timeout(t)
    BY <2>1 DEF Timeout
  <2>2. CASE WakeSpuriously(t)
    BY <2>2 DEF WakeSpuriously, Awake
  <2>. QED  BY <1>10, <2>1, <2>2
<1>11. ASSUME Reap \/ Delete PROVE Typed'
  BY <1>11 DEF Reap, Delete
<1>12. ASSUME Start PROVE Typed'
  BY <1>12 DEF Start, Locked, GotoSignalling, Waiters, Awake
<1>13. ASSUME NEW from, NEW to,
              <<from, to>> \in {<<"started", "entry">>, <<"resume", "entry">>,
                                <<"leaving", "gone">>},
              Leave(from, to) PROVE Typed'
  BY <1>13 DEF Leave, Unlocked
<1>14. ASSUME TestCancel \/ CancelEnabled PROVE Typed'
  BY <1>14 DEF TestCancel, CancelEnabled, Locked
<1>15. ASSUME Unwind PROVE Typed'
  BY <1>15 DEF Unwind, End, Unlocked
<1>16. ASSUME Exit PROVE Typed'
  BY <1>16 DEF Exit, Locked, GotoSignalling, Waiters, Awake
<1>17. ASSUME ChildChoice PROVE Typed'
  BY <1>17 DEF ChildChoice, CallTestCancel, CallCancelEnabled, Complete, Throw, End
<1>18. ASSUME NEW t \in Threads, UseAfterFree(t) PROVE Typed'
  BY <1>18 DEF UseAfterFree, Touching
<1>19. ASSUME UNCHANGED vars \/ Finished PROVE Typed'
  BY <1>19 DEF vars, Finished
<1>. HIDE DEF Typed, TypeOK, Fresh, Callers, Threads
<1>. QED
  BY <1>1, <1>2, <1>3, <1>4, <1>5, <1>6, <1>7, <1>8, <1>9, <1>10,
     <1>11, <1>12, <1>13, <1>14, <1>15, <1>16, <1>17, <1>18, <1>19
     DEF Next, CallerStep, ChildStep

(* A step of a thread object, or of those who use it, keeps the rest.      *)
LEMMA Inductive ==
  ASSUME ~detached, TypeOK, TypeOK', Object, [Next]_vars
  PROVE  Object'
<1>. USE ThreadsAssumption
     DEF TypeOK, Object, Places, Mutex, Operating, Lifetime, Context, Progress,
         CancelNotLost, cntxVars, counts, States, Causes, Operations, others,
         CallerLocations, ChildLocations, Threads, Callers, Goto, Holding
<1>1. ASSUME Create PROVE Object'
  BY <1>1 DEF Create
<1>2. ASSUME CreateFails PROVE Object'
  BY <1>2 DEF CreateFails
<1>3. ASSUME NEW t \in Callers, NEW o \in {"cancel", "join", "timed"}, Call(t, o) PROVE Object'
  BY <1>3 DEF Call
<1>4. ASSUME Destroy PROVE Object'
  BY <1>4 DEF Destroy
<1>5. ASSUME NEW t \in Callers, Lock(t) PROVE Object'
  BY <1>5 DEF Lock, Locked
<1>6. ASSUME NEW t \in Callers, Pass(t) PROVE Object'
  BY <1>6 DEF Pass, Awaited
<1>7. ASSUME NEW t \in Callers, Wait(t) PROVE Object'
  BY <1>7 DEF Wait, Unlocked
<1>8. ASSUME NEW t \in Callers, Cancel(t) PROVE Object'
  BY <1>8 DEF Cancel
<1>9. ASSUME NEW t \in Callers, Unlock(t) PROVE Object'
  BY <1>9 DEF Unlock, Unlocked
<1>10. ASSUME NEW t \in Callers, Timeout(t) \/ WakeSpuriously(t) PROVE Object'
  <2>1. CASE Timeout(t)
    BY <2>1 DEF Timeout
  <2>2. CASE WakeSpuriously(t)
    BY <2>2 DEF WakeSpuriously, Awake
  <2>. QED  BY <1>10, <2>1, <2>2
<1>11. ASSUME Reap \/ Delete PROVE Object'
  BY <1>11 DEF Reap, Delete
<1>12. ASSUME Start PROVE Object'
  BY <1>12 DEF Start, Locked, GotoSignalling, Waiters, Awake
<1>13. ASSUME NEW from, NEW to,
              <<from, to>> \in {<<"started", "entry">>, <<"resume", "entry">>,
                                <<"leaving", "gone">>},
              Leave(from, to) PROVE Object'
  BY <1>13 DEF Leave, Unlocked
<1>14. ASSUME TestCancel \/ CancelEnabled PROVE Object'
  BY <1>14 DEF TestCancel, CancelEnabled, Locked
<1>15. ASSUME Unwind PROVE Object'
  BY <1>15 DEF Unwind, End, Unlocked
<1>16. ASSUME Exit PROVE Object'
  BY <1>16 DEF Exit, Locked, GotoSignalling, Waiters, Awake
<1>17. ASSUME ChildChoice PROVE Object'
  BY <1>17 DEF ChildChoice, CallTestCancel, CallCancelEnabled, Complete, Throw, End
<1>18. ASSUME NEW t \in Threads, UseAfterFree(t) PROVE Object'
  BY <1>18 DEF UseAfterFree, Touching
<1>19. ASSUME UNCHANGED vars \/ Finished PROVE Object'
  BY <1>19 DEF vars, Finished
<1>. HIDE DEF Object, Callers, Threads
<1>. QED
  BY <1>1, <1>2, <1>3, <1>4, <1>5, <1>6, <1>7, <1>8, <1>9, <1>10,
     <1>11, <1>12, <1>13, <1>14, <1>15, <1>16, <1>17, <1>18, <1>19
     DEF Next, CallerStep, ChildStep

(* Nor does anything come to call a detached thread, or to revive it.      *)
LEMMA StaysAlone ==
  ASSUME detached, TypeOK, Fresh, Alone, [Next]_vars
  PROVE  Alone' /\ (m_state = "exited" => m_state' = "exited")
<1>. USE ThreadsAssumption
     DEF TypeOK, Fresh, Alone, cntxVars, counts, others, Goto, Callers, Threads
<1>1. ASSUME NEW t \in Callers, CallerStep(t) PROVE Alone' /\ UNCHANGED m_state
  <2>1. CASE Lock(t)
    BY <2>1 DEF Lock, Locked
  <2>2. CASE Pass(t) \/ Wait(t)
    BY <2>2 DEF Pass, Wait, Unlocked
  <2>6. CASE Timeout(t) 
    BY <2>6 DEF  Timeout
  <2>7. CASE Cancel(t)
    BY <2>7 DEF Cancel
  <2>8. CASE Reap
    BY <2>8 DEF Reap
  <2>9. CASE Delete
    BY <2>9 DEF Delete
  <2>3. CASE Unlock(t)
    BY <2>3 DEF Unlock, Unlocked
  <2>4. CASE Create
    BY <2>4 DEF Create
  <2>5. CASE CreateFails
    BY <2>5 DEF CreateFails
  <2>. QED  BY <1>1, <2>1, <2>2, <2>3, <2>4, <2>5, <2>6, <2>7, <2>8, <2>9 DEF CallerStep
<1>2. ASSUME ChildStep PROVE Alone' /\ (m_state = "exited" => m_state' = "exited")
  <2>1. UNCHANGED <<object, asked, op>>
    BY <1>2 DEF ChildStep, Start, Leave, TestCancel, CancelEnabled, Unwind, End, Exit
  <2>. HIDE DEF Goto
  <2>3. CASE Start
    BY <2>1, <2>3 DEF Start, Locked
  <2>4. CASE \E from, to \in ChildLocations : Leave(from, to)
    BY <2>1, <2>4 DEF Leave
  <2>5. CASE TestCancel \/ CancelEnabled \/ Unwind
    BY <2>1, <2>5 DEF TestCancel, CancelEnabled, Unwind, End
  <2>6. CASE Exit
    BY <2>1, <2>6 DEF Exit, Locked
  <2>. QED
    BY <1>2, <2>3, <2>4, <2>5, <2>6 DEF ChildStep, ChildLocations
<1>3. ASSUME ChildChoice PROVE Alone' /\ UNCHANGED m_state
  <2>1. CASE CallTestCancel
    BY <2>1 DEF CallTestCancel
  <2>2. CASE CallCancelEnabled
    BY <2>2 DEF CallCancelEnabled
  <2>3. CASE Complete
    BY <2>3 DEF Complete, End
  <2>4. CASE Throw
    BY <2>4 DEF Throw, End
  <2>. QED  BY <1>3, <2>1, <2>2, <2>3, <2>4 DEF ChildChoice
<1>4. ASSUME UNCHANGED vars \/ Finished PROVE Alone' /\ UNCHANGED m_state
  <2>1. UNCHANGED vars
    BY <1>4 DEF Finished
  <2>. QED  BY <2>1 DEF vars
<1>5. ASSUME NEW t \in Callers, WakeSpuriously(t) PROVE Alone' /\ UNCHANGED m_state
  BY <1>5 DEF WakeSpuriously
<1>6. ASSUME NEW t \in Threads, UseAfterFree(t) PROVE Alone' /\ UNCHANGED m_state
  BY <1>6 DEF UseAfterFree
<1>7. ~Destroy /\ \A t \in Callers, operation \in {"cancel", "join", "timed"} :
                    ~Call(t, operation)
  BY DEF Destroy, Call
<1>. QED  BY <1>1, <1>2, <1>3, <1>4, <1>5, <1>6, <1>7 DEF Next

(* The invariant holds in every behaviour. *)
LEMMA Invariance == Spec => []IInv
<1>1. IInv /\ [Next]_vars => UNCHANGED detached
  BY DEF Next, vars, CallerStep, ChildStep, ChildChoice, Create, CreateFails,
         Call, Destroy, Lock, Pass, Wait, Cancel, WakeSpuriously, Timeout, Unlock,
         Reap, Delete, Start, Leave, CallTestCancel, TestCancel, CallCancelEnabled,
         CancelEnabled, End, Complete, Throw, Unwind, Exit, UseAfterFree, Finished
<1>2. IInv /\ [Next]_vars => IInv'
  BY <1>1, Typing, Inductive, StaysAlone DEF IInv, Typed
<1>. QED  BY <1>2, Initial, PTL DEF Spec

(* Every variable keeps its type.                                          *)
THEOREM TypeCorrect == Spec => []TypeOK
BY Invariance, PTL DEF IInv

(* Nobody touches the context of a thread object after it was deleted.     *)
THEOREM ContextOutlivesUse == Spec => []NoUseAfterFree
<1>1. IInv => NoUseAfterFree
  BY DEF IInv, Object, Places, NoUseAfterFree, Threads
<1>. QED  BY <1>1, Invariance, PTL

(* join() and ~thread() mean that the routine is over.                     *)
THEOREM JoinIsTrue == Spec => []JoinedMeansOver
<1>1. IInv => JoinedMeansOver
  BY DEF IInv, Object, Alone, Progress, JoinedMeansOver
<1>. QED  BY <1>1, Invariance, PTL

(* No request to cancel is lost.                                           *)
THEOREM CancelStays == Spec => []CancelNotLost
<1>1. IInv => CancelNotLost
  BY DEF IInv, Object, Alone, CancelNotLost
<1>. QED  BY <1>1, Invariance, PTL

(* m_state stays "exited": whoever could set it is through. *)
LEMMA Exited ==
  ASSUME IInv, [Next]_vars, m_state = "exited"
  PROVE  m_state' = "exited"
<1>. SUFFICES ASSUME ~detached PROVE m_state' = "exited"
  BY StaysAlone DEF IInv
<1>1. pc[Child] \in {"leaving", "gone"}
  BY DEF IInv, Object, Progress
<1>2. \A from, to : Leave(from, to) => UNCHANGED m_state
  BY DEF Leave, cntxVars
<1>3. \A t \in Callers : CallerStep(t) => UNCHANGED m_state
  BY DEF CallerStep, Lock, Pass, Wait, Cancel, Unlock, Timeout, Create,
         CreateFails, Reap, Delete, cntxVars
<1>4. ChildStep => UNCHANGED m_state
  BY <1>1, <1>2 DEF ChildStep, Start, TestCancel, CancelEnabled, Unwind, Exit,
                    GotoSignalling, Goto, cntxVars
<1>. QED
  BY <1>1, <1>3, <1>4
     DEF Next, Call, Destroy, WakeSpuriously, ChildChoice, CallTestCancel,
         CallCancelEnabled, Complete, Throw, UseAfterFree, Finished, End, Goto,
         cntxVars, vars

(* A thread that has exited stays exited.                                  *)
THEOREM ExitStays == Spec => ExitedIsFinal
<1>1. IInv /\ [Next]_vars => [m_state = "exited" => m_state' = "exited"]_vars
  BY Exited
<1>. QED  BY <1>1, Invariance, PTL DEF Spec, ExitedIsFinal

(* What join(timer) is about to answer is true from the signal on.  There  *)
(* are two signals; the first one is sent before there is an object whose  *)
(* join(timer) could wait for it.                                          *)
Told ==
  wakeups = 0 =>
    \A t \in Callers :
      op[t] = "timed" /\ pc[t] \in {"relock", "unlock"} /\ answer[t]
        => m_state = "exited"

(* What a timed join has been told stays true. *)
LEMMA StaysTold ==
  ASSUME IInv, Told, [Next]_vars
  PROVE  Told'
<1>. USE ThreadsAssumption DEF IInv, Told, Goto, cntxVars, counts, others
<1>t. /\ pc \in [Threads -> CallerLocations \cup ChildLocations]
      /\ op \in [Callers -> Operations] /\ answer \in [Callers -> BOOLEAN]
      /\ wakeups \in Nat /\ Child \in Threads /\ Child \notin Callers
      /\ Owner \in Callers /\ \A t \in Callers : t \in Threads
      /\ m_state = "exited" => m_state' = "exited"
  BY Exited DEF TypeOK, Threads, Callers
<1>. HIDE DEF IInv
<1>1. ASSUME Create \/ CreateFails \/ Reap \/ Delete PROVE Told'
  BY <1>1, <1>t DEF Create, CreateFails, Reap, Delete
<1>2. ASSUME NEW t \in Callers, NEW o \in {"cancel", "join", "timed"}, Call(t, o)
      PROVE  Told'
  BY <1>2, <1>t DEF Call
<1>3. ASSUME Destroy PROVE Told'
  BY <1>3, <1>t DEF Destroy
<1>4. ASSUME NEW t \in Callers, Lock(t) PROVE Told'
  BY <1>4, <1>t DEF Lock, Locked
<1>5. ASSUME NEW t \in Callers, Pass(t) PROVE Told'
  BY <1>5, <1>t DEF Pass, Awaited
<1>6. ASSUME NEW t \in Callers, Wait(t) PROVE Told'
  BY <1>6, <1>t DEF Wait, Unlocked
<1>7. ASSUME NEW t \in Callers, Cancel(t) PROVE Told'
  BY <1>7, <1>t DEF Cancel
<1>8. ASSUME NEW t \in Callers, Unlock(t) PROVE Told'
  BY <1>8, <1>t DEF Unlock, Unlocked
<1>9. ASSUME NEW t \in Callers, Timeout(t) PROVE Told'
  BY <1>9, <1>t DEF Timeout
<1>10. ASSUME NEW t \in Callers, WakeSpuriously(t) PROVE Told'
  BY <1>10, <1>t DEF WakeSpuriously
<1>11. ASSUME Start PROVE Told'
  <2>1. \A t \in Waiters : op[t] # "timed"
    <3> SUFFICES ASSUME NEW t \in Callers, pc[t] = "wait", op[t] = "timed"
                 PROVE  FALSE
      BY DEF Waiters
    <3>1. ~detached /\ Object
      BY DEF IInv, Alone
    <3>2. m_state = "initializing"
      BY <1>11, <3>1 DEF Start, GotoSignalling, Object, Progress
    <3>3. object = "none"
      BY <3>1, <3>2 DEF Object, Progress
    <3>4. t = Owner
      BY <3>1, <3>3 DEF Object, Lifetime, Callers
    <3> QED
      BY <3>1, <3>3, <3>4 DEF Object, Lifetime
  <2>2. \A t \in Callers :
          op[t] = "timed" => pc'[t] = pc[t] /\ op'[t] = op[t] /\ answer'[t] = answer[t]
    BY <1>11, <1>t, <2>1 DEF Start, GotoSignalling
  <2>. QED
    BY <1>11, <1>t, <2>2 DEF Start
<1>12. ASSUME NEW from, NEW to, Leave(from, to) PROVE Told'
  BY <1>12, <1>t DEF Leave, Unlocked
<1>13. ASSUME TestCancel \/ CancelEnabled \/ Unwind PROVE Told'
  BY <1>13, <1>t DEF TestCancel, CancelEnabled, Unwind, Locked, Unlocked, End
<1>14. ASSUME Exit PROVE Told'
  BY <1>14 DEF Exit
<1>15. ASSUME ChildChoice PROVE Told'
  BY <1>15, <1>t
     DEF ChildChoice, CallTestCancel, CallCancelEnabled, Complete, Throw, End
<1>16. ASSUME NEW t \in Threads, UseAfterFree(t) PROVE Told'
  BY <1>16, <1>t DEF UseAfterFree
<1>17. ASSUME UNCHANGED vars \/ Finished PROVE Told'
  BY <1>17 DEF vars, Finished
<1>. HIDE DEF Told
<1>. QED
  BY <1>1, <1>2, <1>3, <1>4, <1>5, <1>6, <1>7, <1>8, <1>9, <1>10, <1>11, <1>12,
     <1>13, <1>14, <1>15, <1>16, <1>17
     DEF Next, CallerStep, ChildStep

(* Unless a waiter wakes without a signal, join(timer) returns true only   *)
(* for a thread that has exited, although it does not look again.          *)
THEOREM TimedJoinIsTrue == Spec => []TimedJoinTruthful
<1>1. Init => Told
  BY DEF Init, Told
<1>2. Told => TimedJoinTruthful
  BY DEF Told, TimedJoinTruthful
<1>. QED  BY <1>1, <1>2, Invariance, StaysTold, PTL DEF Spec
=============================================================================
