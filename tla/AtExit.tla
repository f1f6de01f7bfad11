------------------------------- MODULE AtExit -------------------------------
(***************************************************************************)
(* k2::runtime::atexit and its atexit_stack (source/runtime.cpp): a list   *)
(* of tasks, ordered by priority, whose routines exec() calls at exit.     *)
(*                                                                         *)
(* Pushes hold the spin lock, so that only exec(), which does not take it, *)
(* can see one half done.  A push that exec() cannot interrupt - one made  *)
(* before the exit, or by a routine that exec() is running - is one step;  *)
(* where another thread pushes during the exit, the statements of its push *)
(* and of exec() are steps of their own, which read pstack anew.           *)
(***************************************************************************)
EXTENDS Integers, Sequences, FiniteSets

CONSTANTS
  Tasks,      \* the registrations that may be made, each at most once
  Prio,       \* Prio[t]: the priority given for t
  Null,       \* the null pointer
  Settings    \* [dl, nesting, racing]: the programs looked at

ASSUME TasksAssumption   == IsFiniteSet(Tasks) /\ Null \notin Tasks
ASSUME PrioAssumption    == Prio \in [Tasks -> Int]
ASSUME SettingsAssumption ==
  Settings \subseteq [dl : BOOLEAN, nesting : BOOLEAN, racing : BOOLEAN]

(***************************************************************************)
(* setting.dl        k2 is a shared library: only fini() calls exec()      *)
(* setting.nesting   routines register tasks while exec() runs them        *)
(* setting.racing    other threads do, at any time of the exit             *)
(***************************************************************************)
VARIABLES
  setting,    \* fixed from the start
  pstack,     \* atexit_stack::pstack
  pnext,      \* pnext[t]: atexit_task::pnext of t
  heap,       \* heap[t]: not allocated yet, allocated, or deleted
  phase,      \* where exec() is
  local,      \* exec()'s own pnext
  due,        \* calls of exec() that std::atexit() and fini() still owe
  pushed,     \* history: the tasks registered, in order
  early,      \* history: how many of them before the exit began
  ran,        \* history: the tasks whose routine was called, in order
  dangling,   \* history: somebody followed a pointer to nothing or to a deleted task
  push        \* [task, at, p]: the push of another thread during the exit

list  == <<pstack, pnext, heap>>
exec  == <<phase, local, due>>
calls == <<pushed, early, ran>>
vars  == <<setting, list, exec, calls, dangling, push>>

(***************************************************************************)
(*   open      main() is running         between   exit(), no exec() active *)
(*   loop      at the while              loaded    local has been read     *)
(*   running   in the routine            called    back from it            *)
(*   deleted   the head is deleted, pstack not advanced yet                *)
(*   closed    all the calls of exec() have been made                      *)
(***************************************************************************)
Phases == {"open", "between", "loop", "loaded", "running", "called", "deleted",
           "closed"}

(***************************************************************************)
(* A push goes   none -> head -> store -> ask -> none    at the head,      *)
(*                    -> rest -> last -> ask             at the end,       *)
(*                    -> rest -> walk -> splice -> ask   between two; and  *)
(*   fault  where it dereferences the null pointer                         *)
(***************************************************************************)
Places == {"none", "head", "store", "rest", "last", "walk", "splice", "ask", "fault"}

NoPush == [task |-> Null, at |-> "none", p |-> Null]

Deleted(u) == u # Null /\ heap[u] = "deleted"

Elements(s) == {s[i] : i \in DOMAIN s}

(* The list that starts at pstack, as far as it goes.                      *)
Node[n \in 0 .. Cardinality(Tasks)] ==
  IF n = 0 THEN pstack
  ELSE IF Node[n - 1] = Null THEN Null ELSE pnext[Node[n - 1]]

-----------------------------------------------------------------------------
Init == /\ setting \in Settings
        /\ pstack = Null
        /\ pnext = [t \in Tasks |-> Null]
        /\ heap = [t \in Tasks |-> "free"]
        /\ phase = "open"
        /\ local = Null
        /\ due = 0
        /\ pushed = <<>>
        /\ early = 0
        /\ ran = <<>>
        /\ dangling = FALSE
        /\ push = NoPush

(* Mutant: a task goes after those of its own priority.                    *)
GoesBeforeHigher(t, u) == u # Null => Prio[t] > Prio[u]

(* Where the walk stops: t belongs before u.                               *)
GoesBefore(t, u) == u # Null => Prio[t] >= Prio[u]

(* The walk passes the first n tasks and stops there.                      *)
StopsAfter(t, n) ==
  /\ GoesBefore(t, Node[n])
  /\ \A m \in 0 .. n - 1 : ~GoesBefore(t, Node[m])

(* Mutant: a task put between two others does not lead to the second.      *)
LinkLosingRest(t, n) ==
  /\ pnext' = IF n = 0 THEN [pnext EXCEPT ![t] = pstack]
              ELSE [pnext EXCEPT ![Node[n - 1]] = t]
  /\ pstack' = IF n = 0 THEN t ELSE pstack
  /\ heap' = [heap EXCEPT ![t] = "allocated"]
  /\ UNCHANGED dangling

(* atexit_stack::push(): at the head, between two tasks, or at the end.    *)
Link(t, n) ==
  /\ pnext' = IF n = 0 THEN [pnext EXCEPT ![t] = pstack]
              ELSE [pnext EXCEPT ![t] = Node[n], ![Node[n - 1]] = t]
  /\ pstack' = IF n = 0 THEN t ELSE pstack
  /\ heap' = [heap EXCEPT ![t] = "allocated"]
  /\ dangling' = (dangling \/ \E m \in 0 .. n : Deleted(Node[m]))

(* atexit_impl(): exec_registered is never set, so every registration asks *)
(* std::atexit() for one more call of exec().                              *)
Register(t) ==
  /\ \/ phase = "open"
     \/ phase = "running" /\ setting.nesting /\ ~setting.racing
  /\ heap[t] = "free"
  /\ \E n \in 0 .. Cardinality(Tasks) : StopsAfter(t, n) /\ Link(t, n)
  /\ due' = IF setting.dl THEN due ELSE due + 1
  /\ pushed' = Append(pushed, t)
  /\ early' = IF phase = "open" THEN early + 1 ELSE early
  /\ UNCHANGED <<setting, phase, local, ran, push>>

-----------------------------------------------------------------------------
(* atexit_impl() in another thread while the process exits: it takes the   *)
(* lock, allocates the task and compares its priority with the head's.     *)
PushStarts(t) ==
  /\ setting.racing /\ phase \notin {"open", "closed"}
  /\ push.at = "none" /\ heap[t] = "free"
  /\ push' = [task |-> t, at |-> IF GoesBefore(t, pstack) THEN "head" ELSE "rest", p |-> Null]
  /\ heap' = [heap EXCEPT ![t] = "allocated"]
  /\ pushed' = Append(pushed, t)
  /\ dangling' = (dangling \/ Deleted(pstack))
  /\ UNCHANGED <<setting, pstack, pnext, exec, early, ran>>

PushGoes(from, to) ==
  /\ push.at = from /\ phase # "closed"
  /\ push' = [push EXCEPT !.at = to]
  /\ UNCHANGED <<setting, heap, exec, calls>>

(* ptask->pnext = pstack;                                                  *)
PushReadsHead == /\ PushGoes("head", "store")
                 /\ pnext' = [pnext EXCEPT ![push.task] = pstack]
                 /\ UNCHANGED <<pstack, dangling>>

(* pstack = ptask;                                                         *)
PushStoresHead == /\ PushGoes("store", "ask")
                  /\ pstack' = push.task
                  /\ UNCHANGED <<pnext, dangling>>

(* if (pstack->pnext)                                                      *)
PushLooksOn ==
  /\ push.at = "rest" /\ phase # "closed"
  /\ push' = [push EXCEPT !.at = CASE pstack = Null -> "fault"
                                   [] pstack # Null /\ pnext[pstack] = Null -> "last"
                                   [] OTHER -> "walk",
                          !.p = pstack]
  /\ dangling' = (dangling \/ pstack = Null \/ Deleted(pstack))
  /\ UNCHANGED <<setting, list, exec, calls>>

(* Appending, to what pstack is by then or was before.                     *)
PushAppends ==
  \E p \in {push.p, pstack} :
    /\ PushGoes("last", IF p = Null THEN "fault" ELSE "ask")
    /\ pnext' = IF p = Null THEN pnext ELSE [pnext EXCEPT ![p] = push.task]
    /\ dangling' = (dangling \/ p = Null \/ Deleted(p))
    /\ UNCHANGED pstack

(* One turn of the for statement.                                          *)
PushWalks ==
  /\ push.at = "walk" /\ phase # "closed"
  /\ push' = IF GoesBefore(push.task, pnext[push.p])
             THEN [push EXCEPT !.at = "splice"]
             ELSE [push EXCEPT !.p = pnext[push.p]]
  /\ dangling' = (dangling \/ Deleted(push.p) \/ Deleted(pnext[push.p]))
  /\ UNCHANGED <<setting, list, exec, calls>>

PushSplices ==
  /\ PushGoes("splice", "ask")
  /\ pnext' = [pnext EXCEPT ![push.task] = pnext[push.p], ![push.p] = push.task]
  /\ dangling' = (dangling \/ Deleted(push.p))
  /\ UNCHANGED pstack

(* std::atexit(), and the lock is released.                                *)
PushEnds == /\ push.at = "ask" /\ phase # "closed"
            /\ push' = NoPush
            /\ due' = IF setting.dl THEN due ELSE due + 1
            /\ UNCHANGED <<setting, list, phase, local, calls, dangling>>

PushStep == \/ \E t \in Tasks : PushStarts(t)
            \/ PushReadsHead \/ PushStoresHead
            \/ PushLooksOn \/ PushAppends
            \/ PushWalks \/ PushSplices
            \/ PushEnds

-----------------------------------------------------------------------------
(* The process exits; fini() will call exec() once more.                   *)
Exit == /\ phase = "open"
        /\ phase' = "between"
        /\ due' = due + 1
        /\ UNCHANGED <<setting, list, local, calls, dangling, push>>

(* The next call of exec(), or the end.                                    *)
ExecStarts ==
  /\ phase = "between"
  /\ phase' = IF due > 0 THEN "loop" ELSE "closed"
  /\ due' = IF due > 0 THEN due - 1 ELSE 0
  /\ UNCHANGED <<setting, list, local, calls, dangling, push>>

(* while (pstack) { pnext = pstack->pnext;                                 *)
Load == /\ phase = "loop"
        /\ IF pstack = Null
           THEN phase' = "between" /\ UNCHANGED local
           ELSE phase' = "loaded" /\ local' = pnext[pstack]
        /\ dangling' = (dangling \/ Deleted(pstack))
        /\ UNCHANGED <<setting, list, due, calls, push>>

(* pstack->routine(pstack->arg);                                           *)
Call == /\ phase = "loaded"
        /\ phase' = "running"
        /\ ran' = Append(ran, pstack)
        /\ UNCHANGED <<setting, list, local, due, pushed, early, dangling, push>>

Return == /\ phase = "running"
          /\ phase' = "called"
          /\ UNCHANGED <<setting, list, local, due, calls, dangling, push>>

(* delete pstack;                                                          *)
Delete == /\ phase = "called"
          /\ phase' = "deleted"
          /\ heap' = [heap EXCEPT ![pstack] = "deleted"]
          /\ UNCHANGED <<setting, pstack, pnext, local, due, calls, dangling, push>>

(* Mutant: pstack is not advanced.                                         *)
Stay == /\ phase = "deleted"
        /\ phase' = "loop"
        /\ UNCHANGED <<setting, list, local, due, calls, dangling, push>>

(* pstack = pnext; }                                                       *)
Advance == /\ phase = "deleted"
           /\ phase' = "loop"
           /\ pstack' = local
           /\ UNCHANGED <<setting, pnext, heap, local, due, calls, dangling, push>>

ExecStep == ExecStarts \/ Load \/ Call \/ Return \/ Delete \/ Advance

Closed == phase = "closed" /\ UNCHANGED vars

Next == (\E t \in Tasks : Register(t)) \/ PushStep \/ Exit \/ ExecStep \/ Closed

Spec == Init /\ [][Next]_vars

(* Once the exit has begun, the exiting thread runs.                       *)
FairSpec == Spec /\ WF_vars(ExecStep)

-----------------------------------------------------------------------------
TypeOK == /\ setting \in Settings
          /\ pstack \in Tasks \cup {Null} /\ local \in Tasks \cup {Null}
          /\ pnext \in [Tasks -> Tasks \cup {Null}]
          /\ heap \in [Tasks -> {"free", "allocated", "deleted"}]
          /\ phase \in Phases
          /\ phase \in {"loaded", "running", "called", "deleted"} => pstack # Null
          /\ due \in Nat /\ early \in Nat
          /\ pushed \in Seq(Tasks) /\ ran \in Seq(Tasks)
          /\ dangling \in BOOLEAN
          /\ push \in [task : Tasks \cup {Null}, at : Places, p : Tasks \cup {Null}]
          /\ push.at # "none" => push.task # Null
          /\ push.at \in {"last", "walk", "splice"} => push.p # Null

Index(s, t) == CHOOSE i \in DOMAIN s : s[i] = t

(* The order that exec() keeps: by priority, and the later registered      *)
(* first.                                                                  *)
Precedes(t, u) == \/ Prio[t] > Prio[u]
                  \/ Prio[t] = Prio[u] /\ Index(pushed, t) > Index(pushed, u)

EarlyTasks == {pushed[i] : i \in 1 .. early}

(* The tasks registered before the exit are called in that order, even if  *)
(* their routines push others in between.                                  *)
CalledInOrder ==
  ~setting.racing =>
    \A i, j \in DOMAIN ran :
      i < j /\ {ran[i], ran[j]} \subseteq EarlyTasks => Precedes(ran[i], ran[j])

NoneTwice == \A i, j \in DOMAIN ran : i # j => ran[i] # ran[j]

(* No routine is called twice, although exec() is called once for every    *)
(* registration, and no push walks over a task that exec() has deleted,    *)
(* even from within a routine.  If another thread registers while the      *)
(* process exits, this is not so: but then a routine is called again only  *)
(* from a task that was deleted, after exec() has followed a pointer to it.*)
CalledOnce == /\ NoneTwice \/ dangling
              /\ ~setting.racing => ~dangling

(* No routine is called twice, whoever registers meanwhile ("destruction   *)
(* once" of the singletons, whose first instance() may come from any       *)
(* thread).                                                                *)
CalledOnceWhoeverPushes == NoneTwice

(* The tasks registered before the exit are all called.                    *)
EarlyCalled ==
  ~setting.racing /\ phase = "between" ~> EarlyTasks \subseteq Elements(ran)

(* Not so: every registration is called before the process ends.  What a    *)
(* routine pushes in front of the task that exec() holds for the next is   *)
(* dropped (runtime.cpp:199).                                              *)
NothingLost == phase = "closed" => Elements(pushed) \subseteq Elements(ran)
=============================================================================
