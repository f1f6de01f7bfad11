---------------------------- MODULE AtExitProofs ----------------------------
(***************************************************************************)
(* exec() calls the tasks of an atexit_stack in order and each once,       *)
(* however many there are, and whatever their routines push meanwhile.     *)
(*                                                                         *)
(* The inductive invariant follows the list that starts at pstack: it is   *)
(* ordered, it ends, and exec()'s own pnext points into it, at the first   *)
(* of the tasks that are still to be called.  A push between the head and  *)
(* that task is lost to exec(), and a push before the head has exec()      *)
(* delete the wrong task; but none of this brings back one already called. *)
(* Nor is a task lost that was registered before the exit: those are in the*)
(* list or were called until exec() ends (Kept), whatever is pushed.       *)
(* All this ends when another thread may push during the exit: the list    *)
(* need not even be one then.                                              *)
(***************************************************************************)
EXTENDS AtExit, FiniteSetTheorems, SequenceTheorems, WellFoundedInduction, TLAPS

USE DEF list, exec, calls

(* exec() has read pstack->pnext and has not advanced yet.                 *)
Inside == {"loaded", "running", "called", "deleted"}

(* Of two tasks registered before the exit, t is called first.             *)
Before(t, u) == {t, u} \subseteq EarlyTasks => Precedes(t, u)

(* The list is q.                                                          *)
Chain(n, q) ==
  /\ \A i, j \in 1 .. n : q[i] = q[j] => i = j
  /\ pstack = IF n = 0 THEN Null ELSE q[1]
  /\ \A i \in 1 .. n : pnext[q[i]] = IF i = n THEN Null ELSE q[i + 1]

Sorted(n, q) == \A i, j \in 1 .. n : i < j => Precedes(q[i], q[j])

(* What is deleted is not in the list, but for a moment at its start.      *)
Alive(n, q, k) ==
  \A i \in 1 .. n : heap[q[i]] = "allocated" \/ (/\ heap[q[i]] = "deleted"
                                                 /\ phase = "deleted" /\ i < k)

(* The task q[i] is still to be called.                                    *)
Uncalled(u) == u \notin Elements(ran) /\ \A v \in Elements(ran) : Before(v, u)

ToCall(n, q, k) ==
  \A i \in 1 .. n : i >= k \/ phase = "loaded" => Uncalled(q[i])

(* exec() goes on at the k-th task.                                        *)
GoesOnAt(n, q, k) ==
  /\ phase \in Inside => k > 1 /\ local = IF k = n + 1 THEN Null ELSE q[k]
  /\ phase \notin Inside => k = 1

(* Nothing is lost of what was registered before the exit: it has been     *)
(* called, or exec() will come to it.                                      *)
Pending(u, n, q, k) ==
  \E i \in 1 .. n : q[i] = u /\ (i >= k \/ (phase = "loaded" /\ i = 1))

Kept(n, q, k) ==
  \A u \in EarlyTasks : u \in Elements(ran) \/ Pending(u, n, q, k)

Listed(n, q, k) == /\ Chain(n, q) /\ Sorted(n, q) /\ Alive(n, q, k)
                   /\ ToCall(n, q, k) /\ GoesOnAt(n, q, k) /\ Kept(n, q, k)

List == \E n \in Nat : \E q \in [1 .. n -> Tasks], k \in 1 .. n + 1 : Listed(n, q, k)

(* What was registered and what was called.                                *)
History ==
  /\ \A i, j \in DOMAIN pushed : pushed[i] = pushed[j] => i = j
  /\ \A t \in Tasks : heap[t] # "free" <=> t \in Elements(pushed)
  /\ early <= Len(pushed)
  /\ phase = "open" => early = Len(pushed) /\ ran = <<>>
  /\ Elements(ran) \subseteq Elements(pushed)
  /\ \A i, j \in DOMAIN ran : ran[i] = ran[j] => i = j
  /\ \A i, j \in DOMAIN ran : i < j => Before(ran[i], ran[j])
  /\ ~dangling

Orderly == TypeOK /\ History /\ List

(* Another thread may have pushed between two statements of exec().        *)
Disturbed == setting.racing /\ phase # "open"

IInv == TypeOK /\ (Disturbed \/ (Orderly /\ push = NoPush))

(* exec() is called again as long as there are tasks.                      *)
Emptied ==
  ~setting.racing =>
    /\ phase = "between" => due > 0 \/ pstack = Null
    /\ phase = "closed" => pstack = Null

-----------------------------------------------------------------------------
(* Two functions that start alike and go on alike are alike.               *)
GoOnAlike(f, g, k) == /\ f[0] = g[0]
                      /\ \A n \in 1 .. k : f[n - 1] = g[n - 1] => f[n] = g[n]
Alike(f, g, k) == \A n \in 0 .. k : f[n] = g[n]

(* The values of the two functions agree up to k: there is no least place where they
   part. *)
LEMMA StayAlike ==
  ASSUME NEW k \in Nat, NEW f, NEW g, GoOnAlike(f, g, k)
  PROVE  Alike(f, g, k)
  <1>. DEFINE R == {p \in Nat \X Nat : p[1] < p[2]}
              Unlike == {n \in 0 .. k : f[n] # g[n]}
  <1>1. IsWellFoundedOn(R, Nat)
    BY NatLessThanWellFounded DEF OpToRel
  <1>2. \A x, y \in Nat : y < x => <<y, x>> \in R
    OBVIOUS
  <1>3. SUFFICES ASSUME Unlike # {}  PROVE FALSE
    BY DEF Alike
  <1>4. Unlike \in SUBSET Nat
    OBVIOUS
  <1>5. \E x \in Unlike : \A y \in Unlike : ~(<<y, x>> \in R)
    <2>. HIDE DEF R, Unlike
    <2> QED
      BY <1>1, <1>3, <1>4, WFMin
  <1>6. PICK m \in Unlike : \A y \in Unlike : ~(y < m)
    <2>. HIDE DEF R, Unlike
    <2> QED
      BY <1>2, <1>4, <1>5
  <1>7. m \in 1 .. k /\ m - 1 \in 0 .. k /\ m - 1 < m
    BY DEF GoOnAlike
  <1>8. f[m - 1] = g[m - 1]
    BY <1>6, <1>7
  <1> QED
    BY <1>7, <1>8 DEF GoOnAlike

(* Node is the list, as far as it goes, and then Null.                     *)
LEMMA NodeIsList ==
  ASSUME TypeOK, NEW n \in Nat, NEW q \in [1 .. n -> Tasks], Chain(n, q)
  PROVE  /\ Cardinality(Tasks) \in Nat /\ n <= Cardinality(Tasks)
         /\ \A m \in 0 .. Cardinality(Tasks) : Node[m] = IF m < n THEN q[m + 1] ELSE Null
  <1>. DEFINE k == Cardinality(Tasks)
              GoesOn(f) == f = [m \in 0 .. k |->
                                  IF m = 0 THEN pstack
                                  ELSE IF f[m - 1] = Null THEN Null ELSE pnext[f[m - 1]]]
  <1>3. /\ \A i, j \in 1 .. n : q[i] = q[j] => i = j
        /\ pstack = IF n = 0 THEN Null ELSE q[1]
        /\ \A i \in 1 .. n : pnext[q[i]] = IF i = n THEN Null ELSE q[i + 1]
    BY DEF Chain
  <1>4. k \in Nat /\ n <= k
    <2>1. q \in Injection(1 .. n, Tasks)
      BY <1>3 DEF Injection, IsInjective
    <2>2. IsFiniteSet(Tasks) /\ k \in Nat
      BY TasksAssumption, FS_CardinalityType
    <2>3. Cardinality(1 .. n) <= k
      BY <2>1, <2>2, FS_Injection
    <2>4. Cardinality(1 .. n) = IF 1 > n THEN 0 ELSE n - 1 + 1
      BY FS_Interval
    <2> QED
      BY <2>2, <2>3, <2>4
  <1>. DEFINE f == [m \in 0 .. k |-> IF m < n THEN q[m + 1] ELSE Null]
  <1>. HIDE DEF k
  <1>5. f[0] = pstack
    BY <1>3, <1>4
  <1>6. ASSUME NEW m \in 1 .. k
        PROVE  f[m] = IF f[m - 1] = Null THEN Null ELSE pnext[f[m - 1]]
    <2>1. /\ m - 1 \in 0 .. k /\ (m - 1) + 1 = m
          /\ f[m - 1] = IF m - 1 < n THEN q[m] ELSE Null
          /\ f[m] = IF m < n THEN q[m + 1] ELSE Null
      BY <1>4
    <2>2. CASE m - 1 < n
      <3>1. m \in 1 .. n /\ q[m] \in Tasks
        BY <2>2
      <3>2. pnext[q[m]] = IF m = n THEN Null ELSE q[m + 1]
        BY <1>3, <3>1
      <3>. HIDE DEF f
      <3> QED
        BY <2>1, <2>2, <3>1, <3>2, TasksAssumption
    <2>3. CASE ~(m - 1 < n)
      BY <2>1, <2>3
    <2> QED
      BY <2>2, <2>3
  <1>7. GoesOn(f)
    <2>1. \A m \in 0 .. k : m # 0 => m \in 1 .. k
      BY <1>4
    <2>2. \A m \in 0 .. k : f[m] = IF m = 0 THEN pstack
                                  ELSE IF f[m - 1] = Null THEN Null ELSE pnext[f[m - 1]]
      <3>. HIDE DEF f
      <3> QED
        BY <1>5, <1>6, <2>1
    <2>3. f = [m \in 0 .. k |-> f[m]]
      OBVIOUS
    <2>. HIDE DEF f
    <2> QED
      BY <2>2, <2>3
  <1>8. GoesOn(Node)
    <2>1. Node = CHOOSE h : GoesOn(h)
      BY DEF Node, k
    <2>. HIDE DEF GoesOn
    <2> QED
      BY <1>7, <2>1
  <1>9. Alike(Node, f, k)
    <2>1. \A m \in 1 .. k : Node[m] = IF Node[m - 1] = Null THEN Null ELSE pnext[Node[m - 1]]
      <3>1. \A m \in 1 .. k : m \in 0 .. k /\ m # 0
        BY <1>4
      <3> QED
        BY <1>8, <3>1
    <2>2. Node[0] = pstack
      BY <1>4, <1>8
    <2>. HIDE DEF f
    <2>3. \A m \in 1 .. k : Node[m - 1] = f[m - 1] => Node[m] = f[m]
      BY <1>6, <2>1
    <2>4. GoOnAlike(Node, f, k)
      BY <1>5, <2>2, <2>3 DEF GoOnAlike
    <2> QED
      BY <1>4, <2>4, StayAlike
  <1> QED
    BY <1>4, <1>9 DEF Alike, k

-----------------------------------------------------------------------------
(* Where a task is in the sequence of those registered.                    *)
LEMMA Position ==
  ASSUME NEW s, NEW i \in DOMAIN s, \A x, y \in DOMAIN s : s[x] = s[y] => x = y
  PROVE  Index(s, s[i]) = i
  BY DEF Index

(* The empty list, of which exec() has read nothing. *)
LEMMA InitInv == Init => IInv
  <1>. SUFFICES ASSUME Init  PROVE IInv
    OBVIOUS
  <1>1. TypeOK
    <2>1. <<>> \in Seq(Tasks)
      OBVIOUS
    <2> QED
      BY <2>1, SettingsAssumption DEF Init, TypeOK, Phases, NoPush, Places
  <1>2. History
    BY DEF Init, History, Elements
  <1>3. List
    <2>. DEFINE q == [i \in 1 .. 0 |-> Null]
    <2>1. q \in [1 .. 0 -> Tasks] /\ 1 \in 1 .. 0 + 1
      OBVIOUS
    <2>2. Listed(0, q, 1)
      BY DEF Init, Listed, Chain, Sorted, Alive, ToCall, GoesOnAt, Inside,
             Kept, EarlyTasks
    <2> QED
      BY <2>1, <2>2 DEF List
  <1> QED
    BY <1>1, <1>2, <1>3 DEF Init, IInv, Orderly

-----------------------------------------------------------------------------
(* A task is registered: it is the latest, and among the others nothing    *)
(* changes.                                                                *)
LEMMA Latest ==
  ASSUME TypeOK, History, NEW t \in Tasks, heap[t] = "free", pushed' = Append(pushed, t)
  PROVE  /\ \A i, j \in DOMAIN pushed' : pushed'[i] = pushed'[j] => i = j
         /\ Elements(pushed') = Elements(pushed) \cup {t} /\ t \notin Elements(pushed)
         /\ \A u, v \in Elements(pushed) : Precedes(u, v)' <=> Precedes(u, v)
         /\ \A u \in Elements(pushed) : /\ Prio[t] >= Prio[u] => Precedes(t, u)'
                                        /\ Prio[u] > Prio[t] => Precedes(u, t)'
  <1>. DEFINE l == Len(pushed)
  <1>1. pushed \in Seq(Tasks) /\ l \in Nat /\ DOMAIN pushed = 1 .. l
    BY DEF TypeOK
  <1>2. /\ DOMAIN pushed' = 1 .. l + 1 /\ pushed'[l + 1] = t
        /\ \A i \in 1 .. l : pushed'[i] = pushed[i]
    BY <1>1
  <1>. HIDE DEF l
  <1>3. t \notin Elements(pushed) /\ \A i \in 1 .. l : pushed[i] # t
    BY <1>1 DEF History, Elements
  <1>4. \A i, j \in 1 .. l : pushed[i] = pushed[j] => i = j
    BY <1>1 DEF History
  <1>5. ASSUME NEW i \in DOMAIN pushed', NEW j \in DOMAIN pushed', pushed'[i] = pushed'[j]
        PROVE  i = j
    <2>1. (i \in 1 .. l \/ i = l + 1) /\ (j \in 1 .. l \/ j = l + 1)
      BY <1>1, <1>2
    <2> QED
      BY <1>2, <1>3, <1>4, <1>5, <2>1
  <1>6. Elements(pushed') = Elements(pushed) \cup {t}
    <2>1. \A i \in 1 .. l + 1 : i \in 1 .. l \/ i = l + 1
      BY <1>1
    <2>2. 1 .. l \subseteq 1 .. l + 1 /\ l + 1 \in 1 .. l + 1
      BY <1>1
    <2> QED
      BY <1>1, <1>2, <2>1, <2>2 DEF Elements
  <1>7. ASSUME NEW u \in Elements(pushed)
        PROVE  /\ Index(pushed', u) = Index(pushed, u) /\ Index(pushed, u) \in 1 .. l
               /\ Index(pushed', t) = l + 1
    <2>1. PICK i \in 1 .. l : u = pushed[i]
      BY <1>1 DEF Elements
    <2>2. Index(pushed, u) = i
      BY <1>1, <1>4, <2>1, Position
    <2>3. Index(pushed', pushed'[i]) = i /\ Index(pushed', pushed'[l + 1]) = l + 1
      <3>1. i \in DOMAIN pushed' /\ l + 1 \in DOMAIN pushed'
        BY <1>1, <1>2
      <3> QED
        BY <1>5, <3>1, Position
    <2> QED
      BY <1>2, <2>1, <2>2, <2>3
  <1>8. \A u, v \in Elements(pushed) : Precedes(u, v)' <=> Precedes(u, v)
    BY <1>7 DEF Precedes
  <1>9. \A u \in Elements(pushed) : /\ Prio[t] >= Prio[u] => Precedes(t, u)'
                                    /\ Prio[u] > Prio[t] => Precedes(u, t)'
    <2>1. ASSUME NEW u \in Elements(pushed)
          PROVE  u \in Tasks /\ Prio[u] \in Int /\ Prio[t] \in Int
      BY <1>1, PrioAssumption DEF Elements
    <2>2. ASSUME NEW u \in Elements(pushed)
          PROVE  Index(pushed', t) > Index(pushed', u)
      BY <1>1, <1>7
    <2> QED
      BY <2>1, <2>2 DEF Precedes
  <1> QED
    BY <1>3, <1>5, <1>6, <1>8, <1>9

(* The walk of a push stops within the list or at its end.                 *)
LEMMA Stops ==
  ASSUME TypeOK, NEW n \in Nat, NEW q \in [1 .. n -> Tasks], Chain(n, q), Sorted(n, q),
         NEW t \in Tasks, NEW m \in 0 .. Cardinality(Tasks), StopsAfter(t, m)
  PROVE  /\ m <= n
         /\ \A i \in 1 .. m : Node[i - 1] = q[i] /\ Prio[q[i]] > Prio[t]
         /\ Node[m] = IF m < n THEN q[m + 1] ELSE Null
         /\ \A i \in m + 1 .. n : Prio[t] >= Prio[q[i]]
  <1>1. /\ Cardinality(Tasks) \in Nat /\ n <= Cardinality(Tasks)
        /\ \A j \in 0 .. Cardinality(Tasks) : Node[j] = IF j < n THEN q[j + 1] ELSE Null
    BY NodeIsList
  <1>2. m <= n
    <2>1. SUFFICES ASSUME n < m  PROVE FALSE
      BY <1>1
    <2>2. n \in 0 .. m - 1 /\ Node[n] = Null
      BY <1>1, <2>1
    <2> QED
      BY <2>2 DEF StopsAfter, GoesBefore
  <1>3. ASSUME NEW i \in 1 .. m  PROVE Node[i - 1] = q[i] /\ Prio[q[i]] > Prio[t]
    <2>1. /\ i - 1 \in 0 .. m - 1 /\ i - 1 < n /\ (i - 1) + 1 = i
          /\ i - 1 \in 0 .. Cardinality(Tasks) /\ i \in 1 .. n
      BY <1>1, <1>2
    <2>2. Node[i - 1] = q[i] /\ q[i] \in Tasks
      BY <1>1, <2>1
    <2>3. ~(Prio[t] >= Prio[q[i]])
      BY <2>1, <2>2 DEF StopsAfter, GoesBefore
    <2> QED
      BY <2>2, <2>3, PrioAssumption
  <1>4. Node[m] = IF m < n THEN q[m + 1] ELSE Null
    BY <1>1
  <1>5. ASSUME NEW i \in m + 1 .. n  PROVE Prio[t] >= Prio[q[i]]
    <2>1. m + 1 \in 1 .. n /\ i \in 1 .. n /\ m < n
      BY <1>2
    <2>2. q[m + 1] \in Tasks /\ q[i] \in Tasks /\ Node[m] = q[m + 1]
      BY <1>4, <2>1
    <2>3. Prio[t] >= Prio[q[m + 1]]
      BY <2>2, TasksAssumption DEF StopsAfter, GoesBefore
    <2>4. m + 1 = i \/ Precedes(q[m + 1], q[i])
      BY <2>1 DEF Sorted
    <2>5. Prio[q[m + 1]] \in Int /\ Prio[q[i]] \in Int /\ Prio[t] \in Int
      BY <2>2, PrioAssumption
    <2>6. Prio[q[m + 1]] >= Prio[q[i]]
      BY <2>4, <2>5 DEF Precedes
    <2> QED
      BY <2>3, <2>5, <2>6
  <1> QED
    BY <1>2, <1>3, <1>4, <1>5

(* t is put into the list after its first m tasks.                         *)
Inserted(q, n, t, m) ==
  [i \in 1 .. n + 1 |-> IF i <= m THEN q[i] ELSE IF i = m + 1 THEN t ELSE q[i - 1]]

(* A list with one task put in at place m + 1: what is where. *)
LEMMA Inserting ==
  ASSUME NEW n \in Nat, NEW q \in [1 .. n -> Tasks], NEW t \in Tasks, NEW m \in 0 .. n
  PROVE  /\ Inserted(q, n, t, m) \in [1 .. n + 1 -> Tasks]
         /\ \A i \in 1 .. m : i \in 1 .. n /\ Inserted(q, n, t, m)[i] = q[i]
         /\ m + 1 \in 1 .. n + 1 /\ Inserted(q, n, t, m)[m + 1] = t
         /\ \A i \in m + 2 .. n + 1 : i - 1 \in m + 1 .. n /\ i - 1 \in 1 .. n
         /\ \A i \in m + 2 .. n + 1 : Inserted(q, n, t, m)[i] = q[i - 1]
         /\ \A i \in 1 .. n + 1 : i \in 1 .. m \/ i = m + 1 \/ i \in m + 2 .. n + 1
  BY DEF Inserted

(* push(): the task enters the sorted list, wherever exec() is. *)
LEMMA Registering ==
  ASSUME Orderly, NEW t \in Tasks, Register(t)
  PROVE  Orderly'
  <1>1. TypeOK /\ History
    BY DEF Orderly
  <1>2. PICK n \in Nat : \E q \in [1 .. n -> Tasks], k \in 1 .. n + 1 : Listed(n, q, k)
    BY DEF Orderly, List
  <1>3. PICK q \in [1 .. n -> Tasks], k \in 1 .. n + 1 : Listed(n, q, k)
    BY <1>2
  <1>4. PICK m \in 0 .. Cardinality(Tasks) : StopsAfter(t, m) /\ Link(t, m)
    BY DEF Register
  <1>5. /\ m \in 0 .. n
        /\ \A i \in 1 .. m : Node[i - 1] = q[i] /\ Prio[q[i]] > Prio[t]
        /\ Node[m] = IF m < n THEN q[m + 1] ELSE Null
        /\ \A i \in m + 1 .. n : Prio[t] >= Prio[q[i]]
    <2>1. TypeOK /\ Chain(n, q) /\ Sorted(n, q) /\ StopsAfter(t, m)
      BY <1>1, <1>3, <1>4 DEF Listed
    <2>2. /\ m <= n
          /\ \A i \in 1 .. m : Node[i - 1] = q[i] /\ Prio[q[i]] > Prio[t]
          /\ Node[m] = IF m < n THEN q[m + 1] ELSE Null
          /\ \A i \in m + 1 .. n : Prio[t] >= Prio[q[i]]
      BY <2>1, Stops, Zenon
    <2> QED
      BY <2>2
  <1>6. PICK r \in [1 .. n + 1 -> Tasks] : r = Inserted(q, n, t, m)
    BY <1>5, Inserting
  <1>7. /\ \A i \in 1 .. m : i \in 1 .. n /\ r[i] = q[i]
        /\ m + 1 \in 1 .. n + 1 /\ r[m + 1] = t
        /\ \A i \in m + 2 .. n + 1 :
             i - 1 \in m + 1 .. n /\ i - 1 \in 1 .. n /\ r[i] = q[i - 1]
        /\ \A i \in 1 .. n + 1 : i \in 1 .. m \/ i = m + 1 \/ i \in m + 2 .. n + 1
    <2>1. /\ \A i \in 1 .. m : i \in 1 .. n
          /\ m + 1 \in 1 .. n + 1
          /\ \A i \in m + 2 .. n + 1 : i - 1 \in m + 1 .. n /\ i - 1 \in 1 .. n
          /\ \A i \in 1 .. n + 1 : i \in 1 .. m \/ i = m + 1 \/ i \in m + 2 .. n + 1
      BY <1>5
    <2>2. /\ \A i \in 1 .. m : r[i] = q[i]
          /\ r[m + 1] = t
          /\ \A i \in m + 2 .. n + 1 : r[i] = q[i - 1]
      BY <1>5, <1>6 DEF Inserted
    <2> QED
      BY <2>1, <2>2
  <1>. m \in Nat
    BY <1>5
  <1>8. /\ \A i, j \in 1 .. n : q[i] = q[j] => i = j
        /\ pstack = IF n = 0 THEN Null ELSE q[1]
        /\ \A i \in 1 .. n : pnext[q[i]] = IF i = n THEN Null ELSE q[i + 1]
    BY <1>3 DEF Listed, Chain
  <1>9. /\ heap[t] = "free" /\ heap' = [heap EXCEPT ![t] = "allocated"]
        /\ pushed' = Append(pushed, t)
        /\ early' = IF phase = "open" THEN early + 1 ELSE early
        /\ UNCHANGED <<setting, phase, local, ran, push>>
    BY <1>4 DEF Register, Link
  <1>10. /\ \A i, j \in DOMAIN pushed' : pushed'[i] = pushed'[j] => i = j
         /\ Elements(pushed') = Elements(pushed) \cup {t} /\ t \notin Elements(pushed)
         /\ \A u, v \in Elements(pushed) : Precedes(u, v)' <=> Precedes(u, v)
         /\ \A u \in Elements(pushed) : /\ Prio[t] >= Prio[u] => Precedes(t, u)'
                                        /\ Prio[u] > Prio[t] => Precedes(u, t)'
    BY <1>1, <1>9, Latest
  <1>11. \A i \in 1 .. n : q[i] \in Elements(pushed) /\ q[i] # t
    <2>1. \A i \in 1 .. n : heap[q[i]] # "free"
      BY <1>3 DEF Listed, Alive
    <2> QED
      BY <1>1, <1>10, <2>1 DEF History
  <1>12. Node[0] = pstack
    <2>1. 0 \in 0 .. Cardinality(Tasks)
      BY TasksAssumption, FS_CardinalityType
    <2> QED
      BY <1>1, <1>3, <1>8, <2>1, NodeIsList, SMTT(30) DEF Listed
  <1>13. /\ pnext'[t] = IF m < n THEN q[m + 1] ELSE Null
         /\ m # 0 => pnext'[q[m]] = t
         /\ \A i \in 1 .. n : i # m => pnext'[q[i]] = pnext[q[i]]
         /\ pstack' = IF m = 0 THEN t ELSE pstack
         /\ pnext' \in [Tasks -> Tasks \cup {Null}]
    <2>1. pnext \in [Tasks -> Tasks \cup {Null}]
      BY <1>1 DEF TypeOK
    <2>2. Node[m] \in Tasks \cup {Null}
      <3>1. m < n => m + 1 \in 1 .. n
        BY <1>5
      <3> QED
        BY <1>5, <3>1
    <2>3. CASE m = 0
      BY <1>4, <1>5, <1>11, <1>12, <2>1, <2>2, <2>3 DEF Link
    <2>4. CASE m # 0
      <3>1. m \in 1 .. n /\ m \in 1 .. m /\ Node[m - 1] = q[m]
        BY <1>5, <2>4
      <3>2. pnext' = [pnext EXCEPT ![t] = Node[m], ![q[m]] = t] /\ pstack' = pstack
        BY <1>4, <2>4, <3>1 DEF Link
      <3>3. \A i \in 1 .. n : i # m => q[i] # q[m]
        BY <1>8, <3>1
      <3> QED
        BY <1>5, <1>11, <2>1, <2>2, <2>4, <3>1, <3>2, <3>3
    <2> QED
      BY <2>3, <2>4
  <1>14. Chain(n + 1, r)'
    <2>1. ASSUME NEW i \in 1 .. n + 1, NEW j \in 1 .. n + 1, r[i] = r[j]  PROVE i = j
      <3>1. ASSUME NEW a \in 1 .. n + 1, NEW b \in 1 .. n + 1, r[a] = r[b], a < b  PROVE FALSE
        <4>1. CASE a \in 1 .. m /\ b \in 1 .. m
          BY <1>7, <1>8, <3>1, <4>1
        <4>2. CASE a \in 1 .. m /\ b = m + 1
          BY <1>7, <1>11, <3>1, <4>2
        <4>3. CASE a \in 1 .. m /\ b \in m + 2 .. n + 1
          <5>1. q[a] = q[b - 1] /\ a \in 1 .. n /\ b - 1 \in 1 .. n /\ a # b - 1
            BY <1>5, <1>7, <3>1, <4>3
          <5> QED
            BY <1>8, <5>1
        <4>4. CASE a = m + 1 /\ b \in m + 2 .. n + 1
          BY <1>7, <1>11, <3>1, <4>4
        <4>5. CASE a \in m + 2 .. n + 1 /\ b \in m + 2 .. n + 1
          <5>1. q[a - 1] = q[b - 1] /\ a - 1 \in 1 .. n /\ b - 1 \in 1 .. n /\ a - 1 # b - 1
            BY <1>5, <1>7, <3>1, <4>5
          <5> QED
            BY <1>8, <5>1
        <4>6. \/ b \in 1 .. m /\ a \in 1 .. m
              \/ b = m + 1 /\ a \in 1 .. m
              \/ b \in m + 2 .. n + 1
          BY <1>5, <1>7, <3>1
        <4> QED
          BY <1>7, <4>1, <4>2, <4>3, <4>4, <4>5, <4>6
      <3>2. i < j \/ j < i \/ i = j
        OBVIOUS
      <3> QED
        BY <2>1, <3>1, <3>2
    <2>2. pstack' = r[1]
      <3>1. CASE m = 0
        BY <1>7, <1>13, <3>1
      <3>2. CASE m # 0
        <4>1. 1 \in 1 .. m /\ n # 0
          BY <1>5, <3>2
        <4> QED
          BY <1>7, <1>8, <1>13, <3>2, <4>1
      <3> QED
        BY <3>1, <3>2
    <2>3. ASSUME NEW i \in 1 .. n + 1
          PROVE  pnext'[r[i]] = IF i = n + 1 THEN Null ELSE r[i + 1]
      <3>1. CASE i \in 1 .. m /\ i # m
        <4>1. i \in 1 .. n /\ i # n /\ i + 1 \in 1 .. m /\ i # n + 1
          BY <1>5, <3>1
        <4> QED
          BY <1>7, <1>8, <1>13, <3>1, <4>1
      <3>2. CASE i \in 1 .. m /\ i = m
        <4>1. m # 0 /\ i # n + 1 /\ r[i] = q[m]
          BY <1>5, <1>7, <3>2
        <4> QED
          BY <1>7, <1>13, <3>2, <4>1
      <3>3. CASE i = m + 1
        <4>1. m < n => m + 2 \in m + 2 .. n + 1 /\ (m + 1) + 1 = m + 2 /\ (m + 2) - 1 = m + 1
          BY <1>5
        <4>2. m < n => r[i + 1] = q[m + 1]
          BY <1>7, <3>3, <4>1
        <4>3. i = n + 1 <=> ~(m < n)
          BY <1>5, <3>3
        <4> QED
          BY <1>7, <1>13, <3>3, <4>2, <4>3
      <3>4. CASE i \in m + 2 .. n + 1
        <4>1. /\ i - 1 \in 1 .. n /\ i - 1 # m /\ r[i] = q[i - 1] /\ (i - 1) + 1 = i
              /\ i - 1 = n <=> i = n + 1
          BY <1>5, <1>7, <3>4
        <4>2. pnext'[q[i - 1]] = IF i = n + 1 THEN Null ELSE q[i]
          BY <1>8, <1>13, <4>1
        <4>3. i # n + 1 => i + 1 \in m + 2 .. n + 1 /\ (i + 1) - 1 = i
          BY <3>4
        <4> QED
          BY <1>7, <4>1, <4>2, <4>3
      <3> QED
        BY <1>7, <3>1, <3>2, <3>3, <3>4
    <2> QED
      BY <2>1, <2>2, <2>3 DEF Chain
  <1>15. Sorted(n + 1, r)'
    <2>1. ASSUME NEW i \in 1 .. n + 1, NEW j \in 1 .. n + 1, i < j
          PROVE  Precedes(r[i], r[j])'
      <3>1. \A a, b \in 1 .. n : a < b => Precedes(q[a], q[b])'
        BY <1>3, <1>10, <1>11 DEF Listed, Sorted
      <3>2. CASE i \in 1 .. m /\ j \in 1 .. m
        BY <1>7, <2>1, <3>1, <3>2
      <3>3. CASE i \in 1 .. m /\ j = m + 1
        <4>1. r[i] = q[i] /\ r[j] = t /\ q[i] \in Elements(pushed)
          BY <1>7, <1>11, <3>3
        <4>2. PICK u \in Elements(pushed) : u = q[i]
          BY <4>1
        <4>3. Prio[u] > Prio[t]
          BY <1>5, <3>3, <4>2
        <4>4. Precedes(u, t)'
          BY <1>10, <4>3
        <4> QED
          BY <4>1, <4>2, <4>4
      <3>4. CASE i \in 1 .. m /\ j \in m + 2 .. n + 1
        <4>1. /\ i \in 1 .. n /\ j - 1 \in 1 .. n /\ i < j - 1
              /\ r[i] = q[i] /\ r[j] = q[j - 1]
          BY <1>5, <1>7, <3>4
        <4> QED
          BY <3>1, <4>1
      <3>5. CASE i = m + 1 /\ j \in m + 2 .. n + 1
        <4>1. j - 1 \in m + 1 .. n /\ j - 1 \in 1 .. n /\ r[i] = t /\ r[j] = q[j - 1]
          BY <1>7, <3>5
        <4>2. PICK u \in Elements(pushed) : u = q[j - 1]
          BY <1>11, <4>1
        <4>3. Prio[t] >= Prio[u]
          BY <1>5, <4>1, <4>2
        <4>4. Precedes(t, u)'
          BY <1>10, <4>3
        <4> QED
          BY <4>1, <4>2, <4>4
      <3>6. CASE i \in m + 2 .. n + 1 /\ j \in m + 2 .. n + 1
        <4>1. /\ i - 1 \in 1 .. n /\ j - 1 \in 1 .. n /\ i - 1 < j - 1
              /\ r[i] = q[i - 1] /\ r[j] = q[j - 1]
          BY <1>5, <1>7, <2>1, <3>6
        <4> QED
          BY <3>1, <4>1
      <3>7. \/ i \in 1 .. m /\ j \in 1 .. m
            \/ j = m + 1 /\ i \in 1 .. m
            \/ j \in m + 2 .. n + 1
        BY <1>5, <1>7, <2>1
      <3> QED
        BY <1>7, <3>2, <3>3, <3>4, <3>5, <3>6, <3>7
    <2> QED
      BY <2>1 DEF Sorted
  <1>16. GoesOnAt(n, q, k) /\ ToCall(n, q, k) /\ Alive(n, q, k)
    BY <1>3 DEF Listed
  <1>17. PICK l \in 1 .. n + 2 :
           /\ l >= k
           /\ phase \in Inside /\ m < k => l = k + 1
           /\ ~(phase \in Inside /\ m < k) => l = k
           /\ phase \notin Inside => l = 1 /\ k = 1
    <2>. DEFINE p == IF phase \in Inside /\ m < k THEN k + 1 ELSE k
    <2>1. p \in 1 .. n + 2
      OBVIOUS
    <2> QED
      BY <1>16, <2>1 DEF GoesOnAt
  <1>18. GoesOnAt(n + 1, r, l)'
    <2>1. CASE phase \in Inside
      <3>1. k > 1 /\ local = IF k = n + 1 THEN Null ELSE q[k]
        BY <1>16, <2>1 DEF GoesOnAt
      <3>2. CASE m < k
        <4>1. l = k + 1 /\ k + 1 # m + 1 /\ (k + 1) - 1 = k
          BY <1>5, <1>17, <2>1, <3>2
        <4>2. k # n + 1 => k + 1 \in m + 2 .. n + 1
          BY <1>5, <3>2
        <4>3. k # n + 1 => r[k + 1] = q[k]
          BY <1>7, <4>1, <4>2
        <4>4. k = n + 1 <=> l = (n + 1) + 1
          BY <4>1
        <4>5. local = IF l = (n + 1) + 1 THEN Null ELSE r[l]
          BY <3>1, <4>1, <4>3, <4>4
        <4>6. l > 1
          BY <3>1, <4>1
        <4> QED
          BY <1>9, <2>1, <4>5, <4>6 DEF GoesOnAt
      <3>3. CASE ~(m < k)
        <4>1. l = k /\ k \in 1 .. m /\ k # n + 1 /\ k # (n + 1) + 1
          BY <1>5, <1>17, <3>3
        <4>2. local = IF l = (n + 1) + 1 THEN Null ELSE r[l]
          BY <1>7, <3>1, <4>1
        <4> QED
          BY <1>9, <2>1, <3>1, <4>1, <4>2 DEF GoesOnAt
      <3> QED
        BY <3>2, <3>3
    <2>2. CASE phase \notin Inside
      BY <1>9, <1>17, <2>2 DEF GoesOnAt
    <2> QED
      BY <2>1, <2>2
  <1>19. ASSUME NEW i \in m + 2 .. n + 1
         PROVE  /\ i >= l => i - 1 >= k
                /\ phase \in Inside /\ i - 1 < k => i < l
    <2>1. i - 1 > m
      BY <1>5
    <2> QED
      BY <1>5, <1>17, <2>1
  <1>20. Alive(n + 1, r, l)'
    <2>1. heap'[t] = "allocated" /\ \A u \in Tasks : u # t => heap'[u] = heap[u]
      BY <1>1, <1>9 DEF TypeOK
    <2>2. ASSUME NEW i \in 1 .. n + 1
          PROVE  heap'[r[i]] = "allocated" \/ (/\ heap'[r[i]] = "deleted"
                                               /\ phase = "deleted" /\ i < l)
      <3>1. CASE i \in 1 .. m
        <4>1. r[i] = q[i] /\ heap'[r[i]] = heap[q[i]] /\ i \in 1 .. n
          BY <1>7, <1>11, <2>1, <3>1
        <4>2. \/ heap[q[i]] = "allocated"
              \/ heap[q[i]] = "deleted" /\ phase = "deleted" /\ i < k
          BY <1>16, <4>1 DEF Alive
        <4> QED
          BY <1>5, <1>17, <4>1, <4>2
      <3>2. CASE i = m + 1
        BY <1>7, <2>1, <3>2
      <3>3. CASE i \in m + 2 .. n + 1
        <4>1. r[i] = q[i - 1] /\ heap'[r[i]] = heap[q[i - 1]] /\ i - 1 \in 1 .. n
          BY <1>7, <1>11, <2>1, <3>3
        <4>2. heap[q[i - 1]] = "allocated" \/ (/\ heap[q[i - 1]] = "deleted"
                                               /\ phase = "deleted" /\ i - 1 < k)
          BY <1>16, <4>1 DEF Alive
        <4> QED
          BY <1>19, <3>3, <4>1, <4>2 DEF Inside
      <3> QED
        BY <1>7, <3>1, <3>2, <3>3
    <2> QED
      BY <1>9, <2>2 DEF Alive
  <1>21. /\ \A v \in Elements(ran) : v \in Elements(pushed)
         /\ phase = "open" => Elements(ran) = {}
         /\ phase # "open" => EarlyTasks' = EarlyTasks /\ EarlyTasks \subseteq Elements(pushed)
    <2>1. pushed \in Seq(Tasks) /\ early \in Nat /\ early <= Len(pushed)
      BY <1>1 DEF TypeOK, History
    <2>2. \A i \in 1 .. early : i \in DOMAIN pushed /\ pushed'[i] = pushed[i]
      BY <1>9, <2>1
    <2>3. phase # "open" => EarlyTasks' = EarlyTasks /\ EarlyTasks \subseteq Elements(pushed)
      BY <1>9, <2>2 DEF EarlyTasks, Elements
    <2>4. /\ \A v \in Elements(ran) : v \in Elements(pushed)
          /\ phase = "open" => Elements(ran) = {}
      <3>1. Elements(ran) \subseteq Elements(pushed) /\ (phase = "open" => ran = <<>>)
        BY <1>1 DEF History
      <3>2. Elements(<<>>) = {}
        BY DEF Elements
      <3> QED
        BY <3>1, <3>2
    <2> QED
      BY <2>3, <2>4
  <1>22. ASSUME NEW v \in Elements(ran), NEW u \in Elements(pushed)
         PROVE  Before(v, u) => Before(v, u)'
    BY <1>10, <1>21 DEF Before
  <1>23. \A u \in Elements(pushed) : Uncalled(u) => Uncalled(u)'
    BY <1>9, <1>22 DEF Uncalled
  <1>24. Uncalled(t)'
    <2>1. t \notin Elements(ran)
      BY <1>10, <1>21
    <2>2. ASSUME NEW v \in Elements(ran)  PROVE Before(v, t)'
      BY <1>10, <1>21 DEF Before
    <2> QED
      BY <1>9, <2>1, <2>2 DEF Uncalled
  <1>25. ToCall(n + 1, r, l)'
    <2>1. ASSUME NEW i \in 1 .. n + 1, i >= l \/ phase = "loaded"
          PROVE  Uncalled(r[i])'
      <3>1. CASE i \in 1 .. m
        <4>1. r[i] = q[i] /\ i \in 1 .. n /\ (i >= k \/ phase = "loaded")
          BY <1>5, <1>7, <1>17, <2>1, <3>1
        <4> QED
          BY <1>11, <1>16, <1>23, <4>1 DEF ToCall
      <3>2. CASE i = m + 1
        BY <1>7, <1>24, <3>2
      <3>3. CASE i \in m + 2 .. n + 1
        <4>1. r[i] = q[i - 1] /\ i - 1 \in 1 .. n /\ (i - 1 >= k \/ phase = "loaded")
          BY <1>7, <1>19, <2>1, <3>3
        <4> QED
          BY <1>11, <1>16, <1>23, <4>1 DEF ToCall
      <3> QED
        BY <1>7, <3>1, <3>2, <3>3
    <2> QED
      BY <1>9, <2>1 DEF ToCall
  <1>26. Kept(n + 1, r, l)'
    <2>1. SUFFICES ASSUME NEW u \in EarlyTasks', u \notin Elements(ran)
                   PROVE  \E i \in 1 .. n + 1 : r[i] = u /\ i >= l
      BY <1>9 DEF Kept, Pending
    <2>2. CASE u \in EarlyTasks
      <3>1. phase # "loaded"
        BY DEF Register
      <3>2. PICK i \in 1 .. n : q[i] = u /\ i >= k
        BY <1>3, <2>1, <2>2, <3>1 DEF Listed, Kept, Pending
      <3>3. CASE i \in 1 .. m
        BY <1>5, <1>7, <1>17, <3>2, <3>3
      <3>4. CASE i \in m + 1 .. n
        <4>1. i + 1 \in m + 2 .. n + 1 /\ (i + 1) - 1 = i /\ i + 1 \in 1 .. n + 1
          BY <3>4
        <4>2. r[i + 1] = u /\ i + 1 >= l
          BY <1>7, <1>17, <3>2, <4>1
        <4> QED
          BY <4>1, <4>2
      <3>5. i \in 1 .. m \/ i \in m + 1 .. n
        BY <1>5
      <3> QED
        BY <3>3, <3>4, <3>5
    <2>3. CASE u \notin EarlyTasks
      <3>1. phase = "open"
        BY <1>21, <2>3
      <3>2. /\ pushed \in Seq(Tasks) /\ early \in Nat /\ early = Len(pushed)
            /\ early' = early + 1
        BY <1>1, <1>9, <3>1 DEF TypeOK, History
      <3>3. PICK i \in 1 .. early + 1 : u = pushed'[i]
        BY <3>2 DEF EarlyTasks
      <3>4. i \in 1 .. early => pushed'[i] = pushed[i]
        BY <1>9, <3>2
      <3>5. i = early + 1 /\ pushed'[early + 1] = t
        BY <1>9, <2>3, <3>2, <3>3, <3>4 DEF EarlyTasks
      <3>6. l = 1 /\ m + 1 \in 1 .. n + 1 /\ r[m + 1] = t
        BY <1>7, <1>17, <3>1 DEF Inside
      <3> QED
        BY <3>3, <3>5, <3>6
    <2> QED
      BY <2>2, <2>3
  <1>27. List'
    <2>1. Listed(n + 1, r, l)'
      BY <1>14, <1>15, <1>18, <1>20, <1>25, <1>26 DEF Listed
    <2>2. n + 1 \in Nat /\ l \in 1 .. (n + 1) + 1
      BY <1>17
    <2> QED
      BY <2>1, <2>2 DEF List
  <1>28. ~dangling'
    <2>1. SUFFICES ASSUME NEW j \in 0 .. m, Node[j] # Null
                   PROVE  heap[Node[j]] # "deleted"
      BY <1>1, <1>4 DEF Link, Deleted, History
    <2>2. phase # "deleted"
      BY DEF Register
    <2>3. j \in 0 .. Cardinality(Tasks) /\ Node[j] = IF j < n THEN q[j + 1] ELSE Null
      <3>1. Chain(n, q)
        BY <1>3 DEF Listed
      <3> QED
        BY <1>1, <1>4, <1>5, <3>1, NodeIsList, SMTT(30)
    <2>4. j + 1 \in 1 .. n /\ Node[j] = q[j + 1]
      BY <1>5, <2>1, <2>3
    <2> QED
      BY <1>16, <2>2, <2>4 DEF Alive
  <1>29. TypeOK'
    <2>1. pushed' \in Seq(Tasks) /\ early' \in Nat
      BY <1>1, <1>9 DEF TypeOK
    <2>2. pstack' \in Tasks \cup {Null} /\ (pstack # Null => pstack' # Null)
      BY <1>1, <1>13, TasksAssumption DEF TypeOK
    <2>3. due' \in Nat /\ heap' \in [Tasks -> {"free", "allocated", "deleted"}]
      BY <1>1, <1>9 DEF TypeOK, Register
    <2>4. dangling' \in BOOLEAN
      BY <1>4, Zenon DEF Link
    <2> QED
      BY <1>1, <1>9, <1>13, <2>1, <2>2, <2>3, <2>4 DEF TypeOK
  <1>30. History'
    <2>1. \A u \in Tasks : heap'[u] # "free" <=> u \in Elements(pushed)'
      BY <1>1, <1>9, <1>10 DEF TypeOK, History
    <2>2. early' <= Len(pushed') /\ (phase = "open" => early' = Len(pushed'))
      BY <1>1, <1>9 DEF TypeOK, History
    <2>3. \A i, j \in DOMAIN ran : i < j => Before(ran[i], ran[j])'
      <3>1. \A i \in DOMAIN ran : ran[i] \in Elements(ran)
        BY DEF Elements
      <3>2. \A i, j \in DOMAIN ran : i < j => Before(ran[i], ran[j])
        BY <1>1 DEF History
      <3> QED
        BY <1>9, <1>21, <1>22, <3>1, <3>2
    <2>4. Elements(ran) \subseteq Elements(pushed')
      BY <1>10, <1>21
    <2>5. phase = "open" => ran = <<>>
      BY <1>1 DEF History
    <2>6. \A i, j \in DOMAIN ran : ran[i] = ran[j] => i = j
      BY <1>1 DEF History
    <2> QED
      BY <1>9, <1>10, <1>28, <2>1, <2>2, <2>3, <2>4, <2>5, <2>6 DEF History
  <1> QED
    BY <1>27, <1>29, <1>30 DEF Orderly

-----------------------------------------------------------------------------
(* The other steps register nothing, so the order stays.                   *)
LEMMA OrderStays ==
  ASSUME UNCHANGED <<pushed, early>>
  PROVE  /\ EarlyTasks' = EarlyTasks
         /\ \A t, u : (Precedes(t, u)' <=> Precedes(t, u)) /\ (Before(t, u)' <=> Before(t, u))
  BY DEF EarlyTasks, Precedes, Index, Before

(* exec()'s statements leave the variables in their types.                 *)
LEMMA ExecTypes ==
  ASSUME TypeOK, ExecStep
  PROVE  TypeOK'
  <1>. USE DEF TypeOK, Phases
  <1>1. CASE ExecStarts
    BY <1>1 DEF ExecStarts
  <1>2. CASE Load
    <2>1. dangling' \in BOOLEAN
      BY <1>2, Zenon DEF Load
    <2> QED
      BY <1>2, <2>1 DEF Load
  <1>3. CASE Call
    <2>1. ran' \in Seq(Tasks)
      BY <1>3 DEF Call
    <2> QED
      BY <1>3, <2>1 DEF Call
  <1>4. CASE Return
    BY <1>4 DEF Return
  <1>5. CASE Delete
    BY <1>5 DEF Delete
  <1>6. CASE Advance
    BY <1>6 DEF Advance
  <1> QED
    BY <1>1, <1>2, <1>3, <1>4, <1>5, <1>6 DEF ExecStep

(* Steps that leave the list and the calls alone, and are not inside the   *)
(* loop, before or after.                                                  *)
LEMMA Outside ==
  ASSUME Orderly, UNCHANGED <<setting, pstack, pnext, heap, pushed, early, ran>>,
         phase \notin Inside, phase' \notin Inside
  PROVE  List'
  <1>1. PICK n \in Nat : \E q \in [1 .. n -> Tasks], k \in 1 .. n + 1 : Listed(n, q, k)
    BY DEF Orderly, List
  <1>2. PICK q \in [1 .. n -> Tasks], k \in 1 .. n + 1 : Listed(n, q, k)
    BY <1>1
  <1>3. Chain(n, q)' /\ Sorted(n, q)'
    BY <1>2, OrderStays DEF Listed, Chain, Sorted
  <1>4. Alive(n, q, k)' /\ ToCall(n, q, k)' /\ GoesOnAt(n, q, k)'
    BY <1>2, OrderStays DEF Listed, Alive, ToCall, Uncalled, GoesOnAt, Inside
  <1>5. Kept(n, q, k)'
    BY <1>2, OrderStays DEF Listed, Kept, Pending, Inside
  <1> QED
    BY <1>3, <1>4, <1>5 DEF List, Listed

(* exec() reads the next task before it calls the routine (runtime.cpp:199). *)
LEMMA Loading ==
  ASSUME Orderly, Load
  PROVE  Orderly'
  <1>1. TypeOK' /\ History'
    <2>1. TypeOK'
      BY DEF Load, Orderly, TypeOK, Phases
    <2>2. phase # "open" /\ phase' # "open"
      BY DEF Load
    <2>3. ~Deleted(pstack)
      <3>1. PICK n \in Nat : \E q \in [1 .. n -> Tasks], k \in 1 .. n + 1 : Listed(n, q, k)
        BY DEF Orderly, List
      <3>2. PICK q \in [1 .. n -> Tasks], k \in 1 .. n + 1 : Listed(n, q, k)
        BY <3>1
      <3>3. phase = "loop" /\ (pstack # Null => n # 0 /\ pstack = q[1])
        BY <3>2 DEF Load, Listed, Chain
      <3> QED
        BY <3>2, <3>3 DEF Listed, Alive, Deleted
    <2>4. History'
      BY <2>2, <2>3, OrderStays DEF Load, Orderly, History
    <2> QED
      BY <2>1, <2>4
  <1>2. CASE pstack = Null
    <2>1. List'
      BY <1>2, Outside DEF Load, Inside
    <2> QED
      BY <1>1, <2>1 DEF Orderly
  <1>3. CASE pstack # Null
    <2>1. PICK n \in Nat : \E q \in [1 .. n -> Tasks], k \in 1 .. n + 1 : Listed(n, q, k)
      BY DEF Orderly, List
    <2>2. PICK q \in [1 .. n -> Tasks], k \in 1 .. n + 1 : Listed(n, q, k)
      BY <2>1
    <2>3. /\ phase = "loop" /\ phase' = "loaded" /\ local' = pnext[pstack]
          /\ UNCHANGED <<setting, pstack, pnext, heap, pushed, early, ran>>
      BY <1>3 DEF Load
    <2>4. k = 1 /\ n # 0 /\ pstack = q[1] /\ pnext[q[1]] = IF 1 = n THEN Null ELSE q[1 + 1]
      BY <1>3, <2>2, <2>3 DEF Listed, GoesOnAt, Inside, Chain
    <2>5. Chain(n, q)' /\ Sorted(n, q)'
      BY <2>2, <2>3, OrderStays DEF Listed, Chain, Sorted
    <2>6. Alive(n, q, 2)'
      BY <2>2, <2>3 DEF Listed, Alive
    <2>7. ToCall(n, q, 2)'
      <3>1. \A i \in 1 .. n : Uncalled(q[i])
        BY <2>2, <2>4 DEF Listed, ToCall
      <3>2. \A i \in 1 .. n : Uncalled(q[i])'
        BY <2>3, <3>1, OrderStays DEF Uncalled
      <3> QED
        BY <3>2 DEF ToCall
    <2>8. GoesOnAt(n, q, 2)' /\ 2 \in 1 .. n + 1
      BY <2>3, <2>4 DEF GoesOnAt, Inside
    <2>9. Kept(n, q, 2)'
      <3>1. ASSUME NEW i \in 1 .. n  PROVE i >= 2 \/ i = 1
        OBVIOUS
      <3> QED
        BY <2>2, <2>3, <3>1, OrderStays DEF Listed, Kept, Pending
    <2>10. Listed(n, q, 2)'
      BY <2>5, <2>6, <2>7, <2>8, <2>9 DEF Listed
    <2> QED
      BY <1>1, <2>8, <2>10 DEF Orderly, List
  <1> QED
    BY <1>2, <1>3

(* exec() calls the routine of its task, which nobody called before. *)
LEMMA Calling ==
  ASSUME Orderly, Call
  PROVE  Orderly'
  <1>1. PICK n \in Nat : \E q \in [1 .. n -> Tasks], k \in 1 .. n + 1 : Listed(n, q, k)
    BY DEF Orderly, List
  <1>2. PICK q \in [1 .. n -> Tasks], k \in 1 .. n + 1 : Listed(n, q, k)
    BY <1>1
  <1>3. /\ phase = "loaded" /\ phase' = "running" /\ ran' = Append(ran, pstack)
        /\ UNCHANGED <<setting, pstack, pnext, heap, local, due, pushed, early, dangling>>
    BY DEF Call
  <1>4. TypeOK /\ History
    BY DEF Orderly
  <1>5. k > 1 /\ n # 0 /\ pstack = q[1]
    BY <1>2, <1>3, <1>4 DEF Listed, GoesOnAt, Inside, Chain, TypeOK
  <1>6. PICK p \in Tasks : p = q[1] /\ p = pstack
    BY <1>5
  <1>7. Uncalled(p) /\ p \in Elements(pushed)
    <2>1. heap[q[1]] # "free"
      BY <1>2, <1>5 DEF Listed, Alive
    <2> QED
      BY <1>2, <1>3, <1>4, <1>5, <1>6, <2>1 DEF Listed, ToCall, History
  <1>8. PICK l \in Nat : l = Len(ran) /\ DOMAIN ran = 1 .. l
    BY <1>4 DEF TypeOK
  <1>9. /\ ran' \in Seq(Tasks) /\ DOMAIN ran' = 1 .. l + 1
        /\ ran'[l + 1] = p /\ \A i \in 1 .. l : ran'[i] = ran[i]
    BY <1>3, <1>4, <1>6, <1>8 DEF TypeOK
  <1>10. Elements(ran') = Elements(ran) \cup {p}
    <2>1. \A i \in 1 .. l + 1 : i \in 1 .. l \/ i = l + 1
      OBVIOUS
    <2>2. 1 .. l \subseteq 1 .. l + 1 /\ l + 1 \in 1 .. l + 1
      OBVIOUS
    <2> QED
      BY <1>8, <1>9, <2>1, <2>2 DEF Elements
  <1>11. \A i \in 1 .. l : ran[i] # p /\ Before(ran[i], p)
    BY <1>7, <1>8 DEF Uncalled, Elements
  <1>12. TypeOK'
    BY <1>4, ExecTypes DEF ExecStep
  <1>13. History'
    <2>1. ASSUME NEW i \in 1 .. l + 1, NEW j \in 1 .. l + 1
          PROVE  /\ ran'[i] = ran'[j] => i = j
                 /\ i < j => Before(ran'[i], ran'[j])
      <3>1. (i \in 1 .. l \/ i = l + 1) /\ (j \in 1 .. l \/ j = l + 1)
        OBVIOUS
      <3>2. CASE i \in 1 .. l /\ j \in 1 .. l
        BY <1>4, <1>8, <1>9, <3>2 DEF History
      <3>3. CASE i \in 1 .. l /\ j = l + 1
        BY <1>9, <1>11, <3>3
      <3>4. CASE i = l + 1 /\ j \in 1 .. l
        BY <1>9, <1>11, <3>4
      <3> QED
        BY <3>1, <3>2, <3>3, <3>4
    <2>2. \A i, j \in DOMAIN ran' : ran'[i] = ran'[j] => i = j
      BY <1>9, <2>1
    <2>3. ASSUME NEW i \in DOMAIN ran', NEW j \in DOMAIN ran', i < j
          PROVE  Before(ran[i], ran[j])'
      <3>1. Before(ran'[i], ran'[j])
        BY <1>9, <2>1, <2>3
      <3>2. EarlyTasks' = EarlyTasks /\ pushed' = pushed
        BY <1>3, OrderStays
      <3> QED
        BY <3>1, <3>2 DEF Before, Precedes
    <2>4. Elements(ran') \subseteq Elements(pushed')
      BY <1>3, <1>4, <1>7, <1>10 DEF History
    <2> QED
      BY <1>3, <1>4, <2>2, <2>3, <2>4 DEF History
  <1>14. Chain(n, q)' /\ Sorted(n, q)' /\ Alive(n, q, k)' /\ GoesOnAt(n, q, k)'
    BY <1>2, <1>3, OrderStays DEF Listed, Chain, Sorted, Alive, GoesOnAt, Inside
  <1>15. ToCall(n, q, k)'
    <2>1. ASSUME NEW i \in 1 .. n, i >= k  PROVE Uncalled(q[i])'
      <3>1. Uncalled(q[i])
        BY <1>2, <2>1 DEF Listed, ToCall
      <3>2. 1 \in 1 .. n /\ 1 < i
        BY <1>5, <2>1
      <3>3. q[i] # p /\ Precedes(p, q[i])
        BY <1>2, <1>6, <3>2 DEF Listed, Chain, Sorted
      <3>4. \A v \in Elements(ran') : Before(v, q[i])
        BY <1>10, <3>1, <3>3 DEF Uncalled, Before
      <3>5. q[i] \notin Elements(ran')
        BY <1>10, <3>1, <3>3 DEF Uncalled
      <3> QED
        BY <1>3, <3>4, <3>5, OrderStays DEF Uncalled
    <2> QED
      BY <1>3, <2>1 DEF ToCall
  <1>16. Kept(n, q, k)'
    BY <1>2, <1>3, <1>6, <1>10, OrderStays DEF Listed, Kept, Pending
  <1> QED
    BY <1>12, <1>13, <1>14, <1>15, <1>16 DEF Orderly, List, Listed

(* exec() deletes the task that was called, which is still the head of its list. *)
LEMMA Deleting ==
  ASSUME Orderly, Delete
  PROVE  Orderly'
  <1>1. PICK n \in Nat : \E q \in [1 .. n -> Tasks], k \in 1 .. n + 1 : Listed(n, q, k)
    BY DEF Orderly, List
  <1>2. PICK q \in [1 .. n -> Tasks], k \in 1 .. n + 1 : Listed(n, q, k)
    BY <1>1
  <1>3. /\ phase = "called" /\ phase' = "deleted"
        /\ heap' = [heap EXCEPT ![pstack] = "deleted"]
        /\ UNCHANGED <<setting, pstack, pnext, local, due, pushed, early, ran, dangling>>
    BY DEF Delete
  <1>4. TypeOK /\ History
    BY DEF Orderly
  <1>5. k > 1 /\ n # 0 /\ pstack = q[1]
    BY <1>2, <1>3, <1>4 DEF Listed, GoesOnAt, Inside, Chain, TypeOK
  <1>6. \A i \in 1 .. n : heap[q[i]] = "allocated" /\ (i # 1 => q[i] # q[1])
    BY <1>2, <1>3, <1>5 DEF Listed, Alive, Chain
  <1>7. \A i \in 1 .. n : heap'[q[i]] = IF i = 1 THEN "deleted" ELSE "allocated"
    BY <1>3, <1>4, <1>5, <1>6 DEF TypeOK
  <1>8. \A t \in Tasks : heap'[t] # "free" <=> heap[t] # "free"
    <2>1. heap[pstack] = "allocated"
      BY <1>5, <1>6
    <2> QED
      BY <1>3, <1>4, <2>1 DEF TypeOK
  <1>9. TypeOK'
    BY <1>4, ExecTypes DEF ExecStep
  <1>10. History'
    BY <1>3, <1>4, <1>8, OrderStays DEF History
  <1>11. Chain(n, q)' /\ Sorted(n, q)' /\ GoesOnAt(n, q, k)'
    BY <1>2, <1>3, OrderStays DEF Listed, Chain, Sorted, GoesOnAt, Inside
  <1>12. Alive(n, q, k)'
    BY <1>3, <1>5, <1>7 DEF Alive
  <1>13. ToCall(n, q, k)'
    BY <1>2, <1>3, OrderStays DEF Listed, ToCall, Uncalled
  <1>14. Kept(n, q, k)'
    BY <1>2, <1>3, OrderStays DEF Listed, Kept, Pending
  <1> QED
    BY <1>9, <1>10, <1>11, <1>12, <1>13, <1>14 DEF Orderly, List, Listed

(* exec() drops what comes before its own pnext.                           *)
LEMMA Advancing ==
  ASSUME Orderly, Advance
  PROVE  Orderly'
  <1>1. PICK n \in Nat : \E q \in [1 .. n -> Tasks], k \in 1 .. n + 1 : Listed(n, q, k)
    BY DEF Orderly, List
  <1>2. PICK q \in [1 .. n -> Tasks], k \in 1 .. n + 1 : Listed(n, q, k)
    BY <1>1
  <1>3. /\ phase = "deleted" /\ phase' = "loop" /\ pstack' = local
        /\ UNCHANGED <<setting, pnext, heap, local, due, pushed, early, ran, dangling>>
    BY DEF Advance
  <1>4. TypeOK /\ History
    BY DEF Orderly
  <1>5. /\ local = IF k = n + 1 THEN Null ELSE q[k]
        /\ \A i, j \in 1 .. n : q[i] = q[j] => i = j
        /\ \A i \in 1 .. n : pnext[q[i]] = IF i = n THEN Null ELSE q[i + 1]
        /\ \A i \in 1 .. n : i >= k => heap[q[i]] = "allocated" /\ Uncalled(q[i])
    BY <1>2, <1>3 DEF Listed, GoesOnAt, Inside, Chain, Alive, ToCall
  <1>6. PICK l \in 0 .. n : l = n + 1 - k
    OBVIOUS
  <1>7. PICK r \in [1 .. l -> Tasks] : \A i \in 1 .. l : r[i] = q[i + k - 1]
    <2>. DEFINE x == [i \in 1 .. l |-> q[i + k - 1]]
    <2>1. \A i \in 1 .. l : i + k - 1 \in 1 .. n
      BY <1>6
    <2>2. x \in [1 .. l -> Tasks]
      BY <2>1
    <2> QED
      BY <2>2
  <1>8. \A i \in 1 .. l : /\ i + k - 1 \in 1 .. n /\ i + k - 1 >= k
                          /\ (i + k - 1 = n <=> i = l)
                          /\ i # l => i + 1 \in 1 .. l
                          /\ (i + k - 1) + 1 = (i + 1) + k - 1
    BY <1>6
  <1>9. TypeOK'
    BY <1>4, ExecTypes DEF ExecStep
  <1>10. History'
    BY <1>3, <1>4, OrderStays DEF History
  <1>11. Chain(l, r)'
    <2>1. ASSUME NEW i \in 1 .. l, NEW j \in 1 .. l, r[i] = r[j]  PROVE i = j
      <3>1. /\ i + k - 1 \in 1 .. n /\ j + k - 1 \in 1 .. n
            /\ q[i + k - 1] = q[j + k - 1]
        BY <1>7, <1>8, <2>1
      <3>2. i + k - 1 = j + k - 1
        BY <1>5, <3>1
      <3> QED
        BY <3>2
    <2>2. pstack' = IF l = 0 THEN Null ELSE r[1]
      <3>1. l = 0 <=> k = n + 1
        BY <1>6
      <3>2. l # 0 => 1 \in 1 .. l /\ 1 + k - 1 = k
        OBVIOUS
      <3> QED
        BY <1>3, <1>5, <1>7, <3>1, <3>2
    <2>3. ASSUME NEW i \in 1 .. l
          PROVE  pnext'[r[i]] = IF i = l THEN Null ELSE r[i + 1]
      <3>1. r[i] = q[i + k - 1] /\ (i # l => r[i + 1] = q[(i + 1) + k - 1])
        BY <1>7, <1>8
      <3>2. pnext[q[i + k - 1]] = IF i = l THEN Null ELSE q[(i + 1) + k - 1]
        BY <1>5, <1>8
      <3> QED
        BY <1>3, <3>1, <3>2
    <2> QED
      BY <2>1, <2>2, <2>3 DEF Chain
  <1>12. Sorted(l, r)'
    <2>1. ASSUME NEW i \in 1 .. l, NEW j \in 1 .. l, i < j  PROVE Precedes(r[i], r[j])'
      <3>1. PICK a \in 1 .. n : a = i + k - 1 /\ r[i] = q[a]
        BY <1>7, <1>8
      <3>2. PICK b \in 1 .. n : b = j + k - 1 /\ r[j] = q[b]
        BY <1>7, <1>8
      <3>3. a < b
        BY <2>1, <3>1, <3>2
      <3>4. Precedes(r[i], r[j])
        BY <1>2, <3>1, <3>2, <3>3 DEF Listed, Sorted
      <3> QED
        BY <1>3, <3>4, OrderStays
    <2> QED
      BY <2>1 DEF Sorted
  <1>13. \A i \in 1 .. l : heap[r[i]] = "allocated" /\ Uncalled(r[i])
    <2>1. SUFFICES ASSUME NEW i \in 1 .. l
                   PROVE  heap[r[i]] = "allocated" /\ Uncalled(r[i])
      OBVIOUS
    <2>2. PICK p \in 1 .. n : p = i + k - 1
      BY <1>8
    <2>3. p >= k /\ r[i] = q[p]
      BY <1>7, <1>8, <2>2
    <2> QED
      BY <1>5, <2>3
  <1>14. Alive(l, r, 1)' /\ GoesOnAt(l, r, 1)'
    BY <1>3, <1>13 DEF Alive, GoesOnAt, Inside
  <1>15. ToCall(l, r, 1)'
    BY <1>3, <1>13, OrderStays DEF ToCall, Uncalled
  <1>16. l \in Nat /\ 1 \in 1 .. l + 1
    OBVIOUS
  <1>17. Kept(l, r, 1)'
    <2>1. SUFFICES ASSUME NEW u \in EarlyTasks, u \notin Elements(ran)
                   PROVE  \E i \in 1 .. l : r[i] = u
      BY <1>3, OrderStays DEF Kept, Pending
    <2>2. PICK i \in 1 .. n : q[i] = u /\ i >= k
      BY <1>2, <1>3, <2>1 DEF Listed, Kept, Pending
    <2>3. i + 1 - k \in 1 .. l /\ (i + 1 - k) + k - 1 = i
      BY <1>6, <2>2
    <2> QED
      BY <1>7, <2>2, <2>3
  <1>18. Listed(l, r, 1)'
    BY <1>11, <1>12, <1>14, <1>15, <1>17 DEF Listed
  <1> QED
    BY <1>9, <1>10, <1>16, <1>18 DEF Orderly, List

(* Steps that change neither the list nor what exec() knows of it.         *)
LEMMA Passing ==
  ASSUME Orderly, UNCHANGED <<setting, list, local, calls, dangling>>,
         \/ Return
         \/ UNCHANGED phase
  PROVE  History' /\ List'
  <1>1. History'
    BY OrderStays DEF Return, Orderly, History
  <1>2. PICK n \in Nat : \E q \in [1 .. n -> Tasks], k \in 1 .. n + 1 : Listed(n, q, k)
    BY DEF Orderly, List
  <1>3. PICK q \in [1 .. n -> Tasks], k \in 1 .. n + 1 : Listed(n, q, k)
    BY <1>2
  <1>4. Chain(n, q)' /\ Sorted(n, q)' /\ Alive(n, q, k)' /\ GoesOnAt(n, q, k)'
    BY <1>3, OrderStays DEF Return, Listed, Chain, Sorted, Alive, GoesOnAt, Inside
  <1>5. ToCall(n, q, k)' /\ Kept(n, q, k)'
    BY <1>3, OrderStays DEF Return, Listed, ToCall, Uncalled, Kept, Pending
  <1> QED
    BY <1>1, <1>4, <1>5 DEF List, Listed

(* Every step of a program whose other threads do not push during the exit *)
(* keeps the list in order.                                                *)
LEMMA OrderlyNext ==
  ASSUME Orderly, [Next]_vars, ~PushStep
  PROVE  Orderly'
  <1>1. ASSUME NEW t \in Tasks, Register(t)  PROVE Orderly'
    BY <1>1, Registering
  <1>2. CASE Exit \/ ExecStarts
    <2>1. TypeOK'
      BY <1>2 DEF Exit, ExecStarts, Orderly, TypeOK, Phases
    <2>2. History'
      BY <1>2, OrderStays DEF Exit, ExecStarts, Orderly, History
    <2>3. List'
      BY <1>2, Outside DEF Exit, ExecStarts, Inside
    <2> QED
      BY <2>1, <2>2, <2>3 DEF Orderly
  <1>3. CASE Load
    BY <1>3, Loading
  <1>4. CASE Call
    BY <1>4, Calling
  <1>5. CASE Return
    <2>1. TypeOK'
      BY <1>5 DEF Return, Orderly, TypeOK, Phases
    <2> QED
      BY <1>5, <2>1, Passing DEF Return, Orderly
  <1>6. CASE Delete
    BY <1>6, Deleting
  <1>7. CASE Advance
    BY <1>7, Advancing
  <1>8. CASE UNCHANGED vars
    <2>1. TypeOK'
      BY <1>8 DEF vars, Orderly, TypeOK
    <2> QED
      BY <1>8, <2>1, Passing DEF vars, Orderly
  <1> QED
    BY <1>1, <1>2, <1>3, <1>4, <1>5, <1>6, <1>7, <1>8 DEF Next, ExecStep, Closed

(* What another thread's push does to the variables stays in their types,  *)
(* whatever has become of the list.                                        *)
LEMMA PushTypes ==
  ASSUME TypeOK, PushStep
  PROVE  TypeOK'
  <1>. USE DEF TypeOK
  <1>1. ASSUME NEW t \in Tasks, PushStarts(t)  PROVE TypeOK'
    <2>1. pushed' \in Seq(Tasks)
      BY <1>1 DEF PushStarts
    <2>2. push' = [task |-> t, at |-> push'.at, p |-> Null] /\ push'.at \in {"head", "rest"}
      BY <1>1 DEF PushStarts
    <2>3. t # Null
      BY TasksAssumption
    <2>4. dangling' \in BOOLEAN
      BY <1>1, Zenon DEF PushStarts
    <2> QED
      BY <1>1, <2>1, <2>2, <2>3, <2>4 DEF PushStarts, Places
  <1>2. CASE PushReadsHead \/ PushStoresHead
    BY <1>2 DEF PushReadsHead, PushStoresHead, PushGoes, Places
  <1>3. CASE PushLooksOn
    <2>1. /\ push'.task = push.task /\ push'.p = pstack
          /\ push'.at \in {"fault", "last", "walk"} /\ (push'.at # "fault" => pstack # Null)
          /\ push' \in [task : Tasks \cup {Null}, at : Places, p : Tasks \cup {Null}]
      BY <1>3 DEF PushLooksOn, Places
    <2>2. dangling' \in BOOLEAN
      BY <1>3, Zenon DEF PushLooksOn
    <2> QED
      BY <1>3, <2>1, <2>2 DEF PushLooksOn
  <1>4. CASE PushAppends
    <2>1. PICK p \in {push.p, pstack} :
            /\ PushGoes("last", IF p = Null THEN "fault" ELSE "ask")
            /\ pnext' = IF p = Null THEN pnext ELSE [pnext EXCEPT ![p] = push.task]
            /\ dangling' = (dangling \/ p = Null \/ Deleted(p))
            /\ UNCHANGED pstack
      BY <1>4 DEF PushAppends
    <2>2. dangling' \in BOOLEAN
      BY <2>1, Zenon
    <2>3. pnext' \in [Tasks -> Tasks \cup {Null}]
      BY <2>1
    <2> QED
      BY <2>1, <2>2, <2>3 DEF PushGoes, Places
  <1>5. CASE PushWalks
    <2>1. push.at = "walk" /\ push.p \in Tasks /\ push.task \in Tasks
      BY <1>5 DEF PushWalks
    <2>2. ~GoesBefore(push.task, pnext[push.p]) => pnext[push.p] # Null
      BY DEF GoesBefore
    <2>3. /\ push'.task = push.task /\ push'.p # Null /\ push'.at \in {"walk", "splice"}
          /\ push' \in [task : Tasks \cup {Null}, at : Places, p : Tasks \cup {Null}]
      BY <1>5, <2>1, <2>2 DEF PushWalks, Places
    <2>4. dangling' \in BOOLEAN
      BY <1>5, Zenon DEF PushWalks
    <2> QED
      BY <1>5, <2>1, <2>3, <2>4 DEF PushWalks
  <1>6. CASE PushSplices
    <2>1. dangling' \in BOOLEAN
      BY <1>6, Zenon DEF PushSplices
    <2> QED
      BY <1>6, <2>1 DEF PushSplices, PushGoes, Places
  <1>7. CASE PushEnds
    BY <1>7 DEF PushEnds, NoPush, Places
  <1> QED
    BY <1>1, <1>2, <1>3, <1>4, <1>5, <1>6, <1>7 DEF PushStep

(* Before the exit, and in programs without such threads, no push is half  *)
(* done and none starts.                                                   *)
LEMMA NobodyPushes ==
  ASSUME ~Disturbed, push = NoPush
  PROVE  ~PushStep
  BY DEF Disturbed, NoPush, PushStep, PushStarts, PushReadsHead, PushStoresHead, PushGoes,
         PushLooksOn, PushAppends, PushWalks, PushSplices, PushEnds

(* Every step keeps the invariant: registrations, the pushes of other      *)
(* threads, the exit, each statement of exec().                            *)
LEMMA NextInv == IInv /\ [Next]_vars => IInv'
  <1>. SUFFICES ASSUME IInv, [Next]_vars  PROVE IInv'
    OBVIOUS
  <1>1. CASE ~Disturbed
    <2>1. Orderly /\ push = NoPush
      BY <1>1 DEF IInv
    <2>2. ~PushStep
      BY <1>1, <2>1, NobodyPushes
    <2>3. Orderly'
      BY <2>1, <2>2, OrderlyNext
    <2>4. push' = push
      BY <2>2 DEF Next, Register, Exit, ExecStep, ExecStarts, Load, Call, Return, Delete,
                  Advance, Closed, vars
    <2> QED
      BY <2>1, <2>3, <2>4 DEF IInv, Orderly
  <1>2. CASE Disturbed
    <2>1. TypeOK
      BY DEF IInv
    <2>2. \A t \in Tasks : ~Register(t)
      BY <1>2 DEF Disturbed, Register
    <2>3. TypeOK'
      <3>1. CASE UNCHANGED vars
        BY <2>1, <3>1 DEF vars, TypeOK
      <3>2. CASE Exit
        BY <1>2, <3>2 DEF Disturbed, Exit
      <3> QED
        BY <2>1, <2>2, <3>1, <3>2, PushTypes, ExecTypes DEF Next, Closed
    <2>4. setting' = setting /\ (phase # "open" => phase' # "open")
      BY DEF Next, Register, PushStep, PushStarts, PushReadsHead, PushStoresHead, PushGoes,
             PushLooksOn, PushAppends, PushWalks, PushSplices, PushEnds, Exit, ExecStep,
             ExecStarts, Load, Call, Return, Delete, Advance, Closed, vars
    <2> QED
      BY <1>2, <2>3, <2>4 DEF IInv, Disturbed
  <1> QED
    BY <1>1, <1>2

(* The exit begins with a call of exec() owed, and a call of exec() ends    *)
(* when it finds the list empty.                                           *)
LEMMA EmptiedNext == IInv /\ Emptied /\ [Next]_vars => Emptied'
  <1>. SUFFICES ASSUME IInv, Emptied, [Next]_vars  PROVE Emptied'
    OBVIOUS
  <1>. USE DEF IInv, TypeOK, Emptied
  <1>1. ASSUME NEW t \in Tasks, Register(t)  PROVE Emptied'
    BY <1>1 DEF Register
  <1>2. CASE Exit
    BY <1>2 DEF Exit
  <1>3. CASE ExecStarts
    BY <1>3 DEF ExecStarts
  <1>4. CASE Load
    BY <1>4 DEF Load
  <1>5. CASE Call \/ Return \/ Delete \/ Advance
    BY <1>5 DEF Call, Return, Delete, Advance
  <1>6. CASE UNCHANGED vars
    BY <1>6 DEF vars
  <1>7. CASE PushStep
    <2>1. SUFFICES ASSUME ~setting.racing PROVE FALSE
      BY <1>7 DEF PushStep, PushStarts, PushReadsHead, PushStoresHead, PushGoes,
                  PushLooksOn, PushAppends, PushWalks, PushSplices, PushEnds
    <2> QED
      BY <1>7, <2>1, NobodyPushes DEF Disturbed
  <1> QED
    BY <1>1, <1>2, <1>3, <1>4, <1>5, <1>6, <1>7 DEF Next, ExecStep, Closed

(* The invariants hold in every behaviour. *)
LEMMA Invariance == Spec => []IInv
  BY InitInv, NextInv, PTL DEF Spec

(* Before the exit no call of exec() has ended. *)
LEMMA EmptiedInit == Init => Emptied
  BY DEF Init, Emptied

(* After the last call of exec() the list is empty, in every behaviour. *)
LEMMA EmptiedInvariance == Spec => []Emptied
  BY Invariance, EmptiedInit, EmptiedNext, PTL DEF Spec, IInv

(* A task registered before the exit has been called, or is called after    *)
(* those it comes after; and by the end all of them have been.              *)
LEMMA EarlyOnes ==
  ASSUME IInv, Emptied, ~setting.racing, NEW u \in EarlyTasks
  PROVE  /\ u \in Elements(ran) \/ \A v \in Elements(ran) : Before(v, u)
         /\ phase = "closed" => u \in Elements(ran)
  <1>1. PICK n \in Nat : \E q \in [1 .. n -> Tasks], k \in 1 .. n + 1 : Listed(n, q, k)
    BY DEF IInv, Disturbed, Orderly, List
  <1>2. PICK q \in [1 .. n -> Tasks], k \in 1 .. n + 1 : Listed(n, q, k)
    BY <1>1
  <1>3. u \in Elements(ran) \/ \E i \in 1 .. n : q[i] = u /\ Uncalled(u)
    BY <1>2 DEF Listed, Kept, Pending, ToCall
  <1>4. phase = "closed" => n = 0
    <2>1. n # 0 => pstack \in Tasks
      BY <1>2 DEF Listed, Chain
    <2> QED
      BY <2>1, TasksAssumption DEF Emptied
  <1> QED
    BY <1>3, <1>4 DEF Uncalled

-----------------------------------------------------------------------------
(* Every variable of atexit_stack and exec() keeps its type; exec() never  *)
(* reads through a null pstack.                                            *)
THEOREM TypeCorrect == Spec => []TypeOK
  BY Invariance, PTL DEF IInv

(* The tasks registered before the exit are called by priority and the     *)
(* later registered first, for any number of tasks and any priorities,     *)
(* whatever their routines push in between.                                *)
THEOREM OrderKept == Spec => []CalledInOrder
  <1>1. IInv => CalledInOrder
    BY DEF IInv, Disturbed, Orderly, History, Before, CalledInOrder
  <1> QED
    BY <1>1, Invariance, PTL

(* Unless another thread registers while the process exits, no routine is  *)
(* called twice, and no push meets a task that was deleted, for any number *)
(* of tasks, whatever their routines register.                             *)
THEOREM EachCalledOnce == Spec => [](~setting.racing => CalledOnce)
  <1>1. IInv => (~setting.racing => CalledOnce)
    BY DEF IInv, Disturbed, Orderly, History, CalledOnce, NoneTwice
  <1> QED
    BY <1>1, Invariance, PTL

(* At the end of the process every task that was registered before the exit *)
(* has been called, unless other threads went on registering.               *)
THEOREM EarlyTasksCalled ==
  Spec => [](phase = "closed" /\ ~setting.racing => EarlyTasks \subseteq Elements(ran))
  <1>1. IInv /\ Emptied =>
          (phase = "closed" /\ ~setting.racing => EarlyTasks \subseteq Elements(ran))
    BY EarlyOnes
  <1> QED
    BY <1>1, Invariance, EmptiedInvariance, PTL
=============================================================================
