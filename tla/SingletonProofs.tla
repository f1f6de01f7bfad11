-------------------------- MODULE SingletonProofs --------------------------
(***************************************************************************)
(* The references of a singleton are to whole objects, each object is      *)
(* destroyed whole and once, and the longer-lived later, for any set of    *)
(* singletons and threads, any lifetimes and any graph of uses.            *)
(*                                                                         *)
(* The exit is taken from AtExitProofs, with its invariant ExitInv: the    *)
(* list of tasks is sorted and exec() goes through it.  The rest is about  *)
(* the calls of the threads, counted from the outermost.  A call within a  *)
(* call is of a singleton which the outer one uses and has not had yet     *)
(* (Calls), only the innermost moves (Top), a singleton is under           *)
(* construction in exactly one call (Single, Somewhere), and what a        *)
(* singleton has gone through is what its call, the list and exec() say    *)
(* of it (Good, Fates).  UsesFirst ties the two together: what a           *)
(* constructor uses is settled before its own singleton is registered, so  *)
(* the list has them in an order which AtExit keeps.                       *)
(***************************************************************************)
EXTENDS Singleton, TLAPS

E == INSTANCE AtExitProofs WITH Tasks <- Singletons

USE DEF AtExit!list, AtExit!exec, AtExit!calls, E!list, E!exec, E!calls

-----------------------------------------------------------------------------
(* The calls of a thread, the outermost first.                             *)
Depth(t) == Len(stack[t])
At(t, d) == stack[t][Depth(t) + 1 - d]

Building   == {"construct", "register", "finish"}
Settled(s) == once[s] \in {"done", "failed"}
Registered == E!Elements(pushed)
Called     == E!Elements(ran)

(* exec() is in the destructor of s.                                       *)
Dying(s) == phase = "running" /\ ran # <<>> /\ s = ran[Len(ran)]

(* What a call knows of the singleton that it is of.                       *)
Good(f) ==
  /\ f.at \in Building => once[f.of] = "running"
  /\ f.at = "construct" => object[f.of] = "raw" /\ f.of \notin Registered
  /\ f.at = "register" => /\ object[f.of] = "alive" /\ f.of \notin Registered
                          /\ \A u \in uses[f.of] : Settled(u)
  /\ f.at = "finish" => f.of \in Registered
  /\ f.at = "destroy" => Dying(f.of)
  /\ f.at \in {"construct", "destroy"} => f.left \subseteq uses[f.of]

(* f calls instance(), and g is in it.                                     *)
Calls(f, g) ==
  /\ f.at \in {"construct", "destroy"} /\ g.of \in uses[f.of]
  /\ f.at = "construct" =>
       \A u \in uses[f.of] : u \in f.left \/ u = g.of \/ Settled(u)

(* f is the innermost call.                                                *)
Top(f) == f.at = "construct" =>
            \A u \in uses[f.of] : u \in f.left \/ Settled(u)

Sound(t) ==
  \A d \in 1 .. Depth(t) :
    /\ Good(At(t, d))
    /\ d < Depth(t) => Calls(At(t, d), At(t, d + 1))
    /\ d = Depth(t) => Top(At(t, d))
    /\ At(t, d).at = "destroy" => d = 1

FramesOK == \A t \in Threads : Sound(t)

(* f constructs s.                                                         *)
Builds(f, s) == f.at \in Building /\ f.of = s

(* A singleton is constructed by one call only, ...                        *)
Single ==
  \A s \in Singletons : \A t, u \in Threads :
    \A d \in 1 .. Depth(t), e \in 1 .. Depth(u) :
      Builds(At(t, d), s) /\ Builds(At(u, e), s) => t = u /\ d = e

(* ... and by one as long as its control is running.                       *)
Somewhere ==
  \A s \in Singletons : once[s] = "running" =>
    \E t \in Threads : \E d \in 1 .. Depth(t) : Builds(At(t, d), s)

(* The control of a singleton, its object and its task in the list.        *)
Fate(s) ==
  /\ once[s] = "untouched" => object[s] = "raw"
  /\ once[s] \in {"untouched", "failed"} => s \notin Registered
  /\ once[s] = "done" => s \in Registered
  /\ s \in Registered => /\ object[s] # "raw"
                         /\ object[s] = "alive" <=> s \notin Called \/ Dying(s)
  /\ object[s] = "alive" /\ s \notin Registered => once[s] = "running"

(* What a singleton uses was registered before it, or could not be         *)
(* constructed.                                                            *)
UsesFirst ==
  \A j \in DOMAIN pushed : \A u \in uses[pushed[j]] :
    once[u] = "failed" \/ \E i \in 1 .. j - 1 : pushed[i] = u

(* After main() there is one thread, and it is in exec() or in a           *)
(* destructor.                                                             *)
Quiet ==
  /\ phase = "running" => \A t \in Threads \ {Main} : stack[t] = <<>>
  /\ phase \notin {"open", "running"} => \A t \in Threads : stack[t] = <<>>

SingletonTypes ==
  /\ uses \in UseGraphs
  /\ once \in [Singletons -> {"untouched", "running", "done", "failed"}]
  /\ object \in [Singletons -> {"raw", "alive", "dead"}]
  /\ stack \in [Threads -> Seq(Frames)]

ExitInv == E!IInv /\ E!Emptied

Fates == \A s \in Singletons : Fate(s)

SInv == /\ SingletonTypes /\ ExitInv
        /\ FramesOK /\ Single /\ Somewhere /\ Fates /\ UsesFirst /\ Quiet

-----------------------------------------------------------------------------
(* The list of tasks is the one that AtExitProofs is about.                *)
LEMMA ExitAssumptions ==
  E!TasksAssumption /\ E!PrioAssumption /\ E!SettingsAssumption
  <1>1. E!TasksAssumption
    BY SingletonsAssumption DEF E!TasksAssumption, IsFiniteSet, E!IsFiniteSet
  <1>2. E!PrioAssumption
    BY LifetimeAssumption DEF E!PrioAssumption, Prio, IntMin
  <1>3. E!SettingsAssumption
    BY DEF E!SettingsAssumption, Settings
  <1> QED
    BY <1>1, <1>2, <1>3

(* The list is empty at first. *)
LEMMA ExitInit == AtExit!Init => ExitInv
  <1>. SUFFICES ASSUME AtExit!Init PROVE ExitInv
    OBVIOUS
  <1>1. E!Init
    BY DEF AtExit!Init, E!Init, AtExit!NoPush, E!NoPush
  <1>2. E!IInv
    BY <1>1, E!InitInv, ExitAssumptions
  <1>3. E!Emptied
    BY <1>1, E!EmptiedInit, ExitAssumptions
  <1> QED
    BY <1>2, <1>3 DEF ExitInv

(* A step of AtExit, or none, keeps the invariant of the list. *)
LEMMA ExitNext == ExitInv /\ [E!Next]_exitVars => ExitInv'
  <1>. SUFFICES ASSUME ExitInv, [E!Next]_exitVars PROVE ExitInv'
    OBVIOUS
  <1>1. [E!Next]_E!vars
    BY DEF exitVars, E!vars
  <1>2. E!IInv'
    BY <1>1, E!NextInv, ExitAssumptions DEF ExitInv
  <1>3. E!Emptied'
    BY <1>1, E!EmptiedNext, ExitAssumptions DEF ExitInv
  <1> QED
    BY <1>2, <1>3 DEF ExitInv

(* Register is the push that AtExitProofs is about: both walk the same list. *)
LEMMA ExitRegister ==
  ASSUME NEW s \in Singletons, AtExit!Register(s)
  PROVE  E!Register(s)
  <1>1. E!Cardinality(Singletons) = AtExit!Cardinality(Singletons)
    BY Zenon DEF E!Cardinality, AtExit!Cardinality
  <1>2. E!Node = AtExit!Node
    BY <1>1 DEF E!Node, AtExit!Node
  <1> QED
    BY <1>1, <1>2
    DEF AtExit!Register, E!Register, AtExit!StopsAfter, E!StopsAfter,
        AtExit!Link, E!Link, AtExit!GoesBefore, E!GoesBefore, AtExit!Deleted, E!Deleted

(* The other steps of the exit are those that AtExitProofs is about, or none. *)
LEMMA ExitOthers ==
  ASSUME \/ AtExit!Exit \/ AtExit!ExecStarts \/ AtExit!Load \/ AtExit!Call
         \/ AtExit!Return \/ AtExit!Delete \/ AtExit!Advance \/ AtExit!Closed
  PROVE  [E!Next]_exitVars
  <1>1. CASE AtExit!Exit
    BY <1>1 DEF AtExit!Exit, E!Next, E!Exit
  <1>2. CASE AtExit!ExecStarts
    BY <1>2 DEF AtExit!ExecStarts, E!Next, E!ExecStep, E!ExecStarts
  <1>3. CASE AtExit!Load
    BY <1>3 DEF AtExit!Load, E!Next, E!ExecStep, E!Load,
                AtExit!Deleted, E!Deleted
  <1>4. CASE AtExit!Call
    BY <1>4 DEF AtExit!Call, E!Next, E!ExecStep, E!Call
  <1>5. CASE AtExit!Return
    BY <1>5 DEF AtExit!Return, E!Next, E!ExecStep, E!Return
  <1>6. CASE AtExit!Delete
    BY <1>6 DEF AtExit!Delete, E!Next, E!ExecStep, E!Delete
  <1>7. CASE AtExit!Advance
    BY <1>7 DEF AtExit!Advance, E!Next, E!ExecStep, E!Advance
  <1>8. CASE AtExit!Closed
    BY <1>8 DEF AtExit!Closed, AtExit!vars, exitVars
  <1> QED
    BY <1>1, <1>2, <1>3, <1>4, <1>5, <1>6, <1>7, <1>8

(* What the list says of the history.                                      *)
LEMMA FromExit ==
  ASSUME ExitInv
  PROVE  /\ pushed \in Seq(Singletons) /\ ran \in Seq(Singletons)
         /\ setting \in Settings /\ ~setting.racing
         /\ pstack \in Singletons \cup {Null}
         /\ phase = "loaded" => pstack \in Singletons
         /\ \A i, j \in DOMAIN pushed : pushed[i] = pushed[j] => i = j
         /\ \A i, j \in DOMAIN ran : ran[i] = ran[j] => i = j
         /\ Called \subseteq Registered
         /\ phase = "open" => ran = <<>>
         /\ \A s \in Singletons : heap[s] # "free" <=> s \in Registered
         /\ \A i, j \in DOMAIN ran : i < j => E!Before(ran[i], ran[j])
  <1>1. setting \in Settings /\ ~setting.racing
    BY DEF ExitInv, E!IInv, E!TypeOK, Settings
  <1> QED
    BY <1>1 DEF ExitInv, E!IInv, E!Disturbed, E!Orderly, E!TypeOK, E!History,
                Registered, Called

(* The calls there are.                                                    *)
LEMMA AFrame ==
  ASSUME NEW s \in Singletons, NEW left \in SUBSET Singletons,
         NEW at \in {"call", "construct", "register", "finish", "destroy"}
  PROVE  \E g \in Frames : /\ g = Frame(s, at, left)
                           /\ g.of = s /\ g.at = at /\ g.left = left
  <1>1. Frame(s, at, left) \in Frames
    BY DEF Frames, Frame
  <1>2. /\ Frame(s, at, left).of = s /\ Frame(s, at, left).at = at
        /\ Frame(s, at, left).left = left
    BY DEF Frame
  <1> QED
    BY <1>1, <1>2, Zenon

-----------------------------------------------------------------------------
(* The first k calls of t go on, and so do those of the other threads.     *)
KeptBelow(t, k) ==
  /\ stack' \in [Threads -> Seq(Frames)]
  /\ k \in 0 .. Depth(t) /\ k <= Depth(t)'
  /\ \A d \in 1 .. k : At(t, d)' = At(t, d)
  /\ \A u \in Threads \ {t} : /\ stack'[u] = stack[u]
                              /\ Depth(u)' = Depth(u)
                              /\ \A d \in 1 .. Depth(u) : At(u, d)' = At(u, d)

(* The innermost call of t is the one at its depth. *)
LEMMA Depths ==
  ASSUME SingletonTypes, NEW t \in Threads
  PROVE  /\ stack[t] \in Seq(Frames) /\ Depth(t) \in Nat
         /\ \A d \in 1 .. Depth(t) : At(t, d) \in Frames
         /\ Depth(t) = 0 <=> stack[t] = <<>>
         /\ Depth(t) # 0 => Head(stack[t]) = At(t, Depth(t))
  BY DEF SingletonTypes, Depth, At

(* The sequences that Push, Pop, Continue and Use make.                    *)
LEMMA OneMore ==
  ASSUME NEW q \in Seq(Frames), NEW f \in Frames, NEW r, r = <<f>> \o q
  PROVE  /\ r \in Seq(Frames) /\ Len(r) = Len(q) + 1 /\ r[1] = f
         /\ \A i \in 1 .. Len(q) : r[i + 1] = q[i]
  OBVIOUS

(* Use puts two calls in front. *)
LEMMA TwoMore ==
  ASSUME NEW q \in Seq(Frames), NEW f \in Frames, NEW g \in Frames,
         NEW r, r = <<g, f>> \o q
  PROVE  /\ r \in Seq(Frames) /\ Len(r) = Len(q) + 2 /\ r[1] = g /\ r[2] = f
         /\ \A i \in 1 .. Len(q) : r[i + 2] = q[i]
  OBVIOUS

(* Pop takes one away. *)
LEMMA OneLess ==
  ASSUME NEW q \in Seq(Frames), q # <<>>, NEW r, r = Tail(q)
  PROVE  /\ r \in Seq(Frames) /\ Len(r) = Len(q) - 1 /\ Len(q) \in Nat /\ Len(q) >= 1
         /\ \A i \in 1 .. Len(q) - 1 : r[i] = q[i + 1]
  OBVIOUS

(* The calls of t become r, and those of the others stay.                  *)
Becomes(t, r) == /\ stack' \in [Threads -> Seq(Frames)]
                 /\ stack'[t] = r
                 /\ \A u \in Threads \ {t} : stack'[u] = stack[u]

(* What an assignment to stack[t] says. *)
LEMMA BecomesSo ==
  ASSUME SingletonTypes, NEW t \in Threads, NEW r \in Seq(Frames),
         stack' = [stack EXCEPT ![t] = r]
  PROVE  Becomes(t, r)
  BY DEF SingletonTypes, Becomes

(* The first k calls of q, the outermost first, go on in r.                *)
Share(q, r, k) ==
  \A d \in 1 .. k : r[Len(r) + 1 - d] = q[Len(q) + 1 - d]

(* If r goes on with the first k calls of q, t does. *)
LEMMA Sharing ==
  ASSUME SingletonTypes, NEW t \in Threads, NEW q, q = stack[t],
         NEW r \in Seq(Frames), Becomes(t, r),
         NEW k \in 0 .. Depth(t), k <= Len(r), Share(q, r, k)
  PROVE  KeptBelow(t, k) /\ Depth(t)' = Len(r)
  <1>1. stack'[t] = r /\ Depth(t)' = Len(r)
    BY DEF Becomes, Depth
  <1>2. \A d \in 1 .. k : At(t, d)' = At(t, d)
    BY <1>1 DEF Share, At, Depth
  <1>3. ASSUME NEW u \in Threads \ {t}
        PROVE  /\ stack'[u] = stack[u] /\ Depth(u)' = Depth(u)
               /\ \A d \in 1 .. Depth(u) : At(u, d)' = At(u, d)
    BY DEF Becomes, Depth, At
  <1>4. stack' \in [Threads -> Seq(Frames)]
    BY DEF Becomes
  <1> QED
    BY <1>1, <1>2, <1>3, <1>4 DEF KeptBelow

(* Push leaves the calls of t as they are and adds one. *)
LEMMA Pushing ==
  ASSUME SingletonTypes, NEW t \in Threads, NEW n, n = Depth(t),
         NEW f \in Frames, Push(t, f)
  PROVE  KeptBelow(t, n) /\ Depth(t)' = n + 1 /\ At(t, n + 1)' = f
  <1>1. PICK q \in Seq(Frames) : q = stack[t] /\ n = Len(q) /\ n \in Nat
    BY Depths DEF Depth
  <1>2. PICK r : r = <<f>> \o q
    OBVIOUS
  <1>3. /\ r \in Seq(Frames) /\ Len(r) = Len(q) + 1 /\ r[1] = f
        /\ \A i \in 1 .. Len(q) : r[i + 1] = q[i]
    BY <1>2, OneMore
  <1>4. Becomes(t, r)
    BY <1>1, <1>2, <1>3, BecomesSo DEF Push
  <1>5. \A d \in 1 .. n : n + 1 - d \in 1 .. n /\ (n + 1 - d) + 1 = n + 1 + 1 - d
    BY <1>1
  <1>6. Share(q, r, n)
    <2>. SUFFICES ASSUME NEW d \in 1 .. n
                  PROVE  r[Len(r) + 1 - d] = q[Len(q) + 1 - d]
      BY DEF Share
    <2>1. PICK i \in 1 .. Len(q) : i = n + 1 - d /\ i + 1 = n + 1 + 1 - d
      BY <1>1, <1>5
    <2>2. r[i + 1] = q[i]
      BY <1>3
    <2>. QED
      BY <1>1, <1>3, <2>1, <2>2
  <1>7. n \in 0 .. n /\ n <= n + 1 /\ (n + 1) + 1 - (n + 1) = 1
    BY <1>1
  <1>8. KeptBelow(t, n) /\ Depth(t)' = n + 1
    BY <1>1, <1>3, <1>4, <1>6, <1>7, Sharing
  <1>9. At(t, n + 1)' = r[1]
    BY <1>4, <1>7, <1>8 DEF At, Becomes
  <1> QED
    BY <1>3, <1>8, <1>9

(* Pop takes the innermost call away. *)
LEMMA Popping ==
  ASSUME SingletonTypes, NEW t \in Threads, NEW n, n = Depth(t),
         stack[t] # <<>>, Pop(t)
  PROVE  KeptBelow(t, n - 1) /\ Depth(t)' = n - 1 /\ n >= 1
  <1>1. PICK q \in Seq(Frames) : q = stack[t] /\ q # <<>> /\ n = Len(q) /\ n \in Nat
    BY Depths DEF Depth
  <1>2. PICK r : r = Tail(q)
    OBVIOUS
  <1>3. /\ r \in Seq(Frames) /\ Len(r) = Len(q) - 1 /\ Len(q) >= 1
        /\ \A i \in 1 .. Len(q) - 1 : r[i] = q[i + 1]
    BY <1>1, <1>2, OneLess
  <1>4. Becomes(t, r)
    BY <1>1, <1>2, <1>3, BecomesSo DEF Pop
  <1>5. \A d \in 1 .. n - 1 : n - d \in 1 .. n - 1 /\ n - d = n - 1 + 1 - d
                            /\ (n - d) + 1 = n + 1 - d
    BY <1>1
  <1>6. Share(q, r, n - 1)
    BY <1>1, <1>3, <1>5 DEF Share
  <1>7. n - 1 \in 0 .. n /\ Len(r) = n - 1 /\ n - 1 <= n - 1
    BY <1>1, <1>3
  <1>8. KeptBelow(t, n - 1) /\ Depth(t)' = n - 1
    BY <1>1, <1>3, <1>4, <1>6, <1>7, Sharing
  <1> QED
    BY <1>1, <1>3, <1>8

(* Continue replaces the innermost call. *)
LEMMA Continuing ==
  ASSUME SingletonTypes, NEW t \in Threads, NEW n, n = Depth(t),
         stack[t] # <<>>, NEW f \in Frames, Continue(t, f)
  PROVE  KeptBelow(t, n - 1) /\ Depth(t)' = n /\ n >= 1 /\ At(t, n)' = f
  <1>1. PICK q \in Seq(Frames) : q = stack[t] /\ q # <<>> /\ n = Len(q) /\ n \in Nat
    BY Depths DEF Depth
  <1>2. PICK p : p = Tail(q)
    OBVIOUS
  <1>3. /\ p \in Seq(Frames) /\ Len(p) = Len(q) - 1 /\ Len(q) >= 1
        /\ \A i \in 1 .. Len(q) - 1 : p[i] = q[i + 1]
    BY <1>1, <1>2, OneLess
  <1>4. PICK r : r = <<f>> \o p
    OBVIOUS
  <1>5. /\ r \in Seq(Frames) /\ Len(r) = Len(p) + 1 /\ r[1] = f
        /\ \A i \in 1 .. Len(p) : r[i + 1] = p[i]
    BY <1>3, <1>4, OneMore
  <1>6. Becomes(t, r)
    BY <1>1, <1>2, <1>4, <1>5, BecomesSo DEF Continue
  <1>7. /\ n >= 1 /\ n - 1 \in 0 .. n /\ n - 1 <= n /\ n + 1 - n = 1
        /\ \A d \in 1 .. n - 1 : n - d \in 1 .. n - 1 /\ (n - d) + 1 = n + 1 - d
    BY <1>1, <1>3
  <1>8. Len(r) = n /\ \A i \in 1 .. n - 1 : r[i + 1] = q[i + 1]
    <2>1. Len(p) = n - 1 /\ n - 1 + 1 = n
      BY <1>1, <1>3
    <2>2. /\ \A i \in 1 .. n - 1 : p[i] = q[i + 1]
          /\ \A i \in 1 .. n - 1 : r[i + 1] = p[i]
      BY <1>1, <1>3, <1>5, <2>1
    <2> QED
      BY <1>5, <2>1, <2>2
  <1>9. Share(q, r, n - 1)
    <2>1. ASSUME NEW d \in 1 .. n - 1  PROVE r[Len(r) + 1 - d] = q[Len(q) + 1 - d]
      <3>1. PICK i \in 1 .. n - 1 : i = n - d
        BY <1>7
      <3>2. r[i + 1] = q[i + 1]
        BY <1>8
      <3>3. i + 1 = n + 1 - d /\ i + 1 = n + 1 - d
        BY <1>7, <3>1
      <3> QED
        BY <1>1, <1>8, <3>2, <3>3
    <2> QED
      BY <2>1 DEF Share
  <1>10. KeptBelow(t, n - 1) /\ Depth(t)' = n
    BY <1>1, <1>5, <1>6, <1>7, <1>8, <1>9, Sharing
  <1>11. At(t, n)' = r[1]
    BY <1>6, <1>7, <1>10 DEF At, Becomes
  <1> QED
    BY <1>5, <1>7, <1>10, <1>11

(* Use replaces the innermost call and adds one. *)
LEMMA Using ==
  ASSUME SingletonTypes, NEW t \in Threads, NEW n, n = Depth(t),
         stack[t] # <<>>, NEW f \in Frames, NEW g \in Frames,
         stack' = [stack EXCEPT ![t] = <<g, f>> \o Tail(stack[t])]
  PROVE  /\ KeptBelow(t, n - 1) /\ Depth(t)' = n + 1 /\ n >= 1
         /\ At(t, n)' = f /\ At(t, n + 1)' = g
  <1>1. PICK q \in Seq(Frames) : q = stack[t] /\ q # <<>> /\ n = Len(q) /\ n \in Nat
    BY Depths DEF Depth
  <1>2. PICK p : p = Tail(q)
    OBVIOUS
  <1>3. /\ p \in Seq(Frames) /\ Len(p) = Len(q) - 1 /\ Len(q) >= 1
        /\ \A i \in 1 .. Len(q) - 1 : p[i] = q[i + 1]
    BY <1>1, <1>2, OneLess
  <1>4. PICK r : r = <<g, f>> \o p
    OBVIOUS
  <1>5. /\ r \in Seq(Frames) /\ Len(r) = Len(p) + 2 /\ r[1] = g /\ r[2] = f
        /\ \A i \in 1 .. Len(p) : r[i + 2] = p[i]
    BY <1>3, <1>4, TwoMore
  <1>6. Becomes(t, r)
    BY <1>1, <1>2, <1>4, <1>5, BecomesSo
  <1>7. /\ n >= 1 /\ n - 1 \in 0 .. n /\ n - 1 <= n + 1
        /\ n + 1 + 1 - n = 2 /\ n + 1 + 1 - (n + 1) = 1
        /\ \A d \in 1 .. n - 1 : /\ n - d \in 1 .. n - 1 /\ (n - d) + 1 = n + 1 - d
                               /\ (n - d) + 2 = n + 1 + 1 - d
    BY <1>1, <1>3
  <1>8. Len(r) = n + 1 /\ \A i \in 1 .. n - 1 : r[i + 2] = q[i + 1]
    <2>1. Len(p) = n - 1 /\ n - 1 + 2 = n + 1
      BY <1>1, <1>3
    <2>2. /\ \A i \in 1 .. n - 1 : p[i] = q[i + 1]
          /\ \A i \in 1 .. n - 1 : r[i + 2] = p[i]
      BY <1>1, <1>3, <1>5, <2>1
    <2> QED
      BY <1>5, <2>1, <2>2
  <1>9. Share(q, r, n - 1)
    <2>1. ASSUME NEW d \in 1 .. n - 1  PROVE r[Len(r) + 1 - d] = q[Len(q) + 1 - d]
      <3>1. PICK i \in 1 .. n - 1 : i = n - d
        BY <1>7
      <3>2. r[i + 2] = q[i + 1]
        BY <1>8
      <3>3. i + 1 = n + 1 - d /\ i + 2 = n + 1 + 1 - d
        BY <1>7, <3>1
      <3> QED
        BY <1>1, <1>8, <3>2, <3>3
    <2> QED
      BY <2>1 DEF Share
  <1>10. KeptBelow(t, n - 1) /\ Depth(t)' = n + 1
    BY <1>1, <1>5, <1>6, <1>7, <1>8, <1>9, Sharing
  <1>11. At(t, n)' = r[2] /\ At(t, n + 1)' = r[1]
    BY <1>6, <1>7, <1>10 DEF At, Becomes
  <1> QED
    BY <1>5, <1>7, <1>10, <1>11

-----------------------------------------------------------------------------
(* Only s is touched, and not what is settled of it.                       *)
Steady(s) ==
  /\ uses' = uses /\ phase' = phase /\ ran' = ran
  /\ \A u \in Singletons \ {s} : once'[u] = once[u] /\ object'[u] = object[u]
  /\ Settled(s) => once'[s] = once[s]
  /\ Registered \subseteq Registered' /\ Registered' \subseteq Registered \cup {s}

(* What f knows of s, if it constructs s, stays.                           *)
Apart(f, s) ==
  Builds(f, s) => /\ once'[s] = once[s] /\ object'[s] = object[s]
                  /\ s \in Registered' <=> s \in Registered

(* What a singleton uses are singletons. *)
LEMMA UsesAreSingletons ==
  ASSUME SingletonTypes
  PROVE  \A s \in Singletons : uses[s] \subseteq Singletons
  BY UsesAssumption DEF SingletonTypes

(* What is done or has failed stays so. *)
LEMMA SettledStays ==
  ASSUME NEW s \in Singletons, Steady(s), NEW u \in Singletons, Settled(u)
  PROVE  Settled(u)'
  BY DEF Steady, Settled

(* What a call knows stays, unless it constructs s and s is touched. *)
LEMMA GoodStays ==
  ASSUME SingletonTypes, NEW s \in Singletons, Steady(s),
         NEW f \in Frames, Good(f), Apart(f, s)
  PROVE  Good(f)'
  <1>1. f.of \in Singletons /\ uses'[f.of] = uses[f.of]
    BY DEF Frames, Steady
  <1>2. f.at \in Building => /\ once'[f.of] = once[f.of] /\ object'[f.of] = object[f.of]
                             /\ f.of \in Registered' <=> f.of \in Registered
    BY <1>1 DEF Steady, Apart, Builds
  <1>3. \A u \in uses[f.of] : Settled(u) => Settled(u)'
    BY <1>1, UsesAreSingletons, SettledStays
  <1>4. Dying(f.of) => Dying(f.of)'
    BY DEF Steady, Dying
  <1> QED
    BY <1>1, <1>2, <1>3, <1>4 DEF Good, Building

(* That f called instance() and that g is in it stays. *)
LEMMA CallsStays ==
  ASSUME SingletonTypes, NEW s \in Singletons, Steady(s),
         NEW f \in Frames, NEW g \in Frames, Calls(f, g)
  PROVE  Calls(f, g)'
  <1>1. f.of \in Singletons /\ uses'[f.of] = uses[f.of]
    BY DEF Frames, Steady
  <1>2. \A u \in uses[f.of] : Settled(u) => Settled(u)'
    BY <1>1, UsesAreSingletons, SettledStays
  <1> QED
    BY <1>1, <1>2 DEF Calls

(* What the innermost call has behind it stays behind it. *)
LEMMA TopStays ==
  ASSUME SingletonTypes, NEW s \in Singletons, Steady(s), NEW f \in Frames, Top(f)
  PROVE  Top(f)'
  <1>1. f.of \in Singletons /\ uses'[f.of] = uses[f.of]
    BY DEF Frames, Steady
  <1>2. \A u \in uses[f.of] : Settled(u) => Settled(u)'
    BY <1>1, UsesAreSingletons, SettledStays
  <1> QED
    BY <1>1, <1>2 DEF Top

(* What a call knows depends on the call, not on its place.                *)
LEMMA InPlace ==
  ASSUME NEW t, NEW d, NEW f, At(t, d)' = f
  PROVE  /\ Good(f)' => Good(At(t, d))'
         /\ Top(f)' => Top(At(t, d))'
         /\ (f.at # "destroy" \/ d = 1) => (At(t, d).at = "destroy" => d = 1)'
  BY DEF Good, Top

(* That one call is in another depends on the calls, not on their places. *)
LEMMA InPlaces ==
  ASSUME NEW t, NEW d, NEW f, At(t, d)' = f, NEW e, NEW g, At(t, e)' = g
  PROVE  Calls(f, g)' => Calls(At(t, d), At(t, e))'
  BY DEF Calls

(* What holds of the first k calls of t, if it does not depend on the others. *)
SoundBelow(t, k) ==
  \A d \in 1 .. k :
    /\ Good(At(t, d))
    /\ d < k => Calls(At(t, d), At(t, d + 1))
    /\ At(t, d).at = "destroy" => d = 1

(* The first k calls of t stay as sound as they were. *)
LEMMA BelowStays ==
  ASSUME SingletonTypes, NEW s \in Singletons, Steady(s),
         NEW t \in Threads, NEW k, k \in 0 .. Depth(t),
         \A d \in 1 .. k : At(t, d)' = At(t, d) /\ Apart(At(t, d), s),
         SoundBelow(t, k)
  PROVE  SoundBelow(t, k)'
  <1>1. ASSUME NEW d \in 1 .. k
        PROVE  /\ Good(At(t, d))'
               /\ (At(t, d).at = "destroy" => d = 1)'
    <2>1. PICK f \in Frames : f = At(t, d) /\ f = At(t, d)'
      BY Depths
    <2>2. Good(f) /\ Apart(f, s) /\ (f.at = "destroy" => d = 1)
      BY <2>1 DEF SoundBelow
    <2>3. Good(f)'
      BY <2>2, GoodStays
    <2> QED
      BY <2>1, <2>2, <2>3, InPlace
  <1>2. ASSUME NEW d \in 1 .. k, d < k
        PROVE  Calls(At(t, d), At(t, d + 1))'
    <2>1. d + 1 \in 1 .. k
      BY <1>2, Depths
    <2>2. PICK f \in Frames : f = At(t, d) /\ f = At(t, d)'
      BY Depths
    <2>3. PICK g \in Frames : g = At(t, d + 1) /\ g = At(t, d + 1)'
      BY <2>1, Depths
    <2>4. Calls(f, g)
      BY <1>2, <2>2, <2>3 DEF SoundBelow
    <2>5. Calls(f, g)'
      BY <2>4, CallsStays
    <2> QED
      BY <2>2, <2>3, <2>5, InPlaces
  <1> QED
    BY <1>1, <1>2 DEF SoundBelow

(* A thread that takes no step stays sound. *)
LEMMA ThreadStays ==
  ASSUME SingletonTypes, NEW s \in Singletons, Steady(s),
         NEW u \in Threads, Sound(u), Depth(u)' = Depth(u),
         \A d \in 1 .. Depth(u) : At(u, d)' = At(u, d) /\ Apart(At(u, d), s)
  PROVE  Sound(u)'
  <1>1. PICK n \in Nat : n = Depth(u) /\ n = Depth(u)'
    BY Depths
  <1>2. SoundBelow(u, n)
    BY <1>1 DEF Sound, SoundBelow
  <1>3. SoundBelow(u, n)'
    BY <1>1, <1>2, BelowStays
  <1>4. n # 0 => Top(At(u, n))'
    <2>1. SUFFICES ASSUME n # 0  PROVE Top(At(u, n))'
      OBVIOUS
    <2>2. n \in 1 .. n
      BY <2>1
    <2>3. PICK f \in Frames : f = At(u, n) /\ f = At(u, n)'
      BY <1>1, <2>2, Depths
    <2>4. Top(f)
      BY <1>1, <2>2, <2>3 DEF Sound
    <2> QED
      BY <2>3, <2>4, TopStays, InPlace
  <1> QED
    BY <1>1, <1>3, <1>4 DEF Sound, SoundBelow

(* A step of t: its first k calls go on, and no call but its innermost can *)
(* construct s.                                                            *)
Moves(t, k, s) ==
  /\ Steady(s) /\ KeptBelow(t, k)
  /\ \A d \in 1 .. k : Apart(At(t, d), s)
  /\ \A u \in Threads \ {t} : \A d \in 1 .. Depth(u) : Apart(At(u, d), s)

(* After a step of t the other threads are sound, and t as far as its calls go on. *)
LEMMA MovesSound ==
  ASSUME SingletonTypes, FramesOK, NEW s \in Singletons, NEW t \in Threads, NEW k,
         Moves(t, k, s)
  PROVE  SoundBelow(t, k)' /\ \A u \in Threads \ {t} : Sound(u)'
  <1>1. Steady(s) /\ k \in 0 .. Depth(t)
    BY DEF Moves, KeptBelow
  <1>2. ASSUME NEW u \in Threads \ {t}  PROVE Sound(u)'
    BY <1>1, ThreadStays DEF FramesOK, Moves, KeptBelow
  <1>3. SoundBelow(t, k)
    <2>1. \A d \in 1 .. k : d \in 1 .. Depth(t) /\ (d < k => d < Depth(t))
      BY <1>1, Depths
    <2> QED
      BY <2>1 DEF FramesOK, Sound, SoundBelow
  <1>4. SoundBelow(t, k)'
    BY <1>1, <1>3, BelowStays DEF Moves, KeptBelow
  <1> QED
    BY <1>2, <1>4

(* The call below the innermost.                                           *)
LEMMA Below ==
  ASSUME SingletonTypes, FramesOK, NEW s \in Singletons, NEW t \in Threads,
         NEW n, n = Depth(t), n >= 1, Moves(t, n - 1, s), NEW f, f = At(t, n)
  PROVE  /\ n \in Nat /\ f \in Frames
         /\ n # 1 => /\ n - 1 \in 1 .. n - 1 /\ n - 1 \in 1 .. n /\ (n - 1) + 1 = n
                    /\ \E p \in Frames : /\ p = At(t, n - 1) /\ p = At(t, n - 1)'
                                         /\ Calls(p, f) /\ Calls(p, f)'
  <1>1. n \in Nat /\ f \in Frames
    BY Depths
  <1>2. SUFFICES ASSUME n # 1
        PROVE  /\ n - 1 \in 1 .. n - 1 /\ n - 1 \in 1 .. n /\ (n - 1) + 1 = n
               /\ \E p \in Frames : /\ p = At(t, n - 1) /\ p = At(t, n - 1)'
                                    /\ Calls(p, f) /\ Calls(p, f)'
    BY <1>1
  <1>3. n - 1 \in 1 .. n - 1 /\ n - 1 \in 1 .. n /\ (n - 1) + 1 = n /\ n - 1 < n
    BY <1>1, <1>2
  <1>4. PICK p \in Frames : p = At(t, n - 1)
    BY <1>3, Depths
  <1>5. p = At(t, n - 1)'
    BY <1>3, <1>4 DEF Moves, KeptBelow
  <1>6. Calls(p, f)
    BY <1>3, <1>4 DEF FramesOK, Sound
  <1>7. Calls(p, f)'
    BY <1>1, <1>6, CallsStays DEF Moves
  <1> QED
    BY <1>3, <1>4, <1>5, <1>6, <1>7

(* instance() returns, or fails.                                           *)
LEMMA ReturnSound ==
  ASSUME SingletonTypes, FramesOK, NEW s \in Singletons, NEW t \in Threads,
         NEW n, n = Depth(t), n >= 1, Moves(t, n - 1, s), NEW f, f = At(t, n),
         Depth(t)' = n - 1, Settled(f.of)'
  PROVE  FramesOK'
  <1>1. SoundBelow(t, n - 1)' /\ \A u \in Threads \ {t} : Sound(u)'
    BY MovesSound
  <1>2. n - 1 # 0 => Top(At(t, n - 1))'
    <2>1. SUFFICES ASSUME n - 1 # 0  PROVE Top(At(t, n - 1))'
      OBVIOUS
    <2>2. PICK p \in Frames : p = At(t, n - 1)' /\ Calls(p, f)'
      BY <2>1, Below
    <2>3. Top(p)'
      BY <2>2 DEF Calls, Top
    <2> QED
      BY <2>2, <2>3, InPlace
  <1>3. PICK m \in Nat : m = n - 1
    BY Below
  <1>4. Sound(t)'
    BY <1>1, <1>2, <1>3 DEF Sound, SoundBelow
  <1> QED
    BY <1>1, <1>4 DEF FramesOK

(* The innermost call goes on.                                             *)
LEMMA TopSound ==
  ASSUME SingletonTypes, FramesOK, NEW s \in Singletons, NEW t \in Threads,
         NEW n, n = Depth(t), n >= 1, Moves(t, n - 1, s), NEW f, f = At(t, n),
         Depth(t)' = n, NEW g, g = At(t, n)', g.of = f.of,
         Good(g)', Top(g)', g.at # "destroy"
  PROVE  FramesOK'
  <1>1. SoundBelow(t, n - 1)' /\ \A u \in Threads \ {t} : Sound(u)'
    BY MovesSound
  <1>2. Good(At(t, n))' /\ Top(At(t, n))' /\ (At(t, n).at = "destroy" => n = 1)'
    BY InPlace
  <1>3. n - 1 # 0 => Calls(At(t, n - 1), At(t, n))'
    <2>1. SUFFICES ASSUME n - 1 # 0  PROVE Calls(At(t, n - 1), At(t, n))'
      OBVIOUS
    <2>2. PICK p \in Frames : p = At(t, n - 1)' /\ Calls(p, f)'
      BY <2>1, Below
    <2>3. Calls(p, g)'
      BY <2>2 DEF Calls
    <2> QED
      BY <2>2, <2>3, InPlaces
  <1>4. PICK m \in Nat : m = n - 1 /\ n = m + 1
    BY Below
  <1>5. \A d \in 1 .. n : d \in 1 .. m \/ d = n
    BY <1>4
  <1>6. ASSUME NEW d \in 1 .. m  PROVE (d < n => Calls(At(t, d), At(t, d + 1)))'
    <2>1. CASE d = m
      BY <1>3, <1>4, <2>1
    <2>2. CASE d < m
      BY <1>1, <1>4, <2>2 DEF SoundBelow
    <2> QED
      BY <1>4, <2>1, <2>2
  <1>7. Sound(t)'
    <2>1. ASSUME NEW d \in 1 .. n
          PROVE  /\ Good(At(t, d))'
                 /\ (d < n => Calls(At(t, d), At(t, d + 1)))'
                 /\ (d = n => Top(At(t, d)))'
                 /\ (At(t, d).at = "destroy" => d = 1)'
      <3>1. CASE d = n
        BY <1>2, <1>4, <3>1
      <3>2. CASE d \in 1 .. m
        BY <1>1, <1>4, <1>6, <3>2 DEF SoundBelow
      <3> QED
        BY <1>5, <3>1, <3>2
    <2> QED
      BY <2>1 DEF Sound
  <1> QED
    BY <1>1, <1>7 DEF FramesOK

(* The innermost call calls instance() of another.                         *)
LEMMA UseSound ==
  ASSUME SingletonTypes, FramesOK, NEW s \in Singletons, NEW t \in Threads,
         NEW n, n = Depth(t), n >= 1, Moves(t, n - 1, s), NEW f, f = At(t, n),
         Depth(t)' = n + 1, NEW g, g = At(t, n)', NEW h, h = At(t, n + 1)',
         g.of = f.of, g.at = f.at, Good(g)', Calls(g, h)', Good(h)', Top(h)',
         h.at # "destroy"
  PROVE  FramesOK'
  <1>1. SoundBelow(t, n - 1)' /\ \A u \in Threads \ {t} : Sound(u)'
    BY MovesSound
  <1>2. g.at = "destroy" => n = 1
    <2>1. n \in 1 .. n
      BY Below
    <2> QED
      BY <2>1 DEF FramesOK, Sound
  <1>3. Good(At(t, n))' /\ (At(t, n).at = "destroy" => n = 1)'
    BY <1>2, InPlace
  <1>4. Good(At(t, n + 1))' /\ Top(At(t, n + 1))' /\ (At(t, n + 1).at # "destroy")'
    BY InPlace
  <1>5. Calls(At(t, n), At(t, n + 1))'
    BY InPlaces
  <1>6. n - 1 # 0 => Calls(At(t, n - 1), At(t, n))'
    <2>1. SUFFICES ASSUME n - 1 # 0  PROVE Calls(At(t, n - 1), At(t, n))'
      OBVIOUS
    <2>2. PICK p \in Frames : p = At(t, n - 1)' /\ Calls(p, f)'
      BY <2>1, Below
    <2>3. Calls(p, g)'
      BY <2>2 DEF Calls
    <2> QED
      BY <2>2, <2>3, InPlaces
  <1>7. PICK m \in Nat : m = n - 1 /\ n = m + 1
    BY Below
  <1>8. \A d \in 1 .. n + 1 : d \in 1 .. m \/ d = n \/ d = n + 1
    BY <1>7
  <1>9. ASSUME NEW d \in 1 .. m
        PROVE  /\ Good(At(t, d))' /\ Calls(At(t, d), At(t, d + 1))'
               /\ (At(t, d).at = "destroy" => d = 1)'
    <2>1. Good(At(t, d))' /\ (At(t, d).at = "destroy" => d = 1)'
      BY <1>1, <1>7 DEF SoundBelow
    <2>2. CASE d = m
      <3>1. n - 1 # 0 /\ n - 1 = d /\ n = d + 1
        BY <1>7, <2>2
      <3> QED
        BY <1>6, <2>1, <3>1
    <2>3. CASE d < m
      BY <1>1, <1>7, <2>1, <2>3 DEF SoundBelow
    <2> QED
      BY <1>7, <2>2, <2>3
  <1>10. Sound(t)'
    <2>1. ASSUME NEW d \in 1 .. n + 1
          PROVE  /\ Good(At(t, d))'
                 /\ (d < n + 1 => Calls(At(t, d), At(t, d + 1)))'
                 /\ (d = n + 1 => Top(At(t, d)))'
                 /\ (At(t, d).at = "destroy" => d = 1)'
      <3>1. CASE d = n + 1
        BY <1>4, <1>7, <3>1
      <3>2. CASE d = n
        BY <1>3, <1>5, <1>7, <3>2
      <3>3. CASE d \in 1 .. m
        BY <1>7, <1>9, <3>3
      <3> QED
        BY <1>8, <3>1, <3>2, <3>3
    <2> QED
      BY <2>1 DEF Sound
  <1> QED
    BY <1>1, <1>10 DEF FramesOK

(* A thread that is in no call makes one.                                  *)
LEMMA FirstSound ==
  ASSUME SingletonTypes, FramesOK, NEW s \in Singletons, NEW t \in Threads,
         Depth(t) = 0, Moves(t, 0, s), Depth(t)' = 1,
         NEW g, g = At(t, 1)', Good(g)', Top(g)'
  PROVE  FramesOK'
  <1>1. \A u \in Threads \ {t} : Sound(u)'
    BY MovesSound
  <1>2. Good(At(t, 1))' /\ Top(At(t, 1))'
    BY InPlace
  <1>3. \A d \in 1 .. 1 : d = 1 /\ ~(d < 1)
    OBVIOUS
  <1>4. Sound(t)'
    BY <1>2, <1>3 DEF Sound
  <1> QED
    BY <1>1, <1>4 DEF FramesOK

(* No call but the calls of t after the first k constructs s.              *)
Alone(t, k, s) ==
  /\ \A d \in 1 .. k : ~Builds(At(t, d), s)
  /\ \A u \in Threads \ {t} : \A d \in 1 .. Depth(u) : ~Builds(At(u, d), s)

(* A call that constructs s is the only one. *)
LEMMA AloneTop ==
  ASSUME SingletonTypes, Single, NEW s \in Singletons, NEW t \in Threads,
         NEW n, n = Depth(t), n >= 1, Builds(At(t, n), s)
  PROVE  Alone(t, n - 1, s)
  <1>1. n \in Nat /\ n \in 1 .. n /\ \A d \in 1 .. n - 1 : d \in 1 .. n /\ d # n
    BY Depths
  <1> QED
    BY <1>1 DEF Single, Alone

(* No call constructs s before its control is running. *)
LEMMA AloneNew ==
  ASSUME SingletonTypes, FramesOK, NEW s \in Singletons, once[s] # "running",
         NEW t \in Threads, NEW k \in 0 .. Depth(t)
  PROVE  Alone(t, k, s)
  <1>1. \A u \in Threads : \A d \in 1 .. Depth(u) : ~Builds(At(u, d), s)
    BY DEF FramesOK, Sound, Good, Builds
  <1>2. \A d \in 1 .. k : d \in 1 .. Depth(t)
    BY Depths
  <1> QED
    BY <1>1, <1>2 DEF Alone

(* A step that touches s, of the only thread that constructs s. *)
LEMMA AloneMoves ==
  ASSUME NEW s, NEW t, NEW k, Steady(s), KeptBelow(t, k), Alone(t, k, s)
  PROVE  Moves(t, k, s)
  BY DEF Alone, Moves, Apart

(* A step that touches no singleton. *)
LEMMA UntouchedMoves ==
  ASSUME NEW s, NEW t, NEW k, KeptBelow(t, k),
         UNCHANGED <<uses, once, object, exitVars>>
  PROVE  Moves(t, k, s) /\ Steady(s)
  BY DEF Moves, Apart, Steady, exitVars, Registered, Settled

(* There is still only one call that constructs a singleton, if the new calls of t
   construct none but s, and no other call does. *)
LEMMA SingleAfter ==
  ASSUME SingletonTypes, Single, NEW s \in Singletons, NEW t \in Threads,
         NEW k, KeptBelow(t, k), NEW n \in Nat, n = Depth(t)',
         \A d \in 1 .. n : d \in 1 .. k \/
           (At(t, d)'.at \in Building =>
              d = k + 1 /\ At(t, d)'.of = s /\ Alone(t, k, s))
  PROVE  Single'
  <1>1. SUFFICES ASSUME NEW v \in Singletons, NEW u \in Threads, NEW w \in Threads,
                        NEW d \in 1 .. Depth(u)', NEW e \in 1 .. Depth(w)',
                        Builds(At(u, d)', v), Builds(At(w, e)', v)
                 PROVE  u = w /\ d = e
    BY DEF Single, Builds
  <1>2. k \in 0 .. Depth(t) /\ Depth(t) \in Nat
    BY Depths DEF KeptBelow
  <1>3. \A x \in 1 .. k : x \in 1 .. Depth(t) /\ At(t, x)' = At(t, x)
    BY <1>2 DEF KeptBelow
  <1>4. \A y \in Threads \ {t} : /\ Depth(y)' = Depth(y)
                                /\ \A x \in 1 .. Depth(y) : At(y, x)' = At(y, x)
    BY DEF KeptBelow
  <1>5. ASSUME NEW y \in Threads, NEW x \in 1 .. Depth(y)', Builds(At(y, x)', v)
        PROVE  \/ x \in 1 .. Depth(y) /\ Builds(At(y, x), v) /\ (y # t \/ x \in 1 .. k)
               \/ y = t /\ x = k + 1 /\ v = s /\ Alone(t, k, s)
    <2>1. CASE y # t
      BY <1>4, <1>5, <2>1
    <2>2. CASE y = t /\ x \in 1 .. k
      BY <1>3, <1>5, <2>2
    <2>3. CASE y = t /\ x \notin 1 .. k
      BY <1>5, <2>3 DEF Builds
    <2> QED
      BY <2>1, <2>2, <2>3
  <1>6. CASE \/ u = t /\ d = k + 1 /\ v = s /\ Alone(t, k, s)
             \/ w = t /\ e = k + 1 /\ v = s /\ Alone(t, k, s)
    <2>1. ~(k + 1 \in 1 .. k)
      BY <1>2
    <2> QED
      BY <1>1, <1>5, <1>6, <2>1 DEF Alone
  <1>7. CASE ~\/ u = t /\ d = k + 1 /\ v = s /\ Alone(t, k, s)
              \/ w = t /\ e = k + 1 /\ v = s /\ Alone(t, k, s)
    BY <1>1, <1>5, <1>7 DEF Single
  <1> QED
    BY <1>6, <1>7

(* Every running control still has a call that constructs its singleton. *)
LEMMA SomewhereAfter ==
  ASSUME SingletonTypes, Somewhere, NEW t \in Threads, NEW k, KeptBelow(t, k),
         NEW n \in Nat, n = Depth(t)',
         \A u \in Singletons : once'[u] = "running" =>
           \/ \E d \in 1 .. n : Builds(At(t, d)', u)
           \/ /\ once[u] = "running"
              /\ \A d \in 1 .. Depth(t) : d \in 1 .. k \/ ~Builds(At(t, d), u)
  PROVE  Somewhere'
  <1>1. SUFFICES ASSUME NEW u \in Singletons, once'[u] = "running"
                 PROVE  \E y \in Threads : \E d \in 1 .. Depth(y)' : Builds(At(y, d)', u)
    BY DEF Somewhere, Builds
  <1>2. CASE \E d \in 1 .. n : Builds(At(t, d)', u)
    BY <1>2
  <1>3. CASE /\ once[u] = "running"
             /\ \A d \in 1 .. Depth(t) : d \in 1 .. k \/ ~Builds(At(t, d), u)
    <2>1. PICK y \in Threads : \E d \in 1 .. Depth(y) : Builds(At(y, d), u)
      BY <1>3 DEF Somewhere
    <2>2. PICK d \in 1 .. Depth(y) : Builds(At(y, d), u)
      BY <2>1
    <2>3. CASE y = t
      <3>1. d \in 1 .. k /\ k \in Nat /\ k <= n
        BY <1>3, <2>2, <2>3, Depths DEF KeptBelow
      <3>2. d \in 1 .. n /\ At(t, d)' = At(t, d)
        BY <3>1 DEF KeptBelow
      <3> QED
        BY <2>2, <2>3, <3>2
    <2>4. CASE y # t
      <3>1. Depth(y)' = Depth(y) /\ At(y, d)' = At(y, d)
        BY <2>4 DEF KeptBelow
      <3> QED
        BY <2>2, <3>1
    <2> QED
      BY <2>3, <2>4
  <1> QED
    BY <1>1, <1>2, <1>3

(* The fate of a singleton that is not touched stays. *)
LEMMA FateStays ==
  ASSUME NEW s \in Singletons, Steady(s), NEW u \in Singletons, u # s, Fate(u)
  PROVE  Fate(u)'
  <1>1. /\ once'[u] = once[u] /\ object'[u] = object[u]
        /\ u \in Registered' <=> u \in Registered
        /\ u \in Called' <=> u \in Called
        /\ Dying(u)' <=> Dying(u)
    BY DEF Steady, Called, E!Elements, Dying
  <1> QED
    BY <1>1 DEF Fate

(* It is enough to look at the one that is. *)
LEMMA FatesAfter ==
  ASSUME NEW s \in Singletons, Steady(s), Fates, Fate(s)'
  PROVE  Fates'
  BY FateStays DEF Fates

(* All the fates stay if nothing is touched. *)
LEMMA UntouchedFates ==
  ASSUME Fates, UNCHANGED <<uses, once, object, exitVars>>
  PROVE  Fates'
  BY DEF Fates, Fate, exitVars, Registered, Called, E!Elements, Dying

(* What is used stays registered first as long as nothing is registered. *)
LEMMA UsesFirstAfter ==
  ASSUME SingletonTypes, ExitInv, UsesFirst, NEW s \in Singletons, Steady(s), pushed' = pushed
  PROVE  UsesFirst'
  <1>1. \A j \in DOMAIN pushed : uses[pushed[j]] \subseteq Singletons
    BY FromExit, UsesAreSingletons
  <1>2. \A u \in Singletons : once[u] = "failed" => once'[u] = "failed"
    BY DEF Steady, Settled
  <1> QED
    BY <1>1, <1>2 DEF UsesFirst, Steady

(* A thread takes a step only if it may. *)
LEMMA QuietAfter ==
  ASSUME SingletonTypes, Quiet, NEW t \in Threads, NEW k, KeptBelow(t, k),
         phase' = phase, Depth(t) # 0 \/ phase = "open"
  PROVE  Quiet'
  <1>1. phase = "open" \/ stack[t] # <<>>
    BY Depths
  <1> QED
    BY <1>1 DEF Quiet, KeptBelow

-----------------------------------------------------------------------------
(* The parts of the invariant but those of the list.                       *)
Mine == SingletonTypes /\ FramesOK /\ Single /\ Somewhere /\ Fates /\ UsesFirst /\ Quiet

(* The variables keep their types. *)
LEMMA TypeAfter ==
  ASSUME SingletonTypes, NEW t, NEW k, KeptBelow(t, k), uses' = uses,
         once' \in [Singletons -> {"untouched", "running", "done", "failed"}],
         object' \in [Singletons -> {"raw", "alive", "dead"}]
  PROVE  SingletonTypes'
  BY DEF SingletonTypes, KeptBelow

(* What In(t, at) says of the innermost call. *)
LEMMA Innermost ==
  ASSUME SingletonTypes, FramesOK, NEW t \in Threads, NEW at, In(t, at)
  PROVE  \E n \in Nat, f \in Frames :
           /\ n = Depth(t) /\ n >= 1 /\ n \in 1 .. n /\ stack[t] # <<>>
           /\ f = At(t, n) /\ f = Head(stack[t]) /\ f.at = at
           /\ f.of = Of(t) /\ f.left = Left(t) /\ Of(t) \in Singletons
           /\ Good(f) /\ Top(f)
  <1>1. PICK n \in Nat : n = Depth(t) /\ n >= 1 /\ n \in 1 .. n
    BY Depths DEF In
  <1>2. PICK f \in Frames : f = At(t, n) /\ f = Head(stack[t])
    BY <1>1, Depths
  <1>3. Good(f) /\ Top(f)
    BY <1>1, <1>2 DEF FramesOK, Sound
  <1>4. f.of \in Singletons
    BY DEF Frames
  <1> QED
    BY <1>1, <1>2, <1>3, <1>4 DEF In, Of, Left

(* A thread needs s. *)
LEMMA Referring ==
  ASSUME Mine, ExitInv, NEW t \in Threads, NEW s \in Singletons, Refer(t, s)
  PROVE  Mine'
  <1>. USE DEF Mine
  <1>1. PICK g \in Frames : g = Frame(s, "call", {}) /\ g.at = "call" /\ g.of = s
    BY AFrame
  <1>2. /\ Depth(t) = 0 /\ phase = "open" /\ Push(t, g)
        /\ UNCHANGED <<uses, once, object, exitVars>>
    BY <1>1, Depths DEF Refer
  <1>3. KeptBelow(t, 0) /\ Depth(t)' = 1 /\ At(t, 1)' = g
    BY <1>2, Pushing
  <1>4. Moves(t, 0, s) /\ Steady(s)
    BY <1>2, <1>3, UntouchedMoves
  <1>5. SingletonTypes'
    BY <1>2, <1>3, TypeAfter DEF SingletonTypes
  <1>7. FramesOK'
    <2>1. Good(g)' /\ Top(g)'
      BY <1>1 DEF Good, Top, Building
    <2> QED
      BY <1>2, <1>3, <1>4, <2>1, FirstSound
  <1>8. Single'
    BY <1>1, <1>3, SingleAfter DEF Building
  <1>9. Somewhere'
    BY <1>2, <1>3, SomewhereAfter
  <1>10. Fates' /\ UsesFirst'
    BY <1>2, <1>4, UntouchedFates, UsesFirstAfter DEF exitVars
  <1>11. Quiet'
    BY <1>2, <1>3, QuietAfter DEF exitVars
  <1> QED
    BY <1>5, <1>7, <1>8, <1>9, <1>10, <1>11

(* thread_once::run() calls instance_init().                               *)
LEMMA Entering ==
  ASSUME Mine, ExitInv, NEW t \in Threads, Enter(t)
  PROVE  Mine'
  <1>. USE DEF Mine
  <1>1. PICK n \in Nat, f \in Frames :
          /\ n = Depth(t) /\ n >= 1 /\ n \in 1 .. n /\ stack[t] # <<>>
          /\ f = At(t, n) /\ f.at = "call" /\ f.of = Of(t) /\ Of(t) \in Singletons
    BY Innermost DEF Enter
  <1>2. PICK s \in Singletons : s = Of(t)
    BY <1>1
  <1>3. uses[s] \subseteq Singletons
    BY UsesAreSingletons
  <1>4. PICK g \in Frames : /\ g = Frame(s, "construct", uses[s])
                            /\ g.of = s /\ g.at = "construct" /\ g.left = uses[s]
    BY <1>3, AFrame
  <1>5. /\ once[s] = "untouched" /\ once' = [once EXCEPT ![s] = "running"]
        /\ Continue(t, g) /\ UNCHANGED <<uses, object, exitVars>>
    BY <1>2, <1>4 DEF Enter, Control!Enter, Control!Goto
  <1>6. KeptBelow(t, n - 1) /\ Depth(t)' = n /\ At(t, n)' = g
    BY <1>1, <1>5, Continuing
  <1>7. /\ once' \in [Singletons -> {"untouched", "running", "done", "failed"}]
        /\ once'[s] = "running" /\ \A u \in Singletons \ {s} : once'[u] = once[u]
    BY <1>5 DEF SingletonTypes
  <1>8. Steady(s)
    BY <1>5, <1>7 DEF Steady, Settled, exitVars, Registered
  <1>9. Alone(t, n - 1, s)
    BY <1>1, <1>5, <1>6, AloneNew DEF KeptBelow
  <1>10. Moves(t, n - 1, s)
    BY <1>6, <1>8, <1>9, AloneMoves
  <1>11. SingletonTypes'
    BY <1>5, <1>6, <1>7, TypeAfter DEF SingletonTypes
  <1>13. object[s] = "raw" /\ s \notin Registered
    BY <1>5 DEF Fates, Fate
  <1>14. FramesOK'
    <2>1. Good(g)' /\ Top(g)'
      BY <1>5, <1>7, <1>4, <1>13 DEF Good, Top, Building, exitVars, Registered
    <2> QED
      BY <1>1, <1>2, <1>6, <1>10, <1>4, <2>1, TopSound
  <1>15. Single'
    <2>1. \A d \in 1 .. n : d \in 1 .. n - 1 \/ d = (n - 1) + 1
      BY <1>1
    <2> QED
      BY <1>6, <1>9, <1>4, <2>1, SingleAfter
  <1>16. Somewhere'
    <2>1. \A d \in 1 .. n : d \in 1 .. n - 1 \/ ~Builds(At(t, d), s)
      BY <1>1 DEF Builds, Building
    <2>2. Builds(g, s)
      BY <1>4 DEF Builds, Building
    <2>3. \A d \in 1 .. n, u \in Singletons : d \in 1 .. n - 1 \/ ~Builds(At(t, d), u)
      BY <1>1 DEF Builds, Building
    <2> QED
      BY <1>1, <1>6, <1>7, <2>2, <2>3, SomewhereAfter
  <1>17. Fates'
    <2>1. Fate(s)'
      BY <1>5, <1>7, <1>13 DEF Fate, exitVars, Registered
    <2> QED
      BY <1>8, <2>1, FatesAfter
  <1>18. UsesFirst' /\ Quiet'
    BY <1>1, <1>5, <1>6, <1>8, UsesFirstAfter, QuietAfter DEF exitVars
  <1> QED
    BY <1>11, <1>14, <1>15, <1>16, <1>17, <1>18

(* There was nothing to construct.                                         *)
LEMMA Returning ==
  ASSUME Mine, ExitInv, NEW t \in Threads, Return(t)
  PROVE  Mine'
  <1>. USE DEF Mine
  <1>1. PICK n \in Nat, f \in Frames :
          /\ n = Depth(t) /\ n >= 1 /\ n \in 1 .. n /\ stack[t] # <<>>
          /\ f = At(t, n) /\ f.at = "call" /\ f.of = Of(t) /\ Of(t) \in Singletons
    BY Innermost DEF Return
  <1>2. PICK s \in Singletons : s = Of(t)
    BY <1>1
  <1>3. once[s] = "done" /\ Pop(t) /\ UNCHANGED <<uses, once, object, exitVars>>
    BY <1>2 DEF Return
  <1>4. KeptBelow(t, n - 1) /\ Depth(t)' = n - 1
    BY <1>1, <1>3, Popping
  <1>5. Moves(t, n - 1, s) /\ Steady(s)
    BY <1>3, <1>4, UntouchedMoves
  <1>6. SingletonTypes'
    BY <1>3, <1>4, TypeAfter DEF SingletonTypes
  <1>7. FramesOK'
    <2>1. Settled(f.of)'
      BY <1>1, <1>2, <1>3 DEF Settled
    <2> QED
      BY <1>1, <1>4, <1>5, <2>1, ReturnSound
  <1>8. PICK m \in Nat : m = n - 1
    BY <1>1
  <1>9. Single'
    BY <1>4, <1>8, SingleAfter
  <1>10. Somewhere'
    <2>1. \A d \in 1 .. n, u \in Singletons : d \in 1 .. n - 1 \/ ~Builds(At(t, d), u)
      BY <1>1 DEF Builds, Building
    <2> QED
      BY <1>1, <1>3, <1>4, <1>8, <2>1, SomewhereAfter
  <1>11. Fates' /\ UsesFirst' /\ Quiet'
    BY <1>1, <1>3, <1>4, <1>5, UntouchedFates, UsesFirstAfter, QuietAfter DEF exitVars
  <1> QED
    BY <1>6, <1>7, <1>9, <1>10, <1>11

(* A constructor or a destructor calls instance() of another.              *)
LEMMA Referencing ==
  ASSUME Mine, ExitInv, NEW t \in Threads, NEW s \in Singletons, Use(t, s)
  PROVE  Mine'
  <1>. USE DEF Mine
  <1>1. PICK n \in Nat, f \in Frames :
          /\ n = Depth(t) /\ n >= 1 /\ n \in 1 .. n /\ stack[t] # <<>>
          /\ f = At(t, n) /\ f = Head(stack[t]) /\ f.at \in {"construct", "destroy"}
          /\ f.of \in Singletons /\ s \in f.left /\ Good(f) /\ Top(f)
    <2>1. PICK at \in {"construct", "destroy"} : In(t, at)
      BY DEF Use
    <2>2. s \in Left(t)
      BY DEF Use
    <2> QED
      BY <2>1, <2>2, Innermost
  <1>2. PICK g \in Frames : /\ g = Frame(f.of, f.at, f.left \ {s})
                            /\ g.of = f.of /\ g.at = f.at /\ g.left = f.left \ {s}
    <2>1. f.left \ {s} \in SUBSET Singletons
      BY DEF Frames
    <2> QED
      BY <1>1, <2>1, AFrame
  <1>3. PICK h \in Frames : h = Frame(s, "call", {}) /\ h.at = "call" /\ h.of = s
    BY AFrame
  <1>4. /\ stack' = [stack EXCEPT ![t] = <<h, g>> \o Tail(stack[t])]
        /\ UNCHANGED <<uses, once, object, exitVars>>
    <2>1. stack' = [stack EXCEPT ![t] =
                      <<Frame(s, "call", {}),
                        Frame(Of(t), Head(stack[t]).at, Left(t) \ {s})>> \o Tail(stack[t])]
      BY DEF Use
    <2>2. g = Frame(Of(t), Head(stack[t]).at, Left(t) \ {s})
      BY <1>1, <1>2 DEF Of, Left
    <2>3. UNCHANGED <<uses, once, object, exitVars>>
      BY DEF Use
    <2> QED
      BY <1>3, <2>1, <2>2, <2>3, Zenon
  <1>5. /\ KeptBelow(t, n - 1) /\ Depth(t)' = n + 1
        /\ At(t, n)' = g /\ At(t, n + 1)' = h
    BY <1>1, <1>4, Using
  <1>6. PICK b \in Singletons : b = f.of /\ Moves(t, n - 1, b) /\ Steady(b)
    BY <1>1, <1>4, <1>5, UntouchedMoves
  <1>7. SingletonTypes'
    BY <1>4, <1>5, TypeAfter DEF SingletonTypes
  <1>8. FramesOK'
    <2>1. Good(f)' /\ Top(f)'
      BY <1>1, <1>4, <1>6, GoodStays, TopStays DEF Apart, exitVars, Registered
    <2>2. Good(g)'
      BY <1>1, <1>2, <2>1 DEF Good
    <2>3. Calls(g, h)'
      BY <1>1, <1>2, <1>3, <2>1 DEF Calls, Top, Good
    <2>4. Good(h)' /\ Top(h)'
      BY <1>3 DEF Good, Top, Building
    <2> QED
      BY <1>1, <1>2, <1>3, <1>5, <1>6, <2>2, <2>3, <2>4, UseSound
  <1>9. n + 1 \in Nat /\ n \in 1 .. n + 1 /\ n = (n - 1) + 1
    BY <1>1
  <1>10. Single'
    <2>1. \A d \in 1 .. n + 1 : d \in 1 .. n - 1 \/ d = n \/ d = n + 1
      BY <1>1
    <2>2. h.at \notin Building
      BY <1>3 DEF Building
    <2>3. g.at \in Building => Alone(t, n - 1, b)
      BY <1>1, <1>2, <1>6, AloneTop DEF Builds
    <2> QED
      BY <1>2, <1>5, <1>6, <1>9, <2>1, <2>2, <2>3, SingleAfter
  <1>11. Somewhere'
    <2>1. \A d \in 1 .. n : d \in 1 .. n - 1 \/ d = n
      BY <1>1
    <2>2. \A u \in Singletons : Builds(f, u) => Builds(g, u)
      BY <1>2 DEF Builds
    <2>3. ASSUME NEW u \in Singletons, once'[u] = "running"
          PROVE  \/ \E d \in 1 .. n + 1 : Builds(At(t, d)', u)
                 \/ /\ once[u] = "running"
                    /\ \A d \in 1 .. Depth(t) : d \in 1 .. n - 1 \/ ~Builds(At(t, d), u)
      <3>1. CASE Builds(f, u)
        BY <1>5, <1>9, <2>2, <3>1
      <3>2. CASE ~Builds(f, u)
        BY <1>1, <1>4, <2>1, <2>3, <3>2
      <3> QED
        BY <3>1, <3>2
    <2> QED
      BY <1>5, <1>9, <2>3, SomewhereAfter
  <1>12. Fates' /\ UsesFirst' /\ Quiet'
    BY <1>1, <1>4, <1>5, <1>6, UntouchedFates, UsesFirstAfter, QuietAfter DEF exitVars
  <1> QED
    BY <1>7, <1>8, <1>10, <1>11, <1>12

(* What the calls that construct s have in common: s goes on in them, and  *)
(* nothing else changes.                                                   *)
LEMMA Constructing ==
  ASSUME Mine, NEW t \in Threads, NEW at \in Building, In(t, at)
  PROVE  \E n \in Nat, f \in Frames, s \in Singletons :
           /\ n = Depth(t) /\ n >= 1 /\ n \in 1 .. n /\ stack[t] # <<>>
           /\ f = At(t, n) /\ f.at = at /\ f.of = s /\ s = Of(t) /\ f.left = Left(t)
           /\ Good(f) /\ Top(f) /\ once[s] = "running" /\ Alone(t, n - 1, s)
           /\ \A u \in Singletons, d \in 1 .. n :
                d \in 1 .. n - 1 \/ u = s \/ ~Builds(At(t, d), u)
           /\ \A d \in 1 .. n : d \in 1 .. n - 1 \/ d = n
  <1>1. PICK n \in Nat, f \in Frames :
          /\ n = Depth(t) /\ n >= 1 /\ n \in 1 .. n /\ stack[t] # <<>>
          /\ f = At(t, n) /\ f.at = at /\ f.of = Of(t) /\ f.left = Left(t)
          /\ Of(t) \in Singletons /\ Good(f) /\ Top(f)
    BY Innermost DEF Mine
  <1>2. PICK s \in Singletons : s = Of(t)
    BY <1>1
  <1>3. once[s] = "running"
    BY <1>1, <1>2 DEF Good
  <1>4. Builds(f, s)
    BY <1>1, <1>2 DEF Builds
  <1>5. Alone(t, n - 1, s)
    BY <1>1, <1>4, AloneTop DEF Mine
  <1>6. \A d \in 1 .. n : d \in 1 .. n - 1 \/ d = n
    BY <1>1
  <1>7. \A u \in Singletons, d \in 1 .. n :
          d \in 1 .. n - 1 \/ u = s \/ ~Builds(At(t, d), u)
    BY <1>1, <1>2, <1>6 DEF Builds
  <1> QED
    BY <1>1, <1>2, <1>3, <1>5, <1>6, <1>7

(* The call that constructs s goes on.                                     *)
LEMMA GoesOn ==
  ASSUME Mine, ExitInv, NEW t \in Threads, NEW n \in Nat, NEW f \in Frames,
         NEW s \in Singletons, NEW g \in Frames,
         n = Depth(t), n >= 1, stack[t] # <<>>, f = At(t, n), f.of = s,
         once[s] = "running", Alone(t, n - 1, s),
         Continue(t, g), g.of = s, g.at \in Building, Good(g)', Top(g)',
         Steady(s), once' = once, object' \in [Singletons -> {"raw", "alive", "dead"}],
         Fate(s)', UsesFirst'
  PROVE  Mine'
  <1>. USE DEF Mine
  <1>1. KeptBelow(t, n - 1) /\ Depth(t)' = n /\ At(t, n)' = g
    BY Continuing
  <1>2. Moves(t, n - 1, s)
    BY <1>1, AloneMoves
  <1>3. SingletonTypes'
    BY <1>1, TypeAfter DEF SingletonTypes, Steady
  <1>4. FramesOK'
    <2>1. g.at # "destroy"
      BY DEF Building
    <2> QED
      BY <1>1, <1>2, <2>1, TopSound
  <1>5. \A d \in 1 .. n : d \in 1 .. n - 1 \/ d = n
    OBVIOUS
  <1>6. n \in 1 .. n /\ n = (n - 1) + 1
    OBVIOUS
  <1>7. Single'
    BY <1>1, <1>5, <1>6, SingleAfter
  <1>8. Somewhere'
    <2>1. ASSUME NEW u \in Singletons, once'[u] = "running"
          PROVE  \/ \E d \in 1 .. n : Builds(At(t, d)', u)
                 \/ /\ once[u] = "running"
                    /\ \A d \in 1 .. Depth(t) : d \in 1 .. n - 1 \/ ~Builds(At(t, d), u)
      <3>1. CASE u = s
        BY <1>1, <1>6, <3>1 DEF Builds
      <3>2. CASE u # s
        BY <1>5, <2>1, <3>2 DEF Builds
      <3> QED
        BY <3>1, <3>2
    <2> QED
      BY <1>1, <2>1, SomewhereAfter
  <1>9. Fates'
    BY FatesAfter
  <1>10. Quiet'
    BY <1>1, QuietAfter DEF Steady
  <1> QED
    BY <1>3, <1>4, <1>7, <1>8, <1>9, <1>10

(* The call that constructs s ends.                                        *)
LEMMA Ends ==
  ASSUME Mine, ExitInv, NEW t \in Threads, NEW n \in Nat, NEW f \in Frames,
         NEW s \in Singletons,
         n = Depth(t), n >= 1, stack[t] # <<>>, f = At(t, n), f.of = s,
         once[s] = "running", Alone(t, n - 1, s), Pop(t), Steady(s),
         NEW end \in {"done", "failed"}, once' = [once EXCEPT ![s] = end],
         object' \in [Singletons -> {"raw", "alive", "dead"}],
         Fate(s)', UsesFirst'
  PROVE  Mine'
  <1>. USE DEF Mine
  <1>1. KeptBelow(t, n - 1) /\ Depth(t)' = n - 1
    BY Popping
  <1>2. Moves(t, n - 1, s)
    BY <1>1, AloneMoves
  <1>3. /\ once' \in [Singletons -> {"untouched", "running", "done", "failed"}]
        /\ once'[s] = end /\ \A u \in Singletons \ {s} : once'[u] = once[u]
    BY DEF SingletonTypes
  <1>4. SingletonTypes'
    BY <1>1, <1>3, TypeAfter DEF Steady
  <1>5. FramesOK'
    <2>1. Settled(f.of)'
      BY <1>3 DEF Settled
    <2> QED
      BY <1>1, <1>2, <2>1, ReturnSound
  <1>6. PICK m \in Nat : m = n - 1
    OBVIOUS
  <1>7. Single'
    BY <1>1, <1>6, SingleAfter
  <1>8. Somewhere'
    <2>1. \A d \in 1 .. n : d \in 1 .. n - 1 \/ d = n
      OBVIOUS
    <2>2. \A u \in Singletons : once'[u] = "running" =>
            /\ once[u] = "running"
            /\ \A d \in 1 .. n : d \in 1 .. n - 1 \/ ~Builds(At(t, d), u)
      BY <1>3, <2>1 DEF Builds
    <2> QED
      BY <1>1, <1>6, <2>2, SomewhereAfter
  <1>9. Fates'
    BY FatesAfter
  <1>10. Quiet'
    BY <1>1, QuietAfter DEF Steady
  <1> QED
    BY <1>4, <1>5, <1>7, <1>8, <1>9, <1>10

(* The constructor has run.                                                *)
LEMMA Constructed ==
  ASSUME Mine, ExitInv, NEW t \in Threads, Construct(t)
  PROVE  Mine'
  <1>. USE DEF Mine
  <1>1. PICK n \in Nat, f \in Frames, s \in Singletons :
          /\ n = Depth(t) /\ n >= 1 /\ n \in 1 .. n /\ stack[t] # <<>>
          /\ f = At(t, n) /\ f.at = "construct" /\ f.of = s /\ s = Of(t) /\ f.left = Left(t)
          /\ Good(f) /\ Top(f) /\ once[s] = "running" /\ Alone(t, n - 1, s)
    <2>1. "construct" \in Building /\ In(t, "construct")
      BY DEF Building, Construct
    <2> QED
      BY <2>1, Constructing
  <1>2. PICK g \in Frames : /\ g = Frame(s, "register", {})
                            /\ g.of = s /\ g.at = "register" /\ g.left = {}
    BY AFrame
  <1>3. /\ object' = [object EXCEPT ![s] = "alive"] /\ Continue(t, g)
        /\ f.left = {} /\ UNCHANGED <<uses, once, exitVars>>
    BY <1>1, <1>2 DEF Construct
  <1>4. /\ object' \in [Singletons -> {"raw", "alive", "dead"}] /\ object'[s] = "alive"
        /\ \A u \in Singletons \ {s} : object'[u] = object[u]
    BY <1>3 DEF SingletonTypes
  <1>5. s \notin Registered /\ \A u \in uses[s] : Settled(u)
    BY <1>1, <1>3 DEF Good, Top
  <1>6. Steady(s) /\ Registered' = Registered
    BY <1>3, <1>4 DEF Steady, exitVars, Registered
  <1>7. Good(g)' /\ Top(g)'
    <2>1. \A u \in uses[s] : Settled(u)'
      BY <1>3, <1>5 DEF Settled
    <2> QED
      BY <1>1, <1>2, <1>3, <1>4, <1>5, <1>6, <2>1 DEF Good, Top, Building
  <1>8. Fate(s)'
    BY <1>1, <1>3, <1>4, <1>5, <1>6 DEF Fate
  <1>9. UsesFirst'
    BY <1>3, <1>6, UsesFirstAfter DEF exitVars
  <1>10. g.at \in Building
    BY <1>2 DEF Building
  <1> QED
    BY <1>1, <1>2, <1>3, <1>4, <1>6, <1>7, <1>8, <1>9, <1>10, GoesOn

(* The constructor throws.                                                 *)
LEMMA Throwing ==
  ASSUME Mine, ExitInv, NEW t \in Threads, ConstructorThrows(t)
  PROVE  Mine'
  <1>. USE DEF Mine
  <1>1. PICK n \in Nat, f \in Frames, s \in Singletons :
          /\ n = Depth(t) /\ n >= 1 /\ n \in 1 .. n /\ stack[t] # <<>>
          /\ f = At(t, n) /\ f.at = "construct" /\ f.of = s /\ s = Of(t) /\ f.left = Left(t)
          /\ Good(f) /\ Top(f) /\ once[s] = "running" /\ Alone(t, n - 1, s)
    <2>1. "construct" \in Building /\ In(t, "construct")
      BY DEF Building, ConstructorThrows
    <2> QED
      BY <2>1, Constructing
  <1>2. /\ once' = [once EXCEPT ![s] = "failed"] /\ Pop(t)
        /\ UNCHANGED <<uses, object, exitVars>>
    BY <1>1 DEF ConstructorThrows, Control!Fail, Control!Goto
  <1>3. once'[s] = "failed" /\ \A u \in Singletons \ {s} : once'[u] = once[u]
    BY <1>2 DEF SingletonTypes
  <1>4. Steady(s) /\ Registered' = Registered
    BY <1>1, <1>2, <1>3 DEF Steady, Settled, exitVars, Registered
  <1>5. Fate(s)'
    BY <1>1, <1>2, <1>3, <1>4 DEF Fate, Good
  <1>6. UsesFirst'
    BY <1>2, <1>4, UsesFirstAfter DEF exitVars
  <1>7. object' \in [Singletons -> {"raw", "alive", "dead"}]
    BY <1>2 DEF SingletonTypes
  <1> QED
    BY <1>1, <1>2, <1>4, <1>5, <1>6, <1>7, Ends

(* The new task is not registered: the object is destroyed again.          *)
LEMMA RegistrationFailing ==
  ASSUME Mine, ExitInv, NEW t \in Threads, RegisterFails(t)
  PROVE  Mine'
  <1>. USE DEF Mine
  <1>1. PICK n \in Nat, f \in Frames, s \in Singletons :
          /\ n = Depth(t) /\ n >= 1 /\ n \in 1 .. n /\ stack[t] # <<>>
          /\ f = At(t, n) /\ f.at = "register" /\ f.of = s /\ s = Of(t) /\ f.left = Left(t)
          /\ Good(f) /\ Top(f) /\ once[s] = "running" /\ Alone(t, n - 1, s)
    <2>1. "register" \in Building /\ In(t, "register")
      BY DEF Building, RegisterFails
    <2> QED
      BY <2>1, Constructing
  <1>2. /\ once' = [once EXCEPT ![s] = "failed"] /\ Pop(t)
        /\ object' = [object EXCEPT ![s] = "dead"] /\ UNCHANGED <<uses, exitVars>>
    BY <1>1 DEF RegisterFails, Control!Fail, Control!Goto
  <1>3. /\ once'[s] = "failed" /\ object'[s] = "dead"
        /\ \A u \in Singletons \ {s} : once'[u] = once[u] /\ object'[u] = object[u]
        /\ object' \in [Singletons -> {"raw", "alive", "dead"}]
    BY <1>2 DEF SingletonTypes
  <1>4. Steady(s) /\ Registered' = Registered
    BY <1>1, <1>2, <1>3 DEF Steady, Settled, exitVars, Registered
  <1>5. Fate(s)'
    BY <1>1, <1>3, <1>4 DEF Fate, Good
  <1>6. UsesFirst'
    BY <1>2, <1>4, UsesFirstAfter DEF exitVars
  <1> QED
    BY <1>1, <1>2, <1>3, <1>4, <1>5, <1>6, Ends

(* The routine has returned, and done is set.                              *)
LEMMA Finishing ==
  ASSUME Mine, ExitInv, NEW t \in Threads, Finish(t)
  PROVE  Mine'
  <1>. USE DEF Mine
  <1>1. PICK n \in Nat, f \in Frames, s \in Singletons :
          /\ n = Depth(t) /\ n >= 1 /\ n \in 1 .. n /\ stack[t] # <<>>
          /\ f = At(t, n) /\ f.at = "finish" /\ f.of = s /\ s = Of(t) /\ f.left = Left(t)
          /\ Good(f) /\ Top(f) /\ once[s] = "running" /\ Alone(t, n - 1, s)
    <2>1. "finish" \in Building /\ In(t, "finish")
      BY DEF Building, Finish
    <2> QED
      BY <2>1, Constructing
  <1>2. /\ once' = [once EXCEPT ![s] = "done"] /\ Pop(t)
        /\ UNCHANGED <<uses, object, exitVars>>
    BY <1>1 DEF Finish, Control!Finish, Control!Goto
  <1>3. once'[s] = "done" /\ \A u \in Singletons \ {s} : once'[u] = once[u]
    BY <1>2 DEF SingletonTypes
  <1>4. /\ Steady(s) /\ Registered' = Registered /\ Called' = Called
        /\ Dying(s)' <=> Dying(s)
    BY <1>1, <1>2, <1>3
    DEF Steady, Settled, exitVars, Registered, Called, E!Elements, Dying
  <1>5. Fate(s)'
    <2>1. s \in Registered
      BY <1>1 DEF Good
    <2>2. Fate(s)
      BY DEF Fates
    <2> QED
      BY <1>2, <1>3, <1>4, <2>1, <2>2 DEF Fate
  <1>6. UsesFirst'
    BY <1>2, <1>4, UsesFirstAfter DEF exitVars
  <1>7. object' \in [Singletons -> {"raw", "alive", "dead"}]
    BY <1>2 DEF SingletonTypes
  <1> QED
    BY <1>1, <1>2, <1>4, <1>5, <1>6, <1>7, Ends

(* The destruction of s is registered: after that of what s uses.          *)
LEMMA Registering ==
  ASSUME Mine, ExitInv, NEW t \in Threads, Register(t)
  PROVE  Mine'
  <1>. USE DEF Mine
  <1>1. PICK n \in Nat, f \in Frames, s \in Singletons :
          /\ n = Depth(t) /\ n >= 1 /\ n \in 1 .. n /\ stack[t] # <<>>
          /\ f = At(t, n) /\ f.at = "register" /\ f.of = s /\ s = Of(t) /\ f.left = Left(t)
          /\ Good(f) /\ Top(f) /\ once[s] = "running" /\ Alone(t, n - 1, s)
    <2>1. "register" \in Building /\ In(t, "register")
      BY DEF Building, Register
    <2> QED
      BY <2>1, Constructing
  <1>2. PICK g \in Frames : /\ g = Frame(s, "finish", {})
                            /\ g.of = s /\ g.at = "finish" /\ g.left = {}
    BY AFrame
  <1>3. /\ pushed' = Append(pushed, s) /\ phase' = phase /\ ran' = ran
        /\ Continue(t, g) /\ UNCHANGED <<uses, once, object>>
    BY <1>1, <1>2 DEF Register, AtExit!Register
  <1>4. PICK l \in Nat : l = Len(pushed) /\ DOMAIN pushed = 1 .. l
    BY FromExit
  <1>5. /\ DOMAIN pushed' = 1 .. l + 1 /\ pushed'[l + 1] = s
        /\ \A i \in 1 .. l : pushed'[i] = pushed[i]
    BY <1>3, <1>4, FromExit
  <1>6. Registered' = Registered \cup {s}
    <2>1. \A i \in 1 .. l + 1 : i \in 1 .. l \/ i = l + 1
      OBVIOUS
    <2>2. 1 .. l \subseteq 1 .. l + 1 /\ l + 1 \in 1 .. l + 1
      OBVIOUS
    <2> QED
      BY <1>4, <1>5, <2>1, <2>2 DEF Registered, E!Elements
  <1>7. Steady(s)
    BY <1>3, <1>6 DEF Steady, Settled
  <1>8. /\ s \notin Registered /\ s \notin Called /\ Called' = Called
        /\ object[s] = "alive" /\ \A u \in uses[s] : Settled(u)
    BY <1>1, <1>3, FromExit DEF Good, Called, E!Elements
  <1>9. Good(g)' /\ Top(g)'
    BY <1>1, <1>2, <1>3, <1>6 DEF Good, Top, Building
  <1>10. Fate(s)'
    BY <1>1, <1>3, <1>6, <1>8 DEF Fate
  <1>11. UsesFirst'
    <2>1. ASSUME NEW u \in uses[s]
          PROVE  once[u] = "failed" \/ \E i \in 1 .. l : pushed[i] = u
      <3>1. u \in Singletons
        BY UsesAreSingletons
      <3>2. once[u] = "failed" \/ u \in Registered
        BY <1>8, <3>1 DEF Settled, Fates, Fate
      <3> QED
        BY <1>4, <3>2 DEF Registered, E!Elements
    <2>2. ASSUME NEW j \in 1 .. l + 1, NEW u \in uses[pushed'[j]]
          PROVE  once[u] = "failed" \/ \E i \in 1 .. j - 1 : pushed'[i] = u
      <3>1. CASE j = l + 1
        <4>1. j - 1 = l
          BY <3>1
        <4> QED
          BY <1>5, <2>1, <2>2, <3>1, <4>1
      <3>2. CASE j \in 1 .. l
        <4>1. once[u] = "failed" \/ \E i \in 1 .. j - 1 : pushed[i] = u
          BY <1>4, <1>5, <2>2, <3>2 DEF UsesFirst
        <4>2. 1 .. j - 1 \subseteq 1 .. l
          BY <3>2
        <4> QED
          BY <1>5, <4>1, <4>2
      <3> QED
        BY <3>1, <3>2
    <2> QED
      BY <1>3, <1>5, <2>2 DEF UsesFirst
  <1>12. g.at \in Building /\ object' \in [Singletons -> {"raw", "alive", "dead"}]
    BY <1>2, <1>3 DEF Building, SingletonTypes
  <1> QED
    BY <1>1, <1>2, <1>3, <1>7, <1>9, <1>10, <1>11, <1>12, GoesOn

(* Nothing happens. *)
LEMMA Stutters ==
  ASSUME Mine, UNCHANGED vars
  PROVE  Mine'
  <1>. USE DEF vars, exitVars, Registered, Called, E!Elements, Settled
  <1>1. SingletonTypes'
    BY DEF Mine, SingletonTypes
  <1>2. \A t \in Threads : Depth(t)' = Depth(t) /\ \A d : At(t, d)' = At(t, d)
    BY DEF Depth, At
  <1>3. FramesOK'
    BY <1>2 DEF Mine, FramesOK, Sound, Good, Calls, Top, Dying
  <1>4. Single' /\ Somewhere'
    BY <1>2 DEF Mine, Single, Builds, Somewhere
  <1>5. Fates' /\ UsesFirst' /\ Quiet'
    BY DEF Mine, Fates, Fate, UsesFirst, Quiet, Dying
  <1>. QED
    BY <1>1, <1>3, <1>4, <1>5 DEF Mine

(* The steps of a thread but the end of a destructor.                      *)
LEMMA ThreadSteps ==
  ASSUME Mine, ExitInv, NEW t \in Threads, Step(t), ~Destroy(t)
  PROVE  Mine'
  BY Stutters, Entering, Returning, Referencing, Constructed, Throwing, Registering,
     RegistrationFailing, Finishing DEF Step, Proceed, Wait

-----------------------------------------------------------------------------
(* No thread is in a call.                                                 *)
Idle == \A t \in Threads : stack[t] = <<>>

(* Without calls, and without running controls, the calls are sound. *)
LEMMA IdleSound ==
  ASSUME Idle', \A s \in Singletons : once'[s] # "running"
  PROVE  FramesOK' /\ Single' /\ Somewhere' /\ Quiet'
  <1>1. \A t \in Threads : Depth(t)' = 0 /\ \A d \in 1 .. Depth(t)' : FALSE
    BY DEF Idle, Depth
  <1> QED
    BY <1>1 DEF FramesOK, Sound, Single, Somewhere, Quiet, Idle

(* Without calls no control is running. *)
LEMMA IdleNotRunning ==
  ASSUME Somewhere, Idle
  PROVE  \A s \in Singletons : once[s] # "running"
  <1>1. \A t \in Threads : \A d \in 1 .. Depth(t) : FALSE
    BY DEF Idle, Depth
  <1> QED
    BY <1>1 DEF Somewhere

(* Main leaves main(), and exec() between two destructors.                 *)
LEMMA ExitSteps ==
  ASSUME Mine, ExitInv, Exit \/ Exec
  PROVE  Mine'
  <1>. USE DEF Mine
  <1>1. /\ Idle /\ phase # "running" /\ phase' # "running"
        /\ pushed' = pushed /\ ran' = ran
        /\ UNCHANGED <<uses, once, object, stack>>
    <2>1. CASE Exit
      BY <2>1 DEF Exit, AtExit!Exit, Idle
    <2>2. CASE AtExit!ExecStarts /\ UNCHANGED <<uses, once, object, stack>>
      BY <2>2 DEF AtExit!ExecStarts, Quiet, Idle
    <2>3. CASE AtExit!Load /\ UNCHANGED <<uses, once, object, stack>>
      BY <2>3 DEF AtExit!Load, Quiet, Idle
    <2>4. CASE AtExit!Delete /\ UNCHANGED <<uses, once, object, stack>>
      BY <2>4 DEF AtExit!Delete, Quiet, Idle
    <2>5. CASE AtExit!Advance /\ UNCHANGED <<uses, once, object, stack>>
      BY <2>5 DEF AtExit!Advance, Quiet, Idle
    <2>6. CASE AtExit!Closed /\ UNCHANGED <<uses, once, object, stack>>
      BY <2>6 DEF AtExit!Closed, AtExit!vars, Quiet, Idle
    <2> QED
      BY <2>1, <2>2, <2>3, <2>4, <2>5, <2>6 DEF Exec
  <1>2. SingletonTypes'
    BY <1>1 DEF SingletonTypes
  <1>3. FramesOK' /\ Single' /\ Somewhere' /\ Quiet'
    BY <1>1, IdleNotRunning, IdleSound DEF Idle
  <1>4. Fates'
    BY <1>1 DEF Fates, Fate, Registered, Called, E!Elements, Dying
  <1>5. UsesFirst'
    BY <1>1 DEF UsesFirst
  <1> QED
    BY <1>2, <1>3, <1>4, <1>5

(* exec() calls the destructor of pstack.                                  *)
LEMMA FiniSteps ==
  ASSUME Mine, ExitInv, ExitInv', Fini
  PROVE  Mine'
  <1>. USE DEF Mine
  <1>1. PICK s \in Singletons : s = pstack
    BY FromExit DEF Fini, AtExit!Call
  <1>2. PICK g \in Frames : /\ g = Frame(s, "destroy", uses[s])
                            /\ g.of = s /\ g.at = "destroy" /\ g.left = uses[s]
    BY UsesAreSingletons, AFrame
  <1>3. /\ phase = "loaded" /\ phase' = "running" /\ ran' = Append(ran, s)
        /\ Push(Main, g) /\ UNCHANGED <<uses, once, object, pushed>>
    BY <1>1, <1>2 DEF Fini, AtExit!Call
  <1>4. Idle
    BY <1>3 DEF Quiet, Idle
  <1>5. Main \in Threads /\ Depth(Main) = 0
    BY <1>4, ThreadsAssumption DEF Idle, Depth
  <1>6. KeptBelow(Main, 0) /\ Depth(Main)' = 1 /\ At(Main, 1)' = g
    BY <1>3, <1>5, Pushing
  <1>7. \A t \in Threads \ {Main} : stack'[t] = <<>> /\ Depth(t)' = 0
    BY <1>4, <1>6 DEF KeptBelow, Idle, Depth
  <1>8. SingletonTypes'
    BY <1>3, <1>6 DEF SingletonTypes, KeptBelow
  <1>9. PICK l \in Nat : l = Len(ran) /\ DOMAIN ran = 1 .. l
    BY FromExit
  <1>10. /\ DOMAIN ran' = 1 .. l + 1 /\ Len(ran') = l + 1 /\ ran'[l + 1] = s /\ ran' # <<>>
         /\ \A i \in 1 .. l : ran'[i] = ran[i]
    BY <1>3, <1>9, FromExit
  <1>11. \A u \in Singletons : Dying(u)' <=> u = s
    BY <1>3, <1>10 DEF Dying
  <1>12. FramesOK'
    <2>1. Good(g)' /\ Top(g)'
      BY <1>2, <1>3, <1>11 DEF Good, Top, Building
    <2>2. Good(At(Main, 1))' /\ Top(At(Main, 1))'
      BY <1>6, <2>1, InPlace
    <2>3. \A d \in 1 .. 1 : d = 1 /\ ~(d < 1)
      OBVIOUS
    <2>4. Sound(Main)'
      BY <1>6, <2>2, <2>3 DEF Sound
    <2>5. \A t \in Threads \ {Main} : Sound(t)'
      BY <1>7 DEF Sound
    <2> QED
      BY <2>4, <2>5 DEF FramesOK
  <1>13. Single' /\ Somewhere'
    <2>1. \A t \in Threads : \A d \in 1 .. Depth(t)' : At(t, d)'.at \notin Building
      <3>1. \A d \in 1 .. 1 : d = 1
        OBVIOUS
      <3>2. \A d \in 1 .. 0 : FALSE
        OBVIOUS
      <3> QED
        BY <1>2, <1>6, <1>7, <3>1, <3>2 DEF Building
    <2>2. \A u \in Singletons : once'[u] # "running"
      BY <1>3, <1>4, IdleNotRunning
    <2> QED
      BY <2>1, <2>2 DEF Single, Somewhere, Builds
  <1>14. Called' = Called \cup {s} /\ s \notin Called /\ s \in Registered
    <2>1. /\ \A i, j \in DOMAIN ran' : ran'[i] = ran'[j] => i = j
          /\ Called' \subseteq Registered'
      <3>1. ~setting'.racing
        BY DEF ExitInv, E!IInv, E!TypeOK, Settings
      <3> QED
        BY <3>1 DEF ExitInv, E!IInv, E!Disturbed, E!Orderly, E!History, Registered, Called
    <2>2. \A i \in 1 .. l + 1 : i \in 1 .. l \/ i = l + 1
      OBVIOUS
    <2>3. /\ 1 .. l \subseteq 1 .. l + 1 /\ l + 1 \in 1 .. l + 1
          /\ ~(l + 1 \in 1 .. l)
      OBVIOUS
    <2>4. Called' = Called \cup {s}
      BY <1>9, <1>10, <2>2, <2>3 DEF Called, E!Elements
    <2>5. s \notin Called
      BY <1>9, <1>10, <2>1, <2>3 DEF Called, E!Elements
    <2>6. Registered' = Registered
      BY <1>3 DEF Registered
    <2> QED
      BY <2>1, <2>4, <2>5, <2>6
  <1>15. Fates'
    <2>1. ASSUME NEW u \in Singletons  PROVE Fate(u)'
      <3>1. Fate(u) /\ ~Dying(u) /\ Registered' = Registered
        BY <1>3 DEF Fates, Dying, Registered
      <3>2. once'[u] = once[u] /\ object'[u] = object[u]
        BY <1>3
      <3> QED
        BY <1>11, <1>14, <3>1, <3>2 DEF Fate
    <2> QED
      BY <2>1 DEF Fates
  <1>16. UsesFirst' /\ Quiet'
    BY <1>3, <1>7 DEF UsesFirst, Quiet
  <1> QED
    BY <1>8, <1>12, <1>13, <1>15, <1>16

(* The destructor returns to exec().                                       *)
LEMMA DestroySteps ==
  ASSUME Mine, ExitInv, NEW t \in Threads, Destroy(t)
  PROVE  Mine'
  <1>. USE DEF Mine
  <1>1. PICK n \in Nat, f \in Frames :
          /\ n = Depth(t) /\ n >= 1 /\ n \in 1 .. n /\ stack[t] # <<>>
          /\ f = At(t, n) /\ f.at = "destroy" /\ f.of = Of(t) /\ Of(t) \in Singletons
          /\ Good(f)
    BY Innermost DEF Destroy
  <1>2. PICK s \in Singletons : s = Of(t)
    BY <1>1
  <1>3. /\ object' = [object EXCEPT ![s] = "dead"] /\ Pop(t)
        /\ phase = "running" /\ phase' = "called" /\ ran' = ran /\ pushed' = pushed
        /\ UNCHANGED <<uses, once>>
    BY <1>2 DEF Destroy, AtExit!Return
  <1>4. n = 1 /\ Dying(s)
    BY <1>1, <1>2 DEF FramesOK, Sound, Good
  <1>5. t = Main /\ \A u \in Threads \ {t} : stack[u] = <<>> /\ Depth(u) = 0
    BY <1>1, <1>3 DEF Quiet, Depth
  <1>6. KeptBelow(t, n - 1) /\ Depth(t)' = 0
    <2>1. KeptBelow(t, n - 1) /\ Depth(t)' = n - 1
      BY <1>1, <1>3, Popping
    <2> QED
      BY <1>4, <2>1
  <1>7. SingletonTypes'
    <2>1. object' \in [Singletons -> {"raw", "alive", "dead"}]
      BY <1>3 DEF SingletonTypes
    <2> QED
      BY <1>3, <1>6, <2>1 DEF SingletonTypes, KeptBelow
  <1>8. Idle'
    <2>1. stack'[t] \in Seq(Frames) /\ Len(stack'[t]) = 0
      BY <1>6 DEF KeptBelow, Depth
    <2>2. stack'[t] = <<>>
      BY <2>1
    <2> QED
      BY <1>5, <1>6, <2>2 DEF Idle, KeptBelow
  <1>9. \A u \in Singletons : once'[u] # "running"
    <2>1. \A d \in 1 .. Depth(t) : d = n
      BY <1>1, <1>4
    <2>2. \A u \in Threads : \A d \in 1 .. Depth(u) : At(u, d).at \notin Building
      BY <1>1, <1>5, <2>1 DEF Building
    <2> QED
      BY <1>3, <2>2 DEF Somewhere, Builds
  <1>10. FramesOK' /\ Single' /\ Somewhere' /\ Quiet'
    BY <1>8, <1>9, IdleSound
  <1>11. /\ Registered' = Registered /\ Called' = Called /\ s \in Called /\ s \in Registered
         /\ \A u \in Singletons : ~Dying(u)' /\ (Dying(u) <=> u = s)
    <2>1. Registered' = Registered /\ Called' = Called
      BY <1>3 DEF Registered, Called, E!Elements
    <2>2. \A u \in Singletons : ~Dying(u)' /\ (Dying(u) <=> u = s)
      BY <1>3, <1>4 DEF Dying
    <2>3. ran \in Seq(Singletons) /\ ran # <<>>
      BY <1>4, FromExit DEF Dying
    <2>4. Len(ran) \in DOMAIN ran
      BY <2>3
    <2> QED
      BY <1>4, <2>1, <2>2, <2>4, FromExit DEF Dying, Called, E!Elements
  <1>12. Fates'
    <2>1. ASSUME NEW u \in Singletons  PROVE Fate(u)'
      <3>1. Fate(u) /\ once'[u] = once[u] /\ (u # s => object'[u] = object[u])
        BY <1>3 DEF Fates, SingletonTypes
      <3>2. object'[s] = "dead"
        BY <1>3 DEF SingletonTypes
      <3> QED
        BY <1>11, <3>1, <3>2 DEF Fate
    <2> QED
      BY <2>1 DEF Fates
  <1>13. UsesFirst'
    BY <1>3 DEF UsesFirst
  <1> QED
    BY <1>7, <1>10, <1>12, <1>13

-----------------------------------------------------------------------------
(* No singleton has been referred to yet.                                  *)
LEMMA InitInv == Init => SInv
  <1>. SUFFICES ASSUME Init  PROVE SInv
    OBVIOUS
  <1>1. ExitInv
    BY ExitInit DEF Init
  <1>2. SingletonTypes
    <2>1. <<>> \in Seq(Frames)
      OBVIOUS
    <2> QED
      BY <2>1 DEF Init, Control!Init, SingletonTypes
  <1>3. \A t \in Threads : stack[t] = <<>> /\ Depth(t) = 0
    BY DEF Init, Depth
  <1>4. FramesOK /\ Single /\ Quiet
    BY <1>3 DEF FramesOK, Sound, Single, Quiet
  <1>5. pushed = <<>> /\ DOMAIN pushed = {}
    BY DEF Init, AtExit!Init
  <1>6. Somewhere /\ Fates /\ UsesFirst
    <2>1. \A s \in Singletons : /\ once[s] = "untouched" /\ object[s] = "raw"
                               /\ s \notin Registered
      BY <1>5 DEF Init, Control!Init, Registered, E!Elements
    <2> QED
      BY <1>5, <2>1 DEF Somewhere, Fates, Fate, UsesFirst
  <1> QED
    BY <1>1, <1>2, <1>4, <1>6 DEF SInv

(* To the list every step is a step of AtExit, or none.                    *)
LEMMA StepsOfExit == Mine /\ [Next]_vars => [E!Next]_exitVars
  <1>. SUFFICES ASSUME Mine, [Next]_vars  PROVE [E!Next]_exitVars
    OBVIOUS
  <1>1. ASSUME NEW t \in Threads, Step(t)  PROVE [E!Next]_exitVars
    <2>1. CASE Register(t)
      <3>1. Of(t) \in Singletons
        BY <2>1, Innermost DEF Register, Mine
      <3> QED
        BY <2>1, <3>1, ExitRegister DEF Register, E!Next
    <2>2. CASE Destroy(t)
      BY <2>2, ExitOthers DEF Destroy
    <2>3. CASE ~(Register(t) \/ Destroy(t))
      BY <1>1, <2>3 DEF Step, Proceed, Enter, Return, Wait, Use, Construct, ConstructorThrows,
         RegisterFails, Finish, vars
    <2> QED
      BY <2>1, <2>2, <2>3
  <1>2. ASSUME NEW t \in Threads, NEW s \in Singletons, Refer(t, s)
        PROVE  [E!Next]_exitVars
    BY <1>2 DEF Refer
  <1>3. CASE Exit \/ Fini \/ Exec
    BY <1>3, ExitOthers DEF Exit, Fini, Exec
  <1>4. CASE UNCHANGED vars
    BY <1>4 DEF vars
  <1> QED
    BY <1>1, <1>2, <1>3, <1>4 DEF Next

(* To the controls every step is a step of Once, or none.                  *)
LEMMA StepsOfControl == Mine /\ [Next]_vars => [Control!Next]_once
  <1>. SUFFICES ASSUME Mine, [Next]_vars  PROVE [Control!Next]_once
    OBVIOUS
  <1>1. ASSUME NEW t \in Threads, Step(t)  PROVE [Control!Next]_once
    <2>1. CASE Enter(t) \/ ConstructorThrows(t) \/ RegisterFails(t) \/ Finish(t)
      <3>1. Of(t) \in Singletons
        BY <2>1, Innermost DEF Enter, ConstructorThrows, RegisterFails, Finish, Mine
      <3> QED
        BY <2>1, <3>1 DEF Enter, ConstructorThrows, RegisterFails, Finish, Control!Next
    <2>2. CASE ~(Enter(t) \/ ConstructorThrows(t) \/ RegisterFails(t) \/ Finish(t))
      BY <1>1, <2>2 DEF Step, Proceed, Return, Wait, Use, Construct, Register, Destroy, vars
    <2> QED
      BY <2>1, <2>2
  <1>2. ASSUME NEW t \in Threads, NEW s \in Singletons, Refer(t, s)
        PROVE  [Control!Next]_once
    BY <1>2 DEF Refer
  <1>3. CASE Exit \/ Fini \/ Exec \/ UNCHANGED vars
    BY <1>3 DEF Exit, Fini, Exec, vars
  <1> QED
    BY <1>1, <1>2, <1>3 DEF Next

(* Every step keeps the invariant.                                         *)
LEMMA NextInv == SInv /\ [Next]_vars => SInv'
  <1>. SUFFICES ASSUME SInv, [Next]_vars  PROVE SInv'
    OBVIOUS
  <1>1. Mine /\ ExitInv
    BY DEF SInv, Mine
  <1>2. ExitInv'
    BY <1>1, StepsOfExit, ExitNext
  <1>3. Mine'
    BY <1>1, <1>2, ThreadSteps, DestroySteps, Referring, ExitSteps, FiniSteps, Stutters
    DEF Next
  <1> QED
    BY <1>2, <1>3 DEF SInv, Mine

(* The invariant holds in every behaviour. *)
LEMMA Invariance == Spec => []SInv
  BY InitInv, NextInv, PTL DEF Spec

-----------------------------------------------------------------------------
(* A dying singleton has been called last.                                 *)
LEMMA Last ==
  ASSUME ExitInv, NEW s, Dying(s)
  PROVE  /\ s \in Called /\ s \in Registered
         /\ \A u \in Called : u # s => E!Before(u, s)
  <1>1. PICK l \in Nat : l = Len(ran) /\ DOMAIN ran = 1 .. l /\ l \in 1 .. l /\ s = ran[l]
    <2>1. ran \in Seq(Singletons) /\ ran # <<>> /\ s = ran[Len(ran)]
      BY FromExit DEF Dying
    <2>2. Len(ran) \in Nat /\ DOMAIN ran = 1 .. Len(ran) /\ Len(ran) \in 1 .. Len(ran)
      BY <2>1
    <2> QED
      BY <2>1, <2>2
  <1>2. s \in Called
    BY <1>1 DEF Called, E!Elements
  <1>3. ASSUME NEW u \in Called, u # s  PROVE E!Before(u, s)
    <2>1. PICK i \in 1 .. l : u = ran[i]
      BY <1>1 DEF Called, E!Elements
    <2>2. i < l
      BY <1>1, <1>3, <2>1
    <2> QED
      BY <1>1, <2>1, <2>2, FromExit
  <1> QED
    BY <1>2, <1>3, FromExit

(* What an early singleton uses is early, and comes after it for exec() if  *)
(* it has no higher priority.                                              *)
LEMMA UsedLater ==
  ASSUME SInv, NEW p \in AtExit!EarlyTasks, NEW u \in uses[p], once[u] # "failed",
         Prio[p] >= Prio[u]
  PROVE  /\ p \in Singletons /\ u \in Singletons /\ u # p
         /\ {u, p} \subseteq E!EarlyTasks /\ ~E!Precedes(u, p)
  <1>1. ExitInv /\ SingletonTypes /\ UsesFirst
    BY DEF SInv
  <1>2. PICK l \in Nat : /\ l = Len(pushed) /\ DOMAIN pushed = 1 .. l
                         /\ early \in Nat /\ early <= l
    BY <1>1, FromExit DEF ExitInv, E!IInv, E!Disturbed, E!Orderly, E!History, E!TypeOK
  <1>3. PICK j \in 1 .. early : p = pushed[j]
    BY DEF AtExit!EarlyTasks
  <1>4. j \in 1 .. l
    BY <1>2
  <1>5. PICK i \in 1 .. j - 1 : pushed[i] = u
    BY <1>1, <1>2, <1>3, <1>4 DEF UsesFirst
  <1>6. i \in 1 .. l /\ i \in 1 .. early /\ i < j
    BY <1>2
  <1>7. \A x, y \in 1 .. l : pushed[x] = pushed[y] => x = y
    BY <1>1, <1>2, FromExit
  <1>8. E!Index(pushed, p) = j /\ E!Index(pushed, u) = i
    <2>1. E!Index(pushed, pushed[j]) = j
      BY <1>2, <1>4, <1>7 DEF E!Index
    <2>2. E!Index(pushed, pushed[i]) = i
      BY <1>2, <1>6, <1>7 DEF E!Index
    <2> QED
      BY <1>3, <1>5, <2>1, <2>2
  <1>9. p \in Singletons /\ u \in Singletons /\ u # p
    <2>1. \A x \in 1 .. l : pushed[x] \in Singletons
      BY <1>1, <1>2, FromExit
    <2> QED
      BY <1>3, <1>4, <1>5, <1>6, <1>7, <2>1
  <1>10. Prio[p] \in Int /\ Prio[u] \in Int
    BY <1>9, ExitAssumptions DEF E!PrioAssumption
  <1>11. ~E!Precedes(u, p)
    BY <1>6, <1>8, <1>10 DEF E!Precedes
  <1> QED
    BY <1>3, <1>5, <1>6, <1>9, <1>11 DEF E!EarlyTasks

(* A thread is in instance_init() of a singleton if and only if its control *)
(* says that it is running, and every variable keeps its type.             *)
LEMMA TypesKept == SInv => TypeOK
  <1>. SUFFICES ASSUME SInv  PROVE TypeOK
    OBVIOUS
  <1>1. /\ uses \in UseGraphs /\ once \in [Singletons -> Control!States]
        /\ object \in [Singletons -> {"raw", "alive", "dead"}]
        /\ stack \in [Threads -> Seq(Frames)]
    BY DEF SInv, SingletonTypes, Control!States
  <1>2. AtExit!TypeOK
    BY DEF SInv, ExitInv, E!IInv, E!TypeOK, AtExit!TypeOK, E!Phases, AtExit!Phases,
           E!Places, AtExit!Places
  <1>3. ASSUME NEW s \in Singletons, NEW t \in Threads
        PROVE  Constructs(t, s) <=> \E d \in 1 .. Depth(t) : Builds(At(t, d), s)
    <2>1. PICK n \in Nat : n = Depth(t) /\ n = Len(stack[t]) /\ DOMAIN stack[t] = 1 .. n
      BY <1>1, Depths DEF Depth, SInv
    <2>2. \A i \in 1 .. n : n + 1 - i \in 1 .. n /\ n + 1 - (n + 1 - i) = i
      OBVIOUS
    <2>3. \A i \in 1 .. n : At(t, n + 1 - i) = stack[t][i] /\ At(t, i) = stack[t][n + 1 - i]
      BY <2>1, <2>2 DEF At
    <2>4. Constructs(t, s) <=> \E i \in 1 .. n : Builds(stack[t][i], s)
      BY <2>1 DEF Constructs, Builds, Building
    <2>5. ASSUME NEW i \in 1 .. n, Builds(stack[t][i], s)
          PROVE  \E d \in 1 .. n : Builds(At(t, d), s)
      BY <2>2, <2>3, <2>5
    <2>6. ASSUME NEW d \in 1 .. n, Builds(At(t, d), s)
          PROVE  \E i \in 1 .. n : Builds(stack[t][i], s)
      BY <2>2, <2>3, <2>6
    <2> QED
      BY <2>1, <2>4, <2>5, <2>6
  <1>4. ASSUME NEW s \in Singletons
        PROVE  once[s] = "running" <=> \E t \in Threads : Constructs(t, s)
    <2>1. ASSUME NEW t \in Threads, NEW d \in 1 .. Depth(t), Builds(At(t, d), s)
          PROVE  once[s] = "running"
      BY <2>1 DEF SInv, FramesOK, Sound, Good, Builds
    <2> QED
      BY <1>3, <2>1 DEF SInv, Somewhere
  <1> QED
    BY <1>1, <1>2, <1>4 DEF TypeOK

(* What p uses was registered before p: exec() comes to it after p, unless it has
   the higher priority. *)
LEMMA SafeReferences == SInv => LiveReferences
  <1>. SUFFICES ASSUME SInv, NEW t \in Threads, In(t, "call"), once[Of(t)] = "done"
                PROVE  /\ object[Of(t)] # "raw"
                       /\ Open => object[Of(t)] = "alive"
                       /\ \A p \in Singletons :
                            InDestructorOf(t, p) /\ Prio[p] >= Prio[Of(t)]
                              => object[Of(t)] = "alive"
    BY DEF LiveReferences
  <1>. USE DEF SInv
  <1>1. PICK n \in Nat, f \in Frames :
          /\ n = Depth(t) /\ n >= 1 /\ f = At(t, n) /\ f.of = Of(t) /\ Of(t) \in Singletons
    BY Innermost
  <1>2. PICK s \in Singletons : s = Of(t)
    BY <1>1
  <1>3. /\ s \in Registered /\ object[s] # "raw"
        /\ object[s] = "alive" <=> s \notin Called \/ Dying(s)
    BY <1>2 DEF Fates, Fate
  <1>4. Open => object[s] = "alive"
    BY <1>3, FromExit DEF Open, Called, E!Elements
  <1>5. ASSUME NEW p \in Singletons, InDestructorOf(t, p), Prio[p] >= Prio[s]
        PROVE  object[s] = "alive"
    <2>1. n = 2 /\ At(t, 1) = stack[t][2]
      BY <1>1, <1>5 DEF InDestructorOf, Depth, At
    <2>2. At(t, 1).at = "destroy" /\ At(t, 1).of = p /\ p \in AtExit!EarlyTasks
      BY <1>5, <2>1 DEF InDestructorOf
    <2>3. 1 \in 1 .. Depth(t) /\ 1 < Depth(t) /\ 1 + 1 = n
      BY <1>1, <2>1
    <2>4. Good(At(t, 1)) /\ Calls(At(t, 1), f)
      BY <1>1, <2>3 DEF FramesOK, Sound
    <2>5. Dying(p) /\ s \in uses[p]
      BY <1>1, <1>2, <2>2, <2>4 DEF Good, Calls
    <2>6. s # p /\ {s, p} \subseteq E!EarlyTasks /\ ~E!Precedes(s, p)
      BY <1>2, <1>5, <2>2, <2>5, UsedLater
    <2>7. s \notin Called
      BY <2>5, <2>6, Last DEF E!Before
    <2> QED
      BY <1>3, <2>7
  <1> QED
    BY <1>2, <1>3, <1>4, <1>5

(* A dying singleton is alive until its destructor returns, and in the end the
   list is empty. *)
LEMMA WholeWhenDestroyed == SInv => DestroyedWhole
  <1>. SUFFICES ASSUME SInv  PROVE DestroyedWhole
    OBVIOUS
  <1>. USE DEF SInv
  <1>1. ASSUME NEW t \in Threads, In(t, "destroy")  PROVE object[Of(t)] = "alive"
    <2>1. PICK n \in Nat, f \in Frames :
            f.at = "destroy" /\ f.of = Of(t) /\ Of(t) \in Singletons /\ Good(f)
      BY <1>1, Innermost
    <2>2. Dying(Of(t))
      BY <2>1 DEF Good
    <2> QED
      BY <2>1, <2>2, Last DEF Fates, Fate
  <1>2. ASSUME phase = "closed", NEW s \in Singletons, object[s] = "alive"
        PROVE  s \in AtExit!Elements(pushed) \ AtExit!EarlyTasks
    <2>1. Idle
      BY <1>2 DEF Quiet, Idle
    <2>2. once[s] # "running" /\ ~Dying(s)
      BY <1>2, <2>1, IdleNotRunning DEF Dying
    <2>3. s \in Registered /\ s \notin Called
      BY <1>2, <2>2 DEF Fates, Fate
    <2>4. s \notin E!EarlyTasks
      <3>1. \A u \in E!EarlyTasks : u \in E!Elements(ran)
        BY <1>2, FromExit, E!EarlyOnes, ExitAssumptions DEF ExitInv
      <3> QED
        BY <2>3, <3>1 DEF Called
    <2> QED
      BY <2>3, <2>4
      DEF Registered, E!Elements, AtExit!Elements, E!EarlyTasks, AtExit!EarlyTasks
  <1> QED
    BY <1>1, <1>2 DEF DestroyedWhole

(* The negated lifetime is the priority: exec() would have called u before s. *)
LEMMA LongerOutlives == SInv => LifetimesKept
  <1>. SUFFICES ASSUME SInv, NEW s \in AtExit!EarlyTasks, NEW u \in AtExit!EarlyTasks,
                       Lifetime[u] < Lifetime[s], Lifetime[u] # IntMin,
                       object[s] = "dead", object[u] = "alive"
                PROVE  FALSE
    BY DEF LifetimesKept
  <1>. USE DEF SInv
  <1>1. s \in E!EarlyTasks /\ u \in E!EarlyTasks
    BY DEF E!EarlyTasks, AtExit!EarlyTasks
  <1>2. s \in Registered /\ u \in Registered /\ s \in Singletons /\ u \in Singletons
    <2>1. /\ pushed \in Seq(Singletons) /\ early \in Nat /\ early <= Len(pushed)
      BY FromExit DEF ExitInv, E!IInv, E!Disturbed, E!Orderly, E!History, E!TypeOK
    <2>2. 1 .. early \subseteq DOMAIN pushed /\ \A i \in DOMAIN pushed : pushed[i] \in Singletons
      BY <2>1
    <2> QED
      BY <1>1, <2>2 DEF E!EarlyTasks, Registered, E!Elements
  <1>3. s \in Called /\ ~Dying(s) /\ (u \notin Called \/ Dying(u)) /\ u # s
    BY <1>2 DEF Fates, Fate
  <1>4. ~E!Precedes(s, u)
    <2>1. /\ Lifetime[s] \in Int /\ Lifetime[u] \in Int /\ Lifetime[u] >= IntMin
          /\ IntMin \in Int
      BY <1>2, LifetimeAssumption DEF IntMin
    <2>2. Prio[s] = -Lifetime[s] /\ Prio[u] = -Lifetime[u]
      BY <1>2, <2>1 DEF Prio
    <2>3. ~(Prio[s] > Prio[u]) /\ Prio[s] # Prio[u]
      BY <2>1, <2>2
    <2> QED
      BY <2>3 DEF E!Precedes
  <1>5. E!Before(s, u)
    <2>1. CASE Dying(u)
      BY <1>3, <2>1, Last
    <2>2. CASE u \notin Called
      <3>1. u \in E!Elements(ran) \/ \A v \in E!Elements(ran) : E!Before(v, u)
        BY <1>1, FromExit, E!EarlyOnes, ExitAssumptions DEF ExitInv
      <3> QED
        BY <1>3, <2>2, <3>1 DEF Called
    <2> QED
      BY <1>3, <2>1, <2>2
  <1> QED
    BY <1>1, <1>4, <1>5 DEF E!Before

-----------------------------------------------------------------------------
(* The control of a singleton is running when, and only when, a thread is  *)
(* in instance_init() of it, whatever the constructors use and however the *)
(* threads meet.                                                           *)
THEOREM TypeCorrect == Spec => []TypeOK
  BY Invariance, TypesKept, PTL

(* While the program runs, instance() returns a reference to a whole       *)
(* object; and so it does in the destructor of a singleton that uses one   *)
(* of the same or a longer lifetime.                                       *)
THEOREM ReferencesAreLive == Spec => []LiveReferences
  BY Invariance, SafeReferences, PTL

(* instance_fini() destroys a whole object, and by the end of the process  *)
(* everything constructed before the exit has been destroyed.              *)
THEOREM EachDestroyedWhole == Spec => []DestroyedWhole
  BY Invariance, WholeWhenDestroyed, PTL

(* Of two singletons that exist at the exit the one with the longer        *)
(* lifetime is destroyed last.                                             *)
THEOREM LifetimesAreKept == Spec => []LifetimesKept
  BY Invariance, LongerOutlives, PTL

(* To its exit the program is AtExit, and to each thread_once it is Once:  *)
(* of what those two promise the singletons lose nothing.                  *)
THEOREM ExitIsAtExit == Spec => E!Spec
  <1>1. Init => E!Init
    BY DEF Init, AtExit!Init, E!Init, AtExit!NoPush, E!NoPush
  <1>2. SInv /\ [Next]_vars => [E!Next]_E!vars
    BY StepsOfExit DEF SInv, Mine, exitVars, E!vars
  <1> QED
    BY <1>1, <1>2, Invariance, PTL DEF Spec, E!Spec

(* A thread_once lets one thread into instance_init(), and is done or has failed when
   that thread leaves it, however often the constructors meet one another. *)
THEOREM ControlsAreOnce == Spec => Control!Spec
  <1>1. Init => Control!Init
    BY DEF Init
  <1>2. SInv /\ [Next]_vars => [Control!Next]_once
    BY StepsOfControl DEF SInv, Mine
  <1> QED
    BY <1>1, <1>2, Invariance, PTL DEF Spec, Control!Spec
=============================================================================
