---------------------------- MODULE SocketsProofs ----------------------------
(***************************************************************************)
(* Proofs about who owns the descriptors of the sockets, for any number of *)
(* threads and clients and a table of any size.                            *)
(*                                                                         *)
(* The invariant is Table: an open descriptor is that of one object, or    *)
(* lost.  Each step opens the lowest free descriptor for one object, or    *)
(* closes that of one, or hands it on, and there is a lemma for each kind. *)
(*                                                                         *)
(* And about the addresses that they are connected to and bound to, for    *)
(* bytes of any size and interfaces of any length: which byte comes first, *)
(* and what compare() comes to.                                            *)
(***************************************************************************)
EXTENDS Sockets, Addr, WellFoundedInduction, TLAPS

(* A set of natural numbers that is not empty has a least member.           *)
LEMMA Least ==
  ASSUME NEW S \in SUBSET Nat, S # {}
  PROVE  \E m \in S : \A n \in S : m <= n
  <1>. DEFINE R == {p \in Nat \X Nat : p[1] < p[2]}
  <1>1. IsWellFoundedOn(R, Nat)
    BY NatLessThanWellFounded DEF OpToRel
  <1>2. \E x \in S : \A y \in S : ~(<<y, x>> \in R)
    <2>. HIDE DEF R
    <2>. QED
      BY <1>1, WFMin
  <1>3. \A x, y \in Nat : y < x => <<y, x>> \in R
    OBVIOUS
  <1>. HIDE DEF R
  <1>4. PICK m \in S : \A y \in S : ~(<<y, m>> \in R)
    BY <1>2
  <1>5. \A y \in S : ~(y < m)
    BY <1>3, <1>4
  <1>. QED
    BY <1>5

(* The system gives the lowest descriptor that is free. *)
LEMMA Lowest ==
  ASSUME Free # {}
  PROVE  LowestFree \in Descs /\ conn[LowestFree] = "closed"
  <1>1. Free \in SUBSET Nat
    BY DEF Free, Descs
  <1>2. \E m \in Free : \A n \in Free : m <= n
    BY <1>1, Least
  <1>3. LowestFree \in Free
    BY <1>2 DEF LowestFree, Min
  <1> QED
    BY <1>3 DEF Free

-----------------------------------------------------------------------------
States == {"closed", "new", "connecting", "connected", "failed", "dgram"}
Stages == {"idle", "open", "bind", "listen", "connect", "connecting", "await",
           "built", "select", "take", "allocate"}
SocketObjects ==
  [class : {"none", "tcp", "udp", "listener"}, desc : Descs, own : BOOLEAN,
   stale : {FALSE}]

SocketTypes ==
  /\ conn \in [Descs -> States]
  /\ nonblock \subseteq Descs
  /\ pc \in [Threads -> Stages]
  /\ call \in [Threads -> Calls \cup {NoCall}]
  /\ fresh \in [Threads -> SocketObjects]
  /\ obj \in [Threads -> SocketObjects]
  /\ wrap \in [Threads -> SocketObjects]
  /\ lis \in SocketObjects

(* The places where objects are, and which of them have a descriptor that   *)
(* is theirs alone: all that own one but a listener made from a descriptor. *)
Slots == ({"fresh", "obj", "wrap"} \X Threads) \cup {<<"lis", "lis">>}

At(s) ==
  CASE s[1] = "fresh" -> fresh[s[2]]
    [] s[1] = "obj" -> obj[s[2]]
    [] s[1] = "wrap" -> wrap[s[2]]
    [] OTHER -> lis

Owns(s) == At(s).own /\ ~(s[1] = "wrap" /\ At(s).class = "listener")

Table ==
  /\ \A s \in Slots : Owns(s) => conn[At(s).desc] # "closed"
  /\ \A s, r \in Slots :
       Owns(s) /\ Owns(r) /\ At(s).desc = At(r).desc => s = r
  /\ \A d \in Descs :
       conn[d] # "closed" =>
         d \in lost \/ \E s \in Slots : Owns(s) /\ At(s).desc = d

(* A tcp_transport that is whole is connected, and blocks.                  *)
Usable(o) ==
  o.class = "tcp" => conn[o.desc] = "connected" /\ o.desc \notin nonblock

Blocking ==
  \A d \in nonblock : \E t \in Threads : pc[t] = "await" /\ fresh[t].desc = d

KindsAt(stage) ==
  CASE stage = "idle" -> {"none"}
    [] stage \in {"open", "bind"} -> {"tcp", "udp", "listener"}
    [] stage = "listen" -> {"listener"}
    [] stage \in {"connect", "connecting", "await"} -> {"tcp"}
    [] stage \in {"select", "take"} -> Accepts \cup {"read"}
    [] stage = "allocate" -> {"accept"}
    [] stage = "built" -> {"tcp", "udp", "listener"} \cup Accepts

ClassOf(kind) == IF kind \in {"udp", "listener"} THEN kind ELSE "tcp"

(* Where a thread is in a call says what it has by now.                     *)
Constructing(t) ==
  /\ call[t].kind \in KindsAt(pc[t])
  /\ IF pc[t] \in {"idle", "open", "select", "take"} THEN fresh[t] = None
     ELSE fresh[t].own /\ fresh[t].class = ClassOf(call[t].kind)
  /\ pc[t] \in {"allocate", "built"} => Usable(fresh[t])
  /\ call[t].kind \in {"tcp", "udp"} \cup Accepts => obj[t] = None
  /\ call[t].kind = "listener" =>
       /\ lis = None
       /\ \A u \in Threads : call[u].kind = "listener" => u = t

Having(t) ==
  /\ obj[t] = None \/ (obj[t].own /\ Usable(obj[t]))
  /\ wrap[t] # None =>
       /\ pc[t] = "idle" /\ obj[t] # None
       /\ \/ wrap[t].class = "udp" /\ wrap[t].own
          \/ /\ wrap[t].class \in {"tcp", "listener"}
             /\ wrap[t].own = (wrap[t].class = "listener")
             /\ wrap[t].desc = obj[t].desc

Core ==
  /\ SocketTypes
  /\ Table
  /\ Blocking
  /\ \A t \in Threads : Constructing(t) /\ Having(t)
  /\ lis = None \/ lis.own

SocketsInv == strayed \/ Core

-----------------------------------------------------------------------------
(* What happens to the table.                                               *)

(* The table stays true if what it holds does and what it owns is there.    *)
LEMMA TableStays ==
  ASSUME Table, lost \subseteq lost',
         \A d \in Descs : conn'[d] = "closed" <=> conn[d] = "closed",
         \A s \in Slots : Owns(s) => At(s).desc \in Descs,
         \A s \in Slots : (Owns(s)' <=> Owns(s)) /\ (Owns(s) => At(s)' = At(s))
  PROVE  Table'
  BY DEF Table, Owns, Slots

(* A descriptor is opened for one object, or for none.                      *)
LEMMA TableOpens ==
  ASSUME Table, NEW d \in Descs, conn[d] = "closed", NEW s \in Slots,
         lost \subseteq lost',
         conn'[d] # "closed",
         \A e \in Descs \ {d} : conn'[e] = conn[e],
         \A r \in Slots : Owns(r) => At(r).desc \in Descs,
         \/ ~Owns(s) /\ Owns(s)' /\ At(s)'.desc = d
         \/ (Owns(s)' <=> Owns(s)) /\ (Owns(s) => At(s)' = At(s)) /\ d \in lost',
         \A r \in Slots \ {s} :
           (Owns(r)' <=> Owns(r)) /\ (Owns(r) => At(r)' = At(r))
  PROVE  Table'
  BY DEF Table, Slots

(* One object closes its descriptor, or leaves it to nobody.                *)
LEMMA TableCloses ==
  ASSUME Table, NEW s \in Slots, Owns(s), ~Owns(s)',
         lost \subseteq lost',
         conn'[At(s).desc] = "closed" \/ (conn' = conn /\ At(s).desc \in lost'),
         \A e \in Descs \ {At(s).desc} : conn'[e] = conn[e],
         \A r \in Slots : Owns(r) => At(r).desc \in Descs,
         \A r \in Slots \ {s} :
           (Owns(r)' <=> Owns(r)) /\ (Owns(r) => At(r)' = At(r))
  PROVE  Table'
  BY DEF Table, Slots

(* One object becomes another one.                                          *)
LEMMA TableMoves ==
  ASSUME Table, UNCHANGED <<conn, lost>>,
         NEW s \in Slots, NEW r \in Slots, s # r,
         Owns(s), ~Owns(r), ~Owns(s)', Owns(r)', At(r)' = At(s),
         \A q \in Slots \ {r, s} :
           (Owns(q)' <=> Owns(q)) /\ (Owns(q) => At(q)' = At(q))
  PROVE  Table'
  BY DEF Table, Slots

-----------------------------------------------------------------------------
(* The objects in their places.                                             *)

(* What a slot holds.                                                       *)
LEMMA Place ==
  /\ \A t \in Threads : /\ At(<<"fresh", t>>) = fresh[t]
                        /\ At(<<"obj", t>>) = obj[t]
                        /\ At(<<"wrap", t>>) = wrap[t]
  /\ At(<<"lis", "lis">>) = lis
  BY DEF At

(* What a slot holds after a step. *)
LEMMA PlaceAfter ==
  /\ \A t \in Threads : /\ At(<<"fresh", t>>)' = fresh'[t]
                        /\ At(<<"obj", t>>)' = obj'[t]
                        /\ At(<<"wrap", t>>)' = wrap'[t]
  /\ At(<<"lis", "lis">>)' = lis'
  BY DEF At

(* The slots: the listener's, and three of each thread. *)
LEMMA SlotCases ==
  /\ \A s \in Slots : \/ s = <<"lis", "lis">>
                      \/ \E t \in Threads : s = <<"fresh", t>> \/ s = <<"obj", t>>
                                            \/ s = <<"wrap", t>>
  /\ <<"lis", "lis">> \in Slots
  /\ \A t \in Threads :
       <<"fresh", t>> \in Slots /\ <<"obj", t>> \in Slots /\ <<"wrap", t>> \in Slots
  BY DEF Slots

(* Every slot holds an object, of a descriptor. *)
LEMMA SlotTypes ==
  ASSUME SocketTypes
  PROVE  \A s \in Slots : At(s) \in SocketObjects /\ At(s).desc \in Descs
  <1>1. \A s \in Slots : At(s) \in SocketObjects
    BY Place, SlotCases, ZenonT(40) DEF SocketTypes
  <1> QED
    BY <1>1 DEF SocketObjects

(* No object owns nothing. *)
LEMMA NoneType == None \in SocketObjects /\ ~None.own /\ None.class = "none"
  BY SocketsAssumption DEF None, Object, SocketObjects, Descs

(* A constructed object is what it was constructed as. *)
LEMMA ObjectType ==
  ASSUME NEW class \in {"tcp", "udp", "listener"}, NEW d \in Descs,
         NEW own \in BOOLEAN
  PROVE  LET o == Object(class, d, own) IN
         /\ o \in SocketObjects /\ o # None
         /\ o.class = class /\ o.desc = d /\ o.own = own
  BY DEF None, Object, SocketObjects

(* A slot of the same kind that is not the thread's is another thread's. *)
LEMMA OtherThread ==
  ASSUME NEW s \in Slots, NEW kind \in {"fresh", "obj", "wrap"}, NEW t,
         s # <<kind, t>>, s[1] = kind
  PROVE  s[2] \in Threads \ {t}
  <1>1. s = <<s[1], s[2]>> /\ s[2] \in Threads
    BY DEF Slots
  <1> QED
    BY <1>1, Zenon

(* A slot whose variable has not changed there is as it was. *)
LEMMA AtStays ==
  ASSUME NEW s \in Slots, lis' = lis,
         s[1] = "fresh" => fresh'[s[2]] = fresh[s[2]],
         s[1] = "obj" => obj'[s[2]] = obj[s[2]],
         s[1] = "wrap" => wrap'[s[2]] = wrap[s[2]]
  PROVE  At(s)' = At(s) /\ (Owns(s)' <=> Owns(s))
  <1>1. At(s)' = At(s)
    BY DEF At, Slots
  <1> QED
    BY <1>1 DEF Owns

(* One object takes the place of another one.                               *)
LEMMA FreshChanges ==
  ASSUME SocketTypes, NEW t \in Threads, NEW o \in SocketObjects,
         fresh' = [fresh EXCEPT ![t] = o], UNCHANGED <<obj, wrap, lis>>
  PROVE  LET s == <<"fresh", t>> IN
         /\ s \in Slots /\ At(s) = fresh[t] /\ At(s)' = o
         /\ Owns(s) = fresh[t].own /\ Owns(s)' = o.own
         /\ \A r \in Slots \ {s} : At(r)' = At(r) /\ (Owns(r)' <=> Owns(r))
  <1> DEFINE s == <<"fresh", t>>
  <1>1. s \in Slots /\ At(s) = fresh[t] /\ At(s)' = o /\ s[1] = "fresh"
    BY Place, PlaceAfter, SlotCases DEF SocketTypes
  <1>2. \A u \in Threads \ {t} : fresh'[u] = fresh[u]
    BY DEF SocketTypes
  <1>3. ASSUME NEW r \in Slots \ {s}
        PROVE  At(r)' = At(r) /\ (Owns(r)' <=> Owns(r))
    <2>1. r[1] = "fresh" => r[2] \in Threads \ {t}
      BY OtherThread
    <2> QED
      BY <1>2, <2>1, AtStays
  <1>4. fresh[t].own \in BOOLEAN /\ o.own \in BOOLEAN
    BY DEF SocketTypes, SocketObjects
  <1> HIDE DEF s
  <1>5. /\ Owns(s) = (fresh[t].own /\ ~(s[1] = "wrap" /\ fresh[t].class = "listener"))
        /\ Owns(s)' = (o.own /\ ~(s[1] = "wrap" /\ o.class = "listener"))
    BY <1>1 DEF Owns
  <1> QED
    BY <1>1, <1>3, <1>4, <1>5 DEF s

(* A step that changes the object of one thread. *)
LEMMA ObjChanges ==
  ASSUME SocketTypes, NEW t \in Threads, NEW o \in SocketObjects,
         obj' = [obj EXCEPT ![t] = o], UNCHANGED <<fresh, wrap, lis>>
  PROVE  LET s == <<"obj", t>> IN
         /\ s \in Slots /\ At(s) = obj[t] /\ At(s)' = o
         /\ Owns(s) = obj[t].own /\ Owns(s)' = o.own
         /\ \A r \in Slots \ {s} : At(r)' = At(r) /\ (Owns(r)' <=> Owns(r))
  <1> DEFINE s == <<"obj", t>>
  <1>1. s \in Slots /\ At(s) = obj[t] /\ At(s)' = o /\ s[1] = "obj"
    BY Place, PlaceAfter, SlotCases DEF SocketTypes
  <1>2. \A u \in Threads \ {t} : obj'[u] = obj[u]
    BY DEF SocketTypes
  <1>3. ASSUME NEW r \in Slots \ {s}
        PROVE  At(r)' = At(r) /\ (Owns(r)' <=> Owns(r))
    <2>1. r[1] = "obj" => r[2] \in Threads \ {t}
      BY OtherThread
    <2> QED
      BY <1>2, <2>1, AtStays
  <1>4. obj[t].own \in BOOLEAN /\ o.own \in BOOLEAN
    BY DEF SocketTypes, SocketObjects
  <1> HIDE DEF s
  <1>5. /\ Owns(s) = (obj[t].own /\ ~(s[1] = "wrap" /\ obj[t].class = "listener"))
        /\ Owns(s)' = (o.own /\ ~(s[1] = "wrap" /\ o.class = "listener"))
    BY <1>1 DEF Owns
  <1> QED
    BY <1>1, <1>3, <1>4, <1>5 DEF s

(* A step that changes the wrapped object of one thread. *)
LEMMA WrapChanges ==
  ASSUME SocketTypes, NEW t \in Threads, NEW o \in SocketObjects,
         wrap' = [wrap EXCEPT ![t] = o], UNCHANGED <<fresh, obj, lis>>
  PROVE  LET s == <<"wrap", t>> IN
         /\ s \in Slots /\ At(s) = wrap[t] /\ At(s)' = o
         /\ Owns(s) = (wrap[t].own /\ wrap[t].class # "listener")
         /\ Owns(s)' = (o.own /\ o.class # "listener")
         /\ \A r \in Slots \ {s} : At(r)' = At(r) /\ (Owns(r)' <=> Owns(r))
  <1> DEFINE s == <<"wrap", t>>
  <1>1. s \in Slots /\ At(s) = wrap[t] /\ At(s)' = o /\ s[1] = "wrap"
    BY Place, PlaceAfter, SlotCases DEF SocketTypes
  <1>2. \A u \in Threads \ {t} : wrap'[u] = wrap[u]
    BY DEF SocketTypes
  <1>3. ASSUME NEW r \in Slots \ {s}
        PROVE  At(r)' = At(r) /\ (Owns(r)' <=> Owns(r))
    <2>1. r[1] = "wrap" => r[2] \in Threads \ {t}
      BY OtherThread
    <2> QED
      BY <1>2, <2>1, AtStays
  <1>4. wrap[t].own \in BOOLEAN /\ o.own \in BOOLEAN
    BY DEF SocketTypes, SocketObjects
  <1> HIDE DEF s
  <1>5. /\ Owns(s) = (wrap[t].own /\ ~(s[1] = "wrap" /\ wrap[t].class = "listener"))
        /\ Owns(s)' = (o.own /\ ~(s[1] = "wrap" /\ o.class = "listener"))
    BY <1>1 DEF Owns
  <1> QED
    BY <1>1, <1>3, <1>4, <1>5 DEF s

(* A step that destroys the listener. *)
LEMMA LisChanges ==
  ASSUME SocketTypes, lis' = None, UNCHANGED <<fresh, obj, wrap>>
  PROVE  LET s == <<"lis", "lis">> IN
         /\ s \in Slots /\ At(s) = lis /\ Owns(s) = lis.own /\ ~Owns(s)'
         /\ \A r \in Slots \ {s} : At(r)' = At(r) /\ (Owns(r)' <=> Owns(r))
  <1> DEFINE s == <<"lis", "lis">>
  <1>1. s \in Slots /\ At(s) = lis /\ At(s)' = None /\ s[1] = "lis"
    BY Place, PlaceAfter, SlotCases
  <1>2. ASSUME NEW r \in Slots \ {s}
        PROVE  At(r)' = At(r) /\ (Owns(r)' <=> Owns(r))
    <2>1. r[1] \in {"fresh", "obj", "wrap"}
      BY DEF Slots
    <2>2. At(r)' = At(r)
      BY <2>1 DEF At
    <2> QED
      BY <2>2 DEF Owns
  <1>3. lis.own \in BOOLEAN
    BY DEF SocketTypes, SocketObjects
  <1> HIDE DEF s
  <1>4. /\ Owns(s) = (lis.own /\ ~(s[1] = "wrap" /\ lis.class = "listener"))
        /\ Owns(s)' = (None.own /\ ~(s[1] = "wrap" /\ None.class = "listener"))
    BY <1>1 DEF Owns
  <1> QED
    BY <1>1, <1>2, <1>3, <1>4, NoneType DEF s

(* A step that changes no object. *)
LEMMA NothingChanges ==
  ASSUME UNCHANGED <<fresh, obj, wrap, lis>>
  PROVE  \A r \in Slots : At(r)' = At(r) /\ (Owns(r)' <=> Owns(r))
  BY DEF At, Owns

(* No two objects have the same descriptor, but for one that was lent.      *)
LEMMA Apart ==
  ASSUME Core, NEW t \in Threads, NEW u \in Threads
  PROVE  /\ fresh[t].own => conn[fresh[t].desc] # "closed"
         /\ obj[t].own => conn[obj[t].desc] # "closed"
         /\ lis.own => conn[lis.desc] # "closed"
         /\ wrap[t].own /\ wrap[t].class # "listener" =>
              conn[wrap[t].desc] # "closed"
         /\ fresh[t].own /\ fresh[u].own /\ fresh[t].desc = fresh[u].desc => t = u
         /\ obj[t].own /\ obj[u].own /\ obj[t].desc = obj[u].desc => t = u
         /\ fresh[t].own /\ obj[u].own => fresh[t].desc # obj[u].desc
         /\ wrap[t].own /\ wrap[t].class # "listener" =>
              /\ fresh[u].own => wrap[t].desc # fresh[u].desc
              /\ obj[u].own => wrap[t].desc # obj[u].desc
         /\ lis.own =>
              /\ fresh[u].own => lis.desc # fresh[u].desc
              /\ obj[u].own => lis.desc # obj[u].desc
              /\ wrap[u].own /\ wrap[u].class # "listener" =>
                   lis.desc # wrap[u].desc
  <1> DEFINE Two(s, r) == Owns(s) /\ Owns(r) /\ At(s).desc = At(r).desc => s = r
             Open1(s) == Owns(s) => conn[At(s).desc] # "closed"
  <1>1. /\ \A s \in Slots : Open1(s)
        /\ \A s, r \in Slots : Two(s, r)
    BY DEF Core, Table
  <1>2. \A v \in Threads :
          /\ <<"fresh", v>> \in Slots /\ <<"obj", v>> \in Slots
          /\ <<"wrap", v>> \in Slots /\ <<"lis", "lis">> \in Slots
          /\ At(<<"fresh", v>>) = fresh[v] /\ At(<<"obj", v>>) = obj[v]
          /\ At(<<"wrap", v>>) = wrap[v] /\ At(<<"lis", "lis">>) = lis
          /\ Owns(<<"fresh", v>>) = fresh[v].own
          /\ Owns(<<"obj", v>>) = obj[v].own
          /\ Owns(<<"wrap", v>>) = (wrap[v].own /\ wrap[v].class # "listener")
          /\ Owns(<<"lis", "lis">>) = lis.own
    BY DEF Core, SocketTypes, SocketObjects, Slots, At, Owns
  <1>3. /\ Open1(<<"fresh", t>>) /\ Open1(<<"obj", t>>) /\ Open1(<<"wrap", t>>)
        /\ Open1(<<"lis", "lis">>)
    BY <1>1, <1>2
  <1>4. /\ Two(<<"fresh", t>>, <<"fresh", u>>) /\ Two(<<"obj", t>>, <<"obj", u>>)
        /\ Two(<<"fresh", t>>, <<"obj", u>>)
        /\ Two(<<"wrap", t>>, <<"fresh", u>>) /\ Two(<<"wrap", t>>, <<"obj", u>>)
        /\ Two(<<"lis", "lis">>, <<"fresh", u>>)
        /\ Two(<<"lis", "lis">>, <<"obj", u>>)
        /\ Two(<<"lis", "lis">>, <<"wrap", u>>)
    BY <1>1, <1>2
  <1> QED
    BY <1>2, <1>3, <1>4

(* What a thread has does not change while others act.                      *)
LEMMA Others ==
  ASSUME Core, NEW u \in Threads,
         pc'[u] = pc[u], call'[u] = call[u], fresh'[u] = fresh[u],
         obj'[u] = obj[u], wrap'[u] = wrap[u],
         call[u].kind = "listener" =>
           lis' = lis /\ \A w \in Threads : call'[w].kind = "listener" => w = u,
         \A o \in {fresh[u], obj[u]} : o.own /\ Usable(o) => Usable(o)'
  PROVE  Constructing(u)' /\ Having(u)'
  <1>1. Constructing(u) /\ Having(u)
    BY DEF Core
  <1>2. Constructing(u)'
    <2>1. pc[u] \in {"allocate", "built"} => Usable(fresh[u])'
      BY <1>1 DEF Constructing
    <2>2. /\ call'[u].kind \in KindsAt(pc[u])'
          /\ IF pc'[u] \in {"idle", "open", "select", "take"} THEN fresh'[u] = None
             ELSE fresh'[u].own /\ fresh'[u].class = ClassOf(call[u].kind)'
          /\ call'[u].kind \in {"tcp", "udp"} \cup Accepts => obj'[u] = None
      BY <1>1 DEF Constructing, KindsAt, ClassOf
    <2> QED
      BY <1>1, <2>1, <2>2 DEF Constructing, Usable
  <1>3. Having(u)'
    <2>1. obj[u] # None => obj[u].own /\ Usable(obj[u])'
      BY <1>1 DEF Having
    <2> QED
      BY <1>1, <2>1 DEF Having, Usable
  <1> QED
    BY <1>2, <1>3

-----------------------------------------------------------------------------
(* The steps.                                                               *)

(* A thread goes on, and no object and no descriptor changes hands.         *)
LEMMA GoesOn ==
  ASSUME Core, NEW t \in Threads, SocketTypes',
         UNCHANGED <<fresh, obj, wrap, lis, lost>>,
         \A d \in Descs : conn'[d] = "closed" <=> conn[d] = "closed",
         \A u \in Threads \ {t} : pc'[u] = pc[u] /\ call'[u] = call[u],
         call'[t].kind = "listener" =>
           call[t].kind = "listener"
             \/ \A u \in Threads : call[u].kind # "listener",
         \A u \in Threads \ {t} : \A o \in {fresh[u], obj[u]} :
           o.own /\ Usable(o) => Usable(o)',
         Constructing(t)', Having(t)', Blocking'
  PROVE  Core'
  <1>1. Table'
    BY NothingChanges, SlotTypes, TableStays DEF Core
  <1>2. ASSUME NEW u \in Threads \ {t} PROVE Constructing(u)' /\ Having(u)'
    <2>1. call[u].kind = "listener" =>
            \A w \in Threads : call[w].kind = "listener" => w = u
      BY DEF Core, Constructing
    <2> QED
      BY <2>1, Others
  <1> QED
    BY <1>1, <1>2 DEF Core

(* The constructor of a thread throws.                                      *)
LEMMA Unwinding ==
  ASSUME Core, NEW t \in Threads, Unwind(t),
         pc[t] \in {"bind", "listen", "connecting", "await"},
         UNCHANGED <<obj, wrap, lis, lost>>
  PROVE  Core'
  <1> DEFINE d == fresh[t].desc
             s == <<"fresh", t>>
  <1>1. fresh[t].own /\ d \in Descs /\ fresh[t].own \in BOOLEAN
    BY DEF Core, Constructing, SocketTypes, SocketObjects
  <1>2. /\ conn' = [conn EXCEPT ![d] = "closed"] /\ nonblock' = nonblock \ {d}
        /\ fresh' = [fresh EXCEPT ![t] = None]
        /\ pc' = [pc EXCEPT ![t] = "idle"] /\ call' = [call EXCEPT ![t] = NoCall]
    BY <1>1 DEF Unwind, Close, Leave
  <1>3. SocketTypes'
    BY <1>1, <1>2, NoneType DEF Core, SocketTypes, States, Stages
  <1>4. Table'
    <2>1. s \in Slots /\ At(s) = fresh[t] /\ Owns(s) /\ ~Owns(s)'
      BY <1>1, <1>2, NoneType, FreshChanges DEF Core
    <2>2. \A r \in Slots \ {s} : At(r)' = At(r) /\ (Owns(r)' <=> Owns(r))
      BY <1>2, NoneType, FreshChanges DEF Core
    <2>3. \A r \in Slots : At(r).desc \in Descs
      BY SlotTypes DEF Core
    <2>4. conn'[d] = "closed" /\ \A e \in Descs \ {d} : conn'[e] = conn[e]
      BY <1>1, <1>2 DEF Core, SocketTypes
    <2> HIDE DEF s
    <2> QED
      BY <2>1, <2>2, <2>3, <2>4, TableCloses DEF Core
  <1>5. Blocking'
    BY <1>1, <1>2 DEF Core, Blocking, SocketTypes
  <1>6. ASSUME NEW u \in Threads \ {t} PROVE Constructing(u)' /\ Having(u)'
    <2>1. \A o \in {fresh[u], obj[u]} : o.own => o.desc # d /\ o.desc \in Descs
      <3>1. fresh[u].desc \in Descs /\ obj[u].desc \in Descs
        BY DEF Core, SocketTypes, SocketObjects
      <3>2. fresh[u].own => fresh[u].desc # d
        BY <1>1, Apart DEF Core
      <3>3. obj[u].own => obj[u].desc # d
        BY <1>1, Apart DEF Core
      <3> QED
        BY <3>1, <3>2, <3>3
    <2>2. \A o \in {fresh[u], obj[u]} : o.own /\ Usable(o) => Usable(o)'
      BY <1>1, <1>2, <2>1 DEF Core, SocketTypes, Usable
    <2>3. /\ pc'[u] = pc[u] /\ call'[u] = call[u] /\ fresh'[u] = fresh[u]
          /\ \A w \in Threads : call'[w].kind = "listener" => call'[w] = call[w]
      BY <1>2 DEF Core, SocketTypes, NoCall
    <2>4. call[u].kind = "listener" =>
            \A w \in Threads : call'[w].kind = "listener" => w = u
      BY <2>3 DEF Core, Constructing
    <2> QED
      BY <2>2, <2>3, <2>4, Others
  <1>7. Constructing(t)' /\ Having(t)'
    <2>1. pc'[t] = "idle" /\ call'[t] = NoCall /\ fresh'[t] = None
      BY <1>2 DEF Core, SocketTypes
    <2>2. wrap[t] = None
      BY DEF Core, Having
    <2>3. obj[t] = None \/ (obj[t].own /\ Usable(obj[t])')
      <3>1. obj[t].own => obj[t].desc # d /\ obj[t].desc \in Descs
        BY <1>1, Apart DEF Core, SocketTypes, SocketObjects
      <3> QED
        BY <1>1, <1>2, <3>1 DEF Core, Having, SocketTypes, Usable
    <2> QED
      BY <2>1, <2>2, <2>3 DEF Constructing, Having, KindsAt, NoCall, Accepts, Usable
  <1> QED
    BY <1>3, <1>4, <1>5, <1>6, <1>7 DEF Core

(* The descriptors that a step does not touch, as another object has them.  *)
LEMMA OthersKeep ==
  ASSUME Core, NEW d \in Descs, SocketTypes',
         nonblock' \subseteq nonblock \cup {d},
         \A e \in Descs \ {d} : conn'[e] = conn[e]
  PROVE  \A o \in SocketObjects : o.desc # d /\ Usable(o) => Usable(o)'
  BY DEF SocketObjects, Usable

(* socket() or accept() gives the constructor of a thread a descriptor.     *)
LEMMA Opening ==
  ASSUME Core, NEW t \in Threads, NEW state \in States \ {"closed"},
         NEW label \in Stages \ {"idle", "open", "select", "take", "await"},
         pc[t] \in {"open", "select", "take"},
         Free # {}, Opened(state),
         fresh' = [fresh EXCEPT ![t] =
                     Object(ClassOf(call[t].kind), LowestFree, TRUE)],
         Goto(t, label), call[t].kind \in KindsAt(label),
         \/ state = "connected" \/ call[t].kind = "udp"
         \/ label \notin {"allocate", "built"},
         UNCHANGED <<nonblock, obj, wrap, lis, lost>>
  PROVE  Core'
  <1> DEFINE d == LowestFree
             s == <<"fresh", t>>
             class == ClassOf(call[t].kind)
             new == Object(class, d, TRUE)
  <1>1. d \in Descs /\ conn[d] = "closed"
    BY Lowest
  <1>2. /\ conn'[d] = state /\ \A e \in Descs \ {d} : conn'[e] = conn[e]
        /\ conn' \in [Descs -> States]
    BY <1>1 DEF Core, SocketTypes, Opened
  <1>3. /\ pc' = [pc EXCEPT ![t] = label] /\ call' = call
        /\ fresh' = [fresh EXCEPT ![t] = new]
    BY DEF Goto
  <1>4. /\ new \in SocketObjects /\ new.own /\ new.desc = d
        /\ new.class = class
    <2>1. class \in {"tcp", "udp", "listener"}
      BY DEF ClassOf
    <2> HIDE DEF class, d
    <2> QED
      BY <1>1, <2>1 DEF Object, SocketObjects
  <1>5. d \notin nonblock
    <2> SUFFICES ASSUME d \in nonblock PROVE FALSE
      OBVIOUS
    <2>1. PICK u \in Threads : pc[u] = "await" /\ fresh[u].desc = d
      BY DEF Core, Blocking
    <2>2. fresh[u].own
      BY <2>1 DEF Core, Constructing
    <2> QED
      BY <1>1, <2>1, <2>2, Apart
  <1>6. fresh[t] = None /\ ~None.own /\ None.class = "none" /\ wrap[t] = None
    BY NoneType DEF Core, Constructing, Having
  <1> HIDE DEF new, d
  <1>a. /\ pc'[t] = label /\ fresh'[t] = new
        /\ \A u \in Threads \ {t} : pc'[u] = pc[u] /\ fresh'[u] = fresh[u]
        /\ pc' \in [Threads -> Stages] /\ fresh' \in [Threads -> SocketObjects]
    BY <1>3, <1>4 DEF Core, SocketTypes
  <1>7. SocketTypes'
    BY <1>2, <1>3, <1>a DEF Core, SocketTypes
  <1>8. Table'
    <2>1. /\ s \in Slots /\ ~Owns(s) /\ Owns(s)' /\ At(s)' = new
          /\ \A r \in Slots \ {s} : At(r)' = At(r) /\ (Owns(r)' <=> Owns(r))
      BY <1>3, <1>4, <1>6, FreshChanges, ZenonT(40) DEF Core
    <2>2. \A r \in Slots : At(r).desc \in Descs
      BY SlotTypes DEF Core
    <2> HIDE DEF s
    <2> QED
      BY <1>1, <1>2, <1>4, <2>1, <2>2, TableOpens DEF Core
  <1>9. Blocking'
    BY <1>a, ZenonT(40) DEF Core, Blocking
  <1>10. \A o \in SocketObjects :
           o.own /\ conn[o.desc] # "closed" /\ Usable(o) => Usable(o)'
    BY <1>1, <1>2, <1>7, OthersKeep
  <1>11. ASSUME NEW u \in Threads \ {t} PROVE Constructing(u)' /\ Having(u)'
    <2>1. \A o \in {fresh[u], obj[u]} : o.own /\ Usable(o) => Usable(o)'
      BY <1>10, Apart DEF Core, SocketTypes
    <2>2. call[u].kind = "listener" =>
            \A w \in Threads : call'[w].kind = "listener" => w = u
      BY <1>3 DEF Core, Constructing
    <2> QED
      BY <1>3, <1>a, <2>1, <2>2, Others
  <1>12. Constructing(t)' /\ Having(t)'
    <2>1. ASSUME label \in {"allocate", "built"} PROVE Usable(fresh[t])'
      <3>1. CASE state = "connected"
        BY <1>2, <1>4, <1>5, <1>a, <3>1 DEF Usable
      <3>2. CASE call[t].kind = "udp"
        BY <1>4, <1>a, <3>2 DEF Usable, ClassOf
      <3> QED
        BY <2>1, <3>1, <3>2
    <2>2. /\ call'[t].kind \in KindsAt(pc'[t]) /\ ClassOf(call'[t].kind) = class
          /\ pc'[t] \notin {"idle", "open", "select", "take"}
          /\ fresh'[t].own /\ fresh'[t].class = class
      BY <1>3, <1>4, <1>a
    <2>c. /\ call'[t].kind \in {"tcp", "udp"} \cup Accepts => obj'[t] = None
          /\ call'[t].kind = "listener" =>
               /\ lis' = None
               /\ \A u \in Threads : call'[u].kind = "listener" => u = t
      BY <1>3 DEF Core, Constructing
    <2>3. Constructing(t)'
      <3> HIDE DEF class
      <3>1. KindsAt(pc[t])' = KindsAt(pc'[t]) /\ ClassOf(call[t].kind)' = class
        BY <2>2 DEF KindsAt, ClassOf
      <3> QED
        BY <1>a, <2>1, <2>2, <2>c, <3>1 DEF Constructing
    <2>4. obj[t] = None \/ (obj[t].own /\ Usable(obj[t])')
      BY <1>10, Apart DEF Core, SocketTypes, Having
    <2> QED
      BY <1>6, <2>3, <2>4 DEF Having, Usable
  <1> QED
    BY <1>7, <1>8, <1>9, <1>11, <1>12 DEF Core

(* The object is whole: it is the program's, or the listener.               *)
LEMMA Building ==
  ASSUME Core, NEW t \in Threads, Build(t)
  PROVE  Core'
  <1> DEFINE s == <<"fresh", t>>
  <1>1. /\ fresh' = [fresh EXCEPT ![t] = None]
        /\ pc' = [pc EXCEPT ![t] = "idle"] /\ call' = [call EXCEPT ![t] = NoCall]
        /\ UNCHANGED <<conn, nonblock, wrap, lost>>
        /\ IF call[t].kind = "listener" THEN lis' = fresh[t] /\ obj' = obj
           ELSE obj' = [obj EXCEPT ![t] = fresh[t]] /\ lis' = lis
    BY DEF Build, Leave
  <1>b. Table /\ UNCHANGED <<conn, lost>>
    BY <1>1 DEF Core
  <1>2. /\ fresh[t].own /\ Usable(fresh[t]) /\ wrap[t] = None
        /\ IF call[t].kind = "listener" THEN lis = None ELSE obj[t] = None
    BY DEF Build, Core, Constructing, Having, KindsAt
  <1>3. fresh[t] \in SocketObjects /\ fresh[t] # None /\ fresh[t].own \in BOOLEAN
    BY <1>2, NoneType DEF Core, SocketTypes, SocketObjects
  <1>4. SocketTypes'
    BY <1>1, <1>3, NoneType DEF Core, SocketTypes, Stages
  <1>5. Table'
    <2> PICK r \in Slots :
          r = IF call[t].kind = "listener" THEN <<"lis", "lis">> ELSE <<"obj", t>>
      BY SlotCases
    <2>1. s \in Slots /\ s # r /\ At(s) = fresh[t]
      BY SlotCases, Place
    <2>2. Owns(s) /\ ~Owns(r)
      BY <1>2, NoneType, Place DEF Owns
    <2>3. At(s)' = None /\ At(r)' = fresh[t]
      <3>1. fresh'[t] = None
        BY <1>1 DEF Core, SocketTypes
      <3>2. IF call[t].kind = "listener" THEN lis' = fresh[t] ELSE obj'[t] = fresh[t]
        BY <1>1 DEF Core, SocketTypes
      <3>3. CASE call[t].kind = "listener"
        BY <3>1, <3>2, <3>3, PlaceAfter
      <3>4. CASE call[t].kind # "listener"
        BY <3>1, <3>2, <3>4, PlaceAfter
      <3> QED
        BY <3>3, <3>4
    <2>4. ~Owns(s)' /\ Owns(r)'
      BY <1>2, <2>3, NoneType DEF Owns
    <2>5. ASSUME NEW q \in Slots \ {r, s}
          PROVE  At(q)' = At(q) /\ (Owns(q)' <=> Owns(q))
      <3>1. q[1] = "fresh" => q[2] \in Threads \ {t}
        BY OtherThread
      <3>2. q[1] = "obj" /\ call[t].kind # "listener" => q[2] \in Threads \ {t}
        BY OtherThread
      <3>3. q[1] \in {"fresh", "obj", "wrap"} \/ q = <<"lis", "lis">>
        BY DEF Slots
      <3>4. CASE call[t].kind = "listener"
        <4>1. q[1] # "lis"
          BY <3>3, <3>4
        <4>2. At(q)' = At(q)
          BY <1>1, <3>1, <3>3, <3>4, <4>1 DEF At, Core, SocketTypes
        <4> QED
          BY <4>2 DEF Owns
      <3>5. CASE call[t].kind # "listener"
        BY <1>1, <3>1, <3>2, <3>5, AtStays DEF Core, SocketTypes
      <3> QED
        BY <3>4, <3>5
    <2> HIDE DEF s
    <2> QED
      BY <1>1, <1>b, <2>1, <2>2, <2>3, <2>4, <2>5, TableMoves
  <1>6. Blocking'
    BY <1>1 DEF Core, Blocking, SocketTypes, Build
  <1>7. ASSUME NEW u \in Threads \ {t} PROVE Constructing(u)' /\ Having(u)'
    <2>1. /\ pc'[u] = pc[u] /\ call'[u] = call[u] /\ fresh'[u] = fresh[u]
          /\ obj'[u] = obj[u]
          /\ \A w \in Threads : call'[w].kind = "listener" => call'[w] = call[w]
      BY <1>1 DEF Core, SocketTypes, NoCall
    <2>2. call[u].kind = "listener" =>
            /\ lis' = lis
            /\ \A w \in Threads : call'[w].kind = "listener" => w = u
      BY <1>1, <2>1 DEF Core, Constructing
    <2> QED
      BY <1>1, <2>1, <2>2, Others DEF Usable
  <1>8. Constructing(t)' /\ Having(t)'
    <2>1. /\ pc'[t] = "idle" /\ call'[t] = NoCall /\ fresh'[t] = None
          /\ obj'[t] = IF call[t].kind = "listener" THEN obj[t] ELSE fresh[t]
      BY <1>1 DEF Core, SocketTypes
    <2> QED
      BY <1>1, <1>2, <2>1
      DEF Core, Constructing, Having, KindsAt, NoCall, Accepts, Usable
  <1>9. lis' = None \/ lis'.own
    BY <1>1, <1>2 DEF Core
  <1> QED
    BY <1>4, <1>5, <1>6, <1>7, <1>8, <1>9 DEF Core

(* There is no memory for the transport of an accepted connection.          *)
LEMMA Losing ==
  ASSUME Core, NEW t \in Threads, pc[t] = "allocate",
         lost' = lost \cup {fresh[t].desc},
         fresh' = [fresh EXCEPT ![t] = None], Leave(t),
         UNCHANGED <<conn, nonblock, obj, wrap, lis>>
  PROVE  Core'
  <1> DEFINE d == fresh[t].desc
             s == <<"fresh", t>>
  <1>1. fresh[t].own /\ d \in Descs /\ fresh[t].own \in BOOLEAN /\ wrap[t] = None
    BY DEF Core, Constructing, Having, SocketTypes, SocketObjects
  <1>2. pc' = [pc EXCEPT ![t] = "idle"] /\ call' = [call EXCEPT ![t] = NoCall]
    BY DEF Leave
  <1>3. SocketTypes'
    BY <1>2, NoneType DEF Core, SocketTypes, Stages
  <1>4. Table'
    <2>1. s \in Slots /\ At(s) = fresh[t] /\ Owns(s) /\ ~Owns(s)'
      BY <1>1, NoneType, FreshChanges DEF Core
    <2>2. \A r \in Slots \ {s} : At(r)' = At(r) /\ (Owns(r)' <=> Owns(r))
      BY NoneType, FreshChanges DEF Core
    <2>3. \A r \in Slots : At(r).desc \in Descs
      BY SlotTypes DEF Core
    <2> HIDE DEF s
    <2> QED
      BY <2>1, <2>2, <2>3, TableCloses DEF Core
  <1>5. Blocking'
    BY <1>2 DEF Core, Blocking, SocketTypes
  <1>6. ASSUME NEW u \in Threads \ {t} PROVE Constructing(u)' /\ Having(u)'
    <2>1. /\ pc'[u] = pc[u] /\ call'[u] = call[u] /\ fresh'[u] = fresh[u]
          /\ \A w \in Threads : call'[w].kind = "listener" => call'[w] = call[w]
      BY <1>2 DEF Core, SocketTypes, NoCall
    <2>2. call[u].kind = "listener" =>
            \A w \in Threads : call'[w].kind = "listener" => w = u
      BY <2>1 DEF Core, Constructing
    <2> QED
      BY <2>1, <2>2, Others DEF Usable
  <1>7. Constructing(t)' /\ Having(t)'
    <2>1. pc'[t] = "idle" /\ call'[t] = NoCall /\ fresh'[t] = None
      BY <1>2 DEF Core, SocketTypes
    <2> QED
      BY <1>1, <2>1 DEF Core, Constructing, Having, KindsAt, NoCall, Accepts, Usable
  <1> QED
    BY <1>3, <1>4, <1>5, <1>6, <1>7 DEF Core

(* A socket beside those that there are: for an object that the thread      *)
(* makes, or for nobody.                                                    *)
LEMMA NewSocket ==
  ASSUME Core, Free # {}, Opened("dgram")
  PROVE  /\ LowestFree \in Descs /\ conn[LowestFree] = "closed"
         /\ conn'[LowestFree] = "dgram" /\ conn' \in [Descs -> States]
         /\ \A e \in Descs \ {LowestFree} : conn'[e] = conn[e]
  BY Lowest DEF Opened, Core, SocketTypes, States

(* A udp_transport made for a descriptor opens another (transport.cpp:692-695). *)
LEMMA Giving ==
  ASSUME Core, NEW t \in Threads, GiveUdp(t)
  PROVE  Core'
  <1> DEFINE d == LowestFree
  <1>1. /\ d \in Descs /\ conn[d] = "closed" /\ conn'[d] = "dgram"
        /\ \A e \in Descs \ {d} : conn'[e] = conn[e]
        /\ conn' \in [Descs -> States]
    BY NewSocket DEF GiveUdp
  <1>2. /\ UNCHANGED <<nonblock, fresh, obj, wrap, lis>>
        /\ pc' = [pc EXCEPT ![t] = "open"] /\ d \in lost' /\ lost \subseteq lost'
        /\ call' = [call EXCEPT ![t] = [NoCall EXCEPT !.kind = "udp"]]
    BY DEF GiveUdp, objects
  <1> HIDE DEF d
  <1>3. [NoCall EXCEPT !.kind = "udp"] \in Calls
    BY DEF NoCall, Calls, UdpCalls
  <1>4. SocketTypes'
    BY <1>1, <1>2, <1>3 DEF Core, SocketTypes, Stages
  <1>5. Table'
    <2>1. \A r \in Slots : At(r)' = At(r) /\ (Owns(r)' <=> Owns(r))
      BY <1>2, NothingChanges
    <2>2. <<"fresh", t>> \in Slots /\ \A r \in Slots : At(r).desc \in Descs
      BY SlotTypes, SlotCases DEF Core
    <2> QED
      BY <1>1, <1>2, <2>1, <2>2, TableOpens DEF Core
  <1>6. Blocking'
    BY <1>2 DEF Core, Blocking, SocketTypes, GiveUdp
  <1>7. \A o \in SocketObjects :
          o.own /\ conn[o.desc] # "closed" /\ Usable(o) => Usable(o)'
    BY <1>1, <1>2, <1>4, OthersKeep
  <1>8. ASSUME NEW u \in Threads \ {t} PROVE Constructing(u)' /\ Having(u)'
    <2>1. \A o \in {fresh[u], obj[u]} : o.own /\ Usable(o) => Usable(o)'
      BY <1>7, Apart DEF Core, SocketTypes
    <2>2. /\ pc'[u] = pc[u] /\ call'[u] = call[u]
          /\ \A w \in Threads : call'[w].kind = "listener" => call'[w] = call[w]
      BY <1>2 DEF Core, SocketTypes, NoCall
    <2>3. call[u].kind = "listener" =>
            \A w \in Threads : call'[w].kind = "listener" => w = u
      BY <2>2 DEF Core, Constructing
    <2> QED
      BY <1>2, <2>1, <2>2, <2>3, Others
  <1>9. Constructing(t)' /\ Having(t)'
    <2>1. pc'[t] = "open" /\ call'[t].kind = "udp"
      BY <1>2 DEF Core, SocketTypes, NoCall
    <2>2. fresh[t] = None /\ obj[t] = None /\ wrap[t] = None
      BY DEF GiveUdp, Core, Constructing, Having
    <2> QED
      BY <1>2, <2>1, <2>2 DEF Constructing, Having, KindsAt
  <1> QED
    BY <1>2, <1>4, <1>5, <1>6, <1>8, <1>9 DEF Core

(* An object made with own = false shares the descriptor of another. *)
LEMMA Lending ==
  ASSUME Core, NEW t \in Threads, NEW class \in {"tcp", "udp", "listener"},
         Lend(t, class)
  PROVE  Core'
  <1> DEFINE s == <<"wrap", t>>
  <1>1. /\ UNCHANGED <<nonblock, pc, call, fresh, obj, lis, lost>>
        /\ pc[t] = "idle" /\ obj[t] # None /\ wrap[t] = None
        /\ obj[t].own /\ obj[t].desc \in Descs
    BY DEF Lend, Core, Having, SocketTypes, SocketObjects
  <1>2. PICK o \in SocketObjects :
          /\ wrap' = [wrap EXCEPT ![t] = o] /\ o.class = class
          /\ \/ /\ class = "udp" /\ Free # {} /\ Opened("dgram")
                /\ o.own /\ o.desc = LowestFree
             \/ /\ class # "udp" /\ conn' = conn
                /\ o.own = (class = "listener") /\ o.desc = obj[t].desc
    <2>1. CASE class = "udp"
      <3>1. Object("udp", LowestFree, TRUE) \in SocketObjects
        BY <2>1, Lowest DEF Lend, Object, SocketObjects
      <3> QED
        BY <2>1, <3>1 DEF Lend, Object
    <2>2. CASE class # "udp"
      <3>1. Object(class, obj[t].desc, class = "listener") \in SocketObjects
        BY <1>1 DEF Object, SocketObjects
      <3> QED
        BY <2>2, <3>1 DEF Lend, Adopted, Object
    <2> QED
      BY <2>1, <2>2
  <1>3. /\ conn' \in [Descs -> States]
        /\ \A d \in Descs : conn[d] # "closed" => conn'[d] = conn[d]
    BY <1>2, NewSocket DEF Core, SocketTypes
  <1>4. SocketTypes'
    BY <1>1, <1>2, <1>3 DEF Core, SocketTypes
  <1>5. Table'
    <2>1. /\ s \in Slots /\ ~Owns(s) /\ At(s)' = o
          /\ Owns(s)' = (o.own /\ o.class # "listener")
          /\ \A r \in Slots \ {s} : At(r)' = At(r) /\ (Owns(r)' <=> Owns(r))
      BY <1>1, <1>2, NoneType, WrapChanges DEF Core
    <2>2. \A r \in Slots : At(r).desc \in Descs
      BY SlotTypes DEF Core
    <2> HIDE DEF s
    <2>3. CASE class = "udp"
      BY <1>1, <1>2, <2>1, <2>2, <2>3, NewSocket, TableOpens DEF Core
    <2>4. CASE class # "udp"
      <3>1. \A r \in Slots : (Owns(r)' <=> Owns(r)) /\ (Owns(r) => At(r)' = At(r))
        BY <1>2, <2>1, <2>4
      <3> QED
        BY <1>1, <1>2, <2>2, <2>4, <3>1, TableStays DEF Core
    <2> QED
      BY <2>3, <2>4
  <1>6. Blocking'
    BY <1>1 DEF Core, Blocking
  <1>7. \A x \in SocketObjects :
          conn[x.desc] # "closed" /\ Usable(x) => Usable(x)'
    BY <1>1, <1>3 DEF Usable, SocketObjects
  <1>8. \A u \in Threads : \A x \in {fresh[u], obj[u]} :
          x.own /\ Usable(x) => Usable(x)'
    BY <1>7, Apart DEF Core, SocketTypes
  <1>9. ASSUME NEW u \in Threads \ {t} PROVE Constructing(u)' /\ Having(u)'
    <2>1. wrap'[u] = wrap[u]
      BY <1>2 DEF Core, SocketTypes
    <2>2. call[u].kind = "listener" =>
            \A w \in Threads : call'[w].kind = "listener" => w = u
      BY <1>1 DEF Core, Constructing
    <2> QED
      BY <1>1, <1>8, <2>1, <2>2, Others
  <1>10. Constructing(t)'
    BY <1>1 DEF Core, Constructing, KindsAt, ClassOf
  <1>11. Having(t)'
    <2>1. wrap'[t] = o
      BY <1>2 DEF Core, SocketTypes
    <2>2. obj[t].own /\ Usable(obj[t])'
      BY <1>1, <1>8 DEF Core, Having
    <2> QED
      BY <1>1, <1>2, <2>1, <2>2 DEF Having, Usable
  <1> QED
    BY <1>1, <1>4, <1>5, <1>6, <1>9, <1>10, <1>11 DEF Core

(* An object is destroyed, and closes the descriptor if it is its own.      *)
LEMMA Destroying ==
  ASSUME Core, NEW s \in Slots, s[1] # "fresh",
         Owns(s) <=> At(s).own, ~Owns(s)',
         Close(At(s)), \A r \in Slots \ {s} : At(r)' = At(r) /\ (Owns(r)' <=> Owns(r)),
         UNCHANGED <<pc, call, fresh, lost>>
  PROVE  /\ conn' \in [Descs -> States] /\ nonblock' \subseteq Descs
         /\ Table' /\ Blocking'
         /\ \A o \in SocketObjects :
              (Owns(s) => o.desc # At(s).desc) /\ Usable(o) => Usable(o)'
  <1> DEFINE d == At(s).desc
  <1>1. \A r \in Slots : At(r).desc \in Descs
    BY SlotTypes DEF Core
  <1>2. CASE Owns(s)
    <2>1. /\ conn' = [conn EXCEPT ![d] = "closed"] /\ nonblock' = nonblock \ {d}
      BY <1>2 DEF Close
    <2> HIDE DEF Close
    <2>2. /\ conn'[d] = "closed" /\ \A e \in Descs \ {d} : conn'[e] = conn[e]
          /\ conn' \in [Descs -> States]
      BY <1>1, <2>1 DEF Core, SocketTypes, States
    <2>3. Table'
      BY <1>1, <1>2, <2>2, TableCloses DEF Core
    <2>4. Blocking' /\ nonblock' \subseteq Descs
      BY <2>1 DEF Core, Blocking, SocketTypes
    <2>5. \A o \in SocketObjects : o.desc # d /\ Usable(o) => Usable(o)'
      BY <2>1, <2>2 DEF SocketObjects, Usable
    <2> QED
      BY <1>2, <2>2, <2>3, <2>4, <2>5
  <1>3. CASE ~Owns(s)
    <2>1. conn' = conn /\ nonblock' = nonblock
      BY <1>3 DEF Close
    <2>2. \A r \in Slots : (Owns(r)' <=> Owns(r)) /\ (Owns(r) => At(r)' = At(r))
      BY <1>3
    <2>3. Table'
      BY <1>1, <2>1, <2>2, TableStays DEF Core
    <2> QED
      BY <2>1, <2>3 DEF Core, Blocking, SocketTypes, Usable
  <1> QED
    BY <1>2, <1>3

(* The object that shares a descriptor is destroyed. *)
LEMMA DestroyingWrap ==
  ASSUME Core, NEW t \in Threads, DestroyWrap(t), ~strayed'
  PROVE  Core'
  <1> DEFINE s == <<"wrap", t>>
  <1>1. /\ UNCHANGED <<pc, call, fresh, lis, lost>> /\ pc[t] = "idle"
        /\ wrap[t].class # "listener" /\ wrap[t] \in SocketObjects
        /\ wrap' = [wrap EXCEPT ![t] = None] /\ Close(wrap[t])
        /\ wrap[t].own \in BOOLEAN
    BY DEF DestroyWrap, Core, SocketTypes, SocketObjects
  <1>2. obj' = obj
    <2>1. AfterClose(wrap[t], obj[t]) = obj[t]
      <3>1. wrap[t].own /\ obj[t].own => wrap[t].desc # obj[t].desc
        BY <1>1, Apart
      <3>2. obj[t] = None \/ obj[t].own
        BY DEF Core, Having
      <3> QED
        BY <3>1, <3>2 DEF AfterClose
    <2> QED
      BY <2>1 DEF DestroyWrap, Core, SocketTypes
  <1>3. /\ s \in Slots /\ At(s) = wrap[t] /\ (Owns(s) <=> wrap[t].own) /\ ~Owns(s)'
        /\ \A r \in Slots \ {s} : At(r)' = At(r) /\ (Owns(r)' <=> Owns(r))
    BY <1>1, <1>2, NoneType, WrapChanges DEF Core
  <1>4. s[1] # "fresh"
    OBVIOUS
  <1> HIDE DEF s
  <1>5. /\ conn' \in [Descs -> States] /\ nonblock' \subseteq Descs
        /\ Table' /\ Blocking'
        /\ \A o \in SocketObjects :
             (wrap[t].own => o.desc # wrap[t].desc) /\ Usable(o) => Usable(o)'
    <2>1. Close(At(s)) /\ (Owns(s) <=> At(s).own)
      BY <1>1, <1>3
    <2>2. /\ conn' \in [Descs -> States] /\ nonblock' \subseteq Descs
          /\ Table' /\ Blocking'
          /\ \A o \in SocketObjects :
               (Owns(s) => o.desc # At(s).desc) /\ Usable(o) => Usable(o)'
      BY <1>1, <1>3, <1>4, <2>1, Destroying
    <2> QED
      BY <1>3, <2>2
  <1>6. SocketTypes'
    BY <1>1, <1>2, <1>5, NoneType DEF Core, SocketTypes
  <1>7. \A u \in Threads : \A o \in {fresh[u], obj[u]} :
          o.own /\ Usable(o) => Usable(o)'
    BY <1>1, <1>5, Apart DEF Core, SocketTypes
  <1>8. ASSUME NEW u \in Threads \ {t} PROVE Constructing(u)' /\ Having(u)'
    <2>1. wrap'[u] = wrap[u]
      BY <1>1 DEF Core, SocketTypes
    <2>2. call[u].kind = "listener" =>
            \A w \in Threads : call'[w].kind = "listener" => w = u
      BY <1>1 DEF Core, Constructing
    <2> QED
      BY <1>1, <1>2, <1>7, <2>1, <2>2, Others
  <1>9. Constructing(t)'
    BY <1>1, <1>2 DEF Core, Constructing, KindsAt, ClassOf
  <1>10. Having(t)'
    <2>1. wrap'[t] = None
      BY <1>1 DEF Core, SocketTypes
    <2> QED
      BY <1>2, <1>7, <2>1 DEF Core, Having, Usable
  <1> QED
    BY <1>1, <1>5, <1>6, <1>8, <1>9, <1>10 DEF Core

(* A thread destroys the object it has, which closes an owned descriptor. *)
LEMMA DestroyingObject ==
  ASSUME Core, NEW t \in Threads, Destroy(t)
  PROVE  Core'
  <1> DEFINE s == <<"obj", t>>
  <1>1. /\ UNCHANGED <<pc, call, lost>> /\ pc[t] = "idle" /\ wrap[t] = None
        /\ obj[t] \in SocketObjects /\ obj[t].own /\ Close(obj[t])
        /\ obj[t].own \in BOOLEAN
    BY DEF Destroy, Core, Having, SocketTypes, SocketObjects
  <1>2. ASSUME NEW x, x # None => x.desc # obj[t].desc
        PROVE  AfterClose(obj[t], x) = x
    BY <1>2 DEF AfterClose
  <1>3. fresh' = fresh
    <2>1. \A u \in Threads : AfterClose(obj[t], fresh[u]) = fresh[u]
      <3> SUFFICES ASSUME NEW u \in Threads, fresh[u] # None
                   PROVE  fresh[u].desc # obj[t].desc
        BY <1>2
      <3>1. fresh[u].own
        BY DEF Core, Constructing
      <3> QED
        BY <1>1, <3>1, Apart
    <2> QED
      BY <2>1 DEF Destroy, Core, SocketTypes
  <1>4. lis' = lis
    <2>1. lis # None => lis.desc # obj[t].desc
      BY <1>1, Apart DEF Core
    <2> QED
      BY <1>2, <2>1 DEF Destroy
  <1>5. wrap' = wrap
    <2>1. \A u \in Threads : AfterClose(obj[t], wrap[u]) = wrap[u]
      <3> SUFFICES ASSUME NEW u \in Threads, wrap[u] # None
                   PROVE  wrap[u].desc # obj[t].desc
        BY <1>2
      <3>1. Having(u)
        BY DEF Core
      <3>2. CASE wrap[u].class = "udp" /\ wrap[u].own
        BY <1>1, <3>2, Apart
      <3>3. CASE wrap[u].desc = obj[u].desc
        <4>1. u # t /\ obj[u].own
          BY <1>1, <3>1 DEF Having
        <4> QED
          BY <1>1, <3>3, <4>1, Apart
      <3> QED
        BY <3>1, <3>2, <3>3 DEF Having
    <2> QED
      BY <2>1 DEF Destroy, Core, SocketTypes
  <1>6. obj' = [obj EXCEPT ![t] = None]
    <2>1. \A u \in Threads \ {t} : AfterClose(obj[t], obj[u]) = obj[u]
      <3> SUFFICES ASSUME NEW u \in Threads \ {t}, obj[u] # None
                   PROVE  obj[u].desc # obj[t].desc
        BY <1>2
      <3>1. obj[u].own
        BY DEF Core, Having
      <3> QED
        BY <1>1, <3>1, Apart
    <2> QED
      BY <2>1 DEF Destroy, Core, SocketTypes
  <1>7. /\ s \in Slots /\ At(s) = obj[t] /\ (Owns(s) <=> obj[t].own) /\ ~Owns(s)'
        /\ \A r \in Slots \ {s} : At(r)' = At(r) /\ (Owns(r)' <=> Owns(r))
    BY <1>1, <1>3, <1>4, <1>5, <1>6, NoneType, ObjChanges DEF Core
  <1>8. s[1] # "fresh"
    OBVIOUS
  <1> HIDE DEF s
  <1>9. /\ conn' \in [Descs -> States] /\ nonblock' \subseteq Descs
        /\ Table' /\ Blocking'
        /\ \A o \in SocketObjects :
             o.desc # obj[t].desc /\ Usable(o) => Usable(o)'
    BY <1>1, <1>3, <1>7, <1>8, Destroying
  <1>10. SocketTypes'
    BY <1>1, <1>3, <1>4, <1>5, <1>6, <1>9, NoneType DEF Core, SocketTypes
  <1>11. \A u \in Threads \ {t} : \A o \in {fresh[u], obj[u]} :
           o.own /\ Usable(o) => Usable(o)'
    BY <1>1, <1>9, Apart DEF Core, SocketTypes
  <1>12. ASSUME NEW u \in Threads \ {t} PROVE Constructing(u)' /\ Having(u)'
    <2>1. obj'[u] = obj[u]
      BY <1>6 DEF Core, SocketTypes
    <2>2. call[u].kind = "listener" =>
            \A w \in Threads : call'[w].kind = "listener" => w = u
      BY <1>1 DEF Core, Constructing
    <2> QED
      BY <1>1, <1>3, <1>4, <1>5, <1>11, <2>1, <2>2, Others
  <1>13. Constructing(t)' /\ Having(t)'
    <2>1. obj'[t] = None
      BY <1>6 DEF Core, SocketTypes
    <2> QED
      BY <1>1, <1>3, <1>4, <1>5, <2>1
      DEF Core, Constructing, Having, KindsAt, Accepts
  <1> QED
    BY <1>4, <1>9, <1>10, <1>12, <1>13 DEF Core

(* The listener is destroyed. *)
LEMMA DestroyingListener ==
  ASSUME Core, DestroyListener
  PROVE  Core'
  <1> DEFINE s == <<"lis", "lis">>
  <1>1. /\ UNCHANGED <<pc, call, fresh, obj, wrap, lost>> /\ lis' = None
        /\ lis.own /\ lis # None /\ Close(lis) /\ lis.own \in BOOLEAN
    BY DEF DestroyListener, Core, SocketTypes, SocketObjects
  <1>2. /\ s \in Slots /\ At(s) = lis /\ (Owns(s) <=> lis.own) /\ ~Owns(s)'
        /\ \A r \in Slots \ {s} : At(r)' = At(r) /\ (Owns(r)' <=> Owns(r))
    BY <1>1, LisChanges DEF Core
  <1>3. s[1] # "fresh"
    OBVIOUS
  <1> HIDE DEF s
  <1>4. /\ conn' \in [Descs -> States] /\ nonblock' \subseteq Descs
        /\ Table' /\ Blocking'
        /\ \A o \in SocketObjects :
             o.desc # lis.desc /\ Usable(o) => Usable(o)'
    BY <1>1, <1>2, <1>3, Destroying
  <1>5. SocketTypes'
    BY <1>1, <1>4, NoneType DEF Core, SocketTypes
  <1>6. ASSUME NEW u \in Threads PROVE Constructing(u)' /\ Having(u)'
    <2>1. \A o \in {fresh[u], obj[u]} : o.own /\ Usable(o) => Usable(o)'
      BY <1>1, <1>4, Apart DEF Core, SocketTypes
    <2>2. call[u].kind = "listener" =>
            lis' = lis /\ \A w \in Threads : call'[w].kind = "listener" => w = u
      BY <1>1 DEF Core, Constructing
    <2> QED
      BY <1>1, <2>1, <2>2, Others
  <1> QED
    BY <1>1, <1>4, <1>5, <1>6 DEF Core

-----------------------------------------------------------------------------

(* No objects, and every descriptor closed. *)
LEMMA InitInv == Init => SocketsInv
  <1> SUFFICES ASSUME Init PROVE Core
    BY DEF SocketsInv
  <1> USE NoneType DEF Init
  <1>1. SocketTypes
    BY DEF SocketTypes, States, Stages
  <1>2. ASSUME NEW s \in Slots PROVE ~Owns(s)
    <2>1. At(s) = None
      BY SlotCases, Place
    <2> QED
      BY <2>1 DEF Owns
  <1>3. Table
    BY <1>2 DEF Table
  <1>4. \A t \in Threads : Constructing(t) /\ Having(t)
    BY DEF Constructing, Having, KindsAt, NoCall, Accepts
  <1> QED
    BY <1>1, <1>3, <1>4 DEF Core, Blocking

(* The steps of the program that neither open nor close a descriptor.       *)
LEMMA Calling ==
  ASSUME Core, NEW t \in Threads, NEW c \in Calls, Call(t, c)
  PROVE  Core'
  <1>1. /\ pc[t] = "idle" /\ wrap[t] = None /\ fresh[t] = None
        /\ UNCHANGED <<conn, nonblock, fresh, obj, wrap, lis, lost>>
        /\ call' = [call EXCEPT ![t] = c]
    BY DEF Call, Core, Constructing, objects
  <1>2. c.kind \in {"tcp", "udp", "read", "listener"} \cup Accepts
    BY DEF Calls, TcpCalls, UdpCalls, ListenerCalls
  <1>a. c.kind = "listener" =>
          lis = None /\ \A u \in Threads : call[u].kind # "listener"
    BY DEF Call, Accepts
  <1>3. PICK label \in {"open", "select", "take"} :
          /\ pc' = [pc EXCEPT ![t] = label] /\ c.kind \in KindsAt(label)
    BY <1>2 DEF Call, KindsAt, Accepts
  <1>4. SocketTypes'
    BY <1>1, <1>3 DEF Core, SocketTypes, Stages
  <1>5. pc'[t] = label /\ call'[t] = c
    BY <1>1, <1>3 DEF Core, SocketTypes
  <1>6. Constructing(t)'
    <2>1. c.kind \in {"tcp", "udp"} \cup Accepts => obj[t] = None
      BY DEF Call, Accepts
    <2>2. c.kind = "listener" =>
            lis = None /\ \A u \in Threads : call'[u].kind = "listener" => u = t
      BY <1>1, <1>a DEF Core, SocketTypes
    <2>3. KindsAt(pc[t])' = KindsAt(label)
      BY <1>5 DEF KindsAt
    <2> QED
      BY <1>1, <1>3, <1>5, <2>1, <2>2, <2>3 DEF Constructing
  <1>7. Having(t)' /\ Blocking'
    BY <1>1, <1>3 DEF Core, Having, Blocking, Usable, SocketTypes
  <1>8. \A u \in Threads \ {t} : pc'[u] = pc[u] /\ call'[u] = call[u]
    BY <1>1, <1>3 DEF Core, SocketTypes
  <1>9. call'[t].kind = "listener" => \A u \in Threads : call[u].kind # "listener"
    BY <1>5, <1>a
  <1> QED
    BY <1>1, <1>4, <1>6, <1>7, <1>8, <1>9, GoesOn DEF Usable

(* A call goes on, or ends, or nothing happens to it.                       *)
LEMMA Proceeding ==
  ASSUME Core, NEW t \in Threads,
         UNCHANGED <<conn, nonblock, fresh, obj, wrap, lis, lost>>,
         \/ UNCHANGED <<pc, call>>
         \/ Leave(t) /\ pc[t] \in {"open", "select", "take"}
         \/ \E label \in Stages \ {"idle", "await"} :
              /\ Goto(t, label) /\ pc[t] \notin {"idle", "await"}
              /\ call[t].kind \in KindsAt(label)
              /\ label \in {"open", "select", "take"} <=>
                   pc[t] \in {"open", "select", "take"}
              /\ label \in {"allocate", "built"} => Usable(fresh[t])
  PROVE  Core'
  <1>1. CASE UNCHANGED <<pc, call>>
    BY <1>1, TableStays, NothingChanges, SlotTypes
    DEF Core, SocketTypes, Blocking, Constructing, Having, Usable
  <1>2. CASE Leave(t) /\ pc[t] \in {"open", "select", "take"}
    <2>1. /\ pc' = [pc EXCEPT ![t] = "idle"]
          /\ call' = [call EXCEPT ![t] = NoCall]
      BY <1>2 DEF Leave
    <2>2. /\ pc'[t] = "idle" /\ call'[t] = NoCall /\ SocketTypes'
          /\ \A u \in Threads \ {t} : pc'[u] = pc[u] /\ call'[u] = call[u]
      BY <2>1 DEF Core, SocketTypes, Stages
    <2>3. Constructing(t)' /\ Having(t)'
      BY <1>2, <2>2
      DEF Core, Constructing, Having, KindsAt, NoCall, Accepts, Usable
    <2>4. Blocking'
      BY <1>2, <2>2 DEF Core, Blocking
    <2>5. call'[t].kind # "listener"
      BY <2>2 DEF NoCall
    <2> QED
      BY <2>2, <2>3, <2>4, <2>5, GoesOn DEF Usable
  <1>3. ASSUME NEW label \in Stages \ {"idle", "await"},
               Goto(t, label), pc[t] \notin {"idle", "await"},
               call[t].kind \in KindsAt(label),
               label \in {"open", "select", "take"} <=>
                 pc[t] \in {"open", "select", "take"},
               label \in {"allocate", "built"} => Usable(fresh[t])
        PROVE  Core'
    <2>1. pc' = [pc EXCEPT ![t] = label] /\ call' = call
      BY <1>3 DEF Goto
    <2>2. /\ pc'[t] = label /\ SocketTypes'
          /\ \A u \in Threads \ {t} : pc'[u] = pc[u]
      BY <2>1 DEF Core, SocketTypes
    <2>3. Constructing(t)'
      <3>1. KindsAt(pc[t])' = KindsAt(label)
        BY <2>2 DEF KindsAt
      <3>2. Usable(fresh[t])' <=> Usable(fresh[t])
        BY DEF Usable
      <3> QED
        BY <1>3, <2>1, <2>2, <3>1, <3>2 DEF Core, Constructing, ClassOf
    <2>4. Having(t)' /\ Blocking'
      BY <1>3, <2>2 DEF Core, Having, Blocking, Usable
    <2> QED
      BY <2>1, <2>2, <2>3, <2>4, GoesOn DEF Usable
  <1> QED
    BY <1>1, <1>2, <1>3

(* connect(), blocking or inside a socket_nb. *)
LEMMA Connecting ==
  ASSUME Core, NEW t \in Threads, Connect(t)
  PROVE  Core'
  <1> DEFINE d == fresh[t].desc
  <1>1. /\ pc[t] = "connect" /\ call[t].kind = "tcp" /\ fresh[t].own /\ d \in Descs
        /\ UNCHANGED <<fresh, obj, wrap, lis, lost, call>>
        /\ conn' = [conn EXCEPT ![d] = "connecting"]
        /\ obj[t] = None /\ wrap[t] = None
    BY DEF Connect, Goto, Core, Constructing, Having, KindsAt, SocketTypes,
           SocketObjects, objects
  <1>2. /\ nonblock \subseteq nonblock' /\ nonblock' \subseteq nonblock \cup {d}
        /\ d \in nonblock' => d \in nonblock \/ call[t].timed
    BY DEF Connect, NonBlocking
  <1>3. PICK label \in {"await", "connecting"} :
          /\ pc' = [pc EXCEPT ![t] = label]
          /\ call[t].timed => label = "await"
    BY DEF Connect, Goto
  <1>4. /\ pc'[t] = label /\ \A u \in Threads \ {t} : pc'[u] = pc[u]
        /\ pc' \in [Threads -> Stages]
    <2>1. label \in Stages /\ pc \in [Threads -> Stages]
      BY DEF Stages, Core, SocketTypes
    <2> HIDE DEF d
    <2> QED
      BY <1>3, <2>1
  <1>5. /\ \A e \in Descs \ {d} : conn'[e] = conn[e]
        /\ conn'[d] # "closed" /\ conn[d] # "closed" /\ conn' \in [Descs -> States]
    BY <1>1, Apart DEF Core, SocketTypes, States
  <1> HIDE DEF d
  <1>6. SocketTypes'
    BY <1>1, <1>2, <1>4, <1>5 DEF Core, SocketTypes
  <1>7. \A u \in Threads \ {t} : \A o \in {fresh[u], obj[u]} :
          o.own /\ Usable(o) => Usable(o)'
    <2>1. \A o \in SocketObjects : o.desc # d /\ Usable(o) => Usable(o)'
      BY <1>1, <1>2, <1>5, <1>6, OthersKeep
    <2>2. \A u \in Threads \ {t} : \A o \in {fresh[u], obj[u]} : o.own => o.desc # d
      BY <1>1, Apart DEF d
    <2> QED
      BY <2>1, <2>2 DEF Core, SocketTypes
  <1>8. Constructing(t)'
    <2>1. call[t].kind \in KindsAt(label) /\ KindsAt(pc[t])' = KindsAt(label)
      BY <1>1, <1>4 DEF KindsAt
    <2>2. fresh[t].class = ClassOf(call[t].kind)
      BY <1>1 DEF Core, Constructing
    <2> QED
      BY <1>1, <1>4, <2>1, <2>2 DEF Constructing, ClassOf
  <1>9. Having(t)'
    BY <1>1 DEF Having
  <1>10. Blocking'
    <2> SUFFICES ASSUME NEW e \in nonblock'
                 PROVE  \E u \in Threads : pc'[u] = "await" /\ fresh'[u].desc = e
      BY DEF Blocking
    <2>1. CASE e \in nonblock
      <3>1. PICK u \in Threads : pc[u] = "await" /\ fresh[u].desc = e
        BY <2>1 DEF Core, Blocking
      <3> QED
        BY <1>1, <1>4, <3>1
    <2>2. CASE e \notin nonblock
      BY <1>1, <1>2, <1>3, <1>4, <2>2 DEF d
    <2> QED
      BY <2>1, <2>2
  <1> QED
    BY <1>1, <1>4, <1>5, <1>6, <1>7, <1>8, <1>9, <1>10, GoesOn

(* connect() has returned, or what select() waited for has come.            *)
LEMMA Answered ==
  ASSUME Core, NEW t \in Threads, Connected(t)
  PROVE  Core'
  <1> DEFINE d == fresh[t].desc
  <1>1. /\ pc[t] \in {"connecting", "await"} /\ call[t].kind = "tcp"
        /\ fresh[t].own /\ d \in Descs
        /\ UNCHANGED <<obj, wrap, lis, lost>> /\ obj[t] = None /\ wrap[t] = None
    BY DEF Connected, Core, Constructing, Having, KindsAt, SocketTypes,
           SocketObjects
  <1>2. CASE IsConnected(d)
    <2>1. /\ pc' = [pc EXCEPT ![t] = "built"] /\ nonblock' = nonblock \ {d}
          /\ UNCHANGED <<conn, fresh, call>> /\ conn[d] = "connected"
      BY <1>2 DEF Connected, Goto, BackToBlocking, IsConnected
    <2>2. /\ pc'[t] = "built" /\ \A u \in Threads \ {t} : pc'[u] = pc[u]
          /\ SocketTypes'
      BY <1>1, <2>1 DEF Core, SocketTypes, Stages
    <2>3. Constructing(t)'
      <3>1. KindsAt(pc[t])' = KindsAt("built") /\ call[t].kind \in KindsAt("built")
        BY <1>1, <2>2 DEF KindsAt
      <3>2. fresh[t].class = ClassOf(call[t].kind) /\ Usable(fresh[t])'
        BY <1>1, <2>1 DEF Core, Constructing, Usable
      <3> QED
        BY <1>1, <2>1, <2>2, <3>1, <3>2 DEF Constructing, ClassOf, Usable
    <2>4. Having(t)' /\ Blocking'
      BY <1>1, <2>1, <2>2 DEF Core, Having, Blocking
    <2> QED
      BY <1>1, <2>1, <2>2, <2>3, <2>4, GoesOn DEF Usable
  <1>3. CASE ~IsConnected(d)
    <2>1. Unwind(t)
      BY <1>3 DEF Connected
    <2> QED
      BY <1>1, <2>1, Unwinding
  <1> QED
    BY <1>2, <1>3

(* The peer of a connect() answers.                                         *)
LEMMA Resolving ==
  ASSUME Core, NEW d \in Descs, Resolve(d)
  PROVE  Core'
  <1>1. /\ UNCHANGED <<nonblock, pc, call, fresh, obj, wrap, lis, lost>>
        /\ conn[d] = "connecting" /\ conn'[d] # "closed"
        /\ \A e \in Descs \ {d} : conn'[e] = conn[e]
        /\ conn' \in [Descs -> States]
    BY DEF Resolve, objects, Core, SocketTypes, States
  <1>2. SocketTypes' /\ Blocking'
    BY <1>1 DEF Core, SocketTypes, Blocking
  <1>3. Table'
    BY <1>1, NothingChanges, SlotTypes, TableStays DEF Core
  <1>4. \A o \in SocketObjects : Usable(o) => Usable(o)'
    BY <1>1 DEF Usable, SocketObjects
  <1>5. \A u \in Threads : Constructing(u)' /\ Having(u)'
    <2> SUFFICES ASSUME NEW u \in Threads PROVE Constructing(u)' /\ Having(u)'
      OBVIOUS
    <2>1. \A o \in {fresh[u], obj[u]} : Usable(o) => Usable(o)'
      BY <1>4 DEF Core, SocketTypes
    <2>2. call[u].kind = "listener" =>
            \A w \in Threads : call'[w].kind = "listener" => w = u
      BY <1>1 DEF Core, Constructing
    <2> QED
      BY <1>1, <2>1, <2>2, Others
  <1> QED
    BY <1>1, <1>2, <1>3, <1>5 DEF Core

(* Nothing that the invariant is about changes.                             *)
LEMMA Untouched ==
  ASSUME Core, UNCHANGED <<conn, nonblock, pc, call, fresh, obj, wrap, lis, lost>>
  PROVE  Core'
  <1>1. Table'
    BY NothingChanges, SlotTypes, TableStays DEF Core
  <1>2. \A u \in Threads : Constructing(u)' /\ Having(u)'
    BY ZenonT(40) DEF Core, Constructing, Having, KindsAt, ClassOf, Usable
  <1> QED
    BY <1>1, <1>2 DEF Core, SocketTypes, Blocking

(* Every statement inside a constructor, accept() or connect keeps the core. *)
LEMMA Stepping ==
  ASSUME Core, NEW t \in Threads, Step(t)
  PROVE  Core'
  <1>1. CASE Open(t)
    <2>1. CASE Free = {}
      BY <1>1, <2>1, Proceeding DEF Open
    <2>2. CASE Free # {}
      <3>1. call[t].kind \in {"tcp", "udp", "listener"} /\ call[t] \in Calls
        BY <1>1 DEF Open, Core, Constructing, KindsAt, SocketTypes, NoCall
      <3> DEFINE state == IF call[t].kind = "udp" THEN "dgram" ELSE "new"
                 label == AfterOpen(call[t])
      <3>2. state \in States \ {"closed"}
        BY DEF States
      <3>3. label \in {"bind", "built", "connect"}
        BY DEF AfterOpen
      <3>4. call[t].kind \in KindsAt(label)
        <4>1. call[t].kind = "listener" => call[t].local
          BY <3>1 DEF Calls, TcpCalls, UdpCalls, ListenerCalls, Accepts
        <4> QED
          BY <3>1, <4>1 DEF AfterOpen, KindsAt, Accepts
      <3>5. label = "built" => call[t].kind = "udp"
        BY DEF AfterOpen
      <3>6. ClassOf(call[t].kind) = call[t].kind
        BY <3>1 DEF ClassOf
      <3>7. /\ pc[t] = "open" /\ Opened(state) /\ Goto(t, label)
            /\ fresh' = [fresh EXCEPT ![t] =
                            Object(ClassOf(call[t].kind), LowestFree, TRUE)]
            /\ UNCHANGED <<nonblock, obj, wrap, lis, lost>>
        BY <1>1, <2>2, <3>6 DEF Open
      <3> HIDE DEF state, label
      <3>8. label \in Stages \ {"idle", "open", "select", "take", "await"}
        BY <3>3 DEF Stages
      <3> QED
        BY <2>2, <3>2, <3>3, <3>4, <3>5, <3>7, <3>8, Opening
    <2> QED
      BY <2>1, <2>2
  <1>2. CASE Bind(t)
    <2>1. CASE Unwind(t)
      BY <1>2, <2>1, Unwinding DEF Bind
    <2>2. CASE ~Unwind(t)
      <3>1. PICK label \in {"connect", "built", "listen"} :
              /\ Goto(t, label) /\ UNCHANGED <<conn, nonblock, fresh>>
              /\ call[t].kind \in KindsAt(label)
              /\ label = "built" => call[t].kind = "udp"
        <4>1. call[t].kind \in {"tcp", "udp", "listener"}
          BY <1>2 DEF Bind, Core, Constructing, KindsAt
        <4> QED
          BY <1>2, <2>2, <4>1 DEF Bind, KindsAt
      <3>2. label = "built" => Usable(fresh[t])
        BY <1>2, <3>1 DEF Bind, Core, Constructing, ClassOf, Usable
      <3> QED
        BY <1>2, <3>1, <3>2, Proceeding DEF Bind, Stages
    <2> QED
      BY <2>1, <2>2
  <1>3. CASE Listen(t)
    <2>1. CASE Unwind(t)
      BY <1>3, <2>1, Unwinding DEF Listen
    <2>2. CASE Goto(t, "built") /\ UNCHANGED <<conn, nonblock, fresh>>
      <3>1. call[t].kind = "listener" /\ fresh[t].class = "listener"
        BY <1>3 DEF Listen, Core, Constructing, KindsAt, ClassOf
      <3>2. Usable(fresh[t]) /\ "listener" \in KindsAt("built")
        BY <3>1 DEF Usable, KindsAt
      <3> QED
        BY <1>3, <2>2, <3>1, <3>2, Proceeding DEF Listen, Stages
    <2> QED
      BY <1>3, <2>1, <2>2 DEF Listen
  <1>4. CASE ConnectTimesOut(t)
    BY <1>4, Unwinding DEF ConnectTimesOut
  <1>5. CASE Select(t)
    <2>1. call[t].kind \in KindsAt("take")
      BY <1>5 DEF Select, Core, Constructing, KindsAt
    <2> QED
      BY <1>5, <2>1, Proceeding DEF Select, objects, Stages
  <1>6. CASE TimeOut(t)
    BY <1>6, Proceeding DEF TimeOut, objects
  <1>7. CASE Accept(t)
    <2>1. /\ pc[t] = "take" /\ call[t].kind \in Accepts
          /\ UNCHANGED <<nonblock, obj, wrap, lis, lost>>
      BY <1>7 DEF Accept
    <2>2. CASE Leave(t) /\ UNCHANGED <<conn, fresh>>
      BY <2>1, <2>2, Proceeding
    <2>3. CASE /\ Free # {} /\ Opened("connected")
               /\ fresh' = [fresh EXCEPT ![t] = Object("tcp", LowestFree, TRUE)]
               /\ Goto(t, IF call[t].kind = "accept" THEN "allocate" ELSE "built")
      <3> DEFINE label == IF call[t].kind = "accept" THEN "allocate" ELSE "built"
      <3>1. /\ label \in Stages \ {"idle", "open", "select", "take", "await"}
            /\ call[t].kind \in KindsAt(label)
            /\ ClassOf(call[t].kind) = "tcp" /\ "connected" \in States \ {"closed"}
        BY <2>1 DEF Stages, KindsAt, ClassOf, States, Accepts
      <3> QED
        BY <2>1, <2>3, <3>1, Opening
    <2> QED
      BY <1>7, <2>2, <2>3 DEF Accept
  <1>8. CASE Allocate(t)
    <2>1. CASE Goto(t, "built") /\ UNCHANGED <<fresh, lost>>
      <3>1. call[t].kind \in KindsAt("built") /\ Usable(fresh[t])
        BY <1>8 DEF Allocate, Core, Constructing, KindsAt, Accepts
      <3> QED
        BY <1>8, <2>1, <3>1, Proceeding DEF Allocate, Stages
    <2> QED
      BY <1>8, <2>1, Losing DEF Allocate
  <1>9. CASE Receive(t)
    BY <1>9, Proceeding DEF Receive, objects
  <1> QED
    BY <1>1, <1>2, <1>3, <1>4, <1>5, <1>6, <1>7, <1>8, <1>9,
       Connecting, Answered, Building DEF Step

(* Every step keeps the invariant, until an object has strayed. *)
LEMMA NextInv == SocketsInv /\ [Next]_vars => SocketsInv'
  <1> SUFFICES ASSUME SocketsInv, [Next]_vars PROVE SocketsInv'
    OBVIOUS
  <1>1. CASE UNCHANGED vars
    BY <1>1, Untouched DEF vars, SocketsInv
  <1>2. CASE ~strayed /\ (Program \/ Environment)
    <2> SUFFICES ASSUME ~strayed' PROVE Core'
      BY DEF SocketsInv
    <2>1. Core
      BY <1>2 DEF SocketsInv
    <2>2. ASSUME NEW t \in Threads, Datagram(t) PROVE Core'
      BY <2>1, <2>2, Untouched DEF Datagram, objects
    <2>3. ASSUME NEW c \in Clients, Arrive(c) \/ Reset(c) PROVE Core'
      BY <2>1, <2>3, Untouched DEF Arrive, Reset, objects
    <2>4. CASE Environment
      BY <2>1, <2>2, <2>3, <2>4, Resolving DEF Environment
    <2>5. CASE Program
      BY <2>1, <2>5, Stepping, Calling, Lending, Giving, DestroyingWrap,
         DestroyingObject, DestroyingListener DEF Program
    <2> QED
      BY <1>2, <2>4, <2>5
  <1> QED
    BY <1>1, <1>2 DEF Next

(* The invariant holds in every behaviour. *)
LEMMA Invariance == Spec => []SocketsInv
  BY InitInv, NextInv, PTL DEF Spec

(* No object of the library finds its descriptor closed, or taken by another *)
(* socket, under its hands: whatever threads construct and destroy at once,  *)
(* and whatever fails on the way.  Only after a listener has closed a         *)
(* descriptor that was lent to it is nothing promised.                       *)
THEOREM DescriptorsKept == Spec => []OwnersKeepTheirs
  <1>1. SocketsInv => OwnersKeepTheirs
    <2> SUFFICES ASSUME Core, NEW o \in Owners
                 PROVE  ~o.stale /\ conn[o.desc] # "closed"
      BY DEF SocketsInv, OwnersKeepTheirs
    <2>1. o.own
      BY DEF Owners
    <2>2. o = lis \/ \E t \in Threads : o \in {fresh[t], obj[t], wrap[t]}
      BY DEF Owners
    <2>3. CASE o = lis
      <3>1. <<"lis", "lis">> \in Slots /\ Owns(<<"lis", "lis">>)
        BY <2>1, <2>3, SlotCases, Place DEF Owns
      <3>2. conn[lis.desc] # "closed"
        BY <3>1, Place DEF Core, Table
      <3> QED
        BY <2>3, <3>2 DEF Core, SocketTypes, SocketObjects
    <2>4. ASSUME NEW t \in Threads, o \in {fresh[t], obj[t], wrap[t]}
          PROVE  ~o.stale /\ conn[o.desc] # "closed"
      <3>1. o \in SocketObjects
        BY <2>4 DEF Core, SocketTypes
      <3>2. o = wrap[t] /\ o.class = "listener" =>
              obj[t].own /\ o.desc = obj[t].desc
        BY NoneType DEF Core, Having
      <3>3. conn[o.desc] # "closed"
        BY <2>1, <2>4, <3>2, Apart
      <3> QED
        BY <3>1, <3>3 DEF SocketObjects
    <2> QED
      BY <2>2, <2>3, <2>4
  <1> QED
    BY <1>1, Invariance, PTL

(* Nor does a descriptor stay open without an object that will close it, but *)
(* in the two ways that the code has of losing one.                          *)
THEOREM DescriptorsClosed == Spec => []NothingLeaks
  <1>1. SocketsInv => NothingLeaks
    <2> SUFFICES ASSUME Core, NEW d \in Descs, conn[d] # "closed", d \notin lost
                 PROVE  d \in {o.desc : o \in Owners}
      BY DEF SocketsInv, NothingLeaks
    <2>1. PICK s \in Slots : Owns(s) /\ At(s).desc = d
      BY DEF Core, Table
    <2>2. At(s).own
      BY <2>1 DEF Owns
    <2>3. At(s) = lis \/ \E t \in Threads : At(s) \in {fresh[t], obj[t], wrap[t]}
      BY DEF At, Slots
    <2>4. At(s) \in Owners
      BY <2>2, <2>3 DEF Owners
    <2> QED
      BY <2>1, <2>4
  <1> QED
    BY <1>1, Invariance, PTL

(* What a constructor of tcp_transport returns is a connected socket that    *)
(* blocks, although a timed one is connected without blocking.               *)
THEOREM TransportsConnected == Spec => []ConstructedConnected
  <1>1. SocketsInv => ConstructedConnected
    <2> SUFFICES ASSUME Core, NEW t \in Threads, obj[t].class = "tcp"
                 PROVE  Usable(obj[t])
      BY DEF SocketsInv, ConstructedConnected, Usable
    <2> QED
      BY NoneType DEF Core, Having
  <1> QED
    BY <1>1, Invariance, PTL

-----------------------------------------------------------------------------
(* Addresses. *)

(* Quotient and remainder.                                                  *)
LEMMA Division ==
  ASSUME NEW b \in Nat \ {0}, NEW v \in Nat
  PROVE  /\ v \div b \in Nat /\ v % b \in 0 .. b - 1
         /\ v = b * (v \div b) + (v % b)
  BY SMTT(30)

(* There is one way only to divide with a remainder.                        *)
LEMMA OneDivision ==
  ASSUME NEW b \in Nat \ {0}, NEW q \in Nat, NEW r \in 0 .. b - 1
  PROVE  /\ b * q + r \in Nat
         /\ (b * q + r) \div b = q /\ (b * q + r) % b = r
  <1>. DEFINE v == b * q + r
  <1>1. v \in Nat
    BY SMTT(30)
  <1>2. /\ v \div b \in Nat /\ v % b \in 0 .. b - 1
        /\ v = b * (v \div b) + (v % b)
    BY <1>1, Division
  <1>. DEFINE p == v \div b
              s == v % b
  <1>3. p \in Nat /\ s \in 0 .. b - 1 /\ b * q + r = b * p + s
    BY <1>2
  <1>4. b * q \in Nat /\ b * p \in Nat
    BY <1>3, SMTT(30)
  <1>. HIDE DEF p, s
  <1>5. ASSUME p < q  PROVE FALSE
    <2>1. q - p - 1 \in Nat /\ b * (q - p - 1) \in Nat
      BY <1>3, <1>5, SMTT(30)
    <2>2. b * q = b * p + b * (q - p - 1) + b
      BY <1>3, SMTT(30)
    <2>. QED
      BY <1>3, <1>4, <2>1, <2>2
  <1>6. ASSUME q < p  PROVE FALSE
    <2>1. p - q - 1 \in Nat /\ b * (p - q - 1) \in Nat
      BY <1>3, <1>6, SMTT(30)
    <2>2. b * p = b * q + b * (p - q - 1) + b
      BY <1>3, SMTT(30)
    <2>. QED
      BY <1>3, <1>4, <2>1, <2>2
  <1>7. p = q
    BY <1>3, <1>5, <1>6
  <1>8. s = r
    BY <1>3, <1>4, <1>7
  <1>. QED
    BY <1>1, <1>7, <1>8 DEF p, s

(* The recursive function in Bytes, unrolled for the two lengths in use.    *)
LEMMA BytesOf ==
  ASSUME NEW n \in {2, 4}, NEW v
  PROVE  Bytes(n, v) =
           [i \in 1 .. n |->
              (CASE i = 1 -> v
                 [] i = 2 -> v \div Base
                 [] i = 3 -> (v \div Base) \div Base
                 [] i = 4 -> ((v \div Base) \div Base) \div Base) % Base]
  <1>. DEFINE Steps(f) ==
         f = [i \in 0 .. n |-> IF i = 0 THEN v ELSE f[i - 1] \div Base]
       r == CHOOSE f : Steps(f)
       v1 == v \div Base
       v2 == v1 \div Base
       v3 == v2 \div Base
       g == [i \in 0 .. n |->
               CASE i = 0 -> v [] i = 1 -> v1 [] i = 2 -> v2 [] i = 3 -> v3
                 [] i = 4 -> v3 \div Base]
  <1>1. Steps(g)
    <2>1. ASSUME NEW i \in 0 .. n
          PROVE  g[i] = IF i = 0 THEN v ELSE g[i - 1] \div Base
      <3>1. i \in {0, 1, 2, 3, 4}
        OBVIOUS
      <3>. HIDE DEF v1, v2, v3
      <3>. QED
        BY <3>1 DEF v1, v2, v3
    <2>. HIDE DEF g
    <2>2. g = [i \in 0 .. n |-> g[i]]
      BY DEF g
    <2>. QED
      BY <2>1, <2>2
  <1>. HIDE DEF g
  <1>2. Steps(r)
    BY <1>1
  <1>3. Bytes(n, v) = [i \in 1 .. n |-> r[i - 1] % Base]
    BY DEF Bytes
  <1>. HIDE DEF r
  <1>4. r[0] = v /\ r[1] = v \div Base
    BY <1>2
  <1>5. n = 4 => r[2] = r[1] \div Base /\ r[3] = r[2] \div Base
    BY <1>2
  <1>6. ASSUME NEW i \in 1 .. n
        PROVE  r[i - 1] = CASE i = 1 -> v
                 [] i = 2 -> v \div Base
                 [] i = 3 -> (v \div Base) \div Base
                 [] i = 4 -> ((v \div Base) \div Base) \div Base
    <2>1. i \in {1, 2, 3, 4} /\ (i > 2 => n = 4)
      OBVIOUS
    <2>. HIDE DEF Steps
    <2>. QED
      BY <1>4, <1>5, <2>1
  <1>. HIDE DEF Steps
  <1>. QED
    BY <1>3, <1>6

Pair(a, b) == a + Base * b
Four(a, b, c, d) == a + Base * (b + Base * (c + Base * d))
Byte == 0 .. Base - 1

(* The recursive function in Value, unrolled likewise.                      *)
LEMMA ValueOf ==
  ASSUME NEW n \in {2, 4}, NEW b, Len(b) = n, \A i \in 1 .. n : b[i] \in Nat
  PROVE  /\ n = 2 => Value(b) = Pair(b[1], b[2])
         /\ n = 4 => Value(b) = Four(b[1], b[2], b[3], b[4])
  <1>. DEFINE Steps(f) ==
         f = [i \in 0 .. Len(b) |->
                IF i = Len(b) THEN 0 ELSE b[i + 1] + Base * f[i + 1]]
       r == CHOOSE f : Steps(f)
       p3 == b[4] + Base * 0
       p2 == b[3] + Base * (IF n = 4 THEN p3 ELSE 0)
       p1 == b[2] + Base * (IF n = 4 THEN p2 ELSE 0)
       p0 == b[1] + Base * p1
       g == [i \in 0 .. n |-> IF i = n THEN 0
                              ELSE CASE i = 0 -> p0 [] i = 1 -> p1
                                     [] i = 2 -> p2 [] i = 3 -> p3]
  <1>1. Steps(g)
    <2>1. ASSUME NEW i \in 0 .. n
          PROVE  g[i] = IF i = n THEN 0 ELSE b[i + 1] + Base * g[i + 1]
      <3>1. i \in {0, 1, 2, 3, 4}
        OBVIOUS
      <3>2. CASE n = 2
        <4>1. g[0] = p0 /\ g[1] = p1 /\ g[2] = 0
          BY <3>2
        <4>2. p1 = b[2] + Base * 0 /\ p0 = b[1] + Base * p1
          BY <3>2
        <4>. HIDE DEF g, p0, p1
        <4>. QED
          BY <3>1, <3>2, <4>1, <4>2
      <3>3. CASE n = 4
        <4>1. g[0] = p0 /\ g[1] = p1 /\ g[2] = p2 /\ g[3] = p3 /\ g[4] = 0
          BY <3>3
        <4>2. /\ p3 = b[4] + Base * 0 /\ p2 = b[3] + Base * p3
              /\ p1 = b[2] + Base * p2 /\ p0 = b[1] + Base * p1
          BY <3>3
        <4>. HIDE DEF g, p0, p1, p2, p3
        <4>. QED
          BY <3>1, <3>3, <4>1, <4>2
      <3>. QED
        BY <3>2, <3>3
    <2>. HIDE DEF g
    <2>2. g = [i \in 0 .. n |-> g[i]]
      BY DEF g
    <2>. QED
      BY <2>1, <2>2
  <1>. HIDE DEF g
  <1>2. Steps(r)
    BY <1>1
  <1>3. Value(b) = r[0]
    BY DEF Value
  <1>. HIDE DEF r
  <1>4. Base * 0 = 0 /\ \A i \in 1 .. n : b[i] + 0 = b[i]
    BY AddrAssumption
  <1>5. CASE n = 2
    <2>1. r[2] = 0 /\ r[1] = b[2] + Base * r[2] /\ r[0] = b[1] + Base * r[1]
      BY <1>2, <1>5
    <2>. HIDE DEF Steps
    <2>2. r[1] = b[2]
      BY <1>4, <1>5, <2>1
    <2>. QED
      BY <1>3, <1>5, <2>1, <2>2 DEF Pair
  <1>6. CASE n = 4
    <2>1. /\ r[4] = 0 /\ r[3] = b[4] + Base * r[4] /\ r[2] = b[3] + Base * r[3]
          /\ r[1] = b[2] + Base * r[2] /\ r[0] = b[1] + Base * r[1]
      BY <1>2, <1>6
    <2>. HIDE DEF Steps
    <2>2. r[3] = b[4]
      BY <1>4, <1>6, <2>1
    <2>. QED
      BY <1>3, <1>6, <2>1, <2>2 DEF Four
  <1>. QED
    BY <1>5, <1>6

(* A quotient by Base has one byte less.                                    *)
LEMMA FewerBytes ==
  ASSUME NEW m \in Nat, NEW v \in 0 .. m * Base - 1
  PROVE  v \div Base \in 0 .. m - 1
  <1>. DEFINE h == v \div Base
  <1>1. m * Base \in Nat /\ h \in Nat /\ v % Base \in Nat /\ Base * h \in Nat
    BY AddrAssumption, SMTT(30)
  <1>2. v = Base * h + (v % Base)
    BY <1>1, AddrAssumption, Division
  <1>3. ASSUME h >= m  PROVE FALSE
    <2>1. h - m \in Nat /\ Base * (h - m) \in Nat
      BY <1>1, <1>3, AddrAssumption, SMTT(30)
    <2>2. Base * h = m * Base + Base * (h - m)
      BY <1>1, AddrAssumption, SMTT(30)
    <2>. HIDE DEF h
    <2>. QED
      BY <1>1, <1>2, <2>1, <2>2
  <1>. QED
    BY <1>1, <1>3

(* A number with one more byte, the least significant.                      *)
LEMMA OneMoreByte ==
  ASSUME NEW m \in Nat, NEW a \in Byte, NEW v \in 0 .. m - 1
  PROVE  /\ a + Base * v \in 0 .. m * Base - 1
         /\ (a + Base * v) % Base = a /\ (a + Base * v) \div Base = v
  <1>. USE AddrAssumption DEF Byte
  <1>1. Base * v \in Nat /\ Base * (m - 1 - v) \in Nat
    BY SMTT(30)
  <1>2. m * Base = Base * v + Base * (m - 1 - v) + Base
    BY SMTT(30)
  <1>3. a + Base * v = Base * v + a
    BY <1>1
  <1>. QED
    BY <1>1, <1>2, <1>3, OneDivision

(* The bytes of a number of two, and the number of two bytes.               *)
LEMMA PairBytes ==
  ASSUME NEW a \in Byte, NEW b \in Byte
  PROVE  /\ Pair(a, b) \in 0 .. Base * Base - 1
         /\ Bytes(2, Pair(a, b)) = <<a, b>>
         /\ Pair(a, b) % Base = a /\ Pair(a, b) \div Base = b
         /\ Value(<<a, b>>) = Pair(a, b)
  <1>. USE AddrAssumption DEF Byte
  <1>1. /\ Pair(a, b) \in 0 .. Base * Base - 1
        /\ Pair(a, b) % Base = a /\ Pair(a, b) \div Base = b
    BY OneMoreByte DEF Pair
  <1>2. b % Base = b
    OBVIOUS
  <1>3. 2 \in {2, 4} /\ 1 .. 2 = {1, 2}
    OBVIOUS
  <1>. DEFINE c == Bytes(2, Pair(a, b))
  <1>4. c = [i \in 1 .. 2 |->
              (CASE i = 1 -> Pair(a, b)
                 [] i = 2 -> Pair(a, b) \div Base
                 [] i = 3 -> (Pair(a, b) \div Base) \div Base
                 [] i = 4 -> ((Pair(a, b) \div Base) \div Base) \div Base)
                % Base]
    BY <1>3, BytesOf
  <1>. HIDE DEF c
  <1>5. c[1] = a /\ c[2] = b
    BY <1>1, <1>2, <1>4
  <1>6. c = <<a, b>>
    <2>1. c = [i \in 1 .. 2 |-> c[i]]
      BY <1>4
    <2>. QED
      BY <1>5, <2>1
  <1>7. Value(<<a, b>>) = Pair(a, b)
    <2>. DEFINE s == <<a, b>>
    <2>1. Len(s) = 2 /\ s[1] = a /\ s[2] = b /\ \A i \in 1 .. 2 : s[i] \in Nat
      OBVIOUS
    <2>. HIDE DEF s
    <2>2. Value(s) = Pair(s[1], s[2])
      BY <1>3, <2>1, ValueOf
    <2>. QED
      BY <2>1, <2>2 DEF s
  <1>. QED
    BY <1>1, <1>6, <1>7 DEF c

(* The same for four.                                                       *)
LEMMA FourBytes ==
  ASSUME NEW a \in Byte, NEW b \in Byte, NEW c \in Byte, NEW d \in Byte
  PROVE  /\ Bytes(4, Four(a, b, c, d)) = <<a, b, c, d>>
         /\ Value(<<a, b, c, d>>) = Four(a, b, c, d)
  <1>. USE AddrAssumption DEF Byte
  <1>. DEFINE v3 == d
              v2 == c + Base * v3
              v1 == b + Base * v2
              v0 == a + Base * v1
  <1>1. Four(a, b, c, d) = v0
    BY DEF Four
  <1>2. v3 \in 0 .. Base - 1 /\ v3 % Base = v3
    OBVIOUS
  <1>0. Base * Base \in Nat /\ Base * Base * Base \in Nat
    BY SMTT(30)
  <1>. HIDE DEF v3
  <1>3. v2 \in 0 .. Base * Base - 1 /\ v2 % Base = c /\ v2 \div Base = v3
    BY <1>2, OneMoreByte
  <1>. HIDE DEF v2
  <1>4. v1 \in 0 .. Base * Base * Base - 1 /\ v1 % Base = b /\ v1 \div Base = v2
    <2>. DEFINE m == Base * Base
    <2>. HIDE DEF m
    <2>1. v2 \in 0 .. m - 1 /\ m \in Nat
      BY <1>0, <1>3 DEF m
    <2>2. v1 \in 0 .. m * Base - 1 /\ v1 % Base = b /\ v1 \div Base = v2
      BY <2>1, OneMoreByte
    <2>. QED
      BY <2>2 DEF m
  <1>. HIDE DEF v1
  <1>5. /\ v0 \in 0 .. Base * Base * Base * Base - 1
        /\ v0 % Base = a /\ v0 \div Base = v1
    <2>. DEFINE m == Base * Base * Base
    <2>. HIDE DEF m
    <2>1. v1 \in 0 .. m - 1 /\ m \in Nat
      BY <1>0, <1>4 DEF m
    <2>2. v0 \in 0 .. m * Base - 1 /\ v0 % Base = a /\ v0 \div Base = v1
      BY <2>1, OneMoreByte
    <2>. QED
      BY <2>2 DEF m
  <1>. HIDE DEF v0
  <1>6. 4 \in {2, 4} /\ 1 .. 4 = {1, 2, 3, 4}
    OBVIOUS
  <1>. DEFINE x == Bytes(4, v0)
  <1>7. x = [i \in 1 .. 4 |->
              (CASE i = 1 -> v0
                 [] i = 2 -> v0 \div Base
                 [] i = 3 -> (v0 \div Base) \div Base
                 [] i = 4 -> ((v0 \div Base) \div Base) \div Base) % Base]
    BY <1>6, BytesOf
  <1>. HIDE DEF x
  <1>8. x[1] = a /\ x[2] = b /\ x[3] = c /\ x[4] = d
    <2>1. /\ x[1] = v0 % Base /\ x[2] = (v0 \div Base) % Base
          /\ x[3] = ((v0 \div Base) \div Base) % Base
          /\ x[4] = (((v0 \div Base) \div Base) \div Base) % Base
      BY <1>7
    <2>. QED
      BY <1>2, <1>3, <1>4, <1>5, <2>1 DEF v3
  <1>9. x = <<a, b, c, d>>
    <2>1. x = [i \in 1 .. 4 |-> x[i]]
      BY <1>7
    <2>. QED
      BY <1>8, <2>1
  <1>10. Value(<<a, b, c, d>>) = Four(a, b, c, d)
    <2>. DEFINE s == <<a, b, c, d>>
    <2>1. /\ Len(s) = 4 /\ s[1] = a /\ s[2] = b /\ s[3] = c /\ s[4] = d
          /\ \A i \in 1 .. 4 : s[i] \in Nat
      OBVIOUS
    <2>. HIDE DEF s
    <2>2. Value(s) = Four(s[1], s[2], s[3], s[4])
      BY <1>6, <2>1, ValueOf
    <2>. QED
      BY <2>1, <2>2 DEF s
  <1>. QED
    BY <1>1, <1>5, <1>9, <1>10 DEF x

(* net_conv() of four bytes ...                                             *)
LEMMA FourSwapped ==
  ASSUME NEW a \in Byte, NEW b \in Byte, NEW c \in Byte, NEW d \in Byte
  PROVE  NetConv32(Four(a, b, c, d)) = Four(d, c, b, a)
  <1>1. Bytes(4, Four(a, b, c, d)) = <<a, b, c, d>>
    BY FourBytes
  <1>2. Swap4(<<a, b, c, d>>) = <<d, c, b, a>>
    BY DEF Swap4
  <1>3. Value(<<d, c, b, a>>) = Four(d, c, b, a)
    BY FourBytes
  <1>. QED
    BY <1>1, <1>2, <1>3 DEF NetConv32

(* ... and of two.                                                          *)
LEMMA PairSwapped ==
  ASSUME NEW a \in Byte, NEW b \in Byte
  PROVE  NetConv16(Pair(a, b)) = Pair(b, a)
  <1>1. Bytes(2, Pair(a, b)) = <<a, b>>
    BY PairBytes
  <1>2. Swap2(<<a, b>>) = <<b, a>>
    BY DEF Swap2
  <1>3. Value(<<b, a>>) = Pair(b, a)
    BY PairBytes
  <1>. QED
    BY <1>1, <1>2, <1>3 DEF NetConv16

(* A port is a pair of bytes, and converted it is the other way round.      *)
LEMMA Conv16 ==
  ASSUME NEW v \in 0 .. Base * Base - 1
  PROVE  \E a, b \in Byte :
           /\ v = Pair(a, b) /\ a = v % Base /\ b = v \div Base
           /\ NetConv16(v) = Pair(b, a)
  <1>. USE AddrAssumption
  <1>1. v \in Nat
    BY SMTT(30)
  <1>2. /\ v % Base \in Byte /\ v \div Base \in Nat
        /\ v = Base * (v \div Base) + (v % Base)
    BY <1>1, Division DEF Byte
  <1>3. v \div Base \in Byte
    BY FewerBytes DEF Byte
  <1>4. PICK a \in Byte, b \in Byte : a = v % Base /\ b = v \div Base
    BY <1>2, <1>3
  <1>5. v = Pair(a, b)
    <2>1. a \in Int /\ Base * b \in Int
      BY SMTT(30) DEF Byte
    <2>. QED
      BY <1>2, <1>4, <2>1 DEF Pair
  <1>6. NetConv16(v) = Value(<<b, a>>)
    <2>1. Bytes(2, v) = <<a, b>>
      BY <1>5, PairBytes
    <2>2. Swap2(<<a, b>>) = <<b, a>>
      BY DEF Swap2
    <2>. QED
      BY <2>1, <2>2 DEF NetConv16
  <1>. QED
    BY <1>4, <1>5, <1>6, PairBytes

(* Four bytes are the same again when they are converted twice.             *)
LEMMA Conv32 ==
  ASSUME NEW v \in 0 .. Base * Base * Base * Base - 1
  PROVE  NetConv32(NetConv32(v)) = v
  <1>. USE AddrAssumption
  <1>0. Base * Base \in Nat /\ Base * Base * Base \in Nat
    BY SMTT(30)
  <1>. DEFINE m2 == Base * Base
              m3 == m2 * Base
              v1 == v \div Base
              v2 == v1 \div Base
              v3 == v2 \div Base
  <1>1. v1 \in 0 .. m3 - 1
    <2>. HIDE DEF m3
    <2>1. m3 \in Nat /\ v \in 0 .. m3 * Base - 1
      BY <1>0 DEF m3
    <2>. QED
      BY <2>1, FewerBytes
  <1>. HIDE DEF v1
  <1>2. v2 \in 0 .. m2 - 1
    <2>. HIDE DEF m2
    <2>1. m2 \in Nat /\ v1 \in 0 .. m2 * Base - 1
      BY <1>0, <1>1 DEF m2
    <2>. QED
      BY <2>1, FewerBytes
  <1>. HIDE DEF v2
  <1>3. v3 \in Byte
    BY <1>2, FewerBytes DEF Byte
  <1>4. ASSUME NEW m \in Nat, NEW x \in 0 .. m - 1
        PROVE  x % Base \in Byte /\ x = (x % Base) + Base * (x \div Base)
    <2>1. x % Base \in 0 .. Base - 1 /\ x \div Base \in Nat
      BY Division
    <2>2. x % Base \in Int /\ Base * (x \div Base) \in Int
      BY <2>1, SMTT(30)
    <2>3. x = Base * (x \div Base) + (x % Base)
      BY Division
    <2>. QED
      BY <2>1, <2>2, <2>3 DEF Byte
  <1>5. v % Base \in Byte /\ v = (v % Base) + Base * v1
    <2>1. Base * Base * Base * Base \in Nat
      BY SMTT(30)
    <2>. QED
      BY <1>4, <2>1 DEF v1
  <1>6. v1 % Base \in Byte /\ v1 = (v1 % Base) + Base * v2
    BY <1>0, <1>1, <1>4 DEF v2
  <1>7. v2 % Base \in Byte /\ v2 = (v2 % Base) + Base * v3
    BY <1>0, <1>2, <1>4
  <1>. HIDE DEF v3
  <1>8. PICK a \in Byte, b \in Byte, c \in Byte, d \in Byte :
          a = v % Base /\ b = v1 % Base /\ c = v2 % Base /\ d = v3
    BY <1>3, <1>5, <1>6, <1>7
  <1>9. v = Four(a, b, c, d)
    BY <1>5, <1>6, <1>7, <1>8 DEF Four
  <1>10. NetConv32(v) = Four(d, c, b, a)
    BY <1>9, FourSwapped
  <1>11. NetConv32(Four(d, c, b, a)) = Four(a, b, c, d)
    BY FourSwapped
  <1>. QED
    BY <1>9, <1>10, <1>11

-----------------------------------------------------------------------------
(* The order of interface addresses is a strict total order.                *)
Interfaces == [1 .. IfSize -> 0 .. Base - 1]

(* Nothing precedes itself, ...                                             *)
LEMMA NotItself ==
  ASSUME NEW x \in Interfaces
  PROVE  ~Precedes(x, x)
  BY AddrAssumption DEF Precedes, Interfaces

(* ... of two interfaces one precedes the other, where they first differ,   *)
(* and what precedes is transitive.                                         *)
LEMMA OneWay ==
  ASSUME NEW x \in Interfaces, NEW y \in Interfaces
  PROVE  x = y \/ Precedes(x, y) \/ Precedes(y, x)
  <1>. DEFINE D == {i \in 1 .. IfSize : x[i] # y[i]}
  <1>1. CASE D = {}
    <2>1. \A i \in 1 .. IfSize : x[i] = y[i]
      BY <1>1
    <2>2. /\ x = [i \in 1 .. IfSize |-> x[i]]
          /\ y = [i \in 1 .. IfSize |-> y[i]]
      BY DEF Interfaces
    <2>. QED
      BY <2>1, <2>2
  <1>2. CASE D # {}
    <2>1. D \in SUBSET Nat
      BY AddrAssumption
    <2>2. PICK i \in D : \A j \in D : i <= j
      <3>. HIDE DEF D
      <3>. QED
        BY <1>2, <2>1, Least
    <2>3. i \in 1 .. IfSize /\ x[i] # y[i] /\ x[i] \in Int /\ y[i] \in Int
      BY AddrAssumption DEF Interfaces
    <2>4. \A j \in 1 .. i - 1 : x[j] = y[j]
      BY <2>2, <2>3, AddrAssumption
    <2>. QED
      BY <2>3, <2>4 DEF Precedes
  <1>. QED
    BY <1>1, <1>2

(* Where the first of two differences comes first decides.                  *)
LEMMA Transitive ==
  ASSUME NEW x \in Interfaces, NEW y \in Interfaces, NEW z \in Interfaces,
         Precedes(x, y), Precedes(y, z)
  PROVE  Precedes(x, z)
  <1>. USE AddrAssumption DEF Interfaces
  <1>1. PICK i \in 1 .. IfSize : x[i] < y[i] /\ \A j \in 1 .. i - 1 : x[j] = y[j]
    BY DEF Precedes
  <1>2. PICK k \in 1 .. IfSize : y[k] < z[k] /\ \A j \in 1 .. k - 1 : y[j] = z[j]
    BY DEF Precedes
  <1>3. CASE i < k
    <2>1. i \in 1 .. k - 1 /\ 1 .. i - 1 \subseteq 1 .. k - 1
      BY <1>3
    <2>. QED
      BY <1>1, <1>2, <2>1 DEF Precedes
  <1>4. CASE i = k
    <2>1. x[i] \in Int /\ y[i] \in Int /\ z[i] \in Int
      OBVIOUS
    <2>2. x[i] < z[i] /\ \A j \in 1 .. i - 1 : x[j] = z[j]
      BY <1>1, <1>2, <1>4, <2>1
    <2>. QED
      BY <2>2 DEF Precedes
  <1>5. CASE k < i
    <2>1. k \in 1 .. i - 1 /\ 1 .. k - 1 \subseteq 1 .. i - 1
      BY <1>5
    <2>. QED
      BY <1>1, <1>2, <2>1 DEF Precedes
  <1>. QED
    BY <1>3, <1>4, <1>5

(* What does not precede is not preceded by what comes before it.           *)
LEMMA NotBefore ==
  ASSUME NEW x \in Interfaces, NEW y \in Interfaces, NEW z \in Interfaces,
         ~Precedes(x, y), ~Precedes(y, z)
  PROVE  ~Precedes(x, z)
  BY OneWay, Transitive, NotItself

-----------------------------------------------------------------------------
(* The comparisons in a row.                                                *)
LEMMA FirstOfTwo ==
  ASSUME NEW a, NEW b
  PROVE  FirstUneven(<<a, b>>) = IF a # 0 THEN a ELSE b
  <1>. DEFINE signs == <<a, b>>
              U == {i \in DOMAIN signs : signs[i] # 0}
  <1>1. DOMAIN signs = {1, 2} /\ signs[1] = a /\ signs[2] = b
    OBVIOUS
  <1>. HIDE DEF signs
  <1>2. U \subseteq {1, 2} /\ (1 \in U <=> a # 0) /\ (2 \in U <=> b # 0)
    BY <1>1
  <1>3. FirstUneven(signs) = IF U = {} THEN 0 ELSE signs[Min(U)]
    BY DEF FirstUneven
  <1>. HIDE DEF U
  <1>. DEFINE k == Min(U)
  <1>4. ASSUME U # {}
        PROVE  k \in U /\ \A y \in U : k <= y
    <2>1. U \in SUBSET Nat
      BY <1>2
    <2>. QED
      BY <1>4, <2>1, Least DEF Min
  <1>. HIDE DEF k
  <1>5. CASE U = {}
    BY <1>1, <1>2, <1>3, <1>5 DEF signs
  <1>6. CASE U # {}
    <2>1. FirstUneven(signs) = signs[k] /\ k \in {1, 2}
      BY <1>2, <1>3, <1>4, <1>6 DEF k
    <2>2. a # 0 => k = 1
      BY <1>2, <1>4, <1>6, <2>1
    <2>3. a = 0 => k = 2
      BY <1>2, <1>4, <1>6, <2>1
    <2>. QED
      BY <1>1, <2>1, <2>2, <2>3 DEF signs
  <1>. QED
    BY <1>5, <1>6

(* The same of the four comparisons of version 6.                           *)
LEMMA FirstOfFour ==
  ASSUME NEW a, NEW b, NEW c, NEW d
  PROVE  FirstUneven(<<a, b, c, d>>) =
           IF a # 0 THEN a ELSE IF b # 0 THEN b ELSE IF c # 0 THEN c ELSE d
  <1>. DEFINE signs == <<a, b, c, d>>
              U == {i \in DOMAIN signs : signs[i] # 0}
  <1>1. /\ DOMAIN signs = {1, 2, 3, 4}
        /\ signs[1] = a /\ signs[2] = b /\ signs[3] = c /\ signs[4] = d
    OBVIOUS
  <1>. HIDE DEF signs
  <1>2. /\ U \subseteq {1, 2, 3, 4}
        /\ (1 \in U <=> a # 0) /\ (2 \in U <=> b # 0)
        /\ (3 \in U <=> c # 0) /\ (4 \in U <=> d # 0)
    BY <1>1
  <1>3. FirstUneven(signs) = IF U = {} THEN 0 ELSE signs[Min(U)]
    BY DEF FirstUneven
  <1>. HIDE DEF U
  <1>. DEFINE k == Min(U)
  <1>4. ASSUME U # {}
        PROVE  k \in U /\ \A y \in U : k <= y
    <2>1. U \in SUBSET Nat
      BY <1>2
    <2>. QED
      BY <1>4, <2>1, Least DEF Min
  <1>. HIDE DEF k
  <1>5. CASE U = {}
    BY <1>1, <1>2, <1>3, <1>5 DEF signs
  <1>6. CASE U # {}
    <2>1. FirstUneven(signs) = signs[k] /\ k \in {1, 2, 3, 4}
      BY <1>2, <1>3, <1>4, <1>6 DEF k
    <2>2. a # 0 => k = 1
      BY <1>2, <1>4, <1>6, <2>1
    <2>3. a = 0 /\ b # 0 => k = 2
      BY <1>2, <1>4, <1>6, <2>1
    <2>4. a = 0 /\ b = 0 /\ c # 0 => k = 3
      BY <1>2, <1>4, <1>6, <2>1
    <2>5. a = 0 /\ b = 0 /\ c = 0 => k = 4
      BY <1>2, <1>4, <1>6, <2>1
    <2>. QED
      BY <1>1, <2>1, <2>2, <2>3, <2>4, <2>5 DEF signs
  <1>. QED
    BY <1>5, <1>6

-----------------------------------------------------------------------------
Shorts == 0 .. Base * Base - 1
Longs  == 0 .. Base * Base * Base * Base - 1

AllAddresses == [if : Interfaces, port : Shorts, flow : Longs, scope : Longs]

(* An address of version 4 has nothing in the fields that it has not.       *)
Fits(a) == a \in AllAddresses /\ (version = 4 => a.flow = 0 /\ a.scope = 0)

AddrInv == version \in {4, 6} /\ Fits(lhs) /\ Fits(rhs)

(* The numbers in an address, and the flow label in its 20 bits.            *)
LEMMA Numbers ==
  /\ Shorts \subseteq Nat /\ Longs \subseteq Nat
  /\ 0 \in Shorts /\ 0 \in Longs
  /\ Ports \subseteq Shorts /\ Flows \subseteq Longs /\ Scopes \subseteq Longs
  /\ \A f \in Longs : /\ Masked(f) \in Longs /\ Masked(f) <= f
                      /\ Masked(Masked(f)) = Masked(f)
  /\ Masked(0) = 0
  <1>1. Base * Base \in Nat \ {0} /\ Base * Base * Base * Base \in Nat \ {0}
    <2>1. Base * Base \in Nat /\ Base * Base >= Base
      BY AddrAssumption, SMTT(30)
    <2>2. Base * Base * Base \in Nat /\ Base * Base * Base >= Base
      <3>1. Base * (Base * Base) \in Nat /\ Base * (Base * Base) >= Base
        BY <2>1, AddrAssumption, SMTT(30)
      <3>. QED
        BY <3>1, <2>1, AddrAssumption, SMTT(30)
    <2>3. Base * Base * Base * Base \in Nat /\ Base * Base * Base * Base >= Base
      BY <2>2, AddrAssumption, SMTT(30)
    <2>. QED
      BY <2>1, <2>3, AddrAssumption
  <1>2. \A f \in Nat : /\ Masked(f) \in Nat /\ Masked(f) <= f
                       /\ Masked(Masked(f)) = Masked(f)
    BY AddrAssumption, SMTT(30) DEF Masked
  <1>3. Masked(0) = 0
    BY <1>2
  <1>. QED
    BY <1>1, <1>2, <1>3, AddrAssumption DEF Shorts, Longs

(* The interfaces that a program does not name.                             *)
LEMMA SpecialInterfaces == Loopback \in Interfaces /\ ZeroIf \in Interfaces
  <1>1. {Base \div 2 - 1, 0, 1} \subseteq 0 .. Base - 1
    BY AddrAssumption
  <1>. QED
    BY <1>1 DEF Loopback, ZeroIf, Interfaces

(* Converted and converted back.                                            *)
LEMMA ThereAndBack ==
  /\ \A v \in Shorts : NetConv16(NetConv16(v)) = v
  /\ \A v \in Longs : NetConv32(NetConv32(v)) = v
  <1>1. ASSUME NEW a \in Byte, NEW b \in Byte
        PROVE  NetConv16(Pair(a, b)) = Pair(b, a)
    BY <1>1, PairSwapped
  <1>2. ASSUME NEW v \in Shorts  PROVE NetConv16(NetConv16(v)) = v
    BY <1>1, Conv16 DEF Shorts
  <1>. QED
    BY <1>2, Conv32 DEF Longs

(* What net_encode() writes of a port, and net_decode() makes of it.         *)
LEMMA Encoded ==
  ASSUME NEW v \in Shorts
  PROVE  /\ NetEncode(v) = <<v \div Base, v % Base>>
         /\ NetConv16(NetDecode(NetEncode(v))) = v
  <1>1. PICK a \in Byte, b \in Byte :
          /\ v = Pair(a, b) /\ a = v % Base /\ b = v \div Base
          /\ NetConv16(v) = Pair(b, a)
    BY Conv16 DEF Shorts
  <1>2. NetEncode(v) = <<b, a>>
    BY <1>1, PairBytes DEF NetEncode
  <1>3. NetConv16(NetDecode(<<b, a>>)) = v
    BY <1>1, PairBytes, PairSwapped DEF NetDecode
  <1>. QED
    BY <1>1, <1>2, <1>3

(* What comes out of a structure of the socket interface.                   *)
LEMMA Back ==
  ASSUME version \in {4, 6}, NEW a, Fits(a)
  PROVE  LET b == FromSockaddr(Sockaddr(a)) IN
         /\ b = [a EXCEPT !.flow = Masked(@)]
         /\ Fits(b)
  <1>. USE DEF Fits, AllAddresses
  <1>1. CASE version = 4
    <2>1. Masked(0) = 0
      BY Numbers
    <2>2. FromSockaddr(Sockaddr(a)) = Address(a.if, a.port, 0, 0)
      BY <1>1, ThereAndBack
         DEF FromSockaddr, Sockaddr, Sockaddr4, FromSockaddr4, Address
    <2>3. a = Address(a.if, a.port, 0, 0)
      BY <1>1 DEF Address
    <2>. QED
      BY <1>1, <2>1, <2>2, <2>3 DEF Address
  <1>2. CASE version = 6
    <2>1. Masked(a.flow) \in Longs
      BY Numbers
    <2>2. FromSockaddr(Sockaddr(a)) =
            Address(a.if, a.port, Masked(a.flow), a.scope)
      BY <1>2, <2>1, ThereAndBack
         DEF FromSockaddr, Sockaddr, Sockaddr6, FromSockaddr6, Address
    <2>. QED
      BY <1>2, <2>1, <2>2 DEF Address
  <1>. QED
    BY <1>1, <1>2

(* The addresses that have not been given a value ...                       *)
LEMMA AddrInitInv == AddrInit => AddrInv
  BY Numbers, SpecialInterfaces
     DEF AddrInit, AddrInv, Fits, AllAddresses, NoAddress4, NoAddress6, Address

(* ... and those made, changed, copied and received afterwards are in range.*)
LEMMA AddrNextInv == AddrInv /\ [AddrNext]_addrVars => AddrInv'
  <1>. SUFFICES ASSUME AddrInv, [AddrNext]_addrVars  PROVE AddrInv'
    OBVIOUS
  <1>. USE DEF AddrInv, Fits, AllAddresses
  <1>1. Ifs \subseteq Interfaces
    BY AddrAssumption DEF Interfaces
  <1>2. CASE Construct
    BY <1>1, <1>2, Numbers, SpecialInterfaces
       DEF Construct, Addresses, Addresses4, Addresses6, Address
  <1>3. CASE SetIf
    BY <1>1, <1>3 DEF SetIf
  <1>4. CASE SetPort
    BY <1>4, Numbers DEF SetPort
  <1>5. CASE TouchFlow
    BY <1>5, Numbers DEF TouchFlow
  <1>6. CASE SetScope
    BY <1>6, Numbers DEF SetScope
  <1>7. CASE Exchange
    BY <1>7 DEF Exchange
  <1>8. CASE Transfer
    <2>. HIDE DEF Fits
    <2>1. Fits(FromSockaddr(Sockaddr(lhs)))
      BY Back
    <2>2. UNCHANGED <<version, lhs>> /\ rhs' = FromSockaddr(Sockaddr(lhs))
      BY <1>8 DEF Transfer
    <2>. QED
      BY <2>1, <2>2 DEF Fits
  <1>9. CASE UNCHANGED addrVars
    BY <1>9 DEF addrVars
  <1>. QED
    BY <1>2, <1>3, <1>4, <1>5, <1>6, <1>7, <1>8, <1>9 DEF AddrNext

(* So they always are.                                                      *)
LEMMA AddrInvariance == AddrSpec => []AddrInv
  BY AddrInitInv, AddrNextInv, PTL DEF AddrSpec

-----------------------------------------------------------------------------
(* What compare() comes to.  Of the interfaces it only tells whether the    *)
(* first precedes; the flow labels come out even when the second, masked,   *)
(* lies between the first with and without the mask.                        *)
EvenFlow(a, b) ==
  Masked(a.flow) <= Masked(b.flow) /\ Masked(b.flow) <= a.flow

Lower(a, b) ==
  /\ ~Precedes(a.if, b.if)
  /\ \/ a.port < b.port
     \/ /\ a.port = b.port
        /\ \/ a.flow < Masked(b.flow)
           \/ EvenFlow(a, b) /\ a.scope < b.scope

Even(a, b) ==
  /\ ~Precedes(a.if, b.if)
  /\ a.port = b.port /\ EvenFlow(a, b) /\ a.scope = b.scope

(* compare() is these: < 0 is Lower, and 0 is Even.                         *)
LEMMA Compared ==
  ASSUME version \in {4, 6}, NEW a, NEW b, Fits(a), Fits(b)
  PROVE  (Less(a, b) <=> Lower(a, b)) /\ (Equal(a, b) <=> Even(a, b))
  <1>1. /\ a.port \in Nat /\ b.port \in Nat /\ a.scope \in Nat /\ b.scope \in Nat
        /\ a.flow \in Nat /\ b.flow \in Nat
        /\ Masked(a.flow) \in Nat /\ Masked(b.flow) \in Nat
        /\ Masked(a.flow) <= a.flow
    BY Numbers DEF Fits, AllAddresses
  <1>2. /\ Sign(a.port, b.port) < 0 <=> a.port < b.port
        /\ Sign(a.port, b.port) = 0 <=> a.port = b.port
        /\ Sign(a.scope, b.scope) < 0 <=> a.scope < b.scope
        /\ Sign(a.scope, b.scope) = 0 <=> a.scope = b.scope
    BY <1>1 DEF Sign
  <1>3. Sign(a.port, b.port) \in Int /\ Sign(a.scope, b.scope) \in Int
    BY DEF Sign
  <1>4. CASE version = 4
    <2>1. /\ a.flow = 0 /\ b.flow = 0 /\ a.scope = 0 /\ b.scope = 0
      BY <1>4 DEF Fits
    <2>2. Masked(0) = 0
      BY <1>1, <2>1
    <2>3. EvenFlow(a, b) /\ ~(a.flow < Masked(b.flow)) /\ ~(a.scope < b.scope)
      BY <2>1, <2>2 DEF EvenFlow
    <2>4. Less(a, b) <=> ~Precedes(a.if, b.if) /\ a.port < b.port
      BY <1>2, <1>3, <1>4, FirstOfTwo DEF Less, Less4, Compare4, IfCompare4
    <2>5. Equal(a, b) <=> ~Precedes(a.if, b.if) /\ a.port = b.port
      BY <1>4 DEF Equal, Equal4, IfEqual4, IfCompare4
    <2>. QED
      BY <2>1, <2>3, <2>4, <2>5 DEF Lower, Even
  <1>5. CASE version = 6
    <2>. DEFINE i == IfCompare6(a.if, b.if)
                p == Sign(a.port, b.port)
                f == FlowCompare(a.flow, b.flow)
                s == Sign(a.scope, b.scope)
    <2>1. (i = 0 \/ i = 1) /\ (i = 0 <=> ~Precedes(a.if, b.if))
      BY DEF IfCompare6
    <2>2. /\ f \in Int
          /\ f = 0 <=> EvenFlow(a, b)
          /\ f < 0 <=> a.flow < Masked(b.flow)
      BY <1>1 DEF FlowCompare, EvenFlow
    <2>3. Compare6(a, b) =
            IF i # 0 THEN i ELSE IF p # 0 THEN p ELSE IF f # 0 THEN f ELSE s
      BY FirstOfFour DEF Compare6
    <2>4. /\ p \in Int /\ s \in Int
          /\ p < 0 <=> a.port < b.port
          /\ p = 0 <=> a.port = b.port
          /\ s < 0 <=> a.scope < b.scope
          /\ s = 0 <=> a.scope = b.scope
      BY <1>2, <1>3
    <2>5. /\ Less(a, b) <=> Compare6(a, b) < 0
          /\ Equal(a, b) <=> Compare6(a, b) = 0
      BY <1>5 DEF Less, Equal, Less6, Equal6
    <2>. HIDE DEF i, p, f, s
    <2>6. Compare6(a, b) = 0 <=> i = 0 /\ p = 0 /\ f = 0 /\ s = 0
      BY <2>1, <2>2, <2>3, <2>4
    <2>7. Compare6(a, b) < 0 <=>
            i = 0 /\ (p < 0 \/ (p = 0 /\ (f < 0 \/ (f = 0 /\ s < 0))))
      BY <2>1, <2>2, <2>3, <2>4
    <2>. QED
      BY <2>1, <2>2, <2>4, <2>5, <2>6, <2>7 DEF Lower, Even
  <1>. QED
    BY <1>4, <1>5

(* The same address is equal to itself, whatever is above the 20 bits of    *)
(* its flow label, and hashed alike, whatever function BitXor is; and two   *)
(* that are equal both ways round are the same (addr.cpp:110).              *)
THEOREM EqualAddressesAreTheSame == AddrSpec => []EqualBothWays
  <1>1. AddrInv => EqualBothWays
    <2>. SUFFICES ASSUME AddrInv PROVE EqualBothWays
      OBVIOUS
    <2>1. /\ version \in {4, 6} /\ Fits(lhs) /\ Fits(rhs)
          /\ lhs \in AllAddresses /\ rhs \in AllAddresses
          /\ lhs.if \in Interfaces /\ rhs.if \in Interfaces
      BY DEF AddrInv, Fits, AllAddresses
    <2>2. Same(lhs, rhs) <=>
            /\ lhs.if = rhs.if /\ lhs.port = rhs.port /\ lhs.scope = rhs.scope
            /\ Masked(lhs.flow) = Masked(rhs.flow)
      <3>1. ASSUME NEW a \in AllAddresses
            PROVE  Canonical(a) =
                     Address(a.if, a.port, Masked(a.flow), a.scope)
        BY DEF AllAddresses, Canonical, Address
      <3>. QED
        BY <2>1, <3>1 DEF Same, Address
    <2>3. /\ Masked(lhs.flow) \in Nat /\ lhs.flow \in Nat
          /\ Masked(rhs.flow) \in Nat /\ rhs.flow \in Nat
          /\ Masked(lhs.flow) <= lhs.flow /\ Masked(rhs.flow) <= rhs.flow
      BY <2>1, Numbers DEF AllAddresses
    <2>4. ASSUME Same(lhs, rhs)
          PROVE  Equal(lhs, rhs) /\ Equal(rhs, lhs) /\ Hash(lhs) = Hash(rhs)
      <3>1. Even(lhs, rhs) /\ Even(rhs, lhs)
        BY <2>1, <2>2, <2>3, <2>4, NotItself DEF Even, EvenFlow
      <3>2. Hash(lhs) = Hash(rhs)
        <4>1. Hash4(lhs) = Hash4(rhs)
          <5>. DEFINE Parts(if, port) ==
                 [i \in 1 .. IfSize |->
                    CASE i = 1 -> BitXor(if[i], port \div Base)
                      [] i = IfSize -> BitXor(if[i], port % Base)
                      [] OTHER -> if[i]]
          <5>1. /\ Hash4(lhs) = Value(Parts(lhs.if, lhs.port))
                /\ Hash4(rhs) = Value(Parts(rhs.if, rhs.port))
            BY DEF Hash4
          <5>. HIDE DEF Parts
          <5>. QED
            BY <2>2, <2>4, <5>1
        <4>2. Hash6(lhs) = Hash6(rhs)
          BY <2>2, <2>4 DEF Hash6
        <4>. QED
          BY <4>1, <4>2 DEF Hash
      <3>. QED
        BY <2>1, <3>1, <3>2, Compared
    <2>5. ASSUME Equal(lhs, rhs), Equal(rhs, lhs)
          PROVE  Same(lhs, rhs)
      <3>1. Even(lhs, rhs) /\ Even(rhs, lhs)
        BY <2>1, <2>5, Compared
      <3>2. lhs.if = rhs.if
        BY <2>1, <3>1, OneWay DEF Even
      <3>. QED
        BY <2>2, <2>3, <3>1, <3>2 DEF Even, EvenFlow
    <2>. QED
      BY <2>4, <2>5 DEF EqualBothWays
  <1>. QED
    BY <1>1, AddrInvariance, PTL

(* < of transport addresses is never true both ways, and transitive with    *)
(* the flow labels in 20 bits, for addresses of any size.                   *)
THEOREM AddressesAreOrdered == AddrSpec => []LessIsPartialOrder
  <1>1. AddrInv => LessIsPartialOrder
    <2>. SUFFICES ASSUME AddrInv PROVE LessIsPartialOrder
      OBVIOUS
    <2>1. version \in {4, 6} /\ Fits(lhs) /\ Fits(rhs)
      BY DEF AddrInv
    <2>2. ASSUME NEW a, Fits(a)
          PROVE  /\ a.if \in Interfaces /\ a.port \in Nat /\ a.scope \in Nat
                 /\ a.flow \in Nat /\ Masked(a.flow) \in Nat
                 /\ Masked(a.flow) <= a.flow
      BY <2>2, Numbers DEF Fits, AllAddresses
    <2>3. ASSUME Less(lhs, rhs), Less(rhs, lhs)
          PROVE  FALSE
      <3>1. Lower(lhs, rhs) /\ Lower(rhs, lhs)
        BY <2>1, <2>3, Compared
      <3>. QED
        BY <2>1, <2>2, <3>1 DEF Lower, EvenFlow
    <2>4. ASSUME NEW third \in Addresses(version),
                 Less(lhs, rhs), Less(rhs, third),
                 \A x \in {lhs, rhs, third} : x.flow = Masked(x.flow)
          PROVE  Less(lhs, third)
      <3>1. Fits(third)
        <4>1. Ifs \subseteq Interfaces
          BY AddrAssumption DEF Interfaces
        <4>. QED
          BY <2>1, <2>4, <4>1, Numbers
             DEF Fits, AllAddresses, Addresses, Addresses4, Addresses6, Address
      <3>2. Lower(lhs, rhs) /\ Lower(rhs, third)
        BY <2>1, <2>4, <3>1, Compared
      <3>3. ~Precedes(lhs.if, third.if)
        BY <2>1, <2>2, <3>1, <3>2, NotBefore DEF Lower
      <3>4. Lower(lhs, third)
        BY <2>1, <2>2, <2>4, <3>1, <3>2, <3>3 DEF Lower, EvenFlow
      <3>. QED
        BY <2>1, <3>1, <3>4, Compared
    <2>. QED
      BY <2>3, <2>4 DEF LessIsPartialOrder
  <1>. QED
    BY <1>1, AddrInvariance, PTL

(* An address that goes through a sockaddr is the same and equal either way *)
(* round, and a port goes through net_encode() with its most significant    *)
(* byte first and comes back, whatever a byte is.                           *)
THEOREM AddressesSurviveTheWire == AddrSpec => []SurvivesTheWire
  <1>1. AddrInv => SurvivesTheWire
    <2>. SUFFICES ASSUME AddrInv PROVE SurvivesTheWire
      OBVIOUS
    <2>. DEFINE back == FromSockaddr(Sockaddr(lhs))
    <2>1. version \in {4, 6} /\ Fits(lhs) /\ lhs \in AllAddresses
      BY DEF AddrInv, Fits
    <2>2. back = [lhs EXCEPT !.flow = Masked(@)] /\ Fits(back)
      BY <2>1, Back
    <2>. HIDE DEF back
    <2>3. /\ lhs.if \in Interfaces /\ lhs.port \in Shorts /\ lhs.port \in Nat
          /\ lhs.flow \in Nat /\ Masked(lhs.flow) \in Nat
          /\ Masked(lhs.flow) <= lhs.flow
          /\ Masked(Masked(lhs.flow)) = Masked(lhs.flow)
      BY <2>1, Numbers DEF AllAddresses
    <2>4. /\ back.if = lhs.if /\ back.port = lhs.port /\ back.scope = lhs.scope
          /\ back.flow = Masked(lhs.flow)
      BY <2>1, <2>2 DEF AllAddresses
    <2>5. Same(back, lhs)
      <3>1. Canonical(back) = [lhs EXCEPT !.flow = Masked(Masked(@))]
        BY <2>1, <2>2 DEF AllAddresses, Canonical
      <3>. QED
        BY <2>1, <2>3, <3>1 DEF AllAddresses, Same, Canonical
    <2>6. Equal(back, lhs) /\ Equal(lhs, back)
      <3>1. Even(back, lhs) /\ Even(lhs, back)
        BY <2>3, <2>4, NotItself DEF Even, EvenFlow
      <3>. QED
        BY <2>1, <2>2, <3>1, Compared
    <2>7. /\ NetEncode(lhs.port) = <<lhs.port \div Base, lhs.port % Base>>
          /\ NetConv16(NetDecode(NetEncode(lhs.port))) = lhs.port
      BY <2>3, Encoded
    <2>8. Sockaddr(lhs).port = NetConv16(lhs.port)
      BY <2>1 DEF Sockaddr, Sockaddr4, Sockaddr6, Address
    <2>. QED
      BY <2>5, <2>6, <2>7, <2>8 DEF SurvivesTheWire, NetEncode, back
  <1>. QED
    BY <1>1, AddrInvariance, PTL
=============================================================================
