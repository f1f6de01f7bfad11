------------------------------ MODULE Sockets -------------------------------
(***************************************************************************)
(* The sockets of libk2 (source/socket.cpp, source/transport.cpp,          *)
(* k2/ipv4_tcp.h, k2/ipv4_udp.h): who owns a descriptor, how a listener    *)
(* accepts, how a transport connects.                                      *)
(*                                                                         *)
(* Threads construct and destroy the objects of the library over one table *)
(* of file descriptors, whose numbers the system uses again as soon as     *)
(* they are closed.  An object whose descriptor was closed by another one  *)
(* is stale: the number may mean another socket by now.  The peers, the    *)
(* backlog of the listener and the time are the environment.               *)
(***************************************************************************)
EXTENDS Naturals, Sequences, FiniteSets, FiniteSetsExt, SequencesExt

CONSTANTS Threads,      \* threads of the process
          Clients,      \* remote peers that connect to the listener
          NDescs,       \* size of the descriptor table
          Backlog       \* the second argument of listen()

ASSUME SocketsAssumption == NDescs \in Nat \ {0} /\ Backlog \in Nat \ {0}

VARIABLES
  conn,      \* descriptor -> the state of the socket it refers to
  nonblock,  \* the descriptors with O_NONBLOCK
  backlog,   \* clients that are connected and wait to be accepted
  client,    \* state of each client
  pc,        \* where each thread is
  call,      \* the constructor or the function it is in
  fresh,     \* m_desc of the object under construction
  obj,       \* the object it holds
  wrap,      \* an object it made from the descriptor of that one
  lis,       \* the tcp_listener
  inbox,     \* whether a datagram waits for the udp_transport of a thread
  robbed,    \* what select() promised was taken by others or dropped
  lost,      \* descriptors left without an owner in the two known ways
  strayed    \* a tcp_listener has closed a descriptor that it was lent

vars == <<conn, nonblock, backlog, client, pc, call, fresh, obj, wrap, lis,
          inbox, robbed, lost, strayed>>

Descs == 0 .. NDescs - 1

\* An object of the library: its class and its socket_desc.
Object(class, d, own) ==
  [class |-> class, desc |-> d, own |-> own, stale |-> FALSE]
None == Object("none", 0, FALSE)
Stale(o) == [o EXCEPT !.stale = TRUE]

\* The calls a thread may be in: constructors of the three classes, with or
\* without a local address and a timeout, and what waits for a peer.
NoCall == [kind |-> "none", timed |-> FALSE, local |-> FALSE]
TcpCalls == [kind : {"tcp"}, timed : BOOLEAN, local : BOOLEAN]
UdpCalls ==
  [kind : {"udp"}, timed : {FALSE}, local : BOOLEAN]
    \cup [kind : {"read"}, timed : BOOLEAN, local : {FALSE}]
Accepts == {"accept", "accept_desc"}
ListenerCalls ==
  [kind : {"listener"}, timed : {FALSE}, local : {TRUE}]
    \cup [kind : Accepts, timed : BOOLEAN, local : {FALSE}]
Calls == TcpCalls \cup UdpCalls \cup ListenerCalls

Init ==
  /\ conn = [d \in Descs |-> "closed"]
  /\ nonblock = {}
  /\ backlog = <<>>
  /\ client = [c \in Clients |-> "away"]
  /\ pc = [t \in Threads |-> "idle"]
  /\ call = [t \in Threads |-> NoCall]
  /\ fresh = [t \in Threads |-> None]
  /\ obj = [t \in Threads |-> None]
  /\ wrap = [t \in Threads |-> None]
  /\ lis = None
  /\ inbox = [t \in Threads |-> FALSE]
  /\ robbed = [t \in Threads |-> FALSE]
  /\ lost = {}
  /\ strayed = FALSE

network == <<backlog, client, inbox>>
objects == <<fresh, obj, wrap, lis>>

\* The thread goes on at a label, or its call ends.
Goto(t, label) ==
  /\ pc' = [pc EXCEPT ![t] = label]
  /\ UNCHANGED call
Leave(t) ==
  /\ pc' = [pc EXCEPT ![t] = "idle"]
  /\ call' = [call EXCEPT ![t] = NoCall]

-----------------------------------------------------------------------------
(* Descriptors. *)

Free == {d \in Descs : conn[d] = "closed"}
LowestFree == Min(Free)

\* socket() or accept(): the lowest descriptor that is free.
Opened(state) == conn' = [conn EXCEPT ![LowestFree] = state]

\* ~socket_desc(): close() of whatever the descriptor refers to by now.  What
\* other objects have the descriptor are stale from then on.
Close(o) ==
  IF o.own
  THEN /\ conn' = [conn EXCEPT ![o.desc] = "closed"]
       /\ nonblock' = nonblock \ {o.desc}
  ELSE UNCHANGED <<conn, nonblock>>

\* What the object x has become after o is destroyed.
AfterClose(o, x) ==
  IF o.own /\ x # None /\ x.desc = o.desc THEN Stale(x) ELSE x

\* Mutant: a descriptor that was lent is closed like one's own.
AdoptedAlways(class, d, own) == Object(class, d, TRUE)

\* socket_desc(get, own).
Adopted(class, d, own) == Object(class, d, own)

-----------------------------------------------------------------------------
(* Constructors. *)

Call(t, c) ==
  /\ pc[t] = "idle"
  /\ wrap[t] = None
  /\ CASE c.kind = "listener" ->
            lis = None /\ \A u \in Threads : call[u].kind # "listener"
       [] c.kind \in Accepts -> lis # None /\ obj[t] = None
       [] c.kind = "read" -> obj[t].class = "udp"
       [] OTHER -> obj[t] = None
  /\ call' = [call EXCEPT ![t] = c]
  /\ pc' = [pc EXCEPT ![t] =
              IF c.kind \in {"listener", "tcp", "udp"} THEN "open"
              ELSE IF c.timed THEN "select" ELSE "take"]
  /\ UNCHANGED <<conn, nonblock, network, objects, robbed, lost, strayed>>

\* Where a constructor goes on with its open socket.
AfterOpen(c) ==
  IF c.local THEN "bind" ELSE IF c.kind = "udp" THEN "built" ELSE "connect"

\* socket_desc(family, type): socket(), which throws when the table is full.
Open(t) ==
  /\ pc[t] = "open"
  /\ IF Free = {}
     THEN Leave(t) /\ UNCHANGED <<conn, fresh>>
     ELSE /\ Opened(IF call[t].kind = "udp" THEN "dgram" ELSE "new")
          /\ fresh' = [fresh EXCEPT ![t] =
                         Object(call[t].kind, LowestFree, TRUE)]
          /\ Goto(t, AfterOpen(call[t]))
  /\ UNCHANGED <<nonblock, network, obj, wrap, lis, robbed, lost, strayed>>

\* Mutant: a constructor that throws leaves the descriptor open.
UnwindOpen(t) ==
  /\ UNCHANGED <<conn, nonblock>>
  /\ fresh' = [fresh EXCEPT ![t] = None]
  /\ Leave(t)

\* The constructor throws: m_desc, which is whole, is destroyed.
Unwind(t) ==
  /\ Close(fresh[t])
  /\ fresh' = [fresh EXCEPT ![t] = None]
  /\ Leave(t)

\* bind() may fail.
Bind(t) ==
  /\ pc[t] = "bind"
  /\ \/ /\ Goto(t, CASE call[t].kind = "tcp" -> "connect"
                    [] call[t].kind = "udp" -> "built"
                    [] OTHER -> "listen")
        /\ UNCHANGED <<conn, nonblock, fresh>>
     \/ Unwind(t)
  /\ UNCHANGED <<network, obj, wrap, lis, robbed, lost, strayed>>

\* So may listen().
Listen(t) ==
  /\ pc[t] = "listen"
  /\ \/ Goto(t, "built") /\ UNCHANGED <<conn, nonblock, fresh>>
     \/ Unwind(t)
  /\ UNCHANGED <<network, obj, wrap, lis, robbed, lost, strayed>>

\* Mutant: no socket_nb before the connect().
ConnectBlocking(t) ==
  /\ pc[t] = "connect"
  /\ conn' = [conn EXCEPT ![fresh[t].desc] = "connecting"]
  /\ Goto(t, "connecting")
  /\ UNCHANGED <<nonblock, network, objects, robbed, lost, strayed>>

\* socket_nb: O_NONBLOCK while the object lives.
NonBlocking(d) == nonblock \cup {d}
BackToBlocking(d) == nonblock \ {d}

\* connect(), blocking or inside a socket_nb.  A timed connect() does not wait.
Connect(t) ==
  /\ pc[t] = "connect"
  /\ nonblock' = IF call[t].timed THEN NonBlocking(fresh[t].desc)
                                  ELSE nonblock
  /\ conn' = [conn EXCEPT ![fresh[t].desc] = "connecting"]
  /\ Goto(t, IF call[t].timed THEN "await" ELSE "connecting")
  /\ UNCHANGED <<network, objects, robbed, lost, strayed>>

\* The peer answers, or the system learns that it will not.
Resolve(d) ==
  /\ conn[d] = "connecting"
  /\ \E r \in {"connected", "failed"} : conn' = [conn EXCEPT ![d] = r]
  /\ UNCHANGED <<nonblock, network, pc, call, objects, robbed, lost, strayed>>

\* Mutant: SO_ERROR is not looked at.
IsWritable(d) == conn[d] # "connecting"

\* SO_ERROR after select() has said that the socket is writable, which it is
\* when connect() has failed, too.
IsConnected(d) == conn[d] = "connected"

\* connect() returns, or select() returns and SO_ERROR is read.
Connected(t) ==
  /\ pc[t] \in {"connecting", "await"}
  /\ conn[fresh[t].desc] # "connecting"
  /\ IF IsConnected(fresh[t].desc)
     THEN /\ Goto(t, "built")
          /\ nonblock' = BackToBlocking(fresh[t].desc)
          /\ UNCHANGED <<conn, fresh>>
     ELSE Unwind(t)
  /\ UNCHANGED <<network, obj, wrap, lis, robbed, lost, strayed>>

\* select() returns nothing: socket_connect_error.
ConnectTimesOut(t) ==
  /\ pc[t] = "await"
  /\ Unwind(t)
  /\ UNCHANGED <<network, obj, wrap, lis, robbed, lost, strayed>>

\* The constructor returns.
Build(t) ==
  /\ pc[t] = "built"
  /\ IF call[t].kind = "listener"
     THEN lis' = fresh[t] /\ UNCHANGED obj
     ELSE obj' = [obj EXCEPT ![t] = fresh[t]] /\ UNCHANGED lis
  /\ fresh' = [fresh EXCEPT ![t] = None]
  /\ Leave(t)
  /\ UNCHANGED <<conn, nonblock, network, wrap, robbed, lost, strayed>>

-----------------------------------------------------------------------------
(* accept(), and the read() of a udp_transport: select(), then a call that *)
(* blocks when what select() saw is gone.                                  *)

Ready(t) == IF call[t].kind = "read" THEN inbox[t] ELSE backlog # <<>>

Select(t) ==
  /\ pc[t] = "select"
  /\ Ready(t)
  /\ Goto(t, "take")
  /\ UNCHANGED <<conn, nonblock, network, objects, robbed, lost, strayed>>

\* Nothing came: a null auto_ptr, or socket_timedout_error.
TimeOut(t) ==
  /\ pc[t] = "select"
  /\ Leave(t)
  /\ UNCHANGED <<conn, nonblock, network, objects, robbed, lost, strayed>>

\* The threads whose select() was answered by a connection that goes now.
\* One that is through with its call is not among the others.
Rob(others) ==
  robbed' = [u \in Threads |->
               /\ u \in others
               /\ \/ robbed[u]
                  \/ /\ pc[u] = "take"
                     /\ call[u].timed /\ call[u].kind \in Accepts]

\* accept() of the oldest connection.  It fails when the table is full, or
\* when the client has reset the connection in the meantime.
Accept(t) ==
  /\ pc[t] = "take" /\ call[t].kind \in Accepts
  /\ backlog # <<>>
  /\ \/ /\ Free = {}
        /\ Leave(t)
        /\ robbed' = [robbed EXCEPT ![t] = FALSE]
        /\ UNCHANGED <<conn, fresh, backlog, client>>
     \/ /\ client[Head(backlog)] = "gone"
        /\ backlog' = Tail(backlog)
        /\ client' = [client EXCEPT ![Head(backlog)] = "away"]
        /\ Rob(Threads \ {t})
        /\ Leave(t)
        /\ UNCHANGED <<conn, fresh>>
     \/ /\ Free # {}
        /\ Opened("connected")
        /\ fresh' = [fresh EXCEPT ![t] = Object("tcp", LowestFree, TRUE)]
        /\ backlog' = Tail(backlog)
        /\ client' = [client EXCEPT ![Head(backlog)] = "away"]
        /\ Rob(Threads \ {t})
        /\ Goto(t, IF call[t].kind = "accept" THEN "allocate" ELSE "built")
  /\ UNCHANGED <<nonblock, obj, wrap, lis, inbox, lost, strayed>>

\* new tcp_transport(tcp, true): when there is no memory nothing owns tcp.
Allocate(t) ==
  /\ pc[t] = "allocate"
  /\ \/ Goto(t, "built") /\ UNCHANGED <<fresh, lost>>
     \/ /\ lost' = lost \cup {fresh[t].desc}
        /\ fresh' = [fresh EXCEPT ![t] = None]
        /\ Leave(t)
  /\ UNCHANGED <<conn, nonblock, network, obj, wrap, lis, robbed, strayed>>

\* recvfrom().
Receive(t) ==
  /\ pc[t] = "take" /\ call[t].kind = "read"
  /\ inbox[t]
  /\ inbox' = [inbox EXCEPT ![t] = FALSE]
  /\ robbed' = [robbed EXCEPT ![t] = FALSE]
  /\ Leave(t)
  /\ UNCHANGED <<conn, nonblock, backlog, client, objects, lost, strayed>>

-----------------------------------------------------------------------------
(* Destructors, and objects made from a descriptor. *)

\* get_desc() of the object is lent to another one: own = false.  A
\* tcp_transport leaves it open, a tcp_listener takes it for its own, and a
\* udp_transport opens a socket instead.
Lend(t, class) ==
  /\ pc[t] = "idle"
  /\ obj[t] # None /\ wrap[t] = None /\ ~obj[t].stale
  /\ IF class = "udp"
     THEN /\ Free # {}
          /\ wrap' = [wrap EXCEPT ![t] = Object("udp", LowestFree, TRUE)]
          /\ Opened("dgram")
     ELSE /\ wrap' = [wrap EXCEPT ![t] =
                        Adopted(class, obj[t].desc, class = "listener")]
          /\ UNCHANGED conn
  /\ UNCHANGED <<nonblock, network, pc, call, fresh, obj, lis, robbed, lost,
                 strayed>>

\* udp_transport(desc, true): the program gives a socket away that it has
\* opened by itself.  The constructor opens another one all the same, and the
\* first is nobody's.
GiveUdp(t) ==
  /\ pc[t] = "idle"
  /\ obj[t] = None
  /\ Free # {}
  /\ Opened("dgram")
  /\ lost' = lost \cup {LowestFree}
  /\ call' = [call EXCEPT ![t] = [NoCall EXCEPT !.kind = "udp"]]
  /\ pc' = [pc EXCEPT ![t] = "open"]
  /\ UNCHANGED <<nonblock, network, objects, robbed, strayed>>

DestroyWrap(t) ==
  /\ pc[t] = "idle" /\ wrap[t] # None
  /\ Close(wrap[t])
  /\ obj' = [obj EXCEPT ![t] = AfterClose(wrap[t], @)]
  /\ wrap' = [wrap EXCEPT ![t] = None]
  /\ strayed' = (strayed \/ wrap[t].class = "listener")
  /\ UNCHANGED <<network, pc, call, fresh, lis, robbed, lost>>

Destroy(t) ==
  /\ pc[t] = "idle" /\ obj[t] # None /\ wrap[t] = None
  /\ Close(obj[t])
  /\ obj' = [u \in Threads |-> IF u = t THEN None ELSE AfterClose(obj[t], obj[u])]
  /\ wrap' = [u \in Threads |-> AfterClose(obj[t], wrap[u])]
  /\ fresh' = [u \in Threads |-> AfterClose(obj[t], fresh[u])]
  /\ lis' = AfterClose(obj[t], lis)
  /\ inbox' = [inbox EXCEPT ![t] = FALSE]
  /\ UNCHANGED <<backlog, client, pc, call, robbed, lost, strayed>>

\* Nobody destroys a listener under those who accept on it.
DestroyListener ==
  /\ lis # None
  /\ \A u \in Threads : call[u].kind \notin Accepts
  /\ Close(lis)
  /\ lis' = None
  /\ backlog' = <<>>
  /\ client' = [c \in Clients |-> "away"]
  /\ UNCHANGED <<inbox, pc, call, fresh, obj, wrap, robbed, lost, strayed>>

-----------------------------------------------------------------------------
(* The environment. *)

Arrive(c) ==
  /\ lis # None /\ client[c] = "away" /\ Len(backlog) < Backlog
  /\ client' = [client EXCEPT ![c] = "queued"]
  /\ backlog' = Append(backlog, c)
  /\ UNCHANGED <<conn, nonblock, inbox, pc, call, objects, robbed, lost,
                 strayed>>

\* A client gives up: its connection leaves the backlog, or stays there dead.
Reset(c) ==
  /\ client[c] = "queued"
  /\ \/ /\ backlog' = Remove(backlog, c)
        /\ client' = [client EXCEPT ![c] = "away"]
        /\ Rob(Threads)
     \/ /\ client' = [client EXCEPT ![c] = "gone"]
        /\ UNCHANGED <<backlog, robbed>>
  /\ UNCHANGED <<conn, nonblock, inbox, pc, call, objects, lost, strayed>>

\* A datagram comes, or one that select() has seen is dropped.
Datagram(t) ==
  /\ obj[t].class = "udp" /\ call[t].kind = "read"
  /\ inbox' = [inbox EXCEPT ![t] = ~@]
  /\ robbed' = [robbed EXCEPT ![t] =
                  @ \/ (inbox[t] /\ pc[t] = "take" /\ call[t].timed)]
  /\ UNCHANGED <<conn, nonblock, backlog, client, pc, call, objects, lost,
                 strayed>>

Step(t) ==
  \/ Open(t) \/ Bind(t) \/ Listen(t) \/ Connect(t) \/ Connected(t)
  \/ ConnectTimesOut(t) \/ Build(t) \/ Select(t) \/ TimeOut(t)
  \/ Accept(t) \/ Allocate(t) \/ Receive(t)

Program ==
  \/ \E t \in Threads :
       \/ Step(t)
       \/ \E c \in Calls : Call(t, c)
       \/ \E class \in {"tcp", "udp", "listener"} : Lend(t, class)
       \/ GiveUdp(t)
       \/ DestroyWrap(t) \/ Destroy(t)
  \/ DestroyListener

Environment ==
  \/ \E t \in Threads : Datagram(t)
  \/ \E d \in Descs : Resolve(d)
  \/ \E c \in Clients : Arrive(c) \/ Reset(c)

\* Once a listener has closed what was not its own any descriptor may be
\* anything, and the model stops.
Next ==
  \/ ~strayed /\ (Program \/ Environment)
  \/ strayed /\ UNCHANGED vars

\* A thread that can go on does.  Peers owe nothing.
Spec ==
  Init /\ [][Next]_vars /\ \A t \in Threads : WF_vars(~strayed /\ Step(t))

-----------------------------------------------------------------------------
(* Properties. *)

TypeOK ==
  /\ conn \in [Descs -> {"closed", "new", "connecting", "connected", "failed",
                         "dgram"}]
  /\ nonblock \subseteq Descs
  /\ backlog \in SeqOf(Clients, Backlog)
  /\ client \in [Clients -> {"away", "queued", "gone"}]
  /\ pc \in [Threads -> {"idle", "open", "bind", "listen", "connect",
                         "connecting", "await", "built", "select", "take",
                         "allocate"}]
  /\ call \in [Threads -> Calls \cup {NoCall}]
  /\ \A t \in Threads : pc[t] = "idle" => fresh[t] = None
  /\ inbox \in [Threads -> BOOLEAN]
  /\ robbed \in [Threads -> BOOLEAN]
  /\ lost \subseteq Descs
  /\ strayed \in BOOLEAN

\* The objects that will close their descriptor when they are destroyed.
Owners ==
  {o \in {lis} \cup {x[t] : x \in {fresh, obj, wrap}, t \in Threads} : o.own}

\* As long as an object is there, the descriptor it owns is the socket it was
\* made with: no other object has closed it, or closed it and let another
\* thread open the number anew.  The one exception is a tcp_listener that was
\* made for a descriptor with own = false and takes it for its own
\* (transport.cpp:537-538).
OwnersKeepTheirs ==
  strayed \/ \A o \in Owners : ~o.stale /\ conn[o.desc] # "closed"

\* Every open descriptor has one owner, who will close it, whatever failed on
\* the way: a full table, bind(), listen(), connect(), a timeout.  The two
\* exceptions: accept() without memory for the transport (transport.cpp:561),
\* and the descriptor given to a udp_transport (692-695).
NothingLeaks ==
  strayed \/ \A d \in Descs :
    conn[d] # "closed" => d \in lost \cup {o.desc : o \in Owners}

\* A tcp_transport that a constructor has returned is connected, and calls on
\* it block as the rest of the library expects, although the timed
\* constructor has connected it without blocking.
ConstructedConnected ==
  strayed \/ \A t \in Threads :
    obj[t].class = "tcp" =>
      conn[obj[t].desc] = "connected" /\ obj[t].desc \notin nonblock

\* A timed call comes back.  A constructor does although the peer never
\* answers; an accept() or a read() unless another thread took the connection,
\* or the peer withdrew it, between its select() and its accept()
\* (transport.cpp:263-266, 280-283, 501-504).
TimedCallReturns ==
  \A t \in Threads :
    (call[t].timed /\ pc[t] \in {"select", "connect"})
      ~> (pc[t] = "idle" \/ robbed[t] \/ strayed)

=============================================================================
