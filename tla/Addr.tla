-------------------------------- MODULE Addr --------------------------------
(***************************************************************************)
(* Addresses of libk2 (k2/net.h, k2/ipv4_addr.h, k2/ipv6_addr.h,           *)
(* source/addr.cpp): interface addresses, which are bytes, and transport   *)
(* addresses, which add a port and, in version 6, a flow label and a       *)
(* scope; how they are compared, hashed and turned into the structures of  *)
(* the socket interface.                                                   *)
(*                                                                         *)
(* A program keeps two transport addresses of one version, makes them from *)
(* their parts, changes the parts through the references that the class    *)
(* gives out, and gets one back from a sockaddr, as udp_transport::read()  *)
(* does for the sender of a datagram.                                      *)
(***************************************************************************)
EXTENDS Integers, Sequences, FiniteSetsExt

CONSTANTS Base,         \* values of a byte: 256
          IfSize,       \* bytes of an interface address: 4 or 16
          Ifs,          \* the interface addresses a program uses,
          FlowMod,      \* the flow label is kept modulo 2^20
          Ports, Flows, Scopes,  \* and the other parts
          BitXor(_, _)  \* exclusive or, which the hashes are made with

ASSUME AddrAssumption ==
  /\ Base \in Nat \ {0, 1} /\ FlowMod \in Nat \ {0}
  /\ IfSize \in Nat /\ IfSize % 4 = 0
  /\ Ifs \subseteq [1 .. IfSize -> 0 .. Base - 1]
  /\ Ports \subseteq 0 .. Base * Base - 1
  /\ Flows \cup Scopes \subseteq 0 .. Base * Base * Base * Base - 1

VARIABLES version,      \* 4 or 6
          lhs, rhs      \* the two addresses

addrVars == <<version, lhs, rhs>>

-----------------------------------------------------------------------------
(* Byte order, on the little-endian machines that net.h compiles for.  The *)
(* scope and the flow label have four bytes, the port has two.             *)

Bytes(n, v) ==
  LET rest[i \in 0 .. n] == IF i = 0 THEN v ELSE rest[i - 1] \div Base
  IN [i \in 1 .. n |-> rest[i - 1] % Base]
Value(bytes) ==
  LET part[i \in 0 .. Len(bytes)] ==
        IF i = Len(bytes) THEN 0 ELSE bytes[i + 1] + Base * part[i + 1]
  IN part[0]

Swap2(bytes) == <<bytes[2], bytes[1]>>
Swap4(bytes) == <<bytes[4], bytes[3], bytes[2], bytes[1]>>

NetConv16(v) == Value(Swap2(Bytes(2, v)))
NetConv32(v) == Value(Swap4(Bytes(4, v)))

\* What net_encode() puts in a buffer, and what net_decode() makes of it: the
\* bytes as they are, not converted.
NetEncode(v) == Bytes(2, NetConv16(v))
NetDecode(bytes) == Value(bytes)

-----------------------------------------------------------------------------
(* Interface addresses. *)

ZeroIf == [i \in 1 .. IfSize |-> 0]

\* 127.0.0.1
Loopback ==
  [i \in 1 .. IfSize |->
     IF i = 1 THEN Base \div 2 - 1 ELSE IF i = IfSize THEN 1 ELSE 0]

\* std::lexicographical_compare(), a bool.
Precedes(x, y) ==
  \E i \in 1 .. IfSize : x[i] < y[i] /\ \A j \in 1 .. i - 1 : x[j] = y[j]

\* compare() is the bool, so that it is 1 for the lesser and never -1.
IfCompare4(x, y) == IF Precedes(x, y) THEN 1 ELSE 0
IfCompare6(x, y) == IF Precedes(x, y) THEN 1 ELSE 0

IfEqual4(x, y) == IfCompare4(x, y) = 0

\* The bytes in the order of memory, read as one word, and as four.
IfHash4(x) == Value(x)
IfHash6(x) ==
  LET size == IfSize \div 4
      p(i) == Value(SubSeq(x, i * size + 1, (i + 1) * size))
  IN (BitXor(p(0), p(1)) + BitXor(p(2), p(3))) % Base^size

-----------------------------------------------------------------------------
(* Transport addresses.  Those of version 4 have no flow label and no      *)
(* scope, which are zero here.                                             *)

Address(if, port, flow, scope) ==
  [if |-> if, port |-> port, flow |-> flow, scope |-> scope]

NoAddress4 == Address(ZeroIf, 0, 0, 0)
NoAddress6 == Address(ZeroIf, 0, 0, 0)

Addresses4 == {Address(i, p, 0, 0) : i \in Ifs, p \in Ports}
Addresses6 ==
  {Address(i, p, f, s) : i \in Ifs, p \in Ports, f \in Flows, s \in Scopes}
Addresses(v) == IF v = 4 THEN Addresses4 ELSE Addresses6

Sign(x, y) == IF x > y THEN 1 ELSE IF x < y THEN -1 ELSE 0

\* The first of the comparisons that does not come out even.
FirstUneven(signs) ==
  LET uneven == {i \in DOMAIN signs : signs[i] # 0}
  IN IF uneven = {} THEN 0 ELSE signs[Min(uneven)]

Masked(flow) == flow % FlowMod

\* m_flowinfo is masked for one of the two tests only.
FlowCompare(f, g) ==
  IF Masked(f) > Masked(g) THEN 1 ELSE IF f < Masked(g) THEN -1 ELSE 0

Compare4(a, b) ==
  FirstUneven(<<IfCompare4(a.if, b.if), Sign(a.port, b.port)>>)

\* Mutant: the scope is not compared.
Compare6NoScope(a, b) ==
  FirstUneven(<<IfCompare6(a.if, b.if), Sign(a.port, b.port),
                FlowCompare(a.flow, b.flow)>>)

Compare6(a, b) ==
  FirstUneven(<<IfCompare6(a.if, b.if), Sign(a.port, b.port),
                FlowCompare(a.flow, b.flow), Sign(a.scope, b.scope)>>)

Equal4(a, b) == IfEqual4(a.if, b.if) /\ a.port = b.port
Equal6(a, b) == Compare6(a, b) = 0

\* Mutant: not greater for less.
Less4Even(a, b) == Compare4(a, b) <= 0

Less4(a, b) == Compare4(a, b) < 0
Less6(a, b) == Compare6(a, b) < 0

\* The bytes of the interface with those of the port over the outermost two.
Hash4(a) ==
  Value([i \in 1 .. IfSize |->
           CASE i = 1 -> BitXor(a.if[i], a.port \div Base)
             [] i = IfSize -> BitXor(a.if[i], a.port % Base)
             [] OTHER -> a.if[i]])

Hash6(a) == BitXor(IfHash6(a.if), BitXor(Masked(a.flow) * 64, a.scope))

\* The structures of the socket interface, in network order.
Sockaddr4(a) == Address(a.if, NetConv16(a.port), 0, 0)
Sockaddr6(a) ==
  Address(a.if, NetConv16(a.port), NetConv32(Masked(a.flow)),
          NetConv32(a.scope))

\* Mutant: the scope is left in network order.
FromSockaddr6Raw(sa) ==
  Address(sa.if, NetConv16(sa.port), NetConv32(sa.flow), sa.scope)

FromSockaddr4(sa) == Address(sa.if, NetConv16(sa.port), 0, 0)
FromSockaddr6(sa) ==
  Address(sa.if, NetConv16(sa.port), NetConv32(sa.flow), NetConv32(sa.scope))

(* The same for either version. *)

Equal(a, b) == IF version = 4 THEN Equal4(a, b) ELSE Equal6(a, b)
Less(a, b) == IF version = 4 THEN Less4(a, b) ELSE Less6(a, b)
Hash(a) == IF version = 4 THEN Hash4(a) ELSE Hash6(a)
Sockaddr(a) == IF version = 4 THEN Sockaddr4(a) ELSE Sockaddr6(a)
FromSockaddr(sa) ==
  IF version = 4 THEN FromSockaddr4(sa) ELSE FromSockaddr6(sa)

-----------------------------------------------------------------------------
AddrInit ==
  /\ version \in {4, 6}
  /\ lhs = IF version = 4 THEN NoAddress4 ELSE NoAddress6
  /\ rhs = lhs

\* A transport address made from its parts; loopback is one of the interfaces.
Construct ==
  /\ \/ lhs' \in Addresses(version)
     \/ lhs' = [lhs EXCEPT !.if = Loopback]
  /\ UNCHANGED <<version, rhs>>

\* if_addr(), port(), flowinfo() and scope_id() without const.  The reference
\* to the flow label is given out after the label has been masked in place,
\* and whatever is stored through it stays.
SetIf ==
  /\ \E i \in Ifs : lhs' = [lhs EXCEPT !.if = i]
  /\ UNCHANGED <<version, rhs>>

SetPort ==
  /\ \E p \in Ports : lhs' = [lhs EXCEPT !.port = p]
  /\ UNCHANGED <<version, rhs>>

TouchFlow ==
  /\ version = 6
  /\ \E f \in {Masked(lhs.flow)} \cup Flows : lhs' = [lhs EXCEPT !.flow = f]
  /\ UNCHANGED <<version, rhs>>

SetScope ==
  /\ version = 6
  /\ \E s \in Scopes : lhs' = [lhs EXCEPT !.scope = s]
  /\ UNCHANGED <<version, rhs>>

\* One address is assigned to the other, or they are exchanged.
Exchange ==
  /\ lhs' = rhs /\ rhs' \in {lhs, rhs}
  /\ UNCHANGED version

\* One address goes into a system call, and the other comes out of one: that
\* of the socket at the other end, getsockname() or getpeername() of it.
Transfer ==
  /\ rhs' = FromSockaddr(Sockaddr(lhs))
  /\ UNCHANGED <<version, lhs>>

AddrNext ==
  \/ Construct \/ SetIf \/ SetPort \/ TouchFlow \/ SetScope \/ Exchange
  \/ Transfer

AddrSpec == AddrInit /\ [][AddrNext]_addrVars

-----------------------------------------------------------------------------
(* Properties. *)

\* Two addresses are the same when their parts are, the label in 20 bits.
Canonical(a) == [a EXCEPT !.flow = Masked(@)]
Same(a, b) == Canonical(a) = Canonical(b)

\* compare() does not order the interfaces (addr.cpp:110), and == is true of
\* any two of them the greater of which is on the left.  What remains of it:
\* the same address is equal to itself whatever is stored above the 20 bits of
\* the label, and hashed alike; and addresses that are equal both ways round
\* are the same.
EqualBothWays ==
  /\ Same(lhs, rhs) =>
       Equal(lhs, rhs) /\ Equal(rhs, lhs) /\ Hash(lhs) = Hash(rhs)
  /\ Equal(lhs, rhs) /\ Equal(rhs, lhs) => Same(lhs, rhs)

\* < is a strict partial order of the transport addresses, although it takes
\* the interfaces the other way round or not at all: never both ways, and
\* transitive as long as the flow labels are in their 20 bits.
LessIsPartialOrder ==
  /\ ~(Less(lhs, rhs) /\ Less(rhs, lhs))
  /\ Less(lhs, rhs) =>
       \A third \in Addresses(version) :
         /\ Less(rhs, third)
         /\ \A x \in {lhs, rhs, third} : x.flow = Masked(x.flow)
         => Less(lhs, third)

\* What is sent in a sockaddr comes out of it the same, and equal with the
\* received address on either side, as test_suit.cpp:280 has it for the sender
\* of a datagram.  The port has its most significant byte first, in the
\* structure and in what net_encode() writes.
SurvivesTheWire ==
  /\ LET back == FromSockaddr(Sockaddr(lhs)) IN
       Same(back, lhs) /\ Equal(back, lhs) /\ Equal(lhs, back)
  /\ NetEncode(lhs.port) = <<lhs.port \div Base, lhs.port % Base>>
  /\ NetEncode(lhs.port) = Bytes(2, Sockaddr(lhs).port)
  /\ NetConv16(NetDecode(NetEncode(lhs.port))) = lhs.port

=============================================================================
