---------------------------- MODULE MCSingleton ----------------------------
(***************************************************************************)
(* Singleton with two of the default lifetime and one of each extreme, and *)
(* a three-bit int.                                                        *)
(***************************************************************************)
EXTENDS Singleton

CONSTANTS first, second, long, short

MCSingletons == {first, second, long, short}

MCLifetime ==
  [s \in MCSingletons |-> CASE s = long -> IntMax - 1 [] s = short -> IntMin [] OTHER -> 0]

NoUses == [s \in MCSingletons |-> {}]

(* Nothing, a chain down the lifetimes, one against them, a shared one,    *)
(* and a circle.                                                           *)
MCUseGraphs ==
  {NoUses,
   [NoUses EXCEPT ![first] = {second}, ![second] = {long}],
   [NoUses EXCEPT ![long] = {first}, ![first] = {second}],
   [NoUses EXCEPT ![first] = {long, short}, ![second] = {first}],
   [NoUses EXCEPT ![first] = {second}, ![second] = {first}]}
=============================================================================
