---------------------------- MODULE MCDiscovery ----------------------------
(***************************************************************************)
(* Small instances of Discovery for TLC.                                   *)
(***************************************************************************)
EXTENDS Discovery

CONSTANTS s1, x, y

\* Two devices that are alike, two of one serial with different descriptors, and
\* one that is unique.
Alike == <<[serial |-> None, desc |-> x], [serial |-> None, desc |-> x]>>
SameSerial == <<[serial |-> s1, desc |-> x], [serial |-> s1, desc |-> y]>>
Alone == <<[serial |-> s1, desc |-> x]>>

Changes == [p \in {Alike, SameSerial, Alone} |-> IF p = Alone THEN 2 ELSE 1]

\* Node 1 has two ports, and node 2 has one.
Places == {<<1, 1>>, <<1, 2>>, <<2, 1>>}

\* Devices are moved, and everything fails now and then.
Everything == {"unplug", "silent", "lag", "fail", "restart"}
=============================================================================
