------------------------------ MODULE Identity ------------------------------
(***************************************************************************)
(* The names of USB devices (src/identity.rs).                             *)
(*                                                                         *)
(* A device is named after the most unique tier of attributes that nothing *)
(* else in the cluster shares, and after its port when there is none.      *)
(*                                                                         *)
(* All devices here have one vendor and product id: both are part of every *)
(* key and name, so devices that differ in them never meet.  A fingerprint *)
(* is the serial and the descriptor strings; a name is its tier with the   *)
(* attributes it is made of, which the code joins into a string that ends  *)
(* in their hash.                                                          *)
(***************************************************************************)
EXTENDS Naturals

CONSTANTS
    NumDevices,
    NumPorts,   \* the ports that a node may have
    Nodes,      \* numbered in the order of their names
    Serials,
    Descriptors,
    None

Devices == 1 .. NumDevices

\* Numbered in the order of their paths, which is that of a scan.
Ports == 1 .. NumPorts

\* One enumeration of a device: the port, with numbers that a replugged device
\* gets anew.
InstanceKey == [dev : Devices, num : Nat, port : Ports]

ASSUME IdentityAssumption ==
    /\ NumDevices \in Nat /\ NumPorts \in Nat
    /\ Nodes \subseteq Nat \ {0}
    /\ None \notin Nodes \cup Serials \cup Ports /\ None \notin InstanceKey

\* A blank serial counts as none.
Fingerprint == [serial : Serials \cup {None}, desc : Descriptors]

Order == <<"Serial", "SerialDescriptor", "Descriptor">>

Applies(fp, tier) == tier = "Descriptor" \/ fp.serial # None

TierKey(fp, tier) ==
    CASE tier = "Serial" -> <<fp.serial>>
      [] tier = "SerialDescriptor" -> <<fp.serial, fp.desc>>
      [] tier = "Descriptor" -> <<fp.desc>>

SameKey(fp, other, tier) ==
    Applies(fp, tier) /\ Applies(other, tier) /\ TierKey(fp, tier) = TierKey(other, tier)

PortableName(fp, tier) == <<tier, TierKey(fp, tier)>>

\* Mutant: the port is left out.
PortName_node(n, port) == <<"PortPath", <<n, 1>>>>

PortName(n, port) == <<"PortPath", <<n, port>>>>

Names ==
    (UNION {{PortableName(fp, Order[i]) : i \in {j \in 1 .. 3 : Applies(fp, Order[j])}} :
               fp \in Fingerprint})
    \cup {PortName(n, port) : n \in Nodes, port \in Ports}

-----------------------------------------------------------------------------
(* What an agent knows: "known" maps the name of each object it sees to    *)
(* the fingerprint there and the node that a fresh heartbeat puts it on.   *)
(* "here" maps the instances on the node to their fingerprints.            *)

Assigned(name) == [name |-> name, deferred |-> FALSE]

Deferred(name) == [name |-> name, deferred |-> TRUE]

HeldElsewhere(n, known, name) ==
    name \in DOMAIN known /\ known[name].on \notin {None, n}

Unambiguous(known, here, key, tier) ==
    /\ \A k \in DOMAIN here \ {key} : ~SameKey(here[key], here[k], tier)
    /\ \A m \in DOMAIN known :
         m = PortableName(here[key], tier) \/ ~SameKey(here[key], known[m].fp, tier)

\* Mutant: a name that another node holds is not waited for.
Choose_atOnce(n, known, young, here, taken, key) ==
    LET name(i) == PortableName(here[key], Order[i])
        usable == {i \in 1 .. 3 : /\ Applies(here[key], Order[i])
                                  /\ Unambiguous(known, here, key, Order[i])
                                  /\ name(i) \notin taken
                                  /\ ~HeldElsewhere(n, known, name(i))}
        best == CHOOSE i \in usable : \A j \in usable : i <= j
    IN  IF usable = {} THEN Assigned(PortName(n, key.port)) ELSE Assigned(name(best))

\* The first tier that is free, or held by another node while the instance may
\* still wait for that node to let go.
Choose(n, known, young, here, taken, key) ==
    LET name(i) == PortableName(here[key], Order[i])
        usable == {i \in 1 .. 3 : /\ Applies(here[key], Order[i])
                                  /\ Unambiguous(known, here, key, Order[i])
                                  /\ name(i) \notin taken
                                  /\ HeldElsewhere(n, known, name(i)) => key \in young}
        best == CHOOSE i \in usable : \A j \in usable : i <= j
    IN  IF usable = {} THEN Assigned(PortName(n, key.port))
        ELSE IF HeldElsewhere(n, known, name(best)) THEN Deferred(name(best))
        ELSE Assigned(name(best))

\* Mutant: neither of two nodes gives way.
LostTie_never(n, known, name) == FALSE

\* Of two nodes that publish the same name the smaller one keeps it.
LostTie(n, known, name) == HeldElsewhere(n, known, name) /\ known[name].on < n

\* The first loop of assign: the instances that keep their names, in the order
\* of their ports.
Keep(n, sticky, known, here) ==
    LET held == {k \in DOMAIN here \cap DOMAIN sticky : ~LostTie(n, known, sticky[k])}
    IN  {k \in held : \A j \in held : sticky[j] = sticky[k] => k.port <= j.port}

\* The names that are taken when it is the turn of an instance.
Taken(keep, here, made, key) ==
    {made[k].name : k \in {j \in DOMAIN here : /\ j \in keep \/ j.port < key.port
                                               /\ ~made[j].deferred}}

Turn(n, sticky, keep, known, young, here, made, key) ==
    IF key \in keep THEN Assigned(sticky[key])
    ELSE Choose(n, known, young, here, Taken(keep, here, made, key), key)

\* The second loop: the rest choose, in the same order, and leave what is taken
\* to the others.
Assign(n, sticky, keep, known, young, here) ==
    LET decide[k \in DOMAIN here] == Turn(n, sticky, keep, known, young, here, decide, k)
    IN  [k \in DOMAIN here |-> decide[k]]
=============================================================================
