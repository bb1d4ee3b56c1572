-------------------------- MODULE DiscoveryProofs --------------------------
(***************************************************************************)
(* Discovery for every number of nodes and devices, every fingerprint and  *)
(* every number of disturbances: its types, the names on one node, the     *)
(* name of a device that is unlike the others, the names that stay, and    *)
(* what is marked unplugged.                                               *)
(***************************************************************************)
EXTENDS DiscoverySteps, IdentityProofs

-----------------------------------------------------------------------------
(* A scan: what it reads, keeps and decides.                               *)

Os(n) == IF lagging[n] = None THEN obj ELSE lagging[n]

Here(n) == FingerprintsOf(Plugged(n))

Kept(n) == Retained(n, Os(n), Here(n))

Young(n) == {k \in DOMAIN Here(n) : FirstSeen(n, Here(n))[k] = "young"}

Keeps(n) == Keep(n, Kept(n), Known(Os(n)), Here(n))

Made(n) == Assign(n, Kept(n), Keeps(n), Known(Os(n)), Young(n), Here(n))

\* The instances that a scan finds.
LEMMA ScanFinds ==
    ASSUME Inv, NEW n \in Nodes
    PROVE  /\ Enumerated(Here(n))
           /\ DOMAIN Here(n) = Plugged(n)
           /\ \A k \in DOMAIN Here(n) :
                /\ Placed(n, k) /\ k \in Instances /\ k.dev \in DOMAIN print
                /\ k.num = num[k.dev] /\ at[k.dev] = n /\ Here(n)[k] = print[k.dev]
           /\ \A j, k \in DOMAIN Here(n) : j.dev = k.dev => j = k
<1> USE DEF Inv
<1>1. DOMAIN Here(n) = Plugged(n) /\ \A k \in Plugged(n) : Here(n)[k] = print[k.dev]
  BY DEF Here, FingerprintsOf
<1>2. ASSUME NEW k \in Plugged(n)
      PROVE  /\ k.dev \in Devices /\ k = [dev |-> k.dev, num |-> num[k.dev], port |-> port[k.dev]]
             /\ k.num = num[k.dev] /\ k.port = port[k.dev] /\ at[k.dev] = n
  BY DEF Plugged, Key
<1>3. ASSUME NEW k \in Plugged(n)
      PROVE  /\ k \in Instances /\ k.dev \in DOMAIN print /\ k.port \in Ports
             /\ \A j \in Plugged(n) : j.port = k.port => j = k
  <2>1. n # None
    BY IdentityAssumption
  <2>2. num[k.dev] \in 1 .. MaxChanges[print] + 1 /\ k.dev \in DOMAIN print
    BY <1>2, <2>1, BoundsAssumption DEF Counted, Types
  <2>3. /\ port[k.dev] \in Ports
        /\ \A e \in Devices : at[e] = n /\ port[e] = port[k.dev] => e = k.dev
    BY <1>2, <2>1, Zenon DEF Counted
  <2>4. ASSUME NEW j \in Plugged(n), j.port = k.port
        PROVE  j = k
    <3>1. j.dev = k.dev
      BY <1>2, <2>3, <2>4, Zenon
    <3> QED BY <1>2, <3>1
  <2>5. k \in Instances
    BY <1>2, <2>2, <2>3 DEF Instances
  <2> QED BY <1>2, <2>2, <2>3, <2>4, <2>5
<1>4. Enumerated(Here(n))
  BY <1>1, <1>3 DEF Enumerated
<1>5. \A k \in Plugged(n) : Placed(n, k)
  <2>1. ASSUME NEW k \in Plugged(n)
        PROVE  Placed(n, k)
    <3>1. k.num <= num[k.dev]
      BY <1>2, BoundsAssumption DEF Types
    <3> QED BY <1>2, <1>3, <3>1 DEF Placed
  <2> QED BY <2>1
<1>6. \A j, k \in Plugged(n) : j.dev = k.dev => j = k
  BY <1>2
<1> QED BY <1>1, <1>2, <1>3, <1>4, <1>5, <1>6

\* The objects that it reads.
LEMMA ScanReads ==
    ASSUME Inv, NEW n \in Nodes
    PROVE  /\ Os(n) \in [Names -> Object \cup {None}]
           /\ \A m \in Names : Sound(m, Os(n)[m]) /\ (Os(n)[m] \in Object => obj[m] \in Object)
           /\ \A k \in DOMAIN seen[n] :
                seen[n][k] = "old" /\ k.dev \notin hasty => \A m \in Names : Outlived(Os(n)[m], k)
<1> USE DEF Inv
<1>1. CASE lagging[n] = None
  BY <1>1 DEF Os, Types, SoundObjects, Waited
<1>2. CASE lagging[n] # None
  BY <1>2 DEF Os, Types, SoundObjects, Waited
<1> QED BY <1>1, <1>2

\* The names that it keeps.
LEMMA ScanKeeps ==
    ASSUME Inv, NEW n \in Nodes
    PROVE  /\ DOMAIN Kept(n) \subseteq DOMAIN Here(n) \cap DOMAIN sticky[n]
           /\ \A k \in DOMAIN Kept(n) : /\ Kept(n)[k] = sticky[n][k]
                                        /\ Kept(n)[k] \in Names
                                        /\ Named(n, k, Kept(n)[k])
           /\ \A j, k \in DOMAIN Kept(n) : Kept(n)[j] = Kept(n)[k] => j = k
           /\ Keeps(n) \subseteq DOMAIN Kept(n)
<1> USE DEF Inv
<1>1. DOMAIN Kept(n) \subseteq DOMAIN Here(n) \cap DOMAIN sticky[n]
  BY DEF Kept, Retained
<1>2. \A k \in DOMAIN Kept(n) : Kept(n)[k] = sticky[n][k]
  BY DEF Kept, Retained
<1>3. \A k \in DOMAIN sticky[n] : sticky[n][k] \in Names /\ Named(n, k, sticky[n][k])
  BY DEF Types, Remembered
<1>4. Keeps(n) \subseteq DOMAIN Kept(n)
  BY DEF Keeps, Keep
<1> QED BY <1>1, <1>2, <1>3, <1>4 DEF OwnNames

\* The best name is that of the first tier that applies.
LEMMA BestTier ==
    ASSUME NEW fp
    PROVE  \E b \in 1 .. 3 : /\ Applies(fp, Order[b])
                             /\ Best(fp) = PortableName(fp, Order[b])
                             /\ \A j \in 1 .. 3 : j < b => ~Applies(fp, Order[j])
<1>1. CASE fp.serial # None
  <2>1. Applies(fp, Order[1]) /\ Best(fp) = PortableName(fp, Order[1])
    BY <1>1 DEF Best, Applies, Order
  <2> QED BY <2>1
<1>2. CASE fp.serial = None
  <2>1. Applies(fp, Order[3]) /\ Best(fp) = PortableName(fp, Order[3])
    BY <1>2 DEF Best, Applies, Order
  <2>2. ~Applies(fp, Order[1]) /\ ~Applies(fp, Order[2])
    BY <1>2 DEF Applies, Order
  <2> QED BY <2>1, <2>2
<1> QED BY <1>1, <1>2

\* The best name of a device that is unlike every other one suits no other device.
LEMMA NamedApart ==
    ASSUME NEW d \in DOMAIN print, Unique(d), NEW n, NEW key, key.dev \in DOMAIN print, key.dev # d,
           NEW m, Named(n, key, m)
    PROVE  m # Best(print[d])
<1> DEFINE e == key.dev
<1>1. PICK b \in 1 .. 3 : /\ Applies(print[d], Order[b])
                          /\ Best(print[d]) = PortableName(print[d], Order[b])
  BY BestTier
<1>2. m = PortName(n, key.port) \/ \E i \in 1 .. 3 : /\ Applies(print[e], Order[i])
                                                    /\ m = PortableName(print[e], Order[i])
  BY Zenon DEF Named
<1>3. CASE m = PortName(n, key.port)
  BY <1>1, <1>3, PortsApart
<1>4. ASSUME NEW i \in 1 .. 3, Applies(print[e], Order[i]), m = PortableName(print[e], Order[i]),
             m = Best(print[d])
      PROVE  FALSE
  <2>1. SameKey(print[d], print[e], Order[b])
    BY <1>1, <1>4, SharedNameIsAmbiguous, Zenon
  <2> QED BY <2>1 DEF Unique
<1> QED BY <1>2, <1>3, <1>4

\* An instance is named after its port or its attributes.
LEMMA ChoiceSuits ==
    ASSUME Inv, NEW n \in Nodes, NEW k \in DOMAIN Here(n)
    PROVE  \/ Made(n)[k].name = PortName(n, k.port)
           \/ \E i \in 1 .. 3 : /\ Applies(print[k.dev], Order[i])
                                /\ Made(n)[k].name = PortableName(print[k.dev], Order[i])
<1>1. Enumerated(Here(n)) /\ Here(n)[k] = print[k.dev]
  BY ScanFinds
<1>2. CASE k \in Keeps(n)
  <2>1. Made(n)[k] = Assigned(Kept(n)[k])
    BY <1>1, <1>2, KeptName DEF Made
  <2>2. Made(n)[k].name = Kept(n)[k]
    BY <2>1 DEF Assigned
  <2>3. Named(n, k, Kept(n)[k])
    BY <1>2, ScanKeeps
  <2> QED BY <2>2, <2>3, Zenon DEF Named
<1>3. CASE k \notin Keeps(n)
  <2>1. \/ Made(n)[k] = Assigned(PortName(n, k.port))
        \/ \E i \in 1 .. 3 : /\ Applies(Here(n)[k], Order[i])
                             /\ Made(n)[k].name = PortableName(Here(n)[k], Order[i])
    BY <1>1, <1>3, ChosenName DEF Made
  <2>2. Assigned(PortName(n, k.port)).name = PortName(n, k.port)
    BY DEF Assigned
  <2> QED BY <1>1, <2>1, <2>2, Zenon
<1> QED BY <1>2, <1>3

\* When a device is unlike every other one, nothing keeps it from its best name
\* but an earlier instance of it, on a node that has not let go yet; and that the
\* new instance waits for, if its device was never hasty.
LEMMA BestIsUsable ==
    ASSUME Inv, NEW n \in Nodes, NEW k \in DOMAIN Here(n), k \notin Keeps(n),
           Unique(k.dev), k.dev \notin hasty,
           NEW b \in 1 .. 3, Applies(print[k.dev], Order[b]),
           Best(print[k.dev]) = PortableName(print[k.dev], Order[b])
    PROVE  b \in Usable(n, Known(Os(n)), Young(n), Here(n), Taken(Keeps(n), Here(n), Made(n), k), k)
<1> DEFINE d == k.dev
           best == Best(print[d])
           known == Known(Os(n))
<1>1. /\ Enumerated(Here(n)) /\ Here(n)[k] = print[d] /\ d \in DOMAIN print
      /\ k.num = num[d] /\ at[d] = n /\ k \in Instances
  BY ScanFinds
<1>2. ASSUME NEW j \in DOMAIN Here(n), j # k
      PROVE  j.dev \in DOMAIN print /\ j.dev # d /\ Here(n)[j] = print[j.dev]
  <2>1. j.dev # d
    BY <1>2, ScanFinds
  <2> QED BY <1>2, <2>1, ScanFinds
<1>3. \A m \in DOMAIN known : /\ m \in Names /\ Os(n)[m] # None /\ known[m].fp = Os(n)[m].fp
                              /\ known[m].on = IF IsAvailable(Os(n)[m]) THEN Os(n)[m].node ELSE None
  BY DEF Known
<1>4. Unambiguous(known, Here(n), k, Order[b])
  <2>1. \A j \in DOMAIN Here(n) \ {k} : ~SameKey(Here(n)[k], Here(n)[j], Order[b])
    BY <1>1, <1>2, Zenon DEF Unique
  <2>2. ASSUME NEW m \in DOMAIN known, m # best
        PROVE  ~SameKey(Here(n)[k], known[m].fp, Order[b])
    <3>1. Sound(m, Os(n)[m])
      BY <1>3, ScanReads, Zenon
    <3>2. PICK p \in Nodes, e \in Instances : known[m].fp = print[e.dev] /\ Named(p, e, m)
      BY <1>3, <3>1, Zenon DEF Sound
    <3>3. e.dev # d /\ e.dev \in DOMAIN print
      BY <2>2, <3>2, Zenon DEF Named, Instances
    <3> QED BY <1>1, <3>2, <3>3, Zenon DEF Unique
  <2> QED BY <1>1, <2>1, <2>2, Zenon DEF Unambiguous
<1>5. best \notin Taken(Keeps(n), Here(n), Made(n), k)
  <2> SUFFICES ASSUME NEW j \in DOMAIN Here(n), j \in Keeps(n) \/ j.port < k.port, Made(n)[j].name = best
               PROVE  FALSE
    BY DEF Taken
  <2>1. j # k
    BY <1>1 DEF Enumerated, Ports
  <2>2. \/ best = PortName(n, j.port)
        \/ \E i \in 1 .. 3 : /\ Applies(print[j.dev], Order[i])
                             /\ best = PortableName(print[j.dev], Order[i])
    BY ChoiceSuits
  <2>3. best # PortName(n, j.port)
    BY PortsApart, Zenon
  <2>4. PICK i \in 1 .. 3 : /\ Applies(print[j.dev], Order[i])
                            /\ best = PortableName(print[j.dev], Order[i])
    BY <2>2, <2>3, Zenon
  <2>5. SameKey(print[d], print[j.dev], Order[b])
    <3>1. PortableName(print[d], Order[b]) = PortableName(print[j.dev], Order[i])
      BY <2>4
    <3>2. Applies(print[d], Order[b]) /\ Applies(print[j.dev], Order[i])
      BY <2>4
    <3> HIDE DEF d
    <3> QED BY <3>1, <3>2, SharedNameIsAmbiguous, Zenon
  <2> QED BY <1>2, <2>1, <2>5, Zenon DEF Unique
<1>6. HeldElsewhere(n, known, best) => k \in Young(n)
  <2> SUFFICES ASSUME HeldElsewhere(n, known, best)
               PROVE  k \in Young(n)
    BY Zenon
  <2> DEFINE o == Os(n)[best]
  <2>1. best \in Names /\ IsAvailable(o) /\ o.node # n
    BY <1>3, Zenon DEF HeldElsewhere
  <2>2. o.key # None /\ Placed(o.node, o.key) /\ Named(o.node, o.key, best)
    BY <2>1, ScanReads, Zenon DEF Sound, IsAvailable
  <2>3. o.key.dev = d
    BY <1>1, <2>2, NamedApart, Zenon DEF Placed, Instances
  <2>4. o.key.num < k.num
    <3>1. \A j \in Instances : j.num \in Nat
      BY BoundsAssumption DEF Instances, Inv, Types
    <3>2. o.key \in Instances /\ o.key.num <= num[d]
      BY <2>2, <2>3, Zenon DEF Placed
    <3>3. o.key.num # num[d]
      BY <1>1, <2>1, <2>2, <2>3, IdentityAssumption, Zenon DEF Placed
    <3>4. o.key.num \in Nat /\ k.num \in Nat
      BY <1>1, <3>1, <3>2, Zenon
    <3> HIDE DEF o, d
    <3> QED BY <1>1, <3>2, <3>3, <3>4
  <2>5. ~Outlived(o, k)
    <3>1. \A j \in Instances : j.num \in Nat
      BY BoundsAssumption DEF Instances, Inv, Types
    <3>2. o.key.num \in Nat /\ k.num \in Nat
      BY <1>1, <2>2, <3>1, Zenon DEF Placed
    <3> HIDE DEF o
    <3> QED BY <2>1, <2>3, <2>4, <3>2 DEF Outlived
  <2>6. k \in DOMAIN seen[n] => seen[n][k] = "young"
    BY <2>1, <2>5, ScanReads, Zenon DEF Inv, Types
  <2> QED BY <2>6 DEF Young, FirstSeen
<1> QED BY <1>1, <1>4, <1>5, <1>6, Zenon DEF Usable

\* Every name that a scan decides on suits its device.
LEMMA MadeSuits ==
    ASSUME Inv, NEW n \in Nodes, NEW k \in DOMAIN Here(n)
    PROVE  Named(n, k, Made(n)[k].name) /\ Made(n)[k].name \in Names
<1>1. /\ Enumerated(Here(n)) /\ Here(n)[k] = print[k.dev] /\ k.dev \in DOMAIN print
  BY ScanFinds
<1>2. Named(n, k, Made(n)[k].name)
  <2>1. CASE ~(Unique(k.dev) /\ k.dev \notin hasty)
    BY <2>1, ChoiceSuits, Zenon DEF Named
  <2>2. CASE k \in Keeps(n)
    <3>1. Made(n)[k] = Assigned(Kept(n)[k])
      BY <1>1, <2>2, KeptName DEF Made
    <3>2. Made(n)[k].name = Kept(n)[k]
      BY <3>1 DEF Assigned
    <3> QED BY <2>2, <3>2, ScanKeeps, Zenon
  <2>3. CASE Unique(k.dev) /\ k.dev \notin hasty /\ k \notin Keeps(n)
    <3> DEFINE taken == Taken(Keeps(n), Here(n), Made(n), k)
    <3>1. PICK b \in 1 .. 3 : /\ Applies(print[k.dev], Order[b])
                              /\ Best(print[k.dev]) = PortableName(print[k.dev], Order[b])
                              /\ \A j \in 1 .. 3 : j < b => ~Applies(print[k.dev], Order[j])
      BY BestTier, Zenon
    <3>2. b \in Usable(n, Known(Os(n)), Young(n), Here(n), taken, k)
      BY <2>3, <3>1, BestIsUsable, Zenon
    <3>3. Made(n)[k] = Choose(n, Known(Os(n)), Young(n), Here(n), taken, k)
      BY <1>1, <2>3, ChooserTurn DEF Made
    <3>4. \A j \in 1 .. 3 : j < b => ~Applies(Here(n)[k], Order[j])
      BY <1>1, <3>1, Zenon
    <3> HIDE DEF taken
    <3>5. Made(n)[k].name = PortableName(Here(n)[k], Order[b])
      BY <3>2, <3>3, <3>4, ChooseFirst
    <3> QED BY <1>1, <3>1, <3>5, Zenon DEF Named
  <2> QED BY <2>1, <2>2, <2>3, Zenon
<1>3. Made(n)[k].name \in Names
  <2>1. print[k.dev] \in Fingerprint /\ k.port \in Ports
    BY <1>1, BoundsAssumption, Zenon DEF Inv, Types, Enumerated
  <2>2. \/ Made(n)[k].name = PortName(n, k.port)
        \/ \E i \in 1 .. 3 : /\ Applies(print[k.dev], Order[i])
                             /\ Made(n)[k].name = PortableName(print[k.dev], Order[i])
    BY ChoiceSuits, Zenon
  <2> QED BY <2>1, <2>2, NamesHave, Zenon
<1> QED BY <1>2, <1>3

\* The names the agent remembers after the scan.
NextSticky(n) ==
    [k \in DOMAIN Kept(n) \cup {j \in DOMAIN Here(n) : ~Made(n)[j].deferred} |->
        IF Made(n)[k].deferred THEN Kept(n)[k] ELSE Made(n)[k].name]

\* They suit their devices, and no two are the same.
LEMMA NextStickySuits ==
    ASSUME Inv, NEW n \in Nodes
    PROVE  /\ \A k \in DOMAIN NextSticky(n) :
                /\ k \in DOMAIN Here(n)
                /\ Named(n, k, NextSticky(n)[k]) /\ NextSticky(n)[k] \in Names
           /\ \A j, k \in DOMAIN NextSticky(n) : NextSticky(n)[j] = NextSticky(n)[k] => j = k
<1>1. Enumerated(Here(n))
  BY ScanFinds, Zenon
<1>2. ASSUME NEW k \in DOMAIN NextSticky(n)
      PROVE  /\ k \in DOMAIN Here(n)
             /\ Made(n)[k].deferred => k \in DOMAIN Kept(n) /\ NextSticky(n)[k] = Kept(n)[k]
             /\ ~Made(n)[k].deferred => NextSticky(n)[k] = Made(n)[k].name
  BY ScanKeeps, Zenon DEF NextSticky
<1>3. ASSUME NEW k \in DOMAIN NextSticky(n)
      PROVE  Named(n, k, NextSticky(n)[k]) /\ NextSticky(n)[k] \in Names
  BY <1>2, ScanKeeps, MadeSuits
<1>4. OwnPorts(n, Kept(n))
  <2> SUFFICES ASSUME NEW k \in DOMAIN Kept(n), NEW p, NEW i, Kept(n)[k] = PortName(p, i)
               PROVE  p = n /\ i = k.port
    BY Zenon DEF OwnPorts
  <2>1. Named(n, k, Kept(n)[k])
    BY ScanKeeps, Zenon
  <2>2. Kept(n)[k] = PortName(n, k.port)
    BY <2>1, PortsApart DEF Named
  <2> QED BY <2>2 DEF PortName
<1>5. ASSUME NEW j \in DOMAIN NextSticky(n), NEW k \in DOMAIN NextSticky(n), j # k,
             Made(n)[j].deferred, ~Made(n)[k].deferred
      PROVE  NextSticky(n)[j] # NextSticky(n)[k]
  <2>1. j \in DOMAIN Here(n) \cap DOMAIN Kept(n) /\ k \in DOMAIN Here(n)
    BY <1>2, <1>5, Zenon
  <2>2. \A i, l \in DOMAIN Kept(n) : Kept(n)[i] = Kept(n)[l] => i = l
    BY ScanKeeps, Zenon
  <2>3. Made(n)[k].name # Kept(n)[j]
    BY <1>1, <1>4, <1>5, <2>1, <2>2, NoNameOfWaiter DEF Made, Keeps
  <2> QED BY <1>2, <1>5, <2>3, Zenon
<1>6. ASSUME NEW j \in DOMAIN NextSticky(n), NEW k \in DOMAIN NextSticky(n),
             NextSticky(n)[j] = NextSticky(n)[k]
      PROVE  j = k
  <2>1. CASE ~Made(n)[j].deferred /\ ~Made(n)[k].deferred
    <3>1. Made(n)[j].name = Made(n)[k].name /\ j \in DOMAIN Here(n) /\ k \in DOMAIN Here(n)
      BY <1>2, <1>6, <2>1, Zenon
    <3> QED BY <1>1, <1>4, <2>1, <3>1, NoNameTwice, Zenon DEF Made, Keeps
  <2>2. CASE Made(n)[j].deferred /\ Made(n)[k].deferred
    BY <1>2, <1>6, <2>2, ScanKeeps
  <2>3. CASE Made(n)[j].deferred /\ ~Made(n)[k].deferred
    BY <1>5, <1>6, <2>3, Zenon
  <2>4. CASE ~Made(n)[j].deferred /\ Made(n)[k].deferred
    BY <1>5, <1>6, <2>4, Zenon
  <2> QED BY <2>1, <2>2, <2>3, <2>4, Zenon
<1> QED BY <1>2, <1>3, <1>6, Zenon

\* The local view is what was named, by name.
LEMMA ViewOfMade ==
    ASSUME Inv, NEW n \in Nodes, NEW m \in DOMAIN View(Made(n))
    PROVE  /\ View(Made(n))[m] \in DOMAIN Here(n)
           /\ m = Made(n)[View(Made(n))[m]].name
<1>1. DOMAIN Made(n) = DOMAIN Here(n)
  BY ScanFinds, AssignTurns DEF Made
<1>2. \E k \in {j \in DOMAIN Made(n) : ~Made(n)[j].deferred} : Made(n)[k].name = m
  BY Zenon DEF View
<1>3. View(Made(n))[m] = CHOOSE k \in {j \in DOMAIN Made(n) : ~Made(n)[j].deferred} : Made(n)[k].name = m
  BY Zenon DEF View
<1> QED BY <1>1, <1>2, <1>3, Zenon

\* What a scan does, in these terms.
LEMMA ScanDoes ==
    ASSUME NEW n \in Nodes, ScanOnce(n)
    PROVE  LET view == View(Made(n))
           IN  /\ todo[n] = {}
               /\ sticky' = [sticky EXCEPT ![n] = NextSticky(n)]
               /\ seen' = [seen EXCEPT ![n] = FirstSeen(n, Here(n))]
               /\ local' = [local EXCEPT ![n] = view]
               /\ todo' = [todo EXCEPT ![n] = Publications(n, Os(n), view) \cup Removals(n, Os(n), view)]
               /\ objects' = [objects EXCEPT ![n] = IF todo'[n] = {} THEN None ELSE Os(n)]
               /\ lagging' = [lagging EXCEPT ![n] = None]
               /\ UNCHANGED <<hardware, obj, hasty, changes>>
<1>1. PICK os \in {Os(n)}, here \in {Here(n)} :
        \E kept \in {Retained(n, os, here)}, known \in {Known(os)}, first \in {FirstSeen(n, here)} :
        \E keep \in {Keep(n, kept, known, here)} :
        \E made \in {Assign(n, kept, keep, known, {k \in DOMAIN here : first[k] = "young"}, here)} :
        \E view \in {View(made)} :
          /\ sticky' = [sticky EXCEPT ![n] =
                          [k \in DOMAIN kept \cup {j \in DOMAIN here : ~made[j].deferred} |->
                              IF made[k].deferred THEN kept[k] ELSE made[k].name]]
          /\ seen' = [seen EXCEPT ![n] = first]
          /\ local' = [local EXCEPT ![n] = view]
          /\ todo' = [todo EXCEPT ![n] = Publications(n, os, view) \cup Removals(n, os, view)]
          /\ objects' = [objects EXCEPT ![n] = IF todo'[n] = {} THEN None ELSE os]
  BY Zenon DEF ScanOnce, Os, Here
<1>2. PICK kept \in {Kept(n)}, known \in {Known(Os(n))}, first \in {FirstSeen(n, Here(n))} :
        \E keep \in {Keep(n, kept, known, Here(n))} :
        \E made \in {Assign(n, kept, keep, known, {k \in DOMAIN Here(n) : first[k] = "young"}, Here(n))} :
        \E view \in {View(made)} :
          /\ sticky' = [sticky EXCEPT ![n] =
                          [k \in DOMAIN kept \cup {j \in DOMAIN Here(n) : ~made[j].deferred} |->
                              IF made[k].deferred THEN kept[k] ELSE made[k].name]]
          /\ seen' = [seen EXCEPT ![n] = first]
          /\ local' = [local EXCEPT ![n] = view]
          /\ todo' = [todo EXCEPT ![n] = Publications(n, Os(n), view) \cup Removals(n, Os(n), view)]
          /\ objects' = [objects EXCEPT ![n] = IF todo'[n] = {} THEN None ELSE Os(n)]
  BY <1>1, SMTT(30) DEF Kept
<1>3. PICK made \in {Made(n)} :
        \E view \in {View(made)} :
          /\ sticky' = [sticky EXCEPT ![n] =
                          [k \in DOMAIN Kept(n) \cup {j \in DOMAIN Here(n) : ~made[j].deferred} |->
                              IF made[k].deferred THEN Kept(n)[k] ELSE made[k].name]]
          /\ seen' = [seen EXCEPT ![n] = FirstSeen(n, Here(n))]
          /\ local' = [local EXCEPT ![n] = view]
          /\ todo' = [todo EXCEPT ![n] = Publications(n, Os(n), view) \cup Removals(n, Os(n), view)]
          /\ objects' = [objects EXCEPT ![n] = IF todo'[n] = {} THEN None ELSE Os(n)]
  BY <1>2 DEF Made, Keeps, Young
<1>4. todo[n] = {} /\ lagging' = [lagging EXCEPT ![n] = None] /\ UNCHANGED <<hardware, obj, hasty, changes>>
  BY DEF ScanOnce
<1> QED BY <1>3, <1>4 DEF NextSticky

\* A scan of an up-to-date or a lagging store remembers and plans what is right.
LEMMA ScanInv ==
    ASSUME Inv, NEW n \in Nodes, ScanOnce(n)
    PROVE  Inv'
<1> DEFINE view == View(Made(n))
           writes == Publications(n, Os(n), view) \cup Removals(n, Os(n), view)
<1>1. UNCHANGED <<hardware, obj, hasty, changes>> /\ hasty \subseteq hasty'
  BY ScanDoes, Zenon
<1>2. /\ \A p \in Nodes : sticky'[p] = (IF p = n THEN NextSticky(n) ELSE sticky[p])
      /\ \A p \in Nodes : seen'[p] = (IF p = n THEN FirstSeen(n, Here(n)) ELSE seen[p])
      /\ \A p \in Nodes : local'[p] = (IF p = n THEN view ELSE local[p])
      /\ \A p \in Nodes : todo'[p] = (IF p = n THEN writes ELSE todo[p])
      /\ \A p \in Nodes : lagging'[p] = (IF p = n THEN None ELSE lagging[p])
      /\ \A p \in Nodes : p # n => objects'[p] = objects[p]
      /\ writes = {} => objects'[n] = None
      /\ writes # {} => objects'[n] = Os(n)
  <2> HIDE DEF view
  <2>1. /\ sticky' = [sticky EXCEPT ![n] = NextSticky(n)]
        /\ seen' = [seen EXCEPT ![n] = FirstSeen(n, Here(n))]
        /\ local' = [local EXCEPT ![n] = view]
        /\ todo' = [todo EXCEPT ![n] = writes]
        /\ objects' = [objects EXCEPT ![n] = IF todo'[n] = {} THEN None ELSE Os(n)]
        /\ lagging' = [lagging EXCEPT ![n] = None]
    BY ScanDoes, Zenon DEF view
  <2> HIDE DEF writes
  <2>2. todo'[n] = writes
    BY <2>1, Zenon DEF Inv, Types
  <2> QED BY <2>1, <2>2, Zenon DEF Inv, Types
<1>3. \A k \in DOMAIN Here(n) : k \in Instances /\ Placed(n, k)
  BY ScanFinds, Zenon
<1>4. \A m \in DOMAIN view : /\ view[m] \in DOMAIN Here(n) /\ m \in Names
                             /\ Named(n, view[m], m)
  BY ViewOfMade, MadeSuits, Zenon
<1>5. /\ Os(n) \in [Names -> Object \cup {None}]
      /\ \A m \in Names : Sound(m, Os(n)[m]) /\ (Os(n)[m] \in Object => obj[m] \in Object)
  BY ScanReads, Zenon
<1> HIDE DEF view
<1>6. ASSUME NEW w \in writes
      PROVE  /\ w \in Write
             /\ w.op # "unplug" => w.name \in DOMAIN view
             /\ w.op # "apply" => Os(n)[w.name] \in Object
             /\ w.op = "unplug" => Os(n)[w.name].node = n /\ w.name \notin DOMAIN view
  <2>1. CASE w \in Publications(n, Os(n), view)
    BY <1>4, <1>5, <2>1 DEF Publications, Write, SpecCurrent
  <2>2. CASE w \in Removals(n, Os(n), view)
    BY <1>5, <2>2 DEF Removals, Write
  <2> QED BY <2>1, <2>2, Zenon
<1>7. /\ DOMAIN FirstSeen(n, Here(n)) = DOMAIN Here(n)
      /\ \A k \in DOMAIN Here(n) :
           FirstSeen(n, Here(n))[k] = IF k \in DOMAIN seen[n] THEN seen[n][k] ELSE "young"
  BY Zenon DEF FirstSeen
<1> HIDE DEF writes
<1>8. /\ \A k \in DOMAIN NextSticky(n) :
           k \in DOMAIN Here(n) /\ Named(n, k, NextSticky(n)[k]) /\ NextSticky(n)[k] \in Names
      /\ \A j, k \in DOMAIN NextSticky(n) : NextSticky(n)[j] = NextSticky(n)[k] => j = k
  BY NextStickySuits, Zenon
<1> USE DEF Inv
<1>9. Types'
  <2>1. print' = print /\ Instances' = Instances
    BY <1>1, Zenon DEF hardware, Instances
  <2>2. DOMAIN sticky' = Nodes /\ DOMAIN seen' = Nodes /\ DOMAIN local' = Nodes
    BY ScanDoes, Zenon DEF Types
  <2>3. todo' \in [Nodes -> SUBSET Write]
    <3>1. todo' = [todo EXCEPT ![n] = writes] /\ writes \subseteq Write
      BY <1>6, ScanDoes, Zenon DEF view, writes
    <3> QED BY <3>1, Zenon DEF Types
  <2>4. /\ objects' \in [Nodes -> [Names -> Object \cup {None}] \cup {None}]
        /\ lagging' \in [Nodes -> [Names -> Object \cup {None}] \cup {None}]
    <3>1. /\ objects' = [objects EXCEPT ![n] = IF todo'[n] = {} THEN None ELSE Os(n)]
          /\ lagging' = [lagging EXCEPT ![n] = None]
      BY ScanDoes, Zenon
    <3> QED BY <1>5, <3>1, Zenon DEF Types
  <2>5. ASSUME NEW p \in Nodes
        PROVE  /\ DOMAIN sticky'[p] \subseteq Instances
               /\ \A k \in DOMAIN sticky'[p] : sticky'[p][k] \in Names
    BY <1>2, <1>3, <1>8, Zenon DEF Types
  <2>6. ASSUME NEW p \in Nodes
        PROVE  /\ DOMAIN seen'[p] \subseteq Instances
               /\ \A k \in DOMAIN seen'[p] : seen'[p][k] \in {"young", "old"}
    BY <1>2, <1>3, <1>7, SMTT(30) DEF Types
  <2>7. ASSUME NEW p \in Nodes
        PROVE  /\ DOMAIN local'[p] \subseteq Names
               /\ \A m \in DOMAIN local'[p] : local'[p][m] \in Instances
    BY <1>2, <1>3, <1>4 DEF Types
  <2> QED BY <1>1, <2>1, <2>2, <2>3, <2>4, <2>5, <2>6, <2>7, Zenon DEF Types, hardware
<1>10. Counted'
  BY <1>1, Zenon DEF Counted, hardware
<1>11. SoundObjects'
  <2>1. \A m \in Names : Sound(m, obj[m])'
    BY <1>1, Still DEF SoundObjects
  <2>2. ASSUME NEW p \in Nodes, objects'[p] # None, NEW m \in Names
        PROVE  Sound(m, objects[p][m])'
    <3>1. CASE p = n
      BY <1>1, <1>2, <1>5, <2>2, <3>1, Still, Zenon
    <3>2. CASE p # n
      BY <1>1, <1>2, <2>2, <3>2, Still, Zenon DEF SoundObjects
    <3> QED BY <3>1, <3>2, Zenon
  <2>3. ASSUME NEW p \in Nodes, lagging'[p] # None, NEW m \in Names
        PROVE  Sound(m, lagging[p][m])' /\ (lagging'[p][m] \in Object => obj'[m] \in Object)
    BY <1>1, <1>2, <2>3, Still, Zenon DEF SoundObjects
  <2> QED BY <2>1, <2>2, <2>3, Zenon DEF SoundObjects
<1>12. Remembered'
  <2>1. ASSUME NEW p \in Nodes, NEW k \in DOMAIN sticky'[p]
        PROVE  Placed(p, k)' /\ Named(p, k, sticky[p][k])'
    <3>1. Placed(p, k) /\ Named(p, k, sticky'[p][k])
      <4>1. CASE p = n
        BY <1>2, <1>3, <1>8, <2>1, <4>1, Zenon
      <4>2. CASE p # n
        BY <1>2, <2>1, <4>2, Zenon DEF Remembered
      <4> QED BY <4>1, <4>2, Zenon
    <3> QED BY <1>1, <3>1, Still, Zenon
  <2>2. ASSUME NEW p \in Nodes, NEW k \in DOMAIN seen'[p]
        PROVE  Placed(p, k)'
    <3>1. Placed(p, k)
      <4>1. CASE p = n
        BY <1>2, <1>3, <1>7, <2>2, <4>1, Zenon
      <4>2. CASE p # n
        BY <1>2, <2>2, <4>2, Zenon DEF Remembered
      <4> QED BY <4>1, <4>2, Zenon
    <3> QED BY <1>1, <3>1, Still, Zenon
  <2>3. ASSUME NEW p \in Nodes, NEW m \in DOMAIN local'[p]
        PROVE  Placed(p, local[p][m])' /\ Named(p, local[p][m], m)'
    <3>1. Placed(p, local'[p][m]) /\ Named(p, local'[p][m], m)
      <4>1. CASE p = n
        BY <1>2, <1>3, <1>4, <2>3, <4>1, Zenon
      <4>2. CASE p # n
        BY <1>2, <2>3, <4>2, Zenon DEF Remembered
      <4> QED BY <4>1, <4>2, Zenon
    <3> QED BY <1>1, <3>1, Still, Zenon
  <2> QED BY <2>1, <2>2, <2>3, Zenon DEF Remembered
<1>13. Waited'
  <2> SUFFICES ASSUME NEW p \in Nodes, NEW k \in DOMAIN seen'[p], seen'[p][k] = "old", k.dev \notin hasty,
                      NEW m \in Names
               PROVE  Outlived(obj[m], k) /\ (lagging'[p] # None => Outlived(lagging'[p][m], k))
    BY <1>1 DEF Waited
  <2>1. k \in DOMAIN seen[p] /\ seen[p][k] = "old"
    BY <1>2, <1>7, Zenon
  <2>2. Outlived(obj[m], k) /\ (lagging[p] # None => Outlived(lagging[p][m], k))
    BY <2>1, Zenon DEF Waited
  <2> QED BY <1>2, <2>2, Zenon
<1>14. Pending'
  <2> SUFFICES ASSUME NEW p \in Nodes, NEW w \in todo'[p]
               PROVE  /\ objects'[p] \in [Names -> Object \cup {None}]
                      /\ w.op # "unplug" => w.name \in DOMAIN local'[p]
                      /\ w.op = "status" => obj'[w.name] \in Object
                      /\ w.op = "unplug" => /\ objects'[p][w.name] \in Object
                                            /\ objects'[p][w.name].node = p
                                            /\ w.name \notin DOMAIN local'[p]
    BY Zenon DEF Pending
  <2>1. CASE p = n
    BY <1>1, <1>2, <1>5, <1>6, <2>1, Zenon DEF Write
  <2>2. CASE p # n
    <3>1. todo'[p] = todo[p] /\ objects'[p] = objects[p] /\ local'[p] = local[p] /\ obj' = obj
      BY <1>1, <1>2, <2>2, Zenon
    <3> QED BY <3>1, Zenon DEF Pending
  <2> QED BY <2>1, <2>2, Zenon
<1>15. OwnNames'
  BY <1>2, <1>8, Zenon DEF OwnNames
<1> QED BY <1>9, <1>10, <1>11, <1>12, <1>13, <1>14, <1>15, Zenon

-----------------------------------------------------------------------------
(* The theorems.                                                           *)

\* Every step keeps the invariant.
LEMMA NextInv == Inv /\ [Next]_vars => Inv'
<1> SUFFICES ASSUME Inv, [Next]_vars PROVE Inv'
  OBVIOUS
<1>1. CASE Environment
  BY <1>1, PlugInv, UnplugInv, HeartbeatInv, MarkLostInv, GraceInv DEF Environment
<1>2. ASSUME NEW n \in Nodes, Agent(n)
      PROVE  Inv'
  BY <1>2, ScanInv, ApplyInv, PatchStatusInv, MarkUnpluggedInv, LagInv, WriteFailsInv, RestartInv, Zenon
     DEF Agent, Scanning
<1>3. CASE UNCHANGED vars
  <2>1. UNCHANGED <<hardware, obj, stores, agent, hasty, changes>> /\ hasty \subseteq hasty'
    BY <1>3, Zenon DEF vars
  <2>2. Types'
    BY <2>1, Zenon DEF Inv, Types, hardware, stores, agent, Instances
  <2>3. SoundObjects' /\ Remembered'
    BY <2>1, Still, ObjectsStay, AgentsStay, Zenon DEF Inv
  <2>4. Counted' /\ Waited' /\ Pending' /\ OwnNames'
    BY <2>1 DEF Inv, Counted, Waited, Pending, OwnNames, hardware, stores, agent
  <2> QED BY <2>2, <2>3, <2>4, Zenon DEF Inv
<1> QED BY <1>1, <1>2, <1>3 DEF Next

\* The invariant holds always.
LEMMA Invariance == Spec => []Inv
BY InitInv, NextInv, PTL DEF Spec

\* The types hold for every population, every number of nodes and disturbances, and
\* what is available says which instance it is.
THEOREM TypeCorrect == Spec => []TypeOK
<1>1. Inv => TypeOK
  BY DEF Inv, SoundObjects, Sound, TypeOK
<1> QED BY <1>1, Invariance, PTL

\* No agent has one name for two devices, whatever it restarts from and however
\* late its store is.
THEOREM NamesAreOwn == Spec => []OwnNames
<1>1. Inv => OwnNames
  BY DEF Inv
<1> QED BY <1>1, Invariance, PTL

\* A device that is unlike every other one has its best name wherever it is served,
\* unless a grace period ended while a heartbeat of an earlier instance counted.
THEOREM NameFollows == Spec => []NameFollowsDevice
<1>1. Inv => NameFollowsDevice
  BY Zenon DEF Inv, Remembered, NameFollowsDevice, Named
<1> QED BY <1>1, Invariance, PTL

\* An instance in its place, published under a name that its agent remembers, with
\* the right fingerprint: what StaysNamed is about.
Settled(m) ==
    LET o == obj[m]
    IN  /\ o # None /\ Shows(m, o.key) /\ InPlace(o) /\ o.fp = print[o.key.dev]
        /\ o.key \in DOMAIN sticky[o.node] /\ sticky[o.node][o.key] = m
        /\ Uncontested(m, o.node, o.key) /\ lagging[o.node] = None

\* A scan keeps its name: the object is its own, so no tie is lost.
LEMMA ScanStays ==
    ASSUME Inv, NEW m \in Names, Settled(m), NEW n \in Nodes, n = obj[m].node, ScanOnce(n)
    PROVE  obj[m].key \in DOMAIN sticky'[n] /\ sticky'[n][obj[m].key] = m
<1> DEFINE k == obj[m].key
<1>1. Os(n) = obj /\ obj[m] # None /\ obj[m].fp = print[k.dev]
  BY Zenon DEF Settled, Os
<1>2. k \in DOMAIN Here(n) /\ k \in DOMAIN sticky[n] /\ sticky[n][k] = m
  BY ScanFinds, Zenon DEF Settled, InPlace
<1>3. Here(n)[k] = print[k.dev] /\ Enumerated(Here(n))
  BY <1>2, ScanFinds
<1>4. k \in DOMAIN Kept(n) /\ Kept(n)[k] = m
  BY <1>1, <1>2, <1>3, Zenon DEF Kept, Retained
<1>5. ~LostTie(n, Known(Os(n)), m)
  <2>1. m \in DOMAIN Known(Os(n)) => Known(Os(n))[m].on \in {None, n}
    BY <1>1, Zenon DEF Known
  <2> QED BY <2>1, Zenon DEF LostTie, HeldElsewhere
<1>6. k \in Keeps(n)
  <2>1. \A j \in DOMAIN Kept(n) : Kept(n)[j] = Kept(n)[k] => j = k
    BY <1>4, ScanKeeps, Zenon
  <2>2. k.port <= k.port
    BY <1>2, <1>3 DEF Enumerated, Ports
  <2> HIDE DEF k
  <2> QED BY <1>2, <1>4, <1>5, <2>1, <2>2, Zenon DEF Keeps, Keep
<1>7. Made(n)[k].name = m /\ ~Made(n)[k].deferred
  <2>1. Made(n)[k] = Assigned(m)
    BY <1>2, <1>3, <1>4, <1>6, KeptName, SMTT(30) DEF Made
  <2> QED BY <2>1 DEF Assigned
<1>8. k \in DOMAIN NextSticky(n) /\ NextSticky(n)[k] = m
  BY <1>4, <1>7, Zenon DEF NextSticky
<1>9. sticky'[n] = NextSticky(n)
  BY ScanDoes, Zenon DEF Inv, Types
<1> QED BY <1>8, <1>9, Zenon

\* A restart recovers it: no other object shows the instance.
LEMMA RestartStays ==
    ASSUME Inv, NEW m \in Names, Settled(m), NEW n \in Nodes, n = obj[m].node, Restart(n)
    PROVE  obj[m].key \in DOMAIN sticky'[n] /\ sticky'[n][obj[m].key] = m
<1> DEFINE k == obj[m].key
           mine == {x \in Names : /\ obj[x] # None /\ obj[x].node = n
                                  /\ obj[x].phase = "Available" /\ obj[x].key # None}
<1>1. PICK f \in RecoverAssignments(n) : sticky' = [sticky EXCEPT ![n] = f]
  BY Zenon DEF Restart
<1>2. f \in [{obj[x].key : x \in mine} -> mine] /\ \A i \in DOMAIN f : obj[f[i]].key = i
  BY <1>1, Zenon DEF RecoverAssignments
<1>3. m \in mine
  BY Zenon DEF Settled, Shows, InPlace
<1>4. k \in DOMAIN f /\ f[k] \in mine /\ obj[f[k]].key = k
  BY <1>2, <1>3, Zenon
<1>5. f[k] = m
  BY <1>4, Zenon DEF Settled, Uncontested, Shows
<1>6. sticky'[n] = f
  BY <1>1 DEF Inv, Types
<1> QED BY <1>4, <1>5, <1>6

\* A device that stays plugged in keeps its published name, whatever step is taken.
THEOREM PublishedNameStays == Spec => StaysNamed
<1>1. Inv /\ [Next]_vars =>
        [\A m \in Names :
           LET o == obj[m]
           IN  /\ o # None /\ Shows(m, o.key) /\ InPlace(o) /\ o.fp = print[o.key.dev]
               /\ o.key \in DOMAIN sticky[o.node] /\ sticky[o.node][o.key] = m
               /\ Uncontested(m, o.node, o.key) /\ lagging[o.node] = None
               => o.key \in DOMAIN sticky'[o.node] /\ sticky'[o.node][o.key] = m]_vars
  <2> SUFFICES ASSUME Inv, Next, NEW m \in Names, Settled(m)
               PROVE  /\ obj[m].key \in DOMAIN sticky'[obj[m].node]
                      /\ sticky'[obj[m].node][obj[m].key] = m
    BY DEF Settled
  <2>1. obj[m].node \in Nodes
    BY Zenon DEF Settled, InPlace, Inv, Types, Object
  <2>2. CASE sticky' = sticky
    BY <2>2, Zenon DEF Settled
  <2>3. ASSUME NEW n \in Nodes, ScanOnce(n)
        PROVE  /\ obj[m].key \in DOMAIN sticky'[obj[m].node]
               /\ sticky'[obj[m].node][obj[m].key] = m
    <3>1. CASE n = obj[m].node
      BY <2>3, <3>1, ScanStays, Zenon
    <3>2. CASE n # obj[m].node
      <4>1. sticky'[obj[m].node] = sticky[obj[m].node]
        <5>1. sticky' = [sticky EXCEPT ![n] = NextSticky(n)]
          BY <2>3, ScanDoes, Zenon
        <5> QED BY <2>1, <3>2, <5>1, Zenon DEF Inv, Types
      <4> QED BY <4>1, Zenon DEF Settled
    <3> QED BY <3>1, <3>2, Zenon
  <2>4. ASSUME NEW n \in Nodes, Restart(n)
        PROVE  /\ obj[m].key \in DOMAIN sticky'[obj[m].node]
               /\ sticky'[obj[m].node][obj[m].key] = m
    <3>1. CASE n = obj[m].node
      BY <2>4, <3>1, RestartStays, Zenon
    <3>2. CASE n # obj[m].node
      <4>1. sticky'[obj[m].node] = sticky[obj[m].node]
        BY <2>1, <2>4, <3>2, Zenon DEF Restart, Inv, Types
      <4> QED BY <4>1, Zenon DEF Settled
    <3> QED BY <3>1, <3>2, Zenon
  <2>5. CASE Environment
    <3>1. sticky' = sticky
      BY <2>5 DEF Environment, Plug, Unplug, HeartbeatExpires, MarkLost, GraceEnds, agent
    <3> QED BY <2>2, <3>1
  <2>6. ASSUME NEW n \in Nodes, NEW w \in todo[n],
               Apply(n, w) \/ PatchStatus(n, w) \/ MarkUnplugged(n, w) \/ WriteFails(n, w)
        PROVE  sticky' = sticky
    BY <2>6, Zenon DEF Apply, PatchStatus, MarkUnplugged, WriteFails, Done
  <2>7. ASSUME NEW n \in Nodes, Lag(n)
        PROVE  sticky' = sticky
    BY <2>7 DEF Lag, agent
  <2> QED BY <2>2, <2>3, <2>4, <2>5, <2>6, <2>7, Zenon DEF Next, Agent, Scanning
<1> QED BY <1>1, Invariance, PTL DEF Spec, StaysNamed

\* A step that marks an object unplugged is a guarded write of the node in it,
\* whose local view has been without that name since its scan.
THEOREM ServedIsNotUnplugged == Spec => ServedStaysAvailable
<1>1. Inv /\ [Next]_vars =>
        [\A m \in Names :
           obj[m] # None /\ obj[m].phase = "Available" /\ obj'[m].phase = "Unplugged"
           => m \notin DOMAIN local[obj[m].node]]_vars
  <2> SUFFICES ASSUME Inv, Next, NEW m \in Names, obj[m] # None, obj[m].phase = "Available",
                      obj'[m].phase = "Unplugged"
               PROVE  m \notin DOMAIN local[obj[m].node]
    BY Zenon
  <2>1. obj[m] \in Object /\ obj' # obj
    BY DEF Inv, Types
  <2>2. \A x \in Names : \A o : obj' = [obj EXCEPT ![x] = o] => obj'[m] = (IF m = x THEN o ELSE obj[m])
    BY Zenon DEF Inv, Types
  <2>3. ASSUME NEW x \in Names, HeartbeatExpires(x) \/ MarkLost(x)
        PROVE  FALSE
    <3>1. obj' = [obj EXCEPT ![x] = Aged(obj[x])] \/ obj' = [obj EXCEPT ![x] = [obj[x] EXCEPT !.phase = "Lost"]]
      BY <2>3 DEF HeartbeatExpires, MarkLost
    <3>2. x = m
      BY <2>2, <3>1, Zenon
    <3>3. Aged(obj[m]).phase = "Available" /\ [obj[m] EXCEPT !.phase = "Lost"].phase = "Lost"
      BY <2>1 DEF Aged, Object
    <3> QED BY <2>2, <3>1, <3>2, <3>3
  <2>4. CASE Environment
    BY <2>1, <2>3, <2>4 DEF Environment, Plug, Unplug, GraceEnds
  <2>5. ASSUME NEW n \in Nodes, NEW w \in todo[n], Apply(n, w) \/ PatchStatus(n, w)
        PROVE  FALSE
    <3>1. w.name \in Names
      BY DEF Inv, Types, Write
    <3>2. CASE Apply(n, w)
      <4> DEFINE fp == print[local[n][w.name].dev]
                 o == [obj[m] EXCEPT !.fp = fp, !.label = n]
      <4>1. w.name = m => obj' = [obj EXCEPT ![w.name] = o]
        BY <3>2, Zenon DEF Apply
      <4>2. o.phase = "Available"
        BY <2>1 DEF Object
      <4>3. w.name # m => obj'[m] = obj[m]
        BY <3>1, <3>2, Zenon DEF Apply, Inv, Types
      <4> HIDE DEF o
      <4> QED BY <2>2, <4>1, <4>2, <4>3
    <3>3. CASE PatchStatus(n, w)
      <4>1. PICK counts : obj' = [obj EXCEPT ![w.name] =
                                    [obj[w.name] EXCEPT !.phase = "Available", !.node = n,
                                                        !.key = local[n][w.name], !.fresh = counts]]
        BY <3>3 DEF PatchStatus
      <4> DEFINE o == [obj[m] EXCEPT !.phase = "Available", !.node = n,
                                     !.key = local[n][w.name], !.fresh = counts]
      <4>2. o.phase = "Available"
        BY <2>1 DEF Object
      <4>3. w.name = m => obj'[m] = o
        BY <2>2, <3>1, <4>1
      <4>4. w.name # m => obj'[m] = obj[m]
        BY <2>2, <3>1, <4>1
      <4> HIDE DEF o
      <4> QED BY <4>2, <4>3, <4>4
    <3> QED BY <2>5, <3>2, <3>3
  <2>6. ASSUME NEW n \in Nodes, NEW w \in todo[n], MarkUnplugged(n, w)
        PROVE  m \notin DOMAIN local[obj[m].node]
    <3>1. w.name \in Names /\ w.op = "unplug"
      BY <2>6 DEF MarkUnplugged, Inv, Types, Write
    <3>2. obj[w.name] = objects[n][w.name]
      BY <2>1, <2>6, Zenon DEF MarkUnplugged
    <3>3. w.name = m
      BY <2>2, <2>6, <3>1, <3>2, Zenon DEF MarkUnplugged
    <3> QED BY <3>1, <3>2, <3>3, Zenon DEF Inv, Pending
  <2>7. ASSUME NEW n \in Nodes,
               ScanOnce(n) \/ Lag(n) \/ Restart(n) \/ \E w \in todo[n] : WriteFails(n, w)
        PROVE  FALSE
    BY <2>1, <2>7, Zenon DEF ScanOnce, Lag, Restart, WriteFails
  <2> QED BY <2>4, <2>5, <2>6, <2>7, Zenon DEF Next, Agent, Scanning
<1> QED BY <1>1, Invariance, PTL DEF Spec, ServedStaysAvailable
=============================================================================
