-------------------------- MODULE DiscoverySteps ---------------------------
(***************************************************************************)
(* The inductive invariant of Discovery, for every number of nodes,        *)
(* devices and disturbances, and the steps that keep it: all but the scan  *)
(* itself, which DiscoveryProofs is about.                                 *)
(***************************************************************************)
EXTENDS Discovery, TLAPS

-----------------------------------------------------------------------------
(* The inductive invariant.                                                *)

\* A name that an instance may have on node n: one of its port or its attributes,
\* and the best one if it is unlike every other device and was never hasty.
Named(n, key, m) ==
    LET d == key.dev
    IN  /\ \/ m = PortName(n, key.port)
           \/ \E i \in 1 .. 3 : Applies(print[d], Order[i]) /\ m = PortableName(print[d], Order[i])
        /\ Unique(d) /\ d \notin hasty => m = Best(print[d])

\* An instance that node p saw: there was such an instance, and if it is plugged
\* in now then at p.
Placed(p, key) ==
    /\ key \in Instances
    /\ key.num <= num[key.dev]
    /\ key.num = num[key.dev] => at[key.dev] \in {None, p}

\* What is plugged in was enumerated, at most once more than it was unplugged, and
\* has a port of its own.
Counted ==
    \A d \in Devices :
        /\ num[d] <= changes + (IF at[d] = None THEN 0 ELSE 1)
        /\ at[d] # None =>
             /\ num[d] > 0 /\ d \in DOMAIN print /\ port[d] \in Ports
             /\ \A e \in Devices : at[e] = at[d] /\ port[e] = port[d] => e = d

\* An object of name m: the name suits the device in its spec and the instance in
\* its status.
Sound(m, o) ==
    o # None =>
      /\ \E p \in Nodes, k \in Instances : o.fp = print[k.dev] /\ Named(p, k, m)
      /\ o.phase = "Available" => o.key # None
      /\ o.key # None => o.node \in Nodes /\ Placed(o.node, o.key) /\ Named(o.node, o.key, m)

\* The objects, and all copies that an agent may still work on.
SoundObjects ==
    /\ \A m \in Names : Sound(m, obj[m])
    /\ \A n \in Nodes : objects[n] # None => \A m \in Names : Sound(m, objects[n][m])
    /\ \A n \in Nodes : lagging[n] # None =>
         \A m \in Names : Sound(m, lagging[n][m]) /\ (lagging[n][m] \in Object => obj[m] \in Object)

\* What the agents remember.
Remembered ==
    \A n \in Nodes :
        /\ \A k \in DOMAIN sticky[n] : Placed(n, k) /\ Named(n, k, sticky[n][k])
        /\ \A k \in DOMAIN seen[n] : Placed(n, k)
        /\ \A m \in DOMAIN local[n] : Placed(n, local[n][m]) /\ Named(n, local[n][m], m)

\* No agent that has waited for lost_after still sees an earlier instance of the
\* device as available, unless it was hasty.
Waited ==
    \A n \in Nodes : \A k \in DOMAIN seen[n] :
        seen[n][k] = "old" /\ k.dev \notin hasty =>
          \A m \in Names :
            Outlived(obj[m], k) /\ (lagging[n] # None => Outlived(lagging[n][m], k))

\* The writes of a scan are about what it read and named.
Pending ==
    \A n \in Nodes : \A w \in todo[n] :
        /\ objects[n] \in [Names -> Object \cup {None}]
        /\ w.op # "unplug" => w.name \in DOMAIN local[n]
        /\ w.op = "status" => obj[w.name] \in Object
        /\ w.op = "unplug" => /\ objects[n][w.name] \in Object /\ objects[n][w.name].node = n
                              /\ w.name \notin DOMAIN local[n]

Inv == Types /\ Counted /\ SoundObjects /\ Remembered /\ Waited /\ Pending /\ OwnNames

-----------------------------------------------------------------------------
(* What no step changes.                                                   *)

\* The fingerprints stay, and so do the names that suit them.
LEMMA NamedStays ==
    ASSUME print' = print, hasty \subseteq hasty'
    PROVE  \A n, key, m : Named(n, key, m) => Named(n, key, m)'
<1>1. \A d : Unique(d)' <=> Unique(d)
  BY DEF Unique
<1> QED BY <1>1 DEF Named

\* An instance stays where it was seen, or is unplugged for ever.
LEMMA PlacedStays ==
    ASSUME print' = print, at' = at, num' = num
    PROVE  \A p, key : Placed(p, key) => Placed(p, key)'
BY DEF Placed, Instances

\* So a sound object stays sound.
LEMMA SoundStays ==
    ASSUME print' = print, hasty \subseteq hasty', \A p, key : Placed(p, key) => Placed(p, key)'
    PROVE  \A m, o : Sound(m, o) => Sound(m, o)'
<1>1. Instances' = Instances
  BY DEF Instances
<1> QED BY <1>1, NamedStays DEF Sound

\* A step of the agents or of time: the hardware stays.
LEMMA Still ==
    ASSUME UNCHANGED hardware, hasty \subseteq hasty'
    PROVE  /\ print' = print /\ at' = at /\ num' = num
           /\ \A n, key, m : Named(n, key, m) => Named(n, key, m)'
           /\ \A p, key : Placed(p, key) => Placed(p, key)'
           /\ \A m, o : Sound(m, o) => Sound(m, o)'
<1>1. print' = print /\ at' = at /\ num' = num
  BY DEF hardware
<1> QED BY <1>1, NamedStays, PlacedStays, SoundStays

\* What is unchanged keeps the invariant.
LEMMA ObjectsStay ==
    ASSUME SoundObjects, UNCHANGED <<obj, stores>>, \A m, o : Sound(m, o) => Sound(m, o)'
    PROVE  SoundObjects'
BY DEF SoundObjects, stores

\* What the agents remember stays right when they and the fingerprints are unchanged.
LEMMA AgentsStay ==
    ASSUME Remembered, UNCHANGED agent, print' = print, hasty \subseteq hasty',
           \A p, key : Placed(p, key) => Placed(p, key)'
    PROVE  Remembered'
BY NamedStays DEF Remembered, agent

\* A disturbance that is no unplugging leaves room for the enumerations so far.
LEMMA CountedStays ==
    ASSUME Types, Counted, UNCHANGED hardware, changes' \in Nat, changes' >= changes
    PROVE  Counted'
<1>1. print' = print /\ at' = at /\ num' = num /\ port' = port
  BY DEF hardware
<1>2. changes \in Nat /\ \A d \in Devices : num[d] \in Nat
  BY BoundsAssumption DEF Types
<1>3. ASSUME NEW d \in Devices
      PROVE  num[d] <= changes' + (IF at[d] = None THEN 0 ELSE 1)
  <2>1. num[d] <= changes + (IF at[d] = None THEN 0 ELSE 1)
    BY DEF Counted
  <2> QED BY <1>2, <2>1
<1> QED BY <1>1, <1>3, Zenon DEF Counted

-----------------------------------------------------------------------------
(* Devices, time, and the controller.                                      *)

\* Nothing is plugged in, published or remembered in the beginning.
LEMMA InitInv == Init => Inv
<1> SUFFICES ASSUME Init PROVE Inv
  OBVIOUS
<1>1. print \in DOMAIN MaxChanges /\ MaxChanges[print] \in Nat
  BY BoundsAssumption DEF Init
<1>2. Types
  BY <1>1 DEF Init, Types, Empty
<1>3. Counted
  BY DEF Init, Counted
<1>4. SoundObjects
  BY DEF Init, SoundObjects, Sound
<1>5. Remembered /\ Waited /\ Pending /\ OwnNames
  BY DEF Init, Empty, Remembered, Waited, Pending, OwnNames
<1> QED BY <1>2, <1>3, <1>4, <1>5 DEF Inv

\* A device that is plugged in is a new instance: what was seen before is older.
LEMMA PlugInv ==
    ASSUME Inv, NEW d \in Devices, NEW n \in Nodes, NEW p \in Ports, Plug(d, n, p)
    PROVE  Inv'
<1> USE DEF Inv
<1>1. print' = print /\ UNCHANGED <<obj, stores, agent, hasty, changes>>
  BY DEF Plug
<1>2. at[d] = None /\ d \in DOMAIN print /\ n # None
  BY IdentityAssumption DEF Plug
<1>3. num[d] <= changes /\ changes \in Nat /\ MaxChanges[print] \in Nat
  BY <1>2, BoundsAssumption DEF Counted, Types
<1>4. Types'
  <2>1. num[d] + 1 \in 0 .. MaxChanges[print] + 1
    BY <1>3 DEF Types
  <2>2. /\ num' \in [Devices -> 0 .. MaxChanges[print] + 1] /\ at' \in [Devices -> Nodes \cup {None}]
        /\ port' \in [Devices -> Ports \cup {None}]
    BY <2>1 DEF Types, Plug
  <2> QED BY <1>1, <2>2 DEF Types, stores, agent, Instances
<1>5. Counted'
  <2>1. \A e \in Devices : /\ at'[e] = (IF e = d THEN n ELSE at[e])
                           /\ port'[e] = (IF e = d THEN p ELSE port[e])
                           /\ num'[e] = (IF e = d THEN num[e] + 1 ELSE num[e])
    BY DEF Plug, Types
  <2>2. \A e \in Devices : at[e] = n => port[e] # p
    BY DEF Plug
  <2>3. \A e \in Devices : num[e] \in Nat
    BY <1>3 DEF Types
  <2>4. ASSUME NEW e \in Devices
        PROVE  /\ num'[e] <= changes + (IF at'[e] = None THEN 0 ELSE 1)
               /\ at'[e] # None => num'[e] > 0 /\ e \in DOMAIN print /\ port'[e] \in Ports
    BY <1>2, <1>3, <2>1, <2>3 DEF Counted
  <2>5. ASSUME NEW e \in Devices, at'[e] # None, NEW f \in Devices, at'[f] = at'[e], port'[f] = port'[e]
        PROVE  f = e
    <3>1. CASE e = d \/ f = d
      BY <2>1, <2>2, <2>5, <3>1
    <3>2. CASE e # d /\ f # d
      BY <2>1, <2>5, <3>2, Zenon DEF Counted
    <3> QED BY <3>1, <3>2
  <2> QED BY <1>1, <2>4, <2>5, Zenon DEF Counted
<1>6. \A q, key : Placed(q, key) => Placed(q, key)'
  BY <1>1, <1>2 DEF Placed, Plug, Types, Instances
<1>7. SoundObjects' /\ Remembered'
  BY <1>1, <1>6, SoundStays, ObjectsStay, AgentsStay
<1>8. Waited' /\ Pending' /\ OwnNames'
  BY <1>1 DEF Waited, Pending, OwnNames, stores, agent
<1> QED BY <1>4, <1>5, <1>7, <1>8

\* A device that is unplugged is nowhere, which suits every node that saw it.
LEMMA UnplugInv ==
    ASSUME Inv, NEW d \in Devices, Unplug(d)
    PROVE  Inv'
<1> USE DEF Inv
<1>1. print' = print /\ num' = num /\ UNCHANGED <<obj, stores, agent, hasty>>
  BY DEF Unplug
<1>2. changes' = changes + 1 /\ changes' \in 0 .. MaxChanges[print] /\ MaxChanges[print] \in Nat
  BY BoundsAssumption DEF Unplug, Disturb, Types
<1>3. Types'
  BY <1>1, <1>2 DEF Types, Unplug, stores, agent, Instances
<1>4. Counted'
  <2>1. \A e \in Devices : /\ at'[e] = (IF e = d THEN None ELSE at[e])
                           /\ port'[e] = (IF e = d THEN None ELSE port[e])
    BY DEF Unplug, Types
  <2>2. \A e \in Devices : num[e] \in Nat
    BY <1>2 DEF Types
  <2>3. ASSUME NEW e \in Devices
        PROVE  num[e] <= changes' + (IF at'[e] = None THEN 0 ELSE 1)
    BY <1>2, <2>1, <2>2 DEF Counted, Types, Unplug
  <2>4. ASSUME NEW e \in Devices, at'[e] # None
        PROVE  /\ num[e] > 0 /\ e \in DOMAIN print /\ port'[e] \in Ports
               /\ \A f \in Devices : at'[f] = at'[e] /\ port'[f] = port'[e] => f = e
    BY <2>1, <2>4, Zenon DEF Counted
  <2> QED BY <1>1, <2>3, <2>4, Zenon DEF Counted
<1>5. \A p, key : Placed(p, key) => Placed(p, key)'
  BY <1>1 DEF Placed, Unplug, Types, Instances
<1>6. SoundObjects' /\ Remembered'
  BY <1>1, <1>5, SoundStays, ObjectsStay, AgentsStay
<1>7. Waited' /\ Pending' /\ OwnNames'
  BY <1>1 DEF Waited, Pending, OwnNames, stores, agent
<1> QED BY <1>3, <1>4, <1>6, <1>7

\* Ageing an object, or a copy, leaves it sound and less available.
LEMMA AgedSound ==
    ASSUME NEW o \in Object \cup {None}
    PROVE  /\ Aged(o) \in Object \cup {None}
           /\ o \in Object => Aged(o) \in Object
           /\ Aged(o) \in Object => o \in Object
           /\ o \in Object => Aged(o).node = o.node
           /\ \A m : Sound(m, o) => Sound(m, Aged(o))
           /\ \A key : Outlived(o, key) => Outlived(Aged(o), key)
<1>1. CASE o = None
  BY <1>1 DEF Aged
<1>2. CASE o # None
  <2> DEFINE a == Aged(o)
  <2>1. o \in Object
    BY <1>2
  <2>2. /\ a \in Object /\ a.fp = o.fp /\ a.phase = o.phase /\ a.node = o.node /\ a.key = o.key
        /\ ~a.fresh
    BY <1>2, <2>1, Zenon DEF Aged, Object
  <2> HIDE DEF a
  <2>3. \A m : Sound(m, o) => Sound(m, a)
    BY <1>2, <2>2 DEF Sound
  <2>4. \A key : Outlived(a, key)
    BY <2>2 DEF Outlived, IsAvailable
  <2> QED BY <2>1, <2>2, <2>3, <2>4 DEF a
<1> QED BY <1>1, <1>2

\* A heartbeat that grows old in the object and its copies outlives nothing.
LEMMA HeartbeatInv ==
    ASSUME Inv, NEW m \in Names, HeartbeatExpires(m)
    PROVE  Inv'
<1> USE DEF Inv
<1>1. UNCHANGED <<hardware, agent, hasty>>
  BY DEF HeartbeatExpires
<1>2. changes' = changes + 1 /\ changes' \in 0 .. MaxChanges[print] /\ changes \in Nat
  BY BoundsAssumption DEF HeartbeatExpires, Disturb, Types
<1>3. \A x \in Names : obj'[x] = (IF x = m THEN Aged(obj[x]) ELSE obj[x])
  BY DEF HeartbeatExpires, Types
<1>4. ASSUME NEW os \in [Names -> Object \cup {None}] \cup {None}
      PROVE  /\ os = None => Copy(os, m) = None
             /\ os \in [Names -> Object \cup {None}] =>
                  Copy(os, m) \in [Names -> Object \cup {None}]
             /\ os # None =>
                  \A x \in Names : Copy(os, m)[x] = (IF x = m THEN Aged(os[x]) ELSE os[x])
  <2>1. CASE os = None
    BY <2>1 DEF Copy
  <2>2. CASE os # None
    <3>1. os \in [Names -> Object \cup {None}] /\ Aged(os[m]) \in Object \cup {None}
      BY <2>2, AgedSound
    <3> QED BY <2>2, <3>1 DEF Copy
  <2> QED BY <2>1, <2>2
<1>5. \A n \in Nodes : objects'[n] = Copy(objects[n], m) /\ lagging'[n] = Copy(lagging[n], m)
  BY DEF HeartbeatExpires
<1>6. ASSUME NEW n \in Nodes
      PROVE  /\ objects[n] \in [Names -> Object \cup {None}] \cup {None}
             /\ lagging[n] \in [Names -> Object \cup {None}] \cup {None}
  BY Zenon DEF Types
<1>7. Types'
  <2>1. obj' \in [Names -> Object \cup {None}]
    BY AgedSound DEF HeartbeatExpires, Types
  <2>2. /\ objects' \in [Nodes -> [Names -> Object \cup {None}] \cup {None}]
        /\ lagging' \in [Nodes -> [Names -> Object \cup {None}] \cup {None}]
    <3>1. /\ objects' = [n \in Nodes |-> Copy(objects[n], m)]
          /\ lagging' = [n \in Nodes |-> Copy(lagging[n], m)]
      BY DEF HeartbeatExpires
    <3> QED BY <1>4, <1>6, <3>1
  <2> QED BY <1>1, <1>2, <2>1, <2>2, Zenon DEF Types, hardware, agent, Instances
<1>8. Counted'
  BY <1>1, <1>2, CountedStays
<1>9. ASSUME NEW x \in Names
      PROVE  /\ Sound(x, obj[x]) => Sound(x, obj'[x])
             /\ obj[x] \in Object => obj'[x] \in Object
             /\ \A key : Outlived(obj[x], key) => Outlived(obj'[x], key)
  <2>1. obj[x] \in Object \cup {None}
    BY DEF Types
  <2> QED BY <1>3, <2>1, AgedSound
<1>10. ASSUME NEW os \in [Names -> Object \cup {None}] \cup {None}, os # None, NEW x \in Names
       PROVE  /\ Sound(x, os[x]) => Sound(x, Copy(os, m)[x])
              /\ Copy(os, m)[x] \in Object => os[x] \in Object
              /\ os[x] \in Object => Copy(os, m)[x] \in Object /\ Copy(os, m)[x].node = os[x].node
              /\ \A key : Outlived(os[x], key) => Outlived(Copy(os, m)[x], key)
  <2>1. Copy(os, m)[x] = (IF x = m THEN Aged(os[x]) ELSE os[x])
    BY <1>4, <1>10
  <2>2. os[x] \in Object \cup {None}
    BY <1>10
  <2> QED BY <2>1, <2>2, AgedSound
<1>11. SoundObjects'
  <2>1. ASSUME NEW x \in Names
        PROVE  Sound(x, obj[x])'
    BY <1>1, <1>9, Still, Zenon DEF SoundObjects
  <2>2. ASSUME NEW n \in Nodes, objects'[n] # None, NEW x \in Names
        PROVE  Sound(x, objects[n][x])'
    <3>1. objects[n] # None
      BY <1>4, <1>5, <1>6, <2>2, Zenon
    <3>2. Sound(x, Copy(objects[n], m)[x])
      BY <1>6, <1>10, <3>1, Zenon DEF SoundObjects
    <3> QED BY <1>1, <1>5, <3>2, Still
  <2>3. ASSUME NEW n \in Nodes, lagging'[n] # None, NEW x \in Names
        PROVE  Sound(x, lagging[n][x])' /\ (lagging'[n][x] \in Object => obj'[x] \in Object)
    <3>1. lagging[n] # None
      BY <1>4, <1>5, <1>6, <2>3
    <3>2. Sound(x, Copy(lagging[n], m)[x])
      BY <1>6, <1>10, <3>1, Zenon DEF SoundObjects
    <3>3. Copy(lagging[n], m)[x] \in Object => obj'[x] \in Object
      BY <1>6, <1>9, <1>10, <3>1 DEF SoundObjects
    <3> QED BY <1>1, <1>5, <3>2, <3>3, Still
  <2> QED BY <2>1, <2>2, <2>3, Zenon DEF SoundObjects
<1>12. Remembered' /\ OwnNames'
  BY <1>1, Still, AgentsStay DEF OwnNames, agent
<1>13. Waited'
  <2>1. seen' = seen
    BY <1>1, Zenon DEF agent
  <2>2. ASSUME NEW n \in Nodes, NEW k \in DOMAIN seen[n], seen[n][k] = "old", k.dev \notin hasty,
               NEW x \in Names
        PROVE  Outlived(obj'[x], k) /\ (lagging'[n] # None => Outlived(lagging'[n][x], k))
    BY <1>4, <1>5, <1>6, <1>9, <1>10, <2>2, Zenon DEF Waited
  <2> QED BY <1>1, <2>1, <2>2 DEF Waited
<1>14. Pending'
  <2>1. todo' = todo /\ local' = local
    BY <1>1 DEF agent
  <2>2. ASSUME NEW n \in Nodes, NEW w \in todo[n]
        PROVE  /\ objects'[n] \in [Names -> Object \cup {None}]
               /\ w.op = "status" => obj'[w.name] \in Object
               /\ w.op = "unplug" => objects'[n][w.name] \in Object /\ objects'[n][w.name].node = n
    <3>1. objects[n] \in [Names -> Object \cup {None}] /\ w.name \in Names
      BY DEF Pending, Types, Write
    <3>2. objects[n] = None => objects'[n] = objects[n]
      BY <1>4, <1>5, <1>6
    <3>3. w.op = "status" => obj'[w.name] \in Object
      BY <1>9, <3>1 DEF Pending
    <3>4. objects'[n] \in [Names -> Object \cup {None}]
      BY <1>4, <1>5, <3>1, Zenon
    <3>5. w.op = "unplug" => objects'[n][w.name] \in Object /\ objects'[n][w.name].node = n
      BY <1>5, <1>10, <3>1, <3>2 DEF Pending
    <3> QED BY <3>3, <3>4, <3>5, Zenon
  <2> QED BY <2>1, <2>2 DEF Pending
<1> QED BY <1>7, <1>8, <1>11, <1>12, <1>13, <1>14

\* The grace period of an instance ends after the heartbeats of earlier ones, or
\* the device is hasty.
LEMMA GraceInv ==
    ASSUME Inv, NEW n \in Nodes, NEW key \in DOMAIN seen[n], GraceEnds(n, key)
    PROVE  Inv'
<1> USE DEF Inv
<1>1. UNCHANGED <<hardware, obj, stores, sticky, local, todo, changes>>
  BY DEF GraceEnds
<1>2. DOMAIN seen' = Nodes /\ \A p \in Nodes : DOMAIN seen'[p] = DOMAIN seen[p]
  BY DEF GraceEnds, Types
<1>3. \A p \in Nodes : \A k \in DOMAIN seen[p] :
        seen'[p][k] = (IF p = n /\ k = key THEN "old" ELSE seen[p][k])
  BY Zenon DEF GraceEnds, Types
<1> DEFINE inTime == \A m \in Names :
                       Outlived(obj[m], key) /\ (lagging[n] # None => Outlived(lagging[n][m], key))
<1>4. hasty' = IF inTime THEN hasty ELSE hasty \cup {key.dev}
  BY Zenon DEF GraceEnds
<1>5. hasty \subseteq hasty' /\ hasty' \subseteq Devices /\ (inTime \/ key.dev \in hasty')
  <2>1. key.dev \in Devices
    BY BoundsAssumption DEF Types, Instances
  <2> HIDE DEF inTime
  <2> QED BY <1>4, <2>1 DEF Types
<1>6. Types'
  <2>1. print' = print /\ Instances' = Instances
    BY <1>1, Zenon DEF hardware, Instances
  <2>2. \A p \in Nodes : /\ DOMAIN seen'[p] \subseteq Instances
                         /\ \A k \in DOMAIN seen'[p] : seen'[p][k] \in {"young", "old"}
    BY <1>2, <1>3 DEF Types
  <2> QED BY <1>1, <1>2, <1>5, <2>1, <2>2 DEF Types, hardware, stores
<1>7. Counted' /\ Pending' /\ OwnNames'
  BY <1>1, Zenon DEF Counted, Pending, OwnNames, hardware, stores
<1>8. SoundObjects' /\ Remembered'
  BY <1>1, <1>2, <1>5, Still, ObjectsStay, Zenon DEF Remembered
<1>9. Waited'
  <2>1. obj' = obj /\ lagging' = lagging
    BY <1>1 DEF stores
  <2> SUFFICES ASSUME NEW p \in Nodes, NEW k \in DOMAIN seen[p], seen'[p][k] = "old",
                      k.dev \notin hasty', NEW m \in Names
               PROVE  Outlived(obj[m], k) /\ (lagging[p] # None => Outlived(lagging[p][m], k))
    BY <1>2, <2>1, Zenon DEF Waited
  <2>2. CASE p = n /\ k = key
    BY <1>5, <2>2, Zenon
  <2>3. CASE ~(p = n /\ k = key)
    BY <1>3, <1>5, <2>3, Zenon DEF Waited
  <2> QED BY <2>2, <2>3, Zenon
<1> QED BY <1>6, <1>7, <1>8, <1>9

\* A step that writes one object, soundly, and as available only for an instance
\* that nobody has outlived.
LEMMA OneObject ==
    ASSUME Inv, UNCHANGED <<hardware, lagging, seen>>, hasty \subseteq hasty',
           \A n \in Nodes : objects'[n] \in {objects[n], None},
           NEW m \in Names, NEW o \in Object, obj' = [obj EXCEPT ![m] = o],
           Sound(m, o),
           \A n \in Nodes : \A k \in DOMAIN seen[n] :
             seen[n][k] = "old" /\ k.dev \notin hasty' => Outlived(o, k)
    PROVE  /\ SoundObjects' /\ Waited'
           /\ obj' \in [Names -> Object \cup {None}]
           /\ \A x \in Names : obj[x] \in Object => obj'[x] \in Object
<1> USE DEF Inv
<1>1. \A x \in Names : obj'[x] = (IF x = m THEN o ELSE obj[x])
  BY Zenon DEF Types
<1>2. obj' \in [Names -> Object \cup {None}]
  BY Zenon DEF Types
<1>3. \A x \in Names : obj[x] \in Object => obj'[x] \in Object
  BY <1>1, Zenon
<1>4. SoundObjects'
  <2>1. ASSUME NEW x \in Names
        PROVE  Sound(x, obj[x])'
    BY <1>1, Still, Zenon DEF SoundObjects
  <2>2. ASSUME NEW n \in Nodes, objects'[n] # None, NEW x \in Names
        PROVE  Sound(x, objects[n][x])'
    BY <2>2, Still, Zenon DEF SoundObjects
  <2>3. ASSUME NEW n \in Nodes, lagging'[n] # None, NEW x \in Names
        PROVE  Sound(x, lagging[n][x])' /\ (lagging'[n][x] \in Object => obj'[x] \in Object)
    BY <1>3, <2>3, Still, Zenon DEF SoundObjects
  <2> QED BY <2>1, <2>2, <2>3, Zenon DEF SoundObjects
<1>5. Waited'
  BY <1>1 DEF Waited
<1> QED BY <1>2, <1>3, <1>4, <1>5, Zenon

\* The controller changes the phase only, to one that is not available.
LEMMA MarkLostInv ==
    ASSUME Inv, NEW m \in Names, MarkLost(m)
    PROVE  Inv'
<1> USE DEF Inv
<1> DEFINE o == [obj[m] EXCEPT !.phase = "Lost"]
<1>1. UNCHANGED <<hardware, stores, agent, hasty, changes>> /\ obj[m] # None /\ obj[m] \in Object
  BY DEF MarkLost, Types
<1>2. obj' = [obj EXCEPT ![m] = o]
  BY DEF MarkLost
<1>3. /\ o \in Object /\ o.fp = obj[m].fp /\ o.phase = "Lost" /\ o.node = obj[m].node
      /\ o.key = obj[m].key
  BY <1>1, Zenon DEF Object, Phases
<1> HIDE DEF o
<1>4. Sound(m, o)
  BY <1>1, <1>3 DEF SoundObjects, Sound
<1>5. \A k : Outlived(o, k)
  BY <1>3 DEF Outlived, IsAvailable
<1>6. /\ SoundObjects' /\ Waited'
      /\ obj' \in [Names -> Object \cup {None}]
      /\ \A x \in Names : obj[x] \in Object => obj'[x] \in Object
  <2>1. UNCHANGED <<hardware, lagging, seen, hasty>> /\ objects' = objects
    BY <1>1, Zenon DEF stores, agent
  <2>2. hasty \subseteq hasty'
    BY <2>1
  <2> QED BY <1>2, <1>3, <1>4, <1>5, <2>1, <2>2, OneObject, Zenon
<1>7. Types'
  BY <1>1, <1>6, Zenon DEF Types, hardware, stores, agent, Instances
<1>8. Counted' /\ OwnNames' /\ Remembered'
  BY <1>1, Still, AgentsStay, Zenon DEF Counted, OwnNames, hardware, agent
<1>9. Pending'
  BY <1>1, <1>6 DEF Pending, Types, Write, stores, agent
<1> QED BY <1>6, <1>7, <1>8, <1>9

-----------------------------------------------------------------------------
(* The writes of a scan.                                                   *)

\* A write leaves the agents as they are, but for what is left to write.
LEMMA DoneInv ==
    ASSUME Inv, NEW n \in Nodes, NEW w \in todo[n], NEW next \in SUBSET Write, Done(n, w, next),
           \A x \in Names : obj[x] \in Object => obj'[x] \in Object,
           \A v \in next : v.op = "status" /\ v.name \in DOMAIN local[n] /\ obj'[v.name] \in Object,
           obj' \in [Names -> Object \cup {None}], changes' \in 0 .. MaxChanges[print],
           changes' >= changes, hasty \subseteq hasty', hasty' \subseteq Devices
    PROVE  /\ UNCHANGED <<hardware, lagging, seen>>
           /\ \A p \in Nodes : objects'[p] \in {objects[p], None}
           /\ Types' /\ Counted' /\ Remembered' /\ Pending' /\ OwnNames'
<1> USE DEF Inv
<1>1. UNCHANGED <<hardware, lagging, sticky, seen, local>>
  BY DEF Done
<1>2. todo' = [todo EXCEPT ![n] = (todo[n] \ {w}) \cup next]
  BY Zenon DEF Done
<1>3. objects' = [objects EXCEPT ![n] = IF todo'[n] = {} THEN None ELSE objects[n]]
  BY Zenon DEF Done
<1>4. \A p \in Nodes : objects'[p] \in {objects[p], None} /\ (todo'[p] # {} => objects'[p] = objects[p])
  <2>1. CASE todo'[n] = {}
    BY <1>2, <1>3, <2>1, Zenon DEF Types, Pending
  <2>2. CASE todo'[n] # {}
    BY <1>3, <2>2, Zenon DEF Types
  <2> QED BY <2>1, <2>2, Zenon
<1>5. Types'
  <2>1. todo' \in [Nodes -> SUBSET Write]
    BY <1>2, Zenon DEF Types
  <2>2. objects' \in [Nodes -> [Names -> Object \cup {None}] \cup {None}]
    BY <1>3, Zenon DEF Types
  <2> QED BY <1>1, <2>1, <2>2, Zenon DEF Types, hardware, Instances
<1>6. Counted' /\ OwnNames' /\ Remembered'
  <2>1. changes \in Nat /\ changes' \in Nat
    BY BoundsAssumption DEF Types
  <2>2. Counted'
    BY <1>1, <2>1, CountedStays, Zenon
  <2> QED BY <1>1, <2>2, Still, Zenon DEF OwnNames, Remembered
<1>7. Pending'
  <2> SUFFICES ASSUME NEW p \in Nodes, NEW v \in todo'[p]
               PROVE  /\ objects'[p] \in [Names -> Object \cup {None}]
                      /\ v.op # "unplug" => v.name \in DOMAIN local'[p]
                      /\ v.op = "status" => obj'[v.name] \in Object
                      /\ v.op = "unplug" => /\ objects'[p][v.name] \in Object
                                            /\ objects'[p][v.name].node = p
                                            /\ v.name \notin DOMAIN local'[p]
    BY Zenon DEF Pending
  <2>1. objects'[p] = objects[p] /\ local' = local
    BY <1>1, <1>4, Zenon
  <2>2. CASE v \in todo[p]
    <3>1. /\ objects[p] \in [Names -> Object \cup {None}] /\ v.name \in Names
          /\ v.op # "unplug" => v.name \in DOMAIN local[p]
          /\ v.op = "status" => obj[v.name] \in Object
          /\ v.op = "unplug" => /\ objects[p][v.name] \in Object /\ objects[p][v.name].node = p
                                /\ v.name \notin DOMAIN local[p]
      BY <2>2 DEF Pending, Types, Write
    <3> QED BY <2>1, <3>1, Zenon
  <2>3. CASE v \notin todo[p]
    <3>1. p = n /\ v \in next
      BY <1>2, <2>3, Zenon DEF Types
    <3> QED BY <2>1, <3>1, Zenon DEF Pending
  <2> QED BY <2>2, <2>3, Zenon
<1> QED BY <1>1, <1>4, <1>5, <1>6, <1>7, Zenon

\* What a scan publishes under a name suits the name.
LEMMA ViewSuits ==
    ASSUME Inv, NEW n \in Nodes, NEW m \in DOMAIN local[n]
    PROVE  LET key == local[n][m]
           IN  /\ m \in Names /\ key \in Instances /\ key \in InstanceKey /\ key # None
               /\ key.dev \in DOMAIN print /\ print[key.dev] \in Fingerprint
               /\ Placed(n, key) /\ Named(n, key, m)
<1>1. m \in Names /\ local[n][m] \in Instances
  BY Zenon DEF Inv, Types
<1>2. Placed(n, local[n][m]) /\ Named(n, local[n][m], m)
  BY Zenon DEF Inv, Remembered
<1>3. DOMAIN print \subseteq Devices /\ print \in [DOMAIN print -> Fingerprint] /\ MaxChanges[print] \in Nat
  BY BoundsAssumption DEF Inv, Types
<1>4. local[n][m] \in InstanceKey
  BY <1>1, <1>3 DEF Instances, InstanceKey
<1>5. local[n][m].dev \in DOMAIN print
  BY <1>1, Zenon DEF Instances
<1> QED BY <1>1, <1>2, <1>3, <1>4, <1>5, IdentityAssumption, Zenon

\* The spec that publish applies is of the device that the local view names.
LEMMA ApplyInv ==
    ASSUME Inv, NEW n \in Nodes, NEW w \in todo[n], Apply(n, w)
    PROVE  Inv'
<1> USE DEF Inv
<1> DEFINE m == w.name
           fp == print[local[n][m].dev]
           o == IF obj[m] = None
                THEN [fp |-> fp, label |-> n, phase |-> "", node |-> None, key |-> None,
                      fresh |-> FALSE]
                ELSE [obj[m] EXCEPT !.fp = fp, !.label = n]
<1>1. w.op = "apply" /\ m \in DOMAIN local[n]
  BY Zenon DEF Apply, Pending
<1>2. /\ m \in Names /\ local[n][m] \in Instances /\ fp \in Fingerprint
      /\ Named(n, local[n][m], m)
  BY <1>1, ViewSuits
<1>3. obj' = [obj EXCEPT ![m] = o] /\ changes' = changes /\ hasty' = hasty
  BY Zenon DEF Apply
<1>4. Done(n, w, StatusWrite(n, m))
  BY Zenon DEF Apply
<1> HIDE DEF fp, m
<1>5. /\ o \in Object /\ o.fp = fp
      /\ \/ o.key = None /\ o.phase = ""
         \/ /\ obj[m] # None /\ o.phase = obj[m].phase /\ o.node = obj[m].node
            /\ o.key = obj[m].key /\ o.fresh = obj[m].fresh
  <2>1. CASE obj[m] = None
    BY <1>2, <2>1 DEF Object, Phases
  <2>2. CASE obj[m] # None
    <3>1. obj[m] \in Object
      BY <1>2, <2>2 DEF Types
    <3> QED BY <1>2, <2>2, <3>1, Zenon DEF Object
  <2> QED BY <2>1, <2>2, Zenon
<1> HIDE DEF o
<1>6. Sound(m, o)
  <2>1. \E p \in Nodes, k \in Instances : o.fp = print[k.dev] /\ Named(p, k, m)
    BY <1>2, <1>5, Zenon DEF fp
  <2>2. Sound(m, obj[m])
    BY <1>2 DEF SoundObjects
  <2> QED BY <1>5, <2>1, <2>2, Zenon DEF Sound
<1>7. \A p \in Nodes : \A k \in DOMAIN seen[p] :
        seen[p][k] = "old" /\ k.dev \notin hasty' => Outlived(o, k)
  BY <1>2, <1>3, <1>5, Zenon DEF Waited, Outlived, IsAvailable
<1>8. UNCHANGED <<hardware, lagging, seen>> /\ \A p \in Nodes : objects'[p] \in {objects[p], None}
  BY <1>4 DEF Done, Types
<1>9. /\ SoundObjects' /\ Waited'
      /\ obj' \in [Names -> Object \cup {None}]
      /\ \A x \in Names : obj[x] \in Object => obj'[x] \in Object
  BY <1>2, <1>3, <1>5, <1>6, <1>7, <1>8, OneObject
<1>10. Types' /\ Counted' /\ Remembered' /\ Pending' /\ OwnNames'
  <2>1. obj'[m] \in Object /\ m \in DOMAIN local[n]
    BY <1>1, <1>2, <1>3, <1>5, Zenon DEF Types, m
  <2>2. /\ StatusWrite(n, m) \in SUBSET Write
        /\ \A v \in StatusWrite(n, m) : v.op = "status" /\ v.name = m
    <3>1. StatusWrite(n, m) \subseteq {[op |-> "status", name |-> m]}
      BY Zenon DEF StatusWrite
    <3>2. [op |-> "status", name |-> m] \in Write
      BY <1>2, Zenon DEF Write
    <3> QED BY <3>1, <3>2
  <2>3. /\ changes' \in 0 .. MaxChanges[print] /\ changes' >= changes
        /\ hasty \subseteq hasty' /\ hasty' \subseteq Devices
    BY <1>3, BoundsAssumption DEF Types
  <2> HIDE DEF Inv
  <2> QED BY <1>4, <1>9, <2>1, <2>2, <2>3, DoneInv, SMTT(30)
<1> QED BY <1>9, <1>10

\* The status that publish writes is of the instance in the local view, and counts
\* once a later instance has waited for lost_after only if the device is hasty.
LEMMA PatchStatusInv ==
    ASSUME Inv, NEW n \in Nodes, NEW w \in todo[n], PatchStatus(n, w)
    PROVE  Inv'
<1> USE DEF Inv
<1> DEFINE m == w.name
           key == local[n][m]
           late == \E p \in Nodes : \E k \in DOMAIN seen[p] :
                      k.dev = key.dev /\ k.num > key.num /\ seen[p][k] = "old"
           status(counts) == [obj[m] EXCEPT !.phase = "Available", !.node = n, !.key = key,
                                            !.fresh = counts]
<1>1. w.op = "status" /\ m \in DOMAIN local[n] /\ obj[m] \in Object
  BY Zenon DEF PatchStatus, Pending
<1>2. /\ m \in Names /\ key \in Instances /\ key \in InstanceKey /\ key # None
      /\ Placed(n, key) /\ Named(n, key, m)
  BY <1>1, ViewSuits
<1>3. changes' = changes /\ Done(n, w, {})
  BY DEF PatchStatus
<1>4. PICK counts \in {TRUE, ~late} :
        /\ obj' = [obj EXCEPT ![m] = status(counts)]
        /\ hasty' = IF late /\ counts THEN hasty \cup {key.dev} ELSE hasty
  BY DEF PatchStatus
<1> DEFINE o == status(counts)
<1> HIDE DEF m, key, late
<1>5. counts \in BOOLEAN
  BY Zenon
<1>6. o \in Object /\ o.fp = obj[m].fp /\ o.phase = "Available" /\ o.node = n /\ o.key = key
  BY <1>1, <1>2, <1>5, Zenon DEF Object, Phases
<1>7. o.fresh = counts /\ obj' = [obj EXCEPT ![m] = o]
  BY <1>1, <1>4 DEF Object
<1> HIDE DEF o
<1>8. hasty \subseteq hasty' /\ hasty' \subseteq Devices
  <2>1. key.dev \in Devices
    BY <1>2 DEF InstanceKey
  <2> QED BY <1>4, <2>1 DEF Types
<1>9. Sound(m, o)
  <2>1. Sound(m, obj[m])
    BY <1>2, Zenon DEF SoundObjects
  <2> QED BY <1>1, <1>2, <1>6, <2>1, NoneAssumption, Zenon DEF Sound
<1>10. ASSUME NEW p \in Nodes, NEW k \in DOMAIN seen[p], seen[p][k] = "old", k.dev \notin hasty'
       PROVE  Outlived(o, k)
  <2>1. k.num \in Nat /\ key.num \in Nat
    BY <1>2, BoundsAssumption DEF Types, Instances
  <2>2. ASSUME o.fresh, k.dev = key.dev, k.num > key.num PROVE FALSE
    <3>1. late
      BY <1>10, <2>2, Zenon DEF late
    <3>2. hasty' = hasty \cup {key.dev}
      BY <1>4, <1>7, <2>2, <3>1, Zenon
    <3> QED BY <1>10, <2>2, <3>2
  <2> QED BY <1>6, <2>1, <2>2 DEF Outlived, IsAvailable
<1>11. UNCHANGED <<hardware, lagging, seen>> /\ \A p \in Nodes : objects'[p] \in {objects[p], None}
  BY <1>3 DEF Done, Types
<1>12. /\ SoundObjects' /\ Waited'
       /\ obj' \in [Names -> Object \cup {None}]
       /\ \A x \in Names : obj[x] \in Object => obj'[x] \in Object
  BY <1>2, <1>6, <1>7, <1>8, <1>9, <1>10, <1>11, OneObject, Zenon
<1>13. Types' /\ Counted' /\ Remembered' /\ Pending' /\ OwnNames'
  <2>1. changes' \in 0 .. MaxChanges[print] /\ changes' >= changes
    BY <1>3, BoundsAssumption DEF Types
  <2> HIDE DEF Inv
  <2> QED BY <1>3, <1>8, <1>12, <2>1, DoneInv
<1> QED BY <1>12, <1>13

\* mark_unplugged takes an instance away and leaves the spec.
LEMMA MarkUnpluggedInv ==
    ASSUME Inv, NEW n \in Nodes, NEW w \in todo[n], MarkUnplugged(n, w)
    PROVE  Inv'
<1> USE DEF Inv
<1> DEFINE m == w.name
           o == [obj[m] EXCEPT !.phase = "Unplugged", !.key = None]
<1>1. w.op = "unplug" /\ m \in Names /\ objects[n][m] \in Object
  BY DEF MarkUnplugged, Pending, Types, Write
<1>2. Done(n, w, {}) /\ changes' = changes /\ hasty' = hasty
  BY Zenon DEF MarkUnplugged
<1>3. UNCHANGED <<hardware, lagging, seen>> /\ \A p \in Nodes : objects'[p] \in {objects[p], None}
  BY <1>2, Zenon DEF Done, Types
<1>4. hasty \subseteq hasty' /\ hasty' \subseteq Devices
  BY <1>2 DEF Types
<1>5. /\ SoundObjects' /\ Waited'
      /\ obj' \in [Names -> Object \cup {None}]
      /\ \A x \in Names : obj[x] \in Object => obj'[x] \in Object
  <2>1. CASE obj[m] = objects[n][m]
    <3>1. obj[m] \in Object
      BY <1>1, <2>1
    <3>2. obj' = [obj EXCEPT ![m] = o]
      BY <2>1 DEF MarkUnplugged
    <3>3. o \in Object /\ o.fp = obj[m].fp /\ o.phase = "Unplugged" /\ o.key = None
      BY <3>1, Zenon DEF Object, Phases
    <3> HIDE DEF o
    <3>4. \A k : Outlived(o, k)
      BY <3>3 DEF Outlived, IsAvailable
    <3>5. Sound(m, o)
      BY <1>1, <3>1, <3>3, NoneAssumption, Zenon DEF SoundObjects, Sound
    <3> QED BY <1>1, <1>3, <1>4, <3>2, <3>3, <3>4, <3>5, OneObject, Zenon
  <2>2. CASE obj[m] # objects[n][m]
    <3>1. obj' = obj
      BY <2>2, Zenon DEF MarkUnplugged
    <3>2. SoundObjects'
      BY <1>3, <1>4, <3>1, Still, Zenon DEF SoundObjects
    <3>3. Waited'
      BY <1>2, <1>3, <3>1, Zenon DEF Waited
    <3> QED BY <3>1, <3>2, <3>3 DEF Types
  <2> QED BY <2>1, <2>2
<1>6. Types' /\ Counted' /\ Remembered' /\ Pending' /\ OwnNames'
  <2>1. changes' \in 0 .. MaxChanges[print] /\ changes' >= changes
    BY <1>2, BoundsAssumption DEF Types
  <2> HIDE DEF Inv
  <2> QED BY <1>2, <1>5, <1>4, <2>1, DoneInv
<1> QED BY <1>5, <1>6

\* A write that fails leaves the others.
LEMMA WriteFailsInv ==
    ASSUME Inv, NEW n \in Nodes, NEW w \in todo[n], WriteFails(n, w)
    PROVE  Inv'
<1> USE DEF Inv
<1>1. /\ Done(n, w, {}) /\ obj' = obj /\ hasty' = hasty
      /\ changes' = changes + 1 /\ changes < MaxChanges[print]
  BY Zenon DEF WriteFails, Disturb
<1>2. UNCHANGED <<hardware, lagging, seen>> /\ \A p \in Nodes : objects'[p] \in {objects[p], None}
  BY <1>1, Zenon DEF Done, Types
<1>3. hasty \subseteq hasty' /\ hasty' \subseteq Devices
  BY <1>1 DEF Types
<1>4. SoundObjects'
  BY <1>1, <1>2, <1>3, Still, Zenon DEF SoundObjects
<1>5. Waited'
  BY <1>1, <1>2, Zenon DEF Waited
<1>6. Types' /\ Counted' /\ Remembered' /\ Pending' /\ OwnNames'
  <2>1. changes' \in 0 .. MaxChanges[print] /\ changes' >= changes
    BY <1>1, BoundsAssumption DEF Types
  <2>2. obj' \in [Names -> Object \cup {None}]
    BY <1>1 DEF Types
  <2> HIDE DEF Inv
  <2> QED BY <1>1, <1>3, <2>1, <2>2, DoneInv
<1> QED BY <1>4, <1>5, <1>6, Zenon

-----------------------------------------------------------------------------
(* Caches and restarts.                                                    *)

\* A store that lags holds what was right when it was read.
LEMMA LagInv ==
    ASSUME Inv, NEW n \in Nodes, Lag(n)
    PROVE  Inv'
<1> USE DEF Inv
<1>1. UNCHANGED <<hardware, obj, objects, agent, hasty>>
  BY Zenon DEF Lag
<1>2. changes' = changes + 1 /\ changes' \in 0 .. MaxChanges[print] /\ changes \in Nat
  BY BoundsAssumption DEF Lag, Disturb, Types
<1>3. \A p \in Nodes : lagging'[p] = (IF p = n THEN obj ELSE lagging[p])
  BY Zenon DEF Lag, Types
<1>4. lagging' \in [Nodes -> [Names -> Object \cup {None}] \cup {None}]
  BY Zenon DEF Lag, Types
<1>5. Types'
  BY <1>1, <1>2, <1>4 DEF Types, hardware, agent, Instances
<1>6. Counted'
  BY <1>1, <1>2, CountedStays
<1>7. SoundObjects'
  BY <1>1, <1>3, Still, Zenon DEF SoundObjects
<1>8. Waited'
  BY <1>1, <1>3, Zenon DEF Waited, agent
<1>9. Remembered' /\ Pending' /\ OwnNames'
  BY <1>1, Still, AgentsStay, Zenon DEF Pending, OwnNames, agent
<1> QED BY <1>5, <1>6, <1>7, <1>8, <1>9

\* What recover_assignments finds in the objects was right when it was published,
\* and has one name for each instance.
LEMMA RestartInv ==
    ASSUME Inv, NEW n \in Nodes, Restart(n)
    PROVE  Inv'
<1> USE DEF Inv
<1>1. UNCHANGED <<hardware, obj, hasty>>
  BY Zenon DEF Restart
<1>2. changes' = changes + 1 /\ changes' \in 0 .. MaxChanges[print] /\ changes \in Nat
  BY BoundsAssumption DEF Restart, Disturb, Types
<1>3. PICK f \in RecoverAssignments(n) : sticky' = [sticky EXCEPT ![n] = f]
  BY Zenon DEF Restart
\* What is recovered are instances that the node has published, each under a name
\* of its own.
<1>4. ASSUME NEW k \in DOMAIN f
      PROVE  /\ f[k] \in Names /\ obj[f[k]] # None /\ obj[f[k]].key = k
             /\ obj[f[k]].key # None /\ obj[f[k]].node = n
  BY <1>3, Zenon DEF RecoverAssignments
<1>5. ASSUME NEW k \in DOMAIN f
      PROVE  k \in Instances /\ Placed(n, k) /\ Named(n, k, f[k])
  <2>1. Placed(n, k) /\ Named(n, k, f[k])
    BY <1>4, <1>5, Zenon DEF SoundObjects, Sound
  <2> QED BY <2>1 DEF Placed
<1>6. /\ \A p \in Nodes : sticky'[p] = (IF p = n THEN f ELSE sticky[p])
      /\ \A p \in Nodes : seen'[p] = (IF p = n THEN Empty ELSE seen[p])
      /\ \A p \in Nodes : local'[p] = (IF p = n THEN Empty ELSE local[p])
      /\ \A p \in Nodes : todo'[p] = (IF p = n THEN {} ELSE todo[p])
      /\ \A p \in Nodes : objects'[p] = (IF p = n THEN None ELSE objects[p])
      /\ \A p \in Nodes : lagging'[p] = (IF p = n THEN None ELSE lagging[p])
  BY <1>3 DEF Restart, Types
<1>7. DOMAIN Empty = {}
  BY DEF Empty
<1>8. Types'
  <2>1. print' = print /\ Instances' = Instances
    BY <1>1 DEF hardware, Instances
  <2>2. DOMAIN sticky' = Nodes /\ DOMAIN seen' = Nodes /\ DOMAIN local' = Nodes
    BY <1>3, Zenon DEF Restart, Types
  <2>3. todo' \in [Nodes -> SUBSET Write]
    BY Zenon DEF Restart, Types
  <2>4. /\ objects' \in [Nodes -> [Names -> Object \cup {None}] \cup {None}]
        /\ lagging' \in [Nodes -> [Names -> Object \cup {None}] \cup {None}]
    BY Zenon DEF Restart, Types
  <2>5. ASSUME NEW p \in Nodes
        PROVE  /\ DOMAIN sticky'[p] \subseteq Instances
               /\ \A k \in DOMAIN sticky'[p] : sticky'[p][k] \in Names
               /\ DOMAIN seen'[p] \subseteq Instances
               /\ \A k \in DOMAIN seen'[p] : seen'[p][k] \in {"young", "old"}
               /\ DOMAIN local'[p] \subseteq Names
               /\ \A m \in DOMAIN local'[p] : local'[p][m] \in Instances
    BY <1>4, <1>5, <1>6, <1>7 DEF Types
  <2> QED BY <1>1, <1>2, <2>1, <2>2, <2>3, <2>4, <2>5, Zenon DEF Types, hardware
<1>9. Counted'
  BY <1>1, <1>2, CountedStays
<1>10. SoundObjects'
  BY <1>1, <1>6, Still, Zenon DEF SoundObjects
<1>11. Remembered'
  <2>1. ASSUME NEW p \in Nodes, NEW k \in DOMAIN sticky'[p]
        PROVE  Placed(p, k)' /\ Named(p, k, sticky[p][k])'
    <3>1. Placed(p, k) /\ Named(p, k, sticky'[p][k])
      BY <1>5, <1>6, <2>1 DEF Remembered
    <3> QED BY <1>1, <3>1, Still
  <2>2. ASSUME NEW p \in Nodes, NEW k \in DOMAIN seen'[p]
        PROVE  Placed(p, k)'
    BY <1>1, <1>6, <1>7, <2>2, Still, Zenon DEF Remembered
  <2>3. ASSUME NEW p \in Nodes, NEW m \in DOMAIN local'[p]
        PROVE  Placed(p, local[p][m])' /\ Named(p, local[p][m], m)'
    BY <1>1, <1>6, <1>7, <2>3, Still, Zenon DEF Remembered
  <2> QED BY <2>1, <2>2, <2>3, Zenon DEF Remembered
<1>12. Waited'
  BY <1>1, <1>6, <1>7, Zenon DEF Waited
<1>13. Pending'
  BY <1>1, <1>6 DEF Pending
<1>14. OwnNames'
  <2> SUFFICES ASSUME NEW p \in Nodes, NEW j \in DOMAIN sticky'[p], NEW k \in DOMAIN sticky'[p],
                      sticky'[p][j] = sticky'[p][k]
               PROVE  j = k
    BY Zenon DEF OwnNames
  <2>1. CASE p = n
    BY <1>4, <1>6, <2>1, SMTT(30)
  <2>2. CASE p # n
    BY <1>6, <2>2, Zenon DEF OwnNames
  <2> QED BY <2>1, <2>2, Zenon
<1> QED BY <1>8, <1>9, <1>10, <1>11, <1>12, <1>13, <1>14, Zenon
=============================================================================
