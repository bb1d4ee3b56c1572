--------------------------- MODULE IdentityProofs ---------------------------
(***************************************************************************)
(* What Identity promises for all inputs: assign is well defined, chooses  *)
(* for each instance what its turn leaves, and gives no name twice.        *)
(***************************************************************************)
EXTENDS Identity, WellFoundedInduction, TLAPS

-----------------------------------------------------------------------------
(* Names.                                                                  *)

\* A name made of attributes is never a name made of a port.
LEMMA PortsApart ==
    ASSUME NEW fp, NEW i \in 1 .. 3, NEW n, NEW p
    PROVE  PortableName(fp, Order[i]) # PortName(n, p)
<1>1. Order[i] # "PortPath"
  BY DEF Order
<1> QED BY <1>1 DEF PortableName, PortName

\* A port name tells the node and the port.
LEMMA PortTells ==
    ASSUME NEW n, NEW d, NEW p, NEW e, PortName(n, d) = PortName(p, e)
    PROVE  n = p /\ d = e
BY DEF PortName

\* Two devices have a portable name in common only on a tier that does not tell
\* them apart.
LEMMA SharedNameIsAmbiguous ==
    ASSUME NEW fp, NEW other, NEW i \in 1 .. 3, NEW j \in 1 .. 3,
           Applies(fp, Order[i]), Applies(other, Order[j]),
           PortableName(fp, Order[i]) = PortableName(other, Order[j])
    PROVE  i = j /\ SameKey(fp, other, Order[i])
<1>1. Order[i] = Order[j] /\ TierKey(fp, Order[i]) = TierKey(other, Order[j])
  BY DEF PortableName
<1>2. i = j
  BY <1>1 DEF Order
<1> QED BY <1>1, <1>2 DEF SameKey

\* Both kinds of name are names.
LEMMA NamesHave ==
    /\ \A n \in Nodes, p \in Ports : PortName(n, p) \in Names
    /\ \A fp \in Fingerprint, i \in 1 .. 3 :
         Applies(fp, Order[i]) => PortableName(fp, Order[i]) \in Names
<1> DEFINE portable(fp) == {PortableName(fp, Order[i]) : i \in {j \in 1 .. 3 : Applies(fp, Order[j])}}
           ports == {PortName(n, p) : n \in Nodes, p \in Ports}
<1>1. Names = (UNION {portable(fp) : fp \in Fingerprint}) \cup ports
  BY DEF Names
<1>2. \A n \in Nodes, p \in Ports : PortName(n, p) \in ports
  OBVIOUS
<1>3. \A fp \in Fingerprint, i \in 1 .. 3 :
        Applies(fp, Order[i]) => PortableName(fp, Order[i]) \in portable(fp)
  OBVIOUS
<1> HIDE DEF portable, ports
<1> QED BY <1>1, <1>2, <1>3

-----------------------------------------------------------------------------
(* The recursion of assign.                                                *)

\* Every nonempty set of natural numbers has a least element.
LEMMA LeastNumber ==
    ASSUME NEW T \in SUBSET Nat, T # {}
    PROVE  \E x \in T : \A y \in T : x <= y
<1> DEFINE R == {ss \in Nat \X Nat : ss[1] < ss[2]}
<1>1. IsWellFoundedOn(R, Nat)
  BY NatLessThanWellFounded DEF OpToRel
<1>2. \A x, y \in T : <<y, x>> \in R <=> y < x
  OBVIOUS
<1> HIDE DEF R
<1>3. PICK x \in T : \A y \in T : ~(<<y, x>> \in R)
  BY <1>1, WFMin, Zenon
<1>4. \A y \in T : ~(y < x)
  BY <1>2, <1>3, Zenon
<1>5. \A y \in T : x <= y
  BY <1>4
<1> QED BY <1>5

\* The instances of one node, each on a port of its own.
Enumerated(here) ==
    /\ \A k \in DOMAIN here : k.port \in Ports
    /\ \A j, k \in DOMAIN here : j.port = k.port => j = k

\* The turn of an instance depends only on those that keep their names and those
\* on smaller ports.
LEMMA TurnLooksBack ==
    ASSUME NEW n, NEW sticky, NEW keep, NEW known, NEW young, NEW here,
           NEW key, NEW f, NEW g,
           \A j \in DOMAIN here : j \in keep \/ j.port < key.port => f[j] = g[j]
    PROVE  Turn(n, sticky, keep, known, young, here, f, key)
             = Turn(n, sticky, keep, known, young, here, g, key)
<1>1. Taken(keep, here, f, key) = Taken(keep, here, g, key)
  BY DEF Taken
<1> QED BY <1>1 DEF Turn

\* The recursion of assign has a solution: each instance has what its turn gives
\* it after the turns of the others.
LEMMA AssignTurns ==
    ASSUME NEW n, NEW sticky, NEW keep, NEW known, NEW young, NEW here, Enumerated(here)
    PROVE  LET made == Assign(n, sticky, keep, known, young, here)
           IN  /\ DOMAIN made = DOMAIN here
               /\ \A k \in DOMAIN here :
                    made[k] = Turn(n, sticky, keep, known, young, here, made, k)
<1> DEFINE S == DOMAIN here
           T(f, k) == Turn(n, sticky, keep, known, young, here, f, k)
           Rank(k) == IF k \in keep THEN 0 ELSE k.port
           Solves(f, r) == \A k \in S : Rank(k) <= r => f[k] = T(f, k)
           Stuck == {r \in Nat : \A f : ~Solves(f, r)}
<1>1. \A k \in S : Rank(k) \in 0 .. NumPorts
  BY IdentityAssumption DEF Enumerated, Ports
<1>2. ASSUME NEW f, NEW g, NEW k \in S, NEW r \in Nat, Rank(k) <= r + 1,
             \A j \in S : Rank(j) <= r => f[j] = g[j]
      PROVE  T(f, k) = T(g, k)
  <2>1. CASE k \in keep
    BY <2>1 DEF Turn
  <2>2. CASE k \notin keep
    <3>1. \A j \in S : j \in keep \/ j.port < k.port => Rank(j) <= r
      BY <1>1, <1>2, <2>2 DEF Enumerated, Ports
    <3> QED BY <3>1, <1>2, TurnLooksBack
  <2> QED BY <2>1, <2>2
<1>3. 0 \notin Stuck
  <2> DEFINE f == [k \in S |-> Assigned(sticky[k])]
  <2>1. \A k \in S : Rank(k) <= 0 => k \in keep
    BY DEF Enumerated, Ports
  <2>2. Solves(f, 0)
    BY <2>1 DEF Turn
  <2> QED BY <2>2, Zenon
<1>4. ASSUME NEW r \in Nat, r \notin Stuck
      PROVE  r + 1 \notin Stuck
  <2>1. PICK f : Solves(f, r)
    BY <1>4
  <2> DEFINE g == [k \in S |-> IF Rank(k) <= r THEN f[k] ELSE T(f, k)]
  <2>2. \A j \in S : Rank(j) <= r => f[j] = g[j]
    OBVIOUS
  <2>3. ASSUME NEW k \in S, Rank(k) <= r + 1
        PROVE  g[k] = T(g, k)
    <3> HIDE DEF T, Rank
    <3>1. T(f, k) = T(g, k)
      BY <1>2, <2>2, <2>3
    <3>2. g[k] = T(f, k)
      BY <2>1
    <3> QED BY <3>1, <3>2
  <2>4. Solves(g, r + 1)
    BY <2>3
  <2> QED BY <2>4, Zenon
<1>5. Stuck = {}
  <2> SUFFICES ASSUME Stuck # {} PROVE FALSE
    OBVIOUS
  <2>1. PICK r \in Stuck : \A x \in Stuck : r <= x
    BY LeastNumber, Zenon
  <2>2. r # 0 /\ r \in Nat
    BY <1>3
  <2>3. r - 1 \in Nat /\ r - 1 \notin Stuck
    BY <2>1, <2>2
  <2> QED BY <2>3, <1>4, <2>1
<1>6. PICK f : Solves(f, NumPorts)
  BY <1>5, IdentityAssumption
<1>7. [k \in S |-> f[k]] = [k \in S |-> T([j \in S |-> f[j]], k)]
  <2> DEFINE g == [k \in S |-> f[k]]
  <2>1. \A k \in S : f[k] = T(f, k)
    BY <1>1, <1>6, IdentityAssumption
  <2>2. \A k \in S : T(f, k) = T(g, k)
    BY TurnLooksBack
  <2> QED BY <2>1, <2>2
<1> DEFINE decide == CHOOSE g : g = [k \in S |-> T(g, k)]
<1>8. decide = [k \in S |-> T(decide, k)]
  <2> HIDE DEF T
  <2> QED BY <1>7
<1>9. Assign(n, sticky, keep, known, young, here) = [k \in S |-> decide[k]]
  BY DEF Assign
<1> QED BY <1>8, <1>9, Zenon

-----------------------------------------------------------------------------
(* What an instance chooses.                                               *)

\* A nonempty set of tiers has a first one.
LEMMA FirstTier ==
    ASSUME NEW U \in SUBSET (1 .. 3), U # {}
    PROVE  LET best == CHOOSE i \in U : \A j \in U : i <= j
           IN  best \in U /\ \A j \in U : best <= j
<1>1. U \in SUBSET Nat
  OBVIOUS
<1>2. \E i \in U : \A j \in U : i <= j
  BY <1>1, LeastNumber
<1> QED BY <1>2, Zenon

\* The tiers that an instance may be named after when its turn comes.
Usable(n, known, young, here, taken, key) ==
    {i \in 1 .. 3 : /\ Applies(here[key], Order[i])
                    /\ Unambiguous(known, here, key, Order[i])
                    /\ PortableName(here[key], Order[i]) \notin taken
                    /\ HeldElsewhere(n, known, PortableName(here[key], Order[i])) => key \in young}

\* An instance gets the name of its port, or that of the first usable tier, which
\* it only waits for if another node holds it.
LEMMA ChooseCases ==
    ASSUME NEW n, NEW known, NEW young, NEW here, NEW taken, NEW key
    PROVE  LET U == Usable(n, known, young, here, taken, key)
               c == Choose(n, known, young, here, taken, key)
           IN  \/ U = {} /\ c = Assigned(PortName(n, key.port))
               \/ \E i \in U :
                    /\ \A j \in U : i <= j
                    /\ c = IF HeldElsewhere(n, known, PortableName(here[key], Order[i]))
                           THEN Deferred(PortableName(here[key], Order[i]))
                           ELSE Assigned(PortableName(here[key], Order[i]))
<1> DEFINE U == Usable(n, known, young, here, taken, key)
           best == CHOOSE i \in U : \A j \in U : i <= j
           name == PortableName(here[key], Order[best])
<1>1. Choose(n, known, young, here, taken, key)
        = IF U = {} THEN Assigned(PortName(n, key.port))
          ELSE IF HeldElsewhere(n, known, name) THEN Deferred(name) ELSE Assigned(name)
  BY DEF Choose, Usable
<1>2. U \in SUBSET (1 .. 3)
  BY DEF Usable
<1> HIDE DEF U
<1>3. U # {} => best \in U /\ \A j \in U : best <= j
  BY <1>2, FirstTier
<1> QED BY <1>1, <1>3, Zenon DEF U

\* The instance is named after a tier that is usable when no tier before it
\* applies.
LEMMA ChooseFirst ==
    ASSUME NEW n, NEW known, NEW young, NEW here, NEW taken, NEW key,
           NEW i \in Usable(n, known, young, here, taken, key),
           \A j \in 1 .. 3 : j < i => ~Applies(here[key], Order[j])
    PROVE  Choose(n, known, young, here, taken, key).name = PortableName(here[key], Order[i])
<1> DEFINE U == Usable(n, known, young, here, taken, key)
           c == Choose(n, known, young, here, taken, key)
<1>1. PICK b \in U : /\ \A j \in U : b <= j
                     /\ c = IF HeldElsewhere(n, known, PortableName(here[key], Order[b]))
                            THEN Deferred(PortableName(here[key], Order[b]))
                            ELSE Assigned(PortableName(here[key], Order[b]))
  BY ChooseCases
<1>2. b \in 1 .. 3 /\ i \in 1 .. 3 /\ Applies(here[key], Order[b])
  BY DEF Usable
<1>3. b = i
  BY <1>1, <1>2
<1> QED BY <1>1, <1>3 DEF Assigned, Deferred

-----------------------------------------------------------------------------
(* Assign.                                                                 *)

\* A remembered port name is that of the instance's own port.
OwnPorts(n, sticky) ==
    \A k \in DOMAIN sticky : \A p, i : sticky[k] = PortName(p, i) => p = n /\ i = k.port

\* What an instance that keeps no name is given.
LEMMA ChooserTurn ==
    ASSUME NEW n, NEW sticky, NEW keep, NEW known, NEW young, NEW here, Enumerated(here),
           NEW k \in DOMAIN here, k \notin keep
    PROVE  LET made == Assign(n, sticky, keep, known, young, here)
           IN  made[k] = Choose(n, known, young, here, Taken(keep, here, made, k), k)
BY AssignTurns DEF Turn

\* Unless it waits, such an instance has the name of its port, or a portable name
\* that no instance before it has and no other node holds.
LEMMA ChosenName ==
    ASSUME NEW n, NEW sticky, NEW keep, NEW known, NEW young, NEW here, Enumerated(here),
           NEW k \in DOMAIN here, k \notin keep
    PROVE  LET made == Assign(n, sticky, keep, known, young, here)
           IN  \/ made[k] = Assigned(PortName(n, k.port))
               \/ \E i \in 1 .. 3 :
                    /\ Applies(here[k], Order[i])
                    /\ made[k].name = PortableName(here[k], Order[i])
                    /\ ~made[k].deferred => /\ made[k].name \notin Taken(keep, here, made, k)
                                            /\ ~HeldElsewhere(n, known, made[k].name)
<1> DEFINE made == Assign(n, sticky, keep, known, young, here)
           taken == Taken(keep, here, made, k)
           U == Usable(n, known, young, here, taken, k)
<1>1. made[k] = Choose(n, known, young, here, taken, k)
  BY ChooserTurn
<1> HIDE DEF made, taken
<1>2. \/ made[k] = Assigned(PortName(n, k.port))
      \/ \E i \in U : made[k] = IF HeldElsewhere(n, known, PortableName(here[k], Order[i]))
                                THEN Deferred(PortableName(here[k], Order[i]))
                                ELSE Assigned(PortableName(here[k], Order[i]))
  BY <1>1, ChooseCases
<1>3. ASSUME NEW i \in U,
             made[k] = IF HeldElsewhere(n, known, PortableName(here[k], Order[i]))
                       THEN Deferred(PortableName(here[k], Order[i]))
                       ELSE Assigned(PortableName(here[k], Order[i]))
      PROVE  /\ i \in 1 .. 3
             /\ Applies(here[k], Order[i])
             /\ made[k].name = PortableName(here[k], Order[i])
             /\ ~made[k].deferred => /\ made[k].name \notin taken
                                     /\ ~HeldElsewhere(n, known, made[k].name)
  <2>1. i \in 1 .. 3 /\ Applies(here[k], Order[i]) /\ PortableName(here[k], Order[i]) \notin taken
    BY DEF Usable
  <2>2. CASE HeldElsewhere(n, known, PortableName(here[k], Order[i]))
    BY <1>3, <2>1, <2>2 DEF Deferred
  <2>3. CASE ~HeldElsewhere(n, known, PortableName(here[k], Order[i]))
    BY <1>3, <2>1, <2>3 DEF Assigned
  <2> QED BY <2>2, <2>3
<1> QED BY <1>2, <1>3 DEF made, taken

\* An instance that keeps its name does not wait.
LEMMA KeptName ==
    ASSUME NEW n, NEW sticky, NEW keep, NEW known, NEW young, NEW here, Enumerated(here),
           NEW k \in DOMAIN here, k \in keep
    PROVE  Assign(n, sticky, keep, known, young, here)[k] = Assigned(sticky[k])
BY AssignTurns DEF Turn

\* assign gives no name to two instances, whatever the agent remembers and knows
\* of the cluster: those that keep their names, and those that choose, in any
\* combination.
THEOREM NoNameTwice ==
    ASSUME NEW n, NEW sticky, NEW known, NEW young, NEW here, Enumerated(here), OwnPorts(n, sticky)
    PROVE  LET made == Assign(n, sticky, Keep(n, sticky, known, here), known, young, here)
           IN  \A j, k \in DOMAIN here :
                 ~made[j].deferred /\ ~made[k].deferred /\ made[j].name = made[k].name => j = k
<1> DEFINE keep == Keep(n, sticky, known, here)
           made == Assign(n, sticky, keep, known, young, here)
<1>1. keep \subseteq DOMAIN here \cap DOMAIN sticky
  BY DEF Keep
<1>2. \A j, k \in keep : sticky[j] = sticky[k] => j = k
  BY DEF Keep, Enumerated, Ports
<1> HIDE DEF keep
<1>3. ASSUME NEW k \in keep
      PROVE  made[k].name = sticky[k] /\ ~made[k].deferred
  <2>1. made[k] = Assigned(sticky[k])
    BY <1>1, KeptName
  <2> HIDE DEF made
  <2> QED BY <2>1 DEF Assigned
<1>4. ASSUME NEW k \in DOMAIN here \ keep
      PROVE  \/ made[k].name = PortName(n, k.port)
             \/ \E i \in 1 .. 3 :
                  /\ Applies(here[k], Order[i])
                  /\ made[k].name = PortableName(here[k], Order[i])
                  /\ ~made[k].deferred => made[k].name \notin Taken(keep, here, made, k)
  <2>1. \/ made[k] = Assigned(PortName(n, k.port))
        \/ \E i \in 1 .. 3 :
             /\ Applies(here[k], Order[i])
             /\ made[k].name = PortableName(here[k], Order[i])
             /\ ~made[k].deferred => /\ made[k].name \notin Taken(keep, here, made, k)
                                     /\ ~HeldElsewhere(n, known, made[k].name)
    BY ChosenName
  <2> HIDE DEF made
  <2> QED BY <2>1 DEF Assigned
<1> HIDE DEF made
\* The instance that chose later, or at all, has a name of its own.
<1>5. ASSUME NEW j \in DOMAIN here, NEW k \in DOMAIN here \ keep,
             j \in keep \/ j.port < k.port, ~made[j].deferred, ~made[k].deferred
      PROVE  made[j].name # made[k].name
  <2>1. made[j].name \in Taken(keep, here, made, k)
    BY <1>5 DEF Taken
  <2>2. CASE made[k].name = PortName(n, k.port)
    <3>1. j # k
      BY <1>5 DEF Enumerated, Ports
    <3>2. CASE j \in keep
      BY <1>1, <1>3, <2>2, <3>1, <3>2 DEF OwnPorts, Enumerated
    <3>3. CASE j \notin keep
      BY <1>4, <2>2, <3>1, <3>3, PortTells, PortsApart DEF Enumerated
    <3> QED BY <3>2, <3>3
  <2>3. CASE made[k].name # PortName(n, k.port)
    BY <1>4, <1>5, <2>1, <2>3
  <2> QED BY <2>2, <2>3
<1>6. ASSUME NEW j \in DOMAIN here, NEW k \in DOMAIN here,
             ~made[j].deferred, ~made[k].deferred, made[j].name = made[k].name
      PROVE  j = k
  <2>1. CASE j \in keep /\ k \in keep
    BY <1>2, <1>3, <1>6, <2>1
  <2>2. CASE j \in keep /\ k \notin keep
    BY <1>5, <1>6, <2>2
  <2>3. CASE j \notin keep /\ k \in keep
    BY <1>5, <1>6, <2>3
  <2>4. CASE j \notin keep /\ k \notin keep
    <3>1. j.port < k.port \/ k.port < j.port \/ j = k
      BY DEF Enumerated, Ports
    <3> QED BY <1>5, <1>6, <2>4, <3>1
  <2> QED BY <2>1, <2>2, <2>3, <2>4
<1> QED BY <1>6 DEF keep, made

\* Nor does it give away the name of an instance that waits: the name it had is
\* held by another node, to which it lost the tie.
LEMMA NoNameOfWaiter ==
    ASSUME NEW n, NEW sticky, NEW known, NEW young, NEW here, Enumerated(here), OwnPorts(n, sticky),
           \A i, l \in DOMAIN sticky : sticky[i] = sticky[l] => i = l,
           NEW j \in DOMAIN here \cap DOMAIN sticky, NEW k \in DOMAIN here, j # k,
           Assign(n, sticky, Keep(n, sticky, known, here), known, young, here)[j].deferred,
           ~Assign(n, sticky, Keep(n, sticky, known, here), known, young, here)[k].deferred
    PROVE  Assign(n, sticky, Keep(n, sticky, known, here), known, young, here)[k].name # sticky[j]
<1> DEFINE keep == Keep(n, sticky, known, here)
           made == Assign(n, sticky, keep, known, young, here)
<1>1. keep \subseteq DOMAIN here \cap DOMAIN sticky
  BY DEF Keep
<1>2. j \in keep \/ HeldElsewhere(n, known, sticky[j])
  <2>1. LostTie(n, known, sticky[j]) => HeldElsewhere(n, known, sticky[j])
    BY DEF LostTie
  <2>2. j.port <= j.port
    BY DEF Enumerated, Ports
  <2>3. ~LostTie(n, known, sticky[j]) => j \in keep
    BY <2>2 DEF Keep
  <2> QED BY <2>1, <2>3
<1> HIDE DEF keep
<1>3. j \notin keep
  <2>1. j \in keep => made[j] = Assigned(sticky[j])
    BY KeptName
  <2> QED BY <2>1 DEF keep, Assigned
<1>4. CASE k \in keep
  <2>1. made[k] = Assigned(sticky[k])
    BY <1>4, KeptName
  <2>2. made[k].name = sticky[k]
    BY <2>1 DEF Assigned
  <2> QED BY <1>1, <1>4, <2>2 DEF keep
<1>5. CASE k \notin keep
  <2>1. \/ made[k] = Assigned(PortName(n, k.port))
        \/ \E i \in 1 .. 3 :
             /\ Applies(here[k], Order[i])
             /\ made[k].name = PortableName(here[k], Order[i])
             /\ ~made[k].deferred => /\ made[k].name \notin Taken(keep, here, made, k)
                                     /\ ~HeldElsewhere(n, known, made[k].name)
    BY <1>5, ChosenName, Zenon
  <2>2. CASE made[k] = Assigned(PortName(n, k.port))
    <3>1. made[k].name = PortName(n, k.port)
      BY <2>2 DEF Assigned
    <3>2. sticky[j] # PortName(n, k.port)
      BY DEF OwnPorts, Enumerated
    <3> QED BY <3>1, <3>2 DEF keep
  <2>3. CASE ~HeldElsewhere(n, known, made[k].name)
    BY <1>2, <1>3, <2>3 DEF keep
  <2>4. ~made[k].deferred
    BY DEF keep
  <2> QED BY <2>1, <2>2, <2>3, <2>4, Zenon
<1> QED BY <1>4, <1>5
=============================================================================
