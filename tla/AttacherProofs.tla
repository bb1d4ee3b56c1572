--------------------------- MODULE AttacherProofs ---------------------------
(***************************************************************************)
(* A node has at most one data path for a claim, for any number of nodes,  *)
(* sessions and bindings.                                                  *)
(***************************************************************************)
EXTENDS Attacher, TLAPS

-----------------------------------------------------------------------------
(* The inductive invariant.                                                *)

\* The session has, or may come to have, a data path without waiting for another.
Active(s) ==
    \/ Live(s)
    \/ sess[s].st \in {"idle", "closing"} /\ s \notin cancelled

Joining(n) == {s \in Sessions : sess[s].st = "joining" /\ sess[s].node = n}

\* The last session the agent has started, if it knows it still.
Head(n) == IF running[n] # None THEN running[n] ELSE stopping[n]

\* A session is the running one of its agent, or cancelled, or over.
Owned ==
    /\ \A s \in Sessions :
         /\ sess[s].st = "free" => s \notin cancelled
         /\ sess[s].st # "free" => sess[s].node \in Nodes
         /\ sess[s].st # "free" /\ s # running[sess[s].node] => s \in cancelled
         /\ sess[s].st = "leaving" => s \in cancelled
    /\ \A n \in Nodes : running[n] # None =>
         /\ sess[running[n]].st # "free" /\ sess[running[n]].node = n
         /\ running[n] \notin cancelled

\* The session on node n is over, or cancelled.
Past(s, n) == sess[s].st = "free" \/ (s \in cancelled /\ sess[s].node = n)

\* What is waited for, and what is to be waited for, is past.
Waits ==
    /\ \A s \in Sessions :
         /\ sess[s].st = "joining" <=> sess[s].prev # None
         /\ sess[s].prev # None => Past(sess[s].prev, sess[s].node)
    /\ \A n \in Nodes : stopping[n] # None => Past(stopping[n], n)

\* Any other session that is not past its work comes before the head.
Headed ==
    \A n \in Nodes, t \in Sessions :
      sess[t].node = n /\ (Active(t) \/ sess[t].st = "joining")
        => t = Head(n) \/ Head(n) \in Joining(n)

\* A session waits, directly or not, for the one that has a data path.
Guarded ==
    \A s, t \in Sessions :
      sess[s].st = "joining" /\ Active(t) /\ sess[t].node = sess[s].node
        => t = sess[s].prev \/ sess[s].prev \in Joining(sess[s].node)

\* The sessions that wait form one chain, which the head is the end of: a part
\* of them that has the head, and what its members wait for, is all of them.
Chained ==
    \A n \in Nodes : \A S \in SUBSET Joining(n) :
      Head(n) \in S /\ (\A s \in S : sess[s].prev \in Joining(n) => sess[s].prev \in S)
        => S = Joining(n)

OneActive ==
    \A s, t \in Sessions : Active(s) /\ Active(t) /\ sess[s].node = sess[t].node => s = t

\* The part of the invariant that is about the sessions.
SInv == Owned /\ Waits /\ Headed /\ Guarded /\ Chained /\ OneActive

IInv == TypeOK /\ SInv

-----------------------------------------------------------------------------
(* Types.                                                                  *)

\* The session after a report differs from t only in what it remembers.
LEMMA ReportsEffect ==
    ASSUME TypeOK, NEW s \in Sessions, NEW t \in Session, NEW e \in Entry,
           sess[s].node \in Nodes, Reports(s, t, e)
    PROVE  /\ \E u \in Session : /\ u.st = t.st /\ u.node = t.node /\ u.prev = t.prev
                                  /\ sess' = [sess EXCEPT ![s] = u]
           /\ conn' \in Report
           /\ missed' \in BOOLEAN
           /\ changes' \in 0..MaxChanges
<1> DEFINE u == Made(t, e)
<1>1. u \in Session /\ u.st = t.st /\ u.node = t.node /\ u.prev = t.prev
  BY DEF Made, Session
<1>2. sess' = [sess EXCEPT ![s] = t] \/ sess' = [sess EXCEPT ![s] = u]
  BY DEF Reports
<1>3. Patch(s, e) \in Report
  BY DEF Patch, Report, Entry, TypeOK, Session
<1>4. conn' = conn \/ conn' = Patch(s, e)
  BY DEF Reports
<1>5. changes' = changes \/ \E k \in DOMAIN Weight : /\ changes + Weight[k] <= MaxChanges
                                                     /\ changes' = changes + Weight[k]
  BY DEF Reports, Expected, Disturb
<1>6. changes' \in 0..MaxChanges
  BY <1>5, ConstantsAssumption DEF TypeOK
<1>7. missed' \in BOOLEAN
  BY Zenon DEF Reports
<1> QED
  BY <1>1, <1>2, <1>3, <1>4, <1>6, <1>7 DEF TypeOK

\* The entries a session reports.
LEMMA Entries ==
    /\ Connecting \in Entry /\ Awaiting \in Entry /\ Connected \in Entry
    /\ \A m \in Messages : Disconnected(m) \in Entry
BY DEF Connecting, Awaiting, Connected, Disconnected, Entry, States, Messages

\* What the disturbances add up to stays in its bound.
LEMMA Bounded ==
    ASSUME TypeOK, NEW kind, Disturb(kind)
    PROVE  changes' \in 0..MaxChanges
BY ConstantsAssumption DEF Disturb, TypeOK

\* What an agent reads from the API server has the type of a view.
LEMMA StoredType ==
    ASSUME TypeOK, NEW n \in Nodes
    PROVE  Stored(n) \in View
BY DEF TypeOK, Stored, View, Taken

-----------------------------------------------------------------------------
(* The initial states, and the steps that leave the sessions where they are. *)

\* No session runs when the agents start.
LEMMA InitIInv == Init => IInv
<1> SUFFICES ASSUME Init PROVE IInv
  OBVIOUS
<1> USE ConstantsAssumption
<1>0. Free \in Session /\ Free.st = "free" /\ Free.prev = None
  BY DEF Free, Unreported, Session, Entry, Steps, States, Messages
<1>1. TypeOK
  <2>1. vmi \in Vmi
    <3>1. \E n \in Nodes : TRUE
      OBVIOUS
    <3>2. FirstNode \in Nodes
      BY <3>1 DEF FirstNode
    <3> QED
      BY <3>2 DEF Init, Vmi
  <2>2. conn \in Report
    BY DEF Init, NoReport, Report, States
  <2>3. cache \in [Nodes -> View]
    BY <2>1, <2>2 DEF Init, Stored, View, Taken
  <2>4. missed \in BOOLEAN
    BY Zenon DEF Init
  <2> QED
    BY <1>0, <2>1, <2>2, <2>3, <2>4 DEF Init, TypeOK
<1>2. \A s \in Sessions : sess[s] = Free
  BY DEF Init
<1>3. \A s \in Sessions : ~Active(s) /\ sess[s].st = "free" /\ sess[s].prev = None
  BY <1>0, <1>2 DEF Active, Live
<1>4. \A n \in Nodes : Joining(n) = {} /\ running[n] = None /\ stopping[n] = None
  BY <1>3, Zenon DEF Joining, Init
<1>5. cancelled = {}
  BY DEF Init
<1> QED
  BY <1>1, <1>3, <1>4, <1>5 DEF IInv, SInv, Owned, Waits, Headed, Guarded, Chained, OneActive

\* Sessions stay on their nodes and in their places.
Placed == UNCHANGED tasks /\ \A x \in Sessions : /\ sess'[x].node = sess[x].node
                                                /\ sess'[x].prev = sess[x].prev

\* No session begins or ends, or comes to be active.
Proceed ==
    /\ Placed
    /\ \A x \in Sessions :
         \/ sess'[x].st = sess[x].st
         \/ /\ sess[x].st \notin {"free", "joining"} /\ sess'[x].st \notin {"free", "joining"}
            /\ sess'[x].st = "leaving" => x \in cancelled
            /\ Active(x)' => Active(x)

\* Such steps keep the invariant.
LEMMA ProceedKeeps ==
    ASSUME TypeOK, SInv, Proceed
    PROVE  SInv'
<1>1. \A x \in Sessions : Active(x)' => Active(x)
  BY DEF Proceed, Placed, Active, Live, tasks
<1>2. \A n \in Nodes : Joining(n)' = Joining(n) /\ Head(n)' = Head(n)
  BY DEF Proceed, Placed, Joining, Head, tasks
<1>3. Owned'
  BY DEF TypeOK, SInv, Owned, Proceed, Placed, tasks
<1>4. Waits'
  BY DEF TypeOK, SInv, Waits, Past, Proceed, Placed, tasks, Session
<1>5. Headed'
  BY <1>1, <1>2 DEF SInv, Headed, Proceed, Placed
<1>6. Guarded'
  BY <1>1, <1>2 DEF SInv, Owned, Guarded, Proceed, Placed
<1>7. Chained'
  BY <1>2 DEF SInv, Chained, Proceed, Placed, Joining
<1>8. OneActive'
  BY <1>1 DEF SInv, OneActive, Proceed, Placed
<1> QED
  BY <1>3, <1>4, <1>5, <1>6, <1>7, <1>8 DEF SInv

\* A session that has waited for one that is not active any more may go on: the
\* others that wait come after it.
LEMMA JoinKeeps ==
    ASSUME TypeOK, SInv, NEW s \in Sessions,
           sess[s].st = "joining", sess[sess[s].prev].st # "joining", ~Active(sess[s].prev),
           sess'[s].st = "idle", sess'[s].node = sess[s].node, sess'[s].prev = None,
           \A x \in Sessions \ {s} : sess'[x] = sess[x], UNCHANGED tasks
    PROVE  SInv'
<1> DEFINE m == sess[s].node
           p == sess[s].prev
<1> USE ConstantsAssumption
<1>1. p \in Sessions /\ m \in Nodes
  BY DEF TypeOK, Session, SInv, Owned, Waits
<1>2. /\ sess'[s].st = "idle" /\ sess'[s].node = m /\ sess'[s].prev = None
      /\ \A x \in Sessions \ {s} : sess'[x] = sess[x]
  OBVIOUS
<1>3. \A t \in Sessions : Active(t) => sess[t].node # m
  BY <1>1 DEF SInv, Guarded, Joining
<1>4. \A t \in Sessions : Active(t)' => Active(t) \/ (t = s /\ s \notin cancelled)
  BY <1>2 DEF Active, Live, tasks
<1>5. s \notin cancelled => s = Head(m)
  BY <1>1 DEF SInv, Owned, Head
<1>6. \A n \in Nodes : Joining(n)' = Joining(n) \ {s} /\ Head(n)' = Head(n)
  BY <1>2 DEF Joining, Head, tasks
<1>7. s = Head(m) => Joining(m) = {s}
  <2> SUFFICES ASSUME s = Head(m) PROVE {s} = Joining(m)
    OBVIOUS
  <2>1. {s} \in SUBSET Joining(m)
    BY DEF Joining
  <2>2. sess[s].prev \notin Joining(m)
    BY DEF Joining
  <2>3. \A S \in SUBSET Joining(m) :
          Head(m) \in S /\ (\A x \in S : sess[x].prev \in Joining(m) => sess[x].prev \in S)
            => S = Joining(m)
    BY <1>1, Zenon DEF SInv, Chained
  <2>4. Head(m) \in {s} /\ \A x \in {s} : sess[x].prev \notin Joining(m)
    BY <2>2
  <2> QED
    BY <2>1, <2>3, <2>4, Zenon
<1>8. Owned'
  BY <1>2, <1>1 DEF TypeOK, SInv, Owned, tasks
<1>9. Waits'
  BY <1>2, <1>1 DEF TypeOK, SInv, Waits, Past, tasks, Session
<1>10. Headed'
  <2> SUFFICES ASSUME NEW n \in Nodes, NEW t \in Sessions, sess'[t].node = n,
                      Active(t)' \/ sess'[t].st = "joining"
               PROVE  t = Head(n)' \/ Head(n)' \in Joining(n)'
    BY DEF Headed
  <2>1. CASE t = s
    BY <2>1, <1>2, <1>4, <1>5, <1>6, <1>3
  <2>2. CASE t # s
    <3>1. sess[t].node = n /\ (Active(t) \/ sess[t].st = "joining")
      BY <2>2, <1>2, <1>4
    <3>2. t = Head(n) \/ Head(n) \in Joining(n)
      BY <3>1 DEF SInv, Headed
    <3>3. CASE Head(n) = s /\ n = m
      BY <3>1, <3>3, <1>3, <1>7, <2>2 DEF Joining
    <3>4. CASE ~(Head(n) = s /\ n = m)
      BY <3>2, <3>4, <1>6 DEF Joining
    <3> QED
      BY <3>3, <3>4
  <2> QED
    BY <2>1, <2>2
<1>11. Guarded'
  <2> SUFFICES ASSUME NEW x \in Sessions, NEW t \in Sessions, sess'[x].st = "joining",
                      Active(t)', sess'[t].node = sess'[x].node
               PROVE  t = sess'[x].prev \/ sess'[x].prev \in Joining(sess[x].node)'
    BY DEF Guarded
  <2>1. x # s /\ sess'[x] = sess[x]
    BY <1>2
  <2>2. CASE t = s
    BY <2>1, <2>2, <1>2, <1>3, <1>4, <1>5, <1>7 DEF Joining
  <2>3. CASE t # s
    <3>1. Active(t) /\ sess'[t] = sess[t]
      BY <2>3, <1>2, <1>4
    <3>2. sess[x].node # m /\ sess[x].node \in Nodes
      BY <3>1, <2>1, <1>3 DEF SInv, Owned
    <3>3. t = sess[x].prev \/ sess[x].prev \in Joining(sess[x].node)
      BY <3>1, <2>1 DEF SInv, Guarded
    <3>4. Joining(sess[x].node)' = Joining(sess[x].node)
      BY <2>1, <3>2, <1>2 DEF Joining
    <3> QED
      BY <2>1, <3>3, <3>4
  <2> QED
    BY <2>2, <2>3
<1>12. Chained'
  <2> SUFFICES ASSUME NEW n \in Nodes, NEW S \in SUBSET (Joining(n)'), Head(n)' \in S,
                      \A x \in S : sess'[x].prev \in Joining(n)' => sess'[x].prev \in S
               PROVE  S = Joining(n)'
    BY DEF Chained
  <2> DEFINE T == S \cup (Joining(n) \cap {s})
  <2>1. T \in SUBSET Joining(n) /\ Head(n) \in T /\ s \notin S
    BY <1>6
  <2>2. ASSUME NEW x \in T, sess[x].prev \in Joining(n)
        PROVE  sess[x].prev \in T
    <3>1. CASE x = s
      BY <2>2, <3>1 DEF Joining
    <3>2. CASE x # s
      <4>1. x \in S /\ x \in Sessions /\ sess'[x] = sess[x]
        BY <3>2, <2>1, <1>2 DEF Joining
      <4> QED
        BY <4>1, <2>2, <1>6
    <3> QED
      BY <3>1, <3>2
  <2>3. T = Joining(n)
    BY <2>1, <2>2, Zenon DEF SInv, Chained
  <2> QED
    BY <2>1, <2>3, <1>6, Zenon
<1>13. OneActive'
  BY <1>2, <1>3, <1>4 DEF SInv, OneActive
<1> QED
  BY <1>8, <1>9, <1>10, <1>11, <1>12, <1>13 DEF SInv

\* A session that is over leaves the others as they are.
LEMMA DetachKeeps ==
    ASSUME TypeOK, SInv, NEW s \in Sessions,
           sess[s].st = "leaving", sess'[s] = Free, \A x \in Sessions \ {s} : sess'[x] = sess[x],
           cancelled' = cancelled \ {s}, UNCHANGED <<running, stopping>>
    PROVE  SInv'
<1> USE ConstantsAssumption
<1>0. sess'[s].st = "free" /\ sess'[s].node = None /\ sess'[s].prev = None
  BY DEF Free
<1>1. \A x \in Sessions : (Active(x)' <=> Active(x)) /\ (Active(x) => x # s)
  BY <1>0 DEF SInv, Owned, Active, Live
<1>2. \A n \in Nodes : Joining(n)' = Joining(n) /\ Head(n)' = Head(n)
  BY <1>0 DEF Joining, Head
<1>3. Owned'
  BY <1>0 DEF TypeOK, SInv, Owned
<1>4. Waits'
  BY <1>0 DEF TypeOK, SInv, Waits, Past, Session
<1>5. Headed'
  BY <1>0, <1>1, <1>2 DEF SInv, Headed
<1>6. Guarded'
  <2> SUFFICES ASSUME NEW x \in Sessions, NEW t \in Sessions, sess'[x].st = "joining",
                      Active(t)', sess'[t].node = sess'[x].node
               PROVE  t = sess'[x].prev \/ sess'[x].prev \in Joining(sess[x].node)'
    BY DEF Guarded
  <2>1. sess'[x] = sess[x] /\ sess'[t] = sess[t] /\ Active(t)
    BY <1>0, <1>1
  <2>2. Joining(sess[x].node)' = Joining(sess[x].node)
    BY <2>1, <1>0 DEF Joining
  <2> QED
    BY <2>1, <2>2 DEF SInv, Guarded
<1>7. Chained'
  <2>1. \A n \in Nodes : \A x \in Joining(n) : sess'[x] = sess[x]
    BY DEF Joining
  <2> QED
    BY <1>2, <2>1 DEF SInv, Chained
<1>8. OneActive'
  BY <1>1 DEF SInv, OneActive
<1> QED
  BY <1>3, <1>4, <1>5, <1>6, <1>7, <1>8 DEF SInv

\* An agent that is restarted leaves the sessions of the other nodes as they are.
LEMMA RestartKeeps ==
    ASSUME TypeOK, SInv, NEW n \in Nodes, Restart(n)
    PROVE  SInv'
<1> USE ConstantsAssumption
<1>0. \A s \in Sessions :
         /\ sess[s].node = n => sess'[s].st = "free" /\ sess'[s].node = None /\ sess'[s].prev = None
         /\ sess[s].node # n => sess'[s] = sess[s] /\ (s \in cancelled' <=> s \in cancelled)
  BY DEF Restart, TypeOK, Free
<1>1. \A s \in Sessions : Active(s)' => Active(s) /\ sess'[s] = sess[s] /\ sess[s].node # n
  BY <1>0 DEF Active, Live
<1>2. /\ Joining(n)' = {}
      /\ \A m \in Nodes \ {n} : Joining(m)' = Joining(m) /\ Head(m)' = Head(m)
  BY <1>0 DEF Joining, Head, Restart, TypeOK
<1>3. \A m \in Nodes \ {n} : running'[m] = running[m] /\ stopping'[m] = stopping[m]
  BY DEF Restart, TypeOK
<1>4. running'[n] = None /\ stopping'[n] = None /\ cancelled' \subseteq cancelled
  BY DEF Restart, TypeOK
<1>5. Owned'
  <2>1. ASSUME NEW s \in Sessions
        PROVE  /\ sess'[s].st = "free" => s \notin cancelled'
               /\ sess'[s].st # "free" => sess'[s].node \in Nodes
               /\ sess'[s].st # "free" /\ s # running'[sess'[s].node] => s \in cancelled'
               /\ sess'[s].st = "leaving" => s \in cancelled'
    <3>1. CASE sess[s].node = n
      BY <3>1, <1>0 DEF Restart
    <3>2. CASE sess[s].node # n
      BY <3>2, <1>0, <1>3 DEF SInv, Owned
    <3> QED
      BY <3>1, <3>2
  <2>2. ASSUME NEW m \in Nodes, running'[m] # None
        PROVE  /\ sess'[running'[m]].st # "free" /\ sess'[running'[m]].node = m
               /\ running'[m] \notin cancelled'
    <3>1. m # n /\ running'[m] = running[m] /\ running[m] \in Sessions
      BY <2>2, <1>3, <1>4 DEF TypeOK
    <3> QED
      BY <2>2, <3>1, <1>0 DEF SInv, Owned
  <2> QED
    BY <2>1, <2>2 DEF Owned
<1>6. Waits'
  BY <1>0, <1>3, <1>4 DEF TypeOK, SInv, Waits, Past, Session, Owned
<1>7. Headed'
  BY <1>0, <1>1, <1>2 DEF SInv, Headed, Joining
<1>8. Guarded'
  <2> SUFFICES ASSUME NEW x \in Sessions, NEW t \in Sessions, sess'[x].st = "joining",
                      Active(t)', sess'[t].node = sess'[x].node
               PROVE  t = sess'[x].prev \/ sess'[x].prev \in Joining(sess[x].node)'
    BY DEF Guarded
  <2>1. sess'[x] = sess[x] /\ sess'[t] = sess[t] /\ Active(t) /\ sess[x].node # n
    BY <1>0, <1>1
  <2>2. Joining(sess[x].node)' = Joining(sess[x].node)
    BY <2>1, <1>0 DEF Joining
  <2> QED
    BY <2>1, <2>2 DEF SInv, Guarded
<1>9. Chained'
  <2>1. \A m \in Nodes \ {n} : \A x \in Joining(m) : sess'[x] = sess[x]
    BY <1>0 DEF Joining
  <2>2. \A S \in SUBSET (Joining(n)') : S = Joining(n)'
    BY <1>2
  <2> QED
    BY <1>2, <2>1, <2>2 DEF SInv, Chained
<1>10. OneActive'
  BY <1>1 DEF SInv, OneActive
<1> QED
  BY <1>5, <1>6, <1>7, <1>8, <1>9, <1>10 DEF SInv

\* Every session of the node that has work left is the one that is to be waited
\* for, or comes before it.
LEMMA StoppedHead ==
    ASSUME TypeOK, SInv, NEW n \in Nodes, running[n] = None \/ Stale(n)
    PROVE  /\ Stopped(n) \in Sessions \cup {None}
           /\ Stopped(n) \in {Head(n), None}
           /\ Stopped(n) # None => Past(Stopped(n), n) \/ Stopped(n) = running[n]
           /\ \A t \in Sessions : sess[t].node = n /\ (Active(t) \/ sess[t].st = "joining")
                => t = Stopped(n) \/ Stopped(n) \in Joining(n)
<1> USE ConstantsAssumption
<1>1. CASE Stale(n)
  <2>1. Stopped(n) = running[n] /\ Head(n) = running[n] /\ running[n] \in Sessions
    BY <1>1 DEF Stopped, Stale, Head, TypeOK
  <2> QED
    BY <2>1 DEF SInv, Headed
<1>2. CASE ~Stale(n)
  <2>1. running[n] = None /\ Head(n) = stopping[n] /\ stopping[n] \in Sessions \cup {None}
    BY <1>2 DEF Head, TypeOK
  <2>2. CASE stopping[n] = None
    BY <1>2, <2>1, <2>2 DEF Stopped, SInv, Headed, Joining
  <2>3. CASE stopping[n] # None /\ sess[stopping[n]].st = "free"
    <3>1. ~Active(stopping[n]) /\ stopping[n] \notin Joining(n)
      BY <2>3 DEF Active, Live, Joining
    <3> QED
      BY <1>2, <2>1, <2>3, <3>1 DEF Stopped, SInv, Headed
  <2>4. CASE stopping[n] # None /\ sess[stopping[n]].st # "free"
    BY <1>2, <2>1, <2>4 DEF Stopped, SInv, Headed, Waits
  <2> QED
    BY <2>2, <2>3, <2>4
<1> QED
  BY <1>1, <1>2

\* The agent stops a session and starts none.
LEMMA StopKeeps ==
    ASSUME TypeOK, SInv, NEW n \in Nodes, running[n] = None \/ Stale(n),
           cancelled' = IF Stale(n) THEN cancelled \cup {running[n]} ELSE cancelled,
           running' = [running EXCEPT ![n] = None],
           stopping' = [stopping EXCEPT ![n] = Stopped(n)],
           UNCHANGED sess
    PROVE  SInv'
<1> USE ConstantsAssumption
<1>1. Stale(n) => running[n] \in Sessions /\ sess[running[n]].st # "free" /\ sess[running[n]].node = n
  BY DEF Stale, TypeOK, SInv, Owned
<1>2. /\ cancelled \subseteq cancelled'
      /\ \A x \in cancelled' : x \in cancelled \/ (x = running[n] /\ Stale(n))
      /\ \A x \in Sessions : Active(x)' => Active(x)
  BY DEF Active, Live
<1>3. /\ running'[n] = None /\ stopping'[n] = Stopped(n)
      /\ \A m \in Nodes \ {n} : running'[m] = running[m] /\ stopping'[m] = stopping[m]
  BY DEF TypeOK
<1>4. /\ Head(n)' = Stopped(n)
      /\ \A m \in Nodes \ {n} : Head(m)' = Head(m)
      /\ \A m \in Nodes : Joining(m)' = Joining(m)
  BY <1>3 DEF Head, Joining
<1>5. Owned'
  <2>1. ASSUME NEW s \in Sessions, sess[s].st # "free", s # running'[sess[s].node]
        PROVE  s \in cancelled'
    <3>1. CASE s = running[sess[s].node]
      BY <2>1, <3>1, <1>3 DEF SInv, Owned
    <3>2. CASE s # running[sess[s].node]
      BY <2>1, <3>2, <1>2 DEF SInv, Owned
    <3> QED
      BY <3>1, <3>2
  <2>2. ASSUME NEW m \in Nodes, running'[m] # None
        PROVE  /\ sess[running'[m]].st # "free" /\ sess[running'[m]].node = m
               /\ running'[m] \notin cancelled'
    BY <2>2, <1>1, <1>2, <1>3 DEF SInv, Owned
  <2>3. \A s \in Sessions : sess[s].st = "free" => s \notin cancelled'
    BY <1>1, <1>2 DEF SInv, Owned
  <2> QED
    BY <2>1, <2>2, <2>3, <1>2 DEF SInv, Owned
<1>6. Waits'
  <2> DEFINE Gone(s, m) == sess[s].st = "free" \/ (s \in cancelled' /\ sess[s].node = m)
  <2>1. \A s \in Sessions, m \in Nodes : Past(s, m) => Gone(s, m)
    BY <1>2 DEF Past
  <2>2. Stopped(n) # None => Gone(Stopped(n), n)
    <3>1. CASE Stale(n)
      BY <3>1, <1>1 DEF Stopped
    <3>2. CASE ~Stale(n)
      BY <3>2, <2>1, StoppedHead DEF Past
    <3> QED
      BY <3>1, <3>2
  <2>3. \A m \in Nodes : stopping'[m] # None => Gone(stopping'[m], m)
    BY <1>3, <2>1, <2>2 DEF SInv, Waits, TypeOK
  <2>4. \A s \in Sessions : sess[s].prev # None => Gone(sess[s].prev, sess[s].node)
    BY <1>2 DEF SInv, Waits, Past, TypeOK, Session
  <2> QED
    BY <2>3, <2>4 DEF SInv, Waits, Past
<1>7. Headed'
  BY <1>2, <1>4, StoppedHead DEF SInv, Headed
<1>8. Guarded'
  BY <1>2, <1>4 DEF SInv, Guarded, Owned
<1>9. Chained'
  <2> SUFFICES ASSUME NEW m \in Nodes, NEW S \in SUBSET Joining(m), Head(m)' \in S,
                      \A x \in S : sess[x].prev \in Joining(m) => sess[x].prev \in S
               PROVE  S = Joining(m)
    BY <1>4 DEF Chained
  <2>1. None \notin S
    BY DEF Joining
  <2>2. Head(m)' = Head(m)
    BY <2>1, <1>4, StoppedHead
  <2> QED
    BY <2>2 DEF SInv, Chained
<1>10. OneActive'
  BY <1>2 DEF SInv, OneActive
<1> QED
  BY <1>5, <1>6, <1>7, <1>8, <1>9, <1>10 DEF SInv

\* Where a new session begins.
LEMMA SpawnedFields ==
    \A n, p : /\ Spawned(n, p).st = (IF p = None THEN "idle" ELSE "joining")
              /\ Spawned(n, p).node = n /\ Spawned(n, p).prev = p
BY DEF Spawned, Free

\* The agent starts a session, behind the one it stops or has stopped before.
LEMMA SpawnKeeps ==
    ASSUME TypeOK, SInv, NEW n \in Nodes, NEW s \in Sessions, Unused(s),
           running[n] = None \/ Stale(n),
           cancelled' = IF Stale(n) THEN cancelled \cup {running[n]} ELSE cancelled,
           running' = [running EXCEPT ![n] = s],
           stopping' = [stopping EXCEPT ![n] = None],
           sess' = [sess EXCEPT ![s] = Spawned(n, Stopped(n))]
    PROVE  SInv'
<1> DEFINE q == Stopped(n)
<1> USE ConstantsAssumption
<1>0. /\ sess[s].st = "free" /\ s \notin cancelled /\ q # s
      /\ \A t \in Sessions : sess[t].prev # s
      /\ \A m \in Nodes : running[m] # s /\ stopping[m] # s
  <2>1. Head(n) # s
    BY DEF Unused, Head
  <2> QED
    BY <2>1, StoppedHead DEF Unused, SInv, Owned
<1>1. Stale(n) => running[n] \in Sessions /\ sess[running[n]].st # "free" /\ sess[running[n]].node = n
  BY DEF Stale, TypeOK, SInv, Owned
<1>2. /\ sess'[s].st = (IF q = None THEN "idle" ELSE "joining")
      /\ sess'[s].node = n /\ sess'[s].prev = q
      /\ \A x \in Sessions \ {s} : sess'[x] = sess[x]
  <2>1. sess'[s] = Spawned(n, q) /\ \A x \in Sessions \ {s} : sess'[x] = sess[x]
    BY DEF TypeOK
  <2>2. /\ Spawned(n, q).st = (IF q = None THEN "idle" ELSE "joining")
        /\ Spawned(n, q).node = n /\ Spawned(n, q).prev = q
    BY SpawnedFields
  <2> QED
    BY <2>1, <2>2
<1>3. /\ cancelled \subseteq cancelled' /\ s \notin cancelled'
      /\ \A x \in cancelled' : x \in cancelled \/ (x = running[n] /\ Stale(n))
  BY <1>0
<1>4. \A x \in Sessions \ {s} : Active(x)' => Active(x)
  BY <1>2, <1>3 DEF Active, Live
<1>5. /\ running'[n] = s /\ stopping'[n] = None
      /\ \A m \in Nodes \ {n} : running'[m] = running[m] /\ stopping'[m] = stopping[m]
  BY DEF TypeOK
<1>6. /\ Head(n)' = s
      /\ \A m \in Nodes \ {n} : Head(m)' = Head(m) /\ Joining(m)' = Joining(m)
      /\ Joining(n)' = Joining(n) \cup (IF q = None THEN {} ELSE {s})
      /\ s \notin Joining(n)
  BY <1>0, <1>2, <1>5 DEF Head, Joining
<1>7. \A t \in Sessions : sess[t].node = n /\ (Active(t) \/ sess[t].st = "joining")
                           => q # None /\ (t = q \/ q \in Joining(n))
  BY StoppedHead DEF Joining
<1>8. Owned'
  <2>1. ASSUME NEW t \in Sessions \ {s}, sess[t].st # "free", t # running'[sess[t].node]
        PROVE  t \in cancelled'
    <3>1. CASE t = running[sess[t].node]
      BY <2>1, <3>1, <1>5 DEF SInv, Owned
    <3>2. CASE t # running[sess[t].node]
      BY <2>1, <3>2, <1>3 DEF SInv, Owned
    <3> QED
      BY <3>1, <3>2
  <2>2. ASSUME NEW m \in Nodes \ {n}, running[m] # None
        PROVE  /\ sess'[running[m]].st # "free" /\ sess'[running[m]].node = m
               /\ running[m] \notin cancelled'
    <3>1. running[m] \in Sessions \ {s}
      BY <2>2, <1>0 DEF TypeOK
    <3> QED
      BY <2>2, <3>1, <1>1, <1>2, <1>3 DEF SInv, Owned
  <2>3. \A t \in Sessions \ {s} : sess[t].st = "free" => t \notin cancelled'
    BY <1>1, <1>3 DEF SInv, Owned
  <2>4. \A t \in Sessions \ {s} : sess[t].st = "leaving" => t \in cancelled'
    BY <1>3 DEF SInv, Owned
  <2>5. ASSUME NEW t \in Sessions
        PROVE  /\ sess'[t].st = "free" => t \notin cancelled'
               /\ sess'[t].st # "free" => sess'[t].node \in Nodes
               /\ sess'[t].st # "free" /\ t # running'[sess'[t].node] => t \in cancelled'
               /\ sess'[t].st = "leaving" => t \in cancelled'
    <3>1. CASE t = s
      BY <3>1, <1>2, <1>3, <1>5
    <3>2. CASE t # s
      BY <3>2, <2>1, <2>3, <2>4, <1>2 DEF SInv, Owned
    <3> QED
      BY <3>1, <3>2
  <2>6. ASSUME NEW m \in Nodes, running'[m] # None
        PROVE  /\ sess'[running'[m]].st # "free" /\ sess'[running'[m]].node = m
               /\ running'[m] \notin cancelled'
    BY <2>2, <2>6, <1>2, <1>3, <1>5
  <2> QED
    BY <2>5, <2>6 DEF Owned
<1>9. Waits'
  <2> DEFINE Gone(t, m) == sess'[t].st = "free" \/ (t \in cancelled' /\ sess'[t].node = m)
  <2>1. \A t \in Sessions \ {s}, m \in Nodes : Past(t, m) => Gone(t, m)
    BY <1>2, <1>3 DEF Past
  <2>2. q # None => Gone(q, n)
    <3>1. CASE Stale(n)
      BY <3>1, <1>0, <1>1, <1>2 DEF Stopped
    <3>2. CASE ~Stale(n)
      BY <3>2, <2>1, <1>0, StoppedHead
    <3> QED
      BY <3>1, <3>2
  <2>3. \A m \in Nodes : stopping'[m] # None => Gone(stopping'[m], m)
    BY <1>0, <1>5, <2>1 DEF SInv, Waits, TypeOK
  <2>4. \A t \in Sessions \ {s} : sess[t].prev # None => Gone(sess[t].prev, sess[t].node)
    <3> SUFFICES ASSUME NEW t \in Sessions \ {s}, sess[t].prev # None
                 PROVE  Gone(sess[t].prev, sess[t].node)
      BY Zenon
    <3>1. sess[t].prev \in Sessions \ {s} /\ sess[t].node \in Nodes
      BY <1>0 DEF TypeOK, Session, SInv, Owned, Waits
    <3> QED
      BY <3>1, <2>1 DEF SInv, Waits
  <2>5. \A t \in Sessions : /\ sess'[t].st = "joining" <=> sess'[t].prev # None
                            /\ sess'[t].prev # None => Gone(sess'[t].prev, sess'[t].node)
    BY <2>2, <2>4, <1>2 DEF SInv, Waits
  <2> QED
    BY <2>3, <2>5 DEF Waits, Past
<1>10. Headed'
  <2> SUFFICES ASSUME NEW m \in Nodes, NEW t \in Sessions, sess'[t].node = m,
                      Active(t)' \/ sess'[t].st = "joining"
               PROVE  t = Head(m)' \/ Head(m)' \in Joining(m)'
    BY DEF Headed
  <2>1. CASE t = s
    BY <2>1, <1>2, <1>6
  <2>2. CASE t # s /\ m = n
    BY <2>2, <1>2, <1>4, <1>6, <1>7
  <2>3. CASE t # s /\ m # n
    BY <2>3, <1>2, <1>4, <1>6 DEF SInv, Headed
  <2> QED
    BY <2>1, <2>2, <2>3
<1>11. Guarded'
  <2> SUFFICES ASSUME NEW x \in Sessions, NEW t \in Sessions, sess'[x].st = "joining",
                      Active(t)', sess'[t].node = sess'[x].node
               PROVE  t = sess'[x].prev \/ sess'[x].prev \in Joining(sess[x].node)'
    BY DEF Guarded
  <2>1. CASE x = s
    <3>1. q # None /\ t # s
      BY <2>1, <1>2 DEF Active, Live
    <3>2. t = q \/ q \in Joining(n)
      BY <2>1, <3>1, <1>2, <1>4, <1>7
    <3>3. Joining(sess[x].node)' = Joining(n)'
      BY <2>1, <1>2 DEF Joining
    <3> QED
      BY <2>1, <3>2, <3>3, <1>2, <1>6
  <2>2. CASE x # s
    <3>1. sess'[x] = sess[x] /\ sess[x].node \in Nodes
      BY <2>2, <1>2 DEF SInv, Owned
    <3>2. t # s
      <4>1. CASE t = s
        BY <4>1, <2>2, <3>1, <1>2, <1>7 DEF Active, Live
      <4> QED
        BY <4>1
    <3>3. t = sess[x].prev \/ sess[x].prev \in Joining(sess[x].node)
      BY <3>1, <3>2, <1>2, <1>4 DEF SInv, Guarded
    <3>4. Joining(sess[x].node) \subseteq Joining(sess[x].node)'
      BY <3>1, <1>2, <1>0 DEF Joining
    <3> QED
      BY <3>1, <3>3, <3>4
  <2> QED
    BY <2>1, <2>2
<1>12. Chained'
  <2> SUFFICES ASSUME NEW m \in Nodes, NEW S \in SUBSET (Joining(m)'), Head(m)' \in S,
                      \A x \in S : sess'[x].prev \in Joining(m)' => sess'[x].prev \in S
               PROVE  S = Joining(m)'
    BY DEF Chained
  <2>0. \A x \in Joining(m) : sess'[x] = sess[x] /\ sess[x].prev # s
    BY <1>0, <1>2 DEF Joining
  <2>1. CASE m # n
    BY <2>0, <2>1, <1>6 DEF SInv, Chained
  <2>2. CASE m = n
    <3> DEFINE T == S \ {s}
    <3>1. s \in S /\ q # None /\ T \in SUBSET Joining(n)
      BY <2>2, <1>6
    <3>2. CASE q \in Joining(n)
      <4>1. q \in T /\ q = Head(n)
        BY <2>2, <3>1, <3>2, <1>0, <1>2, <1>6, StoppedHead
      <4>2. \A x \in T : sess[x].prev \in Joining(n) => sess[x].prev \in T
        BY <2>0, <2>2, <3>1, <1>6
      <4>3. T = Joining(n)
        <5> HIDE DEF T
        <5> QED
          BY <3>1, <4>1, <4>2 DEF SInv, Chained
      <4> QED
        BY <2>2, <3>1, <4>3, <1>6
    <3>3. CASE q \notin Joining(n)
      <4>1. Joining(n) = {}
        BY <3>3, <1>7 DEF Joining
      <4> QED
        BY <2>2, <3>1, <4>1, <1>6, Zenon
    <3> QED
      BY <3>2, <3>3
  <2> QED
    BY <2>1, <2>2
<1>13. OneActive'
  <2> SUFFICES ASSUME NEW x \in Sessions, NEW t \in Sessions, Active(x)', Active(t)',
                      sess'[x].node = sess'[t].node, x # t
               PROVE  FALSE
    BY DEF OneActive
  <2>1. CASE x # s /\ t # s
    BY <2>1, <1>2, <1>4 DEF SInv, OneActive
  <2>2. CASE x = s
    BY <2>2, <1>2, <1>4, <1>7 DEF Active, Live
  <2>3. CASE t = s
    BY <2>3, <1>2, <1>4, <1>7 DEF Active, Live
  <2> QED
    BY <2>1, <2>2, <2>3
<1> QED
  BY <1>8, <1>9, <1>10, <1>11, <1>12, <1>13 DEF SInv

-----------------------------------------------------------------------------
(* The steps of the specification.                                         *)

\* A cut link leaves the sessions where they are.
LEMMA CutFields ==
    ASSUME sess \in [Sessions -> Session], NEW b
    PROVE  /\ Cut(b) \in [Sessions -> Session]
           /\ \A x \in Sessions : /\ Cut(b)[x].st = sess[x].st /\ Cut(b)[x].node = sess[x].node
                                   /\ Cut(b)[x].prev = sess[x].prev
BY Zenon DEF Cut, Session

\* A step of a session that reports, without the session ending.
LEMMA ReportKeeps ==
    ASSUME IInv, NEW s \in Sessions, NEW t \in Session, NEW e \in Entry,
           Reports(s, t, e), UNCHANGED <<world, cache, tasks>>,
           t.node = sess[s].node, t.prev = sess[s].prev,
           sess[s].st \notin {"free", "joining"}, t.st \notin {"free", "joining", "leaving"},
           \/ t.st = sess[s].st \/ s \notin cancelled
           \/ sess[s].st = "greeting" \/ t.st = "idle"
    PROVE  IInv'
<1>1. sess[s].node \in Nodes
  BY DEF IInv, SInv, Owned
<1>2. PICK u \in Session : /\ u.st = t.st /\ u.node = t.node /\ u.prev = t.prev
                           /\ sess' = [sess EXCEPT ![s] = u]
  BY <1>1, ReportsEffect DEF IInv
<1>3. TypeOK'
  <2>1. sess' \in [Sessions -> Session]
    BY <1>2 DEF IInv, TypeOK
  <2> QED
    BY <2>1, <1>1, ReportsEffect DEF IInv, TypeOK, world, tasks
<1>4. sess'[s] = u /\ \A x \in Sessions \ {s} : sess'[x] = sess[x]
  BY <1>2 DEF IInv, TypeOK
<1>5. Proceed
  <2>1. sess'[s].st = t.st /\ sess'[s].node = sess[s].node /\ sess'[s].prev = sess[s].prev
    BY <1>2, <1>4, Zenon
  <2>2. Active(s)' => Active(s)
    BY <2>1 DEF Active, Live, IInv, TypeOK, Session, Steps, SInv, Owned, tasks
  <2> QED
    BY <1>4, <2>1, <2>2 DEF Proceed, Placed
<1> QED
  BY <1>3, <1>5, ProceedKeeps DEF IInv

\* A step that changes sessions only in where they are and in their links.
LEMMA MoveKeeps ==
    ASSUME IInv, sess' \in [Sessions -> Session], changes' \in 0..MaxChanges,
           UNCHANGED <<world, conn, cache, missed>>, Proceed
    PROVE  IInv'
<1>1. TypeOK'
  BY DEF IInv, TypeOK, world, Proceed, Placed, tasks
<1> QED
  BY <1>1, ProceedKeeps DEF IInv

\* The steps of a session keep the invariant.
LEMMA StepKeeps ==
    ASSUME IInv, NEW s \in Sessions, Step(s) \/ JoinTimeout(s)
    PROVE  IInv'
<1> USE ConstantsAssumption
<1>0. sess[s] \in Session /\ sess \in [Sessions -> Session] /\ changes \in 0..MaxChanges
  BY DEF IInv, TypeOK
<1>1. CASE JoinEnds(s) \/ JoinTimeout(s)
  <2> DEFINE u == [sess[s] EXCEPT !.st = "idle", !.prev = None]
  <2>1. u \in Session /\ u.st = "idle" /\ u.prev = None /\ u.node = sess[s].node
    BY <1>0, Zenon DEF Session, Steps
  <2>2. sess' = [sess EXCEPT ![s] = u]
    BY <1>1, <1>0, Zenon DEF JoinEnds, JoinTimeout
  <2>3. sess'[s] = u /\ (\A x \in Sessions \ {s} : sess'[x] = sess[x])
        /\ sess' \in [Sessions -> Session]
    BY <2>1, <2>2, <1>0
  <2>4. changes' \in 0..MaxChanges
    BY <1>1, <1>0, Bounded DEF JoinEnds, JoinTimeout, IInv
  <2>5. TypeOK'
    BY <1>1, <2>3, <2>4 DEF IInv, TypeOK, JoinEnds, JoinTimeout, world, tasks
  <2>6. sess[s].st = "joining" /\ sess[s].prev \in Sessions
    BY <1>1, <1>0, Zenon DEF JoinEnds, JoinTimeout, At, Session, IInv, SInv, Waits
  <2>7. sess[sess[s].prev].st # "joining" /\ ~Active(sess[s].prev)
    BY <1>1, <2>6 DEF JoinEnds, JoinTimeout, Active, Live, IInv, SInv, Waits, Past
  <2>8. SInv'
    BY <1>1, <2>1, <2>3, <2>6, <2>7, JoinKeeps, Zenon DEF IInv, JoinEnds, JoinTimeout
  <2> QED
    BY <2>5, <2>8 DEF IInv
<1>2. CASE Wait(s)
  <2>1. \E m \in {"device", "vm"} : Reports(s, sess[s], Disconnected(m))
    BY <1>2 DEF Wait
  <2>2. PICK m \in Messages : Reports(s, sess[s], Disconnected(m))
    BY <2>1, Zenon DEF Messages
  <2>3. sess[s].st = "idle" /\ UNCHANGED <<world, cache, tasks>>
    BY <1>2 DEF Wait, At
  <2> QED
    BY <2>2, <2>3, <1>0, Entries, ReportKeeps
<1>3. CASE Attempt(s)
  <2>1. /\ Goto(s, "dialing") \in Session /\ Goto(s, "dialing").st = "dialing"
        /\ Goto(s, "dialing").node = sess[s].node /\ Goto(s, "dialing").prev = sess[s].prev
    BY <1>0 DEF Goto, Session, Steps
  <2>2. /\ sess[s].st = "idle" /\ s \notin cancelled /\ UNCHANGED <<world, cache, tasks>>
        /\ Reports(s, Goto(s, "dialing"), Connecting)
    BY <1>3 DEF Attempt, At
  <2> QED
    BY <2>1, <2>2, Entries, ReportKeeps
<1>4. CASE AwaitResume(s)
  <2>1. /\ sess[s].st = "greeting" /\ UNCHANGED <<world, cache, tasks>>
        /\ Reports(s, sess[s], Awaiting)
    BY <1>4 DEF AwaitResume, At
  <2> QED
    BY <2>1, <1>0, Entries, ReportKeeps
<1>5. CASE Greeted(s)
  <2>1. /\ Goto(s, "streaming") \in Session /\ Goto(s, "streaming").st = "streaming"
        /\ Goto(s, "streaming").node = sess[s].node /\ Goto(s, "streaming").prev = sess[s].prev
    BY <1>0 DEF Goto, Session, Steps
  <2>2. /\ sess[s].st = "greeting" /\ UNCHANGED <<world, cache, tasks>>
        /\ Reports(s, Goto(s, "streaming"), Connected)
    BY <1>5 DEF Greeted, At
  <2> QED
    BY <2>1, <2>2, Entries, ReportKeeps
<1>6. CASE Close(s)
  <2>1. /\ Goto(s, "idle") \in Session /\ Goto(s, "idle").st = "idle"
        /\ Goto(s, "idle").node = sess[s].node /\ Goto(s, "idle").prev = sess[s].prev
    BY <1>0 DEF Goto, Session, Steps
  <2>2. /\ sess[s].st = "closing" /\ UNCHANGED <<world, cache, tasks>>
        /\ Reports(s, Goto(s, "idle"), Disconnected("over"))
    BY <1>6 DEF Close, At
  <2>3. Disconnected("over") \in Entry
    BY Entries, Zenon DEF Messages
  <2> QED
    BY <2>1, <2>2, <2>3, ReportKeeps
<1>7. CASE Detach(s)
  <2>0. Free \in Session /\ Disconnected("detached") \in Entry
    BY Entries, Zenon DEF Messages, Free, Unreported, Session, Entry, Steps, States
  <2>1. /\ sess[s].st = "leaving" /\ Reports(s, Free, Disconnected("detached"))
        /\ cancelled' = cancelled \ {s} /\ UNCHANGED <<world, cache, running, stopping>>
    BY <1>7 DEF Detach, At
  <2>2. sess[s].node \in Nodes
    BY <2>1 DEF IInv, SInv, Owned
  <2>3. conn' \in Report /\ missed' \in BOOLEAN /\ changes' \in 0..MaxChanges
    BY <2>0, <2>1, <2>2, ReportsEffect DEF IInv
  <2>4. sess' = [sess EXCEPT ![s] = Free]
    BY <2>1 DEF Reports, Made
  <2>5. sess'[s] = Free /\ (\A x \in Sessions \ {s} : sess'[x] = sess[x])
        /\ sess' \in [Sessions -> Session]
    BY <2>0, <2>4, <1>0
  <2>6. TypeOK'
    BY <2>1, <2>3, <2>5 DEF IInv, TypeOK, world
  <2> QED
    BY <2>1, <2>5, <2>6, DetachKeeps DEF IInv
<1>8. CASE Dial(s)
  <2> DEFINE c == Cut(sess[s].binding)
             u == [c[s] EXCEPT !.st = "greeting", !.link = TRUE]
  <2>1. /\ c \in [Sessions -> Session]
        /\ \A x \in Sessions : c[x].st = sess[x].st /\ c[x].node = sess[x].node /\ c[x].prev = sess[x].prev
    BY <1>0, CutFields
  <2>2. u \in Session /\ u.st = "greeting" /\ u.node = sess[s].node /\ u.prev = sess[s].prev
    <3>1. \A r \in Session :
            LET t == [r EXCEPT !.st = "greeting", !.link = TRUE]
            IN  t \in Session /\ t.st = "greeting" /\ t.node = r.node /\ t.prev = r.prev
      BY Zenon DEF Session, Steps
    <3>2. /\ c[s] \in Session /\ c[s].node = sess[s].node /\ c[s].prev = sess[s].prev
      BY <2>1
    <3> QED
      BY <3>1, <3>2, Zenon
  <2>3. sess' = [c EXCEPT ![s] = u]
    BY <1>8, <2>1, Zenon DEF Dial
  <2> HIDE DEF c, u
  <2>4. sess' \in [Sessions -> Session] /\ sess'[s] = u /\ \A x \in Sessions \ {s} : sess'[x] = c[x]
    BY <2>1, <2>2, <2>3
  <2>5. Proceed
    <3>1. sess[s].st = "dialing" /\ sess'[s].st = "greeting" /\ UNCHANGED tasks
      BY <1>8, <2>2, <2>4 DEF Dial, At
    <3>2. \A x \in Sessions : sess'[x].node = sess[x].node /\ sess'[x].prev = sess[x].prev
      BY <2>1, <2>2, <2>4
    <3>3. \A x \in Sessions \ {s} : sess'[x].st = sess[x].st
      BY <2>1, <2>4
    <3>4. Active(s)
      BY <3>1 DEF Active, Live
    <3> QED
      BY <3>1, <3>2, <3>3, <3>4, Zenon DEF Proceed, Placed
  <2> QED
    BY <1>8, <1>0, <2>4, <2>5, MoveKeeps DEF Dial
<1>9. CASE DialFails(s) \/ GreetingFails(s) \/ StreamEnds(s)
  <2>1. /\ Ends(s) \in Session /\ Ends(s).st = "closing"
        /\ Ends(s).node = sess[s].node /\ Ends(s).prev = sess[s].prev
    BY <1>0, Zenon DEF Ends, Session, Steps
  <2>2. UNCHANGED <<world, conn, cache, tasks, missed>>
    BY <1>9, Zenon DEF DialFails, GreetingFails, StreamEnds
  <2>3. sess[s].st \in {"dialing", "greeting", "streaming"}
    BY <1>9, Zenon DEF DialFails, GreetingFails, StreamEnds, At
  <2>4. changes' \in 0..MaxChanges
    BY <1>9, <1>0, Bounded DEF DialFails, GreetingFails, StreamEnds, Expected, IInv
  <2>5. PICK c \in {sess, Cut(sess[s].binding)} : sess' = [c EXCEPT ![s] = Ends(s)]
    BY <1>9, Zenon DEF DialFails, GreetingFails, StreamEnds
  <2>6. /\ c \in [Sessions -> Session]
        /\ \A x \in Sessions : c[x].st = sess[x].st /\ c[x].node = sess[x].node /\ c[x].prev = sess[x].prev
    BY <2>5, <1>0, CutFields
  <2>7. sess' \in [Sessions -> Session] /\ sess'[s] = Ends(s) /\ \A x \in Sessions \ {s} : sess'[x] = c[x]
    BY <2>1, <2>5, <2>6
  <2>8. Proceed
    <3>1. \A x \in Sessions : sess'[x].node = sess[x].node /\ sess'[x].prev = sess[x].prev
      BY <2>1, <2>6, <2>7
    <3>2. \A x \in Sessions \ {s} : sess'[x].st = sess[x].st
      BY <2>6, <2>7
    <3>3. Active(s)
      BY <2>3 DEF Active, Live
    <3> QED
      BY <2>1, <2>2, <2>3, <2>7, <3>1, <3>2, <3>3 DEF Proceed, Placed
  <2> QED
    BY <2>2, <2>4, <2>7, <2>8, MoveKeeps
<1>10. CASE Leave(s)
  <2> DEFINE u == [sess[s] EXCEPT !.st = "leaving", !.link = FALSE]
  <2>1. u \in Session /\ u.st = "leaving" /\ u.node = sess[s].node /\ u.prev = sess[s].prev
    BY <1>0, Zenon DEF Session, Steps
  <2>2. sess' = [sess EXCEPT ![s] = u]
    BY <1>10, <1>0, Zenon DEF Leave
  <2> HIDE DEF u
  <2>3. sess' \in [Sessions -> Session] /\ sess'[s] = u /\ \A x \in Sessions \ {s} : sess'[x] = sess[x]
    BY <2>1, <2>2, <1>0
  <2>4. Proceed
    BY <1>10, <2>1, <2>3 DEF Leave, Proceed, Placed, Active, Live
  <2> QED
    BY <1>10, <1>0, <2>3, <2>4, MoveKeeps DEF Leave
<1> QED
  BY <1>1, <1>2, <1>3, <1>4, <1>5, <1>6, <1>7, <1>8, <1>9, <1>10 DEF Step

\* One iteration of the agent's loop keeps the invariant.
LEMMA RunKeeps ==
    ASSUME IInv, NEW n \in Nodes, Run(n)
    PROVE  IInv'
<1> USE ConstantsAssumption
<1>0. TypeOK /\ SInv
  BY DEF IInv
<1>1. CASE Desired(n)
  <2>1. /\ running[n] = None \/ Stale(n)
        /\ \E s \in Sessions : Unused(s)
        /\ sess' = [sess EXCEPT ![NewSession] = Spawned(n, Stopped(n))]
        /\ running' = [running EXCEPT ![n] = NewSession]
        /\ stopping' = [stopping EXCEPT ![n] = None]
    BY <1>1 DEF Run
  <2>2. NewSession \in Sessions /\ Unused(NewSession)
    BY <2>1, Zenon DEF NewSession
  <2>3. cancelled' = (IF Stale(n) THEN cancelled \cup {running[n]} ELSE cancelled)
        /\ UNCHANGED <<world, conn, cache, missed, changes>>
    BY DEF Run
  <2>4. SInv'
    BY <1>0, <2>1, <2>2, <2>3, SpawnKeeps, Zenon
  <2>5. Spawned(n, Stopped(n)) \in Session
    <3>1. Stopped(n) \in Sessions \cup {None}
      BY <1>0, <2>1, StoppedHead
    <3>2. cache[n].vmi.inst \in Nat /\ cache[n].bound \in Bindings \cup {None}
      BY <1>0 DEF TypeOK, View, Vmi
    <3> QED
      BY <3>1, <3>2, Zenon DEF Spawned, Free, Unreported, Session, Entry, Steps, States, Messages
  <2>6. TypeOK'
    <3>1. running[n] \in Sessions \cup {None} /\ (Stale(n) => running[n] \in Sessions)
      BY <1>0 DEF TypeOK, Stale
    <3>2. cancelled' \subseteq Sessions
      BY <1>0, <2>3, <3>1 DEF TypeOK
    <3>3. sess' \in [Sessions -> Session]
      BY <1>0, <2>1, <2>2, <2>5 DEF TypeOK
    <3>4. running' \in [Nodes -> Sessions \cup {None}] /\ stopping' \in [Nodes -> Sessions \cup {None}]
      BY <1>0, <2>1, <2>2 DEF TypeOK
    <3> QED
      BY <1>0, <2>3, <3>2, <3>3, <3>4 DEF TypeOK, world
  <2> QED
    BY <2>4, <2>6 DEF IInv
<1>2. CASE ~Desired(n)
  <2>1. /\ running' = [running EXCEPT ![n] = None]
        /\ stopping' = [stopping EXCEPT ![n] = Stopped(n)]
        /\ cancelled' = (IF Stale(n) THEN cancelled \cup {running[n]} ELSE cancelled)
        /\ UNCHANGED <<world, conn, cache, missed, changes, sess>>
    BY <1>2 DEF Run
  <2>2. running[n] = None \/ Stale(n)
    BY <1>2 DEF Stale
  <2>3. SInv'
    BY <1>0, <2>1, <2>2, StopKeeps, Zenon
  <2>4. TypeOK'
    <3>1. running[n] \in Sessions \cup {None} /\ (Stale(n) => running[n] \in Sessions)
      BY <1>0 DEF TypeOK, Stale
    <3>2. cancelled' \subseteq Sessions
      BY <1>0, <2>1, <3>1 DEF TypeOK
    <3>3. Stopped(n) \in Sessions \cup {None}
      BY <1>0, <2>2, StoppedHead
    <3> QED
      BY <1>0, <2>1, <3>2, <3>3 DEF TypeOK, world
  <2> QED
    BY <2>3, <2>4 DEF IInv
<1> QED
  BY <1>1, <1>2

\* The steps of KubeVirt, the devices, the controller and the watches keep it.
LEMMA WorldKeeps ==
    ASSUME IInv, Environment \/ WriteBound \/ \E n \in Nodes : Sync(n)
    PROVE  IInv'
<1> USE ConstantsAssumption
<1>0. TypeOK
  BY DEF IInv
<1>1. CASE \E b \in Bindings : Unplug(b)
  <2>1. PICK b \in Bindings : Unplug(b)
    BY <1>1
  <2>2. /\ sess' \in [Sessions -> Session]
        /\ \A x \in Sessions : /\ sess'[x].st = sess[x].st /\ sess'[x].node = sess[x].node
                                /\ sess'[x].prev = sess[x].prev
    BY <2>1, <1>0, CutFields DEF TypeOK, Unplug
  <2>3. Proceed
    BY <2>1, <2>2 DEF Unplug, Proceed, Placed
  <2>4. TypeOK'
    BY <2>1, <2>2, <1>0, Bounded DEF Unplug, TypeOK, tasks
  <2> QED
    BY <2>3, <2>4, ProceedKeeps DEF IInv
<1>2. CASE \E s \in Sessions : LinkBreaks(s)
  <2>1. PICK s \in Sessions : LinkBreaks(s)
    BY <1>2
  <2> DEFINE u == [sess[s] EXCEPT !.link = FALSE]
  <2>2. /\ u \in Session /\ u.st = sess[s].st /\ u.node = sess[s].node /\ u.prev = sess[s].prev
    <3>1. sess[s] \in Session
      BY <1>0 DEF TypeOK
    <3> QED
      BY <3>1, Zenon DEF Session
  <2>3. sess' = [sess EXCEPT ![s] = u]
    BY <2>1 DEF LinkBreaks
  <2> HIDE DEF u
  <2>4. sess' \in [Sessions -> Session] /\ sess'[s] = u /\ \A x \in Sessions \ {s} : sess'[x] = sess[x]
    BY <2>2, <2>3, <1>0 DEF TypeOK
  <2>5. Proceed
    BY <2>1, <2>2, <2>4 DEF LinkBreaks, Proceed, Placed
  <2>6. changes' \in 0..MaxChanges
    BY <2>1, <1>0, Bounded DEF LinkBreaks, Expected, TypeOK
  <2> QED
    BY <2>1, <2>4, <2>5, <2>6, MoveKeeps DEF LinkBreaks
<1>3. ASSUME UNCHANGED <<sess, tasks>>
      PROVE  SInv'
  <2>1. Proceed
    BY <1>3 DEF Proceed, Placed
  <2> QED
    BY <2>1, ProceedKeeps DEF IInv
<1>4. CASE StartVmi \/ StopVmi \/ Migrate \/ ResumeVmi
  <2>1. vmi' \in Vmi
    <3>1. CASE StartVmi
      BY <3>1, <1>0 DEF StartVmi, TypeOK, Vmi
    <3>2. CASE StopVmi
      BY <3>2, <1>0, Zenon DEF StopVmi, TypeOK, Vmi
    <3>3. CASE Migrate
      BY <3>3, <1>0 DEF Migrate, TypeOK, Vmi
    <3>4. CASE ResumeVmi
      BY <3>4, <1>0, Zenon DEF ResumeVmi, TypeOK, Vmi
    <3> QED
      BY <1>4, <3>1, <3>2, <3>3, <3>4
  <2>2. changes' \in 0..MaxChanges
    BY <1>4, <1>0, Bounded DEF StartVmi, StopVmi, Migrate, ResumeVmi, TypeOK
  <2>3. UNCHANGED <<lease, bound, avail, conn, cache, sess, tasks, missed>>
    BY <1>4 DEF StartVmi, StopVmi, Migrate, ResumeVmi
  <2>4. TypeOK'
    BY <2>1, <2>2, <2>3, <1>0 DEF TypeOK, tasks
  <2> QED
    BY <2>3, <2>4, <1>3 DEF IInv
<1>5. CASE Rebind \/ WriteBound \/ \E b \in Bindings : Plug(b)
  <2>1. changes' \in 0..MaxChanges
    BY <1>5, <1>0, Bounded, Zenon DEF Rebind, WriteBound, Plug, TypeOK
  <2>2. TypeOK'
    BY <2>1, <1>5, <1>0 DEF Rebind, WriteBound, Plug, TypeOK, tasks
  <2>3. UNCHANGED <<sess, tasks>>
    BY <1>5 DEF Rebind, WriteBound, Plug
  <2> QED
    BY <2>2, <2>3, <1>3 DEF IInv
<1>6. CASE \E n \in Nodes : Sync(n)
  <2>1. PICK n \in Nodes : Sync(n)
    BY <1>6
  <2>2. UNCHANGED <<world, conn, sess, tasks, missed, changes>>
    BY <2>1 DEF Sync, SyncVmi, SyncDevices, SyncClaim
  <2>3. cache' \in [Nodes -> View]
    <3>1. cache \in [Nodes -> View] /\ cache[n] \in View /\ Taken(n) \in BOOLEAN
      BY <1>0 DEF TypeOK, Taken
    <3>2. CASE SyncVmi(n)
      BY <3>1, <3>2, <1>0 DEF SyncVmi, TypeOK, View
    <3>3. CASE SyncDevices(n)
      <4>1. [cache[n] EXCEPT !.lease = lease, !.avail = avail] \in View
        BY <3>1, <1>0, Zenon DEF TypeOK, View
      <4> QED
        BY <3>1, <3>3, <4>1 DEF SyncDevices
    <3>4. CASE SyncClaim(n)
      <4>1. [cache[n] EXCEPT !.bound = bound, !.taken = Taken(n)] \in View
        BY <3>1, <1>0, Zenon DEF TypeOK, View
      <4> QED
        BY <3>1, <3>4, <4>1 DEF SyncClaim
    <3> QED
      BY <2>1, <3>2, <3>3, <3>4 DEF Sync
  <2>4. TypeOK'
    BY <2>2, <2>3, <1>0 DEF TypeOK, world, tasks
  <2> QED
    BY <2>2, <2>4, <1>3 DEF IInv
<1> QED
  BY <1>1, <1>2, <1>4, <1>5, <1>6 DEF Environment

\* The invariant is inductive.
LEMMA NextIInv ==
    ASSUME IInv, [Next]_vars
    PROVE  IInv'
<1>1. CASE Environment \/ WriteBound \/ \E n \in Nodes : Sync(n)
  BY <1>1, WorldKeeps
<1>2. CASE \E n \in Nodes : Run(n)
  BY <1>2, RunKeeps
<1>3. CASE \E n \in Nodes : Restart(n)
  <2>1. PICK n \in Nodes : Restart(n)
    BY <1>3
  <2>2. SInv'
    BY <2>1, RestartKeeps DEF IInv
  <2>3. Free \in Session
    BY DEF Free, Unreported, Session, Entry, Steps, States, Messages
  <2>4. changes' \in 0..MaxChanges /\ Stored(n) \in View
    BY <2>1, Bounded, StoredType DEF Restart, IInv
  <2>5. TypeOK'
    BY <2>1, <2>3, <2>4 DEF Restart, IInv, TypeOK, world
  <2> QED
    BY <2>2, <2>5 DEF IInv
<1>4. CASE \E s \in Sessions : Step(s) \/ JoinTimeout(s)
  BY <1>4, StepKeeps
<1>5. CASE UNCHANGED vars
  <2>1. UNCHANGED <<world, conn, cache, missed, changes, sess, tasks>>
    BY <1>5 DEF vars
  <2>2. Proceed
    BY <2>1 DEF Proceed, Placed
  <2>3. TypeOK'
    BY <2>1 DEF IInv, TypeOK, world, tasks
  <2> QED
    BY <2>2, <2>3, ProceedKeeps DEF IInv
<1> QED
  BY <1>1, <1>2, <1>3, <1>4, <1>5 DEF Next

\* The variables keep their types.
THEOREM TypesKept == Spec => []TypeOK
<1>1. IInv /\ [Next]_vars => IInv'
  BY NextIInv
<1>2. IInv => TypeOK
  BY DEF IInv
<1> QED
  BY <1>1, <1>2, InitIInv, PTL DEF Spec

\* However often an agent replaces the session of a claim, and even when it has
\* given up waiting for the old one, at most one has a data path.
THEOREM OnePathKept == Spec => []OnePath
<1>1. IInv /\ [Next]_vars => IInv'
  BY NextIInv
<1>2. IInv => OnePath
  BY DEF IInv, SInv, OneActive, Active, OnePath
<1> QED
  BY <1>1, <1>2, InitIInv, PTL DEF Spec
=============================================================================
