--------------------------- MODULE ExporterProofs ---------------------------
(***************************************************************************)
(* Proofs about Exporter, for any number of sessions, claims and           *)
(* disturbances.                                                           *)
(***************************************************************************)
EXTENDS Exporter, TLAPS

-----------------------------------------------------------------------------
(* Type correctness.                                                       *)

\* The initial states are well typed.
LEMMA InitType == Init => TypeOK
  <1> SUFFICES ASSUME Init PROVE TypeOK
    OBVIOUS
  <1>1. plugged \in Nat /\ enums \in Nat /\ local \in Nat /\ dev \in [Sessions -> Nat]
    BY DEF Init, Gone
  <1>2. st \in [Sessions -> Steps]
    BY DEF Init, Steps
  <1>3. notified \in BOOLEAN
    BY Zenon DEF Init
  <1>4. changes \in 0..MaxChanges
    BY ConstantsAssumption DEF Init
  <1>5. /\ lease \in Claims \cup {None}
        /\ who \in [Sessions -> Claims \cup {None}]
        /\ child \in [Sessions -> {"none", "run", "killed"}]
        /\ active \in Sessions \cup {None}
        /\ cancelled \subseteq Sessions
        /\ busy \in Sessions \cup {None}
    BY DEF Init
  <1> QED
    BY <1>1, <1>2, <1>3, <1>4, <1>5 DEF TypeOK

\* A disturbance keeps the counter in its bound.
LEMMA DisturbType ==
    ASSUME TypeOK, NEW kind, Disturb(kind)
    PROVE  changes' \in 0..MaxChanges
  BY ConstantsAssumption DEF TypeOK, Disturb

\* Every step keeps the state well typed.
LEMMA StepType == TypeOK /\ [Next]_vars => TypeOK'
  <1> SUFFICES ASSUME TypeOK, [Next]_vars PROVE TypeOK'
    OBVIOUS
  <1> USE DEF TypeOK
  <1>1. CASE Environment
    <2>1. CASE ChangeLease
      BY <2>1, DisturbType DEF ChangeLease, registry
    <2>2. CASE Unplug
      BY <2>2, DisturbType DEF Unplug, Gone, registry
    <2>3. CASE Plug
      BY <2>3 DEF Plug, registry
    <2> QED
      BY <1>1, <2>1, <2>2, <2>3 DEF Environment
  <1>2. CASE Scan
    BY <1>2, DisturbType DEF Scan, world, registry
  <1>3. CASE EndRemoved
    BY <1>3, Zenon DEF EndRemoved, world
  <1>4. ASSUME NEW s \in Sessions, NEW c \in Claims, Hello(s, c)
        PROVE  TypeOK'
    BY <1>4, DisturbType DEF Hello, Moves, Steps, world, registry
  <1>5. ASSUME NEW s \in Sessions, Step(s)
        PROVE  TypeOK'
    <2>1. CASE LeaseGranted(s)
      BY <2>1 DEF LeaseGranted, Moves, Steps, world, registry
    <2>2. CASE LeaseRefused(s)
      BY <2>2, DisturbType DEF LeaseRefused, Leave, Moves, Steps, Gone, world, registry
    <2>3. CASE BeginSession(s)
      BY <2>3 DEF BeginSession, Registered, Moves, Steps, world
    <2>4. CASE Acquire(s)
      BY <2>4 DEF Acquire, Moves, Steps, world, registry
    <2>5. CASE LockTimeout(s)
      BY <2>5, DisturbType DEF LockTimeout, Moves, Steps, world, registry
    <2>6. CASE Accepted(s)
      BY <2>6 DEF Accepted, Moves, Steps, world, registry
    <2>7. CASE ChildExits(s)
      BY <2>7, DisturbType DEF ChildExits, Moves, Steps, world, registry
    <2>8. CASE Stop(s)
      BY <2>8, DisturbType
         DEF Stop, StopsStarting, StopsServing, Moves, Steps, world, registry
    <2>9. CASE Terminate(s)
      BY <2>9 DEF Terminate, Moves, Steps, world, registry
    <2>10. CASE Unlock(s)
      BY <2>10 DEF Unlock, Moves, Steps, world, registry
    <2>11. CASE EndSession(s)
      BY <2>11 DEF EndSession, Deregistered, Leave, Moves, Steps, Gone, world
    <2> QED
      BY <1>5, <2>1, <2>2, <2>3, <2>4, <2>5, <2>6, <2>7, <2>8, <2>9, <2>10, <2>11 DEF Step
  <1>6. ASSUME NEW s \in Sessions, SpawnFails(s) \/ ReplyFails(s) \/ Reap(s)
        PROVE  TypeOK'
    <2>1. CASE SpawnFails(s)
      BY <2>1, DisturbType DEF SpawnFails, Moves, Steps, world, registry
    <2>2. CASE ReplyFails(s)
      BY <2>2, DisturbType DEF ReplyFails, Moves, Steps, world, registry
    <2>3. CASE Reap(s)
      BY <2>3 DEF Reap, world, registry
    <2> QED
      BY <1>6, <2>1, <2>2, <2>3
  <1>7. CASE UNCHANGED vars
    BY <1>7 DEF vars, world, registry
  <1> QED
    BY <1>1, <1>2, <1>3, <1>4, <1>5, <1>6, <1>7 DEF Next

\* The exporter's state always has its type.
THEOREM TypeCorrect == Spec => []TypeOK
  BY InitType, StepType, PTL DEF Spec

-----------------------------------------------------------------------------
(* One session at a time, and nobody forgotten.                            *)

\* A session between the lock and its release is the one that holds the lock.
LockHeld ==
    \A s \in Sessions : (HasChild(s) \/ st[s] = "closing") => busy = s

\* A usbredirect is alive only while its session is in serve, unless the child
\* was dropped.
ChildInServe ==
    \A s \in Sessions : child[s] = "run" => HasChild(s)

SessionInv == LockHeld /\ ChildInServe /\ OthersCancelled

\* The initial states satisfy the invariant.
LEMMA InitSessions == Init => SessionInv
  BY DEF Init, SessionInv, LockHeld, ChildInServe, OthersCancelled, HasChild, Begun

\* Every step preserves it.
LEMMA StepSessions == TypeOK /\ SessionInv /\ [Next]_vars => SessionInv'
  <1> SUFFICES ASSUME TypeOK, SessionInv, [Next]_vars PROVE SessionInv'
    OBVIOUS
  <1> USE ConstantsAssumption
      DEF TypeOK, SessionInv, LockHeld, ChildInServe, OthersCancelled, HasChild, Begun
  <1>1. CASE Environment \/ Scan
    BY <1>1 DEF Environment, ChangeLease, Unplug, Plug, Scan, world, registry
  <1>2. CASE EndRemoved
    BY <1>2 DEF EndRemoved, world
  <1>3. ASSUME NEW s \in Sessions, NEW c \in Claims, Hello(s, c)
        PROVE  SessionInv'
    BY <1>3 DEF Hello, Moves, registry
  <1>4. ASSUME NEW s \in Sessions, Step(s)
        PROVE  SessionInv'
    <2>1. CASE LeaseGranted(s) \/ LeaseRefused(s)
      BY <2>1 DEF LeaseGranted, LeaseRefused, Moves, registry
    <2>2. CASE BeginSession(s)
      BY <2>2 DEF BeginSession, Registered, Moves
    <2>3. CASE Acquire(s)
      BY <2>3 DEF Acquire, LockFree, Moves, registry
    <2>4. CASE LockTimeout(s)
      BY <2>4 DEF LockTimeout, Moves, registry
    <2>5. CASE Accepted(s)
      BY <2>5 DEF Accepted, Moves, registry
    <2>6. CASE ChildExits(s)
      BY <2>6 DEF ChildExits, Moves, registry
    <2>7. CASE Stop(s)
      BY <2>7 DEF Stop, Moves, registry
    <2>8. CASE Terminate(s)
      BY <2>8 DEF Terminate, Moves, registry
    <2>9. CASE Unlock(s)
      BY <2>9 DEF Unlock, Moves, registry
    <2>10. CASE EndSession(s)
      BY <2>10 DEF EndSession, Deregistered, Moves
    <2> QED
      BY <1>4, <2>1, <2>2, <2>3, <2>4, <2>5, <2>6, <2>7, <2>8, <2>9, <2>10 DEF Step
  <1>5. ASSUME NEW s \in Sessions, SpawnFails(s) \/ ReplyFails(s) \/ Reap(s)
        PROVE  SessionInv'
    <2>1. CASE SpawnFails(s)
      BY <2>1 DEF SpawnFails, LockFree, Moves, registry
    <2>2. CASE ReplyFails(s)
      BY <2>2 DEF ReplyFails, Moves, registry
    <2>3. CASE Reap(s)
      BY <2>3 DEF Reap, registry
    <2> QED
      BY <1>5, <2>1, <2>2, <2>3
  <1>6. CASE UNCHANGED vars
    BY <1>6 DEF vars, registry
  <1> QED
    BY <1>1, <1>2, <1>3, <1>4, <1>5, <1>6 DEF Next

\* At most one session at a time runs a usbredirect on the device.
THEOREM SessionsExclude == Spec => []OneSession
  <1>1. SessionInv => OneSession
    BY DEF SessionInv, LockHeld, OneSession
  <1> QED
    BY <1>1, InitType, StepType, InitSessions, StepSessions, PTL DEF Spec

\* Every session that is not the active one has been told to stop.
THEOREM NobodyForgotten == Spec => []OthersCancelled
  <1>1. SessionInv => OthersCancelled
    BY DEF SessionInv
  <1> QED
    BY <1>1, InitType, StepType, InitSessions, StepSessions, PTL DEF Spec

-----------------------------------------------------------------------------
(* One usbredirect at a time.                                              *)

\* No child was killed without waiting for it.
NoneKilled == \A s \in Sessions : child[s] # "killed"

\* If no accept and no reply fails, no child is dropped.
LEMMA StepNoneKilled ==
    ASSUME "replyFails" \notin Disturbances
    PROVE  TypeOK /\ NoneKilled /\ [Next]_vars => NoneKilled'
  <1> SUFFICES ASSUME TypeOK, NoneKilled, [Next]_vars PROVE NoneKilled'
    OBVIOUS
  <1> USE DEF TypeOK, NoneKilled
  <1>1. CASE Environment \/ Scan \/ EndRemoved
    BY <1>1 DEF Environment, ChangeLease, Unplug, Plug, Scan, EndRemoved
  <1>2. ASSUME NEW s \in Sessions, NEW c \in Claims, Hello(s, c)
        PROVE  NoneKilled'
    BY <1>2 DEF Hello
  <1>3. ASSUME NEW s \in Sessions, Step(s)
        PROVE  NoneKilled'
    BY <1>3 DEF Step, LeaseGranted, LeaseRefused, BeginSession, Acquire, LockTimeout,
                Accepted, ChildExits, Stop, Terminate, Unlock, EndSession
  <1>4. ASSUME NEW s \in Sessions, SpawnFails(s) \/ ReplyFails(s) \/ Reap(s)
        PROVE  NoneKilled'
    BY <1>4 DEF SpawnFails, ReplyFails, Reap, Disturb
  <1>5. CASE UNCHANGED vars
    BY <1>5 DEF vars
  <1> QED
    BY <1>1, <1>2, <1>3, <1>4, <1>5 DEF Next

\* If the accept and the reply of serve never fail, no usbredirect is started
\* before the one of the previous session is dead.
THEOREM ProcessesExclude ==
    ASSUME "replyFails" \notin Disturbances
    PROVE  Spec => []OneUsbredirect
  <1>1. TypeOK /\ SessionInv /\ NoneKilled => OneUsbredirect
    BY DEF TypeOK, SessionInv, LockHeld, ChildInServe, NoneKilled, OneUsbredirect
  <1>2. Init => NoneKilled
    BY DEF Init, NoneKilled
  <1>3. TypeOK /\ NoneKilled /\ [Next]_vars => NoneKilled'
    BY StepNoneKilled
  <1> QED
    BY <1>1, <1>2, <1>3, InitType, StepType, InitSessions, StepSessions, PTL DEF Spec
=============================================================================
