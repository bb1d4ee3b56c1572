------------------------------ MODULE Exporter ------------------------------
(***************************************************************************)
(* The sessions of one USB device on the agent that exports it             *)
(* (src/agent/exporter.rs).                                                *)
(*                                                                         *)
(* Attaching agents connect; a session that shows the lease becomes the    *)
(* active one of the device and cancels its predecessor, waits for the     *)
(* `busy` lock that the predecessor holds until its usbredirect process    *)
(* has stopped, and then runs a usbredirect of its own.  The tasks run on  *)
(* several threads.  Devices have separate entries in `sessions`, so one   *)
(* device shows all there is.                                              *)
(***************************************************************************)
EXTENDS Naturals, FiniteSets

CONSTANTS
    Sessions,       \* connections there may be at a time
    Claims,
    None,           \* no claim, no session
    Disturbances,   \* the kinds of disturbance that may happen
    MaxChanges      \* bound on disturbances

ASSUME ConstantsAssumption ==
    /\ None \notin Sessions \cup Claims
    /\ MaxChanges \in Nat

\* Enumerations of the device (bus_dev) are numbered; Gone: not plugged in.
Gone == 0

\* The steps of `handle`.  lease: reading the lease; granted: it was ours;
\* waiting: for the lock; starting, serving, stopping: with a usbredirect, in
\* serve; closing: without; ending: the lock is released.
Steps == {"free", "lease", "granted", "waiting", "starting", "serving", "stopping",
          "closing", "ending"}

VARIABLES
    lease,      \* API server: status.attachedTo
    plugged,    \* the enumeration the kernel has
    enums,      \* enumerations so far
    local,      \* what discovery has published to the exporter
    notified,   \* whether end_sessions_of_removed_devices has yet to look at it
    st,         \* where each session is
    who,        \* its claim
    dev,        \* the enumeration it was authorized for
    child,      \* its usbredirect: "none", "run", or "killed" but not yet dead
    active,     \* DeviceSessions::active
    cancelled,  \* sessions whose token is cancelled
    busy,       \* the session that holds the lock
    changes     \* disturbances so far

world == <<lease, plugged, enums>>
registry == <<active, cancelled>>
vars == <<world, local, notified, st, who, dev, child, registry, busy, changes>>

-----------------------------------------------------------------------------
Init ==
    /\ lease \in Claims \cup {None}
    /\ plugged = 1 /\ enums = 1
    /\ local \in {Gone, plugged} /\ notified = FALSE
    /\ st = [s \in Sessions |-> "free"]
    /\ who = [s \in Sessions |-> None]
    /\ dev = [s \in Sessions |-> Gone]
    /\ child = [s \in Sessions |-> "none"]
    /\ active = None
    /\ cancelled = {}
    /\ busy = None
    /\ changes = 0

Disturb(kind) ==
    /\ kind \in Disturbances
    /\ changes < MaxChanges
    /\ changes' = changes + 1

-----------------------------------------------------------------------------
(* The lease, the device and discovery.                                    *)

\* The controller acquires or releases the lease.
ChangeLease ==
    /\ Disturb("lease")
    /\ lease' \in IF lease = None THEN Claims ELSE {None}
    /\ UNCHANGED <<plugged, enums, local, notified, st, who, dev, child, registry, busy>>

Unplug ==
    /\ plugged # Gone
    /\ Disturb("unplug")
    /\ plugged' = Gone
    /\ UNCHANGED <<lease, enums, local, notified, st, who, dev, child, registry, busy>>

\* A device that is plugged in again has another device number.
Plug ==
    /\ plugged = Gone
    /\ enums' = enums + 1
    /\ plugged' = enums'
    /\ UNCHANGED <<lease, local, notified, st, who, dev, child, registry, busy, changes>>

\* scan_once publishes the local view if it differs, for this device or (a
\* disturbance) for another one.
Scan ==
    /\ IF local # plugged THEN UNCHANGED changes ELSE Disturb("notify")
    /\ local' = plugged
    /\ notified' = TRUE
    /\ UNCHANGED <<world, st, who, dev, child, registry, busy>>

\* Mutant: re-enumerated devices are not told from devices that stayed.
Removed_presence(s) == local = Gone

Removed(s) == local # dev[s]

\* end_sessions_of_removed_devices; a value that was replaced before the task
\* ran is not seen.
EndRemoved ==
    /\ notified
    /\ notified' = FALSE
    /\ cancelled' = IF active # None /\ Removed(active) THEN cancelled \cup {active}
                                                       ELSE cancelled
    /\ UNCHANGED <<world, local, st, who, dev, child, active, busy, changes>>

-----------------------------------------------------------------------------
(* handle, up to the lock.                                                 *)

Moves(s, from, to) ==
    /\ st[s] = from
    /\ st' = [st EXCEPT ![s] = to]

InProgress(c) == {s \in Sessions : st[s] # "free" /\ who[s] = c}

\* A connection sends its hello, and authorize finds the device.  A claim that
\* has the lease and no session connects by itself; other connections are of
\* agents that do not know yet.  Rejected ones leave no trace.
Hello(s, c) ==
    /\ Moves(s, "free", "lease")
    /\ child[s] = "none"
    /\ local # Gone
    /\ IF c = lease /\ InProgress(c) = {} THEN UNCHANGED changes ELSE Disturb("hello")
    /\ who' = [who EXCEPT ![s] = c]
    /\ dev' = [dev EXCEPT ![s] = local]
    /\ UNCHANGED <<world, local, notified, child, registry, busy>>

\* The connection is over and nothing is left of it.
Leave(s) ==
    /\ who' = [who EXCEPT ![s] = None]
    /\ dev' = [dev EXCEPT ![s] = Gone]

\* authorize reads the lease from the API server,
LeaseGranted(s) ==
    /\ lease = who[s]
    /\ Moves(s, "lease", "granted")
    /\ UNCHANGED <<world, local, notified, who, dev, child, registry, busy, changes>>

\* or finds another holder, or the call fails.
LeaseRefused(s) ==
    /\ IF lease # who[s] THEN UNCHANGED changes ELSE Disturb("fail")
    /\ Moves(s, "lease", "free")
    /\ Leave(s)
    /\ UNCHANGED <<world, local, notified, child, registry, busy>>

\* Mutant: that there may be no session before is forgotten.
Registered_blind(s) == active' = s /\ cancelled' = (cancelled \cup {active}) \ {s}

\* The session is the active one and its predecessor's token is cancelled.
Registered(s) ==
    /\ active' = s
    /\ cancelled' = (cancelled \cup ({active} \cap Sessions)) \ {s}

\* begin_session, once the answer about the lease is in.
BeginSession(s) ==
    /\ Moves(s, "granted", "waiting")
    /\ Registered(s)
    /\ UNCHANGED <<world, local, notified, who, dev, child, busy, changes>>

-----------------------------------------------------------------------------
(* handle, from the lock on, and serve.                                    *)

\* Mutant: nobody waits for the predecessor.
LockFree_always == TRUE

LockFree == busy = None

\* The lock is free: a session that was superseded goes, another one starts a
\* usbredirect.
Acquire(s) ==
    /\ LockFree
    /\ busy' = s
    /\ \/ /\ s \in cancelled
          /\ Moves(s, "waiting", "closing")
          /\ UNCHANGED child
       \/ /\ s \notin cancelled
          /\ Moves(s, "waiting", "starting")
          /\ child' = [child EXCEPT ![s] = "run"]
    /\ UNCHANGED <<world, local, notified, who, dev, registry, changes>>

\* The listener cannot be bound or the process not be started.
SpawnFails(s) ==
    /\ LockFree /\ s \notin cancelled
    /\ Disturb("fail")
    /\ busy' = s
    /\ Moves(s, "waiting", "closing")
    /\ UNCHANGED <<world, local, notified, who, dev, child, registry>>

\* PREVIOUS_SESSION_STOP_TIMEOUT.  A session that is told to stop does so
\* earlier (USBREDIRECT_STOP_TIMEOUT and a kill), so that a timeout then is a
\* disturbance.
LockTimeout(s) ==
    /\ busy # None
    /\ IF busy \notin cancelled /\ st[busy] \in {"starting", "serving"}
         THEN UNCHANGED changes ELSE Disturb("timeout")
    /\ Moves(s, "waiting", "ending")
    /\ UNCHANGED <<world, local, notified, who, dev, child, registry, busy>>

\* usbredirect opens the device, which has to be there, and connects; the reply
\* is sent.
Accepted(s) ==
    /\ dev[s] = plugged
    /\ Moves(s, "starting", "serving")
    /\ UNCHANGED <<world, local, notified, who, dev, child, registry, busy, changes>>

\* Accepting, or sending the reply, fails: serve returns, and dropping the
\* child kills it without waiting for it.
ReplyFails(s) ==
    /\ Disturb("replyFails")
    /\ Moves(s, "starting", "closing")
    /\ child' = [child EXCEPT ![s] = "killed"]
    /\ UNCHANGED <<world, local, notified, who, dev, registry, busy>>

\* usbredirect cannot open a device that is gone; it may exit at any time.
ChildExits(s) ==
    /\ IF st[s] = "starting" /\ dev[s] # plugged THEN UNCHANGED changes ELSE Disturb("exit")
    /\ Moves(s, "starting", "closing") \/ Moves(s, "serving", "closing")
    /\ child' = [child EXCEPT ![s] = "none"]
    /\ UNCHANGED <<world, local, notified, who, dev, registry, busy>>

\* Mutant: the cancellation is only looked at until the device is open.
StopsServing_deaf(s) == Disturb("close")

\* The other end closes the stream, or the session is cancelled.
StopsServing(s) == IF s \in cancelled THEN UNCHANGED changes ELSE Disturb("close")

\* USBREDIRECT_CONNECT_TIMEOUT, or the session is cancelled.
StopsStarting(s) == IF s \in cancelled THEN UNCHANGED changes ELSE Disturb("timeout")

Stop(s) ==
    /\ \/ Moves(s, "starting", "stopping") /\ StopsStarting(s)
       \/ Moves(s, "serving", "stopping") /\ StopsServing(s)
    /\ UNCHANGED <<world, local, notified, who, dev, child, registry, busy>>

\* terminate waits for the process: interrupted, then killed.
Terminate(s) ==
    /\ Moves(s, "stopping", "closing")
    /\ child' = [child EXCEPT ![s] = "none"]
    /\ UNCHANGED <<world, local, notified, who, dev, registry, busy, changes>>

\* A killed process dies.
Reap(s) ==
    /\ child[s] = "killed"
    /\ child' = [child EXCEPT ![s] = "none"]
    /\ UNCHANGED <<world, local, notified, st, who, dev, registry, busy, changes>>

\* The guard of the lock is dropped,
Unlock(s) ==
    /\ Moves(s, "closing", "ending")
    /\ busy' = None
    /\ UNCHANGED <<world, local, notified, who, dev, child, registry, changes>>

\* Mutant: the id is not compared.
Deregistered_any(s) == active' = None

\* Only the session's own entry is removed.
Deregistered(s) == active' = IF active = s THEN None ELSE active

\* and end_session is called.
EndSession(s) ==
    /\ Moves(s, "ending", "free")
    /\ Deregistered(s)
    /\ cancelled' = cancelled \ {s}
    /\ Leave(s)
    /\ UNCHANGED <<world, local, notified, child, busy, changes>>

-----------------------------------------------------------------------------
Environment == ChangeLease \/ Unplug \/ Plug

\* What a session does by itself.
Step(s) ==
    \/ LeaseGranted(s) \/ LeaseRefused(s) \/ BeginSession(s)
    \/ Acquire(s) \/ LockTimeout(s)
    \/ Accepted(s) \/ ChildExits(s) \/ Stop(s) \/ Terminate(s)
    \/ Unlock(s) \/ EndSession(s)

Next ==
    \/ Environment
    \/ Scan \/ EndRemoved
    \/ \E s \in Sessions, c \in Claims : Hello(s, c)
    \/ \E s \in Sessions : Step(s) \/ SpawnFails(s) \/ ReplyFails(s) \/ Reap(s)

Spec == Init /\ [][Next]_vars

\* Tasks are scheduled, processes die, discovery scans, and an attacher whose
\* claim has the lease connects again.
FairSpec ==
    /\ Spec
    /\ WF_vars(Scan) /\ WF_vars(EndRemoved)
    /\ \A c \in Claims : WF_vars(c = lease /\ \E s \in Sessions : Hello(s, c))
    /\ \A s \in Sessions : WF_vars(Step(s)) /\ WF_vars(Reap(s))

-----------------------------------------------------------------------------
(* Properties.                                                             *)

\* The variables keep their types.
TypeOK ==
    /\ lease \in Claims \cup {None}
    /\ plugged \in Nat /\ enums \in Nat
    /\ local \in Nat /\ notified \in BOOLEAN
    /\ st \in [Sessions -> Steps]
    /\ who \in [Sessions -> Claims \cup {None}]
    /\ dev \in [Sessions -> Nat]
    /\ child \in [Sessions -> {"none", "run", "killed"}]
    /\ active \in Sessions \cup {None}
    /\ cancelled \subseteq Sessions
    /\ busy \in Sessions \cup {None}
    /\ changes \in 0..MaxChanges

HasChild(s) == st[s] \in {"starting", "serving", "stopping"}

\* At most one session at a time is in serve with a usbredirect on the device,
\* however sessions replace each other, time out and fail.
OneSession == \A s, t \in Sessions : HasChild(s) /\ HasChild(t) => s = t

\* No usbredirect is started before the one of the previous session is dead
\* (DeviceSessions::busy: "a replacement waits until the device is released").
OneUsbredirect == \A s, t \in Sessions : child[s] # "none" /\ child[t] # "none" => s = t

Begun(s) == st[s] \in {"waiting", "starting", "serving", "stopping", "closing", "ending"}

\* Whoever is not the active session has been told to stop: no session is
\* forgotten when another one replaces it or ends.
OthersCancelled == \A s \in Sessions : Begun(s) /\ s # active => s \in cancelled

\* A session that is told to stop is over some time later.
CancelledEnds == \A s \in Sessions : s \in cancelled ~> st[s] = "free"

\* Once nothing changes any more, no session is left on an enumeration that is
\* gone, and the claim that has the lease is served from a device that is
\* plugged in.
Settles ==
    <>[]/\ \A s \in Sessions : st[s] = "serving" => dev[s] = plugged
        /\ (lease # None /\ plugged # Gone) =>
             \E s \in Sessions : st[s] = "serving" /\ who[s] = lease /\ s = active
=============================================================================
