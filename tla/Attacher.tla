------------------------------ MODULE Attacher ------------------------------
(***************************************************************************)
(* The agents that attach a claim's device to its VM, and what they report *)
(* (src/agent/attacher.rs), for one claim and the nodes its VM moves       *)
(* between.                                                                *)
(*                                                                         *)
(* Each agent decides on its caches whether the claim needs a session on   *)
(* its node.  A session waits for its predecessor, dials the exporter,     *)
(* waits for QEMU, streams, and starts over when that ends; it writes      *)
(* status.connection at every turn, by name and without a precondition.    *)
(* The controller derives the phase of the claim and the release of a held *)
(* boot from that report.                                                  *)
(*                                                                         *)
(* A binding is what the controller gives a claim: a device with a slot.   *)
(***************************************************************************)
EXTENDS Naturals

CONSTANTS
    Nodes,
    Sessions,       \* session tasks there may be at a time
    Bindings,
    None,
    Weight,         \* the kinds of disturbance that may happen, and their weights
    MaxChanges      \* bound on the weight of the disturbances that happen

ASSUME ConstantsAssumption ==
    /\ Nodes # {} /\ None \notin Nodes \cup Sessions \cup Bindings
    /\ Weight \in [DOMAIN Weight -> Nat]
    /\ MaxChanges \in Nat

VARIABLES
    vmi,        \* the VM's instance and its node; None: it does not run
    lease,      \* the binding whose device is leased to the claim
    bound,      \* claim: status.deviceName and slot
    conn,       \* claim: status.connection
    avail,      \* bindings whose device is published and fresh
    cache,      \* the stores of each agent
    sess,       \* session tasks
    cancelled,  \* sessions whose token is cancelled
    running,    \* Attacher::run: running
    stopping,   \* Attacher::run: stopping
    missed,     \* history: a report that counts is not what is stored (see Unsaid)
    changes     \* weight of the disturbances so far

world == <<vmi, lease, bound, avail>>
tasks == <<cancelled, running, stopping>>
vars == <<world, conn, cache, sess, tasks, missed, changes>>

-----------------------------------------------------------------------------
(* Data.                                                                   *)

States == {"Unreported", "Disconnected", "Connecting", "Connected"}

\* joining: waits for the previous session; idle: before an attempt; dialing:
\* to the exporter; greeting: waits for QEMU; closing: has yet to report why
\* the attempt is over; leaving: has yet to report that it is detached.
Steps == {"free", "joining", "idle", "dialing", "greeting", "streaming", "closing",
          "leaving"}

Messages == {"", "device", "vm", "over", "detached"}

\* An instance without usbredir sockets is as good as one that does not run.
Vmi == [inst : Nat, node : Nodes \cup {None}, paused : BOOLEAN]

Report == [state : States, node : Nodes \cup {None}, binding : Bindings \cup {None},
           await : BOOLEAN]

\* What a reporter compares: the state, the message, awaiting_resume.
Entry == [state : States, message : Messages, await : BOOLEAN]

\* Of the cached report only matters whether another node is connected.
View == [vmi : Vmi, lease : Bindings \cup {None}, avail : SUBSET Bindings,
         bound : Bindings \cup {None}, taken : BOOLEAN]

Session == [st : Steps, node : Nodes \cup {None}, inst : Nat, binding : Bindings \cup {None},
            prev : Sessions \cup {None}, link : BOOLEAN, last : Entry]

NoReport == [state |-> "Unreported", node |-> None, binding |-> None, await |-> FALSE]

Unreported == [state |-> "Unreported", message |-> "", await |-> FALSE]

Free == [st |-> "free", node |-> None, inst |-> 0, binding |-> None, prev |-> None,
         link |-> FALSE, last |-> Unreported]

Taken(n) == conn.state = "Connected" /\ conn.node # n

Stored(n) == [vmi |-> vmi, lease |-> lease, avail |-> avail, bound |-> bound, taken |-> Taken(n)]

-----------------------------------------------------------------------------
\* The nodes are all alike.
FirstNode == CHOOSE n \in Nodes : TRUE

Init ==
    /\ vmi \in [inst : {1}, node : {FirstNode}, paused : BOOLEAN]
    /\ lease \in Bindings \cup {None}
    /\ bound = lease
    /\ avail \in SUBSET Bindings
    /\ conn = NoReport
    /\ cache = [n \in Nodes |-> Stored(n)]
    /\ sess = [s \in Sessions |-> Free]
    /\ cancelled = {}
    /\ running = [n \in Nodes |-> None]
    /\ stopping = [n \in Nodes |-> None]
    /\ missed = FALSE
    /\ changes = 0

Disturb(kind) ==
    /\ kind \in DOMAIN Weight
    /\ changes + Weight[kind] <= MaxChanges
    /\ changes' = changes + Weight[kind]

\* A step that is a disturbance unless there is a reason for it.
Expected(reason, kind) == IF reason THEN UNCHANGED changes ELSE Disturb(kind)

-----------------------------------------------------------------------------
(* KubeVirt, the devices and the controller.                               *)

StartVmi ==
    /\ vmi.node = None
    /\ \E n \in Nodes, p \in BOOLEAN :
         vmi' = [inst |-> vmi.inst + 1, node |-> n, paused |-> p]
    /\ UNCHANGED <<lease, bound, avail, conn, cache, sess, tasks, missed, changes>>

StopVmi ==
    /\ vmi.node # None
    /\ Disturb("stop")
    /\ vmi' = [vmi EXCEPT !.node = None, !.paused = FALSE]
    /\ UNCHANGED <<lease, bound, avail, conn, cache, sess, tasks, missed>>

Migrate ==
    /\ vmi.node # None
    /\ Disturb("migrate")
    /\ \E n \in Nodes \ {vmi.node} : vmi' = [vmi EXCEPT !.node = n]
    /\ UNCHANGED <<lease, bound, avail, conn, cache, sess, tasks, missed>>

ResumeVmi ==
    /\ vmi.paused
    /\ vmi' = [vmi EXCEPT !.paused = FALSE]
    /\ UNCHANGED <<lease, bound, avail, conn, cache, sess, tasks, missed, changes>>

\* The controller leases another device, or none,
Rebind ==
    /\ lease = bound
    /\ Disturb("rebind")
    /\ lease' \in (Bindings \cup {None}) \ {lease}
    /\ UNCHANGED <<vmi, bound, avail, conn, cache, sess, tasks, missed>>

\* and then tells the claim.
WriteBound ==
    /\ bound # lease
    /\ bound' = lease
    /\ UNCHANGED <<vmi, lease, avail, conn, cache, sess, tasks, missed, changes>>

\* The exporter ends its session of a device that is gone.
Cut(b) == [s \in Sessions |-> IF sess[s].binding = b THEN [sess[s] EXCEPT !.link = FALSE]
                                                     ELSE sess[s]]

Unplug(b) ==
    /\ b \in avail
    /\ Disturb("unplug")
    /\ avail' = avail \ {b}
    /\ sess' = Cut(b)
    /\ UNCHANGED <<vmi, lease, bound, conn, cache, tasks, missed>>

Plug(b) ==
    /\ b \notin avail
    /\ avail' = avail \cup {b}
    /\ UNCHANGED <<vmi, lease, bound, conn, cache, sess, tasks, missed, changes>>

\* The connection to the exporter breaks, or (no disturbance) the new holder of
\* the device takes over.
LinkBreaks(s) ==
    /\ sess[s].link
    /\ Expected(lease # sess[s].binding, "break")
    /\ sess' = [sess EXCEPT ![s].link = FALSE]
    /\ UNCHANGED <<world, conn, cache, tasks, missed>>

-----------------------------------------------------------------------------
(* An agent: its caches, and Attacher::run.                                *)

SyncVmi(n) ==
    /\ cache[n].vmi # vmi
    /\ cache' = [cache EXCEPT ![n].vmi = vmi]
    /\ UNCHANGED <<world, conn, sess, tasks, missed, changes>>

SyncDevices(n) ==
    /\ cache[n].lease # lease \/ cache[n].avail # avail
    /\ cache' = [cache EXCEPT ![n].lease = lease, ![n].avail = avail]
    /\ UNCHANGED <<world, conn, sess, tasks, missed, changes>>

SyncClaim(n) ==
    /\ cache[n].bound # bound \/ cache[n].taken # Taken(n)
    /\ cache' = [cache EXCEPT ![n].bound = bound, ![n].taken = Taken(n)]
    /\ UNCHANGED <<world, conn, sess, tasks, missed, changes>>

\* desired_sessions: the claim is to have a session on this node.
Desired(n) ==
    LET c == cache[n] IN
    /\ c.bound # None /\ c.lease = c.bound
    /\ c.vmi.node = n

\* Mutant: the instance is not part of the specification of a session.
Stale_anyInstance(n) ==
    LET r == running[n] IN
    r # None /\ ~(Desired(n) /\ sess[r].binding = cache[n].bound)

\* The running session is not, or not exactly, the desired one.
Stale(n) ==
    LET r == running[n] IN
    r # None /\ ~(Desired(n) /\ sess[r].binding = cache[n].bound
                             /\ sess[r].inst = cache[n].vmi.inst)

Unused(s) ==
    /\ sess[s].st = "free"
    /\ \A t \in Sessions : sess[t].prev # s
    /\ \A n \in Nodes : running[n] # s /\ stopping[n] # s

NewSession == CHOOSE s \in Sessions : Unused(s)

\* stopping.retain, and the session that has just been stopped.
Stopped(n) ==
    IF Stale(n) THEN running[n]
    ELSE IF stopping[n] # None /\ sess[stopping[n]].st = "free" THEN None
    ELSE stopping[n]

\* Mutant: the instance is taken over unresolved.
Spawned_unresolved(n, p) ==
    [Free EXCEPT !.st = IF p = None THEN "idle" ELSE "joining", !.node = n,
                 !.inst = None, !.binding = cache[n].bound, !.prev = p]

\* Mutant: the new session does not wait for the old one.
Spawned_atOnce(n, p) ==
    [Free EXCEPT !.st = "idle", !.node = n, !.inst = cache[n].vmi.inst,
                 !.binding = cache[n].bound]

\* run_session, which first waits for the previous session.
Spawned(n, p) ==
    [Free EXCEPT !.st = IF p = None THEN "idle" ELSE "joining", !.node = n,
                 !.inst = cache[n].vmi.inst, !.binding = cache[n].bound, !.prev = p]

\* One iteration of the loop.
Run(n) ==
    /\ cancelled' = IF Stale(n) THEN cancelled \cup {running[n]} ELSE cancelled
    /\ \/ /\ Desired(n) /\ (running[n] = None \/ Stale(n))
          /\ \E s \in Sessions : Unused(s)
          /\ sess' = [sess EXCEPT ![NewSession] = Spawned(n, Stopped(n))]
          /\ running' = [running EXCEPT ![n] = NewSession]
          /\ stopping' = [stopping EXCEPT ![n] = None]
       \/ /\ ~Desired(n)
          /\ running' = [running EXCEPT ![n] = None]
          /\ stopping' = [stopping EXCEPT ![n] = Stopped(n)]
          /\ UNCHANGED sess
    /\ UNCHANGED <<world, conn, cache, missed, changes>>

\* The agent dies with its sessions and comes back with fresh caches.
Restart(n) ==
    /\ Disturb("restart")
    /\ sess' = [s \in Sessions |-> IF sess[s].node = n THEN Free ELSE sess[s]]
    /\ cancelled' = {s \in cancelled : sess[s].node # n}
    /\ running' = [running EXCEPT ![n] = None]
    /\ stopping' = [stopping EXCEPT ![n] = None]
    /\ cache' = [cache EXCEPT ![n] = Stored(n)]
    /\ UNCHANGED <<world, conn, missed>>

-----------------------------------------------------------------------------
(* Reporter.                                                               *)

At(s, step) == sess[s].st = step

\* QEMU of the instance runs on this node, with its sockets.
HasQemu(s) == vmi.inst = sess[s].inst /\ vmi.node = sess[s].node

Disconnected(message) == [state |-> "Disconnected", message |-> message, await |-> FALSE]
Connecting == [state |-> "Connecting", message |-> "", await |-> FALSE]
Awaiting == [state |-> "Connecting", message |-> "", await |-> TRUE]
Connected == [state |-> "Connected", message |-> "", await |-> FALSE]

\* The report of another node that took over is not overwritten, as far as the
\* cache shows it.
Spares(n, e) == e.state = "Disconnected" /\ cache[n].taken

Patch(s, e) ==
    [state |-> e.state, node |-> sess[s].node, binding |-> sess[s].binding, await |-> e.await]

\* Session s has the device of the current instance, connected or ready for the
\* resume, and has said so.
Took(s) ==
    /\ sess[s].st \in {"greeting", "streaming"} /\ HasQemu(s)
    /\ \E e \in {Awaiting, Connected} : conn = Patch(s, e)

\* A call that fails is not remembered, so that the next report is made again.
Made(t, e) == IF t = Free THEN t ELSE [t EXCEPT !.last = e]

\* Of the reports the ones that count are those of a session that has the
\* device: one is missing from the claim if it failed or was taken for made
\* already, and if another session writes over it.  A failed Awaiting does not
\* count, as read_greeting makes it again.
Unsaid(s, e) ==
    \/ /\ conn' # Patch(s, e)
       /\ e = Connected \/ (e = Awaiting /\ sess[s].last = e)
    \/ /\ conn' # conn
       /\ \E o \in Sessions \ {s} : Took(o)

\* Session s becomes t and reports e, unless e is what it reported last.  The
\* patch is applied, or applied with the reply lost, or it fails.
Reports(s, t, e) ==
    /\ \/ /\ sess[s].last = e
          /\ sess' = [sess EXCEPT ![s] = t]
          /\ UNCHANGED <<conn, changes>>
       \/ /\ sess[s].last # e /\ Spares(sess[s].node, e)
          /\ sess' = [sess EXCEPT ![s] = Made(t, e)]
          /\ UNCHANGED <<conn, changes>>
       \/ /\ sess[s].last # e /\ ~Spares(sess[s].node, e)
          /\ \/ /\ conn' = Patch(s, e)
                /\ sess' = [sess EXCEPT ![s] = Made(t, e)]
                /\ UNCHANGED changes
             \/ /\ Disturb("replyLost")
                /\ conn' = Patch(s, e)
                /\ sess' = [sess EXCEPT ![s] = t]
             \/ /\ Disturb("reportFails")
                /\ sess' = [sess EXCEPT ![s] = t]
                /\ UNCHANGED conn
    /\ missed' = (missed \/ Unsaid(s, e))

-----------------------------------------------------------------------------
(* run_session and attempt.                                                *)

Goto(s, step) == [sess[s] EXCEPT !.st = step]

\* The attempt is over.
Ends(s) == [sess[s] EXCEPT !.st = "closing", !.link = FALSE]

\* The previous session is over,
JoinEnds(s) ==
    /\ At(s, "joining")
    /\ sess[sess[s].prev].st = "free"
    /\ sess' = [sess EXCEPT ![s].st = "idle", ![s].prev = None]
    /\ UNCHANGED <<world, conn, cache, tasks, missed, changes>>

\* or it has not come back from a report for 15 s.
JoinTimeout(s) ==
    /\ At(s, "joining")
    /\ sess[sess[s].prev].st \in {"idle", "closing", "leaving"}
    /\ Disturb("timeout")
    /\ sess' = [sess EXCEPT ![s].st = "idle", ![s].prev = None]
    /\ UNCHANGED <<world, conn, cache, tasks, missed>>

DeviceReady(s) ==
    LET c == cache[sess[s].node] IN c.lease = sess[s].binding /\ sess[s].binding \in c.avail

VmReady(s) == cache[sess[s].node].vmi.inst = sess[s].inst /\ HasQemu(s)

\* Waiting: a precondition is not met.
Wait(s) ==
    /\ At(s, "idle")
    /\ \/ ~DeviceReady(s) /\ Reports(s, sess[s], Disconnected("device"))
       \/ DeviceReady(s) /\ ~VmReady(s) /\ Reports(s, sess[s], Disconnected("vm"))
    /\ UNCHANGED <<world, cache, tasks>>

\* A cancelled session is stopped at the first await.
Attempt(s) ==
    /\ At(s, "idle") /\ s \notin cancelled
    /\ DeviceReady(s) /\ VmReady(s)
    /\ Reports(s, Goto(s, "dialing"), Connecting)
    /\ UNCHANGED <<world, cache, tasks>>

\* The exporter looks at the lease itself, and ends an older session.
Serves(s) == lease = sess[s].binding /\ sess[s].binding \in avail

Dial(s) ==
    /\ At(s, "dialing")
    /\ Serves(s) /\ HasQemu(s)
    /\ sess' = [Cut(sess[s].binding) EXCEPT ![s].st = "greeting", ![s].link = TRUE]
    /\ UNCHANGED <<world, conn, cache, tasks, missed, changes>>

\* The exporter refuses, QEMU's socket is gone once the exporter has accepted
\* (which has ended an older session by then), or either side fails.
DialFails(s) ==
    /\ At(s, "dialing")
    /\ \E accepted \in {Serves(s), FALSE} :
         /\ Expected(~Serves(s) \/ (accepted /\ ~HasQemu(s)), "fail")
         /\ sess' = [(IF accepted THEN Cut(sess[s].binding) ELSE sess) EXCEPT ![s] = Ends(s)]
    /\ UNCHANGED <<world, conn, cache, tasks, missed>>

\* read_greeting, as long as the VM is paused.
AwaitResume(s) ==
    /\ At(s, "greeting")
    /\ cache[sess[s].node].vmi.paused
    /\ Reports(s, sess[s], Awaiting)
    /\ UNCHANGED <<world, cache, tasks>>

\* QEMU says hello, which goes to the exporter.
Greeted(s) ==
    /\ At(s, "greeting")
    /\ HasQemu(s) /\ ~vmi.paused
    /\ Reports(s, Goto(s, "streaming"), Connected)
    /\ UNCHANGED <<world, cache, tasks>>

\* QEMU is gone; it is silent although the agent takes the VM for running; or
\* the exporter is gone, which is only noticed once QEMU has said hello.
GreetingFails(s) ==
    /\ At(s, "greeting")
    /\ Expected(\/ ~HasQemu(s)
                \/ vmi.paused /\ ~cache[sess[s].node].vmi.paused
                \/ ~vmi.paused /\ ~sess[s].link, "fail")
    /\ sess' = [sess EXCEPT ![s] = Ends(s)]
    /\ UNCHANGED <<world, conn, cache, tasks, missed>>

StreamEnds(s) ==
    /\ At(s, "streaming")
    /\ ~sess[s].link \/ ~HasQemu(s)
    /\ sess' = [sess EXCEPT ![s] = Ends(s)]
    /\ UNCHANGED <<world, conn, cache, tasks, missed, changes>>

\* The attempt is over: report, and start again.
Close(s) ==
    /\ At(s, "closing")
    /\ Reports(s, Goto(s, "idle"), Disconnected("over"))
    /\ UNCHANGED <<world, cache, tasks>>

\* The token is cancelled, which drops the attempt,
Leave(s) ==
    /\ s \in cancelled
    /\ sess[s].st \in {"idle", "dialing", "greeting", "streaming"}
    /\ sess' = [sess EXCEPT ![s].st = "leaving", ![s].link = FALSE]
    /\ UNCHANGED <<world, conn, cache, tasks, missed, changes>>

\* and the session says so and is over.
Detach(s) ==
    /\ At(s, "leaving")
    /\ Reports(s, Free, Disconnected("detached"))
    /\ cancelled' = cancelled \ {s}
    /\ UNCHANGED <<world, cache, running, stopping>>

-----------------------------------------------------------------------------
Environment ==
    \/ StartVmi \/ StopVmi \/ Migrate \/ ResumeVmi
    \/ Rebind
    \/ \E b \in Bindings : Unplug(b) \/ Plug(b)
    \/ \E s \in Sessions : LinkBreaks(s)

Sync(n) == SyncVmi(n) \/ SyncDevices(n) \/ SyncClaim(n)

Step(s) ==
    \/ JoinEnds(s)
    \/ Wait(s) \/ Attempt(s) \/ Dial(s) \/ DialFails(s)
    \/ AwaitResume(s) \/ Greeted(s) \/ GreetingFails(s) \/ StreamEnds(s)
    \/ Close(s) \/ Leave(s) \/ Detach(s)

Next ==
    \/ Environment \/ WriteBound
    \/ \E n \in Nodes : Sync(n) \/ Run(n) \/ Restart(n)
    \/ \E s \in Sessions : Step(s) \/ JoinTimeout(s)

Spec == Init /\ [][Next]_vars

\* The controller's passes, the watches, the agents' loops and their tasks go on.
FairSpec ==
    /\ Spec
    /\ WF_vars(WriteBound)
    /\ \A n \in Nodes : /\ WF_vars(SyncVmi(n)) /\ WF_vars(SyncDevices(n))
                        /\ WF_vars(SyncClaim(n)) /\ WF_vars(Run(n))
    /\ \A s \in Sessions : WF_vars(Step(s))

-----------------------------------------------------------------------------
(* Properties.                                                             *)

\* The variables keep their types.
TypeOK ==
    /\ vmi \in Vmi
    /\ lease \in Bindings \cup {None} /\ bound \in Bindings \cup {None}
    /\ avail \subseteq Bindings
    /\ conn \in Report
    /\ cache \in [Nodes -> View]
    /\ sess \in [Sessions -> Session]
    /\ cancelled \subseteq Sessions
    /\ running \in [Nodes -> Sessions \cup {None}]
    /\ stopping \in [Nodes -> Sessions \cup {None}]
    /\ missed \in BOOLEAN
    /\ changes \in 0..MaxChanges

Live(s) == sess[s].st \in {"dialing", "greeting", "streaming"}

\* A node has at most one data path for the claim, however often the session is
\* replaced: a new session dials only when the old one has let go, even if
\* it has given up waiting for it.
OnePath == \A s, t \in Sessions : Live(s) /\ Live(t) /\ sess[s].node = sess[t].node => s = t

\* "Do not overwrite the report of another node that took over the VM": the
\* report of the session that has the device of the current instance is only
\* replaced by that session.
NeverOverwritten ==
    [][\A s \in Sessions : Took(s) /\ conn' # conn => sess'[s] # sess[s]]_vars

\* compute_phase for a VM that exists and a valid claim, on what is stored.
Phase ==
    CASE lease = None -> "Pending"
      [] lease # None /\ lease \notin avail -> "DeviceUnavailable"
      [] lease \in avail /\ vmi.node = None -> "WaitingForVM"
      [] lease \in avail /\ vmi.node # None ->
           IF conn.state = "Connected" /\ conn.node = vmi.node /\ conn.binding = lease
             THEN "Attached" ELSE "Connecting"

\* reconcile_claim: the claim does not hold the boot any more.
Ready ==
    \/ Phase = "Attached"
    \/ conn.await /\ conn.node = vmi.node /\ conn.binding = lease

\* The session has the slot of the current instance.
Holds(s) == sess[s].st \in {"greeting", "streaming"} /\ HasQemu(s)

Streams(s) == At(s, "streaming") /\ HasQemu(s) /\ sess[s].link /\ sess[s].binding = lease

\* In the end a running VM has its device and a paused one a session on its
\* slot, and the claim says so: after any migrations, restarts of VM and agents,
\* hotplug, broken connections, and failed, lost or late reports.  What it says
\* is true: Attached only if the device is streamed to the current instance,
\* ready only if a session has its slot.  And it says all there is, unless a
\* report that counts has been missed.
ReportSettles ==
    <>[]/\ Phase \in {"Connecting", "Attached"} =>
             \E s \in Sessions : IF vmi.paused THEN Holds(s) ELSE Streams(s)
        /\ Phase = "Attached" => \E s \in Sessions : Streams(s)
        /\ Ready /\ vmi.node # None => \E s \in Sessions : Holds(s)
        /\ Phase = "Connecting" => missed \/ (vmi.paused /\ Ready)
=============================================================================
