----------------------------- MODULE Discovery -----------------------------
(***************************************************************************)
(* The agents that publish the devices of their nodes as UsbDevice objects *)
(* (src/agent/discovery.rs), and the devices people plug in and move.      *)
(*                                                                         *)
(* A scan reads sysfs and the agent's cache once, names the devices, and   *)
(* then writes object by object: first what is plugged in, by name and     *)
(* with force, then what is gone, guarded by the resourceVersion.  Nothing *)
(* but the cache tells the agents of each other.                           *)
(*                                                                         *)
(* A scan works on what the store held when it began, which is all there   *)
(* is or, when the watch lags, an earlier state of it.  A resourceVersion  *)
(* stands for the object that has it.  Time is what it does to heartbeats  *)
(* and grace periods.                                                      *)
(***************************************************************************)
EXTENDS Identity

CONSTANTS
    Sockets,        \* the ports of the nodes, each with its node
    Kinds,          \* the kinds of disturbance that may happen
    MaxChanges      \* bound on the disturbances, for each population: the devices
                    \* there are, with their fingerprints

ASSUME BoundsAssumption ==
    /\ Sockets \subseteq Nodes \X Ports
    /\ \A p \in DOMAIN MaxChanges : DOMAIN p \subseteq Devices /\ p \in [DOMAIN p -> Fingerprint]
    /\ MaxChanges \in [DOMAIN MaxChanges -> Nat]

VARIABLES
    print,      \* the fingerprint of each device
    at, port,   \* the node each device is plugged into, and the port there
    num,        \* how often each device was enumerated
    obj,        \* the UsbDevice objects
    objects,    \* what the scan of each agent read from its store; None: no writes left
    lagging,    \* the earlier objects that the store still holds; None: it is up to date
    sticky,     \* Discovery::sticky: the names of instances
    seen,       \* Discovery::first_seen: the instances, and which may still wait
    local,      \* the local view: what the exporter serves under which name
    todo,       \* the writes that are left of the scan
    hasty,      \* history: the devices with an instance whose grace period is over
                \* while a heartbeat of an earlier one still counts
    changes     \* disturbances so far

hardware == <<print, at, port, num>>
stores == <<objects, lagging>>
agent == <<sticky, seen, local, todo>>
vars == <<hardware, obj, stores, agent, hasty, changes>>

-----------------------------------------------------------------------------
(* Data.                                                                   *)

Phases == {"", "Available", "Unplugged", "Lost"}

\* The exporter is set while the phase is Available.  fresh: the heartbeat is
\* newer than lost_after; label: the node in the labels.
Object == [fp : Fingerprint, label : Nodes, phase : Phases, node : Nodes \cup {None},
           key : InstanceKey \cup {None}, fresh : BOOLEAN]

ASSUME NoneAssumption == None \notin Object

Write == [op : {"apply", "status", "unplug"}, name : Names]

Empty == [x \in {} |-> None]

Key(d) == [dev |-> d, num |-> num[d], port |-> port[d]]

Plugged(n) == {Key(d) : d \in {e \in Devices : at[e] = n}}

FingerprintsOf(keys) == [k \in keys |-> print[k.dev]]

IsAvailable(o) == o # None /\ o.phase = "Available" /\ o.fresh

-----------------------------------------------------------------------------
Init ==
    /\ print \in DOMAIN MaxChanges
    /\ at = [d \in Devices |-> None]
    /\ port = [d \in Devices |-> None]
    /\ num = [d \in Devices |-> 0]
    /\ obj = [m \in Names |-> None]
    /\ objects = [n \in Nodes |-> None]
    /\ lagging = [n \in Nodes |-> None]
    /\ sticky = [n \in Nodes |-> Empty]
    /\ seen = [n \in Nodes |-> Empty]
    /\ local = [n \in Nodes |-> Empty]
    /\ todo = [n \in Nodes |-> {}]
    /\ hasty = {}
    /\ changes = 0

Disturb(kind) ==
    /\ kind \in Kinds
    /\ changes < MaxChanges[print]
    /\ changes' = changes + 1

-----------------------------------------------------------------------------
(* Devices, time, and the controller.                                      *)

\* Into a free port of the node.
Plug(d, n, p) ==
    /\ d \in DOMAIN print /\ at[d] = None /\ <<n, p>> \in Sockets
    /\ \A e \in Devices : at[e] = n => port[e] # p
    /\ at' = [at EXCEPT ![d] = n]
    /\ port' = [port EXCEPT ![d] = p]
    /\ num' = [num EXCEPT ![d] = @ + 1]
    /\ UNCHANGED <<print, obj, stores, agent, hasty, changes>>

Unplug(d) ==
    /\ at[d] # None
    /\ Disturb("unplug")
    /\ at' = [at EXCEPT ![d] = None]
    /\ port' = [port EXCEPT ![d] = None]
    /\ UNCHANGED <<print, num, obj, stores, agent, hasty>>

\* The instance is where the object says it is.
InPlace(o) == o.key # None /\ o.node # None /\ o.key \in Plugged(o.node)

Aged(o) == IF o = None THEN None ELSE [o EXCEPT !.fresh = FALSE]

Copy(os, m) == IF os = None THEN None ELSE [os EXCEPT ![m] = Aged(@)]

\* No heartbeat for lost_after, in the object and in every copy of it.  An agent
\* that runs writes one in time for what is plugged in, and removes what is not.
HeartbeatExpires(m) ==
    /\ IsAvailable(obj[m])
    /\ Disturb("silent")
    /\ obj' = [obj EXCEPT ![m] = Aged(@)]
    /\ objects' = [n \in Nodes |-> Copy(objects[n], m)]
    /\ lagging' = [n \in Nodes |-> Copy(lagging[n], m)]
    /\ UNCHANGED <<hardware, agent, hasty>>

\* The heartbeats of a device's earlier instance are older than this one.
Outlived(o, key) == IsAvailable(o) => o.key.dev # key.dev \/ o.key.num >= key.num

\* lost_after has passed since the agent first saw the instance, by its own
\* clock.  A heartbeat that an earlier instance had just before still counts in
\* that second, and longer when the clocks of the nodes differ.
GraceEnds(n, key) ==
    /\ key \in DOMAIN seen[n] /\ seen[n][key] = "young"
    /\ seen' = [seen EXCEPT ![n][key] = "old"]
    /\ LET inTime == \A m \in Names : /\ Outlived(obj[m], key)
                                      /\ lagging[n] # None => Outlived(lagging[n][m], key)
       IN  hasty' = IF inTime THEN hasty ELSE hasty \cup {key.dev}
    /\ UNCHANGED <<hardware, obj, stores, sticky, local, todo, changes>>

\* The controller, guarded by the resourceVersion.
MarkLost(m) ==
    /\ obj[m] # None /\ obj[m].phase = "Available" /\ ~obj[m].fresh
    /\ obj' = [obj EXCEPT ![m].phase = "Lost"]
    /\ UNCHANGED <<hardware, stores, agent, hasty, changes>>

-----------------------------------------------------------------------------
(* The agents.                                                             *)

Known(os) ==
    [m \in {x \in Names : os[x] # None} |->
        [fp |-> os[m].fp,
         on |-> IF IsAvailable(os[m]) THEN os[m].node ELSE None]]

\* sticky.retain: the instance is still there, and the object of that name, if
\* any, is of such a device.
Retained(n, os, here) ==
    LET keeps(k) == LET o == os[sticky[n][k]] IN o = None \/ o.fp = here[k]
    IN  [k \in {j \in DOMAIN sticky[n] \cap DOMAIN here : keeps(j)} |-> sticky[n][k]]

SpecCurrent(n, os, m, key) ==
    LET o == os[m] IN o # None /\ o.fp = print[key.dev] /\ o.label = n

\* status_current, and no heartbeat is due.
StatusCurrent(n, os, m, key) ==
    LET o == os[m]
    IN  o # None /\ o.phase = "Available" /\ o.node = n /\ o.key = key /\ o.fresh

Publications(n, os, view) ==
    {[op |-> "apply", name |-> m] : m \in {x \in DOMAIN view : ~SpecCurrent(n, os, x, view[x])}}
    \cup
    {[op |-> "status", name |-> m] :
        m \in {x \in DOMAIN view : /\ SpecCurrent(n, os, x, view[x])
                                  /\ ~StatusCurrent(n, os, x, view[x])}}

Removals(n, os, view) ==
    {[op |-> "unplug", name |-> m] :
        m \in {x \in Names \ DOMAIN view : /\ os[x] # None
                                           /\ os[x].node = n
                                           /\ os[x].phase = "Available"}}

FirstSeen(n, here) ==
    [k \in DOMAIN here |-> IF k \in DOMAIN seen[n] THEN seen[n][k] ELSE "young"]

\* The local view: what is named, by name.
View(made) ==
    LET named == {k \in DOMAIN made : ~made[k].deferred}
    IN  [m \in {made[k].name : k \in named} |-> CHOOSE k \in named : made[k].name = m]

\* scan_once up to its first write.  (Each quantifier names one value, which TLC
\* then computes once.)
ScanOnce(n) ==
    /\ todo[n] = {}
    /\ \E os \in {IF lagging[n] = None THEN obj ELSE lagging[n]},
          here \in {FingerprintsOf(Plugged(n))} :
       \E kept \in {Retained(n, os, here)}, known \in {Known(os)}, first \in {FirstSeen(n, here)} :
       \E keep \in {Keep(n, kept, known, here)} :
       \E made \in {Assign(n, kept, keep, known, {k \in DOMAIN here : first[k] = "young"}, here)} :
       \E view \in {View(made)} :
         /\ sticky' = [sticky EXCEPT ![n] =
                         [k \in DOMAIN kept \cup {j \in DOMAIN here : ~made[j].deferred} |->
                             IF made[k].deferred THEN kept[k] ELSE made[k].name]]
         /\ seen' = [seen EXCEPT ![n] = first]
         /\ local' = [local EXCEPT ![n] = view]
         /\ todo' = [todo EXCEPT ![n] = Publications(n, os, view) \cup Removals(n, os, view)]
         /\ objects' = [objects EXCEPT ![n] = IF todo'[n] = {} THEN None ELSE os]
    /\ lagging' = [lagging EXCEPT ![n] = None]
    /\ UNCHANGED <<hardware, obj, hasty, changes>>

\* The next scan will see nothing newer than this.
Lag(n) ==
    /\ lagging[n] = None
    /\ Disturb("lag")
    /\ lagging' = [lagging EXCEPT ![n] = obj]
    /\ UNCHANGED <<hardware, obj, objects, agent, hasty>>

Done(n, w, next) ==
    /\ todo' = [todo EXCEPT ![n] = (@ \ {w}) \cup next]
    /\ objects' = [objects EXCEPT ![n] = IF todo'[n] = {} THEN None ELSE @]
    /\ UNCHANGED <<hardware, lagging, sticky, seen, local>>

StatusWrite(n, m) ==
    IF StatusCurrent(n, objects[n], m, local[n][m]) THEN {} ELSE {[op |-> "status", name |-> m]}

\* publish: the spec and the labels, by force.
Apply(n, w) ==
    /\ w \in todo[n] /\ w.op = "apply"
    /\ LET o == obj[w.name]
           fp == print[local[n][w.name].dev]
       IN  obj' = [obj EXCEPT ![w.name] =
                     IF o = None
                     THEN [fp |-> fp, label |-> n, phase |-> "", node |-> None, key |-> None,
                           fresh |-> FALSE]
                     ELSE [o EXCEPT !.fp = fp, !.label = n]]
    /\ Done(n, w, StatusWrite(n, w.name))
    /\ UNCHANGED <<hasty, changes>>

\* publish: the status.  Its lastSeen is the time of the scan: once a later
\* instance of the device has waited for lost_after, it counts only if rounding
\* or the clocks of the nodes allow it.
PatchStatus(n, w) ==
    /\ w \in todo[n] /\ w.op = "status"
    /\ LET key == local[n][w.name]
           late == \E p \in Nodes : \E k \in DOMAIN seen[p] :
                      k.dev = key.dev /\ k.num > key.num /\ seen[p][k] = "old"
       IN  \E counts \in {TRUE, ~late} :
             /\ obj' = [obj EXCEPT ![w.name] =
                          [@ EXCEPT !.phase = "Available", !.node = n, !.key = key, !.fresh = counts]]
             /\ hasty' = IF late /\ counts THEN hasty \cup {key.dev} ELSE hasty
    /\ Done(n, w, {})
    /\ UNCHANGED changes

\* Mutant: the phase stays.
MarkUnplugged_phase(n, w) ==
    /\ w \in todo[n] /\ w.op = "unplug"
    /\ \A x \in todo[n] : x.op = "unplug"
    /\ obj' = IF obj[w.name] = objects[n][w.name] THEN [obj EXCEPT ![w.name].key = None] ELSE obj
    /\ Done(n, w, {})
    /\ UNCHANGED <<hasty, changes>>

\* Mutant: no resourceVersion guards the patch.
MarkUnplugged_blind(n, w) ==
    /\ w \in todo[n] /\ w.op = "unplug"
    /\ \A x \in todo[n] : x.op = "unplug"
    /\ obj' = [obj EXCEPT ![w.name] = [@ EXCEPT !.phase = "Unplugged", !.key = None]]
    /\ Done(n, w, {})
    /\ UNCHANGED <<hasty, changes>>

\* mark_unplugged, after everything is published; a conflict leaves it to the
\* next scan.
MarkUnplugged(n, w) ==
    /\ w \in todo[n] /\ w.op = "unplug"
    /\ \A x \in todo[n] : x.op = "unplug"
    /\ obj' = IF obj[w.name] = objects[n][w.name]
              THEN [obj EXCEPT ![w.name] = [@ EXCEPT !.phase = "Unplugged", !.key = None]]
              ELSE obj
    /\ Done(n, w, {})
    /\ UNCHANGED <<hasty, changes>>

\* A write fails or times out, or is held back because the node wrote the same
\* status less than 10 s ago: what it was part of is left to the next scan.
WriteFails(n, w) ==
    /\ w \in todo[n]
    /\ Disturb("fail")
    /\ Done(n, w, {})
    /\ UNCHANGED <<obj, hasty>>

\* Mutant: nothing is recovered.
RecoverAssignments_none(n) == {Empty}

\* recover_assignments, from the first list: the instances the node has published.
\* Of two names that an instance was published under the one listed last counts.
RecoverAssignments(n) ==
    LET mine == {m \in Names : /\ obj[m] # None
                               /\ obj[m].node = n
                               /\ obj[m].phase = "Available"
                               /\ obj[m].key # None}
    IN  {f \in [{obj[m].key : m \in mine} -> mine] : \A k \in DOMAIN f : obj[f[k]].key = k}

Restart(n) ==
    /\ Disturb("restart")
    /\ objects' = [objects EXCEPT ![n] = None]
    /\ lagging' = [lagging EXCEPT ![n] = None]
    /\ \E f \in RecoverAssignments(n) : sticky' = [sticky EXCEPT ![n] = f]
    /\ seen' = [seen EXCEPT ![n] = Empty]
    /\ local' = [local EXCEPT ![n] = Empty]
    /\ todo' = [todo EXCEPT ![n] = {}]
    /\ UNCHANGED <<hardware, obj, hasty>>

-----------------------------------------------------------------------------
Environment ==
    \/ \E d \in Devices : Unplug(d) \/ \E n \in Nodes, p \in Ports : Plug(d, n, p)
    \/ \E m \in Names : HeartbeatExpires(m) \/ MarkLost(m)
    \/ \E n \in Nodes : \E k \in DOMAIN seen[n] : GraceEnds(n, k)

Scanning(n) ==
    \/ ScanOnce(n)
    \/ \E w \in todo[n] : Apply(n, w) \/ PatchStatus(n, w) \/ MarkUnplugged(n, w)

Agent(n) ==
    \/ Scanning(n)
    \/ Lag(n)
    \/ \E w \in todo[n] : WriteFails(n, w)
    \/ Restart(n)

Next == Environment \/ \E n \in Nodes : Agent(n)

Spec == Init /\ [][Next]_vars

\* Grace periods end, and scans go on.
FairSpec ==
    /\ Spec
    /\ \A n \in Nodes : /\ WF_vars(\E k \in DOMAIN seen[n] : GraceEnds(n, k))
                       /\ WF_vars(Scanning(n))

-----------------------------------------------------------------------------
(* Properties.                                                             *)

Instances == [dev : DOMAIN print, num : 1 .. MaxChanges[print] + 1, port : Ports]

\* The objects, and what the agents remember of them.
Types ==
    /\ print \in DOMAIN MaxChanges
    /\ changes \in 0 .. MaxChanges[print]
    /\ hasty \subseteq Devices
    /\ at \in [Devices -> Nodes \cup {None}] /\ port \in [Devices -> Ports \cup {None}]
    /\ num \in [Devices -> 0 .. MaxChanges[print] + 1]
    /\ obj \in [Names -> Object \cup {None}]
    /\ objects \in [Nodes -> [Names -> Object \cup {None}] \cup {None}]
    /\ lagging \in [Nodes -> [Names -> Object \cup {None}] \cup {None}]
    /\ DOMAIN sticky = Nodes /\ DOMAIN seen = Nodes /\ DOMAIN local = Nodes
    /\ \A n \in Nodes :
         /\ DOMAIN sticky[n] \subseteq Instances
         /\ \A k \in DOMAIN sticky[n] : sticky[n][k] \in Names
         /\ DOMAIN seen[n] \subseteq Instances
         /\ \A k \in DOMAIN seen[n] : seen[n][k] \in {"young", "old"}
         /\ DOMAIN local[n] \subseteq Names
         /\ \A m \in DOMAIN local[n] : local[n][m] \in Instances
    /\ todo \in [Nodes -> SUBSET Write]

\* The types; an object that is available says which instance it is.
TypeOK == Types /\ \A m \in Names : obj[m] # None /\ obj[m].phase = "Available" => obj[m].key # None

\* An agent has no name for two devices at once, so that none hides another in
\* its local view (identity::assign, the local map of scan_once).
OwnNames ==
    \A n \in Nodes : \A j, k \in DOMAIN sticky[n] : sticky[n][j] = sticky[n][k] => j = k

\* Nothing else has an attribute in common with the device that a tier would use.
Unique(d) == \A e \in DOMAIN print \ {d}, i \in 1 .. 3 : ~SameKey(print[d], print[e], Order[i])

Best(fp) == PortableName(fp, IF fp.serial # None THEN "Serial" ELSE "Descriptor")

\* A device that is unlike every other one keeps its name, wherever it is plugged
\* in next and whatever agents restart: the node it moves to waits for the old
\* one instead of inventing a name, so its claim follows it.  The exception is
\* a wait that ended while the old node's heartbeat still counted.
NameFollowsDevice ==
    \A n \in Nodes : \A m \in DOMAIN local[n] :
        LET d == local[n][m].dev
        IN  Unique(d) /\ d \notin hasty => m = Best(print[d])

Shows(m, key) == obj[m] # None /\ obj[m].phase = "Available" /\ obj[m].key = key

\* No other node has the name for a device of its own, and the instance is not
\* being renamed.
Uncontested(m, n, key) ==
    /\ \A p \in Nodes \ {n} : \A k \in DOMAIN sticky[p] : sticky[p][k] # m
    /\ \A x \in Names \ {m} : ~Shows(x, key)

\* A device that stays plugged in keeps the name its node has published, unless
\* another node claims it: a scan of an up-to-date store does not rename it, and
\* an agent that restarts recovers it (recover_assignments, identity::assign).
StaysNamed ==
    [][\A m \in Names :
         LET o == obj[m]
         IN  /\ o # None /\ Shows(m, o.key) /\ InPlace(o) /\ o.fp = print[o.key.dev]
             /\ o.key \in DOMAIN sticky[o.node] /\ sticky[o.node][o.key] = m
             /\ Uncontested(m, o.node, o.key) /\ lagging[o.node] = None
             => o.key \in DOMAIN sticky'[o.node] /\ sticky'[o.node][o.key] = m]_vars

\* A device is marked unplugged only when the node in its object serves nothing
\* under that name: a late mark_unplugged of the node that a device left does not
\* take it from the node that has published it since.
ServedStaysAvailable ==
    [][\A m \in Names :
         obj[m] # None /\ obj[m].phase = "Available" /\ obj'[m].phase = "Unplugged"
         => m \notin DOMAIN local[obj[m].node]]_vars

Published(d) ==
    \E m \in DOMAIN local[at[d]] :
        /\ local[at[d]][m] = Key(d)
        /\ IsAvailable(obj[m])
        /\ obj[m].node = at[d] /\ obj[m].key = Key(d) /\ obj[m].fp = print[d]

\* Once people and faults leave the devices alone, each device that is plugged in
\* has an object of its own with the right place and fingerprint, and its node
\* serves it under that name; no other object is available.  Two nodes that took
\* the same name settle on one of them.
DevicesSettle ==
    <>[](/\ \A d \in Devices : at[d] # None => Published(d)
         /\ \A m \in Names : IsAvailable(obj[m]) => InPlace(obj[m]))
=============================================================================
