------------------------------- MODULE Leases -------------------------------
(***************************************************************************)
(* The controller's lease path (src/controller.rs: reconcile_all and the   *)
(* lease half of reconcile_claim) against the Kubernetes API.              *)
(*                                                                         *)
(* The API server stores the UsbDevices, the UsbDeviceClaims and the VMs.  *)
(* Every controller reads them from three reflector caches that lag behind *)
(* the server independently, works on a private snapshot for a whole pass, *)
(* and writes leases with a resourceVersion precondition.  Users, the node *)
(* agents and KubeVirt change the same objects between any two API calls.  *)
(***************************************************************************)
EXTENDS Naturals, FiniteSets

CONSTANTS
    Controllers,    \* controller processes (the chart runs one)
    NumDevices,     \* UsbDevice names, in the order of the BTreeMap
    NumClaims,      \* claim UIDs, in order of creation
    Selectors,      \* the device sets that users' selectors match
    Disturbances,   \* the kinds of disturbance that may happen
    MaxChanges      \* bound on disturbances (see Disturb)

ASSUME ConstantsAssumption ==
    /\ NumDevices \in Nat \ {0}
    /\ NumClaims \in Nat \ {0}
    /\ MaxChanges \in Nat
    /\ Selectors \subseteq SUBSET (1..NumDevices)

Devices == 1..NumDevices
Claims == 1..NumClaims
None == 0

\* DevicePhase, with "Expired" for an Available device whose lastSeen is older
\* than lost_after, and "Absent" for a name without an object.  "Unplugged" also
\* stands for an object that has no status yet.
Phases == {"Absent", "Available", "Expired", "Unplugged", "Lost"}

DeviceRecord == [phase : Phases, lease : Claims \cup {None}]

\* A copy of a device; cur: its resourceVersion is still the stored one.
DeviceCopy == [phase : Phases, lease : Claims \cup {None}, cur : BOOLEAN]

\* sel: the devices the selector matches; valid: validate(), vmName and the
\* slot are fine; device: status.deviceName.
ClaimRecord == [st : {"unborn", "live", "gone"}, sel : SUBSET Devices,
                valid : BOOLEAN, device : Devices \cup {None}]

Steps == {"down", "idle", "lost", "sweep", "bind", "release", "status"}

VARIABLES
    dev,        \* API server: UsbDevice objects
    claim,      \* API server: UsbDeviceClaim objects
    vm,         \* claims whose VM is present (vm_present)
    cDev,       \* device cache of each controller
    cClaim,     \* claim cache of each controller
    cVm,        \* VM/VMI caches of each controller
    pc,         \* where each controller is in its pass
    devs,       \* devices the running loop has still to visit
    todo,       \* claims the pass has still to reconcile
    lDev,       \* the pass's `devices` map
    lClaim,     \* the pass's `claims`
    lVm,        \* the pass's `vms` and `vmis`
    target,     \* `target` of reconcile_claim
    changes     \* disturbances so far

server == <<dev, claim, vm>>
caches == <<cDev, cClaim, cVm>>
snapshot == <<lClaim, lVm>>
position == <<pc, devs, todo, target>>
vars == <<server, caches, lDev, snapshot, position, changes>>

-----------------------------------------------------------------------------
NoDevice == [phase |-> "Absent", lease |-> None]
NoClaim == [st |-> "unborn", sel |-> {}, valid |-> TRUE, device |-> None]

LiveClaim(s, v, d) == [st |-> "live", sel |-> s, valid |-> v, device |-> d]

AsCopy(rec, current) == [phase |-> rec.phase, lease |-> rec.lease, cur |-> current]

\* Mutant: the patch spells the phase in another way than the agents do.
WithPhase_misspelt(rec, p) ==
    [phase |-> IF p = "Lost" THEN "lost" ELSE p, lease |-> rec.lease]

WithPhase(rec, p) == [phase |-> p, lease |-> rec.lease]
WithLease(rec, h) == [phase |-> rec.phase, lease |-> h]

\* What a reflector holds right after a list or once it has caught up.
Listed == [d \in Devices |-> AsCopy(dev[d], TRUE)]

NoCopies == [d \in Devices |-> AsCopy(NoDevice, FALSE)]
NoClaims == [c \in Claims |-> NoClaim]

\* Device d was written: every copy of it carries an old resourceVersion.
Outdate(copies, d) == [k \in Controllers |-> [copies[k] EXCEPT ![d] = AsCopy(copies[k][d], FALSE)]]

InitialClaims ==
    {f \in [Claims -> {NoClaim} \cup
                [st : {"live"}, sel : Selectors, valid : {TRUE}, device : {None}]] :
        \A c \in Claims : \A b \in 1..(c - 1) : f[c].st = "live" => f[b].st = "live"}

Init ==
    /\ dev \in [Devices -> [phase : {"Absent", "Available"}, lease : {None}]]
    /\ claim \in InitialClaims
    /\ vm = Claims
    /\ cDev = [k \in Controllers |-> NoCopies]
    /\ cClaim = [k \in Controllers |-> NoClaims]
    /\ cVm = [k \in Controllers |-> {}]
    /\ pc = [k \in Controllers |-> "down"]
    /\ devs = [k \in Controllers |-> {}]
    /\ todo = [k \in Controllers |-> {}]
    /\ lDev = [k \in Controllers |-> NoCopies]
    /\ lClaim = [k \in Controllers |-> NoClaims]
    /\ lVm = [k \in Controllers |-> {}]
    /\ target = [k \in Controllers |-> None]
    /\ changes = 0

-----------------------------------------------------------------------------
(* Users, agents, KubeVirt and time.                                       *)

\* What the environment does to the controller: changes by others, failed
\* calls, crashes, and passes on caches that lag behind.
Disturb(kind) ==
    /\ kind \in Disturbances
    /\ changes < MaxChanges
    /\ changes' = changes + 1

\* The object of d is replaced by somebody who is not a controller.
StoreDevice(d, rec) ==
    /\ dev' = [dev EXCEPT ![d] = rec]
    /\ cDev' = Outdate(cDev, d)
    /\ lDev' = Outdate(lDev, d)
    /\ UNCHANGED <<claim, vm, cClaim, cVm, snapshot, position>>

\* An agent creates the object of a device, or writes its status: plugged in,
\* or a heartbeat.  The patch does not mention attachedTo, so the lease stays.
Publish(d) ==
    /\ Disturb("publish")
    /\ StoreDevice(d, WithPhase(dev[d], IF dev[d].phase = "Absent" THEN "Unplugged"
                                                                  ELSE "Available"))

\* An agent marks its device unplugged, if the stored object still is the one
\* it has cached as Available (guarded by the resourceVersion).
MarkUnplugged(d) ==
    /\ dev[d].phase \in {"Available", "Expired"}
    /\ Disturb("unplug")
    /\ StoreDevice(d, WithPhase(dev[d], "Unplugged"))

\* A user deletes the UsbDevice object, and its lease with it.
DeleteDevice(d) ==
    /\ dev[d].phase # "Absent"
    /\ Disturb("deleteDevice")
    /\ StoreDevice(d, NoDevice)

Aged(rec) == WithPhase(rec, IF rec.phase = "Available" THEN "Expired" ELSE rec.phase)

\* The last heartbeat of d becomes older than lost_after, here and in every
\* cache.  A running pass keeps the `now` it started with.
HeartbeatAges(d) ==
    /\ dev[d].phase = "Available"
    /\ Disturb("age")
    /\ dev' = [dev EXCEPT ![d] = Aged(dev[d])]
    /\ cDev' = [k \in Controllers |->
                 [cDev[k] EXCEPT ![d] = AsCopy(Aged(cDev[k][d]), cDev[k][d].cur)]]
    /\ UNCHANGED <<claim, vm, cClaim, cVm, lDev, snapshot, position>>

\* A cache that missed later heartbeats sees the old one age.
CachedHeartbeatAges(k, d) ==
    /\ cDev[k][d].phase = "Available" /\ ~cDev[k][d].cur
    /\ Disturb("age")
    /\ cDev' = [cDev EXCEPT ![k] = [cDev[k] EXCEPT ![d] = AsCopy(Aged(cDev[k][d]), FALSE)]]
    /\ UNCHANGED <<server, cClaim, cVm, lDev, snapshot, position>>

CreateClaim(c) ==
    /\ claim[c].st = "unborn"
    /\ \A b \in 1..(c - 1) : claim[b].st # "unborn"
    /\ Disturb("createClaim")
    /\ \E s \in Selectors, v \in BOOLEAN :
         claim' = [claim EXCEPT ![c] = LiveClaim(s, v, None)]
    /\ UNCHANGED <<dev, vm, caches, lDev, snapshot, position>>

EditClaim(c) ==
    /\ claim[c].st = "live"
    /\ Disturb("editClaim")
    /\ \E s \in Selectors, v \in BOOLEAN :
         claim' = [claim EXCEPT ![c] = LiveClaim(s, v, claim[c].device)]
    /\ UNCHANGED <<dev, vm, caches, lDev, snapshot, position>>

DeleteClaim(c) ==
    /\ claim[c].st = "live"
    /\ Disturb("deleteClaim")
    /\ claim' = [claim EXCEPT ![c] = [NoClaim EXCEPT !.st = "gone"]]
    /\ UNCHANGED <<dev, vm, caches, lDev, snapshot, position>>

\* The VM of claim c is deleted, or created again.
ChangeVm(c) ==
    /\ Disturb("vm")
    /\ vm' = IF c \in vm THEN vm \ {c} ELSE vm \cup {c}
    /\ UNCHANGED <<dev, claim, caches, lDev, snapshot, position>>

Environment ==
    \/ \E d \in Devices : \/ Publish(d)
                          \/ MarkUnplugged(d)
                          \/ DeleteDevice(d)
                          \/ HeartbeatAges(d)
    \/ \E k \in Controllers, d \in Devices : CachedHeartbeatAges(k, d)
    \/ \E c \in Claims : \/ CreateClaim(c)
                         \/ EditClaim(c)
                         \/ DeleteClaim(c)
                         \/ ChangeVm(c)

-----------------------------------------------------------------------------
(* Reflectors and the life of a controller process.                        *)

SyncDevices(k) ==
    /\ pc[k] # "down"
    /\ cDev[k] # Listed
    /\ cDev' = [cDev EXCEPT ![k] = Listed]
    /\ UNCHANGED <<server, cClaim, cVm, lDev, snapshot, position, changes>>

SyncClaims(k) ==
    /\ pc[k] # "down"
    /\ cClaim[k] # claim
    /\ cClaim' = [cClaim EXCEPT ![k] = claim]
    /\ UNCHANGED <<server, cDev, cVm, lDev, snapshot, position, changes>>

SyncVms(k) ==
    /\ pc[k] # "down"
    /\ cVm[k] # vm
    /\ cVm' = [cVm EXCEPT ![k] = vm]
    /\ UNCHANGED <<server, cDev, cClaim, lDev, snapshot, position, changes>>

Crash(k) ==
    /\ pc[k] # "down"
    /\ Disturb("crash")
    /\ pc' = [pc EXCEPT ![k] = "down"]
    /\ devs' = [devs EXCEPT ![k] = {}]
    /\ todo' = [todo EXCEPT ![k] = {}]
    /\ target' = [target EXCEPT ![k] = None]
    /\ lDev' = [lDev EXCEPT ![k] = NoCopies]
    /\ lClaim' = [lClaim EXCEPT ![k] = NoClaims]
    /\ lVm' = [lVm EXCEPT ![k] = {}]
    /\ cDev' = [cDev EXCEPT ![k] = NoCopies]
    /\ cClaim' = [cClaim EXCEPT ![k] = NoClaims]
    /\ cVm' = [cVm EXCEPT ![k] = {}]
    /\ UNCHANGED server

\* Mutant: the first pass does not wait for the list of claims.
Start_unsynced(k) ==
    /\ pc[k] = "down"
    /\ pc' = [pc EXCEPT ![k] = "idle"]
    /\ cDev' = [cDev EXCEPT ![k] = Listed]
    /\ cVm' = [cVm EXCEPT ![k] = vm]
    /\ UNCHANGED <<server, cClaim, lDev, snapshot, devs, todo, target, changes>>

\* run() waits for the initial list of every kind before the first pass.
Start(k) ==
    /\ pc[k] = "down"
    /\ pc' = [pc EXCEPT ![k] = "idle"]
    /\ cDev' = [cDev EXCEPT ![k] = Listed]
    /\ cClaim' = [cClaim EXCEPT ![k] = claim]
    /\ cVm' = [cVm EXCEPT ![k] = vm]
    /\ UNCHANGED <<server, lDev, snapshot, devs, todo, target, changes>>

-----------------------------------------------------------------------------
(* cas_patch_status: a merge patch of the device's status that the server  *)
(* only accepts for the resourceVersion of the pass's copy.                *)

CasApplied(k, d, stored, local) ==
    /\ dev' = [dev EXCEPT ![d] = stored]
    /\ cDev' = Outdate(cDev, d)
    /\ lDev' = [Outdate(lDev, d) EXCEPT ![k] = [lDev[k] EXCEPT ![d] = AsCopy(local, TRUE)]]

CasConflict(k, d) ==
    /\ ~lDev[k][d].cur
    /\ UNCHANGED <<dev, cDev, lDev>>

\* The server applies the patch but the reply is lost: the pass keeps its copy.
CasReplyLost(k, d, stored) ==
    /\ lDev[k][d].cur
    /\ dev' = [dev EXCEPT ![d] = stored]
    /\ cDev' = Outdate(cDev, d)
    /\ lDev' = Outdate(lDev, d)

\* Mutant: the patch carries no resourceVersion; the reply is the merged object.
CasPatch_blind(k, d, stored, local) == CasApplied(k, d, stored, stored)

CasPatch(k, d, stored, local) ==
    \/ lDev[k][d].cur /\ CasApplied(k, d, stored, local)
    \/ CasConflict(k, d)

\* The call fails: nothing happened, or nobody heard that it did.
CasFails(k, d, stored) ==
    \/ UNCHANGED <<dev, cDev, lDev>>
    \/ CasReplyLost(k, d, stored)

-----------------------------------------------------------------------------
(* reconcile_all.                                                          *)

CaughtUp(k) == cDev[k] = Listed /\ cClaim[k] = claim /\ cVm[k] = vm

\* The live_claims of a snapshot.
Live(claims) == {c \in Claims : claims[c].st = "live"}

\* An Available device whose heartbeat is too old is to become Lost.
NeedsLost(copy) == copy.phase = "Expired"

\* The lease of a claim that is not among the live ones is to be dropped.
NeedsSweep(copy, claims) == copy.lease # None /\ copy.lease \notin Live(claims)

DeviceWork(k) ==
    {d \in Devices : NeedsLost(cDev[k][d]) \/ NeedsSweep(cDev[k][d], cClaim[k])}

\* wait_for_change lets events settle before a pass; one that starts on caches
\* that still lag is a disturbance.
StartPass(k) ==
    LET work == DeviceWork(k) IN
    /\ pc[k] = "idle"
    /\ work # {} \/ Live(cClaim[k]) # {}
    /\ IF CaughtUp(k) THEN UNCHANGED changes ELSE Disturb("lag")
    /\ pc' = [pc EXCEPT ![k] = IF work = {} THEN "bind" ELSE "lost"]
    /\ devs' = [devs EXCEPT ![k] = work]
    /\ todo' = [todo EXCEPT ![k] = Live(cClaim[k])]
    /\ lDev' = [lDev EXCEPT ![k] = cDev[k]]
    /\ lClaim' = [lClaim EXCEPT ![k] = cClaim[k]]
    /\ lVm' = [lVm EXCEPT ![k] = cVm[k]]
    /\ UNCHANGED <<server, caches, target>>

\* A pass that finds no claim and nothing to do about a device.
EmptyPass(k) ==
    /\ pc[k] = "idle"
    /\ DeviceWork(k) = {} /\ Live(cClaim[k]) = {}
    /\ UNCHANGED vars

\* The device (claim) a loop is at.
First(set, x) == x \in set /\ \A y \in set : x <= y

\* The pass goes on to the claims that are left, or returns and drops its
\* locals.
ToClaims(k, left) ==
    IF left # {}
      THEN pc' = [pc EXCEPT ![k] = "bind"] /\ UNCHANGED snapshot
      ELSE /\ pc' = [pc EXCEPT ![k] = "idle"]
           /\ lClaim' = [lClaim EXCEPT ![k] = NoClaims]
           /\ lVm' = [lVm EXCEPT ![k] = {}]

\* The device loop, first half.
MarkLost(k) ==
    \E d \in Devices :
        /\ pc[k] = "lost"
        /\ First(devs[k], d)
        /\ IF NeedsLost(lDev[k][d])
             THEN CasPatch(k, d, WithPhase(dev[d], "Lost"), WithPhase(lDev[k][d], "Lost"))
             ELSE UNCHANGED <<dev, cDev, lDev>>
        /\ pc' = [pc EXCEPT ![k] = "sweep"]
        /\ UNCHANGED <<claim, vm, cClaim, cVm, snapshot, devs, todo, target, changes>>

\* Second half.
Sweep(k) ==
    \E d \in Devices :
        /\ pc[k] = "sweep"
        /\ First(devs[k], d)
        /\ IF NeedsSweep(lDev[k][d], lClaim[k])
             THEN CasPatch(k, d, WithLease(dev[d], None), WithLease(lDev[k][d], None))
             ELSE UNCHANGED <<dev, cDev, lDev>>
        /\ devs' = [devs EXCEPT ![k] = @ \ {d}]
        /\ IF devs[k] # {d}
             THEN pc' = [pc EXCEPT ![k] = "lost"] /\ UNCHANGED snapshot
             ELSE ToClaims(k, todo[k])
        /\ UNCHANGED <<claim, vm, cClaim, cVm, todo, target, changes>>

\* An error in the device loop aborts the whole pass.
PassFails(k) ==
    \E d \in Devices :
        /\ Disturb("fail")
        /\ First(devs[k], d)
        /\ \/ /\ pc[k] = "lost" /\ NeedsLost(lDev[k][d])
              /\ CasFails(k, d, WithPhase(dev[d], "Lost"))
           \/ /\ pc[k] = "sweep" /\ NeedsSweep(lDev[k][d], lClaim[k])
              /\ CasFails(k, d, WithLease(dev[d], None))
        /\ devs' = [devs EXCEPT ![k] = {}]
        /\ todo' = [todo EXCEPT ![k] = {}]
        /\ ToClaims(k, {})
        /\ UNCHANGED <<claim, vm, cClaim, cVm, target>>

-----------------------------------------------------------------------------
(* reconcile_claim.                                                        *)

IsAvailable(k, d) == lDev[k][d].phase = "Available"

\* invalid.is_none() && vm_present
MayHold(k, c) == lClaim[k][c].valid /\ c \in lVm[k]

Matches(k, c, d) == lDev[k][d].phase # "Absent" /\ d \in lClaim[k][c].sel
Held(k, c) == {d \in Devices : lDev[k][d].lease = c}
HeldMatches(k, c) == {d \in Held(k, c) : Matches(k, c, d)}

\* sort_by_key (not available, name)
Nicer(k, d, e) ==
    \/ IsAvailable(k, d) /\ ~IsAvailable(k, e)
    \/ IsAvailable(k, d) = IsAvailable(k, e) /\ d <= e

\* `current`: min_by_key (not the reported device, not available, name) of the
\* held devices that match.
IsCurrent(k, c, d) ==
    LET reported == lClaim[k][c].device IN
    IF ~MayHold(k, c) \/ HeldMatches(k, c) = {}
      THEN d = None
      ELSE /\ d \in HeldMatches(k, c)
           /\ \A e \in HeldMatches(k, c) : d = reported \/ (e # reported /\ Nicer(k, d, e))

\* Mutant: a claim that holds a device never looks for a working one.
Wanted_keepsDead(k, c, current) ==
    {d \in Devices :
        /\ MayHold(k, c) /\ current = None
        /\ lDev[k][d].lease = None
        /\ Matches(k, c, d)}

\* The free devices the claim would take: none if the current one works, else
\* the available ones, and any to reserve if the claim holds nothing.
Wanted(k, c, current) ==
    {d \in Devices :
        /\ MayHold(k, c)
        /\ current # None => ~IsAvailable(k, current) /\ IsAvailable(k, d)
        /\ lDev[k][d].lease = None
        /\ Matches(k, c, d)}

IsCandidate(k, c, current, d) ==
    IF Wanted(k, c, current) = {}
      THEN d = None
      ELSE d \in Wanted(k, c, current) /\ \A e \in Wanted(k, c, current) : Nicer(k, d, e)

\* Claim c settles on t; the other devices it held are released next.
Settle(k, c, t) ==
    /\ target' = [target EXCEPT ![k] = t]
    /\ devs' = [devs EXCEPT ![k] = Held(k, c) \ {t}]
    /\ pc' = [pc EXCEPT ![k] = IF Held(k, c) \ {t} = {} THEN "status" ELSE "release"]

\* Mutant: the lease is written whatever the server stores by now.
TakeLease_blind(k, c, current, d) ==
    /\ CasApplied(k, d, WithLease(dev[d], c), WithLease(dev[d], c))
    /\ Settle(k, c, d)

\* The candidate is leased, or somebody else wrote it first and the claim
\* stays with what it has.
TakeLease(k, c, current, d) ==
    \/ /\ lDev[k][d].cur
       /\ CasApplied(k, d, WithLease(dev[d], c), WithLease(lDev[k][d], c))
       /\ Settle(k, c, d)
    \/ /\ CasConflict(k, d)
       /\ Settle(k, c, current)

Bind(k) ==
    \E c \in Claims, current, d \in Devices \cup {None} :
        /\ pc[k] = "bind"
        /\ First(todo[k], c)
        /\ IsCurrent(k, c, current)
        /\ IsCandidate(k, c, current, d)
        /\ \/ /\ d = None
              /\ Settle(k, c, current)
              /\ UNCHANGED <<dev, cDev, lDev>>
           \/ d # None /\ TakeLease(k, c, current, d)
        /\ UNCHANGED <<claim, vm, cClaim, cVm, snapshot, todo, changes>>

\* One turn of the loop over the held devices that are not the target.
ReleaseHeld(k) ==
    \E d \in Devices :
        /\ pc[k] = "release"
        /\ First(devs[k], d)
        /\ CasPatch(k, d, WithLease(dev[d], None), WithLease(lDev[k][d], None))
        /\ devs' = [devs EXCEPT ![k] = @ \ {d}]
        /\ pc' = [pc EXCEPT ![k] = IF devs[k] = {d} THEN "status" ELSE "release"]
        /\ UNCHANGED <<claim, vm, cClaim, cVm, snapshot, todo, target, changes>>

\* The reconcile of claim c is over.
NextClaim(k, c) ==
    /\ todo' = [todo EXCEPT ![k] = @ \ {c}]
    /\ devs' = [devs EXCEPT ![k] = {}]
    /\ target' = [target EXCEPT ![k] = None]
    /\ ToClaims(k, todo[k] \ {c})

\* The status is patched by name, with no precondition; a deleted claim is
\* ignored.
StatusPatched(k, c) ==
    claim' = IF claim[c].st = "live"
               THEN [claim EXCEPT ![c] = LiveClaim(claim[c].sel, claim[c].valid, target[k])]
               ELSE claim

\* It is patched when it differs from the snapshot's in deviceName or in a
\* field that is not modelled here.
WriteStatus(k) ==
    \E c \in Claims :
        /\ pc[k] = "status"
        /\ First(todo[k], c)
        /\ \/ StatusPatched(k, c)
           \/ target[k] = lClaim[k][c].device /\ UNCHANGED claim
        /\ NextClaim(k, c)
        /\ lDev' = IF todo[k] = {c} THEN [lDev EXCEPT ![k] = NoCopies] ELSE lDev
        /\ UNCHANGED <<dev, vm, caches, changes>>

\* An error leaves reconcile_claim; the pass goes on with the next claim and
\* with the copies it has.
ClaimFails(k) ==
    \E c \in Claims :
        /\ First(todo[k], c)
        /\ Disturb("fail")
        /\ \/ /\ pc[k] = "bind"         \* also: patching the owner references fails
              /\ UNCHANGED <<dev, cDev, lDev, claim>>
           \/ /\ pc[k] = "bind"
              /\ \E current \in Devices \cup {None}, d \in Devices :
                   /\ IsCurrent(k, c, current)
                   /\ IsCandidate(k, c, current, d)
                   /\ CasReplyLost(k, d, WithLease(dev[d], c))
              /\ UNCHANGED claim
           \/ /\ pc[k] = "release"
              /\ \E d \in Devices : First(devs[k], d) /\ CasFails(k, d, WithLease(dev[d], None))
              /\ UNCHANGED claim
           \/ /\ pc[k] = "status"
              /\ UNCHANGED claim \/ StatusPatched(k, c)
              /\ UNCHANGED <<dev, cDev, lDev>>
        /\ NextClaim(k, c)
        /\ UNCHANGED <<vm, cClaim, cVm>>

-----------------------------------------------------------------------------
Pass(k) ==
    \/ StartPass(k)
    \/ EmptyPass(k)
    \/ MarkLost(k)
    \/ Sweep(k)
    \/ Bind(k)
    \/ ReleaseHeld(k)
    \/ WriteStatus(k)

Sync(k) == SyncDevices(k) \/ SyncClaims(k) \/ SyncVms(k)

Next ==
    \/ Environment
    \/ \E k \in Controllers : \/ Sync(k)
                              \/ Start(k)
                              \/ Pass(k)
                              \/ PassFails(k)
                              \/ ClaimFails(k)
                              \/ Crash(k)

Spec == Init /\ [][Next]_vars

\* The control loop runs again at the latest after `resync`, a watch delivers
\* what happened, and Kubernetes restarts the controller.
FairSpec ==
    /\ Spec
    /\ \A k \in Controllers :
         /\ WF_vars(Start(k))
         /\ WF_vars(Pass(k))
         /\ WF_vars(SyncDevices(k))
         /\ WF_vars(SyncClaims(k))
         /\ WF_vars(SyncVms(k))

-----------------------------------------------------------------------------
(* Properties.                                                             *)

\* Stored objects, caches and the locals of every pass keep their types.
TypeOK ==
    /\ dev \in [Devices -> DeviceRecord]
    /\ claim \in [Claims -> ClaimRecord]
    /\ vm \in SUBSET Claims
    /\ cDev \in [Controllers -> [Devices -> DeviceCopy]]
    /\ cClaim \in [Controllers -> [Claims -> ClaimRecord]]
    /\ cVm \in [Controllers -> SUBSET Claims]
    /\ pc \in [Controllers -> Steps]
    /\ devs \in [Controllers -> SUBSET Devices]
    /\ todo \in [Controllers -> SUBSET Claims]
    /\ lDev \in [Controllers -> [Devices -> DeviceCopy]]
    /\ lClaim \in [Controllers -> [Claims -> ClaimRecord]]
    /\ lVm \in [Controllers -> SUBSET Claims]
    /\ target \in [Controllers -> Devices \cup {None}]
    /\ changes \in 0..MaxChanges

Lease == INSTANCE ExclusiveLease
            WITH Resources <- Devices, Holders <- Claims, Free <- None,
                 holder <- [d \in Devices |-> dev[d].lease]

\* Every device is leased to at most one claim at a time, whatever the caches
\* show and however many controllers run: a lease is acquired only on a free
\* device and never changes hands without being released.
LeaseSpec == Lease!Spec

\* Nobody but its own claim's reconcile ends the lease of a live claim: the
\* sweep of dead leases never hits a claim that merely is not cached yet.
LeaseEndsByOwnerOrDeath ==
    [][\A d \in Devices :
         LET c == dev[d].lease IN
         (c # None /\ dev'[d].lease # c) =>
            \/ claim[c].st = "gone"
            \/ dev'[d].phase = "Absent"
            \/ \E k \in Controllers : pc[k] = "release" /\ First(todo[k], c)]_vars

\* The controller never declares a device Lost that has sent a heartbeat the
\* controller had not seen yet.
LostOnlyIfSilent ==
    [][\A d \in Devices :
         (dev[d].phase # "Lost" /\ dev'[d].phase = "Lost") => dev[d].phase = "Expired"]_vars

HeldBy(c) == {d \in Devices : dev[d].lease = c}
MatchingFree(c) == {d \in claim[c].sel : dev[d].phase # "Absent" /\ dev[d].lease = None}
Eligible(c) == claim[c].st = "live" /\ claim[c].valid /\ c \in vm

SettledClaim(c) ==
    /\ ~Eligible(c) => HeldBy(c) = {}
    /\ HeldBy(c) \subseteq claim[c].sel
    /\ Cardinality(HeldBy(c)) <= 1
    /\ claim[c].st = "live" =>
         IF HeldBy(c) = {} THEN claim[c].device = None ELSE claim[c].device \in HeldBy(c)
    /\ (Eligible(c) /\ HeldBy(c) = {}) => MatchingFree(c) = {}
    /\ (\E d \in HeldBy(c) : dev[d].phase # "Available") =>
         \A d \in MatchingFree(c) : dev[d].phase # "Available"

Settled ==
    /\ \A d \in Devices : dev[d].phase # "Expired"
    /\ \A c \in Claims : SettledClaim(c)

\* Once the cluster is quiet the leases settle: no lease of a dead or
\* ineligible claim is left, no claim holds two devices, none waits while a
\* matching device is free or sits on a dead one while a live one is free, and
\* every claim reports the device it holds.
Converges == <>[]Settled
=============================================================================
