# A TLA+ model of atomic-usb

atomic-usb attaches USB devices of any node of a cluster to KubeVirt VMs. This directory holds
TLA+ modules that model the parts of it where steps of several actors meet, the TLC instances that
check them, and proofs of their main safety properties for every size. Source paths below are
relative to the crate (`src/` of the repository), `README` is the repository's.

## 1. The system

| Part | Source | State | Operations | Model |
| --- | --- | --- | --- | --- |
| Lease reconciliation | `controller.rs` | `UsbDevice.status` (phase, `attachedTo`), `UsbDeviceClaim.status.deviceName`, reflector caches | `reconcile_all`, `reconcile_claim`, `cas_patch_status` | `Leases`, `ExclusiveLease` |
| Boot hold | `controller.rs` | VMI paused/running, `status.bootHold`, `Ctx::released` | `decide_boot_hold`, `reconcile_boot_hold`, `clear_stale_boot_holds`, `unpause` | `BootHold` |
| Slot allocation | `controller.rs` | `status.slot`, `spec.slot` | `allocate_slots`, status write | `Slots` |
| Exporter | `agent/exporter.rs` | sessions of a device: active entry, `busy` lock, cancellation tokens, usbredirect processes | `handle`, `authorize`, `begin_session`, `serve`, `end_session`, `terminate`, `end_sessions_of_removed_devices` | `Exporter` |
| Claim phase | `controller.rs` | `status.phase`, message | `compute_phase` | `Phase`, `Ready` of `Attacher`: a valid claim of an existing VM |
| Claim lifetime | `controller.rs`, `kubevirt.rs` | owner references | `claim_owner_references`, garbage collection | only as a call that may fail, in `Leases` |
| Attacher, reporter | `agent/attacher.rs` | sessions by claim, `status.connection` | `run`, `desired_sessions`, `run_session`, `attempt`, `read_greeting`, `Reporter` | `Attacher` |
| Discovery | `agent/discovery.rs` | `UsbDevice` objects, sticky names, grace periods, local view | `scan_once`, `publish`, `mark_unplugged`, `recover_assignments` | `Discovery` |
| Device identity | `identity.rs` | fingerprints, names | `assign`, `choose` | `Identity` |
| Handshake | `proto.rs` | nonce cache | `Hello::verify`, `check_and_insert` | one step of `Exporter` and of `Attacher` |
| Caches | `watch.rs`, `util.rs` | reflector stores | `reflect_with`, `wait_for_change` | `Sync...` actions, `Lag` of `Discovery` |
| Launcher sockets, agent process | `launcher.rs`, `agent/mod.rs` | - | `locate`, `run` | `HasQemu` of `Attacher`, `Restart` of `Attacher` and `Discovery` |
| Pre-shared key, sysfs, uevents, CLI | `controller.rs`, `sysfs.rs`, `uevent.rs`, `main.rs` | - | one-off calls, file system and netlink I/O | not modelled |

How they interact: agents publish devices with a heartbeat; users create claims; the controller
leases a device to a claim by a patch of `status.attachedTo` with a `resourceVersion`, gives the
claim a slot of its VM, and writes both to the claim's status. The agent on the VM's node sees that
status, connects to the exporting agent, which checks the lease and starts usbredirect, and reports
`status.connection`. The controller resumes a VM that KubeVirt started paused once all of its
holding claims report a ready device.

What makes it hard:

- the controller never reads the API directly: it decides on three caches that lag independently,
  and works on one snapshot for a whole pass with an API call, and so other actors' steps, between
  any two of its own;
- a call may fail, or be applied with its reply lost; the controller may crash at any call;
- the lease patch has a precondition, the claim status patch and `unpause` go by name and have none;
- the exporter's sessions replace each other with the lease read, the session table, the lock, the
  child process and the hotplug notifications each having their own moment;
- the agents know of each other only through their caches: those of a migrating VM both write
  `status.connection`, without a precondition, and those of a device that is moved both publish it.

## 2. The modules

A *disturbance* is anything the environment does that a quiet cluster would not: an edit, a
hotplug event, a failed call, a crash. Each module has a constant for the kinds that may happen
(`Disturbances`; `Kinds` in `Discovery`; `Weight` in `Attacher`, where a kind also has a weight) and
`MaxChanges` (how many in all; in `Discovery` for each set of devices). Nothing else is bounded but
the instances of the VM and the clock of a pause in `BootHold` (`MaxInstances`, `MaxWait`) and the
session tasks alive at a time in `Exporter` and `Attacher` (`Sessions`), so that a liveness property
`<>[]P` says: after any `MaxChanges` disturbances at any moments, the system settles.

### Leases, ExclusiveLease

`dev`, `claim`, `vm` are the objects the API server stores; `cDev`, `cClaim`, `cVm` each
controller's caches; `lDev`, `lClaim`, `lVm`, `devs`, `todo`, `target` the locals of a pass; `pc`
the call it is about to make. One action is one API call of the code with the computation that
leads up to it:

- `StartPass`/`EmptyPass`: the head of `reconcile_all`; `MarkLost` and `Sweep`: its device loop;
- `Bind`: `reconcile_claim` up to the lease (current device, candidate, `TakeLease`); `ReleaseHeld`:
  the devices that are not the target; `WriteStatus`: the claim's status; `ClaimFails`,
  `PassFails`: an error of any call, logged and left to a later pass;
- `CasPatch` has the outcomes of `cas_patch_status`: applied, conflict (409 or 404), failed, and
  applied with the reply lost. A copy of a device has a flag `cur` (its resourceVersion is the
  stored one) in place of version numbers; every write of the device clears it in all other copies.
- `Publish`, `MarkUnplugged`, `HeartbeatAges` are the agents and time; `ChangeVm` makes a claim's VM
  appear or disappear.

Abstractions. The phase `Expired` is `Available` with a heartbeat older than `lost_after`. A
selector is the set of devices it matches. A sync brings one kind of object to the server's state
at once. The debounce of `wait_for_change` makes a pass on caches that lag the exception, so that
it counts as a disturbance (`lag`). Objects are not re-created under the same UID.

`ExclusiveLease` is the promise: a holder acquires a free resource or releases it, one at a time.

### BootHold

One VM with its claims. `vmi` is the instance (with a ghost field `boot`, true while the pause is
the one KubeVirt started with), `tmpl` the VirtualMachine's start strategy, `claim` the claims with
the instance their last report was about; `sVmi`, `sTmpl`, `sClaim`, `holds`, `plan` are the locals
of a pass, `released` is `Ctx::released`. `Decision` is `decide_boot_hold`, with timeouts in ticks
of `Tick`. `Release` is the call by name and the insertion into `released`; `WriteClaim` the status
writes, including those of `clear_stale_boot_holds`. They are merge patches (`WithBoot`): a `vmiUid` of
`None` is not sent, and the stored one stays. A process that ends between passes with
its releases in the status is a `rollout`, any other end is a `crash`. `ReportReady` and `ReportEnds`
stand for the agents. The restart of a VM is two steps, since the deleted instance lives on for a
while.

### Slots

`Pin`, `Keep`, `Fill` are iterations of the three loops of `allocate_slots`, which does not await:
users and caches move only while the pass is idle or writing. `WriteStatus` and `WriteFails` write
the result one claim at a time.

### Exporter

The sessions of one device on its agent (the code keeps a separate entry for each device). `st` is
where each connection is: `lease` (the device was found in the local view, the lease is being
read), `granted` (answered), `waiting` (registered, waits for `busy`), `starting` and `serving`
(usbredirect runs), `stopping` (in `terminate`), `closing` and `ending`. `active` is the table's
entry, `cancelled` the tokens, `busy` the lock, `child` the processes. Enumerations of the
device are numbered, the device file that a session opens is the number it read. `Scan` publishes
the local view and `EndRemoved` is the task that watches it. `LockTimeout` is the 15 s limit; it is
a disturbance when the holder has been told to stop, because stopping takes 5 s at most.

Left out: the contents of the handshake, wording of replies, a crash of the agent (its children
die with the container and nothing is persisted).

### Attacher

One claim, and the agents of the nodes its VM runs on. A *binding* is what the controller gives
the claim, a device with a slot. `vmi` is the VM's current instance and its node, `lease` the binding
of the leased device, `bound` what the claim's status says of it (the controller writes one after the
other: `Rebind`, `WriteBound`), `avail` the devices that are published, `conn` is
`status.connection`; `cache[n]` are the three stores of an agent, which are brought up to date
independently (`SyncVmi`, `SyncDevices`, `SyncClaim`). `Run` is an iteration of `Attacher::run` with
`desired_sessions`; `running`, `stopping` and `cancelled` are its tables and tokens.

`sess` are the tasks of `run_session`, by where they wait: `joining` (for the previous task, 15 s at
most: `JoinTimeout`), `idle`, `dialing`, `greeting` (`read_greeting`), `streaming`, `closing` and
`leaving` (in the report that follows). A cancelled task leaves at its next await outside a report
(`Leave`). `Reports` is `Reporter::report_with` as a whole: nothing if the entry is the last one,
nothing but remembering it if the cache shows another node connected, else the patch, which is
applied, applied with the reply lost, or fails. A late report is sent like any other: whether it
replaces one of another node depends on the caches alone. The exporter is what `Exporter` promises: it serves
the holder of the lease, the latest session only (`Serves`, `Cut`); a dial that it accepted has ended the
session before it even if the launcher's socket then refuses (`DialFails`).

`missed` is a history variable: a report of a session that has the device is not what is stored (`Unsaid`),
because the patch failed, or the state was taken for reported already or the cache showed another node
connected, or because another session's report went over it.

`Phase` and `Ready` are `compute_phase` and `ready` of the controller, on what is stored.

Abstractions. Backoff is any delay. Messages are told apart only where the reporter compares them.
A VM without `clientPassthrough` counts as one that does not run. The cached report is reduced to
what the code asks of it (`taken`). The node that a VM leaves loses its QEMU in the step that the
other one gets it.

### Identity, Discovery

`Identity` has the operators of `identity.rs`: the tiers with their keys, `Choose` (first tier that
nothing else shares and no other node holds, `Deferred` while waiting is allowed), `Keep` and
`Assign` (the two loops of `assign`; `Turn` is what an iteration decides, `Taken` the set `taken` at
that moment). An instance is a device in a port, with the number of the enumeration. Ports are
numbered in the order of their paths, which is that of the loops, and nodes
in the order of their names, which is that of the tie-break. A port name is of the node and the port,
whatever device is in it. All devices have one vendor and product id, which is
part of every key, so that others never meet. A name is its tier with its attributes: slugs and
hashes are taken to be injective.

`Discovery` runs them. `print`, `at`, `port`, `num` are the devices: fingerprint, node, port, number of the
current enumeration; `Plug` puts a device into any free port of a node (`Sockets`), so that devices use
a port in turn and change ports. `obj` are the `UsbDevice` objects, `sticky`, `seen`, `local` the agent's `sticky`,
`first_seen` (with whether `lost_after` has passed since) and local view. `ScanOnce` is `scan_once`
up to its first write; `todo` are the writes left, made one by one: `Apply` (by force), `PatchStatus`
(no precondition), `MarkUnplugged` (on the resourceVersion that was read). `Restart` empties the agent's memory
and runs `recover_assignments`.

Abstractions. A scan reads the current objects, or after `Lag` those of any earlier moment. Time is
`HeartbeatExpires` (no heartbeat for `lost_after`, a disturbance) and `GraceEnds` (`lost_after` since the
agent first saw the instance, by its own clock). The two are not ordered: a heartbeat counts while its
age in rounded seconds is at most `lost_after` (`crd.rs:170`), a wait ends when `lost_after` has elapsed
(`discovery.rs:169`), and nodes have clocks of their own. `hasty` is a history variable: the devices
whose wait ended while a heartbeat of an earlier instance still counted, or for which such a heartbeat
was written after it. The suppression of equal writes for 10 s (`status_writes`) is one of the cases of
`WriteFails`.

## 3. Properties and runs

| Run | Instance | Shows |
| --- | --- | --- |
| `leases_race` | 2 controllers, 1 device, 2 claims, 2 disturbances | `LeaseSpec`: the controllers implement `ExclusiveLease`. `LostOnlyIfSilent`: a device is not declared Lost after a heartbeat the controller has not seen |
| `leases_converge` | 1 controller, 2 devices, 2 claims, any 2 disturbances | `LeaseEndsByOwnerOrDeath`: the sweep never ends the lease of a live claim. `Converges`: no lease of a dead claim, no second device, no claim waiting beside a free device or sitting on a dead one, statuses right |
| `boothold_records` | 2 claims with timeouts of 1, 2 or no ticks, 3 disturbances | `ResumesOnlyBoots`: an instance is resumed once. `HoldEnds` with timeouts that differ |
| `boothold_settles` | 1 claim of any kind, 2 instances, any 2 disturbances | `RecordsAreTrue`: no record of a release is about an instance that still waits in the pause of its boot, which would then last. `HoldEnds`: only a claim that waits forever for a missing device holds on. `StatusSettles`: the state in `status.bootHold` is right for the current instance |
| `slots_allocate` | 2 VMs, 3 claims, 2 slots, pins 0 and 2, any 2 disturbances | `NoSharedSlot`, `PinsWin`, `NoSlotWasted` of every allocation; `SlotsAreStable`: no pass moves a device without a cause; `SlotsSettle`: the statuses agree in the end |
| `exporter_sessions` | 3 connections, 2 claims, any 3 disturbances | `OneSession`, `OthersCancelled`, `CancelledEnds`, `Settles` |
| `attacher_settles` | 2 nodes, 3 session tasks, 1 binding, paused or running VM; a move (restart or migration of the VM, lease change, unplugging) and a fault (any report failing, a lost reply, a broken connection or dial, a timeout, an agent's restart), or 3 faults | `OnePath`: a node has one data path for the claim. `ReportSettles`: in the end a running VM has its device and a paused one a session on its slot; `Attached` means streaming to the current instance, ready means a session on the slot; and the claim says so unless a report was `missed` |
| `discovery_settles` | 2 nodes with 2 ports and 1; two devices that are alike or two clones with one serial and 1 disturbance, or a unique device and 2 | `OwnNames`: no two devices of a node under one name. `NameFollowsDevice`: a unique device has one name wherever it goes, unless it is `hasty`. `StaysNamed`: an uncontested name survives scans and restarts. `ServedStaysAvailable`: a late `mark_unplugged` does not hit a device that the node in its object serves. `DevicesSettle`: each device ends up with an object of its own that is right, and no other object is available |

Why the bounds are enough for the cases of interest: a race for a lease takes two controllers and
one device, keeping a second device or moving off a dead one takes two devices, preference among
claims takes two of them. Three claims overfill two slots (the code has four; only full and not
full matter), pin 2 is just past the end. Three connections are one served, one that waits and one
that begins. The second instance of the VM is what a stale decision or report can be about. A
migration takes two nodes; one session that streams, one that is stopped and one that joins it are
three tasks. Two devices meet each other in each tier of the identities (alike: none of them is
unambiguous; clones: the second is), and a move is an unplugging and a plugging in on the other
node. The two ports of node 1 are what two devices swap or use in turn; a port of node 2 is for moving.

`LeaseEndsByOwnerOrDeath` and `Converges` are checked with one controller, as the chart runs it
(`replicas: 1`, strategy `Recreate`); the safety of leases does not depend on it.

Where the code and its documentation disagree (each run has its counterexample):

| Run | Documentation | Code |
| --- | --- | --- |
| `boothold_typo` | README: "a typo in a selector cannot leave a VM paused" | `decide_boot_hold` does nothing if all holding claims are invalid, and nobody resumes the VM |
| `boothold_restart` | README: the hold applies to every start, restarts included | `unpause` goes by name, and can hit the next instance |
| `exporter_dropped` | `exporter.rs`: "a replacement waits until the device is released" | a failed accept or reply drops the child without waiting for it |
| `attacher_overwritten` | `attacher.rs`: "Do not overwrite the report of another node that took over the VM" | only a `Connected` that the cache already shows is spared, and the patch has no precondition; the node whose report was replaced does not repeat it |

Further cases the models have, which the passing runs or their properties leave out:

- README: `virtctl unpause` "ends the hold", a later pause stays. A resume by hand is not recorded,
  and the next pause is ended as if it were the boot (`unpause` in `BootHold`).
- `crd.rs`: resumes "once every claim of it that holds the boot is ready". A claim whose reconcile
  failed is missing from the decision (`claimFails` in `BootHold`).
- A paused VM stays ready when its device is unplugged: `ready` does not look at the device, and the
  session notices only when QEMU talks (`ReportSettles` therefore asks a ready paused VM for a session only).
- README: `status.bootHold` "describes the VM's current instance"; `controller.rs:625`: "Keep the time of
  the last real change." The advice `NotConfigured` has no `vmiUid`, which the merge patch leaves as it
  was: after a hold, an edit of the template and a restart the advice keeps the `vmiUid` of the
  instance that is gone. The record then never equals the desired one (`controller.rs:632`) and is
  written in every pass, with a new `since`. `StatusSettles` is about the state of the record, and asks
  for the right `vmiUid` of `Holding` and `Released` only.
- README: "a lookalike appearing later never renames a device that is attached". It does if the
  agent of the device is silent for `lost_after`: the lookalike takes the name, and if its
  node is the smaller one keeps it. `StaysNamed` is about names that no other node has.

Two cases are in the passing runs, and their properties make an exception of them:

- A `Connected` report that fails is not made again while the session lasts, nor is one that a late
  report of another session replaced: the claim stays `Connecting` although the device is attached.
  `ReportSettles` allows it once a report was `missed`; what the claim does say must still be true.
- A device that moves right after a heartbeat of a node that then falls silent may stop waiting in the
  second in which the heartbeat still counts. It gets another name, and the object of that name
  then makes its portable tiers ambiguous. `NameFollowsDevice` leaves out such a device (`hasty`);
  `DevicesSettle` does not.

`ResumesOnlyBoots` holds in `boothold_records` because one of the two records of a release is intact:
the memory when writes fail, the status when the controller ends with all releases recorded
(`rollout`). A crash between the resume and the first status write loses both.

### Fairness

The controller's loop runs again after `resync` at the latest and Kubernetes restarts it: weak
fairness of `Pass` and `Start`. Watches deliver in the end: weak fairness of each sync. `Tick`: time
passes. Exporter: tokio runs every task that can move (`Step`), processes that were killed die
(`Reap`), discovery scans periodically (`Scan`, `EndRemoved`), and the attacher of the claim that
has the lease retries (`Hello`). Attacher: the loop wakes every 10 s (`Run`), watches deliver (`Sync...`), tasks move
(`Step`: every wait has a timeout), and the controller completes a binding (`WriteBound`). Discovery:
scans recur every `scan_interval` and each write is bounded by 15 s (`Scanning`), and time passes
(`GraceEnds`). No fairness is assumed of users, faults or disturbances.
`MCExporter`, `MCAttacher` and `MCDiscovery` run without the deadlock check: with no device, no VM
or everything published the agents rest.

## 4. Proofs

Checked by TLAPS for any number of controllers, devices, claims, VMs, slots, sessions and
disturbances; the only assumptions are the `ASSUME`s on constants (sizes, `None` is no value of the
sets it is added to) and those that a theorem states itself. Every invariant and every action property
of the passing runs is the statement of a theorem. The inductive invariants of `DiscoverySteps` and
of `LeasesEndByOwnerOrDeath` were model-checked on the instances of the runs before they were proved.

- `LeasesProofs`: `TypeCorrect`, `LeaseRefinement`, `NeverLostWhileHeard`, `LeasesEndByOwnerOrDeath`.
  The exclusive lease rests on the lemma `CurrentCopiesAgree`, which says what a resourceVersion means:
  a copy that counts as current shows the stored lease
  (and the stored phase, as of the time it was read). It is inductive with `TypeOK`, because every
  write of a device outdates all other copies. A patch is applied on a current copy only, and the
  code takes a lease only if its copy shows none, so the stored device was free: each step is a
  step of `ExclusiveLease` or leaves the leases alone. `LostOnlyIfSilent` follows in the same way.
  `LeasesEndByOwnerOrDeath` is about the sweep, which takes a claim that it does not find in its snapshot
  for a dead one. Caches and snapshots of claims follow the store, so that what is seen as gone is gone
  (`Following`); a pass works on claims of its snapshot (`Working`) and releases for the one it is at
  (`Releasing`); and a claim that has a lease is known to the controller (`Informed`). The last one needs
  a single controller, `Alone`: it learned of the claim before it wrote the lease, and a restarted one
  lists before its first pass. Another controller may know of a lease, from its device cache, before its
  claim cache has the claim.
- `SlotsProofs`: `TypeCorrect`, `SlotsAreExclusive`, `PinsAlwaysWin`, `SlotsAreNotWasted`,
  `SlotsStayStable`. `NoSharedSlot` is inductive together with the fact that a slot in `result` is
  in `used` for its VM, and with where the loops have been. `PinsWin` and `NoSlotWasted` need what
  each loop has done for each claim so far (`Answered`), that a used slot was given to a claim
  (`UsedIsGiven`), and that a loop goes from older claims to younger ones (`LeftIsTail`).
  `SlotsAreStable` adds what the second loop did (`KeepInv`): a claim that did not get its previous
  slot back found it used, hence given, hence given by a pin or to an older claim.
- `BootHoldProofs`: `TypeCorrect`, `RecordsStayTrue`, `UserPausesStay`. The types rest on
  `PausedExists` (only an instance can be paused). `RecordsStayTrue` has no condition on the
  disturbances. Its invariant `Records` is about the copies too: no memory, status, cache, snapshot or
  pending write says of an instance that waits in its boot pause, or is not born yet, that it was
  resumed. An instance that is resumed never is in its boot pause again, and a release that hits the
  next instance is recorded for the one it was decided on, which is gone.
  `UserPausesStay` is for the disturbances in `Survivable`. Its invariant
  `ReleaseKnown` says that once the instance has been resumed the release is in the memory of the
  controller, or else in the status of every holding claim, stored, cached and in the snapshot of
  the pass, and that a pass that runs without the memory is not about to overwrite it. A rollout is
  the step from the first to the second; `RecordIsRespected` is why the second lasts.
- `ExporterProofs`: `TypeCorrect`, `SessionsExclude`, `NobodyForgotten`, `ProcessesExclude`. The
  inductive invariant says that a session in `serve` holds the lock, that a running process is of a
  session in `serve`, and `OthersCancelled`. `ProcessesExclude` adds the assumption that accept and
  reply do not fail and concludes `OneUsbredirect`: the way of `exporter_dropped` is the only one.
- `AttacherProofs`: `TypesKept`, `OnePathKept`. That two sessions of a node never both dial is not
  inductive: a session may stop waiting for one that is still in a report. The invariant follows
  the replacements. A session is the running one of its agent, or cancelled, or over (`Owned`);
  what a session waits for is cancelled or over (`Waits`); the sessions of a node that wait form one
  chain from the last one that was started (`Headed`, `Chained`), at the far end of which is the
  session that has a data path or may still dial (`Guarded`), and there is one of those at most
  (`OneActive`). A session that gives up waiting finds its predecessor cancelled, which cannot dial again.

- `IdentityProofs`: `NoNameTwice`. `Assign` is a recursive function. That it is well defined is proved
  from the least device for which it would not be (`AssignTurns`): a turn looks only at the instances
  that keep their names and at those before it. Then each decision is what its turn makes of the earlier
  ones, and of two instances with one name the later one would have found it taken. A port name is
  given without looking, and is nobody else's: the instances of a scan have different ports (`Enumerated`), and a
  remembered port name is of the instance's own port (`OwnPorts`, which the invariant of `Discovery` gives).
- `DiscoverySteps` has the inductive invariant of `Discovery` and the steps that keep it,
  `DiscoveryProofs` the scan and the theorems `TypeCorrect`, `NamesAreOwn`, `NameFollows`,
  `PublishedNameStays` and `ServedIsNotUnplugged`. `OwnNames` follows from `NoNameTwice`
  and from what recovered names are: one for
  each instance. `NameFollowsDevice` has to hold of all that a name may come from: the objects, the
  copies that a scan or a lagging store still has (`SoundObjects`), what agents remember and serve
  (`Remembered`), the writes that are left (`Pending`). A name is a portable name of the device or that of
  its port, and a unique device that is not `hasty` has its best name everywhere (`Named`). It takes no other
  in a scan because its best tier is always usable: no object and no
  neighbour shares its attributes, and if another node holds the name the device waits. It
  need not wait once `lost_after` has passed, and then nobody holds the name: unless the device is `hasty`
  no earlier instance is seen as available any more (`Waited`, which needs that an instance is where its
  node saw it or nowhere, `Placed`). `ServedIsNotUnplugged` follows from `Pending`: a node marks a name
  unplugged only if it does not serve it, and only on an object that still names this node. For
  `StaysNamed`, a scan keeps an uncontested name in both loops (`ScanStays`), and after a
  restart the object is the only one that shows the instance (`RestartStays`).

Only model-checked: the liveness properties (`Converges`, `HoldEnds`, `StatusSettles`, `SlotsSettle`,
`CancelledEnds`, `Settles`, `ReportSettles`, `DevicesSettle`), because the prover does not do fairness.

## 5. Not modelled

- The handshake and its nonce cache (`proto.rs`): encoding, a keyed hash and a sequential cache; a
  connection is accepted or refused in one step.
- The pre-shared key: created once at the start of the controller by one call.
- Parsing: sysfs attributes, uevents, KubeVirt objects, selectors, slugs and hashes of names. The
  models start from the fields the code decides on.
- Owner references: their patch may fail (`Leases`), and a claim may disappear; what makes the
  garbage collector delete it is Kubernetes.
- The phases `Invalid` and `VMNotConfigured`, message texts, events, logs, metrics, command line.
- The composition of all parts in one state space. Where two meet, each module has the other's
  promise: `Attacher` that of `Exporter` (one session, for the holder of the lease) and of `Leases`
  (a lease, then a status), `BootHold` that of `Attacher` (a report), `Exporter` that of
  `Discovery` (a local view).

## 6. Running it

    tlc -config MCLeases_race.cfg MCLeases
    tlapm LeasesProofs.tla

and likewise for the other configurations (`MC<module>_<instance>.cfg`) and proof modules. Operators named
`<definition>_<word>` are mutants: versions of a definition with a plausible bug, each of which one
of the properties catches.
