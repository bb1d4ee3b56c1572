------------------------------ MODULE BootHold ------------------------------
(***************************************************************************)
(* Holding the boot of one VM until its devices are ready                  *)
(* (src/controller.rs: decide_boot_hold, reconcile_boot_hold and the parts *)
(* of reconcile_all and reconcile_claim that feed them).                   *)
(*                                                                         *)
(* KubeVirt starts an instance of the VM paused; the controller resumes it *)
(* once every claim with spec.holdBoot reports its device as ready, or has *)
(* waited long enough.  It remembers the release of an instance in memory  *)
(* (Ctx::released) and in the status of the claims.  Users pause, resume   *)
(* and restart the VM, agents report, and the controller works on caches   *)
(* that lag, crashes, and loses calls.                                     *)
(***************************************************************************)
EXTENDS Naturals, FiniteSets

CONSTANTS
    NumClaims,      \* claims of the VM, in order of creation
    ClaimSpecs,     \* what users may write into a claim (see ClaimSpec)
    Templates,      \* what users may do with the VirtualMachine
    MaxInstances,   \* bound on VirtualMachineInstances, one after the other
    MaxWait,        \* bound on the time a pause lasts, in ticks
    Disturbances,   \* the kinds of disturbance that may happen
    MaxChanges      \* bound on disturbances

Claims == 1..NumClaims
None == 0

\* The spec of a claim: holdBoot is set, its timeoutSeconds in ticks (0 waits
\* forever), and whether reconcile_claim finds it invalid.
ClaimSpec == [hold : BOOLEAN, timeout : 0..MaxWait, invalid : BOOLEAN]

ASSUME ConstantsAssumption ==
    /\ NumClaims \in Nat \ {0}
    /\ MaxInstances \in Nat \ {0}
    /\ MaxWait \in Nat
    /\ MaxChanges \in Nat
    /\ ClaimSpecs \subseteq ClaimSpec
    /\ Templates \subseteq {"none", "runs", "paused"}

Instances == 1..MaxInstances

\* uid None: there is no VMI.  age: ticks since paused_since.  boot tells the
\* pause KubeVirt started the instance with from a later one; no code sees it.
Vmi == [uid : Instances \cup {None}, startPaused : BOOLEAN, paused : BOOLEAN,
        age : 0..MaxWait, boot : BOOLEAN, deleting : BOOLEAN]

BootStates == {"absent", "Holding", "Released", "NotConfigured"}
BootStatus == [state : BootStates, uid : Instances \cup {None}]

\* report: the instance that the device was reported ready for by the last
\* status.connection, None if it was not.  boot: status.bootHold.
Claim == [live : BOOLEAN, spec : ClaimSpec, report : Instances \cup {None}, boot : BootStatus]

VARIABLES
    vmi,        \* API server: the instance of the VM
    tmpl,       \* API server: no VirtualMachine, or one whose template starts
                \* instances running or paused
    claim,      \* API server: the claims
    cVmi, cTmpl, cClaim,    \* the caches of the controller
    pc,         \* where the controller is in its pass
    todo,       \* claims the running loop has still to visit
    holds,      \* the claims of `holds`
    plan,       \* what reconcile_boot_hold writes into the claims
    sVmi, sTmpl, sClaim,    \* the snapshot of the pass
    released,   \* Ctx::released
    born,       \* instances started so far
    changes     \* disturbances so far

server == <<vmi, tmpl, claim>>
caches == <<cVmi, cTmpl, cClaim>>
snapshot == <<sVmi, sTmpl, sClaim>>
position == <<pc, todo, holds, plan>>
vars == <<server, caches, snapshot, position, released, born, changes>>

-----------------------------------------------------------------------------
NoVmi == [uid |-> None, startPaused |-> FALSE, paused |-> FALSE, age |-> 0,
          boot |-> FALSE, deleting |-> FALSE]
Absent == [state |-> "absent", uid |-> None]
NoSpec == [hold |-> FALSE, timeout |-> 0, invalid |-> FALSE]
NoClaim == [live |-> FALSE, spec |-> NoSpec, report |-> None, boot |-> Absent]
NewClaim(s) == [live |-> TRUE, spec |-> s, report |-> None, boot |-> Absent]
NoClaims == [c \in Claims |-> NoClaim]

Started(u, p) == [uid |-> u, startPaused |-> p, paused |-> p, age |-> 0,
                  boot |-> p, deleting |-> FALSE]
Resumed(v) == [v EXCEPT !.paused = FALSE, !.age = 0, !.boot = FALSE]

\* A merge patch of status.bootHold: null removes it, and a vmiUid of None is
\* not sent, so that the stored one stays.
WithBoot(c, b) ==
    [claim EXCEPT ![c].boot =
        IF b = Absent \/ b.uid # None THEN b ELSE [b EXCEPT !.uid = claim[c].boot.uid]]

Init ==
    /\ vmi = NoVmi
    /\ tmpl \in Templates
    /\ claim \in [Claims -> {NewClaim(s) : s \in ClaimSpecs}]
    /\ cVmi = NoVmi /\ cTmpl = "none" /\ cClaim = NoClaims
    /\ pc = "down" /\ todo = {} /\ holds = {} /\ plan = Absent
    /\ sVmi = NoVmi /\ sTmpl = "none" /\ sClaim = NoClaims
    /\ released = {}
    /\ born = 0
    /\ changes = 0

-----------------------------------------------------------------------------
(* KubeVirt, users, agents and time.                                       *)

Disturb(kind) ==
    /\ kind \in Disturbances
    /\ changes < MaxChanges
    /\ changes' = changes + 1

Others == <<caches, snapshot, position, released>>

\* KubeVirt starts an instance the way the template says; a user may start
\* one without a VirtualMachine either way.
StartVmi ==
    /\ vmi.uid = None
    /\ born < MaxInstances
    /\ born' = born + 1
    /\ \E p \in BOOLEAN :
         /\ tmpl # "none" => p = (tmpl = "paused")
         /\ vmi' = Started(born + 1, p)
    /\ UNCHANGED <<tmpl, claim, Others, changes>>

\* The VM is stopped or restarted: its instance is deleted,
StopVmi ==
    /\ vmi.uid # None /\ ~vmi.deleting
    /\ Disturb("restart")
    /\ vmi' = [vmi EXCEPT !.deleting = TRUE]
    /\ UNCHANGED <<tmpl, claim, Others, born>>

\* and gone once its pod has stopped.
VmiGone ==
    /\ vmi.deleting
    /\ vmi' = NoVmi
    /\ UNCHANGED <<tmpl, claim, Others, born, changes>>

\* virtctl pause and virtctl unpause.
UserPauses ==
    /\ vmi.uid # None /\ ~vmi.paused
    /\ Disturb("pause")
    /\ vmi' = [vmi EXCEPT !.paused = TRUE]
    /\ UNCHANGED <<tmpl, claim, Others, born>>

UserResumes ==
    /\ vmi.paused
    /\ Disturb("unpause")
    /\ vmi' = Resumed(vmi)
    /\ UNCHANGED <<tmpl, claim, Others, born>>

EditTemplate ==
    /\ Disturb("template")
    /\ \E t \in Templates \ {tmpl} : tmpl' = t
    /\ UNCHANGED <<vmi, claim, Others, born>>

EditClaim(c) ==
    /\ claim[c].live
    /\ Disturb("editClaim")
    /\ \E s \in ClaimSpecs \ {claim[c].spec} : claim' = [claim EXCEPT ![c].spec = s]
    /\ UNCHANGED <<vmi, tmpl, Others, born>>

DeleteClaim(c) ==
    /\ claim[c].live
    /\ Disturb("deleteClaim")
    /\ claim' = [claim EXCEPT ![c] = NoClaim]
    /\ UNCHANGED <<vmi, tmpl, Others, born>>

\* The agent next to the VM has spliced the device onto the slot and reports
\* it as awaiting the resume, or as connected.
ReportReady(c) ==
    /\ claim[c].live /\ vmi.uid # None /\ ~vmi.deleting
    /\ claim[c].report # vmi.uid
    /\ Disturb("report")
    /\ claim' = [claim EXCEPT ![c].report = vmi.uid]
    /\ UNCHANGED <<vmi, tmpl, Others, born>>

\* The session ends and its agent says so.
ReportEnds(c) ==
    /\ claim[c].report # None
    /\ Disturb("report")
    /\ claim' = [claim EXCEPT ![c].report = None]
    /\ UNCHANGED <<vmi, tmpl, Others, born>>

Older(v) == IF v.paused /\ v.age < MaxWait THEN [v EXCEPT !.age = @ + 1] ELSE v

\* Time passes for a paused VM and for what the cache knows of it; a pass
\* keeps the `now` it started with.
Tick ==
    /\ Older(vmi) # vmi \/ Older(cVmi) # cVmi
    /\ vmi' = Older(vmi)
    /\ cVmi' = Older(cVmi)
    /\ UNCHANGED <<tmpl, claim, cTmpl, cClaim, snapshot, position, released, born, changes>>

Environment ==
    \/ StartVmi \/ StopVmi \/ VmiGone
    \/ UserPauses \/ UserResumes \/ EditTemplate
    \/ \E c \in Claims : EditClaim(c) \/ DeleteClaim(c) \/ ReportReady(c) \/ ReportEnds(c)
    \/ Tick

-----------------------------------------------------------------------------
(* Caches and the life of the controller process.                          *)

SyncVmi ==
    /\ pc # "down" /\ cVmi # vmi
    /\ cVmi' = vmi
    /\ UNCHANGED <<server, cTmpl, cClaim, snapshot, position, released, born, changes>>

SyncTmpl ==
    /\ pc # "down" /\ cTmpl # tmpl
    /\ cTmpl' = tmpl
    /\ UNCHANGED <<server, cVmi, cClaim, snapshot, position, released, born, changes>>

SyncClaims ==
    /\ pc # "down" /\ cClaim # claim
    /\ cClaim' = claim
    /\ UNCHANGED <<server, cVmi, cTmpl, snapshot, position, released, born, changes>>

\* The holding claims show every release that the memory holds.
Recorded ==
    \A u \in released, c \in Claims :
        claim[c].live /\ claim[c].spec.hold => claim[c].boot = [state |-> "Released", uid |-> u]

\* The process ends between two passes with all its releases recorded
\* ("rollout"), or at any other moment ("crash"); what it remembers is gone.
Crash ==
    /\ pc # "down"
    /\ Disturb(IF pc = "idle" /\ Recorded THEN "rollout" ELSE "crash")
    /\ pc' = "down" /\ todo' = {} /\ holds' = {} /\ plan' = Absent
    /\ cVmi' = NoVmi /\ cTmpl' = "none" /\ cClaim' = NoClaims
    /\ sVmi' = NoVmi /\ sTmpl' = "none" /\ sClaim' = NoClaims
    /\ released' = {}
    /\ UNCHANGED <<server, born>>

Start ==
    /\ pc = "down"
    /\ pc' = "idle"
    /\ cVmi' = vmi /\ cTmpl' = tmpl /\ cClaim' = claim
    /\ UNCHANGED <<server, snapshot, todo, holds, plan, released, born, changes>>

-----------------------------------------------------------------------------
(* reconcile_all, as far as boots are concerned.                           *)

First(set, x) == x \in set /\ \A y \in set : x <= y

\* The pass is over and its locals are gone.
Return ==
    /\ pc' = "idle" /\ todo' = {} /\ holds' = {} /\ plan' = Absent
    /\ sVmi' = NoVmi /\ sTmpl' = "none" /\ sClaim' = NoClaims

Live(claims) == {c \in Claims : claims[c].live}

StartPass ==
    /\ pc = "idle"
    /\ pc' = IF Live(cClaim) = {} THEN "hold" ELSE "claims"
    /\ todo' = Live(cClaim)
    /\ holds' = {}
    /\ sVmi' = cVmi /\ sTmpl' = cTmpl /\ sClaim' = cClaim
    /\ UNCHANGED <<server, caches, plan, released, born, changes>>

NextClaim(c) ==
    /\ todo' = todo \ {c}
    /\ pc' = IF todo = {c} THEN "hold" ELSE "claims"

\* A claim that holds the boot is noted; one that does not must not keep a
\* stale report.
ReconcileClaim ==
    \E c \in Claims :
        LET s == sClaim[c] IN
        /\ pc = "claims"
        /\ First(todo, c)
        /\ holds' = IF s.spec.hold THEN holds \cup {c} ELSE holds
        /\ claim' = IF ~s.spec.hold /\ s.boot # Absent /\ claim[c].live
                      THEN WithBoot(c, Absent) ELSE claim
        /\ NextClaim(c)
        /\ UNCHANGED <<vmi, tmpl, caches, snapshot, plan, released, born, changes>>

\* An error leaves reconcile_claim early, and reconcile_all goes on without
\* the claim.
ReconcileClaimFails ==
    \E c \in Claims :
        /\ pc = "claims"
        /\ First(todo, c)
        /\ Disturb("claimFails")
        /\ NextClaim(c)
        /\ UNCHANGED <<server, caches, snapshot, holds, plan, released, born>>

-----------------------------------------------------------------------------
(* decide_boot_hold.                                                       *)

Holding == {c \in holds : ~sClaim[c].spec.invalid}

\* reconcile_claim's `ready`: the report names the claim's device and slot and
\* the node of the instance.  Reports do not name the instance itself.
Ready(c) == sClaim[c].report # None /\ sVmi.uid # None

StartsPaused == sVmi.startPaused \/ sTmpl = "paused"

\* released.retain keeps only instances that still exist.
Remembered == released \cap {sVmi.uid}

\* Mutant: the record in the status of the claims is not asked.
AlreadyReleased_memoryOnly == sVmi.uid # None /\ sVmi.uid \in Remembered

AlreadyReleased ==
    /\ sVmi.uid # None
    /\ \/ sVmi.uid \in Remembered
       \/ \E c \in holds : sClaim[c].boot = [state |-> "Released", uid |-> sVmi.uid]

\* Mutant: a timeout counts in the second it expires only.
GivesUp_exact == \A c \in Holding : sClaim[c].spec.timeout = sVmi.age

\* Every valid claim's timeout has passed; 0 waits forever.
GivesUp == \A c \in Holding : sClaim[c].spec.timeout \in 1..sVmi.age

Held == sVmi.paused /\ ~sVmi.deleting

\* Mutant: waiting never ends.
Decision_patient ==
    IF Holding = {} \/ (sTmpl = "none" /\ sVmi.uid = None) THEN "Nothing"
    ELSE IF ~StartsPaused THEN "NotConfigured"
    ELSE IF ~Held \/ AlreadyReleased THEN "Nothing"
    ELSE IF \A c \in Holding : Ready(c) THEN "Release"
    ELSE "Hold"

Decision ==
    IF Holding = {} \/ (sTmpl = "none" /\ sVmi.uid = None) THEN "Nothing"
    ELSE IF ~StartsPaused THEN "NotConfigured"
    ELSE IF ~Held \/ AlreadyReleased THEN "Nothing"
    ELSE IF (\A c \in Holding : Ready(c)) \/ GivesUp THEN "Release"
    ELSE "Hold"

-----------------------------------------------------------------------------
(* reconcile_boot_hold.                                                    *)

\* "clear" drops the reports that describe the VM no longer.
Clear == [state |-> "clear", uid |-> None]

WriteBack(p) ==
    /\ plan' = p
    /\ todo' = holds
    /\ pc' = "write"
    /\ UNCHANGED <<holds, snapshot>>

\* What is written when nothing is resumed.
Report(decision) ==
    CASE decision = "Hold" -> [state |-> "Holding", uid |-> sVmi.uid]
      [] decision = "NotConfigured" -> [state |-> "NotConfigured", uid |-> None]
      [] OTHER -> IF sVmi.uid # None /\ sVmi.uid \in Remembered
                    THEN [state |-> "Released", uid |-> sVmi.uid]
                    ELSE Clear

NoHolds ==
    /\ pc = "hold"
    /\ holds = {}
    /\ released' = Remembered
    /\ Return
    /\ UNCHANGED <<server, caches, born, changes>>

KeepHolding ==
    /\ pc = "hold"
    /\ holds # {}
    /\ Decision # "Release"
    /\ released' = Remembered
    /\ WriteBack(Report(Decision))
    /\ UNCHANGED <<server, caches, born, changes>>

\* The subresource resumes whatever instance has the name, if it is paused.
CanUnpause == vmi.paused

Release ==
    /\ pc = "hold"
    /\ holds # {}
    /\ Decision = "Release"
    /\ CanUnpause
    /\ vmi' = Resumed(vmi)
    /\ released' = Remembered \cup {sVmi.uid}
    /\ WriteBack([state |-> "Released", uid |-> sVmi.uid])
    /\ UNCHANGED <<tmpl, claim, caches, born, changes>>

\* Mutant: the release is remembered before unpause is called.
ReleaseFails_recorded ==
    /\ pc = "hold"
    /\ holds # {}
    /\ Decision = "Release"
    /\ \/ ~CanUnpause /\ UNCHANGED <<vmi, changes>>
       \/ Disturb("unpauseFails") /\ UNCHANGED vmi
       \/ CanUnpause /\ Disturb("replyLost") /\ vmi' = Resumed(vmi)
    /\ released' = Remembered \cup {sVmi.uid}
    /\ Return
    /\ UNCHANGED <<tmpl, claim, caches, born>>

\* unpause returns an error: there was nothing to resume, the call did not get
\* through, or it did and the answer is lost.
ReleaseFails ==
    /\ pc = "hold"
    /\ holds # {}
    /\ Decision = "Release"
    /\ \/ ~CanUnpause /\ UNCHANGED <<vmi, changes>>
       \/ Disturb("unpauseFails") /\ UNCHANGED vmi
       \/ CanUnpause /\ Disturb("replyLost") /\ vmi' = Resumed(vmi)
    /\ released' = Remembered
    /\ Return
    /\ UNCHANGED <<tmpl, claim, caches, born>>

\* Mutant: only advice about the template is stale.
Stale_advice(b) == b.state = "NotConfigured"

\* boot_hold_is_stale
Stale(b) == b # Absent /\ ~(b.state = "Released" /\ sVmi.uid # None /\ b.uid = sVmi.uid)

\* What the claim is to show, by the pass's copy of it.
Desired(c) ==
    IF plan # Clear THEN plan
    ELSE IF Stale(sClaim[c].boot) THEN Absent ELSE sClaim[c].boot

Written(c) ==
    IF todo # {c}
      THEN todo' = todo \ {c} /\ UNCHANGED <<pc, holds, plan, snapshot>>
      ELSE Return

\* Mutant: clearing is written to the claims as if it were a report.
WriteClaim_literal ==
    \E c \in Claims :
        /\ pc = "write"
        /\ First(todo, c)
        /\ claim' = IF claim[c].live THEN WithBoot(c, plan) ELSE claim
        /\ Written(c)
        /\ UNCHANGED <<vmi, tmpl, caches, released, born, changes>>

\* A report whose message alone changed is written again, too; clearing writes
\* stale ones only.
WriteClaim ==
    \E c \in Claims :
        /\ pc = "write"
        /\ First(todo, c)
        /\ \/ /\ plan # Clear \/ Stale(sClaim[c].boot)
              /\ claim' = IF claim[c].live THEN WithBoot(c, Desired(c)) ELSE claim
           \/ Desired(c) = sClaim[c].boot /\ UNCHANGED claim
        /\ Written(c)
        /\ UNCHANGED <<vmi, tmpl, caches, released, born, changes>>

WriteClaimFails ==
    \E c \in Claims :
        /\ pc = "write"
        /\ First(todo, c)
        /\ Disturb("writeFails")
        /\ Written(c)
        /\ UNCHANGED <<server, caches, released, born>>

-----------------------------------------------------------------------------
Pass ==
    \/ StartPass
    \/ ReconcileClaim
    \/ NoHolds \/ KeepHolding \/ Release \/ ReleaseFails
    \/ WriteClaim

Next ==
    \/ Environment
    \/ SyncVmi \/ SyncTmpl \/ SyncClaims
    \/ Start \/ Crash
    \/ Pass
    \/ ReconcileClaimFails \/ WriteClaimFails

Spec == Init /\ [][Next]_vars

\* The loop runs again after at most `resync`, watches deliver, Kubernetes
\* restarts the controller, and time passes.
FairSpec ==
    /\ Spec
    /\ WF_vars(Start) /\ WF_vars(Pass)
    /\ WF_vars(SyncVmi) /\ WF_vars(SyncTmpl) /\ WF_vars(SyncClaims)
    /\ WF_vars(Tick)

-----------------------------------------------------------------------------
(* Properties.                                                             *)

\* Stored objects, caches and the locals of the pass keep their types.
TypeOK ==
    /\ vmi \in Vmi /\ cVmi \in Vmi /\ sVmi \in Vmi
    /\ {tmpl, cTmpl, sTmpl} \subseteq {"none", "runs", "paused"}
    /\ {claim, cClaim, sClaim} \subseteq [Claims -> Claim]
    /\ pc \in {"down", "idle", "claims", "hold", "write"}
    /\ todo \subseteq Claims /\ holds \subseteq Claims
    /\ plan \in BootStatus \cup {Clear}
    /\ released \subseteq Instances
    /\ born \in 0..MaxInstances
    /\ changes \in 0..MaxChanges

\* The step in which the controller resumes the VM.
Resumes == pc = "hold" /\ vmi.paused /\ ~vmi'.paused

\* A pause that began after the boot is never ended by the controller
\* (Ctx::released: "a VM a user pauses later is never resumed behind their
\* back").
ResumesOnlyBoots == [][Resumes => vmi.boot]_vars

\* The controller resumes the instance it decided about: every start of the VM
\* is held, a restart included.
ResumesWhatItDecidedOn == [][Resumes => vmi.uid = sVmi.uid]_vars

\* A record of a release is true, in the memory of the controller and in the
\* status of the claims: nothing says of an instance that still waits in the
\* pause it was started with that it was resumed.  decide_boot_hold would leave
\* such an instance paused for ever, whatever its claims' timeouts.
RecordsAreTrue ==
    vmi.boot => /\ vmi.uid \notin released
                /\ \A c \in Claims : claim[c].boot # [state |-> "Released", uid |-> vmi.uid]

BootHeld == vmi.uid # None /\ vmi.boot /\ ~vmi.deleting
Holders == {c \in Claims : claim[c].live /\ claim[c].spec.hold}
ValidHolders == {c \in Holders : ~claim[c].spec.invalid}

\* A hold ends: once nothing changes any more, a VM is still held only for a
\* claim that waits forever for a device that is not there.
HoldEnds ==
    <>[](BootHeld /\ ValidHolders # {} =>
            /\ \E c \in ValidHolders : claim[c].spec.timeout = 0
            /\ \E c \in ValidHolders : claim[c].report = None)

\* Claims that are all invalid do not leave the VM paused (README: "a typo in
\* a selector cannot leave a VM paused").
InvalidNeverHolds == <>[](BootHeld /\ Holders # {} => ValidHolders # {})

AccurateStatus(c) ==
    LET b == claim[c].boot IN
    /\ b.state \in {"Holding", "Released"} => b.uid = vmi.uid /\ vmi.uid # None
    /\ b.state = "Holding" => vmi.paused
    /\ (BootHeld /\ c \in Holders /\ ValidHolders # {}) => b.state = "Holding"
    /\ b.state = "NotConfigured" => ~vmi.startPaused /\ tmpl # "paused"
    /\ c \notin Holders => b = Absent

\* Once nothing changes any more, status.bootHold says Holding while the boot of
\* the current instance is held and only of that instance while it is paused,
\* keeps the record of a release of this instance only, advises about the
\* template only as long as neither it nor the instance starts paused, and is
\* absent from claims that hold nothing.  The advice is about no instance; its
\* vmiUid may be that of an earlier report (WithBoot).
StatusSettles == <>[](\A c \in Claims : claim[c].live => AccurateStatus(c))
=============================================================================
