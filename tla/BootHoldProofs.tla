--------------------------- MODULE BootHoldProofs ---------------------------
(***************************************************************************)
(* When the controller resumes a VM, for any number of claims, whatever    *)
(* they ask for, and any number of disturbances.                           *)
(***************************************************************************)
EXTENDS BootHold, TLAPS

-----------------------------------------------------------------------------
(* Types.                                                                  *)

\* The values that the actions assign have their types.
LEMMA Values ==
    /\ NoVmi \in Vmi
    /\ Absent \in BootStatus
    /\ NoClaim \in Claim
    /\ NoClaims \in [Claims -> Claim]
    /\ \A s \in ClaimSpecs : NewClaim(s) \in Claim
    /\ \A u \in Instances, p \in BOOLEAN : Started(u, p) \in Vmi
    /\ \A v \in Vmi : Resumed(v) \in Vmi /\ Older(v) \in Vmi
  <1>1. 0 \in 0..MaxWait
    BY ConstantsAssumption
  <1>2. NoVmi \in Vmi /\ \A u \in Instances, p \in BOOLEAN : Started(u, p) \in Vmi
    BY <1>1 DEF NoVmi, Vmi, Started
  <1>3. Absent \in BootStatus
    BY DEF Absent, BootStatus, BootStates
  <1>4. NoClaim \in Claim
    BY <1>1, <1>3 DEF NoClaim, Claim, NoSpec, ClaimSpec
  <1>5. \A s \in ClaimSpecs : NewClaim(s) \in Claim
    BY <1>3, ConstantsAssumption DEF NewClaim, Claim
  <1>6. \A v \in Vmi : Resumed(v) \in Vmi
    BY <1>1, Zenon DEF Resumed, Vmi
  <1>7. ASSUME NEW v \in Vmi PROVE Older(v) \in Vmi
    <2>1. CASE v.paused /\ v.age < MaxWait
      <3>1. v.age + 1 \in 0..MaxWait
        BY <2>1, ConstantsAssumption DEF Vmi
      <3> QED
        BY <2>1, <3>1 DEF Older, Vmi
    <2> QED
      BY <2>1 DEF Older
  <1> QED
    BY <1>2, <1>3, <1>4, <1>5, <1>6, <1>7 DEF NoClaims

\* A status that is written has its type.
LEMMA WithBootType ==
    ASSUME TypeOK, NEW c \in Claims, NEW b \in BootStatus
    PROVE  WithBoot(c, b) \in [Claims -> Claim]
  <1>1. claim \in [Claims -> Claim]
    BY DEF TypeOK
  <1>2. [b EXCEPT !.uid = claim[c].boot.uid] \in BootStatus
    BY <1>1 DEF Claim, BootStatus
  <1>3. \A x \in BootStatus : [claim EXCEPT ![c].boot = x] \in [Claims -> Claim]
    BY <1>1 DEF Claim
  <1> QED
    BY <1>2, <1>3, Zenon DEF WithBoot

\* Only an instance can be paused, so that a release is of an instance.
PausedExists == \A v \in {vmi, cVmi, sVmi} : v.paused => v.uid # None

\* No step pauses what is not there.
LEMMA StepPaused == TypeOK /\ PausedExists /\ [Next]_vars => PausedExists'
  <1> SUFFICES ASSUME TypeOK, PausedExists, [Next]_vars PROVE PausedExists'
    OBVIOUS
  <1> DEFINE Fine(v) == v.paused => v.uid # None
  <1>1. Fine(vmi) /\ Fine(cVmi) /\ Fine(sVmi) /\ Fine(NoVmi)
    BY DEF PausedExists, NoVmi
  <1>2. SUFFICES Fine(vmi') /\ Fine(cVmi') /\ Fine(sVmi')
    BY DEF PausedExists
  <1>3. vmi \in Vmi /\ cVmi \in Vmi
    BY DEF TypeOK
  <1>4. \A v \in Vmi : Fine(v) => Fine(Older(v)) /\ Fine(Resumed(v))
    BY DEF Older, Resumed, Vmi
  <1>5. Return => sVmi' = NoVmi
    BY DEF Return
  <1>6. CASE StartVmi \/ StopVmi \/ VmiGone \/ UserPauses \/ UserResumes
    <2>1. CASE StartVmi
      <3>1. born + 1 # None
        BY ConstantsAssumption DEF TypeOK, None
      <3>2. PICK p \in BOOLEAN : vmi' = Started(born + 1, p)
        BY <2>1 DEF StartVmi
      <3>3. Fine(vmi')
        BY <3>1, <3>2 DEF Started
      <3> QED
        BY <1>1, <2>1, <3>3 DEF StartVmi, Others, caches, snapshot
    <2>2. CASE StopVmi
      BY <1>1, <1>3, <2>2 DEF StopVmi, Others, caches, snapshot, Vmi
    <2>3. CASE VmiGone
      BY <1>1, <2>3 DEF VmiGone, Others, caches, snapshot
    <2>4. CASE UserPauses
      BY <1>1, <1>3, <2>4 DEF UserPauses, Others, caches, snapshot, Vmi
    <2>5. CASE UserResumes
      BY <1>1, <1>3, <1>4, <2>5 DEF UserResumes, Others, caches, snapshot
    <2> QED
      BY <1>6, <2>1, <2>2, <2>3, <2>4, <2>5
  <1>7. CASE EditTemplate \/ \E c \in Claims : \/ EditClaim(c) \/ DeleteClaim(c)
                                              \/ ReportReady(c) \/ ReportEnds(c)
    BY <1>1, <1>7 DEF EditTemplate, EditClaim, DeleteClaim, ReportReady, ReportEnds, Others,
                      caches, snapshot
  <1>8. CASE Tick
    BY <1>1, <1>3, <1>4, <1>8 DEF Tick, snapshot
  <1>9. CASE SyncVmi \/ SyncTmpl \/ SyncClaims \/ Start \/ Crash
    BY <1>1, <1>9 DEF SyncVmi, SyncTmpl, SyncClaims, Start, Crash, server, snapshot
  <1>10. CASE StartPass \/ ReconcileClaim \/ ReconcileClaimFails
    BY <1>1, <1>10 DEF StartPass, ReconcileClaim, ReconcileClaimFails, server, caches, snapshot
  <1>11. CASE NoHolds \/ KeepHolding \/ Release \/ ReleaseFails
    BY <1>1, <1>3, <1>4, <1>5, <1>11
    DEF NoHolds, KeepHolding, Release, ReleaseFails, WriteBack, server, caches, snapshot
  <1>12. CASE WriteClaim \/ WriteClaimFails
    BY <1>1, <1>5, <1>12 DEF WriteClaim, WriteClaimFails, Written, server, caches, snapshot
  <1>13. CASE UNCHANGED vars
    BY <1>1, <1>13, Zenon DEF vars, server, caches, snapshot
  <1> QED
    BY <1>6, <1>7, <1>8, <1>9, <1>10, <1>11, <1>12, <1>13 DEF Next, Environment, Pass

\* Every step keeps the types.
LEMMA StepTypes == TypeOK /\ PausedExists /\ [Next]_vars => TypeOK'
  <1> SUFFICES ASSUME TypeOK, PausedExists, [Next]_vars PROVE TypeOK'
    OBVIOUS
  <1> DEFINE Templ == {"none", "runs", "paused"}
             Pcs == {"down", "idle", "claims", "hold", "write"}
             Server == vmi \in Vmi /\ tmpl \in Templ /\ claim \in [Claims -> Claim]
             Caches == cVmi \in Vmi /\ cTmpl \in Templ /\ cClaim \in [Claims -> Claim]
             Snapshot == sVmi \in Vmi /\ sTmpl \in Templ /\ sClaim \in [Claims -> Claim]
             Position == /\ pc \in Pcs /\ todo \subseteq Claims /\ holds \subseteq Claims
                         /\ plan \in BootStatus \cup {Clear}
             Counters == born \in 0..MaxInstances /\ changes \in 0..MaxChanges
  <1>1. Server /\ Caches /\ Snapshot /\ Position /\ Counters /\ released \subseteq Instances
    BY DEF TypeOK
  <1>2. SUFFICES (/\ Server /\ Caches /\ Snapshot /\ Position /\ Counters
                  /\ released \subseteq Instances)'
    BY DEF TypeOK
  <1>3. ASSUME NEW k, Disturb(k) PROVE changes' \in 0..MaxChanges
    BY <1>1, <1>3, ConstantsAssumption DEF Disturb
  <1>4. (UNCHANGED caches => Caches') /\ (UNCHANGED snapshot => Snapshot')
        /\ (UNCHANGED position => Position') /\ (UNCHANGED server => Server')
    BY <1>1 DEF caches, snapshot, position, server, Clear
  <1>5. Return => Position' /\ Snapshot'
    BY Values DEF Return, Clear
  <1>6. CASE StartVmi
    <2>1. born + 1 \in Instances /\ born' \in 0..MaxInstances
      BY <1>1, <1>6, ConstantsAssumption DEF StartVmi, Instances
    <2>2. vmi' \in Vmi
      BY <1>6, <2>1, Values DEF StartVmi
    <2> QED
      BY <1>1, <1>4, <1>6, <2>1, <2>2 DEF StartVmi, Others
  <1>7. CASE StopVmi \/ VmiGone \/ UserPauses \/ UserResumes
    <2>0. /\ [vmi EXCEPT !.deleting = TRUE] \in Vmi
          /\ [vmi EXCEPT !.paused = TRUE] \in Vmi
      BY <1>1, Zenon DEF Vmi
    <2>1. vmi' \in Vmi
      BY <1>1, <1>7, <2>0, Values, Zenon DEF StopVmi, VmiGone, UserPauses, UserResumes
    <2> QED
      BY <1>1, <1>3, <1>4, <1>7, <2>1 DEF StopVmi, VmiGone, UserPauses, UserResumes, Others
  <1>8. CASE EditTemplate
    BY <1>1, <1>3, <1>4, <1>8, ConstantsAssumption DEF EditTemplate, Others
  <1>9. CASE \E c \in Claims : EditClaim(c) \/ DeleteClaim(c) \/ ReportReady(c) \/ ReportEnds(c)
    <2> PICK c \in Claims : EditClaim(c) \/ DeleteClaim(c) \/ ReportReady(c) \/ ReportEnds(c)
      BY <1>9
    <2>1. CASE EditClaim(c)
      <3>1. PICK s \in ClaimSpecs : claim' = [claim EXCEPT ![c].spec = s]
        BY <2>1, Zenon DEF EditClaim
      <3>2. s \in ClaimSpec
        BY ConstantsAssumption
      <3>3. claim' \in [Claims -> Claim]
        <4>1. [claim[c] EXCEPT !.spec = s] \in Claim
          BY <1>1, <3>2, Zenon DEF Claim
        <4> QED
          BY <1>1, <3>1, <4>1
      <3> QED
        BY <1>1, <1>3, <1>4, <2>1, <3>3 DEF EditClaim, Others
    <2>2. CASE DeleteClaim(c)
      BY <1>1, <1>3, <1>4, <2>2, Values DEF DeleteClaim, Others
    <2>3. CASE ReportReady(c)
      <3>1. vmi.uid \in Instances \cup {None}
        BY <1>1 DEF Vmi
      <3>2. claim' = [claim EXCEPT ![c].report = vmi.uid]
        BY <2>3 DEF ReportReady
      <3>3. claim' \in [Claims -> Claim]
        BY <1>1, <3>1, <3>2 DEF Claim
      <3> QED
        BY <1>1, <1>3, <1>4, <2>3, <3>3 DEF ReportReady, Others
    <2>4. CASE ReportEnds(c)
      <3>1. claim' = [claim EXCEPT ![c].report = None]
        BY <2>4 DEF ReportEnds
      <3>2. claim' \in [Claims -> Claim]
        BY <1>1, <3>1, Zenon DEF Claim
      <3> QED
        BY <1>1, <1>3, <1>4, <2>4, <3>2 DEF ReportEnds, Others
    <2> QED
      BY <2>1, <2>2, <2>3, <2>4
  <1>10. CASE Tick
    BY <1>1, <1>4, <1>10, Values DEF Tick
  <1>11. CASE SyncVmi \/ SyncTmpl \/ SyncClaims
    BY <1>1, <1>4, <1>11 DEF SyncVmi, SyncTmpl, SyncClaims
  <1>12. CASE Start
    BY <1>1, <1>4, <1>12 DEF Start
  <1>13. CASE Crash
    BY <1>1, <1>3, <1>4, <1>13, Values DEF Crash
  <1>14. CASE StartPass
    BY <1>1, <1>4, <1>14 DEF StartPass, Live
  <1>15. CASE ReconcileClaim
    <2> PICK c \in Claims : ReconcileClaim!(c)
      BY <1>15, Zenon DEF ReconcileClaim
    <2>1. claim' \in [Claims -> Claim]
      BY <1>1, Values, WithBootType
    <2> QED
      BY <1>1, <1>4, <2>1 DEF NextClaim
  <1>16. CASE ReconcileClaimFails
    BY <1>1, <1>3, <1>4, <1>16 DEF ReconcileClaimFails, NextClaim
  <1>17. Remembered \subseteq Instances
    BY <1>1 DEF Remembered
  <1>18. sVmi.uid \in Instances \cup {None}
    BY <1>1 DEF Vmi
  <1>19. CASE NoHolds
    BY <1>1, <1>4, <1>5, <1>17, <1>19 DEF NoHolds
  <1>20. ASSUME NEW p \in BootStatus \cup {Clear}, WriteBack(p) PROVE Position' /\ Snapshot'
    BY <1>1, <1>4, <1>20 DEF WriteBack, Clear
  <1>21. CASE KeepHolding
    <2>1. Report(Decision) \in BootStatus \cup {Clear}
      BY <1>18 DEF Report, BootStatus, BootStates
    <2> QED
      BY <1>1, <1>4, <1>17, <1>20, <1>21, <2>1 DEF KeepHolding
  <1>22. CASE Release
    <2>0. sVmi.uid \in Instances
      BY <1>18, <1>22 DEF Release, Decision, Held, PausedExists
    <2>1. [state |-> "Released", uid |-> sVmi.uid] \in BootStatus
      BY <2>0 DEF BootStatus, BootStates
    <2> QED
      BY <1>1, <1>4, <1>17, <1>20, <1>22, <2>0, <2>1, Values DEF Release
  <1>23. CASE ReleaseFails
    BY <1>1, <1>3, <1>4, <1>5, <1>17, <1>23, Values DEF ReleaseFails
  <1>24. ASSUME NEW c \in Claims, Written(c) PROVE Position' /\ Snapshot'
    BY <1>1, <1>4, <1>5, <1>24 DEF Written, Clear
  <1>25. CASE WriteClaim
    <2> PICK c \in Claims : WriteClaim!(c)
      BY <1>25, Zenon DEF WriteClaim
    <2>1. Desired(c) \in BootStatus
      BY <1>1, Values DEF Desired, Claim
    <2>2. claim' \in [Claims -> Claim]
      BY <1>1, <2>1, WithBootType
    <2> QED
      BY <1>1, <1>4, <1>24, <2>2, Zenon
  <1>26. CASE WriteClaimFails
    BY <1>1, <1>3, <1>4, <1>24, <1>26 DEF WriteClaimFails
  <1>27. CASE UNCHANGED vars
    BY <1>1, <1>4, <1>27 DEF vars
  <1> QED
    BY <1>6, <1>7, <1>8, <1>9, <1>10, <1>11, <1>12, <1>13, <1>14, <1>15, <1>16, <1>19, <1>21,
       <1>22, <1>23, <1>25, <1>26, <1>27
    DEF Next, Environment, Pass

\* The types and what they rest on hold in every state.
LEMMA TypesHold == Spec => [](TypeOK /\ PausedExists)
  <1>1. Init => TypeOK
    <2> SUFFICES ASSUME Init PROVE TypeOK
      OBVIOUS
    <2>1. claim \in [Claims -> Claim]
      BY Values DEF Init
    <2> QED
      BY <2>1, Values, ConstantsAssumption DEF Init, TypeOK
  <1>2. Init => PausedExists
    BY DEF Init, PausedExists, NoVmi
  <1> QED
    BY <1>1, <1>2, StepTypes, StepPaused, PTL DEF Spec

\* Stored objects, caches and the locals of a pass keep their types.
THEOREM TypeCorrect == Spec => []TypeOK
  BY TypesHold, PTL
-----------------------------------------------------------------------------
(* True records.  Instances come one after the other, and a record of a    *)
(* release is of one that is gone or has left the pause of its boot.       *)

Over(u) == u \in 1..born /\ ~(vmi.uid = u /\ vmi.boot)

\* The same of the next state, about a value of this one.
OverNext(u) == u \in 1..born' /\ ~(vmi'.uid = u /\ vmi'.boot)

TrueRecord(b) == b.state = "Released" => Over(b.uid)

\* No copy shows an instance yet to come, and every record is true, also the
\* ones in the caches, in the snapshot and in the plan of the pass.
Records ==
    /\ vmi.uid \in {None, born}
    /\ \A v \in {cVmi, sVmi} : v.uid \in 0..born
    /\ \A u \in released : Over(u)
    /\ \A cl \in {claim, cClaim, sClaim}, c \in Claims : TrueRecord(cl[c].boot)
    /\ TrueRecord(plan)

\* An instance whose boot is over stays so: no later one has its uid.
LEMMA StepOver ==
    ASSUME TypeOK, Records, [Next]_vars, NEW u, Over(u)
    PROVE  OverNext(u)
  <1>1. born \in Nat /\ vmi \in Vmi
    BY ConstantsAssumption DEF TypeOK
  <1>2. CASE StartVmi
    <2>1. PICK p \in BOOLEAN : vmi' = Started(born + 1, p) /\ born' = born + 1
      BY <1>2 DEF StartVmi
    <2> QED
      BY <1>1, <2>1 DEF Over, OverNext, Started
  <1>3. ASSUME born' = born, vmi'.uid \in {vmi.uid, None}, vmi'.boot => vmi.boot /\ vmi'.uid = vmi.uid
        PROVE  OverNext(u)
    BY <1>3 DEF Over, OverNext
  <1>4. CASE vmi' = vmi /\ born' = born
    BY <1>3, <1>4, Zenon
  <1>5. CASE StopVmi \/ VmiGone \/ UserPauses \/ UserResumes \/ Tick \/ Release \/ ReleaseFails
    <2>1. \A v \in Vmi : /\ Older(v).uid = v.uid /\ Older(v).boot = v.boot
                         /\ Resumed(v).uid = v.uid /\ ~Resumed(v).boot
      BY Zenon DEF Older, Resumed, Vmi
    <2>2. born' = born
      BY <1>5, Zenon DEF StopVmi, VmiGone, UserPauses, UserResumes, Tick, Release, ReleaseFails
    <2>3. vmi'.uid \in {vmi.uid, None} /\ (vmi'.boot => vmi.boot /\ vmi'.uid = vmi.uid)
      BY <1>1, <1>5, <2>1
      DEF StopVmi, VmiGone, UserPauses, UserResumes, Tick, Release, ReleaseFails, Vmi, NoVmi
    <2> QED
      BY <1>3, <2>2, <2>3
  <1> QED
    BY <1>2, <1>4, <1>5, Zenon
    DEF Next, Environment, EditTemplate, EditClaim, DeleteClaim, ReportReady, ReportEnds, SyncVmi,
        SyncTmpl, SyncClaims, Start, Crash, Pass, StartPass, ReconcileClaim, ReconcileClaimFails,
        NoHolds, KeepHolding, WriteClaim, WriteClaimFails, server, vars

\* Instances come one after the other, and copies show past ones.
LEMMA StepUids ==
    ASSUME TypeOK, Records, [Next]_vars
    PROVE  vmi'.uid \in {None, born'} /\ \A v \in {cVmi', sVmi'} : v.uid \in 0..born'
  <1> DEFINE Past(v) == v.uid \in 0..born
  <1>1. born \in Nat /\ vmi \in Vmi /\ cVmi \in Vmi
    BY ConstantsAssumption DEF TypeOK
  <1>2. vmi.uid \in {None, born} /\ Past(cVmi) /\ Past(sVmi) /\ Past(vmi) /\ Past(NoVmi)
    BY <1>1 DEF Records, NoVmi, None
  <1>3. \A v \in Vmi : Older(v).uid = v.uid /\ Resumed(v).uid = v.uid
    BY Zenon DEF Older, Resumed, Vmi
  <1>4. Return => sVmi' = NoVmi
    BY Zenon DEF Return
  <1>5. CASE StartVmi
    <2>1. PICK p \in BOOLEAN : vmi' = Started(born + 1, p) /\ born' = born + 1
      BY <1>5 DEF StartVmi
    <2>2. cVmi' = cVmi /\ sVmi' = sVmi
      BY <1>5 DEF StartVmi, Others, caches, snapshot
    <2> QED
      BY <1>1, <1>2, <2>1, <2>2 DEF Started
  <1>6. SUFFICES ASSUME ~StartVmi
                 PROVE  /\ born' = born /\ vmi'.uid \in {None, vmi.uid}
                        /\ {cVmi'.uid, sVmi'.uid} \subseteq {cVmi.uid, sVmi.uid, vmi.uid, None}
    BY <1>1, <1>2, <1>5 DEF None
  <1>7. CASE StopVmi \/ VmiGone \/ UserPauses \/ UserResumes \/ Tick
    BY <1>1, <1>3, <1>7
    DEF StopVmi, VmiGone, UserPauses, UserResumes, Tick, NoVmi, Vmi, Others, caches, snapshot
  <1>8. CASE EditTemplate \/ \E c \in Claims : EditClaim(c) \/ DeleteClaim(c) \/ ReportReady(c) \/ ReportEnds(c)
    BY <1>8 DEF EditTemplate, EditClaim, DeleteClaim, ReportReady, ReportEnds, Others, caches, snapshot
  <1>9. CASE SyncVmi \/ SyncTmpl \/ SyncClaims \/ Start \/ Crash
    BY <1>9 DEF SyncVmi, SyncTmpl, SyncClaims, Start, Crash, server, snapshot, NoVmi
  <1>10. CASE StartPass \/ ReconcileClaim \/ ReconcileClaimFails
    BY <1>10 DEF StartPass, ReconcileClaim, ReconcileClaimFails, server, caches, snapshot
  <1>11. CASE NoHolds \/ KeepHolding \/ Release \/ ReleaseFails
    BY <1>1, <1>3, <1>4, <1>11
    DEF NoHolds, KeepHolding, Release, ReleaseFails, WriteBack, server, caches, snapshot, NoVmi
  <1>12. CASE WriteClaim \/ WriteClaimFails
    BY <1>4, <1>12 DEF WriteClaim, WriteClaimFails, Written, server, caches, snapshot, NoVmi
  <1>13. CASE UNCHANGED vars
    BY <1>13 DEF vars, server, caches, snapshot
  <1> QED
    BY <1>6, <1>7, <1>8, <1>9, <1>10, <1>11, <1>12, <1>13, Zenon DEF Next, Environment, Pass

\* Every record that a step writes or copies is true.
LEMMA StepRecords == TypeOK /\ PausedExists /\ Records /\ [Next]_vars => Records'
  <1> SUFFICES ASSUME TypeOK, PausedExists, Records, [Next]_vars PROVE Records'
    OBVIOUS
  <1> DEFINE Stays(b) == b.state = "Released" => OverNext(b.uid)
             All(cl) == \A c \in Claims : Stays(cl[c].boot)
  <1>1. \A u : Over(u) => OverNext(u)
    BY StepOver, Zenon
  <1>2. All(claim) /\ All(cClaim) /\ All(sClaim) /\ Stays(plan)
    BY <1>1, Zenon DEF Records, TrueRecord
  <1>3. SUFFICES /\ All(claim') /\ All(cClaim') /\ All(sClaim') /\ Stays(plan')
                 /\ \A u \in released' : OverNext(u)
    BY StepUids, Zenon DEF Records, TrueRecord, Over, OverNext
  <1>4. All(NoClaims) /\ Stays(Absent) /\ Stays(Clear)
    <2>1. Absent.state # "Released" /\ Clear.state # "Released"
      BY DEF Absent, Clear
    <2>2. \A c \in Claims : NoClaims[c].boot = Absent
      BY Zenon DEF NoClaims, NoClaim
    <2> QED
      BY <2>1, <2>2, Zenon
  <1>5. claim \in [Claims -> Claim]
    BY Zenon DEF TypeOK
  <1>6. /\ \A u \in released : OverNext(u)
        /\ \A u \in Remembered : OverNext(u)
    BY <1>1, Zenon DEF Records, Remembered
  <1>7. Return => Stays(plan') /\ All(sClaim')
    BY <1>4, Zenon DEF Return
  <1> HIDE DEF Stays
  <1>8. ASSUME NEW c \in Claims, NEW b \in BootStatus, Stays(b)
        PROVE  All(WithBoot(c, b))
    <2>1. ASSUME NEW x, Stays(x) PROVE All([claim EXCEPT ![c].boot = x])
      BY <1>2, <1>5, <2>1 DEF Claim
    <2>2. ASSUME b.state # "Released" PROVE Stays([b EXCEPT !.uid = claim[c].boot.uid])
      BY <2>2 DEF Stays, BootStatus
    <2>3. b.state = "Released" => b.uid # None
      BY <1>8 DEF Stays, OverNext, None
    <2> QED
      BY <1>8, <2>1, <2>2, <2>3, Zenon DEF WithBoot
  <1>9. CASE StartVmi \/ StopVmi \/ VmiGone \/ UserPauses \/ UserResumes \/ EditTemplate \/ Tick
    BY <1>2, <1>6, <1>9, Zenon
    DEF StartVmi, StopVmi, VmiGone, UserPauses, UserResumes, EditTemplate, Tick, Others, caches,
        snapshot, position
  <1>10. ASSUME NEW c \in Claims, EditClaim(c) \/ DeleteClaim(c) \/ ReportReady(c) \/ ReportEnds(c)
         PROVE  All(claim')
    <2>1. \A e \in Claims : claim'[e].boot = claim[e].boot \/ claim'[e].boot = Absent
      BY <1>5, <1>10 DEF EditClaim, DeleteClaim, ReportReady, ReportEnds, NoClaim, Claim
    <2> QED
      BY <1>2, <1>4, <2>1, Zenon
  <1>11. CASE \E c \in Claims : EditClaim(c) \/ DeleteClaim(c) \/ ReportReady(c) \/ ReportEnds(c)
    BY <1>2, <1>6, <1>10, <1>11, Zenon
    DEF EditClaim, DeleteClaim, ReportReady, ReportEnds, Others, caches, snapshot, position
  <1>12. CASE SyncVmi \/ SyncTmpl \/ SyncClaims \/ Start
    BY <1>2, <1>6, <1>12, Zenon
    DEF SyncVmi, SyncTmpl, SyncClaims, Start, server, snapshot, position
  <1>13. CASE Crash
    BY <1>2, <1>4, <1>13, Zenon DEF Crash, server
  <1>14. CASE StartPass \/ ReconcileClaimFails
    BY <1>2, <1>6, <1>14, Zenon DEF StartPass, ReconcileClaimFails, server, caches, snapshot
  <1>15. CASE ReconcileClaim
    <2> PICK c \in Claims : ReconcileClaim!(c)
      BY <1>15, Zenon DEF ReconcileClaim
    <2>1. All(WithBoot(c, Absent))
      BY <1>4, <1>8, Values DEF Absent
    <2> QED
      BY <1>2, <1>6, <2>1, Zenon DEF caches, snapshot
  <1>16. CASE NoHolds \/ ReleaseFails
    BY <1>2, <1>6, <1>7, <1>16, Zenon DEF NoHolds, ReleaseFails, server, caches
  <1>17. CASE KeepHolding
    <2>1. Stays(Report(Decision))
      <3>1. CASE Report(Decision).state # "Released"
        BY <3>1, Zenon DEF Stays
      <3>2. CASE Report(Decision).state = "Released"
        <4>1. sVmi.uid \in Remembered /\ Report(Decision) = [state |-> "Released", uid |-> sVmi.uid]
          BY <3>2 DEF Report, Clear
        <4>2. OverNext(sVmi.uid)
          BY <1>6, <4>1, Zenon
        <4> QED
          BY <4>1, <4>2 DEF Stays
      <3> QED
        BY <3>1, <3>2, Zenon
    <2> QED
      BY <1>2, <1>6, <1>17, <2>1, Zenon DEF KeepHolding, WriteBack, server, caches, snapshot
  <1>18. CASE Release
    <2>1. OverNext(sVmi.uid)
      <3>1. ~vmi'.boot /\ born' = born
        BY <1>18 DEF Release, Resumed, TypeOK, Vmi
      <3>2. sVmi.uid \in 1..born
        BY <1>18 DEF Records, Release, Decision, Held, PausedExists, None
      <3> QED
        BY <3>1, <3>2 DEF OverNext
    <2>2. Stays([state |-> "Released", uid |-> sVmi.uid])
      BY <2>1 DEF Stays
    <2> QED
      BY <1>2, <1>6, <1>18, <2>1, <2>2, Zenon DEF Release, WriteBack, caches, snapshot
  <1>19. CASE WriteClaim
    <2> PICK c \in Claims : WriteClaim!(c)
      BY <1>19, Zenon DEF WriteClaim
    <2>1. plan \in BootStatus \cup {Clear} /\ sClaim[c].boot \in BootStatus
      BY DEF TypeOK, Claim
    <2>2. Desired(c) \in BootStatus /\ Stays(Desired(c))
      BY <1>2, <1>4, <2>1, Values, Zenon DEF Desired
    <2>3. All(claim')
      BY <1>2, <1>8, <2>2, Zenon
    <2> QED
      BY <1>2, <1>6, <1>7, <2>3, Zenon DEF Written, caches, snapshot
  <1>20. CASE WriteClaimFails
    BY <1>2, <1>6, <1>7, <1>20, Zenon DEF WriteClaimFails, Written, server, caches, snapshot
  <1>21. CASE UNCHANGED vars
    BY <1>2, <1>6, <1>21, Zenon DEF vars, server, caches, snapshot, position
  <1> QED
    BY <1>9, <1>11, <1>12, <1>13, <1>14, <1>15, <1>16, <1>17, <1>18, <1>19, <1>20, <1>21, Zenon
    DEF Next, Environment, Pass

\* No record ever says of an instance that waits in the pause of its boot that
\* it was resumed, whatever happens to the VM, the calls and the controller.
THEOREM RecordsStayTrue == Spec => []RecordsAreTrue
  <1>1. Init => Records
    <2> SUFFICES ASSUME Init PROVE Records
      OBVIOUS
    <2>1. NoVmi.uid = None /\ Absent.state # "Released"
      BY DEF NoVmi, Absent
    <2>2. /\ \A c \in Claims : claim[c].boot = Absent /\ NoClaims[c].boot = Absent
          /\ plan = Absent
      BY DEF Init, NewClaim, NoClaims, NoClaim
    <2>3. cVmi.uid \in 0..born /\ sVmi.uid \in 0..born /\ vmi.uid = None /\ released = {}
      BY <2>1 DEF Init, None
    <2>4. cClaim = NoClaims /\ sClaim = NoClaims
      BY Zenon DEF Init
    <2> QED
      BY <2>1, <2>2, <2>3, <2>4, Zenon DEF Records, TrueRecord
  <1>2. Records => RecordsAreTrue
    BY DEF Records, RecordsAreTrue, TrueRecord, Over
  <1> QED
    BY <1>1, <1>2, StepRecords, TypesHold, PTL DEF Spec
-----------------------------------------------------------------------------
(* One instance.  Without a restart the VM has one instance, and every     *)
(* report is about it.                                                     *)

OneInstance ==
    /\ ~vmi.deleting
    /\ born \in {0, 1} /\ (born = 0 <=> vmi.uid = None)
    /\ \A v \in {vmi, cVmi, sVmi} : v.uid \in {None, 1}
    /\ \A cl \in {claim, cClaim, sClaim}, c \in Claims : cl[c].report \in {None, 1}

\* Without restarts there is one instance.
LEMMA StepInstance ==
    ASSUME "restart" \notin Disturbances, TypeOK, OneInstance, [Next]_vars
    PROVE  OneInstance'
  <1> DEFINE Uid(v) == v.uid \in {None, 1}
             Reports(cl) == \A c \in Claims : cl[c].report \in {None, 1}
             Stored == /\ ~vmi.deleting /\ born \in {0, 1} /\ (born = 0 <=> vmi.uid = None)
                       /\ Uid(vmi) /\ Reports(claim)
             Copies == Uid(cVmi) /\ Uid(sVmi) /\ Reports(cClaim) /\ Reports(sClaim)
  <1>1. Stored /\ Copies
    BY Zenon DEF OneInstance
  <1>2. SUFFICES Stored' /\ Copies'
    BY DEF OneInstance
  <1>3. vmi \in Vmi /\ cVmi \in Vmi /\ claim \in [Claims -> Claim]
    BY DEF TypeOK
  <1>4. Uid(NoVmi) /\ ~NoVmi.deleting /\ NoVmi.uid = None /\ Reports(NoClaims)
    BY DEF NoVmi, NoClaims, NoClaim
  <1>5. \A v \in Vmi : /\ Resumed(v).uid = v.uid /\ Resumed(v).deleting = v.deleting
                       /\ Older(v).uid = v.uid /\ Older(v).deleting = v.deleting
    BY Zenon DEF Resumed, Older, Vmi
  <1>6. /\ UNCHANGED <<server, born>> => Stored'
        /\ UNCHANGED <<caches, snapshot>> => Copies'
    BY <1>1 DEF server, caches, snapshot
  <1>7. Return => Uid(sVmi') /\ Reports(sClaim')
    BY <1>4, Zenon DEF Return
  <1>8. CASE StartVmi
    <2>1. PICK p \in BOOLEAN : vmi' = Started(born + 1, p)
      BY <1>8 DEF StartVmi
    <2>2. born = 0 /\ born' = 1 /\ claim' = claim
      BY <1>1, <1>8 DEF StartVmi
    <2>3. vmi'.uid = 1 /\ ~vmi'.deleting
      BY <2>1, <2>2 DEF Started
    <2> QED
      BY <1>1, <1>6, <1>8, <2>2, <2>3 DEF StartVmi, Others, None
  <1>9. CASE UserPauses \/ UserResumes
    <2>1. vmi'.uid = vmi.uid /\ vmi'.deleting = vmi.deleting
      BY <1>3, <1>5, <1>9 DEF UserPauses, UserResumes, Vmi
    <2> QED
      BY <1>1, <1>6, <1>9, <2>1 DEF UserPauses, UserResumes, Others
  <1>10. ~StopVmi /\ ~VmiGone
    BY <1>1, Zenon DEF StopVmi, VmiGone, Disturb
  <1>11. CASE EditTemplate
    BY <1>1, <1>6, <1>11 DEF EditTemplate, Others
  <1>12. ASSUME NEW c \in Claims, EditClaim(c) \/ DeleteClaim(c) \/ ReportReady(c) \/ ReportEnds(c)
         PROVE  Stored' /\ Copies'
    <2>1. Reports(claim')
      <3>1. CASE EditClaim(c)
        BY <1>1, <1>3, <3>1 DEF EditClaim, Claim
      <3>2. CASE DeleteClaim(c)
        BY <1>1, <1>3, <3>2 DEF DeleteClaim, NoClaim
      <3>3. CASE ReportReady(c)
        BY <1>1, <1>3, <3>3 DEF ReportReady, Claim
      <3>4. CASE ReportEnds(c)
        BY <1>1, <1>3, <3>4, Zenon DEF ReportEnds, Claim
      <3> QED
        BY <1>12, <3>1, <3>2, <3>3, <3>4
    <2> QED
      BY <1>1, <1>6, <1>12, <2>1 DEF EditClaim, DeleteClaim, ReportReady, ReportEnds, Others
  <1>13. CASE Tick
    BY <1>1, <1>3, <1>5, <1>13, Zenon DEF Tick, snapshot
  <1>14. CASE SyncVmi \/ SyncTmpl \/ SyncClaims \/ Start \/ Crash
    BY <1>1, <1>4, <1>6, <1>14 DEF SyncVmi, SyncTmpl, SyncClaims, Start, Crash, snapshot
  <1>15. ASSUME NEW c \in Claims, NEW b PROVE Reports(WithBoot(c, b))
    BY <1>1, <1>3, Zenon DEF WithBoot, Claim
  <1>16. CASE StartPass \/ ReconcileClaim \/ ReconcileClaimFails
    BY <1>1, <1>6, <1>15, <1>16, Zenon DEF StartPass, ReconcileClaim, ReconcileClaimFails, caches
  <1>17. CASE NoHolds \/ KeepHolding \/ Release \/ ReleaseFails
    <2>1. vmi'.uid = vmi.uid /\ vmi'.deleting = vmi.deleting /\ claim' = claim /\ born' = born
      BY <1>3, <1>5, <1>17, Zenon DEF NoHolds, KeepHolding, Release, ReleaseFails, server
    <2>2. Copies'
      BY <1>1, <1>7, <1>17, Zenon
      DEF NoHolds, KeepHolding, Release, ReleaseFails, WriteBack, caches, snapshot
    <2> QED
      BY <1>1, <2>1, <2>2
  <1>18. CASE WriteClaim \/ WriteClaimFails
    BY <1>1, <1>7, <1>15, <1>18 DEF WriteClaim, WriteClaimFails, Written, server, caches, snapshot
  <1>19. CASE UNCHANGED vars
    BY <1>6, <1>19 DEF vars
  <1> QED
    BY <1>8, <1>9, <1>10, <1>11, <1>12, <1>13, <1>14, <1>16, <1>17, <1>18, <1>19
    DEF Next, Environment, Pass

\* The instance is one in every state.
LEMMA InstanceHolds ==
    ASSUME "restart" \notin Disturbances
    PROVE  Spec => []OneInstance
  <1>1. Init => OneInstance
    BY DEF Init, OneInstance, NoVmi, NoClaims, NoClaim, NewClaim
  <1>2. TypeOK /\ OneInstance /\ [Next]_vars => OneInstance'
    BY StepInstance
  <1> QED
    BY <1>1, <1>2, TypeCorrect, PTL DEF Spec

\* The steps that end a pause.
LEMMA ResumesByRelease ==
    ASSUME "unpause" \notin Disturbances, TypeOK, PausedExists, OneInstance, [Next]_vars,
           Resumes
    PROVE  pc = "hold" /\ holds # {} /\ Decision = "Release" /\ vmi.paused
  <1>1. pc = "hold" /\ vmi.paused /\ ~vmi'.paused
    BY DEF Resumes
  <1>2. ~StartVmi
    BY <1>1 DEF StartVmi, PausedExists
  <1>3. ~StopVmi /\ ~UserPauses /\ ~Tick
    BY <1>1, Zenon DEF StopVmi, UserPauses, Tick, Older, TypeOK, Vmi
  <1>4. ~VmiGone /\ ~UserResumes
    BY DEF VmiGone, OneInstance, UserResumes, Disturb
  <1> QED
    BY <1>1, <1>2, <1>3, <1>4
    DEF Next, Environment, EditTemplate, EditClaim, DeleteClaim, ReportReady, ReportEnds, SyncVmi,
        SyncTmpl, SyncClaims, Start, Crash, Pass, StartPass, ReconcileClaim, ReconcileClaimFails,
        NoHolds, KeepHolding, Release, ReleaseFails, WriteClaim, WriteClaimFails, server, vars

-----------------------------------------------------------------------------
(* One release.  The boot of an instance is released once: the memory, or  *)
(* else every record, has the release when a later pass looks.             *)

\* What users and failures may do; the rest loses a record of a release.
Survivable ==
    {"report", "pause", "rollout", "deleteClaim", "claimFails", "unpauseFails", "writeFails"}

\* Copies of the template and of the instance are old or right.
CopiesOfVm ==
    /\ {cTmpl, sTmpl} \subseteq {tmpl, "none"}
    /\ tmpl # "none" /\ vmi.uid # None => vmi.startPaused = (tmpl = "paused")
    /\ sVmi.uid # None => cVmi.uid # None
    /\ \A v \in {vmi, cVmi, sVmi} :
         /\ v.uid # None => vmi.uid # None /\ v.startPaused = vmi.startPaused
         /\ v.uid = None => ~v.startPaused

\* Claims keep their spec, and the loops of a pass visit claims of its snapshot.
CopiesOfClaims ==
    /\ \A cl \in {cClaim, sClaim}, c \in Claims :
         cl[c].live /\ claim[c].live => cl[c].spec = claim[c].spec
    /\ pc = "claims" => \A c \in todo : sClaim[c].live
    /\ \A c \in holds : sClaim[c].live /\ sClaim[c].spec.hold
    /\ pc = "write" => todo \subseteq holds

\* The instance was started paused, and resumed since.
Booted == vmi.uid # None /\ vmi.startPaused /\ ~vmi.boot

\* Every claim that holds the boot has the record of its release.
AllRecord(claims) ==
    \A c \in Claims :
        claims[c].live /\ claims[c].spec.hold => claims[c].boot = [state |-> "Released", uid |-> 1]

Kept ==
    /\ AllRecord(claim) /\ AllRecord(cClaim) /\ AllRecord(sClaim)
    /\ pc = "write" => plan = Clear

\* The controller knows the instance it has resumed, and that it has.
ReleaseKnown ==
    Booted =>
      /\ pc # "down" => cVmi.uid = 1
      /\ pc \in {"claims", "hold", "write"} => sVmi.uid = 1
      /\ 1 \in released \/ Kept

\* What a step does not take part in, under survivable disturbances.
LEMMA Excluded ==
    ASSUME Disturbances \subseteq Survivable, OneInstance
    PROVE  /\ ~StopVmi /\ ~VmiGone /\ ~UserResumes /\ ~EditTemplate
           /\ \A c \in Claims : ~EditClaim(c)
           /\ Crash => pc = "idle" /\ Recorded
           /\ ReleaseFails => vmi' = vmi
  BY DEF Survivable, Disturb, OneInstance, StopVmi, VmiGone, UserResumes, EditTemplate, EditClaim,
         Crash, ReleaseFails

\* Copies of the template and of the instance stay old or right.
LEMMA StepVm ==
    ASSUME Disturbances \subseteq Survivable, TypeOK, OneInstance, CopiesOfVm, [Next]_vars
    PROVE  CopiesOfVm'
  <1> DEFINE Copy(v, w) == /\ v.uid # None => w.uid # None /\ v.startPaused = w.startPaused
                           /\ v.uid = None => ~v.startPaused
             Same(v, w) == v.uid = w.uid /\ v.startPaused = w.startPaused
             SameCopies == /\ UNCHANGED <<tmpl, cTmpl, sTmpl>>
                           /\ Same(cVmi', cVmi) /\ Same(sVmi', sVmi)
  <1>0. Copy(vmi, vmi)
    BY DEF CopiesOfVm
  <1>1. /\ {cTmpl, sTmpl} \subseteq {tmpl, "none"}
        /\ tmpl # "none" /\ vmi.uid # None => vmi.startPaused = (tmpl = "paused")
        /\ sVmi.uid # None => cVmi.uid # None
        /\ Copy(cVmi, vmi) /\ Copy(sVmi, vmi)
    BY DEF CopiesOfVm
  <1>2. vmi \in Vmi /\ cVmi \in Vmi /\ vmi.startPaused \in BOOLEAN
    BY DEF TypeOK, Vmi
  <1>3. \A v \in Vmi : Same(Older(v), v) /\ Same(Resumed(v), v)
    BY Zenon DEF Older, Resumed, Vmi
  <1>4. ASSUME Same(vmi', vmi), SameCopies PROVE CopiesOfVm'
    BY <1>1, <1>4 DEF CopiesOfVm
  <1>5. NoVmi.uid = None /\ ~NoVmi.startPaused
    BY Zenon DEF NoVmi
  <1>6. ASSUME Same(vmi', vmi), UNCHANGED <<tmpl, cTmpl, cVmi>>, sVmi' = NoVmi, sTmpl' = "none"
        PROVE  CopiesOfVm'
    BY <1>1, <1>5, <1>6, Zenon DEF CopiesOfVm
  <1>7. CASE StartVmi
    <2>1. PICK p \in BOOLEAN : /\ tmpl # "none" => p = (tmpl = "paused")
                               /\ vmi' = Started(born + 1, p)
      BY <1>7 DEF StartVmi
    <2>2. vmi.uid = None /\ UNCHANGED <<tmpl, cTmpl, sTmpl, cVmi, sVmi>>
      BY <1>7 DEF StartVmi, Others, caches, snapshot
    <2>3. vmi'.startPaused = p /\ vmi'.uid = born + 1
      BY <2>1 DEF Started
    <2>4. vmi'.uid # None
      BY <2>3 DEF OneInstance, None
    <2> QED
      BY <1>1, <2>1, <2>2, <2>3, <2>4 DEF CopiesOfVm
  <1>8. CASE UserPauses
    <2>1. Same(vmi', vmi)
      BY <1>2, <1>8 DEF UserPauses, Vmi
    <2> QED
      BY <1>4, <1>8, <2>1 DEF UserPauses, Others, caches, snapshot
  <1>9. CASE \E c \in Claims : DeleteClaim(c) \/ ReportReady(c) \/ ReportEnds(c)
    BY <1>4, <1>9, Zenon DEF DeleteClaim, ReportReady, ReportEnds, Others, caches, snapshot
  <1>10. CASE Tick
    BY <1>2, <1>3, <1>4, <1>10 DEF Tick, snapshot
  <1>11. CASE SyncVmi \/ SyncTmpl \/ SyncClaims
    <2>1. CASE SyncVmi
      <3>1. cVmi' = vmi /\ UNCHANGED <<vmi, tmpl, cTmpl, sTmpl, sVmi>>
        BY <2>1, Zenon DEF SyncVmi, server, snapshot
      <3> QED
        BY <1>0, <1>1, <3>1 DEF CopiesOfVm
    <2>2. CASE SyncTmpl
      <3>1. cTmpl' = tmpl /\ UNCHANGED <<vmi, tmpl, cVmi, sTmpl, sVmi>>
        BY <2>2 DEF SyncTmpl, server, snapshot
      <3> QED
        BY <1>1, <3>1 DEF CopiesOfVm
    <2>3. CASE SyncClaims
      BY <1>4, <2>3, Zenon DEF SyncClaims, server, snapshot
    <2> QED
      BY <1>11, <2>1, <2>2, <2>3, Zenon
  <1>12. CASE Start
    <2>1. cVmi' = vmi /\ cTmpl' = tmpl /\ UNCHANGED <<vmi, tmpl, sTmpl, sVmi>>
      BY <1>12, Zenon DEF Start, server, snapshot
    <2> QED
      BY <1>0, <1>1, <2>1 DEF CopiesOfVm
  <1>19. CASE Crash
    <2>1. /\ cVmi' = NoVmi /\ sVmi' = NoVmi /\ cTmpl' = "none" /\ sTmpl' = "none"
          /\ UNCHANGED <<vmi, tmpl>>
      BY <1>19, Zenon DEF Crash, server
    <2> QED
      BY <1>1, <1>5, <2>1 DEF CopiesOfVm
  <1>13. CASE StartPass
    BY <1>1, <1>13, Zenon DEF StartPass, CopiesOfVm, server, caches
  <1>14. CASE ReconcileClaim \/ ReconcileClaimFails
    BY <1>4, <1>14, Zenon DEF ReconcileClaim, ReconcileClaimFails, server, caches, snapshot
  <1>15. CASE KeepHolding \/ Release
    <2>1. Same(vmi', vmi)
      BY <1>2, <1>3, <1>15, Zenon DEF KeepHolding, Release, server
    <2> QED
      BY <1>4, <1>15, <2>1, Zenon DEF KeepHolding, Release, WriteBack, server, caches, snapshot
  <1>16. CASE NoHolds \/ ReleaseFails
    BY <1>6, <1>16, Excluded, Zenon DEF NoHolds, ReleaseFails, Return, server, caches
  <1>17. CASE WriteClaim \/ WriteClaimFails
    BY <1>4, <1>6, <1>17 DEF WriteClaim, WriteClaimFails, Written, Return, server, caches, snapshot
  <1>18. CASE UNCHANGED vars
    BY <1>4, <1>18 DEF vars, server, caches, snapshot
  <1> QED
    BY <1>7, <1>8, <1>9, <1>10, <1>11, <1>12, <1>13, <1>14, <1>15, <1>16, <1>17, <1>18, <1>19,
       Excluded, Zenon
    DEF Next, Environment, Pass

\* Claims keep their spec, and the loops their claims.
LEMMA StepClaims ==
    ASSUME Disturbances \subseteq Survivable, TypeOK, OneInstance, CopiesOfClaims, [Next]_vars
    PROVE  CopiesOfClaims'
  <1> DEFINE Copy(cl, st) == \A c \in Claims : cl[c].live /\ st[c].live => cl[c].spec = st[c].spec
             Loops == /\ pc = "claims" => \A c \in todo : sClaim[c].live
                      /\ \A c \in holds : sClaim[c].live /\ sClaim[c].spec.hold
                      /\ pc = "write" => todo \subseteq holds
             Same == \A c \in Claims :
                       claim'[c].live => claim[c].live /\ claim'[c].spec = claim[c].spec
  <1>1. Copy(cClaim, claim) /\ Copy(sClaim, claim) /\ Loops
    BY Zenon DEF CopiesOfClaims
  <1>2. SUFFICES Copy(cClaim', claim') /\ Copy(sClaim', claim') /\ Loops'
    BY DEF CopiesOfClaims
  <1>3. claim \in [Claims -> Claim] /\ todo \subseteq Claims /\ holds \subseteq Claims
    BY Zenon DEF TypeOK
  <1>4. Same /\ cClaim' = cClaim => Copy(cClaim', claim')
    BY <1>1, Zenon
  <1>5. Same /\ sClaim' = sClaim => Copy(sClaim', claim')
    BY <1>1, Zenon
  <1>6. UNCHANGED <<snapshot, position>> => Loops'
    BY <1>1 DEF snapshot, position
  <1>7. Return => Copy(sClaim', claim') /\ Loops'
    BY DEF Return, NoClaims, NoClaim
  <1>8. claim' = claim => Same
    OBVIOUS
  <1>9. \A c \in Claims : \A b : claim' = WithBoot(c, b) => Same
    BY <1>3 DEF WithBoot, Claim
  <1>10. ASSUME NEW c \in Claims, DeleteClaim(c) \/ ReportReady(c) \/ ReportEnds(c) PROVE Same
    BY <1>3, <1>10 DEF DeleteClaim, ReportReady, ReportEnds, NoClaim, Claim
  <1>11. CASE StartVmi \/ UserPauses \/ Tick \/ SyncVmi \/ SyncTmpl \/ UNCHANGED vars
    BY <1>4, <1>5, <1>6, <1>8, <1>11
    DEF StartVmi, UserPauses, Tick, SyncVmi, SyncTmpl, vars, Others, server, caches, snapshot
  <1>12. CASE \E c \in Claims : DeleteClaim(c) \/ ReportReady(c) \/ ReportEnds(c)
    BY <1>4, <1>5, <1>6, <1>10, <1>12, Zenon
    DEF DeleteClaim, ReportReady, ReportEnds, Others, caches, snapshot
  <1>13. CASE SyncClaims
    BY <1>5, <1>6, <1>8, <1>13, Zenon DEF SyncClaims, server, snapshot
  <1>14. CASE Start
    BY <1>1, <1>5, <1>8, <1>14, Zenon DEF Start, server, snapshot
  <1>15. CASE Crash
    BY <1>15, Zenon DEF Crash, NoClaims, NoClaim
  <1>16. CASE StartPass
    BY <1>1, <1>16 DEF StartPass, Live, server, caches
  <1>17. CASE ReconcileClaim
    <2> PICK c \in Claims : ReconcileClaim!(c)
      BY <1>17, Zenon DEF ReconcileClaim
    <2>1. Same
      BY <1>8, <1>9, Zenon
    <2>2. Loops'
      BY <1>1, <1>3, Zenon DEF NextClaim, First, snapshot
    <2> QED
      BY <1>4, <1>5, <2>1, <2>2, Zenon DEF caches, snapshot
  <1>18. CASE ReconcileClaimFails
    <2>1. Loops'
      BY <1>1, <1>3, <1>18, Zenon DEF ReconcileClaimFails, NextClaim, snapshot
    <2> QED
      BY <1>4, <1>5, <1>8, <1>18, <2>1, Zenon DEF ReconcileClaimFails, server, caches, snapshot
  <1>19. CASE NoHolds \/ ReleaseFails
    BY <1>4, <1>7, <1>8, <1>19, Zenon DEF NoHolds, ReleaseFails, server, caches
  <1>20. CASE KeepHolding \/ Release
    BY <1>1, <1>4, <1>5, <1>8, <1>20, Zenon DEF KeepHolding, Release, WriteBack, server, caches, snapshot
  <1>21. ASSUME NEW c \in Claims, pc = "write", Written(c), Same
         PROVE  Copy(sClaim', claim') /\ Loops'
    BY <1>1, <1>5, <1>7, <1>21 DEF Written, snapshot
  <1>22. CASE WriteClaim
    <2> PICK c \in Claims : WriteClaim!(c)
      BY <1>22, Zenon DEF WriteClaim
    <2>1. Same
      BY <1>8, <1>9
    <2> QED
      BY <1>4, <1>21, <2>1, Zenon DEF caches
  <1>23. CASE WriteClaimFails
    BY <1>4, <1>8, <1>21, <1>23, Zenon DEF WriteClaimFails, server, caches
  <1> QED
    BY <1>11, <1>12, <1>13, <1>14, <1>15, <1>16, <1>17, <1>18, <1>19, <1>20, <1>22, <1>23, Excluded, Zenon
    DEF Next, Environment, Pass

\* A pass that finds the record of a release neither resumes the VM again nor
\* takes the record away.
LEMMA RecordIsRespected ==
    ASSUME TypeOK, CopiesOfVm, CopiesOfClaims, Booted, sVmi.uid = 1, AllRecord(sClaim), holds # {}
    PROVE  Decision = "Nothing" /\ (1 \notin released => Report(Decision) = Clear)
  <1>1. AlreadyReleased
    BY DEF AlreadyReleased, CopiesOfClaims, AllRecord, TypeOK, None
  <1>2. StartsPaused
    <2>1. sVmi.uid # None => sVmi.startPaused = vmi.startPaused
      BY DEF CopiesOfVm
    <2>2. sVmi.uid # None
      BY DEF None
    <2> QED
      BY <2>1, <2>2, Zenon DEF StartsPaused, Booted
  <1>3. Decision = "Nothing"
    BY <1>1, <1>2 DEF Decision
  <1>4. ASSUME 1 \notin released PROVE Report("Nothing") = Clear
    <2>1. ~(sVmi.uid # None /\ sVmi.uid \in Remembered)
      BY <1>4 DEF Remembered
    <2> QED
      BY <2>1, Zenon DEF Report
  <1> QED
    BY <1>3, <1>4, Zenon

\* A record of the release of the instance is not stale.
LEMMA RecordIsNotStale ==
    ASSUME NEW b, b = [state |-> "Released", uid |-> 1], sVmi.uid = 1
    PROVE  ~Stale(b)
  BY DEF Stale, None

\* The controller goes on knowing of a release.
LEMMA StepKnown ==
    ASSUME Disturbances \subseteq Survivable, TypeOK, PausedExists, OneInstance,
           CopiesOfVm, CopiesOfClaims, ReleaseKnown, [Next]_vars
    PROVE  ReleaseKnown'
  <1> DEFINE InPass == pc \in {"claims", "hold", "write"}
             Seen == (pc # "down" => cVmi.uid = 1) /\ (InPass => sVmi.uid = 1)
             Same(v, w) == v.uid = w.uid /\ v.startPaused = w.startPaused /\ v.boot = w.boot
  <1>1. vmi \in Vmi /\ cVmi \in Vmi /\ claim \in [Claims -> Claim]
    BY Zenon DEF TypeOK
  <1>2. AllRecord(NoClaims)
    BY DEF AllRecord, NoClaims, NoClaim
  <1>3. \A v \in Vmi : Same(Older(v), v)
    BY Zenon DEF Older, Vmi
  <1>4. CASE StartVmi
    <2>1. PICK p \in BOOLEAN : vmi' = Started(born + 1, p)
      BY <1>4, Zenon DEF StartVmi
    <2> QED
      BY <2>1 DEF Started, ReleaseKnown, Booted
  <1>5. CASE Release
    <2>1. sVmi.uid = 1 /\ cVmi.uid = 1
      BY <1>5 DEF Release, Decision, Held, PausedExists, OneInstance, CopiesOfVm
    <2> QED
      BY <1>5, <2>1, Zenon DEF Release, WriteBack, ReleaseKnown, snapshot, caches
  <1>6. SUFFICES ASSUME Booted', ~StartVmi, ~Release,
                        Same(vmi', vmi) => Booted /\ Seen /\ (1 \in released \/ Kept)
                 PROVE  Seen' /\ (1 \in released' \/ Kept')
    BY <1>4, <1>5, Zenon DEF ReleaseKnown, Booted
  <1>7. CASE UserPauses
    <2>1. Same(vmi', vmi)
      BY <1>1, <1>7 DEF UserPauses, Vmi
    <2> QED
      BY <1>6, <1>7, <2>1 DEF UserPauses, Others, caches, snapshot, position, Kept, AllRecord
  <1>8. ASSUME NEW c \in Claims, DeleteClaim(c) \/ ReportReady(c) \/ ReportEnds(c)
        PROVE  Seen' /\ (1 \in released' \/ Kept')
    <2>1. AllRecord(claim) => AllRecord(claim')
      BY <1>1, <1>8 DEF DeleteClaim, ReportReady, ReportEnds, NoClaim, AllRecord, Claim
    <2> QED
      BY <1>6, <1>8, <2>1
      DEF DeleteClaim, ReportReady, ReportEnds, Others, caches, snapshot, position, Kept, AllRecord
  <1>9. CASE Tick
    <2>1. Same(vmi', vmi) /\ cVmi'.uid = cVmi.uid
      BY <1>1, <1>3, <1>9, Zenon DEF Tick
    <2> QED
      BY <1>6, <1>9, <2>1, Zenon DEF Tick, snapshot, position, Kept, AllRecord
  <1>10. CASE SyncVmi \/ SyncTmpl \/ SyncClaims
    <2>1. vmi' = vmi /\ claim' = claim /\ UNCHANGED <<snapshot, position, released>>
      BY <1>10 DEF SyncVmi, SyncTmpl, SyncClaims, server
    <2>2. Booted /\ Seen /\ (1 \in released \/ Kept) /\ vmi.uid = 1
      BY <1>6, <2>1, Zenon DEF OneInstance, Booted
    <2>3. cVmi'.uid \in {vmi.uid, cVmi.uid} /\ cClaim' \in {claim, cClaim}
      BY <1>10, Zenon DEF SyncVmi, SyncTmpl, SyncClaims
    <2> QED
      BY <1>10, <2>1, <2>2, <2>3, Zenon
      DEF SyncVmi, SyncTmpl, SyncClaims, snapshot, position, Kept, AllRecord
  <1>11. CASE Start
    <2>1. vmi' = vmi /\ vmi.uid = 1
      BY <1>6, <1>11, Zenon DEF Start, server, OneInstance, Booted
    <2> QED
      BY <1>6, <1>11, <2>1, Zenon DEF Start, server, snapshot, Kept, AllRecord
  <1>12. CASE Crash
    <2>1. Recorded /\ vmi' = vmi /\ claim' = claim
      BY <1>12, Excluded, Zenon DEF Crash, server
    <2>2. AllRecord(claim)
      BY <1>6, <2>1, Zenon DEF Recorded, AllRecord, Kept
    <2> QED
      BY <1>2, <1>12, <2>1, <2>2, Zenon DEF Crash, Kept, AllRecord
  <1>13. CASE StartPass
    BY <1>6, <1>13 DEF StartPass, server, caches, Kept, AllRecord
  <1>14. CASE ReconcileClaim
    <2> PICK c \in Claims : ReconcileClaim!(c)
      BY <1>14, Zenon DEF ReconcileClaim
    <2>1. c \in todo /\ sClaim[c].live
      BY DEF First, CopiesOfClaims
    <2>2. AllRecord(claim) => AllRecord(claim')
      BY <1>1, <2>1 DEF CopiesOfClaims, AllRecord, WithBoot, Claim
    <2> QED
      BY <1>6, <2>2, Zenon DEF NextClaim, caches, snapshot, Kept, AllRecord
  <1>15. CASE ReconcileClaimFails
    BY <1>6, <1>15, Zenon DEF ReconcileClaimFails, NextClaim, server, caches, snapshot, Kept, AllRecord
  <1>16. ASSUME pc = "hold", sVmi.uid = 1, 1 \in released PROVE 1 \in Remembered
    BY <1>16 DEF Remembered
  <1>17. ASSUME Return, UNCHANGED <<claim, caches>>, Kept PROVE Kept'
    BY <1>2, <1>17, Zenon DEF Return, Kept, AllRecord, caches
  <1>18. CASE NoHolds \/ ReleaseFails
    <2>1. /\ UNCHANGED <<vmi, claim, caches>> /\ Return
          /\ released' = Remembered /\ pc = "hold"
      BY <1>18, Excluded DEF NoHolds, ReleaseFails, server
    <2> QED
      BY <1>6, <1>16, <1>17, <2>1, Zenon DEF Return, caches
  <1>19. CASE KeepHolding
    <2>1. /\ UNCHANGED <<vmi, claim, caches, snapshot>> /\ released' = Remembered /\ pc = "hold"
          /\ holds # {} /\ pc' = "write" /\ plan' = Report(Decision)
      BY <1>19, Zenon DEF KeepHolding, WriteBack, server
    <2>2. Booted /\ Seen /\ (1 \in released \/ Kept) /\ sVmi.uid = 1
      BY <1>6, <2>1, Zenon
    <2>3. Seen'
      BY <2>1, <2>2, Zenon DEF caches, snapshot
    <2>4. CASE 1 \in released
      BY <1>16, <2>1, <2>2, <2>3, <2>4, Zenon
    <2>5. CASE 1 \notin released
      <3>1. AllRecord(claim) /\ AllRecord(cClaim) /\ AllRecord(sClaim)
        BY <2>2, <2>5, Zenon DEF Kept
      <3>2. plan' = Clear
        BY <2>1, <2>2, <2>5, <3>1, RecordIsRespected, Zenon
      <3> QED
        BY <2>1, <2>3, <3>1, <3>2 DEF Kept, AllRecord, caches, snapshot, Clear
    <2> QED
      BY <2>4, <2>5, Zenon
  <1>20. ASSUME NEW c \in Claims, pc = "write", Written(c), UNCHANGED <<vmi, caches, released>>,
                1 \in released \/ claim' = claim
         PROVE  Seen' /\ (1 \in released' \/ Kept')
    <2>1. CASE Return
      BY <1>6, <1>17, <1>20, <2>1, Zenon DEF Return, caches
    <2>2. CASE UNCHANGED <<pc, holds, plan, snapshot>>
      BY <1>6, <1>20, <2>2 DEF caches, snapshot, Kept, AllRecord, Clear
    <2> QED
      BY <1>20, <2>1, <2>2, Zenon DEF Written
  <1>21. CASE WriteClaim
    <2> PICK c \in Claims : WriteClaim!(c)
      BY <1>21, Zenon DEF WriteClaim
    <2>1. ASSUME 1 \notin released PROVE claim' = claim
      <3>1. plan = Clear /\ AllRecord(sClaim) /\ sVmi.uid = 1
        BY <1>6, <2>1 DEF Kept
      <3>2. c \in holds /\ sClaim[c].live /\ sClaim[c].spec.hold
        BY Zenon DEF CopiesOfClaims, First
      <3>3. ~Stale(sClaim[c].boot)
        <4>1. sClaim[c].boot = [state |-> "Released", uid |-> 1]
          BY <3>1, <3>2, Zenon DEF AllRecord
        <4> QED
          BY <3>1, <4>1, RecordIsNotStale, Zenon
      <3> QED
        BY <3>1, <3>3, Zenon
    <2> QED
      BY <1>20, <2>1, Zenon
  <1>22. CASE WriteClaimFails
    BY <1>20, <1>22, Zenon DEF WriteClaimFails, server
  <1>23. CASE UNCHANGED vars
    BY <1>6, <1>23 DEF vars, server, caches, snapshot, position, Kept, AllRecord
  <1> QED
    BY <1>6, <1>7, <1>8, <1>9, <1>10, <1>11, <1>12, <1>13, <1>14, <1>15, <1>18, <1>19, <1>21,
       <1>22, <1>23, Excluded, Zenon
    DEF Next, Environment, Pass

\* A VM that a user pauses after its boot is not resumed by the controller, as
\* long as what happens leaves it one record of the release: its memory, or the
\* status of the claims.
THEOREM UserPausesStay ==
    ASSUME Disturbances \subseteq Survivable
    PROVE  Spec => ResumesOnlyBoots
  <1>1. "restart" \notin Disturbances /\ "unpause" \notin Disturbances
    BY DEF Survivable
  <1> DEFINE Inv == CopiesOfVm /\ CopiesOfClaims /\ ReleaseKnown
  <1>2. Init => Inv
    <2> SUFFICES ASSUME Init PROVE Inv
      OBVIOUS
    <2>1. /\ vmi = NoVmi /\ cVmi = NoVmi /\ sVmi = NoVmi /\ cTmpl = "none" /\ sTmpl = "none"
          /\ cClaim = NoClaims /\ sClaim = NoClaims /\ pc = "down" /\ holds = {}
      BY Zenon DEF Init
    <2>2. /\ NoVmi.uid = None /\ ~NoVmi.startPaused
          /\ \A c \in Claims : ~NoClaims[c].live
      BY Zenon DEF NoVmi, NoClaims, NoClaim
    <2>3. CopiesOfVm
      BY <2>1, <2>2, Zenon DEF CopiesOfVm
    <2>4. CopiesOfClaims
      BY <2>1, <2>2 DEF CopiesOfClaims
    <2>5. ReleaseKnown
      BY <2>1, <2>2 DEF ReleaseKnown, Booted
    <2> QED
      BY <2>3, <2>4, <2>5
  <1>3. TypeOK /\ PausedExists /\ OneInstance /\ Inv /\ [Next]_vars => Inv'
    BY StepVm, StepClaims, StepKnown
  <1>4. TypeOK /\ PausedExists /\ OneInstance /\ Inv /\ [Next]_vars => [Resumes => vmi.boot]_vars
    <2> SUFFICES ASSUME TypeOK, PausedExists, OneInstance, Inv, [Next]_vars, Resumes, ~vmi.boot
                 PROVE  FALSE
      OBVIOUS
    <2>1. pc = "hold" /\ holds # {} /\ Decision = "Release" /\ vmi.paused
      BY <1>1, ResumesByRelease
    <2>2. StartsPaused /\ ~AlreadyReleased /\ Held
      BY <2>1 DEF Decision
    <2>3. vmi.uid # None
      BY <2>1 DEF PausedExists
    <2>4. vmi.startPaused
      BY <2>2, <2>3, Zenon DEF StartsPaused, CopiesOfVm
    <2>5. Booted /\ sVmi.uid = 1
      BY <2>1, <2>3, <2>4, Zenon DEF Booted, ReleaseKnown
    <2>6. CASE 1 \in released
      BY <2>2, <2>5, <2>6 DEF AlreadyReleased, Remembered, None
    <2>7. CASE AllRecord(sClaim)
      BY <2>1, <2>5, <2>7, RecordIsRespected
    <2> QED
      BY <2>5, <2>6, <2>7 DEF ReleaseKnown, Kept
  <1> QED
    BY <1>1, <1>2, <1>3, <1>4, TypesHold, InstanceHolds, PTL DEF Spec, ResumesOnlyBoots
=============================================================================
