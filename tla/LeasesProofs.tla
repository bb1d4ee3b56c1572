---------------------------- MODULE LeasesProofs ----------------------------
(***************************************************************************)
(* Proofs about Leases, for any number of controllers, devices and claims  *)
(* and any number of disturbances; the last theorem is for one controller. *)
(***************************************************************************)
EXTENDS Leases, TLAPS

-----------------------------------------------------------------------------
(* Type correctness.                                                       *)

\* Marking the copies of a device as outdated keeps them copies.
LEMMA OutdateType ==
    ASSUME NEW copies \in [Controllers -> [Devices -> DeviceCopy]], NEW d \in Devices
    PROVE  Outdate(copies, d) \in [Controllers -> [Devices -> DeviceCopy]]
  BY DEF Outdate, AsCopy, DeviceCopy

\* What a reflector lists are copies.
LEMMA ListedType == TypeOK => Listed \in [Devices -> DeviceCopy]
  BY DEF TypeOK, Listed, AsCopy, DeviceCopy, DeviceRecord

\* Empty objects and empty caches are well typed.
LEMMA BlankTypes ==
    /\ NoDevice \in DeviceRecord
    /\ NoCopies \in [Devices -> DeviceCopy]
    /\ NoClaim \in ClaimRecord
    /\ NoClaims \in [Claims -> ClaimRecord]
  BY DEF NoDevice, NoCopies, NoClaim, NoClaims, AsCopy, DeviceCopy, DeviceRecord,
         ClaimRecord, Phases

\* The initial states are well typed.
LEMMA InitType == Init => TypeOK
  <1> SUFFICES ASSUME Init PROVE TypeOK
    OBVIOUS
  <1>1. dev \in [Devices -> DeviceRecord]
    BY DEF Init, DeviceRecord, Phases
  <1>2. claim \in [Claims -> ClaimRecord]
    BY BlankTypes, ConstantsAssumption, Zenon DEF Init, InitialClaims, ClaimRecord, Devices
  <1> QED
    BY <1>1, <1>2, BlankTypes, ConstantsAssumption DEF Init, TypeOK, Steps

\* Storing a device keeps the store and all copies well typed.
LEMMA StoreDeviceType ==
    ASSUME TypeOK, NEW d \in Devices, NEW rec \in DeviceRecord, StoreDevice(d, rec),
           NEW kind, Disturb(kind)
    PROVE  TypeOK'
  <1>1. /\ cDev' \in [Controllers -> [Devices -> DeviceCopy]]
        /\ lDev' \in [Controllers -> [Devices -> DeviceCopy]]
    BY OutdateType, Zenon DEF TypeOK, StoreDevice
  <1>2. dev' \in [Devices -> DeviceRecord]
    BY DEF TypeOK, StoreDevice
  <1>3. changes' \in 0..MaxChanges
    BY ConstantsAssumption DEF TypeOK, Disturb
  <1> QED
    BY <1>1, <1>2, <1>3 DEF TypeOK, StoreDevice, snapshot, position

\* Users, agents, KubeVirt and time keep the state well typed.
LEMMA EnvironmentType == TypeOK /\ Environment => TypeOK'
  <1> SUFFICES ASSUME TypeOK, Environment PROVE TypeOK'
    OBVIOUS
  <1> USE ConstantsAssumption
  <1>1. ASSUME NEW d \in Devices, NEW p \in Phases
        PROVE  WithPhase(dev[d], p) \in DeviceRecord
    BY DEF TypeOK, WithPhase, DeviceRecord
  <1>2. ASSUME NEW d \in Devices, Publish(d) PROVE TypeOK'
    BY <1>1, <1>2, StoreDeviceType DEF Publish, Phases
  <1>3. ASSUME NEW d \in Devices, MarkUnplugged(d) PROVE TypeOK'
    BY <1>1, <1>3, StoreDeviceType DEF MarkUnplugged, Phases
  <1>4. ASSUME NEW d \in Devices, DeleteDevice(d) PROVE TypeOK'
    BY <1>4, BlankTypes, StoreDeviceType DEF DeleteDevice
  <1>5. ASSUME NEW d \in Devices, HeartbeatAges(d) PROVE TypeOK'
    <2>1. dev' \in [Devices -> DeviceRecord]
      BY <1>5, <1>1 DEF HeartbeatAges, Aged, TypeOK, DeviceRecord, Phases
    <2>2. cDev' \in [Controllers -> [Devices -> DeviceCopy]]
      BY <1>5 DEF HeartbeatAges, Aged, AsCopy, WithPhase, TypeOK, DeviceCopy, Phases
    <2>3. changes' \in 0..MaxChanges
      BY <1>5 DEF HeartbeatAges, TypeOK, Disturb
    <2> QED
      BY <2>1, <2>2, <2>3, <1>5 DEF HeartbeatAges, TypeOK, snapshot, position
  <1>6. ASSUME NEW k \in Controllers, NEW d \in Devices, CachedHeartbeatAges(k, d)
        PROVE  TypeOK'
    <2>1. cDev' \in [Controllers -> [Devices -> DeviceCopy]]
      BY <1>6 DEF CachedHeartbeatAges, Aged, AsCopy, WithPhase, TypeOK, DeviceCopy, Phases
    <2>2. changes' \in 0..MaxChanges
      BY <1>6 DEF CachedHeartbeatAges, TypeOK, Disturb
    <2> QED
      BY <2>1, <2>2, <1>6, Zenon DEF CachedHeartbeatAges, TypeOK, server, snapshot, position
  <1>7. ASSUME NEW c \in Claims, CreateClaim(c) PROVE TypeOK'
    <2>1. claim' \in [Claims -> ClaimRecord]
      BY <1>7 DEF CreateClaim, LiveClaim, TypeOK, ClaimRecord, Devices
    <2>2. changes' \in 0..MaxChanges
      BY <1>7 DEF CreateClaim, TypeOK, Disturb
    <2> QED
      BY <2>1, <2>2, <1>7 DEF CreateClaim, TypeOK, caches, snapshot, position
  <1>8. ASSUME NEW c \in Claims, EditClaim(c) PROVE TypeOK'
    <2>1. claim' \in [Claims -> ClaimRecord]
      BY <1>8 DEF EditClaim, LiveClaim, TypeOK, ClaimRecord, Devices
    <2>2. changes' \in 0..MaxChanges
      BY <1>8 DEF EditClaim, TypeOK, Disturb
    <2> QED
      BY <2>1, <2>2, <1>8 DEF EditClaim, TypeOK, caches, snapshot, position
  <1>9. ASSUME NEW c \in Claims, DeleteClaim(c) PROVE TypeOK'
    <2>1. claim' \in [Claims -> ClaimRecord]
      BY <1>9, Zenon DEF DeleteClaim, TypeOK, ClaimRecord, NoClaim
    <2>2. changes' \in 0..MaxChanges
      BY <1>9 DEF DeleteClaim, TypeOK, Disturb
    <2> QED
      BY <2>1, <2>2, <1>9 DEF DeleteClaim, TypeOK, caches, snapshot, position
  <1>10. ASSUME NEW c \in Claims, ChangeVm(c) PROVE TypeOK'
    <2>1. vm' \in SUBSET Claims
      BY <1>10 DEF ChangeVm, TypeOK
    <2>2. changes' \in 0..MaxChanges
      BY <1>10 DEF ChangeVm, TypeOK, Disturb
    <2> QED
      BY <2>1, <2>2, <1>10 DEF ChangeVm, TypeOK, caches, snapshot, position
  <1> QED
    BY <1>2, <1>3, <1>4, <1>5, <1>6, <1>7, <1>8, <1>9, <1>10 DEF Environment

\* Reflectors, starts and crashes keep the state well typed.
LEMMA ProcessType ==
    ASSUME TypeOK, NEW k \in Controllers, Sync(k) \/ Start(k) \/ Crash(k)
    PROVE  TypeOK'
  <1> USE ConstantsAssumption, BlankTypes, ListedType
  <1>1. CASE SyncDevices(k)
    BY <1>1 DEF SyncDevices, TypeOK, server, snapshot, position
  <1>2. CASE SyncClaims(k)
    BY <1>2 DEF SyncClaims, TypeOK, server, snapshot, position
  <1>3. CASE SyncVms(k)
    BY <1>3 DEF SyncVms, TypeOK, server, snapshot, position
  <1>4. CASE Start(k)
    BY <1>4 DEF Start, TypeOK, server, snapshot, Steps
  <1>5. CASE Crash(k)
    <2>1. changes' \in 0..MaxChanges
      BY <1>5 DEF Crash, TypeOK, Disturb
    <2> QED
      BY <2>1, <1>5 DEF Crash, TypeOK, server, Steps
  <1> QED
    BY <1>1, <1>2, <1>3, <1>4, <1>5 DEF Sync

\* Every outcome of a guarded patch keeps the devices and their copies typed.
LEMMA CasType ==
    ASSUME TypeOK, NEW k \in Controllers, NEW d \in Devices,
           NEW stored \in DeviceRecord, NEW local \in DeviceRecord,
           \/ CasApplied(k, d, stored, local)
           \/ CasPatch(k, d, stored, local)
           \/ CasFails(k, d, stored)
           \/ CasReplyLost(k, d, stored)
           \/ UNCHANGED <<dev, cDev, lDev>>
    PROVE  /\ dev' \in [Devices -> DeviceRecord]
           /\ cDev' \in [Controllers -> [Devices -> DeviceCopy]]
           /\ lDev' \in [Controllers -> [Devices -> DeviceCopy]]
  <1>1. /\ Outdate(cDev, d) \in [Controllers -> [Devices -> DeviceCopy]]
        /\ Outdate(lDev, d) \in [Controllers -> [Devices -> DeviceCopy]]
    BY OutdateType, Zenon DEF TypeOK
  <1>2. AsCopy(local, TRUE) \in DeviceCopy
    BY DEF AsCopy, DeviceCopy, DeviceRecord
  <1>3. CASE CasApplied(k, d, stored, local)
    <2>1. [lDev[k] EXCEPT ![d] = AsCopy(local, TRUE)] \in [Devices -> DeviceCopy]
      BY <1>2, Zenon DEF TypeOK
    <2> QED
      BY <1>1, <1>3, <2>1, Zenon DEF CasApplied, TypeOK
  <1>4. CASE CasReplyLost(k, d, stored)
    BY <1>1, <1>4 DEF CasReplyLost, TypeOK
  <1>5. CASE UNCHANGED <<dev, cDev, lDev>>
    BY <1>5 DEF TypeOK
  <1> QED
    BY <1>3, <1>4, <1>5 DEF CasPatch, CasConflict, CasFails

\* The records that the pass writes are device records.
LEMMA PatchTypes ==
    ASSUME TypeOK, NEW k \in Controllers, NEW d \in Devices, NEW c \in Claims \cup {None}
    PROVE  /\ WithPhase(dev[d], "Lost") \in DeviceRecord
           /\ WithPhase(lDev[k][d], "Lost") \in DeviceRecord
           /\ WithLease(dev[d], c) \in DeviceRecord
           /\ WithLease(lDev[k][d], c) \in DeviceRecord
           /\ WithLease(dev[d], None) \in DeviceRecord
           /\ WithLease(lDev[k][d], None) \in DeviceRecord
  BY DEF TypeOK, WithPhase, WithLease, DeviceRecord, DeviceCopy, Phases

\* Moving on to the claims, or out of the pass, keeps the locals typed.
LEMMA ToClaimsType ==
    ASSUME TypeOK, NEW k \in Controllers, NEW left, ToClaims(k, left)
    PROVE  /\ pc' \in [Controllers -> Steps]
           /\ lClaim' \in [Controllers -> [Claims -> ClaimRecord]]
           /\ lVm' \in [Controllers -> SUBSET Claims]
  <1>1. CASE left # {}
    BY <1>1, Zenon DEF TypeOK, ToClaims, snapshot, Steps
  <1>2. CASE left = {}
    <2>1. /\ pc' = [pc EXCEPT ![k] = "idle"]
          /\ lClaim' = [lClaim EXCEPT ![k] = NoClaims]
          /\ lVm' = [lVm EXCEPT ![k] = {}]
      BY <1>2 DEF ToClaims
    <2>2. pc' \in [Controllers -> Steps]
      BY <2>1 DEF TypeOK, Steps
    <2>3. lClaim' \in [Controllers -> [Claims -> ClaimRecord]]
      BY <2>1, BlankTypes DEF TypeOK
    <2>4. lVm' \in [Controllers -> SUBSET Claims]
      BY <2>1 DEF TypeOK
    <2> QED
      BY <2>2, <2>3, <2>4
  <1> QED
    BY <1>1, <1>2

\* The steps of a pass keep the state well typed.
LEMMA PassType ==
    ASSUME TypeOK, NEW k \in Controllers, Pass(k) \/ PassFails(k) \/ ClaimFails(k)
    PROVE  TypeOK'
  <1> USE ConstantsAssumption
  <1>1. CASE StartPass(k)
    <2>1. changes' \in 0..MaxChanges
      BY <1>1 DEF StartPass, TypeOK, Disturb
    <2> QED
      BY <2>1, <1>1 DEF StartPass, TypeOK, server, caches, DeviceWork, Live, Steps
  <1>2. CASE EmptyPass(k)
    BY <1>2, Zenon DEF EmptyPass, vars, server, caches, snapshot, position, TypeOK
  <1>3. CASE MarkLost(k)
    <2> PICK d \in Devices : MarkLost(k)!(d)
      BY <1>3 DEF MarkLost
    <2>1. /\ dev' \in [Devices -> DeviceRecord]
          /\ cDev' \in [Controllers -> [Devices -> DeviceCopy]]
          /\ lDev' \in [Controllers -> [Devices -> DeviceCopy]]
      BY CasType, PatchTypes
    <2> QED
      BY <2>1, Zenon DEF TypeOK, snapshot, Steps
  <1>4. CASE Sweep(k)
    <2> PICK d \in Devices : Sweep(k)!(d)
      BY <1>4, Zenon DEF Sweep
    <2>1. /\ dev' \in [Devices -> DeviceRecord]
          /\ cDev' \in [Controllers -> [Devices -> DeviceCopy]]
          /\ lDev' \in [Controllers -> [Devices -> DeviceCopy]]
      BY CasType, PatchTypes
    <2>2. /\ pc' \in [Controllers -> Steps]
          /\ lClaim' \in [Controllers -> [Claims -> ClaimRecord]]
          /\ lVm' \in [Controllers -> SUBSET Claims]
      BY ToClaimsType, Zenon DEF TypeOK, snapshot, Steps
    <2> QED
      BY <2>1, <2>2, Zenon DEF TypeOK
  <1>5. CASE PassFails(k)
    <2> PICK d \in Devices : PassFails(k)!(d)
      BY <1>5, Zenon DEF PassFails
    <2>1. /\ dev' \in [Devices -> DeviceRecord]
          /\ cDev' \in [Controllers -> [Devices -> DeviceCopy]]
          /\ lDev' \in [Controllers -> [Devices -> DeviceCopy]]
      BY CasType, PatchTypes, Zenon
    <2>2. /\ pc' \in [Controllers -> Steps]
          /\ lClaim' \in [Controllers -> [Claims -> ClaimRecord]]
          /\ lVm' \in [Controllers -> SUBSET Claims]
      BY ToClaimsType
    <2>3. changes' \in 0..MaxChanges
      BY DEF TypeOK, Disturb
    <2> QED
      BY <2>1, <2>2, <2>3, Zenon DEF TypeOK
  <1>6. CASE Bind(k)
    <2> PICK c \in Claims, current \in Devices \cup {None}, d \in Devices \cup {None} :
               Bind(k)!(c, current, d)
      BY <1>6, Zenon DEF Bind
    <2>1. /\ dev' \in [Devices -> DeviceRecord]
          /\ cDev' \in [Controllers -> [Devices -> DeviceCopy]]
          /\ lDev' \in [Controllers -> [Devices -> DeviceCopy]]
      BY CasType, PatchTypes, Zenon DEF TypeOK, TakeLease, CasConflict
    <2>2. /\ target' \in [Controllers -> Devices \cup {None}]
          /\ devs' \in [Controllers -> SUBSET Devices]
          /\ pc' \in [Controllers -> Steps]
      <3>1. ASSUME NEW t \in Devices \cup {None}, Settle(k, c, t)
            PROVE  /\ target' \in [Controllers -> Devices \cup {None}]
                   /\ devs' \in [Controllers -> SUBSET Devices]
                   /\ pc' \in [Controllers -> Steps]
        <4>1. Held(k, c) \ {t} \in SUBSET Devices
          BY DEF Held
        <4>2. /\ target' = [target EXCEPT ![k] = t]
              /\ devs' = [devs EXCEPT ![k] = Held(k, c) \ {t}]
          BY <3>1 DEF Settle
        <4>3. \E p \in Steps : pc' = [pc EXCEPT ![k] = p]
          BY <3>1, Zenon DEF Settle, Steps
        <4> QED
          BY <4>1, <4>2, <4>3 DEF TypeOK
      <3> QED
        BY <3>1 DEF TakeLease
    <2> QED
      BY <2>1, <2>2, Zenon DEF TypeOK, snapshot
  <1>7. CASE ReleaseHeld(k)
    <2> PICK d \in Devices : ReleaseHeld(k)!(d)
      BY <1>7, Zenon DEF ReleaseHeld
    <2>1. /\ dev' \in [Devices -> DeviceRecord]
          /\ cDev' \in [Controllers -> [Devices -> DeviceCopy]]
          /\ lDev' \in [Controllers -> [Devices -> DeviceCopy]]
      BY CasType, PatchTypes, Zenon
    <2> QED
      BY <2>1, Zenon DEF TypeOK, snapshot, Steps
  <1>8. ASSUME NEW c \in Claims, NextClaim(k, c)
        PROVE  /\ pc' \in [Controllers -> Steps]
               /\ devs' \in [Controllers -> SUBSET Devices]
               /\ todo' \in [Controllers -> SUBSET Claims]
               /\ target' \in [Controllers -> Devices \cup {None}]
               /\ lClaim' \in [Controllers -> [Claims -> ClaimRecord]]
               /\ lVm' \in [Controllers -> SUBSET Claims]
    BY <1>8, ToClaimsType, Zenon DEF NextClaim, TypeOK
  <1>9. ASSUME NEW c \in Claims, StatusPatched(k, c)
        PROVE  claim' \in [Claims -> ClaimRecord]
    BY <1>9, Zenon DEF StatusPatched, LiveClaim, TypeOK, ClaimRecord
  <1>10. CASE WriteStatus(k)
    <2> PICK c \in Claims : WriteStatus(k)!(c)
      BY <1>10 DEF WriteStatus
    <2>1. claim' \in [Claims -> ClaimRecord]
      BY <1>9 DEF TypeOK
    <2>2. lDev' \in [Controllers -> [Devices -> DeviceCopy]]
      BY BlankTypes, Zenon DEF TypeOK
    <2> QED
      BY <1>8, <2>1, <2>2, Zenon DEF TypeOK, caches
  <1>11. CASE ClaimFails(k)
    <2> PICK c \in Claims : ClaimFails(k)!(c)
      BY <1>11, Zenon DEF ClaimFails
    <2>1. /\ dev' \in [Devices -> DeviceRecord]
          /\ cDev' \in [Controllers -> [Devices -> DeviceCopy]]
          /\ lDev' \in [Controllers -> [Devices -> DeviceCopy]]
      BY CasType, PatchTypes, Zenon DEF TypeOK
    <2>2. claim' \in [Claims -> ClaimRecord]
      BY <1>9 DEF TypeOK
    <2>3. changes' \in 0..MaxChanges
      BY DEF TypeOK, Disturb
    <2> QED
      BY <1>8, <2>1, <2>2, <2>3, Zenon DEF TypeOK
  <1> QED
    BY <1>1, <1>2, <1>3, <1>4, <1>5, <1>6, <1>7, <1>10, <1>11, Zenon DEF Pass

\* The controller never leaves the state space it is written for, whatever
\* the environment does.
THEOREM TypeCorrect == Spec => []TypeOK
  <1>1. TypeOK /\ [Next]_vars => TypeOK'
    <2> SUFFICES ASSUME TypeOK, [Next]_vars PROVE TypeOK'
      OBVIOUS
    <2>1. CASE UNCHANGED vars
      BY <2>1 DEF vars, server, caches, snapshot, position, TypeOK
    <2> QED
      BY <2>1, EnvironmentType, ProcessType, PassType DEF Next
  <1> QED
    BY InitType, <1>1, PTL DEF Spec

-----------------------------------------------------------------------------
(* Current copies agree with the server.                                   *)

\* A copy that counts as current shows the stored lease, and the stored phase
\* as of the `now` it was read at.
Agrees(copy, rec) ==
    copy.cur => /\ copy.lease = rec.lease
                /\ copy.phase = rec.phase \/ (copy.phase = "Available" /\ rec.phase = "Expired")

\* What the bookkeeping of resourceVersions in `cur` gives every later proof.
CopiesAgree ==
    \A k \in Controllers, d \in Devices :
        Agrees(cDev[k][d], dev[d]) /\ Agrees(lDev[k][d], dev[d])

\* Copies of all controllers agree with a store.
AllAgree(copies, store) ==
    \A k \in Controllers, d \in Devices : Agrees(copies[k][d], store[d])

\* Replacing a device is safe once its copies are outdated.
LEMMA OutdateAgrees ==
    ASSUME NEW copies \in [Controllers -> [Devices -> DeviceCopy]],
           NEW store \in [Devices -> DeviceRecord],
           NEW d \in Devices, NEW rec \in DeviceRecord, AllAgree(copies, store)
    PROVE  AllAgree(Outdate(copies, d), [store EXCEPT ![d] = rec])
  <1> SUFFICES ASSUME NEW k \in Controllers, NEW e \in Devices
               PROVE  Agrees(Outdate(copies, d)[k][e], [store EXCEPT ![d] = rec][e])
    BY Zenon DEF AllAgree
  <1>1. CASE e = d
    <2>1. Outdate(copies, d)[k][e] = AsCopy(copies[k][d], FALSE)
      BY <1>1, Zenon DEF Outdate
    <2> QED
      BY <2>1 DEF Agrees, AsCopy
  <1>2. CASE e # d
    <2>1. Outdate(copies, d)[k][e] = copies[k][e]
      BY <1>2 DEF Outdate
    <2>2. [store EXCEPT ![d] = rec][e] = store[e]
      BY <1>2
    <2> QED
      BY <2>1, <2>2 DEF AllAgree
  <1> QED
    BY <1>1, <1>2

\* Every outcome of a guarded patch keeps current copies right, if what the
\* pass keeps is what the server stored.
LEMMA CasAgrees ==
    ASSUME TypeOK, CopiesAgree, NEW k \in Controllers, NEW d \in Devices,
           NEW stored \in DeviceRecord, NEW local \in DeviceRecord,
           Agrees(AsCopy(local, TRUE), stored) \/ ~lDev[k][d].cur,
           \/ lDev[k][d].cur /\ CasApplied(k, d, stored, local)
           \/ CasPatch(k, d, stored, local)
           \/ CasFails(k, d, stored)
           \/ CasReplyLost(k, d, stored)
           \/ UNCHANGED <<dev, cDev, lDev>>
    PROVE  CopiesAgree'
  <1>1. AllAgree(cDev, dev) /\ AllAgree(lDev, dev)
    BY DEF CopiesAgree, AllAgree
  <1>2. /\ AllAgree(Outdate(cDev, d), [dev EXCEPT ![d] = stored])
        /\ AllAgree(Outdate(lDev, d), [dev EXCEPT ![d] = stored])
    BY <1>1, OutdateAgrees, Zenon DEF TypeOK
  <1>3. CASE lDev[k][d].cur /\ CasApplied(k, d, stored, local)
    <2>1. AllAgree(cDev', dev')
      BY <1>2, <1>3, Zenon DEF CasApplied
    <2>2. ASSUME NEW j \in Controllers, NEW e \in Devices
          PROVE  Agrees(lDev'[j][e], dev'[e])
      <3>1. CASE j # k
        <4>1. lDev'[j] = Outdate(lDev, d)[j] /\ dev' = [dev EXCEPT ![d] = stored]
          BY <1>3, <3>1, Zenon DEF CasApplied, Outdate
        <4> QED
          BY <4>1, <1>2 DEF AllAgree
      <3>2. CASE j = k /\ e = d
        <4>1. lDev'[j][e] = AsCopy(local, TRUE) /\ dev'[e] = stored
          BY <1>3, <3>2, Zenon DEF CasApplied, Outdate, TypeOK
        <4> QED
          BY <4>1, <1>3, Zenon
      <3>3. CASE j = k /\ e # d
        <4>1. lDev'[j][e] = lDev[j][e] /\ dev'[e] = dev[e]
          BY <1>3, <3>3, Zenon DEF CasApplied, Outdate, TypeOK
        <4> QED
          BY <4>1, <1>1, Zenon DEF AllAgree
      <3> QED
        BY <3>1, <3>2, <3>3, Zenon
    <2> QED
      BY <2>1, <2>2 DEF AllAgree, CopiesAgree
  <1>4. CASE CasReplyLost(k, d, stored)
    BY <1>2, <1>4, Zenon DEF CasReplyLost, CopiesAgree, AllAgree
  <1>5. CASE UNCHANGED <<dev, cDev, lDev>>
    BY <1>5, Zenon DEF CopiesAgree
  <1> QED
    BY <1>3, <1>4, <1>5, Zenon DEF CasPatch, CasConflict, CasFails

\* What the pass keeps after a patch agrees with what the server stores.
LEMMA PatchAgrees ==
    ASSUME TypeOK, CopiesAgree, NEW k \in Controllers, NEW d \in Devices,
           lDev[k][d].cur, NEW c
    PROVE  /\ Agrees(AsCopy(WithPhase(lDev[k][d], "Lost"), TRUE), WithPhase(dev[d], "Lost"))
           /\ Agrees(AsCopy(WithLease(lDev[k][d], c), TRUE), WithLease(dev[d], c))
  BY DEF CopiesAgree, Agrees, AsCopy, WithPhase, WithLease

\* The environment leaves current copies right.
LEMMA EnvironmentAgrees == TypeOK /\ CopiesAgree /\ Environment => CopiesAgree'
  <1> SUFFICES ASSUME TypeOK, CopiesAgree, Environment PROVE CopiesAgree'
    OBVIOUS
  <1>1. ASSUME NEW d \in Devices, NEW rec \in DeviceRecord, StoreDevice(d, rec)
        PROVE  CopiesAgree'
    <2>1. AllAgree(cDev, dev) /\ AllAgree(lDev, dev)
      BY DEF CopiesAgree, AllAgree
    <2>2. AllAgree(cDev', dev') /\ AllAgree(lDev', dev')
      BY <1>1, <2>1, OutdateAgrees, Zenon DEF TypeOK, StoreDevice
    <2> QED
      BY <2>2 DEF AllAgree, CopiesAgree
  <1>2. ASSUME NEW d \in Devices, NEW p \in Phases
        PROVE  WithPhase(dev[d], p) \in DeviceRecord
    BY Zenon DEF TypeOK, WithPhase, DeviceRecord
  <1>3. ASSUME NEW d \in Devices, Publish(d) \/ MarkUnplugged(d) \/ DeleteDevice(d)
        PROVE  CopiesAgree'
    BY <1>1, <1>2, <1>3, BlankTypes DEF Publish, MarkUnplugged, DeleteDevice, Phases
  <1>4. ASSUME NEW d \in Devices, HeartbeatAges(d) PROVE CopiesAgree'
    <2> SUFFICES ASSUME NEW k \in Controllers, NEW e \in Devices
                 PROVE  Agrees(cDev'[k][e], dev'[e]) /\ Agrees(lDev'[k][e], dev'[e])
      BY Zenon DEF CopiesAgree
    <2>1. Agrees(cDev[k][e], dev[e]) /\ Agrees(lDev[k][e], dev[e]) /\ lDev' = lDev
      BY <1>4, Zenon DEF CopiesAgree, HeartbeatAges
    <2>2. CASE e = d
      <3>1. /\ cDev'[k][e] = AsCopy(Aged(cDev[k][e]), cDev[k][e].cur)
            /\ dev'[e] = [phase |-> "Expired", lease |-> dev[e].lease]
            /\ dev[e].phase = "Available"
        BY <1>4, <2>2, Zenon DEF HeartbeatAges, Aged, WithPhase, TypeOK
      <3> QED
        BY <2>1, <3>1 DEF Agrees, AsCopy, Aged, WithPhase
    <2>3. CASE e # d
      <3>1. cDev'[k][e] = cDev[k][e] /\ dev'[e] = dev[e]
        BY <1>4, <2>3 DEF HeartbeatAges, TypeOK
      <3> QED
        BY <2>1, <3>1, Zenon
    <2> QED
      BY <2>2, <2>3, Zenon
  <1>5. ASSUME NEW j \in Controllers, NEW d \in Devices, CachedHeartbeatAges(j, d)
        PROVE  CopiesAgree'
    <2> SUFFICES ASSUME NEW k \in Controllers, NEW e \in Devices
                 PROVE  Agrees(cDev'[k][e], dev[e])
      BY <1>5, Zenon DEF CopiesAgree, CachedHeartbeatAges, server
    <2>1. Agrees(cDev[k][e], dev[e])
      BY Zenon DEF CopiesAgree
    <2>2. CASE k = j /\ e = d
      <3>1. cDev'[k][e] = AsCopy(Aged(cDev[k][e]), FALSE)
        BY <1>5, <2>2, Zenon DEF CachedHeartbeatAges, TypeOK
      <3> QED
        BY <3>1 DEF Agrees, AsCopy
    <2>3. CASE k # j \/ e # d
      <3>1. cDev'[k][e] = cDev[k][e]
        BY <1>5, <2>3, Zenon DEF CachedHeartbeatAges, TypeOK
      <3> QED
        BY <2>1, <3>1
    <2> QED
      BY <2>2, <2>3
  <1>6. ASSUME NEW c \in Claims,
               CreateClaim(c) \/ EditClaim(c) \/ DeleteClaim(c) \/ ChangeVm(c)
        PROVE  CopiesAgree'
    BY <1>6 DEF CreateClaim, EditClaim, DeleteClaim, ChangeVm, caches, CopiesAgree
  <1> QED
    BY <1>3, <1>4, <1>5, <1>6 DEF Environment

\* A reflector that catches up has current copies; a restart forgets them.
LEMMA ProcessAgrees ==
    ASSUME TypeOK, CopiesAgree, NEW k \in Controllers, Sync(k) \/ Start(k) \/ Crash(k)
    PROVE  CopiesAgree'
  <1>1. ASSUME NEW d \in Devices
        PROVE  Agrees(Listed[d], dev[d]) /\ Agrees(NoCopies[d], dev[d])
    BY DEF Agrees, Listed, NoCopies, AsCopy
  <1>2. CASE SyncDevices(k) \/ Start(k)
    BY <1>1, <1>2, Zenon DEF SyncDevices, Start, server, CopiesAgree, TypeOK
  <1>3. CASE SyncClaims(k) \/ SyncVms(k)
    BY <1>3, Zenon DEF SyncClaims, SyncVms, server, CopiesAgree
  <1>4. CASE Crash(k)
    BY <1>1, <1>4 DEF Crash, server, CopiesAgree, TypeOK
  <1> QED
    BY <1>2, <1>3, <1>4, Zenon DEF Sync

\* A pass copies the cache, and its own writes keep its copies right.
LEMMA PassAgrees ==
    ASSUME TypeOK, CopiesAgree, NEW k \in Controllers,
           Pass(k) \/ PassFails(k) \/ ClaimFails(k)
    PROVE  CopiesAgree'
  <1>1. CASE StartPass(k)
    BY <1>1, Zenon DEF StartPass, server, caches, CopiesAgree, TypeOK
  <1>2. CASE EmptyPass(k)
    BY <1>2 DEF EmptyPass, vars, server, caches, CopiesAgree
  <1>3. CASE MarkLost(k)
    <2>1. PICK d \in Devices :
            \/ CasPatch(k, d, WithPhase(dev[d], "Lost"), WithPhase(lDev[k][d], "Lost"))
            \/ UNCHANGED <<dev, cDev, lDev>>
      BY <1>3, Zenon DEF MarkLost
    <2> QED
      BY <2>1, CasAgrees, PatchTypes, PatchAgrees, Zenon
  <1>4. CASE Sweep(k)
    <2>1. PICK d \in Devices :
            \/ CasPatch(k, d, WithLease(dev[d], None), WithLease(lDev[k][d], None))
            \/ UNCHANGED <<dev, cDev, lDev>>
      BY <1>4, Zenon DEF Sweep
    <2> QED
      BY <2>1, CasAgrees, PatchTypes, PatchAgrees, Zenon
  <1>5. CASE PassFails(k)
    BY <1>5, CasAgrees, PatchTypes, PatchAgrees, Zenon DEF PassFails
  <1>6. CASE Bind(k)
    <2> PICK c \in Claims, current \in Devices \cup {None}, d \in Devices \cup {None} :
               Bind(k)!(c, current, d)
      BY <1>6, Zenon DEF Bind
    <2>1. CASE UNCHANGED <<dev, cDev, lDev>>
      BY <2>1 DEF CopiesAgree
    <2>2. CASE /\ d \in Devices /\ lDev[k][d].cur
               /\ CasApplied(k, d, WithLease(dev[d], c), WithLease(lDev[k][d], c))
      BY <2>2, CasAgrees, PatchTypes, PatchAgrees, Zenon
    <2> QED
      BY <2>1, <2>2, Zenon DEF TakeLease, CasConflict
  <1>7. CASE ReleaseHeld(k)
    BY <1>7, CasAgrees, PatchTypes, PatchAgrees, Zenon DEF ReleaseHeld
  <1>8. CASE WriteStatus(k)
    <2>1. ASSUME NEW d \in Devices PROVE Agrees(NoCopies[d], dev[d])
      BY Zenon DEF Agrees, NoCopies, AsCopy
    <2> QED
      BY <1>8, <2>1 DEF WriteStatus, caches, CopiesAgree, TypeOK
  <1>9. CASE ClaimFails(k)
    <2> PICK c \in Claims : ClaimFails(k)!(c)
      BY <1>9, Zenon DEF ClaimFails
    <2>1. CASE UNCHANGED <<dev, cDev, lDev>>
      BY <2>1, Zenon DEF CopiesAgree
    <2>2. CASE \E d \in Devices : \/ CasReplyLost(k, d, WithLease(dev[d], c))
                                  \/ CasFails(k, d, WithLease(dev[d], None))
      BY <2>2, CasAgrees, PatchTypes, PatchAgrees, Zenon
    <2> QED
      BY <2>1, <2>2, Zenon
  <1> QED
    BY <1>1, <1>2, <1>3, <1>4, <1>5, <1>6, <1>7, <1>8, <1>9, Zenon DEF Pass

\* Every step keeps current copies right.
LEMMA StepAgrees == TypeOK /\ CopiesAgree /\ [Next]_vars => CopiesAgree'
  <1> SUFFICES ASSUME TypeOK, CopiesAgree, [Next]_vars PROVE CopiesAgree'
    OBVIOUS
  <1>1. CASE UNCHANGED vars
    BY <1>1 DEF vars, server, caches, CopiesAgree
  <1> QED
    BY <1>1, EnvironmentAgrees, ProcessAgrees, PassAgrees DEF Next

\* A copy with the stored resourceVersion shows the stored lease and phase.
LEMMA CurrentCopiesAgree == Spec => []CopiesAgree
  <1>1. Init => CopiesAgree
    BY DEF Init, CopiesAgree, NoCopies, Agrees, AsCopy
  <1> QED
    BY <1>1, StepAgrees, TypeCorrect, PTL DEF Spec

-----------------------------------------------------------------------------
(* The controller implements ExclusiveLease.                               *)

\* The holder of every device, as the abstract specification sees it.
Holder == [d \in Devices |-> dev[d].lease]

\* Storing one device is an abstract step if it keeps the lease, drops it, or
\* fills a free one.
LEMMA StoreIsLeaseStep ==
    ASSUME TypeOK, NEW d \in Devices, NEW rec \in DeviceRecord,
           dev' = [dev EXCEPT ![d] = rec],
           rec.lease = dev[d].lease \/ rec.lease = None \/ dev[d].lease = None
    PROVE  [Lease!Next]_Holder
  <1>1. Holder' = [Holder EXCEPT ![d] = rec.lease]
    BY Zenon DEF Holder, TypeOK
  <1>2. Holder[d] = dev[d].lease
    BY DEF Holder
  <1>3. CASE rec.lease = dev[d].lease
    <2>1. Holder' = Holder
      BY <1>1, <1>2, <1>3 DEF Holder
    <2> QED
      BY <2>1
  <1>4. CASE rec.lease = None /\ dev[d].lease # None
    <2>1. Lease!Release(d)
      BY <1>1, <1>2, <1>4 DEF Lease!Release, Holder
    <2> QED
      BY <2>1 DEF Lease!Next
  <1>5. CASE dev[d].lease = None /\ rec.lease # None
    <2>1. rec.lease \in Claims
      BY <1>5 DEF DeviceRecord
    <2>2. Lease!Acquire(d, rec.lease)
      BY <1>1, <1>2, <1>5, Zenon DEF Lease!Acquire, Holder
    <2> QED
      BY <2>1, <2>2 DEF Lease!Next
  <1> QED
    BY <1>3, <1>4, <1>5

\* A candidate that the server still stores as the pass read it is free.
LEMMA CandidateIsFree ==
    ASSUME TypeOK, CopiesAgree, NEW k \in Controllers, NEW c \in Claims, NEW current,
           NEW d \in Devices, IsCandidate(k, c, current, d), lDev[k][d].cur
    PROVE  dev[d].lease = None
  <1>1. d # None
    BY ConstantsAssumption DEF Devices, None
  <1>2. lDev[k][d].lease = None
    BY <1>1, Zenon DEF IsCandidate, Wanted
  <1> QED
    BY <1>2, Zenon DEF CopiesAgree, Agrees

\* Every step leaves the devices alone or stores one of them, in a way the
\* lease and the Lost phase allow.
LEMMA StoreShape ==
    ASSUME TypeOK, CopiesAgree, [Next]_vars
    PROVE  \/ dev' = dev
           \/ \E d \in Devices, rec \in DeviceRecord :
                /\ dev' = [dev EXCEPT ![d] = rec]
                /\ rec.lease = dev[d].lease \/ rec.lease = None \/ dev[d].lease = None
                /\ rec.phase = "Lost" => dev[d].phase \in {"Lost", "Expired"}
  <1> DEFINE Shape(d, rec) ==
               /\ dev' = [dev EXCEPT ![d] = rec]
               /\ rec.lease = dev[d].lease \/ rec.lease = None \/ dev[d].lease = None
               /\ rec.phase = "Lost" => dev[d].phase \in {"Lost", "Expired"}
  <1> DEFINE Good == dev' = dev \/ \E d \in Devices, rec \in DeviceRecord : Shape(d, rec)
  <1> SUFFICES Good
    OBVIOUS
  <1>1. ASSUME NEW d \in Devices, NEW p \in {"Available", "Unplugged", "Expired"},
               dev' = [dev EXCEPT ![d] = WithPhase(dev[d], p)]
        PROVE  Good
    <2>1. WithPhase(dev[d], p) \in DeviceRecord
      BY DEF WithPhase, TypeOK, DeviceRecord, Phases
    <2>2. Shape(d, WithPhase(dev[d], p))
      BY <1>1 DEF WithPhase
    <2> QED
      BY <2>1, <2>2, Zenon
  <1>2. ASSUME NEW k \in Controllers, NEW d \in Devices, NeedsLost(lDev[k][d]), lDev[k][d].cur,
               dev' = [dev EXCEPT ![d] = WithPhase(dev[d], "Lost")]
        PROVE  Good
    <2>1. WithPhase(dev[d], "Lost") \in DeviceRecord
      BY Zenon DEF WithPhase, TypeOK, DeviceRecord, Phases
    <2>2. dev[d].phase = "Expired"
      BY <1>2 DEF NeedsLost, CopiesAgree, Agrees
    <2>3. Shape(d, WithPhase(dev[d], "Lost"))
      BY <1>2, <2>2 DEF WithPhase
    <2> QED
      BY <2>1, <2>3, Zenon
  <1>3. ASSUME NEW d \in Devices, NEW c \in Claims \cup {None}, c = None \/ dev[d].lease = None,
               dev' = [dev EXCEPT ![d] = WithLease(dev[d], c)]
        PROVE  Good
    <2>1. WithLease(dev[d], c) \in DeviceRecord
      BY DEF WithLease, TypeOK, DeviceRecord
    <2>2. Shape(d, WithLease(dev[d], c))
      BY <1>3 DEF WithLease
    <2> QED
      BY <2>1, <2>2, Zenon
  <1>4. CASE UNCHANGED vars
    BY <1>4, Zenon DEF vars, server
  <1>5. CASE Environment
    <2>1. ASSUME NEW d \in Devices, Publish(d) \/ MarkUnplugged(d) PROVE Good
      BY <1>1, <2>1 DEF Publish, MarkUnplugged, StoreDevice
    <2>2. ASSUME NEW d \in Devices, DeleteDevice(d) PROVE Good
      <3>1. Shape(d, NoDevice)
        BY <2>2 DEF DeleteDevice, StoreDevice, NoDevice
      <3> QED
        BY <3>1, BlankTypes, Zenon
    <2>3. ASSUME NEW d \in Devices, HeartbeatAges(d) PROVE Good
      BY <1>1, <2>3, Zenon DEF HeartbeatAges, Aged
    <2>4. ASSUME NEW k \in Controllers, NEW d \in Devices, CachedHeartbeatAges(k, d) PROVE Good
      BY <2>4 DEF CachedHeartbeatAges, server
    <2>5. ASSUME NEW c \in Claims,
                 CreateClaim(c) \/ EditClaim(c) \/ DeleteClaim(c) \/ ChangeVm(c)
          PROVE  Good
      BY <2>5, Zenon DEF CreateClaim, EditClaim, DeleteClaim, ChangeVm
    <2> QED
      BY <1>5, <2>1, <2>2, <2>3, <2>4, <2>5, Zenon DEF Environment
  <1>6. ASSUME NEW k \in Controllers, Sync(k) \/ Start(k) \/ Crash(k) PROVE Good
    BY <1>6, Zenon DEF Sync, SyncDevices, SyncClaims, SyncVms, Start, Crash, server
  <1>7. ASSUME NEW k \in Controllers, StartPass(k) \/ EmptyPass(k) \/ WriteStatus(k) PROVE Good
    BY <1>7 DEF StartPass, EmptyPass, WriteStatus, vars, server
  <1>8. ASSUME NEW k \in Controllers, MarkLost(k) PROVE Good
    BY <1>2, <1>8, Zenon DEF MarkLost, CasPatch, CasApplied, CasConflict
  <1>9. ASSUME NEW k \in Controllers, Sweep(k) \/ ReleaseHeld(k) PROVE Good
    BY <1>3, <1>9, Zenon DEF Sweep, ReleaseHeld, CasPatch, CasApplied, CasConflict
  <1>10. ASSUME NEW k \in Controllers, PassFails(k) PROVE Good
    BY <1>2, <1>3, <1>10, Zenon DEF PassFails, CasFails, CasReplyLost
  <1>11. ASSUME NEW k \in Controllers, Bind(k) PROVE Good
    <2> PICK c \in Claims, current \in Devices \cup {None}, d \in Devices \cup {None} :
               Bind(k)!(c, current, d)
      BY <1>11, Zenon DEF Bind
    <2>1. CASE /\ d \in Devices /\ lDev[k][d].cur
               /\ CasApplied(k, d, WithLease(dev[d], c), WithLease(lDev[k][d], c))
      <3>1. dev[d].lease = None
        BY <2>1, CandidateIsFree, Zenon
      <3> QED
        BY <2>1, <3>1, <1>3, Zenon DEF CasApplied
    <2> QED
      BY <2>1, Zenon DEF TakeLease, CasConflict
  <1>12. ASSUME NEW k \in Controllers, ClaimFails(k) PROVE Good
    <2> PICK c \in Claims : ClaimFails(k)!(c)
      BY <1>12, Zenon DEF ClaimFails
    <2>1. CASE \E current \in Devices \cup {None}, d \in Devices :
                 /\ IsCandidate(k, c, current, d)
                 /\ CasReplyLost(k, d, WithLease(dev[d], c))
      <3> PICK current \in Devices \cup {None}, d \in Devices :
                 /\ IsCandidate(k, c, current, d)
                 /\ CasReplyLost(k, d, WithLease(dev[d], c))
        BY <2>1, Zenon
      <3>1. dev[d].lease = None
        BY CandidateIsFree DEF CasReplyLost
      <3> QED
        BY <3>1, <1>3, Zenon DEF CasReplyLost
    <2>2. CASE \E d \in Devices : CasFails(k, d, WithLease(dev[d], None))
      BY <2>2, <1>3, Zenon DEF CasFails, CasReplyLost
    <2> QED
      BY <2>1, <2>2, Zenon
  <1> QED
    BY <1>4, <1>5, <1>6, <1>7, <1>8, <1>9, <1>10, <1>11, <1>12, Zenon DEF Next, Pass

\* However many controllers run on whatever caches, a device is leased to one
\* claim at a time, and the lease never moves on without being released.
THEOREM LeaseRefinement == Spec => LeaseSpec
  <1>1. Init => Lease!Init
    BY DEF Init, Lease!Init
  <1>2. TypeOK /\ CopiesAgree /\ [Next]_vars => [Lease!Next]_Holder
    <2> SUFFICES ASSUME TypeOK, CopiesAgree, [Next]_vars PROVE [Lease!Next]_Holder
      OBVIOUS
    <2>1. CASE dev' = dev
      BY <2>1 DEF Holder
    <2>2. CASE \E d \in Devices, rec \in DeviceRecord :
                 /\ dev' = [dev EXCEPT ![d] = rec]
                 /\ rec.lease = dev[d].lease \/ rec.lease = None \/ dev[d].lease = None
      BY <2>2, StoreIsLeaseStep, Zenon
    <2> QED
      BY <2>1, <2>2, StoreShape
  <1> QED
    BY <1>1, <1>2, TypeCorrect, CurrentCopiesAgree, PTL DEF Spec, LeaseSpec, Lease!Spec, Holder

\* No controller declares a device Lost whose agent has been heard from since.
THEOREM NeverLostWhileHeard == Spec => LostOnlyIfSilent
  <1>1. TypeOK /\ CopiesAgree /\ [Next]_vars =>
          [\A d \in Devices :
             (dev[d].phase # "Lost" /\ dev'[d].phase = "Lost") => dev[d].phase = "Expired"]_vars
    BY StoreShape, Zenon DEF TypeOK
  <1> QED
    BY <1>1, TypeCorrect, CurrentCopiesAgree, PTL DEF Spec, LostOnlyIfSilent

-----------------------------------------------------------------------------
(* Leases end by their owner or by its death.                              *)

\* A user has created the claim, as far as these claims tell; and deleted it.
Born(claims, c) == claims[c].st # "unborn"
Gone(claims, c) == claims[c].st = "gone"

\* A pass is not ahead of its cache, and the cache not ahead of the server.
Following ==
    \A k \in Controllers, c \in Claims :
        /\ Born(lClaim[k], c) => Born(cClaim[k], c)
        /\ Born(cClaim[k], c) => Born(claim, c)
        /\ Gone(lClaim[k], c) \/ Gone(cClaim[k], c) => Gone(claim, c)

\* A pass works on claims that it has found alive.
Working == \A k \in Controllers : todo[k] \subseteq Live(lClaim[k])

\* What a reconcile releases was its own claim's when the pass read it.
Releasing ==
    \A k \in Controllers :
        pc[k] = "release" =>
          \E c \in Claims : First(todo[k], c) /\ \A d \in devs[k] : lDev[k][d].lease = c

\* The cache knows the claim of every lease, and so does a pass that sweeps.
Informed ==
    \A d \in Devices :
        dev[d].lease # None =>
          /\ Born(claim, dev[d].lease)
          /\ \A k \in Controllers :
               /\ pc[k] # "down" => Born(cClaim[k], dev[d].lease)
               /\ pc[k] \in {"lost", "sweep"} => Born(lClaim[k], dev[d].lease)

\* A claim is created and deleted once.
LEMMA ClaimsGoOn ==
    ASSUME TypeOK, [Next]_vars, NEW c \in Claims
    PROVE  (Born(claim, c) => Born(claim, c)') /\ (Gone(claim, c) => Gone(claim, c)')
  <1> USE DEF Born, Gone
  <1>1. CASE claim' = claim
    BY <1>1, Zenon
  <1>2. ASSUME NEW b \in Claims, CreateClaim(b) \/ EditClaim(b) \/ DeleteClaim(b)
        PROVE  (Born(claim, c) => Born(claim, c)') /\ (Gone(claim, c) => Gone(claim, c)')
    <2>1. ASSUME NEW rec, claim' = [claim EXCEPT ![b] = rec],
                 rec.st = "gone" \/ (rec.st = "live" /\ claim[b].st # "gone")
          PROVE  (Born(claim, c) => Born(claim, c)') /\ (Gone(claim, c) => Gone(claim, c)')
      BY <2>1, Zenon DEF TypeOK
    <2>2. \A s, v, e : LiveClaim(s, v, e).st = "live"
      BY DEF LiveClaim
    <2>3. [NoClaim EXCEPT !.st = "gone"].st = "gone"
      BY Zenon DEF NoClaim
    <2>4. CASE CreateClaim(b)
      <3> PICK s \in Selectors, v \in BOOLEAN : claim' = [claim EXCEPT ![b] = LiveClaim(s, v, None)]
        BY <2>4, Zenon DEF CreateClaim
      <3>1. claim[b].st # "gone"
        BY <2>4, Zenon DEF CreateClaim
      <3> QED
        BY <2>1, <2>2, <3>1
    <2>5. CASE EditClaim(b)
      <3> PICK s \in Selectors, v \in BOOLEAN :
                 claim' = [claim EXCEPT ![b] = LiveClaim(s, v, claim[b].device)]
        BY <2>5, Zenon DEF EditClaim
      <3>1. claim[b].st # "gone"
        BY <2>5 DEF EditClaim
      <3> QED
        BY <2>1, <2>2, <3>1
    <2>6. CASE DeleteClaim(b)
      BY <2>1, <2>3, <2>6, Zenon DEF DeleteClaim
    <2> QED
      BY <1>2, <2>4, <2>5, <2>6, Zenon
  <1>3. ASSUME NEW k \in Controllers, NEW b \in Claims, StatusPatched(k, b)
        PROVE  (Born(claim, c) => Born(claim, c)') /\ (Gone(claim, c) => Gone(claim, c)')
    BY <1>3 DEF TypeOK, StatusPatched, LiveClaim
  <1>4. CASE Environment
    BY <1>1, <1>2, <1>4, Zenon
       DEF Environment, Publish, MarkUnplugged, DeleteDevice, StoreDevice, HeartbeatAges,
           CachedHeartbeatAges, ChangeVm, server
  <1>5. ASSUME NEW k \in Controllers, Sync(k) \/ Start(k) \/ Crash(k) \/ StartPass(k) \/ EmptyPass(k)
        PROVE  claim' = claim
    BY <1>5, Zenon DEF Sync, SyncDevices, SyncClaims, SyncVms, Start, Crash, StartPass, EmptyPass, server, vars
  <1>6. ASSUME NEW k \in Controllers,
               MarkLost(k) \/ Sweep(k) \/ PassFails(k) \/ Bind(k) \/ ReleaseHeld(k)
        PROVE  claim' = claim
    BY <1>6, Zenon DEF MarkLost, Sweep, PassFails, Bind, ReleaseHeld
  <1>7. ASSUME NEW k \in Controllers, WriteStatus(k) \/ ClaimFails(k)
        PROVE  claim' = claim \/ \E b \in Claims : StatusPatched(k, b)
    BY <1>7, Zenon DEF WriteStatus, ClaimFails
  <1>8. CASE UNCHANGED vars
    BY <1>1, <1>8 DEF vars, server
  <1> QED
    BY <1>1, <1>3, <1>4, <1>5, <1>6, <1>7, <1>8, Zenon DEF Next, Pass

\* What a step does to a controller's cached claims and to its pass.
LEMMA PassSteps ==
    ASSUME TypeOK, [Next]_vars, NEW k \in Controllers
    PROVE  /\ \/ cClaim'[k] = cClaim[k] /\ lClaim'[k] \in {lClaim[k], cClaim[k], NoClaims}
              \/ cClaim'[k] = claim /\ claim' = claim /\ lClaim'[k] = lClaim[k]
              \/ cClaim'[k] = NoClaims /\ lClaim'[k] = NoClaims
           /\ \/ todo'[k] = {} \/ todo'[k] = Live(lClaim'[k])
              \/ todo'[k] \subseteq todo[k] /\ lClaim'[k] = lClaim[k]
           /\ pc'[k] # "down" => \/ pc[k] # "down" /\ cClaim'[k] = cClaim[k]
                                 \/ cClaim'[k] = claim /\ claim' = claim
           /\ pc'[k] \in {"lost", "sweep"} =>
                \/ pc[k] \in {"lost", "sweep"} /\ lClaim'[k] = lClaim[k]
                \/ pc[k] = "idle" /\ lClaim'[k] = cClaim[k]
  <1> DEFINE Goal ==
           /\ \/ cClaim'[k] = cClaim[k] /\ lClaim'[k] \in {lClaim[k], cClaim[k], NoClaims}
              \/ cClaim'[k] = claim /\ claim' = claim /\ lClaim'[k] = lClaim[k]
              \/ cClaim'[k] = NoClaims /\ lClaim'[k] = NoClaims
           /\ \/ todo'[k] = {} \/ todo'[k] = Live(lClaim'[k])
              \/ todo'[k] \subseteq todo[k] /\ lClaim'[k] = lClaim[k]
           /\ pc'[k] # "down" => \/ pc[k] # "down" /\ cClaim'[k] = cClaim[k]
                                 \/ cClaim'[k] = claim /\ claim' = claim
           /\ pc'[k] \in {"lost", "sweep"} =>
                \/ pc[k] \in {"lost", "sweep"} /\ lClaim'[k] = lClaim[k]
                \/ pc[k] = "idle" /\ lClaim'[k] = cClaim[k]
  <1> SUFFICES Goal
    BY Zenon
  <1>1. CASE UNCHANGED <<cClaim, lClaim, position>>
    BY <1>1, Zenon DEF position
  <1>2. CASE UNCHANGED vars \/ Environment
    <2>1. UNCHANGED <<cClaim, lClaim, position>>
      BY <1>2, Zenon
         DEF Environment, Publish, MarkUnplugged, DeleteDevice, StoreDevice, HeartbeatAges,
             CachedHeartbeatAges, CreateClaim, EditClaim, DeleteClaim, ChangeVm, caches, snapshot,
             vars
    <2> QED
      BY <1>1, <2>1
  <1>3. ASSUME NEW j \in Controllers, SyncDevices(j) \/ SyncVms(j) \/ EmptyPass(j)
        PROVE  Goal
    <2>1. UNCHANGED <<cClaim, lClaim, position>>
      BY <1>3, Zenon DEF SyncDevices, SyncVms, EmptyPass, caches, snapshot, vars
    <2> QED
      BY <1>1, <2>1
  <1>4. ASSUME NEW j \in Controllers, SyncClaims(j)
        PROVE  Goal
    BY <1>4, Zenon DEF SyncClaims, TypeOK, server, snapshot, position
  <1>5. ASSUME NEW j \in Controllers, Start(j)
        PROVE  Goal
    BY <1>5, Zenon DEF Start, TypeOK, server, snapshot
  <1>6. ASSUME NEW j \in Controllers, Crash(j)
        PROVE  Goal
    BY <1>6, Zenon DEF Crash, TypeOK
  <1>7. ASSUME NEW j \in Controllers, StartPass(j)
        PROVE  Goal
    <2>1. CASE j = k
      BY <1>7, <2>1, Zenon DEF StartPass, TypeOK, caches
    <2>2. CASE j # k
      BY <1>7, <2>2, Zenon DEF StartPass, TypeOK, caches
    <2> QED
      BY <2>1, <2>2, Zenon
  <1>8. ASSUME NEW j \in Controllers, NEW left, ToClaims(j, left)
        PROVE  /\ k # j => pc'[k] = pc[k] /\ lClaim'[k] = lClaim[k]
               /\ k = j => /\ pc'[k] \in {"bind", "idle"}
                           /\ lClaim'[k] = lClaim[k] \/ (left = {} /\ lClaim'[k] = NoClaims)
    BY <1>8, Zenon DEF ToClaims, TypeOK, snapshot
  <1>9. ASSUME NEW j \in Controllers, MarkLost(j)
        PROVE  Goal
    BY <1>9 DEF MarkLost, TypeOK, snapshot
  <1>10. ASSUME NEW j \in Controllers, Sweep(j)
         PROVE  Goal
    <2>1. UNCHANGED <<cClaim, todo>> /\ pc[j] = "sweep"
      BY <1>10, Zenon DEF Sweep
    <2>2. CASE pc' = [pc EXCEPT ![j] = "lost"] /\ UNCHANGED snapshot
      BY <2>1, <2>2, Zenon DEF TypeOK, snapshot
    <2>3. CASE ToClaims(j, todo[j])
      <3>1. /\ k # j => pc'[k] = pc[k] /\ lClaim'[k] = lClaim[k]
            /\ k = j => /\ pc'[k] \in {"bind", "idle"}
                        /\ lClaim'[k] = lClaim[k] \/ (todo[j] = {} /\ lClaim'[k] = NoClaims)
        BY <1>8, <2>3, Zenon
      <3> QED
        BY <2>1, <3>1, Zenon
    <2> QED
      BY <1>10, <2>2, <2>3, Zenon DEF Sweep
  <1>11. ASSUME NEW j \in Controllers, PassFails(j)
         PROVE  Goal
    <2>1. UNCHANGED cClaim /\ todo' = [todo EXCEPT ![j] = {}] /\ ToClaims(j, {})
      BY <1>11, Zenon DEF PassFails
    <2>2. pc[j] \in {"lost", "sweep"}
      BY <1>11, Zenon DEF PassFails
    <2>3. /\ k # j => pc'[k] = pc[k] /\ lClaim'[k] = lClaim[k]
          /\ k = j => /\ pc'[k] \in {"bind", "idle"}
                      /\ lClaim'[k] \in {lClaim[k], NoClaims}
      BY <1>8, <2>1, Zenon
    <2>4. (k # j => todo'[k] = todo[k]) /\ (k = j => todo'[k] = {})
      BY <2>1, Zenon DEF TypeOK
    <2> QED
      BY <2>1, <2>2, <2>3, <2>4, Zenon
  <1>12. ASSUME NEW j \in Controllers, Bind(j)
         PROVE  Goal
    <2>1. UNCHANGED <<cClaim, snapshot, todo>> /\ pc[j] = "bind"
      BY <1>12, Zenon DEF Bind
    <2>2. pc' = [pc EXCEPT ![j] = "status"] \/ pc' = [pc EXCEPT ![j] = "release"]
      <3> PICK c, t : Settle(j, c, t)
        BY <1>12, Zenon DEF Bind, TakeLease
      <3> QED
        BY Zenon DEF Settle
    <2> QED
      BY <2>1, <2>2 DEF TypeOK, snapshot
  <1>13. ASSUME NEW j \in Controllers, ReleaseHeld(j)
         PROVE  Goal
    <2>1. UNCHANGED <<cClaim, snapshot, todo>> /\ pc[j] = "release"
      BY <1>13, Zenon DEF ReleaseHeld
    <2>2. pc' = [pc EXCEPT ![j] = "status"] \/ pc' = [pc EXCEPT ![j] = "release"]
      BY <1>13, Zenon DEF ReleaseHeld
    <2> QED
      BY <2>1, <2>2 DEF TypeOK, snapshot
  <1>14. ASSUME NEW j \in Controllers, NEW c \in Claims, pc[j] # "down", NextClaim(j, c),
                UNCHANGED cClaim
         PROVE  Goal
    <2>1. todo' = [todo EXCEPT ![j] = todo[j] \ {c}] /\ ToClaims(j, todo[j] \ {c})
      BY <1>14, Zenon DEF NextClaim
    <2>2. todo'[k] \subseteq todo[k] /\ (k = j => todo'[k] = todo[j] \ {c})
      BY <2>1, Zenon DEF TypeOK
    <2>3. /\ k # j => pc'[k] = pc[k] /\ lClaim'[k] = lClaim[k]
          /\ k = j => /\ pc'[k] \in {"bind", "idle"}
                      /\ lClaim'[k] = lClaim[k] \/ (todo[j] \ {c} = {} /\ lClaim'[k] = NoClaims)
      BY <1>8, <2>1
    <2> QED
      BY <1>14, <2>2, <2>3, Zenon
  <1>15. ASSUME NEW j \in Controllers, WriteStatus(j) \/ ClaimFails(j)
         PROVE  \E c \in Claims : pc[j] # "down" /\ NextClaim(j, c) /\ UNCHANGED cClaim
    BY <1>15, Zenon DEF WriteStatus, ClaimFails, caches
  <1> QED
    BY <1>2, <1>3, <1>4, <1>5, <1>6, <1>7, <1>9, <1>10, <1>11, <1>12, <1>13, <1>14, <1>15, Zenon
       DEF Next, Pass, Sync

\* Every step keeps passes behind caches and caches behind the server.
LEMMA StepFollows == TypeOK /\ Following /\ [Next]_vars => Following'
  <1> SUFFICES ASSUME TypeOK, Following, [Next]_vars, NEW k \in Controllers, NEW c \in Claims
               PROVE  /\ Born(lClaim'[k], c) => Born(cClaim'[k], c)
                      /\ Born(cClaim'[k], c) => Born(claim', c)
                      /\ Gone(lClaim'[k], c) \/ Gone(cClaim'[k], c) => Gone(claim', c)
    BY Zenon DEF Following, Born, Gone
  <1>1. /\ Born(lClaim[k], c) => Born(cClaim[k], c)
        /\ Born(cClaim[k], c) => Born(claim, c)
        /\ Gone(lClaim[k], c) \/ Gone(cClaim[k], c) => Gone(claim, c)
    BY Zenon DEF Following
  <1>2. (Born(claim, c) => Born(claim', c)) /\ (Gone(claim, c) => Gone(claim', c))
    BY ClaimsGoOn, Zenon DEF Born, Gone
  <1>3. ~Born(NoClaims, c) /\ ~Gone(NoClaims, c)
    BY Zenon DEF Born, Gone, NoClaims, NoClaim
  <1>4. \/ cClaim'[k] = cClaim[k] /\ lClaim'[k] \in {lClaim[k], cClaim[k], NoClaims}
        \/ cClaim'[k] = claim /\ claim' = claim /\ lClaim'[k] = lClaim[k]
        \/ cClaim'[k] = NoClaims /\ lClaim'[k] = NoClaims
    BY PassSteps
  <1> QED
    BY <1>1, <1>2, <1>3, <1>4, Zenon

\* Every step leaves passes with live claims only.
LEMMA StepWorks == TypeOK /\ Working /\ [Next]_vars => Working'
  <1> SUFFICES ASSUME TypeOK, Working, [Next]_vars, NEW k \in Controllers
               PROVE  todo'[k] \subseteq Live(lClaim'[k])
    BY Zenon DEF Working, Live
  <1>1. \/ todo'[k] = {} \/ todo'[k] = Live(lClaim'[k])
        \/ todo'[k] \subseteq todo[k] /\ lClaim'[k] = lClaim[k]
    BY PassSteps, Zenon
  <1> QED
    BY <1>1, Zenon DEF Working

\* Writing a device leaves the leases in the copies of other passes.
LEMMA OutdateKeepsLease ==
    ASSUME NEW copies \in [Controllers -> [Devices -> DeviceCopy]], NEW k \in Controllers,
           NEW d \in Devices, NEW e \in Devices
    PROVE  Outdate(copies, d)[k][e].lease = copies[k][e].lease
  BY Zenon DEF Outdate, AsCopy

\* A compare-and-swap changes the leases of the pass that does it only.
LEMMA CasKeepsLease ==
    ASSUME TypeOK, NEW j \in Controllers, NEW d \in Devices, NEW stored, NEW local,
           CasApplied(j, d, stored, local) \/ CasReplyLost(j, d, stored) \/ lDev' = lDev,
           NEW k \in Controllers, NEW e \in Devices, k # j \/ e # d
    PROVE  lDev'[k][e].lease = lDev[k][e].lease
  <1>1. lDev \in [Controllers -> [Devices -> DeviceCopy]]
    BY DEF TypeOK
  <1>2. CASE CasApplied(j, d, stored, local)
    <2>1. lDev' = [Outdate(lDev, d) EXCEPT ![j] = [lDev[j] EXCEPT ![d] = AsCopy(local, TRUE)]]
      BY <1>2, Zenon DEF CasApplied
    <2>2. CASE k # j
      <3>1. lDev'[k] = Outdate(lDev, d)[k]
        BY <2>1, <2>2, Zenon DEF Outdate
      <3>2. Outdate(lDev, d)[k][e].lease = lDev[k][e].lease
        BY <1>1, OutdateKeepsLease
      <3> QED
        BY <3>1, <3>2
    <2>3. CASE k = j /\ e # d
      <3>1. lDev'[k] = [lDev[j] EXCEPT ![d] = AsCopy(local, TRUE)]
        BY <2>1, <2>3, Zenon DEF Outdate
      <3> QED
        BY <1>1, <2>3, <3>1, Zenon
    <2> QED
      BY <2>2, <2>3, Zenon
  <1>3. CASE CasReplyLost(j, d, stored)
    BY <1>1, <1>3, OutdateKeepsLease DEF CasReplyLost
  <1> QED
    BY <1>2, <1>3, Zenon

\* The environment does not change the leases in a pass's copies either.
LEMMA EnvironmentKeepsLease ==
    ASSUME TypeOK, Environment, NEW k \in Controllers, NEW e \in Devices
    PROVE  lDev'[k][e].lease = lDev[k][e].lease
  <1>1. CASE lDev' = lDev
    BY <1>1
  <1>2. ASSUME NEW d \in Devices, NEW rec, StoreDevice(d, rec)
        PROVE  lDev'[k][e].lease = lDev[k][e].lease
    BY <1>2, OutdateKeepsLease, Zenon DEF StoreDevice, TypeOK
  <1> QED
    BY <1>1, <1>2, Zenon
       DEF Environment, Publish, MarkUnplugged, DeleteDevice, HeartbeatAges, CachedHeartbeatAges,
           CreateClaim, EditClaim, DeleteClaim, ChangeVm

\* A controller's step leaves the other passes where they are, with the leases
\* they have read.
LEMMA OtherPasses ==
    ASSUME TypeOK, NEW j \in Controllers,
           Sync(j) \/ Start(j) \/ Pass(j) \/ PassFails(j) \/ ClaimFails(j) \/ Crash(j),
           NEW k \in Controllers, k # j
    PROVE  /\ pc'[k] = pc[k] /\ devs'[k] = devs[k] /\ todo'[k] = todo[k]
           /\ \A e \in Devices : lDev'[k][e].lease = lDev[k][e].lease
  <1> DEFINE Goal == /\ pc'[k] = pc[k] /\ devs'[k] = devs[k] /\ todo'[k] = todo[k]
                     /\ \A e \in Devices : lDev'[k][e].lease = lDev[k][e].lease
  <1> SUFFICES Goal
    BY Zenon
  <1>1. CASE Sync(j) \/ EmptyPass(j)
    BY <1>1, Zenon DEF Sync, SyncDevices, SyncClaims, SyncVms, EmptyPass, position, vars
  <1>2. CASE Start(j)
    BY <1>2, Zenon DEF Start, TypeOK
  <1>3. CASE Crash(j)
    BY <1>3, Zenon DEF Crash, TypeOK
  <1>4. CASE StartPass(j)
    BY <1>4, Zenon DEF StartPass, TypeOK
  <1>5. ASSUME NEW left, ToClaims(j, left)
        PROVE  pc'[k] = pc[k]
    BY <1>5, Zenon DEF ToClaims, TypeOK
  <1>6. ASSUME NEW d \in Devices, NEW stored, NEW local,
               CasApplied(j, d, stored, local) \/ CasReplyLost(j, d, stored) \/ lDev' = lDev
        PROVE  \A e \in Devices : lDev'[k][e].lease = lDev[k][e].lease
    BY <1>6, CasKeepsLease, Zenon
  <1>7. CASE MarkLost(j)
    <2>1. pc'[k] = pc[k] /\ devs'[k] = devs[k] /\ todo'[k] = todo[k]
      BY <1>7 DEF MarkLost, TypeOK
    <2>2. \E d \in Devices : \E stored, local : CasApplied(j, d, stored, local) \/ lDev' = lDev
      BY <1>7, Zenon DEF MarkLost, CasPatch, CasConflict
    <2> QED
      BY <1>6, <2>1, <2>2, Zenon
  <1>8. CASE Sweep(j)
    <2>1. pc'[k] = pc[k] /\ devs'[k] = devs[k] /\ todo'[k] = todo[k]
      BY <1>5, <1>8 DEF Sweep, TypeOK
    <2>2. \E d \in Devices : \E stored, local : CasApplied(j, d, stored, local) \/ lDev' = lDev
      BY <1>8, Zenon DEF Sweep, CasPatch, CasConflict
    <2> QED
      BY <1>6, <2>1, <2>2, Zenon
  <1>9. CASE PassFails(j)
    <2>1. pc'[k] = pc[k] /\ devs'[k] = devs[k] /\ todo'[k] = todo[k]
      BY <1>5, <1>9 DEF PassFails, TypeOK
    <2>2. \E d \in Devices : \E stored : CasReplyLost(j, d, stored) \/ lDev' = lDev
      BY <1>9, Zenon DEF PassFails, CasFails
    <2> QED
      BY <1>6, <2>1, <2>2, Zenon
  <1>10. CASE Bind(j)
    <2>1. pc'[k] = pc[k] /\ devs'[k] = devs[k] /\ todo'[k] = todo[k]
      <3> PICK c, t : Settle(j, c, t)
        BY <1>10, Zenon DEF Bind, TakeLease
      <3>1. todo' = todo
        BY <1>10, Zenon DEF Bind
      <3> QED
        BY <3>1 DEF Settle, TypeOK
    <2>2. lDev' = lDev \/ \E d \in Devices : \E stored, local : CasApplied(j, d, stored, local)
      BY <1>10, Zenon DEF Bind, TakeLease, CasConflict
    <2> QED
      BY <1>6, <2>1, <2>2, Zenon
  <1>11. CASE ReleaseHeld(j)
    <2>1. pc'[k] = pc[k] /\ devs'[k] = devs[k] /\ todo'[k] = todo[k]
      BY <1>11 DEF ReleaseHeld, TypeOK
    <2>2. \E d \in Devices : \E stored, local : CasApplied(j, d, stored, local) \/ lDev' = lDev
      BY <1>11, Zenon DEF ReleaseHeld, CasPatch, CasConflict
    <2> QED
      BY <1>6, <2>1, <2>2, Zenon
  <1>12. ASSUME NEW c, NextClaim(j, c)
         PROVE  pc'[k] = pc[k] /\ devs'[k] = devs[k] /\ todo'[k] = todo[k]
    BY <1>5, <1>12 DEF NextClaim, TypeOK
  <1>13. CASE WriteStatus(j)
    <2>1. lDev' = [lDev EXCEPT ![j] = NoCopies] \/ lDev' = lDev
      BY <1>13, Zenon DEF WriteStatus
    <2> QED
      BY <1>12, <1>13, <2>1, Zenon DEF WriteStatus, TypeOK
  <1>14. CASE ClaimFails(j)
    <2>1. lDev' = lDev \/ \E d \in Devices : \E stored : CasReplyLost(j, d, stored)
      BY <1>14, Zenon DEF ClaimFails, CasFails
    <2>2. \A e \in Devices : lDev'[k][e].lease = lDev[k][e].lease
      BY <1>6, <2>1
    <2> QED
      BY <1>12, <1>14, <2>2, Zenon DEF ClaimFails
  <1> QED
    BY <1>1, <1>2, <1>3, <1>4, <1>7, <1>8, <1>9, <1>10, <1>11, <1>13, <1>14, Zenon DEF Pass

\* Every step leaves a reconcile with devices of its own claim to release.
LEMMA StepReleases == TypeOK /\ Releasing /\ [Next]_vars => Releasing'
  <1> SUFFICES ASSUME TypeOK, Releasing, [Next]_vars, NEW k \in Controllers, pc'[k] = "release"
               PROVE  \E c \in Claims : /\ First(todo'[k], c)
                                        /\ \A d \in devs'[k] : lDev'[k][d].lease = c
    BY Zenon DEF Releasing, First
  <1> DEFINE Goal == \E c \in Claims : /\ First(todo'[k], c)
                                       /\ \A d \in devs'[k] : lDev'[k][d].lease = c
  <1>1. CASE /\ pc'[k] = pc[k] /\ devs'[k] = devs[k] /\ todo'[k] = todo[k]
             /\ \A e \in Devices : lDev'[k][e].lease = lDev[k][e].lease
    <2>1. PICK c \in Claims : First(todo[k], c) /\ \A e \in devs[k] : lDev[k][e].lease = c
      BY <1>1, Zenon DEF Releasing
    <2>2. devs[k] \subseteq Devices
      BY Zenon DEF TypeOK
    <2> QED
      BY <1>1, <2>1, <2>2, Zenon
  <1>2. CASE UNCHANGED vars
    BY <1>1, <1>2, Zenon DEF vars, position
  <1>3. CASE Environment
    <2>1. UNCHANGED position
      BY <1>3, Zenon
         DEF Environment, Publish, MarkUnplugged, DeleteDevice, StoreDevice, HeartbeatAges,
             CachedHeartbeatAges, CreateClaim, EditClaim, DeleteClaim, ChangeVm
    <2> QED
      BY <1>1, <1>3, <2>1, EnvironmentKeepsLease DEF position
  <1>4. ASSUME NEW j \in Controllers, j # k,
               Sync(j) \/ Start(j) \/ Pass(j) \/ PassFails(j) \/ ClaimFails(j) \/ Crash(j)
        PROVE  Goal
    BY <1>1, <1>4, OtherPasses, Zenon
  <1>5. CASE Sync(k) \/ EmptyPass(k)
    BY <1>1, <1>5, Zenon DEF Sync, SyncDevices, SyncClaims, SyncVms, EmptyPass, position, vars
  <1>6. ASSUME NEW left, ToClaims(k, left)
        PROVE  pc'[k] # "release"
    BY <1>6, Zenon DEF ToClaims, TypeOK
  <1>7. ~(Start(k) \/ Crash(k) \/ StartPass(k) \/ MarkLost(k))
    BY Zenon DEF Start, Crash, StartPass, MarkLost, TypeOK
  <1>8. ~(Sweep(k) \/ PassFails(k))
    BY <1>6 DEF Sweep, PassFails, TypeOK
  <1>9. ~(WriteStatus(k) \/ ClaimFails(k))
    BY <1>6, Zenon DEF WriteStatus, ClaimFails, NextClaim
  <1>10. CASE Bind(k)
    <2> PICK c \in Claims, current \in Devices \cup {None}, d \in Devices \cup {None} :
               Bind(k)!(c, current, d)
      BY <1>10, Zenon DEF Bind
    <2>1. ASSUME NEW t, Settle(k, c, t), \A e \in Devices : e # t => lDev'[k][e].lease = lDev[k][e].lease
          PROVE  Goal
      <3>1. devs'[k] = Held(k, c) \ {t} /\ todo'[k] = todo[k] /\ First(todo[k], c)
        BY <2>1 DEF Settle, TypeOK
      <3>2. \A e \in Held(k, c) : e \in Devices /\ lDev[k][e].lease = c
        BY Zenon DEF Held
      <3> QED
        BY <2>1, <3>1, <3>2, Zenon
    <2>2. CASE Settle(k, c, current) /\ lDev' = lDev
      BY <2>1, <2>2, Zenon
    <2>3. CASE d \in Devices /\ TakeLease(k, c, current, d)
      <3>1. CASE CasConflict(k, d) /\ Settle(k, c, current)
        BY <2>2, <3>1, Zenon DEF CasConflict
      <3>2. CASE /\ CasApplied(k, d, WithLease(dev[d], c), WithLease(lDev[k][d], c))
                 /\ Settle(k, c, d)
        <4>1. \A e \in Devices : e # d => lDev'[k][e].lease = lDev[k][e].lease
          BY <2>3, <3>2, CasKeepsLease, Zenon
        <4> QED
          BY <2>1, <3>2, <4>1, Zenon
      <3> QED
        BY <2>3, <3>1, <3>2, Zenon DEF TakeLease
    <2> QED
      BY <2>2, <2>3, Zenon
  <1>11. CASE ReleaseHeld(k)
    <2> PICK d \in Devices : ReleaseHeld(k)!(d)
      BY <1>11, Zenon DEF ReleaseHeld
    <2>1. \A e \in Devices : e # d => lDev'[k][e].lease = lDev[k][e].lease
      BY CasKeepsLease, Zenon DEF CasPatch, CasConflict
    <2>2. devs'[k] = devs[k] \ {d} /\ todo'[k] = todo[k] /\ devs[k] \subseteq Devices
      BY DEF TypeOK
    <2>3. PICK c \in Claims : First(todo[k], c) /\ \A e \in devs[k] : lDev[k][e].lease = c
      BY Zenon DEF Releasing
    <2>4. \A e \in devs'[k] : lDev'[k][e].lease = c
      BY <2>1, <2>2, <2>3, Zenon
    <2> QED
      BY <2>2, <2>3, <2>4, Zenon
  <1> QED
    BY <1>2, <1>3, <1>4, <1>5, <1>7, <1>8, <1>9, <1>10, <1>11, Zenon DEF Next, Pass

\* A step leaves a lease or ends it, or a reconcile takes it for its own claim.
LEMMA LeaseSteps ==
    ASSUME TypeOK, CopiesAgree, [Next]_vars, NEW d \in Devices
    PROVE  \/ dev'[d].lease \in {dev[d].lease, None}
           \/ \E k \in Controllers : pc[k] = "bind" /\ dev'[d].lease \in todo[k]
  <1> DEFINE Goal == \/ dev'[d].lease \in {dev[d].lease, None}
                     \/ \E k \in Controllers : pc[k] = "bind" /\ dev'[d].lease \in todo[k]
  <1> SUFFICES Goal
    BY Zenon
  <1>1. CASE dev' = dev
    BY <1>1, Zenon
  <1>2. ASSUME NEW e \in Devices, NEW rec, dev' = [dev EXCEPT ![e] = rec],
               rec.lease \in {dev[e].lease, None}
        PROVE  Goal
    BY <1>2, Zenon DEF TypeOK
  <1>3. \A e \in Devices : \A p : WithPhase(dev[e], p).lease = dev[e].lease
    BY Zenon DEF WithPhase
  <1>4. \A e \in Devices : \A c : WithLease(dev[e], c).lease = c
    BY Zenon DEF WithLease
  <1>5. CASE UNCHANGED vars
    BY <1>1, <1>5, Zenon DEF vars, server
  <1>6. CASE Environment
    <2>1. ASSUME NEW e \in Devices, Publish(e) \/ MarkUnplugged(e) \/ HeartbeatAges(e)
          PROVE  Goal
      <3>1. PICK p : dev' = [dev EXCEPT ![e] = WithPhase(dev[e], p)]
        BY <2>1, Zenon DEF Publish, MarkUnplugged, HeartbeatAges, StoreDevice, Aged
      <3> QED
        BY <1>2, <1>3, <3>1
    <2>2. ASSUME NEW e \in Devices, DeleteDevice(e)
          PROVE  Goal
      BY <1>2, <2>2, Zenon DEF DeleteDevice, StoreDevice, NoDevice
    <2>3. ASSUME NEW k \in Controllers, NEW e \in Devices, CachedHeartbeatAges(k, e)
          PROVE  dev' = dev
      BY <2>3 DEF CachedHeartbeatAges, server
    <2>4. ASSUME NEW c \in Claims,
                 CreateClaim(c) \/ EditClaim(c) \/ DeleteClaim(c) \/ ChangeVm(c)
          PROVE  dev' = dev
      BY <2>4 DEF CreateClaim, EditClaim, DeleteClaim, ChangeVm
    <2> HIDE DEF Goal
    <2> QED
      BY <1>1, <1>6, <2>1, <2>2, <2>3, <2>4, Zenon DEF Environment
  <1>7. ASSUME NEW k \in Controllers,
               Sync(k) \/ Start(k) \/ Crash(k) \/ StartPass(k) \/ EmptyPass(k) \/ WriteStatus(k)
        PROVE  dev' = dev
    BY <1>7, Zenon DEF Sync, SyncDevices, SyncClaims, SyncVms, Start, Crash, StartPass, EmptyPass,
                WriteStatus, vars, server
  <1>8. ASSUME NEW k \in Controllers, MarkLost(k) \/ Sweep(k) \/ PassFails(k) \/ ReleaseHeld(k)
        PROVE  \/ dev' = dev
               \/ \E e \in Devices : \/ dev' = [dev EXCEPT ![e] = WithPhase(dev[e], "Lost")]
                                     \/ dev' = [dev EXCEPT ![e] = WithLease(dev[e], None)]
    BY <1>8, Zenon DEF MarkLost, Sweep, PassFails, ReleaseHeld, CasPatch, CasApplied, CasConflict,
                       CasFails, CasReplyLost
  <1>9. ASSUME NEW k \in Controllers, Bind(k) \/ ClaimFails(k)
        PROVE  \/ dev' = dev
               \/ \E e \in Devices : dev' = [dev EXCEPT ![e] = WithLease(dev[e], None)]
               \/ \E e \in Devices, c \in Claims :
                    /\ pc[k] = "bind" /\ First(todo[k], c)
                    /\ dev' = [dev EXCEPT ![e] = WithLease(dev[e], c)]
    <2>1. CASE Bind(k)
      BY <2>1, Zenon DEF Bind, TakeLease, CasApplied, CasConflict
    <2>2. CASE ClaimFails(k)
      BY <2>2, Zenon DEF ClaimFails, CasFails, CasReplyLost
    <2> QED
      BY <1>9, <2>1, <2>2, Zenon
  <1>10. ASSUME NEW k \in Controllers, NEW e \in Devices, NEW c \in Claims, pc[k] = "bind",
                First(todo[k], c), dev' = [dev EXCEPT ![e] = WithLease(dev[e], c)]
         PROVE  Goal
    <2>1. CASE e = d
      BY <1>4, <1>10, <2>1, Zenon DEF First, TypeOK
    <2>2. CASE e # d
      BY <1>10, <2>2 DEF TypeOK
    <2> QED
      BY <2>1, <2>2, Zenon
  <1>11. ASSUME NEW k \in Controllers,
                MarkLost(k) \/ Sweep(k) \/ PassFails(k) \/ ReleaseHeld(k) \/ Bind(k) \/ ClaimFails(k)
         PROVE  Goal
    <2>1. ASSUME NEW e \in Devices, dev' = [dev EXCEPT ![e] = WithPhase(dev[e], "Lost")]
          PROVE  Goal
      BY <1>2, <1>3, <2>1, Zenon
    <2>2. ASSUME NEW e \in Devices, dev' = [dev EXCEPT ![e] = WithLease(dev[e], None)]
          PROVE  Goal
      BY <1>2, <1>4, <2>2, Zenon
    <2> HIDE DEF Goal
    <2> QED
      BY <1>1, <1>8, <1>9, <1>10, <1>11, <2>1, <2>2, Zenon
  <1> QED
    BY <1>1, <1>5, <1>6, <1>7, <1>11, Zenon DEF Next, Pass

\* There is one controller, as in the chart (replicas: 1, strategy Recreate).
Alone == \A j, k \in Controllers : j = k

\* A step of the only controller leaves its cache with the claims of all leases:
\* it takes a lease for a claim that it has cached, and lists again when it starts.
LEMMA StepInforms ==
    ASSUME Alone, TypeOK, CopiesAgree, Following, Working, Informed, [Next]_vars
    PROVE  Informed'
  <1> SUFFICES ASSUME NEW d \in Devices, dev'[d].lease # None
               PROVE  /\ Born(claim', dev'[d].lease)
                      /\ \A k \in Controllers :
                           /\ pc'[k] # "down" => Born(cClaim'[k], dev'[d].lease)
                           /\ pc'[k] \in {"lost", "sweep"} => Born(lClaim'[k], dev'[d].lease)
    BY Zenon DEF Informed, Born
  <1> DEFINE c == dev'[d].lease
  <1>1. ASSUME c \in Claims, Born(claim, c), NEW k \in Controllers,
               pc[k] # "down" => Born(cClaim[k], c),
               pc[k] \in {"lost", "sweep"} => Born(lClaim[k], c)
        PROVE  /\ pc'[k] # "down" => Born(cClaim'[k], c)
               /\ pc'[k] \in {"lost", "sweep"} => Born(lClaim'[k], c)
    <2> HIDE DEF c
    <2>1. /\ pc'[k] # "down" => \/ pc[k] # "down" /\ cClaim'[k] = cClaim[k]
                                \/ cClaim'[k] = claim /\ claim' = claim
          /\ pc'[k] \in {"lost", "sweep"} =>
               \/ pc[k] \in {"lost", "sweep"} /\ lClaim'[k] = lClaim[k]
               \/ pc[k] = "idle" /\ lClaim'[k] = cClaim[k]
      BY PassSteps
    <2> QED
      BY <1>1, <2>1, Zenon
  <1>2. CASE c = dev[d].lease
    <2>1. c \in Claims
      BY <1>2, Zenon DEF TypeOK, DeviceRecord
    <2>2. Born(claim, c)
      BY <1>2, Zenon DEF Informed
    <2>3. Born(claim', c)
      BY <2>1, <2>2, ClaimsGoOn, Zenon DEF Born
    <2> QED
      BY <1>1, <1>2, <2>1, <2>2, <2>3, Zenon DEF Informed
  <1>3. ASSUME NEW j \in Controllers, pc[j] = "bind", c \in todo[j]
        PROVE  /\ Born(claim', c)
               /\ \A k \in Controllers :
                    /\ pc'[k] # "down" => Born(cClaim'[k], c)
                    /\ pc'[k] \in {"lost", "sweep"} => Born(lClaim'[k], c)
    <2> HIDE DEF c
    <2>1. c \in Claims /\ Born(lClaim[j], c)
      BY <1>3, Zenon DEF Working, Live, Born
    <2>2. Born(cClaim[j], c) /\ Born(claim, c)
      BY <2>1, Zenon DEF Following
    <2>3. Born(claim', c)
      BY <2>1, <2>2, ClaimsGoOn, Zenon DEF Born
    <2>4. \A k \in Controllers : Born(cClaim[k], c) /\ Born(lClaim[k], c)
      BY <2>1, <2>2 DEF Alone
    <2> QED
      BY <1>1, <2>1, <2>2, <2>3, <2>4, Zenon
  <1> QED
    BY <1>2, <1>3, LeaseSteps, Zenon

\* What ends a lease: the deletion of the device, the reconcile of the lease's own
\* claim, or a sweep after the claim was deleted.
LEMMA LeaseEnds ==
    ASSUME TypeOK, CopiesAgree, Following, Releasing, Informed, [Next]_vars,
           NEW d \in Devices, dev[d].lease # None, dev'[d].lease # dev[d].lease
    PROVE  \/ claim[dev[d].lease].st = "gone"
           \/ dev'[d].phase = "Absent"
           \/ \E k \in Controllers : pc[k] = "release" /\ First(todo[k], dev[d].lease)
  <1> DEFINE c == dev[d].lease
             Goal == \/ claim[c].st = "gone"
                     \/ dev'[d].phase = "Absent"
                     \/ \E k \in Controllers : pc[k] = "release" /\ First(todo[k], c)
  <1> SUFFICES Goal
    BY Zenon
  <1>1. c \in Claims
    BY DEF TypeOK, DeviceRecord
  <1>2. dev' # dev
    BY Zenon
  <1>3. ASSUME NEW e \in Devices, NEW rec, dev' = [dev EXCEPT ![e] = rec]
        PROVE  e = d /\ dev'[d] = rec /\ rec.lease # c
    BY <1>3, Zenon DEF TypeOK
  <1>4. ASSUME NEW e \in Devices, NEW p, dev' = [dev EXCEPT ![e] = WithPhase(dev[e], p)]
        PROVE  FALSE
    BY <1>3, <1>4, Zenon DEF WithPhase
  \* The sweep.
  <1>5. ASSUME NEW k \in Controllers, pc[k] = "sweep", NEW e \in Devices, lDev[k][e].cur,
               NeedsSweep(lDev[k][e], lClaim[k]), dev' = [dev EXCEPT ![e] = WithLease(dev[e], None)]
        PROVE  Goal
    <2>1. e = d /\ lDev[k][d].lease = c
      <3>1. e = d
        BY <1>3, <1>5, Zenon
      <3>2. Agrees(lDev[k][e], dev[e])
        BY Zenon DEF CopiesAgree
      <3> QED
        BY <1>5, <3>1, <3>2, Zenon DEF Agrees
    <2>2. c \notin Live(lClaim[k])
      BY <1>5, <2>1, Zenon DEF NeedsSweep
    <2>3. Born(lClaim[k], c)
      BY <1>5, Zenon DEF Informed
    <2>4. lClaim[k][c].st \in {"unborn", "live", "gone"}
      <3>1. lClaim[k][c] \in ClaimRecord
        BY <1>1, Zenon DEF TypeOK
      <3> QED
        BY <3>1, Zenon DEF ClaimRecord
    <2>5. Gone(lClaim[k], c)
      BY <1>1, <2>2, <2>3, <2>4 DEF Live, Born, Gone
    <2> QED
      BY <1>1, <2>5, Zenon DEF Following, Gone
  \* The reconcile of its own claim.
  <1>6. ASSUME NEW k \in Controllers, pc[k] = "release", NEW e \in Devices, e \in devs[k],
               lDev[k][e].cur, dev' = [dev EXCEPT ![e] = WithLease(dev[e], None)]
        PROVE  Goal
    <2>1. e = d /\ lDev[k][d].lease = c
      <3>1. e = d
        BY <1>3, <1>6, Zenon
      <3>2. Agrees(lDev[k][e], dev[e])
        BY Zenon DEF CopiesAgree
      <3> QED
        BY <1>6, <3>1, <3>2, Zenon DEF Agrees
    <2>2. PICK b \in Claims : First(todo[k], b) /\ \A x \in devs[k] : lDev[k][x].lease = b
      BY <1>6, Zenon DEF Releasing
    <2> QED
      BY <1>6, <2>1, <2>2, Zenon
  <1>7. CASE Environment
    <2>1. ASSUME NEW e \in Devices, Publish(e) \/ MarkUnplugged(e) \/ HeartbeatAges(e)
          PROVE  \E p : dev' = [dev EXCEPT ![e] = WithPhase(dev[e], p)]
      BY <2>1, Zenon DEF Publish, MarkUnplugged, HeartbeatAges, StoreDevice, Aged
    <2>2. ASSUME NEW e \in Devices, DeleteDevice(e)
          PROVE  Goal
      <3>1. dev' = [dev EXCEPT ![e] = NoDevice]
        BY <2>2, Zenon DEF DeleteDevice, StoreDevice
      <3>2. dev'[d] = NoDevice
        BY <1>3, <3>1, Zenon
      <3>3. NoDevice.phase = "Absent"
        BY Zenon DEF NoDevice
      <3> QED
        BY <3>2, <3>3, Zenon
    <2>3. ASSUME NEW k \in Controllers, NEW e \in Devices, CachedHeartbeatAges(k, e)
          PROVE  dev' = dev
      BY <2>3 DEF CachedHeartbeatAges, server
    <2>4. ASSUME NEW b \in Claims,
                 CreateClaim(b) \/ EditClaim(b) \/ DeleteClaim(b) \/ ChangeVm(b)
          PROVE  dev' = dev
      BY <2>4 DEF CreateClaim, EditClaim, DeleteClaim, ChangeVm
    <2> HIDE DEF Goal
    <2> QED
      BY <1>2, <1>4, <1>7, <2>1, <2>2, <2>3, <2>4 DEF Environment
  <1>8. ASSUME NEW k \in Controllers,
               Sync(k) \/ Start(k) \/ Crash(k) \/ StartPass(k) \/ EmptyPass(k) \/ WriteStatus(k)
        PROVE  FALSE
    BY <1>2, <1>8, Zenon DEF Sync, SyncDevices, SyncClaims, SyncVms, Start, Crash, StartPass, EmptyPass,
                      WriteStatus, vars, server
  <1>9. ASSUME NEW k \in Controllers, MarkLost(k)
        PROVE  FALSE
    BY <1>2, <1>4, <1>9, Zenon DEF MarkLost, CasPatch, CasApplied, CasConflict
  <1>10. ASSUME NEW k \in Controllers, Sweep(k)
         PROVE  Goal
    <2> HIDE DEF Goal
    <2> QED
      BY <1>2, <1>5, <1>10, Zenon DEF Sweep, CasPatch, CasApplied, CasConflict
  <1>11. ASSUME NEW k \in Controllers, PassFails(k)
         PROVE  Goal
    <2> HIDE DEF Goal
    <2> QED
      BY <1>2, <1>4, <1>5, <1>11, Zenon DEF PassFails, CasFails, CasReplyLost
  <1>12. ASSUME NEW k \in Controllers, ReleaseHeld(k)
         PROVE  Goal
    <2> HIDE DEF Goal
    <2> QED
      BY <1>2, <1>6, <1>12, Zenon DEF ReleaseHeld, First, CasPatch, CasApplied, CasConflict
  <1>13. ASSUME NEW k \in Controllers, NEW b \in Claims, NEW current, NEW e \in Devices,
                IsCandidate(k, b, current, e), lDev[k][e].cur,
                dev' = [dev EXCEPT ![e] = WithLease(dev[e], b)]
         PROVE  FALSE
    <2>1. dev[e].lease = None
      BY <1>13, CandidateIsFree, Zenon
    <2>2. e = d
      BY <1>3, <1>13, Zenon
    <2> QED
      BY <2>1, <2>2
  <1>14. ASSUME NEW k \in Controllers, Bind(k)
         PROVE  FALSE
    BY <1>2, <1>13, <1>14, Zenon DEF Bind, TakeLease, CasApplied, CasConflict
  <1>15. ASSUME NEW k \in Controllers, ClaimFails(k)
         PROVE  Goal
    <2> HIDE DEF Goal
    <2> PICK b \in Claims : ClaimFails(k)!(b)
      BY <1>15, Zenon DEF ClaimFails
    <2>1. CASE \E current \in Devices \cup {None}, e \in Devices :
                 /\ IsCandidate(k, b, current, e)
                 /\ CasReplyLost(k, e, WithLease(dev[e], b))
      BY <1>13, <2>1, Zenon DEF CasReplyLost
    <2>2. CASE /\ pc[k] = "release"
               /\ \E e \in Devices : First(devs[k], e) /\ CasFails(k, e, WithLease(dev[e], None))
      BY <1>2, <1>6, <2>2, Zenon DEF First, CasFails, CasReplyLost
    <2> QED
      BY <1>2, <2>1, <2>2, Zenon
  <1>16. ~UNCHANGED vars
    BY <1>2 DEF vars, server
  <1> QED
    BY <1>7, <1>8, <1>9, <1>10, <1>11, <1>12, <1>14, <1>15, <1>16, Zenon DEF Next, Pass

\* The sweep of dead leases never hits a live claim, whatever the caches show,
\* however often the controller crashes, and however many claims and devices there
\* are, as long as there is one controller: nobody but its own claim's reconcile
\* ends the lease of a live claim, unless the device object is deleted.
THEOREM LeasesEndByOwnerOrDeath == Alone => (Spec => LeaseEndsByOwnerOrDeath)
  <1> SUFFICES ASSUME Alone
               PROVE  Spec => LeaseEndsByOwnerOrDeath
    BY Zenon
  <1>1. Init => Following /\ Working /\ Releasing /\ Informed
    <2> SUFFICES ASSUME Init PROVE Following /\ Working /\ Releasing /\ Informed
      OBVIOUS
    <2>1. Following
      BY Zenon DEF Init, Following, NoClaims, NoClaim, Born, Gone
    <2> QED
      BY <2>1 DEF Init, Working, Releasing, Informed
  <1>2. /\ TypeOK /\ CopiesAgree
        /\ Following /\ Working /\ Releasing /\ Informed /\ [Next]_vars
        => Following' /\ Working' /\ Releasing' /\ Informed'
    BY StepFollows, StepWorks, StepReleases, StepInforms, Zenon
  <1>3. TypeOK /\ CopiesAgree /\ Following /\ Releasing /\ Informed /\ [Next]_vars =>
          [\A d \in Devices :
             LET c == dev[d].lease IN
             (c # None /\ dev'[d].lease # c) =>
                \/ claim[c].st = "gone"
                \/ dev'[d].phase = "Absent"
                \/ \E k \in Controllers : pc[k] = "release" /\ First(todo[k], c)]_vars
    BY LeaseEnds
  <1> QED
    BY <1>1, <1>2, <1>3, TypeCorrect, CurrentCopiesAgree, PTL DEF Spec, LeaseEndsByOwnerOrDeath
=============================================================================
