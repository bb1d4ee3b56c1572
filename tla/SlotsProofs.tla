---------------------------- MODULE SlotsProofs -----------------------------
(***************************************************************************)
(* Proofs about Slots, for any number of VMs, claims, slots and pins.      *)
(***************************************************************************)
EXTENDS Slots, TLAPS

-----------------------------------------------------------------------------
(* Type correctness.                                                       *)

\* Empty claims, answers and slot sets are well typed.
LEMMA BlankTypes ==
    /\ NoClaim \in Claim
    /\ NoClaims \in [Claims -> Claim]
    /\ NoResult \in [Claims -> SlotSet \cup {None, Refused}]
    /\ NoneUsed \in [Vms -> SUBSET SlotSet]
  BY ConstantsAssumption DEF NoClaim, NoClaims, NoResult, NoneUsed, Claim, Vms

\* A live claim is a claim.
LEMMA LiveClaimType ==
    ASSUME NEW v \in Vms, NEW p \in Pins \cup {None}, NEW s \in SlotSet \cup {None}
    PROVE  LiveClaim(v, p, s) \in Claim
  BY DEF LiveClaim, Claim

\* The initial states are well typed.
LEMMA InitType == Init => TypeOK
  <1> SUFFICES ASSUME Init PROVE TypeOK
    OBVIOUS
  <1>1. claim \in [Claims -> Claim]
    BY BlankTypes, LiveClaimType DEF Init
  <1> QED
    BY <1>1, BlankTypes, ConstantsAssumption DEF Init, TypeOK

\* Giving a claim an answer keeps the results and the used slots typed.
LEMMA GetsType ==
    ASSUME TypeOK, NEW v \in Vms, NEW c \in Claims, NEW s \in SlotSet \cup {Refused},
           Gets(v, c, s) \/ PassedOver
    PROVE  /\ result' \in [Claims -> SlotSet \cup {None, Refused}]
           /\ used' \in [Vms -> SUBSET SlotSet]
  BY DEF Gets, PassedOver, TypeOK

\* Every step keeps the state well typed.
LEMMA StepType == TypeOK /\ [Next]_vars => TypeOK'
  <1> SUFFICES ASSUME TypeOK, [Next]_vars PROVE TypeOK'
    OBVIOUS
  <1> USE ConstantsAssumption
  <1>0. ASSUME NEW kind, Disturb(kind) PROVE changes' \in 0..MaxChanges
    BY <1>0 DEF Disturb, TypeOK
  <1>1. ASSUME NEW c \in Claims, CreateClaim(c) PROVE TypeOK'
    <2>1. claim' \in [Claims -> Claim]
      BY <1>1, LiveClaimType DEF CreateClaim, TypeOK
    <2> QED
      BY <1>0, <1>1, <2>1 DEF CreateClaim, TypeOK, Locals
  <1>2. ASSUME NEW c \in Claims, EditClaim(c) PROVE TypeOK'
    <2>1. claim[c].slot \in SlotSet \cup {None}
      BY DEF TypeOK, Claim
    <2>2. claim' \in [Claims -> Claim]
      BY <1>2, <2>1, LiveClaimType DEF EditClaim, TypeOK
    <2> QED
      BY <1>0, <1>2, <2>2 DEF EditClaim, TypeOK, Locals
  <1>3. ASSUME NEW c \in Claims, DeleteClaim(c) PROVE TypeOK'
    <2>1. claim' \in [Claims -> Claim]
      BY <1>3, BlankTypes DEF DeleteClaim, TypeOK
    <2> QED
      BY <1>0, <1>3, <2>1 DEF DeleteClaim, TypeOK, Locals
  <1>4. CASE Sync
    BY <1>4 DEF Sync, TypeOK, Locals
  <1>5. CASE Crash
    BY <1>0, <1>5, BlankTypes DEF Crash, TypeOK
  <1>6. CASE StartPass
    <2>1. changes' \in 0..MaxChanges
      BY <1>0, <1>6 DEF StartPass, TypeOK
    <2>2. rest' \subseteq Vms
      BY <1>6 DEF StartPass, Requests, TypeOK, Claim
    <2>3. left' \subseteq Claims
      BY <1>6 DEF StartPass, Requests
    <2> QED
      BY <1>6, <2>1, <2>2, <2>3, BlankTypes DEF StartPass, TypeOK
  <1>7. CASE EmptyPass
    BY <1>7 DEF EmptyPass, vars, TypeOK
  <1>8. ASSUME NEW v \in Vms, NEW c \in Claims, NEW next \in {"keep", "fill"},
               Visited(v, c, next)
        PROVE  /\ pc' \in {"idle", "pin", "keep", "fill", "write"}
               /\ left' \subseteq Claims
               /\ UNCHANGED <<claim, cache, req, rest, changes>>
    BY <1>8 DEF Visited, RequestsOf, Requests, TypeOK
  <1>9. CASE Pin
    <2> PICK v \in Vms, c \in Claims : Pin!(v, c)
      BY <1>9 DEF Pin
    <2>1. PinAnswer(v, c) \in SlotSet \cup {Refused}
      BY DEF PinAnswer, InRange
    <2> QED
      BY <1>8, <2>1, GetsType DEF TypeOK
  <1>10. CASE Keep
    <2> PICK v \in Vms, c \in Claims : Keep!(v, c)
      BY <1>10 DEF Keep
    <2>1. CASE MayKeep(v, c)
      <3>1. req[c].slot \in SlotSet
        BY <2>1 DEF MayKeep, InRange
      <3> QED
        BY <1>8, <2>1, <3>1, GetsType DEF TypeOK
    <2>2. CASE ~MayKeep(v, c)
      BY <1>8, <2>2 DEF TypeOK, PassedOver
    <2> QED
      BY <2>1, <2>2
  <1>11. CASE Fill
    <2> PICK v \in Vms, c \in Claims : Fill!(v, c)
      BY <1>11 DEF Fill
    <2>1. /\ result' \in [Claims -> SlotSet \cup {None, Refused}]
          /\ used' \in [Vms -> SUBSET SlotSet]
      <3>1. CASE PassedOver
        BY <3>1 DEF PassedOver, TypeOK
      <3>2. CASE \E s \in SlotSet \cup {Refused} : Gets(v, c, s)
        BY <3>2, GetsType
      <3> QED
        BY <3>1, <3>2
    <2>2. /\ pc' \in {"idle", "pin", "keep", "fill", "write"}
          /\ left' \subseteq Claims /\ rest' \subseteq Vms
          /\ UNCHANGED <<claim, cache, req, changes>>
      BY DEF Served, RequestsOf, Requests, TypeOK
    <2> QED
      BY <2>1, <2>2 DEF TypeOK
  <1>12. ASSUME NEW c \in Claims, Done(c)
         PROVE  /\ pc' \in {"idle", "pin", "keep", "fill", "write"}
                /\ left' \subseteq Claims /\ rest' \subseteq Vms
                /\ cache' \in [Claims -> Claim] /\ req' \in [Claims -> Claim]
                /\ result' \in [Claims -> SlotSet \cup {None, Refused}]
                /\ used' \in [Vms -> SUBSET SlotSet]
    BY <1>12, BlankTypes DEF Done, TypeOK
  <1>13. CASE WriteStatus
    <2> PICK c \in Claims : WriteStatus!(c)
      BY <1>13 DEF WriteStatus
    <2>1. claim' \in [Claims -> Claim]
      <3>1. Shown(c) \in SlotSet \cup {None}
        BY DEF Shown
      <3>2. claim[c].vm \in Vms /\ claim[c].pin \in Pins \cup {None}
        BY DEF TypeOK, Claim
      <3>3. LiveClaim(claim[c].vm, claim[c].pin, Shown(c)) \in Claim
        BY <3>1, <3>2, LiveClaimType, Zenon
      <3> QED
        BY <3>3 DEF Patched, TypeOK
    <2> QED
      BY <1>12, <2>1 DEF TypeOK
  <1>14. CASE WriteFails
    BY <1>0, <1>12, <1>14 DEF WriteFails, TypeOK
  <1>15. CASE UNCHANGED vars
    BY <1>15 DEF vars, TypeOK
  <1> QED
    BY <1>1, <1>2, <1>3, <1>4, <1>5, <1>6, <1>7, <1>9, <1>10, <1>11, <1>13, <1>14, <1>15
    DEF Next, Pass, Allocate

\* The allocation never leaves the state space it is written for.
THEOREM TypeCorrect == Spec => []TypeOK
  BY InitType, StepType, PTL DEF Spec

-----------------------------------------------------------------------------
(* No slot is given away twice.                                            *)

\* The loops visit claims of the VM they are at.
VisitsItsVm ==
    pc \in {"pin", "keep", "fill"} =>
        \A v \in Vms : First(rest, v) => left \subseteq RequestsOf(v)

\* Every slot that a claim of a VM has got is marked as used.
UsedCovers ==
    \A c \in Claims : (req[c].live /\ result[c] \in SlotSet) => result[c] \in used[req[c].vm]

SlotInv == VisitsItsVm /\ UsedCovers /\ NoSharedSlot

\* An answer that is refused or a slot nobody in the VM has keeps the
\* invariant.
LEMMA GetsKeepsSlots ==
    ASSUME TypeOK, UsedCovers, NoSharedSlot, req' = req,
           NEW v \in Vms, NEW c \in Claims, req[c].vm = v,
           NEW s \in SlotSet \cup {Refused}, s \notin used[v],
           Gets(v, c, s)
    PROVE  UsedCovers' /\ NoSharedSlot'
  <1>1. Refused \notin SlotSet /\ None \notin SlotSet
    BY ConstantsAssumption DEF SlotSet, Refused, None
  <1>2. /\ result'[c] = s
        /\ \A d \in Claims : d # c => result'[d] = result[d]
        /\ used'[v] = used[v] \cup ({s} \cap SlotSet)
        /\ \A w \in Vms : w # v => used'[w] = used[w]
    BY DEF Gets, TypeOK
  <1>3. \A d \in Claims : req[d].vm \in Vms
    BY DEF TypeOK, Claim
  <1>4. UsedCovers'
    BY <1>2, <1>3 DEF UsedCovers
  <1>5. NoSharedSlot'
    <2> SUFFICES ASSUME NEW a \in Claims, NEW b \in Claims, a # b, SameVm(a, b),
                        result'[a] \in SlotSet
                 PROVE  result'[b] # result'[a]
      BY DEF NoSharedSlot, SameVm
    <2>1. CASE a = c
      BY <1>1, <1>2, <2>1 DEF UsedCovers, SameVm
    <2>2. CASE b = c
      BY <1>1, <1>2, <2>2 DEF UsedCovers, SameVm
    <2>3. CASE a # c /\ b # c
      BY <1>2, <2>3 DEF NoSharedSlot
    <2> QED
      BY <2>1, <2>2, <2>3
  <1> QED
    BY <1>4, <1>5

\* A loop is at one element at a time.
LEMMA FirstIsUnique ==
    ASSUME NEW set \in SUBSET Int, NEW x, NEW y, First(set, x), First(set, y)
    PROVE  x = y
  BY DEF First

\* Every step keeps the invariant.
LEMMA StepSlots == TypeOK /\ SlotInv /\ [Next]_vars => SlotInv'
  <1> SUFFICES ASSUME TypeOK, SlotInv, [Next]_vars PROVE SlotInv'
    OBVIOUS
  <1>1. Refused \notin SlotSet /\ None \notin SlotSet
    BY ConstantsAssumption DEF SlotSet, Refused, None
  <1>2. rest \in SUBSET Int
    BY ConstantsAssumption DEF TypeOK, Vms
  <1>3. CASE UNCHANGED <<pc, req, rest, left, used, result>>
    BY <1>3 DEF SlotInv, VisitsItsVm, UsedCovers, NoSharedSlot, SameVm, RequestsOf, Requests
  <1>4. CASE pc' \in {"idle", "write"} /\ result' = NoResult
    BY <1>1, <1>4 DEF SlotInv, VisitsItsVm, UsedCovers, NoSharedSlot, NoResult
  <1>5. CASE StartPass
    <2>1. VisitsItsVm'
      <3> SUFFICES ASSUME NEW v \in Vms, First(rest', v) PROVE left' \subseteq RequestsOf(v)'
        BY DEF VisitsItsVm
      <3>1. PICK w \in rest' : First(rest', w) /\ left' = {c \in Requests(cache) : cache[c].vm = w}
        BY <1>5, Zenon DEF StartPass
      <3>2. rest' \in SUBSET Int
        BY <1>5, ConstantsAssumption DEF StartPass, Requests, TypeOK, Claim, Vms
      <3>3. w = v
        BY <3>1, <3>2, FirstIsUnique
      <3> QED
        BY <1>5, <3>1, <3>3 DEF StartPass, RequestsOf, Requests
    <2>2. result' = NoResult
      BY <1>5 DEF StartPass
    <2> QED
      BY <1>1, <2>1, <2>2 DEF SlotInv, UsedCovers, NoSharedSlot, NoResult
  <1>6. ASSUME NEW v \in Vms, First(rest, v), NEW c \in Claims, NEW next \in {"keep", "fill"},
               Visited(v, c, next), pc \in {"pin", "keep"}
        PROVE  VisitsItsVm' /\ req' = req
    <2> SUFFICES ASSUME NEW w \in Vms, First(rest, w) PROVE left' \subseteq RequestsOf(w)
      BY <1>6 DEF VisitsItsVm, Visited, RequestsOf, Requests
    <2>1. w = v
      BY <1>2, <1>6, FirstIsUnique
    <2> QED
      BY <1>6, <2>1 DEF Visited, SlotInv, VisitsItsVm
  <1>7. ASSUME PassedOver, req' = req PROVE UsedCovers' /\ NoSharedSlot'
    BY <1>7 DEF PassedOver, SlotInv, UsedCovers, NoSharedSlot, SameVm
  <1>8. ASSUME NEW v \in Vms, First(rest, v), NEW c \in Claims, First(left, c),
               pc \in {"pin", "keep", "fill"}
        PROVE  req[c].vm = v
    BY <1>8 DEF SlotInv, VisitsItsVm, First, RequestsOf
  <1>9. \A v \in Vms : Refused \notin used[v]
    BY <1>1 DEF TypeOK
  <1>10. CASE Pin
    <2> PICK v \in Vms, c \in Claims : Pin!(v, c)
      BY <1>10 DEF Pin
    <2>1. VisitsItsVm' /\ req' = req
      BY <1>6
    <2>2. CASE Pinned(c)
      <3>1. PinAnswer(v, c) \in SlotSet \cup {Refused} /\ PinAnswer(v, c) \notin used[v]
        BY <1>9 DEF PinAnswer, InRange
      <3>2. req[c].vm = v
        BY <1>8
      <3> QED
        BY <2>1, <2>2, <3>1, <3>2, GetsKeepsSlots DEF SlotInv
    <2>3. CASE ~Pinned(c)
      BY <1>7, <2>1, <2>3 DEF SlotInv
    <2> QED
      BY <2>2, <2>3
  <1>11. CASE Keep
    <2> PICK v \in Vms, c \in Claims : Keep!(v, c)
      BY <1>11 DEF Keep
    <2>1. VisitsItsVm' /\ req' = req
      BY <1>6
    <2>2. CASE MayKeep(v, c)
      <3>1. req[c].slot \in SlotSet /\ req[c].slot \notin used[v]
        BY <2>2 DEF MayKeep, InRange
      <3>2. req[c].vm = v
        BY <1>8
      <3> QED
        BY <2>1, <2>2, <3>1, <3>2, GetsKeepsSlots DEF SlotInv
    <2>3. CASE ~MayKeep(v, c)
      BY <1>7, <2>1, <2>3 DEF SlotInv
    <2> QED
      BY <2>2, <2>3
  <1>12. CASE Fill
    <2> PICK v \in Vms, c \in Claims : Fill!(v, c)
      BY <1>12 DEF Fill
    <2>1. req' = req
      BY DEF Served
    <2>2. VisitsItsVm'
      <3> SUFFICES ASSUME pc' \in {"pin", "keep", "fill"}, NEW w \in Vms, First(rest', w)
                   PROVE  left' \subseteq RequestsOf(w)
        BY <2>1 DEF VisitsItsVm, RequestsOf, Requests
      <3>1. CASE left # {c}
        <4>1. rest' = rest /\ left' \subseteq left
          BY <3>1 DEF Served
        <4> QED
          BY <4>1 DEF SlotInv, VisitsItsVm
      <3>2. CASE left = {c}
        <4>1. PICK u \in Vms : First(rest \ {v}, u) /\ left' = RequestsOf(u)
          BY <3>2 DEF Served
        <4>2. rest' = rest \ {v} /\ rest \ {v} \in SUBSET Int
          BY <1>2, <3>2, Zenon DEF Served
        <4>3. u = w
          BY <4>1, <4>2, FirstIsUnique
        <4> QED
          BY <4>1, <4>3
      <3> QED
        BY <3>1, <3>2
    <2>3. CASE PassedOver
      BY <1>7, <2>1, <2>2, <2>3 DEF SlotInv
    <2>4. CASE \E s \in SlotSet \cup {Refused} : FillAnswer(v, s) /\ Gets(v, c, s)
      <3> PICK s \in SlotSet \cup {Refused} : FillAnswer(v, s) /\ Gets(v, c, s)
        BY <2>4
      <3>1. s \notin used[v]
        BY <1>9 DEF FillAnswer, FreeSlots
      <3>2. req[c].vm = v
        BY <1>8
      <3> QED
        BY <2>1, <2>2, <3>1, <3>2, GetsKeepsSlots DEF SlotInv
    <2> QED
      BY <2>3, <2>4
  <1>13. ASSUME NEW c \in Claims, pc = "write", Done(c) PROVE SlotInv'
    <2>1. CASE left # {c}
      BY <1>13, <2>1 DEF Done, SlotInv, VisitsItsVm, UsedCovers, NoSharedSlot, SameVm
    <2>2. CASE left = {c}
      <3>1. pc' = "idle" /\ result' = NoResult
        BY <1>13, <2>2 DEF Done
      <3> QED
        BY <1>4, <3>1
    <2> QED
      BY <2>1, <2>2
  <1>14. CASE Crash
    BY <1>4, <1>14 DEF Crash
  <1> QED
    BY <1>3, <1>5, <1>10, <1>11, <1>12, <1>13, <1>14
    DEF Next, Pass, Allocate, CreateClaim, EditClaim, DeleteClaim, Sync, EmptyPass,
        WriteStatus, WriteFails, Locals, vars

\* The invariant of the loops holds in every state.
LEMMA SlotsHold == Spec => []SlotInv
  <1>1. Init => SlotInv
    <2> SUFFICES ASSUME Init PROVE SlotInv
      OBVIOUS
    <2>1. pc = "idle" /\ \A c \in Claims : ~req[c].live
      BY DEF Init, NoClaims, NoClaim
    <2> QED
      BY <2>1 DEF SlotInv, VisitsItsVm, UsedCovers, NoSharedSlot, SameVm
  <1> QED
    BY <1>1, StepSlots, TypeCorrect, PTL DEF Spec

\* However many claims a VM has, whatever they pin and whatever their statuses
\* said, allocate_slots never gives one slot to two of them.
THEOREM SlotsAreExclusive == Spec => []NoSharedSlot
  <1>1. SlotInv => NoSharedSlot
    BY DEF SlotInv
  <1> QED
    BY <1>1, SlotsHold, PTL

-----------------------------------------------------------------------------
(* Pins win, and no slot is wasted.                                        *)

\* The pin loop of the VM of claim c is past c.
PinDone(c) ==
    LET v == req[c].vm IN v \in rest => First(rest, v) /\ (pc # "pin" \/ c \notin left)

\* The VM of claim c is being served, and its keep loop is not past c.
Early(c) == First(rest, req[c].vm) /\ (pc = "pin" \/ (pc = "keep" /\ c \in left))

\* The fill loop of the VM of claim c is past c.
FillDone(c) ==
    LET v == req[c].vm IN v \in rest => First(rest, v) /\ pc = "fill" /\ c \notin left

\* What PinsWin says of a claim with a pin.
PinRight(c) ==
    \/ result[c] = req[c].pin
    \/ /\ result[c] = Refused
       /\ \/ ~InRange(req[c].pin)
          \/ \E d \in 1..(c - 1) : SameVm(c, d) /\ req[d].pin = req[c].pin

\* What the loops have done for claim c so far.
Answered(c) ==
    /\ ~PinDone(c) => result[c] = None
    /\ PinDone(c) /\ Pinned(c) => PinRight(c)
    /\ Early(c) /\ ~Pinned(c) => result[c] = None
    /\ FillDone(c) => result[c] # None
    /\ ~Pinned(c) /\ result[c] = Refused => SlotSet \subseteq used[req[c].vm]

\* The loops go from the older claims to the younger ones.
LeftIsTail ==
    pc \in {"pin", "keep", "fill"} =>
        \A v \in Vms : First(rest, v) => \A d \in RequestsOf(v) \ left, e \in left : d < e

\* A used slot has been given to a claim.
UsedIsGiven == \A v \in Vms : \A s \in used[v] : \E d \in RequestsOf(v) : result[d] = s

AnswerInv ==
    /\ pc = "write" => rest = {}
    /\ LeftIsTail
    /\ UsedIsGiven
    /\ \A c \in Requests(req) : Answered(c)

\* A claim that has no answer yet gets one, or it is passed over.
LEMMA AnswerEffect ==
    ASSUME TypeOK, UsedIsGiven, req' = req, NEW v \in Vms, NEW c \in RequestsOf(v),
           \/ PassedOver
           \/ /\ result[c] = None
              /\ \E s \in SlotSet \cup {Refused} : Gets(v, c, s)
    PROVE  /\ UsedIsGiven'
           /\ \A d \in Claims : d # c => result'[d] = result[d]
           /\ result[c] # None => result'[c] = result[c]
           /\ \A w \in Vms : used[w] \subseteq used'[w]
  <1>1. CASE PassedOver
    BY <1>1 DEF PassedOver, UsedIsGiven, RequestsOf, Requests
  <1>2. ASSUME result[c] = None, NEW s \in SlotSet \cup {Refused}, Gets(v, c, s)
        PROVE  /\ UsedIsGiven'
               /\ \A d \in Claims : d # c => result'[d] = result[d]
               /\ \A w \in Vms : used[w] \subseteq used'[w]
    <2>1. /\ c \in Claims /\ result'[c] = s
          /\ \A d \in Claims : d # c => result'[d] = result[d]
          /\ used'[v] = used[v] \cup ({s} \cap SlotSet)
          /\ \A w \in Vms : w # v => used'[w] = used[w]
      BY <1>2 DEF Gets, TypeOK, RequestsOf, Requests
    <2>2. \A w \in Vms : used[w] \subseteq used'[w]
      BY <2>1
    <2>3. None \notin SlotSet
      BY ConstantsAssumption DEF SlotSet, None
    <2>4. ASSUME NEW w \in Vms, NEW t \in used'[w]
          PROVE  \E d \in RequestsOf(w) : result'[d] = t
      <3>1. CASE t \in used[w]
        <4>1. PICK d \in RequestsOf(w) : result[d] = t
          BY <3>1 DEF UsedIsGiven
        <4>2. d # c
          BY <1>2, <2>3, <3>1, <4>1, Zenon DEF TypeOK
        <4> QED
          BY <2>1, <4>1, <4>2 DEF RequestsOf, Requests
      <3>2. CASE t \notin used[w]
        BY <2>1, <2>4, <3>2
      <3> QED
        BY <3>1, <3>2
    <2>5. UsedIsGiven'
      BY <2>4 DEF UsedIsGiven, RequestsOf, Requests
    <2> QED
      BY <2>1, <2>2, <2>5
  <1> QED
    BY <1>1, <1>2

\* An answer is not the lack of one.
LEMMA PinRightAnswers ==
    ASSUME TypeOK, NEW c \in Claims, Pinned(c), PinRight(c)
    PROVE  result[c] # None
  BY ConstantsAssumption DEF PinRight, Pinned, Refused, None

\* Where a visit of the pin or the keep loop leaves the loops.
LEMMA VisitTail ==
    ASSUME TypeOK, SlotInv, LeftIsTail, pc \in {"pin", "keep"},
           NEW v \in Vms, First(rest, v), NEW c \in Claims, First(left, c),
           NEW next \in {"keep", "fill"}, Visited(v, c, next)
    PROVE  LeftIsTail'
  <1>1. rest \in SUBSET Int /\ left \in SUBSET Int
    BY ConstantsAssumption DEF TypeOK, Vms, Claims
  <1> SUFFICES ASSUME NEW w \in Vms, First(rest, w),
                      NEW d \in RequestsOf(w) \ left', NEW e \in left'
               PROVE  d < e
    BY DEF LeftIsTail, Visited, RequestsOf, Requests
  <1>2. w = v
    BY <1>1, FirstIsUnique
  <1>3. left # {c} /\ left' = left \ {c}
    BY <1>2 DEF Visited
  <1>4. CASE d = c
    BY <1>1, <1>3, <1>4 DEF First
  <1>5. CASE d # c
    BY <1>2, <1>3, <1>5, Zenon DEF LeftIsTail
  <1> QED
    BY <1>4, <1>5

\* The pin loop keeps the invariant.
LEMMA PinAnswers == TypeOK /\ SlotInv /\ AnswerInv /\ Pin => AnswerInv'
  <1> SUFFICES ASSUME TypeOK, SlotInv, AnswerInv, Pin PROVE AnswerInv'
    OBVIOUS
  <1> PICK v \in Vms, c \in Claims : Pin!(v, c)
    BY DEF Pin
  <1>1. /\ req' = req /\ rest' = rest /\ pc = "pin"
        /\ First(rest, v) /\ v \in rest
        /\ c \in left /\ c \in RequestsOf(v) /\ req[c].vm = v /\ c \in Requests(req)
    BY DEF Visited, First, SlotInv, VisitsItsVm, RequestsOf
  <1>2. \/ left = {c} /\ pc' = "keep" /\ left' = RequestsOf(v)
        \/ left # {c} /\ pc' = "pin" /\ left' = left \ {c}
    BY <1>1 DEF Visited
  <1>3. Answered(c)
    BY <1>1, Zenon DEF AnswerInv
  <1>4. ~PinDone(c) /\ result[c] = None
    BY <1>1, <1>3, Zenon DEF PinDone, Answered
  <1>5. Pinned(c) => PinAnswer(v, c) \in SlotSet \cup {Refused} /\ result'[c] = PinAnswer(v, c)
    BY <1>1 DEF PinAnswer, InRange, Gets, TypeOK
  <1>6. \/ PassedOver
        \/ result[c] = None /\ \E s \in SlotSet \cup {Refused} : Gets(v, c, s)
    BY <1>4, <1>5, Zenon
  <1>7. /\ UsedIsGiven'
        /\ \A d \in Claims : d # c => result'[d] = result[d]
        /\ \A w \in Vms : used[w] \subseteq used'[w]
    BY <1>1, <1>6, AnswerEffect, Zenon DEF AnswerInv
  <1>8. LeftIsTail'
    BY <1>1, VisitTail DEF AnswerInv
  <1>9. \A w \in Vms : First(rest, w) => w = v
    BY <1>1, FirstIsUnique, ConstantsAssumption DEF TypeOK, Vms
  <1>10. Refused \notin SlotSet /\ None \notin SlotSet /\ Refused # None
    BY ConstantsAssumption DEF SlotSet, Refused, None
  <1>11. \A d \in Claims : req[d].vm \in Vms
    BY Zenon DEF TypeOK, Claim
  <1>12. ASSUME Pinned(c) PROVE PinRight(c)'
    <2>1. CASE InRange(req[c].pin) /\ req[c].pin \notin used[v]
      BY <1>1, <1>5, <1>12, <2>1, Zenon DEF PinRight, PinAnswer
    <2>2. CASE ~InRange(req[c].pin)
      BY <1>1, <1>5, <1>12, <2>2, Zenon DEF PinRight, PinAnswer, InRange
    <2>3. CASE InRange(req[c].pin) /\ req[c].pin \in used[v]
      <3>1. PICK d \in RequestsOf(v) : result[d] = req[c].pin
        BY <2>3, Zenon DEF AnswerInv, UsedIsGiven
      <3>2. d \in Claims /\ d \in Requests(req) /\ req[d].vm = v /\ SameVm(c, d)
        BY <1>1, <3>1, Zenon DEF RequestsOf, Requests, SameVm
      <3>3. Answered(d) /\ result[d] \in SlotSet
        BY <2>3, <3>1, <3>2, Zenon DEF AnswerInv, InRange
      <3>4. PinDone(d) /\ Pinned(d)
        BY <1>1, <1>10, <3>2, <3>3, Zenon DEF Answered, Early
      <3>5. d \notin left /\ req[d].pin = req[c].pin
        BY <1>1, <1>10, <3>1, <3>2, <3>3, <3>4, Zenon DEF Answered, PinRight, PinDone
      <3>6. d < c
        BY <1>1, <3>1, <3>5, Zenon DEF AnswerInv, LeftIsTail
      <3>7. d \in 1..(c - 1)
        BY <3>2, <3>6, ConstantsAssumption DEF Claims
      <3>8. result'[c] = Refused
        BY <1>5, <1>12, <2>3, Zenon DEF PinAnswer
      <3> QED
        BY <1>1, <3>2, <3>5, <3>7, <3>8 DEF PinRight, SameVm
    <2> QED
      BY <2>1, <2>2, <2>3, Zenon
  <1>13. Answered(c)'
    <2>1. PinDone(c)'
      BY <1>1, <1>2, Zenon DEF PinDone
    <2>2. ~FillDone(c)'
      BY <1>1, <1>2, Zenon DEF FillDone
    <2>3. Pinned(c)' = Pinned(c)
      BY <1>1 DEF Pinned
    <2>4. ~Pinned(c) => result'[c] = None
      BY <1>4, Zenon DEF PassedOver
    <2> QED
      BY <1>10, <1>12, <2>1, <2>2, <2>3, <2>4, Zenon DEF Answered
  <1>14. ASSUME NEW d \in Requests(req), d # c PROVE Answered(d)'
    <2>1. d \in Claims /\ Answered(d) /\ result'[d] = result[d] /\ req[d].vm \in Vms
      BY <1>7, <1>11, <1>14, Zenon DEF AnswerInv, Requests
    <2>2. PinDone(d)' <=> PinDone(d)
      BY <1>1, <1>2, <1>9, <1>14, <2>1, Zenon DEF PinDone
    <2>3. Early(d)' => Early(d)
      BY <1>1, Zenon DEF Early
    <2>4. FillDone(d)' => FillDone(d)
      BY <1>1, <1>2, Zenon DEF FillDone
    <2>5. Pinned(d)' = Pinned(d) /\ (PinRight(d) => PinRight(d)')
      BY <1>1, <2>1, Zenon DEF Pinned, PinRight, SameVm
    <2> QED
      BY <1>1, <1>7, <2>1, <2>2, <2>3, <2>4, <2>5, Zenon DEF Answered
  <1> QED
    BY <1>1, <1>2, <1>7, <1>8, <1>13, <1>14 DEF AnswerInv, Requests

\* The keep loop keeps the invariant.
LEMMA KeepAnswers == TypeOK /\ SlotInv /\ AnswerInv /\ Keep => AnswerInv'
  <1> SUFFICES ASSUME TypeOK, SlotInv, AnswerInv, Keep PROVE AnswerInv'
    OBVIOUS
  <1> PICK v \in Vms, c \in Claims : Keep!(v, c)
    BY Zenon DEF Keep
  <1>1. /\ req' = req /\ rest' = rest /\ pc = "keep"
        /\ First(rest, v) /\ v \in rest
        /\ c \in left /\ c \in RequestsOf(v) /\ req[c].vm = v /\ c \in Requests(req)
    BY Zenon DEF Visited, First, SlotInv, VisitsItsVm, RequestsOf
  <1>2. \/ left = {c} /\ pc' = "fill" /\ left' = RequestsOf(v)
        \/ left # {c} /\ pc' = "keep" /\ left' = left \ {c}
    BY <1>1, Zenon DEF Visited
  <1>3. Answered(c)
    BY <1>1, Zenon DEF AnswerInv
  <1>4. MayKeep(v, c) => ~Pinned(c) /\ result[c] = None /\ req[c].slot \in SlotSet
    BY <1>1, <1>3, Zenon DEF MayKeep, Early, Answered, InRange
  <1>5. \/ PassedOver
        \/ result[c] = None /\ \E s \in SlotSet \cup {Refused} : Gets(v, c, s)
    BY <1>4, Zenon
  <1>6. /\ UsedIsGiven'
        /\ \A d \in Claims : d # c => result'[d] = result[d]
        /\ \A w \in Vms : used[w] \subseteq used'[w]
    BY <1>1, <1>5, AnswerEffect DEF AnswerInv
  <1>7. result'[c] = result[c] \/ (~Pinned(c) /\ result'[c] \in SlotSet)
    BY <1>4, Zenon DEF Gets, PassedOver, TypeOK
  <1>8. LeftIsTail'
    BY <1>1, VisitTail DEF AnswerInv
  <1>9. \A w \in Vms : First(rest, w) => w = v
    BY <1>1, FirstIsUnique, ConstantsAssumption DEF TypeOK, Vms
  <1>10. Refused \notin SlotSet
    BY ConstantsAssumption DEF SlotSet, Refused
  <1>11. \A d \in Claims : req[d].vm \in Vms
    BY Zenon DEF TypeOK, Claim
  <1>12. ASSUME NEW d \in Requests(req) PROVE Answered(d)'
    <2>1. d \in Claims /\ Answered(d) /\ req[d].vm \in Vms
      BY <1>11 DEF AnswerInv, Requests
    <2>2. result'[d] = result[d] \/ (d = c /\ ~Pinned(c) /\ result'[c] \in SlotSet)
      BY <1>6, <1>7, <2>1, Zenon
    <2>3. PinDone(d)' <=> PinDone(d)
      BY <1>1, <1>2, Zenon DEF PinDone
    <2>4. Early(d)' => Early(d) /\ d # c
      BY <1>1, <1>2, Zenon DEF Early
    <2>5. FillDone(d)' => FillDone(d) /\ d # c
      <3> SUFFICES ASSUME FillDone(d)' PROVE req[d].vm \notin rest /\ d # c
        BY Zenon DEF FillDone
      <3>1. CASE req[d].vm \in rest
        <4>1. req[d].vm = v /\ pc' = "fill" /\ d \notin left'
          BY <1>1, <1>9, <2>1, <3>1, Zenon DEF FillDone
        <4>2. d \in RequestsOf(v)
          BY <4>1, Zenon DEF RequestsOf
        <4> QED
          BY <1>2, <4>1, <4>2, Zenon
      <3> QED
        BY <1>1, <3>1, Zenon
    <2>6. PinDone(c)
      BY <1>1, Zenon DEF PinDone
    <2>7. Pinned(d)' = Pinned(d) /\ (Pinned(d) /\ PinRight(d) => PinRight(d)')
      BY <1>1, <2>2 DEF Pinned, PinRight, SameVm
    <2> QED
      BY <1>1, <1>6, <1>10, <2>1, <2>2, <2>3, <2>4, <2>5, <2>6, <2>7, Zenon DEF Answered
  <1> QED
    BY <1>1, <1>2, <1>6, <1>8, <1>12 DEF AnswerInv, Requests

\* The fill loop keeps the invariant.
LEMMA FillAnswers == TypeOK /\ SlotInv /\ AnswerInv /\ Fill => AnswerInv'
  <1> SUFFICES ASSUME TypeOK, SlotInv, AnswerInv, Fill PROVE AnswerInv'
    OBVIOUS
  <1> PICK v \in Vms, c \in Claims : Fill!(v, c)
    BY Zenon DEF Fill
  <1>1. /\ req' = req /\ pc = "fill"
        /\ First(rest, v) /\ v \in rest
        /\ c \in left /\ c \in RequestsOf(v) /\ req[c].vm = v /\ c \in Requests(req)
        /\ First(left, c)
    BY Zenon DEF Served, First, SlotInv, VisitsItsVm, RequestsOf
  <1>2. /\ UsedIsGiven'
        /\ \A d \in Claims : d # c => result'[d] = result[d]
        /\ result[c] # None => result'[c] = result[c]
        /\ \A w \in Vms : used[w] \subseteq used'[w]
    <2>1. \/ PassedOver
          \/ result[c] = None /\ \E s \in SlotSet \cup {Refused} : Gets(v, c, s)
      OBVIOUS
    <2> QED
      BY <1>1, <2>1, AnswerEffect DEF AnswerInv
  <1>3. None \notin SlotSet \cup {Refused} /\ Refused \notin SlotSet
    BY ConstantsAssumption DEF SlotSet, Refused, None
  <1>4. result'[c] # None /\ (result[c] = None /\ result'[c] = Refused => SlotSet \subseteq used[v])
    <2>1. CASE result[c] # None
      BY <1>2, <2>1, Zenon
    <2>2. ASSUME result[c] = None, NEW s \in SlotSet \cup {Refused}, FillAnswer(v, s), Gets(v, c, s)
          PROVE  result'[c] # None /\ (result'[c] = Refused => SlotSet \subseteq used[v])
      <3>1. result'[c] = s
        BY <2>2, Zenon DEF Gets, TypeOK
      <3>2. s = Refused => FreeSlots(v) = {}
        BY <1>3, <2>2 DEF FillAnswer, FreeSlots
      <3> QED
        BY <1>3, <3>1, <3>2 DEF FreeSlots
    <2> QED
      BY <2>1, <2>2, Zenon
  <1>5. rest \in SUBSET Int /\ left \in SUBSET Int
    BY ConstantsAssumption DEF TypeOK, Vms, Claims
  <1>6. \A w \in Vms : First(rest, w) => w = v
    BY <1>1, <1>5, FirstIsUnique, Zenon
  <1>7. \A d \in Requests(req) : /\ d \in Claims /\ Answered(d) /\ req[d].vm \in Vms
                                 /\ Pinned(d)' = Pinned(d)
    BY <1>1, Zenon DEF AnswerInv, Requests, Pinned, TypeOK, Claim
  <1>8. ASSUME NEW d \in Requests(req), PinDone(d), Pinned(d) PROVE PinRight(d)'
    <2>1. PinRight(d)
      BY <1>7, <1>8, Zenon DEF Answered
    <2>2. result'[d] = result[d]
      BY <1>2, <1>7, <1>8, <2>1, PinRightAnswers, Zenon
    <2> QED
      BY <1>1, <2>1, <2>2, Zenon DEF PinRight, SameVm
  <1>9. ASSUME NEW d \in Requests(req), ~Pinned(d), result'[d] = Refused
        PROVE  SlotSet \subseteq used'[req[d].vm]
    <2>1. result[d] = Refused \/ (d = c /\ result[c] = None)
      BY <1>2, <1>7, <1>9, Zenon
    <2> QED
      BY <1>1, <1>2, <1>4, <1>7, <1>9, <2>1, Zenon DEF Answered
  <1>10. CASE left # {c}
    <2>1. left' = left \ {c} /\ pc' = "fill" /\ rest' = rest
      BY <1>1, <1>10, Zenon DEF Served
    <2>2. ASSUME NEW d \in Requests(req) PROVE Answered(d)'
      <3>1. PinDone(d)' <=> PinDone(d)
        BY <1>1, <2>1, Zenon DEF PinDone
      <3>2. ~Early(d)'
        BY <2>1, Zenon DEF Early
      <3>3. FillDone(d)' /\ d # c => FillDone(d)
        BY <1>1, <2>1, Zenon DEF FillDone
      <3>4. PinDone(c)
        BY <1>1, Zenon DEF PinDone
      <3>5. ~PinDone(d)' => result'[d] = None
        <4>1. ~PinDone(d)' => ~PinDone(d) /\ d # c
          BY <3>1, <3>4, Zenon
        <4>2. ~PinDone(d) => result[d] = None
          BY <1>7, Zenon DEF Answered
        <4> QED
          BY <1>2, <1>7, <4>1, <4>2
      <3>6. FillDone(d)' => result'[d] # None
        BY <1>2, <1>4, <1>7, <3>3, Zenon DEF Answered
      <3>7. ~Pinned(d)' /\ result'[d] = Refused => SlotSet \subseteq used'[req'[d].vm]
        BY <1>1, <1>7, <1>9, Zenon
      <3>8. PinDone(d)' /\ Pinned(d)' => PinRight(d)'
        BY <1>7, <1>8, <3>1, Zenon
      <3> QED
        BY <3>2, <3>5, <3>6, <3>7, <3>8, Zenon DEF Answered
    <2>3. LeftIsTail'
      <3> SUFFICES ASSUME NEW w \in Vms, First(rest, w),
                          NEW d \in RequestsOf(w) \ left', NEW e \in left'
                   PROVE  d < e
        BY <1>1, <2>1 DEF LeftIsTail, RequestsOf, Requests
      <3>1. w = v
        BY <1>6
      <3>2. CASE d = c
        BY <1>1, <1>5, <2>1, <3>2 DEF First
      <3>3. CASE d # c
        BY <1>1, <2>1, <3>1, <3>3, Zenon DEF LeftIsTail, AnswerInv
      <3> QED
        BY <3>2, <3>3, Zenon
    <2> QED
      BY <1>1, <1>2, <2>1, <2>2, <2>3, Zenon DEF AnswerInv, Requests
  <1>11. CASE left = {c}
    <2>1. rest' = rest \ {v}
      BY <1>11, Zenon DEF Served
    <2>2. \/ rest = {v} /\ pc' = "write"
          \/ \E w \in Vms : First(rest \ {v}, w) /\ left' = RequestsOf(w) /\ pc' = "pin"
      BY <1>11, Zenon DEF Served
    <2>3. LeftIsTail' /\ (pc' = "write" => rest' = {})
      <3>1. CASE rest = {v} /\ pc' = "write"
        BY <2>1, <3>1, Zenon DEF LeftIsTail
      <3>2. ASSUME NEW w \in Vms, First(rest \ {v}, w), left' = RequestsOf(w), pc' = "pin"
            PROVE  LeftIsTail'
        <4>1. \A u \in Vms : First(rest', u) => u = w
          BY <1>5, <2>1, <3>2, FirstIsUnique, Zenon
        <4> QED
          BY <1>1, <3>2, <4>1 DEF LeftIsTail, RequestsOf, Requests
      <3> QED
        BY <2>2, <3>1, <3>2
    <2>4. ASSUME NEW d \in Requests(req), req[d].vm \notin rest' PROVE Answered(d)'
      <3>1. PinDone(d)' /\ ~Early(d)'
        BY <1>1, <2>4, Zenon DEF PinDone, Early, First
      <3>2. PinDone(d) /\ (d # c => FillDone(d))
        BY <1>1, <1>11, <2>1, <2>4, Zenon DEF PinDone, FillDone
      <3>5. ~PinDone(d)' => result'[d] = None
        BY <1>2, <1>7, <3>1 DEF Answered
      <3>6. FillDone(d)' => result'[d] # None
        BY <1>2, <1>4, <1>7, <3>2, Zenon DEF Answered
      <3>7. ~Pinned(d)' /\ result'[d] = Refused => SlotSet \subseteq used'[req'[d].vm]
        BY <1>1, <1>7, <1>9, Zenon
      <3>8. PinDone(d)' /\ Pinned(d)' => PinRight(d)'
        BY <1>7, <1>8, <3>2, Zenon
      <3> QED
        BY <3>1, <3>5, <3>6, <3>7, <3>8, Zenon DEF Answered
    <2>5. ASSUME NEW d \in Requests(req), req[d].vm \in rest' PROVE Answered(d)'
      <3>1. req[d].vm # v /\ req[d].vm \in rest /\ d # c
        BY <1>1, <2>1, <2>5
      <3>2. ~PinDone(d) /\ result'[d] = None
        BY <1>2, <1>6, <1>7, <3>1, Zenon DEF PinDone, Answered
      <3>3. PICK w \in Vms : First(rest \ {v}, w) /\ left' = RequestsOf(w) /\ pc' = "pin"
        BY <2>1, <2>2, <2>5
      <3>4. \A u \in Vms : First(rest', u) => u = w
        BY <1>5, <2>1, <3>3, FirstIsUnique, Zenon
      <3>5. ~PinDone(d)'
        BY <1>1, <1>7, <2>5, <3>3, <3>4, Zenon DEF PinDone, RequestsOf
      <3>6. ~FillDone(d)'
        BY <1>1, <2>5, <3>3, Zenon DEF FillDone
      <3> QED
        BY <1>3, <3>2, <3>5, <3>6, Zenon DEF Answered
    <2> QED
      BY <1>1, <1>2, <2>3, <2>4, <2>5 DEF AnswerInv, Requests
  <1> QED
    BY <1>10, <1>11

\* The start of a pass.
LEMMA StartAnswers == TypeOK /\ StartPass => AnswerInv'
  <1> SUFFICES ASSUME TypeOK, StartPass PROVE AnswerInv'
    OBVIOUS
  <1>1. /\ req' = cache /\ pc' = "pin" /\ result' = NoResult /\ used' = NoneUsed
        /\ rest' = {cache[c].vm : c \in Requests(cache)}
    BY DEF StartPass
  <1>2. PICK v \in rest' : First(rest', v) /\ left' = {c \in Requests(cache) : cache[c].vm = v}
    BY Zenon DEF StartPass
  <1>3. rest' \in SUBSET Int
    BY <1>1, ConstantsAssumption DEF Requests, TypeOK, Claim, Vms
  <1>4. \A w \in Vms : First(rest', w) => w = v
    BY <1>2, <1>3, FirstIsUnique
  <1>5. UsedIsGiven'
    BY <1>1, Zenon DEF UsedIsGiven, NoneUsed
  <1>6. LeftIsTail'
    BY <1>1, <1>2, <1>4, Zenon DEF LeftIsTail, RequestsOf, Requests
  <1>7. ASSUME NEW c \in Requests(cache) PROVE Answered(c)'
    <2>1. c \in Claims /\ cache[c].vm \in rest' /\ cache[c].vm \in Vms
      BY <1>1 DEF Requests, TypeOK, Claim
    <2>2. result'[c] = None /\ None # Refused
      BY <1>1, <2>1 DEF NoResult, None, Refused
    <2>3. ~PinDone(c)'
      BY <1>1, <1>2, <1>4, <2>1, Zenon DEF PinDone
    <2>4. ~FillDone(c)'
      BY <1>1, <2>1, Zenon DEF FillDone
    <2> QED
      BY <2>2, <2>3, <2>4 DEF Answered
  <1> QED
    BY <1>1, <1>5, <1>6, <1>7 DEF AnswerInv, Requests

\* Every step keeps the invariant.
LEMMA StepAnswers == TypeOK /\ SlotInv /\ AnswerInv /\ [Next]_vars => AnswerInv'
  <1> SUFFICES ASSUME TypeOK, SlotInv, AnswerInv, [Next]_vars PROVE AnswerInv'
    OBVIOUS
  <1>1. CASE UNCHANGED <<pc, req, rest, left, used, result>>
    <2>1. ASSUME NEW c \in Requests(req) PROVE Answered(c)'
      <3>1. Answered(c)
        BY Zenon DEF AnswerInv
      <3>2. (PinRight(c)' <=> PinRight(c)) /\ (Pinned(c)' <=> Pinned(c))
        BY <1>1 DEF PinRight, Pinned, SameVm
      <3>3. (PinDone(c)' <=> PinDone(c)) /\ (Early(c)' <=> Early(c))
            /\ (FillDone(c)' <=> FillDone(c))
        BY <1>1, Zenon DEF PinDone, Early, FillDone
      <3> QED
        BY <1>1, <3>1, <3>2, <3>3 DEF Answered
    <2>2. LeftIsTail' /\ UsedIsGiven'
      BY <1>1 DEF AnswerInv, LeftIsTail, UsedIsGiven, RequestsOf, Requests
    <2> QED
      BY <1>1, <2>1, <2>2, Zenon DEF AnswerInv, Requests
  <1>2. ASSUME pc' = "idle", req' = NoClaims, used' = NoneUsed PROVE AnswerInv'
    BY <1>2 DEF AnswerInv, LeftIsTail, UsedIsGiven, NoneUsed, Requests, NoClaims, NoClaim
  <1>3. ASSUME NEW c \in Claims, pc = "write", Done(c) PROVE AnswerInv'
    <2>1. CASE left # {c}
      <3>1. /\ UNCHANGED <<pc, req, rest, result, used>> /\ rest = {} /\ pc = "write"
        BY <1>3, <2>1, Zenon DEF Done, AnswerInv
      <3>2. \A d \in Requests(req) : PinRight(d)' = PinRight(d) /\ Pinned(d)' = Pinned(d)
        BY <3>1, Zenon DEF PinRight, Pinned, SameVm
      <3>3. \A d \in Requests(req) : /\ PinDone(d) /\ PinDone(d)' /\ ~Early(d)'
                                     /\ FillDone(d) /\ FillDone(d)'
        BY <3>1, Zenon DEF PinDone, Early, FillDone, First
      <3>4. ASSUME NEW d \in Requests(req) PROVE Answered(d)'
        <4>1. Answered(d)
          BY Zenon DEF AnswerInv
        <4> QED
          BY <3>1, <3>2, <3>3, <4>1 DEF Answered
      <3>5. LeftIsTail' /\ UsedIsGiven'
        BY <3>1 DEF AnswerInv, LeftIsTail, UsedIsGiven, RequestsOf, Requests, First
      <3> QED
        BY <3>1, <3>4, <3>5 DEF AnswerInv, Requests
    <2>2. CASE left = {c}
      BY <1>2, <1>3, <2>2 DEF Done
    <2> QED
      BY <2>1, <2>2
  <1>4. CASE Crash
    BY <1>2, <1>4 DEF Crash
  <1> QED
    BY <1>1, <1>3, <1>4, StartAnswers, PinAnswers, KeepAnswers, FillAnswers
    DEF Next, Pass, Allocate, CreateClaim, EditClaim, DeleteClaim, Sync, EmptyPass,
        WriteStatus, WriteFails, Locals, vars

\* The answers of every pass are as the loops make them.
LEMMA AnswersHold == Spec => []AnswerInv
  <1>1. Init => AnswerInv
    <2> SUFFICES ASSUME Init PROVE AnswerInv
      OBVIOUS
    <2>1. Requests(req) = {} /\ rest = {} /\ pc = "idle"
      BY DEF Init, Requests, NoClaims, NoClaim
    <2>2. LeftIsTail
      BY <2>1 DEF LeftIsTail, First
    <2>3. UsedIsGiven
      BY DEF Init, UsedIsGiven, NoneUsed
    <2> QED
      BY <2>1, <2>2, <2>3 DEF AnswerInv
  <1> QED
    BY <1>1, StepAnswers, SlotsHold, TypeCorrect, PTL DEF Spec

\* A claim that pins a slot gets it, unless the slot does not exist or an older
\* claim of the VM pins it too: no slot a claim already had and no free slot
\* allocate_slots gives away comes before a pin.
THEOREM PinsAlwaysWin == Spec => []PinsWin
  <1>1. TypeOK /\ AnswerInv => PinsWin
    BY DEF AnswerInv, PinsWin, Answered, PinDone, PinRight
  <1> QED
    BY <1>1, AnswersHold, TypeCorrect, PTL

\* A claim goes without a slot only if others of its VM have all of them.
THEOREM SlotsAreNotWasted == Spec => []NoSlotWasted
  <1>1. ASSUME TypeOK, AnswerInv, pc = "write", NEW c \in Requests(req), ~Pinned(c),
               result[c] \notin SlotSet, NEW s \in SlotSet
        PROVE  \E d \in Claims : SameVm(c, d) /\ result[d] = s
    <2>1. c \in Claims /\ req[c].live /\ req[c].vm \in Vms /\ Answered(c)
      BY <1>1, Zenon DEF Requests, AnswerInv, TypeOK, Claim
    <2>2. FillDone(c)
      BY <1>1, Zenon DEF AnswerInv, FillDone
    <2>3. result[c] = Refused
      BY <1>1, <2>1, <2>2, Zenon DEF Answered, TypeOK
    <2>4. s \in used[req[c].vm]
      BY <1>1, <2>1, <2>3, Zenon DEF Answered
    <2>5. PICK d \in RequestsOf(req[c].vm) : result[d] = s
      BY <1>1, <2>1, <2>4 DEF AnswerInv, UsedIsGiven
    <2> QED
      BY <2>1, <2>5, Zenon DEF RequestsOf, Requests, SameVm
  <1>2. TypeOK /\ AnswerInv => NoSlotWasted
    BY <1>1, Zenon DEF NoSlotWasted
  <1> QED
    BY <1>2, AnswersHold, TypeCorrect, PTL

-----------------------------------------------------------------------------
(* Devices stay on their slots.                                            *)

\* The keep loop of the VM of claim c is past c.
KeepDone(c) ==
    LET v == req[c].vm
    IN  v \in rest => First(rest, v) /\ (pc = "fill" \/ (pc = "keep" /\ c \notin left))

\* What SlotsAreStable allows as a cause.
Displaced(c) ==
    \/ \E d \in Claims \ {c} : SameVm(c, d) /\ req[d].pin = req[c].slot
    \/ \E d \in 1..(c - 1) : SameVm(c, d) /\ req[d].slot = req[c].slot

\* A claim without a pin keeps its slot unless it is displaced, and the keep
\* loop gives it no other.
Kept(c) ==
    ~Pinned(c) =>
        /\ KeepDone(c) /\ req[c].slot # None => result[c] = req[c].slot \/ Displaced(c)
        /\ pc = "keep" /\ First(rest, req[c].vm) /\ result[c] # None => result[c] = req[c].slot

KeepInv ==
    /\ \A c \in Requests(req) : Kept(c)
    /\ pc = "write" => left \subseteq Requests(req)
    /\ \A c \in Claims : ~claim[c].live => claim[c].slot = None

\* The pin loop keeps the invariant.
LEMMA PinKeeps ==
    ASSUME TypeOK, SlotInv, AnswerInv, AnswerInv', KeepInv, Pin
    PROVE  KeepInv'
  <1> PICK v \in Vms, c \in Claims : Pin!(v, c)
    BY Zenon DEF Pin
  <1>1. /\ req' = req /\ rest' = rest /\ claim' = claim /\ pc = "pin"
        /\ First(rest, v) /\ v \in rest /\ req[c].vm = v
    BY Zenon DEF Visited, First, SlotInv, VisitsItsVm, RequestsOf
  <1>2. \/ pc' = "keep" /\ left' = RequestsOf(v)
        \/ pc' = "pin"
    BY <1>1, Zenon DEF Visited
  <1>3. \A w \in Vms : First(rest, w) => w = v
    BY <1>1, FirstIsUnique, ConstantsAssumption DEF TypeOK, Vms
  <1>4. \A d \in Claims : d # c => result'[d] = result[d]
    BY Zenon DEF Gets, PassedOver, TypeOK
  <1>5. ASSUME NEW d \in Requests(req), ~Pinned(d) PROVE Kept(d)'
    <2>1. d \in Claims /\ req[d].vm \in Vms /\ Kept(d) /\ ~Pinned(d)' /\ Answered(d)'
      BY <1>1, <1>5, Zenon DEF KeepInv, AnswerInv, Requests, Pinned, TypeOK, Claim
    <2>2. req[d].vm = v => d \in RequestsOf(v)
      BY DEF RequestsOf
    <2>3. KeepDone(d)' => req[d].vm \notin rest
      BY <1>1, <1>2, <1>3, <2>1, <2>2, Zenon DEF KeepDone
    <2>4. KeepDone(d)' => KeepDone(d) /\ result'[d] = result[d]
      BY <1>1, <1>4, <2>1, <2>3, Zenon DEF KeepDone
    <2>5. Displaced(d)' <=> Displaced(d)
      BY <1>1, Zenon DEF Displaced, SameVm
    <2>6. pc' = "keep" /\ First(rest', req'[d].vm) => result'[d] = None
      <3> SUFFICES ASSUME pc' = "keep", First(rest, req[d].vm) PROVE Early(d)'
        BY <1>1, <2>1, Zenon DEF Answered
      <3> QED
        BY <1>1, <1>2, <1>3, <2>1, <2>2, Zenon DEF Early
    <2> QED
      BY <1>1, <1>5, <2>1, <2>4, <2>5, <2>6, Zenon DEF Kept
  <1>6. \A d \in Requests(req) : Pinned(d) => Kept(d)'
    BY <1>1, Zenon DEF Kept, Pinned
  <1> QED
    BY <1>1, <1>2, <1>5, <1>6, Zenon DEF KeepInv, Requests

\* The keep loop keeps the invariant.
LEMMA KeepKeeps ==
    ASSUME TypeOK, SlotInv, AnswerInv, KeepInv, Keep
    PROVE  KeepInv'
  <1> PICK v \in Vms, c \in Claims : Keep!(v, c)
    BY Zenon DEF Keep
  <1>1. /\ req' = req /\ rest' = rest /\ claim' = claim /\ pc = "keep"
        /\ First(rest, v) /\ v \in rest /\ req[c].vm = v
        /\ c \in left /\ c \in RequestsOf(v) /\ c \in Requests(req)
    BY Zenon DEF Visited, First, SlotInv, VisitsItsVm, RequestsOf
  <1>2. \/ left = {c} /\ pc' = "fill"
        \/ left # {c} /\ pc' = "keep" /\ left' = left \ {c}
    BY <1>1, Zenon DEF Visited
  <1>3. \A w \in Vms : First(rest, w) => w = v
    BY <1>1, FirstIsUnique, ConstantsAssumption DEF TypeOK, Vms
  <1>4. \A d \in Claims : d # c => result'[d] = result[d]
    BY DEF Gets, PassedOver, TypeOK
  <1>5. None \notin SlotSet /\ Refused \notin SlotSet
    BY ConstantsAssumption DEF SlotSet, None, Refused
  <1>6. ASSUME NEW d \in Requests(req), d # c PROVE Kept(d)'
    <2>1. d \in Claims /\ req[d].vm \in Vms /\ Kept(d) /\ result'[d] = result[d]
      BY <1>4, <1>6, Zenon DEF KeepInv, Requests, TypeOK, Claim
    <2>2. KeepDone(d)' => KeepDone(d)
      BY <1>1, <1>2, <1>3, <1>6, <2>1, Zenon DEF KeepDone
    <2>3. (Displaced(d)' <=> Displaced(d)) /\ Pinned(d)' = Pinned(d)
      BY <1>1, Zenon DEF Displaced, SameVm, Pinned
    <2> QED
      BY <1>1, <2>1, <2>2, <2>3, Zenon DEF Kept
  <1>7. Kept(c)'
    <2> SUFFICES ASSUME ~Pinned(c)
                 PROVE  /\ req[c].slot # None => result'[c] = req[c].slot \/ Displaced(c)
                        /\ result'[c] # None => result'[c] = req[c].slot
      BY <1>1, Zenon DEF Kept, Pinned, Displaced, SameVm
    <2>1. CASE MayKeep(v, c)
      BY <1>1, <2>1, Zenon DEF Gets, TypeOK
    <2>2. CASE ~MayKeep(v, c)
      <3>1. result'[c] = None
        <4>1. Answered(c) /\ Early(c)
          BY <1>1, Zenon DEF AnswerInv, Early
        <4>2. result[c] = None
          BY <4>1 DEF Answered
        <4> QED
          BY <2>2, <4>2, Zenon DEF PassedOver
      <3>2. ASSUME req[c].slot # None PROVE Displaced(c)
        <4>1. req[c].slot \in SlotSet /\ req[c].slot \in used[v]
          BY <2>2, <3>2, Zenon DEF MayKeep, InRange, TypeOK, Claim
        <4>2. PICK d \in RequestsOf(v) : result[d] = req[c].slot
          BY <4>1, Zenon DEF AnswerInv, UsedIsGiven
        <4>3. d \in Claims /\ d \in Requests(req) /\ SameVm(c, d) /\ req[d].vm = v
          BY <1>1, <4>2, Zenon DEF RequestsOf, Requests, SameVm
        <4>4. Answered(d) /\ Kept(d) /\ result[d] # None /\ result[d] # Refused
          BY <1>5, <4>1, <4>2, <4>3, Zenon DEF AnswerInv, KeepInv
        <4>5. CASE Pinned(d)
          <5>1. req[d].pin = req[c].slot
            BY <4>2, <4>4, <4>5, Zenon DEF Answered, PinRight
          <5> QED
            BY <4>3, <4>5, <5>1, Zenon DEF Displaced
        <4>6. CASE ~Pinned(d)
          <5>1. req[d].slot = req[c].slot
            BY <1>1, <4>2, <4>3, <4>4, <4>6, Zenon DEF Kept
          <5>2. d \notin left
            BY <1>1, <4>3, <4>4, <4>6, Zenon DEF Answered, Early
          <5>3. d < c
            BY <1>1, <4>2, <5>2, Zenon DEF AnswerInv, LeftIsTail
          <5>4. d \in 1..(c - 1)
            BY <4>3, <5>3, ConstantsAssumption DEF Claims
          <5> QED
            BY <4>3, <5>1, <5>4 DEF Displaced
        <4> QED
          BY <4>5, <4>6, Zenon
      <3> QED
        BY <3>1, <3>2, Zenon
    <2> QED
      BY <2>1, <2>2, Zenon
  <1> QED
    BY <1>1, <1>2, <1>6, <1>7 DEF KeepInv, Requests

\* The fill loop keeps the invariant.
LEMMA FillKeeps ==
    ASSUME TypeOK, SlotInv, AnswerInv, KeepInv, Fill
    PROVE  KeepInv'
  <1> PICK v \in Vms, c \in Claims : Fill!(v, c)
    BY Zenon DEF Fill
  <1>1. /\ req' = req /\ claim' = claim /\ pc = "fill"
        /\ First(rest, v) /\ v \in rest /\ req[c].vm = v
    BY DEF Served, First, SlotInv, VisitsItsVm, RequestsOf
  <1>2. \/ rest' = rest /\ pc' = "fill"
        \/ rest' = rest \ {v} /\ pc' = "pin"
        \/ rest' = rest \ {v} /\ rest = {v} /\ pc' = "write" /\ left' = Requests(req)
    BY <1>1, Zenon DEF Served
  <1>3. \A d \in Claims : result[d] # None => result'[d] = result[d]
    BY DEF Gets, PassedOver, TypeOK
  <1>4. ASSUME NEW d \in Requests(req) PROVE Kept(d)'
    <2>1. d \in Claims /\ Kept(d)
      BY Zenon DEF KeepInv, Requests
    <2>2. KeepDone(d)' => KeepDone(d)
      BY <1>1, <1>2, Zenon DEF KeepDone
    <2>3. (Displaced(d)' <=> Displaced(d)) /\ Pinned(d)' = Pinned(d)
      BY <1>1 DEF Displaced, SameVm, Pinned
    <2> QED
      BY <1>1, <1>2, <1>3, <2>1, <2>2, <2>3, Zenon DEF Kept
  <1> QED
    BY <1>1, <1>2, <1>4 DEF KeepInv, Requests

\* Every step keeps the invariant.
LEMMA StepKeeps ==
    TypeOK /\ SlotInv /\ AnswerInv /\ AnswerInv' /\ KeepInv /\ [Next]_vars => KeepInv'
  <1> SUFFICES ASSUME TypeOK, SlotInv, AnswerInv, AnswerInv', KeepInv, [Next]_vars
               PROVE  KeepInv'
    OBVIOUS
  <1> DEFINE Dead == \A c \in Claims : ~claim[c].live => claim[c].slot = None
  <1>1. ASSUME UNCHANGED <<pc, req, rest, left, used, result>>, Dead' PROVE KeepInv'
    BY <1>1, Zenon DEF KeepInv, Kept, KeepDone, Displaced, SameVm, Pinned, Requests
  <1>2. ASSUME pc' = "idle", req' = NoClaims, Dead' PROVE KeepInv'
    BY <1>2, Zenon DEF KeepInv, Requests, NoClaims, NoClaim
  <1>3. ASSUME NEW c \in Claims, pc = "write", Done(c), Dead' PROVE KeepInv'
    <2>1. CASE left # {c}
      <3>1. /\ UNCHANGED <<pc, req, rest, result>> /\ rest = {} /\ pc = "write"
            /\ left' = left \ {c}
        BY <1>3, <2>1 DEF Done, AnswerInv
      <3> QED
        BY <1>3, <3>1, Zenon DEF KeepInv, Kept, KeepDone, Displaced, SameVm, First, Pinned, Requests
    <2>2. CASE left = {c}
      BY <1>2, <1>3, <2>2 DEF Done
    <2> QED
      BY <2>1, <2>2
  <1>4. ASSUME claim' = claim PROVE Dead'
    BY <1>4, Zenon DEF KeepInv
  <1>5. ASSUME NEW c \in Claims, CreateClaim(c) \/ EditClaim(c) \/ DeleteClaim(c) PROVE Dead'
    BY <1>5 DEF CreateClaim, EditClaim, DeleteClaim, LiveClaim, NoClaim, KeepInv, TypeOK
  <1>6. ASSUME NEW c \in Claims, Patched(c) PROVE Dead'
    BY <1>6, Zenon DEF Patched, LiveClaim, KeepInv, TypeOK
  <1>7. CASE \E c \in Claims : CreateClaim(c) \/ EditClaim(c) \/ DeleteClaim(c)
    BY <1>1, <1>5, <1>7, Zenon DEF CreateClaim, EditClaim, DeleteClaim, Locals
  <1>8. CASE Sync \/ EmptyPass \/ UNCHANGED vars
    BY <1>1, <1>4, <1>8 DEF Sync, EmptyPass, Locals, vars
  <1>9. CASE Crash
    BY <1>2, <1>4, <1>9, Zenon DEF Crash
  <1>10. CASE WriteStatus
    BY <1>3, <1>4, <1>6, <1>10 DEF WriteStatus
  <1>11. CASE WriteFails
    BY <1>3, <1>4, <1>11, Zenon DEF WriteFails
  <1>12. CASE StartPass
    <2>1. /\ req' = cache /\ pc' = "pin" /\ claim' = claim
          /\ rest' = {cache[c].vm : c \in Requests(cache)}
      BY <1>12, Zenon DEF StartPass
    <2>2. ASSUME NEW c \in Requests(cache) PROVE Kept(c)'
      <3>1. cache[c].vm \in rest'
        BY <2>1
      <3> QED
        BY <2>1, <3>1, Zenon DEF Kept, KeepDone
    <2> QED
      BY <1>4, <2>1, <2>2, Zenon DEF KeepInv, Requests
  <1> QED
    BY <1>7, <1>8, <1>9, <1>10, <1>11, <1>12, PinKeeps, KeepKeeps, FillKeeps
    DEF Next, Pass, Allocate

\* A device is not moved under a running guest: the slot that a pass knows of is
\* taken from a claim without a pin only for a pin, or for an older claim that
\* shows the same slot.
THEOREM SlotsStayStable == Spec => SlotsAreStable
  <1>1. Init => KeepInv
    BY DEF Init, KeepInv, Requests, NoClaims, NoClaim, LiveClaim
  <1>2. TypeOK /\ AnswerInv /\ KeepInv /\ [Next]_vars =>
          [\A c \in Claims :
             LET s == claim[c].slot IN
             (/\ s # None /\ claim'[c].slot # s /\ claim'[c].live
              /\ ~Pinned(c) /\ req[c].slot = s) =>
                \/ \E d \in Claims \ {c} : SameVm(c, d) /\ req[d].pin = s
                \/ \E d \in 1..(c - 1) : SameVm(c, d) /\ req[d].slot = s]_vars
    <2> SUFFICES ASSUME TypeOK, AnswerInv, KeepInv, [Next]_vars, NEW c \in Claims,
                        claim[c].slot # None, claim'[c].slot # claim[c].slot, claim'[c].live,
                        ~Pinned(c), req[c].slot = claim[c].slot
                 PROVE  Displaced(c)
      BY Zenon DEF Displaced
    <2>1. ASSUME NEW d \in Claims, CreateClaim(d) \/ EditClaim(d) \/ DeleteClaim(d) PROVE FALSE
      <3>1. CASE CreateClaim(d)
        BY <3>1, Zenon DEF CreateClaim, LiveClaim, KeepInv, TypeOK
      <3>2. CASE EditClaim(d)
        BY <3>2 DEF EditClaim, LiveClaim, TypeOK
      <3>3. CASE DeleteClaim(d)
        BY <3>3 DEF DeleteClaim, NoClaim, TypeOK
      <3> QED
        BY <2>1, <3>1, <3>2, <3>3, Zenon
    <2>2. ASSUME NEW d \in Claims, pc = "write", First(left, d), Patched(d) PROVE Displaced(c)
      <3>1. d = c /\ claim'[c].slot = Shown(c)
        BY <2>2, Zenon DEF Patched, LiveClaim, TypeOK
      <3>2. c \in Requests(req) /\ rest = {}
        BY <2>2, <3>1, Zenon DEF KeepInv, AnswerInv, First
      <3>3. Kept(c) /\ KeepDone(c)
        BY <3>2, Zenon DEF KeepInv, KeepDone
      <3>4. result[c] = req[c].slot => Shown(c) = req[c].slot
        BY Zenon DEF Shown, TypeOK, Claim
      <3> QED
        BY <3>1, <3>3, <3>4, Zenon DEF Kept
    <2>3. claim' # claim
      OBVIOUS
    <2> QED
      BY <2>1, <2>2, <2>3, Zenon
      DEF Next, Pass, Allocate, Sync, Crash, StartPass, EmptyPass, Pin, Keep, Fill, Visited, Served,
          WriteStatus, WriteFails, vars
  <1> QED
    BY <1>1, <1>2, StepKeeps, SlotsHold, AnswersHold, TypeCorrect, PTL
    DEF Spec, SlotsAreStable
=============================================================================
