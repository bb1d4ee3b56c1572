-------------------------------- MODULE Slots --------------------------------
(***************************************************************************)
(* Assigning the usbredir slots of the VMs to claims (src/controller.rs:   *)
(* allocate_slots, and the part of the pass that feeds it from the cached  *)
(* claims and writes status.slot back, one claim at a time).               *)
(*                                                                         *)
(* allocate_slots makes three loops over the claims of each VM: pinned     *)
(* slots, slots claims already have, free slots from the top.  It does not *)
(* await, so nothing else happens between two of its steps.                *)
(***************************************************************************)
EXTENDS Integers, FiniteSets

CONSTANTS
    NumVms,         \* VMs, in the order of the BTreeMap
    NumClaims,      \* claims, oldest first
    NumSlots,       \* USBREDIR_SLOTS
    Pins,           \* what users may write into spec.slot
    Disturbances,   \* the kinds of disturbance that may happen
    MaxChanges      \* bound on disturbances

Vms == 1..NumVms
Claims == 1..NumClaims
SlotSet == 0..(NumSlots - 1)
None == -1      \* no slot
Refused == -2   \* an Err of allocate_slots

ASSUME ConstantsAssumption ==
    /\ NumVms \in Nat \ {0}
    /\ NumClaims \in Nat \ {0}
    /\ NumSlots \in Nat \ {0}
    /\ Pins \subseteq Int \ {None}
    /\ MaxChanges \in Nat

\* slot: status.slot, what the last pass that got through has written.
Claim == [live : BOOLEAN, vm : Vms, pin : Pins \cup {None}, slot : SlotSet \cup {None}]

VARIABLES
    claim,      \* API server: the claims
    cache,      \* the controller's cache of them
    pc,         \* "idle", a loop of allocate_slots, or "write"
    req,        \* the pass's requests
    rest,       \* VMs whose claims have still to be served; the first is at it
    left,       \* claims the running loop has still to visit
    used,       \* slots of each VM that are taken
    result,     \* what the claims get; None until then
    changes     \* disturbances so far

vars == <<claim, cache, pc, req, rest, left, used, result, changes>>

-----------------------------------------------------------------------------
NoClaim == [live |-> FALSE, vm |-> 1, pin |-> None, slot |-> None]
LiveClaim(v, p, s) == [live |-> TRUE, vm |-> v, pin |-> p, slot |-> s]
NoClaims == [c \in Claims |-> NoClaim]
NoResult == [c \in Claims |-> None]
NoneUsed == [v \in Vms |-> {}]

Init ==
    /\ claim \in [Claims -> {NoClaim} \cup
                    {LiveClaim(v, p, None) : v \in Vms, p \in Pins \cup {None}}]
    /\ cache = claim
    /\ pc = "idle" /\ req = NoClaims /\ rest = {} /\ left = {}
    /\ used = NoneUsed /\ result = NoResult
    /\ changes = 0

-----------------------------------------------------------------------------
(* Users, and what goes wrong.                                             *)

Disturb(kind) ==
    /\ kind \in Disturbances
    /\ changes < MaxChanges
    /\ changes' = changes + 1

Awaits == pc \in {"idle", "write"}
Locals == <<pc, req, rest, left, used, result>>

CreateClaim(c) ==
    /\ Awaits
    /\ ~claim[c].live
    /\ \A b \in Claims : b > c => ~claim[b].live      \* the youngest
    /\ Disturb("createClaim")
    /\ \E v \in Vms, p \in Pins \cup {None} :
         claim' = [claim EXCEPT ![c] = LiveClaim(v, p, None)]
    /\ UNCHANGED <<cache, Locals>>

EditClaim(c) ==
    /\ Awaits
    /\ claim[c].live
    /\ Disturb("editClaim")
    /\ \E v \in Vms, p \in Pins \cup {None} :
         claim' = [claim EXCEPT ![c] = LiveClaim(v, p, claim[c].slot)]
    /\ UNCHANGED <<cache, Locals>>

DeleteClaim(c) ==
    /\ Awaits
    /\ claim[c].live
    /\ Disturb("deleteClaim")
    /\ claim' = [claim EXCEPT ![c] = NoClaim]
    /\ UNCHANGED <<cache, Locals>>

Sync ==
    /\ Awaits
    /\ cache # claim
    /\ cache' = claim
    /\ UNCHANGED <<claim, Locals, changes>>

\* The controller crashes while it writes; its successor lists the claims.
Crash ==
    /\ pc = "write"
    /\ Disturb("crash")
    /\ cache' = claim
    /\ pc' = "idle" /\ req' = NoClaims /\ rest' = {} /\ left' = {}
    /\ used' = NoneUsed /\ result' = NoResult
    /\ UNCHANGED claim

-----------------------------------------------------------------------------
(* allocate_slots.                                                         *)

First(set, x) == x \in set /\ \A y \in set : x <= y

Requests(reqs) == {c \in Claims : reqs[c].live}
RequestsOf(v) == {c \in Requests(req) : req[c].vm = v}

InRange(s) == s \in SlotSet
Pinned(c) == req[c].pin # None

\* A pass that starts on a cache that lags behind is a disturbance, as in
\* Leases.
StartPass ==
    /\ pc = "idle"
    /\ Requests(cache) # {}
    /\ IF cache = claim THEN UNCHANGED changes ELSE Disturb("lag")
    /\ req' = cache
    /\ rest' = {cache[c].vm : c \in Requests(cache)}
    /\ used' = NoneUsed
    /\ result' = NoResult
    /\ \E v \in rest' : /\ First(rest', v)
                        /\ left' = {c \in Requests(cache) : cache[c].vm = v}
    /\ pc' = "pin"
    /\ UNCHANGED <<claim, cache>>

EmptyPass ==
    /\ pc = "idle"
    /\ Requests(cache) = {}
    /\ UNCHANGED vars

\* Claim c of VM v gets s, a slot or Refused; or it is passed over.
Gets(v, c, s) ==
    /\ result' = [result EXCEPT ![c] = s]
    /\ used' = [used EXCEPT ![v] = @ \cup ({s} \cap SlotSet)]
PassedOver == UNCHANGED <<result, used>>

\* A loop over the claims of v has visited c; loop `next` starts after the last.
Visited(v, c, next) ==
    /\ IF left = {c} THEN pc' = next /\ left' = RequestsOf(v)
                     ELSE left' = left \ {c} /\ UNCHANGED pc
    /\ UNCHANGED <<claim, cache, req, rest, changes>>

\* Mutant: a pinned slot is taken whoever has it.
PinAnswer_greedy(v, c) == IF InRange(req[c].pin) THEN req[c].pin ELSE Refused

PinAnswer(v, c) ==
    IF InRange(req[c].pin) /\ req[c].pin \notin used[v] THEN req[c].pin ELSE Refused

Pin ==
    \E v \in Vms, c \in Claims :
        /\ pc = "pin"
        /\ First(rest, v) /\ First(left, c)
        /\ IF Pinned(c) THEN Gets(v, c, PinAnswer(v, c)) ELSE PassedOver
        /\ Visited(v, c, "keep")

\* Mutant: nobody keeps a slot.
MayKeep_never(v, c) == FALSE
\* Mutant: claims with a pin keep what they had as well.
MayKeep_pinned(v, c) == InRange(req[c].slot) /\ req[c].slot \notin used[v]

MayKeep(v, c) == ~Pinned(c) /\ InRange(req[c].slot) /\ req[c].slot \notin used[v]

Keep ==
    \E v \in Vms, c \in Claims :
        /\ pc = "keep"
        /\ First(rest, v) /\ First(left, c)
        /\ IF MayKeep(v, c) THEN Gets(v, c, req[c].slot) ELSE PassedOver
        /\ Visited(v, c, "fill")

\* After the last claim of a VM comes the next VM, after the last VM the
\* writing of the statuses.
Served(v, c) ==
    /\ IF left # {c}
         THEN left' = left \ {c} /\ UNCHANGED <<pc, rest>>
         ELSE /\ rest' = rest \ {v}
              /\ \/ /\ rest = {v}
                    /\ left' = Requests(req)
                    /\ pc' = "write"
                 \/ \E w \in Vms : /\ First(rest \ {v}, w)
                                   /\ left' = RequestsOf(w)
                                   /\ pc' = "pin"
    /\ UNCHANGED <<claim, cache, req, changes>>

\* Mutant: the search for a free slot stops above slot 0.
FreeSlots_off(v) == (1..(NumSlots - 1)) \ used[v]

FreeSlots(v) == SlotSet \ used[v]

\* The highest free slot, or none is left.
FillAnswer(v, s) ==
    IF FreeSlots(v) = {} THEN s = Refused
                         ELSE s \in FreeSlots(v) /\ \A t \in FreeSlots(v) : t <= s

Fill ==
    \E v \in Vms, c \in Claims :
        /\ pc = "fill"
        /\ First(rest, v) /\ First(left, c)
        /\ \/ result[c] # None /\ PassedOver
           \/ /\ result[c] = None
              /\ \E s \in SlotSet \cup {Refused} : FillAnswer(v, s) /\ Gets(v, c, s)
        /\ Served(v, c)

-----------------------------------------------------------------------------
(* Writing the status.                                                     *)

\* Mutant: the refusal is written like a slot.
Shown_raw(c) == result[c]

\* A claim that is refused shows no slot.
Shown(c) == IF result[c] \in SlotSet THEN result[c] ELSE None

Done(c) ==
    /\ IF left # {c} THEN left' = left \ {c} /\ UNCHANGED <<pc, req, result, used>>
                     ELSE /\ pc' = "idle" /\ left' = {} /\ req' = NoClaims
                          /\ result' = NoResult /\ used' = NoneUsed
    /\ UNCHANGED <<cache, rest>>

\* The patch is by name and without precondition.
Patched(c) ==
    claim' = IF claim[c].live
               THEN [claim EXCEPT ![c] = LiveClaim(claim[c].vm, claim[c].pin, Shown(c))]
               ELSE claim

WriteStatus ==
    \E c \in Claims :
        /\ pc = "write"
        /\ First(left, c)
        /\ Patched(c) \/ (Shown(c) = req[c].slot /\ UNCHANGED claim)
        /\ Done(c)
        /\ UNCHANGED changes

\* reconcile_claim fails before the status is written.
WriteFails ==
    \E c \in Claims :
        /\ pc = "write"
        /\ First(left, c)
        /\ Disturb("fail")
        /\ Done(c)
        /\ UNCHANGED claim

-----------------------------------------------------------------------------
Allocate == Pin \/ Keep \/ Fill

Pass == StartPass \/ EmptyPass \/ Allocate \/ WriteStatus

Next ==
    \/ \E c \in Claims : CreateClaim(c) \/ EditClaim(c) \/ DeleteClaim(c)
    \/ Sync \/ Crash
    \/ Pass \/ WriteFails

Spec == Init /\ [][Next]_vars

\* The loop runs again after at most `resync`, and watches deliver.
FairSpec == Spec /\ WF_vars(Pass) /\ WF_vars(Sync)

-----------------------------------------------------------------------------
(* Properties.                                                             *)

\* The claims and the locals of allocate_slots keep their types.
TypeOK ==
    /\ claim \in [Claims -> Claim]
    /\ cache \in [Claims -> Claim]
    /\ req \in [Claims -> Claim]
    /\ pc \in {"idle", "pin", "keep", "fill", "write"}
    /\ rest \subseteq Vms /\ left \subseteq Claims
    /\ used \in [Vms -> SUBSET SlotSet]
    /\ result \in [Claims -> SlotSet \cup {None, Refused}]
    /\ changes \in 0..MaxChanges

SameVm(c, d) == req[c].live /\ req[d].live /\ req[c].vm = req[d].vm

\* allocate_slots never gives a slot of a VM to two claims, whatever the
\* statuses said before.
NoSharedSlot ==
    \A c, d \in Claims :
        (c # d /\ SameVm(c, d) /\ result[c] \in SlotSet) => result[d] # result[c]

\* Pinned slots win: a claim with a pin is refused only for a pin outside the
\* range or for an older claim with the same pin, and never moved elsewhere.
PinsWin ==
    pc = "write" =>
        \A c \in Requests(req) : Pinned(c) =>
            \/ result[c] = req[c].pin
            \/ /\ result[c] = Refused
               /\ \/ ~InRange(req[c].pin)
                  \/ \E d \in 1..(c - 1) : SameVm(c, d) /\ req[d].pin = req[c].pin

\* No slot is wasted: a claim without a pin is refused only if as many other
\* claims of its VM have a slot as there are slots.
NoSlotWasted ==
    pc = "write" =>
        \A c \in Requests(req) : ~Pinned(c) =>
            \/ result[c] \in SlotSet
            \/ \A s \in SlotSet : \E d \in Claims : SameVm(c, d) /\ result[d] = s

\* A device is not moved to another slot under a running guest: a pass that
\* knows the slot of a claim without a pin takes it away only if a claim of the
\* same VM pinned that slot, or an older one shows it too.
SlotsAreStable ==
    [][\A c \in Claims :
         LET s == claim[c].slot IN
         (/\ s # None /\ claim'[c].slot # s /\ claim'[c].live
          /\ ~Pinned(c) /\ req[c].slot = s) =>
            \/ \E d \in Claims \ {c} : SameVm(c, d) /\ req[d].pin = s
            \/ \E d \in 1..(c - 1) : SameVm(c, d) /\ req[d].slot = s]_vars

Others(c) == {d \in Claims \ {c} : claim[d].live /\ claim[d].vm = claim[c].vm}

SettledClaim(c) ==
    LET p == claim[c].pin IN LET s == claim[c].slot IN
    /\ s # None => \A d \in Others(c) : claim[d].slot # s
    /\ (s # None /\ p # None) => s = p
    /\ s = None => \/ p # None /\ ~InRange(p)
                   \/ p # None /\ \E d \in Others(c) : claim[d].pin = p /\ claim[d].slot = p
                   \/ p = None /\ \A t \in SlotSet : \E d \in Others(c) : claim[d].slot = t

\* Once the claims are left alone, the statuses agree: no two claims of a VM
\* show the same slot, pins are obeyed, and a claim without a slot is one with
\* a bad pin or of a VM whose slots are all shown by others.
SlotsSettle == <>[](\A c \in Claims : claim[c].live => SettledClaim(c))
=============================================================================
