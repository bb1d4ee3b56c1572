--------------------------- MODULE ExclusiveLease ---------------------------
(***************************************************************************)
(* What the controller promises about UsbDevice leases: a device has at    *)
(* most one holder, a free device may be acquired, and a held device must  *)
(* be released before anybody else can acquire it.                         *)
(***************************************************************************)
CONSTANTS
    Resources,  \* the things that are leased
    Holders,    \* who may hold one
    Free        \* the value of an unleased resource

VARIABLE holder

Init == holder = [r \in Resources |-> Free]

\* A free resource goes to h.
Acquire(r, h) ==
    /\ holder[r] = Free
    /\ holder' = [holder EXCEPT ![r] = h]

\* A held resource becomes free; it never changes hands directly.
Release(r) ==
    /\ holder[r] # Free
    /\ holder' = [holder EXCEPT ![r] = Free]

Next == \E r \in Resources : Release(r) \/ \E h \in Holders : Acquire(r, h)

Spec == Init /\ [][Next]_holder
=============================================================================
