------------------------------ MODULE MCSlots -------------------------------
(***************************************************************************)
(* Small instances of Slots for TLC: two slots, so that three claims fill  *)
(* a VM.                                                                   *)
(***************************************************************************)
EXTENDS Slots

\* Slot 0 and one past the end.
FewPins == {0, 2}

AllDisturbances == {"createClaim", "editClaim", "deleteClaim", "lag", "fail", "crash"}
=============================================================================
