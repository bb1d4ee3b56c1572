------------------------------ MODULE MCLeases ------------------------------
(***************************************************************************)
(* Small instances of Leases for TLC.                                      *)
(***************************************************************************)
EXTENDS Leases, TLC

CONSTANTS k1, k2

\* One selector for a single device and one for either.
SomeSelectors == {{1}, {1, 2}}

\* Every claim wants the only device.
OneSelector == {{1}}

AllDisturbances ==
    {"publish", "unplug", "deleteDevice", "age", "createClaim", "editClaim",
     "deleteClaim", "vm", "lag", "fail", "crash"}

\* What makes two controllers disagree about one device.
RaceDisturbances == {"publish", "age", "editClaim", "lag"}

\* Controllers are interchangeable; used by runs without liveness only.
ControllerSymmetry == Permutations(Controllers)
=============================================================================
