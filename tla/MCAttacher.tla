----------------------------- MODULE MCAttacher -----------------------------
(***************************************************************************)
(* Small instances of Attacher for TLC.                                    *)
(***************************************************************************)
EXTENDS Attacher

\* What moves the VM or the device weighs more than a fault, so that a move and
\* a fault, or three faults, make a run.
Moves == {"stop", "migrate", "rebind", "unplug"}
Faults == {"break", "restart", "fail", "reportFails", "replyLost", "timeout"}

Healing == [k \in Moves \cup Faults |-> IF k \in Moves THEN 2 ELSE 1]

\* A VM that is restarted, and sessions that are late to notice.
Restarting == [k \in {"stop"} |-> 1]
=============================================================================
