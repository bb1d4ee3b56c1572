----------------------------- MODULE MCBootHold -----------------------------
(***************************************************************************)
(* Small instances of BootHold for TLC.                                    *)
(***************************************************************************)
EXTENDS BootHold

Spec_(h, t, i) == [hold |-> h, timeout |-> t, invalid |-> i]

\* Claims that give up after one tick, after two, or never, an invalid one,
\* and one that does not hold the boot.
AllSpecs == {Spec_(TRUE, 1, FALSE), Spec_(TRUE, 0, FALSE), Spec_(TRUE, 1, TRUE),
             Spec_(FALSE, 0, FALSE)}
HoldingSpecs == {Spec_(TRUE, 1, FALSE), Spec_(TRUE, 2, FALSE), Spec_(TRUE, 0, FALSE)}
OneSpec == {Spec_(TRUE, 1, FALSE)}
ForeverSpec == {Spec_(TRUE, 0, FALSE)}
InvalidSpec == {Spec_(TRUE, 1, TRUE)}

AllTemplates == {"none", "runs", "paused"}
PausedTemplate == {"paused"}

\* What leaves one record of a release intact: failing writes spare the memory
\* and a rollout spares the status.
RecordDisturbances ==
    {"report", "pause", "writeFails", "unpauseFails", "rollout", "deleteClaim"}

AllDisturbances ==
    {"restart", "pause", "unpause", "template", "editClaim", "deleteClaim", "report",
     "crash", "rollout", "claimFails", "unpauseFails", "replyLost", "writeFails"}

\* What each disagreement with the documentation takes.
RestartDisturbances == {"restart"}
NoDisturbances == {}
=============================================================================
