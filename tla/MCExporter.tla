----------------------------- MODULE MCExporter -----------------------------
(***************************************************************************)
(* Small instances of Exporter for TLC.                                    *)
(***************************************************************************)
EXTENDS Exporter

AllDisturbances ==
    {"lease", "unplug", "notify", "hello", "fail", "timeout", "replyFails", "exit", "close"}
=============================================================================
