---------------------------- MODULE MCLogSwitcher ----------------------------
(* Instances of LogManager and LogSwitcher for TLC.                        *)
EXTENDS LogSwitcher

AllPrograms ==
    {"Trace1", "Trace2", "Trace3", "Trace4", "Trace5", "Trace6", "Library"}
=============================================================================
