-------------------------- MODULE MCOperatorScripts --------------------------
EXTENDS ScriptStages

MCScripts == {"demo", "branches", "rotation"}

Mix(crashes, drops, errors, delays, rivals, spare) ==
    [crashes |-> crashes, drops |-> drops, errors |-> errors, delays |-> delays,
     rivals |-> rivals, spare |-> spare]
MCBudgets ==
    [demo |-> {Mix(1, 0, 0, 0, 0, 65), Mix(0, 1, 0, 0, 1, 0), Mix(0, 0, 1, 1, 0, 0), Mix(0, 0, 0, 1, 1, 0)},
     branches |-> {Mix(1, 0, 0, 0, 0, 0), Mix(0, 1, 0, 0, 1, 0), Mix(0, 0, 0, 1, 1, 0)},
     rotation |-> {Mix(2, 0, 0, 0, 0, 1), Mix(1, 0, 0, 0, 1, 0), Mix(0, 1, 0, 1, 0, 0), Mix(0, 0, 0, 1, 2, 0)}]
=============================================================================
