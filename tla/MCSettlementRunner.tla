------------------------- MODULE MCSettlementRunner -------------------------
(* A claim whose destination may reject ether, before one that can be paid *)
(* and a return, under three mixes of rivals and faults.                   *)
EXTENDS SettlementRunner

MCPacket == <<"fickle", "payable", "return">>
MCReturns == {"return"}
MCFickle == {"fickle"}
Mix(rivals, crashes, drops, reorgs, changes) ==
    [rivals |-> rivals, crashes |-> crashes, drops |-> drops,
     reorgs |-> reorgs, changes |-> changes]
MCBudgets == {Mix(1, 1, 1, 0, 0), Mix(1, 1, 0, 1, 0), Mix(1, 0, 0, 0, 2)}
=============================================================================
