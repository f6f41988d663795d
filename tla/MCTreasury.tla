----------------------------- MODULE MCTreasury -----------------------------
(***************************************************************************)
(* A source history and the accounts that funds come from and go to.  The  *)
(* vault is a contract: it can call back or reject what it is sent.        *)
(*                                                                         *)
(*   settlement   WORK to the vault and FEE to the worker in one receipt,  *)
(*                with the same event from a look-alike contract           *)
(*   refund       a release back to the refund beneficiary, the sponsor    *)
(*   later        WORK of the successor epoch to the treasury's own address *)
(*   publishing   two checkpoints in one transaction, the second closing   *)
(*   failed       a transaction that reverted                              *)
(*   forged       a receipt that never was on the source chain             *)
(***************************************************************************)
EXTENDS TreasurySafety, TLC

MCAllocation(e, n, kind, role, owner, destination) ==
    [epoch |-> e, id |-> n, index |-> n - 1, kind |-> kind, role |-> role,
     order |-> IF kind = "RETURN" THEN None ELSE "order",
     policy |-> "policy", amount |-> 1, owner |-> owner, destination |-> destination]

Work == MCAllocation("e1", 1, "WORK", 1, "worker", "vault")
Fee == MCAllocation("e1", 2, "FEE", 2, "vault", "worker")
Return == MCAllocation("e1", 3, "RETURN", 0, "sponsor", "sponsor")
Successor == MCAllocation("e2", 1, "WORK", 1, "worker", "treasury")
LookAlike == [Work EXCEPT !.owner = "sponsor", !.destination = "sponsor"]
WrongReturn == [Return EXCEPT !.owner = "worker", !.destination = "worker"]

Event(emitter, a) == [emitter |-> emitter, type |-> "ALLOCATION", allocation |-> a]
Publication(c) == [emitter |-> "coordinator", type |-> "CHECKPOINT", checkpoint |-> c]
MCCheckpoint(log, earned, returned, phase) ==
    [epoch |-> "e1", root |-> log, leafCount |-> Len(log),
     earned |-> earned, returned |-> returned, phase |-> phase]

Receipt(block, index, status, logs) ==
    [block |-> block, index |-> index, status |-> status, logs |-> logs]

Settlement ==
    Receipt(1, 0, 1, << Event("coordinator", Work), Event("coordinator", Fee),
                        Event("look-alike", LookAlike) >>)
Refund == Receipt(2, 0, 1, << Event("coordinator", Return) >>)
Publishing ==
    Receipt(2, 1, 1, << Publication(MCCheckpoint(<<Work, Fee>>, 2, 0, "DRAINING")),
                        Publication(MCCheckpoint(<<Work, Fee, Return>>, 2, 1, "CLOSED")) >>)
Republishing ==
    Receipt(3, 0, 1, << Publication(MCCheckpoint(<<Work, Fee, Return>>, 2, 1, "CLOSED")) >>)
Later == Receipt(3, 0, 1, << Event("coordinator", Successor) >>)
Failed == Receipt(3, 1, 0, << Event("coordinator", LookAlike) >>)
Forged == Receipt(4, 0, 1, << Event("coordinator", WrongReturn) >>)

MCConfig ==
    [e \in {"e1", "e2", "e3"} |->
        [sponsor |-> "sponsor", refundBeneficiary |-> "sponsor", buyer |-> "safe",
         policy |-> "policy",
         pinned |-> IF e = "e3" THEN "another treasury" ELSE "this treasury",
         cap |-> IF e = "e1" THEN 3 ELSE 1]]

FundsSource == ("settlement" :> Settlement) @@ ("refund" :> Refund) @@ ("later" :> Later)

EvidenceSource ==
    ("settlement" :> Settlement) @@ ("publishing" :> Publishing) @@
    ("republishing" :> Republishing) @@ ("failed" :> Failed) @@ ("forged" :> Forged)
=============================================================================
