------------------------------ MODULE WorkBudget ------------------------------
(***************************************************************************)
(* What the source ledger promises about one committed budget, without     *)
(* orders, milestones or evidence.  The cap is always split into what is   *)
(* free, what is reserved, what was earned and what was returned; the last *)
(* two only grow, and when nothing is free or reserved the budget closes.  *)
(***************************************************************************)
EXTENDS Naturals

CONSTANT Cap

VARIABLES phase, available, unresolved, earned, returned

vars == <<phase, available, unresolved, earned, returned>>

Init ==
    /\ phase = "NONE"
    /\ available = 0
    /\ unresolved = 0
    /\ earned = 0
    /\ returned = 0

Open ==
    /\ phase = "NONE"
    /\ phase' = "ACTIVE"
    /\ available' = Cap
    /\ UNCHANGED <<unresolved, earned, returned>>

\* A budget that was never opened is returned whole.
Expire ==
    /\ phase = "NONE"
    /\ phase' = "CLOSED"
    /\ returned' = Cap
    /\ UNCHANGED <<available, unresolved, earned>>

Usable == phase \in {"ACTIVE", "DRAINING"}

\* The budget closes with the step that leaves nothing free and nothing reserved.
Settle == phase' = IF available' = 0 /\ unresolved' = 0 THEN "CLOSED" ELSE phase

Reserve(amount) ==
    /\ phase = "ACTIVE"
    /\ amount <= available
    /\ available' = available - amount
    /\ unresolved' = unresolved + amount
    /\ UNCHANGED <<phase, earned, returned>>

\* Part of what was reserved is earned, the rest is free again.
Resolve(reserve, paid) ==
    /\ Usable
    /\ paid <= reserve
    /\ reserve <= unresolved
    /\ unresolved' = unresolved - reserve
    /\ earned' = earned + paid
    /\ available' = available + (reserve - paid)
    /\ Settle
    /\ UNCHANGED returned

\* Only free budget is returned; a draining budget returns all of it at once.
Retire(amount) ==
    /\ Usable
    /\ amount <= available
    /\ phase = "DRAINING" => amount = available
    /\ available' = available - amount
    /\ returned' = returned + amount
    /\ Settle
    /\ UNCHANGED <<unresolved, earned>>

Drain ==
    /\ phase = "ACTIVE"
    /\ phase' = "DRAINING"
    /\ UNCHANGED <<available, unresolved, earned, returned>>

Next ==
    \/ Open
    \/ Expire
    \/ \E amount \in 1 .. Cap : Reserve(amount)
    \/ \E reserve \in 1 .. Cap, paid \in 0 .. Cap : Resolve(reserve, paid)
    \/ \E amount \in 1 .. Cap : Retire(amount)
    \/ Drain

Spec == Init /\ [][Next]_vars
=============================================================================
