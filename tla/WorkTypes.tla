------------------------------ MODULE WorkTypes ------------------------------
(***************************************************************************)
(* The application commitments both ledgers share (WorkTypes.sol): the     *)
(* limits of one epoch, its phases, and the kinds of allocation.  The code *)
(* fixes the limits at 32, 16, 33 and 128; here they are parameters, so a  *)
(* small instance can be checked and the theorems hold for every choice    *)
(* that satisfies the assumptions below, the code's own choice included.   *)
(***************************************************************************)
EXTENDS Naturals, Sequences

CONSTANTS
    MaxMilestones,       \* reservations an epoch may ever admit
    MaxActiveReturns,    \* releases of free budget while ACTIVE
    MaxDrainingReturns,  \* sweeps while DRAINING
    TreeCapacity,        \* allocations one epoch's tree can hold
    Cap,                 \* the budget committed by the epoch's configuration
    InitializationCutoff,
    AdmissionCutoff

ASSUME LimitsAssumption ==
    /\ MaxMilestones \in Nat \ {0}
    /\ MaxActiveReturns \in Nat
    /\ MaxDrainingReturns \in Nat
    /\ TreeCapacity \in Nat

\* 2*32 + 16 + 33 + 1 <= 128: two leaves for each milestone, one for each
\* return, and the one slot that SlotRequirement always keeps.
ASSUME CapacityAssumption ==
    2 * MaxMilestones + MaxActiveReturns + MaxDrainingReturns + 1 <= TreeCapacity

\* 32 + 1 <= 33: one sweep of what is free when draining starts, and one for
\* what each milestone may give back after that.
ASSUME SweepAssumption == MaxMilestones + 1 <= MaxDrainingReturns

\* What validateConfig requires of the numbers of a configuration.
ASSUME ConfigAssumption ==
    /\ Cap \in Nat \ {0}
    /\ InitializationCutoff \in Nat \ {0}
    /\ AdmissionCutoff \in Nat
    /\ InitializationCutoff < AdmissionCutoff

Phases == {"NONE", "ACTIVE", "DRAINING", "CLOSED"}

Kinds == {"WORK", "FEE", "RETURN"}
=============================================================================
