-------------------------- MODULE SourceAccounting --------------------------
(***************************************************************************)
(* The accounting of one epoch on the source ledger, as functions of the   *)
(* epoch's storage record (SourceStorage.Epoch): what SourceAccountingLib  *)
(* and the internal helpers of SourceCoordinator compute.  The tree is the *)
(* sequence of its allocations; its Merkle root commits exactly to that    *)
(* sequence (module AllocationTree), so the sequence stands for the root.  *)
(*                                                                         *)
(* An operator returns the new record; the conditions under which the code *)
(* reverts instead are predicates (Room, Covers, Asserted) that the        *)
(* actions of SourceCoordinator take as guards.                            *)
(*                                                                         *)
(* An operator whose comment begins with "Mutant" is a wrong form of the   *)
(* one after it.  Nothing uses it: putting it in that one's place shows    *)
(* that the property it names can fail.                                    *)
(***************************************************************************)
EXTENDS WorkTypes

\* Storage that was never written.
NoEpoch ==
    [exists |-> FALSE, expired |-> FALSE, phase |-> "NONE",
     reservations |-> 0, unresolvedMilestones |-> 0,
     activeReturns |-> 0, drainingReturns |-> 0,
     available |-> 0, unresolved |-> 0, earned |-> 0, returned |-> 0,
     tree |-> << >>]

\* A new allocation.  The tree index and the allocation id are its position.
Allocation(kind, order, milestone, amount, owner, destination) ==
    [kind |-> kind, order |-> order, milestone |-> milestone, amount |-> amount,
     owner |-> owner, destination |-> destination]

Checkpoint(e) ==
    [root |-> e.tree, leafCount |-> Len(e.tree),
     earned |-> e.earned, returned |-> e.returned, phase |-> e.phase]

-----------------------------------------------------------------------------
MaybeClose(e) ==
    [e EXCEPT !.phase = IF e.available = 0 /\ e.unresolved = 0 THEN "CLOSED" ELSE @]

SlotRequirement(e) ==
    Len(e.tree) + 2 * e.unresolvedMilestones + 1
    + (IF e.phase = "ACTIVE" THEN MaxActiveReturns - e.activeReturns ELSE 0)
    + (IF e.phase # "CLOSED" THEN MaxDrainingReturns - e.drainingReturns ELSE 0)

Conserves(e) == Cap = e.available + e.unresolved + e.earned + e.returned

SlotSafe(e) == SlotRequirement(e) <= TreeCapacity

\* _assertConservation and _assertSlotSafety: the transaction reverts unless both hold.
Asserted(e) == Conserves(e) /\ SlotSafe(e)

\* AllocationTree.append reverts with TreeFull when the tree has no room.
Room(e, leaves) == Len(e.tree) + Len(leaves) <= TreeCapacity

\* Checked arithmetic: subtracting what the record does not hold reverts.
Covers(e, milestones, reserve) ==
    /\ milestones <= e.unresolvedMilestones
    /\ reserve <= e.unresolved

-----------------------------------------------------------------------------
OpenedEpoch ==
    [NoEpoch EXCEPT !.exists = TRUE, !.phase = "ACTIVE", !.available = Cap]

ExpiredEpoch(leaf) ==
    [NoEpoch EXCEPT !.exists = TRUE, !.expired = TRUE, !.phase = "CLOSED",
                    !.returned = Cap, !.tree = << leaf >>]

\* _reserveOrder: move an order's whole reserve out of the free budget.
Reserved(e, milestones, reserve) ==
    [e EXCEPT !.reservations = @ + milestones,
              !.unresolvedMilestones = @ + milestones,
              !.available = @ - reserve,
              !.unresolved = @ + reserve]

\* _finalizePendingOrder: all of it becomes free again.
Restored(e, milestones, reserve) ==
    MaybeClose([e EXCEPT !.unresolvedMilestones = @ - milestones,
                         !.unresolved = @ - reserve,
                         !.available = @ + reserve])

\* Mutant (UnresolvedIsLiveReserve): only what was paid leaves the reserve.
ResolvedOnlyPaid(e, reserve, earned, leaves) ==
    MaybeClose([e EXCEPT !.unresolvedMilestones = @ - 1,
                         !.unresolved = @ - earned,
                         !.earned = @ + earned,
                         !.tree = @ \o leaves])

\* Mutant (CheckpointsAreFaithful): the whole reserve counts as earned.
ResolvedAllEarned(e, reserve, earned, leaves) ==
    MaybeClose([e EXCEPT !.unresolvedMilestones = @ - 1,
                         !.unresolved = @ - reserve,
                         !.earned = @ + reserve,
                         !.tree = @ \o leaves])

\* Mutant (SettlementFits): the whole reserve is freed, what was earned included.
ResolvedAllFreed(e, reserve, earned, leaves) ==
    MaybeClose([e EXCEPT !.unresolvedMilestones = @ - 1,
                         !.unresolved = @ - reserve,
                         !.earned = @ + earned,
                         !.available = @ + reserve,
                         !.tree = @ \o leaves])

\* finalizeMilestone: what was earned leaves the budget, the rest is free.
Resolved(e, reserve, earned, leaves) ==
    MaybeClose([e EXCEPT !.unresolvedMilestones = @ - 1,
                         !.unresolved = @ - reserve,
                         !.earned = @ + earned,
                         !.available = @ + (reserve - earned),
                         !.tree = @ \o leaves])

\* Mutant (StageInv): the release is not counted.
ReleasedUncounted(e, amount, leaf) ==
    MaybeClose([e EXCEPT !.available = @ - amount,
                         !.returned = @ + amount,
                         !.tree = Append(@, leaf)])

\* releaseFree: the Safe gives back part of the free budget.
Released(e, amount, leaf) ==
    MaybeClose([e EXCEPT !.activeReturns = @ + 1,
                         !.available = @ - amount,
                         !.returned = @ + amount,
                         !.tree = Append(@, leaf)])

\* Mutant (ClosedIffSettled): the sweep of the last free budget does not close.
SweptNeverCloses(e, leaf) ==
    [e EXCEPT !.drainingReturns = @ + 1,
              !.available = 0,
              !.returned = @ + e.available,
              !.tree = Append(@, leaf)]

\* Mutant (ImplementsBudget): available is read after it was cleared.
SweptReadsCleared(e, leaf) ==
    MaybeClose([e EXCEPT !.drainingReturns = @ + 1,
                         !.available = 0,
                         !.tree = Append(@, leaf)])

\* Mutant (SlotHeadroom): the sweep is not counted.
SweptUncounted(e, leaf) ==
    MaybeClose([e EXCEPT !.available = 0,
                         !.returned = @ + e.available,
                         !.tree = Append(@, leaf)])

\* Mutant (SweepNeverBlocked): what was swept stays free.
SweptKeepsFree(e, leaf) ==
    MaybeClose([e EXCEPT !.drainingReturns = @ + 1,
                         !.returned = @ + e.available,
                         !.tree = Append(@, leaf)])

\* sweepAvailable: anyone returns all of the free budget of a draining epoch.
Swept(e, leaf) ==
    MaybeClose([e EXCEPT !.drainingReturns = @ + 1,
                         !.available = 0,
                         !.returned = @ + e.available,
                         !.tree = Append(@, leaf)])

Drained(e) == MaybeClose([e EXCEPT !.phase = "DRAINING"])
=============================================================================
