--------------------------- MODULE MCSourceDispute ---------------------------
(***************************************************************************)
(* One order with two milestones settled in any order and by any route,    *)
(* partial rulings and settlements included, in an epoch with budget left. *)
(***************************************************************************)
EXTENDS SourceSafety, TLC

CONSTANTS o1, worker, m1, m2, m3

Milestone(work, fee, timeoutWork) ==
    [work |-> work, fee |-> fee, timeoutWork |-> timeoutWork,
     deliverBefore |-> 2, reviewBefore |-> 3, ruleBefore |-> 4]

MCTerms ==
    (o1 :> [worker |-> worker, claimOwner |-> "claims", destination |-> "claims",
            feeOwner |-> "fees", feeDestination |-> "fees", committee |-> <<m1, m2, m3>>,
            acceptBefore |-> 1, nonce |-> 1,
            milestones |-> << Milestone(2, 1, 1), Milestone(1, 0, 0) >>])

MemberSymmetry == Permutations({m1, m2, m3})
=============================================================================
