--------------------------- MODULE MCSourcePolicy ---------------------------
(***************************************************************************)
(* One order with one milestone, all of its life: redeliveries, queued     *)
(* reviews, competing rulings of a committee of three, mutual proposals.   *)
(***************************************************************************)
EXTENDS SourceSafety, TLC

CONSTANTS o1, worker, m1, m2, m3

MCTerms ==
    (o1 :> [worker |-> worker, claimOwner |-> "claims", destination |-> "claims",
            feeOwner |-> "fees", feeDestination |-> "fees",
            committee |-> <<m1, m2, m3>>, acceptBefore |-> 1, nonce |-> 1,
            milestones |-> << [work |-> 2, fee |-> 1, timeoutWork |-> 1,
                               deliverBefore |-> 2, reviewBefore |-> 3, ruleBefore |-> 4] >>])

MemberSymmetry == Permutations({m1, m2, m3})
=============================================================================
