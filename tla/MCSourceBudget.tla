--------------------------- MODULE MCSourceBudget ---------------------------
(***************************************************************************)
(* Several orders compete for one epoch's budget: two alternative orders   *)
(* under one nonce, a third order under another, releases and sweeps in    *)
(* between.  The terms of o4 are invalid and must never be admitted.       *)
(***************************************************************************)
EXTENDS SourceSafety, TLC

CONSTANTS o1, o2, o3, o4, worker, m1, m2, m3

Milestone(work, fee, timeoutWork) ==
    [work |-> work, fee |-> fee, timeoutWork |-> timeoutWork,
     deliverBefore |-> 2, reviewBefore |-> 3, ruleBefore |-> 4]

Order(nonce, ms) ==
    [worker |-> worker, claimOwner |-> "claims", destination |-> "claims",
     feeOwner |-> "fees", feeDestination |-> "fees", committee |-> <<m1, m2, m3>>,
     acceptBefore |-> 1, nonce |-> nonce, milestones |-> ms]

MCTerms ==
    (o1 :> Order(1, << Milestone(1, 1, 1), Milestone(1, 0, 0) >>)) @@
    (o2 :> Order(1, << Milestone(1, 1, 1) >>)) @@
    (o3 :> Order(2, << Milestone(1, 0, 0) >>)) @@
    (o4 :> Order(3, << Milestone(1, 0, 2) >>))
=============================================================================
