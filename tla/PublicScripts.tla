---------------------------- MODULE PublicScripts ----------------------------
(***************************************************************************)
(* The operator scripts of scripts/ as data: the steps each one goes       *)
(* through, from the top, every time it is started.  A step is skipped     *)
(* when the stage it belongs to is marked in the report file; the step at  *)
(* the end of a stage marks it.  What a step does is in OperatorScripts.   *)
(*                                                                         *)
(* The public demonstration and the public branches drive the target chain *)
(* and call the source runners (source-demo.ts, source-branches.ts) on the *)
(* way; the rotation does both chains itself.                              *)
(***************************************************************************)
EXTENDS Naturals, Sequences, TLC

Step(do, label, fn, key, arg) ==
    [do |-> do, label |-> label, fn |-> fn, key |-> key, arg |-> arg, stage |-> "always"]

\* Through the buyer's Safe, or directly on the source or the target chain.
Safe(label, fn, key, arg) == Step("safe", label, fn, key, arg)
Direct(label, fn, key, arg) == Step("direct", label, fn, key, arg)
Target(label, fn, key, arg) == Step("target", label, fn, key, arg)
Draft(key) == Step("draft", "draft", "draft", key, 0)
Refresh(key) == Step("refresh", "expire-stale-offer", "expire", key, 0)
AwaitBlock(key, deadline) == Step("await", "await", "await", key, deadline)
Pause(for) == Step("pause", "pause", for, "epoch", 0)
Require(fact, key, arg) == Step("check", "check", fact, key, arg)
Accounts(a, u, e, r) == Require("accounts", "epoch", <<a, u, e, r>>)
Receipt(label) == Step("receipt", label, "receipt", "epoch", 0)
Mark(stage) == [Step("mark", "mark", "mark", "epoch", 0) EXCEPT !.stage = stage]

Stage(name, steps) ==
    [i \in DOMAIN steps |-> [steps[i] EXCEPT !.stage = IF @ = "always" THEN name ELSE @]]
    \o << Mark(name) >>

\* The deadlines of an order, in order.
AcceptBefore == 1
DeliverBefore == 2
ReviewBefore == 3
RuleBefore == 4

Create(key) == Safe("create-offer", "createOffer", key, 0)
Accept(key) == Direct("accept-offer", "acceptOffer", key, 0)
Deliver(key) == Direct("deliver", "deliver", key, 0)
CreateAndAccept(key) == << Draft(key), Create(key), Accept(key) >>
Recognize(fact) == Target("recognize", "recognize", fact, 0)
Withdraw(fact) == Target("withdraw", "withdraw", fact, 0)

-----------------------------------------------------------------------------
(* source-demo.ts and public-demo.ts: a cap of 120 *)

DemoUntilReturn50 ==
    Stage("epochInitialized",
        << Safe("initialize", "initialize", "epoch", 0), Accounts(120, 0, 0, 0) >>)
    \o << Draft("a"), Draft("b") >>
    \o Stage("ordersABReserved",
        << Refresh("a"), Create("a"), Refresh("b"), Create("b"), Accounts(50, 70, 0, 0) >>)
    \o Stage("ordersABAgreed",
        << Refresh("a"), Create("a"), Accept("a"), Refresh("b"), Create("b"), Accept("b") >>)
    \o Stage("orderAApproved",
        << Deliver("a"), Safe("approve", "approve", "a", 30), Accounts(50, 40, 30, 0) >>)
    \o Stage("awaitingReturn50Recognition",
        << Safe("release", "release", "epoch", 50), Accounts(0, 40, 30, 50) >>)

Republication ==
    Stage("checkpointRepublished",
        << Receipt("sweep"), Direct("republish-1", "republish", "epoch", 0),
           Direct("republish-2", "republish", "epoch", 0) >>)

DemoAfterReturn50 ==
    Stage("orderBMutuallySettled",
        << Require("accountsUnlessFinal", "b", <<0, 40, 30, 50>>), Deliver("b"), Safe("settle", "settle", "b", 25), Accounts(15, 0, 55, 50) >>)
    \o Stage("orderCAgreed",
        << Draft("c"), Refresh("c"), Create("c"), Accept("c"), Accounts(0, 15, 55, 50) >>)
    \o Stage("orderCNoDelivery",
        << AwaitBlock("c", DeliverBefore), Direct("finalize", "finalize", "c", 0),
           Accounts(15, 0, 55, 50) >>)
    \o Stage("sourceComplete",
        << Safe("drain", "drain", "epoch", 0), Direct("sweep", "sweep", "epoch", 0),
           Accounts(0, 0, 55, 65) >>
        \o Republication)

PublicDemo ==
    << Target("fund", "fund", "epoch", 120) >>
    \o Stage("fundingFinalized", << Pause("funding") >>)
    \o DemoUntilReturn50
    \o << Receipt("approve"), Receipt("release") >>
    \o Stage("firstNativeBundle", << Pause("attestation") >>)
    \o Stage("firstNativeAuthenticated",
        << Target("authenticate", "authenticate", "first", 0) >>)
    \o << Target("recognize-return50", "recognize", "return50", 50) >>
    \o DemoAfterReturn50
    \o << Receipt("sweep") >>
    \o Stage("finalNativeBundle", << Pause("attestation") >>)
    \o Stage("checkpointId", << Target("import", "import", "final", 0) >>)
    \o << Recognize("return15"), Recognize("work-a"), Withdraw("work-a"),
          Recognize("work-b"), Withdraw("work-b") >>
    \o Stage("minedSemanticRefusal", << Target("refusal", "refuse", "final", 0) >>)
    \o Stage("invoiceBook", << Target("deploy-book", "deploy", "book", 0) >>)
    \o << Target("record-invoice", "record", "work-a", 0) >>
    \o Stage("freeWithdrawn", << Target("refund", "refund", "epoch", 65) >>)
    \o Stage("complete", << Require("reserve", "epoch", 0) >>)

-----------------------------------------------------------------------------
(* source-branches.ts and public-branches.ts: a cap of 20, then a successor *)

Declined ==
    Stage("pendingDeclined",
        << Draft("declined"), Create("declined"), Direct("decline", "decline", "declined", 0),
           Require("outcome", "declined", "declined"), Accounts(20, 0, 0, 0) >>)

Expired ==
    Stage("pendingExpired",
        << Draft("expired"), Create("expired"), AwaitBlock("expired", AcceptBefore),
           Direct("expire", "expire", "expired", 0),
           Require("outcome", "expired", "expired"), Accounts(20, 0, 0, 0) >>)

MonitoringDefault ==
    Stage("monitoringDefault",
        CreateAndAccept("default")
        \o << Deliver("default"), AwaitBlock("default", ReviewBefore),
              Direct("finalize", "finalize", "default", 0),
              Require("outcome", "default", "default"), Accounts(18, 0, 2, 0) >>)

\* The steps up to the last vote are skipped when the milestone is final.
CommitteeQuorum ==
    Stage("committeeQuorum",
        CreateAndAccept("quorum")
        \o << Deliver("quorum"), Safe("challenge", "challenge", "quorum", 0),
              Direct("vote-one", "vote", "quorum", 0), Direct("vote-other", "voteOther", "quorum", 0),
              Direct("vote-two", "voteLast", "quorum", 3),
              Require("outcome", "quorum", "ruled"), Receipt("vote-two"), Accounts(15, 0, 5, 0) >>)

CommitteeTimeout ==
    Stage("committeeTimeout",
        CreateAndAccept("timeout")
        \o << Deliver("timeout"), Safe("challenge", "challenge", "timeout", 0),
              AwaitBlock("timeout", RuleBefore), Direct("finalize", "finalize", "timeout", 0),
              Require("outcome", "timeout", "timeout"), Accounts(14, 0, 6, 0) >>)

MutualBeforeDefault ==
    Stage("mutualBeforeDefault",
        CreateAndAccept("mutual")
        \o << Deliver("mutual"), AwaitBlock("mutual", ReviewBefore),
              Safe("settle", "settle", "mutual", 1),
              Require("outcome", "mutual", "settled"), Accounts(13, 0, 7, 0) >>)

DefaultBeforeMutual ==
    Stage("defaultBeforeMutual",
        CreateAndAccept("late")
        \o << Deliver("late"), Step("sign", "sign", "sign", "late", 0),
              AwaitBlock("late", ReviewBefore),
              Direct("finalize", "finalize", "late", 0),
              Require("outcome", "late", "default"), Accounts(11, 0, 9, 0) >>)

SourceBranches ==
    Stage("sourceComplete",
        Stage("initialized",
            << Safe("initialize", "initialize", "epoch", 0), Accounts(20, 0, 0, 0) >>)
        \o Declined \o Expired \o MonitoringDefault \o CommitteeQuorum \o CommitteeTimeout
        \o MutualBeforeDefault \o DefaultBeforeMutual
        \o << Safe("drain", "drain", "epoch", 0), Direct("sweep", "sweep", "epoch", 0),
              Accounts(0, 0, 9, 11) >>)

PublicBranches ==
    << Target("fund", "fund", "epoch", 20) >>
    \o Stage("fundingFinalized", << Pause("funding") >>)
    \o SourceBranches
    \o Stage("nativeBundles", << Receipt("vote-two"), Pause("attestation") >>)
    \o Stage("segmentedAuthenticated",
        << Target("authenticate", "authenticate", "final", 0) >>)
    \o << Target("recognize", "recognizeBare", "quorum-work", 0),
          Target("recognize", "recognizeBare", "quorum-fee", 0) >>
    \o Stage("checkpointId", << Target("import", "import", "final", 0) >>)
    \o << Receipt("sweep"),
          Recognize("quorum-work"), Withdraw("quorum-work"),
          Recognize("quorum-fee"), Withdraw("quorum-fee"),
          Recognize("others"), Withdraw("others"), Recognize("return11"),
          Target("fund-successor", "fundFree", "successor", 1), Pause("cutoff"),
          Direct("expire-successor", "expireEpoch", "successor", 0) >>
    \o Stage("expiryBundle", << Pause("attestation") >>)
    \o << Recognize("expiry1") >>
    \o Stage("refundWithdrawn", << Target("refund", "refund", "epoch", 11) >>)
    \o Stage("complete", << Require("reserve", "epoch", 0) >>)

-----------------------------------------------------------------------------
(* public-safe-rotation.ts: a cap of 3 and a Safe made for the purpose *)

RotationAgreed ==
    << Direct("deploy-factory", "deploy", "factory", 0), Direct("deploy-safe", "deploy", "safe", 0),
       Target("fund", "fund", "epoch", 3) >>
    \o Stage("fundingFinalized", << Pause("funding") >>)
    \o << Safe("initialize", "initialize", "epoch", 0),
       Draft("p"), Draft("q"),
       Create("p"), Accept("p"), Deliver("p"), Safe("approve", "approve", "p", 1),
       Require("outcome", "p", "approved") >>

QueuedApproval ==
    << Create("q"), Accept("q"), Deliver("q"),
       Step("queue", "queue", "queue", "q", 1),
       Safe("rotate", "swapOwner", "owners", 0),
       Step("refused", "refused", "refused", "q", 0),
       Safe("approve-queued", "approve", "q", 1),
       Require("outcome", "q", "approved") >>

RotationCollected ==
    << Safe("drain", "drain", "epoch", 0), Direct("sweep", "sweep", "epoch", 0),
       Accounts(0, 0, 2, 1), Receipt("sweep") >>
    \o Stage("nativeBundle", << Pause("attestation") >>)
    \o Stage("checkpointId", << Target("import", "import", "final", 0) >>)
    \o << Recognize("return1"), Recognize("work-p"), Withdraw("work-p"),
          Recognize("work-q"), Withdraw("work-q"),
          Target("refund", "refund", "epoch", 1) >>
    \o Stage("complete",
        << Require("reserve", "epoch", 0), Receipt("approve"), Receipt("rotate") >>)

SafeRotation == RotationAgreed \o QueuedApproval \o RotationCollected

Programs == [demo |-> PublicDemo, branches |-> PublicBranches, rotation |-> SafeRotation]

-----------------------------------------------------------------------------
(* What the terms and the canonical allocations of each script say *)

Cap == [demo |-> 120, branches |-> 20, rotation |-> 3]

\* Budget (work and fee) of an order, and what the committee's silence pays.
Budget ==
    [a |-> 30, b |-> 40, c |-> 15,
     declined |-> 1, expired |-> 1, default |-> 2, quorum |-> 4, timeout |-> 3,
     mutual |-> 2, late |-> 2, p |-> 1, q |-> 1]
Keys == DOMAIN Budget
FullWork == [Budget EXCEPT !.quorum = 3, !.timeout = 2]
TimeoutWork == [[k \in Keys |-> 0] EXCEPT !.quorum = 1, !.timeout = 1]

\* The pay each script means an order to end with.
Intended ==
    [a |-> 30, b |-> 25, c |-> 0,
     declined |-> 0, expired |-> 0, default |-> 2, quorum |-> 3, timeout |-> 1,
     mutual |-> 1, late |-> 2, p |-> 1, q |-> 1]

\* The target's rights, by the script's names for them; returns become free balance.
Returned ==
    [demo |-> [return50 |-> 50, return15 |-> 15],
     branches |-> [return11 |-> 11, expiry1 |-> 1],
     rotation |-> [return1 |-> 1]]
Earned ==
    [demo |-> ("work-a" :> 30) @@ ("work-b" :> 25),
     branches |-> ("quorum-work" :> 2) @@ ("quorum-fee" :> 1) @@ ("others" :> 6),
     rotation |-> ("work-p" :> 1) @@ ("work-q" :> 1)]
=============================================================================
