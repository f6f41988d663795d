-------------------------- MODULE SourceCoordinator --------------------------
(***************************************************************************)
(* The Ethereum source ledger (SourceCoordinator.sol with its linked       *)
(* SourceAccountingLib and SourcePolicyV1Lib), one epoch of it: epochs     *)
(* share no state on this ledger.  A transaction is one step: it is        *)
(* enabled exactly when the contract does not revert.                      *)
(*                                                                         *)
(* An order id is the hash of its terms, so the terms of every order that  *)
(* can be proposed are a constant function of the id.  Participants sign   *)
(* off the chain: consents is the set of all state-bound signatures and    *)
(* queued Safe commands in existence; anyone may submit one at any later   *)
(* time.  A party that calls directly, with an empty signature, is a       *)
(* Consent step followed at once by the call.                              *)
(***************************************************************************)
EXTENDS SourceAccounting, FiniteSets, Functions

CONSTANTS
    Safe,               \* config.sourceSafe, the buyer
    RefundBeneficiary,
    Orders,             \* order ids
    Terms,              \* Terms[o]: the OrderTerms that o is the hash of
    Deliveries,         \* nonzero delivery hashes
    NoDelivery,         \* the zero hash
    Amounts,            \* amounts a caller may name
    Nonces,             \* proposal nonces a caller may name
    MaxVersion,         \* type(uint64).max of stateVersion
    MaxBlock,           \* bound: the last block
    MaxConsents,        \* bound: signatures and queued commands in existence
    MaxPublished        \* bound: checkpoints after which none is republished

MTerms(k) == Terms[k[1]].milestones[k[2]]
MilestoneCount(o) == Len(Terms[o].milestones)
MilestonesOf(o) == {o} \X (1 .. MilestoneCount(o))
MilestoneKeys == UNION {MilestonesOf(o) : o \in Orders}
Committee(k) == {Terms[k[1]].committee[j] : j \in 1 .. 3}
Members == UNION {Committee(k) : k \in MilestoneKeys}
NonceOf(o) == <<Terms[o].worker, Terms[o].nonce>>
WorkerNonces == {NonceOf(o) : o \in Orders}

\* The reserve of one milestone, and validateTerms' totalReserve.
MReserve(k) == MTerms(k).work + MTerms(k).fee
OrderReserve(o) == SumFunction([k \in MilestonesOf(o) |-> MReserve(k)])

\* The part of validateTerms that does not depend on the current block.
WellFormed(o) ==
    /\ MilestoneCount(o) \in 1 .. MaxMilestones
    /\ \A i, j \in 1 .. 3 : i # j => Terms[o].committee[i] # Terms[o].committee[j]
    /\ \A k \in MilestonesOf(o) :
          LET t == MTerms(k)
          IN  /\ t.work # 0
              /\ t.timeoutWork <= t.work
              /\ Terms[o].acceptBefore < t.deliverBefore
              /\ t.deliverBefore < t.reviewBefore
              /\ t.reviewBefore < t.ruleBefore

MilestoneTerms ==
    [work : Nat, fee : Nat, timeoutWork : Nat,
     deliverBefore : Nat, reviewBefore : Nat, ruleBefore : Nat]

\* Every order that can be proposed has terms of the declared types.
ASSUME TermsAssumption ==
    \A o \in Orders :
        /\ Terms[o].milestones \in Seq(MilestoneTerms)
        /\ Terms[o].acceptBefore \in Nat

ASSUME BoundsAssumption ==
    /\ Amounts \subseteq Nat
    /\ Nonces \subseteq Nat
    /\ MaxVersion \in Nat /\ MaxVersion > 1
    /\ NoDelivery \notin Deliveries
    /\ MaxPublished \in Nat

-----------------------------------------------------------------------------
VARIABLES
    block,          \* block.number
    epoch,          \* _epochs[epochId]
    orders,         \* _orders
    milestones,     \* _milestones
    nonceState,     \* _nonceState[epochId]
    offerForNonce,  \* _offerForNonce[epochId]
    votes,          \* _rulingVotes, as the set of votes each digest's mask records
    floors,         \* _rulingNonceFloor
    consents,       \* signatures and queued Safe commands, off the chain
    published       \* the CheckpointPublished events, oldest first

vars == <<block, epoch, orders, milestones, nonceState, offerForNonce,
          votes, floors, consents, published>>

decisions == <<votes, floors, consents>>
quotes == <<nonceState, offerForNonce>>

NoOffer == "no offer"
NoOrder == [exists |-> FALSE, agreed |-> FALSE, finalizedCount |-> 0]
NoMilestone ==
    [status |-> "NONE", outcome |-> "NONE", version |-> 0, delivery |-> NoDelivery,
     mutualNonce |-> 0, finalWork |-> 0, finalFee |-> 0]

Statuses == {"NONE", "PENDING", "AGREED", "DELIVERED", "CHALLENGED", "FINAL"}
Outcomes == {"NONE", "DECLINED", "PENDING_EXPIRED", "NO_DELIVERY", "APPROVED",
             "MONITORING_DEFAULT", "COMMITTEE", "COMMITTEE_TIMEOUT", "MUTUAL"}
NonceStates == {"UNUSED", "OFFER", "CONSUMED", "REVOKED"}

\* What a participant signs: the proposal together with the delivery and the
\* state version it was made for.
Digests ==
    [kind : {"MUTUAL", "RULING", "APPROVE", "CHALLENGE"}, milestone : MilestoneKeys,
     delivery : Deliveries \cup {NoDelivery}, version : Nat, work : Nat, nonce : Nat]

ProposalDigest(kind, k, work, nonce) ==
    [kind |-> kind, milestone |-> k, delivery |-> milestones[k].delivery,
     version |-> milestones[k].version, work |-> work, nonce |-> nonce]

\* approve and challenge name the delivery and version the Safe reviewed.
ReviewCommand(kind, k) == ProposalDigest(kind, k, 0, 0)

Signed(by, digest) == [by |-> by, digest |-> digest] \in consents

Live(k) == milestones[k].status \in {"AGREED", "DELIVERED", "CHALLENGED"}

Init ==
    /\ block = 0
    /\ epoch = NoEpoch
    /\ orders = [o \in Orders |-> NoOrder]
    /\ milestones = [k \in MilestoneKeys |-> NoMilestone]
    /\ nonceState = [n \in WorkerNonces |-> "UNUSED"]
    /\ offerForNonce = [n \in WorkerNonces |-> NoOffer]
    /\ votes = {}
    /\ floors = [k \in MilestoneKeys |-> [a \in Members |-> 0]]
    /\ consents = {}
    /\ published = << >>

-----------------------------------------------------------------------------
(* Helpers of the actions. *)

\* Mutant (LatestCheckpointIsCurrent): the checkpoint of the state before the update.
PublishStale(e) == published' = Append(published, Checkpoint(epoch))

Publish(e) == published' = Append(published, Checkpoint(e))

ReturnLeaf(amount) ==
    Allocation("RETURN", "none", 0, amount, RefundBeneficiary, RefundBeneficiary)

\* Mutant (LedgerMatchesOutcomes): the fee goes to the owner of the claim.
OutcomeLeavesOneOwner(k, work, fee) ==
    LET t == Terms[k[1]]
        leaf(kind, amount) ==
            IF amount = 0 THEN << >>
            ELSE << Allocation(kind, k[1], k[2], amount, t.claimOwner, t.destination) >>
    IN  leaf("WORK", work) \o leaf("FEE", fee)

\* The allocations of a milestone's outcome: the work and the fee, unless zero.
OutcomeLeaves(k, work, fee) ==
    LET t == Terms[k[1]]
        leaf(kind, amount, owner, destination) ==
            IF amount = 0 THEN << >>
            ELSE << Allocation(kind, k[1], k[2], amount, owner, destination) >>
    IN  leaf("WORK", work, t.claimOwner, t.destination)
        \o leaf("FEE", fee, t.feeOwner, t.feeDestination)

\* SourceAccountingLib.finalizeMilestone: what it requires and asserts, and what it does.
MayFinalize(k, work, fee) ==
    LET leaves == OutcomeLeaves(k, work, fee)
    IN  /\ work <= MTerms(k).work
        /\ fee <= MTerms(k).fee
        /\ Covers(epoch, 1, MReserve(k))
        /\ Room(epoch, leaves)
        /\ Asserted(Resolved(epoch, MReserve(k), work + fee, leaves))

FinalizeMilestone(k, outcome, work, fee) ==
    LET earned == work + fee
        e      == Resolved(epoch, MReserve(k), earned, OutcomeLeaves(k, work, fee))
    IN  /\ MayFinalize(k, work, fee)
        /\ epoch' = e
        /\ milestones' = [milestones EXCEPT ![k] =
               [@ EXCEPT !.status = "FINAL", !.outcome = outcome,
                         !.finalWork = work, !.finalFee = fee]]
        /\ orders' = [orders EXCEPT ![k[1]].finalizedCount = @ + 1]
        /\ IF earned # 0 THEN Publish(e) ELSE UNCHANGED published

\* _finalizePendingOrder: every reserve of the order becomes free again.
MayFinalizePending(o) ==
    LET n == MilestoneCount(o)
    IN  /\ orders[o].exists
        /\ ~ orders[o].agreed
        /\ \A k \in MilestonesOf(o) : milestones[k].status = "PENDING"
        /\ Covers(epoch, n, OrderReserve(o))
        /\ Asserted(Restored(epoch, n, OrderReserve(o)))

FinalizePendingOrder(o, outcome) ==
    LET n == MilestoneCount(o)
    IN  /\ MayFinalizePending(o)
        /\ epoch' = Restored(epoch, n, OrderReserve(o))
        /\ milestones' = [k \in MilestoneKeys |->
               IF k \in MilestonesOf(o)
               THEN [milestones[k] EXCEPT !.status = "FINAL", !.outcome = outcome]
               ELSE milestones[k]]
        /\ orders' = [orders EXCEPT ![o].finalizedCount = n]

\* _reserveOrder.
ReserveOrder(o, agreed) ==
    LET n == MilestoneCount(o)
        e == Reserved(epoch, n, OrderReserve(o))
    IN  /\ ~ orders[o].exists
        /\ epoch.reservations + n <= MaxMilestones
        /\ WellFormed(o)
        /\ block < Terms[o].acceptBefore
        /\ OrderReserve(o) <= epoch.available
        /\ Asserted(e)
        /\ epoch' = e
        /\ orders' = [orders EXCEPT ![o] =
               [exists |-> TRUE, agreed |-> agreed, finalizedCount |-> 0]]
        /\ milestones' = [k \in MilestoneKeys |->
               IF k \in MilestonesOf(o)
               THEN [NoMilestone EXCEPT !.status = IF agreed THEN "AGREED" ELSE "PENDING",
                                        !.version = IF agreed THEN 1 ELSE 0,
                                        !.mutualNonce = 1]
               ELSE milestones[k]]

\* Mutant (SettledNeverRevived): orders are admitted in any phase.
AdmittingAnyPhase == epoch.exists /\ block < AdmissionCutoff

\* _activeEpoch.
Admitting == epoch.exists /\ epoch.phase = "ACTIVE" /\ block < AdmissionCutoff

-----------------------------------------------------------------------------
(* The epoch. *)

InitializeEpoch ==
    /\ ~ epoch.exists
    /\ block < InitializationCutoff
    /\ epoch' = OpenedEpoch
    /\ Publish(epoch')
    /\ UNCHANGED <<block, orders, milestones, quotes, decisions>>

ExpireUninitializedEpoch ==
    /\ ~ epoch.exists
    /\ block >= InitializationCutoff
    /\ epoch' = ExpiredEpoch(ReturnLeaf(Cap))
    /\ Publish(epoch')
    /\ UNCHANGED <<block, orders, milestones, quotes, decisions>>

\* Mutant (TypeOK): the amount is not compared with what is free.
ReleaseFreeUnchecked(amount) ==
    LET e == Released(epoch, amount, ReturnLeaf(amount))
    IN  /\ Admitting
        /\ amount # 0
        /\ epoch.activeReturns < MaxActiveReturns
        /\ SlotSafe(e)
        /\ epoch' = e
        /\ Publish(e)
        /\ UNCHANGED <<block, orders, milestones, quotes, decisions>>

ReleaseFree(amount) ==
    LET e == Released(epoch, amount, ReturnLeaf(amount))
    IN  /\ Admitting
        /\ amount # 0
        /\ amount <= epoch.available
        /\ epoch.activeReturns < MaxActiveReturns
        /\ Room(epoch, << ReturnLeaf(amount) >>)
        /\ SlotSafe(e)
        /\ epoch' = e
        /\ Publish(e)
        /\ UNCHANGED <<block, orders, milestones, quotes, decisions>>

\* Mutant (EpochSettles): only the Safe may start draining.
StartDrainingSafeOnly(sender) ==
    /\ epoch.exists
    /\ epoch.phase = "ACTIVE"
    /\ sender = Safe
    /\ epoch' = Drained(epoch)
    /\ Publish(epoch')
    /\ UNCHANGED <<block, orders, milestones, quotes, decisions>>

\* By the Safe at any time, by anyone from the admission cutoff on.
StartDraining(sender) ==
    /\ epoch.exists
    /\ epoch.phase = "ACTIVE"
    /\ sender = Safe \/ block >= AdmissionCutoff
    /\ epoch' = Drained(epoch)
    /\ Publish(epoch')
    /\ UNCHANGED <<block, orders, milestones, quotes, decisions>>

SweepAvailable ==
    /\ epoch.exists
    /\ epoch.phase = "DRAINING"
    /\ IF epoch.available = 0
       THEN epoch' = MaybeClose(epoch) /\ UNCHANGED published
       ELSE LET e == Swept(epoch, ReturnLeaf(epoch.available))
            IN  /\ epoch.drainingReturns < MaxDrainingReturns
                /\ Room(epoch, << ReturnLeaf(epoch.available) >>)
                /\ SlotSafe(e)
                /\ epoch' = e
                /\ Publish(e)
    /\ UNCHANGED <<block, orders, milestones, quotes, decisions>>

\* Anyone, at any time; bounded by MaxPublished.
RepublishCheckpoint ==
    /\ epoch.exists
    /\ Len(published) < MaxPublished
    /\ Publish(epoch)
    /\ UNCHANGED <<block, epoch, orders, milestones, quotes, decisions>>

-----------------------------------------------------------------------------
(* Orders: offers the worker accepts, quotes the Safe accepts. *)

CreateOffer(o) ==
    /\ Admitting
    /\ nonceState[NonceOf(o)] = "UNUSED"
    /\ ReserveOrder(o, FALSE)
    /\ nonceState' = [nonceState EXCEPT ![NonceOf(o)] = "OFFER"]
    /\ offerForNonce' = [offerForNonce EXCEPT ![NonceOf(o)] = o]
    /\ UNCHANGED <<block, decisions, published>>

\* The worker's signature on the offer is the worker's choice to accept.
MayAccept(o) ==
    /\ orders[o].exists
    /\ ~ orders[o].agreed
    /\ block < Terms[o].acceptBefore
    /\ nonceState[NonceOf(o)] = "OFFER"
    /\ \A k \in MilestonesOf(o) : milestones[k].status = "PENDING"

AcceptOffer(o) ==
    /\ MayAccept(o)
    /\ nonceState' = [nonceState EXCEPT ![NonceOf(o)] = "CONSUMED"]
    /\ orders' = [orders EXCEPT ![o].agreed = TRUE]
    /\ milestones' = [k \in MilestoneKeys |->
           IF k \in MilestonesOf(o)
           THEN [milestones[k] EXCEPT !.status = "AGREED", !.version = 1]
           ELSE milestones[k]]
    /\ UNCHANGED <<block, epoch, offerForNonce, decisions, published>>

\* Mutant (NonceAuthorizesOneOrder): the nonce of the quote is not consumed.
AcceptQuoteKeepsNonce(o) ==
    /\ Admitting
    /\ nonceState[NonceOf(o)] = "UNUSED"
    /\ ReserveOrder(o, TRUE)
    /\ UNCHANGED <<block, quotes, decisions, published>>

\* A quote is signed off the chain and binds nobody until the Safe submits it.
AcceptQuote(o) ==
    /\ Admitting
    /\ nonceState[NonceOf(o)] = "UNUSED"
    /\ ReserveOrder(o, TRUE)
    /\ nonceState' = [nonceState EXCEPT ![NonceOf(o)] = "CONSUMED"]
    /\ UNCHANGED <<block, offerForNonce, decisions, published>>

\* Revoking the nonce of an open offer declines the offer.
RevokeQuoteNonce(n) ==
    /\ epoch.exists
    /\ nonceState[n] \notin {"CONSUMED", "REVOKED"}
    /\ nonceState' = [nonceState EXCEPT ![n] = "REVOKED"]
    /\ IF nonceState[n] = "OFFER"
       THEN FinalizePendingOrder(offerForNonce[n], "DECLINED")
       ELSE UNCHANGED <<epoch, orders, milestones>>
    /\ UNCHANGED <<block, offerForNonce, decisions, published>>

\* By the Safe or by the worker.
DeclinePendingOrder(o) ==
    /\ orders[o].exists
    /\ nonceState[NonceOf(o)] = "OFFER"
    /\ nonceState' = [nonceState EXCEPT ![NonceOf(o)] = "CONSUMED"]
    /\ FinalizePendingOrder(o, "DECLINED")
    /\ UNCHANGED <<block, offerForNonce, decisions, published>>

ExpiryDue(o) ==
    /\ orders[o].exists
    /\ ~ orders[o].agreed
    /\ block >= Terms[o].acceptBefore
    /\ nonceState[NonceOf(o)] = "OFFER"

ExpirePendingOrder(o) ==
    /\ ExpiryDue(o)
    /\ nonceState' = [nonceState EXCEPT ![NonceOf(o)] = "CONSUMED"]
    /\ FinalizePendingOrder(o, "PENDING_EXPIRED")
    /\ UNCHANGED <<block, offerForNonce, decisions, published>>

-----------------------------------------------------------------------------
(* Milestones: delivery, review, ruling, mutual settlement. *)

\* The worker delivers, or replaces what it delivered.
MayDeliver(k) ==
    /\ orders[k[1]].agreed
    /\ milestones[k].status \in {"AGREED", "DELIVERED"}
    /\ block < MTerms(k).deliverBefore
    /\ milestones[k].version < MaxVersion

Deliver(k, hash) ==
    /\ MayDeliver(k)
    /\ milestones' = [milestones EXCEPT ![k] =
           [milestones[k] EXCEPT !.delivery = hash, !.status = "DELIVERED", !.version = @ + 1]]
    /\ UNCHANGED <<block, epoch, orders, quotes, decisions, published>>

\* Mutant (ReviewBindsDelivery): a command for any version is accepted.
ApproveAnyVersion(k) ==
    /\ milestones[k].status = "DELIVERED"
    /\ block < MTerms(k).reviewBefore
    /\ \E v \in 1 .. MaxVersion :
          Signed(Safe, [ReviewCommand("APPROVE", k) EXCEPT !.version = v])
    /\ FinalizeMilestone(k, "APPROVED", MTerms(k).work, 0)
    /\ UNCHANGED <<block, quotes, decisions>>

\* The Safe reviews a delivery until its deadline.
InReview(k) == milestones[k].status = "DELIVERED" /\ block < MTerms(k).reviewBefore

Approve(k) ==
    /\ InReview(k)
    /\ Signed(Safe, ReviewCommand("APPROVE", k))
    /\ FinalizeMilestone(k, "APPROVED", MTerms(k).work, 0)
    /\ UNCHANGED <<block, quotes, decisions>>

Challenge(k) ==
    /\ InReview(k)
    /\ Signed(Safe, ReviewCommand("CHALLENGE", k))
    /\ milestones[k].version < MaxVersion
    /\ milestones' = [milestones EXCEPT ![k] =
           [milestones[k] EXCEPT !.status = "CHALLENGED", !.version = @ + 1]]
    /\ UNCHANGED <<block, epoch, orders, quotes, decisions, published>>

\* Mutant (NeverStranded): one block late.
NoDeliveryDueLate(k) ==
    /\ orders[k[1]].agreed
    /\ milestones[k].status = "AGREED"
    /\ block > MTerms(k).deliverBefore

\* From its deadline on, what a party failed to do is settled by anyone.
NoDeliveryDue(k) ==
    /\ orders[k[1]].agreed
    /\ milestones[k].status = "AGREED"
    /\ block >= MTerms(k).deliverBefore

\* Mutant (DecisionExcludesDefault): the default runs from the delivery deadline on.
MonitoringDueEarly(k) ==
    milestones[k].status = "DELIVERED" /\ block >= MTerms(k).deliverBefore

MonitoringDue(k) ==
    milestones[k].status = "DELIVERED" /\ block >= MTerms(k).reviewBefore

TimeoutDue(k) ==
    milestones[k].status = "CHALLENGED" /\ block >= MTerms(k).ruleBefore

FinalizeNoDelivery(k) ==
    /\ NoDeliveryDue(k)
    /\ FinalizeMilestone(k, "NO_DELIVERY", 0, 0)
    /\ UNCHANGED <<block, quotes, decisions>>

FinalizeMonitoringDefault(k) ==
    /\ MonitoringDue(k)
    /\ FinalizeMilestone(k, "MONITORING_DEFAULT", MTerms(k).work, 0)
    /\ UNCHANGED <<block, quotes, decisions>>

FinalizeCommitteeTimeout(k) ==
    /\ TimeoutDue(k)
    /\ FinalizeMilestone(k, "COMMITTEE_TIMEOUT", MTerms(k).timeoutWork, 0)
    /\ UNCHANGED <<block, quotes, decisions>>

\* Mutant (QuorumIsCurrentAndExact): withdrawn votes count.
ValidVotesAll(digest) ==
    {a \in Committee(digest.milestone) : [by |-> a, digest |-> digest] \in votes}

\* _validRulingVotes: the recorded votes whose voter has not raised its floor past them.
ValidVotes(digest) ==
    {a \in Committee(digest.milestone) :
        /\ [by |-> a, digest |-> digest] \in votes
        /\ digest.nonce >= floors[digest.milestone][a]}

\* The committee rules on a challenge until its deadline.
InDispute(k) == milestones[k].status = "CHALLENGED" /\ block < MTerms(k).ruleBefore

\* A vote is recorded with the votes still valid; the second valid one rules.
SubmitRulingVote(k, work, nonce, voter) ==
    LET digest == ProposalDigest("RULING", k, work, nonce)
        valid  == ValidVotes(digest) \cup {voter}
    IN  /\ InDispute(k)
        /\ work <= MTerms(k).work
        /\ voter \in Committee(k)
        /\ Signed(voter, digest)
        /\ nonce >= floors[k][voter]
        /\ voter \notin ValidVotes(digest)
        /\ votes' = {v \in votes : v.digest # digest}
                    \cup {[by |-> a, digest |-> digest] : a \in valid}
        /\ IF Cardinality(valid) >= 2
           THEN FinalizeMilestone(k, "COMMITTEE", work, MTerms(k).fee)
           ELSE UNCHANGED <<epoch, orders, milestones, published>>
        /\ UNCHANGED <<block, quotes, floors, consents>>

\* A member withdraws its own votes below the new floor, nobody else's.
InvalidateOwnRulingVotesBefore(k, newFloor, sender) ==
    /\ milestones[k].status = "CHALLENGED"
    /\ sender \in Committee(k)
    /\ newFloor > floors[k][sender]
    /\ floors' = [floors EXCEPT ![k][sender] = newFloor]
    /\ UNCHANGED <<block, epoch, orders, milestones, quotes, votes, consents, published>>

\* Mutant (MutualConsentIsCurrent): a proposal of any nonce is accepted.
SettleMutuallyAnyNonce(k, work, nonce) ==
    LET digest == ProposalDigest("MUTUAL", k, work, nonce)
    IN  /\ Live(k)
        /\ orders[k[1]].agreed
        /\ work <= MTerms(k).work
        /\ Signed(Safe, digest)
        /\ Signed(Terms[k[1]].worker, digest)
        /\ FinalizeMilestone(k, "MUTUAL", work, 0)
        /\ UNCHANGED <<block, quotes, decisions>>

SettleMutually(k, work, nonce) ==
    LET digest == ProposalDigest("MUTUAL", k, work, nonce)
    IN  /\ Live(k)
        /\ orders[k[1]].agreed
        /\ work <= MTerms(k).work
        /\ nonce = milestones[k].mutualNonce
        /\ Signed(Safe, digest)
        /\ Signed(Terms[k[1]].worker, digest)
        /\ FinalizeMilestone(k, "MUTUAL", work, 0)
        /\ UNCHANGED <<block, quotes, decisions>>

\* By the worker or by the Safe.
InvalidateMutualProposals(k, newNonce) ==
    /\ Live(k)
    /\ newNonce > milestones[k].mutualNonce
    /\ milestones' = [milestones EXCEPT ![k].mutualNonce = newNonce]
    /\ UNCHANGED <<block, epoch, orders, quotes, decisions, published>>

-----------------------------------------------------------------------------
(* The environment: participants sign, blocks pass. *)

\* Who may sign what, reading the present state of the milestone.
MaySign(by, digest) ==
    LET k == digest.milestone
    IN  CASE digest.kind = "MUTUAL" -> Live(k) /\ by \in {Safe, Terms[k[1]].worker}
          [] digest.kind = "RULING" -> milestones[k].status = "CHALLENGED" /\ by \in Committee(k)
          [] OTHER -> milestones[k].status = "DELIVERED" /\ by = Safe

Consent(by, digest) ==
    /\ Cardinality(consents) < MaxConsents
    /\ MaySign(by, digest)
    /\ consents' = consents \cup {[by |-> by, digest |-> digest]}
    /\ UNCHANGED <<block, epoch, orders, milestones, quotes, votes, floors, published>>

Tick ==
    /\ block < MaxBlock
    /\ block' = block + 1
    /\ UNCHANGED <<epoch, orders, milestones, quotes, decisions, published>>

-----------------------------------------------------------------------------
EpochStep ==
    \/ InitializeEpoch
    \/ ExpireUninitializedEpoch
    \/ \E amount \in Amounts : ReleaseFree(amount)
    \/ \E sender \in {Safe} \cup Members : StartDraining(sender)
    \/ SweepAvailable
    \/ RepublishCheckpoint

OrderStep ==
    \/ \E o \in Orders :
          \/ CreateOffer(o)
          \/ AcceptOffer(o)
          \/ AcceptQuote(o)
          \/ DeclinePendingOrder(o)
          \/ ExpirePendingOrder(o)
    \/ \E n \in WorkerNonces : RevokeQuoteNonce(n)

MilestoneStep ==
    \E k \in MilestoneKeys :
        \/ \E hash \in Deliveries : Deliver(k, hash)
        \/ Approve(k)
        \/ Challenge(k)
        \/ FinalizeNoDelivery(k)
        \/ FinalizeMonitoringDefault(k)
        \/ FinalizeCommitteeTimeout(k)
        \/ \E work \in Amounts, nonce \in Nonces, voter \in Members :
              SubmitRulingVote(k, work, nonce, voter)
        \/ \E nonce \in Nonces, sender \in Members :
              InvalidateOwnRulingVotesBefore(k, nonce, sender)
        \/ \E work \in Amounts, nonce \in Nonces : SettleMutually(k, work, nonce)
        \/ \E nonce \in Nonces : InvalidateMutualProposals(k, nonce)

\* The proposals someone may sign now.
Proposals ==
    {ProposalDigest(kind, k, work, nonce) :
        kind \in {"MUTUAL", "RULING"}, k \in MilestoneKeys, work \in Amounts, nonce \in Nonces}
    \cup {ReviewCommand(kind, k) : kind \in {"APPROVE", "CHALLENGE"}, k \in MilestoneKeys}

ConsentStep ==
    \E digest \in Proposals :
        \E by \in {Safe, Terms[digest.milestone[1]].worker} \cup Members : Consent(by, digest)

Next == EpochStep \/ OrderStep \/ MilestoneStep \/ ConsentStep \/ Tick

Spec == Init /\ [][Next]_vars

(***************************************************************************)
(* Blocks are produced whatever the participants do, and each of these     *)
(* calls is open to anyone once its condition holds, so somebody with a    *)
(* stake in the outcome can always make it.  No fairness is assumed of     *)
(* what only one party can do: deliver, approve, challenge, sign, release. *)
(***************************************************************************)
Permissionless ==
    \/ ExpireUninitializedEpoch
    \/ block >= AdmissionCutoff /\ \E sender \in Members : StartDraining(sender)
    \/ SweepAvailable
    \/ \E o \in Orders : ExpirePendingOrder(o)
    \/ \E k \in MilestoneKeys :
          \/ FinalizeNoDelivery(k)
          \/ FinalizeMonitoringDefault(k)
          \/ FinalizeCommitteeTimeout(k)

FairSpec == Spec /\ WF_vars(Tick) /\ WF_vars(Permissionless)
=============================================================================
