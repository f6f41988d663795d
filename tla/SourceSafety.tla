---------------------------- MODULE SourceSafety ----------------------------
(***************************************************************************)
(* What the source ledger promises: the properties checked of              *)
(* SourceCoordinator, and proved of it in SourceCoordinatorProofs.         *)
(***************************************************************************)
EXTENDS SourceCoordinator

Owners == {RefundBeneficiary} \cup UNION {{Terms[o].claimOwner, Terms[o].feeOwner} : o \in Orders}
Destinations ==
    {RefundBeneficiary} \cup UNION {{Terms[o].destination, Terms[o].feeDestination} : o \in Orders}

Leaf ==
    [kind : Kinds, order : Orders \cup {"none"}, milestone : Nat, amount : Nat,
     owner : Owners, destination : Destinations]

\* What a tree can hold.
LeafSeq == Seq(Leaf)

EpochType ==
    [exists : BOOLEAN, expired : BOOLEAN, phase : Phases,
     reservations : Nat, unresolvedMilestones : Nat,
     activeReturns : Nat, drainingReturns : Nat,
     available : Nat, unresolved : Nat, earned : Nat, returned : Nat,
     tree : LeafSeq]

CheckpointType ==
    [root : LeafSeq, leafCount : Nat, earned : Nat, returned : Nat, phase : Phases]

OrderType == [exists : BOOLEAN, agreed : BOOLEAN, finalizedCount : Nat]

MilestoneType ==
    [status : Statuses, outcome : Outcomes, version : Nat,
     delivery : Deliveries \cup {NoDelivery}, mutualNonce : Nat,
     finalWork : Nat, finalFee : Nat]

\* The state has its types; the amounts of the epoch never go below zero.
TypeOK ==
    /\ block \in Nat
    /\ epoch \in EpochType
    /\ orders \in [Orders -> OrderType]
    /\ milestones \in [MilestoneKeys -> MilestoneType]
    /\ nonceState \in [WorkerNonces -> NonceStates]
    /\ offerForNonce \in [WorkerNonces -> Orders \cup {NoOffer}]
    /\ votes \subseteq [by : Members, digest : Digests]
    /\ floors \in [MilestoneKeys -> [Members -> Nat]]
    /\ \A c \in consents : c.digest \in Digests
    /\ published \in Seq(CheckpointType)

-----------------------------------------------------------------------------
(* The budget. *)

Unsettled == {k \in MilestoneKeys : milestones[k].status \notin {"NONE", "FINAL"}}

\* The reserve the epoch carries is exactly the work and fee of the milestones that
\* are still open, pending offers included: no finalizer ever subtracts what another
\* one already took, so the checked subtractions in finalizeMilestone and
\* _finalizePendingOrder cannot revert and strand a milestone.
UnresolvedIsLiveReserve ==
    /\ epoch.unresolved = SumFunction([k \in Unsettled |-> MReserve(k)])
    /\ epoch.unresolvedMilestones = Cardinality(Unsettled)

\* The amounts in the leaves of a set of kinds.
OfKinds(leaves, kinds) == {i \in DOMAIN leaves : leaves[i].kind \in kinds}
LeafTotal(leaves, kinds) == SumFunction([i \in OfKinds(leaves, kinds) |-> leaves[i].amount])

\* The leaves of one kind that a milestone has in the tree.
PaidAt(leaves, kind, k) ==
    {i \in DOMAIN leaves :
        leaves[i].kind = kind /\ leaves[i].order = k[1] /\ leaves[i].milestone = k[2]}

PaysOnce(leaves, kind, k, amount, owner) ==
    IF amount = 0 THEN PaidAt(leaves, kind, k) = {}
    ELSE \E i \in PaidAt(leaves, kind, k) :
            /\ PaidAt(leaves, kind, k) = {i}
            /\ leaves[i].amount = amount
            /\ leaves[i].owner = owner

\* The tree pays each settled milestone its final work and fee, once, to the owners
\* its terms name, and nothing else; earned and returned are the totals of the leaves.
LedgerMatchesOutcomes ==
    /\ epoch.earned = LeafTotal(epoch.tree, {"WORK", "FEE"})
    /\ epoch.returned = LeafTotal(epoch.tree, {"RETURN"})
    /\ \A k \in MilestoneKeys :
          /\ PaysOnce(epoch.tree, "WORK", k, milestones[k].finalWork, Terms[k[1]].claimOwner)
          /\ PaysOnce(epoch.tree, "FEE", k, milestones[k].finalFee, Terms[k[1]].feeOwner)

\* An epoch is CLOSED exactly when nothing is free and nothing is reserved: closing
\* early would strand a reserve, and closing late would keep a sweep or a
\* finalization possible that has nothing to move.
ClosedIffSettled ==
    epoch.exists =>
        (epoch.phase = "CLOSED" <=> epoch.available = 0 /\ epoch.unresolved = 0)

\* However the epoch is used, the leaves it has and the leaves it may still need fit
\* the tree, so the TreeFull and slot-safety reverts never stop a finalizer.
SlotHeadroom ==
    SlotRequirement(epoch) <=
        2 * MaxMilestones + MaxActiveReturns + MaxDrainingReturns + 1

\* Whatever an open milestone is settled at, within its terms, the tree has room for the
\* leaves and the assertions that end finalizeMilestone hold: the releases, sweeps and
\* settlements made before never leave a decision that cannot be executed.
SettlementFits ==
    \A k \in Unsettled :
        \A work \in 0 .. MTerms(k).work, fee \in 0 .. MTerms(k).fee :
            Covers(epoch, 1, MReserve(k)) =>
                LET leaves == OutcomeLeaves(k, work, fee)
                IN  /\ Room(epoch, leaves)
                    /\ Asserted(Resolved(epoch, MReserve(k), work + fee, leaves))

\* While there is free budget in a draining epoch there is a sweep left to return it:
\* every sweep but the first was preceded by a settlement that freed something.
SweepNeverBlocked ==
    epoch.phase = "DRAINING" /\ epoch.available > 0
        => epoch.drainingReturns < MaxDrainingReturns

\* A transaction that settled a milestone, closed the epoch or wrote a leaf is never
\* undone: settled milestones and written leaves stay as they are, a closed epoch
\* stays closed and an epoch that drains admits no more orders.
SettledNeverRevived ==
    [][/\ \A k \in MilestoneKeys :
             milestones[k].status = "FINAL" => milestones'[k] = milestones[k]
       /\ Len(epoch.tree) <= Len(epoch'.tree)
       /\ \A i \in DOMAIN epoch.tree : epoch'.tree[i] = epoch.tree[i]
       /\ epoch.phase = "CLOSED" => epoch'.phase = "CLOSED"
       /\ epoch.phase = "DRAINING" =>
             /\ epoch'.phase \in {"DRAINING", "CLOSED"}
             /\ epoch'.reservations = epoch.reservations]_vars

-----------------------------------------------------------------------------
(* What the target can learn. *)

\* The last checkpoint emitted states the present root, totals and phase, though
\* several operations change the epoch without emitting one: a leaf, a payment or the
\* closing of the epoch never waits for somebody to republish.
LatestCheckpointIsCurrent ==
    epoch.exists => /\ published # << >>
                    /\ published[Len(published)] = Checkpoint(epoch)

\* Checkpoints only grow: each commits to a prefix of the tree, its totals are those
\* of that prefix, and a CLOSED one accounts for the whole cap.
CheckpointsAreFaithful ==
    \A i \in DOMAIN published :
        LET c == published[i]
        IN  /\ c.leafCount <= Len(epoch.tree)
            /\ c.root = SubSeq(epoch.tree, 1, c.leafCount)
            /\ c.earned = LeafTotal(c.root, {"WORK", "FEE"})
            /\ c.returned = LeafTotal(c.root, {"RETURN"})
            /\ c.phase = "CLOSED" => c.earned + c.returned = Cap
            /\ i > 1 => published[i - 1].leafCount <= c.leafCount

-----------------------------------------------------------------------------
(* Who decided. *)

RuledByQuorum(k) ==
    \E nonce \in Nonces :
        LET digest == ProposalDigest("RULING", k, milestones[k].finalWork, nonce)
        IN  \E a, b \in Committee(k) :
                /\ a # b
                /\ Signed(a, digest) /\ nonce >= floors[k][a]
                /\ Signed(b, digest) /\ nonce >= floors[k][b]

\* A ruling binds only if two different members of the milestone's committee signed
\* the same amount and nonce for the delivery and version the milestone ended with,
\* and neither had withdrawn that nonce.
QuorumIsCurrentAndExact ==
    \A k \in MilestoneKeys : milestones[k].outcome = "COMMITTEE" => RuledByQuorum(k)

SettledByBoth(k) ==
    LET digest == ProposalDigest("MUTUAL", k, milestones[k].finalWork, milestones[k].mutualNonce)
    IN  Signed(Safe, digest) /\ Signed(Terms[k[1]].worker, digest)

\* A mutual settlement binds only if the Safe and the worker both signed this amount
\* for the delivery and version the milestone ended with, under the nonce in force.
MutualConsentIsCurrent ==
    \A k \in MilestoneKeys : milestones[k].outcome = "MUTUAL" => SettledByBoth(k)

Reviewed(k) ==
    /\ milestones[k].outcome = "APPROVED" => Signed(Safe, ReviewCommand("APPROVE", k))
    /\ milestones[k].status = "CHALLENGED" =>
          Signed(Safe, [ReviewCommand("CHALLENGE", k) EXCEPT !.version = @ - 1])

\* An approval or a challenge the Safe queued takes effect only on the delivery and
\* the version it reviewed, however often the worker redelivered in the meantime.
ReviewBindsDelivery == \A k \in MilestoneKeys : Reviewed(k)

OrdersUnder(n) == {o \in Orders : NonceOf(o) = n /\ orders[o].exists}

\* What the state of a nonce says of the orders made under it.
NonceBinds(n) ==
    LET used == OrdersUnder(n)
    IN  /\ nonceState[n] = "UNUSED" => used = {}
        /\ nonceState[n] = "OFFER" =>
              /\ used = {offerForNonce[n]}
              /\ \A o \in used : \A k \in MilestonesOf(o) : milestones[k].status = "PENDING"
        /\ nonceState[n] # "OFFER" =>
              \A o \in used : \A k \in MilestonesOf(o) : milestones[k].status # "PENDING"
        /\ nonceState[n] = "REVOKED" =>
              \A o \in used : ~ orders[o].agreed

\* One nonce of a worker authorizes at most one order, whether as a quote or as an
\* offer; it is open exactly while its offer is pending, and revoked ones bind nobody.
NonceAuthorizesOneOrder ==
    \A n \in WorkerNonces : Cardinality(OrdersUnder(n)) <= 1 /\ NonceBinds(n)

-----------------------------------------------------------------------------
(* Deadlines. *)

\* The party whose turn it is can still move an open milestone: accept the offer,
\* deliver, approve for the full work, or rule for any amount within the terms.
Decidable(k) ==
    LET t == MTerms(k)
    IN  \/ milestones[k].status = "PENDING" /\ MayAccept(k[1])
        \/ milestones[k].status = "AGREED" /\ MayDeliver(k)
        \/ InReview(k) /\ MayFinalize(k, t.work, 0)
        \/ InDispute(k) /\ \A work \in 0 .. t.work : MayFinalize(k, work, t.fee)

\* Anyone can settle it as if the party had let the deadline pass.
Defaultable(k) ==
    LET t == MTerms(k)
    IN  \/ milestones[k].status = "PENDING" /\ ExpiryDue(k[1]) /\ MayFinalizePending(k[1])
        \/ NoDeliveryDue(k) /\ MayFinalize(k, 0, 0)
        \/ MonitoringDue(k) /\ MayFinalize(k, t.work, 0)
        \/ TimeoutDue(k) /\ MayFinalize(k, t.timeoutWork, 0)

\* In every block an open milestone is in exactly one of two hands: either the party
\* can decide, with no revert on the way, or anyone can replace its decision by the
\* default; never both, and never neither (acceptance and expiry, delivery and
\* no-delivery, review and monitoring default, ruling and committee timeout).
DecisionExcludesDefault == \A k \in Unsettled : Decidable(k) <=> ~ Defaultable(k)

Deadline(k) ==
    CASE milestones[k].status = "PENDING" -> Terms[k[1]].acceptBefore
      [] milestones[k].status = "AGREED" -> MTerms(k).deliverBefore
      [] milestones[k].status = "DELIVERED" -> MTerms(k).reviewBefore
      [] OTHER -> MTerms(k).ruleBefore

\* From its deadline on, every open milestone can be settled by anyone: no assertion,
\* capacity limit, checked subtraction or state of its order and of the worker's nonce
\* stands in the way.
NeverStranded == \A k \in Unsettled : block >= Deadline(k) => Defaultable(k)

\* Whatever the parties do or fail to do, the epoch ends CLOSED: blocks pass, and
\* what anyone may call, somebody calls.
EpochSettles == <>(epoch.phase = "CLOSED")

-----------------------------------------------------------------------------
(* The inductive strengthening. *)

\* CLOSED exactly when nothing is free and nothing is reserved.
ClosureInv(e) ==
    /\ e.phase # "NONE"
    /\ e.phase = "CLOSED" <=> e.available = 0 /\ e.unresolved = 0
    /\ e.expired => e.phase = "CLOSED" /\ e.drainingReturns = 0

CountersInv(e) ==
    /\ e.unresolvedMilestones <= e.reservations
    /\ e.reservations <= MaxMilestones
    /\ e.activeReturns <= MaxActiveReturns
    /\ e.drainingReturns <= MaxDrainingReturns

\* The leaves are counted against the settlements and returns that wrote them.
LeavesInv(e) ==
    Len(e.tree) <= 2 * (e.reservations - e.unresolvedMilestones) + e.activeReturns
                   + e.drainingReturns + (IF e.expired THEN 1 ELSE 0)

\* The sweeps are counted against the settlements that freed something to sweep.
SweepInv(e) ==
    /\ e.phase = "ACTIVE" => e.drainingReturns = 0
    /\ e.phase = "DRAINING" =>
          e.drainingReturns + (IF e.available > 0 THEN 1 ELSE 0)
             <= 1 + (e.reservations - e.unresolvedMilestones)

\* What every transaction preserves of the epoch's record.
EpochInv(e) ==
    /\ e \in EpochType
    /\ ~ e.exists => e = NoEpoch
    /\ e.exists => /\ Conserves(e)
                   /\ ClosureInv(e)
                   /\ CountersInv(e)
                   /\ LeavesInv(e)
                   /\ SweepInv(e)

\* Only orders of admissible terms, and only their milestones, are in the ledger.
OnlyAdmitted ==
    /\ \A o \in Orders : orders[o].exists => WellFormed(o)
    /\ \A k \in MilestoneKeys : milestones[k].status # "NONE" => orders[k[1]].exists

\* An open nonce has an offer.
OpenNonceHasOffer ==
    \A n \in WorkerNonces : nonceState[n] = "OFFER" => offerForNonce[n] \in Orders

LedgerInv ==
    /\ TypeOK
    /\ OnlyAdmitted
    /\ OpenNonceHasOffer
    /\ EpochInv(epoch)
    /\ LatestCheckpointIsCurrent

\* No two orders under one nonce, and each nonce in the state its order has.
NonceInv ==
    /\ LedgerInv
    /\ \A n \in WorkerNonces : NonceBinds(n) /\ \A o, p \in OrdersUnder(n) : o = p

\* What a milestone's state rests on.
Authorized(k) ==
    /\ milestones[k].outcome # "NONE" => milestones[k].status = "FINAL"
    /\ milestones[k].outcome = "COMMITTEE" => RuledByQuorum(k)
    /\ milestones[k].outcome = "MUTUAL" => SettledByBoth(k)
    /\ Reviewed(k)

\* A vote is recorded only for a signature, and every decision has its own.
AuthorityInv ==
    /\ LedgerInv
    /\ votes \subseteq consents
    /\ \A k \in MilestoneKeys : Authorized(k)

\* Only a settled milestone carries amounts.
UnsettledUnpaid ==
    \A k \in MilestoneKeys :
        milestones[k].status # "FINAL" => milestones[k].finalWork = 0 /\ milestones[k].finalFee = 0

\* The amounts of the record, the milestones, the tree and the checkpoints agree.
BooksInv ==
    /\ LedgerInv
    /\ IsFiniteSet(Unsettled)
    /\ UnsettledUnpaid
    /\ UnresolvedIsLiveReserve
    /\ LedgerMatchesOutcomes
    /\ CheckpointsAreFaithful

\* A milestone waits for its order's acceptance exactly while the order is open, and
\* its versions count from the acceptance.
Staged(k) ==
    /\ milestones[k].status = "PENDING" => ~ orders[k[1]].agreed
    /\ Live(k) => orders[k[1]].agreed
    /\ milestones[k].status = "AGREED" => milestones[k].version = 1

StageInv == BooksInv /\ \A k \in MilestoneKeys : Staged(k)

-----------------------------------------------------------------------------
(* The abstract budget. *)

\* The amounts and the phase of the epoch, as WorkBudget sees them.
Budget == INSTANCE WorkBudget WITH
    phase <- epoch.phase, available <- epoch.available, unresolved <- epoch.unresolved,
    earned <- epoch.earned, returned <- epoch.returned

\* Every transaction moves the budget as WorkBudget allows, or not at all.
ImplementsBudget == Budget!Spec
=============================================================================
