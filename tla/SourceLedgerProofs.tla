-------------------------- MODULE SourceLedgerProofs --------------------------
(***************************************************************************)
(* What the source ledger decides, and what it books of it.                *)
(*                                                                         *)
(* Who decided: for every committee, terms and interleaving, a milestone   *)
(* is ruled, settled or reviewed only with the signatures that the code    *)
(* asks for, made for the delivery and version it has.  Signatures are     *)
(* never lost, so only the actions that move a milestone, and the two that *)
(* move the nonces it is judged by, need an argument.  And who was hired:  *)
(* a worker's nonce admits one order, whichever way it was used.           *)
(*                                                                         *)
(* The books: the reserve is what the open milestones still hold, the      *)
(* leaves of the tree pay what the milestones were settled at, and every   *)
(* checkpoint ever published states the totals of its own prefix.  A       *)
(* transaction is first reduced to what it does to the books (Posts); that *)
(* each kind of entry keeps them balanced is arithmetic on sums over       *)
(* finite sets.                                                            *)
(*                                                                         *)
(* The deadlines: an open milestone is always in exactly one hand, that of *)
(* the party whose decision is due or, from the deadline on, anybody's;    *)
(* and nothing in the books stops either of them.                          *)
(***************************************************************************)
EXTENDS SourceCoordinatorProofs, FiniteSetTheorems

-----------------------------------------------------------------------------
(* Milestones that a transaction leaves alone, and those it settles. *)

\* What a milestone rests on stays when neither it nor its floors change
\* (SourceCoordinator.sol, all functions).
LEMMA AuthorityKept ==
  ASSUME NEW k \in MilestoneKeys, Authorized(k), milestones'[k] = milestones[k],
         consents \subseteq consents',
         floors'[k] = floors[k] \/ milestones[k].status # "FINAL"
  PROVE  Authorized(k)'
<1>1. CASE floors'[k] = floors[k]
  BY <1>1 DEF Authorized, RuledByQuorum, SettledByBoth, Reviewed, Signed, ReviewCommand,
     ProposalDigest
<1>2. CASE milestones[k].status # "FINAL"
  BY <1>2 DEF Authorized, RuledByQuorum, SettledByBoth, Reviewed, Signed, ReviewCommand,
     ProposalDigest
<1> QED BY <1>1, <1>2

\* A milestone that nobody decided needs nobody's signature.
LEMMA UndecidedAuthorized ==
  ASSUME NEW k \in MilestoneKeys,
         milestones'[k].outcome = "NONE", milestones'[k].status # "CHALLENGED"
  PROVE  Authorized(k)'
  BY DEF Authorized, Reviewed

\* Nor does one that was settled by a default or before it was agreed.
LEMMA DefaultAuthorized ==
  ASSUME NEW k \in MilestoneKeys, milestones'[k].status = "FINAL",
         milestones'[k].outcome \notin {"COMMITTEE", "MUTUAL", "APPROVED"}
  PROVE  Authorized(k)'
  BY DEF Authorized, Reviewed

\* A settlement changes one milestone, to what it was called with
\* (finalizeMilestone).
LEMMA FinalizedMilestone ==
  ASSUME LedgerInv, NEW k \in MilestoneKeys, NEW outcome, NEW work, NEW fee,
         FinalizeMilestone(k, outcome, work, fee)
  PROVE  /\ \A j \in MilestoneKeys \ {k} : milestones'[j] = milestones[j]
         /\ milestones'[k].status = "FINAL" /\ milestones'[k].outcome = outcome
         /\ milestones'[k].finalWork = work
         /\ milestones'[k].version = milestones[k].version
         /\ milestones'[k].delivery = milestones[k].delivery
         /\ milestones'[k].mutualNonce = milestones[k].mutualNonce
<1>1. milestones \in [MilestoneKeys -> MilestoneType]
  BY DEF LedgerInv, TypeOK
<1>2. milestones' = [milestones EXCEPT ![k] =
        [@ EXCEPT !.status = "FINAL", !.outcome = outcome, !.finalWork = work, !.finalFee = fee]]
  BY DEF FinalizeMilestone
<1> QED BY <1>1, <1>2 DEF MilestoneType

\* Two valid votes are votes of two members (_validRulingVotes).
LEMMA TwoVoters ==
  ASSUME NEW S, NEW voter, voter \notin S, Cardinality(S \cup {voter}) >= 2
  PROVE  \E a \in S : a # voter
<1>1. ASSUME S = {}
      PROVE  FALSE
  <2>1. S \cup {voter} = {voter}
    BY <1>1
  <2> QED BY <2>1, FS_Singleton
<1> QED BY <1>1

-----------------------------------------------------------------------------
(* The steps. *)

Safeguarded == votes' \subseteq consents' /\ \A k \in MilestoneKeys : Authorized(k)'

\* Steps that touch no milestone and no floor.
LEMMA OthersSafeguard ==
  ASSUME AuthorityInv, UNCHANGED <<milestones, votes, floors>>, consents \subseteq consents'
  PROVE  Safeguarded
  BY AuthorityKept DEF AuthorityInv, Safeguarded

\* Orders are proposed, agreed or lapse (createOffer, acceptOffer, acceptQuote,
\* declinePendingOrder, expirePendingOrder, revokeQuoteNonce).
LEMMA OrderStepSafeguards ==
  ASSUME AuthorityInv, OrderStep
  PROVE  Safeguarded
<1>0. UNCHANGED <<votes, floors, consents>>
  BY DEF OrderStep, CreateOffer, AcceptOffer, AcceptQuote, DeclinePendingOrder,
      ExpirePendingOrder, RevokeQuoteNonce, decisions
<1>1. milestones \in [MilestoneKeys -> MilestoneType]
  BY DEF AuthorityInv, LedgerInv, TypeOK
<1>2. ASSUME NEW k \in MilestoneKeys, milestones'[k] = milestones[k]
      PROVE  Authorized(k)'
  BY <1>0, <1>2, AuthorityKept DEF AuthorityInv
<1>3. ASSUME NEW o \in Orders, NEW agreed \in BOOLEAN, ReserveOrder(o, agreed),
             NEW k \in MilestoneKeys
      PROVE  Authorized(k)'
  <2>1. CASE k \in MilestonesOf(o)
    <3>1. /\ milestones'[k].outcome = "NONE"
          /\ milestones'[k].status \in {"AGREED", "PENDING"}
      BY <1>3, <2>1 DEF ReserveOrder, NoMilestone
    <3> QED BY <3>1, UndecidedAuthorized
  <2>2. CASE k \notin MilestonesOf(o)
    BY <1>2, <1>3, <2>2 DEF ReserveOrder
  <2> QED BY <2>1, <2>2
<1>4. ASSUME NEW o, NEW outcome \in {"DECLINED", "PENDING_EXPIRED"},
             FinalizePendingOrder(o, outcome), NEW k \in MilestoneKeys
      PROVE  Authorized(k)'
  <2>1. CASE k \in MilestonesOf(o)
    <3>1. milestones'[k] = [milestones[k] EXCEPT !.status = "FINAL", !.outcome = outcome]
      BY <1>4, <2>1 DEF FinalizePendingOrder
    <3>2. milestones'[k].status = "FINAL" /\ milestones'[k].outcome = outcome
      BY <1>1, <3>1 DEF MilestoneType
    <3> QED BY <3>2, DefaultAuthorized
  <2>2. CASE k \notin MilestonesOf(o)
    BY <1>2, <1>4, <2>2 DEF FinalizePendingOrder
  <2> QED BY <2>1, <2>2
<1>5. ASSUME NEW o \in Orders, AcceptOffer(o), NEW k \in MilestoneKeys
      PROVE  Authorized(k)'
  <2>1. CASE k \in MilestonesOf(o)
    <3>1. /\ milestones[k].status = "PENDING"
          /\ milestones'[k] = [milestones[k] EXCEPT !.status = "AGREED", !.version = 1]
      BY <1>5, <2>1 DEF AcceptOffer, MayAccept
    <3>2. milestones[k].outcome = "NONE"
      BY <3>1 DEF AuthorityInv, Authorized
    <3>3. milestones'[k].outcome = "NONE" /\ milestones'[k].status = "AGREED"
      BY <1>1, <3>1, <3>2 DEF MilestoneType
    <3> QED BY <3>3, UndecidedAuthorized
  <2>2. CASE k \notin MilestonesOf(o)
    BY <1>2, <1>5, <2>2 DEF AcceptOffer
  <2> QED BY <2>1, <2>2
<1>6. \A k \in MilestoneKeys : Authorized(k)'
  <2>1. ASSUME NEW o \in Orders, CreateOffer(o) \/ AcceptQuote(o)
        PROVE  \A k \in MilestoneKeys : Authorized(k)'
    BY <1>3, <2>1 DEF CreateOffer, AcceptQuote
  <2>2. ASSUME NEW o \in Orders, DeclinePendingOrder(o) \/ ExpirePendingOrder(o)
        PROVE  \A k \in MilestoneKeys : Authorized(k)'
    BY <1>4, <2>2 DEF DeclinePendingOrder, ExpirePendingOrder
  <2>3. ASSUME NEW n \in WorkerNonces, RevokeQuoteNonce(n)
        PROVE  \A k \in MilestoneKeys : Authorized(k)'
    BY <1>2, <1>4, <2>3 DEF RevokeQuoteNonce
  <2> QED BY <1>5, <2>1, <2>2, <2>3 DEF OrderStep
<1> QED BY <1>0, <1>6 DEF AuthorityInv, Safeguarded

\* A milestone is delivered, reviewed, ruled, settled or left to its default
\* (deliver .. settleMutually).
LEMMA MilestoneStepSafeguards ==
  ASSUME AuthorityInv, MilestoneStep
  PROVE  Safeguarded
<1>1. milestones \in [MilestoneKeys -> MilestoneType]
  BY DEF AuthorityInv, LedgerInv, TypeOK
<1>2. PICK k \in MilestoneKeys :
        \/ \E hash \in Deliveries : Deliver(k, hash)
        \/ Approve(k)
        \/ Challenge(k)
        \/ FinalizeNoDelivery(k)
        \/ FinalizeMonitoringDefault(k)
        \/ FinalizeCommitteeTimeout(k)
        \/ \E work \in Amounts, nonce \in Nonces, voter \in Members :
              SubmitRulingVote(k, work, nonce, voter)
        \/ \E nonce \in Nonces, sender \in Members :
              InvalidateOwnRulingVotesBefore(k, nonce, sender)
        \/ \E work \in Amounts, nonce \in Nonces : SettleMutually(k, work, nonce)
        \/ \E nonce \in Nonces : InvalidateMutualProposals(k, nonce)
  BY DEF MilestoneStep
<1>3. ASSUME UNCHANGED <<votes, floors, consents>>,
             \A j \in MilestoneKeys \ {k} : milestones'[j] = milestones[j],
             Authorized(k)'
      PROVE  Safeguarded
  BY <1>3, AuthorityKept DEF AuthorityInv, Safeguarded
<1>4. milestones[k].status # "FINAL" => milestones[k].outcome = "NONE"
  BY DEF AuthorityInv, Authorized
<1>5. ASSUME NEW hash \in Deliveries, Deliver(k, hash)
      PROVE  Safeguarded
  <2>1. /\ milestones[k].status # "FINAL"
        /\ milestones' = [milestones EXCEPT ![k] =
              [milestones[k] EXCEPT !.delivery = hash, !.status = "DELIVERED", !.version = @ + 1]]
    BY <1>5 DEF Deliver, MayDeliver
  <2>2. milestones'[k].outcome = "NONE" /\ milestones'[k].status = "DELIVERED"
    BY <1>1, <1>4, <2>1 DEF MilestoneType
  <2>3. \A j \in MilestoneKeys \ {k} : milestones'[j] = milestones[j]
    BY <1>1, <2>1
  <2> QED BY <1>3, <1>5, <2>2, <2>3, UndecidedAuthorized DEF Deliver, decisions
<1>6. ASSUME Approve(k)
      PROVE  Safeguarded
  <2>1. /\ Signed(Safe, ReviewCommand("APPROVE", k))
        /\ FinalizeMilestone(k, "APPROVED", MTerms(k).work, 0)
        /\ UNCHANGED <<votes, floors, consents>>
    BY <1>6 DEF Approve, decisions
  <2>2. Signed(Safe, ReviewCommand("APPROVE", k))'
    BY <2>1, FinalizedMilestone DEF AuthorityInv, Signed, ReviewCommand, ProposalDigest
  <2>3. Authorized(k)'
    BY <2>1, <2>2, FinalizedMilestone DEF AuthorityInv, Authorized, Reviewed
  <2> QED BY <1>3, <2>1, <2>3, FinalizedMilestone DEF AuthorityInv
<1>7. ASSUME Challenge(k)
      PROVE  Safeguarded
  <2>1. /\ milestones[k].status # "FINAL" /\ Signed(Safe, ReviewCommand("CHALLENGE", k))
        /\ milestones' = [milestones EXCEPT ![k] =
              [milestones[k] EXCEPT !.status = "CHALLENGED", !.version = @ + 1]]
        /\ UNCHANGED <<votes, floors, consents>>
    BY <1>7 DEF Challenge, decisions, InReview
  <2>2. /\ milestones'[k].outcome = "NONE" /\ milestones'[k].status = "CHALLENGED"
        /\ milestones'[k].version = milestones[k].version + 1
        /\ milestones'[k].delivery = milestones[k].delivery
        /\ milestones[k].version \in Nat
    BY <1>1, <1>4, <2>1 DEF MilestoneType
  <2>3. [ReviewCommand("CHALLENGE", k)' EXCEPT !.version = @ - 1] = ReviewCommand("CHALLENGE", k)
    BY <2>2 DEF ReviewCommand, ProposalDigest
  <2>4. Authorized(k)'
    BY <2>1, <2>2, <2>3 DEF Authorized, Reviewed, Signed
  <2> QED BY <1>1, <1>3, <2>1, <2>4
<1>8. ASSUME NEW outcome \in {"NO_DELIVERY", "MONITORING_DEFAULT", "COMMITTEE_TIMEOUT"}, NEW work,
             FinalizeMilestone(k, outcome, work, 0), UNCHANGED <<votes, floors, consents>>
      PROVE  Safeguarded
  BY <1>3, <1>8, FinalizedMilestone, DefaultAuthorized DEF AuthorityInv
<1>9. CASE FinalizeNoDelivery(k) \/ FinalizeMonitoringDefault(k) \/ FinalizeCommitteeTimeout(k)
  BY <1>8, <1>9 DEF FinalizeNoDelivery, FinalizeMonitoringDefault, FinalizeCommitteeTimeout,
      decisions
<1>10. ASSUME NEW work \in Amounts, NEW nonce \in Nonces, NEW voter \in Members,
              SubmitRulingVote(k, work, nonce, voter)
       PROVE  Safeguarded
  <2> DEFINE digest == ProposalDigest("RULING", k, work, nonce)
             valid == ValidVotes(digest) \cup {voter}
  <2>1. /\ digest.milestone = k /\ digest.nonce = nonce
        /\ \A a \in ValidVotes(digest) :
              a \in Committee(k) /\ Signed(a, digest) /\ nonce >= floors[k][a]
    BY DEF ProposalDigest, ValidVotes, AuthorityInv, Signed
  <2>2. /\ voter \in Committee(k) /\ Signed(voter, digest) /\ nonce >= floors[k][voter]
        /\ voter \notin ValidVotes(digest)
        /\ votes' = {v \in votes : v.digest # digest}
                    \cup {[by |-> a, digest |-> digest] : a \in valid}
        /\ UNCHANGED <<floors, consents>>
    BY <1>10 DEF SubmitRulingVote
  <2>3. votes' \subseteq consents'
    BY <2>1, <2>2 DEF AuthorityInv, Signed
  <2>4. CASE Cardinality(valid) >= 2
    <3>1. FinalizeMilestone(k, "COMMITTEE", work, MTerms(k).fee)
      BY <1>10, <2>4 DEF SubmitRulingVote
    <3>2. PICK a \in ValidVotes(digest) : a # voter
      BY <2>2, <2>4, TwoVoters
    <3>3. ProposalDigest("RULING", k, milestones[k].finalWork, nonce)' = digest
      BY <3>1, FinalizedMilestone DEF AuthorityInv, ProposalDigest
    <3> HIDE DEF digest
    <3>4. RuledByQuorum(k)'
      BY <2>1, <2>2, <3>2, <3>3 DEF RuledByQuorum, Signed
    <3>5. Authorized(k)'
      BY <3>1, <3>4, FinalizedMilestone DEF AuthorityInv, Authorized, Reviewed
    <3>6. \A j \in MilestoneKeys \ {k} : Authorized(j)'
      BY <2>2, <3>1, FinalizedMilestone, AuthorityKept DEF AuthorityInv
    <3> QED BY <2>3, <3>5, <3>6 DEF Safeguarded
  <2>5. CASE ~ (Cardinality(valid) >= 2)
    <3>1. milestones' = milestones
      BY <1>10, <2>5 DEF SubmitRulingVote
    <3> QED BY <2>2, <2>3, <3>1, AuthorityKept DEF AuthorityInv, Safeguarded
  <2> QED BY <2>4, <2>5
<1>11. ASSUME NEW nonce \in Nonces, NEW sender \in Members,
              InvalidateOwnRulingVotesBefore(k, nonce, sender)
       PROVE  Safeguarded
  <2>1. /\ milestones[k].status # "FINAL"
        /\ floors' = [floors EXCEPT ![k][sender] = nonce]
        /\ UNCHANGED <<milestones, votes, consents>>
    BY <1>11 DEF InvalidateOwnRulingVotesBefore
  <2>2. \A j \in MilestoneKeys \ {k} : floors'[j] = floors[j]
    BY <2>1 DEF AuthorityInv, LedgerInv, TypeOK
  <2> QED BY <2>1, <2>2, AuthorityKept DEF AuthorityInv, Safeguarded
<1>12. ASSUME NEW work \in Amounts, NEW nonce \in Nonces, SettleMutually(k, work, nonce)
       PROVE  Safeguarded
  <2> DEFINE digest == ProposalDigest("MUTUAL", k, work, nonce)
  <2>1. /\ nonce = milestones[k].mutualNonce
        /\ Signed(Safe, digest) /\ Signed(Terms[k[1]].worker, digest)
        /\ FinalizeMilestone(k, "MUTUAL", work, 0)
        /\ UNCHANGED <<votes, floors, consents>>
    BY <1>12 DEF SettleMutually, decisions
  <2>2. ProposalDigest("MUTUAL", k, milestones[k].finalWork, milestones[k].mutualNonce)' = digest
    BY <2>1, FinalizedMilestone DEF AuthorityInv, ProposalDigest
  <2> HIDE DEF digest
  <2>3. SettledByBoth(k)'
    BY <2>1, <2>2 DEF SettledByBoth, Signed
  <2>4. Authorized(k)'
    BY <2>1, <2>3, FinalizedMilestone DEF AuthorityInv, Authorized, Reviewed
  <2> QED BY <1>3, <2>1, <2>4, FinalizedMilestone DEF AuthorityInv
<1>13. ASSUME NEW nonce \in Nonces, InvalidateMutualProposals(k, nonce)
       PROVE  Safeguarded
  <2>1. /\ Live(k) /\ milestones' = [milestones EXCEPT ![k].mutualNonce = nonce]
        /\ UNCHANGED <<votes, floors, consents>>
    BY <1>13 DEF InvalidateMutualProposals, decisions
  <2>2. /\ milestones'[k].outcome = "NONE" /\ milestones[k].outcome = "NONE"
        /\ milestones'[k].status = milestones[k].status
        /\ milestones'[k].version = milestones[k].version
        /\ milestones'[k].delivery = milestones[k].delivery
    BY <1>1, <1>4, <2>1 DEF Live, MilestoneType
  <2>3. Reviewed(k)'
    BY <2>1, <2>2 DEF AuthorityInv, Authorized, Reviewed, Signed, ReviewCommand, ProposalDigest
  <2>4. Authorized(k)'
    BY <2>2, <2>3 DEF Authorized
  <2> QED BY <1>1, <1>3, <2>1, <2>4
<1> QED
  BY <1>2, <1>5, <1>6, <1>7, <1>9, <1>10, <1>11, <1>12, <1>13

-----------------------------------------------------------------------------
(* The theorems. *)

\* Nothing is decided at first.
LEMMA InitAuthority == Init => AuthorityInv
<1> SUFFICES ASSUME Init PROVE AuthorityInv
  OBVIOUS
<1>1. votes \subseteq consents /\ \A k \in MilestoneKeys : Authorized(k)
  BY DEF Init, NoMilestone, Authorized, Reviewed
<1> QED BY <1>1, InitLedger DEF AuthorityInv

\* The invariant is inductive.
LEMMA StepAuthority == AuthorityInv /\ [Next]_vars => AuthorityInv'
<1> SUFFICES ASSUME AuthorityInv, [Next]_vars PROVE AuthorityInv'
  OBVIOUS
<1>1. LedgerInv'
  BY StepLedger DEF AuthorityInv
<1>2. Safeguarded
  <2>1. CASE UNCHANGED vars
    BY <2>1, OthersSafeguard DEF vars
  <2>2. CASE EpochStep
    BY <2>2, OthersSafeguard
    DEF EpochStep, InitializeEpoch, ExpireUninitializedEpoch, ReleaseFree, StartDraining,
        SweepAvailable, RepublishCheckpoint, decisions
  <2>3. CASE OrderStep
    BY <2>3, OrderStepSafeguards
  <2>4. CASE MilestoneStep
    BY <2>4, MilestoneStepSafeguards
  <2>5. CASE ConsentStep
    BY <2>5, OthersSafeguard DEF ConsentStep, Consent
  <2>6. CASE Tick
    BY <2>6, OthersSafeguard DEF Tick, decisions
  <2> QED BY <2>1, <2>2, <2>3, <2>4, <2>5, <2>6 DEF Next
<1> QED BY <1>1, <1>2 DEF AuthorityInv, Safeguarded

\* Every decision rests on its signatures in every reachable state.
THEOREM AuthorityInvariant == Spec => []AuthorityInv
  BY InitAuthority, StepAuthority, PTL DEF Spec

\* A ruling has two current votes of distinct members for exactly its amount
\* (submitRulingVote).
THEOREM RulingsHaveQuorum == Spec => []QuorumIsCurrentAndExact
<1>1. AuthorityInv => QuorumIsCurrentAndExact
  BY DEF AuthorityInv, Authorized, QuorumIsCurrentAndExact
<1> QED BY <1>1, AuthorityInvariant, PTL

\* A mutual settlement has both signatures under the nonce in force
\* (settleMutually).
THEOREM SettlementsHaveConsent == Spec => []MutualConsentIsCurrent
<1>1. AuthorityInv => MutualConsentIsCurrent
  BY DEF AuthorityInv, Authorized, MutualConsentIsCurrent
<1> QED BY <1>1, AuthorityInvariant, PTL

\* An approval and a challenge were made for the delivery they act on (approve,
\* challenge).
THEOREM ReviewsBindDelivery == Spec => []ReviewBindsDelivery
<1>1. AuthorityInv => ReviewBindsDelivery
  BY DEF AuthorityInv, Authorized, ReviewBindsDelivery
<1> QED BY <1>1, AuthorityInvariant, PTL

-----------------------------------------------------------------------------
(* Nonces. *)

\* A transaction that admits no order and neither agrees to nor ends a pending one.
NoncesKept ==
    /\ UNCHANGED <<nonceState, offerForNonce>>
    /\ \A o \in Orders : orders'[o].exists = orders[o].exists /\ orders'[o].agreed = orders[o].agreed
    /\ \A k \in MilestoneKeys :
          \/ milestones'[k].status = milestones[k].status
          \/ milestones[k].status # "PENDING" /\ milestones'[k].status # "PENDING"

\* Such a transaction leaves nonces and orders as they were to each other.
LEMMA NoncesStay ==
  ASSUME NonceInv, NoncesKept
  PROVE  \A n \in WorkerNonces : NonceBinds(n)' /\ (\A o, p \in OrdersUnder(n)' : o = p)
<1> SUFFICES ASSUME NEW n \in WorkerNonces
             PROVE  NonceBinds(n)' /\ (\A o, p \in OrdersUnder(n)' : o = p)
  OBVIOUS
<1>1. OrdersUnder(n)' = OrdersUnder(n) /\ OrdersUnder(n) \subseteq Orders
  BY DEF NoncesKept, OrdersUnder, NonceOf
<1>2. \A o \in Orders : MilestonesOf(o) \subseteq MilestoneKeys
  BY DEF MilestoneKeys
<1>3. NonceBinds(n)'
  BY <1>1, <1>2 DEF NonceInv, NonceBinds, NoncesKept
<1> QED BY <1>1, <1>3 DEF NonceInv

\* The orders and milestones of another order (a milestone is keyed by its order).
LEMMA MilestonesApart ==
  ASSUME NEW o, NEW p, o # p, NEW k \in MilestonesOf(p)
  PROVE  k \notin MilestonesOf(o)
  BY DEF MilestonesOf

\* A nonce moves on with its one order, and no other nonce or order is touched
\* (createOffer, acceptOffer, acceptQuote, declinePendingOrder,
\* expirePendingOrder, revokeQuoteNonce).
LEMMA NonceMoves ==
  ASSUME NonceInv, NEW m \in WorkerNonces, NEW o \in Orders, NonceOf(o) = m,
         OrdersUnder(m) \subseteq {o},
         \A n \in WorkerNonces \ {m} : nonceState'[n] = nonceState[n]
                                      /\ offerForNonce'[n] = offerForNonce[n],
         \A p \in Orders \ {o} : orders'[p] = orders[p],
         \A k \in MilestoneKeys : k \notin MilestonesOf(o) => milestones'[k] = milestones[k],
         orders'[o].exists, nonceState'[m] # "UNUSED",
         nonceState'[m] = "OFFER" =>
            offerForNonce'[m] = o /\ \A k \in MilestonesOf(o) : milestones'[k].status = "PENDING",
         nonceState'[m] # "OFFER" => \A k \in MilestonesOf(o) : milestones'[k].status # "PENDING",
         nonceState'[m] = "REVOKED" => ~ orders'[o].agreed
  PROVE  \A n \in WorkerNonces : NonceBinds(n)' /\ (\A p, q \in OrdersUnder(n)' : p = q)
<1> SUFFICES ASSUME NEW n \in WorkerNonces
             PROVE  NonceBinds(n)' /\ (\A p, q \in OrdersUnder(n)' : p = q)
  OBVIOUS
<1>1. CASE n = m
  <2>1. OrdersUnder(n)' = {o}
    BY <1>1 DEF OrdersUnder, NonceOf
  <2> QED BY <1>1, <2>1 DEF NonceBinds
<1>2. CASE n # m
  <2>1. OrdersUnder(n)' = OrdersUnder(n) /\ OrdersUnder(n) \subseteq Orders \ {o}
    BY <1>2 DEF OrdersUnder, NonceOf
  <2>2. \A p \in OrdersUnder(n) : \A k \in MilestonesOf(p) : milestones'[k] = milestones[k]
    BY <2>1, MilestonesApart DEF MilestoneKeys
  <2>3. \A p \in OrdersUnder(n) : orders'[p] = orders[p]
    BY <2>1
  <2>4. NonceBinds(n)'
    BY <1>2, <2>1, <2>2, <2>3 DEF NonceInv, NonceBinds
  <2> QED BY <2>1, <2>4 DEF NonceInv
<1> QED BY <1>1, <1>2

\* Steps that are not about orders (all other functions).
LEMMA OtherStepsKeepNonces ==
  ASSUME NonceInv, EpochStep \/ MilestoneStep \/ ConsentStep \/ Tick \/ UNCHANGED vars
  PROVE  NoncesKept
<1>0. /\ milestones \in [MilestoneKeys -> MilestoneType]
      /\ orders \in [Orders -> OrderType]
  BY DEF NonceInv, LedgerInv, TypeOK
<1>1. CASE EpochStep
  BY <1>1
  DEF EpochStep, InitializeEpoch, ExpireUninitializedEpoch, ReleaseFree, StartDraining,
      SweepAvailable, RepublishCheckpoint, quotes, NoncesKept
<1>2. CASE ConsentStep \/ Tick
  BY <1>2 DEF ConsentStep, Consent, Tick, quotes, NoncesKept
<1>3. CASE UNCHANGED vars
  BY <1>3 DEF vars, NoncesKept
<1>4. CASE MilestoneStep
  <2>1. PICK k \in MilestoneKeys :
          \/ \E hash \in Deliveries : Deliver(k, hash)
          \/ Approve(k)
          \/ Challenge(k)
          \/ FinalizeNoDelivery(k)
          \/ FinalizeMonitoringDefault(k)
          \/ FinalizeCommitteeTimeout(k)
          \/ \E work \in Amounts, nonce \in Nonces, voter \in Members :
                SubmitRulingVote(k, work, nonce, voter)
          \/ \E nonce \in Nonces, sender \in Members :
                InvalidateOwnRulingVotesBefore(k, nonce, sender)
          \/ \E work \in Amounts, nonce \in Nonces : SettleMutually(k, work, nonce)
          \/ \E nonce \in Nonces : InvalidateMutualProposals(k, nonce)
    BY <1>4 DEF MilestoneStep
  <2>2. UNCHANGED <<nonceState, offerForNonce>>
    BY <2>1
    DEF Deliver, Approve, Challenge, FinalizeNoDelivery, FinalizeMonitoringDefault,
      FinalizeCommitteeTimeout, SubmitRulingVote, InvalidateOwnRulingVotesBefore,
      SettleMutually, InvalidateMutualProposals, quotes
  <2>3. ASSUME NEW outcome, NEW work, NEW fee, milestones[k].status # "PENDING",
               FinalizeMilestone(k, outcome, work, fee)
        PROVE  NoncesKept
    <3>1. orders' = [orders EXCEPT ![k[1]].finalizedCount = @ + 1]
      BY <2>3 DEF FinalizeMilestone
    <3>2. \A o \in Orders : orders'[o].exists = orders[o].exists
                          /\ orders'[o].agreed = orders[o].agreed
      BY <1>0, <3>1 DEF OrderType
    <3>3. \A j \in MilestoneKeys :
            \/ milestones'[j] = milestones[j]
            \/ j = k /\ milestones'[j].status = "FINAL"
      <4>1. LedgerInv
        BY DEF NonceInv
      <4>2. /\ \A j \in MilestoneKeys \ {k} : milestones'[j] = milestones[j]
            /\ milestones'[k].status = "FINAL"
        BY ONLY <2>1, <2>3, <4>1, FinalizedMilestone
      <4> QED BY <4>2
    <3> QED BY <2>2, <2>3, <3>2, <3>3 DEF NoncesKept
  <2>4. CASE \E hash \in Deliveries : Deliver(k, hash)
    BY <1>0, <2>2, <2>4 DEF Deliver, MilestoneType, NoncesKept, MayDeliver
  <2>5. CASE Challenge(k)
    BY <1>0, <2>2, <2>5 DEF Challenge, MilestoneType, NoncesKept, InReview
  <2>6. CASE Approve(k) \/ FinalizeNoDelivery(k) \/ FinalizeMonitoringDefault(k)
             \/ FinalizeCommitteeTimeout(k)
    BY <2>3, <2>6 DEF Approve, FinalizeNoDelivery, FinalizeMonitoringDefault,
       FinalizeCommitteeTimeout, InReview, NoDeliveryDue, MonitoringDue, TimeoutDue
  <2>7. ASSUME NEW work, NEW nonce, NEW voter, SubmitRulingVote(k, work, nonce, voter)
        PROVE  NoncesKept
    <3>1. \/ FinalizeMilestone(k, "COMMITTEE", work, MTerms(k).fee)
          \/ UNCHANGED <<orders, milestones>>
      BY <2>7 DEF SubmitRulingVote
    <3>2. milestones[k].status = "CHALLENGED"
      BY <2>7 DEF SubmitRulingVote, InDispute
    <3> QED BY <2>2, <2>3, <3>1, <3>2 DEF NoncesKept
  <2>8. ASSUME NEW nonce, NEW sender, InvalidateOwnRulingVotesBefore(k, nonce, sender)
        PROVE  NoncesKept
    BY <2>2, <2>8 DEF InvalidateOwnRulingVotesBefore, NoncesKept
  <2>9. ASSUME NEW work, NEW nonce, SettleMutually(k, work, nonce)
        PROVE  NoncesKept
    BY <2>3, <2>9 DEF SettleMutually, Live
  <2>10. ASSUME NEW nonce, InvalidateMutualProposals(k, nonce)
         PROVE  NoncesKept
    BY <1>0, <2>2, <2>10 DEF InvalidateMutualProposals, Live, MilestoneType, NoncesKept
  <2> QED BY <2>1, <2>4, <2>5, <2>6, <2>7, <2>8, <2>9, <2>10
<1> QED BY <1>1, <1>2, <1>3, <1>4

\* Orders are made under unused nonces, and only the order of an open nonce is
\* agreed, declined or expired (createOffer .. revokeQuoteNonce).
LEMMA OrderStepsMoveNonces ==
  ASSUME NonceInv, OrderStep
  PROVE  \A n \in WorkerNonces : NonceBinds(n)' /\ (\A p, q \in OrdersUnder(n)' : p = q)
<1>0. /\ milestones \in [MilestoneKeys -> MilestoneType]
      /\ orders \in [Orders -> OrderType]
      /\ nonceState \in [WorkerNonces -> NonceStates]
      /\ offerForNonce \in [WorkerNonces -> Orders \cup {NoOffer}]
      /\ \A o \in Orders : NonceOf(o) \in WorkerNonces
      /\ \A o \in Orders : MilestonesOf(o) \subseteq MilestoneKeys
  BY DEF NonceInv, LedgerInv, TypeOK, WorkerNonces, MilestoneKeys
<1>1. ASSUME NEW o \in Orders, NEW agreed \in BOOLEAN, ReserveOrder(o, agreed)
      PROVE  /\ orders'[o].exists /\ \A p \in Orders \ {o} : orders'[p] = orders[p]
             /\ \A k \in MilestoneKeys : k \notin MilestonesOf(o) => milestones'[k] = milestones[k]
             /\ \A k \in MilestonesOf(o) :
                   milestones'[k].status = IF agreed THEN "AGREED" ELSE "PENDING"
  BY <1>0, <1>1 DEF ReserveOrder, NoMilestone
<1>2. ASSUME NEW o \in Orders, NEW outcome, FinalizePendingOrder(o, outcome)
      PROVE  /\ orders'[o].exists /\ ~ orders'[o].agreed
             /\ \A p \in Orders \ {o} : orders'[p] = orders[p]
             /\ \A k \in MilestoneKeys : k \notin MilestonesOf(o) => milestones'[k] = milestones[k]
             /\ \A k \in MilestonesOf(o) : milestones'[k].status = "FINAL"
  <2>1. orders[o].exists /\ ~ orders[o].agreed
        /\ orders' = [orders EXCEPT ![o].finalizedCount = MilestoneCount(o)]
    BY <1>2 DEF FinalizePendingOrder, MayFinalizePending
  <2>2. orders'[o].exists /\ ~ orders'[o].agreed /\ \A p \in Orders \ {o} : orders'[p] = orders[p]
    BY <1>0, <2>1 DEF OrderType
  <2>3. milestones' = [k \in MilestoneKeys |->
               IF k \in MilestonesOf(o)
               THEN [milestones[k] EXCEPT !.status = "FINAL", !.outcome = outcome]
               ELSE milestones[k]]
    BY <1>2 DEF FinalizePendingOrder
  <2>4. \A k \in MilestonesOf(o) : milestones'[k].status = "FINAL"
    BY <1>0, <2>3 DEF MilestoneType
  <2> QED BY <2>2, <2>3, <2>4
<1>3. ASSUME NEW o \in Orders, orders[o].exists, nonceState[NonceOf(o)] = "OFFER"
      PROVE  OrdersUnder(NonceOf(o)) \subseteq {o}
  BY <1>0, <1>3 DEF NonceInv, OrdersUnder
<1>4. ASSUME NEW o \in Orders, nonceState[NonceOf(o)] = "UNUSED"
      PROVE  OrdersUnder(NonceOf(o)) \subseteq {o}
  BY <1>0, <1>4 DEF NonceInv, NonceBinds
<1>5. ASSUME NEW o \in Orders, CreateOffer(o)
      PROVE  \A n \in WorkerNonces : NonceBinds(n)' /\ (\A p, q \in OrdersUnder(n)' : p = q)
  <2>1. /\ nonceState[NonceOf(o)] = "UNUSED" /\ ReserveOrder(o, FALSE)
        /\ nonceState' = [nonceState EXCEPT ![NonceOf(o)] = "OFFER"]
        /\ offerForNonce' = [offerForNonce EXCEPT ![NonceOf(o)] = o]
    BY <1>5 DEF CreateOffer
  <2>2. nonceState'[NonceOf(o)] = "OFFER" /\ offerForNonce'[NonceOf(o)] = o
    BY <1>0, <2>1
  <2> QED BY <1>0, <1>1, <1>4, <2>1, <2>2, NonceMoves
<1>6. ASSUME NEW o \in Orders, AcceptQuote(o)
      PROVE  \A n \in WorkerNonces : NonceBinds(n)' /\ (\A p, q \in OrdersUnder(n)' : p = q)
  <2>1. /\ nonceState[NonceOf(o)] = "UNUSED" /\ ReserveOrder(o, TRUE)
        /\ nonceState' = [nonceState EXCEPT ![NonceOf(o)] = "CONSUMED"]
        /\ offerForNonce' = offerForNonce
    BY <1>6 DEF AcceptQuote
  <2>2. nonceState'[NonceOf(o)] = "CONSUMED"
    BY <1>0, <2>1
  <2> QED BY <1>0, <1>1, <1>4, <2>1, <2>2, NonceMoves
<1>7. ASSUME NEW o \in Orders, AcceptOffer(o)
      PROVE  \A n \in WorkerNonces : NonceBinds(n)' /\ (\A p, q \in OrdersUnder(n)' : p = q)
  <2>1. /\ orders[o].exists /\ nonceState[NonceOf(o)] = "OFFER"
        /\ nonceState' = [nonceState EXCEPT ![NonceOf(o)] = "CONSUMED"]
        /\ offerForNonce' = offerForNonce
        /\ orders' = [orders EXCEPT ![o].agreed = TRUE]
        /\ milestones' = [k \in MilestoneKeys |->
              IF k \in MilestonesOf(o)
              THEN [milestones[k] EXCEPT !.status = "AGREED", !.version = 1]
              ELSE milestones[k]]
    BY <1>7 DEF AcceptOffer, MayAccept
  <2>2. nonceState'[NonceOf(o)] = "CONSUMED" /\ orders'[o].exists
        /\ \A p \in Orders \ {o} : orders'[p] = orders[p]
    BY <1>0, <2>1 DEF OrderType
  <2>3. \A k \in MilestonesOf(o) : milestones'[k].status = "AGREED"
    BY <1>0, <2>1 DEF MilestoneType
  <2> QED BY <1>0, <1>3, <2>1, <2>2, <2>3, NonceMoves
<1>8. ASSUME NEW o \in Orders, NEW outcome, NEW state \in {"CONSUMED", "REVOKED"},
             orders[o].exists, nonceState[NonceOf(o)] = "OFFER",
             nonceState' = [nonceState EXCEPT ![NonceOf(o)] = state],
             offerForNonce' = offerForNonce, FinalizePendingOrder(o, outcome)
      PROVE  \A n \in WorkerNonces : NonceBinds(n)' /\ (\A p, q \in OrdersUnder(n)' : p = q)
  <2>1. nonceState'[NonceOf(o)] = state
    BY <1>0, <1>8
  <2> QED BY <1>0, <1>2, <1>3, <1>8, <2>1, NonceMoves
<1>9. ASSUME NEW o \in Orders, DeclinePendingOrder(o) \/ ExpirePendingOrder(o)
      PROVE  \A n \in WorkerNonces : NonceBinds(n)' /\ (\A p, q \in OrdersUnder(n)' : p = q)
  BY <1>8, <1>9 DEF DeclinePendingOrder, ExpirePendingOrder, ExpiryDue
<1>10. ASSUME NEW m \in WorkerNonces, RevokeQuoteNonce(m)
       PROVE  \A n \in WorkerNonces : NonceBinds(n)' /\ (\A p, q \in OrdersUnder(n)' : p = q)
  <2>1. /\ nonceState' = [nonceState EXCEPT ![m] = "REVOKED"] /\ offerForNonce' = offerForNonce
        /\ nonceState'[m] = "REVOKED"
    BY <1>0, <1>10 DEF RevokeQuoteNonce
  <2>2. CASE nonceState[m] = "OFFER"
    <3>1. offerForNonce[m] \in OrdersUnder(m)
      BY <2>2 DEF NonceInv, NonceBinds
    <3>2. /\ offerForNonce[m] \in Orders /\ NonceOf(offerForNonce[m]) = m
          /\ orders[offerForNonce[m]].exists
      BY <3>1 DEF OrdersUnder
    <3>3. FinalizePendingOrder(offerForNonce[m], "DECLINED")
      BY <1>10, <2>2 DEF RevokeQuoteNonce
    <3> QED BY <1>8, <2>1, <2>2, <3>2, <3>3
  <2>3. CASE nonceState[m] # "OFFER"
    <3>1. nonceState[m] = "UNUSED"
      BY <1>0, <1>10, <2>3 DEF RevokeQuoteNonce, NonceStates
    <3>2. UNCHANGED <<orders, milestones>>
      BY <1>10, <2>3 DEF RevokeQuoteNonce
    <3>3. \A n \in WorkerNonces : OrdersUnder(n)' = OrdersUnder(n)
      BY <3>2 DEF OrdersUnder, NonceOf
    <3>4. OrdersUnder(m) = {}
      BY <3>1 DEF NonceInv, NonceBinds
    <3>5. \A n \in WorkerNonces \ {m} : nonceState'[n] = nonceState[n]
      BY <1>0, <2>1
    <3> QED BY <2>1, <3>2, <3>3, <3>4, <3>5 DEF NonceInv, NonceBinds
  <2> QED BY <2>2, <2>3
<1> QED BY <1>5, <1>6, <1>7, <1>9, <1>10 DEF OrderStep

\* Nothing is used at first.
LEMMA InitNonces == Init => NonceInv
<1> SUFFICES ASSUME Init PROVE NonceInv
  OBVIOUS
<1>1. \A n \in WorkerNonces : OrdersUnder(n) = {} /\ nonceState[n] = "UNUSED"
  BY DEF Init, OrdersUnder, NoOrder
<1> QED BY <1>1, InitLedger DEF NonceInv, NonceBinds

\* The invariant is inductive.
LEMMA StepNonces == NonceInv /\ [Next]_vars => NonceInv'
<1> SUFFICES ASSUME NonceInv, [Next]_vars PROVE NonceInv'
  OBVIOUS
<1>1. LedgerInv'
  BY StepLedger DEF NonceInv
<1>2. \A n \in WorkerNonces : NonceBinds(n)' /\ (\A o, p \in OrdersUnder(n)' : o = p)
  <2>1. CASE OrderStep
    BY <2>1, OrderStepsMoveNonces
  <2>2. CASE EpochStep \/ MilestoneStep \/ ConsentStep \/ Tick \/ UNCHANGED vars
    BY <2>2, OtherStepsKeepNonces, NoncesStay
  <2> QED BY <2>1, <2>2 DEF Next
<1>3. WorkerNonces' = WorkerNonces
  BY DEF WorkerNonces, NonceOf
<1> QED BY <1>1, <1>2, <1>3 DEF NonceInv

\* A set whose elements are equal has at most one (createOffer, acceptQuote).
LEMMA AtMostOne ==
  ASSUME NEW S, \A x, y \in S : x = y
  PROVE  Cardinality(S) <= 1
<1>1. CASE S = {}
  BY <1>1, FS_EmptySet
<1>2. CASE S # {}
  <2>1. PICK x : S = {x}
    BY <1>2
  <2> QED BY <2>1, FS_Singleton
<1> QED BY <1>1, <1>2

\* However quotes and offers under one nonce are made, accepted, revoked or left to
\* expire, at most one order comes of it (createOffer .. revokeQuoteNonce).
THEOREM NonceIsUsedOnce == Spec => []NonceAuthorizesOneOrder
<1>1. NonceInv => NonceAuthorizesOneOrder
  BY AtMostOne DEF NonceInv, NonceAuthorizesOneOrder
<1> QED BY <1>1, InitNonces, StepNonces, PTL DEF Spec

-----------------------------------------------------------------------------
(* Totals of a tree, and the leaves it has for a milestone. *)

\* A total is the sum over the leaves of these kinds.
LEMMA TotalIsSum ==
  ASSUME NEW leaves, NEW kinds, NEW f,
         IsFiniteSet(OfKinds(leaves, kinds)),
         \A i \in OfKinds(leaves, kinds) : f[i] = leaves[i].amount
  PROVE  LeafTotal(leaves, kinds) = SumFunctionOnSet(f, OfKinds(leaves, kinds))
<1> DEFINE g == [i \in OfKinds(leaves, kinds) |-> leaves[i].amount]
<1>1. LeafTotal(leaves, kinds) = SumFunction(g)
  BY DEF LeafTotal
<1>2. DOMAIN g = OfKinds(leaves, kinds) /\ \A i \in OfKinds(leaves, kinds) : g[i] = f[i]
  OBVIOUS
<1> HIDE DEF g
<1>3. SumFunction(g) = SumFunctionOnSet(g, OfKinds(leaves, kinds))
  BY <1>2, SumFunctionIsSum
<1>4. SumFunctionOnSet(g, OfKinds(leaves, kinds)) = SumFunctionOnSet(f, OfKinds(leaves, kinds))
  BY <1>2, SumSame
<1> QED BY <1>1, <1>3, <1>4

\* What one more leaf adds to a total.
LEMMA TotalOfAppend ==
  ASSUME NEW t \in LeafSeq, NEW leaf \in Leaf, NEW kinds
  PROVE  LeafTotal(Append(t, leaf), kinds)
            = LeafTotal(t, kinds) + (IF leaf.kind \in kinds THEN leaf.amount ELSE 0)
<1> DEFINE u == Append(t, leaf)
           n == Len(t) + 1
           f == [i \in 1 .. n |-> u[i].amount]
<1>1. /\ u \in Seq(Leaf) /\ Len(u) = n /\ u[n] = leaf
      /\ \A i \in 1 .. Len(t) : u[i] = t[i]
      /\ DOMAIN t = 1 .. Len(t) /\ DOMAIN u = 1 .. n /\ Len(t) \in Nat
  BY AppendProperties, LenProperties DEF LeafSeq
<1>2. \A i \in 1 .. n : u[i] \in Leaf /\ f[i] = u[i].amount /\ f[i] \in Int
  <2>1. ASSUME NEW i \in 1 .. n PROVE u[i] \in Leaf
    <3> HIDE DEF u, n
    <3> QED BY <1>1, ElementOfSeq
  <2>2. \A x \in Leaf : x.amount \in Int
    BY DEF Leaf
  <2> HIDE DEF u
  <2> QED BY <2>1, <2>2
<1>3. /\ OfKinds(u, kinds) = OfKinds(t, kinds) \cup (IF leaf.kind \in kinds THEN {n} ELSE {})
      /\ OfKinds(t, kinds) \subseteq 1 .. Len(t)
      /\ n \notin OfKinds(t, kinds)
  BY <1>1 DEF OfKinds
<1>4. IsFiniteSet(OfKinds(t, kinds)) /\ IsFiniteSet(OfKinds(u, kinds))
  <2>1. IsFiniteSet(1 .. Len(t)) /\ IsFiniteSet(1 .. n)
    BY <1>1, FS_Interval
  <2>2. OfKinds(u, kinds) \subseteq 1 .. n
    BY <1>1 DEF OfKinds
  <2> QED BY <1>3, <2>1, <2>2, FS_Subset
<1>5. LeafTotal(u, kinds) = SumFunctionOnSet(f, OfKinds(u, kinds))
  <2>1. \A i \in OfKinds(u, kinds) : f[i] = u[i].amount
    BY <1>1, <1>2 DEF OfKinds
  <2> HIDE DEF f, u
  <2> QED BY <1>4, <2>1, TotalIsSum
<1>6. LeafTotal(t, kinds) = SumFunctionOnSet(f, OfKinds(t, kinds))
  <2>1. \A i \in OfKinds(t, kinds) : f[i] = t[i].amount
    BY <1>1, <1>2, <1>3
  <2> HIDE DEF f
  <2> QED BY <1>4, <2>1, TotalIsSum
<1>7. LeafTotal(t, kinds) \in Int
  <2>1. \A i \in OfKinds(t, kinds) : f[i] \in Int
    BY <1>1, <1>2, <1>3
  <2> HIDE DEF f
  <2> QED BY <1>4, <1>6, <2>1, SumIsInteger
<1>8. CASE leaf.kind \in kinds
  <2>1. \A i \in OfKinds(t, kinds) \cup {n} : f[i] \in Int
    BY <1>1, <1>2, <1>3
  <2>2. OfKinds(u, kinds) = OfKinds(t, kinds) \cup {n} /\ f[n] = leaf.amount
    BY <1>1, <1>2, <1>3, <1>8
  <2> HIDE DEF f, u, n
  <2>3. SumFunctionOnSet(f, OfKinds(t, kinds) \cup {n})
           = f[n] + SumFunctionOnSet(f, OfKinds(t, kinds))
    BY <1>3, <1>4, <2>1, SumAdd
  <2>4. f[n] \in Int
    BY <2>1
  <2>5. LeafTotal(u, kinds) = leaf.amount + LeafTotal(t, kinds) /\ leaf.amount \in Int
    BY <1>5, <1>6, <2>2, <2>3, <2>4
  <2> QED BY <1>7, <1>8, <2>5 DEF u
<1>9. CASE leaf.kind \notin kinds
  <2>1. OfKinds(u, kinds) = OfKinds(t, kinds)
    BY <1>3, <1>9
  <2> QED BY <1>5, <1>6, <1>7, <1>9, <2>1
<1> QED BY <1>8, <1>9

\* A total is a number, and nothing in the empty tree.
LEMMA TotalIsNumber ==
  ASSUME NEW t \in LeafSeq, NEW kinds
  PROVE  LeafTotal(t, kinds) \in Nat
<1> DEFINE f == [i \in 1 .. Len(t) |-> t[i].amount]
<1>1. DOMAIN t = 1 .. Len(t) /\ Len(t) \in Nat /\ \A i \in 1 .. Len(t) : t[i] \in Leaf
  BY LenProperties, ElementOfSeq DEF LeafSeq
<1>2. OfKinds(t, kinds) \subseteq 1 .. Len(t)
  BY <1>1 DEF OfKinds
<1>3. IsFiniteSet(OfKinds(t, kinds))
  <2>1. IsFiniteSet(1 .. Len(t))
    BY <1>1, FS_Interval
  <2> QED BY <1>2, <2>1, FS_Subset
<1>4. \A i \in OfKinds(t, kinds) : f[i] = t[i].amount /\ f[i] \in Nat
  BY <1>1, <1>2 DEF Leaf
<1> HIDE DEF f
<1>5. LeafTotal(t, kinds) = SumFunctionOnSet(f, OfKinds(t, kinds))
  BY <1>3, <1>4, TotalIsSum
<1> QED BY <1>3, <1>4, <1>5, SumIsNatural

LEMMA TotalOfNone == \A kinds : LeafTotal(<< >>, kinds) = 0
<1> TAKE kinds
<1> DEFINE f == << >>
<1>1. OfKinds(<< >>, kinds) = {}
  BY DEF OfKinds
<1>2. LeafTotal(<< >>, kinds) = SumFunctionOnSet(f, {})
  BY <1>1, FS_EmptySet, TotalIsSum
<1> QED BY <1>2, SumEmpty

\* The leaves a milestone has after one more leaf.
LEMMA PaidAtAppend ==
  ASSUME NEW t \in LeafSeq, NEW leaf \in Leaf, NEW kind, NEW k
  PROVE  /\ PaidAt(Append(t, leaf), kind, k) =
              PaidAt(t, kind, k) \cup
                 (IF leaf.kind = kind /\ leaf.order = k[1] /\ leaf.milestone = k[2]
                  THEN {Len(t) + 1} ELSE {})
         /\ PaidAt(t, kind, k) \subseteq 1 .. Len(t)
         /\ \A i \in 1 .. Len(t) : Append(t, leaf)[i] = t[i]
         /\ Append(t, leaf)[Len(t) + 1] = leaf
<1>1. /\ Append(t, leaf) \in Seq(Leaf) /\ Len(Append(t, leaf)) = Len(t) + 1
      /\ Append(t, leaf)[Len(t) + 1] = leaf
      /\ \A i \in 1 .. Len(t) : Append(t, leaf)[i] = t[i]
      /\ DOMAIN t = 1 .. Len(t) /\ DOMAIN Append(t, leaf) = 1 .. Len(t) + 1 /\ Len(t) \in Nat
  BY AppendProperties, LenProperties DEF LeafSeq
<1> QED BY <1>1 DEF PaidAt

\* A leaf for something else changes nothing of what a milestone is paid.
LEMMA PaysKept ==
  ASSUME NEW t \in LeafSeq, NEW leaf \in Leaf, NEW kind, NEW k, NEW amount, NEW owner,
         ~ (leaf.kind = kind /\ leaf.order = k[1] /\ leaf.milestone = k[2]),
         PaysOnce(t, kind, k, amount, owner)
  PROVE  PaysOnce(Append(t, leaf), kind, k, amount, owner)
<1>1. /\ PaidAt(Append(t, leaf), kind, k) = PaidAt(t, kind, k)
      /\ \A i \in PaidAt(t, kind, k) : Append(t, leaf)[i] = t[i]
  <2>1. /\ PaidAt(Append(t, leaf), kind, k) =
              PaidAt(t, kind, k) \cup
                 (IF leaf.kind = kind /\ leaf.order = k[1] /\ leaf.milestone = k[2]
                  THEN {Len(t) + 1} ELSE {})
        /\ PaidAt(t, kind, k) \subseteq 1 .. Len(t)
        /\ \A i \in 1 .. Len(t) : Append(t, leaf)[i] = t[i]
    BY PaidAtAppend
  <2> QED BY <2>1
<1> DEFINE u == Append(t, leaf)
<1>2. CASE amount = 0
  <2>1. PaidAt(t, kind, k) = {}
    BY <1>2 DEF PaysOnce
  <2>2. PaidAt(u, kind, k) = {}
    BY <1>1, <2>1
  <2> HIDE DEF u
  <2>3. PaysOnce(u, kind, k, amount, owner)
    BY <1>2, <2>2 DEF PaysOnce
  <2> QED BY <2>3 DEF u
<1>3. CASE amount # 0
  <2>1. PICK i \in PaidAt(t, kind, k) :
          PaidAt(t, kind, k) = {i} /\ t[i].amount = amount /\ t[i].owner = owner
    BY <1>3 DEF PaysOnce
  <2>2. u[i] = t[i] /\ PaidAt(u, kind, k) = {i}
    BY <1>1, <2>1
  <2> HIDE DEF u
  <2>3. PaysOnce(u, kind, k, amount, owner)
    BY <1>3, <2>1, <2>2 DEF PaysOnce
  <2> QED BY <2>3 DEF u
<1> QED BY <1>2, <1>3

\* The first leaf for a milestone pays it.
LEMMA PaysFirst ==
  ASSUME NEW t \in LeafSeq, NEW leaf \in Leaf, NEW k,
         leaf.order = k[1], leaf.milestone = k[2], leaf.amount # 0,
         NEW owner, PaysOnce(t, leaf.kind, k, 0, owner)
  PROVE  PaysOnce(Append(t, leaf), leaf.kind, k, leaf.amount, leaf.owner)
<1>1. PaidAt(t, leaf.kind, k) = {}
  BY DEF PaysOnce
<1>2. PaidAt(Append(t, leaf), leaf.kind, k) = {Len(t) + 1} /\ Append(t, leaf)[Len(t) + 1] = leaf
  BY <1>1, PaidAtAppend
<1> QED BY <1>2 DEF PaysOnce

-----------------------------------------------------------------------------
(* What a transaction posts. *)

SamePayments ==
    epoch'.earned = epoch.earned /\ epoch'.returned = epoch.returned /\ epoch'.tree = epoch.tree

\* Nothing that the books show (openings, deliveries, challenges, votes, signatures).
Idle ==
    /\ SamePayments
    /\ epoch'.unresolved = epoch.unresolved
    /\ epoch'.unresolvedMilestones = epoch.unresolvedMilestones
    /\ \A k \in MilestoneKeys :
          /\ milestones'[k].finalWork = milestones[k].finalWork
          /\ milestones'[k].finalFee = milestones[k].finalFee
          /\ \/ milestones'[k].status = milestones[k].status
             \/ /\ milestones[k].status \notin {"NONE", "FINAL"}
                /\ milestones'[k].status \notin {"NONE", "FINAL"}

\* An order is reserved (_reserveOrder).
Admits(o) ==
    /\ WellFormed(o)
    /\ SamePayments
    /\ epoch'.unresolved = epoch.unresolved + OrderReserve(o)
    /\ epoch'.unresolvedMilestones = epoch.unresolvedMilestones + MilestoneCount(o)
    /\ \A k \in MilestonesOf(o) :
          /\ milestones[k].status = "NONE"
          /\ milestones'[k].status \notin {"NONE", "FINAL"}
          /\ milestones'[k].finalWork = 0 /\ milestones'[k].finalFee = 0
    /\ \A k \in MilestoneKeys : k \notin MilestonesOf(o) => milestones'[k] = milestones[k]

\* A pending order is given up (_finalizePendingOrder).
Withdraws(o) ==
    /\ WellFormed(o)
    /\ SamePayments
    /\ epoch'.unresolved = epoch.unresolved - OrderReserve(o)
    /\ epoch'.unresolvedMilestones = epoch.unresolvedMilestones - MilestoneCount(o)
    /\ \A k \in MilestonesOf(o) :
          /\ milestones[k].status = "PENDING"
          /\ milestones'[k].status = "FINAL"
          /\ milestones'[k].finalWork = milestones[k].finalWork
          /\ milestones'[k].finalFee = milestones[k].finalFee
    /\ \A k \in MilestoneKeys : k \notin MilestonesOf(o) => milestones'[k] = milestones[k]

\* A milestone is settled (finalizeMilestone).
Settles(k, work, fee) ==
    /\ milestones[k].status \notin {"NONE", "FINAL"}
    /\ epoch'.returned = epoch.returned
    /\ epoch'.earned = epoch.earned + (work + fee)
    /\ epoch'.tree = epoch.tree \o OutcomeLeaves(k, work, fee)
    /\ epoch'.unresolved = epoch.unresolved - MReserve(k)
    /\ epoch'.unresolvedMilestones = epoch.unresolvedMilestones - 1
    /\ milestones'[k].status = "FINAL"
    /\ milestones'[k].finalWork = work /\ milestones'[k].finalFee = fee
    /\ \A j \in MilestoneKeys \ {k} : milestones'[j] = milestones[j]

\* Free budget is returned (releaseFree, sweepAvailable, expireUninitializedEpoch).
Returns(amount) ==
    /\ epoch'.earned = epoch.earned
    /\ epoch'.returned = epoch.returned + amount
    /\ epoch'.tree = Append(epoch.tree, ReturnLeaf(amount))
    /\ epoch'.unresolved = epoch.unresolved
    /\ epoch'.unresolvedMilestones = epoch.unresolvedMilestones
    /\ milestones' = milestones

Posts ==
    \/ Idle
    \/ \E o \in Orders : Admits(o) \/ Withdraws(o)
    \/ \E k \in MilestoneKeys, work \in Nat, fee \in Nat : Settles(k, work, fee)
    \/ \E amount \in Nat : Returns(amount)

\* A transaction that leaves the record and the milestones alone posts nothing.
LEMMA QuietIsIdle ==
  ASSUME UNCHANGED <<epoch, milestones>>
  PROVE  Posts
  BY DEF Posts, Idle, SamePayments

\* _reserveOrder.
LEMMA ReserveOrderPosts ==
  ASSUME LedgerInv, NEW o \in Orders, NEW agreed \in BOOLEAN, ReserveOrder(o, agreed)
  PROVE  Posts
<1>1. /\ ~ orders[o].exists /\ WellFormed(o)
      /\ epoch' = Reserved(epoch, MilestoneCount(o), OrderReserve(o))
      /\ milestones' = [k \in MilestoneKeys |->
               IF k \in MilestonesOf(o)
               THEN [NoMilestone EXCEPT !.status = IF agreed THEN "AGREED" ELSE "PENDING",
                                        !.version = IF agreed THEN 1 ELSE 0,
                                        !.mutualNonce = 1]
               ELSE milestones[k]]
  BY DEF ReserveOrder
<1>2. epoch \in EpochType /\ OnlyAdmitted /\ MilestonesOf(o) \subseteq MilestoneKeys
  BY DEF LedgerInv, TypeOK, MilestoneKeys
<1>3. /\ SamePayments
      /\ epoch'.unresolved = epoch.unresolved + OrderReserve(o)
      /\ epoch'.unresolvedMilestones = epoch.unresolvedMilestones + MilestoneCount(o)
  BY <1>1, <1>2 DEF SamePayments, Reserved, EpochType
<1>4. \A k \in MilestonesOf(o) : milestones[k].status = "NONE"
  <2>1. \A k \in MilestonesOf(o) : k[1] = o
    BY DEF MilestonesOf
  <2> QED BY <1>1, <1>2, <2>1 DEF OnlyAdmitted
<1>5. \A k \in MilestonesOf(o) :
          /\ milestones'[k].status \notin {"NONE", "FINAL"}
          /\ milestones'[k].finalWork = 0 /\ milestones'[k].finalFee = 0
  BY <1>1, <1>2 DEF NoMilestone
<1>6. \A k \in MilestoneKeys : k \notin MilestonesOf(o) => milestones'[k] = milestones[k]
  BY <1>1
<1>7. Admits(o)
  BY <1>1, <1>3, <1>4, <1>5, <1>6 DEF Admits
<1> QED BY <1>7 DEF Posts

\* _finalizePendingOrder.
LEMMA FinalizePendingPosts ==
  ASSUME LedgerInv, NEW o \in Orders, NEW outcome, FinalizePendingOrder(o, outcome)
  PROVE  Posts
<1>1. /\ orders[o].exists
      /\ \A k \in MilestonesOf(o) : milestones[k].status = "PENDING"
      /\ epoch' = Restored(epoch, MilestoneCount(o), OrderReserve(o))
      /\ milestones' = [k \in MilestoneKeys |->
               IF k \in MilestonesOf(o)
               THEN [milestones[k] EXCEPT !.status = "FINAL", !.outcome = outcome]
               ELSE milestones[k]]
  BY DEF FinalizePendingOrder, MayFinalizePending
<1>2. /\ epoch \in EpochType /\ OnlyAdmitted /\ MilestonesOf(o) \subseteq MilestoneKeys
      /\ milestones \in [MilestoneKeys -> MilestoneType]
  BY DEF LedgerInv, TypeOK, MilestoneKeys
<1>3. WellFormed(o)
  BY <1>1, <1>2 DEF OnlyAdmitted
<1>4. /\ SamePayments
      /\ epoch'.unresolved = epoch.unresolved - OrderReserve(o)
      /\ epoch'.unresolvedMilestones = epoch.unresolvedMilestones - MilestoneCount(o)
  BY <1>1, <1>2 DEF SamePayments, Restored, MaybeClose, EpochType
<1>5. \A k \in MilestonesOf(o) :
          /\ milestones'[k].status = "FINAL"
          /\ milestones'[k].finalWork = milestones[k].finalWork
          /\ milestones'[k].finalFee = milestones[k].finalFee
  BY <1>1, <1>2 DEF MilestoneType
<1>6. \A k \in MilestoneKeys : k \notin MilestonesOf(o) => milestones'[k] = milestones[k]
  BY <1>1
<1>7. Withdraws(o)
  BY <1>1, <1>3, <1>4, <1>5, <1>6 DEF Withdraws
<1> QED BY <1>7 DEF Posts

\* finalizeMilestone.
LEMMA FinalizeMilestonePosts ==
  ASSUME LedgerInv, NEW k \in MilestoneKeys, milestones[k].status \notin {"NONE", "FINAL"},
         NEW outcome, NEW work \in Nat, NEW fee \in Nat,
         FinalizeMilestone(k, outcome, work, fee)
  PROVE  Posts
<1>1. /\ epoch' = Resolved(epoch, MReserve(k), work + fee, OutcomeLeaves(k, work, fee))
      /\ milestones' = [milestones EXCEPT ![k] =
             [@ EXCEPT !.status = "FINAL", !.outcome = outcome,
                       !.finalWork = work, !.finalFee = fee]]
  BY DEF FinalizeMilestone
<1>2. epoch \in EpochType /\ milestones \in [MilestoneKeys -> MilestoneType]
  BY DEF LedgerInv, TypeOK
<1>3. /\ epoch'.returned = epoch.returned
      /\ epoch'.earned = epoch.earned + (work + fee)
      /\ epoch'.tree = epoch.tree \o OutcomeLeaves(k, work, fee)
      /\ epoch'.unresolved = epoch.unresolved - MReserve(k)
      /\ epoch'.unresolvedMilestones = epoch.unresolvedMilestones - 1
  BY <1>1, <1>2 DEF Resolved, MaybeClose, EpochType
<1>4. /\ milestones'[k].status = "FINAL"
      /\ milestones'[k].finalWork = work /\ milestones'[k].finalFee = fee
      /\ \A j \in MilestoneKeys \ {k} : milestones'[j] = milestones[j]
  BY <1>1, <1>2 DEF MilestoneType
<1>5. Settles(k, work, fee)
  BY <1>3, <1>4 DEF Settles
<1> QED BY <1>5 DEF Posts

LEMMA EpochStepPosts ==
  ASSUME LedgerInv, EpochStep
  PROVE  Posts
<1>0. epoch \in EpochType /\ EpochInv(epoch)
  BY DEF LedgerInv, TypeOK
<1>1. UNCHANGED milestones
  BY DEF EpochStep, InitializeEpoch, ExpireUninitializedEpoch, ReleaseFree, StartDraining,
     SweepAvailable, RepublishCheckpoint
<1>2. ASSUME SamePayments, epoch'.unresolved = epoch.unresolved,
             epoch'.unresolvedMilestones = epoch.unresolvedMilestones
      PROVE  Posts
  BY <1>1, <1>2 DEF Posts, Idle
<1>3. CASE InitializeEpoch
  <2>1. epoch = NoEpoch /\ epoch' = OpenedEpoch
    BY <1>0, <1>3 DEF InitializeEpoch, EpochInv
  <2> QED BY <1>2, <2>1 DEF OpenedEpoch, NoEpoch, SamePayments
<1>4. CASE ExpireUninitializedEpoch
  <2>1. epoch = NoEpoch /\ epoch' = ExpiredEpoch(ReturnLeaf(Cap))
    BY <1>0, <1>4 DEF ExpireUninitializedEpoch, EpochInv
  <2>2. Append(<< >>, ReturnLeaf(Cap)) = << ReturnLeaf(Cap) >>
    OBVIOUS
  <2>3. Cap \in Nat
    BY ConfigAssumption
  <2>4. Returns(Cap)
    BY <1>1, <2>1, <2>2, <2>3 DEF ExpiredEpoch, NoEpoch, Returns
  <2> QED BY <2>3, <2>4 DEF Posts
<1>5. ASSUME NEW amount \in Amounts, ReleaseFree(amount)
      PROVE  Posts
  <2>1. epoch' = Released(epoch, amount, ReturnLeaf(amount)) /\ amount \in Nat
    BY <1>5, BoundsAssumption DEF ReleaseFree
  <2>2. Returns(amount)
    BY <1>0, <1>1, <2>1 DEF Released, MaybeClose, EpochType, Returns
  <2> QED BY <2>1, <2>2 DEF Posts
<1>6. ASSUME NEW sender, StartDraining(sender)
      PROVE  Posts
  <2>1. epoch' = Drained(epoch)
    BY <1>6 DEF StartDraining
  <2> QED BY <1>0, <1>2, <2>1 DEF Drained, MaybeClose, EpochType, SamePayments
<1>7. CASE SweepAvailable
  <2>1. CASE epoch.available = 0
    <3>1. epoch' = MaybeClose(epoch)
      BY <1>7, <2>1 DEF SweepAvailable
    <3> QED BY <1>0, <1>2, <3>1 DEF MaybeClose, EpochType, SamePayments
  <2>2. CASE epoch.available # 0
    <3>1. epoch' = Swept(epoch, ReturnLeaf(epoch.available)) /\ epoch.available \in Nat
      BY <1>0, <1>7, <2>2 DEF SweepAvailable, EpochType
    <3>2. Returns(epoch.available)
      BY <1>0, <1>1, <3>1 DEF Swept, MaybeClose, EpochType, Returns
    <3> QED BY <3>1, <3>2 DEF Posts
  <2> QED BY <2>1, <2>2
<1>8. CASE RepublishCheckpoint
  BY <1>1, <1>8, QuietIsIdle DEF RepublishCheckpoint
<1> QED BY <1>3, <1>4, <1>5, <1>6, <1>7, <1>8 DEF EpochStep

LEMMA OrderStepPosts ==
  ASSUME LedgerInv, OrderStep
  PROVE  Posts
<1>1. ASSUME NEW o \in Orders, CreateOffer(o) \/ AcceptQuote(o)
      PROVE  Posts
  <2>1. \E agreed \in BOOLEAN : ReserveOrder(o, agreed)
    BY <1>1 DEF CreateOffer, AcceptQuote
  <2> QED BY <2>1, ReserveOrderPosts
<1>2. ASSUME NEW o \in Orders, AcceptOffer(o)
      PROVE  Posts
  <2>1. /\ \A k \in MilestonesOf(o) : milestones[k].status = "PENDING"
        /\ milestones' = [k \in MilestoneKeys |->
               IF k \in MilestonesOf(o)
               THEN [milestones[k] EXCEPT !.status = "AGREED", !.version = 1]
               ELSE milestones[k]]
        /\ epoch' = epoch
    BY <1>2 DEF AcceptOffer, MayAccept
  <2>2. milestones \in [MilestoneKeys -> MilestoneType]
    BY DEF LedgerInv, TypeOK
  <2>3. \A k \in MilestoneKeys :
          /\ milestones'[k].finalWork = milestones[k].finalWork
          /\ milestones'[k].finalFee = milestones[k].finalFee
          /\ \/ milestones'[k].status = milestones[k].status
             \/ milestones[k].status = "PENDING" /\ milestones'[k].status = "AGREED"
    BY <2>1, <2>2 DEF MilestoneType
  <2> QED BY <2>1, <2>3 DEF Posts, Idle, SamePayments
<1>3. ASSUME NEW o \in Orders, DeclinePendingOrder(o) \/ ExpirePendingOrder(o)
      PROVE  Posts
  <2>1. \E outcome : FinalizePendingOrder(o, outcome)
    BY <1>3 DEF DeclinePendingOrder, ExpirePendingOrder
  <2> QED BY <2>1, FinalizePendingPosts
<1>4. ASSUME NEW n \in WorkerNonces, RevokeQuoteNonce(n)
      PROVE  Posts
  <2>1. CASE nonceState[n] = "OFFER"
    <3>1. offerForNonce[n] \in Orders /\ FinalizePendingOrder(offerForNonce[n], "DECLINED")
      BY <1>4, <2>1 DEF RevokeQuoteNonce, LedgerInv, OpenNonceHasOffer
    <3> QED BY <3>1, FinalizePendingPosts
  <2>2. CASE nonceState[n] # "OFFER"
    BY <1>4, <2>2, QuietIsIdle DEF RevokeQuoteNonce
  <2> QED BY <2>1, <2>2
<1> QED BY <1>1, <1>2, <1>3, <1>4 DEF OrderStep

LEMMA MilestoneStepPosts ==
  ASSUME LedgerInv, MilestoneStep
  PROVE  Posts
<1>1. PICK k \in MilestoneKeys :
        \/ \E hash \in Deliveries : Deliver(k, hash)
        \/ Approve(k)
        \/ Challenge(k)
        \/ FinalizeNoDelivery(k)
        \/ FinalizeMonitoringDefault(k)
        \/ FinalizeCommitteeTimeout(k)
        \/ \E work \in Amounts, nonce \in Nonces, voter \in Members :
              SubmitRulingVote(k, work, nonce, voter)
        \/ \E nonce \in Nonces, sender \in Members :
              InvalidateOwnRulingVotesBefore(k, nonce, sender)
        \/ \E work \in Amounts, nonce \in Nonces : SettleMutually(k, work, nonce)
        \/ \E nonce \in Nonces : InvalidateMutualProposals(k, nonce)
  BY DEF MilestoneStep
<1>2. milestones \in [MilestoneKeys -> MilestoneType]
  BY DEF LedgerInv, TypeOK
<1>3. /\ MTerms(k).work \in Nat /\ MTerms(k).fee \in Nat /\ MTerms(k).timeoutWork \in Nat
      /\ 0 \in Nat /\ Amounts \subseteq Nat
  BY KeyFacts, BoundsAssumption DEF MilestoneTerms
\* A milestone that changes without being settled.
<1>4. ASSUME NEW m, m.status \notin {"NONE", "FINAL"},
             m.finalWork = milestones[k].finalWork, m.finalFee = milestones[k].finalFee,
             milestones[k].status \notin {"NONE", "FINAL"},
             milestones' = [milestones EXCEPT ![k] = m], epoch' = epoch
      PROVE  Posts
  <2>1. milestones'[k] = m /\ \A j \in MilestoneKeys \ {k} : milestones'[j] = milestones[j]
    BY <1>2, <1>4
  <2>2. ASSUME NEW j \in MilestoneKeys
        PROVE  /\ milestones'[j].finalWork = milestones[j].finalWork
               /\ milestones'[j].finalFee = milestones[j].finalFee
               /\ \/ milestones'[j].status = milestones[j].status
                  \/ /\ milestones[j].status \notin {"NONE", "FINAL"}
                     /\ milestones'[j].status \notin {"NONE", "FINAL"}
    BY <1>4, <2>1
  <2> QED BY <1>4, <2>2 DEF Posts, Idle, SamePayments
<1>5. CASE \E hash \in Deliveries : Deliver(k, hash)
  <2>1. PICK hash \in Deliveries : Deliver(k, hash)
    BY <1>5
  <2> DEFINE m == [milestones[k] EXCEPT !.delivery = hash, !.status = "DELIVERED",
                                        !.version = @ + 1]
  <2>2. /\ milestones[k].status \notin {"NONE", "FINAL"}
        /\ milestones' = [milestones EXCEPT ![k] = m] /\ epoch' = epoch
    BY <2>1 DEF Deliver, MayDeliver
  <2>3. /\ m.status = "DELIVERED"
        /\ m.finalWork = milestones[k].finalWork /\ m.finalFee = milestones[k].finalFee
    BY <1>2 DEF MilestoneType
  <2> HIDE DEF m
  <2> QED BY <1>4, <2>2, <2>3
<1>6. CASE Challenge(k)
  <2> DEFINE m == [milestones[k] EXCEPT !.status = "CHALLENGED", !.version = @ + 1]
  <2>1. /\ milestones[k].status \notin {"NONE", "FINAL"}
        /\ milestones' = [milestones EXCEPT ![k] = m] /\ epoch' = epoch
    BY <1>6 DEF Challenge, InReview
  <2>2. /\ m.status = "CHALLENGED"
        /\ m.finalWork = milestones[k].finalWork /\ m.finalFee = milestones[k].finalFee
    BY <1>2 DEF MilestoneType
  <2> HIDE DEF m
  <2> QED BY <1>4, <2>1, <2>2
<1>7. CASE \E nonce \in Nonces : InvalidateMutualProposals(k, nonce)
  <2>1. PICK nonce \in Nonces : InvalidateMutualProposals(k, nonce)
    BY <1>7
  <2> DEFINE m == [milestones[k] EXCEPT !.mutualNonce = nonce]
  <2>2. /\ milestones[k].status \notin {"NONE", "FINAL"}
        /\ milestones' = [milestones EXCEPT ![k] = m] /\ epoch' = epoch
    BY <1>2, <2>1 DEF InvalidateMutualProposals, Live
  <2>3. /\ m.status = milestones[k].status
        /\ m.finalWork = milestones[k].finalWork /\ m.finalFee = milestones[k].finalFee
    BY <1>2 DEF MilestoneType
  <2> HIDE DEF m
  <2> QED BY <1>4, <2>2, <2>3
\* A milestone that is settled.
<1>8. ASSUME NEW outcome, NEW work \in Nat, NEW fee \in Nat,
             milestones[k].status \notin {"NONE", "FINAL"},
             FinalizeMilestone(k, outcome, work, fee)
      PROVE  Posts
  BY <1>8, FinalizeMilestonePosts
<1>9. CASE \/ Approve(k) \/ FinalizeNoDelivery(k) \/ FinalizeMonitoringDefault(k)
           \/ FinalizeCommitteeTimeout(k)
  BY <1>3, <1>8, <1>9 DEF Approve, FinalizeNoDelivery, FinalizeMonitoringDefault,
     FinalizeCommitteeTimeout, InReview, NoDeliveryDue, MonitoringDue, TimeoutDue
<1>10. CASE \E work \in Amounts, nonce \in Nonces, voter \in Members :
              SubmitRulingVote(k, work, nonce, voter)
  <2>1. PICK work \in Amounts, nonce \in Nonces, voter \in Members :
              SubmitRulingVote(k, work, nonce, voter)
    BY <1>10
  <2>2. /\ milestones[k].status = "CHALLENGED"
        /\ \/ FinalizeMilestone(k, "COMMITTEE", work, MTerms(k).fee)
           \/ UNCHANGED <<epoch, milestones>>
    BY <2>1 DEF SubmitRulingVote, InDispute
  <2> QED BY <1>3, <1>8, <2>2, QuietIsIdle
<1>11. CASE \E nonce \in Nonces, sender \in Members :
              InvalidateOwnRulingVotesBefore(k, nonce, sender)
  BY <1>11, QuietIsIdle DEF InvalidateOwnRulingVotesBefore
<1>12. CASE \E work \in Amounts, nonce \in Nonces : SettleMutually(k, work, nonce)
  <2>1. PICK work \in Amounts, nonce \in Nonces : SettleMutually(k, work, nonce)
    BY <1>12
  <2>2. milestones[k].status \notin {"NONE", "FINAL"} /\ FinalizeMilestone(k, "MUTUAL", work, 0)
    BY <2>1 DEF SettleMutually, Live
  <2> QED BY <1>3, <1>8, <2>2
<1> QED BY <1>1, <1>5, <1>6, <1>7, <1>9, <1>10, <1>11, <1>12

\* Every step of the ledger posts one of these.
LEMMA StepPosts ==
  ASSUME LedgerInv, [Next]_vars
  PROVE  Posts
<1>1. CASE UNCHANGED vars
  BY <1>1, QuietIsIdle DEF vars
<1>2. CASE ConsentStep \/ Tick
  BY <1>2, QuietIsIdle DEF ConsentStep, Consent, Tick
<1> QED BY <1>1, <1>2, EpochStepPosts, OrderStepPosts, MilestoneStepPosts DEF Next

-----------------------------------------------------------------------------
(* The reserve. *)

\* The milestones of an order, and what they reserve together.
LEMMA OrderNumbers ==
  ASSUME NEW o \in Orders, WellFormed(o)
  PROVE  /\ IsFiniteSet(MilestonesOf(o))
         /\ Cardinality(MilestonesOf(o)) = MilestoneCount(o)
         /\ MilestonesOf(o) \subseteq MilestoneKeys
         /\ \A f : (\A k \in MilestonesOf(o) : f[k] = MReserve(k))
                  => SumFunctionOnSet(f, MilestonesOf(o)) = OrderReserve(o)
<1>1. MilestoneCount(o) \in Nat /\ MilestonesOf(o) \subseteq MilestoneKeys
  BY WellFormedFacts
<1>2. /\ IsFiniteSet(1 .. MilestoneCount(o)) /\ Cardinality(1 .. MilestoneCount(o)) = MilestoneCount(o)
      /\ IsFiniteSet({o}) /\ Cardinality({o}) = 1
  <2>1. 1 \in Int /\ MilestoneCount(o) \in Int /\ ~ 1 > MilestoneCount(o)
    BY WellFormedFacts
  <2>2. /\ IsFiniteSet(1 .. MilestoneCount(o))
        /\ Cardinality(1 .. MilestoneCount(o)) =
             IF 1 > MilestoneCount(o) THEN 0 ELSE MilestoneCount(o) - 1 + 1
    BY <2>1, FS_Interval
  <2>3. IsFiniteSet({o}) /\ Cardinality({o}) = 1
    BY FS_Singleton
  <2> QED BY <2>1, <2>2, <2>3
<1>3. /\ IsFiniteSet(MilestonesOf(o))
      /\ Cardinality(MilestonesOf(o)) = MilestoneCount(o)
  <2>1. /\ IsFiniteSet({o} \X (1 .. MilestoneCount(o)))
        /\ Cardinality({o} \X (1 .. MilestoneCount(o))) = 1 * MilestoneCount(o)
    BY <1>2, FS_Product
  <2> QED BY <1>1, <2>1 DEF MilestonesOf
<1>4. ASSUME NEW f, \A k \in MilestonesOf(o) : f[k] = MReserve(k)
      PROVE  SumFunctionOnSet(f, MilestonesOf(o)) = OrderReserve(o)
  <2> DEFINE g == [k \in MilestonesOf(o) |-> MReserve(k)]
  <2>1. OrderReserve(o) = SumFunction(g)
    BY DEF OrderReserve
  <2>2. DOMAIN g = MilestonesOf(o) /\ \A k \in MilestonesOf(o) : g[k] = f[k]
    BY <1>4
  <2> HIDE DEF g
  <2>3. SumFunction(g) = SumFunctionOnSet(g, MilestonesOf(o))
    BY <2>2, SumFunctionIsSum
  <2>4. SumFunctionOnSet(g, MilestonesOf(o)) = SumFunctionOnSet(f, MilestonesOf(o))
    BY <1>3, <2>2, SumSame
  <2> QED BY <2>1, <2>3, <2>4
<1> QED BY <1>1, <1>3, <1>4

\* The reserve of a finite set of milestones.
ReserveOf(S) == SumFunction([k \in S |-> MReserve(k)])

LEMMA ReserveIsSum ==
  ASSUME NEW S, IsFiniteSet(S), NEW f, \A k \in S : f[k] = MReserve(k)
  PROVE  ReserveOf(S) = SumFunctionOnSet(f, S)
<1> DEFINE g == [k \in S |-> MReserve(k)]
<1>1. ReserveOf(S) = SumFunction(g)
  BY DEF ReserveOf
<1>2. DOMAIN g = S /\ \A k \in S : g[k] = f[k]
  OBVIOUS
<1> HIDE DEF g
<1>3. SumFunction(g) = SumFunctionOnSet(g, S)
  BY <1>2, SumFunctionIsSum
<1>4. SumFunctionOnSet(g, S) = SumFunctionOnSet(f, S)
  BY <1>2, SumSame
<1> QED BY <1>1, <1>3, <1>4

\* The reserve of open milestones when some open (S) and others close (U).
LEMMA ReserveMoves ==
  ASSUME NEW S \in SUBSET MilestoneKeys, IsFiniteSet(S),
         NEW U \in SUBSET MilestoneKeys, IsFiniteSet(U)
  PROVE  /\ ReserveOf(S) \in Nat /\ ReserveOf(U) \in Nat /\ Cardinality(S) \in Nat
         /\ S \cap U = {} =>
               /\ IsFiniteSet(S \cup U)
               /\ ReserveOf(S \cup U) = ReserveOf(S) + ReserveOf(U)
               /\ Cardinality(S \cup U) = Cardinality(S) + Cardinality(U)
         /\ U \subseteq S =>
               /\ IsFiniteSet(S \ U)
               /\ ReserveOf(S \ U) = ReserveOf(S) - ReserveOf(U)
               /\ Cardinality(S \ U) = Cardinality(S) - Cardinality(U)
<1> DEFINE f == [k \in MilestoneKeys |-> MReserve(k)]
<1>1. \A k \in MilestoneKeys : f[k] = MReserve(k) /\ f[k] \in Nat
  BY KeyFacts
<1> HIDE DEF f
<1>2. \A V \in SUBSET MilestoneKeys : IsFiniteSet(V) =>
        ReserveOf(V) = SumFunctionOnSet(f, V) /\ ReserveOf(V) \in Nat
  <2> TAKE V \in SUBSET MilestoneKeys
  <2> HAVE IsFiniteSet(V)
  <2>1. ReserveOf(V) = SumFunctionOnSet(f, V)
    BY <1>1, ReserveIsSum
  <2>2. SumFunctionOnSet(f, V) \in Nat
    BY <1>1, SumIsNatural
  <2> QED BY <2>1, <2>2
<1>3. Cardinality(S) \in Nat /\ Cardinality(U) \in Nat
  BY FS_CardinalityType
<1>4. ASSUME S \cap U = {}
      PROVE  /\ IsFiniteSet(S \cup U)
             /\ ReserveOf(S \cup U) = ReserveOf(S) + ReserveOf(U)
             /\ Cardinality(S \cup U) = Cardinality(S) + Cardinality(U)
  <2>1. /\ IsFiniteSet(S \cup U)
        /\ Cardinality(S \cup U) = Cardinality(S) + Cardinality(U) - Cardinality(S \cap U)
    BY FS_Union
  <2>2. Cardinality(S \cap U) = 0
    BY <1>4, FS_EmptySet
  <2>3. SumFunctionOnSet(f, S \cup U) = SumFunctionOnSet(f, S) + SumFunctionOnSet(f, U)
    <3>1. \A k \in S \cup U : f[k] \in Int
      BY <1>1
    <3> QED BY <1>4, <3>1, SumUnion
  <2>4. S \cup U \in SUBSET MilestoneKeys
    OBVIOUS
  <2>5. ReserveOf(S \cup U) = SumFunctionOnSet(f, S \cup U)
    BY <1>2, <2>1, <2>4
  <2> QED BY <1>2, <1>3, <2>1, <2>2, <2>3, <2>5
<1>5. ASSUME U \subseteq S
      PROVE  /\ IsFiniteSet(S \ U)
             /\ ReserveOf(S \ U) = ReserveOf(S) - ReserveOf(U)
             /\ Cardinality(S \ U) = Cardinality(S) - Cardinality(U)
  <2>1. /\ IsFiniteSet(S \ U)
        /\ Cardinality(S \ U) = Cardinality(S) - Cardinality(S \cap U)
    BY FS_Difference
  <2>2. S \cap U = U
    BY <1>5
  <2>3. SumFunctionOnSet(f, S \ U) = SumFunctionOnSet(f, S) - SumFunctionOnSet(f, U)
    <3>1. \A k \in S : f[k] \in Int
      BY <1>1
    <3> QED BY <1>5, <3>1, SumDifference
  <2>4. S \ U \in SUBSET MilestoneKeys
    OBVIOUS
  <2>5. ReserveOf(S \ U) = SumFunctionOnSet(f, S \ U)
    BY <1>2, <2>1, <2>4
  <2> QED BY <1>2, <1>3, <2>1, <2>2, <2>3, <2>5
<1> QED BY <1>2, <1>3, <1>4, <1>5

\* One milestone reserves its own work and fee.
LEMMA ReserveOfOne ==
  ASSUME NEW k \in MilestoneKeys
  PROVE  IsFiniteSet({k}) /\ Cardinality({k}) = 1 /\ ReserveOf({k}) = MReserve(k)
<1> DEFINE f == [j \in {k} |-> MReserve(j)]
<1>1. IsFiniteSet({k}) /\ Cardinality({k}) = 1
  BY FS_Singleton
<1>2. \A j \in {k} : f[j] = MReserve(j) /\ f[j] \in Nat
  BY KeyFacts
<1> HIDE DEF f
<1>3. ReserveOf({k}) = SumFunctionOnSet(f, {k})
  BY <1>1, <1>2, ReserveIsSum
<1>4. SumFunctionOnSet(f, {k}) = f[k] + SumFunctionOnSet(f, {k} \ {k})
  BY <1>1, <1>2, SumRemove
<1>5. {k} \ {k} = {}
  OBVIOUS
<1>6. SumFunctionOnSet(f, {k} \ {k}) = 0
  BY <1>5, SumEmpty
<1> QED BY <1>1, <1>2, <1>3, <1>4, <1>6

\* Whatever is posted, the reserve is that of the open milestones.
LEMMA PostsKeepReserve ==
  ASSUME LedgerInv, IsFiniteSet(Unsettled), UnresolvedIsLiveReserve, Posts
  PROVE  IsFiniteSet(Unsettled') /\ UnresolvedIsLiveReserve'
<1>1. /\ epoch.unresolved = ReserveOf(Unsettled)
      /\ epoch.unresolvedMilestones = Cardinality(Unsettled)
  BY DEF UnresolvedIsLiveReserve, ReserveOf
<1> SUFFICES /\ IsFiniteSet(Unsettled')
             /\ epoch'.unresolved = ReserveOf(Unsettled')
             /\ epoch'.unresolvedMilestones = Cardinality(Unsettled')
  BY DEF UnresolvedIsLiveReserve, ReserveOf
<1>2. Unsettled \in SUBSET MilestoneKeys
  BY DEF Unsettled
<1>3. ASSUME Unsettled' = Unsettled, epoch'.unresolved = epoch.unresolved,
             epoch'.unresolvedMilestones = epoch.unresolvedMilestones
      PROVE  /\ IsFiniteSet(Unsettled')
             /\ epoch'.unresolved = ReserveOf(Unsettled')
             /\ epoch'.unresolvedMilestones = Cardinality(Unsettled')
  BY <1>1, <1>3
<1>4. CASE Idle
  <2>1. Unsettled' = Unsettled
    BY <1>4 DEF Idle, Unsettled
  <2> QED BY <1>3, <1>4, <2>1 DEF Idle
<1>5. CASE \E o \in Orders : Admits(o)
  <2>1. PICK o \in Orders : Admits(o)
    BY <1>5
  <2> DEFINE U == MilestonesOf(o)
  <2>2. /\ IsFiniteSet(U) /\ U \in SUBSET MilestoneKeys
        /\ Cardinality(U) = MilestoneCount(o) /\ ReserveOf(U) = OrderReserve(o)
    <3>1. WellFormed(o)
      BY <2>1 DEF Admits
    <3>2. OrderReserve(o) = ReserveOf(U)
      BY DEF OrderReserve, ReserveOf
    <3> QED BY <3>1, <3>2, OrderNumbers
  <2>3. Unsettled \cap U = {}
    BY <2>1 DEF Admits, Unsettled
  <2>4. Unsettled' = Unsettled \cup U
    BY <2>1, <2>2 DEF Admits, Unsettled
  <2>5. /\ epoch'.unresolved = epoch.unresolved + ReserveOf(U)
        /\ epoch'.unresolvedMilestones = epoch.unresolvedMilestones + Cardinality(U)
    BY <2>1, <2>2 DEF Admits
  <2> HIDE DEF U
  <2> QED BY <1>1, <1>2, <2>2, <2>3, <2>4, <2>5, ReserveMoves
<1>6. CASE \E o \in Orders : Withdraws(o)
  <2>1. PICK o \in Orders : Withdraws(o)
    BY <1>6
  <2> DEFINE U == MilestonesOf(o)
  <2>2. /\ IsFiniteSet(U) /\ U \in SUBSET MilestoneKeys
        /\ Cardinality(U) = MilestoneCount(o) /\ ReserveOf(U) = OrderReserve(o)
    <3>1. WellFormed(o)
      BY <2>1 DEF Withdraws
    <3>2. OrderReserve(o) = ReserveOf(U)
      BY DEF OrderReserve, ReserveOf
    <3> QED BY <3>1, <3>2, OrderNumbers
  <2>3. U \subseteq Unsettled
    BY <2>1, <2>2 DEF Withdraws, Unsettled
  <2>4. Unsettled' = Unsettled \ U
    BY <2>1, <2>2 DEF Withdraws, Unsettled
  <2>5. /\ epoch'.unresolved = epoch.unresolved - ReserveOf(U)
        /\ epoch'.unresolvedMilestones = epoch.unresolvedMilestones - Cardinality(U)
    BY <2>1, <2>2 DEF Withdraws
  <2> HIDE DEF U
  <2> QED BY <1>1, <1>2, <2>2, <2>3, <2>4, <2>5, ReserveMoves
<1>7. CASE \E k \in MilestoneKeys, work \in Nat, fee \in Nat : Settles(k, work, fee)
  <2>1. PICK k \in MilestoneKeys, work \in Nat, fee \in Nat : Settles(k, work, fee)
    BY <1>7
  <2> DEFINE U == {k}
  <2>2. /\ IsFiniteSet(U) /\ U \in SUBSET MilestoneKeys
        /\ Cardinality(U) = 1 /\ ReserveOf(U) = MReserve(k)
    BY ReserveOfOne
  <2>3. U \subseteq Unsettled
    BY <2>1 DEF Settles, Unsettled
  <2>4. Unsettled' = Unsettled \ U
    BY <2>1 DEF Settles, Unsettled
  <2>5. /\ epoch'.unresolved = epoch.unresolved - ReserveOf(U)
        /\ epoch'.unresolvedMilestones = epoch.unresolvedMilestones - Cardinality(U)
    BY <2>1, <2>2 DEF Settles
  <2> HIDE DEF U
  <2> QED BY <1>1, <1>2, <2>2, <2>3, <2>4, <2>5, ReserveMoves
<1>8. CASE \E amount \in Nat : Returns(amount)
  <2>1. Unsettled' = Unsettled
    BY <1>8 DEF Returns, Unsettled
  <2> QED BY <1>3, <1>8, <2>1 DEF Returns
<1> QED BY <1>4, <1>5, <1>6, <1>7, <1>8 DEF Posts

-----------------------------------------------------------------------------
(* The payments. *)

\* One leaf of an outcome, unless it pays nothing.
WithLeaf(t, kind, k, amount, owner, destination) ==
    IF amount = 0 THEN t
    ELSE Append(t, Allocation(kind, k[1], k[2], amount, owner, destination))

LEMMA LeafPays ==
  ASSUME NEW t \in LeafSeq, NEW k \in MilestoneKeys, NEW kind \in {"WORK", "FEE"},
         NEW amount \in Nat, NEW owner \in Owners, NEW destination \in Destinations,
         NEW u, u = WithLeaf(t, kind, k, amount, owner, destination)
  PROVE  /\ u \in LeafSeq
         /\ LeafTotal(u, {"WORK", "FEE"}) = LeafTotal(t, {"WORK", "FEE"}) + amount
         /\ LeafTotal(u, {"RETURN"}) = LeafTotal(t, {"RETURN"})
         /\ \A w : PaysOnce(t, kind, k, 0, w) => PaysOnce(u, kind, k, amount, owner)
         /\ \A other, j, paid, w :
               /\ ~ (other = kind /\ j[1] = k[1] /\ j[2] = k[2])
               /\ PaysOnce(t, other, j, paid, w)
               => PaysOnce(u, other, j, paid, w)
<1>0. /\ LeafTotal(t, {"WORK", "FEE"}) \in Nat /\ LeafTotal(t, {"RETURN"}) \in Nat
  BY TotalIsNumber
<1>1. CASE amount = 0
  <2>1. u = t
    BY <1>1 DEF WithLeaf
  <2> QED BY <1>0, <1>1, <2>1 DEF PaysOnce
<1>2. CASE amount # 0
  <2> DEFINE leaf == Allocation(kind, k[1], k[2], amount, owner, destination)
  <2>1. u = Append(t, leaf)
    BY <1>2 DEF WithLeaf
  <2>2. /\ leaf \in Leaf /\ leaf.kind = kind /\ leaf.order = k[1] /\ leaf.milestone = k[2]
        /\ leaf.amount = amount /\ leaf.owner = owner
    <3>1. k[1] \in Orders /\ k[2] \in Nat
      BY KeyFacts
    <3> QED BY <3>1 DEF Allocation, Leaf, Kinds
  <2> HIDE DEF leaf
  <2>3. u \in LeafSeq
    BY <2>1, <2>2, AppendProperties DEF LeafSeq
  <2>4. LeafTotal(u, {"WORK", "FEE"}) = LeafTotal(t, {"WORK", "FEE"}) + amount
    <3>1. LeafTotal(u, {"WORK", "FEE"}) = LeafTotal(t, {"WORK", "FEE"})
             + (IF leaf.kind \in {"WORK", "FEE"} THEN leaf.amount ELSE 0)
      BY <2>1, <2>2, TotalOfAppend
    <3>2. leaf.kind \in {"WORK", "FEE"}
      BY <2>2
    <3> QED BY <2>2, <3>1, <3>2
  <2>5. LeafTotal(u, {"RETURN"}) = LeafTotal(t, {"RETURN"})
    <3>1. LeafTotal(u, {"RETURN"}) = LeafTotal(t, {"RETURN"})
             + (IF leaf.kind \in {"RETURN"} THEN leaf.amount ELSE 0)
      BY <2>1, <2>2, TotalOfAppend
    <3>2. leaf.kind \notin {"RETURN"}
      BY <2>2
    <3> QED BY <1>0, <3>1, <3>2
  <2>6. ASSUME NEW w, PaysOnce(t, kind, k, 0, w)
        PROVE  PaysOnce(u, kind, k, amount, owner)
    <3>1. PaysOnce(t, leaf.kind, k, 0, w)
      BY <2>2, <2>6
    <3>2. PaysOnce(Append(t, leaf), leaf.kind, k, leaf.amount, leaf.owner)
      BY <1>2, <2>2, <3>1, PaysFirst
    <3> QED BY <2>1, <2>2, <3>2
  <2>7. ASSUME NEW other, NEW j, NEW paid, NEW w,
               ~ (other = kind /\ j[1] = k[1] /\ j[2] = k[2]),
               PaysOnce(t, other, j, paid, w)
        PROVE  PaysOnce(u, other, j, paid, w)
    <3>1. ~ (leaf.kind = other /\ leaf.order = j[1] /\ leaf.milestone = j[2])
      BY <2>2, <2>7
    <3>2. PaysOnce(Append(t, leaf), other, j, paid, w)
      BY <2>2, <2>7, <3>1, PaysKept
    <3> QED BY <2>1, <3>2
  <2> QED BY <2>3, <2>4, <2>5, <2>6, <2>7
<1> QED BY <1>1, <1>2

\* A milestone's work and fee, as the tree pays them.
PaidInFull(t, k, work, fee) ==
    /\ PaysOnce(t, "WORK", k, work, Terms[k[1]].claimOwner)
    /\ PaysOnce(t, "FEE", k, fee, Terms[k[1]].feeOwner)

\* The leaves of an outcome pay the milestone, and change nothing for the others.
LEMMA OutcomePays ==
  ASSUME NEW t \in LeafSeq, NEW k \in MilestoneKeys, NEW work \in Nat, NEW fee \in Nat,
         PaidInFull(t, k, 0, 0),
         NEW u, u = t \o OutcomeLeaves(k, work, fee)
  PROVE  /\ LeafTotal(u, {"WORK", "FEE"}) = LeafTotal(t, {"WORK", "FEE"}) + (work + fee)
         /\ LeafTotal(u, {"RETURN"}) = LeafTotal(t, {"RETURN"})
         /\ PaidInFull(u, k, work, fee)
         /\ \A j \in MilestoneKeys \ {k} : \A w, f :
               PaidInFull(t, j, w, f) => PaidInFull(u, j, w, f)
<1> DEFINE m == Terms[k[1]]
           v == WithLeaf(t, "WORK", k, work, m.claimOwner, m.destination)
           x == WithLeaf(v, "FEE", k, fee, m.feeOwner, m.feeDestination)
<1>1. /\ m.claimOwner \in Owners /\ m.feeOwner \in Owners
      /\ m.destination \in Destinations /\ m.feeDestination \in Destinations
  BY KeyFacts DEF Owners, Destinations
<1>2. u = x
  <2> DEFINE leaf(kind, amount, owner, destination) ==
               IF amount = 0 THEN << >>
               ELSE << Allocation(kind, k[1], k[2], amount, owner, destination) >>
             a == leaf("WORK", work, m.claimOwner, m.destination)
             b == leaf("FEE", fee, m.feeOwner, m.feeDestination)
  <2>1. OutcomeLeaves(k, work, fee) = a \o b
    BY DEF OutcomeLeaves
  <2>2. /\ Allocation("WORK", k[1], k[2], work, m.claimOwner, m.destination) \in Leaf
        /\ Allocation("FEE", k[1], k[2], fee, m.feeOwner, m.feeDestination) \in Leaf
    BY <1>1, KeyFacts DEF Allocation, Leaf, Kinds
  <2>3. a \in Seq(Leaf) /\ b \in Seq(Leaf) /\ t \in Seq(Leaf)
    BY <2>2, EmptySeq DEF LeafSeq
  <2>4. v = t \o a /\ v \in Seq(Leaf)
    <3>1. v = t \o a
      BY <2>2, <2>3, AppendIsConcat, ConcatEmptySeq DEF WithLeaf
    <3> HIDE DEF v, a
    <3> QED BY <2>3, <3>1, ConcatProperties
  <2>5. x = v \o b
    <3> HIDE DEF v
    <3> QED BY <2>2, <2>4, AppendIsConcat, ConcatEmptySeq DEF WithLeaf
  <2> HIDE DEF v, x, a, b
  <2>6. (t \o a) \o b = t \o (a \o b)
    BY <2>3, ConcatAssociative
  <2> QED BY <2>1, <2>4, <2>5, <2>6
<1>3. /\ v \in LeafSeq
      /\ LeafTotal(v, {"WORK", "FEE"}) = LeafTotal(t, {"WORK", "FEE"}) + work
      /\ LeafTotal(v, {"RETURN"}) = LeafTotal(t, {"RETURN"})
      /\ \A w : PaysOnce(t, "WORK", k, 0, w) => PaysOnce(v, "WORK", k, work, m.claimOwner)
      /\ \A other, j, paid, w :
            /\ ~ (other = "WORK" /\ j[1] = k[1] /\ j[2] = k[2])
            /\ PaysOnce(t, other, j, paid, w)
            => PaysOnce(v, other, j, paid, w)
  <2> HIDE DEF m
  <2> QED BY <1>1, LeafPays
<1>4. /\ LeafTotal(x, {"WORK", "FEE"}) = LeafTotal(v, {"WORK", "FEE"}) + fee
      /\ LeafTotal(x, {"RETURN"}) = LeafTotal(v, {"RETURN"})
      /\ \A w : PaysOnce(v, "FEE", k, 0, w) => PaysOnce(x, "FEE", k, fee, m.feeOwner)
      /\ \A other, j, paid, w :
            /\ ~ (other = "FEE" /\ j[1] = k[1] /\ j[2] = k[2])
            /\ PaysOnce(v, other, j, paid, w)
            => PaysOnce(x, other, j, paid, w)
  <2> HIDE DEF m, v
  <2> QED BY <1>1, <1>3, LeafPays
<1>5. PaysOnce(t, "WORK", k, 0, m.claimOwner) /\ PaysOnce(t, "FEE", k, 0, m.feeOwner)
  BY DEF PaidInFull
<1>6. LeafTotal(t, {"WORK", "FEE"}) \in Nat
  BY TotalIsNumber
<1>7. \A j \in MilestoneKeys \ {k} : ~ (j[1] = k[1] /\ j[2] = k[2])
  <2>1. \A j \in MilestoneKeys : j = <<j[1], j[2]>>
    BY DEF MilestoneKeys, MilestonesOf
  <2> QED BY <2>1
<1> HIDE DEF v, x
<1>8. PaidInFull(x, k, work, fee)
  <2>1. PaysOnce(v, "WORK", k, work, m.claimOwner) /\ PaysOnce(v, "FEE", k, 0, m.feeOwner)
    BY <1>3, <1>5
  <2>2. PaysOnce(x, "WORK", k, work, m.claimOwner) /\ PaysOnce(x, "FEE", k, fee, m.feeOwner)
    BY <1>4, <2>1
  <2> QED BY <2>2 DEF PaidInFull
<1>9. ASSUME NEW j \in MilestoneKeys \ {k}, NEW w, NEW f, PaidInFull(t, j, w, f)
      PROVE  PaidInFull(x, j, w, f)
  <2> DEFINE n == Terms[j[1]]
  <2>1. PaysOnce(t, "WORK", j, w, n.claimOwner) /\ PaysOnce(t, "FEE", j, f, n.feeOwner)
    BY <1>9 DEF PaidInFull
  <2>2. PaysOnce(v, "WORK", j, w, n.claimOwner) /\ PaysOnce(v, "FEE", j, f, n.feeOwner)
    BY <1>3, <1>7, <2>1
  <2>3. PaysOnce(x, "WORK", j, w, n.claimOwner) /\ PaysOnce(x, "FEE", j, f, n.feeOwner)
    BY <1>4, <1>7, <2>2
  <2> QED BY <2>3 DEF PaidInFull
<1>10. LeafTotal(x, {"WORK", "FEE"}) = LeafTotal(t, {"WORK", "FEE"}) + (work + fee)
  BY <1>3, <1>4, <1>6
<1>11. LeafTotal(x, {"RETURN"}) = LeafTotal(t, {"RETURN"})
  BY <1>3, <1>4
<1> QED BY <1>2, <1>8, <1>9, <1>10, <1>11

\* A return adds to what was returned, and pays no milestone.
LEMMA ReturnPaysNobody ==
  ASSUME NEW t \in LeafSeq, NEW amount \in Nat, NEW u, u = Append(t, ReturnLeaf(amount))
  PROVE  /\ LeafTotal(u, {"WORK", "FEE"}) = LeafTotal(t, {"WORK", "FEE"})
         /\ LeafTotal(u, {"RETURN"}) = LeafTotal(t, {"RETURN"}) + amount
         /\ \A j, w, f : PaidInFull(t, j, w, f) => PaidInFull(u, j, w, f)
<1> DEFINE leaf == ReturnLeaf(amount)
<1>1. leaf \in Leaf /\ leaf.kind = "RETURN" /\ leaf.amount = amount
  BY ReturnLeafType DEF ReturnLeaf, Allocation
<1> HIDE DEF leaf
<1>2. u = Append(t, leaf)
  BY DEF leaf
<1>3. LeafTotal(t, {"WORK", "FEE"}) \in Nat
  BY TotalIsNumber
<1>4. LeafTotal(u, {"WORK", "FEE"}) = LeafTotal(t, {"WORK", "FEE"})
  <2>1. LeafTotal(u, {"WORK", "FEE"}) = LeafTotal(t, {"WORK", "FEE"})
           + (IF leaf.kind \in {"WORK", "FEE"} THEN leaf.amount ELSE 0)
    BY <1>1, <1>2, TotalOfAppend
  <2>2. leaf.kind \notin {"WORK", "FEE"}
    BY <1>1
  <2> QED BY <1>3, <2>1, <2>2
<1>5. LeafTotal(u, {"RETURN"}) = LeafTotal(t, {"RETURN"}) + amount
  <2>1. LeafTotal(u, {"RETURN"}) = LeafTotal(t, {"RETURN"})
           + (IF leaf.kind \in {"RETURN"} THEN leaf.amount ELSE 0)
    BY <1>1, <1>2, TotalOfAppend
  <2>2. leaf.kind \in {"RETURN"}
    BY <1>1
  <2> QED BY <1>1, <2>1, <2>2
<1>6. ASSUME NEW j, NEW w, NEW f, PaidInFull(t, j, w, f)
      PROVE  PaidInFull(u, j, w, f)
  <2>1. /\ PaysOnce(t, "WORK", j, w, Terms[j[1]].claimOwner)
        /\ PaysOnce(t, "FEE", j, f, Terms[j[1]].feeOwner)
    BY <1>6 DEF PaidInFull
  <2>2. PaysOnce(u, "WORK", j, w, Terms[j[1]].claimOwner)
    BY <1>1, <1>2, <2>1, PaysKept
  <2>3. PaysOnce(u, "FEE", j, f, Terms[j[1]].feeOwner)
    BY <1>1, <1>2, <2>1, PaysKept
  <2> QED BY <2>2, <2>3 DEF PaidInFull
<1> QED BY <1>4, <1>5, <1>6

\* Whatever is posted, the tree pays the settled milestones and nothing else.
LEMMA PostsKeepPayments ==
  ASSUME LedgerInv, UnsettledUnpaid, LedgerMatchesOutcomes, Posts
  PROVE  UnsettledUnpaid' /\ LedgerMatchesOutcomes'
<1>1. /\ epoch.tree \in LeafSeq /\ epoch.earned \in Nat /\ epoch.returned \in Nat
  BY EpochNumbers DEF LedgerInv, TypeOK
<1>2. /\ epoch.earned = LeafTotal(epoch.tree, {"WORK", "FEE"})
      /\ epoch.returned = LeafTotal(epoch.tree, {"RETURN"})
      /\ \A k \in MilestoneKeys :
            PaidInFull(epoch.tree, k, milestones[k].finalWork, milestones[k].finalFee)
  BY DEF LedgerMatchesOutcomes, PaidInFull
<1>3. \A k \in MilestoneKeys : milestones[k].status # "FINAL" =>
         milestones[k].finalWork = 0 /\ milestones[k].finalFee = 0
  BY DEF UnsettledUnpaid
<1> SUFFICES
      /\ \A k \in MilestoneKeys : milestones'[k].status # "FINAL" =>
            milestones'[k].finalWork = 0 /\ milestones'[k].finalFee = 0
      /\ epoch'.earned = LeafTotal(epoch'.tree, {"WORK", "FEE"})
      /\ epoch'.returned = LeafTotal(epoch'.tree, {"RETURN"})
      /\ \A k \in MilestoneKeys :
            PaidInFull(epoch'.tree, k, milestones'[k].finalWork, milestones'[k].finalFee)
  BY DEF UnsettledUnpaid, LedgerMatchesOutcomes, PaidInFull
<1>4. CASE Idle
  BY <1>2, <1>3, <1>4 DEF Idle, SamePayments
<1>5. CASE \E o \in Orders : Admits(o)
  <2>1. PICK o \in Orders : Admits(o)
    BY <1>5
  <2>2. /\ SamePayments
        /\ \A k \in MilestonesOf(o) :
              /\ milestones[k].status = "NONE"
              /\ milestones'[k].finalWork = 0 /\ milestones'[k].finalFee = 0
        /\ \A k \in MilestoneKeys : k \notin MilestonesOf(o) => milestones'[k] = milestones[k]
    BY <2>1 DEF Admits
  <2>3. \A k \in MilestoneKeys :
          /\ milestones'[k].finalWork = milestones[k].finalWork
          /\ milestones'[k].finalFee = milestones[k].finalFee
    BY <1>3, <2>2
  <2>4. \A k \in MilestoneKeys : milestones'[k].status # "FINAL" =>
          milestones'[k].finalWork = 0 /\ milestones'[k].finalFee = 0
    BY <1>3, <2>2
  <2> QED BY <1>2, <2>2, <2>3, <2>4 DEF SamePayments
<1>6. CASE \E o \in Orders : Withdraws(o)
  <2>1. PICK o \in Orders : Withdraws(o)
    BY <1>6
  <2>2. /\ SamePayments
        /\ \A k \in MilestonesOf(o) :
              /\ milestones'[k].status = "FINAL"
              /\ milestones'[k].finalWork = milestones[k].finalWork
              /\ milestones'[k].finalFee = milestones[k].finalFee
        /\ \A k \in MilestoneKeys : k \notin MilestonesOf(o) => milestones'[k] = milestones[k]
    BY <2>1 DEF Withdraws
  <2>3. \A k \in MilestoneKeys :
          /\ milestones'[k].finalWork = milestones[k].finalWork
          /\ milestones'[k].finalFee = milestones[k].finalFee
    BY <2>2
  <2>4. \A k \in MilestoneKeys : milestones'[k].status # "FINAL" =>
          milestones'[k].finalWork = 0 /\ milestones'[k].finalFee = 0
    BY <1>3, <2>2
  <2> QED BY <1>2, <2>2, <2>3, <2>4 DEF SamePayments
<1>7. CASE \E k \in MilestoneKeys, work \in Nat, fee \in Nat : Settles(k, work, fee)
  <2>1. PICK k \in MilestoneKeys, work \in Nat, fee \in Nat : Settles(k, work, fee)
    BY <1>7
  <2>2. /\ milestones[k].status # "FINAL" /\ milestones'[k].status = "FINAL"
        /\ milestones'[k].finalWork = work /\ milestones'[k].finalFee = fee
        /\ \A j \in MilestoneKeys \ {k} : milestones'[j] = milestones[j]
        /\ epoch'.returned = epoch.returned
        /\ epoch'.earned = epoch.earned + (work + fee)
        /\ epoch'.tree = epoch.tree \o OutcomeLeaves(k, work, fee)
    BY <2>1 DEF Settles
  <2>3. PaidInFull(epoch.tree, k, 0, 0)
    BY <1>2, <1>3, <2>2
  <2> DEFINE t == epoch.tree
             u == epoch'.tree
  <2>4. t \in LeafSeq /\ PaidInFull(t, k, 0, 0) /\ u = t \o OutcomeLeaves(k, work, fee)
    BY <1>1, <2>2, <2>3
  <2>5. /\ LeafTotal(u, {"WORK", "FEE"}) = LeafTotal(t, {"WORK", "FEE"}) + (work + fee)
        /\ LeafTotal(u, {"RETURN"}) = LeafTotal(t, {"RETURN"})
        /\ PaidInFull(u, k, work, fee)
        /\ \A j \in MilestoneKeys \ {k} : \A w, f :
              PaidInFull(t, j, w, f) => PaidInFull(u, j, w, f)
    <3> HIDE DEF t, u
    <3>1. \A y : y = t \o OutcomeLeaves(k, work, fee) =>
            /\ LeafTotal(y, {"WORK", "FEE"}) = LeafTotal(t, {"WORK", "FEE"}) + (work + fee)
            /\ LeafTotal(y, {"RETURN"}) = LeafTotal(t, {"RETURN"})
            /\ PaidInFull(y, k, work, fee)
            /\ \A j \in MilestoneKeys \ {k} : \A w, f :
                  PaidInFull(t, j, w, f) => PaidInFull(y, j, w, f)
      BY <2>4, OutcomePays
    <3> QED BY <2>4, <3>1
  <2>6. \A j \in MilestoneKeys :
          PaidInFull(u, j, milestones'[j].finalWork, milestones'[j].finalFee)
    <3> TAKE j \in MilestoneKeys
    <3>1. CASE j = k
      BY <2>2, <2>5, <3>1
    <3>2. CASE j # k
      <4>1. PaidInFull(t, j, milestones[j].finalWork, milestones[j].finalFee)
        BY <1>2
      <4>2. milestones'[j] = milestones[j]
        BY <2>2, <3>2
      <4> HIDE DEF t, u
      <4> QED BY <2>5, <3>2, <4>1, <4>2
    <3> QED BY <3>1, <3>2
  <2>7. \A j \in MilestoneKeys : milestones'[j].status # "FINAL" =>
          milestones'[j].finalWork = 0 /\ milestones'[j].finalFee = 0
    BY <1>3, <2>2
  <2>8. /\ epoch'.earned = LeafTotal(u, {"WORK", "FEE"})
        /\ epoch'.returned = LeafTotal(u, {"RETURN"})
    BY <1>2, <2>2, <2>5
  <2> QED BY <2>6, <2>7, <2>8
<1>8. CASE \E amount \in Nat : Returns(amount)
  <2>1. PICK amount \in Nat : Returns(amount)
    BY <1>8
  <2>2. /\ milestones' = milestones /\ epoch'.earned = epoch.earned
        /\ epoch'.returned = epoch.returned + amount
        /\ epoch'.tree = Append(epoch.tree, ReturnLeaf(amount))
    BY <2>1 DEF Returns
  <2> DEFINE t == epoch.tree
             u == epoch'.tree
  <2>3. t \in LeafSeq /\ u = Append(t, ReturnLeaf(amount))
    BY <1>1, <2>2
  <2>4. /\ LeafTotal(u, {"WORK", "FEE"}) = LeafTotal(t, {"WORK", "FEE"})
        /\ LeafTotal(u, {"RETURN"}) = LeafTotal(t, {"RETURN"}) + amount
        /\ \A j, w, f : PaidInFull(t, j, w, f) => PaidInFull(u, j, w, f)
    <3> HIDE DEF t, u
    <3> QED BY <2>3, ReturnPaysNobody
  <2>5. \A j \in MilestoneKeys :
          PaidInFull(u, j, milestones'[j].finalWork, milestones'[j].finalFee)
    BY <1>2, <2>2, <2>4
  <2>6. /\ epoch'.earned = LeafTotal(u, {"WORK", "FEE"})
        /\ epoch'.returned = LeafTotal(u, {"RETURN"})
    BY <1>2, <2>2, <2>4
  <2> QED BY <1>3, <2>2, <2>5, <2>6
<1> QED BY <1>4, <1>5, <1>6, <1>7, <1>8 DEF Posts

-----------------------------------------------------------------------------
(* The checkpoints. *)

\* A prefix of the tree stays a prefix of it.
LEMMA PrefixKept ==
  ASSUME NEW t \in LeafSeq, NEW u \in LeafSeq, Len(t) <= Len(u),
         \A i \in DOMAIN t : u[i] = t[i],
         NEW n \in Nat, n <= Len(t)
  PROVE  SubSeq(u, 1, n) = SubSeq(t, 1, n)
<1>1. /\ Len(t) \in Nat /\ DOMAIN t = 1 .. Len(t) /\ \A i \in 1 .. n : t[i] \in Leaf /\ u[i] = t[i]
  <2>1. Len(t) \in Nat /\ DOMAIN t = 1 .. Len(t)
    BY LenProperties DEF LeafSeq
  <2>2. \A i \in 1 .. Len(t) : t[i] \in Leaf
    BY ElementOfSeq DEF LeafSeq
  <2> QED BY <2>1, <2>2
<1>2. 1 \in Int /\ n \in Int /\ \A i \in 1 .. n : u[i] \in Leaf
  BY <1>1
<1>3. /\ SubSeq(t, 1, n) \in Seq(Leaf)
      /\ Len(SubSeq(t, 1, n)) = IF 1 <= n THEN n - 1 + 1 ELSE 0
      /\ \A i \in 1 .. n - 1 + 1 : SubSeq(t, 1, n)[i] = t[1 + i - 1]
  BY <1>1, <1>2, SubSeqProperties
<1>4. /\ SubSeq(u, 1, n) \in Seq(Leaf)
      /\ Len(SubSeq(u, 1, n)) = IF 1 <= n THEN n - 1 + 1 ELSE 0
      /\ \A i \in 1 .. n - 1 + 1 : SubSeq(u, 1, n)[i] = u[1 + i - 1]
  BY <1>2, SubSeqProperties
<1>5. Len(SubSeq(t, 1, n)) = n /\ Len(SubSeq(u, 1, n)) = n
  BY <1>3, <1>4
<1>6. \A i \in 1 .. n : SubSeq(u, 1, n)[i] = SubSeq(t, 1, n)[i]
  <2> TAKE i \in 1 .. n
  <2>1. i \in 1 .. n - 1 + 1 /\ 1 + i - 1 = i
    OBVIOUS
  <2>2. SubSeq(t, 1, n)[i] = t[i] /\ SubSeq(u, 1, n)[i] = u[i]
    BY <1>3, <1>4, <2>1
  <2> QED BY <1>1, <2>2
<1> QED BY <1>3, <1>4, <1>5, <1>6, SeqEqual

\* What one checkpoint states, of the tree as it is now.
States(c, t) ==
    /\ c.leafCount <= Len(t)
    /\ c.root = SubSeq(t, 1, c.leafCount)
    /\ c.earned = LeafTotal(c.root, {"WORK", "FEE"})
    /\ c.returned = LeafTotal(c.root, {"RETURN"})
    /\ c.phase = "CLOSED" => c.earned + c.returned = Cap

\* The checkpoint of a record whose totals are those of its tree is faithful.
LEMMA PresentIsFaithful ==
  ASSUME NEW e, EpochInv(e),
         e.earned = LeafTotal(e.tree, {"WORK", "FEE"}),
         e.returned = LeafTotal(e.tree, {"RETURN"})
  PROVE  States(Checkpoint(e), e.tree)
<1>1. e \in EpochType
  BY DEF EpochInv
<1>2. /\ e.tree \in Seq(Leaf) /\ Len(e.tree) \in Nat
      /\ e.available \in Nat /\ e.unresolved \in Nat
      /\ e.earned \in Nat /\ e.returned \in Nat
  BY <1>1, EpochNumbers DEF LeafSeq
<1>3. SubSeq(e.tree, 1, Len(e.tree)) = e.tree
  BY <1>2, SubSeqFull
<1>4. e.phase = "CLOSED" => e.earned + e.returned = Cap
  <2> SUFFICES ASSUME e.phase = "CLOSED" PROVE e.earned + e.returned = Cap
    OBVIOUS
  <2>1. e.exists
    BY DEF EpochInv, NoEpoch
  <2>2. Conserves(e) /\ e.available = 0 /\ e.unresolved = 0
    BY <2>1 DEF EpochInv, ClosureInv
  <2> QED BY <1>2, <2>2 DEF Conserves
<1> QED BY <1>2, <1>3, <1>4 DEF States, Checkpoint

\* A step that keeps the ledger keeps every checkpoint faithful.
LEMMA StepCheckpoints ==
  ASSUME LedgerInv, LedgerInv', Kept, LedgerMatchesOutcomes', CheckpointsAreFaithful
  PROVE  CheckpointsAreFaithful'
<1>1. /\ epoch.tree \in LeafSeq /\ epoch'.tree \in LeafSeq
      /\ Len(epoch.tree) \in Nat /\ Len(epoch'.tree) \in Nat
      /\ EpochInv(epoch) /\ EpochInv(epoch')
      /\ published \in Seq(CheckpointType)
  <2>1. epoch \in EpochType /\ epoch' \in EpochType
    BY DEF LedgerInv, TypeOK
  <2> QED BY <2>1, EpochNumbers DEF LedgerInv, TypeOK
<1>2. Len(epoch.tree) <= Len(epoch'.tree) /\ \A i \in DOMAIN epoch.tree : epoch'.tree[i] = epoch.tree[i]
  BY <1>1, MovesAreFinal DEF Kept, Final
<1>3. /\ Len(published) \in Nat /\ DOMAIN published = 1 .. Len(published)
      /\ \A i \in 1 .. Len(published) : published[i] \in CheckpointType
  BY <1>1, LenProperties, ElementOfSeq
<1>4. \A i \in 1 .. Len(published) :
        States(published[i], epoch.tree)
        /\ (i > 1 => published[i - 1].leafCount <= published[i].leafCount)
  BY <1>3 DEF CheckpointsAreFaithful, States
<1>5. \A i \in 1 .. Len(published) : States(published[i], epoch'.tree)
  <2> TAKE i \in 1 .. Len(published)
  <2> DEFINE c == published[i]
  <2>1. States(c, epoch.tree) /\ c.leafCount \in Nat
    BY <1>3, <1>4 DEF CheckpointType
  <2>2. c.leafCount <= Len(epoch.tree)
    BY <2>1 DEF States
  <2>3. SubSeq(epoch'.tree, 1, c.leafCount) = SubSeq(epoch.tree, 1, c.leafCount)
    <3> HIDE DEF c
    <3> QED BY <1>1, <1>2, <2>1, <2>2, PrefixKept
  <2>4. c.leafCount <= Len(epoch'.tree)
    BY <1>1, <1>2, <2>1, <2>2
  <2> HIDE DEF c
  <2>5. States(c, epoch'.tree)
    BY <2>1, <2>3, <2>4 DEF States
  <2> QED BY <2>5 DEF c
<1> SUFFICES
      /\ DOMAIN published' = 1 .. Len(published')
      /\ \A i \in 1 .. Len(published') :
            States(published'[i], epoch'.tree)
            /\ (i > 1 => published'[i - 1].leafCount <= published'[i].leafCount)
  BY DEF CheckpointsAreFaithful, States
<1>6. CASE published' = published
  BY <1>3, <1>4, <1>5, <1>6
<1>7. CASE published' = Append(published, Checkpoint(epoch'))
  <2> DEFINE n == Len(published)
  <2>1. Checkpoint(epoch') \in CheckpointType
    BY <1>1, CheckpointIsTyped DEF EpochInv
  <2>2. /\ published' \in Seq(CheckpointType) /\ Len(published') = n + 1
        /\ published'[n + 1] = Checkpoint(epoch')
        /\ \A i \in 1 .. n : published'[i] = published[i]
    BY <1>1, <1>7, <2>1, AppendProperties
  <2>3. DOMAIN published' = 1 .. Len(published')
    BY <2>2, LenProperties
  <2>4. States(Checkpoint(epoch'), epoch'.tree)
    <3>1. /\ epoch'.earned = LeafTotal(epoch'.tree, {"WORK", "FEE"})
          /\ epoch'.returned = LeafTotal(epoch'.tree, {"RETURN"})
      BY DEF LedgerMatchesOutcomes
    <3> QED BY <1>1, <3>1, PresentIsFaithful
  <2>5. ASSUME n > 0
        PROVE  published'[n].leafCount <= Checkpoint(epoch').leafCount
    <3>1. n \in 1 .. n /\ published'[n] = published[n] /\ published[n] \in CheckpointType
      BY <1>3, <2>2, <2>5
    <3>2. published[n].leafCount <= Len(epoch.tree) /\ published[n].leafCount \in Nat
      BY <1>4, <3>1 DEF States, CheckpointType
    <3>3. Checkpoint(epoch').leafCount = Len(epoch'.tree)
      BY DEF Checkpoint
    <3> QED BY <1>1, <1>2, <3>1, <3>2, <3>3
  <2>6. ASSUME NEW i \in 1 .. Len(published')
        PROVE  /\ States(published'[i], epoch'.tree)
               /\ i > 1 => published'[i - 1].leafCount <= published'[i].leafCount
    <3>1. n \in Nat
      BY <1>3
    <3>2. CASE i = n + 1
      BY <2>2, <2>4, <2>5, <3>1, <3>2
    <3>3. CASE i # n + 1
      <4>1. i \in 1 .. n /\ (i > 1 => i - 1 \in 1 .. n)
        BY <2>2, <3>1, <3>3
      <4> QED BY <1>4, <1>5, <2>2, <4>1
    <3> QED BY <3>2, <3>3
  <2> QED BY <2>3, <2>6
<1> QED BY <1>6, <1>7 DEF Kept, Announced

-----------------------------------------------------------------------------
(* The theorems. *)

\* Nothing is reserved, written or published at first.
LEMMA InitBooks == Init => BooksInv
<1> SUFFICES ASSUME Init PROVE BooksInv
  OBVIOUS
<1>1. LedgerInv
  BY InitLedger
<1>2. /\ epoch = NoEpoch /\ published = << >>
      /\ \A k \in MilestoneKeys :
            /\ milestones[k].status = "NONE"
            /\ milestones[k].finalWork = 0 /\ milestones[k].finalFee = 0
  BY DEF Init, NoMilestone
<1>3. epoch.tree = << >> /\ epoch.earned = 0 /\ epoch.returned = 0
      /\ epoch.unresolved = 0 /\ epoch.unresolvedMilestones = 0
  BY <1>2 DEF NoEpoch
<1>4. Unsettled = {}
  BY <1>2 DEF Unsettled
<1>5. IsFiniteSet({}) /\ Cardinality({}) = 0
  BY FS_EmptySet
<1>6. UnresolvedIsLiveReserve
  <2> DEFINE f == << >>
  <2>1. ReserveOf({}) = SumFunctionOnSet(f, {})
    BY <1>5, ReserveIsSum
  <2>2. ReserveOf({}) = 0
    BY <2>1, SumEmpty
  <2>3. SumFunction([k \in Unsettled |-> MReserve(k)]) = ReserveOf(Unsettled)
    BY DEF ReserveOf
  <2> QED BY <1>3, <1>4, <1>5, <2>2, <2>3 DEF UnresolvedIsLiveReserve
<1>7. UnsettledUnpaid
  BY <1>2 DEF UnsettledUnpaid
<1>8. LedgerMatchesOutcomes
  <2>1. \A kind, k : PaidAt(<< >>, kind, k) = {}
    BY DEF PaidAt
  <2>2. \A kind, k, w : PaysOnce(<< >>, kind, k, 0, w)
    BY <2>1 DEF PaysOnce
  <2> QED BY <1>2, <1>3, <2>2, TotalOfNone DEF LedgerMatchesOutcomes
<1>9. CheckpointsAreFaithful
  BY <1>2 DEF CheckpointsAreFaithful
<1> QED BY <1>1, <1>4, <1>5, <1>6, <1>7, <1>8, <1>9 DEF BooksInv

\* The books stay balanced.
LEMMA StepBooks == BooksInv /\ [Next]_vars => BooksInv'
<1> SUFFICES ASSUME BooksInv, [Next]_vars PROVE BooksInv'
  OBVIOUS
<1>1. /\ LedgerInv /\ IsFiniteSet(Unsettled) /\ UnsettledUnpaid
      /\ UnresolvedIsLiveReserve /\ LedgerMatchesOutcomes /\ CheckpointsAreFaithful
  BY DEF BooksInv
<1>2. LedgerInv' /\ Posts /\ Kept
  BY <1>1, StepLedger, StepPosts, StepKeeps
<1>3. IsFiniteSet(Unsettled)' /\ UnresolvedIsLiveReserve'
  BY <1>1, <1>2, PostsKeepReserve
<1>4. UnsettledUnpaid' /\ LedgerMatchesOutcomes'
  BY <1>1, <1>2, PostsKeepPayments
<1>5. CheckpointsAreFaithful'
  BY <1>1, <1>2, <1>4, StepCheckpoints
<1> QED BY <1>2, <1>3, <1>4, <1>5 DEF BooksInv

\* The record, the milestones, the tree and the checkpoints agree in every state.
THEOREM BooksInvariant == Spec => []BooksInv
  BY InitBooks, StepBooks, PTL DEF Spec

\* The reserve is exactly the work and fee of the open milestones, so that the checked
\* subtractions of finalizeMilestone and _finalizePendingOrder never strand one.
THEOREM ReserveIsLive == Spec => []UnresolvedIsLiveReserve
<1>1. BooksInv => UnresolvedIsLiveReserve
  BY DEF BooksInv
<1> QED BY <1>1, BooksInvariant, PTL

\* The tree pays each milestone its outcome, once and to the owners of its terms, and
\* earned and returned are the totals of its leaves.
THEOREM PaymentsMatchOutcomes == Spec => []LedgerMatchesOutcomes
<1>1. BooksInv => LedgerMatchesOutcomes
  BY DEF BooksInv
<1> QED BY <1>1, BooksInvariant, PTL

\* Every checkpoint ever published commits to a prefix of the present tree and states
\* its totals; a CLOSED one accounts for the whole cap.
THEOREM CheckpointsFaithful == Spec => []CheckpointsAreFaithful
<1>1. BooksInv => CheckpointsAreFaithful
  BY DEF BooksInv
<1> QED BY <1>1, BooksInvariant, PTL

-----------------------------------------------------------------------------
(* The deadlines. *)

\* What a milestone waits for is not changed by what happens to others.
LEMMA StagedKept ==
  ASSUME NEW k \in MilestoneKeys, Staged(k), milestones'[k] = milestones[k],
         orders'[k[1]].agreed = orders[k[1]].agreed
  PROVE  Staged(k)'
  BY DEF Staged, Live

\* A settled milestone waits for nothing.
LEMMA SettledIsStaged ==
  ASSUME NEW k \in MilestoneKeys, milestones'[k].status = "FINAL"
  PROVE  Staged(k)'
  BY DEF Staged, Live

\* The orders and milestones a settlement leaves alone (finalizeMilestone).
LEMMA SettlementStages ==
  ASSUME StageInv, NEW j \in MilestoneKeys, NEW outcome, NEW work, NEW fee,
         FinalizeMilestone(j, outcome, work, fee), NEW k \in MilestoneKeys
  PROVE  Staged(k)'
<1>1. orders \in [Orders -> OrderType] /\ LedgerInv /\ Staged(k) /\ k[1] \in Orders
  BY KeyFacts DEF StageInv, BooksInv, LedgerInv, TypeOK
<1>2. /\ milestones'[j].status = "FINAL"
      /\ k # j => milestones'[k] = milestones[k]
  BY <1>1, FinalizedMilestone
<1>3. orders' = [orders EXCEPT ![j[1]].finalizedCount = @ + 1]
  BY DEF FinalizeMilestone
<1>4. orders'[k[1]].agreed = orders[k[1]].agreed
  BY <1>1, <1>3 DEF OrderType
<1> QED BY <1>1, <1>2, <1>4, StagedKept, SettledIsStaged

\* The orders that come and go leave the milestones of others alone (createOffer ..
\* revokeQuoteNonce).
LEMMA OrderStepStages ==
  ASSUME StageInv, OrderStep, NEW k \in MilestoneKeys
  PROVE  Staged(k)'
<1>0. /\ milestones \in [MilestoneKeys -> MilestoneType] /\ orders \in [Orders -> OrderType]
      /\ offerForNonce \in [WorkerNonces -> Orders \cup {NoOffer}] /\ OpenNonceHasOffer
      /\ LedgerInv /\ Staged(k) /\ k[1] \in Orders /\ k \in MilestonesOf(k[1])
      /\ \A o \in Orders : k \in MilestonesOf(o) => o = k[1]
  BY KeyFacts DEF StageInv, BooksInv, LedgerInv, TypeOK, MilestonesOf
<1>1. ASSUME NEW o \in Orders, k \notin MilestonesOf(o),
             milestones'[k] = milestones[k],
             \A p \in Orders \ {o} : orders'[p] = orders[p]
      PROVE  Staged(k)'
  BY <1>0, <1>1, StagedKept
<1>2. ASSUME NEW o \in Orders, NEW agreed \in BOOLEAN, ReserveOrder(o, agreed)
      PROVE  Staged(k)'
  <2>1. /\ orders'[o].agreed = agreed /\ \A p \in Orders \ {o} : orders'[p] = orders[p]
        /\ k \notin MilestonesOf(o) => milestones'[k] = milestones[k]
        /\ k \in MilestonesOf(o) =>
              /\ milestones'[k].status = IF agreed THEN "AGREED" ELSE "PENDING"
              /\ milestones'[k].version = IF agreed THEN 1 ELSE 0
    BY <1>0, <1>2 DEF ReserveOrder, NoMilestone
  <2>2. CASE k \in MilestonesOf(o)
    BY <1>0, <2>1, <2>2 DEF Staged, Live
  <2>3. CASE k \notin MilestonesOf(o)
    BY <1>1, <2>1, <2>3
  <2> QED BY <2>2, <2>3
<1>3. ASSUME NEW o \in Orders, NEW outcome, FinalizePendingOrder(o, outcome)
      PROVE  Staged(k)'
  <2>1. /\ orders' = [orders EXCEPT ![o].finalizedCount = MilestoneCount(o)]
        /\ milestones' = [j \in MilestoneKeys |->
              IF j \in MilestonesOf(o)
              THEN [milestones[j] EXCEPT !.status = "FINAL", !.outcome = outcome]
              ELSE milestones[j]]
    BY <1>3 DEF FinalizePendingOrder
  <2>2. CASE k \in MilestonesOf(o)
    <3>1. milestones'[k].status = "FINAL"
      BY <1>0, <2>1, <2>2 DEF MilestoneType
    <3> QED BY <3>1, SettledIsStaged
  <2>3. CASE k \notin MilestonesOf(o)
    BY <1>0, <1>1, <2>1, <2>3
  <2> QED BY <2>2, <2>3
<1>4. ASSUME NEW o \in Orders, AcceptOffer(o)
      PROVE  Staged(k)'
  <2>1. /\ orders' = [orders EXCEPT ![o].agreed = TRUE]
        /\ milestones' = [j \in MilestoneKeys |->
              IF j \in MilestonesOf(o)
              THEN [milestones[j] EXCEPT !.status = "AGREED", !.version = 1]
              ELSE milestones[j]]
    BY <1>4 DEF AcceptOffer
  <2>2. CASE k \in MilestonesOf(o)
    <3>1. milestones'[k].status = "AGREED" /\ milestones'[k].version = 1
      BY <1>0, <2>1, <2>2 DEF MilestoneType
    <3>2. o = k[1] /\ orders'[k[1]].agreed
      BY <1>0, <2>1, <2>2 DEF OrderType
    <3> QED BY <3>1, <3>2 DEF Staged
  <2>3. CASE k \notin MilestonesOf(o)
    BY <1>0, <1>1, <2>1, <2>3
  <2> QED BY <2>2, <2>3
<1>5. ASSUME NEW n \in WorkerNonces, RevokeQuoteNonce(n)
      PROVE  Staged(k)'
  <2>1. CASE nonceState[n] = "OFFER"
    <3>1. offerForNonce[n] \in Orders /\ FinalizePendingOrder(offerForNonce[n], "DECLINED")
      BY <1>0, <1>5, <2>1 DEF RevokeQuoteNonce, OpenNonceHasOffer
    <3> QED BY <1>3, <3>1
  <2>2. CASE nonceState[n] # "OFFER"
    <3>1. UNCHANGED <<orders, milestones>>
      BY <1>5, <2>2 DEF RevokeQuoteNonce
    <3> QED BY <1>0, <3>1, StagedKept
  <2> QED BY <2>1, <2>2
<1>6. ASSUME NEW o \in Orders,
             CreateOffer(o) \/ AcceptQuote(o) \/ DeclinePendingOrder(o) \/ ExpirePendingOrder(o)
      PROVE  Staged(k)'
  BY <1>2, <1>3, <1>6 DEF CreateOffer, AcceptQuote, DeclinePendingOrder, ExpirePendingOrder
<1> QED BY <1>4, <1>5, <1>6 DEF OrderStep

\* A delivery, a challenge and a ruling are for agreed work (deliver .. settleMutually).
LEMMA MilestoneStepStages ==
  ASSUME StageInv, MilestoneStep, NEW k \in MilestoneKeys
  PROVE  Staged(k)'
<1>0. /\ milestones \in [MilestoneKeys -> MilestoneType]
      /\ Staged(k)
  BY DEF StageInv, BooksInv, LedgerInv, TypeOK
<1>1. PICK j \in MilestoneKeys :
          \/ \E hash \in Deliveries : Deliver(j, hash)
          \/ Approve(j)
          \/ Challenge(j)
          \/ FinalizeNoDelivery(j)
          \/ FinalizeMonitoringDefault(j)
          \/ FinalizeCommitteeTimeout(j)
          \/ \E work \in Amounts, nonce \in Nonces, voter \in Members :
                SubmitRulingVote(j, work, nonce, voter)
          \/ \E nonce \in Nonces, sender \in Members :
                InvalidateOwnRulingVotesBefore(j, nonce, sender)
          \/ \E work \in Amounts, nonce \in Nonces : SettleMutually(j, work, nonce)
          \/ \E nonce \in Nonces : InvalidateMutualProposals(j, nonce)
  BY DEF MilestoneStep
<1>2. ASSUME NEW hash \in Deliveries, Deliver(j, hash)
      PROVE  Staged(k)'
  <2>1. /\ orders[j[1]].agreed /\ orders' = orders
        /\ milestones' = [milestones EXCEPT ![j] =
              [milestones[j] EXCEPT !.delivery = hash, !.status = "DELIVERED", !.version = @ + 1]]
    BY <1>2 DEF Deliver, MayDeliver
  <2>2. CASE k = j
    <3>1. milestones'[k].status = "DELIVERED"
      BY <1>0, <2>1, <2>2 DEF MilestoneType
    <3> QED BY <2>1, <2>2, <3>1 DEF Staged
  <2>3. CASE k # j
    BY <1>0, <2>1, <2>3, StagedKept
  <2> QED BY <2>2, <2>3
<1>3. ASSUME Challenge(j)
      PROVE  Staged(k)'
  <2>1. /\ milestones[j].status = "DELIVERED" /\ orders' = orders
        /\ milestones' = [milestones EXCEPT ![j] =
              [milestones[j] EXCEPT !.status = "CHALLENGED", !.version = @ + 1]]
    BY <1>3 DEF Challenge, InReview
  <2>2. CASE k = j
    <3>1. milestones'[k].status = "CHALLENGED"
      BY <1>0, <2>1, <2>2 DEF MilestoneType
    <3> QED BY <1>0, <2>1, <2>2, <3>1 DEF Staged, Live
  <2>3. CASE k # j
    BY <1>0, <2>1, <2>3, StagedKept
  <2> QED BY <2>2, <2>3
<1>4. ASSUME NEW nonce, InvalidateMutualProposals(j, nonce)
      PROVE  Staged(k)'
  <2>1. orders' = orders /\ milestones' = [milestones EXCEPT ![j].mutualNonce = nonce]
    BY <1>4 DEF InvalidateMutualProposals
  <2>2. milestones'[k].status = milestones[k].status /\ milestones'[k].version = milestones[k].version
    BY <1>0, <2>1 DEF MilestoneType
  <2> QED BY <1>0, <2>1, <2>2 DEF Staged, Live
<1>5. ASSUME NEW work, NEW nonce, NEW voter, SubmitRulingVote(j, work, nonce, voter)
      PROVE  Staged(k)'
  <2>1. \/ FinalizeMilestone(j, "COMMITTEE", work, MTerms(j).fee)
        \/ UNCHANGED <<orders, milestones>>
    BY <1>5 DEF SubmitRulingVote
  <2> QED BY <1>0, <2>1, SettlementStages, StagedKept
<1>6. ASSUME NEW nonce, NEW sender, InvalidateOwnRulingVotesBefore(j, nonce, sender)
      PROVE  Staged(k)'
  BY <1>0, <1>6, StagedKept DEF InvalidateOwnRulingVotesBefore
<1>7. ASSUME NEW work, NEW nonce, SettleMutually(j, work, nonce)
      PROVE  Staged(k)'
  BY <1>7, SettlementStages DEF SettleMutually
<1>8. CASE Approve(j) \/ FinalizeNoDelivery(j) \/ FinalizeMonitoringDefault(j)
           \/ FinalizeCommitteeTimeout(j)
  BY <1>8, SettlementStages
  DEF Approve, FinalizeNoDelivery, FinalizeMonitoringDefault, FinalizeCommitteeTimeout
<1> QED BY <1>1, <1>2, <1>3, <1>4, <1>5, <1>6, <1>7, <1>8

\* Nothing is agreed at first.
LEMMA InitStages == Init => StageInv
<1> SUFFICES ASSUME Init PROVE StageInv
  OBVIOUS
<1>1. \A k \in MilestoneKeys : milestones[k].status = "NONE"
  BY DEF Init, NoMilestone
<1> QED BY <1>1, InitBooks DEF StageInv, Staged, Live

\* The invariant is inductive.
LEMMA StepStages == StageInv /\ [Next]_vars => StageInv'
<1> SUFFICES ASSUME StageInv, [Next]_vars PROVE StageInv'
  OBVIOUS
<1>1. BooksInv'
  BY StepBooks DEF StageInv
<1>2. ASSUME NEW k \in MilestoneKeys
      PROVE  Staged(k)'
  <2>1. CASE OrderStep
    BY <2>1, OrderStepStages
  <2>2. CASE MilestoneStep
    BY <2>2, MilestoneStepStages
  <2>3. CASE EpochStep \/ ConsentStep \/ Tick \/ UNCHANGED vars
    <3>1. UNCHANGED <<orders, milestones>>
      BY <2>3
      DEF EpochStep, InitializeEpoch, ExpireUninitializedEpoch, ReleaseFree, StartDraining,
          SweepAvailable, RepublishCheckpoint, ConsentStep, Consent, Tick, vars
    <3> QED BY <3>1, StagedKept DEF StageInv
  <2> QED BY <2>1, <2>2, <2>3 DEF Next
<1>3. MilestoneKeys' = MilestoneKeys
  BY DEF MilestoneKeys, MilestonesOf, MilestoneCount
<1> QED BY <1>1, <1>2, <1>3 DEF StageInv

\* A milestone waits for the acceptance of its order exactly while the order is not
\* agreed, and beside that the books agree (createOffer .. settleMutually).
THEOREM StageInvariant == Spec => []StageInv
  BY InitStages, StepStages, PTL DEF Spec

\* The record covers what any open milestones reserve, so no checked subtraction of a
\* settlement reverts.
LEMMA ReserveCovers ==
  ASSUME BooksInv, NEW U, U \subseteq Unsettled, IsFiniteSet(U)
  PROVE  Covers(epoch, Cardinality(U), ReserveOf(U))
<1>1. /\ Unsettled \in SUBSET MilestoneKeys /\ U \in SUBSET MilestoneKeys
      /\ IsFiniteSet(Unsettled) /\ IsFiniteSet(Unsettled \ U)
  BY FS_Difference DEF BooksInv, Unsettled
<1>2. /\ epoch.unresolved = ReserveOf(Unsettled)
      /\ epoch.unresolvedMilestones = Cardinality(Unsettled)
  BY DEF BooksInv, UnresolvedIsLiveReserve, ReserveOf
<1>3. Unsettled \ U \in SUBSET MilestoneKeys
  BY <1>1
<1>4. /\ ReserveOf(Unsettled) \in Nat /\ ReserveOf(U) \in Nat
      /\ ReserveOf(Unsettled \ U) \in Nat
      /\ Cardinality(Unsettled) \in Nat /\ Cardinality(U) \in Nat
      /\ Cardinality(Unsettled \ U) \in Nat
  BY <1>1, <1>3, ReserveMoves
<1>5. /\ ReserveOf(Unsettled \ U) = ReserveOf(Unsettled) - ReserveOf(U)
      /\ Cardinality(Unsettled \ U) = Cardinality(Unsettled) - Cardinality(U)
  BY <1>1, ReserveMoves
<1>6. ReserveOf(U) <= ReserveOf(Unsettled) /\ Cardinality(U) <= Cardinality(Unsettled)
  BY <1>4, <1>5
<1> QED BY <1>2, <1>6 DEF Covers

\* Nothing stops the settlement of an open milestone within its terms
\* (finalizeMilestone).
LEMMA OpenCanBeFinalized ==
  ASSUME BooksInv, NEW k \in Unsettled,
         NEW work \in 0 .. MTerms(k).work, NEW fee \in 0 .. MTerms(k).fee
  PROVE  MayFinalize(k, work, fee)
<1>1. k \in MilestoneKeys /\ LedgerInv
  BY DEF Unsettled, BooksInv
<1>2. MTerms(k).work \in Nat /\ MTerms(k).fee \in Nat
  BY <1>1, KeyFacts DEF MilestoneTerms
<1>3. Covers(epoch, 1, MReserve(k))
  <2>1. IsFiniteSet({k}) /\ Cardinality({k}) = 1 /\ ReserveOf({k}) = MReserve(k)
    BY <1>1, ReserveOfOne
  <2>2. Covers(epoch, Cardinality({k}), ReserveOf({k}))
    BY <2>1, ReserveCovers
  <2> QED BY <2>1, <2>2
<1>4. /\ Room(epoch, OutcomeLeaves(k, work, fee))
      /\ Asserted(Resolved(epoch, MReserve(k), work + fee, OutcomeLeaves(k, work, fee)))
  BY <1>1, <1>3, FitsFromInv DEF SettlementFits
<1> QED BY <1>2, <1>3, <1>4 DEF MayFinalize

\* An offer that is neither accepted nor declined is reserved as a whole, under the open
\* nonce it was made with (createOffer).
LEMMA PendingIsOpen ==
  ASSUME NonceInv, StageInv, NEW k \in Unsettled, milestones[k].status = "PENDING"
  PROVE  /\ k[1] \in Orders /\ orders[k[1]].exists /\ ~ orders[k[1]].agreed
         /\ nonceState[NonceOf(k[1])] = "OFFER"
         /\ \A j \in MilestonesOf(k[1]) : milestones[j].status = "PENDING"
<1>1. k \in MilestoneKeys /\ OnlyAdmitted /\ Staged(k)
  BY DEF Unsettled, StageInv, BooksInv, LedgerInv
<1>2. k[1] \in Orders /\ k \in MilestonesOf(k[1]) /\ orders[k[1]].exists
  BY <1>1, KeyFacts DEF OnlyAdmitted
<1>3. NonceOf(k[1]) \in WorkerNonces /\ k[1] \in OrdersUnder(NonceOf(k[1]))
  BY <1>2 DEF WorkerNonces, OrdersUnder
<1>4. NonceBinds(NonceOf(k[1]))
  BY <1>3 DEF NonceInv
<1>5. nonceState[NonceOf(k[1])] = "OFFER"
  BY <1>2, <1>3, <1>4 DEF NonceBinds
<1>6. \A j \in MilestonesOf(k[1]) : milestones[j].status = "PENDING"
  BY <1>3, <1>4, <1>5 DEF NonceBinds
<1> QED BY <1>1, <1>2, <1>5, <1>6 DEF Staged

\* Nothing stops the end of such an offer (_finalizePendingOrder).
LEMMA PendingCanBeFinalized ==
  ASSUME NonceInv, StageInv, NEW k \in Unsettled, milestones[k].status = "PENDING"
  PROVE  MayFinalizePending(k[1])
<1> DEFINE o == k[1]
           U == MilestonesOf(o)
<1>1. /\ o \in Orders /\ orders[o].exists /\ ~ orders[o].agreed
      /\ \A j \in U : milestones[j].status = "PENDING"
  BY PendingIsOpen
<1>2. BooksInv /\ EpochInv(epoch) /\ WellFormed(o)
  BY <1>1 DEF StageInv, BooksInv, LedgerInv, OnlyAdmitted
<1>3. /\ IsFiniteSet(U) /\ Cardinality(U) = MilestoneCount(o) /\ U \subseteq MilestoneKeys
      /\ OrderReserve(o) = ReserveOf(U)
      /\ MilestoneCount(o) \in Nat \ {0} /\ OrderReserve(o) \in Nat \ {0}
  BY <1>1, <1>2, OrderNumbers, WellFormedFacts DEF OrderReserve, ReserveOf
<1>4. U \subseteq Unsettled
  BY <1>1, <1>3 DEF Unsettled
<1>5. Covers(epoch, MilestoneCount(o), OrderReserve(o))
  <2>1. Covers(epoch, Cardinality(U), ReserveOf(U))
    BY <1>2, <1>3, <1>4, ReserveCovers
  <2> QED BY <1>3, <2>1
<1> DEFINE f == Restored(epoch, MilestoneCount(o), OrderReserve(o))
<1>6. EpochInv(f)
  BY <1>2, <1>3, <1>5, RestoredInv
<1>7. f.exists
  <2>1. epoch.exists
    BY <1>2, <1>3, <1>5, CoveredIsOpen
  <2>2. epoch \in EpochType
    BY <1>2 DEF EpochInv
  <2>3. f.exists = epoch.exists
    BY <2>2 DEF Restored, MaybeClose, EpochType
  <2> QED BY <2>1, <2>3
<1>8. Asserted(f)
  BY <1>6, <1>7, HeadroomFromInv DEF EpochInv, Asserted
<1> QED BY <1>1, <1>5, <1>8 DEF MayFinalizePending

\* The terms of an open milestone: what the committee's silence pays is within the work.
LEMMA OpenTerms ==
  ASSUME BooksInv, NEW k \in Unsettled
  PROVE  /\ k \in MilestoneKeys /\ k[1] \in Orders
         /\ MTerms(k) \in MilestoneTerms /\ MTerms(k).timeoutWork <= MTerms(k).work
         /\ Terms[k[1]].acceptBefore \in Nat /\ block \in Nat
         /\ milestones[k].status \in {"PENDING", "AGREED", "DELIVERED", "CHALLENGED"}
<1>1. /\ k \in MilestoneKeys /\ milestones[k].status \notin {"NONE", "FINAL"}
      /\ OnlyAdmitted /\ TypeOK
  BY DEF Unsettled, BooksInv, LedgerInv
<1>2. k[1] \in Orders /\ k \in MilestonesOf(k[1]) /\ MTerms(k) \in MilestoneTerms
  BY <1>1, KeyFacts
<1>3. MTerms(k).timeoutWork <= MTerms(k).work
  BY <1>1, <1>2 DEF OnlyAdmitted, WellFormed
<1>4. Terms[k[1]].acceptBefore \in Nat
  BY <1>2, TermsAssumption
<1>5. block \in Nat /\ milestones[k].status \in Statuses
  BY <1>1 DEF TypeOK, MilestoneType
<1> QED BY <1>1, <1>2, <1>3, <1>4, <1>5 DEF Statuses

\* From the deadline on the default can be executed.
LEMMA OverdueIsDefaultable ==
  ASSUME NonceInv, StageInv, NEW k \in Unsettled, block >= Deadline(k)
  PROVE  Defaultable(k)
<1>1. BooksInv /\ (Live(k) => orders[k[1]].agreed)
  BY DEF StageInv, Staged, Unsettled
<1>2. /\ MTerms(k) \in MilestoneTerms /\ MTerms(k).timeoutWork <= MTerms(k).work
      /\ milestones[k].status \in {"PENDING", "AGREED", "DELIVERED", "CHALLENGED"}
  BY <1>1, OpenTerms
<1>3. /\ 0 \in 0 .. MTerms(k).work /\ MTerms(k).work \in 0 .. MTerms(k).work
      /\ MTerms(k).timeoutWork \in 0 .. MTerms(k).work /\ 0 \in 0 .. MTerms(k).fee
  BY <1>2 DEF MilestoneTerms
<1>4. /\ MayFinalize(k, 0, 0) /\ MayFinalize(k, MTerms(k).work, 0)
      /\ MayFinalize(k, MTerms(k).timeoutWork, 0)
  BY <1>1, <1>3, OpenCanBeFinalized
<1>5. CASE milestones[k].status = "PENDING"
  BY <1>5, PendingIsOpen, PendingCanBeFinalized DEF Defaultable, Deadline, ExpiryDue
<1>6. CASE milestones[k].status = "AGREED"
  BY <1>1, <1>4, <1>6 DEF Defaultable, Deadline, NoDeliveryDue, Live
<1>7. CASE milestones[k].status = "DELIVERED"
  BY <1>4, <1>7 DEF Defaultable, Deadline, MonitoringDue
<1>8. CASE milestones[k].status = "CHALLENGED"
  BY <1>4, <1>8 DEF Defaultable, Deadline, TimeoutDue
<1> QED BY <1>2, <1>5, <1>6, <1>7, <1>8

\* Before it the decision can, and the default cannot.
LEMMA EarlyIsDecidable ==
  ASSUME NonceInv, StageInv, NEW k \in Unsettled, block < Deadline(k)
  PROVE  Decidable(k) /\ ~ Defaultable(k)
<1>1. BooksInv /\ Staged(k)
  BY DEF StageInv, Unsettled
<1>2. /\ MTerms(k) \in MilestoneTerms /\ Terms[k[1]].acceptBefore \in Nat /\ block \in Nat
      /\ milestones[k].status \in {"PENDING", "AGREED", "DELIVERED", "CHALLENGED"}
  BY <1>1, OpenTerms
<1>3. \A work \in 0 .. MTerms(k).work, fee \in 0 .. MTerms(k).fee : MayFinalize(k, work, fee)
  BY <1>1, OpenCanBeFinalized
<1>4. /\ MTerms(k).work \in 0 .. MTerms(k).work
      /\ 0 \in 0 .. MTerms(k).fee /\ MTerms(k).fee \in 0 .. MTerms(k).fee
  BY <1>2 DEF MilestoneTerms
<1>5. CASE milestones[k].status = "PENDING"
  <2>1. MayAccept(k[1])
    BY <1>5, PendingIsOpen DEF Deadline, MayAccept
  <2>2. ~ ExpiryDue(k[1])
    BY <1>2, <1>5 DEF Deadline, ExpiryDue
  <2> QED BY <1>5, <2>1, <2>2 DEF Decidable, Defaultable, NoDeliveryDue, MonitoringDue, TimeoutDue
<1>6. CASE milestones[k].status = "AGREED"
  <2>1. MayDeliver(k)
    BY <1>1, <1>6, BoundsAssumption DEF Deadline, MayDeliver, Staged, Live
  <2>2. ~ NoDeliveryDue(k)
    BY <1>2, <1>6 DEF Deadline, NoDeliveryDue, MilestoneTerms
  <2> QED BY <1>6, <2>1, <2>2 DEF Decidable, Defaultable, MonitoringDue, TimeoutDue
<1>7. CASE milestones[k].status = "DELIVERED"
  <2>1. InReview(k) /\ MayFinalize(k, MTerms(k).work, 0)
    BY <1>3, <1>4, <1>7 DEF Deadline, InReview
  <2>2. ~ MonitoringDue(k)
    BY <1>2, <1>7 DEF Deadline, MonitoringDue, MilestoneTerms
  <2> QED BY <1>7, <2>1, <2>2 DEF Decidable, Defaultable, NoDeliveryDue, TimeoutDue
<1>8. CASE milestones[k].status = "CHALLENGED"
  <2>1. InDispute(k) /\ \A work \in 0 .. MTerms(k).work : MayFinalize(k, work, MTerms(k).fee)
    BY <1>3, <1>4, <1>8 DEF Deadline, InDispute
  <2>2. ~ TimeoutDue(k)
    BY <1>2, <1>8 DEF Deadline, TimeoutDue, MilestoneTerms
  <2> QED BY <1>8, <2>1, <2>2 DEF Decidable, Defaultable, NoDeliveryDue, MonitoringDue
<1> QED BY <1>2, <1>5, <1>6, <1>7, <1>8

\* And from it on the decision cannot.
LEMMA OverdueIsUndecidable ==
  ASSUME StageInv, NEW k \in Unsettled, block >= Deadline(k)
  PROVE  ~ Decidable(k)
<1>1. /\ MTerms(k) \in MilestoneTerms /\ Terms[k[1]].acceptBefore \in Nat /\ block \in Nat
      /\ milestones[k].status \in {"PENDING", "AGREED", "DELIVERED", "CHALLENGED"}
  BY OpenTerms DEF StageInv
<1>2. CASE milestones[k].status = "PENDING"
  BY <1>1, <1>2 DEF Decidable, Deadline, MayAccept, InReview, InDispute
<1>3. CASE milestones[k].status = "AGREED"
  BY <1>1, <1>3 DEF Decidable, Deadline, MayDeliver, InReview, InDispute, MilestoneTerms
<1>4. CASE milestones[k].status = "DELIVERED"
  BY <1>1, <1>4 DEF Decidable, Deadline, InReview, InDispute, MilestoneTerms
<1>5. CASE milestones[k].status = "CHALLENGED"
  BY <1>1, <1>5 DEF Decidable, Deadline, InReview, InDispute, MilestoneTerms
<1> QED BY <1>1, <1>2, <1>3, <1>4, <1>5

\* Both invariants of the ledger hold in every state.
LEMMA StageAndNonce == Spec => [](NonceInv /\ StageInv)
  BY InitNonces, StepNonces, InitStages, StepStages, PTL DEF Spec

\* Whatever happened before, from the deadline on nothing in the ledger stops the
\* default of an open milestone: not the conservation or slot assertion, not the size of
\* the tree, not a checked subtraction (expirePendingOrder, finalizeNoDelivery,
\* finalizeMonitoringDefault, finalizeCommitteeTimeout).
THEOREM NobodyIsStranded == Spec => []NeverStranded
<1>1. NonceInv /\ StageInv => NeverStranded
  BY OverdueIsDefaultable DEF NeverStranded
<1> QED BY <1>1, StageAndNonce, PTL

\* In every block an open milestone is in exactly one of two hands, the party's or
\* anybody's, and in either nothing stops what may be done with it (acceptOffer ..
\* submitRulingVote against the four defaults).
THEOREM OneHandAtATime == Spec => []DecisionExcludesDefault
<1>1. ASSUME NonceInv, StageInv, NEW k \in Unsettled
      PROVE  Decidable(k) <=> ~ Defaultable(k)
  <2>1. block \in Nat /\ Deadline(k) \in Nat
    <3>1. /\ MTerms(k) \in MilestoneTerms /\ Terms[k[1]].acceptBefore \in Nat /\ block \in Nat
      BY <1>1, OpenTerms DEF StageInv
    <3> QED BY <3>1 DEF Deadline, MilestoneTerms
  <2>2. CASE block < Deadline(k)
    BY <1>1, <2>2, EarlyIsDecidable
  <2>3. CASE block >= Deadline(k)
    BY <1>1, <2>3, OverdueIsDefaultable, OverdueIsUndecidable
  <2> QED BY <2>1, <2>2, <2>3
<1>2. NonceInv /\ StageInv => DecisionExcludesDefault
  BY <1>1 DEF DecisionExcludesDefault
<1> QED BY <1>2, StageAndNonce, PTL
=============================================================================
