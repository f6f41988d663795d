--------------------------- MODULE TreasurySafety ---------------------------
(* What the target ledger promises. *)
EXTENDS WorkTreasury

AmountsOf(S) == SumFunction([a \in S |-> a.amount])

\* The ledger as it is, and as a revert would restore it.
Ledgers == IF call = NoCall THEN {ledger} ELSE {ledger, call.undo}

LedgerType ==
    [balance : Nat, forced : Nat,
     freeBalance : [Accounts -> Nat],
     funded : SUBSET Epochs,
     reserve : [Epochs -> Nat],
     recognized : [Epochs -> Nat],
     rights : SUBSET Allocations,
     paidTo : [EconomicIds -> Accounts \cup {None}],
     sent : [EconomicIds -> Nat],
     authenticated : SUBSET Attested,
     checkpoints : SUBSET LogIds,
     latest : [Epochs -> LogIds \cup {None}],
     totalCredited : Nat, totalFree : Nat, totalReserve : Nat, totalClaim : Nat,
     withdrawals : Nat]

\* Type invariant.
TypeOK ==
    /\ \A L \in Ledgers : L \in LedgerType
    /\ call # NoCall => call.to \in Contracts

\* Ether that arrived and left; due is what is about to leave.
Accounted(L, due) ==
    /\ L.balance + L.withdrawals = L.totalCredited + L.forced + due
    /\ L.totalCredited = Liabilities(L) + L.withdrawals

\* The treasury holds at least what it owes, at every moment of a transaction
\* and inside every external call: its ether is what was credited and forced
\* in less what was withdrawn, and what was credited and not withdrawn is
\* exactly owed (liveLiabilities, forcedSurplus).
Solvent == \A L \in Ledgers : Accounted(L, 0) /\ L.balance >= Liabilities(L)

TotalsMatch(L) ==
    /\ L.totalFree = SumFunction(L.freeBalance)
    /\ L.totalReserve = SumFunction(L.reserve)
    /\ L.totalClaim = AmountsOf(OpenClaims(L))

\* The three running totals are the sums of the accounts they summarize, so
\* that no account is paid out of another (totalFreeLiability,
\* totalReserveLiability, totalClaimLiability).
TotalsMatchAccounts == \A L \in Ledgers : TotalsMatch(L)

RightsOf(L, e) == {a \in L.rights : a.epoch = e}

WithinCap(L, e) ==
    /\ L.reserve[e] + L.recognized[e] = IF e \in L.funded THEN Config[e].cap ELSE 0
    /\ L.recognized[e] = AmountsOf(RightsOf(L, e))

\* A funded epoch's cap is its reserve plus what was recognized, each right
\* counted once whichever of the four routes recognized it, and an unfunded
\* epoch has neither (_recognize).
EpochWithinCap == \A L \in Ledgers : \A e \in Epochs : WithinCap(L, e)

SentAsMarked(L) ==
    /\ \A a \in Claims(L) :
          L.sent[EconomicId(a)] = IF L.paidTo[EconomicId(a)] = None THEN 0 ELSE a.amount
    /\ \A id \in EconomicIds : L.sent[id] # 0 => \E a \in Claims(L) : EconomicId(a) = id

\* The ether that left for a claim is its amount if it is marked withdrawn
\* and nothing if it is not, in the middle of a call too (_completeClaim).
PaidOnce == \A L \in Ledgers : SentAsMarked(L)

\* The log shows the allocation, itself or under a checkpoint's root.
Shows(id, a) ==
    \/ LogOf(id).type = "ALLOCATION" /\ LogOf(id).allocation = a
    \/ LogOf(id).type = "CHECKPOINT" /\ InCheckpoint(a, LogOf(id).checkpoint)

\* The coordinator's log, in a successful transaction that was authenticated.
Genuine(L, id) ==
    /\ id[1] \in L.authenticated \cap Attested
    /\ Source[id[1]].status = 1
    /\ LogOf(id).emitter = SourceCoordinator

RightsBacked(L) == \A a \in L.rights : \E id \in LogIds : Genuine(L, id) /\ Shows(id, a)
RightsDistinct(L) == \A a, b \in L.rights : EconomicId(a) = EconomicId(b) => a = b

\* Every recognized right is one the pinned coordinator created on the source
\* chain, in a successful transaction that the verifier attested, either as
\* its event or under the root of a checkpoint it published; no two rights
\* share an economic id (_selectAuthenticatedLog, _recognizeFromCheckpoint).
EvidenceBacked == \A L \in Ledgers : RightsBacked(L) /\ RightsDistinct(L)

\* The order of two logs on the source chain.
Before(p, q) ==
    LET s == Source[p[1]]
        t == Source[q[1]]
    IN  \/ s.block < t.block
        \/ s.block = t.block /\ s.index < t.index
        \/ p[1] = q[1] /\ p[2] < q[2]

StoredFor(L, e) == {id \in L.checkpoints : LogOf(id).checkpoint.epoch = e}

Newest(L, e) ==
    IF StoredFor(L, e) = {} THEN L.latest[e] = None
    ELSE /\ L.latest[e] \in StoredFor(L, e)
         /\ \A id \in StoredFor(L, e) \ {L.latest[e]} : Before(id, L.latest[e])

\* Whatever the order of imports, latestCheckpointId names the stored
\* checkpoint of the epoch that is last on the source chain (_storeCheckpoint).
LatestIsNewest == \A L \in Ledgers : \A e \in Epochs : Newest(L, e)

\* What ledger L holds is still in M.
GrewInto(L, M) ==
    /\ L.authenticated \subseteq M.authenticated
    /\ L.checkpoints \subseteq M.checkpoints
    /\ L.funded \subseteq M.funded
    /\ L.rights \subseteq M.rights
    /\ \A id \in EconomicIds : L.paidTo[id] # None => M.paidTo[id] = L.paidTo[id]
    /\ \A e \in Epochs : L.latest[e] # None =>
          M.latest[e] = L.latest[e] \/ IsLater(M.latest[e], L.latest[e])

\* What a finished transaction wrote is never taken back: evidence, funding,
\* rights and the destination a claim was paid to only accumulate, and the
\* latest checkpoint never goes back on the source chain, whatever reverts
\* later inside an external call.
CommittedOnlyGrows == [][GrewInto(Committed, Committed')]_vars

-----------------------------------------------------------------------------
(* The inductive invariant *)

CheckpointsGenuine(L) ==
    \A id \in L.checkpoints : Genuine(L, id) /\ LogOf(id).type = "CHECKPOINT"
OnlyClaimsPaid(L) ==
    \A id \in EconomicIds : L.paidTo[id] # None => \E a \in Claims(L) : EconomicId(a) = id

\* What one ledger's history of evidence and payments satisfies.
History(L) ==
    /\ RightsBacked(L) /\ RightsDistinct(L) /\ CheckpointsGenuine(L)
    /\ SentAsMarked(L) /\ OnlyClaimsPaid(L)
    /\ \A e \in Epochs : Newest(L, e)

\* What one ledger's accounts add up to.
Balanced(L) ==
    /\ IsFiniteSet(L.rights)
    /\ TotalsMatch(L)
    /\ \A e \in Epochs : WithinCap(L, e)

Sound(L, due) == L \in LedgerType /\ Accounted(L, due) /\ History(L) /\ Balanced(L)

\* Both the ledger and the one that a revert would restore are sound, and the
\* call in between only added to it.
TreasuryInv ==
    /\ \A L \in Ledgers : Sound(L, 0)
    /\ call # NoCall => call.to \in Contracts /\ GrewInto(call.undo, ledger)

-----------------------------------------------------------------------------
(* Liveness *)

\* The allocations the coordinator announced in attested receipts, and the
\* claims among them whose destination cannot reject ether.
Announced ==
    {LogOf(id).allocation : id \in {i \in LogIds : /\ i[1] \in Attested
                                                  /\ Source[i[1]].status = 1
                                                  /\ LogOf(i).emitter = SourceCoordinator
                                                  /\ LogOf(i).type = "ALLOCATION"}}
Deliverable == {a \in Announced : IsClaim(a) /\ a.destination \notin Contracts}

\* Every allocation the coordinator announced for a funded epoch becomes a
\* right, and a claim whose destination cannot reject ether is paid, whoever
\* else withdraws, reenters or reverts meanwhile (withdrawFor).
FundedWorkIsPaid ==
    /\ \A a \in Announced : a.epoch \in Committed.funded ~> a \in Committed.rights
    /\ \A a \in Deliverable :
          a.epoch \in Committed.funded ~> Committed.paidTo[EconomicId(a)] # None
=============================================================================
