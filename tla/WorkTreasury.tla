---------------------------- MODULE WorkTreasury ----------------------------
(***************************************************************************)
(* The Creditcoin target ledger (WorkTreasury.sol on NativeReceiptAuth.sol): *)
(* it holds the ether, reserves each funded epoch's cap, and turns evidence *)
(* of the source chain into claims and free balances that are paid once.   *)
(*                                                                         *)
(* A transaction is one step unless it calls a contract: withdrawals hand  *)
(* control to the receiver before they return.  While such a call is open  *)
(* the functions without nonReentrant may run inside it, and if it reverts *)
(* the ledger goes back to what it was before the withdrawal.              *)
(*                                                                         *)
(* An epoch id is the hash of its configuration and an encoded transaction *)
(* has one position on the source chain, so both are constant functions of *)
(* the id.  A checkpoint's root commits to the sequence of allocations it  *)
(* was computed from (module AllocationTree), so that sequence stands for  *)
(* the root and membership for an accepted witness.                        *)
(***************************************************************************)
EXTENDS Naturals, Sequences, FiniteSets, Functions

CONSTANTS
    Accounts,           \* addresses, the treasury's own included
    Treasury,
    Contracts,          \* the other addresses with code that can call back
    SourceCoordinator,  \* the pinned emitter
    Pinned,             \* the pinned chains, chain key and contracts
    Epochs,
    Config,             \* Config[e]: the EpochConfig that e is the hash of
    Transactions,       \* encoded source transactions anyone can present
    Source,             \* Source[t]: position, receipt status and logs of t
    Attested,           \* those for which the native verifier accepts a proof
    TreeCapacity,
    MaxBatch,           \* MAX_AUTHENTICATION_BATCH
    DepositAmounts,
    MaxCredited,        \* bound: ether ever credited
    MaxForced           \* bound: ether forced in without a call

None == "none"

ASSUME AddressAssumption ==
    /\ Treasury \in Accounts /\ Contracts \subseteq Accounts \ {Treasury}
    /\ None \notin Accounts
\* Addresses have 160 bits and epoch ids 256.
ASSUME FiniteAssumption == IsFiniteSet(Accounts) /\ IsFiniteSet(Epochs)
ASSUME EvidenceAssumption == Attested \subseteq Transactions
ASSUME AmountAssumption ==
    /\ DepositAmounts \subseteq Nat \ {0}
    /\ MaxCredited \in Nat /\ MaxForced \in Nat
    /\ \A e \in Epochs : Config[e].cap \in Nat /\ Config[e].sponsor \in Accounts

\* A transaction has one position on its chain, and a position one transaction.
ASSUME PositionAssumption ==
    /\ \A t \in Transactions : Source[t].block \in Nat /\ Source[t].index \in Nat
    /\ \A s, t \in Attested :
          Source[s].block = Source[t].block /\ Source[s].index = Source[t].index => s = t

VARIABLES
    ledger,  \* the storage of the treasury and its ether
    call     \* the receiver a withdrawal is waiting for, if any

vars == <<ledger, call>>

NoCall == [to |-> None]

\* A log is selected by its transaction and its ordinal in the receipt.
LogIds == UNION {{t} \X (1 .. Len(Source[t].logs)) : t \in Transactions}
LogOf(id) == Source[id[1]].logs[id[2]]

EconomicId(a) == <<a.epoch, a.id>>

\* Every allocation some log or checkpoint shows, genuine or not.
Allocations ==
    {LogOf(id).allocation : id \in {i \in LogIds : LogOf(i).type = "ALLOCATION"}}
    \cup UNION {{LogOf(id).checkpoint.root[n] : n \in 1 .. Len(LogOf(id).checkpoint.root)} :
                   id \in {i \in LogIds : LogOf(i).type = "CHECKPOINT"}}

EconomicIds == {EconomicId(a) : a \in Allocations}

\* The types that decoding an event enforces.
ASSUME AllocationAssumption ==
    /\ None \notin LogIds
    /\ \A a \in Allocations :
          a.amount \in Nat /\ a.owner \in Accounts /\ a.destination \in Accounts

-----------------------------------------------------------------------------
(* Storage *)

EmptyLedger ==
    [balance |-> 0, forced |-> 0,
     freeBalance |-> [x \in Accounts |-> 0],
     funded |-> {},
     reserve |-> [e \in Epochs |-> 0],
     recognized |-> [e \in Epochs |-> 0],
     rights |-> {},                               \* _recognizedAllocations
     paidTo |-> [id \in EconomicIds |-> None],    \* withdrawn, paidDestination
     sent |-> [id \in EconomicIds |-> 0],         \* history: ether sent per claim
     authenticated |-> {},
     checkpoints |-> {},
     latest |-> [e \in Epochs |-> None],
     totalCredited |-> 0, totalFree |-> 0, totalReserve |-> 0, totalClaim |-> 0,
     withdrawals |-> 0]

Liabilities(L) == L.totalFree + L.totalReserve + L.totalClaim

IsClaim(a) == a.kind \in {"WORK", "FEE"}
Claims(L) == {a \in L.rights : IsClaim(a)}
OpenClaims(L) == {a \in Claims(L) : L.paidTo[EconomicId(a)] = None}

\* The ledger's last state that no revert can take back.
Committed == IF call = NoCall THEN ledger ELSE call.undo

Init == ledger = EmptyLedger /\ call = NoCall

-----------------------------------------------------------------------------
(* Effects on the ledger, and what they require *)

\* _creditDeposit; the ether itself arrives with the call.
Credited(L, owner, amount) ==
    [L EXCEPT !.freeBalance[owner] = @ + amount,
              !.totalCredited = @ + amount,
              !.totalFree = @ + amount]

Received(L, owner, amount) ==
    [Credited(L, owner, amount) EXCEPT !.balance = @ + amount]

\* Mutant (Solvent): the reserved cap is also left free.
FundedTwice(L, e) ==
    [L EXCEPT !.funded = @ \cup {e},
              !.reserve[e] = Config[e].cap,
              !.freeBalance[Config[e].sponsor] = @ - Config[e].cap,
              !.totalReserve = @ + Config[e].cap]

Funded(L, e) ==
    [L EXCEPT !.funded = @ \cup {e},
              !.reserve[e] = Config[e].cap,
              !.freeBalance[Config[e].sponsor] = @ - Config[e].cap,
              !.totalFree = @ - Config[e].cap,
              !.totalReserve = @ + Config[e].cap]

\* _storeAuthentication for each transaction of a verified batch.
Authenticated(L, ts) == [L EXCEPT !.authenticated = @ \cup ts]

\* Mutant (EvidenceBacked): whoever emitted the log.
SelectsAnyEmitter(L, id) ==
    /\ id[1] \in L.authenticated
    /\ Source[id[1]].status = 1

\* _selectAuthenticatedLog
Selects(L, id) ==
    /\ id[1] \in L.authenticated
    /\ Source[id[1]].status = 1
    /\ LogOf(id).emitter = SourceCoordinator

\* Mutant (LatestIsNewest): two checkpoints of one transaction are not ordered.
IsLaterTransaction(id, prior) ==
    LET p == Source[id[1]]
        q == Source[prior[1]]
    IN  p.block > q.block \/ (p.block = q.block /\ p.index > q.index)

\* _isLater: later on the source chain, not later imported.
IsLater(id, prior) ==
    LET p == Source[id[1]]
        q == Source[prior[1]]
    IN  \/ p.block > q.block
        \/ p.block = q.block /\ p.index > q.index
        \/ p.block = q.block /\ p.index = q.index /\ id[2] > prior[2]

\* What _storeCheckpoint requires of the decoded event.
Storable(L, id) ==
    /\ LogOf(id).type = "CHECKPOINT"
    /\ LET c == LogOf(id).checkpoint
       IN  /\ c.epoch \in L.funded
           /\ c.leafCount <= TreeCapacity
           /\ c.earned + c.returned <= Config[c.epoch].cap
           /\ c.phase \in {"ACTIVE", "DRAINING", "CLOSED"}
           /\ c.phase = "CLOSED" => c.earned + c.returned = Config[c.epoch].cap

\* Mutant (CommittedOnlyGrows): the checkpoint imported last becomes the latest.
StoredLast(L, id) ==
    LET e == LogOf(id).checkpoint.epoch
    IN  [L EXCEPT !.checkpoints = @ \cup {id}, !.latest[e] = id]

\* A checkpoint is stored under its log; storing it again changes nothing.
Stored(L, id) ==
    LET e == LogOf(id).checkpoint.epoch
    IN  IF id \in L.checkpoints THEN L
        ELSE [L EXCEPT !.checkpoints = @ \cup {id},
                       !.latest[e] = IF @ = None \/ IsLater(id, @) THEN id ELSE @]

\* AllocationTree.verify accepts exactly the allocations under the root.
InCheckpoint(a, c) ==
    /\ a.epoch = c.epoch
    /\ a.index < c.leafCount
    /\ \E n \in 1 .. Len(c.root) : n = a.index + 1 /\ c.root[n] = a

\* The shape of a canonical allocation of a funded epoch.
Canonical(a) ==
    /\ a.id = a.index + 1
    /\ a.index < TreeCapacity
    /\ a.policy = Config[a.epoch].policy
    /\ a.amount # 0
    /\ \/ a.kind = "WORK" /\ a.role = 1 /\ a.order # None
       \/ a.kind = "FEE" /\ a.role = 2 /\ a.order # None
       \/ /\ a.kind = "RETURN" /\ a.role = 0 /\ a.order = None
          /\ a.owner = Config[a.epoch].refundBeneficiary
          /\ a.destination = Config[a.epoch].refundBeneficiary

\* Mutant (EpochWithinCap): a right may be recognized again by another route.
RecognizableAgain(L, a) ==
    /\ a.epoch \in L.funded
    /\ Canonical(a)
    /\ L.recognized[a.epoch] + a.amount <= Config[a.epoch].cap

\* What _recognize requires.
Recognizable(L, a) ==
    /\ a.epoch \in L.funded
    /\ Canonical(a)
    /\ \A right \in L.rights : EconomicId(right) # EconomicId(a)
    /\ L.recognized[a.epoch] + a.amount <= Config[a.epoch].cap

\* Mutant (TotalsMatchAccounts): a return is owed as a claim and as free balance.
RecognizedAsClaim(L, a) ==
    LET M == [L EXCEPT !.rights = @ \cup {a},
                       !.recognized[a.epoch] = @ + a.amount,
                       !.reserve[a.epoch] = @ - a.amount,
                       !.totalReserve = @ - a.amount,
                       !.totalClaim = @ + a.amount]
    IN  IF IsClaim(a) THEN M ELSE [M EXCEPT !.freeBalance[a.owner] = @ + a.amount]

\* A claim becomes payable; a return becomes free balance.
Recognized(L, a) ==
    LET M == [L EXCEPT !.rights = @ \cup {a},
                       !.recognized[a.epoch] = @ + a.amount,
                       !.reserve[a.epoch] = @ - a.amount,
                       !.totalReserve = @ - a.amount]
    IN  IF IsClaim(a) THEN [M EXCEPT !.totalClaim = @ + a.amount]
        ELSE [M EXCEPT !.freeBalance[a.owner] = @ + a.amount,
                       !.totalFree = @ + a.amount]

\* Mutant (PaidOnce): a claim is not looked up as withdrawn.
OpenIfRecognized(L, a) == a \in Claims(L) /\ a.amount <= L.totalClaim

\* _openClaim, and the checked subtraction of _completeClaim.
Open(L, a) == a \in OpenClaims(L) /\ a.amount <= L.totalClaim

\* _completeClaim up to its transfer.
Completed(L, a, destination) ==
    [L EXCEPT !.paidTo[EconomicId(a)] = destination,
              !.sent[EconomicId(a)] = @ + a.amount,
              !.totalClaim = @ - a.amount,
              !.withdrawals = @ + a.amount]

\* _withdrawFree up to its transfer.
Debited(L, owner, amount) ==
    [L EXCEPT !.freeBalance[owner] = @ - amount,
              !.totalFree = @ - amount,
              !.withdrawals = @ + amount]

-----------------------------------------------------------------------------
(* Transactions *)

\* nonReentrant: no withdrawal is waiting for its receiver.
NonReentrant == call = NoCall

Becomes(L) == ledger' = L /\ UNCHANGED call

\* Mutant (FundedWorkIsPaid): the treasury must keep something back.
TransferLeavingSome(L, to, amount) ==
    /\ amount < L.balance
    /\ ledger' = [L EXCEPT !.balance = @ - amount]
    /\ call' = IF to \in Contracts THEN [to |-> to, undo |-> ledger] ELSE NoCall

\* Send ether out of L.  The treasury's own receive credits the treasury.
Transfer(L, to, amount) ==
    /\ amount <= L.balance
    /\ to = Treasury => L.totalCredited + amount <= MaxCredited
    /\ ledger' = IF to = Treasury THEN Credited(L, Treasury, amount)
                 ELSE [L EXCEPT !.balance = @ - amount]
    /\ call' = IF to \in Contracts THEN [to |-> to, undo |-> ledger] ELSE NoCall

\* deposit and receive.  Inside a call only contracts can be the sender.
Deposit(owner, amount) ==
    /\ call = NoCall \/ owner \in Contracts
    /\ owner # Treasury
    /\ ledger.totalCredited + amount <= MaxCredited
    /\ Becomes(Received(ledger, owner, amount))

\* fundEpoch with this value; with none it is fundEpochFromFree.
FundEpoch(e, amount) ==
    LET sponsor == Config[e].sponsor
        L == IF amount = 0 THEN ledger ELSE Received(ledger, sponsor, amount)
    IN  /\ NonReentrant
        /\ Config[e].pinned = Pinned
        /\ e \notin ledger.funded
        /\ L.totalCredited <= MaxCredited
        /\ Config[e].cap <= L.freeBalance[sponsor]
        /\ Config[e].cap <= L.totalFree
        /\ Becomes(Funded(L, e))

\* authenticateTransaction, authenticateBatch and authenticateSegmented: one
\* rejected proof rejects them all.
Authenticate(ts) ==
    /\ ts # {} /\ Cardinality(ts) <= MaxBatch
    /\ ts \subseteq Attested
    /\ Becomes(Authenticated(ledger, ts))

StoreFrom(L, id) ==
    /\ Selects(L, id)
    /\ Storable(L, id)
    /\ Becomes(Stored(L, id))

ImportCheckpoint(id) == StoreFrom(ledger, id)

AuthenticateCheckpoint(id) ==
    /\ id[1] \in Attested
    /\ StoreFrom(Authenticated(ledger, {id[1]}), id)

RecognizeIn(L, a) ==
    /\ Recognizable(L, a)
    /\ a.amount <= L.reserve[a.epoch] /\ a.amount <= L.totalReserve
    /\ Becomes(Recognized(L, a))

RecognizeFromCheckpoint(id, a) ==
    /\ id \in ledger.checkpoints
    /\ InCheckpoint(a, LogOf(id).checkpoint)
    /\ RecognizeIn(ledger, a)

AuthenticateAndRecognizeCheckpoint(id, a) ==
    LET L == Authenticated(ledger, {id[1]})
    IN  /\ id[1] \in Attested
        /\ Selects(L, id)
        /\ Storable(L, id)
        /\ InCheckpoint(a, LogOf(id).checkpoint)
        /\ RecognizeIn(Stored(L, id), a)

RecognizeSelected(L, id) ==
    /\ Selects(L, id)
    /\ LogOf(id).type = "ALLOCATION"
    /\ RecognizeIn(L, LogOf(id).allocation)

RecognizeFromReceipt(id) == RecognizeSelected(ledger, id)

AuthenticateAndRecognizeReceipt(id) ==
    /\ id[1] \in Attested
    /\ RecognizeSelected(Authenticated(ledger, {id[1]}), id)

WithdrawFor(a) ==
    /\ NonReentrant
    /\ Open(ledger, a)
    /\ Transfer(Completed(ledger, a, a.destination), a.destination, a.amount)

\* The claim's owner, who is never the treasury itself, redirects the payment.
OwnerWithdrawTo(a, destination) ==
    /\ NonReentrant
    /\ a.owner # Treasury
    /\ Open(ledger, a)
    /\ Transfer(Completed(ledger, a, destination), destination, a.amount)

WithdrawFree(owner, destination, amount) ==
    /\ NonReentrant
    /\ amount <= ledger.freeBalance[owner]
    /\ amount <= ledger.totalFree
    /\ Transfer(Debited(ledger, owner, amount), destination, amount)

WithdrawFreeFor(owner, amount) == WithdrawFree(owner, owner, amount)

\* The treasury never calls itself to withdraw.
OwnerWithdrawFreeTo(owner, destination, amount) ==
    /\ owner # Treasury
    /\ WithdrawFree(owner, destination, amount)

\* The receiver returns, and with it the withdrawal.
CallReturns == call # NoCall /\ call' = NoCall /\ UNCHANGED ledger

\* The receiver reverts: so does the withdrawal, and all that ran inside it.
CallReverts == call # NoCall /\ call' = NoCall /\ ledger' = call.undo

\* Ether that arrives without a call, as the target of a selfdestruct.
ForceEther ==
    /\ ledger.forced < MaxForced
    /\ Becomes([ledger EXCEPT !.balance = @ + 1, !.forced = @ + 1])

Deposits == \E owner \in Accounts, amount \in DepositAmounts : Deposit(owner, amount)

FundsEpoch == \E e \in Epochs, amount \in DepositAmounts \cup {0} : FundEpoch(e, amount)

Authenticates == \E ts \in SUBSET Transactions : Authenticate(ts)

Imports == \E id \in LogIds : ImportCheckpoint(id) \/ AuthenticateCheckpoint(id)

Recognizes ==
    \/ \E id \in LogIds, a \in Allocations :
          RecognizeFromCheckpoint(id, a) \/ AuthenticateAndRecognizeCheckpoint(id, a)
    \/ \E id \in LogIds : RecognizeFromReceipt(id) \/ AuthenticateAndRecognizeReceipt(id)

Withdraws ==
    \/ \E a \in ledger.rights : WithdrawFor(a)
    \/ \E a \in ledger.rights, destination \in Accounts : OwnerWithdrawTo(a, destination)
    \/ \E owner \in Accounts, amount \in DepositAmounts : WithdrawFreeFor(owner, amount)
    \/ \E owner, destination \in Accounts, amount \in DepositAmounts :
          OwnerWithdrawFreeTo(owner, destination, amount)

Next == Deposits \/ FundsEpoch \/ Authenticates \/ Imports \/ Recognizes \/ Withdraws
        \/ CallReturns \/ CallReverts \/ ForceEther

Spec == Init /\ [][Next]_vars

\* A call ends within its transaction.  Anyone can submit evidence and pay a
\* claim in transactions of their own, and somebody keeps doing so.
Fairness ==
    /\ WF_vars(CallReturns \/ CallReverts)
    /\ \A id \in LogIds : SF_vars(call = NoCall /\ AuthenticateAndRecognizeReceipt(id))
    /\ \A a \in Allocations : SF_vars(WithdrawFor(a))

FairSpec == Spec /\ Fairness
=============================================================================
