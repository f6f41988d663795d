-------------------------- MODULE PaidInvoiceBook --------------------------
(***************************************************************************)
(* A contract that reads the treasury and records completed WORK payments  *)
(* (PaidInvoiceBook.sol), beside the treasury.  It takes no part in the    *)
(* treasury's guard: a receiver can have a payment recorded while the      *)
(* withdrawal that makes it is still waiting for that receiver.            *)
(***************************************************************************)
EXTENDS TreasurySafety

CONSTANT ExpectedOrder, ExpectedBuyer, ExpectedPolicy

VARIABLES
    invoices,       \* _invoices: the destination and amount recorded per id
    savedInvoices   \* what a revert of the open call restores

bookVars == <<ledger, call, invoices, savedInvoices>>

NoInvoice == [paidDestination |-> None, amount |-> 0]

BookInit ==
    /\ Init
    /\ invoices = [id \in EconomicIds |-> NoInvoice]
    /\ savedInvoices = invoices

\* Mutant (InvoicesArePayments): a pending claim is recorded as paid.
RecordPendingWork(a) ==
    /\ invoices[EconomicId(a)] = NoInvoice
    /\ a \in ledger.rights /\ a.kind = "WORK"
    /\ invoices' = [invoices EXCEPT ![EconomicId(a)] =
                       [paidDestination |-> a.destination, amount |-> a.amount]]
    /\ savedInvoices' = IF call = NoCall THEN invoices' ELSE savedInvoices
    /\ UNCHANGED <<ledger, call>>

RecordPaidWork(a) ==
    /\ invoices[EconomicId(a)] = NoInvoice
    /\ a \in ledger.rights /\ a.kind = "WORK"
    /\ ledger.paidTo[EconomicId(a)] # None
    /\ Config[a.epoch].buyer = ExpectedBuyer
    /\ a.order = ExpectedOrder
    /\ a.policy = ExpectedPolicy
    /\ invoices' = [invoices EXCEPT ![EconomicId(a)] =
                       [paidDestination |-> ledger.paidTo[EconomicId(a)], amount |-> a.amount]]
    /\ savedInvoices' = IF call = NoCall THEN invoices' ELSE savedInvoices
    /\ UNCHANGED <<ledger, call>>

\* Transactions of the treasury leave the invoices alone, a reverted one too:
\* it takes the invoices recorded inside it back.
Treasurys ==
    \/ /\ Deposits \/ FundsEpoch \/ Authenticates \/ Imports \/ Recognizes \/ ForceEther
       /\ UNCHANGED <<invoices, savedInvoices>>
    \/ Withdraws /\ savedInvoices' = invoices /\ UNCHANGED invoices
    \/ CallReturns /\ savedInvoices' = invoices /\ UNCHANGED invoices
    \/ CallReverts /\ invoices' = savedInvoices /\ UNCHANGED savedInvoices

BookNext == Treasurys \/ \E a \in ledger.rights : RecordPaidWork(a)

BookSpec == BookInit /\ [][BookNext]_bookVars

\* The records show payments of ledger L, for work of the expected program.
Agree(records, L) ==
    \A id \in EconomicIds : records[id] # NoInvoice =>
        /\ L.paidTo[id] = records[id].paidDestination
        /\ L.paidTo[id] # None
        /\ L.sent[id] = records[id].amount
        /\ \E a \in L.rights : /\ EconomicId(a) = id
                               /\ a.kind = "WORK"
                               /\ a.order = ExpectedOrder
                               /\ Config[a.epoch].buyer = ExpectedBuyer

\* An invoice shows a payment that was made, to the receiver it was made to:
\* at every moment the live records agree with the live ledger, and those a
\* revert would restore agree with the ledger it would restore
\* (recordPaidWork reads completedClaim, which a withdrawal sets before its
\* transfer can still fail).
InvoicesArePayments == Agree(invoices, ledger) /\ Agree(savedInvoices, Committed)
=============================================================================
