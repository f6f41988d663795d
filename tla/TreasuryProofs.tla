--------------------------- MODULE TreasuryProofs ---------------------------
(***************************************************************************)
(* The target ledger, for every source history, set of accounts and bound: *)
(* it stays solvent, pays a claim once, rests on attested evidence, knows  *)
(* the newest checkpoint, and loses nothing that was committed.            *)
(*                                                                         *)
(* A transaction composes a few effects on the ledger.  The first part     *)
(* shows that each effect keeps a ledger sound and adds to it; the second  *)
(* that transactions, and calls that revert, do nothing else.              *)
(*                                                                         *)
(* The invoice book is read by nobody inside the treasury, so its steps    *)
(* are steps of the treasury or leave it alone; what an invoice rests on   *)
(* is kept because the treasury's ledger only grows, and goes with it on   *)
(* a revert.                                                               *)
(***************************************************************************)
EXTENDS PaidInvoiceBook, SumTheorems

-----------------------------------------------------------------------------
(* Logs *)

\* A log id is a transaction and an ordinal (NativeReceiptAuth, log selection).
LEMMA LogIdIsTyped ==
    ASSUME NEW id \in LogIds
    PROVE  id[1] \in Transactions /\ id[2] \in Nat /\ id = <<id[1], id[2]>> /\ id # None
<1>1. PICK t \in Transactions : id \in {t} \X (1 .. Len(Source[t].logs))
  BY DEF LogIds
<1> QED
  BY <1>1, AllocationAssumption

\* Of two logs of attested transactions one is later than the other (_isLater).
LEMMA LaterIsTotal ==
    ASSUME NEW p \in LogIds, NEW q \in LogIds, p # q,
           p[1] \in Attested, q[1] \in Attested, ~ IsLater(p, q)
    PROVE  Before(p, q)
<1>1. /\ p[1] \in Transactions /\ p[2] \in Nat /\ p = <<p[1], p[2]>>
      /\ q[1] \in Transactions /\ q[2] \in Nat /\ q = <<q[1], q[2]>>
  BY LogIdIsTyped
<1>2. p[1] = q[1] => p[2] # q[2]
  BY <1>1
<1> QED
  BY <1>1, <1>2, PositionAssumption DEF IsLater, Before

\* A log that is later than another one has the other before it (_isLater).
LEMMA LaterIsAfter ==
    ASSUME NEW p \in LogIds, NEW q \in LogIds,
           p[1] \in Attested, q[1] \in Attested, IsLater(p, q)
    PROVE  Before(q, p)
  BY LogIdIsTyped, PositionAssumption DEF IsLater, Before

\* The order of logs is transitive (_isLater).
LEMMA BeforeIsTransitive ==
    ASSUME NEW p \in LogIds, NEW q \in LogIds, NEW r \in LogIds,
           Before(p, q), Before(q, r)
    PROVE  Before(p, r)
  BY LogIdIsTyped, PositionAssumption DEF Before

\* So is being later (_isLater).
LEMMA LaterIsTransitive ==
    ASSUME NEW p \in LogIds, NEW q \in LogIds, NEW r \in LogIds,
           IsLater(q, p), IsLater(r, q)
    PROVE  IsLater(r, p)
  BY LogIdIsTyped, PositionAssumption DEF IsLater

-----------------------------------------------------------------------------
(* Effects on the accounts *)

\* One account changes: the total changes by as much.
LEMMA AccountMoves ==
    ASSUME NEW S, IsFiniteSet(S), NEW f \in [S -> Nat], NEW x \in S, NEW v \in Nat,
           NEW g, g = [f EXCEPT ![x] = v]
    PROVE  /\ SumFunction(f) \in Nat
           /\ f[x] <= SumFunction(f)
           /\ SumFunction(g) = SumFunction(f) - f[x] + v
<1>1. DOMAIN f = S /\ DOMAIN g = S /\ g[x] = v /\ \A y \in S \ {x} : f[y] = g[y]
  OBVIOUS
<1>2. \A y \in S : f[y] \in Nat /\ g[y] \in Nat
  BY <1>1
<1>3. SumFunction(f) = SumFunctionOnSet(f, S) /\ SumFunction(g) = SumFunctionOnSet(g, S)
  BY <1>1, SumFunctionIsSum
<1>4. SumFunctionOnSet(f, S) \in Nat /\ f[x] <= SumFunctionOnSet(f, S)
  BY <1>2, SumIsNatural, SumAtLeast
<1>5. SumFunctionOnSet(g, S) = SumFunctionOnSet(f, S) - f[x] + g[x]
  <2>1. \A y \in S : f[y] \in Int /\ g[y] \in Int
    BY <1>2
  <2>2. SumFunctionOnSet(f, S) = f[x] + SumFunctionOnSet(f, S \ {x})
    BY <2>1, SumRemove
  <2>3. SumFunctionOnSet(g, S) = g[x] + SumFunctionOnSet(g, S \ {x})
    BY <2>1, SumRemove
  <2>4. IsFiniteSet(S \ {x})
    BY FS_RemoveElement
  <2>5. SumFunctionOnSet(f, S \ {x}) = SumFunctionOnSet(g, S \ {x})
    BY <1>1, <2>4, SumSame
  <2>6. SumFunctionOnSet(f, S \ {x}) \in Int
    BY <2>1, <2>4, SumIsInteger
  <2> QED
    BY <2>1, <2>2, <2>3, <2>5, <2>6
<1> QED
  BY <1>1, <1>3, <1>4, <1>5

\* The amounts of a set are a sum over it.
LEMMA AmountsAreSum ==
    ASSUME NEW S, IsFiniteSet(S), NEW f, \A a \in S : f[a] = a.amount
    PROVE  AmountsOf(S) = SumFunctionOnSet(f, S)
<1> DEFINE g == [a \in S |-> a.amount]
<1>1. AmountsOf(S) = SumFunction(g)
  BY DEF AmountsOf
<1>2. DOMAIN g = S /\ \A a \in S : g[a] = f[a]
  OBVIOUS
<1> HIDE DEF g
<1>3. SumFunction(g) = SumFunctionOnSet(g, S)
  BY <1>2, SumFunctionIsSum
<1>4. SumFunctionOnSet(g, S) = SumFunctionOnSet(f, S)
  BY <1>2, SumSame
<1> QED
  BY <1>1, <1>3, <1>4

\* One more right, and one right less.
LEMMA AmountsMove ==
    ASSUME NEW S, IsFiniteSet(S), NEW a, \A b \in S \cup {a} : b.amount \in Nat
    PROVE  /\ AmountsOf(S) \in Nat
           /\ a \notin S => AmountsOf(S \cup {a}) = AmountsOf(S) + a.amount
           /\ a \in S => /\ a.amount <= AmountsOf(S)
                        /\ AmountsOf(S \ {a}) = AmountsOf(S) - a.amount
<1> DEFINE f == [b \in S \cup {a} |-> b.amount]
<1>1. \A b \in S \cup {a} : f[b] = b.amount /\ f[b] \in Nat /\ f[b] \in Int
  OBVIOUS
<1> HIDE DEF f
<1>2. /\ IsFiniteSet(S \cup {a}) /\ IsFiniteSet(S \ {a})
  BY FS_AddElement, FS_RemoveElement
<1>3. /\ AmountsOf(S) = SumFunctionOnSet(f, S)
      /\ AmountsOf(S \cup {a}) = SumFunctionOnSet(f, S \cup {a})
      /\ AmountsOf(S \ {a}) = SumFunctionOnSet(f, S \ {a})
  <2>1. AmountsOf(S) = SumFunctionOnSet(f, S)
    BY <1>1, AmountsAreSum
  <2>2. AmountsOf(S \cup {a}) = SumFunctionOnSet(f, S \cup {a})
    BY <1>1, <1>2, AmountsAreSum
  <2>3. AmountsOf(S \ {a}) = SumFunctionOnSet(f, S \ {a})
    BY <1>1, <1>2, AmountsAreSum
  <2> QED
    BY <2>1, <2>2, <2>3
<1>4. SumFunctionOnSet(f, S) \in Nat
  BY <1>1, SumIsNatural
<1>5. ASSUME a \notin S
      PROVE  AmountsOf(S \cup {a}) = AmountsOf(S) + a.amount
  <2>1. SumFunctionOnSet(f, S \cup {a}) = f[a] + SumFunctionOnSet(f, S)
    BY <1>1, <1>5, SumAdd
  <2> QED
    BY <1>1, <1>3, <1>4, <2>1
<1>6. ASSUME a \in S
      PROVE  a.amount <= AmountsOf(S) /\ AmountsOf(S \ {a}) = AmountsOf(S) - a.amount
  <2>1. SumFunctionOnSet(f, S) = f[a] + SumFunctionOnSet(f, S \ {a})
    BY <1>1, <1>6, SumRemove
  <2>2. SumFunctionOnSet(f, S \ {a}) \in Nat
    BY <1>1, <1>2, SumIsNatural
  <2> QED
    BY <1>1, <1>3, <2>1, <2>2
<1> QED
  BY <1>3, <1>4, <1>5, <1>6

\* The fields that the accounts are in.
SameAccounts(L, M) ==
    /\ M.freeBalance = L.freeBalance /\ M.reserve = L.reserve /\ M.recognized = L.recognized
    /\ M.rights = L.rights /\ M.paidTo = L.paidTo /\ M.funded = L.funded
    /\ M.totalFree = L.totalFree /\ M.totalReserve = L.totalReserve
    /\ M.totalClaim = L.totalClaim

\* An effect on other fields keeps the accounts balanced.
LEMMA BalanceKept ==
    ASSUME NEW L, NEW M, Balanced(L), SameAccounts(L, M)
    PROVE  Balanced(M)
<1>1. OpenClaims(M) = OpenClaims(L) /\ \A e \in Epochs : RightsOf(M, e) = RightsOf(L, e)
  BY DEF SameAccounts, OpenClaims, Claims, RightsOf
<1> QED
  BY <1>1 DEF SameAccounts, Balanced, TotalsMatch, WithinCap

\* An effect on free balances that moves their total by as much.
LEMMA FreeBalanced ==
    ASSUME NEW L, NEW M, L \in LedgerType, Balanced(L), NEW owner \in Accounts, NEW own \in Nat,
           M.freeBalance = [L.freeBalance EXCEPT ![owner] = own],
           M.totalFree = L.totalFree - L.freeBalance[owner] + own,
           M.reserve = L.reserve, M.recognized = L.recognized, M.rights = L.rights,
           M.paidTo = L.paidTo, M.funded = L.funded, M.totalReserve = L.totalReserve,
           M.totalClaim = L.totalClaim
    PROVE  Balanced(M)
<1>1. OpenClaims(M) = OpenClaims(L) /\ \A e \in Epochs : RightsOf(M, e) = RightsOf(L, e)
  BY DEF OpenClaims, Claims, RightsOf
<1>2. SumFunction(M.freeBalance) = SumFunction(L.freeBalance) - L.freeBalance[owner] + own
  <2>1. IsFiniteSet(Accounts) /\ L.freeBalance \in [Accounts -> Nat]
    BY FiniteAssumption DEF LedgerType
  <2> QED
    BY <2>1, AccountMoves
<1> QED
  BY <1>1, <1>2 DEF Balanced, TotalsMatch, WithinCap

\* A free balance is credited (_creditDeposit).
LEMMA CreditedBalanced ==
    ASSUME NEW L, L \in LedgerType, Balanced(L), NEW owner \in Accounts, NEW amount \in Nat
    PROVE  /\ Balanced(Credited(L, owner, amount))
           /\ Balanced(Received(L, owner, amount))
<1> DEFINE M == Credited(L, owner, amount)
           own == L.freeBalance[owner] + amount
<1>1. own \in Nat /\ L.freeBalance[owner] \in Nat /\ L.totalFree \in Nat
  BY DEF LedgerType
<1>2. /\ M.freeBalance = [L.freeBalance EXCEPT ![owner] = own]
      /\ M.totalFree = L.totalFree - L.freeBalance[owner] + own
      /\ M.reserve = L.reserve /\ M.recognized = L.recognized /\ M.rights = L.rights
      /\ M.paidTo = L.paidTo /\ M.funded = L.funded /\ M.totalReserve = L.totalReserve
      /\ M.totalClaim = L.totalClaim
  BY <1>1 DEF LedgerType, Credited
<1>3. SameAccounts(M, Received(L, owner, amount))
  BY DEF LedgerType, Received, Credited, SameAccounts
<1> HIDE DEF M, own
<1>4. Balanced(M)
  BY <1>1, <1>2, FreeBalanced
<1> QED
  BY <1>3, <1>4, BalanceKept DEF M

\* A free balance is debited (_withdrawFree).
LEMMA DebitedBalanced ==
    ASSUME NEW L, L \in LedgerType, Balanced(L), NEW owner \in Accounts, NEW amount \in Nat,
           amount <= L.freeBalance[owner]
    PROVE  Balanced(Debited(L, owner, amount))
<1> DEFINE M == Debited(L, owner, amount)
           own == L.freeBalance[owner] - amount
<1>1. own \in Nat /\ L.freeBalance[owner] \in Nat /\ L.totalFree \in Nat
  BY DEF LedgerType
<1>2. /\ M.freeBalance = [L.freeBalance EXCEPT ![owner] = own]
      /\ M.totalFree = L.totalFree - L.freeBalance[owner] + own
      /\ M.reserve = L.reserve /\ M.recognized = L.recognized /\ M.rights = L.rights
      /\ M.paidTo = L.paidTo /\ M.funded = L.funded /\ M.totalReserve = L.totalReserve
      /\ M.totalClaim = L.totalClaim
  BY <1>1 DEF LedgerType, Debited
<1> HIDE DEF M, own
<1>3. Balanced(M)
  BY <1>1, <1>2, FreeBalanced
<1> QED
  BY <1>3 DEF M

\* A cap moves from its sponsor's free balance to the epoch's reserve (fundEpoch).
LEMMA FundedBalanced ==
    ASSUME NEW L, L \in LedgerType, Balanced(L), NEW e \in Epochs, e \notin L.funded,
           Config[e].cap <= L.freeBalance[Config[e].sponsor]
    PROVE  Balanced(Funded(L, e))
<1> DEFINE M == Funded(L, e)
           cap == Config[e].cap
           sponsor == Config[e].sponsor
           own == L.freeBalance[sponsor] - cap
<1>1. cap \in Nat /\ sponsor \in Accounts
  BY AmountAssumption
<1>2. /\ L.reserve[e] \in Nat /\ L.recognized[e] \in Nat /\ own \in Nat
      /\ L.freeBalance[sponsor] \in Nat /\ L.totalFree \in Nat /\ L.totalReserve \in Nat
  BY <1>1 DEF LedgerType
<1>3. L.reserve[e] = 0 /\ L.recognized[e] = 0
  BY <1>2 DEF Balanced, WithinCap
<1>4. /\ M.freeBalance = [L.freeBalance EXCEPT ![sponsor] = own]
      /\ M.totalFree = L.totalFree - cap
      /\ M.reserve = [L.reserve EXCEPT ![e] = cap] /\ M.totalReserve = L.totalReserve + cap
      /\ M.recognized = L.recognized /\ M.rights = L.rights /\ M.paidTo = L.paidTo
      /\ M.funded = L.funded \cup {e} /\ M.totalClaim = L.totalClaim
  BY DEF LedgerType, Funded
<1> HIDE DEF M, cap, sponsor, own
<1>5. SumFunction(M.freeBalance) = SumFunction(L.freeBalance) - L.freeBalance[sponsor] + own
  BY <1>1, <1>2, <1>4, FiniteAssumption, AccountMoves DEF LedgerType
<1>6. SumFunction(M.reserve) = SumFunction(L.reserve) - L.reserve[e] + cap
  <2>1. IsFiniteSet(Epochs) /\ L.reserve \in [Epochs -> Nat]
    BY FiniteAssumption DEF LedgerType
  <2> QED
    BY <1>1, <1>4, <2>1, AccountMoves
<1>7. OpenClaims(M) = OpenClaims(L) /\ \A d \in Epochs : RightsOf(M, d) = RightsOf(L, d)
  BY <1>4 DEF OpenClaims, Claims, RightsOf
<1>8. TotalsMatch(M)
  <2>1. M.totalFree = SumFunction(M.freeBalance)
    BY <1>1, <1>2, <1>4, <1>5 DEF Balanced, TotalsMatch, own
  <2>2. M.totalReserve = SumFunction(M.reserve)
    BY <1>1, <1>2, <1>3, <1>4, <1>6 DEF Balanced, TotalsMatch
  <2> QED
    BY <1>4, <1>7, <2>1, <2>2 DEF Balanced, TotalsMatch
<1>9. ASSUME NEW d \in Epochs
      PROVE  WithinCap(M, d)
  <2>1. CASE d = e
    <3>1. M.reserve[e] = cap /\ M.recognized[e] = 0 /\ e \in M.funded
      BY <1>3, <1>4 DEF LedgerType
    <3>2. AmountsOf(RightsOf(M, e)) = 0
      BY <1>3, <1>7 DEF Balanced, WithinCap
    <3> QED
      BY <1>1, <2>1, <3>1, <3>2 DEF WithinCap, cap
  <2>2. CASE d # e
    <3>1. M.reserve[d] = L.reserve[d] /\ (d \in M.funded <=> d \in L.funded)
      BY <1>4, <2>2 DEF LedgerType
    <3> QED
      BY <1>4, <1>7, <3>1 DEF Balanced, WithinCap
  <2> QED
    BY <2>1, <2>2
<1>10. Balanced(M)
  BY <1>4, <1>8, <1>9 DEF Balanced
<1> QED
  BY <1>10 DEF M

\* A claim that is paid is no longer owed (_completeClaim).
LEMMA CompletedBalanced ==
    ASSUME NEW L, L \in LedgerType, RightsDistinct(L), Balanced(L), NEW a, Open(L, a),
           NEW destination \in Accounts
    PROVE  Balanced(Completed(L, a, destination))
<1> DEFINE M == Completed(L, a, destination)
<1>1. /\ a \in OpenClaims(L) /\ a \in L.rights /\ EconomicId(a) \in EconomicIds
      /\ destination # None
  BY AddressAssumption DEF Open, OpenClaims, Claims, LedgerType, EconomicIds
<1>2. \A b \in L.rights : b.amount \in Nat /\ EconomicId(b) \in EconomicIds
  BY AllocationAssumption DEF LedgerType, EconomicIds
<1>3. /\ M.freeBalance = L.freeBalance /\ M.totalFree = L.totalFree
      /\ M.reserve = L.reserve /\ M.totalReserve = L.totalReserve
      /\ M.recognized = L.recognized /\ M.rights = L.rights /\ M.funded = L.funded
      /\ M.paidTo = [L.paidTo EXCEPT ![EconomicId(a)] = destination]
      /\ M.totalClaim = L.totalClaim - a.amount
  BY DEF LedgerType, Completed
<1> HIDE DEF M
<1>4. OpenClaims(M) = OpenClaims(L) \ {a}
  <2>1. M.paidTo[EconomicId(a)] = destination
    BY <1>1, <1>3 DEF LedgerType
  <2>2. \A b \in L.rights : b # a => M.paidTo[EconomicId(b)] = L.paidTo[EconomicId(b)]
    BY <1>1, <1>2, <1>3 DEF RightsDistinct, LedgerType
  <2> QED
    BY <1>1, <1>3, <2>1, <2>2 DEF OpenClaims, Claims
<1>5. IsFiniteSet(OpenClaims(L)) /\ OpenClaims(L) \subseteq L.rights
  <2>1. OpenClaims(L) \subseteq L.rights
    BY DEF OpenClaims, Claims
  <2> QED
    BY <2>1, FS_Subset DEF Balanced
<1>6. AmountsOf(OpenClaims(L) \ {a}) = AmountsOf(OpenClaims(L)) - a.amount
  BY <1>1, <1>2, <1>5, AmountsMove
<1>7. TotalsMatch(M)
  BY <1>3, <1>4, <1>6 DEF Balanced, TotalsMatch
<1>8. \A e \in Epochs : WithinCap(M, e)
  BY <1>3 DEF Balanced, WithinCap, RightsOf
<1>9. Balanced(M)
  BY <1>3, <1>7, <1>8 DEF Balanced
<1> QED
  BY <1>9 DEF M

\* A right takes its amount out of its epoch's reserve, once (_recognize).
LEMMA RecognizedBalanced ==
    ASSUME NEW L, L \in LedgerType, OnlyClaimsPaid(L), Balanced(L),
           NEW a \in Allocations, Recognizable(L, a),
           a.amount <= L.reserve[a.epoch], a.amount <= L.totalReserve
    PROVE  Balanced(Recognized(L, a))
<1> DEFINE M == Recognized(L, a)
           e == a.epoch
           left == L.reserve[e] - a.amount
           sum == L.recognized[e] + a.amount
           own == L.freeBalance[a.owner] + a.amount
<1>1. /\ a.amount \in Nat /\ a.owner \in Accounts /\ e \in Epochs /\ e \in L.funded
      /\ EconomicId(a) \in EconomicIds /\ a \notin L.rights
  BY AllocationAssumption DEF Recognizable, LedgerType, EconomicIds
<1>2. L.paidTo[EconomicId(a)] = None
  BY <1>1 DEF OnlyClaimsPaid, Claims, Recognizable
<1>3. \A b \in L.rights \cup {a} : b.amount \in Nat
  BY <1>1, AllocationAssumption DEF LedgerType
<1>4. /\ left \in Nat /\ sum \in Nat /\ own \in Nat
      /\ L.reserve[e] \in Nat /\ L.recognized[e] \in Nat /\ L.freeBalance[a.owner] \in Nat
      /\ L.totalReserve \in Nat /\ L.totalFree \in Nat /\ L.totalClaim \in Nat
  BY <1>1 DEF LedgerType
<1>5. /\ M.rights = L.rights \cup {a} /\ M.funded = L.funded /\ M.paidTo = L.paidTo
      /\ M.recognized = [L.recognized EXCEPT ![e] = sum]
      /\ M.reserve = [L.reserve EXCEPT ![e] = left]
      /\ M.totalReserve = L.totalReserve - a.amount
  BY DEF Recognized, LedgerType
<1>6. IF IsClaim(a)
      THEN /\ M.freeBalance = L.freeBalance /\ M.totalFree = L.totalFree
           /\ M.totalClaim = L.totalClaim + a.amount
      ELSE /\ M.freeBalance = [L.freeBalance EXCEPT ![a.owner] = own]
           /\ M.totalFree = L.totalFree + a.amount
           /\ M.totalClaim = L.totalClaim
  BY DEF Recognized, LedgerType
<1> HIDE DEF M, left, sum, own
<1>7. M.totalReserve = SumFunction(M.reserve)
  <2>1. IsFiniteSet(Epochs) /\ L.reserve \in [Epochs -> Nat]
    BY FiniteAssumption DEF LedgerType
  <2>2. /\ SumFunction(L.reserve) \in Nat
        /\ SumFunction(M.reserve) = SumFunction(L.reserve) - L.reserve[e] + left
    BY <1>1, <1>4, <1>5, <2>1, AccountMoves
  <2>3. L.totalReserve = SumFunction(L.reserve)
    BY DEF Balanced, TotalsMatch
  <2> QED
    BY <1>1, <1>4, <1>5, <2>2, <2>3 DEF left
<1>8. M.totalFree = SumFunction(M.freeBalance)
  <2>1. IsFiniteSet(Accounts) /\ L.freeBalance \in [Accounts -> Nat]
    BY FiniteAssumption DEF LedgerType
  <2>2. L.totalFree = SumFunction(L.freeBalance)
    BY DEF Balanced, TotalsMatch
  <2>3. CASE IsClaim(a)
    BY <1>6, <2>2, <2>3
  <2>4. CASE ~ IsClaim(a)
    <3>1. M.freeBalance = [L.freeBalance EXCEPT ![a.owner] = own]
      BY <1>6, <2>4
    <3>2. SumFunction(M.freeBalance) = SumFunction(L.freeBalance) - L.freeBalance[a.owner] + own
      BY <1>1, <1>4, <2>1, <3>1, AccountMoves
    <3> QED
      BY <1>1, <1>4, <1>6, <2>2, <2>4, <3>2 DEF own
  <2> QED
    BY <2>3, <2>4
<1>9. M.totalClaim = AmountsOf(OpenClaims(M))
  <2>1. L.totalClaim = AmountsOf(OpenClaims(L))
    BY DEF Balanced, TotalsMatch
  <2>2. CASE IsClaim(a)
    <3>1. OpenClaims(M) = OpenClaims(L) \cup {a} /\ a \notin OpenClaims(L)
      BY <1>1, <1>2, <1>5, <2>2 DEF OpenClaims, Claims
    <3>2. OpenClaims(L) \subseteq L.rights
      BY DEF OpenClaims, Claims
    <3>3. IsFiniteSet(OpenClaims(L)) /\ \A b \in OpenClaims(L) \cup {a} : b.amount \in Nat
      BY <1>3, <3>2, FS_Subset DEF Balanced
    <3>4. AmountsOf(OpenClaims(L) \cup {a}) = AmountsOf(OpenClaims(L)) + a.amount
      BY <3>1, <3>3, AmountsMove
    <3> QED
      BY <1>6, <2>1, <2>2, <3>1, <3>4
  <2>3. CASE ~ IsClaim(a)
    <3>1. OpenClaims(M) = OpenClaims(L)
      BY <1>5, <2>3 DEF OpenClaims, Claims
    <3> QED
      BY <1>6, <2>1, <2>3, <3>1
  <2> QED
    BY <2>2, <2>3
<1>10. ASSUME NEW d \in Epochs
       PROVE  WithinCap(M, d)
  <2>1. /\ L.reserve[d] + L.recognized[d] = IF d \in L.funded THEN Config[d].cap ELSE 0
        /\ L.recognized[d] = AmountsOf(RightsOf(L, d))
    BY DEF Balanced, WithinCap
  <2>2. CASE d = e
    <3>1. M.reserve[e] = left /\ M.recognized[e] = sum
      BY <1>1, <1>5 DEF LedgerType
    <3>2. RightsOf(M, e) = RightsOf(L, e) \cup {a} /\ a \notin RightsOf(L, e)
      BY <1>1, <1>5 DEF RightsOf
    <3>3. RightsOf(L, e) \subseteq L.rights
      BY DEF RightsOf
    <3>4. IsFiniteSet(RightsOf(L, e)) /\ \A b \in RightsOf(L, e) \cup {a} : b.amount \in Nat
      BY <1>3, <3>3, FS_Subset DEF Balanced
    <3>5. AmountsOf(RightsOf(L, e) \cup {a}) = AmountsOf(RightsOf(L, e)) + a.amount
      BY <3>2, <3>4, AmountsMove
    <3>6. left + sum = L.reserve[e] + L.recognized[e]
      BY <1>1, <1>4 DEF left, sum
    <3>7. M.recognized[e] = AmountsOf(RightsOf(M, e))
      BY <2>1, <2>2, <3>1, <3>2, <3>5 DEF sum
    <3> QED
      BY <1>5, <2>1, <2>2, <3>1, <3>6, <3>7 DEF WithinCap
  <2>3. CASE d # e
    <3>1. M.reserve[d] = L.reserve[d] /\ M.recognized[d] = L.recognized[d]
      BY <1>5, <2>3 DEF LedgerType
    <3>2. RightsOf(M, d) = RightsOf(L, d)
      BY <1>5, <2>3 DEF RightsOf
    <3> QED
      BY <1>5, <2>1, <3>1, <3>2 DEF WithinCap
  <2> QED
    BY <2>2, <2>3
<1>11. IsFiniteSet(M.rights)
  BY <1>5, FS_AddElement DEF Balanced
<1>12. Balanced(M)
  BY <1>7, <1>8, <1>9, <1>10, <1>11 DEF Balanced, TotalsMatch
<1> QED
  BY <1>12 DEF M

-----------------------------------------------------------------------------
(* Effects that touch only money or authentications *)

\* Fields that histories are about.
SameHistory(L, M) ==
    /\ M.rights = L.rights /\ M.checkpoints = L.checkpoints
    /\ M.paidTo = L.paidTo /\ M.sent = L.sent /\ M.latest = L.latest
    /\ L.authenticated \subseteq M.authenticated
    /\ L.funded \subseteq M.funded

\* An effect that leaves rights, checkpoints and payments alone keeps what
\* rests on them, and only adds.
LEMMA HistoryKept ==
    ASSUME NEW L, NEW M, History(L), SameHistory(L, M)
    PROVE  History(M) /\ GrewInto(L, M)
<1>1. RightsBacked(M) /\ RightsDistinct(M) /\ CheckpointsGenuine(M)
  BY DEF History, SameHistory, RightsBacked, RightsDistinct, CheckpointsGenuine, Genuine
<1>2. SentAsMarked(M) /\ OnlyClaimsPaid(M)
  BY DEF History, SameHistory, SentAsMarked, OnlyClaimsPaid, Claims
<1>3. \A e \in Epochs : Newest(M, e)
  BY DEF History, SameHistory, Newest, StoredFor
<1>4. GrewInto(L, M)
  BY DEF SameHistory, GrewInto
<1> QED
  BY <1>1, <1>2, <1>3, <1>4 DEF History

\* A payment to an account that comes with its ether (deposit, receive).
LEMMA ReceivedSound ==
    ASSUME NEW L, Sound(L, 0), NEW owner \in Accounts, NEW amount \in Nat
    PROVE  Sound(Received(L, owner, amount), 0) /\ GrewInto(L, Received(L, owner, amount))
<1> DEFINE M == Received(L, owner, amount)
<1>1. M \in LedgerType
  <2> DEFINE own == [L.freeBalance EXCEPT ![owner] = @ + amount]
             free == L.totalFree + amount
             credited == L.totalCredited + amount
             ether == L.balance + amount
  <2>1. own \in [Accounts -> Nat] /\ free \in Nat /\ credited \in Nat /\ ether \in Nat
    BY DEF Sound, LedgerType
  <2>2. M = [L EXCEPT !.freeBalance = own, !.totalCredited = credited,
                      !.totalFree = free, !.balance = ether]
    BY DEF Sound, LedgerType, Received, Credited
  <2> HIDE DEF own, free, credited, ether
  <2> QED
    BY <2>1, <2>2 DEF Sound, LedgerType
<1>2. Accounted(M, 0)
  BY DEF Sound, LedgerType, Received, Credited, Accounted, Liabilities
<1>3. SameHistory(L, M)
  BY DEF Sound, LedgerType, Received, Credited, SameHistory
<1>4. Balanced(M)
  BY CreditedBalanced DEF Sound
<1> QED
  BY <1>1, <1>2, <1>3, <1>4, HistoryKept DEF Sound

\* A payment the treasury sends to itself: the ether does not move (receive).
LEMMA CreditedSound ==
    ASSUME NEW L, NEW amount \in Nat, Sound(L, amount), NEW owner \in Accounts
    PROVE  Sound(Credited(L, owner, amount), 0) /\ GrewInto(L, Credited(L, owner, amount))
<1> DEFINE M == Credited(L, owner, amount)
<1>1. M \in LedgerType
  <2> DEFINE own == [L.freeBalance EXCEPT ![owner] = @ + amount]
             free == L.totalFree + amount
             credited == L.totalCredited + amount
  <2>1. own \in [Accounts -> Nat] /\ free \in Nat /\ credited \in Nat
    BY DEF Sound, LedgerType
  <2>2. M = [L EXCEPT !.freeBalance = own, !.totalCredited = credited, !.totalFree = free]
    BY DEF Credited
  <2> HIDE DEF own, free, credited
  <2> QED
    BY <2>1, <2>2 DEF Sound, LedgerType
<1>2. Accounted(M, 0)
  BY DEF Sound, LedgerType, Credited, Accounted, Liabilities
<1>3. SameHistory(L, M)
  BY DEF Sound, LedgerType, Credited, SameHistory
<1>4. Balanced(M)
  BY CreditedBalanced DEF Sound
<1> QED
  BY <1>1, <1>2, <1>3, <1>4, HistoryKept DEF Sound

\* What was due leaves (_completeClaim, _withdrawFree).
LEMMA SentSound ==
    ASSUME NEW L, NEW amount \in Nat, Sound(L, amount), amount <= L.balance
    PROVE  LET M == [L EXCEPT !.balance = @ - amount] IN Sound(M, 0) /\ GrewInto(L, M)
<1> DEFINE M == [L EXCEPT !.balance = @ - amount]
<1>1. M \in LedgerType
  BY DEF Sound, LedgerType
<1>2. Accounted(M, 0)
  BY DEF Sound, LedgerType, Accounted, Liabilities
<1>3. SameHistory(L, M)
  BY DEF Sound, LedgerType, SameHistory
<1>4. Balanced(M)
  BY BalanceKept DEF Sound, LedgerType, SameAccounts
<1> QED
  BY <1>1, <1>2, <1>3, <1>4, HistoryKept DEF Sound

\* Ether that arrives without a call (forcedSurplus).
LEMMA ForcedSound ==
    ASSUME NEW L, Sound(L, 0)
    PROVE  LET M == [L EXCEPT !.balance = @ + 1, !.forced = @ + 1]
           IN  Sound(M, 0) /\ GrewInto(L, M)
<1> DEFINE M == [L EXCEPT !.balance = @ + 1, !.forced = @ + 1]
<1>1. M \in LedgerType
  <2> DEFINE ether == L.balance + 1
             forced == L.forced + 1
  <2>1. ether \in Nat /\ forced \in Nat
    BY DEF Sound, LedgerType
  <2> HIDE DEF ether, forced
  <2>2. [L EXCEPT !.balance = ether, !.forced = forced] \in LedgerType
    BY <2>1 DEF Sound, LedgerType
  <2> QED
    BY <2>2 DEF ether, forced
<1>2. Accounted(M, 0)
  BY DEF Sound, LedgerType, Accounted, Liabilities
<1>3. SameHistory(L, M)
  BY DEF Sound, LedgerType, SameHistory
<1>4. Balanced(M)
  BY BalanceKept DEF Sound, LedgerType, SameAccounts
<1> QED
  BY <1>1, <1>2, <1>3, <1>4, HistoryKept DEF Sound

\* An epoch's cap moves from its sponsor's free balance (fundEpoch).
LEMMA FundedSound ==
    ASSUME NEW L, Sound(L, 0), NEW e \in Epochs, e \notin L.funded,
           Config[e].cap <= L.freeBalance[Config[e].sponsor],
           Config[e].cap <= L.totalFree
    PROVE  Sound(Funded(L, e), 0) /\ GrewInto(L, Funded(L, e))
<1> DEFINE M == Funded(L, e)
<1>0. Config[e].cap \in Nat /\ Config[e].sponsor \in Accounts
  BY AmountAssumption
<1>1. M \in LedgerType
  <2> DEFINE cap == Config[e].cap
             sponsor == Config[e].sponsor
             own == [L.freeBalance EXCEPT ![sponsor] = @ - cap]
             reserve == [L.reserve EXCEPT ![e] = cap]
             free == L.totalFree - cap
             kept == L.totalReserve + cap
             funded == L.funded \cup {e}
  <2>1. /\ own \in [Accounts -> Nat] /\ free \in Nat /\ kept \in Nat
        /\ reserve \in [Epochs -> Nat] /\ funded \subseteq Epochs
    BY <1>0 DEF Sound, LedgerType
  <2>2. M = [L EXCEPT !.funded = funded, !.reserve = reserve, !.freeBalance = own,
                      !.totalFree = free, !.totalReserve = kept]
    BY DEF Funded
  <2> HIDE DEF cap, sponsor, own, reserve, free, kept, funded
  <2> QED
    BY <2>1, <2>2 DEF Sound, LedgerType
<1>2. Accounted(M, 0)
  BY <1>0 DEF Sound, LedgerType, Funded, Accounted, Liabilities
<1>3. SameHistory(L, M)
  BY DEF Sound, LedgerType, Funded, SameHistory
<1>4. Balanced(M)
  BY FundedBalanced DEF Sound
<1> QED
  BY <1>1, <1>2, <1>3, <1>4, HistoryKept DEF Sound

\* Attested transactions are remembered (_storeAuthentication).
LEMMA AuthenticatedSound ==
    ASSUME NEW L, Sound(L, 0), NEW ts, ts \subseteq Attested
    PROVE  Sound(Authenticated(L, ts), 0) /\ GrewInto(L, Authenticated(L, ts))
<1> DEFINE M == Authenticated(L, ts)
<1>1. M \in LedgerType
  BY DEF Sound, LedgerType, Authenticated
<1>2. Accounted(M, 0)
  BY DEF Sound, LedgerType, Authenticated, Accounted, Liabilities
<1>3. SameHistory(L, M)
  BY DEF Sound, LedgerType, Authenticated, SameHistory
<1>4. Balanced(M)
  BY BalanceKept DEF Sound, LedgerType, Authenticated, SameAccounts
<1> QED
  BY <1>1, <1>2, <1>3, <1>4, HistoryKept DEF Sound

\* A free balance is debited; its ether is due (_withdrawFree).
LEMMA DebitedSound ==
    ASSUME NEW L, Sound(L, 0), NEW owner \in Accounts, NEW amount \in Nat,
           amount <= L.freeBalance[owner], amount <= L.totalFree
    PROVE  Sound(Debited(L, owner, amount), amount) /\ GrewInto(L, Debited(L, owner, amount))
<1> DEFINE M == Debited(L, owner, amount)
<1>1. M \in LedgerType
  <2> DEFINE own == [L.freeBalance EXCEPT ![owner] = @ - amount]
             free == L.totalFree - amount
             withdrawn == L.withdrawals + amount
  <2>1. own \in [Accounts -> Nat] /\ free \in Nat /\ withdrawn \in Nat
    BY DEF Sound, LedgerType
  <2>2. M = [L EXCEPT !.freeBalance = own, !.totalFree = free, !.withdrawals = withdrawn]
    BY DEF Debited
  <2> HIDE DEF own, free, withdrawn
  <2> QED
    BY <2>1, <2>2 DEF Sound, LedgerType
<1>2. Accounted(M, amount)
  BY DEF Sound, LedgerType, Debited, Accounted, Liabilities
<1>3. SameHistory(L, M)
  BY DEF Sound, LedgerType, Debited, SameHistory
<1>4. Balanced(M)
  BY DebitedBalanced DEF Sound
<1> QED
  BY <1>1, <1>2, <1>3, <1>4, HistoryKept DEF Sound

-----------------------------------------------------------------------------
(* Effects that change what is known, owed or paid *)

\* Adding to a ledger is transitive (_storeCheckpoint, _completeClaim).
LEMMA GrowthIsTransitive ==
    ASSUME NEW L, NEW M, NEW N, NEW due, NEW due2, NEW due3,
           Sound(L, due), Sound(M, due2), Sound(N, due3), GrewInto(L, M), GrewInto(M, N)
    PROVE  GrewInto(L, N)
<1>1. ASSUME NEW e \in Epochs, L.latest[e] # None
      PROVE  N.latest[e] = L.latest[e] \/ IsLater(N.latest[e], L.latest[e])
  <2>1. L.latest[e] \in StoredFor(L, e)
    BY <1>1 DEF Sound, History, Newest
  <2>2. /\ StoredFor(L, e) \subseteq StoredFor(M, e)
        /\ StoredFor(M, e) \subseteq StoredFor(N, e)
        /\ StoredFor(L, e) \subseteq LogIds
        /\ StoredFor(M, e) \subseteq LogIds
        /\ StoredFor(N, e) \subseteq LogIds
    BY DEF GrewInto, StoredFor, Sound, LedgerType
  <2>3. M.latest[e] \in StoredFor(M, e) /\ N.latest[e] \in StoredFor(N, e)
    BY <2>1, <2>2 DEF Sound, History, Newest
  <2>4. /\ L.latest[e] \in LogIds /\ M.latest[e] \in LogIds /\ N.latest[e] \in LogIds
        /\ M.latest[e] # None
    BY <2>1, <2>2, <2>3, LogIdIsTyped
  <2>5. M.latest[e] = L.latest[e] \/ IsLater(M.latest[e], L.latest[e])
    BY <1>1 DEF GrewInto
  <2>6. N.latest[e] = M.latest[e] \/ IsLater(N.latest[e], M.latest[e])
    BY <2>4 DEF GrewInto
  <2> QED
    BY <2>4, <2>5, <2>6, LaterIsTransitive
<1>2. ASSUME NEW id \in EconomicIds, L.paidTo[id] # None
      PROVE  N.paidTo[id] = L.paidTo[id]
  BY <1>2 DEF GrewInto
<1>3. /\ L.authenticated \subseteq N.authenticated /\ L.checkpoints \subseteq N.checkpoints
      /\ L.funded \subseteq N.funded /\ L.rights \subseteq N.rights
  BY DEF GrewInto
<1> QED
  BY <1>1, <1>2, <1>3 DEF GrewInto

\* A checkpoint is stored, and is the latest of its epoch if it is later than
\* the one that was (_storeCheckpoint).
LEMMA StoredSound ==
    ASSUME NEW L, Sound(L, 0), NEW id \in LogIds, Selects(L, id), Storable(L, id)
    PROVE  Sound(Stored(L, id), 0) /\ GrewInto(L, Stored(L, id))
<1> DEFINE M == Stored(L, id)
           e == LogOf(id).checkpoint.epoch
           prior == L.latest[e]
           next == IF prior = None \/ IsLater(id, prior) THEN id ELSE prior
           latest == [L.latest EXCEPT ![e] = next]
           stored == L.checkpoints \cup {id}
<1>1. CASE id \in L.checkpoints
  <2>1. M = L
    BY <1>1 DEF Stored
  <2> QED
    BY <2>1 DEF GrewInto
<1>2. CASE id \notin L.checkpoints
  <2>1. M = [L EXCEPT !.checkpoints = stored, !.latest = latest]
    BY <1>2 DEF Stored
  <2>2. e \in Epochs /\ next \in LogIds \cup {None}
    BY DEF Storable, Sound, LedgerType
  <2>3. latest \in [Epochs -> LogIds \cup {None}] /\ stored \subseteq LogIds
    BY <2>2 DEF Sound, LedgerType
  <2>4. latest[e] = next /\ \A d \in Epochs \ {e} : latest[d] = L.latest[d]
    BY <2>2 DEF Sound, LedgerType
  <2> HIDE DEF M, latest, stored
  <2>5. M \in LedgerType
    BY <2>1, <2>3 DEF Sound, LedgerType
  <2>6. /\ M.checkpoints = stored /\ M.latest = latest
        /\ M.rights = L.rights /\ M.authenticated = L.authenticated /\ M.funded = L.funded
        /\ M.paidTo = L.paidTo /\ M.sent = L.sent
    BY <2>1 DEF Sound, LedgerType
  <2>7. Accounted(M, 0)
    BY <2>1 DEF Sound, LedgerType, Accounted, Liabilities
  <2>8. RightsBacked(M) /\ RightsDistinct(M)
    BY <2>6 DEF Sound, History, RightsBacked, RightsDistinct, Genuine
  <2>9. CheckpointsGenuine(M)
    BY <2>6, EvidenceAssumption
    DEF Sound, LedgerType, History, CheckpointsGenuine, Genuine, Selects, Storable, stored
  <2>10. SentAsMarked(M) /\ OnlyClaimsPaid(M)
    BY <2>6 DEF Sound, History, SentAsMarked, OnlyClaimsPaid, Claims
  <2>11. ASSUME NEW d \in Epochs
         PROVE  Newest(M, d)
    <3>1. CASE d # e
      <4>1. StoredFor(M, d) = StoredFor(L, d)
        BY <2>6, <3>1 DEF StoredFor, stored
      <4>2. M.latest[d] = L.latest[d]
        BY <2>4, <2>6, <3>1
      <4> QED
        BY <4>1, <4>2 DEF Sound, History, Newest
    <3>2. CASE d = e
      <4>1. StoredFor(M, e) = StoredFor(L, e) \cup {id}
        BY <2>6 DEF StoredFor, stored
      <4>2. M.latest[e] = next
        BY <2>4, <2>6
      <4>3. \A p \in StoredFor(M, e) : p \in LogIds /\ p[1] \in Attested
        BY <2>5, <2>9 DEF StoredFor, LedgerType, CheckpointsGenuine, Genuine
      <4>4. CASE StoredFor(L, e) = {}
        <5>1. next = id
          BY <2>2, <4>4 DEF Sound, History, Newest
        <5> QED
          BY <3>2, <4>1, <4>2, <4>4, <5>1 DEF Newest
      <4>5. CASE StoredFor(L, e) # {}
        <5>1. /\ prior \in StoredFor(L, e)
              /\ \A p \in StoredFor(L, e) \ {prior} : Before(p, prior)
          BY <2>2, <4>5 DEF Sound, History, Newest
        <5>2. prior # id
          BY <1>2, <5>1 DEF StoredFor
        <5>3. prior \in LogIds /\ prior # None /\ prior[1] \in Attested /\ id[1] \in Attested
          BY <4>1, <4>3, <5>1, LogIdIsTyped
        <5>4. CASE IsLater(id, prior)
          <6>1. Before(prior, id)
            BY <5>3, <5>4, LaterIsAfter
          <6>2. \A p \in StoredFor(L, e) : Before(p, id)
            BY <4>1, <4>3, <5>1, <5>3, <6>1, BeforeIsTransitive
          <6> QED
            BY <3>2, <4>1, <4>2, <5>4, <6>2 DEF Newest
        <5>5. CASE ~ IsLater(id, prior)
          <6>1. Before(id, prior)
            BY <5>2, <5>3, <5>5, LaterIsTotal
          <6>2. next = prior
            BY <5>3, <5>5
          <6> QED
            BY <3>2, <4>1, <4>2, <5>1, <6>1, <6>2 DEF Newest
        <5> QED
          BY <5>4, <5>5
      <4> QED
        BY <4>4, <4>5
    <3> QED
      BY <3>1, <3>2
  <2>14. SameAccounts(L, M)
    BY <2>1 DEF Sound, LedgerType, SameAccounts
  <2>12. Sound(M, 0)
    BY <2>5, <2>7, <2>8, <2>9, <2>10, <2>11, <2>14, BalanceKept DEF Sound, History
  <2>13. GrewInto(L, M)
    BY <2>4, <2>6 DEF GrewInto, stored
  <2> QED
    BY <2>12, <2>13 DEF M
<1> QED
  BY <1>1, <1>2

\* A shown allocation becomes a right: a claim that is open, or free balance
\* (_recognize).
LEMMA RecognizedSound ==
    ASSUME NEW L, Sound(L, 0), NEW a \in Allocations, Recognizable(L, a),
           a.amount <= L.reserve[a.epoch], a.amount <= L.totalReserve,
           NEW id \in LogIds, Genuine(L, id), Shows(id, a)
    PROVE  Sound(Recognized(L, a), 0) /\ GrewInto(L, Recognized(L, a))
<1> DEFINE M == Recognized(L, a)
           rights == L.rights \cup {a}
           recognized == [L.recognized EXCEPT ![a.epoch] = @ + a.amount]
           reserve == [L.reserve EXCEPT ![a.epoch] = @ - a.amount]
           kept == L.totalReserve - a.amount
           claimed == L.totalClaim + a.amount
           own == [L.freeBalance EXCEPT ![a.owner] = @ + a.amount]
           free == L.totalFree + a.amount
<1>1. /\ a.amount \in Nat /\ a.owner \in Accounts /\ a.epoch \in Epochs
      /\ EconomicId(a) \in EconomicIds
  BY AllocationAssumption DEF Recognizable, Sound, LedgerType, EconomicIds
<1>2. /\ rights \subseteq Allocations
      /\ recognized \in [Epochs -> Nat] /\ reserve \in [Epochs -> Nat]
      /\ kept \in Nat /\ claimed \in Nat /\ free \in Nat
      /\ own \in [Accounts -> Nat]
  BY <1>1 DEF Sound, LedgerType
<1>3. M = IF IsClaim(a)
          THEN [L EXCEPT !.rights = rights, !.recognized = recognized, !.reserve = reserve,
                         !.totalReserve = kept, !.totalClaim = claimed]
          ELSE [L EXCEPT !.rights = rights, !.recognized = recognized, !.reserve = reserve,
                         !.totalReserve = kept, !.freeBalance = own, !.totalFree = free]
  BY DEF Recognized, Sound, LedgerType
<1>4. Accounted(M, 0)
  BY <1>1, <1>2, <1>3 DEF Sound, LedgerType, Accounted, Liabilities
<1> HIDE DEF M, recognized, reserve, kept, claimed, own, free
<1>5. M \in LedgerType
  <2> HIDE DEF rights
  <2>1. CASE IsClaim(a)
    BY <1>2, <1>3, <2>1 DEF Sound, LedgerType
  <2>2. CASE ~ IsClaim(a)
    BY <1>2, <1>3, <2>2 DEF Sound, LedgerType
  <2> QED
    BY <2>1, <2>2
<1>6. /\ M.rights = L.rights \cup {a} /\ M.checkpoints = L.checkpoints
      /\ M.paidTo = L.paidTo /\ M.sent = L.sent /\ M.latest = L.latest
      /\ M.authenticated = L.authenticated /\ M.funded = L.funded
  BY <1>3 DEF Sound, LedgerType
<1>7. RightsBacked(M)
  BY <1>6 DEF Sound, History, RightsBacked, Genuine
<1>8. RightsDistinct(M)
  BY <1>6 DEF Sound, History, RightsDistinct, Recognizable
<1>9. CheckpointsGenuine(M)
  BY <1>6 DEF Sound, History, CheckpointsGenuine, Genuine
<1>10. SentAsMarked(M) /\ OnlyClaimsPaid(M)
  <2>1. L.sent[EconomicId(a)] = 0 /\ L.paidTo[EconomicId(a)] = None
    BY <1>1 DEF Sound, History, SentAsMarked, OnlyClaimsPaid, Claims, Recognizable
  <2>2. Claims(L) \subseteq Claims(M) /\ Claims(M) \subseteq Claims(L) \cup {a}
    BY <1>6 DEF Claims
  <2>3. SentAsMarked(M)
    BY <1>6, <2>1, <2>2 DEF Sound, History, SentAsMarked
  <2>4. OnlyClaimsPaid(M)
    BY <1>6, <2>2 DEF Sound, History, OnlyClaimsPaid
  <2> QED
    BY <2>3, <2>4
<1>11. \A e \in Epochs : Newest(M, e)
  BY <1>6 DEF Sound, History, Newest, StoredFor
<1>12. GrewInto(L, M)
  BY <1>6 DEF GrewInto
<1>14. Balanced(M)
  BY RecognizedBalanced DEF Sound, History, M
<1>13. Sound(M, 0)
  BY <1>4, <1>5, <1>7, <1>8, <1>9, <1>10, <1>11, <1>14 DEF Sound, History
<1> QED
  BY <1>12, <1>13 DEF M

\* An open claim is marked withdrawn and its amount is due (_completeClaim).
LEMMA CompletedSound ==
    ASSUME NEW L, Sound(L, 0), NEW a, Open(L, a), NEW destination \in Accounts
    PROVE  /\ a.amount \in Nat
           /\ Sound(Completed(L, a, destination), a.amount)
           /\ GrewInto(L, Completed(L, a, destination))
<1> DEFINE M == Completed(L, a, destination)
           paidTo == [L.paidTo EXCEPT ![EconomicId(a)] = destination]
           sent == [L.sent EXCEPT ![EconomicId(a)] = @ + a.amount]
           claimed == L.totalClaim - a.amount
           withdrawn == L.withdrawals + a.amount
<1>1. /\ a \in L.rights /\ a \in Claims(L) /\ a \in Allocations
      /\ L.paidTo[EconomicId(a)] = None /\ a.amount <= L.totalClaim
  BY DEF Open, OpenClaims, Claims, Sound, LedgerType
<1>2. a.amount \in Nat /\ EconomicId(a) \in EconomicIds
  BY <1>1, AllocationAssumption DEF EconomicIds
<1>3. /\ paidTo \in [EconomicIds -> Accounts \cup {None}] /\ sent \in [EconomicIds -> Nat]
      /\ claimed \in Nat /\ withdrawn \in Nat
  BY <1>1, <1>2 DEF Sound, LedgerType
<1>4. M = [L EXCEPT !.paidTo = paidTo, !.sent = sent, !.totalClaim = claimed,
                    !.withdrawals = withdrawn]
  BY DEF Completed
<1>5. Accounted(M, a.amount)
  BY <1>1, <1>2, <1>4 DEF Sound, LedgerType, Accounted, Liabilities
<1>6. /\ paidTo[EconomicId(a)] = destination /\ sent[EconomicId(a)] = a.amount
      /\ \A id \in EconomicIds \ {EconomicId(a)} :
            paidTo[id] = L.paidTo[id] /\ sent[id] = L.sent[id]
  BY <1>1, <1>2 DEF Sound, LedgerType, History, SentAsMarked
<1> HIDE DEF M, paidTo, sent, claimed, withdrawn
<1>7. M \in LedgerType
  BY <1>3, <1>4 DEF Sound, LedgerType
<1>8. /\ M.rights = L.rights /\ M.checkpoints = L.checkpoints /\ M.latest = L.latest
      /\ M.authenticated = L.authenticated /\ M.funded = L.funded
      /\ M.paidTo = paidTo /\ M.sent = sent
  BY <1>4 DEF Sound, LedgerType
<1>9. RightsBacked(M) /\ RightsDistinct(M) /\ CheckpointsGenuine(M)
  BY <1>8 DEF Sound, History, RightsBacked, RightsDistinct, CheckpointsGenuine, Genuine
<1>10. \A e \in Epochs : Newest(M, e)
  BY <1>8 DEF Sound, History, Newest, StoredFor
<1>11. Claims(M) = Claims(L)
  BY <1>8 DEF Claims
<1>12. OnlyClaimsPaid(M)
  BY <1>1, <1>6, <1>8, <1>11 DEF Sound, History, OnlyClaimsPaid
<1>13. SentAsMarked(M)
  <2>1. destination # None
    BY AddressAssumption
  <2>2. ASSUME NEW b \in Claims(L), b # a
        PROVE  EconomicId(b) \in EconomicIds /\ EconomicId(b) # EconomicId(a)
    BY <1>1, <2>2 DEF Claims, Sound, LedgerType, History, RightsDistinct, EconomicIds
  <2>3. \A b \in Claims(M) :
           M.sent[EconomicId(b)] = IF M.paidTo[EconomicId(b)] = None THEN 0 ELSE b.amount
    BY <1>6, <1>8, <1>11, <2>1, <2>2 DEF Sound, History, SentAsMarked
  <2>4. \A id \in EconomicIds : M.sent[id] # 0 => \E b \in Claims(M) : EconomicId(b) = id
    BY <1>1, <1>6, <1>8, <1>11 DEF Sound, History, SentAsMarked
  <2> QED
    BY <2>3, <2>4 DEF SentAsMarked
<1>14. GrewInto(L, M)
  BY <1>1, <1>6, <1>8 DEF GrewInto
<1>16. Balanced(M)
  BY CompletedBalanced DEF Sound, History, M
<1>15. Sound(M, a.amount)
  BY <1>5, <1>7, <1>9, <1>10, <1>12, <1>13, <1>16 DEF Sound, History
<1> QED
  BY <1>2, <1>14, <1>15 DEF M

-----------------------------------------------------------------------------
(* Transactions *)

\* The ledger only grew; a receiver may have been called, with the ledger of
\* before to go back to.
Adds ==
    /\ Sound(ledger', 0)
    /\ GrewInto(ledger, ledger')
    /\ \/ call' = call
       \/ /\ call = NoCall
          /\ \E to \in Contracts : call' = [to |-> to, undo |-> ledger]

\* Effects one after the other (authenticateAndRecognize*, withdrawals).
LEMMA EffectsCompose ==
    ASSUME Sound(ledger, 0), NEW M, NEW due, Sound(M, due), GrewInto(ledger, M),
           Sound(ledger', 0), GrewInto(M, ledger')
    PROVE  GrewInto(ledger, ledger')
  BY GrowthIsTransitive

\* Whatever a withdrawal took from the ledger, sending it restores the balance
\* (_completeClaim, _withdrawFree).
LEMMA TransferAdds ==
    ASSUME Sound(ledger, 0), NonReentrant, NEW M, NEW amount \in Nat, NEW to \in Accounts,
           Sound(M, amount), GrewInto(ledger, M), Transfer(M, to, amount)
    PROVE  Adds
<1>1. Sound(ledger', 0) /\ GrewInto(M, ledger')
  <2>1. CASE to = Treasury
    BY <2>1, CreditedSound DEF Transfer
  <2>2. CASE to # Treasury
    BY <2>2, SentSound DEF Transfer
  <2> QED
    BY <2>1, <2>2
<1>2. GrewInto(ledger, ledger')
  BY <1>1, EffectsCompose
<1>3. call' = call \/ \E c \in Contracts : call' = [to |-> c, undo |-> ledger]
  BY DEF Transfer, NonReentrant
<1> QED
  BY <1>1, <1>2, <1>3 DEF Adds, NonReentrant

\* Claims and free balances are paid (withdrawFor, ownerWithdrawTo,
\* withdrawFreeFor, ownerWithdrawFreeTo).
LEMMA WithdrawalAdds ==
    ASSUME Sound(ledger, 0), Withdraws
    PROVE  Adds
<1>1. ASSUME NEW a \in ledger.rights, NEW destination \in Accounts, NonReentrant,
             Open(ledger, a), Transfer(Completed(ledger, a, destination), destination, a.amount)
      PROVE  Adds
  BY <1>1, CompletedSound, TransferAdds
<1>2. ASSUME NEW owner \in Accounts, NEW destination \in Accounts,
             NEW amount \in DepositAmounts, WithdrawFree(owner, destination, amount)
      PROVE  Adds
  <2>1. amount \in Nat
    BY AmountAssumption
  <2> QED
    BY <1>2, <2>1, DebitedSound, TransferAdds DEF WithdrawFree
<1>3. ASSUME NEW a \in ledger.rights, WithdrawFor(a)
      PROVE  Adds
  <2>1. a.destination \in Accounts
    BY AllocationAssumption DEF Sound, LedgerType
  <2> QED
    BY <1>1, <1>3, <2>1 DEF WithdrawFor
<1>4. ASSUME NEW a \in ledger.rights, NEW destination \in Accounts,
             OwnerWithdrawTo(a, destination)
      PROVE  Adds
  BY <1>1, <1>4 DEF OwnerWithdrawTo
<1>5. CASE \E owner \in Accounts, amount \in DepositAmounts : WithdrawFreeFor(owner, amount)
  BY <1>2, <1>5 DEF WithdrawFreeFor
<1>6. CASE \E owner, destination \in Accounts, amount \in DepositAmounts :
              OwnerWithdrawFreeTo(owner, destination, amount)
  BY <1>2, <1>6 DEF OwnerWithdrawFreeTo
<1> QED
  BY <1>3, <1>4, <1>5, <1>6 DEF Withdraws

\* Ether comes in, with a call or without, and budgets are set aside (deposit,
\* receive, fundEpoch, fundEpochFromFree).
LEMMA FundingAdds ==
    ASSUME Sound(ledger, 0), Deposits \/ FundsEpoch \/ ForceEther
    PROVE  Adds
<1>1. ASSUME NEW owner \in Accounts, NEW amount \in DepositAmounts, Deposit(owner, amount)
      PROVE  Adds
  <2>1. amount \in Nat
    BY AmountAssumption
  <2> QED
    BY <1>1, <2>1, ReceivedSound DEF Deposit, Becomes, Adds
<1>2. ASSUME NEW e \in Epochs, NEW amount \in DepositAmounts \cup {0}, FundEpoch(e, amount)
      PROVE  Adds
  <2> DEFINE L == IF amount = 0 THEN ledger ELSE Received(ledger, Config[e].sponsor, amount)
  <2>1. amount \in Nat /\ Config[e].sponsor \in Accounts
    BY AmountAssumption
  <2>2. Sound(L, 0) /\ GrewInto(ledger, L)
    <3>1. GrewInto(ledger, ledger)
      BY DEF GrewInto
    <3> QED
      BY <2>1, <3>1, ReceivedSound
  <2>3. e \notin L.funded
    BY <1>2, <2>1 DEF FundEpoch, Received, Credited, Sound, LedgerType
  <2>4. /\ Config[e].cap <= L.freeBalance[Config[e].sponsor]
        /\ Config[e].cap <= L.totalFree
        /\ Becomes(Funded(L, e))
    BY <1>2 DEF FundEpoch
  <2> HIDE DEF L
  <2>5. Sound(ledger', 0) /\ GrewInto(L, ledger')
    BY <2>2, <2>3, <2>4, FundedSound DEF Becomes
  <2> QED
    BY <2>2, <2>4, <2>5, EffectsCompose DEF Becomes, Adds
<1>3. CASE ForceEther
  BY <1>3, ForcedSound DEF ForceEther, Becomes, Adds
<1> QED
  BY <1>1, <1>2, <1>3 DEF Deposits, FundsEpoch

\* A log that can be selected is genuine (_selectAuthenticatedLog).
LEMMA SelectedIsGenuine ==
    ASSUME NEW L, Sound(L, 0), NEW id, Selects(L, id)
    PROVE  Genuine(L, id)
  BY DEF Sound, LedgerType, Selects, Genuine

\* Evidence is stored (authenticate*, importCheckpoint,
\* authenticateAndImportCheckpoint).
LEMMA EvidenceAdds ==
    ASSUME Sound(ledger, 0), Authenticates \/ Imports
    PROVE  Adds
<1>1. ASSUME NEW ts, Authenticate(ts)
      PROVE  Adds
  BY <1>1, AuthenticatedSound DEF Authenticate, Becomes, Adds
<1>2. ASSUME NEW L, Sound(L, 0), GrewInto(ledger, L), NEW id \in LogIds, StoreFrom(L, id)
      PROVE  Adds
  <2>1. Sound(ledger', 0) /\ GrewInto(L, ledger') /\ call' = call
    BY <1>2, StoredSound DEF StoreFrom, Becomes
  <2> QED
    BY <1>2, <2>1, EffectsCompose DEF Adds
<1>3. ASSUME NEW id \in LogIds, ImportCheckpoint(id)
      PROVE  Adds
  <2>1. GrewInto(ledger, ledger)
    BY DEF GrewInto
  <2> QED
    BY <1>2, <1>3, <2>1 DEF ImportCheckpoint
<1>4. ASSUME NEW id \in LogIds, AuthenticateCheckpoint(id)
      PROVE  Adds
  <2>1. /\ Sound(Authenticated(ledger, {id[1]}), 0)
        /\ GrewInto(ledger, Authenticated(ledger, {id[1]}))
    BY <1>4, AuthenticatedSound DEF AuthenticateCheckpoint
  <2> QED
    BY <1>2, <1>4, <2>1 DEF AuthenticateCheckpoint
<1> QED
  BY <1>1, <1>3, <1>4 DEF Authenticates, Imports

\* A right is recognized by one of the four routes (recognizeFrom*,
\* authenticateAndRecognize*).
LEMMA RecognitionAdds ==
    ASSUME Sound(ledger, 0), Recognizes
    PROVE  Adds
<1>1. ASSUME NEW L, Sound(L, 0), GrewInto(ledger, L), NEW a \in Allocations,
             RecognizeIn(L, a), NEW id \in LogIds, Genuine(L, id), Shows(id, a)
      PROVE  Adds
  <2>1. Sound(ledger', 0) /\ GrewInto(L, ledger') /\ call' = call
    BY <1>1, RecognizedSound DEF RecognizeIn, Becomes
  <2> QED
    BY <1>1, <2>1, EffectsCompose DEF Adds
<1>2. GrewInto(ledger, ledger)
  BY DEF GrewInto
<1>3. ASSUME NEW id \in LogIds, NEW a \in Allocations, RecognizeFromCheckpoint(id, a)
      PROVE  Adds
  <2>1. Genuine(ledger, id) /\ Shows(id, a)
    BY <1>3 DEF RecognizeFromCheckpoint, Sound, History, CheckpointsGenuine, Shows
  <2> QED
    BY <1>1, <1>2, <1>3, <2>1 DEF RecognizeFromCheckpoint
<1>4. ASSUME NEW id \in LogIds, NEW a \in Allocations, AuthenticateAndRecognizeCheckpoint(id, a)
      PROVE  Adds
  <2> DEFINE L == Authenticated(ledger, {id[1]})
             M == Stored(L, id)
  <2>1. Sound(L, 0) /\ GrewInto(ledger, L)
    BY <1>4, AuthenticatedSound DEF AuthenticateAndRecognizeCheckpoint
  <2>2. Selects(L, id) /\ Storable(L, id) /\ InCheckpoint(a, LogOf(id).checkpoint)
        /\ RecognizeIn(M, a)
    BY <1>4 DEF AuthenticateAndRecognizeCheckpoint
  <2> HIDE DEF L
  <2>3. Sound(M, 0) /\ GrewInto(L, M)
    BY <2>1, <2>2, StoredSound
  <2>4. M.authenticated = L.authenticated
    BY <2>1 DEF Stored, Sound, LedgerType
  <2>5. Genuine(M, id) /\ Shows(id, a)
    BY <2>1, <2>2, <2>4, SelectedIsGenuine DEF Genuine, Shows, Storable
  <2> HIDE DEF M
  <2>6. GrewInto(ledger, M)
    BY <2>1, <2>3, GrowthIsTransitive
  <2> QED
    BY <1>1, <2>2, <2>3, <2>5, <2>6
<1>5. ASSUME NEW L, Sound(L, 0), GrewInto(ledger, L), NEW id \in LogIds, RecognizeSelected(L, id)
      PROVE  Adds
  <2>1. LogOf(id).allocation \in Allocations
    BY <1>5 DEF RecognizeSelected, Allocations
  <2>2. Genuine(L, id) /\ Shows(id, LogOf(id).allocation)
    BY <1>5, SelectedIsGenuine DEF RecognizeSelected, Shows
  <2> QED
    BY <1>1, <1>5, <2>1, <2>2 DEF RecognizeSelected
<1>6. ASSUME NEW id \in LogIds, RecognizeFromReceipt(id)
      PROVE  Adds
  BY <1>2, <1>5, <1>6 DEF RecognizeFromReceipt
<1>7. ASSUME NEW id \in LogIds, AuthenticateAndRecognizeReceipt(id)
      PROVE  Adds
  <2>1. /\ Sound(Authenticated(ledger, {id[1]}), 0)
        /\ GrewInto(ledger, Authenticated(ledger, {id[1]}))
    BY <1>7, AuthenticatedSound DEF AuthenticateAndRecognizeReceipt
  <2> QED
    BY <1>5, <1>7, <2>1 DEF AuthenticateAndRecognizeReceipt
<1> QED
  BY <1>3, <1>4, <1>6, <1>7 DEF Recognizes

-----------------------------------------------------------------------------
(* The invariant *)

\* The empty ledger is sound (WorkTreasury's constructor).
LEMMA TreasuryStarts == Init => TreasuryInv
<1> SUFFICES ASSUME Init
             PROVE  TreasuryInv
  OBVIOUS
<1>1. EmptyLedger \in LedgerType
  BY DEF EmptyLedger, LedgerType
<1>2. Accounted(EmptyLedger, 0)
  BY DEF EmptyLedger, Accounted, Liabilities
<1>3. History(EmptyLedger)
  BY DEF EmptyLedger, History, RightsBacked, RightsDistinct, CheckpointsGenuine,
         SentAsMarked, OnlyClaimsPaid, Claims, Newest, StoredFor
<1>4. Balanced(EmptyLedger)
  <2> DEFINE L == EmptyLedger
  <2>1. ASSUME NEW S, IsFiniteSet(S), NEW f, DOMAIN f = S, \A x \in S : f[x] = 0
        PROVE  SumFunction(f) = 0
    <3>1. SumFunction(f) = SumFunctionOnSet(f, S)
      BY <2>1, SumFunctionIsSum
    <3> QED
      BY <2>1, <3>1, SumOfZeros
  <2>2. SumFunction(L.freeBalance) = 0 /\ SumFunction(L.reserve) = 0
    BY <2>1, FiniteAssumption DEF EmptyLedger
  <2>3. IsFiniteSet({}) /\ AmountsOf({}) = 0
    <3>1. IsFiniteSet({})
      BY FS_EmptySet
    <3>2. \A f : SumFunctionOnSet(f, {}) = 0
      BY SumEmpty
    <3>3. \A f : (\A a \in {} : f[a] = a.amount) => AmountsOf({}) = SumFunctionOnSet(f, {})
      BY <3>1, AmountsAreSum
    <3>4. \A f : AmountsOf({}) = SumFunctionOnSet(f, {})
      BY <3>3
    <3> QED
      BY <3>1, <3>2, <3>4
  <2>4. OpenClaims(L) = {} /\ L.rights = {} /\ \A e \in Epochs : RightsOf(L, e) = {}
    BY DEF EmptyLedger, OpenClaims, Claims, RightsOf
  <2>5. TotalsMatch(L)
    <3>1. L.totalFree = 0 /\ L.totalReserve = 0 /\ L.totalClaim = 0
      BY DEF EmptyLedger
    <3> QED
      BY <2>2, <2>3, <2>4, <3>1 DEF TotalsMatch
  <2>6. \A e \in Epochs : WithinCap(L, e)
    <3>1. L.funded = {} /\ \A e \in Epochs : L.reserve[e] = 0 /\ L.recognized[e] = 0
      BY DEF EmptyLedger
    <3> HIDE DEF L
    <3> QED
      BY <2>3, <2>4, <3>1 DEF WithinCap
  <2> QED
    BY <2>3, <2>4, <2>5, <2>6 DEF Balanced
<1> QED
  BY <1>1, <1>2, <1>3, <1>4 DEF Init, TreasuryInv, Ledgers, Sound

\* Every step adds to the ledger, or ends a call and keeps or undoes it.
LEMMA StepsAdd ==
    ASSUME TreasuryInv, Next
    PROVE  Adds \/ CallReturns \/ CallReverts
<1>1. Sound(ledger, 0)
  BY DEF TreasuryInv, Ledgers
<1> QED
  BY <1>1, FundingAdds, EvidenceAdds, RecognitionAdds, WithdrawalAdds DEF Next

\* A receiver's call differs from none (nonReentrant).
LEMMA CallIsOpen ==
    ASSUME NEW to \in Contracts, NEW undo
    PROVE  /\ [to |-> to, undo |-> undo] # NoCall
           /\ [to |-> to, undo |-> undo].to = to
           /\ [to |-> to, undo |-> undo].undo = undo
  BY AddressAssumption DEF NoCall

\* The invariant is inductive, and every step adds to what was committed.
LEMMA TreasuryStep ==
    ASSUME TreasuryInv, [Next]_vars
    PROVE  TreasuryInv' /\ GrewInto(Committed, Committed')
<1>1. Sound(ledger, 0) /\ GrewInto(ledger, ledger)
  BY DEF TreasuryInv, Ledgers, GrewInto
<1>2. CASE UNCHANGED vars
  <2>1. ledger' = ledger /\ call' = call
    BY <1>2 DEF vars
  <2>2. Committed' = Committed /\ GrewInto(Committed, Committed)
    BY <2>1 DEF Committed, GrewInto
  <2> QED
    BY <2>1, <2>2 DEF TreasuryInv, Ledgers
<1>3. CASE Adds /\ call' = call /\ call = NoCall
  BY <1>3 DEF Adds, TreasuryInv, Ledgers, Committed
<1>4. CASE Adds /\ call' = call /\ call # NoCall
  <2>1. Sound(call.undo, 0) /\ GrewInto(call.undo, ledger)
    BY <1>4 DEF TreasuryInv, Ledgers
  <2>2. GrewInto(call.undo, ledger')
    BY <1>1, <1>4, <2>1, GrowthIsTransitive DEF Adds
  <2>3. GrewInto(call.undo, call.undo)
    BY DEF GrewInto
  <2> QED
    BY <1>4, <2>1, <2>2, <2>3 DEF Adds, TreasuryInv, Ledgers, Committed
<1>5. ASSUME Adds, call = NoCall,
             NEW to \in Contracts, call' = [to |-> to, undo |-> ledger]
      PROVE  TreasuryInv' /\ GrewInto(Committed, Committed')
  <2>1. call' # NoCall /\ call'.to = to /\ call'.undo = ledger
    BY <1>5, CallIsOpen
  <2> QED
    BY <1>1, <1>5, <2>1 DEF Adds, TreasuryInv, Ledgers, Committed
<1>6. CASE CallReturns
  BY <1>1, <1>6 DEF CallReturns, TreasuryInv, Ledgers, Committed
<1>7. CASE CallReverts
  <2>1. GrewInto(call.undo, call.undo)
    BY DEF GrewInto
  <2> QED
    BY <1>7, <2>1 DEF CallReverts, TreasuryInv, Ledgers, Committed
<1> QED
  BY <1>2, <1>3, <1>4, <1>5, <1>6, <1>7, StepsAdd DEF Adds

\* Both the ledger and the one that a revert restores are sound at every
\* moment (WorkTreasury.sol).
THEOREM TreasuryInvariant == Spec => []TreasuryInv
  BY TreasuryStarts, TreasuryStep, PTL DEF Spec

-----------------------------------------------------------------------------
(* What follows *)

\* The ledger's fields keep their types (WorkTreasury.sol, storage).
THEOREM TreasuryTypeCorrect == Spec => []TypeOK
<1>1. TreasuryInv => TypeOK
  BY DEF TreasuryInv, TypeOK, Sound
<1> QED
  BY <1>1, TreasuryInvariant, PTL

\* The treasury can pay what it owes, at every moment of every transaction
\* (liveLiabilities, forcedSurplus).
THEOREM AlwaysSolvent == Spec => []Solvent
<1>1. TreasuryInv => Solvent
  BY DEF TreasuryInv, Solvent, Sound, Accounted, LedgerType, Liabilities
<1> QED
  BY <1>1, TreasuryInvariant, PTL

\* What left for a claim is its amount once, and only if it is marked
\* withdrawn (_completeClaim).
THEOREM ClaimsPaidOnce == Spec => []PaidOnce
<1>1. TreasuryInv => PaidOnce
  BY DEF TreasuryInv, PaidOnce, Sound, History
<1> QED
  BY <1>1, TreasuryInvariant, PTL

\* Every right rests on an attested log of the pinned coordinator
\* (_selectAuthenticatedLog, _recognizeFromCheckpoint).
THEOREM RightsAreBacked == Spec => []EvidenceBacked
<1>1. TreasuryInv => EvidenceBacked
  BY DEF TreasuryInv, EvidenceBacked, Sound, History
<1> QED
  BY <1>1, TreasuryInvariant, PTL

\* The latest checkpoint is the last one on the source chain, in whatever
\* order checkpoints were imported (_storeCheckpoint).
THEOREM LatestAlwaysNewest == Spec => []LatestIsNewest
<1>1. TreasuryInv => LatestIsNewest
  BY DEF TreasuryInv, LatestIsNewest, Sound, History
<1> QED
  BY <1>1, TreasuryInvariant, PTL

\* No revert takes back what a finished transaction wrote.
THEOREM NothingCommittedIsLost == Spec => CommittedOnlyGrows
<1>1. TreasuryInv /\ [Next]_vars => [GrewInto(Committed, Committed')]_vars
  BY TreasuryStep
<1> QED
  BY <1>1, TreasuryInvariant, PTL DEF Spec, CommittedOnlyGrows

\* The running totals are the sums of the accounts they summarize (totalFreeLiability,
\* totalReserveLiability, totalClaimLiability).
THEOREM TotalsAlwaysMatch == Spec => []TotalsMatchAccounts
<1>1. TreasuryInv => TotalsMatchAccounts
  BY DEF TreasuryInv, TotalsMatchAccounts, Sound, Balanced
<1> QED
  BY <1>1, TreasuryInvariant, PTL

\* Of a funded epoch's cap nothing is recognized twice and nothing is lost: it is its
\* reserve plus the amounts of its rights (_recognize).
THEOREM CapIsKept == Spec => []EpochWithinCap
<1>1. TreasuryInv => EpochWithinCap
  BY DEF TreasuryInv, EpochWithinCap, Sound, Balanced
<1> QED
  BY <1>1, TreasuryInvariant, PTL

-----------------------------------------------------------------------------
(* The invoice book: every invoice shows a payment. *)

BookInv ==
    /\ TreasuryInv
    /\ invoices \in [EconomicIds -> [paidDestination : Accounts \cup {None}, amount : Nat]]
    /\ savedInvoices \in [EconomicIds -> [paidDestination : Accounts \cup {None}, amount : Nat]]
    /\ InvoicesArePayments

\* A ledger that only grew still shows the payments (completedClaim).
LEMMA AgreementKept ==
    ASSUME NEW L, NEW M, Sound(L, 0), Sound(M, 0), GrewInto(L, M),
           NEW records, Agree(records, L)
    PROVE  Agree(records, M)
<1> SUFFICES ASSUME NEW id \in EconomicIds, records[id] # NoInvoice
             PROVE  /\ M.paidTo[id] = records[id].paidDestination
                    /\ M.paidTo[id] # None
                    /\ M.sent[id] = records[id].amount
                    /\ \E a \in M.rights : /\ EconomicId(a) = id
                                           /\ a.kind = "WORK"
                                           /\ a.order = ExpectedOrder
                                           /\ Config[a.epoch].buyer = ExpectedBuyer
  BY DEF Agree
<1>1. /\ L.paidTo[id] = records[id].paidDestination /\ L.paidTo[id] # None
      /\ L.sent[id] = records[id].amount
  BY DEF Agree
<1>2. PICK a \in L.rights : /\ EconomicId(a) = id /\ a.kind = "WORK"
                            /\ a.order = ExpectedOrder
                            /\ Config[a.epoch].buyer = ExpectedBuyer
  BY DEF Agree
<1>3. M.paidTo[id] = L.paidTo[id] /\ a \in M.rights
  BY <1>1, <1>2 DEF GrewInto
<1>4. a \in Claims(L) /\ a \in Claims(M)
  BY <1>2, <1>3 DEF Claims, IsClaim
<1>5. L.sent[id] = a.amount /\ M.sent[id] = a.amount
  BY <1>1, <1>2, <1>3, <1>4 DEF Sound, History, SentAsMarked
<1> QED
  BY <1>1, <1>2, <1>3, <1>5

\* The committed ledger is one of those that are sound.
LEMMA CommittedSound ==
    ASSUME TreasuryInv
    PROVE  Sound(ledger, 0) /\ Sound(Committed, 0)
  BY DEF TreasuryInv, Ledgers, Committed

\* A record of a withdrawn claim agrees with the ledger it was read from
\* (recordPaidWork).
LEMMA RecordAgrees ==
    ASSUME BookInv, NEW a \in ledger.rights, RecordPaidWork(a)
    PROVE  /\ Agree(invoices', ledger)
           /\ invoices' \in [EconomicIds -> [paidDestination : Accounts \cup {None}, amount : Nat]]
<1>1. Sound(ledger, 0)
  BY CommittedSound DEF BookInv
<1>2. a \in Allocations /\ EconomicId(a) \in EconomicIds /\ a.amount \in Nat
  BY <1>1, AllocationAssumption DEF Sound, LedgerType, EconomicIds
<1>3. ledger.paidTo[EconomicId(a)] \in Accounts \cup {None}
  BY <1>1, <1>2 DEF Sound, LedgerType
<1>4. ledger.paidTo[EconomicId(a)] # None /\ a \in Claims(ledger)
  BY DEF RecordPaidWork, Claims, IsClaim
<1>5. ledger.sent[EconomicId(a)] = a.amount
  BY <1>1, <1>4 DEF Sound, History, SentAsMarked
<1>6. invoices' \in [EconomicIds -> [paidDestination : Accounts \cup {None}, amount : Nat]]
  BY <1>2, <1>3 DEF BookInv, RecordPaidWork
<1>7. /\ invoices'[EconomicId(a)] =
            [paidDestination |-> ledger.paidTo[EconomicId(a)], amount |-> a.amount]
      /\ \A id \in EconomicIds \ {EconomicId(a)} : invoices'[id] = invoices[id]
  BY <1>2 DEF BookInv, RecordPaidWork
<1>8. Agree(invoices', ledger)
  <2> SUFFICES ASSUME NEW id \in EconomicIds, invoices'[id] # NoInvoice
               PROVE  /\ ledger.paidTo[id] = invoices'[id].paidDestination
                      /\ ledger.paidTo[id] # None
                      /\ ledger.sent[id] = invoices'[id].amount
                      /\ \E b \in ledger.rights : /\ EconomicId(b) = id
                                                  /\ b.kind = "WORK"
                                                  /\ b.order = ExpectedOrder
                                                  /\ Config[b.epoch].buyer = ExpectedBuyer
    BY DEF Agree
  <2>1. CASE id = EconomicId(a)
    BY <1>4, <1>5, <1>7, <2>1 DEF RecordPaidWork
  <2>2. CASE id # EconomicId(a)
    BY <1>7, <2>2 DEF BookInv, InvoicesArePayments, Agree
  <2> QED
    BY <2>1, <2>2
<1> QED
  BY <1>6, <1>8

\* Nothing is recorded at first (PaidInvoiceBook's constructor).
LEMMA BookStarts == BookInit => BookInv
<1> SUFFICES ASSUME BookInit
             PROVE  BookInv
  OBVIOUS
<1>1. TreasuryInv
  BY TreasuryStarts DEF BookInit
<1>2. invoices \in [EconomicIds -> [paidDestination : Accounts \cup {None}, amount : Nat]]
  BY DEF BookInit, NoInvoice
<1>3. Agree(invoices, ledger) /\ Agree(invoices, Committed)
  BY DEF BookInit, Agree
<1> QED
  BY <1>1, <1>2, <1>3 DEF BookInit, BookInv, InvoicesArePayments

\* Every step of the book and of the treasury keeps the agreement.
LEMMA BookStep ==
    ASSUME BookInv, [BookNext]_bookVars
    PROVE  BookInv'
<1>1. CASE UNCHANGED bookVars
  <2>1. UNCHANGED vars
    BY <1>1 DEF bookVars, vars
  <2>2. TreasuryInv'
    BY <2>1, TreasuryStep DEF BookInv
  <2>3. Committed' = Committed
    BY <1>1 DEF bookVars, Committed
  <2> QED
    BY <1>1, <2>2, <2>3 DEF bookVars, BookInv, InvoicesArePayments
<1>2. ASSUME NEW a \in ledger.rights, RecordPaidWork(a)
      PROVE  BookInv'
  <2>1. ledger' = ledger /\ call' = call /\ Committed' = Committed
    BY <1>2 DEF RecordPaidWork, Committed
  <2>2. TreasuryInv'
    BY <2>1, TreasuryStep DEF BookInv, vars
  <2>3. CASE call = NoCall
    BY <1>2, <2>1, <2>2, <2>3, RecordAgrees
    DEF RecordPaidWork, BookInv, InvoicesArePayments, Committed
  <2>4. CASE call # NoCall
    BY <1>2, <2>1, <2>2, <2>4, RecordAgrees DEF RecordPaidWork, BookInv, InvoicesArePayments
  <2> QED
    BY <2>3, <2>4
<1>3. CASE Treasurys
  <2>1. Next
    BY <1>3 DEF Treasurys, Next
  <2>2. TreasuryInv' /\ GrewInto(Committed, Committed')
    BY <2>1, TreasuryStep DEF BookInv
  <2>3. Sound(ledger, 0) /\ Sound(Committed, 0) /\ Sound(ledger', 0) /\ Sound(Committed', 0)
    <3>1. Sound(ledger, 0) /\ Sound(Committed, 0)
      BY CommittedSound DEF BookInv
    <3>2. Sound(ledger', 0) /\ Sound(Committed', 0)
      BY <2>2 DEF TreasuryInv, Ledgers, Committed
    <3> QED
      BY <3>1, <3>2
  <2>4. CASE CallReverts /\ invoices' = savedInvoices /\ UNCHANGED savedInvoices
    <3>1. ledger' = Committed /\ Committed' = Committed
      BY <2>4 DEF CallReverts, Committed
    <3> QED
      BY <2>2, <2>4, <3>1 DEF BookInv, InvoicesArePayments
  <2>5. CASE CallReturns /\ savedInvoices' = invoices /\ UNCHANGED invoices
    <3>1. ledger' = ledger /\ Committed' = ledger
      BY <2>5 DEF CallReturns, Committed
    <3> QED
      BY <2>2, <2>5, <3>1 DEF BookInv, InvoicesArePayments
  <2>6. CASE Withdraws /\ savedInvoices' = invoices /\ UNCHANGED invoices
    <3>1. Adds
      BY <2>3, <2>6, WithdrawalAdds
    <3>2. Agree(invoices, ledger')
      BY <2>3, <3>1, AgreementKept DEF Adds, BookInv, InvoicesArePayments
    <3>3. call = NoCall
      BY <2>6 DEF Withdraws, WithdrawFor, OwnerWithdrawTo, WithdrawFreeFor, OwnerWithdrawFreeTo,
                  WithdrawFree, NonReentrant
    <3>4. Committed' = ledger' \/ Committed' = ledger
      BY <3>1, <3>3, CallIsOpen DEF Adds, Committed
    <3> QED
      BY <2>2, <2>6, <3>2, <3>4 DEF BookInv, InvoicesArePayments
  <2>7. CASE /\ Deposits \/ FundsEpoch \/ Authenticates \/ Imports \/ Recognizes \/ ForceEther
             /\ UNCHANGED <<invoices, savedInvoices>>
    <3>1. Adds
      BY <2>3, <2>7, FundingAdds, EvidenceAdds, RecognitionAdds
    <3>2. Agree(invoices, ledger') /\ Agree(savedInvoices, Committed')
      BY <2>2, <2>3, <3>1, AgreementKept DEF Adds, BookInv, InvoicesArePayments
    <3> QED
      BY <2>2, <2>7, <3>2 DEF BookInv, InvoicesArePayments
  <2> QED
    BY <1>3, <2>4, <2>5, <2>6, <2>7 DEF Treasurys
<1> QED
  BY <1>1, <1>2, <1>3 DEF BookNext

\* Every invoice shows a payment that was made, at every moment and after any
\* revert (recordPaidWork).
THEOREM InvoicesShowPayments == BookSpec => []InvoicesArePayments
<1>1. BookInv => InvoicesArePayments
  BY DEF BookInv
<1> QED
  BY <1>1, BookStarts, BookStep, PTL DEF BookSpec
=============================================================================
