----------------------- MODULE SourceCoordinatorProofs -----------------------
(***************************************************************************)
(* Theorems about the source ledger.  Each function of the epoch's record  *)
(* preserves EpochInv under the guards its callers apply: the lemmas of    *)
(* the first part, one for each way a transaction moves the budget.        *)
(*                                                                         *)
(* Whatever a transaction does to the orders, milestones and signatures,   *)
(* it changes the epoch's record by one of these functions (Moves), and    *)
(* either emits the new checkpoint or leaves what a checkpoint states      *)
(* alone (Announced).  Every action is proved to do so; what follows is    *)
(* proved about Moves.                                                     *)
(***************************************************************************)
EXTENDS SourceSafety, SumTheorems, SequenceTheorems, TLAPS

-----------------------------------------------------------------------------
(* The functions of SourceAccounting. *)

\* validateConfig and the limits, as the proofs below use them.
LEMMA Numbers ==
    /\ MaxMilestones \in Nat /\ MaxMilestones > 0
    /\ MaxActiveReturns \in Nat
    /\ MaxDrainingReturns \in Nat
    /\ TreeCapacity \in Nat
    /\ Cap \in Nat /\ Cap > 0
    /\ MaxMilestones + 1 <= MaxDrainingReturns
  BY LimitsAssumption, ConfigAssumption, SweepAssumption

\* A return leaf is a leaf.
LEMMA ReturnLeafType ==
  ASSUME NEW amount \in Nat
  PROVE  ReturnLeaf(amount) \in Leaf
  BY DEF ReturnLeaf, Allocation, Leaf, Owners, Destinations, Kinds

\* Storage that was never written satisfies the invariant.
LEMMA NoEpochInv == EpochInv(NoEpoch)
<1>1. << >> \in LeafSeq
  BY EmptySeq DEF LeafSeq
<1>2. NoEpoch \in EpochType
  BY <1>1 DEF NoEpoch, EpochType, Phases
<1>3. ~ NoEpoch.exists
  BY DEF NoEpoch
<1> QED BY <1>2, <1>3 DEF EpochInv

\* The amounts and counters of a record are numbers.
LEMMA EpochNumbers ==
  ASSUME NEW e \in EpochType
  PROVE  /\ e.reservations \in Nat /\ e.unresolvedMilestones \in Nat
         /\ e.activeReturns \in Nat /\ e.drainingReturns \in Nat
         /\ e.available \in Nat /\ e.unresolved \in Nat
         /\ e.earned \in Nat /\ e.returned \in Nat
         /\ e.tree \in LeafSeq /\ Len(e.tree) \in Nat
         /\ e.phase \in Phases /\ e.exists \in BOOLEAN /\ e.expired \in BOOLEAN
  BY LenProperties DEF EpochType, LeafSeq

\* _maybeClose changes the phase only.
LEMMA MaybeCloseFields ==
  ASSUME NEW e \in EpochType
  PROVE  /\ MaybeClose(e) \in EpochType
         /\ MaybeClose(e).phase =
               IF e.available = 0 /\ e.unresolved = 0 THEN "CLOSED" ELSE e.phase
         /\ MaybeClose(e).exists = e.exists
         /\ MaybeClose(e).expired = e.expired
         /\ MaybeClose(e).reservations = e.reservations
         /\ MaybeClose(e).unresolvedMilestones = e.unresolvedMilestones
         /\ MaybeClose(e).activeReturns = e.activeReturns
         /\ MaybeClose(e).drainingReturns = e.drainingReturns
         /\ MaybeClose(e).available = e.available
         /\ MaybeClose(e).unresolved = e.unresolved
         /\ MaybeClose(e).earned = e.earned
         /\ MaybeClose(e).returned = e.returned
         /\ MaybeClose(e).tree = e.tree
  BY DEF MaybeClose, EpochType, Phases

\* LeavesInv of an epoch that was opened, over the numbers it compares.
LEMMA LeavesInvNumbers ==
  ASSUME NEW g, ~ g.expired,
         NEW leaves \in Nat, NEW settled \in Int, NEW active \in Nat, NEW draining \in Nat,
         Len(g.tree) = leaves,
         g.reservations - g.unresolvedMilestones = settled,
         g.activeReturns = active, g.drainingReturns = draining
  PROVE  LeavesInv(g) <=> leaves <= 2 * settled + active + draining
<1>1. LeavesInv(g) <=> leaves <= 2 * settled + active + draining + 0
  BY DEF LeavesInv
<1> QED BY <1>1

\* initializeEpoch: all of the cap is free.
LEMMA OpenedInv == EpochInv(OpenedEpoch)
<1>1. NoEpoch \in EpochType
  BY NoEpochInv DEF EpochInv
<1>2. OpenedEpoch \in EpochType
  BY <1>1, Numbers DEF OpenedEpoch, EpochType, Phases
<1>3. Len(OpenedEpoch.tree) = 0
  BY EmptySeq DEF OpenedEpoch, NoEpoch
<1> QED
  BY <1>2, <1>3, Numbers DEF EpochInv, Conserves, ClosureInv, CountersInv, LeavesInv,
     SweepInv, OpenedEpoch, NoEpoch

\* expireUninitializedEpoch: all of the cap is returned, in one leaf.
LEMMA ExpiredInv ==
  ASSUME NEW leaf \in Leaf
  PROVE  EpochInv(ExpiredEpoch(leaf))
<1>1. NoEpoch \in EpochType
  BY NoEpochInv DEF EpochInv
<1>2. << leaf >> \in LeafSeq /\ Len(<< leaf >>) = 1
  BY DEF LeafSeq
<1>3. ExpiredEpoch(leaf) \in EpochType
  BY <1>1, <1>2, Numbers DEF ExpiredEpoch, EpochType, Phases
<1> QED
  BY <1>2, <1>3, Numbers DEF EpochInv, Conserves, ClosureInv, CountersInv, LeavesInv,
     SweepInv, ExpiredEpoch, NoEpoch

\* _reserveOrder of an order with n milestones and a positive total.
LEMMA ReservedInv ==
  ASSUME NEW e, EpochInv(e), e.exists, e.phase = "ACTIVE",
         NEW n \in Nat, NEW reserve \in Nat \ {0},
         e.reservations + n <= MaxMilestones,
         reserve <= e.available
  PROVE  EpochInv(Reserved(e, n, reserve))
<1> DEFINE f == Reserved(e, n, reserve)
<1>1. /\ e \in EpochType
      /\ Conserves(e) /\ ClosureInv(e) /\ CountersInv(e) /\ LeavesInv(e) /\ SweepInv(e)
  BY DEF EpochInv
<1> USE EpochNumbers, Numbers
<1>2. f \in EpochType
  <2>1. /\ e.reservations + n \in Nat
        /\ e.unresolvedMilestones + n \in Nat
        /\ e.available - reserve \in Nat
        /\ e.unresolved + reserve \in Nat
    BY <1>1
  <2> QED BY <1>1, <2>1 DEF EpochType, Reserved
<1>3. /\ f.exists = e.exists /\ f.expired = e.expired /\ f.phase = e.phase
      /\ f.reservations = e.reservations + n
      /\ f.unresolvedMilestones = e.unresolvedMilestones + n
      /\ f.activeReturns = e.activeReturns /\ f.drainingReturns = e.drainingReturns
      /\ f.available = e.available - reserve /\ f.unresolved = e.unresolved + reserve
      /\ f.earned = e.earned /\ f.returned = e.returned /\ f.tree = e.tree
  BY <1>1 DEF EpochType, Reserved
<1> HIDE DEF f
<1>4. Conserves(f)
  BY <1>1, <1>3 DEF Conserves
<1>5. ClosureInv(f)
  BY <1>1, <1>3 DEF ClosureInv
<1>6. CountersInv(f)
  BY <1>1, <1>3 DEF CountersInv
<1>7. f.reservations - f.unresolvedMilestones = e.reservations - e.unresolvedMilestones
  BY <1>1, <1>3
<1>8. LeavesInv(f) /\ SweepInv(f)
  BY <1>1, <1>3, <1>7 DEF LeavesInv, SweepInv
<1>9. EpochInv(f)
  BY <1>2, <1>3, <1>4, <1>5, <1>6, <1>8 DEF EpochInv
<1> QED BY <1>9 DEF f

\* Every operation that may close the epoch does it last.
LEMMA ClosingInv ==
  ASSUME NEW g \in EpochType, g.exists, g.phase \in {"ACTIVE", "DRAINING"}, ~ g.expired,
         Conserves(g), CountersInv(g), LeavesInv(g), SweepInv(g)
  PROVE  EpochInv(MaybeClose(g))
<1> DEFINE f == MaybeClose(g)
<1>1. /\ f \in EpochType
      /\ f.phase = IF g.available = 0 /\ g.unresolved = 0 THEN "CLOSED" ELSE g.phase
      /\ f.exists = g.exists /\ f.expired = g.expired
      /\ f.reservations = g.reservations
      /\ f.unresolvedMilestones = g.unresolvedMilestones
      /\ f.activeReturns = g.activeReturns /\ f.drainingReturns = g.drainingReturns
      /\ f.available = g.available /\ f.unresolved = g.unresolved
      /\ f.earned = g.earned /\ f.returned = g.returned /\ f.tree = g.tree
  BY MaybeCloseFields
<1> HIDE DEF f
<1>2. Conserves(f)
  BY <1>1 DEF Conserves
<1>3. ClosureInv(f)
  BY <1>1 DEF ClosureInv
<1>4. CountersInv(f) /\ LeavesInv(f)
  BY <1>1 DEF CountersInv, LeavesInv
<1>5. SweepInv(f)
  BY <1>1 DEF SweepInv
<1>6. EpochInv(f)
  BY <1>1, <1>2, <1>3, <1>4, <1>5 DEF EpochInv
<1> QED BY <1>6 DEF f

\* An epoch that carries a reserve exists and is open.
LEMMA CoveredIsOpen ==
  ASSUME NEW e, EpochInv(e), NEW n \in Nat \ {0}, NEW reserve \in Nat \ {0},
         Covers(e, n, reserve)
  PROVE  e.exists /\ ~ e.expired /\ e.phase \in {"ACTIVE", "DRAINING"}
<1>1. e \in EpochType /\ e.unresolved # 0
  BY EpochNumbers DEF EpochInv, Covers
<1>2. e.exists
  BY <1>1 DEF EpochInv, NoEpoch
<1> QED BY <1>1, <1>2, EpochNumbers DEF EpochInv, ClosureInv, Phases

\* _finalizePendingOrder of an order with n milestones and a positive total: the
\* epoch does not close by it, since what was reserved is free again.
LEMMA RestoredInv ==
  ASSUME NEW e, EpochInv(e), NEW n \in Nat \ {0}, NEW reserve \in Nat \ {0},
         Covers(e, n, reserve)
  PROVE  /\ EpochInv(Restored(e, n, reserve))
         /\ Checkpoint(Restored(e, n, reserve)) = Checkpoint(e)
<1> DEFINE g == [e EXCEPT !.unresolvedMilestones = @ - n,
                          !.unresolved = @ - reserve,
                          !.available = @ + reserve]
<1>1. /\ e \in EpochType /\ e.exists /\ ~ e.expired /\ e.phase \in {"ACTIVE", "DRAINING"}
      /\ Conserves(e) /\ CountersInv(e) /\ LeavesInv(e) /\ SweepInv(e)
      /\ n <= e.unresolvedMilestones /\ reserve <= e.unresolved
  BY CoveredIsOpen DEF EpochInv, Covers
<1> USE EpochNumbers, Numbers
<1>2. g \in EpochType
  <2>1. /\ e.unresolvedMilestones - n \in Nat
        /\ e.unresolved - reserve \in Nat
        /\ e.available + reserve \in Nat
    BY <1>1
  <2> QED BY <1>1, <2>1 DEF EpochType
<1>3. /\ g.exists = e.exists /\ g.expired = e.expired /\ g.phase = e.phase
      /\ g.reservations = e.reservations
      /\ g.unresolvedMilestones = e.unresolvedMilestones - n
      /\ g.activeReturns = e.activeReturns /\ g.drainingReturns = e.drainingReturns
      /\ g.available = e.available + reserve /\ g.unresolved = e.unresolved - reserve
      /\ g.earned = e.earned /\ g.returned = e.returned /\ g.tree = e.tree
  BY <1>1 DEF EpochType
<1>4. Restored(e, n, reserve) = MaybeClose(g)
  BY DEF Restored
<1> HIDE DEF g
<1>5. Conserves(g)
  BY <1>1, <1>3 DEF Conserves
<1>6. CountersInv(g)
  BY <1>1, <1>3 DEF CountersInv
<1>7. LeavesInv(g) /\ SweepInv(g)
  <2>1. /\ e.reservations \in Nat /\ e.unresolvedMilestones \in Nat
        /\ e.activeReturns \in Nat /\ e.drainingReturns \in Nat
        /\ e.available \in Nat /\ Len(e.tree) \in Nat
    BY <1>1
  <2> DEFINE d == e.reservations - e.unresolvedMilestones
  <2>2. d \in Int /\ g.reservations - g.unresolvedMilestones = d + n
    BY <1>3, <2>1
  <2>3. Len(e.tree) <= 2 * d + e.activeReturns + e.drainingReturns
    BY <1>1 DEF LeavesInv
  <2>4. /\ e.phase = "ACTIVE" => e.drainingReturns = 0
        /\ e.phase = "DRAINING" => e.drainingReturns <= 1 + d
    BY <1>1, <2>1 DEF SweepInv
  <2> HIDE DEF d
  <2>5. LeavesInv(g)
    BY <1>1, <1>3, <2>1, <2>2, <2>3 DEF LeavesInv
  <2>6. SweepInv(g)
    BY <1>1, <1>3, <2>1, <2>2, <2>4 DEF SweepInv
  <2> QED BY <2>5, <2>6
<1>8. EpochInv(MaybeClose(g))
  BY <1>1, <1>2, <1>3, <1>5, <1>6, <1>7, ClosingInv
<1>9. MaybeClose(g).phase = e.phase
  BY <1>1, <1>2, <1>3, MaybeCloseFields
<1>10. Checkpoint(MaybeClose(g)) = Checkpoint(e)
  BY <1>2, <1>3, <1>9, MaybeCloseFields DEF Checkpoint
<1> QED BY <1>4, <1>8, <1>10

\* finalizeMilestone: at most two leaves for one milestone settled.
LEMMA ResolvedInv ==
  ASSUME NEW e, EpochInv(e), NEW reserve \in Nat \ {0},
         NEW paid \in Nat, paid <= reserve,
         Covers(e, 1, reserve),
         NEW leaves
  PROVE  leaves \in LeafSeq /\ Len(leaves) <= 2
            => EpochInv(Resolved(e, reserve, paid, leaves))
<1> DEFINE t == e.tree \o leaves
<1> DEFINE g == [e EXCEPT !.unresolvedMilestones = @ - 1,
                          !.unresolved = @ - reserve,
                          !.earned = @ + paid,
                          !.available = @ + (reserve - paid),
                          !.tree = @ \o leaves]
<1>1. /\ e \in EpochType /\ e.exists /\ ~ e.expired /\ e.phase \in {"ACTIVE", "DRAINING"}
      /\ Conserves(e) /\ CountersInv(e) /\ LeavesInv(e) /\ SweepInv(e)
      /\ 1 <= e.unresolvedMilestones /\ reserve <= e.unresolved
  BY CoveredIsOpen DEF EpochInv, Covers
<1>2. /\ e.reservations \in Nat /\ e.unresolvedMilestones \in Nat
      /\ e.activeReturns \in Nat /\ e.drainingReturns \in Nat
      /\ e.available \in Nat /\ e.unresolved \in Nat
      /\ e.earned \in Nat /\ e.returned \in Nat
      /\ e.tree \in LeafSeq /\ Len(e.tree) \in Nat
  BY <1>1, EpochNumbers
<1>3. ASSUME leaves \in LeafSeq
      PROVE  /\ t \in LeafSeq
             /\ Len(t) = Len(e.tree) + Len(leaves)
             /\ Len(leaves) \in Nat
  BY <1>2, <1>3, ConcatProperties, LenProperties DEF LeafSeq
<1>4. ASSUME t \in LeafSeq
      PROVE  g \in EpochType
  <2>1. /\ \A x \in Nat : 1 <= x => x - 1 \in Nat
        /\ \A x \in Nat : reserve <= x => x - reserve \in Nat
        /\ \A x \in Nat : x + paid \in Nat /\ x + (reserve - paid) \in Nat
    OBVIOUS
  <2>2. /\ e.unresolvedMilestones - 1 \in Nat
        /\ e.unresolved - reserve \in Nat
        /\ e.earned + paid \in Nat
        /\ e.available + (reserve - paid) \in Nat
    BY <1>1, <1>2, <2>1
  <2> QED BY <1>1, <1>4, <2>2 DEF EpochType
<1>5. /\ g.exists = e.exists /\ g.expired = e.expired /\ g.phase = e.phase
      /\ g.reservations = e.reservations
      /\ g.unresolvedMilestones = e.unresolvedMilestones - 1
      /\ g.activeReturns = e.activeReturns /\ g.drainingReturns = e.drainingReturns
      /\ g.available = e.available + (reserve - paid)
      /\ g.unresolved = e.unresolved - reserve
      /\ g.earned = e.earned + paid /\ g.returned = e.returned
      /\ g.tree = t
  BY <1>1 DEF EpochType
<1>6. Resolved(e, reserve, paid, leaves) = MaybeClose(g)
  BY DEF Resolved
<1> HIDE DEF g, t
<1>7. Conserves(g)
  <2> DEFINE v == e.available
  <2> DEFINE u == e.unresolved
  <2> DEFINE p == e.earned
  <2> DEFINE q == e.returned
  <2>1. v \in Nat /\ u \in Nat /\ p \in Nat /\ q \in Nat
    BY <1>2
  <2>2. /\ Conserves(e) <=> Cap = v + u + p + q
        /\ Conserves(g) <=> Cap = (v + (reserve - paid)) + (u - reserve) + (p + paid) + q
    BY <1>5 DEF Conserves
  <2> HIDE DEF v, u, p, q
  <2> QED BY <1>1, <2>1, <2>2
<1>8. CountersInv(g)
  BY <1>1, <1>2, <1>5, Numbers DEF CountersInv
<1> DEFINE d == e.reservations - e.unresolvedMilestones
<1>9. d \in Int /\ g.reservations - g.unresolvedMilestones = d + 1
  <2> DEFINE r == e.reservations
  <2> DEFINE u == e.unresolvedMilestones
  <2>1. r \in Nat /\ u \in Nat
    BY <1>2
  <2>2. g.reservations = r /\ g.unresolvedMilestones = u - 1 /\ d = r - u
    BY <1>5
  <2> HIDE DEF d, r, u
  <2> QED BY <2>1, <2>2
<1> HIDE DEF d
<1>10. ASSUME leaves \in LeafSeq, Len(leaves) <= 2
       PROVE  LeavesInv(g)
  <2> DEFINE x == Len(e.tree)
  <2> DEFINE y == Len(t)
  <2> DEFINE a == e.activeReturns
  <2> DEFINE b == e.drainingReturns
  <2>1. x \in Nat /\ a \in Nat /\ b \in Nat /\ y \in Nat /\ y <= x + 2
    <3>1. \A i, j \in Nat : j <= 2 => i + j \in Nat /\ i + j <= i + 2
      OBVIOUS
    <3> QED BY <1>2, <1>3, <1>10, <3>1
  <2>2. LeavesInv(e) <=> x <= 2 * d + a + b
    BY <1>1, <1>9, <2>1, LeavesInvNumbers DEF d
  <2>3. LeavesInv(g) <=> y <= 2 * (d + 1) + a + b
    <3>1. d + 1 \in Int
      BY <1>9
    <3> QED BY <1>1, <1>5, <1>9, <2>1, <3>1, LeavesInvNumbers
  <2> HIDE DEF x, y, a, b
  <2>4. x <= 2 * d + a + b => y <= 2 * (d + 1) + a + b
    BY <1>9, <2>1
  <2> QED BY <1>1, <2>2, <2>3, <2>4
<1>11. SweepInv(g)
  <2>1. /\ e.phase = "ACTIVE" => e.drainingReturns = 0
        /\ e.phase = "DRAINING" => e.drainingReturns <= 1 + d
    BY <1>1, <1>2 DEF SweepInv, d
  <2> QED BY <1>1, <1>2, <1>5, <1>9, <2>1 DEF SweepInv
<1> QED
  BY <1>1, <1>3, <1>4, <1>5, <1>6, <1>7, <1>8, <1>10, <1>11, ClosingInv

\* releaseFree: one leaf, one of the returns an active epoch has.
LEMMA ReleasedInv ==
  ASSUME NEW e, EpochInv(e), e.exists, e.phase = "ACTIVE",
         e.activeReturns < MaxActiveReturns,
         NEW amount \in Nat, amount <= e.available,
         NEW leaf \in Leaf
  PROVE  EpochInv(Released(e, amount, leaf))
<1> DEFINE t == Append(e.tree, leaf)
<1> DEFINE g == [e EXCEPT !.activeReturns = @ + 1,
                          !.available = @ - amount,
                          !.returned = @ + amount,
                          !.tree = Append(@, leaf)]
<1>1. /\ e \in EpochType /\ ~ e.expired
      /\ Conserves(e) /\ CountersInv(e) /\ LeavesInv(e) /\ SweepInv(e)
  BY DEF EpochInv, ClosureInv
<1>2. /\ e.reservations \in Nat /\ e.unresolvedMilestones \in Nat
      /\ e.activeReturns \in Nat /\ e.drainingReturns \in Nat
      /\ e.available \in Nat /\ e.unresolved \in Nat
      /\ e.earned \in Nat /\ e.returned \in Nat
      /\ e.tree \in LeafSeq /\ Len(e.tree) \in Nat
  BY <1>1, EpochNumbers
<1>3. /\ t \in LeafSeq
      /\ Len(t) = Len(e.tree) + 1
  BY <1>2 DEF LeafSeq
<1>4. g \in EpochType
  <2>1. /\ e.activeReturns + 1 \in Nat
        /\ e.available - amount \in Nat
        /\ e.returned + amount \in Nat
    BY <1>2
  <2> QED BY <1>1, <1>3, <2>1 DEF EpochType
<1>5. /\ g.exists = e.exists /\ g.expired = e.expired /\ g.phase = e.phase
      /\ g.reservations = e.reservations
      /\ g.unresolvedMilestones = e.unresolvedMilestones
      /\ g.activeReturns = e.activeReturns + 1 /\ g.drainingReturns = e.drainingReturns
      /\ g.available = e.available - amount /\ g.unresolved = e.unresolved
      /\ g.earned = e.earned /\ g.returned = e.returned + amount
      /\ g.tree = t
  BY <1>1 DEF EpochType
<1>6. Released(e, amount, leaf) = MaybeClose(g)
  BY DEF Released
<1> HIDE DEF g, t
<1>7. Conserves(g)
  BY <1>1, <1>2, <1>5, Numbers DEF Conserves
<1>8. CountersInv(g)
  BY <1>1, <1>2, <1>5, Numbers DEF CountersInv
<1>9. LeavesInv(g)
  <2> DEFINE x == Len(e.tree)
  <2> DEFINE y == Len(t)
  <2> DEFINE d == e.reservations - e.unresolvedMilestones
  <2> DEFINE a == e.activeReturns
  <2> DEFINE b == e.drainingReturns
  <2>1. x \in Nat /\ a \in Nat /\ b \in Nat /\ d \in Int /\ y = x + 1
    BY <1>2, <1>3
  <2>2. LeavesInv(e) <=> x <= 2 * d + a + b
    BY <1>1, <2>1, LeavesInvNumbers
  <2>3. g.reservations - g.unresolvedMilestones = d
    BY <1>5
  <2>4. x + 1 \in Nat /\ a + 1 \in Nat /\ b + 1 \in Nat
    BY <2>1
  <2>5. LeavesInv(g) <=> y <= 2 * d + (a + 1) + b
    BY <1>1, <1>5, <2>1, <2>3, <2>4, LeavesInvNumbers
  <2> HIDE DEF x, y, d, a, b
  <2>6. x <= 2 * d + a + b => y <= 2 * d + (a + 1) + b
    BY <2>1
  <2> QED BY <1>1, <2>2, <2>5, <2>6
<1>10. SweepInv(g)
  BY <1>1, <1>2, <1>5 DEF SweepInv
<1> QED
  BY <1>1, <1>4, <1>5, <1>6, <1>7, <1>8, <1>9, <1>10, ClosingInv

\* sweepAvailable: the free budget is gone, so the sweeps made are at most one more
\* than the settlements; there was one left because there was something to sweep.
LEMMA SweptInv ==
  ASSUME NEW e, EpochInv(e), e.exists, e.phase = "DRAINING",
         e.available # 0, NEW leaf \in Leaf
  PROVE  /\ e.drainingReturns < MaxDrainingReturns
         /\ EpochInv(Swept(e, leaf))
<1> DEFINE t == Append(e.tree, leaf)
<1> DEFINE g == [e EXCEPT !.drainingReturns = @ + 1,
                          !.available = 0,
                          !.returned = @ + e.available,
                          !.tree = Append(@, leaf)]
<1>1. /\ e \in EpochType /\ ~ e.expired
      /\ Conserves(e) /\ CountersInv(e) /\ LeavesInv(e) /\ SweepInv(e)
  BY DEF EpochInv, ClosureInv
<1>2. /\ e.reservations \in Nat /\ e.unresolvedMilestones \in Nat
      /\ e.activeReturns \in Nat /\ e.drainingReturns \in Nat
      /\ e.available \in Nat /\ e.unresolved \in Nat
      /\ e.earned \in Nat /\ e.returned \in Nat
      /\ e.tree \in LeafSeq /\ Len(e.tree) \in Nat
  BY <1>1, EpochNumbers
<1>3. /\ t \in LeafSeq
      /\ Len(t) = Len(e.tree) + 1
  BY <1>2 DEF LeafSeq
<1>4. e.drainingReturns + 1 <= 1 + (e.reservations - e.unresolvedMilestones)
  BY <1>1, <1>2 DEF SweepInv
<1>5. e.drainingReturns + 1 <= MaxDrainingReturns
  BY <1>1, <1>2, <1>4, Numbers DEF CountersInv
<1>6. g \in EpochType
  <2>1. e.drainingReturns + 1 \in Nat /\ e.returned + e.available \in Nat
    BY <1>2
  <2> QED BY <1>1, <1>3, <2>1 DEF EpochType
<1>7. /\ g.exists = e.exists /\ g.expired = e.expired /\ g.phase = e.phase
      /\ g.reservations = e.reservations
      /\ g.unresolvedMilestones = e.unresolvedMilestones
      /\ g.activeReturns = e.activeReturns /\ g.drainingReturns = e.drainingReturns + 1
      /\ g.available = 0 /\ g.unresolved = e.unresolved
      /\ g.earned = e.earned /\ g.returned = e.returned + e.available
      /\ g.tree = t
  BY <1>1 DEF EpochType
<1>8. Swept(e, leaf) = MaybeClose(g)
  BY DEF Swept
<1> HIDE DEF g, t
<1>9. Conserves(g)
  BY <1>1, <1>2, <1>7, Numbers DEF Conserves
<1>10. CountersInv(g)
  BY <1>1, <1>2, <1>5, <1>7, Numbers DEF CountersInv
<1>11. LeavesInv(g)
  <2> DEFINE x == Len(e.tree)
  <2> DEFINE y == Len(t)
  <2> DEFINE d == e.reservations - e.unresolvedMilestones
  <2> DEFINE a == e.activeReturns
  <2> DEFINE b == e.drainingReturns
  <2>1. x \in Nat /\ a \in Nat /\ b \in Nat /\ d \in Int /\ y = x + 1
    BY <1>2, <1>3
  <2>2. LeavesInv(e) <=> x <= 2 * d + a + b
    BY <1>1, <2>1, LeavesInvNumbers
  <2>3. g.reservations - g.unresolvedMilestones = d
    BY <1>7
  <2>4. x + 1 \in Nat /\ a + 1 \in Nat /\ b + 1 \in Nat
    BY <2>1
  <2>5. LeavesInv(g) <=> y <= 2 * d + a + (b + 1)
    BY <1>1, <1>7, <2>1, <2>3, <2>4, LeavesInvNumbers
  <2> HIDE DEF x, y, d, a, b
  <2>6. x <= 2 * d + a + b => y <= 2 * d + a + (b + 1)
    BY <2>1
  <2> QED BY <1>1, <2>2, <2>5, <2>6
<1>12. SweepInv(g)
  BY <1>2, <1>4, <1>7 DEF SweepInv
<1>13. EpochInv(MaybeClose(g))
  BY <1>1, <1>6, <1>7, <1>9, <1>10, <1>11, <1>12, ClosingInv
<1> QED BY <1>2, <1>5, <1>8, <1>13, Numbers

\* startDraining: no sweep was made yet, so the first one is still there.
LEMMA DrainedInv ==
  ASSUME NEW e, EpochInv(e), e.exists, e.phase = "ACTIVE"
  PROVE  EpochInv(Drained(e))
<1> DEFINE g == [e EXCEPT !.phase = "DRAINING"]
<1>1. /\ e \in EpochType /\ ~ e.expired
      /\ Conserves(e) /\ CountersInv(e) /\ LeavesInv(e) /\ SweepInv(e)
  BY DEF EpochInv, ClosureInv
<1>2. /\ e.reservations \in Nat /\ e.unresolvedMilestones \in Nat
      /\ e.drainingReturns \in Nat /\ e.available \in Nat
  BY <1>1, EpochNumbers
<1>3. g \in EpochType
  BY <1>1 DEF EpochType, Phases
<1>4. /\ g.exists = e.exists /\ g.expired = e.expired /\ g.phase = "DRAINING"
      /\ g.reservations = e.reservations
      /\ g.unresolvedMilestones = e.unresolvedMilestones
      /\ g.activeReturns = e.activeReturns /\ g.drainingReturns = e.drainingReturns
      /\ g.available = e.available /\ g.unresolved = e.unresolved
      /\ g.earned = e.earned /\ g.returned = e.returned /\ g.tree = e.tree
  BY <1>1 DEF EpochType
<1>5. Drained(e) = MaybeClose(g)
  BY DEF Drained
<1> HIDE DEF g
<1>6. Conserves(g) /\ CountersInv(g) /\ LeavesInv(g)
  BY <1>1, <1>4 DEF Conserves, CountersInv, LeavesInv
<1>7. SweepInv(g)
  BY <1>1, <1>2, <1>4 DEF SweepInv, CountersInv
<1> QED
  BY <1>1, <1>3, <1>4, <1>5, <1>6, <1>7, ClosingInv

\* What the invariant is for: the slot requirement stays below what the tree holds.
LEMMA HeadroomFromInv ==
  ASSUME NEW e, EpochInv(e)
  PROVE  /\ SlotRequirement(e)
              <= 2 * MaxMilestones + MaxActiveReturns + MaxDrainingReturns + 1
         /\ SlotSafe(e)
<1>1. /\ e \in EpochType /\ (~ e.exists => e = NoEpoch)
      /\ e.exists => CountersInv(e) /\ LeavesInv(e) /\ ClosureInv(e)
  BY DEF EpochInv
<1>2. /\ e.reservations \in Nat /\ e.unresolvedMilestones \in Nat
      /\ e.activeReturns \in Nat /\ e.drainingReturns \in Nat
      /\ Len(e.tree) \in Nat
  BY <1>1, EpochNumbers
<1>3. /\ Len(NoEpoch.tree) = 0
      /\ NoEpoch.unresolvedMilestones = 0 /\ NoEpoch.drainingReturns = 0
      /\ NoEpoch.phase = "NONE"
  BY EmptySeq DEF NoEpoch
<1>4. SlotRequirement(e)
         <= 2 * MaxMilestones + MaxActiveReturns + MaxDrainingReturns + 1
  <2>1. CASE ~ e.exists
    <3>1. e = NoEpoch
      BY <1>1, <2>1
    <3> QED BY <1>3, <3>1, Numbers DEF SlotRequirement
  <2>2. CASE e.exists
    <3> DEFINE l == Len(e.tree)
    <3> DEFINE r == e.reservations
    <3> DEFINE u == e.unresolvedMilestones
    <3> DEFINE a == e.activeReturns
    <3> DEFINE b == e.drainingReturns
    <3> DEFINE x == IF e.expired THEN 1 ELSE 0
    <3> DEFINE p == IF e.phase = "ACTIVE" THEN MaxActiveReturns - a ELSE 0
    <3> DEFINE q == IF e.phase # "CLOSED" THEN MaxDrainingReturns - b ELSE 0
    <3>1. l \in Nat /\ r \in Nat /\ u \in Nat /\ a \in Nat /\ b \in Nat
      BY <1>2
    <3>2. r <= MaxMilestones /\ u <= r /\ a <= MaxActiveReturns /\ b <= MaxDrainingReturns
      BY <1>1, <2>2 DEF CountersInv
    <3>3. l <= 2 * (r - u) + a + b + x
      BY <1>1, <2>2 DEF LeavesInv
    <3>4. x \in {0, 1} /\ (x = 1 => q = 0 /\ b = 0)
      BY <1>1, <2>2 DEF ClosureInv
    <3>5. p \in {0, MaxActiveReturns - a}
      OBVIOUS
    <3>6. q \in {0, MaxDrainingReturns - b}
      OBVIOUS
    <3>7. SlotRequirement(e) = l + 2 * u + 1 + p + q
      BY DEF SlotRequirement
    <3> HIDE DEF l, r, u, a, b, x, p, q
    <3>8. p <= MaxActiveReturns - a
      BY <3>1, <3>2, <3>5, Numbers
    <3>9. x + q <= MaxDrainingReturns - b
      BY <3>1, <3>2, <3>4, <3>6, Numbers
    <3> QED BY <3>1, <3>2, <3>3, <3>4, <3>5, <3>6, <3>7, <3>8, <3>9, Numbers
  <2> QED BY <2>1, <2>2
<1>5. SlotRequirement(e) \in Int
  <2> DEFINE p == IF e.phase = "ACTIVE" THEN MaxActiveReturns - e.activeReturns ELSE 0
  <2> DEFINE q == IF e.phase # "CLOSED" THEN MaxDrainingReturns - e.drainingReturns ELSE 0
  <2>1. p \in Int /\ q \in Int
    BY <1>2, Numbers
  <2>2. SlotRequirement(e) = Len(e.tree) + 2 * e.unresolvedMilestones + 1 + p + q
    BY DEF SlotRequirement
  <2> HIDE DEF p, q
  <2> QED BY <1>2, <2>1, <2>2
<1> QED BY <1>4, <1>5, Numbers, CapacityAssumption DEF SlotSafe

\* The slot requirement is at least what the tree holds already.
LEMMA RequirementCoversTree ==
  ASSUME NEW e \in EpochType, CountersInv(e)
  PROVE  SlotRequirement(e) \in Int /\ Len(e.tree) <= SlotRequirement(e)
<1> DEFINE l == Len(e.tree)
<1> DEFINE u == e.unresolvedMilestones
<1> DEFINE a == e.activeReturns
<1> DEFINE b == e.drainingReturns
<1> DEFINE p == IF e.phase = "ACTIVE" THEN MaxActiveReturns - a ELSE 0
<1> DEFINE q == IF e.phase # "CLOSED" THEN MaxDrainingReturns - b ELSE 0
<1>1. l \in Nat /\ u \in Nat /\ a \in Nat /\ b \in Nat
  BY EpochNumbers
<1>2. a <= MaxActiveReturns /\ b <= MaxDrainingReturns
  BY DEF CountersInv
<1>3. SlotRequirement(e) = l + 2 * u + 1 + p + q
  BY DEF SlotRequirement
<1>4. p \in {0, MaxActiveReturns - a} /\ q \in {0, MaxDrainingReturns - b}
  OBVIOUS
<1> HIDE DEF l, u, a, b, p, q
<1>5. p \in Nat /\ q \in Nat
  BY <1>1, <1>2, <1>4, Numbers
<1>6. SlotRequirement(e) \in Int /\ l <= SlotRequirement(e)
  BY <1>1, <1>3, <1>5
<1> QED BY <1>6 DEF l

-----------------------------------------------------------------------------
(* The ways a transaction moves the budget. *)

Opens(e, f) == ~ e.exists /\ f = OpenedEpoch

Expires(e, f) == ~ e.exists /\ \E leaf \in Leaf : f = ExpiredEpoch(leaf)

Reserves(e, f) ==
    /\ e.exists /\ e.phase = "ACTIVE"
    /\ \E n \in Nat, reserve \in Nat \ {0} :
          /\ e.reservations + n <= MaxMilestones
          /\ reserve <= e.available
          /\ f = Reserved(e, n, reserve)

Restores(e, f) ==
    \E n, reserve \in Nat \ {0} : Covers(e, n, reserve) /\ f = Restored(e, n, reserve)

Resolves(e, f) ==
    \E reserve \in Nat \ {0}, paid \in Nat, leaves \in LeafSeq :
        /\ paid <= reserve
        /\ Covers(e, 1, reserve)
        /\ Len(leaves) <= 2
        /\ f = Resolved(e, reserve, paid, leaves)

Releases(e, f) ==
    /\ e.exists /\ e.phase = "ACTIVE"
    /\ e.activeReturns < MaxActiveReturns
    /\ \E amount \in Nat \ {0}, leaf \in Leaf :
          amount <= e.available /\ f = Released(e, amount, leaf)

Sweeps(e, f) ==
    /\ e.exists /\ e.phase = "DRAINING" /\ e.available # 0
    /\ \E leaf \in Leaf : f = Swept(e, leaf)

Drains(e, f) == e.exists /\ e.phase = "ACTIVE" /\ f = Drained(e)

Moves(e, f) ==
    \/ f = e
    \/ Opens(e, f)
    \/ Expires(e, f)
    \/ Reserves(e, f)
    \/ Restores(e, f)
    \/ Resolves(e, f)
    \/ Releases(e, f)
    \/ Sweeps(e, f)
    \/ Drains(e, f)

\* The new checkpoint is emitted, or it would say what the last one says.
Announced ==
    \/ published' = Append(published, Checkpoint(epoch'))
    \/ /\ published' = published
       /\ Checkpoint(epoch') = Checkpoint(epoch)
       /\ epoch'.exists = epoch.exists

\* A transaction keeps the ledger's types, its admitted terms and its settled
\* milestones.
LedgerKept ==
    /\ orders' \in [Orders -> OrderType]
    /\ milestones' \in [MilestoneKeys -> MilestoneType]
    /\ OnlyAdmitted'
    /\ \A k \in MilestoneKeys :
          milestones[k].status = "FINAL" => milestones'[k] = milestones[k]

Kept == Moves(epoch, epoch') /\ Announced /\ LedgerKept

\* Every move preserves what is known of the epoch.
LEMMA MovesKeepEpochInv ==
  ASSUME NEW e, NEW f, EpochInv(e), Moves(e, f)
  PROVE  EpochInv(f)
<1>1. CASE f = e
  BY <1>1
<1>2. CASE Opens(e, f)
  BY <1>2, OpenedInv DEF Opens
<1>3. CASE Expires(e, f)
  BY <1>3, ExpiredInv DEF Expires
<1>4. CASE Reserves(e, f)
  BY <1>4, ReservedInv DEF Reserves
<1>5. CASE Restores(e, f)
  BY <1>5, RestoredInv DEF Restores
<1>6. CASE Resolves(e, f)
  BY <1>6, ResolvedInv DEF Resolves
<1>7. CASE Releases(e, f)
  BY <1>7, ReleasedInv DEF Releases
<1>8. CASE Sweeps(e, f)
  BY <1>8, SweptInv DEF Sweeps
<1>9. CASE Drains(e, f)
  BY <1>9, DrainedInv DEF Drains
<1> QED
  BY <1>1, <1>2, <1>3, <1>4, <1>5, <1>6, <1>7, <1>8, <1>9 DEF Moves

-----------------------------------------------------------------------------
(* Lemmas about the terms and the helpers of the actions. *)

\* A milestone key names a milestone of its order.
LEMMA KeyFacts ==
  ASSUME NEW k \in MilestoneKeys
  PROVE  /\ k[1] \in Orders /\ k[2] \in Nat
         /\ k \in MilestonesOf(k[1])
         /\ MTerms(k) \in MilestoneTerms
         /\ MReserve(k) \in Nat
<1>1. PICK o \in Orders : k \in MilestonesOf(o)
  BY DEF MilestoneKeys
<1>2. k[1] = o /\ k[2] \in 1 .. MilestoneCount(o)
  BY <1>1 DEF MilestonesOf
<1>3. Terms[o].milestones \in Seq(MilestoneTerms)
  BY TermsAssumption
<1>4. MTerms(k) \in MilestoneTerms
  BY <1>2, <1>3, ElementOfSeq DEF MTerms, MilestoneCount
<1>5. MReserve(k) \in Nat
  BY <1>4 DEF MReserve, MilestoneTerms
<1> QED BY <1>1, <1>2, <1>4, <1>5

\* The terms validateTerms accepts have milestones, and each has a reserve.
LEMMA WellFormedFacts ==
  ASSUME NEW o \in Orders, WellFormed(o)
  PROVE  /\ MilestoneCount(o) \in Nat \ {0}
         /\ OrderReserve(o) \in Nat \ {0}
         /\ MilestonesOf(o) \subseteq MilestoneKeys
         /\ \A k \in MilestonesOf(o) : MReserve(k) \in Nat \ {0}
<1>1. MilestoneCount(o) \in Nat \ {0}
  BY Numbers DEF WellFormed
<1>2. MilestonesOf(o) \subseteq MilestoneKeys
  BY DEF MilestoneKeys
<1>3. ASSUME NEW k \in MilestonesOf(o)
      PROVE  MReserve(k) \in Nat \ {0}
  <2>1. MTerms(k) \in MilestoneTerms
    BY <1>2, <1>3, KeyFacts
  <2>2. MTerms(k).work # 0
    BY <1>3 DEF WellFormed
  <2> QED BY <2>1, <2>2 DEF MReserve, MilestoneTerms
<1>4. OrderReserve(o) \in Nat \ {0}
  <2> DEFINE g == [k \in MilestonesOf(o) |-> MReserve(k)]
             k == <<o, 1>>
  <2>1. OrderReserve(o) = SumFunction(g)
    BY DEF OrderReserve
  <2>2. DOMAIN g = MilestonesOf(o) /\ \A j \in MilestonesOf(o) : g[j] \in Nat \ {0}
    BY <1>3
  <2> HIDE DEF g
  <2>3. SumFunction(g) = SumFunctionOnSet(g, MilestonesOf(o))
    BY <2>2, SumFunctionIsSum
  <2>4. IsFiniteSet(MilestonesOf(o))
    <3>1. IsFiniteSet({o})
      BY FS_Singleton
    <3>2. 1 \in Int /\ MilestoneCount(o) \in Int
      BY <1>1
    <3>3. IsFiniteSet(1 .. MilestoneCount(o))
      BY <3>2, FS_Interval
    <3> QED BY <3>1, <3>3, FS_Product DEF MilestonesOf
  <2>5. k \in MilestonesOf(o)
    BY <1>1 DEF MilestonesOf
  <2>6. \A j \in MilestonesOf(o) : g[j] \in Nat
    BY <2>2
  <2>7. SumFunctionOnSet(g, MilestonesOf(o)) \in Nat
    BY <2>4, <2>6, SumIsNatural
  <2>8. g[k] <= SumFunctionOnSet(g, MilestonesOf(o))
    BY <2>4, <2>5, <2>6, SumAtLeast
  <2>9. g[k] \in Nat \ {0}
    BY <2>2, <2>5
  <2> QED BY <2>1, <2>3, <2>7, <2>8, <2>9
<1> QED BY <1>1, <1>2, <1>3, <1>4

\* An outcome is paid in at most two leaves, and in none if it pays nothing.
LEMMA OutcomeLeavesFacts ==
  ASSUME NEW k \in MilestoneKeys, NEW work \in Nat, NEW fee \in Nat
  PROVE  /\ OutcomeLeaves(k, work, fee) \in LeafSeq
         /\ Len(OutcomeLeaves(k, work, fee)) <= 2
         /\ work + fee = 0 => OutcomeLeaves(k, work, fee) = << >>
<1> DEFINE t == Terms[k[1]]
<1> DEFINE leaf(kind, amount, owner, destination) ==
             IF amount = 0 THEN << >>
             ELSE << Allocation(kind, k[1], k[2], amount, owner, destination) >>
<1> DEFINE w == leaf("WORK", work, t.claimOwner, t.destination)
<1> DEFINE f == leaf("FEE", fee, t.feeOwner, t.feeDestination)
<1>1. k[1] \in Orders /\ k[2] \in Nat
  BY KeyFacts
<1>2. /\ t.claimOwner \in Owners /\ t.feeOwner \in Owners
      /\ t.destination \in Destinations /\ t.feeDestination \in Destinations
  BY <1>1 DEF Owners, Destinations
<1>3. /\ Allocation("WORK", k[1], k[2], work, t.claimOwner, t.destination) \in Leaf
      /\ Allocation("FEE", k[1], k[2], fee, t.feeOwner, t.feeDestination) \in Leaf
  BY <1>1, <1>2 DEF Allocation, Leaf, Kinds
<1>4. w \in Seq(Leaf) /\ Len(w) \in {0, 1}
  BY <1>3, EmptySeq
<1>5. f \in Seq(Leaf) /\ Len(f) \in {0, 1}
  BY <1>3, EmptySeq
<1>6. OutcomeLeaves(k, work, fee) = w \o f
  BY DEF OutcomeLeaves
<1>7. work + fee = 0 => w = << >> /\ f = << >>
  OBVIOUS
<1> HIDE DEF w, f
<1>8. w \o f \in Seq(Leaf) /\ Len(w \o f) = Len(w) + Len(f)
  BY <1>4, <1>5, ConcatProperties
<1>9. << >> \o << >> = << >>
  OBVIOUS
<1> QED BY <1>4, <1>5, <1>6, <1>7, <1>8, <1>9 DEF LeafSeq

\* A settlement that pays nothing leaves what a checkpoint states alone: what was
\* reserved is free again, so the epoch stays open.
LEMMA UnpaidIsSilent ==
  ASSUME NEW e, EpochInv(e), NEW reserve \in Nat \ {0}, Covers(e, 1, reserve)
  PROVE  Checkpoint(Resolved(e, reserve, 0, << >>)) = Checkpoint(e)
<1>1. e \in EpochType /\ e.phase \in {"ACTIVE", "DRAINING"}
  BY CoveredIsOpen DEF EpochInv
<1>2. e.available \in Nat /\ e.earned \in Nat /\ e.tree \in Seq(Leaf)
      /\ e.unresolved \in Nat /\ e.unresolvedMilestones \in Nat
      /\ reserve <= e.unresolved /\ 1 <= e.unresolvedMilestones
  BY <1>1, EpochNumbers DEF Covers, LeafSeq
<1>3. e.tree \o << >> = e.tree
  BY <1>2, ConcatEmptySeq
<1> DEFINE g == [e EXCEPT !.unresolvedMilestones = @ - 1,
                          !.unresolved = @ - reserve,
                          !.earned = @ + 0,
                          !.available = @ + (reserve - 0),
                          !.tree = @ \o << >>]
<1>4. /\ e.earned + 0 = e.earned
      /\ e.available + (reserve - 0) \in Nat /\ e.available + (reserve - 0) # 0
      /\ e.unresolved - reserve \in Nat /\ e.unresolvedMilestones - 1 \in Nat
  BY <1>2
<1>5. g \in EpochType
  BY <1>1, <1>2, <1>3, <1>4 DEF EpochType, LeafSeq
<1>6. /\ g.phase = e.phase /\ g.earned = e.earned /\ g.returned = e.returned
      /\ g.tree = e.tree /\ g.available # 0
  BY <1>1, <1>3, <1>4 DEF EpochType
<1>7. Resolved(e, reserve, 0, << >>) = MaybeClose(g)
  BY DEF Resolved
<1> HIDE DEF g
<1> QED BY <1>5, <1>6, <1>7, MaybeCloseFields DEF Checkpoint

-----------------------------------------------------------------------------
(* Every action keeps the ledger. *)

\* The checkpoint of a typed record is typed.
LEMMA CheckpointIsTyped ==
  ASSUME NEW e \in EpochType
  PROVE  Checkpoint(e) \in CheckpointType
  BY EpochNumbers DEF Checkpoint, CheckpointType

\* Transactions that leave the orders and milestones alone.
LEMMA EpochOnly ==
  ASSUME LedgerInv, UNCHANGED <<orders, milestones>>
  PROVE  LedgerKept
  BY DEF LedgerInv, TypeOK, LedgerKept, OnlyAdmitted

\* SourceAccountingLib.finalizeMilestone, from every action that calls it.
LEMMA FinalizeMilestoneKeeps ==
  ASSUME LedgerInv,
         NEW k \in MilestoneKeys, milestones[k].status \notin {"NONE", "FINAL"},
         NEW outcome \in Outcomes, NEW work \in Nat, NEW fee \in Nat,
         FinalizeMilestone(k, outcome, work, fee)
  PROVE  Kept
<1> DEFINE leaves == OutcomeLeaves(k, work, fee)
<1> DEFINE e == Resolved(epoch, MReserve(k), work + fee, leaves)
<1>1. /\ epoch' = e
      /\ work <= MTerms(k).work /\ fee <= MTerms(k).fee
      /\ Covers(epoch, 1, MReserve(k))
      /\ IF work + fee # 0 THEN published' = Append(published, Checkpoint(e))
                           ELSE published' = published
      /\ milestones' = [milestones EXCEPT ![k] =
             [@ EXCEPT !.status = "FINAL", !.outcome = outcome,
                       !.finalWork = work, !.finalFee = fee]]
      /\ orders' = [orders EXCEPT ![k[1]].finalizedCount = @ + 1]
  BY DEF FinalizeMilestone, Publish, MayFinalize
<1>2. /\ orders \in [Orders -> OrderType] /\ milestones \in [MilestoneKeys -> MilestoneType]
      /\ OnlyAdmitted /\ EpochInv(epoch)
  BY DEF LedgerInv, TypeOK
<1>3. /\ k[1] \in Orders /\ orders[k[1]].exists /\ WellFormed(k[1])
      /\ k \in MilestonesOf(k[1])
  BY <1>2, KeyFacts DEF OnlyAdmitted
<1>4. MReserve(k) \in Nat \ {0} /\ work + fee \in Nat /\ work + fee <= MReserve(k)
  <2>1. MReserve(k) \in Nat \ {0}
    BY <1>3, WellFormedFacts
  <2>2. MTerms(k).work \in Nat /\ MTerms(k).fee \in Nat
    BY KeyFacts DEF MilestoneTerms
  <2>3. work + fee <= MReserve(k)
    BY <1>1, <2>2 DEF MReserve
  <2> QED BY <2>1, <2>3
<1>5. leaves \in LeafSeq /\ Len(leaves) <= 2 /\ (work + fee = 0 => leaves = << >>)
  BY OutcomeLeavesFacts
<1>6. Moves(epoch, epoch')
  BY <1>1, <1>4, <1>5 DEF Moves, Resolves
<1>7. Announced
  <2>1. CASE work + fee # 0
    BY <1>1, <2>1 DEF Announced
  <2>2. CASE work + fee = 0
    <3>1. epoch' = Resolved(epoch, MReserve(k), 0, << >>)
      BY <1>1, <1>5, <2>2
    <3>2. Checkpoint(epoch') = Checkpoint(epoch)
      BY <1>1, <1>2, <1>4, <3>1, UnpaidIsSilent
    <3>3. EpochInv(epoch') /\ epoch' # NoEpoch /\ epoch.exists
      <4>1. epoch.exists
        BY <1>1, <1>2, <1>4, CoveredIsOpen
      <4>2. Checkpoint(epoch').phase = epoch'.phase /\ Checkpoint(epoch).phase = epoch.phase
        BY DEF Checkpoint
      <4>3. epoch.phase # "NONE"
        BY <1>2, <4>1 DEF EpochInv, ClosureInv
      <4>4. epoch' # NoEpoch
        BY <3>2, <4>2, <4>3 DEF NoEpoch
      <4> QED BY <1>2, <1>6, <4>1, <4>4, MovesKeepEpochInv
    <3>4. epoch'.exists = epoch.exists
      BY <1>2, <3>3 DEF EpochInv, EpochType
    <3> QED BY <1>1, <2>2, <3>2, <3>4 DEF Announced
  <2> QED BY <2>1, <2>2
<1>8. LedgerKept
  <2>1. orders' \in [Orders -> OrderType]
        /\ \A o \in Orders : orders'[o].exists = orders[o].exists
    BY <1>1, <1>2, <1>3 DEF OrderType
  <2>2. milestones' \in [MilestoneKeys -> MilestoneType]
    BY <1>1, <1>2 DEF MilestoneType, Statuses
  <2>3. \A j \in MilestoneKeys : j # k => milestones'[j] = milestones[j]
    BY <1>1, <1>2
  <2>4. OnlyAdmitted'
    BY <1>2, <1>3, <2>1, <2>3, KeyFacts DEF OnlyAdmitted
  <2> QED BY <2>1, <2>2, <2>3, <2>4 DEF LedgerKept
<1> QED BY <1>6, <1>7, <1>8 DEF Kept

\* _finalizePendingOrder, from every action that calls it.
LEMMA FinalizePendingOrderKeeps ==
  ASSUME LedgerInv, NEW o \in Orders, NEW outcome \in Outcomes,
         FinalizePendingOrder(o, outcome), published' = published
  PROVE  Kept
<1>1. /\ orders[o].exists
      /\ \A k \in MilestonesOf(o) : milestones[k].status = "PENDING"
      /\ Covers(epoch, MilestoneCount(o), OrderReserve(o))
      /\ epoch' = Restored(epoch, MilestoneCount(o), OrderReserve(o))
      /\ milestones' = [k \in MilestoneKeys |->
               IF k \in MilestonesOf(o)
               THEN [milestones[k] EXCEPT !.status = "FINAL", !.outcome = outcome]
               ELSE milestones[k]]
      /\ orders' = [orders EXCEPT ![o].finalizedCount = MilestoneCount(o)]
  BY DEF FinalizePendingOrder, MayFinalizePending
<1>2. /\ orders \in [Orders -> OrderType] /\ milestones \in [MilestoneKeys -> MilestoneType]
      /\ OnlyAdmitted /\ EpochInv(epoch)
  BY DEF LedgerInv, TypeOK
<1>3. /\ WellFormed(o)
      /\ MilestoneCount(o) \in Nat \ {0} /\ OrderReserve(o) \in Nat \ {0}
  BY <1>1, <1>2, WellFormedFacts DEF OnlyAdmitted
<1>4. Moves(epoch, epoch')
  BY <1>1, <1>3 DEF Moves, Restores
<1>5. Announced
  <2>1. EpochInv(epoch') /\ Checkpoint(epoch') = Checkpoint(epoch)
    BY <1>1, <1>2, <1>3, RestoredInv
  <2>2. epoch.exists /\ epoch.phase # "NONE"
    BY <1>1, <1>2, <1>3, CoveredIsOpen
  <2>3. epoch'.phase = epoch.phase
    BY <2>1 DEF Checkpoint
  <2>4. epoch' # NoEpoch
    BY <2>2, <2>3 DEF NoEpoch
  <2>5. epoch'.exists /\ epoch' \in EpochType /\ epoch \in EpochType
    BY <1>2, <2>1, <2>4 DEF EpochInv
  <2>6. epoch'.exists = epoch.exists
    BY <2>2, <2>5 DEF EpochType
  <2> QED BY <2>1, <2>6 DEF Announced
<1>6. LedgerKept
  <2>1. orders' \in [Orders -> OrderType]
        /\ \A p \in Orders : orders'[p].exists = orders[p].exists
    BY <1>1, <1>2, <1>3 DEF OrderType
  <2>2. milestones' \in [MilestoneKeys -> MilestoneType]
    BY <1>1, <1>2 DEF MilestoneType, Statuses
  <2>3. \A k \in MilestoneKeys :
          milestones[k].status # "PENDING" => milestones'[k] = milestones[k]
    BY <1>1, <1>2
  <2>4. \A k \in MilestoneKeys :
          milestones'[k].status # "NONE" => milestones[k].status # "NONE"
    BY <1>1, <1>2
  <2>5. OnlyAdmitted'
    BY <1>2, <2>1, <2>4, KeyFacts DEF OnlyAdmitted
  <2> QED BY <2>1, <2>2, <2>3, <2>5 DEF LedgerKept
<1> QED BY <1>4, <1>5, <1>6 DEF Kept

\* _reserveOrder, from the two actions that admit an order.
LEMMA ReserveOrderKeeps ==
  ASSUME LedgerInv, NEW o \in Orders, NEW agreed \in BOOLEAN,
         Admitting, ReserveOrder(o, agreed), published' = published
  PROVE  Kept
<1>1. /\ ~ orders[o].exists /\ WellFormed(o)
      /\ epoch.reservations + MilestoneCount(o) <= MaxMilestones
      /\ OrderReserve(o) <= epoch.available
      /\ epoch' = Reserved(epoch, MilestoneCount(o), OrderReserve(o))
      /\ orders' = [orders EXCEPT ![o] =
               [exists |-> TRUE, agreed |-> agreed, finalizedCount |-> 0]]
      /\ milestones' = [k \in MilestoneKeys |->
               IF k \in MilestonesOf(o)
               THEN [NoMilestone EXCEPT !.status = IF agreed THEN "AGREED" ELSE "PENDING",
                                        !.version = IF agreed THEN 1 ELSE 0,
                                        !.mutualNonce = 1]
               ELSE milestones[k]]
  BY DEF ReserveOrder
<1>2. /\ orders \in [Orders -> OrderType] /\ milestones \in [MilestoneKeys -> MilestoneType]
      /\ OnlyAdmitted /\ EpochInv(epoch) /\ epoch \in EpochType
  BY DEF LedgerInv, TypeOK
<1>3. MilestoneCount(o) \in Nat /\ OrderReserve(o) \in Nat \ {0}
  BY <1>1, WellFormedFacts
<1>4. Moves(epoch, epoch')
  BY <1>1, <1>3 DEF Moves, Reserves, Admitting
<1>5. Announced
  <2>1. /\ epoch'.tree = epoch.tree /\ epoch'.earned = epoch.earned
        /\ epoch'.returned = epoch.returned /\ epoch'.phase = epoch.phase
        /\ epoch'.exists = epoch.exists
    BY <1>1, <1>2 DEF EpochType, Reserved
  <2> QED BY <2>1 DEF Announced, Checkpoint
<1>6. LedgerKept
  <2>1. orders' \in [Orders -> OrderType]
        /\ orders'[o].exists
        /\ \A p \in Orders : p # o => orders'[p] = orders[p]
    BY <1>1, <1>2 DEF OrderType
  <2>2. milestones' \in [MilestoneKeys -> MilestoneType]
    <3>1. ASSUME NEW status \in {"AGREED", "PENDING"}, NEW version \in {0, 1}
          PROVE  [NoMilestone EXCEPT !.status = status, !.version = version,
                                     !.mutualNonce = 1] \in MilestoneType
      <4>1. NoMilestone \in MilestoneType
        BY DEF NoMilestone, MilestoneType, Statuses, Outcomes
      <4>2. status \in Statuses /\ version \in Nat
        BY <3>1 DEF Statuses
      <4> HIDE DEF NoMilestone
      <4> QED BY <4>1, <4>2 DEF MilestoneType
    <3>2. (IF agreed THEN "AGREED" ELSE "PENDING") \in {"AGREED", "PENDING"}
          /\ (IF agreed THEN 1 ELSE 0) \in {0, 1}
      OBVIOUS
    <3> DEFINE fresh == [NoMilestone EXCEPT !.status = IF agreed THEN "AGREED" ELSE "PENDING",
                                            !.version = IF agreed THEN 1 ELSE 0,
                                            !.mutualNonce = 1]
    <3>3. fresh \in MilestoneType
      BY <3>1, <3>2
    <3>4. milestones' = [k \in MilestoneKeys |->
                           IF k \in MilestonesOf(o) THEN fresh ELSE milestones[k]]
      BY <1>1
    <3> HIDE DEF fresh
    <3> QED BY <1>2, <3>3, <3>4
  <2>3. \A k \in MilestonesOf(o) : k[1] = o
    BY DEF MilestonesOf
  <2>4. \A k \in MilestoneKeys : k \notin MilestonesOf(o) => milestones'[k] = milestones[k]
    BY <1>1
  <2>5. \A k \in MilestonesOf(o) : k \in MilestoneKeys => milestones[k].status = "NONE"
    BY <1>1, <1>2, <2>3 DEF OnlyAdmitted
  <2>6. OnlyAdmitted'
    <3>1. ASSUME NEW p \in Orders, orders'[p].exists
          PROVE  WellFormed(p)
      BY <1>1, <1>2, <2>1, <3>1 DEF OnlyAdmitted
    <3>2. ASSUME NEW k \in MilestoneKeys, milestones'[k].status # "NONE"
          PROVE  orders'[k[1]].exists
      BY <1>2, <2>1, <2>3, <2>4, <3>2, KeyFacts DEF OnlyAdmitted
    <3> QED BY <3>1, <3>2 DEF OnlyAdmitted
  <2> QED BY <2>1, <2>2, <2>4, <2>5, <2>6 DEF LedgerKept
<1> QED BY <1>4, <1>5, <1>6 DEF Kept

\* Everything else a transaction may change.
RestKept ==
    /\ block' \in Nat
    /\ nonceState' \in [WorkerNonces -> NonceStates]
    /\ offerForNonce' \in [WorkerNonces -> Orders \cup {NoOffer}]
    /\ votes' \subseteq [by : Members, digest : Digests]
    /\ floors' \in [MilestoneKeys -> [Members -> Nat]]
    /\ \A c \in consents' : c.digest \in Digests
    /\ OpenNonceHasOffer'

\* What the actions leave alone keeps its type.
LEMMA RestUnchanged ==
  ASSUME LedgerInv, UNCHANGED <<block, quotes, decisions>>
  PROVE  RestKept
  BY DEF LedgerInv, TypeOK, RestKept, OpenNonceHasOffer, quotes, decisions

\* A proposal for a milestone is a digest.
LEMMA ProposalIsDigest ==
  ASSUME LedgerInv, NEW k \in MilestoneKeys,
         NEW kind \in {"MUTUAL", "RULING", "APPROVE", "CHALLENGE"},
         NEW work \in Nat, NEW nonce \in Nat
  PROVE  ProposalDigest(kind, k, work, nonce) \in Digests
<1>1. milestones[k] \in MilestoneType
  BY DEF LedgerInv, TypeOK
<1> QED BY <1>1 DEF ProposalDigest, Digests, MilestoneType

\* The operations on the epoch.
LEMMA EpochStepKeeps ==
  ASSUME LedgerInv, EpochStep
  PROVE  Kept /\ RestKept
<1>1. UNCHANGED <<block, orders, milestones, quotes, decisions>>
  BY DEF EpochStep, InitializeEpoch, ExpireUninitializedEpoch, ReleaseFree, StartDraining,
     SweepAvailable, RepublishCheckpoint
<1>2. LedgerKept /\ RestKept
  BY <1>1, EpochOnly, RestUnchanged
<1>3. EpochInv(epoch) /\ epoch \in EpochType
  BY DEF LedgerInv, TypeOK
<1>4. Moves(epoch, epoch') /\ Announced
  <2>1. CASE InitializeEpoch
    BY <2>1 DEF InitializeEpoch, Moves, Opens, Announced, Publish
  <2>2. CASE ExpireUninitializedEpoch
    BY <2>2, Numbers, ReturnLeafType
       DEF ExpireUninitializedEpoch, Moves, Expires, Announced, Publish
  <2>3. ASSUME NEW amount \in Amounts, ReleaseFree(amount)
        PROVE  Moves(epoch, epoch') /\ Announced
    <3>1. amount \in Nat \ {0} /\ ReturnLeaf(amount) \in Leaf
      BY <2>3, BoundsAssumption, ReturnLeafType DEF ReleaseFree
    <3>2. Releases(epoch, epoch')
      BY <2>3, <3>1 DEF ReleaseFree, Admitting, Releases
    <3>3. Announced
      BY <2>3 DEF ReleaseFree, Publish, Announced
    <3> QED BY <3>2, <3>3 DEF Moves
  <2>4. ASSUME NEW sender, StartDraining(sender)
        PROVE  Moves(epoch, epoch') /\ Announced
    BY <2>4 DEF StartDraining, Moves, Drains, Announced, Publish
  <2>5. CASE SweepAvailable
    <3>1. CASE epoch.available = 0
      <4>1. epoch' = MaybeClose(epoch) /\ published' = published
            /\ epoch.exists /\ epoch.phase = "DRAINING"
        BY <2>5, <3>1 DEF SweepAvailable
      <4>2. epoch.unresolved # 0
        BY <1>3, <3>1, <4>1 DEF EpochInv, ClosureInv
      <4>3. MaybeClose(epoch) = epoch
        BY <1>3, <4>2 DEF MaybeClose, EpochType
      <4> QED BY <4>1, <4>3 DEF Moves, Announced
    <3>2. CASE epoch.available # 0
      <4>1. ReturnLeaf(epoch.available) \in Leaf
        BY <1>3, EpochNumbers, ReturnLeafType
      <4>2. Sweeps(epoch, epoch')
        BY <2>5, <3>2, <4>1 DEF SweepAvailable, Sweeps
      <4>3. Announced
        BY <2>5, <3>2 DEF SweepAvailable, Publish, Announced
      <4> QED BY <4>2, <4>3 DEF Moves
    <3> QED BY <3>1, <3>2
  <2>6. CASE RepublishCheckpoint
    BY <2>6 DEF RepublishCheckpoint, Moves, Announced, Publish
  <2> QED BY <2>1, <2>2, <2>3, <2>4, <2>5, <2>6 DEF EpochStep
<1> QED BY <1>2, <1>4 DEF Kept

\* A step that leaves the epoch and its checkpoints alone.
LEMMA StillEpoch ==
  ASSUME UNCHANGED <<epoch, published>>
  PROVE  Moves(epoch, epoch') /\ Announced
  BY DEF Moves, Announced

\* The operations on orders.
LEMMA OrderStepKeeps ==
  ASSUME LedgerInv, OrderStep
  PROVE  Kept /\ RestKept
<1> USE DEF quotes, decisions
<1>1. /\ block \in Nat
      /\ nonceState \in [WorkerNonces -> NonceStates]
      /\ offerForNonce \in [WorkerNonces -> Orders \cup {NoOffer}]
      /\ votes \subseteq [by : Members, digest : Digests]
      /\ floors \in [MilestoneKeys -> [Members -> Nat]]
      /\ \A c \in consents : c.digest \in Digests
      /\ OpenNonceHasOffer
      /\ orders \in [Orders -> OrderType]
      /\ milestones \in [MilestoneKeys -> MilestoneType]
      /\ OnlyAdmitted
  BY DEF LedgerInv, TypeOK
<1>2. \A o \in Orders : NonceOf(o) \in WorkerNonces
  BY DEF WorkerNonces
<1>3. {"OFFER", "CONSUMED", "REVOKED"} \subseteq NonceStates
  BY DEF NonceStates
\* Closing or revoking a nonce keeps the open ones.
<1>4. ASSUME NEW n \in WorkerNonces, NEW state \in {"CONSUMED", "REVOKED"},
             nonceState' = [nonceState EXCEPT ![n] = state],
             UNCHANGED <<block, offerForNonce, decisions>>
      PROVE  RestKept
  <2>1. nonceState' \in [WorkerNonces -> NonceStates]
    BY <1>1, <1>3, <1>4
  <2>2. OpenNonceHasOffer'
    BY <1>1, <1>4 DEF OpenNonceHasOffer
  <2> QED BY <1>1, <1>4, <2>1, <2>2 DEF RestKept
<1>5. ASSUME NEW o \in Orders, CreateOffer(o)
      PROVE  Kept /\ RestKept
  <2>1. /\ Admitting /\ ReserveOrder(o, FALSE)
        /\ nonceState' = [nonceState EXCEPT ![NonceOf(o)] = "OFFER"]
        /\ offerForNonce' = [offerForNonce EXCEPT ![NonceOf(o)] = o]
        /\ UNCHANGED <<block, decisions, published>>
    BY <1>5 DEF CreateOffer
  <2>2. Kept
    BY <2>1, ReserveOrderKeeps
  <2>3. nonceState' \in [WorkerNonces -> NonceStates]
    BY <1>1, <1>3, <2>1
  <2>4. offerForNonce' \in [WorkerNonces -> Orders \cup {NoOffer}]
    BY <1>1, <2>1
  <2>5. OpenNonceHasOffer'
    BY <1>1, <2>1 DEF OpenNonceHasOffer
  <2> QED BY <1>1, <2>1, <2>2, <2>3, <2>4, <2>5 DEF RestKept
<1>6. ASSUME NEW o \in Orders, AcceptOffer(o)
      PROVE  Kept /\ RestKept
  <2>1. /\ orders[o].exists
        /\ \A k \in MilestonesOf(o) : milestones[k].status = "PENDING"
        /\ nonceState' = [nonceState EXCEPT ![NonceOf(o)] = "CONSUMED"]
        /\ orders' = [orders EXCEPT ![o].agreed = TRUE]
        /\ milestones' = [k \in MilestoneKeys |->
               IF k \in MilestonesOf(o)
               THEN [milestones[k] EXCEPT !.status = "AGREED", !.version = 1]
               ELSE milestones[k]]
        /\ UNCHANGED <<block, epoch, offerForNonce, decisions, published>>
    BY <1>6 DEF AcceptOffer, MayAccept
  <2>2. RestKept
    BY <1>2, <1>4, <2>1
  <2>3. orders' \in [Orders -> OrderType]
        /\ \A p \in Orders : orders'[p].exists = orders[p].exists
    BY <1>1, <2>1 DEF OrderType
  <2>4. milestones' \in [MilestoneKeys -> MilestoneType]
    <3>1. ASSUME NEW k \in MilestoneKeys
          PROVE  [milestones[k] EXCEPT !.status = "AGREED", !.version = 1] \in MilestoneType
      <4>1. milestones[k] \in MilestoneType
        BY <1>1, <3>1
      <4> QED BY <4>1 DEF MilestoneType, Statuses
    <3> QED BY <1>1, <2>1, <3>1
  <2>5. \A k \in MilestoneKeys :
          /\ milestones[k].status # "PENDING" => milestones'[k] = milestones[k]
          /\ milestones'[k].status # "NONE" => milestones[k].status # "NONE"
    BY <1>1, <2>1
  <2>6. OnlyAdmitted'
    BY <1>1, <2>3, <2>5, KeyFacts DEF OnlyAdmitted
  <2>7. Moves(epoch, epoch') /\ Announced
    BY <2>1, StillEpoch
  <2> QED BY <2>2, <2>3, <2>4, <2>5, <2>6, <2>7 DEF Kept, LedgerKept
<1>7. ASSUME NEW o \in Orders, AcceptQuote(o)
      PROVE  Kept /\ RestKept
  <2>1. /\ Admitting /\ ReserveOrder(o, TRUE) /\ published' = published
        /\ nonceState' = [nonceState EXCEPT ![NonceOf(o)] = "CONSUMED"]
        /\ UNCHANGED <<block, offerForNonce, decisions>>
    BY <1>7 DEF AcceptQuote
  <2> QED BY <1>2, <1>4, <2>1, ReserveOrderKeeps
<1>8. ASSUME NEW o \in Orders, DeclinePendingOrder(o)
      PROVE  Kept /\ RestKept
  <2>1. /\ FinalizePendingOrder(o, "DECLINED") /\ published' = published
        /\ nonceState' = [nonceState EXCEPT ![NonceOf(o)] = "CONSUMED"]
        /\ UNCHANGED <<block, offerForNonce, decisions>>
    BY <1>8 DEF DeclinePendingOrder
  <2>2. "DECLINED" \in Outcomes
    BY DEF Outcomes
  <2> QED BY <1>2, <1>4, <2>1, <2>2, FinalizePendingOrderKeeps
<1>9. ASSUME NEW o \in Orders, ExpirePendingOrder(o)
      PROVE  Kept /\ RestKept
  <2>1. /\ FinalizePendingOrder(o, "PENDING_EXPIRED") /\ published' = published
        /\ nonceState' = [nonceState EXCEPT ![NonceOf(o)] = "CONSUMED"]
        /\ UNCHANGED <<block, offerForNonce, decisions>>
    BY <1>9 DEF ExpirePendingOrder
  <2>2. "PENDING_EXPIRED" \in Outcomes
    BY DEF Outcomes
  <2> QED BY <1>2, <1>4, <2>1, <2>2, FinalizePendingOrderKeeps
<1>10. ASSUME NEW n \in WorkerNonces, RevokeQuoteNonce(n)
       PROVE  Kept /\ RestKept
  <2>1. /\ IF nonceState[n] = "OFFER"
           THEN FinalizePendingOrder(offerForNonce[n], "DECLINED")
           ELSE UNCHANGED <<epoch, orders, milestones>>
        /\ published' = published
        /\ nonceState' = [nonceState EXCEPT ![n] = "REVOKED"]
        /\ UNCHANGED <<block, offerForNonce, decisions>>
    BY <1>10 DEF RevokeQuoteNonce
  <2>2. RestKept
    BY <1>4, <2>1
  <2>3. CASE nonceState[n] = "OFFER"
    <3>1. offerForNonce[n] \in Orders /\ "DECLINED" \in Outcomes
      BY <1>1, <2>3 DEF OpenNonceHasOffer, Outcomes
    <3> QED BY <2>1, <2>2, <2>3, <3>1, FinalizePendingOrderKeeps
  <2>4. CASE nonceState[n] # "OFFER"
    BY <2>1, <2>2, <2>4, EpochOnly, StillEpoch DEF Kept
  <2> QED BY <2>3, <2>4
<1> QED
  BY <1>5, <1>6, <1>7, <1>8, <1>9, <1>10 DEF OrderStep

\* The operations on milestones.
LEMMA MilestoneStepKeeps ==
  ASSUME LedgerInv, NEW k \in MilestoneKeys,
         \/ \E hash \in Deliveries : Deliver(k, hash)
         \/ Approve(k)
         \/ Challenge(k)
         \/ FinalizeNoDelivery(k)
         \/ FinalizeMonitoringDefault(k)
         \/ FinalizeCommitteeTimeout(k)
         \/ \E work \in Amounts, nonce \in Nonces, voter \in Members :
               SubmitRulingVote(k, work, nonce, voter)
         \/ \E nonce \in Nonces, sender \in Members :
               InvalidateOwnRulingVotesBefore(k, nonce, sender)
         \/ \E work \in Amounts, nonce \in Nonces : SettleMutually(k, work, nonce)
         \/ \E nonce \in Nonces : InvalidateMutualProposals(k, nonce)
  PROVE  Kept /\ RestKept
<1>1. /\ block \in Nat
      /\ nonceState \in [WorkerNonces -> NonceStates]
      /\ offerForNonce \in [WorkerNonces -> Orders \cup {NoOffer}]
      /\ votes \subseteq [by : Members, digest : Digests]
      /\ floors \in [MilestoneKeys -> [Members -> Nat]]
      /\ \A c \in consents : c.digest \in Digests
      /\ OpenNonceHasOffer
      /\ orders \in [Orders -> OrderType]
      /\ milestones \in [MilestoneKeys -> MilestoneType]
      /\ OnlyAdmitted
  BY DEF LedgerInv, TypeOK
<1>2. /\ MTerms(k).work \in Nat /\ MTerms(k).fee \in Nat /\ MTerms(k).timeoutWork \in Nat
  BY KeyFacts DEF MilestoneTerms
\* A milestone that changes without being settled.
<1>3. ASSUME NEW m \in MilestoneType, m.status # "FINAL",
             milestones[k].status \notin {"NONE", "FINAL"},
             milestones' = [milestones EXCEPT ![k] = m],
             UNCHANGED <<block, epoch, orders, quotes, decisions, published>>
      PROVE  Kept /\ RestKept
  <2>1. milestones' \in [MilestoneKeys -> MilestoneType]
        /\ \A j \in MilestoneKeys : j # k => milestones'[j] = milestones[j]
    BY <1>1, <1>3
  <2>2. OnlyAdmitted'
    BY <1>1, <1>3, <2>1 DEF OnlyAdmitted
  <2>3. LedgerKept
    BY <1>1, <1>3, <2>1, <2>2 DEF LedgerKept
  <2> QED BY <1>3, <2>3, StillEpoch, RestUnchanged DEF Kept
\* A milestone that is settled.
<1>4. ASSUME NEW outcome \in Outcomes, NEW work \in Nat, NEW fee \in Nat,
             milestones[k].status \notin {"NONE", "FINAL"},
             FinalizeMilestone(k, outcome, work, fee)
      PROVE  Kept
  BY <1>4, FinalizeMilestoneKeeps
<1>5. {"NO_DELIVERY", "APPROVED", "MONITORING_DEFAULT", "COMMITTEE", "COMMITTEE_TIMEOUT",
       "MUTUAL"} \subseteq Outcomes
  BY DEF Outcomes
<1>6. milestones[k] \in MilestoneType
  BY <1>1
<1>7. ASSUME NEW hash \in Deliveries, Deliver(k, hash)
      PROVE  Kept /\ RestKept
  <2> DEFINE m == [milestones[k] EXCEPT !.delivery = hash, !.status = "DELIVERED",
                                        !.version = @ + 1]
  <2>1. m \in MilestoneType /\ m.status # "FINAL"
    <3>1. milestones[k].version + 1 \in Nat
      BY <1>6 DEF MilestoneType
    <3> QED BY <1>6, <3>1 DEF MilestoneType, Statuses
  <2>2. /\ milestones[k].status \in {"AGREED", "DELIVERED"}
        /\ milestones' = [milestones EXCEPT ![k] = m]
        /\ UNCHANGED <<block, epoch, orders, quotes, decisions, published>>
    BY <1>7 DEF Deliver, MayDeliver
  <2> HIDE DEF m
  <2> QED BY <1>3, <2>1, <2>2
<1>8. CASE Approve(k)
  <2>1. /\ milestones[k].status = "DELIVERED"
        /\ FinalizeMilestone(k, "APPROVED", MTerms(k).work, 0)
        /\ UNCHANGED <<block, quotes, decisions>>
    BY <1>8 DEF Approve, InReview
  <2> QED BY <1>2, <1>4, <1>5, <2>1, RestUnchanged
<1>9. CASE Challenge(k)
  <2> DEFINE m == [milestones[k] EXCEPT !.status = "CHALLENGED", !.version = @ + 1]
  <2>1. m \in MilestoneType /\ m.status # "FINAL"
    <3>1. milestones[k].version + 1 \in Nat
      BY <1>6 DEF MilestoneType
    <3> QED BY <1>6, <3>1 DEF MilestoneType, Statuses
  <2>2. /\ milestones[k].status = "DELIVERED"
        /\ milestones' = [milestones EXCEPT ![k] = m]
        /\ UNCHANGED <<block, epoch, orders, quotes, decisions, published>>
    BY <1>9 DEF Challenge, InReview
  <2> HIDE DEF m
  <2> QED BY <1>3, <2>1, <2>2
<1>10. CASE FinalizeNoDelivery(k)
  <2>1. /\ milestones[k].status = "AGREED"
        /\ FinalizeMilestone(k, "NO_DELIVERY", 0, 0)
        /\ UNCHANGED <<block, quotes, decisions>>
    BY <1>10 DEF FinalizeNoDelivery, NoDeliveryDue
  <2> QED BY <1>4, <1>5, <2>1, RestUnchanged
<1>11. CASE FinalizeMonitoringDefault(k)
  <2>1. /\ milestones[k].status = "DELIVERED"
        /\ FinalizeMilestone(k, "MONITORING_DEFAULT", MTerms(k).work, 0)
        /\ UNCHANGED <<block, quotes, decisions>>
    BY <1>11 DEF FinalizeMonitoringDefault, MonitoringDue
  <2> QED BY <1>2, <1>4, <1>5, <2>1, RestUnchanged
<1>12. CASE FinalizeCommitteeTimeout(k)
  <2>1. /\ milestones[k].status = "CHALLENGED"
        /\ FinalizeMilestone(k, "COMMITTEE_TIMEOUT", MTerms(k).timeoutWork, 0)
        /\ UNCHANGED <<block, quotes, decisions>>
    BY <1>12 DEF FinalizeCommitteeTimeout, TimeoutDue
  <2> QED BY <1>2, <1>4, <1>5, <2>1, RestUnchanged
<1>13. ASSUME NEW work \in Amounts, NEW nonce \in Nonces, NEW voter \in Members,
              SubmitRulingVote(k, work, nonce, voter)
       PROVE  Kept /\ RestKept
  <2> DEFINE digest == ProposalDigest("RULING", k, work, nonce)
  <2> DEFINE valid == ValidVotes(digest) \cup {voter}
  <2>1. /\ milestones[k].status = "CHALLENGED"
        /\ votes' = {v \in votes : v.digest # digest}
                    \cup {[by |-> a, digest |-> digest] : a \in valid}
        /\ IF Cardinality(valid) >= 2
           THEN FinalizeMilestone(k, "COMMITTEE", work, MTerms(k).fee)
           ELSE UNCHANGED <<epoch, orders, milestones, published>>
        /\ UNCHANGED <<block, quotes, floors, consents>>
    BY <1>13 DEF SubmitRulingVote, InDispute
  <2>2. work \in Nat /\ nonce \in Nat
    BY BoundsAssumption
  <2>3. digest \in Digests /\ digest.milestone = k
    BY <2>2, ProposalIsDigest DEF ProposalDigest
  <2>4. valid \subseteq Members
    BY <2>3 DEF ValidVotes, Members
  <2> HIDE DEF digest, valid
  <2>5. votes' \subseteq [by : Members, digest : Digests]
    BY <1>1, <2>1, <2>3, <2>4
  <2>6. RestKept
    BY <1>1, <2>1, <2>5 DEF RestKept, quotes, OpenNonceHasOffer
  <2>7. CASE Cardinality(valid) >= 2
    BY <1>2, <1>4, <1>5, <2>1, <2>2, <2>6, <2>7
  <2>8. CASE ~ (Cardinality(valid) >= 2)
    BY <2>1, <2>6, <2>8, EpochOnly, StillEpoch DEF Kept
  <2> QED BY <2>7, <2>8
<1>14. ASSUME NEW nonce \in Nonces, NEW sender \in Members,
              InvalidateOwnRulingVotesBefore(k, nonce, sender)
       PROVE  Kept /\ RestKept
  <2>1. /\ floors' = [floors EXCEPT ![k][sender] = nonce]
        /\ UNCHANGED <<block, epoch, orders, milestones, quotes, votes, consents, published>>
    BY <1>14 DEF InvalidateOwnRulingVotesBefore
  <2>2. floors' \in [MilestoneKeys -> [Members -> Nat]]
    BY <1>1, <2>1, BoundsAssumption
  <2>3. RestKept
    BY <1>1, <2>1, <2>2 DEF RestKept, quotes, OpenNonceHasOffer
  <2> QED BY <2>1, <2>3, EpochOnly, StillEpoch DEF Kept
<1>15. ASSUME NEW work \in Amounts, NEW nonce \in Nonces, SettleMutually(k, work, nonce)
       PROVE  Kept /\ RestKept
  <2>1. /\ Live(k)
        /\ FinalizeMilestone(k, "MUTUAL", work, 0)
        /\ UNCHANGED <<block, quotes, decisions>>
    BY <1>15 DEF SettleMutually
  <2>2. work \in Nat /\ milestones[k].status \notin {"NONE", "FINAL"}
    BY <2>1, BoundsAssumption DEF Live
  <2> QED BY <1>4, <1>5, <2>1, <2>2, RestUnchanged
<1>16. ASSUME NEW nonce \in Nonces, InvalidateMutualProposals(k, nonce)
       PROVE  Kept /\ RestKept
  <2> DEFINE m == [milestones[k] EXCEPT !.mutualNonce = nonce]
  <2>1. /\ Live(k)
        /\ milestones' = [milestones EXCEPT ![k] = m]
        /\ UNCHANGED <<block, epoch, orders, quotes, decisions, published>>
    BY <1>16 DEF InvalidateMutualProposals
  <2>2. m \in MilestoneType /\ m.status = milestones[k].status
    BY <1>6, BoundsAssumption DEF MilestoneType
  <2>3. milestones[k].status \notin {"NONE", "FINAL"}
    BY <2>1 DEF Live
  <2> HIDE DEF m
  <2> QED BY <1>3, <2>1, <2>2, <2>3
<1> QED
  BY <1>7, <1>8, <1>9, <1>10, <1>11, <1>12, <1>13, <1>14, <1>15, <1>16

\* Signing and the passing of blocks.
LEMMA OtherStepKeeps ==
  ASSUME LedgerInv, ConsentStep \/ Tick
  PROVE  Kept /\ RestKept
<1>1. CASE ConsentStep
  <2>0. PICK digest \in Proposals : \E by : Consent(by, digest)
    BY <1>1 DEF ConsentStep
  <2>1. PICK by : Consent(by, digest)
    BY <2>0
  <2>2. /\ consents' = consents \cup {[by |-> by, digest |-> digest]}
        /\ UNCHANGED <<block, epoch, orders, milestones, quotes, votes, floors, published>>
    BY <2>1 DEF Consent
  <2>3. digest \in Digests
    BY ProposalIsDigest, BoundsAssumption DEF Proposals, ReviewCommand
  <2>4. RestKept
    BY <2>2, <2>3 DEF LedgerInv, TypeOK, RestKept, quotes, OpenNonceHasOffer
  <2> QED BY <2>2, <2>4, EpochOnly, StillEpoch DEF Kept
<1>2. CASE Tick
  <2>1. block' = block + 1
        /\ UNCHANGED <<epoch, orders, milestones, quotes, decisions, published>>
    BY <1>2 DEF Tick
  <2>2. RestKept
    BY <2>1 DEF LedgerInv, TypeOK, RestKept, quotes, decisions, OpenNonceHasOffer
  <2> QED BY <2>1, <2>2, EpochOnly, StillEpoch DEF Kept
<1> QED BY <1>1, <1>2

\* Every step of the ledger keeps it.
LEMMA StepKeeps ==
  ASSUME LedgerInv, [Next]_vars
  PROVE  Kept /\ RestKept
<1>1. CASE UNCHANGED vars
  <2>1. /\ UNCHANGED <<epoch, published>> /\ UNCHANGED <<orders, milestones>>
        /\ UNCHANGED <<block, quotes, decisions>>
    BY <1>1 DEF vars, quotes, decisions
  <2> QED BY <2>1, EpochOnly, StillEpoch, RestUnchanged DEF Kept
<1>2. CASE EpochStep
  BY <1>2, EpochStepKeeps
<1>3. CASE OrderStep
  BY <1>3, OrderStepKeeps
<1>4. CASE MilestoneStep
  BY <1>4, MilestoneStepKeeps DEF MilestoneStep
<1>5. CASE ConsentStep \/ Tick
  BY <1>5, OtherStepKeeps
<1> QED BY <1>1, <1>2, <1>3, <1>4, <1>5 DEF Next

-----------------------------------------------------------------------------
(* The theorems. *)

\* No transaction yet: nothing is stored, nothing is published.
LEMMA InitLedger == Init => LedgerInv
<1> SUFFICES ASSUME Init PROVE LedgerInv
  OBVIOUS
<1> USE DEF Init
<1>1. epoch = NoEpoch /\ EpochInv(epoch) /\ epoch \in EpochType /\ ~ epoch.exists
  BY NoEpochInv DEF EpochInv, NoEpoch
<1>2. NoOrder \in OrderType /\ NoMilestone \in MilestoneType
  BY DEF NoOrder, OrderType, NoMilestone, MilestoneType, Statuses, Outcomes
<1>3. published \in Seq(CheckpointType)
  BY EmptySeq
<1>4. \A k \in MilestoneKeys : milestones[k].status = "NONE"
  BY DEF NoMilestone
<1>5. \A o \in Orders : ~ orders[o].exists
  BY DEF NoOrder
<1>6. TypeOK
  BY <1>1, <1>2, <1>3 DEF TypeOK, NonceStates
<1>7. OnlyAdmitted /\ OpenNonceHasOffer
  BY <1>4, <1>5 DEF OnlyAdmitted, OpenNonceHasOffer
<1> QED BY <1>1, <1>6, <1>7 DEF LedgerInv, LatestCheckpointIsCurrent

\* The invariant is inductive.
LEMMA StepLedger == LedgerInv /\ [Next]_vars => LedgerInv'
<1> SUFFICES ASSUME LedgerInv, [Next]_vars PROVE LedgerInv'
  OBVIOUS
<1>1. Moves(epoch, epoch') /\ Announced /\ LedgerKept /\ RestKept
  BY StepKeeps DEF Kept
<1>2. EpochInv(epoch) /\ EpochInv(epoch') /\ epoch' \in EpochType
  BY <1>1, MovesKeepEpochInv DEF LedgerInv, EpochInv
<1>3. published' \in Seq(CheckpointType) /\ LatestCheckpointIsCurrent'
  <2>1. Checkpoint(epoch') \in CheckpointType /\ published \in Seq(CheckpointType)
    BY <1>2, CheckpointIsTyped DEF LedgerInv, TypeOK
  <2>2. CASE published' = Append(published, Checkpoint(epoch'))
    <3>1. /\ published' \in Seq(CheckpointType)
          /\ Len(published') = Len(published) + 1
          /\ published'[Len(published) + 1] = Checkpoint(epoch')
      BY <2>1, <2>2, AppendProperties
    <3>2. published' # << >>
      BY <2>1, <3>1, EmptySeq, LenProperties
    <3> QED BY <3>1, <3>2 DEF LatestCheckpointIsCurrent
  <2>3. CASE /\ published' = published
             /\ Checkpoint(epoch') = Checkpoint(epoch)
             /\ epoch'.exists = epoch.exists
    BY <2>1, <2>3 DEF LedgerInv, LatestCheckpointIsCurrent
  <2> QED BY <1>1, <2>2, <2>3 DEF Announced
<1>4. TypeOK'
  BY <1>1, <1>2, <1>3 DEF TypeOK, LedgerKept, RestKept
<1> QED BY <1>1, <1>2, <1>3, <1>4 DEF LedgerInv, LedgerKept, RestKept

\* The ledger's invariant holds in every reachable state.
THEOREM LedgerInvariant == Spec => []LedgerInv
  BY InitLedger, StepLedger, PTL DEF Spec

\* Every variable keeps its type: in particular no amount or counter of an epoch is
\* ever below zero, so the checked subtractions of its record cannot revert.
THEOREM TypeCorrect == Spec => []TypeOK
<1>1. LedgerInv => TypeOK
  BY DEF LedgerInv
<1> QED BY <1>1, LedgerInvariant, PTL

\* _maybeClose closes an epoch exactly when nothing is free and nothing is reserved.
THEOREM ClosesWhenSettled == Spec => []ClosedIffSettled
<1>1. LedgerInv => ClosedIffSettled
  BY DEF LedgerInv, EpochInv, ClosureInv, ClosedIffSettled
<1> QED BY <1>1, LedgerInvariant, PTL

\* The 128 slots of the code's tree suffice for any use of the epoch: what
\* SlotRequirement asks for never exceeds 2*32 + 16 + 33 + 1.
THEOREM TreeNeverFull == Spec => []SlotHeadroom
<1>1. LedgerInv => SlotHeadroom
  BY HeadroomFromInv DEF LedgerInv, SlotHeadroom
<1> QED BY <1>1, LedgerInvariant, PTL

\* A settlement within the terms is never stopped by the size of the tree, by the
\* conservation assertion or by the slot assertion.
LEMMA FitsFromInv == LedgerInv => SettlementFits
<1>1. ASSUME LedgerInv, NEW k \in Unsettled,
             NEW work \in 0 .. MTerms(k).work, NEW fee \in 0 .. MTerms(k).fee,
             Covers(epoch, 1, MReserve(k))
      PROVE  /\ Room(epoch, OutcomeLeaves(k, work, fee))
             /\ Asserted(Resolved(epoch, MReserve(k), work + fee, OutcomeLeaves(k, work, fee)))
  <2> DEFINE leaves == OutcomeLeaves(k, work, fee)
  <2> DEFINE f == Resolved(epoch, MReserve(k), work + fee, leaves)
  <2>1. /\ k \in MilestoneKeys /\ milestones[k].status # "NONE"
        /\ OnlyAdmitted /\ EpochInv(epoch)
    BY <1>1 DEF LedgerInv, Unsettled
  <2>2. k[1] \in Orders /\ WellFormed(k[1]) /\ k \in MilestonesOf(k[1])
    BY <2>1, KeyFacts DEF OnlyAdmitted
  <2>3. MReserve(k) \in Nat \ {0}
    BY <2>2, WellFormedFacts
  <2>4. work \in Nat /\ fee \in Nat /\ work + fee \in Nat /\ work + fee <= MReserve(k)
    <3>1. MTerms(k).work \in Nat /\ MTerms(k).fee \in Nat
      BY <2>1, KeyFacts DEF MilestoneTerms
    <3> QED BY <3>1 DEF MReserve
  <2>5. leaves \in LeafSeq /\ Len(leaves) <= 2
    BY <2>1, <2>4, OutcomeLeavesFacts
  <2>6. EpochInv(f)
    BY <1>1, <2>1, <2>3, <2>4, <2>5, ResolvedInv
  <2>7. epoch \in EpochType /\ f.tree = epoch.tree \o leaves /\ f.exists = epoch.exists
    BY <2>1 DEF EpochInv, EpochType, Resolved, MaybeClose
  <2>8. Asserted(f)
    <3>1. epoch.exists
      BY <1>1, <2>1, <2>3, CoveredIsOpen
    <3> QED BY <2>6, <2>7, <3>1, HeadroomFromInv DEF EpochInv, Asserted
  <2>9. Room(epoch, leaves)
    <3>1. Len(f.tree) = Len(epoch.tree) + Len(leaves)
      BY <2>5, <2>7, EpochNumbers, ConcatProperties DEF LeafSeq
    <3>2. f.exists
      BY <1>1, <2>1, <2>3, <2>7, CoveredIsOpen
    <3>3. f \in EpochType /\ CountersInv(f)
      BY <2>6, <3>2 DEF EpochInv
    <3>4. SlotRequirement(f) \in Int /\ Len(f.tree) <= SlotRequirement(f)
      BY <3>3, RequirementCoversTree
    <3>5. SlotRequirement(f) <= TreeCapacity
      BY <2>8 DEF Asserted, SlotSafe
    <3>6. Len(f.tree) \in Nat
      BY <3>3, EpochNumbers
    <3> DEFINE x == Len(f.tree)
    <3> DEFINE y == SlotRequirement(f)
    <3>7. x \in Nat /\ y \in Int /\ x <= y /\ y <= TreeCapacity
      BY <3>4, <3>5, <3>6
    <3> HIDE DEF x, y
    <3>8. x <= TreeCapacity
      BY <3>7, Numbers
    <3> QED BY <3>1, <3>8 DEF Room, x
  <2> QED BY <2>8, <2>9
<1> QED BY <1>1 DEF SettlementFits

\* Nor does a transaction made before ever leave one that is (finalizeMilestone).
THEOREM SettlementAlwaysFits == Spec => []SettlementFits
  BY FitsFromInv, LedgerInvariant, PTL

\* A draining epoch with free budget has a sweep left: MAX_DRAINING_RETURNS is one
\* more than MAX_MILESTONES, and only a settlement makes a further sweep possible.
THEOREM SweepsSuffice == Spec => []SweepNeverBlocked
<1>1. ASSUME LedgerInv
      PROVE  SweepNeverBlocked
  <2>1. SUFFICES ASSUME epoch.phase = "DRAINING", epoch.available > 0
                 PROVE  epoch.drainingReturns < MaxDrainingReturns
    BY DEF SweepNeverBlocked
  <2>2. EpochInv(epoch) /\ epoch \in EpochType
    BY <1>1 DEF LedgerInv, EpochInv
  <2>3. epoch.exists
    BY <2>1, <2>2 DEF EpochInv, NoEpoch
  <2>4. epoch.available \in Nat /\ epoch.available # 0
    BY <2>1, <2>2, EpochNumbers
  <2> QED BY <2>1, <2>2, <2>3, <2>4, SweptInv, ReturnLeafType
<1> QED BY <1>1, LedgerInvariant, PTL

\* The last CheckpointPublished event always states the present root, totals and
\* phase: an operation that emits none has changed none of them.
THEOREM CheckpointAlwaysCurrent == Spec => []LatestCheckpointIsCurrent
<1>1. LedgerInv => LatestCheckpointIsCurrent
  BY DEF LedgerInv
<1> QED BY <1>1, LedgerInvariant, PTL

-----------------------------------------------------------------------------
(* Settled is settled. *)

\* Allocations are only ever added at the end of the tree.
LEMMA TreeGrows ==
  ASSUME NEW t \in LeafSeq, NEW leaves \in LeafSeq
  PROVE  /\ Len(t) <= Len(t \o leaves)
         /\ \A i \in DOMAIN t : (t \o leaves)[i] = t[i]
<1>1. /\ Len(t \o leaves) = Len(t) + Len(leaves)
      /\ \A i \in 1 .. Len(t) + Len(leaves) :
            (t \o leaves)[i] = IF i <= Len(t) THEN t[i] ELSE leaves[i - Len(t)]
  BY ConcatProperties DEF LeafSeq
<1>2. Len(t) \in Nat /\ Len(leaves) \in Nat /\ DOMAIN t = 1 .. Len(t)
  BY LenProperties DEF LeafSeq
<1> QED BY <1>1, <1>2

\* A move never takes a leaf back, reopens an epoch or admits an order while draining.
Final(e, f) ==
    /\ Len(e.tree) <= Len(f.tree)
    /\ \A i \in DOMAIN e.tree : f.tree[i] = e.tree[i]
    /\ e.phase = "CLOSED" => f.phase = "CLOSED"
    /\ e.phase = "DRAINING" =>
          f.phase \in {"DRAINING", "CLOSED"} /\ f.reservations = e.reservations

LEMMA MovesAreFinal ==
  ASSUME NEW e, NEW f, EpochInv(e), Moves(e, f)
  PROVE  Final(e, f)
<1>1. e \in EpochType /\ f \in EpochType
  BY MovesKeepEpochInv DEF EpochInv
<1>2. e.tree \in LeafSeq /\ Len(e.tree) \in Nat /\ Len(f.tree) \in Nat
  BY <1>1, EpochNumbers
<1>3. CASE f = e
  BY <1>2, <1>3 DEF Final
<1>4. CASE ~ e.exists
  <2>1. e.tree = << >> /\ e.phase = "NONE"
    BY <1>4 DEF EpochInv, NoEpoch
  <2>2. Len(e.tree) = 0 /\ DOMAIN e.tree = {}
    BY <2>1
  <2> QED BY <1>2, <2>1, <2>2 DEF Final
\* An open epoch that keeps its tree or adds to it.
<1>5. ASSUME NEW leaves \in LeafSeq, f.tree = e.tree \o leaves,
             e.phase \in {"ACTIVE", "DRAINING"},
             e.phase = "DRAINING" =>
                f.phase \in {"DRAINING", "CLOSED"} /\ f.reservations = e.reservations
      PROVE  Final(e, f)
  BY <1>2, <1>5, TreeGrows DEF Final
<1>6. /\ << >> \in LeafSeq /\ e.tree = e.tree \o << >>
      /\ \A leaf \in Leaf : << leaf >> \in LeafSeq /\ Append(e.tree, leaf) = e.tree \o << leaf >>
  BY <1>2, EmptySeq, ConcatEmptySeq, AppendIsConcat DEF LeafSeq
<1>7. CASE e.exists /\ Reserves(e, f)
  <2>1. PICK n \in Nat, reserve \in Nat \ {0} : f = Reserved(e, n, reserve)
    BY <1>7 DEF Reserves
  <2>2. f.tree = e.tree /\ e.phase = "ACTIVE"
    BY <1>1, <1>7, <2>1 DEF Reserves, Reserved, EpochType
  <2> QED BY <1>5, <1>6, <2>2
<1>8. CASE Restores(e, f)
  <2>1. PICK n \in Nat \ {0}, reserve \in Nat \ {0} :
              Covers(e, n, reserve) /\ f = Restored(e, n, reserve)
    BY <1>8 DEF Restores
  <2>2. e.phase \in {"ACTIVE", "DRAINING"}
    BY <2>1, CoveredIsOpen
  <2>3. /\ f.tree = e.tree /\ f.reservations = e.reservations
        /\ f.phase \in {"CLOSED", e.phase}
    BY <1>1, <2>1 DEF Restored, MaybeClose, EpochType
  <2> QED BY <1>5, <1>6, <2>2, <2>3
<1>9. CASE Resolves(e, f)
  <2>1. PICK reserve \in Nat \ {0}, paid \in Nat, leaves \in LeafSeq :
              Covers(e, 1, reserve) /\ f = Resolved(e, reserve, paid, leaves)
    BY <1>9 DEF Resolves
  <2>2. e.phase \in {"ACTIVE", "DRAINING"}
    BY <2>1, CoveredIsOpen
  <2>3. /\ f.tree = e.tree \o leaves /\ f.reservations = e.reservations
        /\ f.phase \in {"CLOSED", e.phase}
    BY <1>1, <2>1 DEF Resolved, MaybeClose, EpochType
  <2> QED BY <1>5, <2>2, <2>3
<1>10. CASE Releases(e, f)
  <2>1. PICK amount \in Nat \ {0}, leaf \in Leaf : f = Released(e, amount, leaf)
    BY <1>10 DEF Releases
  <2>2. f.tree = Append(e.tree, leaf) /\ e.phase = "ACTIVE"
    BY <1>1, <1>10, <2>1 DEF Releases, Released, MaybeClose, EpochType
  <2> QED BY <1>5, <1>6, <2>2
<1>11. CASE Sweeps(e, f)
  <2>1. PICK leaf \in Leaf : f = Swept(e, leaf)
    BY <1>11 DEF Sweeps
  <2>2. /\ f.tree = Append(e.tree, leaf) /\ f.reservations = e.reservations
        /\ f.phase \in {"CLOSED", e.phase} /\ e.phase = "DRAINING"
    BY <1>1, <1>11, <2>1 DEF Sweeps, Swept, MaybeClose, EpochType
  <2> QED BY <1>5, <1>6, <2>2
<1>12. CASE Drains(e, f)
  <2>1. f.tree = e.tree /\ e.phase = "ACTIVE"
    BY <1>1, <1>12 DEF Drains, Drained, MaybeClose, EpochType
  <2> QED BY <1>5, <1>6, <2>1
<1> QED
  BY <1>3, <1>4, <1>7, <1>8, <1>9, <1>10, <1>11, <1>12 DEF Moves, Opens, Expires

\* Nothing a transaction settled is undone by a later one: settled milestones, written
\* leaves and the closing of the epoch stay.
THEOREM SettlementIsFinal == Spec => SettledNeverRevived
<1>1. ASSUME LedgerInv, [Next]_vars
      PROVE  [/\ \A k \in MilestoneKeys :
                    milestones[k].status = "FINAL" => milestones'[k] = milestones[k]
              /\ Len(epoch.tree) <= Len(epoch'.tree)
              /\ \A i \in DOMAIN epoch.tree : epoch'.tree[i] = epoch.tree[i]
              /\ epoch.phase = "CLOSED" => epoch'.phase = "CLOSED"
              /\ epoch.phase = "DRAINING" =>
                    /\ epoch'.phase \in {"DRAINING", "CLOSED"}
                    /\ epoch'.reservations = epoch.reservations]_vars
  <2>1. Moves(epoch, epoch') /\ LedgerKept /\ EpochInv(epoch)
    BY <1>1, StepKeeps DEF Kept, LedgerInv
  <2>2. Final(epoch, epoch')
    BY <2>1, MovesAreFinal
  <2> QED BY <2>1, <2>2 DEF Final, LedgerKept
<1> QED BY <1>1, LedgerInvariant, PTL DEF Spec, SettledNeverRevived

-----------------------------------------------------------------------------
(* The ledger implements the abstract budget. *)

\* Every move of the record is a step of the abstract budget, or none at all.
LEMMA MovesImplementBudget ==
  ASSUME EpochInv(epoch), Moves(epoch, epoch')
  PROVE  [Budget!Next]_(Budget!vars)
<1>1. epoch \in EpochType
  BY DEF EpochInv
<1>2. /\ epoch.available \in Nat /\ epoch.unresolved \in Nat
      /\ epoch.earned \in Nat /\ epoch.returned \in Nat
  BY <1>1, EpochNumbers
<1>3. epoch.exists => Cap = epoch.available + epoch.unresolved + epoch.earned + epoch.returned
  BY DEF EpochInv, Conserves
<1>4. epoch.exists => epoch.available <= Cap /\ epoch.unresolved <= Cap
  BY <1>2, <1>3, Numbers
<1>5. CASE epoch' = epoch
  BY <1>5 DEF Budget!vars
<1>6. CASE Opens(epoch, epoch')
  <2>1. epoch = NoEpoch /\ epoch' = OpenedEpoch
    BY <1>6 DEF Opens, EpochInv
  <2>2. Budget!Open
    BY <2>1 DEF Budget!Open, NoEpoch, OpenedEpoch
  <2> QED BY <2>2 DEF Budget!Next
<1>7. CASE Expires(epoch, epoch')
  <2>1. PICK leaf \in Leaf : epoch = NoEpoch /\ epoch' = ExpiredEpoch(leaf)
    BY <1>7 DEF Expires, EpochInv
  <2>2. Budget!Expire
    BY <2>1 DEF Budget!Expire, NoEpoch, ExpiredEpoch
  <2> QED BY <2>2 DEF Budget!Next
<1>8. CASE Reserves(epoch, epoch')
  <2>1. PICK n \in Nat, reserve \in Nat \ {0} :
              reserve <= epoch.available /\ epoch' = Reserved(epoch, n, reserve)
    BY <1>8 DEF Reserves
  <2>2. reserve \in 1 .. Cap
    BY <1>2, <1>4, <1>8, <2>1, Numbers DEF Reserves
  <2>3. /\ epoch'.phase = epoch.phase /\ epoch'.available = epoch.available - reserve
        /\ epoch'.unresolved = epoch.unresolved + reserve
        /\ epoch'.earned = epoch.earned /\ epoch'.returned = epoch.returned
    BY <1>1, <2>1 DEF EpochType, Reserved
  <2>4. Budget!Reserve(reserve)
    BY <1>8, <2>1, <2>3 DEF Reserves, Budget!Reserve
  <2> QED BY <2>2, <2>4 DEF Budget!Next
\* A settlement, or the return of an order's whole reserve, which earns nothing.
<1>9. ASSUME NEW reserve \in Nat \ {0}, NEW paid \in Nat, paid <= reserve,
             reserve <= epoch.unresolved,
             epoch.exists, epoch.phase \in {"ACTIVE", "DRAINING"},
             epoch'.available = epoch.available + (reserve - paid),
             epoch'.unresolved = epoch.unresolved - reserve,
             epoch'.earned = epoch.earned + paid, epoch'.returned = epoch.returned,
             epoch'.phase = IF epoch'.available = 0 /\ epoch'.unresolved = 0
                            THEN "CLOSED" ELSE epoch.phase
      PROVE  Budget!Next
  <2>1. reserve \in 1 .. Cap /\ paid \in 0 .. Cap
    BY <1>2, <1>4, <1>9, Numbers
  <2>2. Budget!Resolve(reserve, paid)
    BY <1>9 DEF Budget!Resolve, Budget!Usable, Budget!Settle
  <2> QED BY <2>1, <2>2 DEF Budget!Next
<1>10. CASE Restores(epoch, epoch')
  <2>1. PICK n \in Nat \ {0}, reserve \in Nat \ {0} :
              Covers(epoch, n, reserve) /\ epoch' = Restored(epoch, n, reserve)
    BY <1>10 DEF Restores
  <2>2. epoch.exists /\ epoch.phase \in {"ACTIVE", "DRAINING"} /\ reserve <= epoch.unresolved
    BY <2>1, CoveredIsOpen DEF Covers
  <2>3. /\ epoch'.available = epoch.available + reserve
        /\ epoch'.unresolved = epoch.unresolved - reserve
        /\ epoch'.earned = epoch.earned /\ epoch'.returned = epoch.returned
        /\ epoch'.phase = IF epoch'.available = 0 /\ epoch'.unresolved = 0
                          THEN "CLOSED" ELSE epoch.phase
    BY <1>1, <2>1 DEF Restored, MaybeClose, EpochType
  <2>4. reserve - 0 = reserve /\ epoch.earned + 0 = epoch.earned /\ 0 <= reserve
    BY <1>2
  <2> QED BY <1>9, <2>2, <2>3, <2>4
<1>11. CASE Resolves(epoch, epoch')
  <2>1. PICK reserve \in Nat \ {0}, paid \in Nat, leaves \in LeafSeq :
              /\ paid <= reserve /\ Covers(epoch, 1, reserve)
              /\ epoch' = Resolved(epoch, reserve, paid, leaves)
    BY <1>11 DEF Resolves
  <2>2. epoch.exists /\ epoch.phase \in {"ACTIVE", "DRAINING"} /\ reserve <= epoch.unresolved
    BY <2>1, CoveredIsOpen DEF Covers
  <2>3. /\ epoch'.available = epoch.available + (reserve - paid)
        /\ epoch'.unresolved = epoch.unresolved - reserve
        /\ epoch'.earned = epoch.earned + paid /\ epoch'.returned = epoch.returned
        /\ epoch'.phase = IF epoch'.available = 0 /\ epoch'.unresolved = 0
                          THEN "CLOSED" ELSE epoch.phase
    BY <1>1, <2>1 DEF Resolved, MaybeClose, EpochType
  <2> QED BY <1>9, <2>1, <2>2, <2>3
\* A release, or a sweep, which returns all that is free.
<1>12. ASSUME NEW amount \in Nat \ {0}, amount <= epoch.available,
              epoch.exists, epoch.phase \in {"ACTIVE", "DRAINING"},
              epoch.phase = "DRAINING" => amount = epoch.available,
              epoch'.available = epoch.available - amount,
              epoch'.unresolved = epoch.unresolved,
              epoch'.earned = epoch.earned, epoch'.returned = epoch.returned + amount,
              epoch'.phase = IF epoch'.available = 0 /\ epoch'.unresolved = 0
                             THEN "CLOSED" ELSE epoch.phase
       PROVE  Budget!Next
  <2>1. amount \in 1 .. Cap
    BY <1>2, <1>4, <1>12, Numbers
  <2>2. Budget!Retire(amount)
    BY <1>12 DEF Budget!Retire, Budget!Usable, Budget!Settle
  <2> QED BY <2>1, <2>2 DEF Budget!Next
<1>13. CASE Releases(epoch, epoch')
  <2>1. PICK amount \in Nat \ {0}, leaf \in Leaf :
              amount <= epoch.available /\ epoch' = Released(epoch, amount, leaf)
    BY <1>13 DEF Releases
  <2>2. /\ epoch'.available = epoch.available - amount
        /\ epoch'.unresolved = epoch.unresolved
        /\ epoch'.earned = epoch.earned /\ epoch'.returned = epoch.returned + amount
        /\ epoch'.phase = IF epoch'.available = 0 /\ epoch'.unresolved = 0
                          THEN "CLOSED" ELSE epoch.phase
    BY <1>1, <2>1 DEF Released, MaybeClose, EpochType
  <2> QED BY <1>12, <1>13, <2>1, <2>2 DEF Releases
<1>14. CASE Sweeps(epoch, epoch')
  <2>1. PICK leaf \in Leaf : epoch' = Swept(epoch, leaf)
    BY <1>14 DEF Sweeps
  <2>2. /\ epoch'.available = 0
        /\ epoch'.unresolved = epoch.unresolved
        /\ epoch'.earned = epoch.earned /\ epoch'.returned = epoch.returned + epoch.available
        /\ epoch'.phase = IF epoch'.available = 0 /\ epoch'.unresolved = 0
                          THEN "CLOSED" ELSE epoch.phase
    BY <1>1, <2>1 DEF Swept, MaybeClose, EpochType
  <2>3. /\ epoch.available \in Nat \ {0} /\ epoch.available <= epoch.available
        /\ epoch.available - epoch.available = 0
    BY <1>2, <1>14 DEF Sweeps
  <2> QED BY <1>12, <1>14, <2>2, <2>3 DEF Sweeps
<1>15. CASE Drains(epoch, epoch')
  <2>1. ~ (epoch.available = 0 /\ epoch.unresolved = 0)
    BY <1>15 DEF Drains, EpochInv, ClosureInv
  <2>2. /\ epoch'.phase = "DRAINING"
        /\ epoch'.available = epoch.available /\ epoch'.unresolved = epoch.unresolved
        /\ epoch'.earned = epoch.earned /\ epoch'.returned = epoch.returned
    BY <1>1, <1>15, <2>1 DEF Drains, Drained, MaybeClose, EpochType
  <2>3. Budget!Drain
    BY <1>15, <2>2 DEF Drains, Budget!Drain
  <2> QED BY <2>3 DEF Budget!Next
<1> QED
  BY <1>5, <1>6, <1>7, <1>8, <1>10, <1>11, <1>13, <1>14, <1>15 DEF Moves

\* The ledger implements WorkBudget: whatever orders, milestones and evidence do, the
\* budget only ever moves from free to reserved, from reserved to earned or back to
\* free, and from free to returned, and closes when nothing of it is left to move.
THEOREM LedgerImplementsBudget == Spec => ImplementsBudget
<1>1. Init => Budget!Init
  BY DEF Init, NoEpoch, Budget!Init
<1>2. LedgerInv /\ [Next]_vars => [Budget!Next]_(Budget!vars)
  BY StepKeeps, MovesImplementBudget DEF Kept, LedgerInv
<1> QED BY <1>1, <1>2, LedgerInvariant, PTL DEF Spec, ImplementsBudget, Budget!Spec
=============================================================================
