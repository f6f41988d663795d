-------------------------- MODULE SettlementRunner --------------------------
(***************************************************************************)
(* The replacement operator (sdk/settlement-runner.ts and its command      *)
(* line): it plans from the finalized target ledger which claims of a      *)
(* packet to recognize and to pay, sends the transactions one after the    *)
(* other and keeps their hashes in a journal file, so that a run that died *)
(* can be followed by another one.                                         *)
(*                                                                         *)
(* The target chain is a sequence of executed transactions of which a      *)
(* prefix is final.  Anyone else may recognize and pay the same claims.    *)
(* What a treasury call does is what WorkTreasury says of it: a right is   *)
(* recognized once, a claim is paid once, and a payment to a destination   *)
(* that rejects it reverts.  The evidence of the claims is valid and their *)
(* epochs are funded in the final prefix.                                  *)
(***************************************************************************)
EXTENDS Naturals, SequencesExt

CONSTANTS
    Packet,        \* the claims of the packet, in order
    Returns,       \* those of kind RETURN
    Fickle,        \* those whose destination may reject ether
    MaxPlanned,    \* MAX_SETTLEMENT_ACTIONS
    MaxActions,    \* --max-actions
    Budgets        \* bounds: how many rival transactions and faults of each kind happen

Claims == Range(Packet)

ASSUME PacketAssumption ==
    Packet \in Seq(Claims) /\ Returns \subseteq Claims /\ Fickle \subseteq Claims
ASSUME LimitAssumption == MaxPlanned \in Nat /\ MaxActions \in Nat \ {0}

VARIABLES
    sent,       \* the actions this operator sent; a transaction's hash is its place
    mempool,    \* hashes that wait for execution
    chain,      \* executed transactions, the operator's and others'
    final,      \* length of the final prefix of chain
    rejecting,  \* claims whose destination rejects ether now
    journal,    \* the journal file
    run,        \* the running process
    lost,       \* history: hashes whose sender died before it saved them
    budget

vars == <<sent, mempool, chain, final, rejecting, journal, run, lost, budget>>
chainVars == <<mempool, chain, final, rejecting>>

Recognize(c) == <<"recognize", c>>
Withdraw(c) == <<"withdraw", c>>
Redirect(c) == <<"redirect", c>>        \* ownerWithdrawTo
Actions == {Recognize(c) : c \in Claims} \cup {Withdraw(c) : c \in Claims \ Returns}

Unsent == [state |-> "unsent", hash |-> 0]
Pending(h) == [state |-> "pending", hash |-> h]
Complete(h) == [state |-> "complete", hash |-> h]

Stopped == [at |-> "stopped", plan |-> <<>>, submitted |-> 0, hash |-> 0]

Init ==
    /\ sent = <<>> /\ mempool = {} /\ chain = <<>> /\ final = 0
    /\ rejecting \in SUBSET Fickle
    /\ journal = [a \in Actions |-> Unsent]
    /\ run = Stopped
    /\ lost = {}
    /\ budget \in Budgets

-----------------------------------------------------------------------------
(* The target ledger *)

\* What the first n transactions of the chain achieved.
Achieved(n) == {chain[i].action : i \in {j \in 1 .. n : chain[j].succeeded}}

Paid(done, c) == Withdraw(c) \in done \/ Redirect(c) \in done

\* Whether the treasury executes the action now or reverts it.
Succeeds(a) ==
    LET done == Achieved(Len(chain))
        c == a[2]
    IN  IF a = Recognize(c) THEN a \notin done
        ELSE /\ Recognize(c) \in done /\ c \notin Returns
             /\ ~Paid(done, c)
             /\ a = Withdraw(c) => c \notin rejecting

Executed(a, h) ==
    chain' = Append(chain, [action |-> a, hash |-> h, succeeded |-> Succeeds(a)])

\* eth_getTransactionReceipt: the entries of the chain with this hash, if any.
Receipts(h) == {chain[i] : i \in {j \in 1 .. Len(chain) : chain[j].hash = h}}
Succeeded(h) == \E receipt \in Receipts(h) : receipt.succeeded
Failed(h) == \E receipt \in Receipts(h) : ~receipt.succeeded
Dropped(h) == h \notin mempool /\ Receipts(h) = {}

\* The operator's transactions execute in the order of their nonces.
Include(h) ==
    /\ h \in mempool
    /\ \A earlier \in mempool : h <= earlier
    /\ mempool' = mempool \ {h}
    /\ Executed(sent[h], h)
    /\ UNCHANGED <<sent, final, rejecting, journal, run, lost, budget>>

\* Another relayer, or the claim's owner, was faster.
OtherRelays(a) ==
    /\ budget.rivals > 0
    /\ Succeeds(a)
    /\ Executed(a, 0)
    /\ budget' = [budget EXCEPT !.rivals = @ - 1]
    /\ UNCHANGED <<sent, mempool, final, rejecting, journal, run, lost>>

Finalize ==
    /\ final < Len(chain)
    /\ final' = final + 1
    /\ UNCHANGED <<sent, mempool, chain, rejecting, journal, run, lost, budget>>

\* Transactions that are not final are taken back and wait again.
Reorganize(n) ==
    /\ budget.reorgs > 0
    /\ n \in final .. Len(chain) - 1
    /\ chain' = SubSeq(chain, 1, n)
    /\ mempool' = (mempool \cup {chain[i].hash : i \in n + 1 .. Len(chain)}) \ {0}
    /\ budget' = [budget EXCEPT !.reorgs = @ - 1]
    /\ UNCHANGED <<sent, final, rejecting, journal, run, lost>>

Drop(h) ==
    /\ budget.drops > 0
    /\ h \in mempool
    /\ mempool' = mempool \ {h}
    /\ budget' = [budget EXCEPT !.drops = @ - 1]
    /\ UNCHANGED <<sent, chain, final, rejecting, journal, run, lost>>

\* A destination that rejected ether accepts it from now on, or the reverse.
ChangeMind(c) ==
    /\ budget.changes > 0
    /\ rejecting' = IF c \in rejecting THEN rejecting \ {c} ELSE rejecting \cup {c}
    /\ budget' = [budget EXCEPT !.changes = @ - 1]
    /\ UNCHANGED <<sent, mempool, chain, final, journal, run, lost>>

-----------------------------------------------------------------------------
(* The operator *)

\* Mutant (Settles): a rejected payment is planned again.
PlannedRegardless(c) ==
    LET done == Achieved(final)
    IN  (IF Recognize(c) \in done THEN <<>> ELSE <<Recognize(c)>>)
        \o (IF c \in Returns \/ Paid(done, c) THEN <<>> ELSE <<Withdraw(c)>>)

\* The actions buildSettlementPlan derives from one claim.  The payment of a
\* claim that is recognized is simulated, and left to its owner if it fails.
PlannedFor(c) ==
    LET done == Achieved(final)
        skipped == \/ c \in Returns
                   \/ Paid(done, c)
                   \/ Recognize(c) \in done /\ c \in rejecting
    IN  (IF Recognize(c) \in done THEN <<>> ELSE <<Recognize(c)>>)
        \o (IF skipped THEN <<>> ELSE <<Withdraw(c)>>)

Planned == FlattenSeq([i \in DOMAIN Packet |-> PlannedFor(Packet[i])])

\* What a plan must be before anything is sent: calls that the treasury knows,
\* each with the calldata its identity stands for, and no identity twice.
Executable(plan) == Range(plan) \subseteq Actions /\ IsInjective(plan)

\* A run plans anew; the journal of an earlier run has the same identity.
Start ==
    /\ run.at = "stopped"
    /\ Len(Planned) <= MaxPlanned
    /\ Executable(Planned)
    /\ run' = [Stopped EXCEPT !.at = "next", !.plan = Planned]
    /\ UNCHANGED <<sent, chainVars, journal, lost, budget>>

\* The process ends: it returns, or one of its checks throws.
End == run' = Stopped /\ UNCHANGED <<sent, chainVars, journal, lost, budget>>

At(place) == run.at = place /\ (place = "next" => run.plan # <<>>)
Current == Head(run.plan)
Entry == journal[Current]

Finish == run.at = "next" /\ run.plan = <<>> /\ End

\* The readback of verify: the ledger shows the action's effect.
Readback(a) == a \in Achieved(Len(chain))

Continue == run' = [run EXCEPT !.at = "next", !.plan = Tail(@), !.hash = 0]

\* An action the journal calls complete is checked again.
Recheck ==
    /\ At("next") /\ Entry.state = "complete"
    /\ IF Succeeded(Entry.hash) /\ Readback(Current)
       THEN Continue /\ UNCHANGED <<sent, chainVars, journal, lost, budget>>
       ELSE End

\* Mutant (SentOnce): a pending action without a receipt is sent again.
ResumeResending ==
    /\ At("next") /\ Entry.state = "pending"
    /\ IF Succeeded(Entry.hash)
       THEN run' = [run EXCEPT !.at = "check", !.hash = Entry.hash] /\ UNCHANGED <<sent, mempool>>
       ELSE /\ sent' = Append(sent, Current)
            /\ mempool' = mempool \cup {Len(sent')}
            /\ run' = [run EXCEPT !.at = "save", !.hash = Len(sent')]
    /\ UNCHANGED <<chain, final, rejecting, journal, lost, budget>>

\* An action that an earlier run sent: without a receipt this run stops.
Resume ==
    /\ At("next") /\ Entry.state = "pending"
    /\ IF Succeeded(Entry.hash) THEN run' = [run EXCEPT !.at = "check", !.hash = Entry.hash]
       ELSE run' = Stopped
    /\ UNCHANGED <<sent, chainVars, journal, lost, budget>>

\* The signer estimates the gas first, which throws for what would revert.
Send ==
    /\ At("next") /\ Entry.state = "unsent"
    /\ IF run.submitted < MaxActions /\ Succeeds(Current)
       THEN /\ sent' = Append(sent, Current)
            /\ mempool' = mempool \cup {Len(sent')}
            /\ run' = [run EXCEPT !.at = "save", !.hash = Len(sent')]
            /\ UNCHANGED <<chain, final, rejecting, journal, lost, budget>>
       ELSE End

\* The hash is in the journal file before the receipt is waited for.
Save ==
    /\ At("save")
    /\ journal' = [journal EXCEPT ![Current] = Pending(run.hash)]
    /\ run' = [run EXCEPT !.at = "wait", !.submitted = @ + 1]
    /\ UNCHANGED <<sent, chainVars, lost, budget>>

Await ==
    /\ At("wait") /\ Receipts(run.hash) # {}
    /\ IF Succeeded(run.hash) THEN run' = [run EXCEPT !.at = "check"] ELSE run' = Stopped
    /\ UNCHANGED <<sent, chainVars, journal, lost, budget>>

Check ==
    /\ At("check")
    /\ IF Readback(Current)
       THEN /\ journal' = [journal EXCEPT ![Current] = Complete(run.hash)]
            /\ Continue
            /\ UNCHANGED <<sent, chainVars, lost, budget>>
       ELSE End

\* The process dies.  What it had not saved is gone.
Crash ==
    /\ run.at # "stopped"
    /\ budget.crashes > 0
    /\ budget' = [budget EXCEPT !.crashes = @ - 1]
    /\ lost' = IF run.at = "save" THEN lost \cup {run.hash} ELSE lost
    /\ run' = Stopped
    /\ UNCHANGED <<sent, chainVars, journal>>

\* waitForTransaction has no timeout: the operator stops a hopeless wait.
Interrupt == At("wait") /\ Dropped(run.hash) /\ End

Works == Start \/ Finish \/ Recheck \/ Resume \/ Send \/ Save \/ Await \/ Check \/ Interrupt

Others == \E a \in Actions \cup {Redirect(c) : c \in Claims \ Returns} : OtherRelays(a)

Faults ==
    \/ Crash
    \/ \E n \in 0 .. Len(chain) : Reorganize(n)
    \/ \E h \in mempool : Drop(h)
    \/ \E c \in Fickle : ChangeMind(c)

Next == Works \/ (\E h \in mempool : Include(h)) \/ Others \/ Finalize \/ Faults

Spec == Init /\ [][Next]_vars

\* The operator starts the tool again whenever it has stopped, the chain
\* executes and finalizes; nobody else has to do anything.
Fairness ==
    /\ WF_vars(Works)
    /\ WF_vars(\E h \in mempool : Include(h))
    /\ WF_vars(Finalize)

FairSpec == Spec /\ Fairness

-----------------------------------------------------------------------------
(* Properties *)

\* However often the tool is restarted, and whatever it reads back, it sends
\* an action again only if the process that sent it died before it saved the
\* hash: every other transaction is the one the journal names or the one
\* about to be saved (executeSettlementPlan).
SentOnce ==
    \A h \in DOMAIN sent :
        \/ h \in lost
        \/ journal[sent[h]].hash = h
        \/ run.at = "save" /\ run.hash = h

RunType ==
    [at : {"stopped", "next", "save", "wait", "check"},
     plan : Seq(Actions), submitted : Nat, hash : Nat]
EntryType == [state : {"unsent", "pending", "complete"}, hash : Nat]

\* What SentOnce rests on: the journal names no hash for an action that counts
\* as unsent and otherwise one of its own transactions, and a process works on the action at the head of its plan, whose
\* entry is still unsent until the hash is saved and names the hash after that.
RunnerInv ==
    /\ sent \in Seq(Actions)
    /\ journal \in [Actions -> EntryType]
    /\ run \in RunType
    /\ \A a \in Actions : journal[a].state = "unsent" => journal[a].hash = 0
    /\ \A a \in Actions : journal[a].hash # 0 =>
          journal[a].hash \in DOMAIN sent /\ sent[journal[a].hash] = a
    /\ run.at \in {"save", "wait", "check"} => run.plan # <<>>
    /\ run.at = "save" =>
          Entry.state = "unsent" /\ run.hash \in DOMAIN sent /\ sent[run.hash] = Current
    /\ run.at \in {"wait", "check"} => Entry.hash = run.hash
    /\ SentOnce

Settled(c) ==
    LET done == Achieved(final)
    IN  IF c \in Returns THEN Recognize(c) \in done ELSE Paid(done, c)

\* The ways to get stuck: an action is still due and the journal names a
\* transaction for it that was dropped, or that paid a destination which
\* rejected the payment although it had accepted the estimate.
Stuck ==
    \E a \in Range(Planned) :
        LET h == journal[a].hash
        IN  /\ h # 0
            /\ \/ Dropped(h)
               \/ a[2] \in Fickle /\ \E i \in 1 .. final : chain[i].hash = h /\ ~chain[i].succeeded

\* A restarted operator settles the packet after crashes, reorganizations and
\* lost races, and goes past claims that only their owner can collect, unless
\* it is stuck for ever on such a transaction (executeSettlementPlan).
Settles == \A c \in Claims : <>Settled(c) \/ <>[]Stuck \/ []<>(c \in rejecting)
=============================================================================
