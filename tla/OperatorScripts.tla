--------------------------- MODULE OperatorScripts ---------------------------
(***************************************************************************)
(* A process that runs one of the operator scripts of PublicScripts,       *)
(* against a source epoch, its Safe and the target treasury.  The script   *)
(* keeps a report file: the stages done, the transactions recorded, and    *)
(* one slot for the transaction it waits for, written once the node has    *)
(* answered with its hash.  The process may die between any two steps and  *)
(* is started again from the top with the report it left.                  *)
(*                                                                         *)
(* What a contract call does is what SourceCoordinator and WorkTreasury    *)
(* say of it, at the grain the scripts read: an order is one milestone     *)
(* with its four deadlines, the ledger a sum over orders, and a right of   *)
(* the target is recognized once and paid once.  Calls that need nobody's  *)
(* consent are also made by others.  The epoch's own cutoffs may pass.  A  *)
(* source transaction is not undone.                                       *)
(***************************************************************************)
EXTENDS PublicScripts, FiniteSetsExt

CONSTANTS
    Scripts,      \* the scripts that are run, a subset of DOMAIN Programs
    Budgets       \* bounds: how often each fault and each outside step happens, by script

ASSUME ScriptsAssumption == Scripts \subseteq DOMAIN Programs

\* Whatever refreshes an offer comes after the step that drafts it and is left out
\* with it, if at all; "always" is no stage of the report.
ASSUME RefreshAssumption ==
    \A name \in Scripts :
        LET steps == Programs[name]
        IN  /\ Len(steps) \in Nat
            /\ \A i \in 1 .. Len(steps) :
                  /\ steps[i].do = "mark" => steps[i].stage # "always"
                  /\ steps[i].do = "refresh" =>
                        \E j \in 1 .. i - 1 :
                            /\ steps[j].do = "draft" /\ steps[j].key = steps[i].key
                            /\ steps[j].stage \in {"always", steps[i].stage}


Sending == {"safe", "direct", "target", "refresh"}
Settling == {"decline", "expire", "approve", "voteLast", "settle", "finalize"}
OrderFns == Settling \cup {"createOffer", "acceptOffer", "deliver", "challenge", "vote", "voteOther"}
CallFns ==
    OrderFns \cup {"initialize", "release", "drain", "sweep", "republish", "expireEpoch", "swapOwner",
                   "deploy", "fund", "authenticate", "import", "recognize", "recognizeBare",
                   "withdraw", "record", "fundFree", "refund", "refuse"}
\* The two ways to recognize a right.
Kind(fn) == IF fn = "recognizeBare" THEN "recognize" ELSE fn

\* The calls of a program: a label and a key name one, and what is about an order comes
\* after the step that drafts its terms.
ASSUME CallsAssumption ==
    \A name \in Scripts :
        LET steps == Programs[name]
        IN  \A i \in 1 .. Len(steps) :
               /\ steps[i].do = "draft" => steps[i].key \in Keys
               /\ steps[i].do \in Sending =>
                     /\ steps[i].fn \in CallFns
                     /\ steps[i].fn \in OrderFns => steps[i].key \in Keys
                     /\ steps[i].key \in Keys =>
                           \E j \in 1 .. i - 1 : steps[j].do = "draft" /\ steps[j].key = steps[i].key
                     /\ steps[i].fn = "createOffer" => steps[i].do = "safe"
                     /\ steps[i].do = "refresh" => steps[i].fn = "expire"
                     /\ steps[i].fn = "release" => steps[i].arg \in Nat \ {0}
                     /\ steps[i].fn \in {"settle", "voteLast"} => steps[i].arg \in Nat
                     /\ \A j \in 1 .. Len(steps) :
                           steps[j].do \in Sending /\ steps[j].label = steps[i].label
                                   /\ steps[j].key = steps[i].key
                               => Kind(steps[j].fn) = Kind(steps[i].fn)

\* The stage is marked by a step before i.
MarkedBefore(steps, stage, i) ==
    \E m \in 1 .. i - 1 : steps[m].do = "mark" /\ steps[m].stage = stage
\* A step that settles an order whose offer is not refreshed any more.
SettlesOrder(steps, i) ==
    /\ steps[i].do \in {"safe", "direct"} /\ steps[i].fn \in Settling
    /\ \A r \in 1 .. Len(steps) :
          steps[r].do = "refresh" /\ steps[r].key = steps[i].key
              => MarkedBefore(steps, steps[r].stage, i)
\* A check that nothing is reserved, when no offer is refreshed any more.
SeesNoReserve(steps, i) ==
    /\ steps[i].do = "check" /\ steps[i].fn = "accounts" /\ steps[i].arg[2] = 0
    /\ \A r \in 1 .. Len(steps) :
          steps[r].do = "refresh" => MarkedBefore(steps, steps[r].stage, i)

\* A stage is marked at its end.  Before a program sweeps its epoch it settles every order
\* it drafts, and if it refreshes offers it has seen an epoch without reserve.
ASSUME SweepAssumption ==
    \A name \in Scripts :
        LET steps == Programs[name]
        IN  \A i, j \in 1 .. Len(steps) :
               /\ steps[i].do = "mark" /\ steps[j].stage = steps[i].stage => j <= i
               /\ steps[i].fn = "sweep" =>
                     /\ steps[j].do = "draft" =>
                           \E f \in 1 .. i - 1 : SettlesOrder(steps, f) /\ steps[f].key = steps[j].key
                     /\ steps[j].do = "refresh" => \E w \in 1 .. i - 1 : SeesNoReserve(steps, w)

VARIABLES
    script,     \* the script that is run
    orders,     \* the orders drafted so far: <<key, generation>> -> record
    source,     \* the rest of the epoch's state, and the Safe's nonce
    target,     \* the target ledger of the epoch
    sent,       \* the transactions sent; a transaction's hash is its place
    outcome,    \* of each: waiting, ok, failed or dropped
    report,     \* the report file
    process,    \* the running process
    lost,       \* history: hashes whose process died before it journaled them
    misread,    \* history: orders replaced because a failed lookup hid them
    budget

vars == <<script, orders, source, target, sent, outcome, report, process, lost, misread, budget>>
chainVars == <<orders, source, target, sent, outcome>>
historyVars == <<script, lost, misread, budget>>

Program == Programs[script]

Drafted == [status |-> "drafted", agreed |-> FALSE, pay |-> 0, passed |-> 0, outcome |-> "none"]
Stopped == [at |-> "stopped", pc |-> 1, hash |-> 0]

Init ==
    /\ script \in Scripts /\ budget \in Budgets[script]
    /\ orders = << >>
    /\ source = [phase |-> "none", returned |-> 0, votes |-> {}, facts |-> {}, nonce |-> 0,
                 attested |-> FALSE]
    /\ target = [funding |-> "none", evidence |-> {}, recognized |-> {}, paid |-> {},
                 free |-> budget.spare, refunded |-> 0, facts |-> {}]
    /\ sent = << >> /\ outcome = << >>
    /\ report = [stages |-> {}, recorded |-> {}, failed |-> {}, pending |-> 0,
                 queued |-> 0, refused |-> FALSE, signed |-> FALSE]
    /\ process = Stopped
    /\ lost = {} /\ misread = {}


-----------------------------------------------------------------------------
(* The source epoch *)

Generations(key) == {id \in DOMAIN orders : id[1] = key}
Current(key) == CHOOSE id \in Generations(key) : \A other \in Generations(key) : other[2] <= id[2]
OrderOf(key) == orders[Current(key)]

Live(order) == order.status \in {"offered", "agreed", "delivered", "challenged"}
SumOver(ids, f(_)) == SumFunction([id \in ids |-> f(id)])
Unresolved == SumOver({id \in DOMAIN orders : Live(orders[id])}, LAMBDA id : Budget[id[1]])
EarnedNow == SumOver(DOMAIN orders, LAMBDA id : orders[id].pay)
Available ==
    IF source.phase = "none" THEN 0
    ELSE Cap[script] - Unresolved - EarnedNow - source.returned

\* _activeEpoch: new work and releases are over when draining starts or the
\* admission cutoff passes.
Admitting == source.phase = "active" /\ "admission" \notin source.facts
\* The epoch closed with the earnings that the script means it to have.
Concluded == source.phase = "closed" /\ EarnedNow = SumFunction(Earned[script])

\* What anyone can finalize, with the pay and the outcome it brings.
Default(id) ==
    LET order == orders[id]
    IN  CASE order.status = "agreed" /\ order.passed >= DeliverBefore -> <<0, "no delivery">>
          [] order.status = "delivered" /\ order.passed >= ReviewBefore -> <<FullWork[id[1]], "default">>
          [] order.status = "challenged" /\ order.passed >= RuleBefore -> <<TimeoutWork[id[1]], "timeout">>
          [] OTHER -> <<0, "none">>

Rights == Returned[script] @@ Earned[script]

\* The evidence a recognition needs: the log's receipt or a checkpoint above it.
Provable(right) ==
    CASE right = "expiry1" -> "expired" \in source.facts /\ "successor" \in target.facts
      [] right \in {"return50", "work-a"} -> {"first", "checkpoint"} \cap target.evidence # {}
      [] right \in {"quorum-work", "quorum-fee"} -> target.evidence # {}
      [] right \in {"return15", "return11", "return1"} -> {"final", "checkpoint"} \cap target.evidence # {}
      [] OTHER -> "checkpoint" \in target.evidence

\* Whether the contract accepts the call now.
Accepts(call) ==
    LET order == orders[call.id]
    IN  CASE call.fn = "initialize" -> source.phase = "none" /\ "initialization" \notin source.facts
          [] call.fn = "createOffer" ->
                /\ Admitting /\ order.status = "drafted"
                /\ order.passed < AcceptBefore /\ Budget[call.id[1]] <= Available
          [] call.fn = "acceptOffer" -> order.status = "offered" /\ order.passed < AcceptBefore
          [] call.fn = "decline" -> order.status = "offered"
          [] call.fn = "expire" -> order.status = "offered" /\ order.passed >= AcceptBefore
          [] call.fn = "deliver" -> order.status = "agreed" /\ order.passed < DeliverBefore
          [] call.fn \in {"approve", "challenge"} ->
                order.status = "delivered" /\ order.passed < ReviewBefore
          [] call.fn \in {"vote", "voteOther", "voteLast"} ->
                order.status = "challenged" /\ order.passed < RuleBefore /\ call.fn \notin source.votes
          [] call.fn = "settle" -> order.status \in {"agreed", "delivered", "challenged"}
          [] call.fn = "finalize" -> Default(call.id)[2] # "none"
          [] call.fn = "release" -> Admitting /\ call.arg <= Available
          [] call.fn = "drain" ->
                source.phase = "active" /\ (call.via = "safe" \/ "admission" \in source.facts)
          [] call.fn = "sweep" -> source.phase = "draining"
          [] call.fn = "republish" -> source.phase # "none"
          [] call.fn = "expireEpoch" ->
                IF call.key = "successor" THEN "cutoff" \in source.facts /\ "expired" \notin source.facts
                ELSE source.phase = "none" /\ "initialization" \in source.facts
          [] call.fn = "fund" -> target.funding = "none"
          [] call.fn = "authenticate" -> call.key = "first" \/ Concluded
          [] call.fn = "import" -> target.funding # "none" /\ Concluded
          [] call.fn \in {"recognize", "recognizeBare"} ->
                Provable(call.key) /\ call.key \notin target.recognized
          [] call.fn = "withdraw" -> call.key \in target.recognized \ target.paid
          [] call.fn = "record" -> call.key \in target.paid /\ "invoice" \notin target.facts
          [] call.fn = "fundFree" -> call.arg <= target.free /\ "successor" \notin target.facts
          [] call.fn = "refund" -> call.arg \in 1 .. target.free
          [] call.fn = "refuse" -> FALSE
          [] OTHER -> TRUE

Final(order, pay, how) ==
    [order EXCEPT !.status = "final", !.pay = pay, !.outcome = how]

\* The effect of an accepted call, on an order, on the epoch and on the target.
OrderAfter(call, order) ==
    CASE call.fn = "createOffer" -> [order EXCEPT !.status = "offered"]
      [] call.fn = "acceptOffer" -> [order EXCEPT !.status = "agreed", !.agreed = TRUE]
      [] call.fn = "decline" -> Final(order, 0, "declined")
      [] call.fn = "expire" -> Final(order, 0, "expired")
      [] call.fn = "deliver" -> [order EXCEPT !.status = "delivered"]
      [] call.fn = "challenge" -> [order EXCEPT !.status = "challenged"]
      [] call.fn = "approve" -> Final(order, FullWork[call.id[1]], "approved")
      [] call.fn = "voteLast" -> Final(order, call.arg, "ruled")
      [] call.fn = "settle" -> Final(order, call.arg, "settled")
      [] call.fn = "finalize" -> Final(order, Default(call.id)[1], Default(call.id)[2])
      [] OTHER -> order

SourceAfter(call) ==
    CASE call.fn = "initialize" -> [source EXCEPT !.phase = "active"]
      [] call.fn \in {"vote", "voteOther"} -> [source EXCEPT !.votes = @ \cup {call.fn}]
      [] call.fn = "release" -> [source EXCEPT !.returned = @ + call.arg]
      [] call.fn = "drain" -> [source EXCEPT !.phase = "draining"]
      [] call.fn = "sweep" -> [source EXCEPT !.returned = @ + Available]
      [] call.fn = "expireEpoch" ->
            IF call.key = "successor" THEN [source EXCEPT !.facts = @ \cup {"expired"}]
            ELSE [source EXCEPT !.phase = "closed", !.returned = Cap[script]]
      [] call.fn = "swapOwner" -> [source EXCEPT !.facts = @ \cup {"rotated"}]
      [] OTHER -> source

Credited(right) == IF right \in DOMAIN Returned[script] THEN Rights[right] ELSE 0

TargetAfter(call) ==
    CASE call.fn = "fund" -> [target EXCEPT !.funding = "funded"]
      [] call.fn = "authenticate" -> [target EXCEPT !.evidence = @ \cup {call.key}]
      [] call.fn = "import" -> [target EXCEPT !.evidence = @ \cup {"checkpoint"}]
      [] call.fn \in {"recognize", "recognizeBare"} ->
            [target EXCEPT !.recognized = @ \cup {call.key}, !.free = @ + Credited(call.key)]
      [] call.fn = "withdraw" -> [target EXCEPT !.paid = @ \cup {call.key}]
      [] call.fn = "record" -> [target EXCEPT !.facts = @ \cup {"invoice"}]
      [] call.fn = "fundFree" -> [target EXCEPT !.free = @ - call.arg, !.facts = @ \cup {"successor"}]
      [] call.fn = "refund" -> [target EXCEPT !.free = @ - call.arg, !.refunded = @ + call.arg]
      [] OTHER -> target

OrdersAfter(call) ==
    IF call.id \in DOMAIN orders THEN [orders EXCEPT ![call.id] = OrderAfter(call, @)] ELSE orders

\* _maybeClose: an epoch closes when its cap is earned or returned to the last unit.
Closes(after) ==
    after.phase # "none" /\ Unresolved' = 0 /\ EarnedNow' + after.returned = Cap[script]

Applied(call) ==
    LET after == SourceAfter(call)
    IN  /\ orders' = OrdersAfter(call)
        /\ source' = [after EXCEPT
                         !.phase = IF Closes(after) THEN "closed" ELSE @,
                         !.nonce = IF call.via = "safe" THEN @ + 1 ELSE @,
                         !.attested = call.via = "target" /\ @]
        /\ target' = TargetAfter(call)

\* The accounts in whose name the transactions go out, each with its own order.
Sender(call) ==
    CASE call.via = "target" -> "sponsor"
      [] call.fn \in {"deliver", "decline"} -> "worker"
      [] OTHER -> "relayer"

\* A Safe transaction was signed for one nonce of the Safe.
Include(h) ==
    LET call == sent[h]
        accepted == Accepts(call) /\ (call.via = "safe" => call.nonce = source.nonce)
    IN  /\ outcome[h] = "waiting"
        /\ \A g \in 1 .. h - 1 : outcome[g] = "waiting" => Sender(sent[g]) # Sender(call)
        /\ outcome' = [outcome EXCEPT ![h] = IF accepted THEN "ok" ELSE "failed"]
        /\ IF accepted THEN Applied(call) ELSE UNCHANGED <<orders, source, target>>
        /\ UNCHANGED <<sent, report, process, historyVars>>

Drop(h) ==
    /\ budget.drops > 0 /\ outcome[h] = "waiting"
    /\ outcome' = [outcome EXCEPT ![h] = "dropped"]
    /\ budget' = [budget EXCEPT !.drops = @ - 1]
    /\ UNCHANGED <<orders, source, target, sent, report, process, script, lost, misread>>

CallOf(step, id) ==
    [label |-> step.label, via |-> step.do, fn |-> step.fn, key |-> step.key, id |-> id,
     arg |-> step.arg, nonce |-> source.nonce]

\* The calls that need nobody's consent, made by somebody else.
OthersSteps ==
    {Direct("other", fn, "epoch", 0) : fn \in {"drain", "sweep", "expireEpoch"}}
    \cup {Direct("other", "expireEpoch", "successor", 0), Target("other", "refund", "epoch", target.free)}
    \cup {Target("other", "recognize", right, 0) : right \in DOMAIN Rights}
    \cup {Target("other", "withdraw", right, 0) : right \in DOMAIN Earned[script]}
    \cup {Target("other", fn, "final", 0) : fn \in {"authenticate", "import"}}

OthersCalls ==
    {CallOf(step, << >>) : step \in OthersSteps}
    \cup {CallOf(Direct("other", fn, id[1], 0), id) : fn \in {"expire", "finalize"}, id \in DOMAIN orders}

OtherActs(call) ==
    /\ budget.rivals > 0
    /\ Accepts(call) /\ Applied(call)
    /\ budget' = [budget EXCEPT !.rivals = @ - 1]
    /\ UNCHANGED <<sent, outcome, report, process, script, lost, misread>>

\* Deadlines of a live order pass: one that the script waits for, or, a bounded number
\* of times, one or several while nothing is done about the order.
AtStep(do) ==
    process.at = "step" /\ process.pc <= Len(Program) /\ Program[process.pc].do = do

Awaits(id) ==
    AtStep("await") /\ LET step == Program[process.pc]
                       IN  id = Current(step.key) /\ orders[id].passed < step.arg

Pass(id) ==
    /\ orders[id].status # "final"
    /\ \E passed \in orders[id].passed + 1 .. RuleBefore :
          /\ orders' = [orders EXCEPT ![id].passed = passed]
          /\ IF Awaits(id) /\ passed = orders[id].passed + 1 THEN UNCHANGED budget
             ELSE budget.delays > 0 /\ budget' = [budget EXCEPT !.delays = @ - 1]
    /\ UNCHANGED <<source, target, sent, outcome, report, process, script, lost, misread>>

\* The epoch's cutoff for initialization passes, or both of its cutoffs.
PassCutoff ==
    \E passed \in {{"initialization"}, {"initialization", "admission"}} :
        /\ ~(passed \subseteq source.facts) /\ budget.delays > 0
        /\ source' = [source EXCEPT !.facts = @ \cup passed]
        /\ budget' = [budget EXCEPT !.delays = @ - 1]
        /\ UNCHANGED <<orders, target, sent, outcome, report, process, script, lost, misread>>

\* The chains advance: funding becomes final, the target attests the source,
\* the successor's initialization cutoff passes.
Advance ==
    /\ \/ target.funding = "funded" /\ target' = [target EXCEPT !.funding = "final"]
          /\ UNCHANGED source
       \/ ~source.attested /\ AtStep("pause") /\ source' = [source EXCEPT !.attested = TRUE]
          /\ UNCHANGED target
       \/ "successor" \in target.facts /\ "cutoff" \notin source.facts
          /\ source' = [source EXCEPT !.facts = @ \cup {"cutoff"}] /\ UNCHANGED target
    /\ UNCHANGED <<orders, sent, outcome, report, process, historyVars>>

-----------------------------------------------------------------------------
(* The process *)

This == Program[process.pc]
At(do) == AtStep(do)
Recorded(label) == \E h \in report.recorded : sent[h].label = label
IdOf(step) == IF step.key \in Keys THEN Current(step.key) ELSE << >>

\* The next step whose stage is not marked.
Following(pc, stages) ==
    Min({i \in pc + 1 .. Len(Program) + 1 :
            i > Len(Program) \/ Program[i].stage \notin stages})
Goto(pc) == process' = [at |-> "step", pc |-> pc, hash |-> 0]
Proceed == Goto(Following(process.pc, report.stages))
Continue == Proceed /\ UNCHANGED <<chainVars, report, historyVars>>
End == process' = Stopped /\ UNCHANGED <<chainVars, report, historyVars>>

\* A transaction of the public demonstration that must be mined as a failure.
AsExpected(h) == outcome[h] = IF sent[h].fn = "refuse" THEN "failed" ELSE "ok"
Mined(h) == outcome[h] \in {"ok", "failed"}

RecordedNow(h) == [report EXCEPT !.recorded = @ \cup {h}, !.pending = 0]
FailedNow(h) == [report EXCEPT !.failed = @ \cup {h}, !.pending = 0]

\* A failed transaction that no run of the public branches gets past: those on the target
\* chain, and on the source chain the expiry of the successor.
NeverCleared(call) == script = "branches" /\ (call.via = "target" \/ call.fn = "expireEpoch")

StartFresh ==
    /\ process.at = "stopped" /\ report.pending = 0
    /\ "complete" \notin report.stages
    /\ Goto(Following(0, report.stages))
    /\ UNCHANGED <<chainVars, report, historyVars>>

\* Mutant (SentOnce): a transaction that is still pending is forgotten.
RecoverForgetting ==
    LET h == report.pending
    IN  /\ process.at = "stopped" /\ h # 0
        /\ IF Mined(h) /\ AsExpected(h) THEN report' = RecordedNow(h)
           ELSE report' = [report EXCEPT !.pending = 0]
        /\ Goto(Following(0, report.stages))
        /\ UNCHANGED <<chainVars, historyVars>>

\* Mutant (Completes): a transaction found failed stays the pending one.
RecoverKeeping ==
    LET h == report.pending
    IN  /\ process.at = "stopped" /\ h # 0
        /\ Mined(h) /\ AsExpected(h)
        /\ report' = RecordedNow(h) /\ Goto(Following(0, report.stages))
        /\ UNCHANGED <<chainVars, historyVars>>

\* The transaction a dead process left in the journal turns out mined as the
\* script meant it: it is recorded and the run goes on from the top.
Recovered(h) == report' = RecordedNow(h) /\ Goto(Following(0, report.stages))

\* Or it failed, which is written down and ends the run, except that of an
\* acceptance, after which the demonstration looks at the offer again.
FoundFailed(h) ==
    /\ ~NeverCleared(sent[h])
    /\ report' = FailedNow(h)
    /\ IF script = "demo" /\ sent[h].fn = "acceptOffer"
       THEN Goto(Following(0, report.stages)) ELSE UNCHANGED process

\* Until it is mined no run does anything.
Recover ==
    LET h == report.pending
    IN  /\ process.at = "stopped" /\ h # 0
        /\ Mined(h)
        /\ IF AsExpected(h) THEN Recovered(h) ELSE FoundFailed(h)
        /\ UNCHANGED <<chainVars, historyVars>>

\* Whether the state the script reads calls for the transaction.
Due(step) ==
    CASE step.fn = "initialize" -> source.phase = "none"
      [] step.fn = "createOffer" -> OrderOf(step.key).status = "drafted"
      [] step.fn = "acceptOffer" -> ~OrderOf(step.key).agreed
      [] step.fn = "deliver" -> OrderOf(step.key).status = "agreed"
      [] step.fn = "challenge" -> OrderOf(step.key).status = "delivered"
      [] step.fn \in {"vote", "voteOther"} ->
            OrderOf(step.key).status # "final" /\ step.fn \notin source.votes
      [] step.fn \in {"decline", "expire", "approve", "voteLast", "settle", "finalize"} ->
            OrderOf(step.key).status # "final"
      [] step.fn = "release" -> source.returned = 0
      [] step.fn = "drain" -> source.phase = "active"
      [] step.fn = "sweep" -> Available # 0
      [] step.fn = "import" -> script = "rotation" => {"final", "checkpoint"} \cap target.evidence = {}
      [] step.fn = "swapOwner" -> "rotated" \notin source.facts
      [] step.fn = "fund" -> target.funding = "none"
      [] step.fn = "fundFree" -> "successor" \notin target.facts
      [] step.fn \in {"recognize", "recognizeBare"} -> step.key \notin target.recognized
      [] step.fn = "withdraw" -> step.key \notin target.paid
      [] step.fn = "record" -> "invoice" \notin target.facts
      [] step.fn \in {"republish", "refund", "deploy", "refuse", "expireEpoch"} -> ~Recorded(step.label)
      [] OTHER -> TRUE

\* What the script checks before the call and throws about.
Demanded(step) ==
    /\ step.key = "return50" => Unresolved = 40 /\ EarnedNow = 30
    /\ step.key = "return15" => target.recognized \cap DOMAIN Earned[script] = {}
    /\ step.fn = "recognizeBare" => "checkpoint" \notin target.evidence

Submit(step, at) ==
    /\ sent' = Append(sent, CallOf(step, IdOf(step)))
    /\ outcome' = Append(outcome, "waiting")
    /\ process' = [process EXCEPT !.at = at, !.hash = Len(sent')]
    /\ UNCHANGED <<orders, source, target, report, historyVars>>

\* A call that would revert is refused by the simulation or the gas estimate;
\* the invoice book is deployed without a journal entry.
Call ==
    /\ process.at = "step" /\ process.pc <= Len(Program)
    /\ This.do \in {"safe", "direct", "target"}
    /\ IF ~Due(This) THEN Continue
       ELSE IF ~Demanded(This) \/ (This.fn # "refuse" /\ ~Accepts(CallOf(This, IdOf(This)))) THEN End
       ELSE Submit(This, IF This.key = "book" THEN "wait" ELSE "journal")

\* onSubmitted, before the receipt is waited for.
Journal ==
    /\ process.at = "journal"
    /\ report' = [report EXCEPT !.pending = process.hash]
    /\ process' = [process EXCEPT !.at = "wait"]
    /\ UNCHANGED <<chainVars, historyVars>>

\* Whether a run that sees its own transaction fail also writes that down.
ClearsAtOnce(call) ==
    \/ call.via = "target" /\ script # "branches"
    \/ call.via = "direct" /\ script = "rotation"

Receive ==
    LET h == process.hash
    IN  /\ process.at = "wait" /\ Mined(h)
        /\ IF AsExpected(h)
           THEN /\ report' = RecordedNow(h)
                /\ IF This.do = "refresh" THEN Goto(process.pc) ELSE Proceed
           ELSE /\ report' = IF ClearsAtOnce(sent[h]) THEN FailedNow(h) ELSE report
                /\ process' = Stopped
        /\ UNCHANGED <<chainVars, historyVars>>

\* The process ends, with the transaction in its hands journaled or not.
Dies ==
    /\ process' = Stopped
    /\ lost' = IF process.at \in {"journal", "wait"} /\ report.pending = 0
               THEN lost \cup {process.hash} ELSE lost
    /\ UNCHANGED <<chainVars, report, script, misread>>

\* Waiting for a transaction the node no longer knows ends by hand.
Interrupt ==
    process.at = "wait" /\ outcome[process.hash] = "dropped" /\ Dies /\ UNCHANGED budget

NewDraft(key, generation) ==
    orders' = [id \in {<<key, generation>>} \cup DOMAIN orders |->
                  IF id = <<key, generation>> THEN Drafted ELSE orders[id]]

\* The terms are in the report before the first transaction about them.
SaveDraft ==
    /\ At("draft")
    /\ IF Generations(This.key) # {} THEN Continue
       ELSE /\ NewDraft(This.key, 1) /\ Proceed
            /\ UNCHANGED <<source, target, sent, outcome, report, historyVars>>

Replace(id) ==
    /\ NewDraft(id[1], id[2] + 1) /\ Proceed
    /\ UNCHANGED <<source, target, sent, outcome, report, script, budget>>

\* Mutant (OffersTracked): an overdue reservation is replaced before it is expired.
RefreshUnexpired ==
    LET id == Current(This.key)
        order == orders[id]
    IN  /\ At("refresh")
        /\ IF order.agreed \/ order.passed < AcceptBefore THEN Continue
           ELSE Replace(id) /\ UNCHANGED <<lost, misread>>

\* refreshExpiredOffer: an offer past its acceptance deadline is expired if it
\* was reserved, and replaced.
RefreshExpiredOffer ==
    LET id == Current(This.key)
        order == orders[id]
    IN  /\ At("refresh")
        /\ IF order.agreed \/ (order.status # "final" /\ order.passed < AcceptBefore) THEN Continue
           ELSE IF order.status = "offered" THEN Submit(This, "journal")
           ELSE Replace(id) /\ UNCHANGED <<lost, misread>>

\* orderExists answers false to any error of the node: an overdue draft is
\* replaced although its order exists.
RefreshMisreading ==
    LET id == Current(This.key)
    IN  /\ At("refresh") /\ budget.errors > 0
        /\ orders[id].status # "drafted" /\ orders[id].passed >= AcceptBefore
        /\ NewDraft(id[1], id[2] + 1) /\ Proceed
        /\ misread' = misread \cup {id}
        /\ budget' = [budget EXCEPT !.errors = @ - 1]
        /\ UNCHANGED <<source, target, sent, outcome, report, script, lost>>

WaitForBlock ==
    /\ At("await")
    /\ OrderOf(This.key).status = "final" \/ OrderOf(This.key).passed >= This.arg
    /\ Continue

\* Mutant (StagesHold): the funding is read at the head of the chain.
ReadyAtHead ==
    CASE This.fn = "funding" -> target.funding # "none"
      [] This.fn = "attestation" -> source.attested
      [] This.fn = "cutoff" -> "cutoff" \in source.facts

\* The script returns and is started again later.
Ready ==
    CASE This.fn = "funding" -> target.funding = "final"
      [] This.fn = "attestation" -> source.attested
      [] This.fn = "cutoff" -> "cutoff" \in source.facts

PauseUntil == At("pause") /\ IF Ready THEN Continue ELSE End

Holds(step) ==
    LET accounts == <<Available, Unresolved, EarnedNow, source.returned>>
    IN  CASE step.fn = "accounts" -> accounts = step.arg
          [] step.fn = "accountsUnlessFinal" -> OrderOf(step.key).status = "final" \/ accounts = step.arg
          [] step.fn = "outcome" -> OrderOf(step.key).outcome = step.arg
          [] step.fn = "reserve" -> target.recognized = DOMAIN Rights

Check == At("check") /\ IF Holds(This) THEN Continue ELSE End
NeedReceipt == At("receipt") /\ IF Recorded(This.label) THEN Continue ELSE End

\* The old owners sign for the Safe's nonce after the rotation.
QueueApproval ==
    /\ At("queue")
    /\ report' = IF report.queued # 0 \/ OrderOf(This.key).status = "final" THEN report
                 ELSE [report EXCEPT !.queued = source.nonce + 1]
    /\ Proceed
    /\ UNCHANGED <<chainVars, historyVars>>

\* The queued approval is for the current nonce, and the removed owner's
\* signature makes the Safe refuse it.
SeeRefusal ==
    /\ At("refused")
    /\ IF report.refused \/ OrderOf(This.key).status = "final" THEN Continue
       ELSE IF report.queued # source.nonce THEN End
       ELSE /\ report' = [report EXCEPT !.refused = TRUE]
            /\ Proceed
            /\ UNCHANGED <<chainVars, historyVars>>

\* The worker signs the settlement that comes too late, while the milestone is live.
SignSettlement ==
    /\ At("sign")
    /\ IF report.signed THEN Continue
       ELSE IF OrderOf(This.key).status \notin {"agreed", "delivered", "challenged"} THEN End
       ELSE /\ report' = [report EXCEPT !.signed = TRUE]
            /\ Proceed
            /\ UNCHANGED <<chainVars, historyVars>>

MarkStage ==
    /\ At("mark")
    /\ report' = [report EXCEPT !.stages = @ \cup {This.stage}]
    /\ Goto(Following(process.pc, report'.stages))
    /\ UNCHANGED <<chainVars, historyVars>>

Exit == process.at = "step" /\ process.pc > Len(Program) /\ End

Crash ==
    /\ process.at # "stopped" /\ budget.crashes > 0
    /\ budget' = [budget EXCEPT !.crashes = @ - 1]
    /\ Dies

Works ==
    \/ StartFresh \/ Recover \/ Call \/ Journal \/ Receive \/ Interrupt
    \/ SaveDraft \/ RefreshExpiredOffer \/ WaitForBlock \/ PauseUntil \/ Check \/ NeedReceipt
    \/ QueueApproval \/ SeeRefusal \/ SignSettlement \/ MarkStage \/ Exit

Includes == \E h \in DOMAIN sent : Include(h)
AwaitedPass == \E id \in DOMAIN orders : Awaits(id) /\ Pass(id)

Faults ==
    \/ Crash \/ RefreshMisreading \/ PassCutoff
    \/ \E h \in DOMAIN sent : Drop(h)
    \/ \E call \in OthersCalls : OtherActs(call)
    \/ \E id \in DOMAIN orders : Pass(id)

Next == Works \/ Includes \/ Advance \/ Faults

Spec == Init /\ [][Next]_vars

\* The operator starts the script again whenever it has stopped; transactions
\* are executed and the chains advance.
FairSpec == Spec /\ WF_vars(Works) /\ WF_vars(Includes) /\ SF_vars(Advance) /\ WF_vars(AwaitedPass)

-----------------------------------------------------------------------------
(* Properties *)

\* Whatever is interrupted and started again, a script sends the same call for
\* the same order or right a second time only after the first has failed, or if
\* the process that sent it died before it journaled the hash; what the treasury
\* takes any number of times is exempt (pushOperation, finalizePending, push).
SentOnce ==
    \A g, h \in DOMAIN sent :
        /\ g < h
        /\ <<sent[g].label, sent[g].key, sent[g].id>> = <<sent[h].label, sent[h].key, sent[h].id>>
        => \/ g \in lost
           \/ outcome[g] = "failed"
           \/ sent[g].fn \in {"authenticate", "import"}

\* The script knows every order that holds a part of the epoch's budget: an
\* offer whose terms it replaces is no longer reserved and cannot become so,
\* even while transactions about it are under way, unless a failed lookup made
\* it take an existing order for a missing one (refreshExpiredOffer).
OffersTracked ==
    \A id \in DOMAIN orders : Live(orders[id]) => id = Current(id[1]) \/ id \in misread

Lapsed(order) ==
    order.status = "final" \/ (order.status = "drafted" /\ order.passed >= AcceptBefore)

\* The steps that a process has behind it were gone through or belong to a stage that
\* is marked, so the terms they draft are there.
Drafting ==
    /\ DOMAIN process = {"at", "pc", "hash"} /\ "stages" \in DOMAIN report
    /\ process.at \in {"stopped", "step", "journal", "wait"}
    /\ process.pc \in 1 .. Len(Program) + 1
    /\ "always" \notin report.stages
    /\ process.at \in {"journal", "wait"} =>
          process.pc <= Len(Program) /\ This.do \in {"safe", "direct", "target", "refresh"}
    /\ process.at # "stopped" =>
          /\ process.pc <= Len(Program) => This.stage \notin report.stages
          /\ \A i \in 1 .. process.pc - 1 :
                Program[i].do = "draft" /\ Program[i].stage \notin report.stages
                    => Generations(Program[i].key) # {}

\* The generations of an order's terms have a newest one, and every other one is past
\* acceptance or was hidden by a failed lookup.
TermsTracked ==
    \A id \in DOMAIN orders :
        LET order == orders[id]
        IN  /\ id = <<id[1], id[2]>> /\ id[2] \in Nat
            /\ \E top \in Generations(id[1]) : \A other \in Generations(id[1]) : other[2] <= top[2]
            /\ DOMAIN order = DOMAIN Drafted
            /\ order.status \in {"drafted", "offered", "agreed", "delivered", "challenged", "final"}
            /\ order.passed \in Nat
            /\ order.status \in {"agreed", "delivered", "challenged"} => order.agreed
            /\ id = Current(id[1]) \/ id \in misread \/ Lapsed(order)

\* What OffersTracked rests on.
OffersInv == script \in Scripts /\ Drafting /\ TermsTracked

Paid(key, amount) == OrderOf(key).status = "final" /\ OrderOf(key).pay = amount

\* The treasury has the final checkpoint; to the rotation the final transaction is as good.
Imported ==
    \/ "checkpoint" \in target.evidence
    \/ script = "rotation" /\ "final" \in target.evidence

\* What a stage of the report stands for, on the chains.
Stands(stage) ==
    CASE stage = "ordersABAgreed" -> OrderOf("a").agreed /\ OrderOf("b").agreed
      [] stage = "orderAApproved" -> Paid("a", 30)
      [] stage = "awaitingReturn50Recognition" -> source.returned >= 50
      [] stage = "orderBMutuallySettled" -> Paid("b", 25)
      [] stage = "orderCAgreed" -> OrderOf("c").agreed
      [] stage = "orderCNoDelivery" -> Paid("c", 0)
      [] stage = "pendingDeclined" -> Paid("declined", 0)
      [] stage = "pendingExpired" -> Paid("expired", 0)
      [] stage = "monitoringDefault" -> Paid("default", 2)
      [] stage = "committeeQuorum" -> Paid("quorum", 3)
      [] stage = "committeeTimeout" -> Paid("timeout", 1)
      [] stage = "mutualBeforeDefault" -> Paid("mutual", 1)
      [] stage = "defaultBeforeMutual" -> Paid("late", 2)
      [] stage = "sourceComplete" -> source.phase = "closed" /\ Unresolved = 0
      [] stage = "fundingFinalized" -> target.funding = "final"
      [] stage = "checkpointId" -> Imported
      [] stage = "complete" ->
            /\ source.phase = "closed" /\ EarnedNow + source.returned = Cap[script]
            /\ target.recognized = DOMAIN Rights /\ target.paid = DOMAIN Earned[script]
            /\ target.refunded >= Cap[script] - EarnedNow
      [] OTHER -> TRUE

\* The evidence file never claims more than what happened: a stage that it
\* marks holds on the chains when it is written and for ever after, although
\* it is inferred from reads between which others and the deadlines move, and
\* from what an earlier process left behind (mark, stage, report.stages).
StagesHold == \A stage \in report.stages : Stands(stage)

Completed == "complete" \in report.stages

\* The ways in which a script can be stuck for good.  The node forgot the
\* transaction it waits for; the public branches found theirs failed.
NeverMined == report.pending # 0 /\ outcome[report.pending] = "dropped"
NeverCleaned == report.pending # 0 /\ outcome[report.pending] = "failed" /\ NeverCleared(sent[report.pending])

\* A later step needs the receipt of a call that is not due any more, and no
\* journal has its hash: its process died, or somebody else made the call.
Ahead(i) == Program[i].stage \notin report.stages
MissingReceipt ==
    \E i \in DOMAIN Program :
        /\ Program[i].do = "receipt" /\ Ahead(i) /\ ~Recorded(Program[i].label)
        /\ report.pending = 0 \/ sent[report.pending].label # Program[i].label
        /\ \E j \in 1 .. i - 1 :
              /\ Program[j].label = Program[i].label
              /\ Program[j].key \in Keys => Generations(Program[j].key) # {}
              /\ ~Due(Program[j])

\* A call that is due although it has been made, or the free balance it needs withdrawn,
\* and that the contract does not take any more.
Unrecorded(i) ==
    LET step == Program[i]
    IN  /\ step.fn \in {"refund", "fundFree", "expireEpoch"} /\ Due(step)
        /\ report.pending = 0 \/ sent[report.pending].label # step.label
        /\ CASE step.fn \in {"refund", "fundFree"} -> target.refunded > 0 /\ step.arg > target.free
             [] step.fn = "expireEpoch" -> "expired" \in source.facts
MadeUnrecorded == \E i \in DOMAIN Program : Ahead(i) /\ Unrecorded(i)

\* A call about an order came too late; only the demonstration replaces offers.
Deadline(fn) ==
    CASE fn \in {"createOffer", "acceptOffer"} -> AcceptBefore
      [] fn = "deliver" -> DeliverBefore
      [] fn \in {"approve", "challenge"} -> ReviewBefore
      [] fn \in {"vote", "voteOther", "voteLast"} -> RuleBefore
      [] OTHER -> RuleBefore + 1
MissedDeadline ==
    \E i \in DOMAIN Program :
        LET step == Program[i]
        IN  /\ Ahead(i) /\ step.do \in {"safe", "direct"}
            /\ step.key \in Keys /\ Generations(step.key) # {}
            /\ ~(script = "demo" /\ Deadline(step.fn) = AcceptBefore)
            /\ OrderOf(step.key).status # "final" /\ Due(step)
            /\ OrderOf(step.key).passed >= Deadline(step.fn)

\* A cutoff of the epoch, or a draining that somebody else started, came too early.
MissedCutoff ==
    \E i \in DOMAIN Program :
        LET step == Program[i]
        IN  /\ Ahead(i) /\ step.do = "safe"
            /\ (step.key \in Keys /\ Generations(step.key) = {}) \/ Due(step)
            /\ CASE step.fn = "initialize" -> "initialization" \in source.facts
                 [] step.fn \in {"createOffer", "release"} ->
                       "admission" \in source.facts \/ source.phase \in {"draining", "closed"}
                 [] OTHER -> FALSE

\* More is earned, returned or settled than the script still means to see.
MissedAccounts ==
    \E i \in DOMAIN Program :
        LET step == Program[i]
        IN  /\ Ahead(i) /\ step.fn = "accounts"
            /\ \/ step.arg[3] < EarnedNow
               \/ step.arg[4] < source.returned
               \/ /\ step.arg[2] > 0
                  /\ \A j \in 1 .. i - 1 : Program[j].do = "draft" =>
                        /\ Generations(Program[j].key) # {}
                        /\ OrderOf(Program[j].key).agreed /\ OrderOf(Program[j].key).status = "final"

\* The milestone ended before the worker's signature was in the report.
NothingToSign ==
    \E i \in DOMAIN Program :
        /\ Program[i].do = "sign" /\ Ahead(i) /\ ~report.signed
        /\ Generations(Program[i].key) # {} /\ OrderOf(Program[i].key).status = "final"

\* Somebody else authenticated the final transaction and nobody imports its checkpoint.
NeverImported == "checkpointId" \in report.stages /\ "checkpoint" \notin target.evidence

\* A milestone ended otherwise than the script means it to.
OtherOutcome ==
    \E key \in Keys :
        /\ Generations(key) # {} /\ OrderOf(key).status = "final"
        /\ \/ OrderOf(key).pay # Intended[key]
           \/ \E i \in DOMAIN Program :
                 Program[i].fn = "outcome" /\ Program[i].key = key /\ Program[i].arg # OrderOf(key).outcome

\* What the script demands of the state before a recognition is over.
DemandMissed ==
    \E i \in DOMAIN Program :
        LET step == Program[i]
        IN  /\ step.do = "target" /\ Ahead(i) /\ Due(step) /\ ~Demanded(step)
            /\ step.key = "return50" => source.returned >= 50

\* An order the script lost sight of holds a part of the cap.
Orphaned == \E id \in misread : Live(orders[id])

Stuck ==
    \/ NeverMined \/ NeverCleaned \/ MissingReceipt \/ MadeUnrecorded
    \/ MissedDeadline \/ MissedCutoff \/ MissedAccounts \/ NothingToSign \/ NeverImported
    \/ OtherOutcome \/ DemandMissed \/ Orphaned

\* A script that is started again whenever it stops completes, however often
\* it is interrupted, unless it is stuck in one of the ways of Stuck.
Completes == <>Completed \/ <>[]Stuck
=============================================================================
