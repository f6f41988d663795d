----------------------------- MODULE ScriptStages -----------------------------
(***************************************************************************)
(* How the programs of PublicScripts come by what their stages say: which  *)
(* steps before the mark of a stage look at the chains, and what can no    *)
(* longer move what they saw.  The assumption is about the programs alone; *)
(* that it makes StagesHold true is the matter of ScriptProofs.            *)
(***************************************************************************)
EXTENDS OperatorScripts

IsCall(step) == step.do \in {"safe", "direct", "target"}
\* The calls without which no order brings any pay.
IsWork(step) == IsCall(step) /\ step.fn \in {"deliver", "settle"}

\* The orders whose pay a stage names.
Pays ==
    [orderAApproved |-> "a", orderBMutuallySettled |-> "b", orderCNoDelivery |-> "c",
     pendingDeclined |-> "declined", pendingExpired |-> "expired", monitoringDefault |-> "default",
     committeeQuorum |-> "quorum", committeeTimeout |-> "timeout", mutualBeforeDefault |-> "mutual",
     defaultBeforeMutual |-> "late"]

\* The order of step i is refreshed by none but earlier steps, and by none any more once
\* a stage at or after i is marked.
Unrefreshed(steps, i) ==
    \A r \in 1 .. Len(steps) :
        steps[r].do = "refresh" /\ steps[r].key = steps[i].key =>
            /\ r < i
            /\ \A m \in i .. Len(steps) :
                  steps[m].do = "mark" => MarkedBefore(steps, steps[r].stage, m + 1)
Accepted(steps, i, key) ==
    IsCall(steps[i]) /\ steps[i].fn = "acceptOffer" /\ steps[i].key = key /\ Unrefreshed(steps, i)

SeesAccounts(steps, w) == steps[w].do = "check" /\ steps[w].fn = "accounts"

\* The orders that are worked on before step w.
WorkKeys(steps, w) == {key \in Keys : \E i \in 1 .. w - 1 : IsWork(steps[i]) /\ steps[i].key = key}

\* A check of the accounts from which the pay of an order follows: the order is settled, the
\* pay of every other order that can have any is known, and the sum is right.
SeesPay(steps, w, key) ==
    /\ SeesAccounts(steps, w)
    /\ \E f \in 1 .. w - 1 : SettlesOrder(steps, f) /\ steps[f].key = key
    /\ \A other \in WorkKeys(steps, w) \ {key} :
          \E stage \in DOMAIN Pays : Pays[stage] = other /\ MarkedBefore(steps, stage, w)
    /\ key \notin WorkKeys(steps, w) => Intended[key] = 0
    /\ SumFunction([other \in WorkKeys(steps, w) |-> Intended[other]]) = steps[w].arg[3]
    /\ \A i \in w .. Len(steps) : IsWork(steps[i]) => MarkedBefore(steps, steps[w].stage, i)

\* A check of the accounts that shows the whole cap earned or returned, and a part returned.
SeesClosed(steps, w) ==
    SeesAccounts(steps, w) /\ steps[w].arg[1] = 0 /\ steps[w].arg[2] = 0 /\ steps[w].arg[4] > 0

TargetCall(steps, i, fn) == steps[i].do = "target" /\ steps[i].fn = fn

\* What stage m says has been seen, or brought about, by the steps before it.
Founded(name, m) ==
    LET steps == Programs[name]
        stage == steps[m].stage
        before == 1 .. m - 1
    IN  /\ stage \in DOMAIN Pays => \E w \in before : SeesPay(steps, w, Pays[stage])
        /\ stage = "ordersABAgreed" =>
              \A key \in {"a", "b"} : \E i \in before : Accepted(steps, i, key)
        /\ stage = "orderCAgreed" => \E i \in before : Accepted(steps, i, "c")
        /\ stage = "awaitingReturn50Recognition" =>
              \E w \in before : SeesAccounts(steps, w) /\ steps[w].arg[4] >= 50
        /\ stage = "sourceComplete" => \E w \in before : SeesClosed(steps, w)
        /\ stage = "fundingFinalized" =>
              \E i \in before : steps[i].do = "pause" /\ steps[i].fn = "funding"
        /\ stage = "checkpointId" => \E i \in before : TargetCall(steps, i, "import")
        /\ stage = "complete" =>
              /\ \E i \in before : steps[i].do = "check" /\ steps[i].fn = "reserve"
              /\ \A right \in DOMAIN Earned[name] :
                    \E i \in before : TargetCall(steps, i, "withdraw") /\ steps[i].key = right
              /\ \E w, i \in before :
                    /\ SeesClosed(steps, w) /\ TargetCall(steps, i, "refund")
                    /\ steps[i].arg >= Cap[name] - steps[w].arg[3]

\* Every mark is founded, and the calls of a program are within its terms: what it settles an
\* order at, what it releases, and whose right it recognizes or pays.
ASSUME StagesAssumption ==
    \A name \in Scripts :
        LET steps == Programs[name]
        IN  \A i \in 1 .. Len(steps) :
               /\ steps[i].do = "mark" => Founded(name, i)
               /\ IsWork(steps[i]) =>
                     \A r \in 1 .. Len(steps) :
                        steps[r].do = "refresh" /\ steps[r].key = steps[i].key
                            => MarkedBefore(steps, steps[r].stage, i)
               /\ SeesAccounts(steps, i) => steps[i].arg[3] \in Nat /\ steps[i].arg[4] \in Nat
               /\ IsCall(steps[i]) =>
                     /\ steps[i].fn \in {"settle", "voteLast"} => steps[i].arg \in 0 .. Budget[steps[i].key]
                     /\ steps[i].fn \in {"recognize", "recognizeBare"} =>
                           steps[i].key \in DOMAIN (Returned[name] @@ Earned[name])
                     /\ steps[i].fn = "withdraw" => steps[i].key \in DOMAIN Earned[name]
                     /\ steps[i].fn \in {"refund", "fundFree"} => steps[i].arg \in Nat
                     /\ steps[i].fn = "refund" =>
                           \A j \in 1 .. Len(steps) :
                              steps[j].do \in Sending /\ steps[j].label = steps[i].label
                                  => steps[j].fn = "refund" /\ steps[j].arg = steps[i].arg
=============================================================================
