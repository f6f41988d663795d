---------------------------- MODULE MCWorkspaceApp ----------------------------
(* The web app for TLC: every scenario is a budget that lets a few clicks,   *)
(* answers and outside steps happen, together and in every order.            *)
EXTENDS AppSafety, TLC

CONSTANTS t1, t2
MCTasks == {t1, t2}
MCSymmetry == Permutations(MCTasks)

Step(deliver) == [deliver |-> deliver, review |-> deliver + 1, rule |-> deliver + 2]
MCTerms == [o1 |-> [worker |-> "worker", accept |-> 1, epoch |-> "e1", steps |-> <<Step(2), Step(2)>>],
            o2 |-> [worker |-> "other", accept |-> 1, epoch |-> "e1", steps |-> <<Step(2)>>]]
MCContents == {"", "draft", "report"}

MCSetups == {"demo", "mirror", "local"}
MCTrusted == {"demo", "mirror"}
MCSafeOf == [demo |-> "safe", mirror |-> "safe2", local |-> "safe"]
MCAccounts == {"worker", "safe"}
MCEpochs == {"e1", "e2"}
MCPaymentClaims == {"claims"}

MCSourceHistory ==
    [a |-> <<Allocated("e1", 1, "WORK"), Allocated("e2", 1, "WORK"), Allocated("e1", 2, "RETURN"), Closed("e1")>>,
     b |-> <<Allocated("e1", 1, "WORK"), Closed("e1"), Allocated("e2", 1, "WORK"), Allocated("e2", 2, "FEE")>>]
MCTargetHistory ==
    [a |-> <<Recognized("e1", 1, "WORK"), Withdrawn("e1", 1), Recognized("e2", 1, "WORK"), Withdrawn("e2", 1),
             Recognized("e1", 2, "RETURN")>>,
     b |-> <<Recognized("e2", 1, "WORK"), Withdrawn("e2", 1), Recognized("e1", 1, "WORK"), Withdrawn("e1", 1),
             Recognized("e1", 2, "RETURN")>>]

-----------------------------------------------------------------------------
(* What is there when the page is opened, and the scenarios *)

Fixed(s, t) == [source |-> [fork |-> "a", height |-> s], target |-> [fork |-> "a", height |-> t]]
Chain(head, w1, w2, w3) == [head |-> head, room |-> TRUE, honoured |-> {"o1", "o2"},
                              work |-> [o1 |-> <<w1, w2>>, o2 |-> <<w3>>]]
Fresh0 == Chain(0, "unknown", "unknown", "unknown")

Device(setup, draft, works) ==
    [setup |-> setup, draft |-> draft, works |-> works, journal |-> {}, settlements |-> {}]
Empty == Device("demo", Nothing, << >>)
Offer(order) == Packet(order, FALSE)
Offered(order) == Device("demo", Offer(order), <<Record(Offer(order), 1)>>)
Signed1 == Packet("o1", TRUE)
Hired == Device("demo", Nothing, <<Record(Signed1, 1), Record(Packet("o2", TRUE), 1)>>)

Clicks == {"form", "submit", "check", "demo", "local", "clear", "account", "connect", "lose", "reload",
           "offerInput", "offer", "file", "select", "milestone", "followup", "ack", "sign", "read", "type",
           "continue", "send", "recheck", "control", "prepare", "quote", "execute", "target", "head", "room",
           "safe", "policy", "gap", "epoch", "collect", "inspect", "track", "payments", "paid", "claims", "plan",
           "settle", "grow", "fork"}
Scenario(stored, ledger, final, clicks) ==
    [device |-> stored, source |-> ledger, node |-> final,
     budget |-> [c \in Clicks |-> IF c \in DOMAIN clicks THEN clicks[c] ELSE 0]]

MCClearing == {Scenario(Empty, Fresh0, Fixed(0, 0), [submit |-> 1, clear |-> 1])}

MCSettings == {Scenario(Empty, Fresh0, Fixed(0, 0),
                        [form |-> 1, submit |-> 1, check |-> 1, demo |-> 1, local |-> 1, clear |-> 1, reload |-> 1])}
MCOffers ==
    {Scenario(Offered("o1"), Fresh0, Fixed(0, 0), [check |-> 1, ack |-> 1, sign |-> 1] @@ more) :
        more \in {[offer |-> 1, milestone |-> 1], [select |-> 1, offerInput |-> 1, file |-> 1],
                  [account |-> 1, connect |-> 1, form |-> 1, submit |-> 1],
                  [reload |-> 1, head |-> 1, room |-> 1], [file |-> 1, policy |-> 1]}}
MCFollowups ==
    {Scenario(Hired, Chain(3, "final", w, "final"), Fixed(0, 0), more @@ [check |-> 1, followup |-> 1]) :
        w \in {"delivered", "final"}, more \in {[select |-> 1], [file |-> 1], [followup |-> 2, offerInput |-> 1]}}
MCDeliveries ==
    {Scenario(Hired, Chain(1, "agreed", "agreed", "agreed"), Fixed(0, 0),
              more @@ [check |-> 1, read |-> 1, type |-> 1, continue |-> 2, send |-> 2]) :
        more \in {[reload |-> 1, check |-> 2, read |-> 2, type |-> 2], [reload |-> 1, check |-> 2, recheck |-> 1], [milestone |-> 1, select |-> 1, read |-> 2],
                  [account |-> 1, connect |-> 1, lose |-> 1], [type |-> 2], [recheck |-> 1],
                  [head |-> 1, safe |-> 1], [form |-> 1, submit |-> 1, check |-> 2]}}
MCExecutions ==
    {Scenario(Device("demo", Signed1, <<Record(Signed1, 1)>>), Chain(0, w, w, w), Fixed(0, 0),
              more @@ [check |-> 1, execute |-> 1, prepare |-> 1]) :
        w \in {"unknown", "delivered"},
        more \in {[quote |-> 1, account |-> 1, execute |-> 2], [control |-> 2, account |-> 1],
                  [control |-> 1, quote |-> 1, room |-> 1], [quote |-> 1, policy |-> 1], [control |-> 1, target |-> 1, reload |-> 1],
                  [control |-> 1, form |-> 1, submit |-> 1, account |-> 1]}}
MCReports ==
    {Scenario(Empty, Fresh0, Fixed(s, t), [check |-> 1, collect |-> 1, inspect |-> 1] @@ more) :
        s \in 1 .. 4, t \in {2, 4, 5}, more \in {[grow |-> 1, fork |-> 1], [epoch |-> 1, gap |-> 1], [epoch |-> 1, fork |-> 1]}}
MCTracks ==
    {Scenario(Hired, Chain(3, "final", "agreed", "agreed"), Fixed(4, 5),
              [check |-> 1, read |-> 1, track |-> 1] @@ more) :
        more \in {[select |-> 1, inspect |-> 1], [milestone |-> 1, form |-> 1]}}
MCPayments ==
    {Scenario(Empty, Fresh0, Fixed(s, t), [check |-> 1, paid |-> 1] @@ more) :
        s \in {2, 3, 4}, t \in {4, 5}, more \in {[payments |-> 1, gap |-> 1], [fork |-> 1], [grow |-> 1]}}
MCSettlements ==
    {Scenario(Empty, Fresh0, Fixed(4, 2), more @@ [check |-> 1, claims |-> 1, plan |-> 2, settle |-> 2]) :
        more \in {[lose |-> 1], [fork |-> 1, grow |-> 1], [account |-> 1, connect |-> 1],
                  [reload |-> 1, check |-> 2, claims |-> 2], [demo |-> 1, submit |-> 1]}}

MCStarts == UNION {MCSettings, MCOffers, MCFollowups, MCDeliveries, MCExecutions, MCReports, MCTracks,
                   MCPayments, MCSettlements}
=============================================================================
