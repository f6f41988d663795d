------------------------------ MODULE EvidenceApp ------------------------------
(***************************************************************************)
(* The payments pages of the web app: the report on one program, the check *)
(* of a job's payment, the payment record over several programs, and the   *)
(* settlement plan with its execution.  A collection reads each program in *)
(* many calls while both chains go on and may be reorganized.              *)
(***************************************************************************)
EXTENDS ParticipantApp

Unread == [source |-> Nothing, target |-> Nothing, rows |-> Nothing, observed |-> Nothing, done |-> FALSE]
Collecting(epochs, order) ==
    [epochs |-> epochs, legs |-> [e \in epochs |-> Unread], order |-> order]
Collects(t) == tasks[t].kind \in {"collect", "track", "paid"}

\* What has to be unchanged while the task collects: its assertFresh.
Watched(t) ==
    CASE tasks[t].kind = "collect" ->
            /\ Fresh(t, {"closeout"})
            /\ page.epoch \in tasks[t].item.epochs
      [] tasks[t].kind = "track" ->
            /\ Fresh(t, {"closeout", "work"})
            /\ page.packet # Nothing /\ page.packet.order = tasks[t].item.order
      [] OTHER -> Fresh(t, {"paid"})

-----------------------------------------------------------------------------
(* One program is collected: collectProgramCloseout *)

Legs(t, epoch, leg) ==
    Proceed(t, "collecting", [tasks[t].item EXCEPT !.legs[epoch] = leg])

Leg(t, epoch) == tasks[t].item.legs[epoch]
Collectible(t, epoch) == Collects(t) /\ epoch \in tasks[t].item.epochs

PinSource(t, epoch) ==
    /\ Collectible(t, epoch) /\ Leg(t, epoch).source = Nothing
    /\ Legs(t, epoch, [Leg(t, epoch) EXCEPT !.source = Pin(SourceHistory, node.source)])
    /\ UNCHANGED <<page, device, walletVars, ledgerVars, cleared, budget>>

PinTarget(t, epoch) ==
    /\ Collectible(t, epoch) /\ Leg(t, epoch).target = Nothing
    /\ Legs(t, epoch, [Leg(t, epoch) EXCEPT !.target = Pin(TargetHistory, node.target)])
    /\ UNCHANGED <<page, device, walletVars, ledgerVars, cleared, budget>>

ReadSource(t, epoch) ==
    /\ Collectible(t, epoch)
    /\ Nothing \notin {Leg(t, epoch).source, Leg(t, epoch).target} /\ Leg(t, epoch).rows = Nothing
    /\ Has(node.source, Leg(t, epoch).source)
    /\ LET prefix == AtNumber(SourceHistory, node.source, Leg(t, epoch).source)
       IN  Legs(t, epoch, [Leg(t, epoch) EXCEPT !.rows = SourceRows(prefix, epoch)])
    /\ UNCHANGED <<page, device, walletVars, ledgerVars, cleared, budget>>

\* The RPC may fail to give the evidence of some allocations.
ReadTarget(t, epoch, unread, gaps) ==
    /\ Collectible(t, epoch)
    /\ Leg(t, epoch).rows # Nothing /\ Leg(t, epoch).observed = Nothing
    /\ Has(node.target, Leg(t, epoch).target)
    /\ LET prefix == AtNumber(TargetHistory, node.target, Leg(t, epoch).target)
           rows == TargetRows(prefix, epoch)
       IN  /\ unread \subseteq {a.id : a \in Leg(t, epoch).rows.allocations \cap rows.recognized}
           /\ gaps \subseteq {a.id : a \in Leg(t, epoch).rows.allocations} \ unread
           /\ budget.gap >= Cardinality(unread) + Cardinality(gaps)
           /\ budget' = [budget EXCEPT !.gap = @ - Cardinality(unread) - Cardinality(gaps)]
           /\ Legs(t, epoch, [Leg(t, epoch) EXCEPT !.observed =
                    [source |-> Leg(t, epoch).rows, target |-> rows,
                     unread |-> unread, gaps |-> gaps]])
    /\ UNCHANGED <<page, device, walletVars, ledgerVars, cleared>>

PinsHold(t, epoch) ==
    /\ Collectible(t, epoch)
    /\ Leg(t, epoch).observed # Nothing /\ ~Leg(t, epoch).done
    /\ Stable(SourceHistory, node.source, Leg(t, epoch).source)
    /\ Stable(TargetHistory, node.target, Leg(t, epoch).target)
    /\ Watched(t)
    /\ Legs(t, epoch, [Leg(t, epoch) EXCEPT !.done = TRUE])
    /\ UNCHANGED <<page, device, walletVars, ledgerVars, cleared, budget>>

Collected(t) == Collects(t) /\ \A e \in tasks[t].item.epochs : Leg(t, e).done
Pins(t) == [e \in tasks[t].item.epochs |-> [source |-> Leg(t, e).source, target |-> Leg(t, e).target]]
Observed(t) == [e \in tasks[t].item.epochs |-> Leg(t, e).observed]

-----------------------------------------------------------------------------
(* The report on a program *)

WithoutReport(p) == [p EXCEPT !.report = NoReport]

\* The program, or the allocation to look at in it, is edited.
EpochInput(epoch) ==
    /\ Spend("epoch")
    /\ page' = [WithoutReport(page) EXCEPT !.epoch = epoch]
    /\ Raise({"closeout"})
    /\ UNCHANGED <<device, walletVars, ledgerVars, cleared>>

\* Collect the report on the program in the form.
Collect(t) ==
    /\ page.epoch # Nothing /\ Spend("collect") /\ Verified
    /\ page' = WithoutReport(page)
    /\ Start(t, "collect", "collecting", {"closeout"}, {"closeout"}, Collecting({page.epoch}, Nothing))
    /\ UNCHANGED <<device, walletVars, ledgerVars, cleared>>

\* Look at one allocation: the whole program is collected, and put in the form.
Inspect(t, epoch) ==
    /\ Spend("inspect") /\ Verified
    /\ page' = [WithoutReport(page) EXCEPT !.epoch = epoch]
    /\ Start(t, "collect", "collecting", {"closeout"}, {"closeout"}, Collecting({epoch}, Nothing))
    /\ UNCHANGED <<device, walletVars, ledgerVars, cleared>>

\* trackParticipantPayment: the form is changed before the workspace is checked.
TrackPayment(t) ==
    /\ page.read # Nothing /\ page.read.stage = "source-final" /\ page.packet # Nothing
    /\ page.read.packet.order = page.packet.order
    /\ Spend("track")
    /\ LET epoch == Terms[page.packet.order].epoch
       IN  /\ page' = [WithoutReport(page) EXCEPT !.epoch = epoch]
           /\ IF Verified
              THEN Start(t, "track", "collecting", {"closeout"},
                         {"closeout"} \cup {"work"}, Collecting({epoch}, page.packet.order))
              ELSE Raise({"closeout"})
    /\ UNCHANGED <<device, walletVars, ledgerVars, cleared>>

ReportCollected(t) ==
    /\ Collected(t) /\ tasks[t].kind \in {"collect", "track"} /\ Watched(t)
    /\ \E epoch \in tasks[t].item.epochs :
          page' = [page EXCEPT !.report =
                    [status |-> EvidenceStatus(Observed(t)[epoch]), epoch |-> epoch, pins |-> Pins(t)[epoch]]]
    /\ Finish(t, {})
    /\ UNCHANGED <<device, walletVars, ledgerVars, cleared, budget>>

-----------------------------------------------------------------------------
(* The payment record *)

\* The form is edited: the record shown stays, and cannot be saved any more.
PaymentsInput ==
    /\ Spend("payments")
    /\ Raise({"paid"})
    /\ UNCHANGED <<page, device, walletVars, ledgerVars, cleared>>

CollectPayments(t, epochs) ==
    /\ Spend("paid") /\ Verified
    /\ page' = [page EXCEPT !.history = NoReport]
    /\ Start(t, "paid", "collecting", {"paid"}, {"paid"}, Collecting(epochs, Nothing))
    /\ UNCHANGED <<device, walletVars, ledgerVars, cleared>>

PaymentsCollected(t) ==
    LET record == PaymentHistory(tasks[t].item.epochs, Observed(t))
    IN  /\ Collected(t) /\ tasks[t].kind = "paid" /\ Watched(t)
        /\ page' = [page EXCEPT !.history =
                [status |-> record.status, records |-> record.records, pins |-> Pins(t)]]
        /\ Finish(t, {})
        /\ UNCHANGED <<device, walletVars, ledgerVars, cleared, budget>>

-----------------------------------------------------------------------------
(* The settlement plan and its execution, one action a click *)

Settlement(plan) == [name |-> "settlement", plan |-> plan]
WithoutPlan(p) == [p EXCEPT !.plan = Nothing]

ClaimsInput(claims) ==
    /\ claims # page.claims /\ Spend("claims")
    /\ page' = [WithoutPlan(page) EXCEPT !.claims = claims]
    /\ Raise({"settlement"})
    /\ UNCHANGED <<device, walletVars, ledgerVars, cleared>>

BuildPlan(t) ==
    /\ page.claims # Nothing /\ Spend("plan") /\ Verified
    /\ page' = WithoutPlan(page)
    /\ Start(t, "plan", "planning", {"settlement"}, {"settlement"},
             [claims |-> page.claims, source |-> Pin(SourceHistory, node.source),
              target |-> Pin(TargetHistory, node.target)])
    /\ UNCHANGED <<device, walletVars, ledgerVars, cleared>>

\* A plan is named by the claims and by the blocks it was made from.
PlanBuilt(t) ==
    LET item == tasks[t].item
    IN  /\ At(t, "plan", "planning") /\ Fresh(t, {"settlement"})
        /\ item.source = AtNumber(SourceHistory, node.source, item.source)
        /\ item.target = AtNumber(TargetHistory, node.target, item.target)
        /\ page' = [page EXCEPT !.plan =
                [claims |-> item.claims, source |-> item.source, target |-> item.target,
                 setup |-> page.setup]]
        /\ Finish(t, {})
        /\ UNCHANGED <<device, walletVars, ledgerVars, cleared, budget>>

Journal(plan) == {entry \in device.settlements : entry.plan = plan}

Settle(t) ==
    /\ page.plan # Nothing /\ page.plan.setup = page.setup
    /\ Spend("settle") /\ ~Busy("settle") /\ Verified
    /\ Start(t, "settle", "checking", {}, {"settlement", "wallet"}, Asking(Settlement(page.plan), Nothing))
    /\ UNCHANGED <<page, device, walletVars, ledgerVars, cleared>>

SettleSession(t) ==
    /\ At(t, "settle", "checking") /\ Fresh(t, {"settlement", "wallet"})
    /\ Connected(t, "session", [tasks[t].item EXCEPT !.account = wallet.account])
    /\ UNCHANGED <<device, walletVars, ledgerVars, cleared, budget>>

\* An action in the journal is never sent again; any account may settle.
SettleAsk(t) ==
    LET item == tasks[t].item
        saved == Journal(item.call.plan)
    IN  /\ At(t, "settle", "session")
        /\ IF saved = {}
           THEN /\ Fresh(t, {"settlement", "wallet"})
                /\ item.account = wallet.account
                /\ Proceed(t, "asked", item)
           ELSE \E entry \in saved : Proceed(t, "receipt", [item EXCEPT !.hash = entry.hash])
        /\ UNCHANGED <<page, device, walletVars, ledgerVars, cleared, budget>>

SettleJournaled(t) ==
    LET item == tasks[t].item
    IN  /\ At(t, "settle", "answered")
        /\ device' = [device EXCEPT !.settlements =
                @ \cup {[plan |-> item.call.plan, hash |-> item.hash, state |-> "pending"]}]
        /\ Proceed(t, "receipt", item)
        /\ UNCHANGED <<page, walletVars, ledgerVars, cleared, budget>>

\* Only a success completes an entry; anything else ends the click.
SettleReceipt(t) ==
    LET item == tasks[t].item
    IN  /\ At(t, "settle", "receipt")
        /\ txs[item.hash].outcome = "ok"
        /\ device' = [device EXCEPT !.settlements =
                {IF entry.hash = item.hash THEN [entry EXCEPT !.state = "complete"] ELSE entry : entry \in @}]
        /\ Finish(t, {})
        /\ UNCHANGED <<page, walletVars, ledgerVars, cleared, budget>>

-----------------------------------------------------------------------------
(* The two chains as the RPCs show them *)

Finalize(chain, history) ==
    /\ node[chain].height < Len(history[node[chain].fork]) /\ Spend("grow")
    /\ node' = [node EXCEPT ![chain].height = @ + 1]
    /\ UNCHANGED <<page, device, tasks, walletVars, source, txs, cleared>>

FinalizeSource == Finalize("source", SourceHistory)
FinalizeTarget == Finalize("target", TargetHistory)

\* Blocks that the RPC called final are replaced: another RPC, or a deep reorganization.
Fork(chain) ==
    /\ node[chain].fork = "a" /\ Spend("fork")
    /\ node' = [node EXCEPT ![chain].fork = "b"]
    /\ UNCHANGED <<page, device, tasks, walletVars, source, txs, cleared>>
=============================================================================
