------------------------------- MODULE AppSafety -------------------------------
(***************************************************************************)
(* The web app as a whole: its clicks, its pending work, the wallet, the   *)
(* device and the two ledgers in every order, and what must hold of them.  *)
(***************************************************************************)
EXTENDS EvidenceApp

Settings ==
    \/ \E setup \in Setups : SettingsInput(setup)
    \/ \E t \in Tasks :
          SubmitSettings(t) \/ CheckSettings(t) \/ LoadDemo(t)
            \/ VerificationSucceeds(t) \/ VerificationFails(t)
    \/ LoadLocal
    \/ ClearSettings

WalletSteps ==
    \/ \E account \in Accounts : SelectAccount(account)
    \/ WalletEvent \/ Connect \/ PromptSends
    \/ \E t \in Tasks : WalletSends(t) \/ WalletLoses(t)

WorkFiles ==
    \/ OfferInput
    \/ \E t \in Tasks :
          \/ \E order \in Orders : SubmitOffer(t, order) \/ UseTemplate(t, order)
          \/ \E packet \in Packets, orders \in BOOLEAN : ChooseFile(t, packet, orders)
          \/ OfferCreated(t) \/ ReviewFile(t) \/ FileReviewed(t) \/ TemplateRead(t)
    \/ \E record \in Range(device.works) : SelectSaved(record)
    \/ page.packet # Nothing /\ \E m \in Milestones(page.packet.order) : SelectMilestone(m)

Signing ==
    \/ Acknowledge
    \/ \E t \in Tasks : SignQuote(t) \/ SignSession(t) \/ SignAsk(t) \/ SignReturned(t) \/ Signed(t)

Delivering ==
    \/ \E content \in Contents : TypeDelivery(content)
    \/ PrepareWork
    \/ \E t \in Tasks :
          \/ CheckJob(t) \/ JobRead(t)
          \/ SendWork(t) \/ WorkSession(t) \/ WorkAsk(t) \/ WorkJournaled(t) \/ WorkReceipt(t)
          \/ \E entry \in device.journal : Recheck(t, entry)
          \/ Rechecked(t)

Calls == {Accept(order) : order \in Orders} \cup
            UNION {{Approve(order, m) : m \in Milestones(order)} : order \in Orders}

Executing ==
    \/ \E call \in Calls : SourceInput(call)
    \/ PrepareSource
    \/ \E t \in Tasks :
          \/ PrepareQuote(t) \/ QuotePrepared(t) \/ ExecuteSource(t)
          \/ \E epoch \in Epochs : ExecuteTarget(t, epoch)
          \/ PreparedSession(t) \/ PreparedHanded(t) \/ PreparedAsk(t) \/ PreparedSent(t)

Reporting ==
    \/ \E epoch \in Epochs : EpochInput(epoch)
    \/ PaymentsInput
    \/ \E t \in Tasks :
          \/ Collect(t) \/ TrackPayment(t) \/ ReportCollected(t) \/ PaymentsCollected(t)
          \/ \E epoch \in Epochs : Inspect(t, epoch)
          \/ \E epochs \in SUBSET Epochs \ {{}} : CollectPayments(t, epochs)
          \/ \E epoch \in Epochs :
                PinSource(t, epoch) \/ PinTarget(t, epoch) \/ ReadSource(t, epoch) \/ PinsHold(t, epoch)
          \/ \E epoch \in Epochs, unread, gaps \in SUBSET AllocationIds : ReadTarget(t, epoch, unread, gaps)

Settling ==
    \/ \E claims \in PaymentClaims : ClaimsInput(claims)
    \/ \E t \in Tasks :
          BuildPlan(t) \/ PlanBuilt(t) \/ Settle(t) \/ SettleSession(t) \/ SettleAsk(t)
            \/ SettleJournaled(t) \/ SettleReceipt(t)

Ledgers ==
    \/ Advance \/ RoomLost
    \/ \E order \in Orders : PolicyChanges(order)
    \/ \E order \in Orders : \E m \in Milestones(order), before, after \in Statuses :
          SafeActs(order, m, before, after)
    \/ \E hash \in DOMAIN txs : Mine(hash)
    \/ FinalizeSource \/ FinalizeTarget
    \/ \E chain \in {"source", "target"} : Fork(chain)

Next ==
    \/ Settings \/ WalletSteps \/ WorkFiles \/ Signing \/ Delivering \/ Executing
    \/ Reporting \/ Settling \/ Ledgers
    \/ Reload
    \/ \E t \in Tasks : Fail(t)

Spec == Init /\ [][Next]_vars

-----------------------------------------------------------------------------
(* What leaves the page *)

\* A request that the page has given away and does not look at again: it is with the
\* wallet or, a prepared call, with the signer that makes it ready for the wallet.
GivenAway(task) == task.at \in {"handed", "asked"}
Leaves(t) == ~GivenAway(tasks[t]) /\ GivenAway(tasks'[t])

DeliveryShown(call, account) ==
    /\ page.packet # Nothing /\ page.packet.order = call.order /\ page.milestone = call.milestone
    /\ page.content = call.content
    /\ account = Worker(call.order)

OfferShown(packet, account) ==
    /\ page.draft = packet /\ page.packet = packet
    /\ account = Worker(packet.order)

\* The form holds the call, or the acceptance of the signed offer shown: an acceptance
\* that is prepared while another call is on its way replaces what is in the form, and
\* does not stop that call.
InForm(p, call) ==
    \/ p.control = call
    \/ p.draft # Nothing /\ p.draft.signed /\ p.control = Accept(p.draft.order)

Shows(task) ==
    LET item == task.item
    IN  /\ page.setup = task.setup
        /\ task.kind = "worker" => DeliveryShown(item.call, item.account)
        /\ task.kind = "sign" => OfferShown(item.packet, item.account)
        /\ task.kind = "settle" => Settlement(page.plan) = item.call
        /\ task.kind = "source" =>
              /\ InForm(page, item.call)
              /\ NeedsSafe(item.call) => item.account = SafeOf[page.setup]

\* Whatever the user edits, selects, connects, loads or opens while a click is being
\* worked on: a delivery, a signature or a settlement that the page sends to the wallet
\* is of the workspace, the work file, the milestone, the text or the plan that it shows
\* at that moment, and for the account that it takes.  A call prepared in a form is so,
\* of the workspace and the form, when it is given to the signer; how the page changes
\* while the signer is at work does not stop it (sendPrepared), and a payment is of the
\* workspace alone.
LeavesAsShown == [][\A t \in Tasks : Leaves(t) => Shows(tasks'[t])]_vars

-----------------------------------------------------------------------------
(* What is sent *)

Known(hash) ==
    \/ \E entry \in device.journal : entry.hash = hash /\ entry.call = txs[hash].call
    \/ \E t \in Tasks : tasks[t].kind = "worker" /\ tasks[t].at = "answered" /\ tasks[t].item.hash = hash

\* A delivery is sent once: reloading the page, failing, rechecking or preparing the same
\* text again never sends it a second time, unless the wallet never told the page of
\* the first.  Every other hash is in the journal or about to be, and what the
\* journal says of a hash is what the chain did with it.
DeliveredOnce ==
    LET deliveries == {hash \in DOMAIN txs : txs[hash].via = "worker"} \ lost
    IN  /\ \A h1, h2 \in deliveries : txs[h1].call = txs[h2].call => h1 = h2
        /\ \A hash \in deliveries : Known(hash)
        /\ \A entry \in device.journal :
              /\ entry.call = txs[entry.hash].call
              /\ entry.state = "confirmed" => txs[entry.hash].outcome = "ok"
              /\ entry.state = "failed" => txs[entry.hash].outcome = "failed"

-----------------------------------------------------------------------------
(* What is reported *)

WorkRows(pins, epoch) ==
    {e \in Range(pins.source) : e.event = "allocated" /\ e.epoch = epoch /\ e.kind # "RETURN"}
PaidIn(pins, e) ==
    /\ Recognized(e.epoch, e.id, e.kind) \in Range(pins.target)
    /\ Withdrawn(e.epoch, e.id) \in Range(pins.target)

CompleteAt(epoch, pins) ==
    /\ Closed(epoch) \in Range(pins.source)
    /\ \A e \in WorkRows(pins, epoch) : PaidIn(pins, e)
    /\ {AllocationOf(e) : e \in Rows(pins.target, epoch, "recognized")}
            = {AllocationOf(e) : e \in Rows(pins.source, epoch, "allocated")}

RecordedAt(record, pins) ==
    LET e == Allocated(record.epoch, record.id, record.kind)
    IN  e \in WorkRows(pins, record.epoch) /\ PaidIn(pins, e)

\* A report and a payment record are read in many calls while both chains go on and
\* may be reorganized.  A report that the page calls complete is true of the two
\* blocks it names; a payment record holds payments made in the blocks it names,
\* all of them if it is called verified, and an invalid one holds none.
ReportsAreFaithful ==
    LET report == page.report
        history == page.history
    IN  /\ report.status = "complete" => CompleteAt(report.epoch, report.pins)
        /\ history.status # "none" =>
              /\ \A record \in history.records : RecordedAt(record, history.pins[record.epoch])
              /\ history.status = "invalid" => history.records = {}
              /\ history.status = "verified" =>
                    \A epoch \in DOMAIN history.pins : \A e \in WorkRows(history.pins[epoch], epoch) :
                        [epoch |-> epoch, id |-> e.id, kind |-> e.kind] \in history.records

-----------------------------------------------------------------------------
(* What is saved *)

\* "Clear saved setup removes the saved workspace": once cleared, it stays away until
\* the user chooses another one.
ClearedStaysCleared == cleared => device.setup = Nothing

-----------------------------------------------------------------------------
(* What these rest on *)

PageFields == {"setup", "form", "verified", "session", "bound", "draft", "packet", "milestone", "acked",
               "content", "read", "delivery", "control", "prepared", "epoch", "report", "history",
               "claims", "plan"}
DeviceFields == {"setup", "draft", "works", "journal", "settlements"}
TxTyped(tx) == DOMAIN tx = {"via", "call", "from", "outcome"} /\ tx.outcome \in {"waiting", "ok", "failed"}
Senders == {"worker", "settle", "source", "target"}
Collectors == {"collect", "track", "paid"}

TaskTyped(task) ==
    /\ DOMAIN task = {"kind", "at", "holds", "setup", "item"}
    /\ task.kind \in Senders => DOMAIN task.item = {"call", "account", "hash"}
    /\ task.kind = "sign" => DOMAIN task.item = {"packet", "account"}
    /\ task.at = "asked" => task.kind \in Senders \cup {"sign"}
    /\ task.at = "handed" => task.kind \in {"source", "target"}
    /\ task.at = "answered" => task.kind \in Senders

\* What the page shows fits together: the draft is the work selected, the read and the
\* delivery are of the milestone and the text shown.
PageFits(p) ==
    /\ DOMAIN p = PageFields
    /\ p.draft # Nothing => p.packet = p.draft
    /\ p.read # Nothing => p.read.milestone = p.milestone
    /\ p.delivery # Nothing =>
          p.delivery.call.milestone = p.milestone /\ p.delivery.call.content = p.content

\* A task that still holds a mark works on what the page shows.
Vouched(p, task) ==
    /\ task.kind = "worker" /\ "work" \in task.holds => task.item.call.milestone = p.milestone
    /\ task.kind = "read" /\ "work" \in task.holds => task.item.milestone = p.milestone
    /\ task.kind = "sign" /\ "draft" \in task.holds => p.draft = task.item.packet /\ p.draft # Nothing
    /\ task.kind = "quote" /\ "draft" \in task.holds =>
          p.draft = task.item.packet /\ p.draft # Nothing /\ p.draft.signed
    /\ task.kind = "source" /\ "write" \in task.holds => InForm(p, task.item.call)
    /\ task.kind = "settle" /\ "settlement" \in task.holds =>
          p.plan # Nothing /\ task.item.call = Settlement(p.plan)
    /\ task.kind = "plan" /\ "settlement" \in task.holds => p.plan = Nothing

\* At most one task sends a delivery, and at most one plan that is being made will be taken.
Alone ==
    \A t, u \in Tasks :
        \/ t = u
        \/ ~(tasks[t].kind = "worker" /\ tasks[u].kind = "worker")
              /\ ~(tasks[t].kind = "plan" /\ tasks[u].kind = "plan"
                     /\ "settlement" \in tasks[t].holds /\ "settlement" \in tasks[u].holds)

\* The deliveries that the page knows of.
Deliveries(sent, gone) == {hash \in DOMAIN sent : sent[hash].via = "worker"} \ gone

\* A delivery that is not out yet is of a call that no other delivery has made; one that is
\* out is not in the journal until its hash is saved.
Underway(sent, gone, journal, task) ==
    /\ task.kind = "worker" /\ task.at \in {"checking", "session", "asked"} =>
          \A hash \in Deliveries(sent, gone) : sent[hash].call # task.item.call
    /\ task.kind = "worker" /\ task.at \in {"answered", "receipt"} =>
          task.item.hash \in Deliveries(sent, gone) /\ sent[task.item.hash].call = task.item.call
    /\ task.kind = "worker" /\ task.at = "answered" => \A entry \in journal : entry.hash # task.item.hash
    /\ task.at = "answered" => task.item.hash \in DOMAIN sent /\ sent[task.item.hash].via = task.kind

SentTyped ==
    /\ txs \in Seq(Range(txs)) /\ lost \subseteq DOMAIN txs
    /\ \A tx \in Range(txs) \cup prompts : TxTyped(tx)
    /\ \A entry \in device.journal :
          DOMAIN entry = {"call", "hash", "state"} /\ entry.hash \in Deliveries(txs, lost)

\* A pinned block: its hash stands for the history up to it, which is that of fork "a"
\* unless the chain has been reorganized.
Pinned(history, final, pin) ==
    /\ pin \in Seq(Range(history["a"]) \cup Range(history["b"]))
    /\ final.fork = "a" => SubSeq(history["a"], 1, Len(pin)) = pin

\* What was read at the number of a pin is what the pin has, unless the chain has been
\* reorganized; then the number has what was read.
SourceRead(final, pin, epoch, rows) ==
    \/ rows = SourceRows(pin, epoch)
    \/ final.fork = "b" /\ rows = SourceRows(AtNumber(SourceHistory, final, pin), epoch)
TargetRead(final, pin, epoch, rows) ==
    \/ rows = TargetRows(pin, epoch)
    \/ final.fork = "b" /\ rows = TargetRows(AtNumber(TargetHistory, final, pin), epoch)

LegFits(final, epoch, leg) ==
    /\ DOMAIN leg = {"source", "target", "rows", "observed", "done"}
    /\ leg.source # Nothing => Pinned(SourceHistory, final.source, leg.source)
    /\ leg.target # Nothing => Pinned(TargetHistory, final.target, leg.target)
    /\ leg.rows # Nothing =>
          /\ leg.source # Nothing /\ leg.target # Nothing
          /\ SourceRead(final.source, leg.source, epoch, leg.rows)
    /\ leg.observed # Nothing =>
          /\ leg.rows # Nothing /\ leg.observed.source = leg.rows
          /\ TargetRead(final.target, leg.target, epoch, leg.observed.target)
    /\ leg.done =>
          /\ leg.observed # Nothing
          /\ leg.observed.source = SourceRows(leg.source, epoch)
          /\ leg.observed.target = TargetRows(leg.target, epoch)

Gathered(final, task) ==
    task.kind \in Collectors =>
        /\ DOMAIN task.item = {"epochs", "legs", "order"}
        /\ DOMAIN task.item.legs = task.item.epochs
        /\ \A epoch \in task.item.epochs : LegFits(final, epoch, task.item.legs[epoch])

NodeTyped ==
    /\ DOMAIN node = {"source", "target"}
    /\ node.source \in [fork : {"a", "b"}, height : 0 .. Len(SourceHistory["a"])]
    /\ node.target \in [fork : {"a", "b"}, height : 0 .. Len(TargetHistory["a"])]

AppInv ==
    /\ DOMAIN tasks = Tasks /\ DOMAIN device = DeviceFields /\ NodeTyped /\ SentTyped
    /\ PageFits(page) /\ Alone
    /\ \A t \in Tasks :
          /\ TaskTyped(tasks[t]) /\ Vouched(page, tasks[t])
          /\ Underway(txs, lost, device.journal, tasks[t]) /\ Gathered(node, tasks[t])
    /\ DeliveredOnce /\ ReportsAreFaithful
=============================================================================
