--------------------------- MODULE ParticipantApp ---------------------------
(***************************************************************************)
(* What a buyer and a worker do in the web app: offers and work files,     *)
(* signing, the live read of a job, and the transactions they ask the      *)
(* wallet for.  The source ledger is the one of SourceCoordinator at the   *)
(* grain of the reads: the status of each milestone and the head.          *)
(***************************************************************************)
EXTENDS WorkspaceApp

Worker(order) == Terms[order].worker
Accept(order) == [name |-> "acceptQuote", order |-> order]
Approve(order, m) == [name |-> "approve", order |-> order, milestone |-> m]
Pay(epoch) == [name |-> "withdrawFor", epoch |-> epoch]

\* sourceActionNeedsSafe, preparedSource.requiredAccount
NeedsSafe(call) == call.name \in {"acceptQuote", "approve"}

Asking(call, account) == [call |-> call, account |-> account, hash |-> 0]

-----------------------------------------------------------------------------
(* Offers and work files *)

\* A packet becomes the page's draft and the selected work.
Adopted(packet, m) ==
    [WithDraft(WithoutRead(page), packet) EXCEPT !.packet = packet, !.milestone = m, !.acked = Nothing]
Kept(packet, m) == [device EXCEPT !.draft = packet, !.works = Upsert(device.works, packet, m)]

OfferInput ==
    /\ Spend("offerInput")
    /\ page' = WithoutPrepared(page)
    /\ Raise(DraftMarks)
    /\ UNCHANGED <<device, walletVars, ledgerVars, cleared>>

\* The offer form is submitted: createDraft reads both ledgers.
SubmitOffer(t, order) ==
    /\ Spend("offer") /\ Verified
    /\ page' = WithDraft(page, Nothing)
    /\ Start(t, "offer", "reading", DraftMarks, {"draft"}, [packet |-> Packet(order, FALSE)])
    /\ UNCHANGED <<device, walletVars, ledgerVars, cleared>>

OfferCreated(t) ==
    LET packet == tasks[t].item.packet
    IN  /\ At(t, "offer", "reading") /\ Fresh(t, {"draft"})
        /\ Eligible(packet.order, source)
        /\ page' = Adopted(packet, 1)
        /\ device' = Kept(packet, 1)
        /\ Finish(t, ReadMarks \cup DraftMarks)
        /\ UNCHANGED <<walletVars, ledgerVars, cleared, budget>>

\* A file is chosen on the orders page or under My work.
ChooseFile(t, packet, orders) ==
    /\ Spend("file")
    /\ page' = IF orders THEN WithoutPrepared(page) ELSE page
    /\ Start(t, "import", "file", IF orders THEN DraftMarks ELSE {}, {}, [packet |-> packet])
    /\ UNCHANGED <<device, walletVars, ledgerVars, cleared>>

\* importParticipantAuthorization: the review of the parsed file starts.
ReviewFile(t) ==
    /\ At(t, "import", "file") /\ Verified
    /\ tasks' = [Raised({"work"}) EXCEPT ![t] =
                    [tasks[t] EXCEPT !.at = "review", !.holds = {"work", "draft"},
                                     !.setup = page.setup]]
    /\ UNCHANGED <<page, device, walletVars, ledgerVars, cleared, budget>>

FileReviewed(t) ==
    LET packet == tasks[t].item.packet
        adopted == Adopted(packet, 1)
    IN  /\ At(t, "import", "review") /\ Fresh(t, {"work", "draft"})
        /\ Reviewable(packet, source)
        /\ page' = IF packet.signed
                   THEN [adopted EXCEPT !.read = ReadWork(packet, 1, source)] ELSE adopted
        /\ device' = Kept(packet, 1)
        /\ Finish(t, ReadMarks \cup DraftMarks)
        /\ UNCHANGED <<walletVars, ledgerVars, cleared, budget>>

SelectSaved(record) ==
    /\ Spend("select")
    /\ page' = Adopted(record.packet, record.milestone)
    /\ Raise(ReadMarks \cup DraftMarks)
    /\ UNCHANGED <<device, walletVars, ledgerVars, cleared>>

\* Only the read is forgotten; a call prepared for the orders page stays.
SelectMilestone(m) ==
    /\ page.packet # Nothing /\ m \in Milestones(page.packet.order) \ {page.milestone}
    /\ Spend("milestone")
    /\ page' = [WithoutRead(page) EXCEPT !.milestone = m, !.acked = Nothing]
    /\ device' = [device EXCEPT !.works = Upsert(@, page.packet, m)]
    /\ Raise(ReadMarks)
    /\ UNCHANGED <<walletVars, ledgerVars, cleared>>

\* A finished job becomes the template of a new offer; the selected work is put away.
UseTemplate(t, order) ==
    /\ Spend("followup") /\ Verified
    /\ Start(t, "followup", "reading", {"followup"}, {"followup", "draft"}, [order |-> order])
    /\ UNCHANGED <<page, device, walletVars, ledgerVars, cleared>>

TemplateRead(t) ==
    /\ At(t, "followup", "reading") /\ Fresh(t, {"followup", "draft"})
    /\ source.room
    /\ \A m \in Milestones(tasks[t].item.order) : source.work[tasks[t].item.order][m] = "final"
    /\ page' = [WithDraft(WithoutRead(page), Nothing) EXCEPT !.packet = Nothing]
    /\ device' = [device EXCEPT !.draft = Nothing]
    /\ Finish(t, ReadMarks \cup DraftMarks)
    /\ UNCHANGED <<walletVars, ledgerVars, cleared, budget>>

-----------------------------------------------------------------------------
(* The worker signs *)

Acknowledge ==
    /\ page.packet # Nothing /\ ~page.packet.signed /\ page.acked # page.packet.order
    /\ Spend("ack")
    /\ page' = [page EXCEPT !.acked = page.packet.order]
    /\ UNCHANGED <<device, tasks, walletVars, ledgerVars, cleared>>

SignQuote(t) ==
    /\ Spend("sign") /\ Verified /\ ~Busy("sign")
    /\ page.draft # Nothing /\ ~page.draft.signed /\ page.acked = page.draft.order
    /\ Start(t, "sign", "review", {}, {"draft"}, [packet |-> page.draft, account |-> Nothing])
    /\ UNCHANGED <<page, device, walletVars, ledgerVars, cleared>>

\* The offer is reviewed again, then the wallet is looked at.
SignSession(t) ==
    /\ At(t, "sign", "review") /\ Fresh(t, {"draft"})
    /\ Eligible(tasks[t].item.packet.order, source)
    /\ Connected(t, "session", [tasks[t].item EXCEPT !.account = wallet.account])
    /\ UNCHANGED <<device, walletVars, ledgerVars, cleared, budget>>

SignAsk(t) ==
    /\ At(t, "sign", "session") /\ Fresh(t, {"draft", "wallet"})
    /\ tasks[t].item.account = Worker(tasks[t].item.packet.order)
    /\ Proceed(t, "asked", tasks[t].item)
    /\ UNCHANGED <<page, device, walletVars, ledgerVars, cleared, budget>>

\* The wallet signs; its session is looked at no more after that.
SignReturned(t) ==
    /\ At(t, "sign", "asked") /\ Fresh(t, {"draft", "wallet"})
    /\ Proceed(t, "returned", tasks[t].item)
    /\ UNCHANGED <<page, device, walletVars, ledgerVars, cleared, budget>>

\* The signature is adopted if the account confirms it now and the offer is still the
\* one shown.
Signed(t) ==
    LET packet == Packet(tasks[t].item.packet.order, TRUE)
    IN  /\ At(t, "sign", "returned") /\ Fresh(t, {"draft"})
        /\ Honoured(packet, source)
        /\ page' = Adopted(packet, page.milestone)
        /\ device' = Kept(packet, page.milestone)
        /\ Finish(t, ReadMarks \cup DraftMarks)
        /\ UNCHANGED <<walletVars, ledgerVars, cleared, budget>>

-----------------------------------------------------------------------------
(* The live job *)

CheckJob(t) ==
    /\ Spend("read") /\ Verified /\ page.packet # Nothing
    /\ Start(t, "read", "reading", {"work"}, {"work"},
             [packet |-> page.packet, milestone |-> page.milestone])
    /\ UNCHANGED <<page, device, walletVars, ledgerVars, cleared>>

JobRead(t) ==
    LET item == tasks[t].item
    IN  /\ At(t, "read", "reading") /\ Fresh(t, {"work"})
        /\ page.packet # Nothing /\ page.packet.order = item.packet.order
        /\ page' = [page EXCEPT !.read = ReadWork(item.packet, item.milestone, source)]
        /\ device' = [device EXCEPT !.works = Upsert(@, item.packet, page.milestone)]
        /\ Finish(t, {})
        /\ UNCHANGED <<walletVars, ledgerVars, cleared, budget>>

TypeDelivery(content) ==
    /\ content # page.content /\ Spend("type")
    /\ page' = [WithoutPrepared(page) EXCEPT !.content = content]
    /\ Raise(PreparedMarks)
    /\ UNCHANGED <<device, walletVars, ledgerVars, cleared>>

\* prepareParticipantWorkAction: the call is also left on the orders page, where
\* it has to be prepared once more before it can be executed from there.
PrepareWork ==
    LET call == PrepareDelivery(page.read, page.content)
    IN  /\ Spend("continue") /\ Verified
        /\ page.read # Nothing /\ page.packet # Nothing
        /\ page.read.packet.order = page.packet.order
        /\ Deliverable(page.read, page.content)
        /\ page' = [page EXCEPT !.control = call,
                        !.prepared = [call |-> call, setup |-> page.setup, enabled |-> FALSE],
                        !.delivery = [call |-> call, setup |-> page.setup]]
        /\ Raise(PreparedMarks)
        /\ UNCHANGED <<device, walletVars, ledgerVars, cleared>>

-----------------------------------------------------------------------------
(* Sending a delivery: sendParticipantWorkAction *)

Journaled(call) == {entry \in device.journal : entry.call = call}

\* Mutant (DeliveredOnce): a delivery that is in the journal can be sent again.
SendWorkAgain(t) ==
    /\ Spend("send") /\ ~Busy("worker") /\ Verified
    /\ page.delivery # Nothing /\ page.packet # Nothing
    /\ page.delivery.setup = page.setup /\ page.delivery.call.order = page.packet.order
    /\ Start(t, "worker", "checking", {}, {"work"}, Asking(page.delivery.call, Nothing))
    /\ UNCHANGED <<page, device, walletVars, ledgerVars, cleared>>

SendWork(t) ==
    /\ Spend("send") /\ ~Busy("worker") /\ Verified
    /\ page.delivery # Nothing /\ page.packet # Nothing
    /\ page.delivery.setup = page.setup /\ page.delivery.call.order = page.packet.order
    /\ Journaled(page.delivery.call) = {}
    /\ Start(t, "worker", "checking", {}, {"work"}, Asking(page.delivery.call, Nothing))
    /\ UNCHANGED <<page, device, walletVars, ledgerVars, cleared>>

\* Mutant (LeavesAsShown): only the order and the text are compared again.
SameOrderAndText(t) ==
    LET call == tasks[t].item.call
    IN  /\ page.packet # Nothing /\ page.packet.order = call.order
        /\ page.delivery # Nothing /\ page.delivery.call.content = call.content

\* assertSelection
SameSelection(t) ==
    LET call == tasks[t].item.call
    IN  /\ Fresh(t, {"work"})
        /\ page.packet # Nothing /\ page.packet.order = call.order
        /\ page.delivery # Nothing /\ page.delivery.call.content = call.content

WorkSession(t) ==
    /\ At(t, "worker", "checking") /\ SameSelection(t)
    /\ Connected(t, "session", [tasks[t].item EXCEPT !.account = wallet.account])
    /\ UNCHANGED <<device, walletVars, ledgerVars, cleared, budget>>

\* The job is read once more, and the same transaction must follow from it.
WorkAsk(t) ==
    LET item == tasks[t].item
        read == ReadWork(Packet(item.call.order, TRUE), item.call.milestone, source)
    IN  /\ At(t, "worker", "session") /\ SameSelection(t) /\ Fresh(t, {"wallet"})
        /\ item.account = Worker(item.call.order)
        /\ Deliverable(read, item.call.content)
        /\ Proceed(t, "asked", item)
        /\ UNCHANGED <<page, device, walletVars, ledgerVars, cleared, budget>>

\* The hash is saved before anything else happens with it.
WorkJournaled(t) ==
    LET item == tasks[t].item
    IN  /\ At(t, "worker", "answered")
        /\ device' = [device EXCEPT !.journal =
                (@ \ Journaled(item.call)) \cup
                    {[call |-> item.call, hash |-> item.hash, state |-> "pending"]}]
        /\ page' = IF SameSelection(t) THEN WithoutPrepared(page) ELSE page
        /\ Proceed(t, "receipt", item)
        /\ UNCHANGED <<walletVars, ledgerVars, cleared, budget>>

Updated(call, hash) ==
    IF txs[hash].outcome = "waiting" THEN device.journal
    ELSE {IF entry.call = call
          THEN [entry EXCEPT !.state = IF txs[hash].outcome = "ok" THEN "confirmed" ELSE "failed"]
          ELSE entry : entry \in device.journal}

WorkReceipt(t) ==
    LET item == tasks[t].item
    IN  /\ At(t, "worker", "receipt")
        /\ device' = [device EXCEPT !.journal = Updated(item.call, item.hash)]
        /\ Finish(t, {})
        /\ UNCHANGED <<page, walletVars, ledgerVars, cleared, budget>>

\* Recheck receipt, for a saved submission
Recheck(t, entry) ==
    /\ Spend("recheck") /\ Verified
    /\ Start(t, "recheck", "receipt", {}, {}, [Asking(entry.call, Nothing) EXCEPT !.hash = entry.hash])
    /\ UNCHANGED <<page, device, walletVars, ledgerVars, cleared>>

Rechecked(t) ==
    LET item == tasks[t].item
    IN  /\ At(t, "recheck", "receipt")
        /\ \E entry \in Journaled(item.call) : entry.hash = item.hash
        /\ device' = [device EXCEPT !.journal = Updated(item.call, item.hash)]
        /\ Finish(t, {})
        /\ UNCHANGED <<page, walletVars, ledgerVars, cleared, budget>>

-----------------------------------------------------------------------------
(* Source and target calls from their forms: sendPrepared *)

\* A function and its arguments are put in the form, by hand or from a job that was read.
SourceInput(call) ==
    /\ Spend("control")
    /\ page' = [WithoutPrepared(page) EXCEPT !.control = call]
    /\ Raise(PreparedMarks)
    /\ UNCHANGED <<device, walletVars, ledgerVars, cleared>>

PrepareSource ==
    /\ page.control # Nothing /\ Spend("prepare") /\ Verified
    /\ page' = [WithoutPrepared(page) EXCEPT
                    !.prepared = [call |-> page.control, setup |-> page.setup, enabled |-> TRUE]]
    /\ Raise(PreparedMarks)
    /\ UNCHANGED <<device, walletVars, ledgerVars, cleared>>

\* prepareSignedQuote: Safe acceptance of a signed offer, after fresh checks.
PrepareQuote(t) ==
    /\ Spend("quote") /\ Verified /\ page.draft # Nothing /\ page.draft.signed
    /\ page' = WithoutPrepared(page)
    /\ Start(t, "quote", "reading", PreparedMarks, {"draft"}, [packet |-> page.draft])
    /\ UNCHANGED <<device, walletVars, ledgerVars, cleared>>

QuotePrepared(t) ==
    LET call == Accept(tasks[t].item.packet.order)
    IN  /\ At(t, "quote", "reading") /\ Fresh(t, {"draft"})
        /\ Honoured(tasks[t].item.packet, source) /\ Eligible(call.order, source)
        /\ page' = [page EXCEPT !.control = call,
                        !.prepared = [call |-> call, setup |-> page.setup, enabled |-> TRUE]]
        /\ Finish(t, {})
        /\ UNCHANGED <<device, walletVars, ledgerVars, cleared, budget>>

ExecuteSource(t) ==
    /\ Spend("execute") /\ Verified
    /\ page.prepared # Nothing /\ page.prepared.enabled
    /\ page.prepared.setup = page.setup /\ page.prepared.call = page.control
    /\ Start(t, "source", "checking", {}, {"write"}, Asking(page.prepared.call, Nothing))
    /\ UNCHANGED <<page, device, walletVars, ledgerVars, cleared>>

\* A payment is sent from the payments form; it needs no preparation.
ExecuteTarget(t, epoch) ==
    /\ Spend("target") /\ Verified
    /\ Start(t, "target", "checking", {}, {"write"}, Asking(Pay(epoch), Nothing))
    /\ UNCHANGED <<page, device, walletVars, ledgerVars, cleared>>

PreparedSession(t) ==
    /\ tasks[t].kind \in {"source", "target"} /\ tasks[t].at = "checking" /\ Fresh(t, {"write"})
    /\ Connected(t, "session", [tasks[t].item EXCEPT !.account = wallet.account])
    /\ UNCHANGED <<device, walletVars, ledgerVars, cleared, budget>>

\* The last look at the page; then the call is left to signer.sendTransaction.
PreparedHanded(t) ==
    LET item == tasks[t].item
    IN  /\ tasks[t].kind \in {"source", "target"} /\ tasks[t].at = "session"
        /\ Fresh(t, {"write", "wallet"})
        /\ tasks[t].kind = "source" /\ NeedsSafe(item.call) => item.account = SafeOf[tasks[t].setup]
        /\ Proceed(t, "handed", item)
        /\ UNCHANGED <<page, device, walletVars, ledgerVars, cleared, budget>>

\* The signer has read the block number and estimated the gas, and asks the wallet,
\* whatever the page shows by now.
PreparedAsk(t) ==
    /\ tasks[t].kind \in {"source", "target"} /\ tasks[t].at = "handed"
    /\ Proceed(t, "asked", tasks[t].item)
    /\ UNCHANGED <<page, device, walletVars, ledgerVars, cleared, budget>>

\* The page waits for the confirmation and says so; nothing is kept.
PreparedSent(t) ==
    /\ tasks[t].kind \in {"source", "target"} /\ tasks[t].at = "answered"
    /\ txs[tasks[t].item.hash].outcome # "waiting"
    /\ Finish(t, {})
    /\ UNCHANGED <<page, device, walletVars, ledgerVars, cleared, budget>>

-----------------------------------------------------------------------------
(* The source ledger *)

Advance ==
    /\ Spend("head")
    /\ source' = [source EXCEPT !.head = @ + 1]
    /\ UNCHANGED <<page, device, tasks, walletVars, txs, node, cleared>>

\* Others take the capacity, or use the nonce.
RoomLost ==
    /\ source.room /\ Spend("room")
    /\ source' = [source EXCEPT !.room = FALSE]
    /\ UNCHANGED <<page, device, tasks, walletVars, txs, node, cleared>>

\* A worker's account that is a contract starts or stops to confirm its signature.
PolicyChanges(order) ==
    /\ Spend("policy")
    /\ source' = [source EXCEPT !.honoured = IF order \in @ THEN @ \ {order} ELSE @ \cup {order}]
    /\ UNCHANGED <<page, device, tasks, walletVars, txs, node, cleared>>

\* The buyer's Safe acts elsewhere: it accepts, challenges or lets the job be finalized.
SafeActs(order, m, before, after) ==
    /\ source.work[order][m] = before
    /\ <<before, after>> \in {<<"unknown", "offered">>, <<"offered", "agreed">>,
                              <<"delivered", "challenged">>, <<"delivered", "final">>,
                              <<"challenged", "final">>}
    /\ Spend("safe")
    /\ source' = [source EXCEPT !.work[order] =
            IF after \in {"offered", "agreed"} THEN [k \in Milestones(order) |-> after]
            ELSE [@ EXCEPT ![m] = after]]
    /\ UNCHANGED <<page, device, tasks, walletVars, txs, node, cleared>>

\* What a mined call does, and whether it succeeds.
Works(tx) ==
    LET call == tx.call
    IN  CASE call.name = "deliver" ->
                /\ tx.from = Worker(call.order)
                /\ source.work[call.order][call.milestone] \in {"agreed", "delivered"}
                /\ source.head < Terms[call.order].steps[call.milestone].deliver
          [] call.name = "acceptQuote" ->
                /\ tx.from \in {SafeOf[s] : s \in Trusted}
                /\ Eligible(call.order, source) /\ call.order \in source.honoured
                /\ \A m \in Milestones(call.order) : source.work[call.order][m] = "unknown"
          [] call.name = "approve" ->
                /\ tx.from \in {SafeOf[s] : s \in Trusted}
                /\ source.work[call.order][call.milestone] = "delivered"
                /\ source.head < Terms[call.order].steps[call.milestone].review
          [] OTHER -> TRUE

After(call) ==
    CASE call.name = "deliver" -> [source.work EXCEPT ![call.order][call.milestone] = "delivered"]
      [] call.name = "acceptQuote" ->
            [source.work EXCEPT ![call.order] = [m \in Milestones(call.order) |-> "agreed"]]
      [] call.name = "approve" -> [source.work EXCEPT ![call.order][call.milestone] = "final"]
      [] OTHER -> source.work

Mine(hash) ==
    /\ txs[hash].outcome = "waiting"
    /\ \E works \in {Works(txs[hash])} :
          /\ txs' = [txs EXCEPT ![hash].outcome = IF works THEN "ok" ELSE "failed"]
          /\ source' = IF works THEN [source EXCEPT !.work = After(txs[hash].call)] ELSE source
    /\ UNCHANGED <<page, device, tasks, walletVars, node, cleared, budget>>
=============================================================================
